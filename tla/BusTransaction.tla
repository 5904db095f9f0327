----------------------------- MODULE BusTransaction ----------------------------
(***************************************************************************)
(* The transactions on one ledger and route map:                           *)
(*   "replace"  kicad/bus_transaction.py, BusRouteTransactionCoordinator;  *)
(*   "checked"  kicad/bus_checked_commit.py, BusCheckedCommitCoordinator;  *)
(*   "group"    kicad/group_board.py, MixedGroupCheckedCommitCoordinator,  *)
(*              which negotiates a candidate first (GroupNegotiation).     *)
(* The first two also release a candidate that was built and retained      *)
(* earlier, with the claims it was built beside: bus_replay_checked_commit *)
(* and bus_physical_swap_candidate_transaction.                            *)
(*                                                                         *)
(* One thread runs a call; it gives control to callbacks of its caller     *)
(* (search or builder, materializer, exact checker) and goes on when they  *)
(* return. An action runs from one callback to the next. A callback raises *)
(* or returns anything; the state it leaves behind is checked against      *)
(* fingerprints, except in replace, whose callers' searches only return a  *)
(* bundle. An interrupt that is no Exception ends the process, and the     *)
(* state with it.                                                          *)
(***************************************************************************)
EXTENDS GroupNegotiation

CONSTANT Standing  \* what a net without a route may claim (an obstacle)

ASSUME StandingAssumption == Standing \subseteq SUBSET Resource

VARIABLES
  pc,       \* where the call is: what it waits for
  call,     \* the locals of the call
  outcome,  \* how the last call ended
  entry     \* the board when the call began (observed, never used)

vars == << ledger, routes, nego, pc, call, outcome, entry >>

Member == Nets[Bus]

Bundles == [Member -> Route]

\* unaccepted dispositions, and an exception: the caller's state is kept
Unchanging == { "candidate_invalid", "candidate_failed", "checker_missing",
                "rejected", "negotiation_failed", "raised" }

Outcomes == Unchanging
  \cup { "none", "committed", "committed_and_raised", "accepted", "broken" }

(***************************************************************************)
(* A retained candidate: a bundle that was complete and without overuse    *)
(* beside the claims of the other nets at the time.                        *)
(***************************************************************************)
Claimed(nets) == [nets -> { Occupies[r] : r \in Route } \cup Standing]

Authorities ==
  { a \in [initial : UNION { Claimed(S) : S \in SUBSET (Net \ Member) },
           bundle : Bundles] :
      ZeroOveruse(Override(a.initial, ClaimsOf(a.bundle))) }

NoBoard == [claims |-> [n \in {} |-> {}], routes |-> [n \in {} |-> {}]]

NoCall == [kind |-> "none", authority |-> {}, claims |-> NoBoard.claims,
           routes |-> NoBoard.routes]

Board == [claims |-> ledger.byNet, routes |-> routes]

\* route map and ledger say the same of every net (BusRouteStateSnapshot)
Coherent == ledger.byNet = ClaimsOf(routes)

Init ==
  /\ routes \in { rts \in RouteMaps : \A t \in Target : Whole(rts, t) }
  /\ \E S \in SUBSET (Net \ (DOMAIN routes \cup Member)) :
       \E claims \in [S -> Standing] :
         ledger = NewLedger(Override(claims, ClaimsOf(routes)))
  /\ nego = NoRun
  /\ pc = "idle"
  /\ call = NoCall
  /\ outcome = "none"
  /\ entry = NoBoard

Begin(kind, authority, next) ==
  /\ pc = "idle"
  /\ pc' = next
  /\ call' = [kind |-> kind, authority |-> authority,
              claims |-> ledger.byNet, routes |-> routes]
  /\ entry' = Board
  /\ outcome' = "none"

\* the call ends; its locals are gone
End(how) ==
  /\ pc' = IF how = "broken" THEN "broken" ELSE "idle"
  /\ outcome' = how
  /\ call' = NoCall
  /\ nego' = NoRun
  /\ entry' = NoBoard

Strip ==
  /\ ledger' = RipUp(ledger, Member)
  /\ routes' = Without(routes, Member)
  /\ UNCHANGED nego

(***************************************************************************)
(* replace. Every current member has a route whose claims are in the       *)
(* ledger, and the whole state is coherent; a retained swap also demands   *)
(* that the other nets claim exactly what they did. Otherwise the call     *)
(* raises before it touches anything.                                      *)
(***************************************************************************)
BeginReplace(authority) ==
  /\ Member \subseteq DOMAIN routes
  /\ Coherent
  /\ \A a \in authority : Without(ledger.byNet, Member) = a.initial
  /\ Begin("replace", authority, "search")
  /\ Strip

\* the old members, which replace restores one by one after an exception
OldMembers == Only(call.routes, Member)

\* Faulty variant: the old claims are not restored with the old routes.
SearchRaisesAndRoutesReturn ==
  /\ pc = "search"
  /\ ledger' = RipUp(ledger, Member)
  /\ routes' = Override(Without(routes, Member), OldMembers)
  /\ End("raised")

SearchRaisesInReplace ==
  /\ pc = "search"
  /\ ledger' = Commit(RipUp(ledger, Member), ClaimsOf(OldMembers))
  /\ routes' = Override(Without(routes, Member), OldMembers)
  /\ End("raised")

(***************************************************************************)
(* The bundle is committed, overused or not. The swap then refuses an      *)
(* overused board, after the fact (_validate_committed_transaction).       *)
(***************************************************************************)
SearchReturnsInReplace ==
  /\ pc = "search"
  /\ \E bundle \in Bundles :
       /\ \A a \in call.authority : ledger.byNet = a.initial /\ bundle = a.bundle
       /\ ledger' = Commit(ledger, ClaimsOf(bundle))
       /\ routes' = Override(routes, bundle)
  /\ IF call.authority # {} /\ Overused(ledger') # {}
     THEN End("committed_and_raised")
     ELSE End("committed")

(***************************************************************************)
(* A checked commit looks only at the bus members; one that releases a     *)
(* retained candidate demands a coherent board.                            *)
(***************************************************************************)
BeginChecked(authority) ==
  /\ Member \subseteq DOMAIN routes
  /\ Only(ledger.byNet, Member) = ClaimsOf(Only(routes, Member))
  /\ authority # {} => Coherent
  /\ Begin("checked", authority, "build")
  /\ Strip

\* Faulty variant: only the bus members' claims are restored.
UndoMembers(l, how) ==
  /\ ledger' = Commit(RipUp(l, Member), Only(call.claims, Member))
  /\ routes' = call.routes
  /\ End(how)

\* _restore_state from the snapshot of the call, then its outcome
Undo(l, how) ==
  /\ ledger' = Reload(l, call.claims)
  /\ routes' = call.routes
  /\ End(how)

\* Faulty variant: the route map is not compared.
LedgerUntouched(l, rts) == l.byNet = ledger.byNet

\* _require_callback_state: nothing a fingerprint shows has changed
Untouched(l, rts) == l.byNet = ledger.byNet /\ rts = routes

\* Faulty variant: the occupancy is not compared with the retained one.
OfferedAnywhere ==
  { bundle \in Bundles : \A a \in call.authority : bundle = a.bundle }

\* a retained candidate is released only beside the claims it was built with
Offered ==
  { bundle \in Bundles :
      \A a \in call.authority : ledger.byNet = a.initial /\ bundle = a.bundle }

(***************************************************************************)
(* The provisional board is kept for the materializer and the checker; an  *)
(* overused one is refused, and so is one nobody can check.                *)
(***************************************************************************)
Provisional(l, rts) ==
  \/ Overused(l) # {} /\ Undo(l, "candidate_invalid")
  \/ Overused(l) = {} /\ Undo(l, "checker_missing")
  \/ /\ Overused(l) = {}
     /\ ledger' = l /\ routes' = rts /\ pc' = "materialize"
     /\ UNCHANGED << nego, call, outcome, entry >>

\* the builder raises, or returns no candidate result, or changed the state
BuilderRaises ==
  /\ pc = "build"
  /\ \E s \in Returned : Undo(s[1], "raised")

\* its result is bound to another bus, or reports a failure or overuse
BuilderFails ==
  /\ pc = "build"
  /\ call.authority = {}
  /\ \E s \in Returned :
       /\ Untouched(s[1], s[2])
       /\ \E how \in {"candidate_invalid", "candidate_failed"} : Undo(s[1], how)

BuilderReturns ==
  /\ pc = "build"
  /\ \E s \in Returned, bundle \in Offered :
       /\ Untouched(s[1], s[2])
       /\ Provisional(Commit(s[1], ClaimsOf(bundle)), Override(s[2], bundle))

BeginGroup(targets) ==
  /\ targets # {}
  /\ Negotiable(targets)
  /\ Begin("group", {}, "negotiate")
  /\ StartRun(targets)
  /\ UNCHANGED << ledger, routes >>

NegotiateStep ==
  /\ pc = "negotiate"
  /\ Negotiate
  /\ UNCHANGED << pc, call, outcome, entry >>

NegotiationEnds ==
  /\ pc = "negotiate"
  /\ \/ nego.status \in {"exhausted", "rolled_back"} /\ End("negotiation_failed")
     \/ nego.status = "raised" /\ End("raised")
     \/ nego.status = "unguarded" /\ End("broken")
  /\ UNCHANGED << ledger, routes >>

(***************************************************************************)
(* _install_candidate: the negotiated map must hold every target, no other *)
(* new net, and every other route as it was; the coordinator's ledger is   *)
(* rebuilt from its routes alone and must then be the negotiated one.      *)
(***************************************************************************)
Installable ==
  /\ Owned(nego.targets) \subseteq DOMAIN nego.routes
  /\ DOMAIN nego.routes = DOMAIN call.routes \cup Owned(nego.targets)
  /\ Without(nego.routes, Owned(nego.targets))
       = Without(call.routes, Owned(nego.targets))

InstallNegotiated ==
  /\ pc = "negotiate"
  /\ nego.status = "completed"
  /\ LET l == Reload(ledger, ClaimsOf(nego.routes))
     IN IF Installable /\ l.byNet = nego.ledger.byNet
        THEN Provisional(l, nego.routes)
        ELSE Undo(IF Installable THEN l ELSE ledger, "candidate_invalid")

(***************************************************************************)
(* The materializer sees a copy of the layout and of the routes; anything  *)
(* but the complete mixed layout is refused.                               *)
(***************************************************************************)
MaterializerRaises ==
  /\ pc = "materialize"
  /\ \E s \in Returned : Undo(s[1], "raised")

MaterializerReturns ==
  /\ pc = "materialize"
  /\ \E s \in Returned :
       /\ Untouched(s[1], s[2])
       /\ ledger' = s[1] /\ routes' = s[2]
  /\ pc' = "check"
  /\ UNCHANGED << nego, call, outcome, entry >>

CheckerRaises ==
  /\ pc = "check"
  /\ \E s \in Returned : Undo(s[1], "raised")

CheckerRejects ==
  /\ pc = "check"
  /\ \E s \in Returned : Untouched(s[1], s[2]) /\ Undo(s[1], "rejected")

CheckerAccepts ==
  /\ pc = "check"
  /\ \E s \in Returned :
       /\ Untouched(s[1], s[2])
       /\ ledger' = s[1] /\ routes' = s[2]
  /\ End("accepted")

Continue ==
  \/ SearchRaisesInReplace \/ SearchReturnsInReplace
  \/ BuilderRaises \/ BuilderFails \/ BuilderReturns
  \/ NegotiateStep \/ NegotiationEnds \/ InstallNegotiated
  \/ MaterializerRaises \/ MaterializerReturns
  \/ CheckerRaises \/ CheckerRejects \/ CheckerAccepts

Ask ==
  \/ \E authority \in {{}} \cup { {a} : a \in Authorities } :
       BeginReplace(authority) \/ BeginChecked(authority)
  \/ \E targets \in SUBSET Target : BeginGroup(targets)

Next == Ask \/ Continue

Spec == Init /\ [][Next]_vars

\* a call that was begun is continued, and callbacks return
FairSpec == Spec /\ WF_vars(Continue)

--------------------------------------------------------------------------------
Boards == [claims : Claims, routes : RouteMaps]

Runs ==
  [status : {"off", "searching", "completed", "exhausted", "rolled_back",
             "raised", "unguarded"},
   targets : SUBSET Target, pending : SUBSET Target, score : [Target -> Int],
   pass : Nat, best : { << >> } \cup (Int \X Int \X Int), stagnant : Nat,
   work : 0 .. MaxWork, ledger : Ledgers, routes : RouteMaps,
   original : Boards]

Calls ==
  [kind : {"none", "replace", "checked", "group"},
   authority : SUBSET [initial : Claims, bundle : Bundles],
   claims : Claims, routes : RouteMaps]

\* Every variable keeps its type.
TypeOK ==
  /\ ledger \in Ledgers
  /\ routes \in RouteMaps
  /\ nego \in Runs
  /\ pc \in {"idle", "search", "build", "negotiate", "materialize", "check",
             "broken"}
  /\ call \in Calls
  /\ outcome \in Outcomes
  /\ entry \in Boards

(***************************************************************************)
(* The two indexes of OccupancyLedger agree after any sequence of rip-ups, *)
(* commits and restores, on the caller's ledger and on the private clone:  *)
(* no claim is left behind under a resource, and none is forgotten.        *)
(***************************************************************************)
LedgersIndexed == Indexed(ledger) /\ Indexed(nego.ledger)

(***************************************************************************)
(* Between calls, and between the attempts of a negotiation, the ledger    *)
(* holds for every routed net the claims of its route: no route without    *)
(* its claims and no claims of a route that was replaced.                  *)
(***************************************************************************)
RoutesHoldTheirClaims ==
  /\ pc = "idle" => Only(ledger.byNet, DOMAIN routes) = ClaimsOf(routes)
  /\ Only(nego.ledger.byNet, DOMAIN nego.routes) = ClaimsOf(nego.routes)

(***************************************************************************)
(* Between calls, and between attempts, a bus has routes for all of its    *)
(* members or for none, whichever member the search failed at.             *)
(***************************************************************************)
BusesAreWhole ==
  \A t \in Target : (pc = "idle" => Whole(routes, t)) /\ Whole(nego.routes, t)

(***************************************************************************)
(* A retained candidate that is released finds the occupancy it was built  *)
(* beside: it is never found overused, and no committed swap is reported   *)
(* as an error.                                                            *)
(***************************************************************************)
RetainedFits ==
  [][call.authority # {} =>
       outcome' \notin {"candidate_invalid", "committed_and_raised"}]_vars

(***************************************************************************)
(* The board that is accepted is the one the exact checker was given, even *)
(* if the checker itself wrote to the coordinator's state.                 *)
(***************************************************************************)
AcceptedAsChecked == [][outcome' = "accepted" /\ pc = "check" => Board' = Board]_vars

(***************************************************************************)
(* To its users every call takes effect in one step: it reroutes the nets  *)
(* of its targets and nothing else, without overuse if it was checked, or  *)
(* it leaves claims and routes exactly as they were.                       *)
(***************************************************************************)
Outside == INSTANCE RouteBoard WITH
  board <- IF pc \in {"idle", "broken"} THEN Board ELSE entry

CallsAreAtomic == Outside!Spec

\* A call that was begun ends: a negotiation does not go on for ever.
CallsEnd == pc \notin {"idle", "broken"} ~> pc \in {"idle", "broken"}

================================================================================
