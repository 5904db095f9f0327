--------------------------- MODULE GroupNegotiation ----------------------------
(***************************************************************************)
(* kicad/group_negotiation.py, negotiate_route_groups: ordinary nets and   *)
(* whole buses are rerouted pass after pass on a private clone of the      *)
(* caller's ledger and route map, until nothing is overused or a budget is *)
(* spent. Every attempt calls the caller's search.                         *)
(*                                                                         *)
(* The search is code of the caller. It may return a candidate or a        *)
(* failure, raise, answer with an outcome the negotiation rejects, or      *)
(* write to a ledger or route map that is not its own. The costs (history, *)
(* present factor) are only shown to the search and are left out, as are   *)
(* the chosen bundles, which repeat the routes of their target.            *)
(***************************************************************************)
EXTENDS Occupancy

CONSTANTS
  Target,         \* what is negotiated: a bus, or one ordinary net
  Bus,            \* the target that is a bus
  Nets,           \* [Target -> SUBSET Net]: the nets a target owns
  Rank,           \* [Target -> Nat]: the baseline order
  MaxPasses, MaxStagnant, MaxWork, MaxWorkPerTarget,   \* the budget
  Stray           \* <<net, route>>: what a callback may write without leave

ASSUME GroupAssumption ==
  /\ IsFiniteSet(Target) /\ Bus \in Target
  /\ Nets \in [Target -> SUBSET Net]
  /\ \A s, t \in Target : s # t => Nets[s] \cap Nets[t] = {}
  /\ Rank \in [Target -> Nat]
  /\ \A s, t \in Target : s # t => Rank[s] # Rank[t]
  /\ {MaxPasses, MaxStagnant, MaxWork, MaxWorkPerTarget} \subseteq Nat
  /\ Stray \subseteq Net \X Route

VARIABLES
  ledger,  \* the caller's OccupancyLedger
  routes,  \* the caller's routes_by_net
  nego     \* the run of negotiate_route_groups, or NoRun

NoRun ==
  [status |-> "off", targets |-> {}, pending |-> {},
   score |-> [t \in Target |-> 0], pass |-> 0, best |-> << >>, stagnant |-> 0,
   work |-> 0, ledger |-> NewLedger([n \in {} |-> {}]), routes |-> [n \in {} |-> {}],
   original |-> [claims |-> [n \in {} |-> {}], routes |-> [n \in {} |-> {}]]]

Whole(rts, t) == Nets[t] \subseteq DOMAIN rts \/ Nets[t] \cap DOMAIN rts = {}

Owned(targets) == UNION { Nets[t] : t \in targets }

\* _validate_initial_state
Negotiable(targets) ==
  /\ \A t \in targets : Whole(routes, t)
  /\ Only(ledger.byNet, DOMAIN routes) = ClaimsOf(routes)

\* the private clone, with the routes of every target ripped up
StartRun(targets) ==
  nego' =
    [status   |-> IF MaxPasses = 0 THEN "exhausted" ELSE "searching",
     targets  |-> targets,
     pending  |-> targets,
     score    |-> [t \in Target |-> 0],
     pass     |-> 0,
     best     |-> << >>,
     stagnant |-> 0,
     work     |-> 0,
     ledger   |-> RipUp(NewLedger(ledger.byNet), Owned(targets)),
     routes   |-> Without(routes, Owned(targets)),
     original |-> [claims |-> ledger.byNet, routes |-> routes]]

\* what a callback can make of a ledger or a route map that is not its own
StrayLedgers(l) ==
  { RipUp(l, {s[1]}) : s \in Stray }
    \cup { Commit(l, [n \in {s[1]} |-> Occupies[s[2]]]) : s \in Stray }

StrayRoutes(rts) ==
  { Without(rts, {s[1]}) : s \in Stray }
    \cup { Override(rts, [n \in {s[1]} |-> s[2]]) : s \in Stray }

StrayBoth(l, rts) ==
  { << Commit(l, [n \in {s[1]} |-> Occupies[s[2]]]),
       Override(rts, [n \in {s[1]} |-> s[2]]) >> : s \in Stray }

\* the state a callback leaves: as it was, or with one or both written to
Returned ==
  { << ledger, routes >> } \cup StrayBoth(ledger, routes)
    \cup { << l, routes >> : l \in StrayLedgers(ledger) }
    \cup { << ledger, rts >> : rts \in StrayRoutes(routes) }

\* _reroute_order: the most overused target first, then the baseline order
IsNext(t) ==
  /\ t \in nego.pending
  /\ \A s \in nego.pending \ {t} :
       \/ nego.score[s] < nego.score[t]
       \/ nego.score[s] = nego.score[t] /\ Rank[t] < Rank[s]

Searching(t) == nego.status = "searching" /\ IsNext(t)

Stripped(t) == RipUp(nego.ledger, Nets[t])

\* the run ends: whatever was installed on the private clone is put back
PutBack(status, l) ==
  nego' = [nego EXCEPT !.status = status,
                       !.ledger = Reload(l, nego.original.claims),
                       !.routes = nego.original.routes,
                       !.pending = {}]

\* Faulty variant: the route map is not compared.
CallerLedgerKept(l, rts) == l.byNet = nego.original.claims

(***************************************************************************)
(* _ensure_caller_unchanged after a search that left << l, rts >>: what    *)
(* was written to the caller's state is undone and reported.               *)
(***************************************************************************)
CallerKept(l, rts) == l.byNet = nego.original.claims /\ rts = nego.original.routes

EnsureCallerUnchanged(l, rts) ==
  IF CallerKept(l, rts)
  THEN ledger' = l /\ routes' = rts
  ELSE /\ ledger' = Reload(l, nego.original.claims)
       /\ routes' = nego.original.routes

(***************************************************************************)
(* The search raises, or its outcome is refused: it is bound to another    *)
(* target, misses a net, or reports work beyond its budget.                *)
(***************************************************************************)
SearchRaises(t) ==
  /\ Searching(t)
  /\ \E s \in Returned : EnsureCallerUnchanged(s[1], s[2])
  /\ PutBack("raised", Stripped(t))

(***************************************************************************)
(* The search wrote to its read-only private ledger. The error is raised   *)
(* before _ensure_caller_unchanged: if it wrote to the caller's state too, *)
(* that stays.                                                             *)
(***************************************************************************)
SearchWritesPrivate(t) ==
  /\ Searching(t)
  /\ \E l \in StrayLedgers(Stripped(t)) :
       /\ l.byNet # Stripped(t).byNet
       /\ PutBack("unguarded", l)
  /\ \E s \in Returned : ledger' = s[1] /\ routes' = s[2]

\* the search returned, but it wrote to the caller's state
SearchWritesCaller(t) ==
  /\ Searching(t)
  /\ \E s \in Returned :
       /\ ~CallerKept(s[1], s[2])
       /\ EnsureCallerUnchanged(s[1], s[2])
  /\ PutBack("raised", Stripped(t))

\* Faulty variant: the run's budget is not looked at.
WorkOfOneTarget == 0 .. MaxWorkPerTarget

Work == 0 .. (IF MaxWork - nego.work < MaxWorkPerTarget
              THEN MaxWork - nego.work ELSE MaxWorkPerTarget)

(***************************************************************************)
(* GroupCandidateFailure: the attempt is undone, then the whole run.       *)
(***************************************************************************)
SearchFails(t) ==
  /\ Searching(t)
  /\ PutBack("rolled_back", Reload(Stripped(t), nego.ledger.byNet))
  /\ UNCHANGED << ledger, routes >>

Install(t) ==
  /\ Searching(t)
  /\ \E found \in [Nets[t] -> Route], w \in Work :
       nego' = [nego EXCEPT
                  !.ledger = Commit(Stripped(t), ClaimsOf(found)),
                  !.routes = Override(Without(nego.routes, Nets[t]), found),
                  !.work = nego.work + w,
                  !.pending = nego.pending \ {t}]
  /\ UNCHANGED << ledger, routes >>

\* one conflict point per overused unit of a resource a target has a part in
Score(t) ==
  TotalUnits(nego.ledger,
    { r \in Overused(nego.ledger) : nego.ledger.byResource[r] \cap Nets[t] # {} })

\* Faulty variant: the next pass begins before this one is accounted for.
EndPassUnaccounted ==
  /\ nego.status = "searching" /\ nego.pending = {}
  /\ nego' = [nego EXCEPT
                !.status = IF Overused(nego.ledger) = {} THEN "completed"
                           ELSE "searching",
                !.pending = IF Overused(nego.ledger) = {} THEN {}
                            ELSE nego.targets]
  /\ UNCHANGED << ledger, routes >>

EndPass ==
  LET objective == Objective(nego.ledger)
      first     == nego.best = << >>
      better    == first \/ Smaller(objective, nego.best)
      stagnant  == IF better THEN 0 ELSE nego.stagnant + 1
      over      == Overused(nego.ledger) # {}
      spent     == \/ MaxStagnant = 0
                   \/ ~better /\ stagnant >= MaxStagnant
                   \/ nego.work >= MaxWork
                   \/ nego.pass + 1 >= MaxPasses
  IN /\ nego.status = "searching" /\ nego.pending = {}
     /\ nego' = [nego EXCEPT
                   !.status = IF ~over THEN "completed"
                              ELSE IF spent THEN "exhausted" ELSE "searching",
                   !.pass = nego.pass + 1,
                   !.best = IF better THEN objective ELSE nego.best,
                   !.stagnant = stagnant,
                   !.pending = IF over /\ ~spent THEN nego.targets ELSE {},
                   !.score = [t \in Target |->
                                IF t \in nego.targets THEN Score(t) ELSE 0]]
     /\ UNCHANGED << ledger, routes >>

Negotiate ==
  \/ \E t \in nego.targets :
       \/ SearchRaises(t) \/ SearchWritesPrivate(t) \/ SearchWritesCaller(t)
       \/ SearchFails(t) \/ Install(t)
  \/ EndPass

================================================================================
