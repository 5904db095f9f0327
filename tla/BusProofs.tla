------------------------------- MODULE BusProofs -------------------------------
(***************************************************************************)
(* Proofs about the route transactions, for any nets, resources, routes,   *)
(* targets, budgets and writes of the callbacks.                           *)
(***************************************************************************)
EXTENDS BusTransaction, OccupancyProofs

--------------------------------------------------------------------------------
(* Types of what callbacks leave, of a run and of the end of a call *)

LEMMA NetsFacts ==
  /\ Bus \in Target /\ Member \subseteq Net
  /\ \A t \in Target : Nets[t] \subseteq Net
  /\ \A targets \in SUBSET Target : Owned(targets) \subseteq Net
  /\ Bundles \subseteq RouteMaps
<1>1. Bus \in Target /\ \A t \in Target : Nets[t] \subseteq Net
  BY GroupAssumption
<1>2. \A targets \in SUBSET Target : Owned(targets) \subseteq Net
  BY <1>1 DEF Owned
<1>3. Member \in SUBSET Net
  BY <1>1 DEF Member
<1>4. QED
  BY <1>1, <1>2, <1>3, RouteMapsIntro DEF Bundles

LEMMA EmptyMaps ==
  /\ [n \in {} |-> {}] \in Claims
  /\ [n \in {} |-> {}] \in RouteMaps
<1>1. [n \in {} |-> {}] \in [{} -> SUBSET Resource] /\ [n \in {} |-> {}] \in [{} -> Route]
  OBVIOUS
<1>2. QED
  BY <1>1, ClaimsIntro, RouteMapsIntro

LEMMA StrayType ==
  ASSUME NEW s \in Stray
  PROVE  /\ [n \in {s[1]} |-> Occupies[s[2]]] \in Claims
         /\ [n \in {s[1]} |-> s[2]] \in RouteMaps
<1>1. s[1] \in Net /\ s[2] \in Route
  BY GroupAssumption
<1>2. Occupies[s[2]] \in SUBSET Resource
  BY <1>1, OccupancyAssumption
<1>3. /\ [n \in {s[1]} |-> Occupies[s[2]]] \in [{s[1]} -> SUBSET Resource]
      /\ [n \in {s[1]} |-> s[2]] \in [{s[1]} -> Route]
  BY <1>1, <1>2
<1>4. QED
  BY <1>1, <1>3, ClaimsIntro, RouteMapsIntro

LEMMA StrayLedgersFacts ==
  ASSUME NEW l \in Ledgers, NEW k \in StrayLedgers(l)
  PROVE  k \in Ledgers /\ (Indexed(l) => Indexed(k))
<1>1. CASE \E s \in Stray : k = RipUp(l, {s[1]})
  BY <1>1, RipUpFacts
<1>2. CASE \E s \in Stray : k = Commit(l, [n \in {s[1]} |-> Occupies[s[2]]])
  BY <1>2, StrayType, CommitFacts
<1>3. QED
  BY <1>1, <1>2 DEF StrayLedgers

\* A callback may write what it likes: types and indexes survive it.
LEMMA ReturnedFacts ==
  ASSUME ledger \in Ledgers, routes \in RouteMaps, NEW s \in Returned
  PROVE  /\ s[1] \in Ledgers /\ s[2] \in RouteMaps
         /\ Indexed(ledger) => Indexed(s[1])
<1>1. CASE s = << ledger, routes >>
  BY <1>1
<1>2. CASE s \in StrayBoth(ledger, routes)
  <2>1. PICK w \in Stray :
          s = << Commit(ledger, [n \in {w[1]} |-> Occupies[w[2]]]),
                 Override(routes, [n \in {w[1]} |-> w[2]]) >>
    BY <1>2 DEF StrayBoth
  <2>2. /\ s[1] = Commit(ledger, [n \in {w[1]} |-> Occupies[w[2]]])
        /\ s[2] = Override(routes, [n \in {w[1]} |-> w[2]])
    BY <2>1
  <2>3. /\ [n \in {w[1]} |-> Occupies[w[2]]] \in Claims
        /\ [n \in {w[1]} |-> w[2]] \in RouteMaps
    BY StrayType
  <2>4. QED
    BY <2>2, <2>3, CommitFacts, RouteMapsMaps
<1>3. CASE \E l \in StrayLedgers(ledger) : s = << l, routes >>
  BY <1>3, StrayLedgersFacts
<1>4. CASE \E rts \in StrayRoutes(routes) : s = << ledger, rts >>
  <2>1. PICK rts \in StrayRoutes(routes) : s = << ledger, rts >>
    BY <1>4
  <2>2. rts \in RouteMaps
    <3>1. CASE \E w \in Stray : rts = Without(routes, {w[1]})
      BY <3>1, RouteMapsMaps
    <3>2. CASE \E w \in Stray : rts = Override(routes, [n \in {w[1]} |-> w[2]])
      BY <3>2, StrayType, RouteMapsMaps
    <3>3. QED
      BY <3>1, <3>2 DEF StrayRoutes
  <2>3. QED
    BY <2>1, <2>2
<1>5. QED
  BY <1>1, <1>2, <1>3, <1>4 DEF Returned

LEMMA NoRunFacts == NoRun \in Runs /\ Indexed(NoRun.ledger)
<1>1. /\ NewLedger([n \in {} |-> {}]) \in Ledgers
      /\ Indexed(NewLedger([n \in {} |-> {}]))
  BY EmptyMaps, NewLedgerFacts
<1>2. [claims |-> [n \in {} |-> {}], routes |-> [n \in {} |-> {}]] \in Boards
  BY EmptyMaps DEF Boards
<1>3. 0 \in 0 .. MaxWork /\ [t \in Target |-> 0] \in [Target -> Int]
  BY GroupAssumption
<1>4. QED
  BY <1>1, <1>2, <1>3, EmptyMaps DEF NoRun, Runs

LEMMA EndTypes ==
  ASSUME NEW how \in Outcomes, End(how)
  PROVE  /\ pc' \in {"idle", "broken"} /\ call' \in Calls /\ outcome' \in Outcomes
         /\ nego' \in Runs /\ Indexed(nego'.ledger) /\ entry' \in Boards
<1>1. NoCall \in Calls
  BY EmptyMaps DEF NoCall, NoBoard, Calls
<1>2. NoBoard \in Boards
  BY EmptyMaps DEF NoBoard, Boards
<1>3. QED
  BY <1>1, <1>2, NoRunFacts DEF End

BaseInv == TypeOK /\ LedgersIndexed

LEMMA UndoBase ==
  ASSUME BaseInv, NEW l \in Ledgers, Indexed(l), NEW how \in Outcomes, Undo(l, how)
  PROVE  BaseInv'
<1>1. call.claims \in Claims /\ call.routes \in RouteMaps
  BY DEF BaseInv, TypeOK, Calls
<1>2. ledger' \in Ledgers /\ Indexed(ledger') /\ routes' \in RouteMaps
  BY <1>1, ReloadFacts DEF Undo
<1>3. QED
  BY <1>2, EndTypes DEF Undo, BaseInv, TypeOK, LedgersIndexed

--------------------------------------------------------------------------------
(* Types and indexes are preserved *)

LEMMA BaseInit == Init => BaseInv
<1> SUFFICES ASSUME Init PROVE BaseInv
  OBVIOUS
<1>1. routes \in RouteMaps
  BY DEF Init
<1>2. PICK S \in SUBSET (Net \ (DOMAIN routes \cup Member)) :
        \E claims \in [S -> Standing] :
          ledger = NewLedger(Override(claims, ClaimsOf(routes)))
  BY DEF Init
<1>2a. PICK claims \in [S -> Standing] :
         ledger = NewLedger(Override(claims, ClaimsOf(routes)))
  BY <1>2
<1>3. claims \in Claims
  <2>1. S \in SUBSET Net /\ claims \in [S -> SUBSET Resource]
    BY StandingAssumption
  <2>2. QED
    BY <2>1, ClaimsIntro
<1>4. Override(claims, ClaimsOf(routes)) \in Claims
  BY <1>1, <1>3, ClaimsOfType, ClaimsMaps
<1>5. ledger \in Ledgers /\ Indexed(ledger)
  BY <1>2a, <1>4, NewLedgerFacts
<1>6. NoCall \in Calls /\ NoBoard \in Boards
  BY EmptyMaps DEF NoCall, NoBoard, Calls, Boards
<1>7. QED
  BY <1>1, <1>5, <1>6, NoRunFacts DEF Init, BaseInv, TypeOK, LedgersIndexed, Outcomes

LEMMA BeginBase ==
  ASSUME BaseInv, NEW kind \in {"replace", "checked", "group"},
         NEW authority \in SUBSET Authorities,
         NEW next \in {"search", "build", "negotiate"},
         Begin(kind, authority, next)
  PROVE  pc' = next /\ call' \in Calls /\ entry' \in Boards /\ outcome' \in Outcomes
<1>1. ledger.byNet \in Claims /\ routes \in RouteMaps
  BY LedgerForm DEF BaseInv, TypeOK
<1>2. Authorities \subseteq [initial : Claims, bundle : Bundles]
  <2>1. ASSUME NEW S \in SUBSET (Net \ Member)
        PROVE  Claimed(S) \subseteq Claims
    <3>1. { Occupies[r] : r \in Route } \cup Standing \subseteq SUBSET Resource
      BY OccupancyAssumption, StandingAssumption
    <3>2. QED
      BY <3>1 DEF Claimed, Claims
  <2>2. QED
    BY <2>1 DEF Authorities
<1>3. QED
  BY <1>1, <1>2 DEF Begin, Calls, Boards, Board, Outcomes

LEMMA StripBase ==
  ASSUME BaseInv, Strip
  PROVE  /\ ledger' \in Ledgers /\ Indexed(ledger') /\ routes' \in RouteMaps
         /\ nego' \in Runs /\ Indexed(nego'.ledger)
BY RipUpFacts, RouteMapsMaps DEF Strip, BaseInv, TypeOK, LedgersIndexed

LEMMA StartRunBase ==
  ASSUME BaseInv, NEW targets \in SUBSET Target, StartRun(targets)
  PROVE  nego' \in Runs /\ Indexed(nego'.ledger)
<1> DEFINE private == RipUp(NewLedger(ledger.byNet), Owned(targets))
<1>1. ledger.byNet \in Claims /\ routes \in RouteMaps
  BY LedgerForm DEF BaseInv, TypeOK
<1>2. private \in Ledgers /\ Indexed(private)
  BY <1>1, NewLedgerFacts, RipUpFacts
<1>3. Without(routes, Owned(targets)) \in RouteMaps
  BY <1>1, RouteMapsMaps
<1>4. [claims |-> ledger.byNet, routes |-> routes] \in Boards
  BY <1>1 DEF Boards
<1>5. 0 \in 0 .. MaxWork /\ [t \in Target |-> 0] \in [Target -> Int]
  BY GroupAssumption
<1>6. nego'.ledger = private
  BY DEF StartRun
<1>7. nego' \in Runs
  <2> HIDE DEF private
  <2>1. nego' = [status   |-> IF MaxPasses = 0 THEN "exhausted" ELSE "searching",
                 targets  |-> targets, pending  |-> targets,
                 score    |-> [t \in Target |-> 0],
                 pass |-> 0, best |-> << >>, stagnant |-> 0, work |-> 0,
                 ledger   |-> private,
                 routes   |-> Without(routes, Owned(targets)),
                 original |-> [claims |-> ledger.byNet, routes |-> routes]]
    BY DEF StartRun, private
  <2>2. QED
    BY <1>2, <1>3, <1>4, <1>5, <2>1 DEF Runs
<1>8. QED
  BY <1>2, <1>6, <1>7

LEMMA PutBackBase ==
  ASSUME BaseInv, NEW status \in {"raised", "unguarded", "rolled_back"},
         NEW l \in Ledgers, Indexed(l), PutBack(status, l)
  PROVE  nego' \in Runs /\ Indexed(nego'.ledger)
<1>1. nego \in Runs /\ nego.original \in Boards
  BY DEF BaseInv, TypeOK, Runs
<1>2. nego.original.claims \in Claims /\ nego.original.routes \in RouteMaps
  BY <1>1 DEF Boards
<1>3. Reload(l, nego.original.claims) \in Ledgers /\ Indexed(Reload(l, nego.original.claims))
  BY <1>2, ReloadFacts
<1>4. QED
  BY <1>1, <1>2, <1>3 DEF PutBack, Runs

LEMMA EnsureBase ==
  ASSUME BaseInv, NEW s \in Returned, EnsureCallerUnchanged(s[1], s[2])
  PROVE  ledger' \in Ledgers /\ Indexed(ledger') /\ routes' \in RouteMaps
<1>1. /\ s[1] \in Ledgers /\ s[2] \in RouteMaps /\ Indexed(s[1])
  BY ReturnedFacts DEF BaseInv, TypeOK, LedgersIndexed
<1>2. nego.original.claims \in Claims /\ nego.original.routes \in RouteMaps
  BY DEF BaseInv, TypeOK, Runs, Boards
<1>3. QED
  BY <1>1, <1>2, ReloadFacts DEF EnsureCallerUnchanged

LEMMA StrippedFacts ==
  ASSUME BaseInv, NEW t
  PROVE  Stripped(t) \in Ledgers /\ Indexed(Stripped(t))
BY RipUpFacts DEF BaseInv, TypeOK, LedgersIndexed, Stripped, Runs

LEMMA NegotiateBase ==
  ASSUME BaseInv, Negotiate
  PROVE  /\ ledger' \in Ledgers /\ Indexed(ledger') /\ routes' \in RouteMaps
         /\ nego' \in Runs /\ Indexed(nego'.ledger)
<1>0. /\ ledger \in Ledgers /\ Indexed(ledger) /\ routes \in RouteMaps
      /\ nego \in Runs /\ nego.ledger \in Ledgers /\ Indexed(nego.ledger)
      /\ nego.targets \in SUBSET Target /\ nego.routes \in RouteMaps
      /\ nego.work \in 0 .. MaxWork /\ nego.pass \in Nat /\ nego.stagnant \in Nat
  BY DEF BaseInv, TypeOK, LedgersIndexed, Runs
<1>1. ASSUME NEW t \in nego.targets, SearchRaises(t)
      PROVE  /\ ledger' \in Ledgers /\ Indexed(ledger') /\ routes' \in RouteMaps
             /\ nego' \in Runs /\ Indexed(nego'.ledger)
  BY <1>1, EnsureBase, PutBackBase, StrippedFacts DEF SearchRaises
<1>2. ASSUME NEW t \in nego.targets, SearchWritesPrivate(t)
      PROVE  /\ ledger' \in Ledgers /\ Indexed(ledger') /\ routes' \in RouteMaps
             /\ nego' \in Runs /\ Indexed(nego'.ledger)
  <2>1. PICK l \in StrayLedgers(Stripped(t)) : PutBack("unguarded", l)
    BY <1>2 DEF SearchWritesPrivate
  <2>2. l \in Ledgers /\ Indexed(l)
    BY StrippedFacts, StrayLedgersFacts
  <2>3. PICK s \in Returned : ledger' = s[1] /\ routes' = s[2]
    BY <1>2 DEF SearchWritesPrivate
  <2>4. QED
    BY <1>0, <2>1, <2>2, <2>3, PutBackBase, ReturnedFacts
<1>3. ASSUME NEW t \in nego.targets, SearchWritesCaller(t)
      PROVE  /\ ledger' \in Ledgers /\ Indexed(ledger') /\ routes' \in RouteMaps
             /\ nego' \in Runs /\ Indexed(nego'.ledger)
  BY <1>3, EnsureBase, PutBackBase, StrippedFacts DEF SearchWritesCaller
<1>4. ASSUME NEW t \in nego.targets, SearchFails(t)
      PROVE  /\ ledger' \in Ledgers /\ Indexed(ledger') /\ routes' \in RouteMaps
             /\ nego' \in Runs /\ Indexed(nego'.ledger)
  <2>1. nego.ledger.byNet \in Claims
    BY <1>0, LedgerForm
  <2>2. /\ Reload(Stripped(t), nego.ledger.byNet) \in Ledgers
        /\ Indexed(Reload(Stripped(t), nego.ledger.byNet))
    BY <2>1, StrippedFacts, ReloadFacts
  <2>3. QED
    BY <1>0, <1>4, <2>2, PutBackBase DEF SearchFails
<1>5. ASSUME NEW t \in nego.targets, Install(t)
      PROVE  /\ ledger' \in Ledgers /\ Indexed(ledger') /\ routes' \in RouteMaps
             /\ nego' \in Runs /\ Indexed(nego'.ledger)
  <2>1. PICK found \in [Nets[t] -> Route], w \in Work :
          nego' = [nego EXCEPT
                     !.ledger = Commit(Stripped(t), ClaimsOf(found)),
                     !.routes = Override(Without(nego.routes, Nets[t]), found),
                     !.work = nego.work + w,
                     !.pending = nego.pending \ {t}]
    BY <1>5 DEF Install
  <2>2. found \in RouteMaps
    BY <1>0, NetsFacts, RouteMapsIntro
  <2>3. /\ Commit(Stripped(t), ClaimsOf(found)) \in Ledgers
        /\ Indexed(Commit(Stripped(t), ClaimsOf(found)))
    BY <2>2, StrippedFacts, CommitFacts, ClaimsOfType
  <2>4. Override(Without(nego.routes, Nets[t]), found) \in RouteMaps
    BY <1>0, <2>2, RouteMapsMaps
  <2>5. nego.work + w \in 0 .. MaxWork
    BY <1>0, GroupAssumption DEF Work
  <2>6. nego' \in Runs /\ Indexed(nego'.ledger)
    BY <1>0, <2>1, <2>3, <2>4, <2>5 DEF Runs
  <2>7. QED
    BY <1>0, <1>5, <2>6 DEF Install
<1>6. ASSUME EndPass
      PROVE  /\ ledger' \in Ledgers /\ Indexed(ledger') /\ routes' \in RouteMaps
             /\ nego' \in Runs /\ Indexed(nego'.ledger)
  <2> DEFINE better == nego.best = << >> \/ Smaller(Objective(nego.ledger), nego.best)
             stagnant == IF better THEN 0 ELSE nego.stagnant + 1
             over == Overused(nego.ledger) # {}
             spent == \/ MaxStagnant = 0
                      \/ ~better /\ stagnant >= MaxStagnant
                      \/ nego.work >= MaxWork
                      \/ nego.pass + 1 >= MaxPasses
             status == IF ~over THEN "completed"
                       ELSE IF spent THEN "exhausted" ELSE "searching"
             best == IF better THEN Objective(nego.ledger) ELSE nego.best
             score == [t \in Target |-> IF t \in nego.targets THEN Score(t) ELSE 0]
             pending == IF over /\ ~spent THEN nego.targets ELSE {}
  <2>1. nego' = [nego EXCEPT !.status = status, !.pass = nego.pass + 1, !.best = best,
                             !.stagnant = stagnant, !.pending = pending, !.score = score]
    BY <1>6 DEF EndPass
  <2>2. best \in { << >> } \cup (Int \X Int \X Int)
    BY <1>0, UnitsType DEF Runs
  <2>3. score \in [Target -> Int]
    <3>1. ASSUME NEW t \in Target PROVE Score(t) \in Int
      <4>1. { r \in Overused(nego.ledger) : nego.ledger.byResource[r] \cap Nets[t] # {} }
              \in SUBSET Resource
        BY <1>0, UnitsType
      <4>2. QED
        BY <1>0, <4>1, UnitsType DEF Score
    <3>2. QED
      BY <3>1
  <2>4. stagnant \in Nat /\ nego.pass + 1 \in Nat
    BY <1>0
  <2>5. status \in {"completed", "exhausted", "searching"} /\ pending \in SUBSET Target
    BY <1>0
  <2> HIDE DEF status, stagnant, best, score, pending
  <2>6. nego' \in Runs /\ nego'.ledger = nego.ledger
    BY <1>0, <2>1, <2>2, <2>3, <2>4, <2>5 DEF Runs
  <2>7. QED
    BY <1>0, <1>6, <2>6 DEF EndPass
<1>7. QED
  BY <1>1, <1>2, <1>3, <1>4, <1>5, <1>6 DEF Negotiate

LEMMA ProvisionalBase ==
  ASSUME BaseInv, NEW l \in Ledgers, Indexed(l), NEW rts \in RouteMaps,
         Provisional(l, rts)
  PROVE  BaseInv'
<1>1. CASE Undo(l, "candidate_invalid")
  BY <1>1, UndoBase DEF Outcomes, Unchanging
<1>2. CASE Undo(l, "checker_missing")
  BY <1>2, UndoBase DEF Outcomes, Unchanging
<1>3. CASE /\ ledger' = l /\ routes' = rts /\ pc' = "materialize"
           /\ UNCHANGED << nego, call, outcome, entry >>
  BY <1>3 DEF BaseInv, TypeOK, LedgersIndexed
<1>4. QED
  BY <1>1, <1>2, <1>3 DEF Provisional

\* A callback that is kept for the next one: only the ledger and the routes.
LEMMA PassedOnBase ==
  ASSUME BaseInv, NEW s \in Returned, ledger' = s[1], routes' = s[2]
  PROVE  ledger' \in Ledgers /\ Indexed(ledger') /\ routes' \in RouteMaps
BY ReturnedFacts DEF BaseInv, TypeOK, LedgersIndexed

LEMMA AskBase == BaseInv /\ Ask => BaseInv'
<1> SUFFICES ASSUME BaseInv, Ask PROVE BaseInv'
  OBVIOUS
<1>1. ASSUME NEW authority \in SUBSET Authorities, BeginReplace(authority)
      PROVE  BaseInv'
  BY <1>1, BeginBase, StripBase DEF BeginReplace, BaseInv, TypeOK, LedgersIndexed
<1>2. ASSUME NEW authority \in SUBSET Authorities, BeginChecked(authority)
      PROVE  BaseInv'
  BY <1>2, BeginBase, StripBase DEF BeginChecked, BaseInv, TypeOK, LedgersIndexed
<1>3. ASSUME NEW targets \in SUBSET Target, BeginGroup(targets)
      PROVE  BaseInv'
  <2>1. nego' \in Runs /\ Indexed(nego'.ledger)
    BY <1>3, StartRunBase DEF BeginGroup
  <2>2. {} \in SUBSET Authorities
    OBVIOUS
  <2>3. pc' = "negotiate" /\ call' \in Calls /\ entry' \in Boards /\ outcome' \in Outcomes
    BY <1>3, <2>2, BeginBase DEF BeginGroup
  <2>4. QED
    BY <1>3, <2>1, <2>3 DEF BeginGroup, BaseInv, TypeOK, LedgersIndexed
<1>4. \A authority \in {{}} \cup { {a} : a \in Authorities } : authority \in SUBSET Authorities
  OBVIOUS
<1>5. QED
  BY <1>1, <1>2, <1>3, <1>4 DEF Ask

LEMMA ContinueBase == BaseInv /\ Continue => BaseInv'
<1> SUFFICES ASSUME BaseInv, Continue PROVE BaseInv'
  OBVIOUS
<1>0. /\ ledger \in Ledgers /\ Indexed(ledger) /\ routes \in RouteMaps
      /\ call.claims \in Claims /\ call.routes \in RouteMaps
      /\ nego.ledger \in Ledgers /\ nego.routes \in RouteMaps
  BY DEF BaseInv, TypeOK, LedgersIndexed, Calls, Runs
<1>r. \A s \in Returned : s[1] \in Ledgers /\ s[2] \in RouteMaps /\ Indexed(s[1])
  BY <1>0, ReturnedFacts
<1>o. Outcomes = Unchanging \cup { "none", "committed", "committed_and_raised",
                                   "accepted", "broken" }
      /\ {"raised", "candidate_invalid", "candidate_failed", "rejected",
          "negotiation_failed"} \subseteq Unchanging
  BY DEF Outcomes, Unchanging
<1>e. ASSUME NEW how \in Outcomes, End(how),
             ledger' \in Ledgers, Indexed(ledger'), routes' \in RouteMaps
      PROVE  BaseInv'
  BY <1>e, EndTypes DEF BaseInv, TypeOK, LedgersIndexed
<1>1. CASE SearchRaisesInReplace
  <2>1. OldMembers \in RouteMaps
    BY <1>0, RouteMapsMaps DEF OldMembers
  <2>2. ledger' \in Ledgers /\ Indexed(ledger')
    BY <1>0, <1>1, <2>1, RipUpFacts, ClaimsOfType, CommitFacts DEF SearchRaisesInReplace
  <2>3. routes' \in RouteMaps
    BY <1>0, <1>1, <2>1, RouteMapsMaps DEF SearchRaisesInReplace
  <2>4. QED
    BY <1>1, <1>o, <1>e, <2>2, <2>3 DEF SearchRaisesInReplace
<1>2. CASE SearchReturnsInReplace
  <2>1. PICK bundle \in Bundles :
          ledger' = Commit(ledger, ClaimsOf(bundle)) /\ routes' = Override(routes, bundle)
    BY <1>2 DEF SearchReturnsInReplace
  <2>2. bundle \in RouteMaps
    BY NetsFacts
  <2>3. ledger' \in Ledgers /\ Indexed(ledger') /\ routes' \in RouteMaps
    BY <1>0, <2>1, <2>2, ClaimsOfType, CommitFacts, RouteMapsMaps
  <2>4. End("committed_and_raised") \/ End("committed")
    BY <1>2 DEF SearchReturnsInReplace
  <2>5. QED
    BY <1>o, <1>e, <2>3, <2>4
<1>3. CASE BuilderRaises
  BY <1>3, <1>r, <1>o, UndoBase DEF BuilderRaises
<1>4. CASE BuilderFails
  BY <1>4, <1>r, <1>o, UndoBase DEF BuilderFails
<1>5. CASE BuilderReturns
  <2>1. PICK s \in Returned, bundle \in Offered :
          Provisional(Commit(s[1], ClaimsOf(bundle)), Override(s[2], bundle))
    BY <1>5 DEF BuilderReturns
  <2>2. bundle \in RouteMaps
    BY NetsFacts DEF Offered
  <2>3. /\ Commit(s[1], ClaimsOf(bundle)) \in Ledgers
        /\ Indexed(Commit(s[1], ClaimsOf(bundle)))
        /\ Override(s[2], bundle) \in RouteMaps
    BY <1>r, <2>2, ClaimsOfType, CommitFacts, RouteMapsMaps
  <2>4. QED
    BY <2>1, <2>3, ProvisionalBase
<1>6. CASE NegotiateStep
  BY <1>6, NegotiateBase DEF NegotiateStep, BaseInv, TypeOK, LedgersIndexed
<1>7. CASE NegotiationEnds
  <2>1. ledger' = ledger /\ routes' = routes
    BY <1>7 DEF NegotiationEnds
  <2>2. End("negotiation_failed") \/ End("raised") \/ End("broken")
    BY <1>7 DEF NegotiationEnds
  <2>3. QED
    BY <1>0, <1>o, <1>e, <2>1, <2>2
<1>8. CASE InstallNegotiated
  <2> DEFINE l == Reload(ledger, ClaimsOf(nego.routes))
  <2>1. l \in Ledgers /\ Indexed(l)
    BY <1>0, ClaimsOfType, ReloadFacts
  <2>2. \/ Provisional(l, nego.routes)
        \/ Undo(l, "candidate_invalid")
        \/ Undo(ledger, "candidate_invalid")
    BY <1>8 DEF InstallNegotiated
  <2> HIDE DEF l
  <2>3. QED
    BY <1>0, <1>o, <2>1, <2>2, ProvisionalBase, UndoBase
<1>9. CASE MaterializerRaises
  BY <1>9, <1>r, <1>o, UndoBase DEF MaterializerRaises
<1>10. CASE MaterializerReturns
  <2>1. ledger' \in Ledgers /\ Indexed(ledger') /\ routes' \in RouteMaps
    BY <1>10, PassedOnBase DEF MaterializerReturns
  <2>2. QED
    BY <1>10, <2>1 DEF MaterializerReturns, BaseInv, TypeOK, LedgersIndexed
<1>11. CASE CheckerRaises
  BY <1>11, <1>r, <1>o, UndoBase DEF CheckerRaises
<1>12. CASE CheckerRejects
  BY <1>12, <1>r, <1>o, UndoBase DEF CheckerRejects
<1>13. CASE CheckerAccepts
  <2>1. ledger' \in Ledgers /\ Indexed(ledger') /\ routes' \in RouteMaps
    BY <1>13, PassedOnBase DEF CheckerAccepts
  <2>2. QED
    BY <1>13, <1>o, <1>e, <2>1 DEF CheckerAccepts
<1>14. QED
  BY <1>1, <1>2, <1>3, <1>4, <1>5, <1>6, <1>7, <1>8, <1>9, <1>10, <1>11, <1>12, <1>13
  DEF Continue

LEMMA BaseStep == BaseInv /\ [Next]_vars => BaseInv'
<1>1. BaseInv /\ UNCHANGED vars => BaseInv'
  BY DEF BaseInv, TypeOK, LedgersIndexed, vars
<1>2. QED
  BY <1>1, AskBase, ContinueBase DEF Next

(***************************************************************************)
(* Every variable keeps its type: the work of a negotiation never exceeds  *)
(* its budget, whatever its searches report.                               *)
(***************************************************************************)
THEOREM TypeCorrect == Spec => []TypeOK
<1>1. BaseInv => TypeOK
  BY DEF BaseInv
<1>2. QED
  BY <1>1, BaseInit, BaseStep, PTL DEF Spec

(***************************************************************************)
(* by_net and by_resource agree in the caller's ledger and in the private  *)
(* clone, after every step of every call, whatever the callbacks write.    *)
(***************************************************************************)
THEOREM IndexesAgree == Spec => []LedgersIndexed
<1>1. BaseInv => LedgersIndexed
  BY DEF BaseInv
<1>2. QED
  BY <1>1, BaseInit, BaseStep, PTL DEF Spec

--------------------------------------------------------------------------------
(* Maps, agreement of claims and routes, wholeness *)

Agrees(claims, rts) == Only(claims, DOMAIN rts) = ClaimsOf(rts)

AllWhole(rts) == \A t \in Target : Whole(rts, t)

LEMMA AgreesPointwise ==
  ASSUME NEW c, NEW rts
  PROVE  Agrees(c, rts) <=> /\ DOMAIN rts \subseteq DOMAIN c
                            /\ \A n \in DOMAIN rts : c[n] = Occupies[rts[n]]
<1>1. ASSUME Agrees(c, rts)
      PROVE  /\ DOMAIN rts \subseteq DOMAIN c
             /\ \A n \in DOMAIN rts : c[n] = Occupies[rts[n]]
  <2>1. /\ DOMAIN Only(c, DOMAIN rts) = DOMAIN c \cap DOMAIN rts
        /\ \A n \in DOMAIN c \cap DOMAIN rts : Only(c, DOMAIN rts)[n] = c[n]
    BY DEF Only
  <2>2. /\ DOMAIN ClaimsOf(rts) = DOMAIN rts
        /\ \A n \in DOMAIN rts : ClaimsOf(rts)[n] = Occupies[rts[n]]
    BY DEF ClaimsOf
  <2>3. Only(c, DOMAIN rts) = ClaimsOf(rts)
    BY <1>1 DEF Agrees
  <2>4. QED
    BY <2>1, <2>2, <2>3
<1>2. ASSUME DOMAIN rts \subseteq DOMAIN c, \A n \in DOMAIN rts : c[n] = Occupies[rts[n]]
      PROVE  Agrees(c, rts)
  <2>1. DOMAIN c \cap DOMAIN rts = DOMAIN rts
    BY <1>2
  <2>2. QED
    BY <1>2, <2>1 DEF Agrees, Only, ClaimsOf
<1>3. QED
  BY <1>1, <1>2

LEMMA AgreesWithout ==
  ASSUME NEW c, NEW rts, NEW S, Agrees(c, rts)
  PROVE  Agrees(Without(c, S), Without(rts, S))
BY AgreesPointwise DEF Only, Without, Override

LEMMA AgreesOverride ==
  ASSUME NEW c, NEW rts, NEW b, Agrees(c, rts)
  PROVE  Agrees(Override(c, ClaimsOf(b)), Override(rts, b))
<1>1. DOMAIN ClaimsOf(b) = DOMAIN b /\ \A n \in DOMAIN b : ClaimsOf(b)[n] = Occupies[b[n]]
  BY DEF ClaimsOf
<1>2. DOMAIN rts \subseteq DOMAIN c /\ \A n \in DOMAIN rts : c[n] = Occupies[rts[n]]
  BY AgreesPointwise
<1>3. DOMAIN Override(rts, b) \subseteq DOMAIN Override(c, ClaimsOf(b))
  BY <1>1, <1>2 DEF Only, Without, Override
<1>4. ASSUME NEW n \in DOMAIN Override(rts, b)
      PROVE  Override(c, ClaimsOf(b))[n] = Occupies[Override(rts, b)[n]]
  <2>1. CASE n \in DOMAIN b
    BY <1>1, <2>1 DEF Only, Without, Override
  <2>2. CASE n \in DOMAIN rts \ DOMAIN b
    BY <1>1, <1>2, <2>2 DEF Only, Without, Override
  <2>3. QED
    BY <2>1, <2>2 DEF Only, Without, Override
<1>5. QED
  BY <1>3, <1>4, AgreesPointwise

\* What was taken out and put back is as it was.
LEMMA PutBackMap ==
  ASSUME NEW p, p = [n \in DOMAIN p |-> p[n]], NEW S
  PROVE  Override(Without(p, S), Only(p, S)) = p
<1> DEFINE back == Override(Without(p, S), Only(p, S))
<1>1. back = [n \in DOMAIN back |-> back[n]]
  BY DEF Override
<1>2. DOMAIN back = DOMAIN p
  BY DEF Only, Without, Override
<1>3. \A n \in DOMAIN p : back[n] = p[n]
  BY DEF Only, Without, Override
<1> HIDE DEF back
<1>4. back = [n \in DOMAIN p |-> back[n]]
  BY <1>1, <1>2
<1>5. [n \in DOMAIN p |-> back[n]] = [n \in DOMAIN p |-> p[n]]
  BY <1>3
<1>6. QED
  BY <1>4, <1>5 DEF back

LEMMA WithoutTwice ==
  ASSUME NEW p, NEW S, NEW T, S \subseteq T
  PROVE  /\ Without(Without(p, S), T) = Without(p, T)
         /\ Without(Without(p, T), S) = Without(p, T)
<1>1. /\ DOMAIN Without(Without(p, S), T) = DOMAIN Without(p, T)
      /\ DOMAIN Without(Without(p, T), S) = DOMAIN Without(p, T)
  BY DEF Only, Without, Override
<1>2. \A n \in DOMAIN Without(p, T) : /\ Without(Without(p, S), T)[n] = Without(p, T)[n]
                                      /\ Without(Without(p, T), S)[n] = Without(p, T)[n]
  BY DEF Only, Without, Override
<1>3. QED
  BY <1>1, <1>2 DEF Without

\* Rerouting nets of S changes no entry outside S.
LEMMA WithoutOverride ==
  ASSUME NEW p, NEW q, NEW S, DOMAIN q \subseteq S
  PROVE  Without(Override(p, q), S) = Without(p, S)
<1>1. DOMAIN Without(Override(p, q), S) = DOMAIN Without(p, S)
  BY DEF Only, Without, Override
<1>2. \A n \in DOMAIN Without(p, S) : Without(Override(p, q), S)[n] = Without(p, S)[n]
  BY DEF Only, Without, Override
<1>3. QED
  BY <1>1, <1>2 DEF Without

LEMMA NetsDisjoint ==
  ASSUME NEW t \in Target, NEW targets \in SUBSET Target
  PROVE  IF t \in targets THEN Nets[t] \subseteq Owned(targets)
         ELSE Nets[t] \cap Owned(targets) = {}
<1>1. \A s \in Target : s # t => Nets[s] \cap Nets[t] = {}
  BY GroupAssumption
<1>2. QED
  BY <1>1 DEF Owned

LEMMA WholeWithout ==
  ASSUME NEW rts, NEW targets \in SUBSET Target, AllWhole(rts)
  PROVE  AllWhole(Without(rts, Owned(targets)))
<1> SUFFICES ASSUME NEW t \in Target PROVE Whole(Without(rts, Owned(targets)), t)
  BY DEF AllWhole
<1>1. Whole(rts, t)
  BY DEF AllWhole
<1>2. QED
  BY <1>1, NetsDisjoint DEF Only, Without, Override, Whole

LEMMA WholeOverride ==
  ASSUME NEW rts, NEW t \in Target, NEW b, DOMAIN b = Nets[t], AllWhole(rts)
  PROVE  AllWhole(Override(rts, b))
<1> SUFFICES ASSUME NEW s \in Target PROVE Whole(Override(rts, b), s)
  BY DEF AllWhole
<1>1. Whole(rts, s) /\ (s = t \/ Nets[s] \cap Nets[t] = {})
  BY GroupAssumption DEF AllWhole
<1>2. QED
  BY <1>1 DEF Only, Without, Override, Whole

LEMMA OwnedByOne ==
  ASSUME NEW t
  PROVE  Owned({t}) = Nets[t]
BY DEF Owned

--------------------------------------------------------------------------------
(***************************************************************************)
(* The invariant of a call. The private clone agrees with its route map    *)
(* and differs from the snapshot in the nets of its targets only; the      *)
(* snapshot of the call is the board the call found; and the caller's      *)
(* board is the snapshot, or the snapshot without the bus, or a rerouted   *)
(* board without overuse, depending on what the call waits for.            *)
(***************************************************************************)
RunInv ==
  /\ Agrees(nego.ledger.byNet, nego.routes)
  /\ AllWhole(nego.routes)
  /\ nego.status # "off" =>
       /\ nego.original.claims = call.claims
       /\ nego.original.routes = call.routes
       /\ Without(nego.ledger.byNet, Owned(nego.targets))
            = Without(call.claims, Owned(nego.targets))

CallInv ==
  pc \notin {"idle", "broken"} =>
    /\ call.claims = entry.claims /\ call.routes = entry.routes
    /\ Agrees(call.claims, call.routes)
    /\ AllWhole(call.routes)
    /\ call.authority \subseteq Authorities
    /\ outcome = "none"

\* the board differs from the snapshot in these nets only, which are routed
Rerouted(nets) ==
  /\ nets \subseteq DOMAIN routes
  /\ Without(routes, nets) = Without(call.routes, nets)
  /\ Without(ledger.byNet, nets) = Without(call.claims, nets)

StageInv ==
  /\ pc \in {"idle", "materialize", "check"} =>
       Agrees(ledger.byNet, routes) /\ AllWhole(routes)
  /\ pc = "idle" => nego = NoRun
  /\ pc \in {"search", "build"} =>
       /\ nego = NoRun
       /\ Member \subseteq DOMAIN call.routes
       /\ ledger.byNet = Without(call.claims, Member)
       /\ routes = Without(call.routes, Member)
  /\ pc = "negotiate" =>
       /\ nego.status # "off" /\ call.authority = {}
       /\ nego.status # "unguarded" =>
            ledger.byNet = call.claims /\ routes = call.routes
  /\ pc \in {"materialize", "check"} =>
       /\ ZeroOveruse(ledger.byNet)
       /\ \E targets \in SUBSET Target : Rerouted(Owned(targets))

AtomInv == RunInv /\ CallInv /\ StageInv

LEMMA NoRunInv ==
  /\ NoRun.status = "off"
  /\ Agrees(NoRun.ledger.byNet, NoRun.routes)
  /\ AllWhole(NoRun.routes)
<1>1. /\ NoRun.status = "off" /\ NoRun.routes = [n \in {} |-> {}]
      /\ NoRun.ledger.byNet = [n \in {} |-> {}]
  BY DEF NoRun, NewLedger
<1>2. DOMAIN [n \in {} |-> {}] = {}
  OBVIOUS
<1>3. QED
  BY <1>1, <1>2, AgreesPointwise DEF AllWhole, Whole

\* A call ends well if it leaves a board with agreeing claims and whole buses.
LEMMA EndAtom ==
  ASSUME NEW how \in Outcomes, End(how),
         how # "broken" => Agrees(ledger'.byNet, routes') /\ AllWhole(routes')
  PROVE  AtomInv'
<1>1. nego' = NoRun
  BY DEF End
<1>2. CASE how = "broken"
  BY <1>1, <1>2, NoRunInv DEF End, AtomInv, RunInv, CallInv, StageInv
<1>3. CASE how # "broken"
  BY <1>1, <1>3, NoRunInv DEF End, AtomInv, RunInv, CallInv, StageInv
<1>4. QED
  BY <1>2, <1>3

\* Undo puts back the board the call found.
LEMMA UndoAtom ==
  ASSUME BaseInv, AtomInv, pc \notin {"idle", "broken"},
         NEW l \in Ledgers, NEW how \in Unchanging, Undo(l, how)
  PROVE  /\ AtomInv'
         /\ ledger'.byNet = entry.claims /\ routes' = entry.routes
<1>1. call.claims \in Claims
  BY DEF BaseInv, TypeOK, Calls
<1>2. ledger'.byNet = call.claims /\ routes' = call.routes
  BY <1>1, ReloadFacts DEF Undo
<1>3. /\ Agrees(call.claims, call.routes) /\ AllWhole(call.routes)
      /\ call.claims = entry.claims /\ call.routes = entry.routes
  BY DEF AtomInv, CallInv
<1>4. how \in Outcomes /\ End(how)
  BY DEF Undo, Outcomes
<1>5. AtomInv'
  BY <1>2, <1>3, <1>4, EndAtom
<1>6. QED
  BY <1>2, <1>3, <1>5

LEMMA AtomInit == Init => AtomInv
<1> SUFFICES ASSUME Init PROVE AtomInv
  OBVIOUS
<1>1. PICK S \in SUBSET (Net \ (DOMAIN routes \cup Member)) :
        \E claims \in [S -> Standing] :
          ledger = NewLedger(Override(claims, ClaimsOf(routes)))
  BY DEF Init
<1>2. PICK claims \in [S -> Standing] :
        ledger.byNet = Override(claims, ClaimsOf(routes))
  BY <1>1 DEF NewLedger
<1>3. Agrees(ledger.byNet, routes)
  BY <1>2, AgreesPointwise DEF Override, ClaimsOf
<1>4. AllWhole(routes)
  BY DEF Init, AllWhole
<1>5. QED
  BY <1>3, <1>4, NoRunInv DEF Init, AtomInv, RunInv, CallInv, StageInv

LEMMA BeginAtom ==
  ASSUME AtomInv, NEW kind, NEW authority \in SUBSET Authorities, NEW next,
         next \notin {"idle", "broken"}, Begin(kind, authority, next)
  PROVE  /\ CallInv'
         /\ call'.claims = ledger.byNet /\ call'.routes = routes
         /\ call'.authority = authority /\ pc' = next
         /\ nego = NoRun /\ Agrees(ledger.byNet, routes) /\ AllWhole(routes)
<1>1. nego = NoRun /\ Agrees(ledger.byNet, routes) /\ AllWhole(routes)
  BY DEF Begin, AtomInv, StageInv
<1>2. /\ call' = [kind |-> kind, authority |-> authority,
                  claims |-> ledger.byNet, routes |-> routes]
      /\ entry' = [claims |-> ledger.byNet, routes |-> routes]
      /\ pc' = next /\ outcome' = "none"
  BY DEF Begin, Board
<1>3. QED
  BY <1>1, <1>2 DEF CallInv

\* the bus is ripped up, for a replacement or for a checked commit
LEMMA StripAtom ==
  ASSUME BaseInv, AtomInv, NEW kind, NEW authority \in SUBSET Authorities,
         NEW next \in {"search", "build"}, Begin(kind, authority, next), Strip,
         Member \subseteq DOMAIN routes
  PROVE  AtomInv'
<1>1. /\ CallInv'
      /\ call'.claims = ledger.byNet /\ call'.routes = routes
      /\ call'.authority = authority /\ pc' = next
      /\ nego = NoRun
  BY BeginAtom
<1>2. nego' = nego /\ routes' = Without(routes, Member)
  BY DEF Strip
<1>3. ledger'.byNet = Without(ledger.byNet, Member)
  BY RipUpFacts DEF Strip, BaseInv, TypeOK
<1>4. RunInv'
  BY <1>1, <1>2, NoRunInv DEF RunInv
<1>5. StageInv'
  BY <1>1, <1>2, <1>3 DEF StageInv
<1>6. QED
  BY <1>1, <1>4, <1>5 DEF AtomInv

LEMMA AskAtom == BaseInv /\ AtomInv /\ Ask => AtomInv'
<1> SUFFICES ASSUME BaseInv, AtomInv, Ask PROVE AtomInv'
  OBVIOUS
<1>1. ASSUME NEW authority \in SUBSET Authorities, BeginReplace(authority)
      PROVE  AtomInv'
  BY <1>1, StripAtom DEF BeginReplace
<1>2. ASSUME NEW authority \in SUBSET Authorities, BeginChecked(authority)
      PROVE  AtomInv'
  BY <1>2, StripAtom DEF BeginChecked
<1>3. ASSUME NEW targets \in SUBSET Target, BeginGroup(targets)
      PROVE  AtomInv'
  <2> DEFINE private == RipUp(NewLedger(ledger.byNet), Owned(targets))
             start == IF MaxPasses = 0 THEN "exhausted" ELSE "searching"
  <2>1. {} \in SUBSET Authorities /\ Begin("group", {}, "negotiate")
    BY <1>3 DEF BeginGroup
  <2>2. /\ CallInv'
        /\ call'.claims = ledger.byNet /\ call'.routes = routes
        /\ call'.authority = {} /\ pc' = "negotiate"
        /\ Agrees(ledger.byNet, routes) /\ AllWhole(routes)
    BY <2>1, BeginAtom
  <2>3. /\ nego'.status = start /\ nego'.targets = targets
        /\ nego'.ledger = private /\ nego'.routes = Without(routes, Owned(targets))
        /\ nego'.original = [claims |-> ledger.byNet, routes |-> routes]
    BY <1>3 DEF BeginGroup, StartRun
  <2>4. ledger' = ledger /\ routes' = routes
    BY <1>3 DEF BeginGroup
  <2>5. ledger.byNet \in Claims
    BY LedgerForm DEF BaseInv, TypeOK
  <2>6. private.byNet = Without(ledger.byNet, Owned(targets))
    BY <2>5, NewLedgerFacts, RipUpFacts
  <2>7. Without(private.byNet, Owned(targets)) = Without(ledger.byNet, Owned(targets))
    BY <2>6, WithoutTwice
  <2>8. start # "off"
    OBVIOUS
  <2> HIDE DEF private, start
  <2>9. RunInv'
    BY <2>2, <2>3, <2>6, <2>7, AgreesWithout, WholeWithout DEF RunInv
  <2>10. StageInv'
    BY <2>2, <2>3, <2>4, <2>8 DEF StageInv
  <2>11. QED
    BY <2>2, <2>9, <2>10 DEF AtomInv
<1>4. \A authority \in {{}} \cup { {a} : a \in Authorities } : authority \in SUBSET Authorities
  OBVIOUS
<1>5. QED
  BY <1>1, <1>2, <1>3, <1>4 DEF Ask

--------------------------------------------------------------------------------
(* The steps of a negotiation *)

\* the private clone is put back: it is the snapshot again
LEMMA PutBackAtom ==
  ASSUME BaseInv, AtomInv, pc = "negotiate", NEW t, Searching(t),
         NEW status \in {"raised", "unguarded", "rolled_back"},
         NEW l \in Ledgers, PutBack(status, l),
         pc' = pc, call' = call, entry' = entry, outcome' = outcome,
         status # "unguarded" => ledger'.byNet = call.claims /\ routes' = call.routes
  PROVE  AtomInv'
<1>1. /\ nego.original.claims = call.claims /\ nego.original.routes = call.routes
      /\ Agrees(call.claims, call.routes) /\ AllWhole(call.routes)
      /\ call.authority = {}
  BY DEF AtomInv, RunInv, CallInv, StageInv, Searching
<1>2. call.claims \in Claims /\ nego \in Runs
  BY DEF BaseInv, TypeOK, Calls
<1>3. Reload(l, call.claims).byNet = call.claims
  BY <1>2, ReloadFacts
<1>4. /\ nego'.status = status /\ nego'.original = nego.original
      /\ nego'.ledger.byNet = call.claims /\ nego'.routes = call.routes
  BY <1>1, <1>2, <1>3 DEF PutBack, Runs
<1>5. RunInv'
  BY <1>1, <1>4 DEF RunInv
<1>6. CallInv'
  BY DEF AtomInv, CallInv
<1>7. StageInv'
  BY <1>1, <1>4 DEF StageInv
<1>8. QED
  BY <1>5, <1>6, <1>7 DEF AtomInv

LEMMA EnsureAtom ==
  ASSUME BaseInv, AtomInv, pc = "negotiate", NEW t, Searching(t),
         NEW s \in Returned, EnsureCallerUnchanged(s[1], s[2])
  PROVE  ledger'.byNet = call.claims /\ routes' = call.routes
<1>1. s[1] \in Ledgers
  BY ReturnedFacts DEF BaseInv, TypeOK
<1>2. nego.original.claims = call.claims /\ nego.original.routes = call.routes
  BY DEF AtomInv, RunInv, Searching
<1>3. call.claims \in Claims
  BY DEF BaseInv, TypeOK, Calls
<1>4. QED
  BY <1>1, <1>2, <1>3, ReloadFacts DEF EnsureCallerUnchanged, CallerKept

LEMMA InstallAtom ==
  ASSUME BaseInv, AtomInv, pc = "negotiate", NEW t \in nego.targets, Install(t),
         pc' = pc, call' = call, entry' = entry, outcome' = outcome
  PROVE  AtomInv'
<1>1. PICK found \in [Nets[t] -> Route], w \in Work :
        nego' = [nego EXCEPT
                   !.ledger = Commit(Stripped(t), ClaimsOf(found)),
                   !.routes = Override(Without(nego.routes, Nets[t]), found),
                   !.work = nego.work + w,
                   !.pending = nego.pending \ {t}]
  BY Zenon DEF Install
<1>2. /\ nego \in Runs /\ nego.ledger \in Ledgers /\ nego.targets \in SUBSET Target
      /\ t \in Target
  BY DEF BaseInv, TypeOK, Runs
<1>3. found \in RouteMaps /\ DOMAIN found = Nets[t]
  BY <1>2, NetsFacts, RouteMapsIntro
<1>4. /\ ClaimsOf(found) \in Claims /\ DOMAIN ClaimsOf(found) = Nets[t]
  BY <1>3, ClaimsOfType
<1>5. Stripped(t) \in Ledgers /\ Stripped(t).byNet = Without(nego.ledger.byNet, Nets[t])
  BY <1>2, RipUpFacts DEF Stripped
<1>6. /\ nego'.ledger.byNet = Override(Without(nego.ledger.byNet, Nets[t]), ClaimsOf(found))
      /\ nego'.routes = Override(Without(nego.routes, Nets[t]), found)
      /\ nego'.status = nego.status /\ nego'.original = nego.original
      /\ nego'.targets = nego.targets
  BY <1>1, <1>2, <1>4, <1>5, CommitFacts DEF Runs
<1>7. Agrees(nego'.ledger.byNet, nego'.routes)
  BY <1>6, AgreesWithout, AgreesOverride DEF AtomInv, RunInv
<1>8. AllWhole(nego'.routes)
  <2>1. AllWhole(Without(nego.routes, Nets[t]))
    BY <1>2, WholeWithout, OwnedByOne DEF AtomInv, RunInv
  <2>2. QED
    BY <1>2, <1>3, <1>6, <2>1, WholeOverride
<1>9. Without(nego'.ledger.byNet, Owned(nego.targets))
        = Without(nego.ledger.byNet, Owned(nego.targets))
  <2>1. Nets[t] \subseteq Owned(nego.targets)
    BY <1>2, NetsDisjoint
  <2>2. QED
    BY <1>4, <1>6, <2>1, WithoutOverride, WithoutTwice
<1>10. RunInv'
  BY <1>6, <1>7, <1>8, <1>9 DEF AtomInv, RunInv
<1>11. CallInv'
  BY DEF AtomInv, CallInv
<1>12. ledger' = ledger /\ routes' = routes
  BY DEF Install
<1>13. StageInv'
  BY <1>6, <1>12 DEF AtomInv, StageInv
<1>14. QED
  BY <1>10, <1>11, <1>13 DEF AtomInv

LEMMA EndPassAtom ==
  ASSUME BaseInv, AtomInv, pc = "negotiate", EndPass,
         pc' = pc, call' = call, entry' = entry, outcome' = outcome
  PROVE  AtomInv'
<1>1. nego \in Runs
  BY DEF BaseInv, TypeOK
<1>2. /\ nego'.ledger = nego.ledger /\ nego'.routes = nego.routes
      /\ nego'.original = nego.original /\ nego'.targets = nego.targets
      /\ nego'.status \in {"completed", "exhausted", "searching"}
      /\ nego.status = "searching"
      /\ ledger' = ledger /\ routes' = routes
  BY <1>1 DEF EndPass, Runs
<1>3. RunInv'
  BY <1>2 DEF AtomInv, RunInv
<1>4. CallInv'
  BY DEF AtomInv, CallInv
<1>5. StageInv'
  BY <1>2 DEF AtomInv, StageInv
<1>6. QED
  BY <1>3, <1>4, <1>5 DEF AtomInv

LEMMA NegotiateAtom ==
  ASSUME BaseInv, AtomInv, NegotiateStep
  PROVE  AtomInv'
<1>0. pc = "negotiate" /\ pc' = pc /\ call' = call /\ entry' = entry /\ outcome' = outcome
      /\ Negotiate
  BY DEF NegotiateStep
<1>1. ASSUME NEW t \in nego.targets, SearchRaises(t) \/ SearchWritesCaller(t)
      PROVE  AtomInv'
  <2>1. /\ Searching(t) /\ PutBack("raised", Stripped(t))
        /\ \E s \in Returned : EnsureCallerUnchanged(s[1], s[2])
    BY <1>1 DEF SearchRaises, SearchWritesCaller
  <2>2. ledger'.byNet = call.claims /\ routes' = call.routes
    BY <1>0, <2>1, EnsureAtom
  <2>3. QED
    BY <1>0, <2>1, <2>2, StrippedFacts, PutBackAtom
<1>2. ASSUME NEW t \in nego.targets, SearchWritesPrivate(t)
      PROVE  AtomInv'
  <2>1. PICK l \in StrayLedgers(Stripped(t)) : Searching(t) /\ PutBack("unguarded", l)
    BY <1>2 DEF SearchWritesPrivate
  <2>2. l \in Ledgers
    BY StrippedFacts, StrayLedgersFacts
  <2>3. QED
    BY <1>0, <2>1, <2>2, PutBackAtom
<1>3. ASSUME NEW t \in nego.targets, SearchFails(t)
      PROVE  AtomInv'
  <2>1. nego.ledger.byNet \in Claims
    BY LedgerForm DEF BaseInv, TypeOK, Runs
  <2>2. Reload(Stripped(t), nego.ledger.byNet) \in Ledgers
    BY <2>1, StrippedFacts, ReloadFacts
  <2>3. /\ Searching(t)
        /\ PutBack("rolled_back", Reload(Stripped(t), nego.ledger.byNet))
        /\ ledger' = ledger /\ routes' = routes
    BY <1>3 DEF SearchFails
  <2>4. ledger.byNet = call.claims /\ routes = call.routes
    BY <1>0, <2>3 DEF Searching, AtomInv, StageInv
  <2>5. QED
    BY <1>0, <2>2, <2>3, <2>4, PutBackAtom
<1>4. QED
  BY <1>0, <1>1, <1>2, <1>3, InstallAtom, EndPassAtom DEF Negotiate

--------------------------------------------------------------------------------
(* The steps of a call *)

LEMMA ProvisionalAtom ==
  ASSUME BaseInv, AtomInv, pc \in {"build", "negotiate"},
         NEW l \in Ledgers, Indexed(l), NEW rts, Provisional(l, rts),
         Agrees(l.byNet, rts), AllWhole(rts),
         NEW targets \in SUBSET Target, Owned(targets) \subseteq DOMAIN rts,
         Without(rts, Owned(targets)) = Without(call.routes, Owned(targets)),
         Without(l.byNet, Owned(targets)) = Without(call.claims, Owned(targets))
  PROVE  AtomInv'
<1>1. CASE Undo(l, "candidate_invalid")
  BY <1>1, UndoAtom DEF Unchanging
<1>2. CASE Undo(l, "checker_missing")
  BY <1>2, UndoAtom DEF Unchanging
<1>3. CASE /\ Overused(l) = {}
           /\ ledger' = l /\ routes' = rts /\ pc' = "materialize"
           /\ UNCHANGED << nego, call, outcome, entry >>
  <2>1. ZeroOveruse(l.byNet)
    BY <1>3, OveruseIsExact
  <2>2. Rerouted(Owned(targets))'
    BY <1>3 DEF Rerouted
  <2>3. RunInv'
    BY <1>3 DEF AtomInv, RunInv
  <2>4. CallInv'
    BY <1>3 DEF AtomInv, CallInv
  <2>5. StageInv'
    BY <1>3, <2>1, <2>2 DEF StageInv
  <2>6. QED
    BY <2>3, <2>4, <2>5 DEF AtomInv
<1>4. QED
  BY <1>1, <1>2, <1>3 DEF Provisional

\* The bus gets the routes of a bundle on the board it was taken from.
LEMMA BundleFacts ==
  ASSUME BaseInv, AtomInv, pc \in {"search", "build"}, NEW bundle \in Bundles,
         NEW l \in Ledgers, l.byNet = ledger.byNet
  PROVE  /\ Commit(l, ClaimsOf(bundle)).byNet = Override(ledger.byNet, ClaimsOf(bundle))
         /\ Agrees(Override(ledger.byNet, ClaimsOf(bundle)), Override(routes, bundle))
         /\ AllWhole(Override(routes, bundle))
         /\ Member \subseteq DOMAIN Override(routes, bundle)
         /\ Without(Override(routes, bundle), Member) = Without(call.routes, Member)
         /\ Without(Override(ledger.byNet, ClaimsOf(bundle)), Member)
              = Without(call.claims, Member)
<1>1. /\ ledger.byNet = Without(call.claims, Member)
      /\ routes = Without(call.routes, Member)
      /\ Agrees(call.claims, call.routes) /\ AllWhole(call.routes)
  BY DEF AtomInv, StageInv, CallInv
<1>2. /\ bundle \in RouteMaps /\ DOMAIN bundle = Member
      /\ ClaimsOf(bundle) \in Claims /\ DOMAIN ClaimsOf(bundle) = Member
  BY NetsFacts, ClaimsOfType DEF Bundles
<1>3. Commit(l, ClaimsOf(bundle)).byNet = Override(ledger.byNet, ClaimsOf(bundle))
  BY <1>2, CommitFacts
<1>4. Agrees(Override(ledger.byNet, ClaimsOf(bundle)), Override(routes, bundle))
  BY <1>1, AgreesWithout, AgreesOverride
<1>5. AllWhole(Override(routes, bundle))
  <2>1. {Bus} \in SUBSET Target /\ Owned({Bus}) = Member /\ Bus \in Target
    BY NetsFacts, OwnedByOne DEF Member
  <2>2. AllWhole(routes)
    BY <1>1, <2>1, WholeWithout
  <2>3. QED
    BY <1>2, <2>1, <2>2, WholeOverride DEF Member
<1>6. Member \subseteq DOMAIN Override(routes, bundle)
  BY <1>2 DEF Override
<1>7. /\ Without(Override(routes, bundle), Member) = Without(call.routes, Member)
      /\ Without(Override(ledger.byNet, ClaimsOf(bundle)), Member)
           = Without(call.claims, Member)
  BY <1>1, <1>2, WithoutOverride, WithoutTwice
<1>8. QED
  BY <1>3, <1>4, <1>5, <1>6, <1>7

\* After an exception replace leaves the board it found.
LEMMA ReplaceRestores ==
  ASSUME BaseInv, AtomInv, SearchRaisesInReplace
  PROVE  ledger'.byNet = call.claims /\ routes' = call.routes
<1>0. pc = "search"
  BY DEF SearchRaisesInReplace
<1>1. /\ ledger.byNet = Without(call.claims, Member)
      /\ routes = Without(call.routes, Member)
      /\ Member \subseteq DOMAIN call.routes
      /\ Agrees(call.claims, call.routes)
  BY <1>0 DEF AtomInv, StageInv, CallInv
<1>2. /\ ledger \in Ledgers /\ call.claims \in Claims /\ call.routes \in RouteMaps
  BY DEF BaseInv, TypeOK, Calls
<1>3. OldMembers \in RouteMaps /\ ClaimsOf(OldMembers) \in Claims
  BY <1>2, RouteMapsMaps, ClaimsOfType DEF OldMembers
<1>4. ledger'.byNet = Override(Without(call.claims, Member), ClaimsOf(OldMembers))
  <2>1. /\ RipUp(ledger, Member) \in Ledgers
        /\ RipUp(ledger, Member).byNet = Without(ledger.byNet, Member)
    BY <1>2, RipUpFacts
  <2>2. Without(ledger.byNet, Member) = Without(call.claims, Member)
    BY <1>1, WithoutTwice
  <2>3. QED
    BY <1>3, <2>1, <2>2, CommitFacts DEF SearchRaisesInReplace
<1>5. ClaimsOf(OldMembers) = Only(call.claims, Member)
  <2>1. /\ DOMAIN call.routes \subseteq DOMAIN call.claims
        /\ \A n \in DOMAIN call.routes : call.claims[n] = Occupies[call.routes[n]]
    BY <1>1, AgreesPointwise
  <2>2. DOMAIN call.routes \cap Member = Member /\ DOMAIN call.claims \cap Member = Member
    BY <1>1, <2>1
  <2>3. QED
    BY <1>1, <2>1, <2>2 DEF OldMembers, ClaimsOf, Only
<1>6. routes' = Override(Without(call.routes, Member), Only(call.routes, Member))
  BY <1>1, WithoutTwice DEF SearchRaisesInReplace, OldMembers
<1>7. QED
  BY <1>2, <1>4, <1>5, <1>6, ClaimsElim, RouteMapsElim, PutBackMap

\* A callback left the state as it was: nothing a fingerprint shows changed.
LEMMA UntouchedFacts ==
  ASSUME BaseInv, NEW s \in Returned, Untouched(s[1], s[2])
  PROVE  /\ s[1] \in Ledgers /\ Indexed(s[1])
         /\ s[1].byNet = ledger.byNet /\ s[2] = routes
BY ReturnedFacts DEF BaseInv, TypeOK, LedgersIndexed, Untouched

\* a builder's bundle, kept for the materializer or refused
LEMMA BuilderReturnsAtom ==
  ASSUME BaseInv, AtomInv, BuilderReturns
  PROVE  AtomInv'
<1>0. pc = "build"
  BY DEF BuilderReturns
<1>1. PICK s \in Returned, bundle \in Offered :
        /\ Untouched(s[1], s[2])
        /\ Provisional(Commit(s[1], ClaimsOf(bundle)), Override(s[2], bundle))
  BY DEF BuilderReturns
<1>2. bundle \in Bundles /\ bundle \in RouteMaps /\ ClaimsOf(bundle) \in Claims
  BY NetsFacts, ClaimsOfType DEF Offered
<1>3. /\ s[1] \in Ledgers /\ Indexed(s[1])
      /\ s[1].byNet = ledger.byNet /\ s[2] = routes
  BY <1>1, UntouchedFacts
<1> DEFINE l == Commit(s[1], ClaimsOf(bundle))
<1>4. l \in Ledgers /\ Indexed(l)
  BY <1>2, <1>3, CommitFacts
<1>5. /\ l.byNet = Override(ledger.byNet, ClaimsOf(bundle))
      /\ Agrees(l.byNet, Override(routes, bundle))
      /\ AllWhole(Override(routes, bundle))
      /\ Member \subseteq DOMAIN Override(routes, bundle)
      /\ Without(Override(routes, bundle), Member) = Without(call.routes, Member)
      /\ Without(l.byNet, Member) = Without(call.claims, Member)
  BY <1>0, <1>2, <1>3, BundleFacts
<1>6. {Bus} \in SUBSET Target /\ Owned({Bus}) = Member
  BY NetsFacts, OwnedByOne DEF Member
<1>7. Provisional(l, Override(routes, bundle))
  BY <1>1, <1>3
<1> HIDE DEF l
<1>8. QED
  BY <1>0, <1>4, <1>5, <1>6, <1>7, ProvisionalAtom

\* what InstallNegotiated puts before the materializer
LEMMA InstallNegotiatedAtom ==
  ASSUME BaseInv, AtomInv, InstallNegotiated
  PROVE  AtomInv'
<1> DEFINE l == Reload(ledger, ClaimsOf(nego.routes))
<1>0. /\ pc = "negotiate" /\ nego.status = "completed"
      /\ IF Installable /\ l.byNet = nego.ledger.byNet
         THEN Provisional(l, nego.routes)
         ELSE Undo(IF Installable THEN l ELSE ledger, "candidate_invalid")
  BY DEF InstallNegotiated
<1>1. /\ ledger \in Ledgers /\ Indexed(ledger) /\ nego.routes \in RouteMaps
      /\ nego.targets \in SUBSET Target
  BY DEF BaseInv, TypeOK, LedgersIndexed, Runs
<1>2. l \in Ledgers /\ Indexed(l) /\ l.byNet = ClaimsOf(nego.routes)
  BY <1>1, ClaimsOfType, ReloadFacts
<1>3. Agrees(l.byNet, nego.routes)
  BY <1>2, AgreesPointwise DEF ClaimsOf
<1>4. /\ AllWhole(nego.routes)
      /\ Without(nego.ledger.byNet, Owned(nego.targets))
           = Without(call.claims, Owned(nego.targets))
  BY <1>0 DEF AtomInv, RunInv
<1> HIDE DEF l
<1>5. CASE Installable /\ l.byNet = nego.ledger.byNet
  BY <1>0, <1>1, <1>2, <1>3, <1>4, <1>5, ProvisionalAtom DEF Installable
<1>6. CASE ~(Installable /\ l.byNet = nego.ledger.byNet)
  <2>1. PICK k \in Ledgers : Undo(k, "candidate_invalid")
    BY <1>0, <1>1, <1>2, <1>6
  <2>2. QED
    BY <1>0, <2>1, UndoAtom DEF Unchanging
<1>7. QED
  BY <1>5, <1>6

\* the outcome is one of those that leave the board as it was
LEMMA UndoingActions ==
  ASSUME BaseInv, BuilderRaises \/ BuilderFails \/ MaterializerRaises
                    \/ CheckerRaises \/ CheckerRejects
  PROVE  /\ pc \in {"build", "materialize", "check"}
         /\ \E k \in Ledgers, how \in Unchanging : Undo(k, how)
<1>1. \A s \in Returned : s[1] \in Ledgers
  BY ReturnedFacts DEF BaseInv, TypeOK
<1>2. {"raised", "candidate_invalid", "candidate_failed", "rejected"} \subseteq Unchanging
  BY DEF Unchanging
<1>3. CASE BuilderRaises
  BY <1>1, <1>2, <1>3 DEF BuilderRaises
<1>4. CASE BuilderFails
  BY <1>1, <1>2, <1>4 DEF BuilderFails
<1>5. CASE MaterializerRaises
  BY <1>1, <1>2, <1>5 DEF MaterializerRaises
<1>6. CASE CheckerRaises
  BY <1>1, <1>2, <1>6 DEF CheckerRaises
<1>7. CASE CheckerRejects
  BY <1>1, <1>2, <1>7 DEF CheckerRejects
<1>8. QED
  BY <1>3, <1>4, <1>5, <1>6, <1>7

LEMMA ContinueAtom == BaseInv /\ AtomInv /\ Continue => AtomInv'
<1> SUFFICES ASSUME BaseInv, AtomInv, Continue PROVE AtomInv'
  OBVIOUS
<1>o. {"raised", "committed", "committed_and_raised", "accepted",
       "negotiation_failed", "broken"} \subseteq Outcomes
  BY DEF Outcomes, Unchanging
<1>1. CASE SearchRaisesInReplace
  <2>1. ledger'.byNet = call.claims /\ routes' = call.routes /\ End("raised")
    BY <1>1, ReplaceRestores DEF SearchRaisesInReplace
  <2>2. Agrees(call.claims, call.routes) /\ AllWhole(call.routes)
    BY <1>1 DEF SearchRaisesInReplace, AtomInv, CallInv
  <2>3. QED
    BY <1>o, <2>1, <2>2, EndAtom
<1>2. CASE SearchReturnsInReplace
  <2>1. PICK bundle \in Bundles :
          ledger' = Commit(ledger, ClaimsOf(bundle)) /\ routes' = Override(routes, bundle)
    BY <1>2 DEF SearchReturnsInReplace
  <2>2. Agrees(ledger'.byNet, routes') /\ AllWhole(routes')
    BY <1>2, <2>1, BundleFacts DEF SearchReturnsInReplace, BaseInv, TypeOK
  <2>3. End("committed_and_raised") \/ End("committed")
    BY <1>2 DEF SearchReturnsInReplace
  <2>4. QED
    BY <1>o, <2>2, <2>3, EndAtom
<1>3. CASE BuilderRaises \/ BuilderFails \/ MaterializerRaises
             \/ CheckerRaises \/ CheckerRejects
  BY <1>3, UndoingActions, UndoAtom
<1>4. CASE BuilderReturns
  BY <1>4, BuilderReturnsAtom
<1>5. CASE NegotiateStep
  BY <1>5, NegotiateAtom
<1>6. CASE NegotiationEnds
  <2>1. ledger' = ledger /\ routes' = routes /\ pc = "negotiate"
    BY <1>6 DEF NegotiationEnds
  <2>2. \/ nego.status # "unguarded" /\ (End("negotiation_failed") \/ End("raised"))
        \/ End("broken")
    BY <1>6 DEF NegotiationEnds
  <2>3. nego.status # "unguarded" => Agrees(ledger.byNet, routes) /\ AllWhole(routes)
    BY <2>1 DEF AtomInv, StageInv, CallInv
  <2>4. QED
    BY <1>o, <2>1, <2>2, <2>3, EndAtom
<1>7. CASE InstallNegotiated
  BY <1>7, InstallNegotiatedAtom
<1>8. CASE MaterializerReturns
  <2>1. /\ ledger'.byNet = ledger.byNet /\ routes' = routes
        /\ pc = "materialize" /\ pc' = "check"
        /\ nego' = nego /\ call' = call /\ entry' = entry /\ outcome' = outcome
    BY <1>8, UntouchedFacts DEF MaterializerReturns
  <2>2. PICK targets \in SUBSET Target : Rerouted(Owned(targets))
    BY <2>1 DEF AtomInv, StageInv
  <2>3. Rerouted(Owned(targets))'
    BY <2>1, <2>2 DEF Rerouted
  <2>4. RunInv' /\ CallInv'
    BY <2>1 DEF AtomInv, RunInv, CallInv
  <2>5. StageInv'
    BY <2>1, <2>3 DEF AtomInv, StageInv
  <2>6. QED
    BY <2>4, <2>5 DEF AtomInv
<1>9. CASE CheckerAccepts
  <2>1. /\ ledger'.byNet = ledger.byNet /\ routes' = routes
        /\ pc = "check" /\ End("accepted")
    BY <1>9, UntouchedFacts DEF CheckerAccepts
  <2>2. Agrees(ledger.byNet, routes) /\ AllWhole(routes)
    BY <2>1 DEF AtomInv, StageInv
  <2>3. QED
    BY <1>o, <2>1, <2>2, EndAtom
<1>10. QED
  BY <1>1, <1>2, <1>3, <1>4, <1>5, <1>6, <1>7, <1>8, <1>9 DEF Continue

LEMMA AtomStep == BaseInv /\ AtomInv /\ [Next]_vars => AtomInv'
<1>1. AtomInv /\ UNCHANGED vars => AtomInv'
  BY DEF AtomInv, RunInv, CallInv, StageInv, Rerouted, vars
<1>2. QED
  BY <1>1, AskAtom, ContinueAtom DEF Next

LEMMA Invariance == Spec => [](BaseInv /\ AtomInv)
BY BaseInit, AtomInit, BaseStep, AtomStep, PTL DEF Spec

(***************************************************************************)
(* Between calls every routed net has the claims of its route; between the *)
(* attempts of a negotiation the same holds on the private clone.          *)
(***************************************************************************)
THEOREM ClaimsFollowRoutes == Spec => []RoutesHoldTheirClaims
<1>1. AtomInv => RoutesHoldTheirClaims
  BY DEF AtomInv, RunInv, StageInv, RoutesHoldTheirClaims, Agrees
<1>2. QED
  BY <1>1, Invariance, PTL

(***************************************************************************)
(* Between calls a bus has routes for all of its members or for none.      *)
(***************************************************************************)
THEOREM BusesStayWhole == Spec => []BusesAreWhole
<1>1. AtomInv => BusesAreWhole
  BY DEF AtomInv, RunInv, StageInv, BusesAreWhole, AllWhole
<1>2. QED
  BY <1>1, Invariance, PTL

(***************************************************************************)
(* The board that is accepted is the board the exact checker was given.    *)
(***************************************************************************)
THEOREM CheckedIsAccepted == Spec => AcceptedAsChecked
<1>1. ASSUME BaseInv, [Next]_vars
      PROVE  [outcome' = "accepted" /\ pc = "check" => Board' = Board]_vars
  <2> SUFFICES ASSUME Next, outcome' = "accepted", pc = "check" PROVE Board' = Board
    BY <1>1
  <2>1. CheckerAccepts
    <3>1. ~Ask
      BY DEF Ask, BeginReplace, BeginChecked, BeginGroup, Begin
    <3>2. ~(CheckerRaises \/ CheckerRejects)
      BY DEF CheckerRaises, CheckerRejects, Undo, End
    <3>3. QED
      BY <3>1, <3>2 DEF Next, Continue, SearchRaisesInReplace, SearchReturnsInReplace,
         BuilderRaises, BuilderFails, BuilderReturns, NegotiateStep, NegotiationEnds,
         InstallNegotiated, MaterializerRaises, MaterializerReturns
  <2>2. ledger'.byNet = ledger.byNet /\ routes' = routes
    BY <1>1, <2>1, UntouchedFacts DEF CheckerAccepts
  <2>3. QED
    BY <2>2 DEF Board
<1>2. QED
  BY <1>1, Invariance, PTL DEF Spec, AcceptedAsChecked

\* A retained candidate has no overuse beside the claims it was built with.
LEMMA AuthorityFits ==
  ASSUME BaseInv, AtomInv, pc \in {"search", "build"}, NEW a \in call.authority,
         NEW l \in Ledgers, Indexed(l), l.byNet = ledger.byNet, l.byNet = a.initial
  PROVE  Overused(Commit(l, ClaimsOf(a.bundle))) = {}
<1>1. a \in Authorities
  BY DEF AtomInv, CallInv
<1>2. /\ a.bundle \in Bundles
      /\ ZeroOveruse(Override(a.initial, ClaimsOf(a.bundle)))
  BY <1>1 DEF Authorities
<1>3. a.bundle \in RouteMaps /\ ClaimsOf(a.bundle) \in Claims
  BY <1>2, NetsFacts, ClaimsOfType
<1>4. /\ Commit(l, ClaimsOf(a.bundle)) \in Ledgers
      /\ Indexed(Commit(l, ClaimsOf(a.bundle)))
      /\ Commit(l, ClaimsOf(a.bundle)).byNet = Override(a.initial, ClaimsOf(a.bundle))
  BY <1>3, CommitFacts
<1>5. QED
  BY <1>2, <1>4, OveruseIsExact

LEMMA RetainedStep ==
  ASSUME BaseInv, AtomInv, Next, call.authority # {}
  PROVE  outcome' \notin {"candidate_invalid", "committed_and_raised"}
<1>0. PICK a \in call.authority : TRUE
  OBVIOUS
<1>1. CASE Ask
  BY <1>1 DEF Ask, BeginReplace, BeginChecked, BeginGroup, Begin
<1>2. CASE SearchRaisesInReplace
  BY <1>2 DEF SearchRaisesInReplace, End
<1>3. CASE SearchReturnsInReplace
  <2>1. PICK bundle \in Bundles :
          /\ ledger.byNet = a.initial /\ bundle = a.bundle
          /\ ledger' = Commit(ledger, ClaimsOf(bundle))
    BY <1>0, <1>3 DEF SearchReturnsInReplace
  <2>2. Overused(ledger') = {}
    BY <1>0, <1>3, <2>1, AuthorityFits
    DEF SearchReturnsInReplace, BaseInv, TypeOK, LedgersIndexed
  <2>3. End("committed")
    BY <1>3, <2>2 DEF SearchReturnsInReplace
  <2>4. QED
    BY <2>3 DEF End
<1>4. CASE BuilderReturns
  <2>1. PICK s \in Returned, bundle \in Offered :
          /\ Untouched(s[1], s[2])
          /\ Provisional(Commit(s[1], ClaimsOf(bundle)), Override(s[2], bundle))
    BY <1>4 DEF BuilderReturns
  <2>2. ledger.byNet = a.initial /\ bundle = a.bundle
    BY <1>0, <2>1 DEF Offered
  <2>3. Overused(Commit(s[1], ClaimsOf(bundle))) = {}
    BY <1>0, <1>4, <2>1, <2>2, UntouchedFacts, AuthorityFits DEF BuilderReturns
  <2>4. outcome' = "checker_missing" \/ (outcome' = outcome /\ pc' = "materialize")
    BY <2>1, <2>3 DEF Provisional, Undo, End
  <2>5. outcome \notin {"candidate_invalid", "committed_and_raised"}
    BY <1>4 DEF BuilderReturns, AtomInv, CallInv
  <2>6. QED
    BY <2>4, <2>5
<1>5. CASE BuilderRaises \/ MaterializerRaises \/ CheckerRaises \/ CheckerRejects
  BY <1>5 DEF BuilderRaises, MaterializerRaises, CheckerRaises, CheckerRejects, Undo, End
<1>6. CASE BuilderFails
  BY <1>0, <1>6 DEF BuilderFails
<1>7. CASE NegotiateStep \/ NegotiationEnds \/ InstallNegotiated
  BY <1>0, <1>7 DEF NegotiateStep, NegotiationEnds, InstallNegotiated, AtomInv, StageInv
<1>8. CASE MaterializerReturns
  BY <1>8 DEF MaterializerReturns, AtomInv, CallInv
<1>9. CASE CheckerAccepts
  BY <1>9 DEF CheckerAccepts, End
<1>10. QED
  BY <1>1, <1>2, <1>3, <1>4, <1>5, <1>6, <1>7, <1>8, <1>9 DEF Next, Continue

(***************************************************************************)
(* A retained candidate that is released is never found overused, and no   *)
(* swap that was committed is reported as an error.                        *)
(***************************************************************************)
THEOREM RetainedCandidatesFit == Spec => RetainedFits
<1>1. ASSUME BaseInv, AtomInv, [Next]_vars
      PROVE  [call.authority # {} =>
                outcome' \notin {"candidate_invalid", "committed_and_raised"}]_vars
  BY <1>1, RetainedStep
<1>2. QED
  BY <1>1, Invariance, PTL DEF Spec, RetainedFits

--------------------------------------------------------------------------------
(* Every call is atomic to its users *)

OutsideBoard == IF pc \in {"idle", "broken"} THEN Board ELSE entry

\* the operators of RouteBoard are those of this module
LEMMA SameBoards == Outside!Boards = Boards
BY DEF Outside!Boards, Boards, Outside!Claims, Claims, Outside!RouteMaps, RouteMaps

LEMMA SameOperators ==
  ASSUME NEW p, NEW S
  PROVE  /\ Outside!Without(p, S) = Without(p, S)
         /\ Outside!Only(p, S) = Only(p, S)
         /\ Outside!ClaimsOf(p) = ClaimsOf(p)
         /\ Outside!ZeroOveruse(p) = ZeroOveruse(p)
BY DEF Outside!Without, Without, Outside!Only, Only, Outside!ClaimsOf, ClaimsOf,
       Outside!ZeroOveruse, ZeroOveruse

LEMMA BoardType == BaseInv => Board \in Outside!Boards
BY LedgerForm, SameBoards DEF BaseInv, TypeOK, Board, Boards

\* the outcome of a call that left its nets rerouted
LEMMA ReroutedOutside ==
  ASSUME BaseInv', AtomInv, pc \notin {"idle", "broken"}, pc' = "idle",
         NEW nets, nets \subseteq DOMAIN routes',
         Without(routes', nets) = Without(call.routes, nets),
         Without(ledger'.byNet, nets) = Without(call.claims, nets),
         Agrees(ledger'.byNet, routes')
  PROVE  Outside!Reroutes(nets)
<1>1. call.claims = entry.claims /\ call.routes = entry.routes
  BY DEF AtomInv, CallInv
<1>2. /\ OutsideBoard = entry
      /\ OutsideBoard' = [claims |-> ledger'.byNet, routes |-> routes']
  BY DEF OutsideBoard, Board
<1>3. OutsideBoard' \in Outside!Boards
  BY <1>2, LedgerForm, SameBoards DEF BaseInv, TypeOK, Boards
<1>4. Only(ledger'.byNet, nets) = Only(ClaimsOf(routes'), nets)
  <2>1. /\ DOMAIN routes' \subseteq DOMAIN ledger'.byNet
        /\ \A n \in DOMAIN routes' : ledger'.byNet[n] = Occupies[routes'[n]]
    BY AgreesPointwise
  <2>2. DOMAIN ledger'.byNet \cap nets = nets /\ DOMAIN routes' \cap nets = nets
    BY <2>1
  <2>3. QED
    BY <2>1, <2>2 DEF Only, ClaimsOf
<1>5. /\ Without(OutsideBoard'.routes, nets) = Without(OutsideBoard.routes, nets)
      /\ Without(OutsideBoard'.claims, nets) = Without(OutsideBoard.claims, nets)
      /\ Only(OutsideBoard'.claims, nets) = Only(ClaimsOf(OutsideBoard'.routes), nets)
      /\ nets \subseteq DOMAIN OutsideBoard'.routes
  BY <1>1, <1>2, <1>4
<1>6. QED
  BY <1>3, <1>5, SameOperators DEF Outside!Reroutes, OutsideBoard

\* the outcome of a call that left the board as it was
LEMMA KeptOutside ==
  ASSUME AtomInv, pc \notin {"idle", "broken"}, NEW how \in Unchanging, End(how),
         ledger'.byNet = call.claims, routes' = call.routes, BaseInv
  PROVE  Outside!Keep
<1>1. call.claims = entry.claims /\ call.routes = entry.routes
  BY DEF AtomInv, CallInv
<1>2. entry = [claims |-> entry.claims, routes |-> entry.routes]
  BY DEF BaseInv, TypeOK, Boards
<1>3. how # "broken" /\ pc' = "idle" /\ outcome' = how
  BY DEF End, Unchanging
<1>4. QED
  BY <1>1, <1>2, <1>3 DEF Outside!Keep, Board



OutsideStep == Outside!Next \/ UNCHANGED << OutsideBoard, outcome >>

LEMMA InsideACall ==
  ASSUME pc \notin {"idle", "broken"}, pc' \notin {"idle", "broken"},
         entry' = entry, outcome' = outcome
  PROVE  OutsideStep
BY DEF OutsideStep, OutsideBoard

LEMMA UndoOutside ==
  ASSUME BaseInv, AtomInv, pc \notin {"idle", "broken"},
         NEW l \in Ledgers, NEW how \in Unchanging, Undo(l, how)
  PROVE  OutsideStep
<1>1. call.claims \in Claims
  BY DEF BaseInv, TypeOK, Calls
<1>2. ledger'.byNet = call.claims /\ routes' = call.routes /\ End(how)
  BY <1>1, ReloadFacts DEF Undo
<1>3. Outside!Keep
  BY <1>2, KeptOutside
<1>4. QED
  BY <1>3 DEF OutsideStep, Outside!Next

LEMMA ProvisionalOutside ==
  ASSUME BaseInv, AtomInv, pc \in {"build", "negotiate"},
         NEW l \in Ledgers, NEW rts, Provisional(l, rts)
  PROVE  OutsideStep
<1>1. CASE Undo(l, "candidate_invalid") \/ Undo(l, "checker_missing")
  BY <1>1, UndoOutside DEF Unchanging
<1>2. CASE pc' = "materialize" /\ UNCHANGED << nego, call, outcome, entry >>
  BY <1>2, InsideACall
<1>3. QED
  BY <1>1, <1>2 DEF Provisional

LEMMA ReplaceOutside ==
  ASSUME BaseInv, AtomInv, BaseInv', SearchReturnsInReplace
  PROVE  OutsideStep
<1>1. PICK bundle \in Bundles :
        ledger' = Commit(ledger, ClaimsOf(bundle)) /\ routes' = Override(routes, bundle)
  BY DEF SearchReturnsInReplace
<1>2. pc = "search"
  BY DEF SearchReturnsInReplace
<1>3. /\ Member \subseteq DOMAIN routes'
      /\ Without(routes', Member) = Without(call.routes, Member)
      /\ Without(ledger'.byNet, Member) = Without(call.claims, Member)
      /\ Agrees(ledger'.byNet, routes')
  BY <1>1, <1>2, BundleFacts DEF BaseInv, TypeOK
<1>4. End("committed")
  <2>1. CASE call.authority = {}
    BY <2>1 DEF SearchReturnsInReplace
  <2>2. CASE call.authority # {}
    <3>1. outcome' # "committed_and_raised"
      BY <2>2, RetainedStep DEF Next, Continue
    <3>2. End("committed_and_raised") \/ End("committed")
      BY DEF SearchReturnsInReplace
    <3>3. QED
      BY <3>1, <3>2 DEF End
  <2>3. QED
    BY <2>1, <2>2
<1>5. pc' = "idle" /\ outcome' = "committed"
  BY <1>4 DEF End
<1>6. Outside!Reroutes(Member)
  BY <1>2, <1>3, <1>5, ReroutedOutside
<1>7. QED
  BY <1>5, <1>6 DEF OutsideStep, Outside!Next, Outside!Replace, Member

LEMMA AcceptOutside ==
  ASSUME BaseInv, AtomInv, BaseInv', CheckerAccepts
  PROVE  OutsideStep
<1>1. /\ ledger'.byNet = ledger.byNet /\ routes' = routes
      /\ pc = "check" /\ End("accepted")
  BY UntouchedFacts DEF CheckerAccepts
<1>2. /\ ZeroOveruse(ledger.byNet) /\ Agrees(ledger.byNet, routes)
      /\ \E targets \in SUBSET Target : Rerouted(Owned(targets))
  BY <1>1 DEF AtomInv, StageInv
<1>3. PICK targets \in SUBSET Target : Rerouted(Owned(targets))
  BY <1>2
<1>4. pc' = "idle" /\ outcome' = "accepted"
  BY <1>1 DEF End
<1>5. Outside!Reroutes(Owned(targets))
  BY <1>1, <1>2, <1>3, <1>4, ReroutedOutside DEF Rerouted
<1>6. Outside!ZeroOveruse(OutsideBoard'.claims)
  BY <1>1, <1>2, <1>4, SameOperators DEF OutsideBoard, Board
<1>7. Outside!Accept
  BY <1>4, <1>5, <1>6 DEF Outside!Accept, OutsideBoard, Owned
<1>8. QED
  BY <1>7 DEF OutsideStep, Outside!Next

LEMMA ContinueOutside == BaseInv /\ AtomInv /\ BaseInv' /\ Continue => OutsideStep
<1> SUFFICES ASSUME BaseInv, AtomInv, BaseInv', Continue PROVE OutsideStep
  OBVIOUS
<1>1. CASE SearchRaisesInReplace
  <2>1. /\ ledger'.byNet = call.claims /\ routes' = call.routes
        /\ End("raised") /\ pc = "search"
    BY <1>1, ReplaceRestores DEF SearchRaisesInReplace
  <2>2. Outside!Keep
    BY <2>1, KeptOutside DEF Unchanging
  <2>3. QED
    BY <2>2 DEF OutsideStep, Outside!Next
<1>2. CASE SearchReturnsInReplace
  BY <1>2, ReplaceOutside
<1>3. CASE BuilderRaises \/ BuilderFails \/ MaterializerRaises
             \/ CheckerRaises \/ CheckerRejects
  BY <1>3, UndoingActions, UndoOutside
<1>4. CASE BuilderReturns
  <2>1. PICK s \in Returned, bundle \in Offered :
          Provisional(Commit(s[1], ClaimsOf(bundle)), Override(s[2], bundle))
    BY <1>4 DEF BuilderReturns
  <2>2. Commit(s[1], ClaimsOf(bundle)) \in Ledgers
    BY <2>1, ReturnedFacts, NetsFacts, ClaimsOfType, CommitFacts
    DEF BaseInv, TypeOK, Offered
  <2>3. QED
    BY <1>4, <2>1, <2>2, ProvisionalOutside DEF BuilderReturns
<1>5. CASE NegotiateStep
  BY <1>5, InsideACall DEF NegotiateStep
<1>6. CASE NegotiationEnds
  <2>1. /\ ledger' = ledger /\ routes' = routes /\ pc = "negotiate"
        /\ \/ /\ nego.status # "unguarded"
              /\ \E how \in {"negotiation_failed", "raised"} : End(how)
           \/ End("broken")
    BY <1>6 DEF NegotiationEnds
  <2>2. CASE nego.status # "unguarded" /\ \E how \in {"negotiation_failed", "raised"} : End(how)
    <3>1. ledger.byNet = call.claims /\ routes = call.routes
      BY <2>1, <2>2 DEF AtomInv, StageInv
    <3>2. Outside!Keep
      BY <2>1, <2>2, <3>1, KeptOutside DEF Unchanging
    <3>3. QED
      BY <3>2 DEF OutsideStep, Outside!Next
  <2>3. CASE End("broken")
    <3>1. outcome' = "broken" /\ OutsideBoard' = Board'
      BY <2>3 DEF End, OutsideBoard
    <3>2. Board' \in Outside!Boards
      BY BoardType, SameBoards, LedgerForm DEF BaseInv, TypeOK, Board, Boards
    <3>3. QED
      BY <3>1, <3>2 DEF OutsideStep, Outside!Next, Outside!Break, OutsideBoard, Outside!Boards
  <2>4. QED
    BY <2>1, <2>2, <2>3
<1>7. CASE InstallNegotiated
  <2> DEFINE l == Reload(ledger, ClaimsOf(nego.routes))
  <2>1. l \in Ledgers /\ ledger \in Ledgers
    BY ClaimsOfType, ReloadFacts DEF BaseInv, TypeOK, Runs
  <2>2. \/ Provisional(l, nego.routes)
        \/ Undo(l, "candidate_invalid")
        \/ Undo(ledger, "candidate_invalid")
    BY <1>7 DEF InstallNegotiated
  <2>3. pc = "negotiate"
    BY <1>7 DEF InstallNegotiated
  <2> HIDE DEF l
  <2>4. QED
    BY <2>1, <2>2, <2>3, ProvisionalOutside, UndoOutside DEF Unchanging
<1>8. CASE MaterializerReturns
  BY <1>8, InsideACall DEF MaterializerReturns
<1>9. CASE CheckerAccepts
  BY <1>9, AcceptOutside
<1>10. QED
  BY <1>1, <1>2, <1>3, <1>4, <1>5, <1>6, <1>7, <1>8, <1>9 DEF Continue

LEMMA AskOutside == Ask => OutsideStep
<1> SUFFICES ASSUME NEW kind, NEW authority, NEW next \in {"search", "build", "negotiate"},
                    Begin(kind, authority, next)
             PROVE  OutsideStep
  BY DEF Ask, BeginReplace, BeginChecked, BeginGroup
<1>1. /\ outcome' = "none" /\ OutsideBoard = Board /\ OutsideBoard' = Board
  BY DEF Begin, OutsideBoard
<1>2. QED
  BY <1>1 DEF OutsideStep, Outside!Next, Outside!Ask, OutsideBoard

(***************************************************************************)
(* The coordinators implement RouteBoard: to its users every call of a     *)
(* replacement, a checked commit or a group negotiation reroutes its       *)
(* targets and nothing else in one step, without overuse if it was         *)
(* checked, or leaves claims and routes exactly as they were.              *)
(***************************************************************************)
THEOREM CallsTakeEffectAtOnce == Spec => CallsAreAtomic
<1>1. Init => Outside!Init
  <2> SUFFICES ASSUME Init PROVE Outside!Init
    OBVIOUS
  <2>1. OutsideBoard = Board /\ outcome = "none" /\ Board \in Outside!Boards
    BY BaseInit, BoardType DEF Init, OutsideBoard
  <2>2. QED
    BY <2>1 DEF Outside!Init, OutsideBoard
<1>2. ASSUME BaseInv, AtomInv, BaseInv', [Next]_vars
      PROVE  [Outside!Next]_<< OutsideBoard, outcome >>
  <2>1. CASE UNCHANGED vars
    BY <2>1 DEF vars, OutsideBoard, Board
  <2>2. CASE Next
    BY <1>2, <2>2, AskOutside, ContinueOutside DEF Next, OutsideStep
  <2>3. QED
    BY <1>2, <2>1, <2>2
<1>3. QED
  BY <1>1, <1>2, Invariance, PTL DEF Spec, CallsAreAtomic, Outside!Spec, OutsideBoard

================================================================================
