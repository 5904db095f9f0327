--------------------------- MODULE PublicationProofs ---------------------------
(* Theorems about BoardPublication, for any generations, files, candidates, workers  *)
(* of the job and processes that complete inspections.                               *)
EXTENDS BoardPublication, GenerationProofs

Working == {"inspect", "publish", "record", "fail"}

\* Who may be publishing: the one running worker of a job that is not finished, or the
\* one process that has the attempt, or the resumption, of its completion.
TurnsInv ==
  /\ \A v, w \in Worker : Running(v) /\ Running(w) => v = w
  /\ \A w \in Worker : Running(w) => job # "finished"
  /\ \A w \in Worker : route[w] # NoRoute => w \in Builder
  /\ \A w \in Worker : pc[w] # "idle" => w \in Builder \/ clerk[w].stage = "publish"
  /\ \A w \in Worker : clerk[w].stage # "none" =>
       job = "finished" /\ Authorized /\ w \notin Builder
  /\ \A w \in Worker : clerk[w].stage = "permit" /\ clerk[w].resumed =>
       records.attempt /\ records.failure = "diagnosed"
  /\ \A w \in Worker : clerk[w].stage \in Working =>
       /\ records.attempt
       /\ IF clerk[w].resumed THEN records.resumption /\ records.failure = "diagnosed"
                              ELSE records.failure = "none"
  /\ \A v, w \in Worker : clerk[v].stage \in Working /\ clerk[w].stage \in Working => v = w

\* What a publishing process works on succeeds what is current.
SourceInv ==
  \A w \in Worker : pc[w] # "idle" =>
    work[w].source = current /\ work[w].previous = current

\* What a route knows of CURRENT.json.
RouteInv(w) ==
  LET r == route[w] IN
  /\ r.stage \in {"search", "commit"} =>
       pc[w] # "idle" /\ work[w].gen = r.gen /\ r.before = current
  /\ r.stage \in {"retain", "reread", "reported"} =>
       /\ pc[w] = "idle"
       /\ IF r.status = "accepted"
          THEN current = << r.gen, w >> /\ current # r.before
          ELSE current = r.before
  /\ r.stage \in {"reread", "reported"} => r.candidate \in retained
  /\ r.stage # "none" => r.candidate # NoCandidate

\* What a completion knows of CURRENT.json.
ClerkInv(w) ==
  LET c == clerk[w] IN
  /\ c.stage \in {"inspect", "publish", "record"} => records.result = "none"
  /\ c.stage \in {"inspect", "publish"} => current = authorization.source
  /\ c.stage = "publish" => pc[w] # "idle" /\ work[w].gen = authorization.gen
  /\ c.stage = "record" =>
       \/ c.outcome = "committed" /\ current = << authorization.gen, w >>
       \/ c.outcome = "rolled_back" /\ current = authorization.source
  /\ c.stage = "fail" /\ c.error = "diagnosed" /\ ~ c.resumed =>
       current = authorization.source /\ records.result = "none"

\* What the records say, and what their absence says.
RecordsInv ==
  /\ RecordsAreTrue
  /\ Authorized => job = "finished"
  /\ ~ records.attempt => records.result = "none" /\ records.failure = "none" /\ ~ records.resumption
  /\ Authorized /\ ~ records.attempt => current = authorization.source
  /\ records.failure = "diagnosed" /\ ~ records.resumption => records.result = "none"
  /\ records.attempt => Authorized

\* What holds of the files whoever works.
DiskInv ==
  /\ PInv
  /\ current \in published \cup {NoPointer}
  /\ \A p \in published : generations[p[1]] = Whole(p[2])

BInv ==
  /\ BoardTypeOK
  /\ DiskInv
  /\ TurnsInv
  /\ SourceInv
  /\ RecordsInv
  /\ \A w \in Worker : SInv(w) /\ RouteInv(w) /\ ClerkInv(w)

-------------------------------------------------------------------------------
(* What the steps of a publication do to the worker and to CURRENT.json *)

\* Nothing of the other workers changes.
Frame(w) == \A v \in Worker \ {w} : pc'[v] = pc[v] /\ work'[v] = work[v]

\* A call begins, goes on, ends without and with a new current generation.
Begins(w, g) == /\ pc[w] = "idle" /\ pc'[w] # "idle" /\ work'[w].gen = g
                /\ current' = current /\ Frame(w)
Goes(w)      == /\ pc[w] # "idle" /\ pc'[w] # "idle" /\ work'[w].gen = work[w].gen
                /\ current' = current /\ Frame(w)
Leaves(w)    == pc[w] # "idle" /\ pc'[w] = "idle" /\ current' = current /\ Frame(w)
Swaps(w)     == /\ pc[w] # "idle" /\ pc'[w] = "idle" /\ Frame(w)
                /\ current' = << work[w].gen, w >> /\ current' # current
Rests        == UNCHANGED << pc, work, current >>

Inner(w) ==
  \/ Bind(w) \/ Check(w) \/ Compare(w)
  \/ Stage(w) \/ (\E f \in File : Write(w, f)) \/ Seal(w) \/ Promote(w)
  \/ Recheck(w) \/ Point(w) \/ Fail(w) \/ Mark(w) \/ Retire(w)

LEMMA VarsRest == UNCHANGED vars => Rests
BY DEF vars, disk, Rests

LEMMA BeginFacts ==
  ASSUME TypeOK, NEW w \in Worker, NEW g \in Generation, NEW k \in Kind, Begin(w, g, k)
  PROVE  /\ Step(w) /\ Begins(w, g)
         /\ work'[w].source = current /\ work'[w].previous = current /\ work'[w].kind = k
         /\ k = "inspect" => Resolves(current)
<1>1. Step(w)
  BY DEF Step
<1>2. Frame(w)
  BY <1>1, Moves DEF Frame
<1>3. pc \in [Worker -> Phase] /\ work \in [Worker -> Work \cup {NoWork}]
  BY TypeParts
<1>4. pc[w] = "idle" /\ pc'[w] # "idle" /\ current' = current
  BY <1>3 DEF Begin, Go, disk
<1>5. work'[w] = [gen |-> g, kind |-> k, source |-> current, previous |-> current]
  BY <1>3 DEF Begin
<1>6. QED
  BY <1>1, <1>2, <1>4, <1>5 DEF Begins, Begin

LEMMA InnerFacts ==
  ASSUME TypeOK, NEW w \in Worker, Inner(w)
  PROVE  /\ Step(w) /\ Goes(w)
         /\ work'[w].source = work[w].source /\ work'[w].kind = work[w].kind
         /\ work'[w].previous \in {work[w].previous, current}
<1>1. Step(w)
  BY DEF Step, Inner
<1>2. Frame(w)
  BY <1>1, Moves DEF Frame
<1>3. pc \in [Worker -> Phase] /\ work \in [Worker -> Work \cup {NoWork}]
  BY TypeParts
<1>4. pc[w] # "idle" /\ pc'[w] # "idle"
  BY <1>3 DEF Inner, Bind, Check, Compare, Stage, Write, Seal, Promote, Recheck, Point, Fail,
     Mark, Retire, Go, Staged, Promoted
<1>5. current' = current
  BY DEF Inner, Bind, Check, Compare, Stage, Write, Seal, Promote, Recheck, Point, Fail,
     Mark, Retire, disk
<1>6. CASE Bind(w)
  <2>1. work[w] \in Work
    BY <1>4, Busy
  <2>2. work'[w] = [work[w] EXCEPT !.previous = current]
    BY <1>3, <1>6 DEF Bind
  <2>3. QED
    BY <1>1, <1>2, <1>4, <1>5, <2>1, <2>2 DEF Goes, Work
<1>7. CASE ~ Bind(w)
  <2>1. work' = work
    BY <1>7 DEF Inner, Check, Compare, Stage, Write, Seal, Promote, Recheck, Point, Fail,
       Mark, Retire, disk
  <2>2. QED
    BY <1>1, <1>2, <1>4, <1>5, <2>1 DEF Goes
<1>8. QED
  BY <1>6, <1>7

LEMMA LeaveFacts ==
  ASSUME TypeOK, NEW w \in Worker, Leave(w) \/ Discard(w)
  PROVE  Step(w) /\ Leaves(w)
<1>1. Step(w)
  BY DEF Step
<1>2. Frame(w)
  BY <1>1, Moves DEF Frame
<1>3. pc \in [Worker -> Phase]
  BY TypeParts
<1>4. QED
  BY <1>1, <1>2, <1>3 DEF Leaves, Leave, Discard, Return, Go

LEMMA SwapFacts ==
  ASSUME NEW w \in Worker, SInv(w), Swap(w)
  PROVE  Step(w) /\ Swaps(w)
<1>1. Step(w) /\ PInv /\ TypeOK
  BY DEF Step, SInv, PInv
<1>2. Frame(w)
  BY <1>1, Moves DEF Frame
<1>3. pc \in [Worker -> Phase]
  BY <1>1, TypeParts
<1>4. pc[w] = "swap" /\ pc'[w] = "idle" /\ current' = temporary
  BY <1>3 DEF Swap, Return, Go
<1>5. /\ temporary = << work[w].gen, w >>
      /\ current \in published \cup {NoPointer}
      /\ \A p \in published : p[1] # work[w].gen
  BY <1>4 DEF SInv, HasPromoted, Promoted
<1>6. << work[w].gen, w >> \in Publication
  BY <1>1, <1>4, Busy
<1>7. << work[w].gen, w >> # current
  BY <1>5, <1>6, PublicationAssumption
<1>8. QED
  BY <1>1, <1>2, <1>4, <1>5, <1>7 DEF Swaps

\* The invariant of one busy worker is that of all workers while the others are idle.
LEMMA DiskStep ==
  ASSUME DiskInv, \A v \in Worker : SInv(v), NEW w \in Worker, Step(w),
         \A v \in Worker \ {w} : pc[v] = "idle"
  PROVE  DiskInv' /\ (\A v \in Worker : SInv(v)') /\ Kept
<1>1. SInv(w)' /\ Kept
  BY SingleStep
<1>2. DiskInv'
  BY <1>1 DEF SInv, DiskInv
<1>3. ASSUME NEW v \in Worker, v # w
      PROVE  SInv(v)'
  <2>1. pc'[v] = "idle"
    BY <1>3, Moves DEF SInv, PInv
  <2>2. QED
    BY <1>2, <2>1 DEF SInv, DiskInv, HasPromoted, Promoted
<1>4. QED
  BY <1>1, <1>2, <1>3

LEMMA DiskRests ==
  ASSUME DiskInv, \A v \in Worker : SInv(v), UNCHANGED vars
  PROVE  DiskInv' /\ (\A v \in Worker : SInv(v)') /\ Kept
<1>1. PInv'
  BY NextPInv DEF DiskInv
<1>2. UNCHANGED << current, published, generations, staging, pc, work, temporary >>
  BY DEF vars, disk
<1>3. QED
  BY <1>1, <1>2 DEF DiskInv, SInv, Kept

-------------------------------------------------------------------------------
(* Publishers take turns *)

LEMMA TakeTurns == TurnsInv => PublishersTakeTurns
BY DEF TurnsInv, PublishersTakeTurns, AtWork, Working

LEMMA BusyIsAtWork ==
  ASSUME TurnsInv, NEW w \in Worker, pc[w] # "idle"
  PROVE  AtWork(w)
BY DEF TurnsInv, AtWork, Running

LEMMA OthersIdle ==
  ASSUME TurnsInv, NEW w \in Worker, AtWork(w) \/ Claimed(w), NEW v \in Worker, v # w
  PROVE  pc[v] = "idle"
<1> SUFFICES ASSUME pc[v] # "idle"
             PROVE  FALSE
  OBVIOUS
<1>1. AtWork(v)
  BY BusyIsAtWork
<1>2. CASE AtWork(w)
  BY <1>1, <1>2, TakeTurns DEF PublishersTakeTurns
<1>3. CASE Claimed(w) /\ ~ Running(w)
  <2>1. job = "active" /\ ~ Running(v)
    BY <1>3 DEF Claimed
  <2>2. v \notin Builder
    BY <2>1 DEF Running
  <2>3. clerk[v].stage = "publish"
    BY <2>2 DEF TurnsInv
  <2>4. QED
    BY <2>1, <2>3 DEF TurnsInv
<1>4. QED
  BY <1>2, <1>3 DEF AtWork

\* A running worker has the claim.
LEMMA RunningIsClaimed ==
  ASSUME TurnsInv, NEW w \in Worker, Running(w)
  PROVE  Claimed(w)
BY DEF TurnsInv, Claimed, Running

\* A step of the worker that has the claim.
LEMMA BuilderTurns ==
  ASSUME TurnsInv, NEW w \in Worker, Claimed(w), Frame(w),
         \A v \in Worker \ {w} : route'[v] = route[v],
         UNCHANGED << job, completion >>
  PROVE  TurnsInv'
<1>1. UNCHANGED << job, authorization, records, clerk >>
  BY DEF completion
<1>2. \A v \in Worker \ {w} : ~ Running(v) /\ (Running(v)' <=> Running(v))
  BY DEF Claimed, Running, Frame
<1>3. w \in Builder /\ job # "finished"
  BY DEF Claimed, TurnsInv
<1>4. \A u, v \in Worker : Running(u)' /\ Running(v)' => u = v
  BY <1>2
<1>5. \A v \in Worker : Running(v)' => job' # "finished"
  BY <1>1, <1>3
<1>6. \A v \in Worker : /\ route'[v] # NoRoute => v \in Builder
                        /\ pc'[v] # "idle" => v \in Builder \/ clerk'[v].stage = "publish"
  BY <1>1, <1>3 DEF TurnsInv, Frame
<1>7. Authorized' <=> Authorized
  BY <1>1 DEF Authorized
<1>8. QED
  BY <1>1, <1>4, <1>5, <1>6, <1>7 DEF TurnsInv

\* Steps of the job.
LEMMA JobTurns ==
  ASSUME TurnsInv, UNCHANGED << pc, route, records, clerk >>,
         job' = "finished" => NoneRunning,
         job = "finished" => job' = "finished",
         Authorized => Authorized'
  PROVE  TurnsInv'
<1>1. \A v \in Worker : Running(v)' <=> Running(v)
  BY DEF Running
<1>2. QED
  BY <1>1 DEF TurnsInv, NoneRunning

\* Steps of a process that completes an inspection: whatever it does, the others stay
\* within what their stage says, if its own stage does.
LEMMA ClerkTurns ==
  ASSUME TurnsInv, NEW w \in Worker, w \notin Builder, Frame(w),
         \A v \in Worker \ {w} : clerk'[v] = clerk[v],
         UNCHANGED << job, authorization, route >>,
         job = "finished" /\ Authorized,
         pc'[w] # "idle" => clerk'[w].stage = "publish",
         clerk'[w].stage = "permit" /\ clerk'[w].resumed =>
           records'.attempt /\ records'.failure = "diagnosed",
         clerk'[w].stage \in Working =>
           /\ records'.attempt
           /\ IF clerk'[w].resumed THEN records'.resumption /\ records'.failure = "diagnosed"
                                   ELSE records'.failure = "none",
         clerk'[w].stage \in Working =>
           \A v \in Worker \ {w} : clerk[v].stage \notin Working,
         records.attempt => records'.attempt,
         records.resumption => records'.resumption,
         records'.failure = records.failure \/ \A v \in Worker \ {w} :
           ~ (clerk[v].stage = "permit" /\ clerk[v].resumed) /\ clerk[v].stage \notin Working
  PROVE  TurnsInv'
<1>1. Authorized'
  BY DEF Authorized
<1>2. \A v \in Worker : Running(v)' <=> Running(v)
  BY DEF Running, Frame
<1>3. \A u, v \in Worker : clerk'[u].stage \in Working /\ clerk'[v].stage \in Working => u = v
  BY DEF TurnsInv
<1>4. ASSUME NEW v \in Worker
      PROVE  /\ pc'[v] # "idle" => v \in Builder \/ clerk'[v].stage = "publish"
             /\ clerk'[v].stage # "none" => v \notin Builder
             /\ clerk'[v].stage = "permit" /\ clerk'[v].resumed =>
                  records'.attempt /\ records'.failure = "diagnosed"
             /\ clerk'[v].stage \in Working =>
                  /\ records'.attempt
                  /\ IF clerk'[v].resumed
                     THEN records'.resumption /\ records'.failure = "diagnosed"
                     ELSE records'.failure = "none"
  <2>1. CASE v = w
    BY <2>1
  <2>2. CASE v # w
    <3>1. clerk'[v] = clerk[v] /\ pc'[v] = pc[v]
      BY <2>2 DEF Frame
    <3>2. QED
      BY <2>2, <3>1 DEF TurnsInv
  <2>3. QED
    BY <2>1, <2>2
<1>5. QED
  BY <1>1, <1>2, <1>3, <1>4 DEF TurnsInv

-------------------------------------------------------------------------------
(* The steps of a publication keep what calls know of CURRENT.json *)

LEMMA StepCases ==
  ASSUME NEW w \in Worker, Step(w)
  PROVE  \/ \E g \in Generation, k \in Kind : Begin(w, g, k)
         \/ Inner(w) \/ Leave(w) \/ Discard(w) \/ Swap(w)
BY DEF Step, Inner

\* CURRENT.json is replaced by the successor of what it named.
Succession(w) ==
  /\ pc[w] # "idle"
  /\ current' = << work[w].gen, w >>
  /\ work[w].previous = current
  /\ work[w].source = current

LEMMA SourceStep ==
  ASSUME TypeOK, SourceInv, NEW w \in Worker, Step(w), SInv(w),
         \A v \in Worker \ {w} : pc[v] = "idle"
  PROVE  SourceInv' /\ (current' = current \/ Succession(w))
<1>1. \A v \in Worker \ {w} : pc'[v] = "idle"
  BY Moves
<1>2. CASE \E g \in Generation, k \in Kind : Begin(w, g, k)
  <2>1. PICK g \in Generation, k \in Kind : Begin(w, g, k)
    BY <1>2
  <2>2. /\ current' = current
        /\ work'[w].source = current /\ work'[w].previous = current
    BY <2>1, BeginFacts DEF Begins
  <2>3. QED
    BY <1>1, <2>2 DEF SourceInv
<1>3. CASE Inner(w)
  <2>1. /\ current' = current /\ pc[w] # "idle"
        /\ work'[w].source = work[w].source
        /\ work'[w].previous \in {work[w].previous, current}
    BY <1>3, InnerFacts DEF Goes
  <2>2. QED
    BY <1>1, <2>1 DEF SourceInv
<1>4. CASE Leave(w) \/ Discard(w)
  <2>1. pc'[w] = "idle" /\ current' = current
    BY <1>4, LeaveFacts DEF Leaves
  <2>2. QED
    BY <1>1, <2>1 DEF SourceInv
<1>5. CASE Swap(w)
  <2>1. pc[w] # "idle" /\ pc'[w] = "idle" /\ current' = << work[w].gen, w >>
    BY <1>5, SwapFacts DEF Swaps
  <2>2. Succession(w)
    BY <2>1 DEF Succession, SourceInv
  <2>3. QED
    BY <1>1, <2>1, <2>2 DEF SourceInv
<1>6. QED
  BY <1>2, <1>3, <1>4, <1>5, StepCases

LEMMA RestFrame ==
  ASSUME NEW w \in Worker, UNCHANGED vars
  PROVE  Frame(w) /\ (SourceInv => SourceInv')
BY VarsRest DEF Frame, Rests, SourceInv

\* A worker that has no route knows nothing.
LEMMA NoRouteKnows ==
  ASSUME NEW v \in Worker, route'[v] = NoRoute
  PROVE  RouteInv(v)'
BY DEF RouteInv, NoRoute

LEMMA IdleClerkKnows ==
  ASSUME NEW v \in Worker, clerk'[v].stage \notin Working
  PROVE  ClerkInv(v)'
BY DEF ClerkInv, Working

LEMMA OthersHaveNoRoute ==
  ASSUME TurnsInv, NEW w \in Worker, Claimed(w) \/ job = "finished",
         NEW v \in Worker, v # w \/ job = "finished"
  PROVE  route[v] = NoRoute
BY DEF TurnsInv, Claimed, Running

\* While the job is not finished there is no authorization, no record and no clerk.
LEMMA Unfinished ==
  ASSUME TurnsInv, RecordsInv, job # "finished"
  PROVE  /\ ~ Authorized /\ ~ records.attempt
         /\ records.result = "none" /\ records.failure = "none"
         /\ \A v \in Worker : clerk[v].stage = "none"
BY DEF TurnsInv, RecordsInv

\* What a step of the job's worker leaves of the completion.
LEMMA BuilderClerks ==
  ASSUME TurnsInv, RecordsInv, job # "finished", UNCHANGED << job, completion >>
  PROVE  RecordsInv' /\ \A v \in Worker : ClerkInv(v)'
<1>1. UNCHANGED << job, authorization, records, clerk >>
  BY DEF completion
<1>2. \A v \in Worker : clerk'[v].stage \notin Working
  BY <1>1, Unfinished DEF Working
<1>3. RecordsInv'
  BY <1>1, Unfinished DEF RecordsInv, RecordsAreTrue, Authorized
<1>4. QED
  BY <1>2, <1>3, IdleClerkKnows

-------------------------------------------------------------------------------
(* The job's worker *)

\* The invariant but for what all steps of a publication keep of the files.
Knowledge ==
  /\ TurnsInv /\ SourceInv /\ RecordsInv
  /\ \A w \in Worker : RouteInv(w) /\ ClerkInv(w)

\* What every step of BoardNext does to the files.
Acts ==
  \/ UNCHANGED vars
  \/ \E w \in Worker :
       /\ Step(w) /\ \A v \in Worker \ {w} : pc[v] = "idle"
       /\ current' # current => Succession(w) /\ (job = "finished" => w \notin Builder)

LEMMA BuilderKeeps ==
  ASSUME BInv, NEW w \in Worker, Claimed(w), Step(w) \/ UNCHANGED vars,
         \A v \in Worker \ {w} : route'[v] = route[v],
         UNCHANGED << job, completion >>, RouteInv(w)'
  PROVE  Knowledge' /\ Acts
<1>1. TurnsInv /\ SourceInv /\ RecordsInv /\ TypeOK /\ SInv(w)
  BY DEF BInv, BoardTypeOK
<1>2. \A v \in Worker \ {w} : pc[v] = "idle"
  BY <1>1, OthersIdle
<1>3. Frame(w) /\ SourceInv' /\ (UNCHANGED vars \/ current' = current \/ Succession(w))
  BY <1>1, <1>2, SourceStep, RestFrame, Moves DEF Frame
<1>4. TurnsInv'
  BY <1>1, <1>3, BuilderTurns
<1>5. job # "finished"
  BY <1>1 DEF Claimed, TurnsInv
<1>6. RecordsInv' /\ \A v \in Worker : ClerkInv(v)'
  BY <1>1, <1>5, BuilderClerks
<1>7. \A v \in Worker : RouteInv(v)'
  BY <1>1, OthersHaveNoRoute, NoRouteKnows
<1>8. Acts
  BY <1>2, <1>3, <1>5 DEF Acts
<1>9. QED
  BY <1>3, <1>4, <1>6, <1>7, <1>8 DEF Knowledge

LEMMA CallStep ==
  ASSUME BInv, NEW w \in Worker, NEW g \in Generation, NEW k \in Kind, Call(w, g, k)
  PROVE  Knowledge' /\ Acts
<1>1. Claimed(w) /\ Begin(w, g, k) /\ UNCHANGED << job, completion >> /\ route' = route
      /\ route[w] = NoRoute
  BY DEF Call, routing
<1>2. Step(w)
  BY <1>1 DEF Step
<1>3. RouteInv(w)'
  BY <1>1, NoRouteKnows
<1>4. QED
  BY <1>1, <1>2, <1>3, BuilderKeeps

LEMMA CallEndsStep ==
  ASSUME BInv, NEW w \in Worker, CallEnds(w)
  PROVE  Knowledge' /\ Acts
<1>1. w \in Builder /\ UNCHANGED << job, completion >> /\ route' = route /\ route[w] = NoRoute
  BY DEF CallEnds, routing
<1>2. Step(w)
  BY DEF CallEnds, Step
<1>3. pc[w] # "idle"
  BY DEF CallEnds, Swap, Discard, Leave, Return, Go
<1>4. Claimed(w)
  BY <1>1, <1>3, RunningIsClaimed DEF BInv, Running
<1>5. RouteInv(w)'
  BY <1>1, NoRouteKnows
<1>6. QED
  BY <1>1, <1>2, <1>4, <1>5, BuilderKeeps

LEMMA ProceedBuilder ==
  ASSUME BInv, NEW w \in Worker, Proceed(w), w \in Builder
  PROVE  Knowledge' /\ Acts
<1>1. Inner(w) /\ UNCHANGED << job, completion >> /\ route' = route /\ retained' = retained
  BY DEF Proceed, Inner, routing
<1>2. Step(w) /\ Goes(w)
  BY <1>1, InnerFacts DEF BInv, BoardTypeOK
<1>3. Claimed(w)
  BY <1>2, RunningIsClaimed DEF BInv, Running, Goes
<1>4. RouteInv(w)'
  <2>1. RouteInv(w)
    BY DEF BInv
  <2>2. QED
    BY <1>1, <1>2, <2>1 DEF RouteInv, Goes
<1>5. QED
  BY <1>1, <1>2, <1>3, <1>4, BuilderKeeps

LEMMA OnwardFacts ==
  ASSUME RoutingTypeOK, NEW w \in Worker, NEW from, NEW to, NEW status, Onward(w, from, to, status)
  PROVE  /\ route[w].stage = from /\ route'[w].stage = to /\ route'[w].status = status
         /\ route'[w].candidate = route[w].candidate
         /\ route'[w].gen = route[w].gen /\ route'[w].before = route[w].before
         /\ \A v \in Worker \ {w} : route'[v] = route[v]
BY DEF RoutingTypeOK, Onward, Route

LEMMA RouteStepKeeps ==
  ASSUME BInv, NEW w \in Worker, RouteStep(w)
  PROVE  Knowledge' /\ Acts
<1>1. /\ w \in Builder /\ UNCHANGED << job, completion >> /\ RoutingStep(w)
      /\ RoutingTypeOK /\ TypeOK /\ RouteInv(w) /\ SInv(w) /\ TurnsInv
  BY DEF RouteStep, BInv, BoardTypeOK
<1>2. Claimed(w)
  BY <1>1, RunningIsClaimed DEF RouteStep, Running
<1> DEFINE Keeps == /\ Step(w) \/ UNCHANGED vars
                    /\ \A v \in Worker \ {w} : route'[v] = route[v]
                    /\ RouteInv(w)'
<1>3. CASE \E c \in Candidate, g \in Generation : Search(w, c, g)
  <2>1. PICK c \in Candidate, g \in Generation : Search(w, c, g)
    BY <1>3
  <2>2. "route" \in Kind
    BY BoardAssumption
  <2>3. Step(w) /\ Begins(w, g)
    BY <1>1, <2>1, <2>2, BeginFacts DEF Search
  <2>4. route' = [route EXCEPT ![w] =
          [stage |-> "search", candidate |-> c, gen |-> g, before |-> current,
           status |-> "rejected"]]
    BY <2>1 DEF Search
  <2>5. /\ route'[w].stage = "search" /\ route'[w].gen = g /\ route'[w].before = current
        /\ route'[w].candidate # NoCandidate
        /\ \A v \in Worker \ {w} : route'[v] = route[v]
    BY <1>1, <2>4, CandidateAssumption DEF RoutingTypeOK
  <2>6. Keeps
    BY <2>3, <2>5 DEF RouteInv, Begins
  <2>7. QED
    BY <1>1, <1>2, <2>6, BuilderKeeps
<1>4. CASE Qualify(w)
  <2>1. Onward(w, "search", "commit", "rejected") /\ UNCHANGED vars /\ Rests
    BY <1>4, VarsRest DEF Qualify
  <2>2. Keeps
    BY <1>1, <2>1, OnwardFacts DEF RouteInv, Rests
  <2>3. QED
    BY <1>1, <1>2, <2>2, BuilderKeeps
<1>5. CASE Reject(w)
  <2>1. Onward(w, "search", "retain", "rejected") /\ Step(w) /\ Leaves(w)
    BY <1>1, <1>5, LeaveFacts DEF Reject
  <2>2. Keeps
    BY <1>1, <2>1, OnwardFacts DEF RouteInv, Leaves
  <2>3. QED
    BY <1>1, <1>2, <2>2, BuilderKeeps
<1>6. CASE CommitReturns(w)
  <2>1. CASE Onward(w, "commit", "retain", "accepted") /\ Swap(w)
    <3>1. Step(w) /\ Swaps(w)
      BY <1>1, <2>1, SwapFacts
    <3>2. Keeps
      BY <1>1, <2>1, <3>1, OnwardFacts DEF RouteInv, Swaps
    <3>3. QED
      BY <1>1, <1>2, <3>2, BuilderKeeps
  <2>2. CASE Onward(w, "commit", "retain", "rolled_back") /\ Discard(w)
    <3>1. Step(w) /\ Leaves(w)
      BY <1>1, <2>2, LeaveFacts
    <3>2. Keeps
      BY <1>1, <2>2, <3>1, OnwardFacts DEF RouteInv, Leaves
    <3>3. QED
      BY <1>1, <1>2, <3>2, BuilderKeeps
  <2>3. QED
    BY <1>6, <2>1, <2>2 DEF CommitReturns
<1>7. CASE CommitRaises(w)
  <2>1. Onward(w, "commit", "retain", "rollback_failed") /\ Step(w) /\ Leaves(w)
    BY <1>1, <1>7, LeaveFacts DEF CommitRaises
  <2>2. Keeps
    BY <1>1, <2>1, OnwardFacts DEF RouteInv, Leaves
  <2>3. QED
    BY <1>1, <1>2, <2>2, BuilderKeeps
<1>8. CASE RetainCandidate(w)
  <2>1. /\ Onward(w, "retain", "reread", route[w].status) /\ UNCHANGED vars /\ Rests
        /\ route[w].candidate \in retained'
    BY <1>8, VarsRest DEF RetainCandidate
  <2>2. Keeps
    BY <1>1, <2>1, OnwardFacts DEF RouteInv, Rests
  <2>3. QED
    BY <1>1, <1>2, <2>2, BuilderKeeps
<1>9. CASE Reread(w)
  <2>1. route[w].stage = "reread" /\ UNCHANGED vars /\ Rests /\ UNCHANGED retained
    BY <1>9, VarsRest DEF Reread, Onward
  <2>2. ~ (route[w].status # "accepted" /\ current # route[w].before)
    BY <1>1, <2>1 DEF RouteInv
  <2>3. Onward(w, "reread", "reported", route[w].status)
    BY <1>9, <2>2 DEF Reread
  <2>4. Keeps
    BY <1>1, <2>1, <2>3, OnwardFacts DEF RouteInv, Rests
  <2>5. QED
    BY <1>1, <1>2, <2>4, BuilderKeeps
<1>10. CASE Reported(w) \/ Forsake(w)
  <2>1. route' = [route EXCEPT ![w] = NoRoute]
    BY <1>10 DEF Reported, Forsake
  <2>2. Step(w) \/ UNCHANGED vars
    BY <1>1, <1>10, LeaveFacts DEF Reported, Forsake
  <2>3. Keeps
    BY <1>1, <2>1, <2>2, NoRouteKnows DEF RoutingTypeOK
  <2>4. QED
    BY <1>1, <1>2, <2>3, BuilderKeeps
<1>11. QED
  BY <1>1, <1>3, <1>4, <1>5, <1>6, <1>7, <1>8, <1>9, <1>10 DEF RoutingStep

-------------------------------------------------------------------------------
(* The job *)

LEMMA JobStep ==
  ASSUME BInv, Cancel \/ Resume \/ Finish
  PROVE  Knowledge' /\ Acts
<1>1. /\ UNCHANGED vars /\ UNCHANGED << route, retained, authorization, records, clerk >>
      /\ job # "finished" /\ (job' = "finished" => NoneRunning)
  BY DEF Cancel, Resume, Finish, routing, completion
<1>2. /\ TurnsInv /\ SourceInv /\ RecordsInv
      /\ \A v \in Worker : RouteInv(v) /\ ClerkInv(v)
  BY DEF BInv
<1>3. Rests /\ (Authorized' <=> Authorized)
  BY <1>1, VarsRest DEF Authorized
<1>4. TurnsInv'
  BY <1>1, <1>2, <1>3, JobTurns DEF Rests
<1>5. SourceInv' /\ \A v \in Worker : RouteInv(v)'
  BY <1>1, <1>2, <1>3 DEF SourceInv, RouteInv, Rests
<1>6. ~ Authorized /\ ~ records.attempt /\ records.result = "none" /\ records.failure = "none"
      /\ \A v \in Worker : clerk[v].stage = "none"
  BY <1>1, <1>2, Unfinished
<1>7. RecordsInv'
  BY <1>1, <1>2, <1>3, <1>6 DEF RecordsInv, RecordsAreTrue
<1>8. \A v \in Worker : ClerkInv(v)'
  BY <1>1, <1>6, IdleClerkKnows DEF Working
<1>9. QED
  BY <1>1, <1>4, <1>5, <1>7, <1>8 DEF Knowledge, Acts

\* A generation that resolves is published.
LEMMA AskStep ==
  ASSUME BInv, NEW g \in Generation, Ask(g)
  PROVE  Knowledge' /\ Acts
<1>1. /\ UNCHANGED vars /\ UNCHANGED << route, retained, job, records, clerk >>
      /\ job = "finished" /\ authorization = NoGrant
      /\ authorization' \in {Halted, [made |-> "authorized", source |-> current, gen |-> g]}
  BY DEF Ask, Authorize, routing
<1>2. /\ TurnsInv /\ SourceInv /\ RecordsInv
      /\ \A v \in Worker : RouteInv(v) /\ ClerkInv(v)
  BY DEF BInv
<1>3. ~ Authorized /\ Rests
  <2>1. NoGrant.made # "authorized"
    BY DEF NoGrant
  <2>2. \A a \in Grant : a.made = "authorized"
    BY DEF Grant
  <2>3. QED
    BY <1>1, <2>1, <2>2, VarsRest DEF Authorized
<1>4. TurnsInv'
  <2>1. NoneRunning
    BY <1>1, <1>2 DEF TurnsInv, NoneRunning
  <2>2. QED
    BY <1>1, <1>2, <1>3, <2>1, JobTurns DEF Rests
<1>5. SourceInv' /\ \A v \in Worker : RouteInv(v)'
  BY <1>1, <1>2, <1>3 DEF SourceInv, RouteInv, Rests
<1>6. /\ ~ records.attempt /\ records.result = "none" /\ records.failure = "none"
      /\ \A v \in Worker : clerk[v].stage = "none"
  BY <1>2, <1>3 DEF TurnsInv, RecordsInv
<1>7. Authorized' => authorization'.source = current
  <2>1. Halted.made # "authorized"
    BY DEF Halted
  <2>2. \A a \in Grant : a.made = "authorized"
    BY DEF Grant
  <2>3. QED
    BY <1>1, <2>1, <2>2 DEF Authorized
<1>8. RecordsInv'
  BY <1>1, <1>2, <1>3, <1>6, <1>7 DEF RecordsInv, RecordsAreTrue, Rests
<1>9. \A v \in Worker : ClerkInv(v)'
  BY <1>1, <1>6, IdleClerkKnows DEF Working
<1>10. QED
  BY <1>1, <1>4, <1>5, <1>8, <1>9 DEF Knowledge, Acts

-------------------------------------------------------------------------------
(* The inspection completion *)

\* The process that has the attempt is alone with it.
LEMMA WorkingAlone ==
  ASSUME TurnsInv, NEW w \in Worker, clerk[w].stage \in Working
  PROVE  /\ AtWork(w) /\ job = "finished" /\ Authorized /\ w \notin Builder
         /\ \A v \in Worker \ {w} : clerk[v].stage \notin Working
         /\ records.attempt
         /\ records.failure = "diagnosed" => records.resumption
BY DEF TurnsInv, AtWork, Working

LEMMA ClerkKeeps ==
  ASSUME BInv, NEW w \in Worker, w \notin Builder,
         (Step(w) /\ AtWork(w)) \/ UNCHANGED vars,
         \A v \in Worker \ {w} : clerk'[v] = clerk[v],
         UNCHANGED << job, authorization, routing >>, job = "finished", Authorized,
         pc'[w] # "idle" => clerk'[w].stage = "publish",
         clerk'[w].stage = "permit" /\ clerk'[w].resumed =>
           records'.attempt /\ records'.failure = "diagnosed",
         clerk'[w].stage \in Working =>
           /\ records'.attempt
           /\ IF clerk'[w].resumed THEN records'.resumption /\ records'.failure = "diagnosed"
                                   ELSE records'.failure = "none",
         records.attempt => records'.attempt,
         records.resumption => records'.resumption,
         \/ UNCHANGED << current, records >> /\ clerk'[w].stage \notin Working
         \/ \A v \in Worker \ {w} : clerk[v].stage \notin Working,
         \/ records'.failure = records.failure
         \/ \A v \in Worker \ {w} : ~ (clerk[v].stage = "permit" /\ clerk[v].resumed),
         RecordsInv', ClerkInv(w)'
  PROVE  Knowledge' /\ Acts
<1>1. /\ TurnsInv /\ SourceInv /\ TypeOK /\ SInv(w) /\ \A v \in Worker : ClerkInv(v)
      /\ route' = route
  BY DEF BInv, BoardTypeOK, routing
<1>2. AtWork(w) => \A v \in Worker \ {w} : pc[v] = "idle"
  BY <1>1, OthersIdle
<1>3. Frame(w) /\ SourceInv' /\ (UNCHANGED vars \/ current' = current \/ Succession(w))
  <2>1. CASE UNCHANGED vars
    BY <1>1, <2>1, RestFrame
  <2>2. CASE Step(w) /\ AtWork(w)
    BY <1>1, <1>2, <2>2, SourceStep, Moves DEF Frame
  <2>3. QED
    BY <2>1, <2>2
<1>4. TurnsInv'
  <2>1. clerk'[w].stage \in Working =>
          \A v \in Worker \ {w} : clerk[v].stage \notin Working
    OBVIOUS
  <2>2. records'.failure = records.failure \/ \A v \in Worker \ {w} :
           ~ (clerk[v].stage = "permit" /\ clerk[v].resumed) /\ clerk[v].stage \notin Working
    OBVIOUS
  <2>3. QED
    BY <1>1, <1>3, <2>1, <2>2, ClerkTurns
<1>5. \A v \in Worker : RouteInv(v)'
  BY <1>1, OthersHaveNoRoute, NoRouteKnows
<1>6. ASSUME NEW v \in Worker, v # w
      PROVE  ClerkInv(v)'
  <2>1. CASE clerk[v].stage \notin Working
    BY <1>6, <2>1, IdleClerkKnows
  <2>2. CASE UNCHANGED << current, records >>
    BY <1>1, <1>3, <1>6, <2>2 DEF ClerkInv, Frame
  <2>3. QED
    BY <1>6, <2>1, <2>2
<1>7. Acts
  <2>1. CASE Step(w) /\ AtWork(w)
    BY <1>2, <1>3, <2>1 DEF Acts, vars, disk
  <2>2. QED
    BY <2>1 DEF Acts
<1>8. QED
  BY <1>3, <1>4, <1>5, <1>6, <1>7 DEF Knowledge

\* The records and CURRENT.json as they were.
LEMMA RecordsRest ==
  ASSUME RecordsInv, UNCHANGED << current, records, authorization, job >>
  PROVE  RecordsInv'
BY DEF RecordsInv, RecordsAreTrue, Authorized

LEMMA EntersFacts ==
  ASSUME CompletionTypeOK, NEW w \in Worker, NEW from, NEW to, Enters(w, from, to)
  PROVE  /\ clerk[w].stage = from /\ clerk'[w].stage = to
         /\ clerk'[w].resumed = clerk[w].resumed
         /\ \A v \in Worker \ {w} : clerk'[v] = clerk[v]
BY DEF CompletionTypeOK, Enters, Clerk

LEMMA FailsFacts ==
  ASSUME CompletionTypeOK, NEW w \in Worker, NEW from, NEW error, Fails(w, from, error)
  PROVE  /\ clerk[w].stage = from /\ clerk'[w].stage = "fail" /\ clerk'[w].error = error
         /\ clerk'[w].resumed = clerk[w].resumed
         /\ \A v \in Worker \ {w} : clerk'[v] = clerk[v]
BY DEF CompletionTypeOK, Fails, Clerk

LEMMA ProceedClerk ==
  ASSUME BInv, NEW w \in Worker, Proceed(w), w \notin Builder
  PROVE  Knowledge' /\ Acts
<1>1. /\ Inner(w) /\ UNCHANGED << job, authorization, records, clerk, routing >>
      /\ clerk[w].stage = "publish"
  BY DEF Proceed, Inner, completion
<1>2. Step(w) /\ Goes(w)
  BY <1>1, InnerFacts DEF BInv, BoardTypeOK
<1>3. /\ TurnsInv /\ RecordsInv /\ ClerkInv(w) /\ clerk[w].stage \in Working
  BY <1>1 DEF BInv, Working
<1>4. /\ AtWork(w) /\ job = "finished" /\ Authorized
      /\ \A v \in Worker \ {w} : clerk[v].stage \notin Working
  BY <1>3, WorkingAlone
<1>5. RecordsInv' /\ ClerkInv(w)'
  BY <1>1, <1>2, <1>3, RecordsRest DEF ClerkInv, Goes
<1>6. records.attempt /\ IF clerk[w].resumed THEN records.resumption /\ records.failure = "diagnosed"
                                             ELSE records.failure = "none"
  BY <1>3 DEF TurnsInv
<1>7. QED
  BY <1>1, <1>2, <1>3, <1>4, <1>5, <1>6, ClerkKeeps

LEMMA OpenStep ==
  ASSUME BInv, NEW w \in Worker, w \notin Builder, UNCHANGED routing,
         NEW resume \in BOOLEAN, Open(w, resume)
  PROVE  Knowledge' /\ Acts
<1>1. /\ clerk[w] = NoClerk /\ Authorized
      /\ resume => records.attempt /\ records.failure = "diagnosed"
      /\ clerk' = [clerk EXCEPT ![w].stage = "permit", ![w].resumed = resume]
      /\ UNCHANGED vars /\ UNCHANGED << job, authorization, records >>
  BY DEF Open, SourcesHold
<1>2. TurnsInv /\ RecordsInv /\ CompletionTypeOK
  BY DEF BInv, BoardTypeOK
<1>3. /\ clerk'[w].stage = "permit" /\ clerk'[w].resumed = resume
      /\ \A v \in Worker \ {w} : clerk'[v] = clerk[v]
  BY <1>1, <1>2 DEF CompletionTypeOK, Clerk
<1>4. job = "finished" /\ RecordsInv' /\ ClerkInv(w)' /\ Rests /\ "permit" \notin Working
  BY <1>1, <1>2, <1>3, RecordsRest, VarsRest DEF RecordsInv, ClerkInv, Rests, Working
<1>5. pc'[w] = "idle"
  <2>1. clerk[w].stage = "none"
    BY <1>1 DEF NoClerk
  <2>2. pc[w] = "idle"
    BY <1>2, <2>1 DEF TurnsInv
  <2>3. QED
    BY <1>4, <2>2 DEF Rests
<1>6. UNCHANGED << current, records >>
  BY <1>1, <1>4 DEF Rests
<1>7. QED
  BY <1>1, <1>3, <1>4, <1>5, <1>6, ClerkKeeps

LEMMA TakeStep ==
  ASSUME BInv, NEW w \in Worker, w \notin Builder, UNCHANGED routing, Take(w)
  PROVE  Knowledge' /\ Acts
<1>1. /\ Enters(w, "permit", "inspect") /\ UNCHANGED vars /\ UNCHANGED << job, authorization >>
      /\ \/ /\ ~ clerk[w].resumed /\ ~ records.attempt
            /\ records' = [records EXCEPT !.attempt = TRUE]
         \/ /\ clerk[w].resumed /\ ~ records.resumption
            /\ records' = [records EXCEPT !.resumption = TRUE]
  BY DEF Take
<1>2. TurnsInv /\ RecordsInv /\ CompletionTypeOK /\ records \in Record
  BY DEF BInv, BoardTypeOK, CompletionTypeOK
<1>3. /\ clerk[w].stage = "permit" /\ clerk'[w].stage = "inspect"
      /\ clerk'[w].resumed = clerk[w].resumed
      /\ \A v \in Worker \ {w} : clerk'[v] = clerk[v]
  BY <1>1, <1>2, EntersFacts
<1>4. job = "finished" /\ Authorized /\ Rests
      /\ (clerk[w].resumed => records.attempt /\ records.failure = "diagnosed")
  BY <1>1, <1>2, <1>3, VarsRest DEF TurnsInv
<1>5. /\ records'.failure = records.failure /\ records'.result = records.result
      /\ records'.attempt
      /\ IF clerk[w].resumed THEN records'.resumption /\ records.failure = "diagnosed"
                             ELSE records'.resumption = records.resumption
                                  /\ ~ records.attempt
      /\ records.resumption => records'.resumption
  BY <1>1, <1>2, <1>4 DEF Record
<1>6. /\ records.result = "none" /\ current = authorization.source
      /\ ~ clerk[w].resumed => records.failure = "none"
  BY <1>1, <1>2, <1>4 DEF RecordsInv, RecordsAreTrue
<1>7. \A v \in Worker \ {w} : clerk[v].stage \notin Working
  BY <1>1, <1>2, <1>4 DEF TurnsInv
<1>8. RecordsInv'
  BY <1>1, <1>2, <1>4, <1>5, <1>6 DEF RecordsInv, RecordsAreTrue, Authorized, Rests
<1>9. ClerkInv(w)'
  BY <1>1, <1>3, <1>4, <1>5, <1>6 DEF ClerkInv, Rests
<1>10. pc'[w] = "idle"
  BY <1>2, <1>3, <1>4 DEF TurnsInv, Rests
<1>11. QED
  BY <1>1, <1>3, <1>4, <1>5, <1>6, <1>7, <1>8, <1>9, <1>10, ClerkKeeps

\* What holds when the process that has the attempt acts.
LEMMA Having ==
  ASSUME BInv, NEW w \in Worker, clerk[w].stage \in Working
  PROVE  /\ TurnsInv /\ RecordsInv /\ CompletionTypeOK /\ TypeOK /\ ClerkInv(w) /\ SInv(w)
         /\ records \in Record
         /\ AtWork(w) /\ job = "finished" /\ Authorized /\ w \notin Builder
         /\ \A v \in Worker \ {w} : clerk[v].stage \notin Working
         /\ records.attempt
         /\ IF clerk[w].resumed THEN records.resumption /\ records.failure = "diagnosed"
                                ELSE records.failure = "none"
         /\ clerk[w].stage # "publish" => pc[w] = "idle"
<1>1. TurnsInv /\ RecordsInv /\ CompletionTypeOK /\ TypeOK /\ ClerkInv(w) /\ SInv(w)
  BY DEF BInv, BoardTypeOK
<1>2. records \in Record
  BY <1>1 DEF CompletionTypeOK
<1>3. /\ AtWork(w) /\ job = "finished" /\ Authorized /\ w \notin Builder
      /\ \A v \in Worker \ {w} : clerk[v].stage \notin Working
  BY <1>1, WorkingAlone
<1>4. /\ records.attempt
      /\ IF clerk[w].resumed THEN records.resumption /\ records.failure = "diagnosed"
                             ELSE records.failure = "none"
      /\ clerk[w].stage # "publish" => pc[w] = "idle"
  BY <1>1, <1>3 DEF TurnsInv
<1>5. QED
  BY <1>1, <1>2, <1>3, <1>4

LEMMA InspectStep ==
  ASSUME BInv, NEW w \in Worker, UNCHANGED routing, Inspect(w)
  PROVE  Knowledge' /\ Acts
<1>1. /\ Enters(w, "inspect", "publish") /\ Begin(w, authorization.gen, "inspect")
      /\ UNCHANGED << job, authorization, records >>
  BY DEF Inspect
<1>2. clerk[w].stage = "inspect" /\ "inspect" \in Working
  BY <1>1 DEF Enters, Working
<1>3. /\ TurnsInv /\ RecordsInv /\ CompletionTypeOK /\ TypeOK /\ ClerkInv(w)
      /\ AtWork(w) /\ job = "finished" /\ Authorized /\ w \notin Builder
      /\ \A v \in Worker \ {w} : clerk[v].stage \notin Working
      /\ records.attempt
      /\ IF clerk[w].resumed THEN records.resumption /\ records.failure = "diagnosed"
                             ELSE records.failure = "none"
  BY <1>2, Having
<1>4. /\ clerk'[w].stage = "publish" /\ clerk'[w].resumed = clerk[w].resumed
      /\ \A v \in Worker \ {w} : clerk'[v] = clerk[v]
  BY <1>1, <1>3, EntersFacts
<1>5. authorization.gen \in Generation /\ "inspect" \in Kind
  BY <1>3, BoardAssumption DEF Authorized, Grant
<1>6. Step(w) /\ Begins(w, authorization.gen)
  BY <1>1, <1>3, <1>5, BeginFacts
<1>7. RecordsInv' /\ ClerkInv(w)'
  BY <1>1, <1>2, <1>3, <1>4, <1>6, RecordsRest DEF ClerkInv, Begins
<1>8. QED
  BY <1>1, <1>3, <1>4, <1>6, <1>7, ClerkKeeps

LEMMA PublishReturnsStep ==
  ASSUME BInv, NEW w \in Worker, UNCHANGED routing, PublishReturns(w)
  PROVE  Knowledge' /\ Acts
<1>1. /\ clerk[w].stage = "publish" /\ UNCHANGED << job, authorization, records >>
      /\ "publish" \in Working
  BY DEF PublishReturns, Working
<1>2. /\ TurnsInv /\ RecordsInv /\ CompletionTypeOK /\ TypeOK /\ ClerkInv(w) /\ SInv(w)
      /\ AtWork(w) /\ job = "finished" /\ Authorized /\ w \notin Builder
      /\ \A v \in Worker \ {w} : clerk[v].stage \notin Working
      /\ records.attempt
      /\ IF clerk[w].resumed THEN records.resumption /\ records.failure = "diagnosed"
                             ELSE records.failure = "none"
  BY <1>1, Having
<1>3. PICK outcome \in {"committed", "rolled_back"} :
        /\ IF outcome = "committed" THEN Swap(w) ELSE Discard(w)
        /\ clerk' = [clerk EXCEPT ![w].stage = "record", ![w].outcome = outcome]
  BY DEF PublishReturns
<1>4. /\ clerk'[w].stage = "record" /\ clerk'[w].outcome = outcome
      /\ clerk'[w].resumed = clerk[w].resumed
      /\ \A v \in Worker \ {w} : clerk'[v] = clerk[v]
  BY <1>2, <1>3 DEF CompletionTypeOK, Clerk
<1>5. /\ Step(w) /\ pc'[w] = "idle"
      /\ IF outcome = "committed" THEN current' = << work[w].gen, w >> ELSE current' = current
  BY <1>2, <1>3, SwapFacts, LeaveFacts DEF Swaps, Leaves
<1>6. records.result = "none" /\ ~ (records.failure = "diagnosed" /\ ~ records.resumption)
  BY <1>1, <1>2 DEF ClerkInv
<1>7. RecordsInv'
  BY <1>1, <1>2, <1>6 DEF RecordsInv, RecordsAreTrue, Authorized
<1>8. ClerkInv(w)'
  BY <1>1, <1>2, <1>4, <1>5 DEF ClerkInv
<1>9. QED
  BY <1>1, <1>2, <1>4, <1>5, <1>7, <1>8, ClerkKeeps

LEMMA FailStep ==
  ASSUME BInv, NEW w \in Worker, UNCHANGED routing,
         Refuse(w) \/ PublishRaises(w) \/ RecordRaises(w)
  PROVE  Knowledge' /\ Acts
<1>1. PICK from \in {"inspect", "publish", "record"}, e \in Error :
        Fails(w, from, e) /\ (e = "diagnosed" => from = "inspect")
  BY DEF Refuse, PublishRaises, RecordRaises, Error
<1>2. clerk[w].stage = from /\ from \in Working
  BY <1>1 DEF Fails, Working
<1>3. /\ TurnsInv /\ RecordsInv /\ CompletionTypeOK /\ TypeOK /\ ClerkInv(w)
      /\ AtWork(w) /\ job = "finished" /\ Authorized /\ w \notin Builder
      /\ \A v \in Worker \ {w} : clerk[v].stage \notin Working
      /\ records.attempt
      /\ IF clerk[w].resumed THEN records.resumption /\ records.failure = "diagnosed"
                             ELSE records.failure = "none"
      /\ clerk[w].stage # "publish" => pc[w] = "idle"
  BY <1>2, Having
<1>4. UNCHANGED << job, authorization, records >>
  BY DEF Refuse, PublishRaises, RecordRaises
<1>5. /\ Step(w) \/ UNCHANGED vars
      /\ current' = current /\ pc'[w] = "idle"
  <2>1. CASE PublishRaises(w)
    BY <1>3, <2>1, LeaveFacts DEF PublishRaises, Leaves
  <2>2. CASE Refuse(w) \/ RecordRaises(w)
    <3>1. UNCHANGED vars /\ Rests /\ clerk[w].stage # "publish"
      BY <2>2, VarsRest DEF Refuse, RecordRaises, Fails
    <3>2. QED
      BY <1>3, <3>1 DEF Rests
  <2>3. QED
    BY <2>1, <2>2
<1>6. /\ clerk'[w].stage = "fail" /\ clerk'[w].error = e
      /\ clerk'[w].resumed = clerk[w].resumed
      /\ \A v \in Worker \ {w} : clerk'[v] = clerk[v]
  BY <1>1, <1>3, FailsFacts
<1>7. RecordsInv'
  BY <1>3, <1>4, <1>5, RecordsRest
<1>8. ClerkInv(w)'
  BY <1>1, <1>2, <1>3, <1>4, <1>5, <1>6 DEF ClerkInv
<1>9. QED
  BY <1>3, <1>4, <1>5, <1>6, <1>7, <1>8, ClerkKeeps

LEMMA WriteResultStep ==
  ASSUME BInv, NEW w \in Worker, UNCHANGED routing, WriteResult(w)
  PROVE  Knowledge' /\ Acts
<1>1. /\ clerk[w].stage = "record" /\ UNCHANGED vars /\ UNCHANGED << job, authorization >>
      /\ records' = [records EXCEPT !.result = clerk[w].outcome]
      /\ "record" \in Working /\ Rests
  BY VarsRest DEF WriteResult, Working
<1>2. /\ TurnsInv /\ RecordsInv /\ CompletionTypeOK /\ TypeOK /\ ClerkInv(w)
      /\ records \in Record
      /\ AtWork(w) /\ job = "finished" /\ Authorized /\ w \notin Builder
      /\ \A v \in Worker \ {w} : clerk[v].stage \notin Working
      /\ records.attempt
      /\ IF clerk[w].resumed THEN records.resumption /\ records.failure = "diagnosed"
                             ELSE records.failure = "none"
      /\ clerk[w].stage # "publish" => pc[w] = "idle"
  BY <1>1, Having
<1>3. /\ \/ clerk'[w].stage = "none"
         \/ clerk'[w].stage = "fail" /\ clerk'[w].error = "other"
            /\ clerk'[w].resumed = clerk[w].resumed
      /\ \A v \in Worker \ {w} : clerk'[v] = clerk[v]
  <2>1. CASE clerk' = [clerk EXCEPT ![w] = NoClerk]
    BY <1>2, <2>1 DEF CompletionTypeOK, NoClerk
  <2>2. CASE Fails(w, "record", "other")
    BY <1>2, <2>2, FailsFacts
  <2>3. QED
    BY <2>1, <2>2 DEF WriteResult
<1>4. /\ records'.result = clerk[w].outcome /\ records'.failure = records.failure
      /\ records'.attempt = records.attempt /\ records'.resumption = records.resumption
  BY <1>1, <1>2 DEF Record
<1>5. RecordsInv'
  <2>1. \/ clerk[w].outcome = "committed" /\ current = << authorization.gen, w >>
        \/ clerk[w].outcome = "rolled_back" /\ current = authorization.source
    BY <1>1, <1>2 DEF ClerkInv
  <2>2. RecordsAreTrue'
    BY <1>1, <1>2, <1>4, <2>1 DEF RecordsAreTrue, Rests
  <2>3. QED
    BY <1>1, <1>2, <1>4, <2>2 DEF RecordsInv, Authorized, Rests
<1>6. ClerkInv(w)'
  BY <1>3 DEF ClerkInv
<1>7. pc'[w] = "idle"
  BY <1>1, <1>2 DEF Rests
<1>8. clerk'[w].stage # "permit" /\ "none" \notin Working
  BY <1>3 DEF Working
<1>9. QED
  BY <1>1, <1>2, <1>3, <1>4, <1>5, <1>6, <1>7, <1>8, ClerkKeeps

LEMMA WriteFailureStep ==
  ASSUME BInv, NEW w \in Worker, UNCHANGED routing, WriteFailure(w)
  PROVE  Knowledge' /\ Acts
<1>1. /\ clerk[w].stage = "fail" /\ UNCHANGED vars /\ UNCHANGED << job, authorization >>
      /\ records' = IF clerk[w].resumed
                    THEN [records EXCEPT !.resumptionFailure = clerk[w].error]
                    ELSE [records EXCEPT !.failure = clerk[w].error]
      /\ clerk' = [clerk EXCEPT ![w] = NoClerk]
      /\ "fail" \in Working /\ Rests
  BY VarsRest DEF WriteFailure, Working
<1>2. /\ TurnsInv /\ RecordsInv /\ CompletionTypeOK /\ TypeOK /\ ClerkInv(w)
      /\ records \in Record
      /\ AtWork(w) /\ job = "finished" /\ Authorized /\ w \notin Builder
      /\ \A v \in Worker \ {w} : clerk[v].stage \notin Working
      /\ records.attempt
      /\ IF clerk[w].resumed THEN records.resumption /\ records.failure = "diagnosed"
                             ELSE records.failure = "none"
      /\ clerk[w].stage # "publish" => pc[w] = "idle"
  BY <1>1, Having
<1>3. /\ clerk'[w].stage = "none" /\ \A v \in Worker \ {w} : clerk'[v] = clerk[v]
  BY <1>1, <1>2 DEF CompletionTypeOK, NoClerk
<1>4. /\ records'.result = records.result
      /\ records'.attempt = records.attempt /\ records'.resumption = records.resumption
      /\ records'.failure = IF clerk[w].resumed THEN records.failure ELSE clerk[w].error
  BY <1>1, <1>2 DEF Record
<1>5. RecordsInv'
  <2>1. records'.failure = "diagnosed" /\ ~ records'.resumption =>
          current = authorization.source /\ records.result = "none"
    BY <1>1, <1>2, <1>4 DEF ClerkInv
  <2>2. RecordsAreTrue'
    BY <1>1, <1>2, <1>4, <2>1 DEF RecordsInv, RecordsAreTrue, Rests
  <2>3. QED
    BY <1>1, <1>2, <1>4, <2>1, <2>2 DEF RecordsInv, Authorized, Rests
<1>6. ClerkInv(w)'
  BY <1>3 DEF ClerkInv
<1>7. pc'[w] = "idle"
  BY <1>1, <1>2 DEF Rests
<1>8. "none" \notin Working
  BY DEF Working
<1>9. \/ records'.failure = records.failure
      \/ \A v \in Worker \ {w} : ~ (clerk[v].stage = "permit" /\ clerk[v].resumed)
  BY <1>2, <1>4 DEF TurnsInv
<1>10. QED
  BY <1>1, <1>2, <1>3, <1>4, <1>5, <1>6, <1>7, <1>8, <1>9, ClerkKeeps

LEMMA DepartStep ==
  ASSUME BInv, NEW w \in Worker, w \notin Builder, UNCHANGED routing, Depart(w)
  PROVE  Knowledge' /\ Acts
<1>1. /\ clerk[w].stage # "none" /\ clerk' = [clerk EXCEPT ![w] = NoClerk]
      /\ UNCHANGED << job, authorization, records >>
      /\ IF pc[w] = "idle" THEN UNCHANGED vars ELSE Leave(w)
  BY DEF Depart
<1>2. TurnsInv /\ RecordsInv /\ CompletionTypeOK /\ TypeOK
  BY DEF BInv, BoardTypeOK
<1>3. clerk'[w].stage = "none" /\ \A v \in Worker \ {w} : clerk'[v] = clerk[v]
  BY <1>1, <1>2 DEF CompletionTypeOK, NoClerk
<1>4. job = "finished" /\ Authorized
  BY <1>1, <1>2 DEF TurnsInv
<1>5. /\ (Step(w) /\ AtWork(w)) \/ UNCHANGED vars
      /\ current' = current /\ pc'[w] = "idle"
  <2>1. CASE pc[w] = "idle"
    BY <1>1, <2>1, VarsRest DEF Rests
  <2>2. CASE pc[w] # "idle"
    BY <1>1, <1>2, <2>2, LeaveFacts, BusyIsAtWork DEF Leaves
  <2>3. QED
    BY <2>1, <2>2
<1>6. RecordsInv' /\ ClerkInv(w)' /\ "none" \notin Working
  BY <1>1, <1>2, <1>3, <1>5, RecordsRest DEF ClerkInv, Working
<1>7. QED
  BY <1>1, <1>3, <1>4, <1>5, <1>6, ClerkKeeps

-------------------------------------------------------------------------------
(* The invariant *)

LEMMA RouteTypes ==
  ASSUME BInv, NEW w \in Worker, RoutingStep(w)
  PROVE  RoutingTypeOK'
<1>1. RoutingTypeOK /\ current \in Pointer
  BY DEF BInv, BoardTypeOK, TypeOK
<1>2. ASSUME NEW from, NEW to \in RouteStage, NEW status \in Status,
             Onward(w, from, to, status)
      PROVE  route' \in [Worker -> Route]
  BY <1>1, <1>2 DEF RoutingTypeOK, Onward, Route
<1>3. CASE \E c \in Candidate, g \in Generation : Search(w, c, g)
  <2>1. PICK c \in Candidate, g \in Generation : Search(w, c, g)
    BY <1>3
  <2>2. [stage |-> "search", candidate |-> c, gen |-> g, before |-> current,
         status |-> "rejected"] \in Route
    BY <1>1 DEF Route, RouteStage, Status
  <2>3. QED
    BY <1>1, <2>1, <2>2 DEF Search, RoutingTypeOK
<1>4. CASE Qualify(w) \/ Reject(w) \/ CommitReturns(w) \/ CommitRaises(w)
  <2>1. retained' = retained
    BY <1>4 DEF Qualify, Reject, CommitReturns, CommitRaises
  <2>2. route' \in [Worker -> Route]
    BY <1>2, <1>4 DEF Qualify, Reject, CommitReturns, CommitRaises, RouteStage, Status
  <2>3. QED
    BY <1>1, <2>1, <2>2 DEF RoutingTypeOK
<1>5. CASE RetainCandidate(w)
  <2>1. route[w] \in Route
    BY <1>1 DEF RoutingTypeOK
  <2>2. route[w].status \in Status /\ "reread" \in RouteStage
    BY <2>1 DEF Route, RouteStage
  <2>3. route' \in [Worker -> Route]
    BY <1>2, <1>5, <2>2 DEF RetainCandidate
  <2>4. /\ retained' = retained \cup {route[w].candidate}
        /\ route[w].stage = "retain" /\ route[w].candidate \in Candidate \cup {NoCandidate}
    BY <1>5, <2>1 DEF RetainCandidate, Onward, Route
  <2>5. route[w].candidate # NoCandidate
    BY <2>4 DEF BInv, RouteInv
  <2>6. QED
    BY <1>1, <2>3, <2>4, <2>5 DEF RoutingTypeOK
<1>6. CASE Reread(w)
  <2>1. route[w].status \in Status
    BY <1>1 DEF RoutingTypeOK, Route
  <2>2. PICK s \in Status : Onward(w, "reread", "reported", s)
    BY <1>6, <2>1 DEF Reread, Status
  <2>3. route' \in [Worker -> Route] /\ retained' = retained
    BY <1>2, <1>6, <2>2 DEF Reread, RouteStage
  <2>4. QED
    BY <1>1, <2>3 DEF RoutingTypeOK
<1>7. CASE Reported(w) \/ Forsake(w)
  <2>1. NoRoute \in Route
    BY DEF NoRoute, Route, RouteStage, Status, Pointer
  <2>2. QED
    BY <1>1, <1>7, <2>1 DEF Reported, Forsake, RoutingTypeOK
<1>8. QED
  BY <1>3, <1>4, <1>5, <1>6, <1>7 DEF RoutingStep

LEMMA ClerkTypes ==
  ASSUME BInv, NEW w \in Worker, CompletionStep(w)
  PROVE  CompletionTypeOK'
<1>1. /\ CompletionTypeOK /\ clerk \in [Worker -> Clerk] /\ records \in Record
      /\ clerk[w] \in Clerk /\ NoClerk \in Clerk
  BY DEF BInv, BoardTypeOK, CompletionTypeOK, NoClerk, Clerk, Error
<1>2. UNCHANGED << job, authorization >>
  BY DEF CompletionStep, Open, Take, Inspect, Refuse, PublishReturns, PublishRaises,
     WriteResult, RecordRaises, WriteFailure, Depart
<1>3. SUFFICES clerk' \in [Worker -> Clerk] /\ records' \in Record
  BY <1>1, <1>2 DEF CompletionTypeOK
<1>4. ASSUME NEW from, NEW to \in {"none", "permit", "inspect", "publish", "record", "fail"},
             Enters(w, from, to)
      PROVE  clerk' \in [Worker -> Clerk]
  BY <1>1, <1>4 DEF Enters, Clerk
<1>5. ASSUME NEW from, NEW e \in Error, Fails(w, from, e)
      PROVE  clerk' \in [Worker -> Clerk]
  BY <1>1, <1>5 DEF Fails, Clerk
<1>6. CASE \E resume \in BOOLEAN : Open(w, resume)
  <2>1. PICK resume \in BOOLEAN : Open(w, resume)
    BY <1>6
  <2>2. /\ clerk' = [clerk EXCEPT ![w].stage = "permit", ![w].resumed = resume]
        /\ records' = records
    BY <2>1 DEF Open
  <2>3. clerk' \in [Worker -> Clerk]
    BY <1>1, <2>2 DEF Clerk
  <2>4. QED
    BY <1>1, <2>2, <2>3
<1>7. CASE Take(w)
  <2>1. records' \in Record
    BY <1>1, <1>7 DEF Take, Record
  <2>2. QED
    BY <1>4, <1>7, <2>1 DEF Take
<1>8. CASE Inspect(w)
  BY <1>1, <1>4, <1>8 DEF Inspect
<1>9. CASE Refuse(w) \/ PublishRaises(w) \/ RecordRaises(w)
  BY <1>1, <1>5, <1>9 DEF Refuse, PublishRaises, RecordRaises, Error
<1>10. CASE PublishReturns(w)
  <2>1. PICK outcome \in {"committed", "rolled_back"} :
          clerk' = [clerk EXCEPT ![w].stage = "record", ![w].outcome = outcome]
    BY <1>10 DEF PublishReturns
  <2>2. clerk' \in [Worker -> Clerk]
    BY <1>1, <2>1 DEF Clerk
  <2>3. QED
    BY <1>1, <1>10, <2>2 DEF PublishReturns
<1>11. CASE WriteResult(w)
  <2>1. records' \in Record
    BY <1>1, <1>11 DEF WriteResult, Record, Clerk
  <2>2. QED
    BY <1>1, <1>5, <1>11, <2>1 DEF WriteResult, Error
<1>12. CASE WriteFailure(w)
  <2>1. records' \in Record
    BY <1>1, <1>12 DEF WriteFailure, Record, Clerk
  <2>2. QED
    BY <1>1, <1>12, <2>1 DEF WriteFailure
<1>13. CASE Depart(w)
  BY <1>1, <1>13 DEF Depart
<1>14. QED
  BY <1>6, <1>7, <1>8, <1>9, <1>10, <1>11, <1>12, <1>13 DEF CompletionStep

LEMMA TypesStep ==
  ASSUME BInv, BoardNext
  PROVE  RoutingTypeOK' /\ CompletionTypeOK'
<1>1. RoutingTypeOK /\ CompletionTypeOK
  BY DEF BInv, BoardTypeOK
<1>2. UNCHANGED routing => RoutingTypeOK'
  BY <1>1 DEF routing, RoutingTypeOK
<1>3. job' \in {"active", "stopped", "finished"} /\ UNCHANGED completion => CompletionTypeOK'
  BY <1>1 DEF completion, CompletionTypeOK
<1>4. job \in {"active", "stopped", "finished"}
  BY <1>1 DEF CompletionTypeOK
<1>5. CASE \E w \in Worker : RouteStep(w)
  BY <1>3, <1>4, <1>5, RouteTypes DEF RouteStep
<1>6. CASE \E w \in Worker : InspectionStep(w)
  BY <1>2, <1>6, ClerkTypes DEF InspectionStep
<1>7. CASE \E g \in Generation : Ask(g)
  <2>1. PICK g \in Generation : Ask(g)
    BY <1>7
  <2>2. current \in Publication
    BY <2>1 DEF Ask, Authorize, Resolves, Publication
  <2>3. [made |-> "authorized", source |-> current, gen |-> g] \in Grant
    BY <2>2 DEF Grant
  <2>4. authorization' \in Grant \cup {NoGrant, Halted}
        /\ UNCHANGED << job, records, clerk >> /\ UNCHANGED routing
    BY <2>1, <2>3 DEF Ask, Authorize
  <2>5. QED
    BY <1>1, <1>2, <2>4 DEF CompletionTypeOK
<1>8. CASE \/ \E w \in Worker : \/ \E g \in Generation, k \in Kind : Call(w, g, k)
                                \/ Proceed(w) \/ CallEnds(w)
           \/ Cancel \/ Resume \/ Finish
  <2>1. /\ UNCHANGED routing /\ UNCHANGED completion
        /\ job' \in {job, "active", "stopped", "finished"}
    BY <1>8 DEF Call, Proceed, CallEnds, Cancel, Resume, Finish
  <2>2. QED
    BY <1>2, <1>3, <1>4, <2>1
<1>9. QED
  BY <1>5, <1>6, <1>7, <1>8 DEF BoardNext

LEMMA KnowledgeStep ==
  ASSUME BInv, BoardNext
  PROVE  Knowledge' /\ Acts
<1>1. ASSUME NEW w \in Worker, InspectionStep(w)
      PROVE  Knowledge' /\ Acts
  <2>1. w \notin Builder /\ CompletionStep(w) /\ UNCHANGED routing
    BY <1>1 DEF InspectionStep
  <2>2. QED
    BY <2>1, OpenStep, TakeStep, InspectStep, FailStep, PublishReturnsStep, WriteResultStep,
       WriteFailureStep, DepartStep DEF CompletionStep
<1>2. QED
  BY <1>1, CallStep, ProceedBuilder, ProceedClerk, CallEndsStep, RouteStepKeeps, JobStep,
     AskStep DEF BoardNext

LEMMA BInvStep ==
  ASSUME BInv, [BoardNext]_board
  PROVE  BInv' /\ (UNCHANGED board \/ (Acts /\ Kept /\ [Next]_vars))
<1>1. CASE UNCHANGED board
  <2>1. /\ UNCHANGED vars
        /\ UNCHANGED << route, retained, job, authorization, records, clerk >>
    BY <1>1 DEF board, routing, completion
  <2>2. DiskInv' /\ \A v \in Worker : SInv(v)'
    BY <2>1, DiskRests DEF BInv
  <2>3. TypeOK'
    BY <2>2 DEF DiskInv, PInv
  <2>4. Rests
    BY <2>1, VarsRest
  <2>5. BoardTypeOK'
    BY <2>1, <2>3 DEF BInv, BoardTypeOK, RoutingTypeOK, CompletionTypeOK
  <2>6. \A v \in Worker : Running(v)' <=> Running(v)
    BY <2>1, <2>4 DEF Running, Rests
  <2>7. (Authorized' <=> Authorized) /\ TurnsInv'
    BY <2>1, <2>4, <2>6 DEF BInv, TurnsInv, Authorized, Rests
  <2>8. SourceInv' /\ RecordsInv'
    BY <2>1, <2>4, RecordsRest DEF BInv, SourceInv, Rests
  <2>9. \A v \in Worker : RouteInv(v)' /\ ClerkInv(v)'
    BY <2>1, <2>4 DEF BInv, RouteInv, ClerkInv, Rests
  <2>10. QED
    BY <1>1, <2>2, <2>5, <2>7, <2>8, <2>9 DEF BInv
<1>2. CASE BoardNext
  <2>1. Knowledge' /\ Acts
    BY <1>2, KnowledgeStep
  <2>2. DiskInv /\ \A v \in Worker : SInv(v)
    BY DEF BInv
  <2>3. DiskInv' /\ (\A v \in Worker : SInv(v)') /\ Kept /\ [Next]_vars
    <3>1. CASE UNCHANGED vars
      BY <2>2, <3>1, DiskRests
    <3>2. CASE \E w \in Worker : Step(w) /\ \A v \in Worker \ {w} : pc[v] = "idle"
      BY <2>2, <3>2, DiskStep DEF Next
    <3>3. QED
      BY <2>1, <3>1, <3>2 DEF Acts
  <2>4. BoardTypeOK'
    BY <1>2, <2>3, TypesStep DEF BoardTypeOK, DiskInv, PInv
  <2>5. QED
    BY <2>1, <2>3, <2>4 DEF BInv, Knowledge
<1>3. QED
  BY <1>1, <1>2

LEMMA BInvInit == BoardInit => BInv
<1> SUFFICES ASSUME BoardInit
             PROVE  BInv
  OBVIOUS
<1>1. /\ Init /\ RoutingInit /\ CompletionInit /\ PInv /\ TypeOK
  BY InitPInv DEF BoardInit, PInv
<1>2. /\ current = NoPointer /\ published = {}
      /\ \A v \in Worker : pc[v] = "idle" /\ route[v] = NoRoute /\ clerk[v] = NoClerk
  BY <1>1 DEF Init, RoutingInit, CompletionInit
<1>3. \A v \in Worker : route[v].stage = "none" /\ clerk[v].stage = "none"
  BY <1>2 DEF NoRoute, NoClerk
<1>4. DiskInv /\ \A v \in Worker : SInv(v)
  BY <1>1, <1>2, SingleInit DEF DiskInv
<1>5. NoRoute \in Route /\ NoClerk \in Clerk
  BY DEF NoRoute, Route, RouteStage, Status, Pointer, NoClerk, Clerk, Error
<1>6. BoardTypeOK
  BY <1>1, <1>5 DEF RoutingInit, CompletionInit, BoardTypeOK, RoutingTypeOK, CompletionTypeOK,
     Record, Error
<1>7. \A v \in Worker : ~ Running(v)
  BY <1>2 DEF Running
<1>8. TurnsInv /\ SourceInv
  BY <1>2, <1>3, <1>7 DEF TurnsInv, SourceInv, Working
<1>9. ~ Authorized
  <2>1. NoGrant.made # "authorized"
    BY DEF NoGrant
  <2>2. \A a \in Grant : a.made = "authorized"
    BY DEF Grant
  <2>3. QED
    BY <1>1, <2>1, <2>2 DEF Authorized, CompletionInit
<1>10. RecordsInv
  BY <1>1, <1>9 DEF RecordsInv, RecordsAreTrue, CompletionInit
<1>11. \A v \in Worker : RouteInv(v) /\ ClerkInv(v)
  BY <1>3 DEF RouteInv, ClerkInv
<1>12. QED
  BY <1>4, <1>6, <1>8, <1>10, <1>11 DEF BInv

-------------------------------------------------------------------------------
(* Theorems *)

LEMMA Invariance == BoardSpec => []BInv
<1>1. BInv /\ [BoardNext]_board => BInv'
  BY BInvStep
<1>2. QED
  BY BInvInit, <1>1, PTL DEF BoardSpec

\* Whatever calls, routes, completions and the job do, all that they keep has its type.
THEOREM BoardTypeCorrect == BoardSpec => []BoardTypeOK
<1>1. BInv => BoardTypeOK
  BY DEF BInv
<1>2. QED
  BY Invariance, <1>1, PTL

\* The job and its completion implement the lock that publication does not have: one
\* process at a time is at work, however many workers and completions there are.
THEOREM TurnsAreTaken == BoardSpec => []PublishersTakeTurns
<1>1. BInv => PublishersTakeTurns
  BY TakeTurns DEF BInv
<1>2. QED
  BY Invariance, <1>1, PTL

\* Whoever publishes, CURRENT.json names only what was written and verified whole.
THEOREM BoardVerified == BoardSpec => []VerifiedBeforeNamed
<1>1. BInv => VerifiedBeforeNamed
  <2> SUFFICES ASSUME BInv, NEW g \in Generation, NEW w \in Worker, current = << g, w >>
               PROVE  \E d \in {generations[g], failed[g]} : d.owner = w /\ d.files = File
    BY DEF VerifiedBeforeNamed
  <2>1. Complete(<< g, w >>)
    BY DEF BInv, DiskInv, PInv, Publication
  <2>2. QED
    BY <2>1 DEF Complete
<1>2. QED
  BY Invariance, <1>1, PTL

\* Hence CURRENT.json always resolves, with any number of processes, whichever write
\* failed and wherever they were killed,
THEOREM BoardResolves == BoardSpec => []CurrentResolves
<1>1. BInv => CurrentResolves
  <2> SUFFICES ASSUME BInv, current # NoPointer
               PROVE  Resolves(current)
    BY DEF CurrentResolves
  <2>1. current \in published /\ published \subseteq Publication
    BY DEF BInv, DiskInv, PInv, TypeOK
  <2>2. PICK h \in Generation, v \in Worker : current = << h, v >>
    BY <2>1 DEF Publication
  <2>3. generations[current[1]] = Whole(current[2])
    BY <2>1 DEF BInv, DiskInv
  <2>4. generations[h] = Whole(v)
    BY <2>2, <2>3
  <2>5. QED
    BY <2>2, <2>4 DEF Resolves, Whole
<1>2. QED
  BY Invariance, <1>1, PTL

\* and what it ever named stays as it was.
THEOREM BoardPreserves == BoardSpec => PublishedImmutable
<1>1. BInv /\ [BoardNext]_board =>
        [\A p \in published : generations'[p[1]] = generations[p[1]]]_vars
  <2> SUFFICES ASSUME BInv, [BoardNext]_board
               PROVE  [\A p \in published : generations'[p[1]] = generations[p[1]]]_vars
    OBVIOUS
  <2>1. CASE UNCHANGED board
    BY <2>1 DEF board
  <2>2. CASE Kept
    BY <2>2 DEF Kept
  <2>3. QED
    BY <2>1, <2>2, BInvStep
<1>2. QED
  BY Invariance, <1>1, PTL DEF BoardSpec, PublishedImmutable

\* And a publication that reported rolled_back is never what CURRENT.json names, whoever
\* else publishes: what the job's workers fail, no completion brings back, nor a retry.
THEOREM BoardRolledBack == BoardSpec => []RolledBackIsNotCurrent
<1> DEFINE Unsettling == FailedInv /\ \A w \in Worker : UnsettledInv(w)
<1>1. BoardInit => Unsettling
  BY FailedInit DEF BoardInit
<1>2. BInv /\ Unsettling /\ [BoardNext]_board => Unsettling'
  <2> SUFFICES ASSUME BInv, Unsettling, [BoardNext]_board
               PROVE  Unsettling'
    OBVIOUS
  <2>1. CASE UNCHANGED vars
    BY <2>1 DEF FailedInv, UnsettledInv, vars, disk
  <2>2. ASSUME NEW w \in Worker, Step(w), \A v \in Worker \ {w} : pc[v] = "idle"
        PROVE  Unsettling'
    <3>1. SInv(w) /\ TypeOK
      BY DEF BInv, BoardTypeOK
    <3>2. FailedInv' /\ UnsettledInv(w)'
      BY <2>2, <3>1, SingleFailedStep
    <3>3. \A v \in Worker \ {w} : pc'[v] = "idle"
      BY <2>2, <3>1, Moves
    <3>4. QED
      BY <3>2, <3>3 DEF UnsettledInv, Unsettled, HasStaged, HasPromoted, Promoted
  <2>3. QED
    BY <2>1, <2>2, BInvStep DEF Acts, board
<1>3. BInv /\ Unsettling => RolledBackIsNotCurrent
  BY FailedIsNotCurrent DEF BInv, BoardTypeOK, TypeOK, DiskInv
<1> HIDE DEF Unsettling
<1>4. QED
  BY Invariance, <1>1, <1>2, <1>3, PTL DEF BoardSpec

\* Every publication succeeds the one it read and copied: none is lost.
THEOREM NoneIsLost == BoardSpec => EachSucceedsItsSource
<1>1. BInv /\ [BoardNext]_board =>
        [current' # current =>
           \E w \in Worker :
             /\ current' = << work[w].gen, w >>
             /\ work[w].previous = current
             /\ work[w].kind \in {"revise", "inspect"} => work[w].source = current]_board
  <2> SUFFICES ASSUME BInv, [BoardNext]_board, ~ UNCHANGED board, current' # current
               PROVE  \E w \in Worker : Succession(w)
    BY DEF Succession
  <2>1. Acts
    BY BInvStep
  <2>2. QED
    BY <2>1 DEF Acts, vars, disk
<1>2. QED
  BY Invariance, <1>1, PTL DEF BoardSpec, EachSucceedsItsSource

\* Of a finished job only the authorized successor of the authorized generation becomes
\* current.
THEOREM OnlyTheAuthorized == BoardSpec => SuccessorIsAuthorized
<1>1. BInv /\ [BoardNext]_board =>
        [job = "finished" /\ current' # current =>
           /\ Authorized /\ current = authorization.source
           /\ \E w \in Worker \ Builder : current' = << authorization.gen, w >>]_board
  <2> SUFFICES ASSUME BInv, [BoardNext]_board, ~ UNCHANGED board,
                      job = "finished", current' # current
               PROVE  /\ Authorized /\ current = authorization.source
                      /\ \E w \in Worker \ Builder : current' = << authorization.gen, w >>
    OBVIOUS
  <2>1. PICK w \in Worker : Succession(w) /\ w \notin Builder
    BY BInvStep DEF Acts, vars, disk
  <2>2. clerk[w].stage = "publish"
    BY <2>1 DEF BInv, TurnsInv, Succession
  <2>3. Authorized /\ current = authorization.source /\ work[w].gen = authorization.gen
    BY <2>2 DEF BInv, TurnsInv, ClerkInv
  <2>4. QED
    BY <2>1, <2>3 DEF Succession
<1>2. QED
  BY Invariance, <1>1, PTL DEF BoardSpec, SuccessorIsAuthorized

\* What the records of a completion say of its successor is so.
THEOREM RecordsTrue == BoardSpec => []RecordsAreTrue
<1>1. BInv => RecordsAreTrue
  BY DEF BInv, RecordsInv
<1>2. QED
  BY Invariance, <1>1, PTL

\* What a route reports of its publication is so when it is reported.
THEOREM ReportsTrue == BoardSpec => []ReportsAreTrue
<1>1. BInv => ReportsAreTrue
  BY DEF BInv, RouteInv, ReportsAreTrue
<1>2. QED
  BY Invariance, <1>1, PTL

\* All these callers together publish as GenerationTransaction does.
THEOREM CallersPublish == BoardSpec => Spec
<1>1. BInv /\ [BoardNext]_board => [Next]_vars
  BY BInvStep DEF board
<1>2. BoardInit => Init
  BY DEF BoardInit
<1>3. QED
  BY Invariance, <1>1, <1>2, PTL DEF BoardSpec, Spec

===============================================================================
