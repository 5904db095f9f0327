--------------------------- MODULE BoardPublication ---------------------------
(***************************************************************************)
(* Everything that publishes generations of one board below one            *)
(* transaction root: the workers of the board job, whose attempts the      *)
(* ledger lets run one at a time, and the inspection completion of the     *)
(* finished job. The publication itself locks nothing; that CURRENT.json   *)
(* has one writer at a time comes from the job and from the completion's   *)
(* records alone.                                                          *)
(***************************************************************************)
EXTENDS RoutingCandidate, InspectionCompletion

CONSTANT Builder   \* workers of the job's attempts; the others complete inspections

ASSUME BoardAssumption == Builder \subseteq Worker /\ {"inspect", "route"} \subseteq Kind

board == << vars, routing, job, completion >>

BoardTypeOK == TypeOK /\ RoutingTypeOK /\ CompletionTypeOK

BoardInit == Init /\ RoutingInit /\ CompletionInit

\* A worker's attempt is running in the ledger.
Running(w) == w \in Builder /\ (pc[w] # "idle" \/ route[w] # NoRoute)

NoneRunning == \A w \in Worker : ~ Running(w)

\* The worker has the job's attempt: no other attempt runs, and the job is active when
\* it is claimed.
Claimed(w) ==
  /\ w \in Builder
  /\ \A v \in Worker \ {w} : ~ Running(v)
  /\ ~ Running(w) => job = "active"

\* A call that publishes placement, or a revision of the current generation.
Call(w, g, k) ==
  /\ Claimed(w) /\ route[w] = NoRoute
  /\ k \in {"persist", "revise"}
  /\ Begin(w, g, k)
  /\ UNCHANGED << routing, job, completion >>

\* require_library_worker for a worker of the job, the permit for a completion.
Admitted(w) == IF w \in Builder THEN job = "active" ELSE SourcesHold

\* The steps of commit_generation_transaction within the call that made it.
Proceed(w) ==
  /\ \/ route[w].stage \in {"none", "commit"} /\ w \in Builder
     \/ clerk[w].stage = "publish"
  /\ \/ Bind(w) \/ (Admitted(w) /\ Check(w)) \/ Compare(w)
     \/ Stage(w) \/ (\E f \in File : Write(w, f)) \/ Seal(w) \/ Promote(w)
     \/ (SourcesHold /\ Recheck(w)) \/ Point(w)
     \/ Fail(w) \/ Mark(w) \/ Retire(w)
  /\ UNCHANGED << routing, job, completion >>

\* The end of a call that is no route and no completion.
CallEnds(w) ==
  /\ w \in Builder /\ route[w] = NoRoute
  /\ Swap(w) \/ Discard(w) \/ Leave(w)
  /\ UNCHANGED << routing, job, completion >>

RouteStep(w) ==
  /\ w \in Builder
  /\ (route[w] = NoRoute) => Claimed(w)
  /\ RoutingStep(w)
  /\ UNCHANGED << job, completion >>

InspectionStep(w) ==
  /\ w \notin Builder
  /\ CompletionStep(w)
  /\ UNCHANGED routing

\* stop and resume: cancelling does not wait for the running attempt, going on does.
Cancel ==
  /\ job = "active" /\ job' = "stopped"
  /\ UNCHANGED << vars, routing, completion >>
Resume ==
  /\ job = "stopped" /\ NoneRunning /\ job' = "active"
  /\ UNCHANGED << vars, routing, completion >>

\* Faulty variant: the job may be finished while an attempt runs.
FinishRunning ==
  /\ job = "active" /\ job' = "finished"
  /\ UNCHANGED << vars, routing, completion >>

\* stop(finished=True) refuses while an attempt runs.
Finish ==
  /\ job = "active" /\ NoneRunning /\ job' = "finished"
  /\ UNCHANGED << vars, routing, completion >>

Ask(g) == Authorize(g) /\ UNCHANGED routing

BoardNext ==
  \/ \E w \in Worker :
       \/ \E g \in Generation, k \in Kind : Call(w, g, k)
       \/ Proceed(w) \/ CallEnds(w) \/ RouteStep(w) \/ InspectionStep(w)
  \/ Cancel \/ Resume \/ Finish
  \/ \E g \in Generation : Ask(g)

BoardSpec == BoardInit /\ [][BoardNext]_board

-------------------------------------------------------------------------------
(* Properties *)

\* A process that may still write below the transaction root.
AtWork(w) ==
  \/ Running(w)
  \/ clerk[w].stage \in {"inspect", "publish", "record", "fail"}

\* Two processes never publish, or are about to, at once: not two workers, not a worker
\* and a completion, not two completions, whatever was killed, refused or resumed.
PublishersTakeTurns == \A v, w \in Worker : AtWork(v) /\ AtWork(w) => v = w

\* CURRENT.json moves on only from the pointer that the new publication binds, and, if
\* that copied a generation, from the generation it copied: no publication is lost
\* between a call's reading of the pointer and its replacement.
EachSucceedsItsSource ==
  [][current' # current =>
       \E w \in Worker :
         /\ current' = << work[w].gen, w >>
         /\ work[w].previous = current
         /\ work[w].kind \in {"revise", "inspect"} => work[w].source = current]_board

\* "Finite inspection-only successors for finished jobs" (inspection_completion.py): of a
\* finished job only the authorized generation changes what is current, once, and only
\* to the authorized successor of it.
SuccessorIsAuthorized ==
  [][job = "finished" /\ current' # current =>
       /\ Authorized /\ current = authorization.source
       /\ \E w \in Worker \ Builder : current' = << authorization.gen, w >>]_board

\* What result.json and failure.json say of the successor is so: a committed result names
\* a successor that is current, a rolled back one and a diagnosed failure leave the
\* predecessor current while no resumption was taken.
RecordsAreTrue ==
  /\ records.result = "committed" =>
       \E w \in Worker \ Builder : current = << authorization.gen, w >>
  /\ records.result = "rolled_back" => current = authorization.source
  /\ records.failure = "diagnosed" /\ ~ records.resumption => current = authorization.source

\* The result of a route is true when its caller has it: accepted if and only if the
\* candidate's generation is now current, otherwise CURRENT.json is what it was; and the
\* candidate's evidence is retained.
ReportsAreTrue ==
  \A w \in Worker : route[w].stage = "reported" =>
    /\ route[w].candidate \in retained
    /\ IF route[w].status = "accepted"
       THEN current = << route[w].gen, w >> /\ current # route[w].before
       ELSE current = route[w].before

===============================================================================
