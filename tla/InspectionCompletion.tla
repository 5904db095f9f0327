------------------------- MODULE InspectionCompletion -------------------------
(***************************************************************************)
(* The one inspection-only successor of a finished job                     *)
(* (inspection_completion.py). A user authorizes it for the generation     *)
(* that is current; a process then takes the one attempt, or after one     *)
(* diagnosed failure the one resumption, by creating its record under the  *)
(* job's lock, publishes the successor through the generation transaction, *)
(* and records what came of it. A record is never removed.                 *)
(*                                                                         *)
(* Recorded decisions, digests of artifacts and allowances of time are not *)
(* kept apart: a check of them that fails is an action that raises.        *)
(***************************************************************************)
EXTENDS GenerationTransaction

VARIABLES
  job,            \* status of the ledger
  authorization,  \* the directory inspection-completion and authorization.json
  records,        \* the other files of that directory
  clerk           \* the call of complete() a process is in

completion == << authorization, records, clerk >>

Grant == [made : {"authorized"}, source : Publication, gen : Generation]
NoGrant == [made |-> "no directory"]
Halted  == [made |-> "directory only"]   \* authorize died before it wrote the file

Error == {"diagnosed", "other"}

Record == [attempt : BOOLEAN, resumption : BOOLEAN,
           failure : Error \cup {"none"}, resumptionFailure : Error \cup {"none"},
           result  : {"none", "committed", "rolled_back"}]

Clerk == [stage   : {"none", "permit", "inspect", "publish", "record", "fail"},
          resumed : BOOLEAN,
          outcome : {"none", "committed", "rolled_back"},
          error   : Error \cup {"none"}]

NoClerk == [stage |-> "none", resumed |-> FALSE, outcome |-> "none", error |-> "none"]

CompletionTypeOK ==
  /\ job \in {"active", "stopped", "finished"}
  /\ authorization \in Grant \cup {NoGrant, Halted}
  /\ records \in Record
  /\ clerk \in [Worker -> Clerk]

CompletionInit ==
  /\ job = "active"
  /\ authorization = NoGrant
  /\ records = [attempt |-> FALSE, resumption |-> FALSE, failure |-> "none",
                resumptionFailure |-> "none", result |-> "none"]
  /\ clerk = [w \in Worker |-> NoClerk]

Authorized == authorization \in Grant

\* check_sources: the current generation is still the authorized predecessor. (The
\* ledger of a finished job is written again by no call, and a grant by none.)
SourcesHold == Authorized /\ current = authorization.source /\ Resolves(current)

\* authorize, in the finished job's lock; the successor's identity is the user's.
Authorize(g) ==
  /\ job = "finished"
  /\ authorization = NoGrant
  /\ Resolves(current)
  /\ authorization' \in {Halted, [made |-> "authorized", source |-> current, gen |-> g]}
  /\ UNCHANGED << vars, job, records, clerk >>

Enters(w, from, to) ==
  /\ clerk[w].stage = from
  /\ clerk' = [clerk EXCEPT ![w].stage = to]

Fails(w, from, error) ==
  /\ clerk[w].stage = from
  /\ clerk' = [clerk EXCEPT ![w].stage = "fail", ![w].error = error]

\* InspectionCompletionPermit reads and checks without the lock. A resumption needs
\* the one failure that was diagnosed, and neither a resumption nor a result.
Open(w, resume) ==
  /\ clerk[w] = NoClerk
  /\ SourcesHold
  /\ resume => /\ records.attempt /\ records.failure = "diagnosed"
               /\ ~ records.resumption /\ records.result = "none"
  /\ clerk' = [clerk EXCEPT ![w].stage = "permit", ![w].resumed = resume]
  /\ UNCHANGED << vars, job, authorization, records >>

\* Faulty variant: that there is no attempt yet is only looked at without the lock.
TakeUnchecked(w) ==
  /\ Enters(w, "permit", "inspect")
  /\ records' = IF clerk[w].resumed THEN [records EXCEPT !.resumption = TRUE]
                                    ELSE [records EXCEPT !.attempt = TRUE]
  /\ UNCHANGED << vars, job, authorization >>

\* In the lock the attempt, or the resumption, is taken if nobody has it.
Take(w) ==
  /\ Enters(w, "permit", "inspect")
  /\ \/ /\ ~ clerk[w].resumed /\ ~ records.attempt
        /\ records' = [records EXCEPT !.attempt = TRUE]
     \/ /\ clerk[w].resumed /\ ~ records.resumption
        /\ records' = [records EXCEPT !.resumption = TRUE]
  /\ UNCHANGED << vars, job, authorization >>

\* inspect_current_placement_review begins,
Inspect(w) ==
  /\ Enters(w, "inspect", "publish")
  /\ Begin(w, authorization.gen, "inspect")
  /\ UNCHANGED << job, authorization, records >>

\* or refuses: the current generation has no component review, the diagnosed failure.
Refuse(w) ==
  /\ \E e \in Error : Fails(w, "inspect", e)
  /\ UNCHANGED << vars, job, authorization, records >>

\* Faulty variant: a publication that returns is taken to have succeeded.
PublishReturnsUnread(w) ==
  /\ clerk[w].stage = "publish"
  /\ Swap(w) \/ Discard(w)
  /\ clerk' = [clerk EXCEPT ![w].stage = "record", ![w].outcome = "committed"]
  /\ UNCHANGED << job, authorization, records >>

\* The publication returns a manifest, committed or rolled back,
PublishReturns(w) ==
  /\ clerk[w].stage = "publish"
  /\ \E outcome \in {"committed", "rolled_back"} :
       /\ IF outcome = "committed" THEN Swap(w) ELSE Discard(w)
       /\ clerk' = [clerk EXCEPT ![w].stage = "record", ![w].outcome = outcome]
  /\ UNCHANGED << job, authorization, records >>

\* or raises.
PublishRaises(w) ==
  /\ Fails(w, "publish", "other")
  /\ Leave(w)
  /\ UNCHANGED << job, authorization, records >>

\* result.json is written; a successor that was rolled back then raises.
WriteResult(w) ==
  /\ clerk[w].stage = "record"
  /\ records' = [records EXCEPT !.result = clerk[w].outcome]
  /\ IF clerk[w].outcome = "committed"
     THEN clerk' = [clerk EXCEPT ![w] = NoClerk]
     ELSE Fails(w, "record", "other")
  /\ UNCHANGED << vars, job, authorization >>

RecordRaises(w) ==
  /\ Fails(w, "record", "other")
  /\ UNCHANGED << vars, job, authorization, records >>

\* failure.json, or resumption-failure.json, and the exception goes on.
WriteFailure(w) ==
  /\ clerk[w].stage = "fail"
  /\ records' = IF clerk[w].resumed THEN [records EXCEPT !.resumptionFailure = clerk[w].error]
                                    ELSE [records EXCEPT !.failure = clerk[w].error]
  /\ clerk' = [clerk EXCEPT ![w] = NoClerk]
  /\ UNCHANGED << vars, job, authorization >>

\* The permit's own checks raise, a last write fails, or the process dies.
Depart(w) ==
  /\ clerk[w].stage # "none"
  /\ clerk' = [clerk EXCEPT ![w] = NoClerk]
  /\ IF pc[w] = "idle" THEN UNCHANGED vars ELSE Leave(w)
  /\ UNCHANGED << job, authorization, records >>

CompletionStep(w) ==
  \/ \E resume \in BOOLEAN : Open(w, resume)
  \/ Take(w) \/ Inspect(w) \/ Refuse(w) \/ PublishReturns(w) \/ PublishRaises(w)
  \/ WriteResult(w) \/ RecordRaises(w) \/ WriteFailure(w) \/ Depart(w)

===============================================================================
