--------------------------- MODULE RoutingCandidate ---------------------------
(***************************************************************************)
(* A route candidate (run_routing_candidate_transaction of                 *)
(* kicad/routing_candidate_transaction.py): it is searched and validated   *)
(* in a directory of its own, published by the generation transaction if   *)
(* it is accepted, and retained whatever came of it. The result says which *)
(* of these happened; CURRENT.json is read again before it is returned.    *)
(*                                                                         *)
(* The steps of the publication itself are GenerationTransaction's.        *)
(***************************************************************************)
EXTENDS GenerationTransaction

CONSTANTS
  Candidate,   \* candidate identities callers may choose
  NoCandidate

ASSUME CandidateAssumption == NoCandidate \notin Candidate

VARIABLES
  route,       \* the call of run_routing_candidate_transaction a worker is in
  retained     \* routing-candidates/<candidate>: the directories that exist

routing == << route, retained >>

Status == {"rejected", "accepted", "rolled_back", "rollback_failed"}

RouteStage == {"none", "search", "commit", "retain", "reread", "reported"}

Route == [stage     : RouteStage,
          candidate : Candidate \cup {NoCandidate},
          gen       : Generation \cup {Nobody},
          before    : Pointer,   \* pointer_before
          status    : Status]

NoRoute == [stage |-> "none", candidate |-> NoCandidate, gen |-> Nobody,
            before |-> NoPointer, status |-> "rejected"]

RoutingTypeOK ==
  /\ route \in [Worker -> Route]
  /\ retained \subseteq Candidate

RoutingInit == route = [w \in Worker |-> NoRoute] /\ retained = {}

\* The call goes on, with a status that is reported at its end.
Onward(w, from, to, status) ==
  /\ route[w].stage = from
  /\ route' = [route EXCEPT ![w].stage = to, ![w].status = status]

\* pointer_before is read, then the engine runs in its work directory.
Search(w, c, g) ==
  /\ route[w] = NoRoute
  /\ Begin(w, g, "route")
  /\ route' = [route EXCEPT ![w] =
       [stage |-> "search", candidate |-> c, gen |-> g, before |-> current,
        status |-> "rejected"]]
  /\ UNCHANGED retained

\* The candidate is complete and its validation accepted: its files are the payload
\* of a staged generation that binds pointer_before.
Qualify(w) ==
  /\ Onward(w, "search", "commit", "rejected")
  /\ UNCHANGED << vars, retained >>

\* The engine or the validator raised, or did not accept: nothing is published.
Reject(w) ==
  /\ Onward(w, "search", "retain", "rejected")
  /\ Leave(w)
  /\ UNCHANGED retained

\* Faulty variant: a committer that returns has published.
CommitReturnsUnread(w) ==
  /\ Onward(w, "commit", "retain", "accepted")
  /\ Swap(w) \/ Discard(w)
  /\ UNCHANGED retained

\* The committer returns a manifest, committed or rolled back,
CommitReturns(w) ==
  /\ \/ Onward(w, "commit", "retain", "accepted") /\ Swap(w)
     \/ Onward(w, "commit", "retain", "rolled_back") /\ Discard(w)
  /\ UNCHANGED retained

\* or raises.
CommitRaises(w) ==
  /\ Onward(w, "commit", "retain", "rollback_failed")
  /\ Leave(w)
  /\ UNCHANGED retained

\* _retain_candidate moves the work directory to a place that must be free.
RetainCandidate(w) ==
  /\ Onward(w, "retain", "reread", route[w].status)
  /\ route[w].candidate \notin retained
  /\ retained' = retained \cup {route[w].candidate}
  /\ UNCHANGED vars

\* pointer_after: a call that did not publish must find what it found at its begin.
Reread(w) ==
  /\ Onward(w, "reread", "reported",
       IF route[w].status # "accepted" /\ current # route[w].before
       THEN "rollback_failed" ELSE route[w].status)
  /\ UNCHANGED << vars, retained >>

\* The caller has its result.
Reported(w) ==
  /\ route[w].stage = "reported"
  /\ route' = [route EXCEPT ![w] = NoRoute]
  /\ UNCHANGED << vars, retained >>

\* _retain_candidate raises, so that the caller has no result and the work directory
\* is deleted, or the process is killed wherever it is.
Forsake(w) ==
  /\ route[w].stage \notin {"none", "reported"}
  /\ route' = [route EXCEPT ![w] = NoRoute]
  /\ IF pc[w] = "idle" THEN UNCHANGED vars ELSE Leave(w)
  /\ UNCHANGED retained

RoutingStep(w) ==
  \/ \E c \in Candidate, g \in Generation : Search(w, c, g)
  \/ Qualify(w) \/ Reject(w) \/ CommitReturns(w) \/ CommitRaises(w)
  \/ RetainCandidate(w) \/ Reread(w) \/ Reported(w) \/ Forsake(w)

===============================================================================
