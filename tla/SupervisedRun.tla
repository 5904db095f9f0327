----------------------------- MODULE SupervisedRun -----------------------------
(***************************************************************************)
(* How a claimed attempt of a board job is executed: run_operation of      *)
(* board_job.py makes the claim, SubprocessGateRunner of execution.py      *)
(* starts the worker, watches it and ends its process tree, and the worker *)
(* proves to the ledger that it is the one contained process of a running  *)
(* attempt before it works (require_worker, require_library_worker).       *)
(*                                                                         *)
(* Of the ledger that BoardJob models, this module keeps what decides      *)
(* whether a call goes on: is the job active, and how much of its time is  *)
(* left; both implement AttemptLedger. Supervisors and workers die,        *)
(* operators interrupt, and a call may find the ledger's lock busy for     *)
(* longer than it waits.                                                   *)
(***************************************************************************)

CONSTANTS
  Call,   \* calls of run_operation, each a process of its own with one attempt
  Build   \* those whose phase is "build"

VARIABLES
  job,        \* the job's status: it may be resumed when "stopped", not when "failed"
  time,       \* what is left of it: all, the verification reserve, or nothing
  attempt,    \* the status of each call's attempt in the ledger
  ready,      \* attempts with a recorded launcher and a worker-ready receipt
  tree,       \* the processes of each attempt
  pc,         \* where each call is
  run,        \* what the runner of each call knows
  abandoned,  \* history: attempts whose clean-up was itself interrupted
  lost        \* history: attempts whose supervisor ended and could not settle them

ledger  == << job, time, attempt >>
history == << abandoned, lost >>
vars    == << ledger, ready, tree, pc, run, history >>

\* The launched process, and one descendant of it: the real interpreter that a
\* venv launcher redirects to, or a program the worker runs.
Process == {"launcher", "child"}

\* Past authorization; not yet; gone. "dying" was sent the signal that ends it.
Working == {"leased", "helping"}
Live    == {"waiting", "redirecting"} \cup Working
Gone    == {"none", "succeeded", "ended"}

Status == {"free", "running", "passed", "failed", "stopped"}

\* How the runner ends: with the exception "raised", it has no result to return.
Termination == {"failed", "passed", "timeout", "interrupted", "unavailable", "raised"}

\* What the runner can end: nothing yet, the launched process, or its tree.
Run   == [ held : {"nothing", "process", "tree"}, termination : Termination ]
NoRun == [ held |-> "nothing", termination |-> "failed" ]

InRunner == {"spawn", "contain", "poll", "look", "wait"}
InTry    == InRunner \cup {"claimed", "cleanup", "reap", "finish", "settle"}

Running == {c \in Call : attempt[c] = "running"}

TypeOK ==
  /\ job \in {"active", "stopped", "failed", "finished"}
  /\ time \in {"ample", "reserve", "spent"}
  /\ attempt \in [Call -> Status]
  /\ ready \subseteq Call
  /\ tree \in [Call -> [Process -> Live \cup Gone \cup {"dying"}]]
  /\ pc \in [Call -> InTry \cup {"idle", "hash", "done"}]
  /\ run \in [Call -> Run]
  /\ abandoned \subseteq Call /\ lost \subseteq Call

Init ==
  /\ job = "active" /\ time = "ample"
  /\ attempt = [c \in Call |-> "free"]
  /\ ready = {}
  /\ tree = [c \in Call |-> [p \in Process |-> "none"]]
  /\ pc = [c \in Call |-> "idle"]
  /\ run = [c \in Call |-> NoRun]
  /\ abandoned = {} /\ lost = {}

-------------------------------------------------------------------------------
(* The ledger *)

\* _check: the job is active and has time, and for a build more than the reserve.
Active     == job = "active" /\ time # "spent"
Allowed(c) == Active /\ (c \in Build => time = "ample")

\* remaining(token) raises nothing.
Leased(c) == attempt[c] = "running" /\ Allowed(c)

\* finish_attempt: a repeated failure stops the job for good, an attempt cut short stops
\* it unless it was a build at the verification reserve.
FinishAttempt(c, status) ==
  /\ attempt[c] = "running"
  /\ attempt' = [attempt EXCEPT ![c] = status]
  /\ \/ job' = IF /\ status = "stopped" /\ Active
                  /\ c \in Build => time = "ample"
               THEN "stopped" ELSE job
     \/ status # "passed" /\ job' = "failed"
  /\ UNCHANGED time

-------------------------------------------------------------------------------
(* run_operation *)

Go(c, from, to) == pc[c] = from /\ pc' = [pc EXCEPT ![c] = to]

\* The runner is left without a result, or the call returns.
Leave(c, from, to) == Go(c, from, to) /\ run' = [run EXCEPT ![c] = NoRun]

Fail(c, from, termination) ==
  /\ Go(c, from, "cleanup")
  /\ run' = [run EXCEPT ![c].termination = termination]

\* preflight, then the inputs are hashed.
Preflight(c) ==
  /\ Go(c, "idle", "hash")
  /\ Running = {} /\ Allowed(c)
  /\ UNCHANGED << ledger, ready, tree, run, history >>

\* A check during the hashing, or the claim itself, is refused.
Refused(c) ==
  /\ Go(c, "hash", "done")
  /\ UNCHANGED << ledger, ready, tree, run, history >>

\* Faulty variant: the claim trusts the preflight.
ClaimUnchecked(c) ==
  /\ Go(c, "hash", "claimed")
  /\ Allowed(c)
  /\ attempt' = [attempt EXCEPT ![c] = "running"]
  /\ UNCHANGED << job, time, ready, tree, run, history >>

\* Faulty variant: the claim sees that nothing runs, but not a stop since the preflight.
ClaimAfterStop(c) ==
  /\ Go(c, "hash", "claimed")
  /\ Running = {} /\ time # "spent"
  /\ attempt' = [attempt EXCEPT ![c] = "running"]
  /\ UNCHANGED << job, time, ready, tree, run, history >>

\* claim checks again, in one step.
Claim(c) ==
  /\ Go(c, "hash", "claimed")
  /\ Running = {} /\ Allowed(c)
  /\ attempt' = [attempt EXCEPT ![c] = "running"]
  /\ UNCHANGED << job, time, ready, tree, run, history >>

\* The attempt's directory is made before the try, or cannot be made; then the time
\* limit of the gate needs job.remaining, which may find the ledger's lock busy.
Prepare(c) ==
  /\ \/ Go(c, "claimed", "done") /\ lost' = lost \cup {c}
     \/ Go(c, "claimed", "settle") /\ UNCHANGED lost
     \/ Go(c, "claimed", "spawn") /\ Leased(c) /\ UNCHANGED lost
  /\ UNCHANGED << ledger, ready, tree, run, abandoned >>

-------------------------------------------------------------------------------
(* SubprocessGateRunner.run *)

\* stop_requested found a reason, or nothing could be started.
Unavailable(c) ==
  /\ Go(c, "spawn", "finish")
  /\ run' = [run EXCEPT ![c].termination = "unavailable"]
  /\ UNCHANGED << ledger, ready, tree, history >>

\* The process starts; its tree may turn out not to be contained; the operator may
\* interrupt before the runner holds it.
Spawn(c) ==
  /\ pc[c] = "spawn" /\ Leased(c)
  /\ tree' = [tree EXCEPT ![c]["launcher"] = "waiting"]
  /\ \/ /\ pc' = [pc EXCEPT ![c] = "contain"]
        /\ run' = [run EXCEPT ![c].held = "tree"]
     \/ /\ pc' = [pc EXCEPT ![c] = "cleanup"]
        /\ run' = [run EXCEPT ![c] = [held |-> "process", termination |-> "unavailable"]]
     \/ /\ pc' = [pc EXCEPT ![c] = "finish"]
        /\ run' = [run EXCEPT ![c].termination = "interrupted"]
  /\ UNCHANGED << ledger, ready, history >>

\* launched records the process, only for a job that is still active: what it raises
\* is no OSError and passes through the clean-up. Then the worker-ready receipt and the
\* progress file are written; an OSError of either makes the gate unavailable.
Contain(c) ==
  /\ \/ Fail(c, "contain", "raised") /\ UNCHANGED ready
     \/ /\ Fail(c, "contain", "unavailable") /\ Active
        /\ ready' \in {ready, ready \cup {c}}
     \/ /\ Go(c, "contain", "poll") /\ Active
        /\ ready' = ready \cup {c} /\ UNCHANGED run
  /\ UNCHANGED << ledger, tree, history >>

\* process.poll
Poll(c) ==
  /\ Go(c, "poll", IF tree[c]["launcher"] \in Gone THEN "wait" ELSE "look")
  /\ UNCHANGED << ledger, ready, tree, run, history >>

\* A process that was sent the signal does no work of its own any more.
Killed(c, held) ==
  [tree EXCEPT ![c] = [p \in Process |->
     IF /\ tree[c][p] \in Live
        /\ held = "tree" \/ (held = "process" /\ p = "launcher")
     THEN "dying" ELSE tree[c][p]]]

End(c, termination) ==
  /\ Go(c, "look", "wait")
  /\ run' = [run EXCEPT ![c].termination = termination]
  /\ tree' = Killed(c, run[c].held)
  /\ UNCHANGED << ledger, ready, history >>

\* stop_requested: any failure of the ledger call is a reason to stop, a busy lock as
\* well; then the wall-time limit of the gate.
Stop(c)    == End(c, "interrupted")
TimeOut(c) == Leased(c) /\ End(c, "timeout")

\* Neither: the runner sleeps and polls again. Nothing has changed when it finds the
\* process still there.
Sleep(c) ==
  /\ Go(c, "look", "poll") /\ Leased(c) /\ tree[c]["launcher"] \in Gone
  /\ UNCHANGED << ledger, ready, tree, run, history >>

\* Faulty variant: no limit to the wait.
WaitWithoutLimit(c) ==
  LET launcher == tree[c]["launcher"] IN
  /\ launcher \in Gone
  /\ Fail(c, "wait", IF run[c].termination \in {"timeout", "interrupted"}
                     THEN run[c].termination
                     ELSE IF launcher = "succeeded" THEN "passed" ELSE "failed")
  /\ UNCHANGED << ledger, ready, tree, history >>

\* process.wait: the exit code counts unless the runner ended the process itself. One
\* that is still there after 30 seconds has timed out.
Wait(c) ==
  LET launcher == tree[c]["launcher"] IN
  /\ Fail(c, "wait", IF launcher \notin Gone THEN "timeout"
                     ELSE IF run[c].termination \in {"timeout", "interrupted"}
                     THEN run[c].termination
                     ELSE IF launcher = "succeeded" THEN "passed" ELSE "failed")
  /\ UNCHANGED << ledger, ready, tree, history >>

\* Faulty variant: only for a launched process that is still there.
CleanupOfTheLiving(c) ==
  /\ Go(c, "cleanup", "reap")
  /\ tree' = IF tree[c]["launcher"] \in Gone THEN tree ELSE Killed(c, run[c].held)
  /\ UNCHANGED << ledger, ready, run, history >>

\* finally: the rest of the tree is ended in any case,
Cleanup(c) ==
  /\ Go(c, "cleanup", "reap")
  /\ tree' = Killed(c, run[c].held)
  /\ UNCHANGED << ledger, ready, run, history >>

\* Faulty variant: an incomplete clean-up changes nothing of the result.
ReapUnreported(c) ==
  /\ IF run[c].termination = "raised"
     THEN Leave(c, "reap", "settle")
     ELSE Go(c, "reap", "finish") /\ UNCHANGED run
  /\ UNCHANGED << ledger, ready, tree, history >>

\* and the launched process given what is left of the allowance.
Reap(c) ==
  /\ IF run[c].termination = "raised"
     THEN Leave(c, "reap", "settle")
     ELSE /\ Go(c, "reap", "finish")
          /\ run' = [run EXCEPT ![c].termination =
               IF tree[c]["launcher"] \in Gone THEN @ ELSE "timeout"]
  /\ UNCHANGED << ledger, ready, tree, history >>

-------------------------------------------------------------------------------
(* The verdict *)

\* Faulty variant: the termination is taken for a status.
VerdictUntranslated(termination) == termination

Verdict(termination) ==
  CASE termination = "passed" -> "passed"
    [] termination \in {"timeout", "interrupted"} -> "stopped"
    [] OTHER -> "failed"

\* result.json is written and the attempt settled; the write may fail, the lock be busy.
Finish(c) ==
  /\ \/ Leave(c, "finish", "done") /\ FinishAttempt(c, Verdict(run[c].termination))
     \/ Leave(c, "finish", "settle") /\ UNCHANGED ledger
  /\ UNCHANGED << ready, tree, history >>

\* except BaseException: the attempt is stopped; a ledger that refuses is ignored.
Settle(c) ==
  /\ Go(c, "settle", "done")
  /\ \/ FinishAttempt(c, "stopped") /\ UNCHANGED lost
     \/ UNCHANGED ledger /\ lost' = lost \cup {c}
  /\ UNCHANGED << ready, tree, run, abandoned >>

-------------------------------------------------------------------------------
(* Operators, the clock and other calls *)

\* KeyboardInterrupt. In the runner it is a termination; its clean-up is left for the
\* settlement, and outside the try nothing settles.
Interrupt(c) ==
  /\ \/ /\ \E from \in InRunner :
             Go(c, from, IF run[c].held = "nothing" THEN "finish" ELSE "cleanup")
        /\ run' = [run EXCEPT ![c].termination = "interrupted"] /\ UNCHANGED history
     \/ /\ \E from \in {"claimed", "cleanup", "reap", "finish"} : Leave(c, from, "settle")
        /\ abandoned' = IF pc[c] = "cleanup" THEN abandoned \cup {c} ELSE abandoned
        /\ UNCHANGED lost
     \/ /\ \E from \in {"hash", "claimed", "settle"} : Go(c, from, "done")
        /\ lost' = IF pc[c] = "hash" THEN lost ELSE lost \cup {c}
        /\ UNCHANGED << run, abandoned >>
  /\ UNCHANGED << ledger, ready, tree >>

\* A supervisor is killed. The kernel ends a contained tree with it on one platform,
\* on the other the tree goes on.
Crash(c) ==
  /\ \E from \in InTry : Leave(c, from, "done")
  /\ tree' \in {tree, Killed(c, run[c].held)}
  /\ lost' = lost \cup {c}
  /\ UNCHANGED << ledger, ready, abandoned >>

PassTime ==
  /\ time # "spent"
  /\ time' = IF time = "ample" THEN "reserve" ELSE "spent"
  /\ UNCHANGED << job, attempt, ready, tree, pc, run, history >>

\* cancel, and resume once nothing runs.
Cancel ==
  /\ job = "active" /\ job' = "stopped"
  /\ UNCHANGED << time, attempt, ready, tree, pc, run, history >>

Resume ==
  /\ job = "stopped" /\ Running = {} /\ time # "spent" /\ job' = "active"
  /\ UNCHANGED << time, attempt, ready, tree, pc, run, history >>

\* stop(finished=True), and a scope with new time that the user authorizes.
Complete ==
  /\ Active /\ Running = {} /\ job' = "finished"
  /\ UNCHANGED << time, attempt, ready, tree, pc, run, history >>

Continue ==
  /\ job \in {"stopped", "failed"} \/ (job = "active" /\ time = "spent")
  /\ Running = {}
  /\ job' = "active" /\ time' = "ample"
  /\ UNCHANGED << attempt, ready, tree, pc, run, history >>

-------------------------------------------------------------------------------
(* The worker *)

Becomes(c, p, from, to) ==
  /\ tree[c][p] = from
  /\ tree' = [tree EXCEPT ![c][p] = to]
  /\ UNCHANGED << ledger, ready, pc, run, history >>

\* A venv launcher starts the real interpreter and waits for it.
Redirect(c) ==
  /\ tree[c] = [p \in Process |-> IF p = "launcher" THEN "waiting" ELSE "none"]
  /\ tree' = [tree EXCEPT ![c] = [p \in Process |->
                IF p = "launcher" THEN "redirecting" ELSE "waiting"]]
  /\ UNCHANGED << ledger, ready, pc, run, history >>

Redirected(c) ==
  /\ tree[c]["child"] \in {"succeeded", "ended"}
  /\ Becomes(c, "launcher", "redirecting", tree[c]["child"])

\* require_worker: the receipt is there, and authorize finds a running attempt that has
\* recorded this process or its parent. A launcher that redirects does not ask itself.
Authorize(c, p) ==
  /\ c \in ready /\ Active /\ attempt[c] = "running"
  /\ Becomes(c, p, "waiting", "leased")

\* The worker runs another program, which need not end before it.
Assist(c) ==
  /\ tree[c]["launcher"] = "leased"
  /\ Becomes(c, "child", "none", "helping")

\* A process exits: with success only after its work; a refused lease, a receipt that
\* does not come within five seconds and every exception end it otherwise. One that
\* was sent the signal may take any time.
Exit(c, p) ==
  \/ Becomes(c, p, "leased", "succeeded")
  \/ \E from \in Working \cup {"waiting", "dying"} : Becomes(c, p, from, "ended")

-------------------------------------------------------------------------------
\* What a supervisor does of itself, once it has begun.
Supervise(c) ==
  \/ Refused(c) \/ Claim(c) \/ Prepare(c)
  \/ Unavailable(c) \/ Spawn(c) \/ Contain(c)
  \/ Poll(c) \/ Stop(c) \/ TimeOut(c) \/ Sleep(c) \/ Wait(c) \/ Cleanup(c) \/ Reap(c)
  \/ Finish(c) \/ Settle(c)

Worker(c) ==
  \/ Redirect(c) \/ Redirected(c) \/ Assist(c)
  \/ \E p \in Process : Authorize(c, p) \/ Exit(c, p)

Next ==
  \/ \E c \in Call :
       Preflight(c) \/ Supervise(c) \/ Interrupt(c) \/ Crash(c) \/ Worker(c)
  \/ PassTime \/ Cancel \/ Resume \/ Complete \/ Continue

\* A supervisor that is not killed goes on, and one that looks again and again finds
\* the time limit passed at last. Workers and the job's own clock owe nothing.
Fairness == \A c \in Call : WF_vars(Supervise(c))

Spec == Init /\ [][Next]_vars /\ Fairness

-------------------------------------------------------------------------------
(* Properties *)

Busy(c) == \E p \in Process : tree[c][p] \in Working

\* Once an attempt is settled no process that was ever authorized for it works on,
\* whatever failed, was cancelled or interrupted in whichever order: its tree has been
\* sent the signal first. The exception is a clean-up the operator interrupted as well.
SettledIsQuiet ==
  \A c \in Call : attempt[c] \in {"passed", "failed", "stopped"} => c \in abandoned \/ ~Busy(c)

\* Workers of two attempts never work at once, after a cancelled and resumed job, a
\* build that ended at the reserve, or a supervisor that died: the ledger fails closed.
NoRival ==
  \A c, d \in Call : c # d /\ Busy(c) /\ Busy(d) => c \in abandoned \/ d \in abandoned

\* A verdict other than "stopped" is about a process that has ended: an attempt is not
\* called passed or failed while its clean-up is incomplete, and passed only when the
\* launched process exited with success and not when it was ended for a late look.
VerdictIsFinal ==
  \A c \in Call :
    /\ attempt[c] \in {"passed", "failed"} => tree[c]["launcher"] \in Gone
    /\ attempt[c] = "passed" => tree[c]["launcher"] = "succeeded"

\* An attempt that was claimed is settled, however long its worker hangs, unless its
\* supervisor died or was kept from the ledger or the disk.
AttemptsSettle ==
  \A c \in Call : attempt[c] = "running" ~> attempt[c] # "running" \/ c \in lost

\* The job's status in the ledger, and the attempts that were claimed.
JobStatus == IF job = "failed" THEN "stopped" ELSE job
Attempts  == [c \in {d \in Call : attempt[d] # "free"} |-> attempt[c]]

\* Whatever the calls, the operators and the clock do to it, the ledger is the one that
\* BoardJob keeps: attempts run one at a time, a verdict stands, and the job goes on after
\* a stop only when no attempt runs.
Ledger == INSTANCE AttemptLedger WITH Id <- Call, status <- JobStatus, attempts <- Attempts

LedgerKept == Ledger!LSpec
===============================================================================
