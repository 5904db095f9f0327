--------------------------- MODULE SupervisionProofs ---------------------------
(***************************************************************************)
(* Proofs about SupervisedRun, for any set of calls: type correctness, a   *)
(* settled attempt is quiet, workers have no rival, verdicts are final,    *)
(* and the ledger is one that AttemptLedger allows.                        *)
(*                                                                         *)
(* The inductive invariant says of each call, by its place in the code,    *)
(* what has become of its processes and of its attempt. Only the claim     *)
(* relates two calls: at most one attempt is running.                      *)
(***************************************************************************)
EXTENDS SupervisedRun, TLAPS

\* None of the call's processes is or can get past authorization.
Quiet(c) == c \notin ready \/ \A p \in Process : tree[c][p] \notin Live

\* The attempt is running from the claim until it is settled, and settled at the end.
Lease(c) ==
  /\ pc[c] \in {"idle", "hash"} => attempt[c] = "free"
  /\ pc[c] \in InTry => attempt[c] = "running"

\* Nothing is started before the spawn; the receipt comes after it; who works has it.
Started(c) ==
  /\ attempt[c] = "free" \/ pc[c] \in {"claimed", "spawn"} =>
       /\ c \notin ready
       /\ tree[c] = [p \in Process |-> "none"]
  /\ pc[c] = "contain" => c \notin ready
  /\ Busy(c) => c \in ready

\* The runner holds the tree of every worker that has the receipt.
Holds(c) ==
  /\ pc[c] \in {"contain", "poll", "look", "wait"} => run[c].held = "tree"
  /\ pc[c] = "cleanup" => run[c].held = "tree" \/ c \notin ready

\* What the clean-up has done.
Ended(c) ==
  /\ pc[c] \in {"reap", "finish"} => Quiet(c)
  /\ pc[c] = "settle" => Quiet(c) \/ c \in abandoned
  /\ attempt[c] \in {"passed", "failed", "stopped"} => Quiet(c) \/ c \in abandoned

\* What the termination says of the launched process.
Judged(c) ==
  LET launcher    == tree[c]["launcher"]
      termination == run[c].termination
  IN
  /\ pc[c] \in {"cleanup", "reap", "finish"} =>
       /\ termination = "passed" => launcher = "succeeded"
       /\ termination = "failed" => launcher \in Gone
  /\ pc[c] = "finish" => launcher \in Gone \/ termination \in {"timeout", "interrupted"}
  /\ attempt[c] = "passed" => launcher = "succeeded"
  /\ attempt[c] = "failed" => launcher \in Gone

Sound(c) == Lease(c) /\ Started(c) /\ Holds(c) /\ Ended(c) /\ Judged(c)

OneRuns == \A c, d \in Call : attempt[c] = "running" /\ attempt[d] = "running" => c = d

\* A finished job has no running attempt.
NoneLeft == job = "finished" => Running = {}

IInv == TypeOK /\ (\A c \in Call : Sound(c)) /\ OneRuns /\ NoneLeft

LEMMA InitHolds == Init => IInv
<1> SUFFICES ASSUME Init PROVE IInv
  OBVIOUS
<1>1. TypeOK
  BY DEF Init, TypeOK, Status, Run, NoRun, Termination, Live, Gone, InTry, InRunner, Process
<1>2. \A c \in Call : Sound(c)
  BY DEF Init, Sound, Lease, Started, Holds, Ended, Judged, Busy, Working, Process, InTry,
     InRunner, Quiet
<1>3. OneRuns
  BY DEF Init, OneRuns
<1>4. NoneLeft
  BY DEF Init, NoneLeft
<1> QED BY <1>1, <1>2, <1>3, <1>4 DEF IInv

-------------------------------------------------------------------------------
(* Type correctness *)

Place == InTry \cup {"idle", "hash", "done"}

LEMMA Places ==
  /\ \A x \in InRunner : x \in Place
  /\ \A x \in {"hash", "claimed", "spawn", "contain", "poll", "look", "wait", "cleanup", "reap",
              "finish", "settle", "done"} : x \in Place
BY DEF Place, InTry, InRunner

LEMMA Terminations ==
  \A x \in {"failed", "passed", "timeout", "interrupted", "unavailable", "raised"} :
    x \in Termination
BY DEF Termination

LEMMA PlaceTyped == TypeOK => pc \in [Call -> Place]
BY DEF TypeOK, Place

LEMMA GoTyped ==
  ASSUME TypeOK, NEW c \in Call, NEW from, NEW to \in Place, Go(c, from, to)
  PROVE  pc' \in [Call -> Place]
BY DEF TypeOK, Go, Place

LEMMA LeaveTyped ==
  ASSUME TypeOK, NEW c \in Call, NEW from, NEW to \in Place, Leave(c, from, to)
  PROVE  pc' \in [Call -> Place] /\ run' \in [Call -> Run]
<1>1. NoRun \in Run
  BY Terminations DEF NoRun, Run
<1> QED BY <1>1, GoTyped DEF TypeOK, Leave

LEMMA FailTyped ==
  ASSUME TypeOK, NEW c \in Call, NEW from, NEW termination \in Termination,
         Fail(c, from, termination)
  PROVE  pc' \in [Call -> Place] /\ run' \in [Call -> Run]
<1>1. pc' \in [Call -> Place]
  BY GoTyped, Places DEF Fail
<1> QED BY <1>1 DEF TypeOK, Fail, Run

LEMMA KilledTyped ==
  ASSUME TypeOK, NEW c \in Call, NEW held
  PROVE  Killed(c, held) \in [Call -> [Process -> Live \cup Gone \cup {"dying"}]]
BY DEF TypeOK, Killed

LEMMA TypeStep == TypeOK /\ [Next]_vars => TypeOK'
<1> SUFFICES ASSUME TypeOK, [Next]_vars PROVE TypeOK'
  OBVIOUS
<1> USE DEF ledger, history
<1>1. CASE UNCHANGED vars
  BY <1>1 DEF TypeOK, vars
<1>2. CASE PassTime \/ Cancel \/ Resume \/ Complete \/ Continue
  BY <1>2 DEF TypeOK, PassTime, Cancel, Resume, Complete, Continue
<1>3. ASSUME NEW c \in Call, Preflight(c) \/ Refused(c) \/ Claim(c) \/ Prepare(c)
      PROVE  TypeOK'
  <2>1. pc' \in [Call -> Place]
    BY <1>3, GoTyped, Places DEF Preflight, Refused, Claim, Prepare
  <2> QED
    BY <1>3, <2>1 DEF TypeOK, Preflight, Refused, Claim, Prepare, Place, Status
<1>4. ASSUME NEW c \in Call, Unavailable(c) \/ Contain(c) PROVE TypeOK'
  <2>1. pc' \in [Call -> Place]
    BY <1>4, GoTyped, FailTyped, Places, Terminations DEF Unavailable, Contain
  <2>2. run' \in [Call -> Run]
    <3>1. CASE Unavailable(c)
      BY <3>1, Terminations DEF TypeOK, Unavailable, Run
    <3>2. CASE Contain(c)
      BY <3>2, FailTyped, Terminations DEF TypeOK, Contain
    <3> QED BY <1>4, <3>1, <3>2
  <2> QED
    BY <1>4, <2>1, <2>2 DEF TypeOK, Unavailable, Contain, Place
<1>5. ASSUME NEW c \in Call, Spawn(c) PROVE TypeOK'
  <2>1. pc' \in [Call -> Place]
    <3>1. PICK to \in {"contain", "cleanup", "finish"} : pc' = [pc EXCEPT ![c] = to]
      BY <1>5 DEF Spawn
    <3>2. to \in Place
      BY <3>1, Places
    <3> QED BY <3>1, <3>2, PlaceTyped
  <2>2. run' \in [Call -> Run]
    <3>1. CASE run' = [run EXCEPT ![c].held = "tree"]
      BY <3>1 DEF TypeOK, Run
    <3>2. CASE run' = [run EXCEPT ![c] = [held |-> "process", termination |-> "unavailable"]]
      BY <3>2, Terminations DEF TypeOK, Run
    <3>3. CASE run' = [run EXCEPT ![c].termination = "interrupted"]
      BY <3>3, Terminations DEF TypeOK, Run
    <3> QED BY <1>5, <3>1, <3>2, <3>3 DEF Spawn
  <2>3. tree' \in [Call -> [Process -> Live \cup Gone \cup {"dying"}]]
    BY <1>5 DEF TypeOK, Spawn, Live, Process
  <2> QED BY <1>5, <2>1, <2>2, <2>3 DEF TypeOK, Spawn, Place
<1>6. ASSUME NEW c \in Call, Poll(c) \/ Sleep(c) \/ Wait(c) PROVE TypeOK'
  <2>1. CASE Poll(c) \/ Sleep(c)
    BY <2>1, GoTyped, Places DEF TypeOK, Poll, Sleep, Place
  <2>2. CASE Wait(c)
    <3>1. PICK termination \in Termination : Fail(c, "wait", termination)
      BY <2>2, Terminations DEF Wait
    <3> QED BY <2>2, <3>1, FailTyped DEF TypeOK, Wait, Place
  <2> QED BY <1>6, <2>1, <2>2
<1>7. ASSUME NEW c \in Call, Reap(c) PROVE TypeOK'
  <2>1. CASE run[c].termination = "raised"
    BY <1>7, <2>1, LeaveTyped, Places DEF TypeOK, Reap, Place
  <2>2. CASE run[c].termination # "raised"
    <3>1. pc' \in [Call -> Place]
      BY <1>7, <2>2, GoTyped, Places DEF Reap
    <3>2. PICK termination \in Termination :
            run' = [run EXCEPT ![c].termination = termination]
      BY <1>7, <2>2, Terminations DEF TypeOK, Reap, Run
    <3>3. run' \in [Call -> Run]
      BY <3>2 DEF TypeOK, Run
    <3> QED BY <1>7, <3>1, <3>3 DEF TypeOK, Reap, Place
  <2> QED BY <2>1, <2>2
<1>8. ASSUME NEW c \in Call, Interrupt(c) PROVE TypeOK'
  <2>1. pc' \in [Call -> Place]
    BY <1>8, GoTyped, LeaveTyped, Places DEF Interrupt
  <2>2. ASSUME run' = [run EXCEPT ![c].termination = "interrupted"]
        PROVE  run' \in [Call -> Run]
    BY <2>2, Terminations DEF TypeOK, Run
  <2>3. ASSUME NEW from, Leave(c, from, "settle") PROVE run' \in [Call -> Run]
    BY <2>3, LeaveTyped, Places
  <2>4. run' \in [Call -> Run]
    BY <1>8, <2>2, <2>3 DEF TypeOK, Interrupt
  <2> QED BY <1>8, <2>1, <2>4 DEF TypeOK, Interrupt, Place
<1>9. ASSUME NEW c \in Call, Stop(c) \/ TimeOut(c) PROVE TypeOK'
  <2>1. PICK termination \in Termination : End(c, termination)
    BY <1>9, Terminations DEF Stop, TimeOut
  <2>2. run' \in [Call -> Run]
    BY <2>1 DEF TypeOK, End, Run
  <2> QED BY <2>1, <2>2, GoTyped, Places, KilledTyped DEF TypeOK, End, Place
<1>10. ASSUME NEW c \in Call, Cleanup(c) \/ Crash(c) PROVE TypeOK'
  <2>1. pc' \in [Call -> Place] /\ run' \in [Call -> Run]
    BY <1>10, GoTyped, LeaveTyped, Places DEF TypeOK, Cleanup, Crash
  <2> QED BY <1>10, <2>1, KilledTyped DEF TypeOK, Cleanup, Crash, Place
<1>11. ASSUME NEW c \in Call, Finish(c) \/ Settle(c) PROVE TypeOK'
  <2>1. pc' \in [Call -> Place] /\ run' \in [Call -> Run]
    BY <1>11, GoTyped, LeaveTyped, Places DEF TypeOK, Finish, Settle
  <2>2. attempt' \in [Call -> Status] /\ job' \in {"active", "stopped", "failed", "finished"}
    BY <1>11 DEF TypeOK, Finish, Settle, FinishAttempt, Verdict, Status
  <2> QED BY <1>11, <2>1, <2>2 DEF TypeOK, Finish, Settle, FinishAttempt, Place
<1>12. ASSUME NEW c \in Call, Worker(c) PROVE TypeOK'
  <2> DEFINE Life == Live \cup Gone \cup {"dying"}
  <2>1. /\ {"leased", "helping", "waiting", "redirecting", "none", "succeeded", "ended"} \subseteq Life
        /\ {"launcher", "child"} \subseteq Process
    BY DEF Live, Gone, Working, Process
  <2>2. ASSUME NEW p \in Process, NEW from, NEW to \in Life, Becomes(c, p, from, to)
        PROVE  TypeOK'
    BY <2>2 DEF TypeOK, Becomes
  <2>3. CASE Redirect(c)
    <3>1. [p \in Process |-> IF p = "launcher" THEN "redirecting" ELSE "waiting"]
            \in [Process -> Life]
      BY <2>1
    <3> QED BY <2>3, <3>1 DEF TypeOK, Redirect
  <2> HIDE DEF Life
  <2>4. CASE Redirected(c) \/ Assist(c)
    BY <2>1, <2>2, <2>4 DEF Redirected, Assist
  <2>5. ASSUME NEW p \in Process, Authorize(c, p) \/ Exit(c, p) PROVE TypeOK'
    BY <2>1, <2>2, <2>5 DEF Authorize, Exit
  <2> QED BY <1>12, <2>3, <2>4, <2>5 DEF Worker
<1> QED
  BY <1>1, <1>2, <1>3, <1>4, <1>5, <1>6, <1>7, <1>8, <1>9, <1>10, <1>11, <1>12
  DEF Next, Supervise

-------------------------------------------------------------------------------
(* A step is about one call: what is known of the others stays as it is. *)

Same(d) ==
  /\ attempt'[d] = attempt[d] /\ tree'[d] = tree[d] /\ pc'[d] = pc[d] /\ run'[d] = run[d]
  /\ (d \in ready') = (d \in ready) /\ (d \in abandoned') = (d \in abandoned)

LEMMA Frame ==
  ASSUME NEW d \in Call, Same(d), Sound(d)
  PROVE  Sound(d)'
BY DEF Same, Sound, Lease, Started, Holds, Ended, Judged, Busy, Quiet

LEMMA OthersStay ==
  ASSUME TypeOK, NEW c \in Call, NEW d \in Call, c # d,
         Preflight(c) \/ Supervise(c) \/ Interrupt(c) \/ Crash(c) \/ Worker(c)
  PROVE  Same(d)
<1> USE DEF TypeOK, ledger, history, Same
<1>1. CASE Preflight(c) \/ Refused(c) \/ Claim(c) \/ Prepare(c) \/ Unavailable(c) \/ Contain(c)
  BY <1>1 DEF Preflight, Refused, Claim, Prepare, Unavailable, Contain, Go, Fail
<1>2. CASE Spawn(c) \/ Poll(c) \/ Sleep(c) \/ Wait(c) \/ Reap(c) \/ Interrupt(c)
  BY <1>2 DEF Spawn, Poll, Sleep, Wait, Reap, Interrupt, Go, Fail, Leave
<1>3. CASE Stop(c) \/ TimeOut(c) \/ Cleanup(c) \/ Crash(c)
  BY <1>3 DEF Stop, TimeOut, End, Cleanup, Crash, Go, Leave, Killed
<1>4. CASE Finish(c) \/ Settle(c)
  BY <1>4 DEF Finish, Settle, FinishAttempt, Go, Leave
<1>5. CASE Worker(c)
  BY <1>5 DEF Worker, Redirect, Redirected, Authorize, Assist, Exit, Becomes
<1> QED BY <1>1, <1>2, <1>3, <1>4, <1>5 DEF Supervise

-------------------------------------------------------------------------------
(* The call that takes the step *)

LEMMA CallSound ==
  ASSUME TypeOK, NEW c \in Call, Sound(c), Preflight(c) \/ Supervise(c)
  PROVE  Sound(c)'
<1> USE DEF TypeOK, ledger, history, Sound, Lease, Started, Holds, Ended, Judged, Busy, Quiet,
    InTry, InRunner
<1>1. CASE Preflight(c) \/ Refused(c) \/ Claim(c) \/ Prepare(c)
  BY <1>1 DEF Preflight, Refused, Claim, Prepare, Go
<1>2. CASE Unavailable(c)
  BY <1>2 DEF Unavailable, Go, Process, Gone
<1>3. CASE Spawn(c)
  BY <1>3 DEF Spawn, Process, Working, Run
<1>4. CASE Contain(c)
  BY <1>4 DEF Contain, Go, Fail, Run
<1>5. CASE Poll(c) \/ Sleep(c)
  BY <1>5 DEF Poll, Sleep, Go
<1>6. CASE Stop(c) \/ TimeOut(c)
  BY <1>6 DEF Stop, TimeOut, End, Go, Killed, Process, Working, Live, Run
<1>7. CASE Wait(c)
  BY <1>7 DEF Wait, Go, Fail, Gone
<1>8. CASE Cleanup(c)
  BY <1>8 DEF Cleanup, Go, Killed, Process, Working, Live, Gone
<1>9. CASE Reap(c)
  BY <1>9 DEF Reap, Go, Leave, Run
<1>10. CASE Finish(c)
  BY <1>10 DEF Finish, FinishAttempt, Verdict, Go, Leave, Gone
<1>11. CASE Settle(c)
  BY <1>11 DEF Settle, FinishAttempt, Go
<1> QED
  BY <1>1, <1>2, <1>3, <1>4, <1>5, <1>6, <1>7, <1>8, <1>9, <1>10, <1>11 DEF Supervise

LEMMA EnvironmentSound ==
  ASSUME TypeOK, NEW c \in Call, Sound(c), Interrupt(c) \/ Crash(c) \/ Worker(c)
  PROVE  Sound(c)'
<1> USE DEF TypeOK, ledger, history, Sound, Lease, Started, Holds, Ended, Judged, Busy, Quiet,
    InTry, InRunner
<1>1. CASE Interrupt(c)
  BY <1>1 DEF Interrupt, Go, Leave, Gone, Process, Run
<1>2. CASE Crash(c)
  BY <1>2 DEF Crash, Go, Leave, Killed, Process, Working, Live, Gone
<1>3. CASE Redirect(c) \/ Redirected(c) \/ Assist(c)
  BY <1>3 DEF Redirect, Redirected, Assist, Becomes, Process, Working, Live, Gone
<1>4. CASE \E p \in Process : Authorize(c, p) \/ Exit(c, p)
  BY <1>4 DEF Authorize, Exit, Becomes, Process, Working, Live, Gone
<1> QED BY <1>1, <1>2, <1>3, <1>4 DEF Worker

LEMMA OneRunsStep ==
  ASSUME TypeOK, OneRuns, NEW c \in Call,
         Preflight(c) \/ Supervise(c) \/ Interrupt(c) \/ Crash(c) \/ Worker(c)
  PROVE  OneRuns'
<1> USE DEF TypeOK, ledger, history, OneRuns
<1>1. CASE Claim(c)
  BY <1>1 DEF Claim, Running
<1>2. CASE Finish(c) \/ Settle(c)
  BY <1>2 DEF Finish, Settle, FinishAttempt, Verdict
<1>3. CASE attempt' = attempt
  BY <1>3
<1> QED
  BY <1>1, <1>2, <1>3 DEF Supervise, Preflight, Refused, Prepare, Unavailable, Spawn, Contain,
     Poll, Stop, TimeOut, End, Sleep, Wait, Cleanup, Reap, Interrupt, Crash, Worker, Redirect,
     Redirected, Assist, Authorize, Exit, Becomes

\* What a call does to the ledger: it claims its attempt or settles it.
Claims(c) ==
  /\ job = "active" /\ Running = {} /\ UNCHANGED job
  /\ attempt[c] = "free" /\ attempt' = [attempt EXCEPT ![c] = "running"]

Settles(c) ==
  /\ c \in Running
  /\ \E verdict \in {"passed", "failed", "stopped"} :
       attempt' = [attempt EXCEPT ![c] = verdict]
  /\ job' \in {job, "failed"} \/ (job = "active" /\ job' = "stopped")

LEMMA LedgerStep ==
  ASSUME TypeOK, NEW c \in Call, Sound(c),
         Preflight(c) \/ Supervise(c) \/ Interrupt(c) \/ Crash(c) \/ Worker(c)
  PROVE  UNCHANGED << attempt, job >> \/ Claims(c) \/ Settles(c)
<1>1. CASE Claim(c)
  BY <1>1 DEF Claim, Claims, Allowed, Active, Sound, Lease, Go
<1>2. ASSUME NEW status \in {"passed", "failed", "stopped"}, FinishAttempt(c, status)
      PROVE  Settles(c)
  BY <1>2 DEF FinishAttempt, Settles, Running, Active
<1>3. \A termination : Verdict(termination) \in {"passed", "failed", "stopped"}
  BY DEF Verdict
<1>4. CASE Finish(c) \/ Settle(c)
  BY <1>2, <1>3, <1>4 DEF Finish, Settle, ledger
<1>5. CASE UNCHANGED ledger
  BY <1>5 DEF ledger
<1> QED
  BY <1>1, <1>4, <1>5 DEF Supervise, Preflight, Refused, Prepare, Unavailable, Spawn, Contain,
     Poll, Stop, TimeOut, End, Sleep, Wait, Cleanup, Reap, Interrupt, Crash, Worker, Redirect,
     Redirected, Assist, Authorize, Exit, Becomes

LEMMA NoneLeftStep ==
  ASSUME TypeOK, NoneLeft, NEW c \in Call,
         UNCHANGED << attempt, job >> \/ Claims(c) \/ Settles(c)
  PROVE  NoneLeft'
BY DEF TypeOK, NoneLeft, Claims, Settles, Running

\* What operators and the clock do: a job is completed, resumed and continued at rest.
Operates ==
  /\ UNCHANGED attempt
  /\ \/ UNCHANGED job
     \/ job = "active" /\ job' = "stopped"
     \/ job \in {"stopped", "failed"} /\ Running = {} /\ job' = "active"
     \/ job = "active" /\ Running = {} /\ job' = "finished"

LEMMA OperatorStep ==
  ASSUME UNCHANGED vars \/ PassTime \/ Cancel \/ Resume \/ Complete \/ Continue
  PROVE  Operates
BY DEF Operates, vars, ledger, PassTime, Cancel, Resume, Complete, Continue, Active

LEMMA Step == IInv /\ [Next]_vars => IInv'
<1> SUFFICES ASSUME IInv, [Next]_vars PROVE IInv'
  OBVIOUS
<1>1. TypeOK'
  BY TypeStep DEF IInv
<1>2. CASE UNCHANGED vars \/ PassTime \/ Cancel \/ Resume \/ Complete \/ Continue
  <2>1. \A d \in Call : Same(d)
    BY <1>2 DEF Same, vars, ledger, history, PassTime, Cancel, Resume, Complete, Continue
  <2>2. \A d \in Call : Sound(d)'
    BY <2>1, Frame DEF IInv
  <2>3. Operates
    BY <1>2, OperatorStep
  <2>4. OneRuns' /\ NoneLeft'
    BY <2>3 DEF IInv, OneRuns, NoneLeft, Operates, Running
  <2> QED BY <1>1, <2>2, <2>4 DEF IInv
<1>3. ASSUME NEW c \in Call,
             Preflight(c) \/ Supervise(c) \/ Interrupt(c) \/ Crash(c) \/ Worker(c)
      PROVE  IInv'
  <2>1. Sound(c)'
    BY <1>3, CallSound, EnvironmentSound DEF IInv
  <2>2. \A d \in Call : c # d => Sound(d)'
    BY <1>3, OthersStay, Frame DEF IInv
  <2>3. OneRuns'
    BY <1>3, OneRunsStep DEF IInv
  <2>4. NoneLeft'
    BY <1>3, LedgerStep, NoneLeftStep DEF IInv
  <2> QED BY <1>1, <2>1, <2>2, <2>3, <2>4 DEF IInv
<1> QED BY <1>2, <1>3 DEF Next

LEMMA Invariance == Spec => []IInv
<1>1. Init => IInv
  BY InitHolds
<1>2. IInv /\ [Next]_vars => IInv'
  BY Step
<1> QED BY <1>1, <1>2, PTL DEF Spec

-------------------------------------------------------------------------------
\* Every call stays at a place of run_operation and of the runner, with a status of the
\* ledger and a termination of the runner.
THEOREM TypeCorrect == Spec => []TypeOK
<1>1. IInv => TypeOK
  BY DEF IInv
<1> QED BY <1>1, Invariance, PTL

LEMMA QuietIsNotBusy ==
  ASSUME NEW c \in Call, Sound(c), Quiet(c)
  PROVE  ~Busy(c)
BY DEF Sound, Started, Quiet, Busy, Live

\* Whatever the operator, the clock and the processes do, the processes of a settled
\* attempt no longer work, unless its clean-up was interrupted.
THEOREM SettledAttemptIsQuiet == Spec => []SettledIsQuiet
<1>1. IInv => SettledIsQuiet
  BY QuietIsNotBusy DEF IInv, SettledIsQuiet, Sound, Ended
<1> QED BY <1>1, Invariance, PTL

\* However many calls, cancellations, resumptions and crashes there are, at most one
\* attempt has a worker, interrupted clean-ups apart.
THEOREM WorkersHaveNoRival == Spec => []NoRival
<1>1. ASSUME IInv, NEW c \in Call, Busy(c), c \notin abandoned
      PROVE  attempt[c] = "running"
  <2>1. attempt[c] # "free"
    BY <1>1 DEF IInv, Sound, Started
  <2>2. attempt[c] \notin {"passed", "failed", "stopped"}
    BY <1>1, QuietIsNotBusy DEF IInv, Sound, Ended
  <2> QED BY <1>1, <2>1, <2>2 DEF IInv, TypeOK, Status
<1>2. IInv => NoRival
  BY <1>1 DEF IInv, NoRival, OneRuns
<1> QED BY <1>2, Invariance, PTL

\* A process that is still there, or was ended, is never judged to have passed; one that
\* is still there is not judged at all.
THEOREM VerdictsAreFinal == Spec => []VerdictIsFinal
<1>1. IInv => VerdictIsFinal
  BY DEF IInv, VerdictIsFinal, Sound, Judged, Gone
<1> QED BY <1>1, Invariance, PTL

-------------------------------------------------------------------------------
(* The ledger *)

LEMMA RunningInLedger == TypeOK => Ledger!Running = Running
BY DEF TypeOK, Ledger!Running, Attempts, Running

LEMMA ClaimsInLedger ==
  ASSUME TypeOK, NEW c \in Call, Claims(c)
  PROVE  Ledger!Claim(c)
<1>1. /\ attempt' = [attempt EXCEPT ![c] = "running"] /\ attempt[c] = "free"
      /\ attempt \in [Call -> Status]
  BY DEF TypeOK, Claims
<1>2. Attempts' = [k \in DOMAIN Attempts \cup {c} |-> IF k = c THEN "running" ELSE Attempts[k]]
  <2>1. {d \in Call : attempt'[d] # "free"} = DOMAIN Attempts \cup {c}
    BY <1>1 DEF Attempts
  <2>2. \A k \in DOMAIN Attempts : k # c /\ attempt'[k] = attempt[k] /\ Attempts[k] = attempt[k]
    BY <1>1 DEF Attempts
  <2>3. attempt'[c] = "running"
    BY <1>1
  <2>4. Attempts' = [k \in DOMAIN Attempts \cup {c} |-> attempt'[k]]
    BY <2>1 DEF Attempts
  <2> QED BY <2>2, <2>3, <2>4
<1>3. JobStatus = "active" /\ UNCHANGED JobStatus /\ Running = {} /\ c \notin DOMAIN Attempts
  BY <1>1 DEF Claims, JobStatus, Attempts
<1> QED BY <1>2, <1>3, RunningInLedger DEF Ledger!Claim

LEMMA SettlesInLedger ==
  ASSUME TypeOK, NoneLeft, NEW c \in Call, Settles(c)
  PROVE  \E verdict \in Ledger!Verdict : Ledger!Settle(c, verdict)
<1>1. PICK verdict \in {"passed", "failed", "stopped"} :
        attempt' = [attempt EXCEPT ![c] = verdict]
  BY DEF Settles
<1>2. c \in Running /\ attempt[c] = "running" /\ attempt \in [Call -> Status]
  BY DEF TypeOK, Settles, Running
<1>3. Attempts' = [Attempts EXCEPT ![c] = verdict]
  <2>1. {d \in Call : attempt'[d] # "free"} = DOMAIN Attempts
    BY <1>1, <1>2 DEF Attempts
  <2>2. Attempts' = [k \in DOMAIN Attempts |-> attempt'[k]]
    BY <2>1 DEF Attempts
  <2>3. \A k \in DOMAIN Attempts : attempt'[k] = IF k = c THEN verdict ELSE Attempts[k]
    BY <1>1, <1>2 DEF Attempts
  <2> QED BY <2>2, <2>3
<1>4. JobStatus # "finished" /\ JobStatus' \in {JobStatus, "stopped"}
  BY <1>2 DEF NoneLeft, Settles, JobStatus
<1> QED BY <1>1, <1>2, <1>3, <1>4, RunningInLedger DEF Ledger!Settle, Ledger!Verdict

LEMMA OperatesInLedger ==
  ASSUME TypeOK, Operates
  PROVE  [Ledger!LNext]_(Ledger!lvars)
<1>1. UNCHANGED Attempts
  BY DEF Operates, Attempts
<1>2. \/ UNCHANGED JobStatus
      \/ JobStatus = "active" /\ JobStatus' = "stopped"
      \/ JobStatus = "stopped" /\ Running = {} /\ JobStatus' = "active"
      \/ JobStatus = "active" /\ Running = {} /\ JobStatus' = "finished"
  BY DEF Operates, JobStatus
<1> QED
  BY <1>1, <1>2, RunningInLedger
  DEF Ledger!LNext, Ledger!lvars, Ledger!Stop, Ledger!Reopen, Ledger!Finish

\* The supervisors, with whatever operators do meanwhile, use the ledger as AttemptLedger
\* describes it, which is what the calls of BoardJob keep (JobKeepsLedger).
THEOREM LedgerIsKept == Spec => LedgerKept
<1>1. Init => Ledger!LInit
  BY DEF Init, Ledger!LInit, JobStatus, Attempts
<1>2. IInv /\ [Next]_vars => [Ledger!LNext]_(Ledger!lvars)
  <2> SUFFICES ASSUME IInv, [Next]_vars PROVE [Ledger!LNext]_(Ledger!lvars)
    OBVIOUS
  <2>1. CASE UNCHANGED vars \/ PassTime \/ Cancel \/ Resume \/ Complete \/ Continue
    BY <2>1, OperatorStep, OperatesInLedger DEF IInv
  <2>2. ASSUME NEW c \in Call,
               Preflight(c) \/ Supervise(c) \/ Interrupt(c) \/ Crash(c) \/ Worker(c)
        PROVE  [Ledger!LNext]_(Ledger!lvars)
    <3>1. CASE UNCHANGED << attempt, job >>
      BY <3>1, OperatesInLedger DEF IInv, Operates
    <3>2. CASE Claims(c)
      BY <3>2, ClaimsInLedger DEF IInv, Ledger!LNext
    <3>3. CASE Settles(c)
      <4>1. c \in Ledger!Running
        BY <3>3, RunningInLedger DEF IInv, Settles
      <4> QED BY <3>3, <4>1, SettlesInLedger DEF IInv, Ledger!LNext
    <3> QED BY <2>2, <3>1, <3>2, <3>3, LedgerStep DEF IInv
  <2> QED BY <2>1, <2>2 DEF Next
<1> QED BY <1>1, <1>2, Invariance, PTL DEF Spec, LedgerKept, Ledger!LSpec
===============================================================================
