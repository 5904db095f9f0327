-------------------------------- MODULE BoardJob --------------------------------
(***************************************************************************)
(* The operations of board_job.py's BoardJob on the ledger. Each reads,    *)
(* changes and saves the record under the project lock (_access), so each  *)
(* is one action; supervisors, workers and command-line calls make them in *)
(* any order. A call that raises JobStopped still saves what _check and    *)
(* _request_diagnostic did to the record.                                  *)
(*                                                                         *)
(* Not modelled: the launcher and worker identities of an attempt, the     *)
(* evidence files a request is bound to (a request whose files changed has *)
(* no effect), legacy jobs without a routing policy, and the special       *)
(* recoveries for one stage (pre-native, placement follow-up, final        *)
(* render, adapter and backend repairs, reclassified failures).            *)
(***************************************************************************)
EXTENDS JobLedger

CONSTANTS
  Outcome,              \* << status, signature >> run_operation may report
  ContinuationRequest,  \* requests a user may authorize
  Tick,                 \* amounts by which time passes between calls
  SetBack,              \* amounts by which the wall clock is set back
  MaxTime, MaxAttempts, MaxScopes \* bounds for TLC

\* ContinuationRequest.bounded: only a resolved recovery may retry, and only what
\* it declares, or verify without building.
RequestBounded(r) ==
  /\ r.retry \subseteq r.builds
  /\ r.retry # {} \/ r.builds = {} => r.resolution

ASSUME RequestAssumption ==
  /\ ContinuationRequest \subseteq
       [ builds : SUBSET BuildOp, retry : SUBSET BuildOp, resolution : BOOLEAN,
         retrospective : BOOLEAN, auth : Authorization, action : Action,
         allowance : Allowance ]
  /\ \A r \in ContinuationRequest : RequestBounded(r)
  \* A failure or a timeout has a signature, an interrupted supervisor has none.
  /\ Outcome \subseteq ({"failed", "stopped"} \X Signature)
                         \cup {<< "passed", NoSignature >>, << "stopped", NoSignature >>}
  /\ Tick \cup SetBack \subseteq Nat
  /\ MaxTime \in Nat /\ MaxAttempts \in Nat /\ MaxScopes \in Nat

VARIABLES
  job,       \* the ledger on disk
  retained,  \* the predecessor file kept for the next continuation, or NoLedger
  extended,  \* user decisions whose predecessor file exists: "local", "annotation"
  wall,      \* what the wall clock reads
  elapsed,   \* what a process running since the start reads: _now is monotonic
  halted,    \* history: the job has been stopped for an inconsistent clock
  overdrawn  \* history: the kinds of calls that built a ledger over its own budgets

clocks == << wall, elapsed >>
vars   == << job, retained, extended, clocks, halted, overdrawn >>

NoLedger == << >>

TypeOK ==
  /\ job \in JobState /\ job.scopes # << >>
  /\ wall \in Nat /\ elapsed \in Nat /\ wall <= elapsed
  /\ retained = NoLedger \/ retained \in JobState
  /\ extended \subseteq {"local", "annotation"}
  /\ halted \in BOOLEAN /\ overdrawn \subseteq {"call", "local", "annotation"}

Started(a) ==
  [ status |-> "active", stopKind |-> "", cycle |-> 0, escalations |-> 0, lastSeen |-> 0,
    attempts |-> << >>,
    scopes |-> << [ builds |-> BuildOp, retry |-> {}, resolution |-> FALSE,
                    auth |-> NoAuthorization, first |-> 0, start |-> 0,
                    allowance |-> a, diagnostic |-> NoDiagnostic ] >> ]

Init ==
  /\ \E a \in Allowance : job = Started(a)
  /\ retained = NoLedger /\ extended = {}
  /\ wall = 0 /\ elapsed = 0 /\ halted = FALSE /\ overdrawn = {}

-------------------------------------------------------------------------------
\* A call reads the wall clock, or, made by a longer-lived process, its own time.
Now == {wall, elapsed}

\* The tolerated second.
Backwards == wall < job.lastSeen - 1

\* _save: nothing is written when the validators refuse the record.
Write(j) ==
  /\ job' = IF Consistent(j) THEN j ELSE job
  /\ halted' = (halted \/ job'.stopKind = "clock")
  /\ UNCHANGED clocks

\* A call of this kind built record j, whether or not it was saved. (One that was
\* written is within its budgets.)
Audited(kind, j) ==
  overdrawn' = IF job' = j \/ WithinBudget(j) THEN overdrawn ELSE overdrawn \cup {kind}

Save(j) == Write(j) /\ Audited("call", j) /\ UNCHANGED << retained, extended >>

Check(now) == Checked(job, now, Backwards)

\* snapshot, preflight, remaining, and every call refused for what _check or its
\* own guards found, without asking for a diagnostic.
Inspect(now) == Save(Check(now))

-------------------------------------------------------------------------------
(* claim *)

\* The last of a set of attempts, as a set of one; of none, none.
Latest(S) == {i \in S : \A k \in S : k <= i}

OutOfScope(j, op) == op \in BuildOp /\ Continued(j) /\ op \notin Active(j).builds

Retried(j, i) == j.attempts[i].status = "failed" /\ i \in Active(j).retry

\* One attempt per continuation, unless the scope names the failed one.
ScopeSpent(j, op) ==
  LET work == ScopeWork(j, Len(j.scopes), op) IN
    op \in BuildOp /\ Continued(j) /\ \E i \in Latest(work) : ~Retried(j, i)

Overdrawn(j, op) == ScopeSpent(j, op) \/ Cardinality(Previous(j, op)) >= Limit(op)

\* Faulty variant: any new input will do
FreshInput(j, op, input) ==
  \A last \in Latest(Previous(j, op)) : j.attempts[last].input # input

\* An attempt in the same cycle must be a retry the user named; routing must
\* differ in its design; every operation must differ in its effective input.
Fresh(j, op, input) ==
  \A last \in Latest(Previous(j, op)) :
    /\ j.attempts[last].input # input
    /\ op = Routing => Design[j.attempts[last].input] # Design[input]
    /\ op \in BuildOp /\ (\E i \in Previous(j, op) : j.attempts[i].cycle = j.cycle)
         => Continued(j) /\ Retried(j, last)

Claimed(j, op, input, now) ==
  [j EXCEPT !.attempts = Append(@,
     [ op |-> op, input |-> input, cycle |-> j.cycle, status |-> "running",
       signature |-> NoSignature, started |-> now, ended |-> 0 ])]

MayClaim(j, op, now) ==
  Allowed(j, now, Phase(op)) /\ Running(j) = {} /\ ~OutOfScope(j, op)

Claim(op, input, now) ==
  LET j == Check(now) IN
  /\ Len(j.attempts) < MaxAttempts
  /\ MayClaim(j, op, now) /\ ~Overdrawn(j, op) /\ Fresh(j, op, input)
  /\ Save(Claimed(j, op, input, now))

\* "operation attempt allowance exhausted; diagnostic required"
Overdraw(op, now) ==
  LET j == Check(now) IN
  /\ MayClaim(j, op, now) /\ Overdrawn(j, op)
  /\ Save(Diagnosed(j))

-------------------------------------------------------------------------------
(* finish_attempt *)

\* execution, or wall time, has reached the verification reserve
ReserveReached(j) ==
  IF Separate(Active(j))
  THEN Execution(j, j.lastSeen) >= Active(j).allowance.exec - Active(j).allowance.reserve
  ELSE j.lastSeen >= Deadline(Active(j)) - Active(j).allowance.reserve

\* Faulty variant: an attempt cut short stops a job that has already stopped
SettledAgain(j, i, status) ==
  IF j.lastSeen >= Deadline(Active(j)) THEN Stopped(j, "deadline")
  ELSE IF status = "stopped" /\ ~(j.attempts[i].op \in BuildOp /\ ReserveReached(j))
       THEN Stopped(j, "interrupted") ELSE j

\* An attempt cut short stops the job, unless it was a build at the reserve.
Settled(j, i, status) ==
  IF j.lastSeen >= Deadline(Active(j)) THEN Stopped(j, "deadline")
  ELSE IF /\ status = "stopped" /\ j.status # "stopped"
          /\ ~(j.attempts[i].op \in BuildOp /\ ReserveReached(j))
       THEN Stopped(j, "interrupted") ELSE j

Recurred(j, i, signature) ==
  \E k \in Previous(j, j.attempts[i].op) \ {i} : j.attempts[k].signature = signature

\* The supervisor that made the claim ends it: its own time does not go back.
FinishAttempt(i, status, signature, now) ==
  LET ended == [job EXCEPT !.attempts[i].ended = now, !.attempts[i].status = status,
                           !.attempts[i].signature = signature]
      j == Settled(Checked(ended, now, Backwards), i, status)
  IN
  /\ i \in Running(job) /\ now >= job.attempts[i].started
  /\ IF signature # NoSignature /\ Recurred(j, i, signature)
     THEN Save(Diagnosed(Stopped(j, "repeated_failure")))
     ELSE IF status # "passed" /\ (Continued(j) \/ j.cycle = LastCycle)
     THEN Save(Diagnosed(j))
     ELSE Save(j)

-------------------------------------------------------------------------------
(* correction *)

\* Faulty variant: one correction too many
CorrectionUnspent(j, escalation) ==
  Continued(j) \/ j.cycle > LastCycle \/ (escalation /\ j.escalations = EscalationLimit)

CorrectionSpent(j, escalation) ==
  Continued(j) \/ j.cycle = LastCycle \/ (escalation /\ j.escalations = EscalationLimit)

Correct(escalation, now) ==
  LET j == Check(now) IN
  /\ Allowed(j, now, "build") /\ Running(j) = {} /\ ~CorrectionSpent(j, escalation)
  /\ \E i \in DOMAIN j.attempts : j.attempts[i].cycle = j.cycle
  /\ Save([j EXCEPT !.cycle = @ + 1, !.escalations = IF escalation THEN @ + 1 ELSE @])

RefuseCorrection(escalation, now) ==
  LET j == Check(now) IN
  /\ Allowed(j, now, "build") /\ Running(j) = {} /\ CorrectionSpent(j, escalation)
  /\ Save(Diagnosed(j))

-------------------------------------------------------------------------------
(* begin_diagnostic, complete_diagnostic *)

\* A review of a job that stopped at its deadline gets a window of its own.
Retrospective == job.status = "stopped" /\ job.stopKind = "deadline"

ReviewEnd(now) ==
  LET s == Active(job)
      reserve == Deadline(s) - s.allowance.reserve
      idle == now + s.allowance.eval - Evaluation(job, now)
      end == IF Retrospective THEN now + Window
             ELSE IF Separate(s) /\ idle < reserve THEN idle ELSE reserve
  IN  IF end < now + Window THEN end ELSE now + Window

BeginDiagnostic(now) ==
  LET j == Diagnosed(job) IN
  /\ Running(job) = {} /\ ~Backwards
  /\ job.status # "finished" /\ job.stopKind # "clock"
  /\ ReviewEnd(now) \in now + 1 .. now + Window   \* DiagnosticCheckpoint.bounded
  /\ Active(job).diagnostic.deadline = 0
  /\ Save(Seen(WithDiagnostic(j, [Active(j).diagnostic EXCEPT
            !.status = "reviewing", !.deadline = ReviewEnd(now)]), now))

CompleteDiagnostic(action, now) ==
  LET d == Active(job).diagnostic IN
  /\ d.status = "reviewing"
  /\ IF Backwards \/ now >= d.deadline
     THEN Save(WithDiagnostic(job, [d EXCEPT !.status = "expired"]))
     ELSE \/ Save(Seen(WithDiagnostic(job, [d EXCEPT !.status = "complete",
                                                    !.action = action]), now))
          \/ Save(Seen(job, now))   \* the evidence has changed

-------------------------------------------------------------------------------
(* stop, resume *)

Cancel == job.status = "active" /\ Save(Stopped(job, "cancelled"))

Finish(now) ==
  LET j == Check(now) IN
  /\ job.status = "active" /\ Allowed(j, now, "verify") /\ Running(j) = {}
  /\ Save([j EXCEPT !.status = "finished", !.stopKind = "finished"])

\* Faulty variant: the job goes on while the last worker is still at work.
ResumeAtOnce(now) ==
  LET j == Checked([job EXCEPT !.status = "active"], now, Backwards) IN
  /\ job.stopKind \in {"cancelled", "interrupted"}
  /\ Save(IF j.status = "active" THEN [j EXCEPT !.stopKind = ""] ELSE j)

Resume(now) ==
  LET j == Checked([job EXCEPT !.status = "active"], now, Backwards) IN
  /\ job.stopKind \in {"cancelled", "interrupted"} /\ Running(job) = {}
  /\ Save(IF j.status = "active" THEN [j EXCEPT !.stopKind = ""] ELSE j)

-------------------------------------------------------------------------------
(* What a user may authorize *)

\* A decision that first keeps the ledger it changes in a file of its own; the
\* validators, or the end of the process, may keep the new one from being saved.
Extend(kind, s) ==
  /\ kind \notin extended /\ extended' = extended \cup {kind}
  /\ Write(s) \/ UNCHANGED << job, clocks, halted >>
  /\ Audited(kind, s) /\ UNCHANGED retained

\* authorize_local_correction: one edit/apply pair more for the active scope.
LocalExtension(j) == WithActive(j, [Active(j) EXCEPT !.builds = @ \cup LocalOp])

AddLocalCorrection(now) ==
  LET j == Check(now) IN
  /\ LocalOp # {}   \* (an instance may leave the edits out)
  /\ Allowed(j, now, "build") /\ Continued(j) /\ Running(j) = {}
  /\ \A op \in LocalOp : Previous(j, op) = {}
  /\ Extend("local", LocalExtension(j))

\* authorize_annotation_completion: the one failed edit may be made again. Its
\* retry replaces those of the scope, the ones already used included.
AnnotationAdmitted(j, now) ==
  /\ Allowed(j, now, "verify") /\ Continued(j) /\ Running(j) = {}
  /\ Active(j).diagnostic.status = "complete"
  /\ Active(j).resolution /\ Edit \in Active(j).builds
  /\ Cardinality(Previous(j, Edit)) = 1
  /\ \A i \in Previous(j, Edit) : j.attempts[i].status = "failed"

AnnotationExtension(j) ==
  WithActive(j, [Active(j) EXCEPT !.retry = Previous(j, Edit), !.diagnostic = NoDiagnostic])

AddAnnotation(now) ==
  LET j == Check(now) IN
  AnnotationAdmitted(j, now) /\ Extend("annotation", AnnotationExtension(j))

\* The refusals of continue_authorized.
Admitted(r, now) ==
  LET s == Active(job)
      d == s.diagnostic
      overdue == r.retrospective /\ d.deadline > 0 /\ now >= d.deadline
  IN
  /\ Continued(job) => /\ r.resolution
                       /\ d.status = "complete" \/ overdue
                       /\ \A k \in 2 .. Len(job.scopes) : job.scopes[k].auth # r.auth
  /\ ~Continued(job) /\ r.resolution => d.status = "complete"
  /\ \A op \in r.retry :
       LET previous == Previous(job, op) IN
         /\ \E i \in Latest(previous) : job.attempts[i].status = "failed"
         /\ Cardinality(previous) < OperationLimit
  /\ job.status # "finished" /\ job.stopKind # "clock"
  /\ Running(job) = {} /\ ~Backwards
  /\ job.status = "active" => now >= Deadline(s)
  /\ r.resolution => d.status # "none" /\ (r.retrospective \/ d.action = r.action)
  /\ r.action \in IF r.resolution THEN {"platform_work", "local_edit"} ELSE {"local_edit"}
  /\ r.retrospective => r.builds = {} /\ r.retry = {} /\ overdue
  /\ retained \in {NoLedger, job}   \* "retained continuation predecessor conflicts"

Renewed(j, r, now) ==
  [j EXCEPT !.status = "active", !.stopKind = "", !.lastSeen = now,
     !.scopes = Append(@,
       [ builds |-> r.builds, resolution |-> r.resolution, auth |-> r.auth,
         retry |-> UNION {Latest(Previous(j, op)) : op \in r.retry},
         first |-> Len(j.attempts), start |-> now, allowance |-> r.allowance,
         diagnostic |-> NoDiagnostic ])]

\* The predecessor is retained, then the ledger saved; a validator, or the end of
\* the process, may come in between.
Continue(r, now) ==
  /\ Len(job.scopes) < MaxScopes
  /\ Admitted(r, now)
  /\ \/ Consistent(Renewed(job, r, now)) /\ Write(Renewed(job, r, now)) /\ retained' = NoLedger
     \/ retained' = job /\ UNCHANGED << job, clocks, halted >>
  /\ Audited("call", Renewed(job, r, now)) /\ UNCHANGED extended

-------------------------------------------------------------------------------
(* The clocks *)

PassTime(n) ==
  /\ elapsed + n <= MaxTime
  /\ wall' = wall + n /\ elapsed' = elapsed + n
  /\ UNCHANGED << job, retained, extended, halted, overdrawn >>

SetClockBack(n) ==
  /\ n <= wall
  /\ wall' = wall - n
  /\ UNCHANGED << job, retained, extended, elapsed, halted, overdrawn >>

CorrectClock ==
  /\ wall' = elapsed
  /\ UNCHANGED << job, retained, extended, elapsed, halted, overdrawn >>

-------------------------------------------------------------------------------
Call(now) ==
  \/ Inspect(now) \/ BeginDiagnostic(now) \/ Finish(now) \/ Resume(now)
  \/ AddLocalCorrection(now) \/ AddAnnotation(now)
  \/ \E op \in Op : Overdraw(op, now) \/ \E input \in Input : Claim(op, input, now)
  \/ \E i \in Running(job), end \in Outcome : FinishAttempt(i, end[1], end[2], now)
  \/ \E escalation \in BOOLEAN : Correct(escalation, now) \/ RefuseCorrection(escalation, now)
  \/ \E action \in Action : CompleteDiagnostic(action, now)
  \/ \E r \in ContinuationRequest : Continue(r, now)

Next ==
  \/ \E now \in Now : Call(now)
  \/ Cancel
  \/ \E n \in Tick : PassTime(n)
  \/ \E n \in SetBack : SetClockBack(n)
  \/ CorrectClock

Spec == Init /\ [][Next]_vars

-------------------------------------------------------------------------------
(* Properties *)

\* An attempt relied on a retry of scope k that is not the edit's.
RetrySpent(j, k) ==
  \E i \in j.scopes[k].retry :
    /\ j.attempts[i].op # Edit
    /\ \E i2 \in ScopeWork(j, k, j.attempts[i].op) : i < i2

\* Whatever is claimed, corrected, settled, cancelled, resumed, reviewed, extended and
\* continued, no call builds a ledger that exceeds the lifetime, cycle and scope
\* budgets JobState.consistent audits: the guards are enough and no save is refused
\* for a budget. The one exception is an annotation completion, and only in a scope
\* that has spent another operation's retry, which the call takes away (1070-1073).
BudgetsHold ==
  /\ overdrawn \subseteq {"annotation"}
  /\ "annotation" \in overdrawn => \E k \in DOMAIN job.scopes : RetrySpent(job, k)

\* A pending, running, expired or completed checkpoint blocks new build work in
\* its scope: none of the scope's builds was claimed after it was requested.
BuildsHeld(j) ==
  \A k \in DOMAIN j.scopes :
    j.scopes[k].diagnostic.status # "none" =>
      \A op \in BuildOp : \A i \in ScopeWork(j, k, op) : i <= j.scopes[k].diagnostic.after

ReviewHoldsBuilds == BuildsHeld(job)

\* A job that stopped for good (deadline, repeated failure, clock, finished) is
\* not relabelled into one that can resume, nor active again but by a new scope.
Final == {"deadline", "repeated_failure", "clock", "finished"}

HardStopsHold ==
  [][job.stopKind \in Final /\ Len(job'.scopes) = Len(job.scopes)
       => job'.stopKind \in Final /\ job'.status # "active"]_vars

\* The status of every attempt, by its token.
Statuses(j) == [i \in DOMAIN j.attempts |-> j.attempts[i].status]

\* Attempts run one at a time and while the job is active, a verdict is given once, a
\* stopped job goes on only when no attempt runs, and a finished one never.
Ledger == INSTANCE AttemptLedger WITH
  Id <- 1 .. MaxAttempts, status <- job.status, attempts <- Statuses(job)

LedgerKept == Ledger!LSpec

\* "finished or clock-inconsistent job cannot continue"
ClockHaltIsFinal == [][halted => job'.status # "active"]_vars

\* "Authorize one source-bound label-only closure": an annotation completion that
\* passes the checks of authorize_annotation_completion is recorded.
AnnotationRecorded ==
  \A now \in Now :
    LET j == Check(now) IN
      AnnotationAdmitted(j, now) /\ "annotation" \notin extended
        => Consistent(AnnotationExtension(j))

\* A recovery that passes continue_authorized's checks is recorded.
RecoveryRecorded ==
  \A r \in ContinuationRequest, now \in Now :
    Admitted(r, now) => Consistent(Renewed(job, r, now))
===============================================================================
