------------------------------- MODULE JobLedger -------------------------------
(***************************************************************************)
(* The record .pcbsmith/board-job.json of board_job.py: its values, what a *)
(* reading of the clock does to it (BoardJob._check), and the audit every  *)
(* save makes of it (JobState.consistent).                                 *)
(*                                                                         *)
(* The original job and each Continuation are one kind of thing here, a    *)
(* scope: scopes[1] is the job as started, the last scope is the active    *)
(* one, and the code's active_* properties read it. A token is the index   *)
(* of its attempt; a correction is a step of the cycle counter.            *)
(***************************************************************************)
EXTENDS Integers, Sequences, FiniteSetsExt

CONSTANTS
  Op,          \* supported operations
  BuildOp,     \* those whose phase is "build"; the others verify
  LocalOp,     \* edit and apply-edit
  Input,       \* effective inputs, as identified by their digest
  Design,      \* [Input -> design]: routing_design_fingerprint
  Signature,   \* failure signatures
  NoSignature,
  Action,      \* actions a DiagnosticRecommendation may name
  NoAction,
  Authorization, \* references to a user's authorization
  NoAuthorization,
  Allowance,   \* seconds a job or a continuation may be given
  Window       \* seconds of a diagnostic review, at most (300)

ASSUME LedgerAssumption ==
  /\ BuildOp \subseteq Op /\ LocalOp \subseteq BuildOp
  /\ Allowance \subseteq [exec : Nat \ {0}, reserve : Nat, eval : Nat]
  /\ \A a \in Allowance : a.reserve < a.exec
  /\ Window \in Nat \ {0}

Routing == "routing"
Edit == "edit"

OperationLimit == 3   \* attempts of an operation in the life of a job
RoutingLimit   == 2   \* NEW_JOB_ROUTING_POLICY: one run and one retry
LastCycle      == 2
EscalationLimit == 1

Limit(op) == IF op = Routing THEN RoutingLimit ELSE OperationLimit

NoDiagnostic == [status |-> "none", deadline |-> 0, action |-> NoAction, after |-> 0]

Diagnostic ==
  [ status   : {"none", "pending", "reviewing", "complete", "expired"},
    deadline : Nat,    \* 0: the review has not started
    action   : Action \cup {NoAction},
    after    : Nat ]   \* attempts made when it was requested

Scope ==
  [ builds     : SUBSET BuildOp,     \* build_operations
    retry      : SUBSET (Nat \ {0}), \* retry_failed_operations: failed attempts
    resolution : BOOLEAN,            \* is there a blocker_resolution?
    auth       : Authorization \cup {NoAuthorization},
    first      : Nat,                \* prior_attempt_count
    start      : Nat,
    allowance  : Allowance,
    diagnostic : Diagnostic ]

Attempt ==
  [ op : Op, input : Input, cycle : 0 .. LastCycle,
    status : {"running", "passed", "failed", "stopped"},
    signature : Signature \cup {NoSignature},
    started : Nat,
    ended : Nat ]      \* 0 while it runs

StopKind == {"", "deadline", "cancelled", "interrupted", "repeated_failure", "clock", "finished"}

JobState ==
  [ status : {"active", "stopped", "finished"}, stopKind : StopKind,
    cycle : 0 .. LastCycle, escalations : 0 .. EscalationLimit, lastSeen : Nat,
    attempts : Seq(Attempt), scopes : Seq(Scope) ]

Phase(op) == IF op \in BuildOp THEN "build" ELSE "verify"

-------------------------------------------------------------------------------
(* Reading a ledger *)

Active(j)     == j.scopes[Len(j.scopes)]
Continued(j)  == Len(j.scopes) > 1
Deadline(s)   == s.start + s.allowance.exec + s.allowance.eval
Running(j)    == {i \in DOMAIN j.attempts : j.attempts[i].status = "running"}
Previous(j, op) == {i \in DOMAIN j.attempts : j.attempts[i].op = op}

\* Index of the last attempt of scope k.
End(j, k) == IF k = Len(j.scopes) THEN Len(j.attempts) ELSE j.scopes[k + 1].first

\* Attempts of op made in scope k.
ScopeWork(j, k, op) == {i \in Previous(j, op) : j.scopes[k].first < i /\ i <= End(j, k)}

InScope(j) == {i \in DOMAIN j.attempts : Active(j).first < i}

\* timing_usage: an attempt's time is execution, the rest of the scope evaluation.
Duration(a, now) ==
  LET end == IF a.status = "running" \/ a.ended > now THEN now ELSE a.ended
  IN  IF end > a.started THEN end - a.started ELSE 0

Execution(j, now) == MapThenSumSet(LAMBDA i : Duration(j.attempts[i], now), InScope(j))

Evaluation(j, now) ==
  LET elapsed == IF now > Active(j).start THEN now - Active(j).start ELSE 0
  IN  IF elapsed > Execution(j, now) THEN elapsed - Execution(j, now) ELSE 0

\* A job without an evaluation allowance has one wall-time deadline.
Separate(s) == s.allowance.eval > 0

Remaining(j, now) ==
  LET wall == Deadline(Active(j)) - now
      work == Active(j).allowance.exec - Execution(j, now)
  IN  IF Separate(Active(j)) /\ work < wall THEN work ELSE wall

Exhausted(j, now) ==
  \/ now >= Deadline(Active(j))
  \/ /\ Separate(Active(j))
     /\ \/ Execution(j, now) >= Active(j).allowance.exec
        \/ Evaluation(j, now) >= Active(j).allowance.eval
-------------------------------------------------------------------------------
(* Updates *)

WithActive(j, s) == [j EXCEPT !.scopes[Len(j.scopes)] = s]

WithDiagnostic(j, d) == WithActive(j, [Active(j) EXCEPT !.diagnostic = d])

Stopped(j, kind) == [j EXCEPT !.status = "stopped", !.stopKind = kind]

\* _request_diagnostic: at most one per scope.
Diagnosed(j) ==
  IF Active(j).diagnostic.status # "none" THEN j
  ELSE WithDiagnostic(j, [NoDiagnostic EXCEPT !.status = "pending", !.after = Len(j.attempts)])

Seen(j, now) == [j EXCEPT !.lastSeen = IF now > @ THEN now ELSE @]

\* A diagnostic must end before the verification reserve; that of the original
\* job may not, once the job has stopped at its deadline.
DiagnosticsInTime(j) ==
  \A k \in DOMAIN j.scopes :
    LET s == j.scopes[k] IN
      s.diagnostic.deadline > Deadline(s) - s.allowance.reserve
        => k = 1 /\ j.status = "stopped" /\ j.stopKind = "deadline"

\* _check's effect on the ledger, whether or not it then raises; back says that
\* the wall clock reads more than a second before last_seen. The validators run
\* on every assignment: a stop for the clock that they refuse changes nothing.
Checked(j, now, back) ==
  IF j.status = "finished" \/ (back /\ ~DiagnosticsInTime(Stopped(j, "clock"))) THEN j
  ELSE LET timed == IF Exhausted(j, now) THEN Stopped(Seen(j, now), "deadline")
                    ELSE IF back THEN Stopped(Seen(j, now), "clock") ELSE Seen(j, now)
           d == Active(j).diagnostic
       IN  IF timed.status = "active" /\ d.status = "reviewing" /\ now >= d.deadline
           THEN WithDiagnostic(timed, [d EXCEPT !.status = "expired"]) ELSE timed

\* Faulty variant: only a review that is under way holds builds back
AllowedAfterReview(j, now, phase) ==
  /\ j.status = "active"
  /\ phase = "build" => /\ Active(j).diagnostic.status \notin {"pending", "reviewing"}
                        /\ Remaining(j, now) > Active(j).allowance.reserve

\* _check lets an operation of this phase go on with the ledger it returns.
Allowed(j, now, phase) ==
  /\ j.status = "active"
  /\ phase = "build" => /\ Active(j).diagnostic.status = "none"
                        /\ Remaining(j, now) > Active(j).allowance.reserve

-------------------------------------------------------------------------------
(* JobState.consistent and the nested validators. An operation whose result  *)
(* fails them raises a ValueError, and the ledger on disk stays as it was.   *)

\* With separate clocks, attempts of the active scope do not overlap.
AttemptsInTime(j) ==
  Separate(Active(j)) =>
    \A i \in InScope(j) :
      LET a == j.attempts[i] IN
        /\ a.status # "running" => a.ended >= a.started
        /\ a.started >= IF i = Active(j).first + 1 THEN Active(j).start
                        ELSE IF j.attempts[i - 1].status = "running" THEN j.lastSeen
                        ELSE j.attempts[i - 1].ended

ScopesInTime(j) ==
  \A k \in 2 .. Len(j.scopes) : j.scopes[k].start >= j.scopes[k - 1].start

InTime(j) == DiagnosticsInTime(j) /\ AttemptsInTime(j) /\ ScopesInTime(j)

\* One build attempt per operation and continuation, of a declared operation,
\* or two when the first failed and the scope names it for a retry.
ScopeBudget(j) ==
  \A k \in 2 .. Len(j.scopes), op \in BuildOp :
    LET work == ScopeWork(j, k, op) IN
      /\ work # {} => op \in j.scopes[k].builds
      /\ \A i1, i2 \in work : i1 < i2 =>
           /\ work = {i1, i2}
           /\ j.attempts[i1].status = "failed" /\ i1 \in j.scopes[k].retry

\* One build attempt per operation and correction cycle, but for a retry that a
\* resolved recovery names.
CycleBudget(j) ==
  \A op \in BuildOp : \A i1, i2 \in Previous(j, op) :
    /\ i1 < i2 /\ j.attempts[i1].cycle = j.attempts[i2].cycle
    /\ \A i \in Previous(j, op) : i <= i1 \/ i2 <= i
    => /\ j.attempts[i1].status = "failed"
       /\ \E k \in 2 .. Len(j.scopes) :
            /\ j.scopes[k].first < i2 /\ i2 <= End(j, k)
            /\ i1 \in j.scopes[k].retry /\ j.scopes[k].resolution

LifetimeBudget(j) == \A op \in Op : Cardinality(Previous(j, op)) <= Limit(op)

OneAttempt(j) == Cardinality(Running(j)) <= 1

ScopesOrdered(j) ==
  \A k \in DOMAIN j.scopes : j.scopes[k].first <= End(j, k) /\ End(j, k) <= Len(j.attempts)

CyclesCounted(j) == \A i \in DOMAIN j.attempts : j.attempts[i].cycle <= j.cycle

WithinBudget(j) ==
  /\ ScopesOrdered(j) /\ OneAttempt(j) /\ CyclesCounted(j)
  /\ LifetimeBudget(j) /\ CycleBudget(j) /\ ScopeBudget(j)

Consistent(j) == InTime(j) /\ WithinBudget(j)
===============================================================================
