----------------------------- MODULE AttemptLedger -----------------------------
(***************************************************************************)
(* What the ledger of a board job (board_job.py) promises those who work   *)
(* by it, without times, budgets, scopes and diagnostics: attempts run one *)
(* at a time and only while the job is active, a verdict is given once, a  *)
(* job goes on after a stop only when nothing runs, and a finished one     *)
(* never. BoardJob keeps this promise, and SupervisedRun, which shares the *)
(* ledger with operators and other calls, relies on no more than it.       *)
(***************************************************************************)

CONSTANT Id   \* names of attempts

VARIABLES
  status,     \* "active", "stopped" or "finished"
  attempts    \* the status of every attempt that was claimed, by its name

lvars == << status, attempts >>

Verdict == {"passed", "failed", "stopped"}

Running == {i \in DOMAIN attempts : attempts[i] = "running"}

LInit == status = "active" /\ DOMAIN attempts = {}

Claim(i) ==
  /\ status = "active" /\ Running = {} /\ i \notin DOMAIN attempts
  /\ attempts' = [k \in DOMAIN attempts \cup {i} |-> IF k = i THEN "running" ELSE attempts[k]]
  /\ UNCHANGED status

\* A settlement may stop the job.
Settle(i, verdict) ==
  /\ status # "finished" /\ i \in Running
  /\ attempts' = [attempts EXCEPT ![i] = verdict]
  /\ status' \in {status, "stopped"}

Stop == status = "active" /\ status' = "stopped" /\ UNCHANGED attempts

\* A resumption, or a scope that a user has authorized.
Reopen == status = "stopped" /\ Running = {} /\ status' = "active" /\ UNCHANGED attempts

Finish == status = "active" /\ Running = {} /\ status' = "finished" /\ UNCHANGED attempts

LNext ==
  \/ \E i \in Id : Claim(i)
  \/ \E i \in Running, verdict \in Verdict : Settle(i, verdict)
  \/ Stop \/ Reopen \/ Finish

LSpec == LInit /\ [][LNext]_lvars
===============================================================================
