---------------------------- MODULE FileTransaction ----------------------------
(***************************************************************************)
(* operations/file_transaction.py: the journaled multi-file project edit.  *)
(*                                                                         *)
(* Processes call commit_project_files and recover_project_files. Each     *)
(* takes a non-blocking OS lock, so a call that finds it taken is refused  *)
(* without effect and is not an action here. An edit keeps the old and new *)
(* contents of its targets in a directory of its own, publishes the marker *)
(* pending-edit.json, replaces the targets one by one, journals            *)
(* "committed" and removes the marker. What is on disk survives a process; *)
(* its locals and its lock do not. Programs that do not take the lock (a   *)
(* KiCad editor, version control) write files too.                         *)
(*                                                                         *)
(* An os.replace is atomic: atomic_write either installs the whole content *)
(* or, after its four attempts, raises and leaves the file alone.          *)
(***************************************************************************)
EXTENDS ProjectEdit

CONSTANTS
  Proc,                \* processes that edit or recover the project
  NoProc,              \* the lock is free
  Foreign,             \* contents other programs may write
  ExternalWhileLocked  \* do other programs write during a locked call?

ASSUME ProcessAssumption ==
  /\ NoProc \notin Proc
  /\ Foreign \subseteq Stored
  /\ ExternalWhileLocked \in BOOLEAN

VARIABLES
  disk,      \* [File -> Stored]
  marker,    \* does .pcbsmith/pending-edit.json exist?
  journal,   \* journal.json and payloads of the latest transaction directory
  damaged,   \* targets whose retained .old payload was lost or altered
  lock,      \* holder of .pcbsmith/edit.lock
  pc,        \* where each process is in its call
  request,   \* [Proc -> Edits \cup {NoRequest}]: the arguments of the call
  contents,  \* the contents computed for the targets
  todo       \* targets the running loop has not reached

vars == << disk, marker, journal, damaged, lock, pc, request, contents, todo >>

JournalState == {"none", "prepared", "committed", "rolling_back", "rolled_back"}

Empty == [f \in {} |-> Absent]

NoRequest == [write |-> Empty, append |-> Empty, expect |-> Empty, createOnly |-> FALSE]

Partial == UNION { [S -> Stored] : S \in SUBSET File }

CommitPhase  == {"opened", "validated", "prepared", "applying", "committed", "failed"}
RestorePhase == {"checking", "restoring", "rolledback"}
RecoverPhase == {"recovering", "settling"}

TypeOK ==
  /\ disk \in [File -> Stored]
  /\ marker \in BOOLEAN
  /\ journal \in [state : JournalState, old : Partial, new : Partial]
  /\ DOMAIN journal.old = DOMAIN journal.new
  /\ damaged \subseteq File
  /\ lock \in Proc \cup {NoProc}
  /\ pc \in [Proc -> {"idle"} \cup CommitPhase \cup RestorePhase \cup RecoverPhase]
  /\ request \in [Proc -> Edits \cup {NoRequest}]
  /\ contents \in [Proc -> Partial]
  /\ todo \in [Proc -> SUBSET File]

Init ==
  /\ disk \in Initial
  /\ marker = FALSE
  /\ journal = [state |-> "none", old |-> Empty, new |-> Empty]
  /\ damaged = {}
  /\ lock = NoProc
  /\ pc = [p \in Proc |-> "idle"]
  /\ request = [p \in Proc |-> NoRequest]
  /\ contents = [p \in Proc |-> Empty]
  /\ todo = [p \in Proc |-> {}]

-------------------------------------------------------------------------------
(* Helpers *)

Targeted == DOMAIN journal.old

locals == << request, contents, todo >>

\* _project_lock: LOCK_NB, so the lock is free or the call is refused.
Acquire(p, phase) ==
  /\ lock = NoProc /\ pc[p] = "idle"
  /\ lock' = p
  /\ pc' = [pc EXCEPT ![p] = phase]

\* The call ends: the lock is released and its locals are gone.
Return(p) ==
  /\ lock' = NoProc
  /\ pc' = [pc EXCEPT ![p] = "idle"]
  /\ request' = [request EXCEPT ![p] = NoRequest]
  /\ contents' = [contents EXCEPT ![p] = Empty]
  /\ todo' = [todo EXCEPT ![p] = {}]

Goto(p, from, to) == pc[p] = from /\ pc' = [pc EXCEPT ![p] = to] /\ UNCHANGED lock

\* One atomic_write of a loop over the targets.
Replace(p, f, c) ==
  /\ f \in todo[p]
  /\ disk' = [disk EXCEPT ![f] = c]
  /\ todo' = [todo EXCEPT ![p] = @ \ {f}]

\* Faulty variant: the payloads are checked, the files on disk are not.
RestorableUnchecked == \A f \in Targeted : journal.old[f] # Absent => f \notin damaged

\* _restore's validation, made of all targets before any is touched.
Restorable ==
  \A f \in Targeted : /\ disk[f] \in {journal.old[f], journal.new[f]}
                      /\ journal.old[f] # Absent => f \notin damaged

-------------------------------------------------------------------------------
(* commit_project_files *)

BeginEdit(p, e) ==
  /\ Acquire(p, "opened")
  /\ request' = [request EXCEPT ![p] = e]
  /\ UNCHANGED << disk, marker, journal, damaged, contents, todo >>

\* require_complete_project, then the contents and the caller's expectations.
Validate(p) ==
  /\ ~marker /\ Admissible(request[p], disk)
  /\ Goto(p, "opened", "validated")
  /\ contents' = [contents EXCEPT ![p] = NewContents(request[p], disk)]
  /\ UNCHANGED << disk, marker, journal, damaged, request, todo >>

Refuse(p) ==
  /\ pc[p] = "opened"
  /\ marker \/ ~Admissible(request[p], disk)
  /\ Return(p)
  /\ UNCHANGED << disk, marker, journal, damaged >>

\* Payloads and journal go to a new directory nothing refers to yet.
Prepare(p) ==
  /\ Goto(p, "validated", "prepared")
  /\ journal' = [ state |-> "prepared",
                  old   |-> [f \in DOMAIN contents[p] |-> disk[f]],
                  new   |-> contents[p] ]
  /\ damaged' = {}
  /\ UNCHANGED << disk, marker, locals >>

Publish(p) ==
  /\ Goto(p, "prepared", "applying")
  /\ marker' = TRUE
  /\ todo' = [todo EXCEPT ![p] = Targeted]
  /\ UNCHANGED << disk, journal, damaged, request, contents >>

\* The order is that of the caller's mapping: any order.
Apply(p, f) ==
  /\ pc[p] = "applying"
  /\ Replace(p, f, journal.new[f])
  /\ UNCHANGED << marker, journal, damaged, lock, pc, request, contents >>

\* Faulty variant: the commit is journaled while targets remain.
JournalCommitEarly(p) ==
  /\ Goto(p, "applying", "committed")
  /\ journal' = [journal EXCEPT !.state = "committed"]
  /\ UNCHANGED << disk, marker, damaged, locals >>

JournalCommit(p) ==
  /\ todo[p] = {}
  /\ Goto(p, "applying", "committed")
  /\ journal' = [journal EXCEPT !.state = "committed"]
  /\ UNCHANGED << disk, marker, damaged, locals >>

\* pending.unlink(), and the caller gets the transaction id.
Acknowledge(p) ==
  /\ pc[p] = "committed"
  /\ marker' = FALSE
  /\ Return(p)
  /\ UNCHANGED << disk, journal, damaged >>

\* An exception inside the try: a replacement, the journal or the unlink failed.
Fail(p) ==
  /\ \E phase \in {"applying", "committed"} : Goto(p, phase, "failed")
  /\ todo' = [todo EXCEPT ![p] = {}]
  /\ UNCHANGED << disk, marker, journal, damaged, request, contents >>

JournalRollingBack(p) ==
  /\ Goto(p, "failed", "checking")
  /\ journal' = [journal EXCEPT !.state = "rolling_back"]
  /\ UNCHANGED << disk, marker, damaged, locals >>

-------------------------------------------------------------------------------
(* _restore and what follows it, in a failed commit and in a recovery *)

\* Faulty variant: files the edit created are not taken away again.
CheckRestoreExisting(p) ==
  /\ Restorable
  /\ Goto(p, "checking", "restoring")
  /\ todo' = [todo EXCEPT ![p] = {f \in Targeted : journal.old[f] # Absent}]
  /\ UNCHANGED << disk, marker, journal, damaged, request, contents >>

CheckRestore(p) ==
  /\ Restorable
  /\ Goto(p, "checking", "restoring")
  /\ todo' = [todo EXCEPT ![p] = Targeted]
  /\ UNCHANGED << disk, marker, journal, damaged, request, contents >>

\* "Recovery conflicts with an external edit", "payload is corrupt": marker kept.
RefuseRestore(p) ==
  /\ pc[p] = "checking" /\ ~Restorable
  /\ Return(p)
  /\ UNCHANGED << disk, marker, journal, damaged >>

\* The payload was read during the validation.
Restore(p, f) ==
  /\ pc[p] = "restoring"
  /\ Replace(p, f, journal.old[f])
  /\ UNCHANGED << marker, journal, damaged, lock, pc, request, contents >>

JournalRolledBack(p) ==
  /\ todo[p] = {}
  /\ Goto(p, "restoring", "rolledback")
  /\ journal' = [journal EXCEPT !.state = "rolled_back"]
  /\ UNCHANGED << disk, marker, damaged, locals >>

\* pending.unlink() after a restore, or after a committed edit was verified.
Settle(p) ==
  /\ pc[p] \in {"rolledback", "settling"}
  /\ marker' = FALSE
  /\ Return(p)
  /\ UNCHANGED << disk, journal, damaged >>

-------------------------------------------------------------------------------
(* recover_project_files *)

BeginRecover(p) ==
  /\ Acquire(p, "recovering")
  /\ UNCHANGED << disk, marker, journal, damaged, locals >>

AllNew == \A f \in Targeted : disk[f] = journal.new[f]

VerifyCommitted(p) ==
  /\ marker /\ journal.state = "committed" /\ AllNew
  /\ Goto(p, "recovering", "settling")
  /\ UNCHANGED << disk, marker, journal, damaged, locals >>

\* Faulty variants: a committed edit is rolled back too; an interrupted
\* rollback is not resumed.
BeginRestoreAny(p) ==
  /\ marker
  /\ Goto(p, "recovering", "checking")
  /\ UNCHANGED << disk, marker, journal, damaged, locals >>

BeginRestorePrepared(p) ==
  /\ marker /\ journal.state = "prepared"
  /\ Goto(p, "recovering", "checking")
  /\ UNCHANGED << disk, marker, journal, damaged, locals >>

BeginRestore(p) ==
  /\ marker /\ journal.state # "committed"
  /\ Goto(p, "recovering", "checking")
  /\ UNCHANGED << disk, marker, journal, damaged, locals >>

\* Nothing to recover, or "Committed recovery files have changed".
EndRecover(p) ==
  /\ pc[p] = "recovering"
  /\ marker => journal.state = "committed" /\ ~AllNew
  /\ Return(p)
  /\ UNCHANGED << disk, marker, journal, damaged >>

-------------------------------------------------------------------------------
(* The environment *)

\* The process dies or is interrupted; the system releases its lock. An I/O
\* error that no handler rolls back (before the marker, while rolling back,
\* during a recovery) ends the call with the same effect.
Abandon(p) ==
  /\ pc[p] # "idle"
  /\ Return(p)
  /\ UNCHANGED << disk, marker, journal, damaged >>

ExternalEdit(f) ==
  /\ ExternalWhileLocked \/ lock = NoProc
  /\ \E c \in Foreign : disk' = [disk EXCEPT ![f] = c]
  /\ UNCHANGED << marker, journal, damaged, lock, pc, locals >>

LosePayload(f) ==
  /\ marker /\ f \in Targeted
  /\ damaged' = damaged \cup {f}
  /\ UNCHANGED << disk, marker, journal, lock, pc, locals >>

-------------------------------------------------------------------------------
(* What process p does next on its own, once it holds the lock *)
Step(p) ==
  \/ Validate(p) \/ Refuse(p) \/ Prepare(p) \/ Publish(p)
  \/ \E f \in File : Apply(p, f)
  \/ JournalCommit(p) \/ Acknowledge(p) \/ JournalRollingBack(p)
  \/ CheckRestore(p) \/ RefuseRestore(p)
  \/ \E f \in File : Restore(p, f)
  \/ JournalRolledBack(p) \/ Settle(p)
  \/ VerifyCommitted(p) \/ BeginRestore(p) \/ EndRecover(p)

Fault ==
  \/ \E p \in Proc : Fail(p) \/ Abandon(p)
  \/ \E f \in File : ExternalEdit(f) \/ LosePayload(f)

Next ==
  \/ \E p \in Proc : Step(p)
  \/ \E p \in Proc : BeginRecover(p) \/ \E e \in Edits : BeginEdit(p, e)
  \/ Fault

Spec == Init /\ [][Next]_vars

\* A call that holds the lock keeps running; a user told that recovery is
\* needed, or that another process is editing, asks for recovery again.
Fairness == \A p \in Proc : WF_vars(Step(p)) /\ SF_vars(BeginRecover(p))

FairSpec == Spec /\ Fairness
-------------------------------------------------------------------------------
(* The edit as readers may rely on it: a file that an unfinished edit has    *)
(* already replaced still counts as its retained old content.                *)
Project ==
  [f \in File |-> IF /\ marker /\ f \in Targeted
                     /\ disk[f] \in {journal.old[f], journal.new[f]}
                  THEN journal.old[f] ELSE disk[f]]

Pending == IF marker THEN {[base |-> journal.old, new |-> journal.new]} ELSE {}

Abstract == INSTANCE AtomicEdit WITH project <- Project, pending <- Pending

-------------------------------------------------------------------------------
(* Properties *)

\* An edit is validated at one instant and takes effect on all its targets at
\* the instant the marker goes, or on none, whatever process died on the way
\* (commit_project_files and recover_project_files together).
EditsAreAtomic == Abstract!ASpec

\* A replacement, by a commit or by a restore, only ever overwrites the content
\* the transaction retained or the one it installed, never anybody else's.
NoForeignOverwrite ==
  [][\A p \in Proc, f \in File :
       f \in todo[p] \ todo'[p] /\ disk'[f] # disk[f]
         => disk[f] \in {journal.old[f], journal.new[f]}]_vars

\* An edit journaled "committed" whose process died is completed, never undone.
CommittedEditKept ==
  [][marker /\ journal.state = "committed"
     /\ (\A p \in Proc : pc[p] \notin {"committed", "failed"})
       => journal'.state \notin {"rolling_back", "rolled_back"}]_vars

\* Somebody changed a target, or a payload, so that recovery must refuse.
Conflicted ==
  IF journal.state = "committed" THEN ~AllNew ELSE ~Restorable

\* Once faults cease, an interrupted edit does not block the project for ever,
\* unless it conflicts with what somebody else did to its files.
InterruptedEditsSettle ==
  <>[][~Fault]_vars => (marker ~> (~marker \/ Conflicted))

-------------------------------------------------------------------------------
(* The inductive invariants *)

\* The process in a call is the one that holds the lock.
LockInv == \A p \in Proc : pc[p] # "idle" <=> lock = p

\* The loops run over the targets of the journal they started from.
LoopInv == \A p \in Proc : pc[p] \in {"applying", "restoring"} => todo[p] \subseteq Targeted

BaseInv == TypeOK /\ LockInv /\ LoopInv

\* What is known of the targets at each place of a call that holds the lock,
\* when other programs keep out of it (~ExternalWhileLocked).
Touched(f) == disk[f] \in {journal.old[f], journal.new[f]}

Validated(p) ==
  /\ ~marker
  /\ request[p] \in Edits
  /\ Admissible(request[p], disk)
  /\ contents[p] = NewContents(request[p], disk)

PhaseInv(p) ==
  /\ pc[p] = "opened" => request[p] \in Edits
  /\ pc[p] = "validated" => Validated(p)
  /\ pc[p] = "prepared" =>
       /\ Validated(p)
       /\ journal.state = "prepared"
       /\ journal.new = contents[p]
       /\ journal.old = [f \in Targets(request[p]) |-> disk[f]]
  /\ pc[p] \in {"applying", "committed", "failed", "settling"} \cup RestorePhase => marker
  /\ pc[p] = "applying" =>
       /\ journal.state = "prepared"
       /\ \A f \in Targeted : disk[f] = IF f \in todo[p] THEN journal.old[f]
                                                         ELSE journal.new[f]
  /\ pc[p] \in {"committed", "settling"} => journal.state = "committed" /\ AllNew
  /\ pc[p] = "failed" => \A f \in Targeted : Touched(f)
  /\ pc[p] \in RestorePhase => journal.state # "committed"
  /\ pc[p] = "restoring" =>
       \A f \in Targeted : IF f \in todo[p] THEN Touched(f)
                                             ELSE disk[f] = journal.old[f]
  /\ pc[p] = "rolledback" => \A f \in Targeted : disk[f] = journal.old[f]

IInv == BaseInv /\ \A p \in Proc : PhaseInv(p)
===============================================================================
