------------------------- MODULE FileTransactionProofs -------------------------
(* Proofs about FileTransaction, for every project, request and number of processes. *)
EXTENDS FileTransaction, TLAPS

\* A partial function is a function on some set of files.
LEMMA PartialFunction ==
  ASSUME NEW S \in SUBSET File, NEW g \in [S -> Stored]
  PROVE  g \in Partial /\ DOMAIN g = S
BY DEF Partial

LEMMA PartialDomain ==
  ASSUME NEW g \in Partial
  PROVE  DOMAIN g \subseteq File /\ \A f \in DOMAIN g : g[f] \in Stored
BY DEF Partial

\* What a request asks for is well typed.
LEMMA RequestType ==
  ASSUME NEW e \in Edits \cup {NoRequest}
  PROVE  /\ Targets(e) \subseteq File
         /\ \A f \in DOMAIN e.write : e.write[f] \in Content
         /\ \A f \in DOMAIN e.append : e.append[f] \in Line
<1>1. CASE e \in Edits
  <2>1. e \in EditRequest
    BY <1>1, EditAssumption
  <2>2. PICK S \in SUBSET File : e.write \in [S -> Content]
    BY <2>1 DEF EditRequest
  <2>3. PICK T \in SUBSET File : e.append \in [T -> Line]
    BY <2>1 DEF EditRequest
  <2>4. QED
    BY <2>2, <2>3 DEF Targets
<1>2. CASE e = NoRequest
  BY <1>2 DEF NoRequest, Empty, Targets
<1>3. QED
  BY <1>1, <1>2

LEMMA NewContentsType ==
  ASSUME NEW e \in Edits \cup {NoRequest}, NEW d \in [File -> Stored]
  PROVE  /\ NewContents(e, d) \in Partial
         /\ DOMAIN NewContents(e, d) = Targets(e)
<1>1. Targets(e) \in SUBSET File
  BY RequestType
<1>2. ASSUME NEW f \in Targets(e), f \notin DOMAIN e.write
      PROVE  Extended(d[f], e.append[f]) \in Content
  <2>1. f \in DOMAIN e.append /\ d[f] \in Stored
    BY <1>1, <1>2 DEF Targets
  <2>2. QED
    BY <2>1, RequestType, EditAssumption
<1>3. NewContents(e, d) \in [Targets(e) -> Stored]
  BY <1>2, RequestType DEF NewContents, Stored
<1>4. QED
  BY <1>1, <1>3, PartialFunction DEF NewContents

\* The journal's record of the contents of S.
LEMMA SnapshotType ==
  ASSUME NEW g \in Partial, NEW d \in [File -> Stored]
  PROVE  /\ [f \in DOMAIN g |-> d[f]] \in Partial
         /\ DOMAIN [f \in DOMAIN g |-> d[f]] = DOMAIN g
<1>1. DOMAIN g \in SUBSET File
  BY PartialDomain
<1>2. [f \in DOMAIN g |-> d[f]] \in [DOMAIN g -> Stored]
  BY <1>1
<1>3. QED
  BY <1>1, <1>2, PartialFunction

LEMMA EmptyPartial == Empty \in Partial /\ DOMAIN Empty = {}
<1>1. Empty \in [{} -> Stored]
  BY DEF Empty
<1>2. QED
  BY <1>1, PartialFunction

-------------------------------------------------------------------------------
(* Types, lock and loops: BaseInv *)

LEMMA InitBaseInv == Init => BaseInv
<1> SUFFICES ASSUME Init
             PROVE  BaseInv
  OBVIOUS
<1>1. disk \in [File -> Stored]
  BY EditAssumption DEF Init
<1>2. journal \in [state : JournalState, old : Partial, new : Partial]
      /\ DOMAIN journal.old = DOMAIN journal.new
  BY EmptyPartial DEF Init, JournalState
<1>3. contents \in [Proc -> Partial]
  BY EmptyPartial DEF Init
<1>4. TypeOK
  BY <1>1, <1>2, <1>3 DEF Init, TypeOK
<1>5. LockInv /\ LoopInv
  BY ProcessAssumption DEF Init, LockInv, LoopInv
<1>6. QED
  BY <1>4, <1>5 DEF BaseInv

\* While one process is in a call, every other is idle.
LEMMA OthersIdle ==
  ASSUME LockInv, NEW p \in Proc, pc[p] # "idle"
  PROVE  lock = p /\ \A q \in Proc : q # p => pc[q] = "idle"
BY DEF LockInv

LEMMA ReturnBaseInv ==
  ASSUME BaseInv, NEW p \in Proc, pc[p] # "idle", Return(p),
         UNCHANGED journal
  PROVE  /\ lock' \in Proc \cup {NoProc}
         /\ pc' = [q \in Proc |-> "idle"]
         /\ pc' \in [Proc -> {"idle"} \cup CommitPhase \cup RestorePhase \cup RecoverPhase]
         /\ request' \in [Proc -> Edits \cup {NoRequest}]
         /\ contents' \in [Proc -> Partial]
         /\ todo' \in [Proc -> SUBSET File]
         /\ LockInv' /\ LoopInv'
<1>1. pc' = [q \in Proc |-> "idle"]
  BY OthersIdle DEF BaseInv, TypeOK, Return
<1>2. LockInv' /\ LoopInv'
  BY <1>1, ProcessAssumption DEF Return, LockInv, LoopInv
<1>3. /\ pc' \in [Proc -> {"idle"} \cup CommitPhase \cup RestorePhase \cup RecoverPhase]
      /\ request' \in [Proc -> Edits \cup {NoRequest}]
      /\ contents' \in [Proc -> Partial]
      /\ todo' \in [Proc -> SUBSET File]
      /\ lock' \in Proc \cup {NoProc}
  BY <1>1, EmptyPartial DEF BaseInv, TypeOK, Return
<1>4. QED
  BY <1>1, <1>2, <1>3

LEMMA StepBaseInv ==
  ASSUME BaseInv, NEW p \in Proc, Step(p)
  PROVE  BaseInv'
<1> USE DEF CommitPhase, RestorePhase, RecoverPhase
<1>0. TypeOK /\ LockInv /\ LoopInv
  BY DEF BaseInv
<1>1. CASE Validate(p)
  <2>1. NewContents(request[p], disk) \in Partial
    BY <1>0, NewContentsType DEF TypeOK
  <2>2. TypeOK'
    BY <1>0, <1>1, <2>1 DEF TypeOK, Validate, Goto
  <2>3. LockInv' /\ LoopInv'
    BY <1>0, <1>1 DEF TypeOK, Validate, Goto, LockInv, LoopInv, Targeted
  <2>4. QED
    BY <2>2, <2>3 DEF BaseInv
<1>2. CASE Refuse(p) \/ Acknowledge(p) \/ RefuseRestore(p) \/ Settle(p) \/ EndRecover(p)
  <2>1. /\ pc[p] # "idle" /\ Return(p)
        /\ UNCHANGED << disk, journal, damaged >>
        /\ marker' \in BOOLEAN
    BY <1>0, <1>2 DEF TypeOK, Refuse, Acknowledge, RefuseRestore, Settle, EndRecover
  <2>2. QED
    BY <1>0, <2>1, ReturnBaseInv DEF BaseInv, TypeOK
<1>3. CASE Prepare(p)
  <2>1. contents[p] \in Partial
    BY <1>0 DEF TypeOK
  <2>2. /\ [f \in DOMAIN contents[p] |-> disk[f]] \in Partial
        /\ DOMAIN [f \in DOMAIN contents[p] |-> disk[f]] = DOMAIN contents[p]
    BY <1>0, <2>1, SnapshotType DEF TypeOK
  <2>3. journal' \in [state : JournalState, old : Partial, new : Partial]
        /\ DOMAIN journal'.old = DOMAIN journal'.new
    BY <1>3, <2>1, <2>2 DEF Prepare, JournalState
  <2>4. TypeOK'
    BY <1>0, <1>3, <2>3 DEF TypeOK, Prepare, Goto, locals
  <2>5. LockInv' /\ LoopInv'
    BY <1>0, <1>3, OthersIdle DEF TypeOK, Prepare, Goto, LockInv, LoopInv
  <2>6. QED
    BY <2>4, <2>5 DEF BaseInv
<1>4. CASE Publish(p) \/ CheckRestore(p)
  <2>1. Targeted \subseteq File
    BY <1>0, PartialDomain DEF TypeOK, Targeted
  <2>2. TypeOK'
    BY <1>0, <1>4, <2>1 DEF TypeOK, Publish, CheckRestore, Goto
  <2>3. Targeted' = Targeted
    BY <1>4 DEF Publish, CheckRestore, Targeted
  <2>4. LockInv' /\ LoopInv'
    BY <1>0, <1>4, <2>3 DEF TypeOK, Publish, CheckRestore, Goto, LockInv, LoopInv
  <2>5. QED
    BY <2>2, <2>4 DEF BaseInv
<1>5. ASSUME NEW f \in File, Apply(p, f) \/ Restore(p, f)
      PROVE  BaseInv'
  <2>1. f \in Targeted
    BY <1>0, <1>5 DEF Apply, Restore, Replace, LoopInv
  <2>2. journal.new[f] \in Stored /\ journal.old[f] \in Stored
    BY <1>0, <2>1, PartialDomain DEF TypeOK, Targeted
  <2>3. TypeOK'
    BY <1>0, <1>5, <2>2 DEF TypeOK, Apply, Restore, Replace
  <2>4. LockInv' /\ LoopInv'
    BY <1>0, <1>5 DEF TypeOK, Apply, Restore, Replace, LockInv, LoopInv, Targeted
  <2>5. QED
    BY <2>3, <2>4 DEF BaseInv
<1>6. CASE JournalCommit(p) \/ JournalRollingBack(p) \/ JournalRolledBack(p)
  <2>1. TypeOK'
    BY <1>0, <1>6 DEF TypeOK, JournalCommit, JournalRollingBack, JournalRolledBack, Goto,
                      locals, JournalState
  <2>2. Targeted' = Targeted
    BY <1>0, <1>6 DEF TypeOK, JournalCommit, JournalRollingBack, JournalRolledBack, Targeted
  <2>3. LockInv' /\ LoopInv'
    BY <1>0, <1>6, <2>2 DEF TypeOK, JournalCommit, JournalRollingBack, JournalRolledBack,
                            Goto, locals, LockInv, LoopInv
  <2>4. QED
    BY <2>1, <2>3 DEF BaseInv
<1>7. CASE VerifyCommitted(p) \/ BeginRestore(p)
  BY <1>0, <1>7 DEF BaseInv, TypeOK, VerifyCommitted, BeginRestore, Goto, locals, LockInv,
                    LoopInv, Targeted
<1>8. QED
  BY <1>1, <1>2, <1>3, <1>4, <1>5, <1>6, <1>7 DEF Step

LEMMA NextBaseInv == BaseInv /\ [Next]_vars => BaseInv'
<1> SUFFICES ASSUME BaseInv, [Next]_vars
             PROVE  BaseInv'
  OBVIOUS
<1> USE DEF CommitPhase, RestorePhase, RecoverPhase
<1>0. TypeOK /\ LockInv /\ LoopInv
  BY DEF BaseInv
<1>1. ASSUME NEW p \in Proc, Step(p)
      PROVE  BaseInv'
  BY <1>1, StepBaseInv
<1>2. ASSUME NEW p \in Proc, BeginRecover(p) \/ \E e \in Edits : BeginEdit(p, e)
      PROVE  BaseInv'
  <2>1. TypeOK'
    BY <1>0, <1>2 DEF TypeOK, BeginRecover, BeginEdit, Acquire, locals
  <2>2. LockInv' /\ LoopInv'
    BY <1>0, <1>2, ProcessAssumption
    DEF TypeOK, BeginRecover, BeginEdit, Acquire, locals, LockInv, LoopInv, Targeted
  <2>3. QED
    BY <2>1, <2>2 DEF BaseInv
<1>3. CASE Fault
  <2>1. ASSUME NEW p \in Proc, Fail(p)
        PROVE  BaseInv'
    BY <1>0, <2>1 DEF BaseInv, TypeOK, Fail, Goto, LockInv, LoopInv, Targeted
  <2>2. ASSUME NEW p \in Proc, Abandon(p)
        PROVE  BaseInv'
    BY <1>0, <2>2, ReturnBaseInv DEF BaseInv, TypeOK, Abandon
  <2>3. ASSUME NEW f \in File, ExternalEdit(f)
        PROVE  BaseInv'
    BY <1>0, <2>3, ProcessAssumption
    DEF BaseInv, TypeOK, ExternalEdit, locals, LockInv, LoopInv, Targeted
  <2>4. ASSUME NEW f \in File, LosePayload(f)
        PROVE  BaseInv'
    BY <1>0, <2>4 DEF BaseInv, TypeOK, LosePayload, locals, LockInv, LoopInv, Targeted
  <2>5. QED
    BY <1>3, <2>1, <2>2, <2>3, <2>4 DEF Fault
<1>4. CASE UNCHANGED vars
  BY <1>0, <1>4 DEF BaseInv, TypeOK, vars, LockInv, LoopInv, Targeted
<1>5. QED
  BY <1>1, <1>2, <1>3, <1>4 DEF Next

\* The variables keep their types, at most one process is in a call, and a loop
\* over the targets never meets a file the journal does not name.
THEOREM BaseCorrect == Spec => []BaseInv
<1>1. QED
  BY InitBaseInv, NextBaseInv, PTL DEF Spec

\* Files, journal, lock and locals keep their types, whoever writes when.
THEOREM TypeCorrect == Spec => []TypeOK
<1>1. BaseInv => TypeOK
  BY DEF BaseInv
<1>2. QED
  BY <1>1, BaseCorrect, PTL

-------------------------------------------------------------------------------
(* What a call knows of the targets: IInv, when other programs keep out *)

\* Nothing is known, nor need be, of a process that is in no call.
LEMMA IdlePhase ==
  ASSUME NEW p \in Proc, pc[p] = "idle"
  PROVE  PhaseInv(p)
BY DEF PhaseInv, RestorePhase

LEMMA InitIInv == Init => IInv
<1> SUFFICES ASSUME Init
             PROVE  IInv
  OBVIOUS
<1>1. \A p \in Proc : PhaseInv(p)
  BY IdlePhase DEF Init
<1>2. QED
  BY <1>1, InitBaseInv DEF IInv

\* A step of p that leaves p's phase invariant true leaves the others' so.
LEMMA OnePhase ==
  ASSUME BaseInv', NEW p \in Proc, lock' = p, PhaseInv(p)'
  PROVE  \A q \in Proc : PhaseInv(q)'
<1> SUFFICES ASSUME NEW q \in Proc, q # p
             PROVE  PhaseInv(q)'
  OBVIOUS
<1>1. pc'[q] = "idle"
  BY DEF BaseInv, LockInv
<1>2. QED
  BY <1>1 DEF PhaseInv, RestorePhase

LEMMA ReturnPhase ==
  ASSUME \A q \in Proc : pc'[q] = "idle"
  PROVE  \A q \in Proc : PhaseInv(q)'
BY DEF PhaseInv, RestorePhase

LEMMA StepIInv ==
  ASSUME IInv, NEW p \in Proc, Step(p)
  PROVE  \A q \in Proc : PhaseInv(q)'
<1> USE DEF RestorePhase
<1>0. BaseInv /\ TypeOK /\ LockInv /\ LoopInv /\ PhaseInv(p) /\ BaseInv'
  BY StepBaseInv DEF IInv, BaseInv
<1>1. CASE Validate(p)
  <2>1. PhaseInv(p)'
    BY <1>0, <1>1 DEF TypeOK, Validate, Goto, PhaseInv, Validated
  <2>2. QED
    BY <1>0, <1>1, <2>1, OnePhase, OthersIdle DEF Validate, Goto
<1>2. CASE Refuse(p) \/ Acknowledge(p) \/ RefuseRestore(p) \/ Settle(p) \/ EndRecover(p)
  <2>1. pc[p] # "idle" /\ Return(p) /\ UNCHANGED journal
    BY <1>2 DEF Refuse, Acknowledge, RefuseRestore, Settle, EndRecover
  <2>2. QED
    BY <1>0, <2>1, ReturnBaseInv, ReturnPhase
<1>3. CASE Prepare(p)
  <2>1. Validated(p)
    BY <1>0, <1>3 DEF Prepare, Goto, PhaseInv
  <2>2. DOMAIN contents[p] = Targets(request[p])
    BY <1>0, <2>1, NewContentsType DEF Validated, TypeOK
  <2>3. PhaseInv(p)'
    BY <1>0, <1>3, <2>1, <2>2 DEF TypeOK, Prepare, Goto, locals, PhaseInv, Validated
  <2>4. QED
    BY <1>0, <1>3, <2>3, OnePhase, OthersIdle DEF Prepare, Goto
<1>4. CASE Publish(p)
  <2>1. /\ journal.state = "prepared"
        /\ \A f \in Targeted : disk[f] = journal.old[f]
    BY <1>0, <1>4 DEF Publish, Goto, PhaseInv, Targeted
  <2>2. PhaseInv(p)'
    BY <1>0, <1>4, <2>1 DEF TypeOK, Publish, Goto, PhaseInv, Targeted
  <2>3. QED
    BY <1>0, <1>4, <2>2, OnePhase, OthersIdle DEF Publish, Goto
<1>5. ASSUME NEW f \in File, Apply(p, f)
      PROVE  \A q \in Proc : PhaseInv(q)'
  <2>1. PhaseInv(p)'
    BY <1>0, <1>5 DEF TypeOK, Apply, Replace, PhaseInv, Targeted
  <2>2. QED
    BY <1>0, <1>5, <2>1, OnePhase, OthersIdle DEF Apply
<1>6. CASE JournalCommit(p)
  <2>1. \A f \in Targeted : disk[f] = journal.new[f]
    BY <1>0, <1>6 DEF JournalCommit, Goto, PhaseInv
  <2>2. PhaseInv(p)'
    BY <1>0, <1>6, <2>1 DEF TypeOK, JournalCommit, Goto, locals, PhaseInv, AllNew, Targeted
  <2>3. QED
    BY <1>0, <1>6, <2>2, OnePhase, OthersIdle DEF JournalCommit, Goto
<1>7. CASE JournalRollingBack(p)
  <2>1. PhaseInv(p)'
    BY <1>0, <1>7 DEF TypeOK, JournalRollingBack, Goto, locals, PhaseInv
  <2>2. QED
    BY <1>0, <1>7, <2>1, OnePhase, OthersIdle DEF JournalRollingBack, Goto
<1>8. CASE CheckRestore(p)
  <2>1. PhaseInv(p)'
    BY <1>0, <1>8 DEF TypeOK, CheckRestore, Restorable, Goto, PhaseInv, Touched, Targeted
  <2>2. QED
    BY <1>0, <1>8, <2>1, OnePhase, OthersIdle DEF CheckRestore, Goto
<1>9. ASSUME NEW f \in File, Restore(p, f)
      PROVE  \A q \in Proc : PhaseInv(q)'
  <2>1. PhaseInv(p)'
    BY <1>0, <1>9 DEF TypeOK, Restore, Replace, PhaseInv, Touched, Targeted
  <2>2. QED
    BY <1>0, <1>9, <2>1, OnePhase, OthersIdle DEF Restore
<1>10. CASE JournalRolledBack(p)
  <2>1. \A f \in Targeted : disk[f] = journal.old[f]
    BY <1>0, <1>10 DEF JournalRolledBack, Goto, PhaseInv
  <2>2. PhaseInv(p)'
    BY <1>0, <1>10, <2>1 DEF TypeOK, JournalRolledBack, Goto, locals, PhaseInv, Targeted
  <2>3. QED
    BY <1>0, <1>10, <2>2, OnePhase, OthersIdle DEF JournalRolledBack, Goto
<1>11. CASE VerifyCommitted(p) \/ BeginRestore(p)
  <2>1. PhaseInv(p)'
    BY <1>0, <1>11 DEF TypeOK, VerifyCommitted, BeginRestore, Goto, locals, PhaseInv, AllNew,
                       Targeted
  <2>2. QED
    BY <1>0, <1>11, <2>1, OnePhase, OthersIdle DEF VerifyCommitted, BeginRestore, Goto
<1>12. QED
  BY <1>1, <1>2, <1>3, <1>4, <1>5, <1>6, <1>7, <1>8, <1>9, <1>10, <1>11 DEF Step

LEMMA NextIInv ==
  ASSUME ~ExternalWhileLocked, IInv, [Next]_vars
  PROVE  IInv'
<1> USE DEF RestorePhase
<1>0. BaseInv /\ TypeOK /\ LockInv /\ BaseInv' /\ \A p \in Proc : PhaseInv(p)
  BY NextBaseInv DEF IInv, BaseInv
<1> SUFFICES \A q \in Proc : PhaseInv(q)'
  BY <1>0 DEF IInv
<1>1. ASSUME NEW p \in Proc, Step(p)
      PROVE  \A q \in Proc : PhaseInv(q)'
  BY <1>1, StepIInv
<1>2. ASSUME NEW p \in Proc, BeginRecover(p) \/ \E e \in Edits : BeginEdit(p, e)
      PROVE  \A q \in Proc : PhaseInv(q)'
  <2>1. PhaseInv(p)'
    BY <1>0, <1>2 DEF TypeOK, BeginRecover, BeginEdit, Acquire, PhaseInv
  <2>2. QED
    BY <1>0, <1>2, <2>1, OnePhase DEF BeginRecover, BeginEdit, Acquire
<1>3. CASE Fault
  <2>1. ASSUME NEW p \in Proc, Fail(p)
        PROVE  \A q \in Proc : PhaseInv(q)'
    <3>1. \A f \in Targeted : Touched(f)
      BY <1>0, <2>1 DEF Fail, Goto, PhaseInv, Touched, AllNew
    <3>2. PhaseInv(p)'
      BY <1>0, <2>1, <3>1 DEF TypeOK, Fail, Goto, PhaseInv, Touched, Targeted
    <3>3. QED
      BY <1>0, <2>1, <3>2, OnePhase, OthersIdle DEF Fail, Goto
  <2>2. ASSUME NEW p \in Proc, Abandon(p)
        PROVE  \A q \in Proc : PhaseInv(q)'
    BY <1>0, <2>2, ReturnBaseInv, ReturnPhase DEF Abandon
  <2>3. ASSUME NEW f \in File, ExternalEdit(f)
        PROVE  \A q \in Proc : PhaseInv(q)'
    <3>1. lock = NoProc /\ UNCHANGED pc
      BY <2>3 DEF ExternalEdit
    <3>2. \A q \in Proc : pc'[q] = "idle"
      BY <1>0, <3>1, ProcessAssumption DEF LockInv
    <3>3. QED
      BY <3>2, ReturnPhase
  <2>4. ASSUME NEW f \in File, LosePayload(f)
        PROVE  \A q \in Proc : PhaseInv(q)'
    BY <1>0, <2>4 DEF LosePayload, locals, PhaseInv, Validated, AllNew, Touched, Targeted
  <2>5. QED
    BY <1>3, <2>1, <2>2, <2>3, <2>4 DEF Fault
<1>4. CASE UNCHANGED vars
  BY <1>0, <1>4 DEF vars, PhaseInv, Validated, AllNew, Touched, Targeted
<1>5. QED
  BY <1>1, <1>2, <1>3, <1>4 DEF Next

\* While other programs keep out of a locked call, the call knows at each place
\* which of its targets hold the old content and which the new: a rollback or a
\* recovery that starts there finds what it needs.
THEOREM PhasesCorrect == ASSUME ~ExternalWhileLocked PROVE Spec => []IInv
<1>1. IInv /\ [Next]_vars => IInv'
  BY NextIInv
<1>2. QED
  BY <1>1, InitIInv, PTL DEF Spec

-------------------------------------------------------------------------------
(* What a step of a call does, from what the call knows *)

\* Only the two loops write files, each the file it takes off its list.
LEMMA Overwrites ==
  ASSUME IInv, [Next]_vars, NEW p \in Proc, NEW f \in File,
         f \in todo[p] \ todo'[p], disk'[f] # disk[f]
  PROVE  Touched(f)
<1>0. /\ disk \in [File -> Stored] /\ todo \in [Proc -> SUBSET File]
      /\ \A q \in Proc : PhaseInv(q)
      /\ \A q \in Proc : pc[q] \in {"applying", "restoring"} => todo[q] \subseteq Targeted
  BY DEF IInv, BaseInv, TypeOK, LoopInv
<1>1. ASSUME NEW q \in Proc, NEW g \in File, Apply(q, g) \/ Restore(q, g)
      PROVE  Touched(f)
  <2>1. g \in todo[q] /\ pc[q] \in {"applying", "restoring"}
    BY <1>1 DEF Apply, Restore, Replace
  <2>2. f = g
    BY <1>0, <1>1 DEF Apply, Restore, Replace
  <2>3. f \in Targeted
    BY <1>0, <2>1, <2>2
  <2>4. QED
    BY <1>0, <2>1, <2>2, <2>3 DEF PhaseInv, Touched
<1>2. ASSUME NEW q \in Proc, Step(q)
      PROVE  Touched(f)
  <2>1. CASE \E g \in File : Apply(q, g) \/ Restore(q, g)
    BY <1>1, <2>1
  <2>2. CASE disk' = disk
    BY <2>2
  <2>3. QED
    BY <1>2, <2>1, <2>2
    DEF Step, Validate, Refuse, Prepare, Publish, JournalCommit, Acknowledge,
        JournalRollingBack, CheckRestore, RefuseRestore, JournalRolledBack, Settle,
        VerifyCommitted, BeginRestore, EndRecover
<1>3. CASE todo' = todo \/ disk' = disk
  BY <1>3
<1>4. QED
  BY <1>2, <1>3 DEF Next, Fault, BeginRecover, BeginEdit, Fail, Abandon, ExternalEdit,
                    LosePayload, locals, vars

\* While other programs keep out of a locked call, a commit or a restore overwrites
\* only what the transaction retained or installed.
THEOREM ForeignKept == ASSUME ~ExternalWhileLocked PROVE Spec => NoForeignOverwrite
<1>1. IInv /\ [Next]_vars =>
        [\A p \in Proc, f \in File :
           f \in todo[p] \ todo'[p] /\ disk'[f] # disk[f]
             => disk[f] \in {journal.old[f], journal.new[f]}]_vars
  BY Overwrites DEF Touched
<1>2. IInv /\ [Next]_vars => IInv'
  BY NextIInv
<1>3. QED
  BY <1>1, <1>2, InitIInv, PTL DEF Spec, NoForeignOverwrite

\* Only its own call, when its acknowledgement fails, takes a journaled commit back.
LEMMA CommitStays ==
  ASSUME IInv, [Next]_vars, marker, journal.state = "committed",
         \A p \in Proc : pc[p] \notin {"committed", "failed"}
  PROVE  journal'.state \notin {"rolling_back", "rolled_back"}
<1>1. ASSUME NEW p \in Proc, Step(p)
      PROVE  journal'.state \notin {"rolling_back", "rolled_back"}
  <2>1. ~JournalRollingBack(p)
    BY DEF JournalRollingBack, Goto
  <2>2. ~JournalRolledBack(p)
    BY DEF JournalRolledBack, Goto, IInv, PhaseInv, RestorePhase
  <2>3. CASE Prepare(p)
    BY <2>3 DEF Prepare
  <2>4. CASE JournalCommit(p)
    BY <2>4 DEF JournalCommit, IInv, BaseInv, TypeOK
  <2>5. CASE journal' = journal
    BY <2>5
  <2>6. QED
    BY <1>1, <2>1, <2>2, <2>3, <2>4, <2>5
    DEF Step, Validate, Refuse, Publish, Apply, Restore, Acknowledge, CheckRestore,
        RefuseRestore, Settle, VerifyCommitted, BeginRestore, EndRecover
<1>2. CASE journal' = journal
  BY <1>2
<1>3. QED
  BY <1>1, <1>2 DEF Next, Fault, BeginRecover, BeginEdit, Fail, Abandon, ExternalEdit,
                    LosePayload, vars

\* While other programs keep out of a locked call, an edit that was journaled
\* committed before its process died is completed by a recovery, never undone.
THEOREM CommitKept == ASSUME ~ExternalWhileLocked PROVE Spec => CommittedEditKept
<1>1. IInv /\ [Next]_vars =>
        [marker /\ journal.state = "committed"
         /\ (\A p \in Proc : pc[p] \notin {"committed", "failed"})
           => journal'.state \notin {"rolling_back", "rolled_back"}]_vars
  BY CommitStays
<1>2. IInv /\ [Next]_vars => IInv'
  BY NextIInv
<1>3. QED
  BY <1>1, <1>2, InitIInv, PTL DEF Spec, CommittedEditKept

-------------------------------------------------------------------------------
(* FileTransaction implements AtomicEdit: proof of the refinement *)

\* Without a marker the files are the project.
LEMMA UnmarkedProject ==
  ASSUME TypeOK, ~marker
  PROVE  Project = disk /\ Pending = {}
BY DEF TypeOK, Project, Pending

\* With a marker a target counts as its old content while nobody else changed it.
LEMMA MarkedProject ==
  ASSUME TypeOK, marker
  PROVE  /\ Project \in [File -> Stored]
         /\ \A f \in Targeted : Touched(f) => Project[f] = journal.old[f]
         /\ \A f \in File \ Targeted : Project[f] = disk[f]
         /\ Pending = {[base |-> journal.old, new |-> journal.new]}
<1>1. \A f \in Targeted : f \in File /\ journal.old[f] \in Stored
  BY PartialDomain DEF TypeOK, Targeted
<1>2. QED
  BY <1>1 DEF TypeOK, Project, Pending, Touched

LEMMA InitRefines == Init => Abstract!AInit
<1> SUFFICES ASSUME Init
             PROVE  Abstract!AInit
  OBVIOUS
<1>1. TypeOK /\ ~marker
  BY InitBaseInv DEF Init, BaseInv
<1>2. QED
  BY <1>1, UnmarkedProject DEF Init, Abstract!AInit

\* Steps that change neither files, journal contents nor marker are not seen.
LEMMA Unseen ==
  ASSUME UNCHANGED << disk, marker, journal.old, journal.new >>
  PROVE  UNCHANGED Abstract!avars
BY DEF Abstract!avars, Project, Pending, Targeted

\* A replacement of a target by its old or its new content is not seen.
LEMMA UnseenReplace ==
  ASSUME TypeOK, TypeOK', marker, NEW f \in Targeted, Touched(f), Touched(f)',
         UNCHANGED << marker, journal >>,
         \A g \in File : g # f => disk'[g] = disk[g]
  PROVE  UNCHANGED Abstract!avars
<1>1. f \in File /\ Targeted' = Targeted
  BY PartialDomain DEF TypeOK, Targeted
<1>2. \A g \in File : Project'[g] = Project[g]
  BY <1>1 DEF Project, Touched
<1>3. Project' = Project
  BY <1>2 DEF Project
<1>4. QED
  BY <1>3 DEF Abstract!avars, Pending

\* Publishing the marker begins the edit.
LEMMA PublishBegins ==
  ASSUME IInv, IInv', NEW p \in Proc, Publish(p)
  PROVE  \E e \in Edits : Abstract!Begin(e)
<1> DEFINE e == request[p]
<1>1. /\ TypeOK /\ TypeOK' /\ ~marker /\ marker'
      /\ e \in Edits /\ Admissible(e, disk)
      /\ journal.new = NewContents(e, disk)
      /\ journal.old = [f \in Targets(e) |-> disk[f]]
      /\ UNCHANGED << disk, journal >>
  BY DEF IInv, BaseInv, PhaseInv, Validated, Publish, Goto
<1>2. Project = disk /\ Pending = {}
  BY <1>1, UnmarkedProject
<1>3. /\ Pending' = {[base |-> journal.old, new |-> journal.new]}
      /\ Project' = disk
  <2>1. \A f \in Targeted' : f \in File /\ journal'.old[f] = disk'[f]
    BY <1>1, RequestType DEF Targeted
  <2>2. QED
    BY <1>1, <2>1 DEF Pending, Project, TypeOK
<1>4. Abstract!Admissible(e, Project)
  BY <1>1, <1>2 DEF Admissible, Abstract!Admissible, Targets, Abstract!Targets
<1>5. Pending' = {[base |-> [f \in Abstract!Targets(e) |-> Project[f]],
                   new |-> Abstract!NewContents(e, Project)]}
  BY <1>1, <1>2, <1>3 DEF Targets, Abstract!Targets, NewContents, Abstract!NewContents
<1>6. Abstract!Begin(e)
  BY <1>2, <1>3, <1>4, <1>5 DEF Abstract!Begin
<1>7. QED
  BY <1>1, <1>6

\* Removing the marker settles the edit: with the new contents if it was journaled
\* "committed", without effect if it was rolled back.
LEMMA UnmarkSettles ==
  ASSUME IInv, IInv', NEW p \in Proc, Acknowledge(p) \/ Settle(p)
  PROVE  \E t \in Pending : Abstract!Commit(t) \/ Abstract!Abort(t)
<1> DEFINE t == [base |-> journal.old, new |-> journal.new]
<1>1. TypeOK /\ TypeOK' /\ marker /\ ~marker' /\ UNCHANGED << disk, journal >>
  BY DEF IInv, BaseInv, PhaseInv, Acknowledge, Settle, RestorePhase
<1>2. \/ \A f \in Targeted : disk[f] = journal.new[f]
      \/ \A f \in Targeted : disk[f] = journal.old[f]
  BY DEF IInv, PhaseInv, Acknowledge, Settle, AllNew
<1>3. \A f \in Targeted : f \in File /\ Project[f] = journal.old[f]
  BY <1>1, <1>2, MarkedProject, PartialDomain DEF Touched, TypeOK, Targeted
<1>4. t \in Pending /\ Project' = disk /\ Pending' = {}
  BY <1>1, MarkedProject, UnmarkedProject DEF TypeOK, Project, Pending
<1>5. Abstract!Undisturbed(t)
  BY <1>3 DEF Abstract!Undisturbed, Targeted
<1>6. CASE \A f \in Targeted : disk[f] = journal.new[f]
  <2>1. \A f \in File : disk[f] = IF f \in Targeted THEN journal.new[f] ELSE Project[f]
    BY <1>1, <1>6, MarkedProject
  <2>2. Targeted = DOMAIN journal.new
    BY <1>1 DEF TypeOK, Targeted
  <2>3. disk = Abstract!Overlay(Project, t.new)
    BY <1>1, <2>1, <2>2 DEF TypeOK, Abstract!Overlay
  <2>4. Abstract!Commit(t)
    BY <1>4, <1>5, <2>3 DEF Abstract!Commit
  <2>5. QED
    BY <1>4, <2>4
<1>7. CASE \A f \in Targeted : disk[f] = journal.old[f]
  <2>1. \A f \in File : disk[f] = Project[f]
    BY <1>1, <1>3, <1>7, MarkedProject
  <2>2. Project' = Project
    BY <1>1, <1>4, <2>1, MarkedProject DEF TypeOK
  <2>3. Abstract!Abort(t)
    BY <1>4, <1>5, <2>2 DEF Abstract!Abort
  <2>4. QED
    BY <1>4, <2>3
<1>8. QED
  BY <1>2, <1>6, <1>7

\* An external edit of a file is one of the project, or hidden by the marker.
LEMMA ExternalRefines ==
  ASSUME TypeOK, TypeOK', NEW f \in File, ExternalEdit(f)
  PROVE  Abstract!External(f) \/ UNCHANGED Abstract!avars
<1>1. UNCHANGED << marker, journal >> /\ \A g \in File : g # f => disk'[g] = disk[g]
  BY DEF ExternalEdit, TypeOK
<1>2. Targeted' = Targeted /\ Pending' = Pending
  BY <1>1 DEF Targeted, Pending
<1>3. Project \in [File -> Stored] /\ Project' \in [File -> Stored]
  <2>1. \A g \in Targeted : journal.old[g] \in Stored
    BY PartialDomain DEF TypeOK, Targeted
  <2>2. QED
    BY <1>1, <1>2, <2>1 DEF TypeOK, Project
<1>4. \A g \in File : g # f => Project'[g] = Project[g]
  BY <1>1, <1>2 DEF Project
<1>5. Project' = [Project EXCEPT ![f] = Project'[f]] /\ Project'[f] \in Stored
  BY <1>3, <1>4
<1>6. Abstract!External(f)
  BY <1>2, <1>5 DEF Abstract!External, Abstract!Stored, Stored
<1>7. QED
  BY <1>6

LEMMA StepRefines ==
  ASSUME IInv, IInv', NEW p \in Proc, Step(p)
  PROVE  Abstract!ANext \/ UNCHANGED Abstract!avars
<1>0. TypeOK /\ TypeOK' /\ LoopInv /\ PhaseInv(p) /\ PhaseInv(p)'
  BY DEF IInv, BaseInv
<1>1. CASE \/ Validate(p) \/ Refuse(p) \/ JournalCommit(p) \/ JournalRollingBack(p)
           \/ CheckRestore(p) \/ RefuseRestore(p) \/ JournalRolledBack(p)
           \/ VerifyCommitted(p) \/ BeginRestore(p) \/ EndRecover(p)
  <2>1. UNCHANGED << disk, marker, journal.old, journal.new >>
    BY <1>0, <1>1 DEF TypeOK, Validate, Refuse, JournalCommit, JournalRollingBack, CheckRestore,
                      RefuseRestore, JournalRolledBack, VerifyCommitted, BeginRestore, EndRecover
  <2>2. QED
    BY <2>1, Unseen
<1>2. CASE Prepare(p)
  <2>1. ~marker /\ ~marker' /\ UNCHANGED disk
    BY <1>0, <1>2 DEF Prepare, Goto, PhaseInv, Validated
  <2>2. QED
    BY <1>0, <2>1, UnmarkedProject DEF Abstract!avars, Project, Pending, TypeOK
<1>3. CASE Publish(p)
  BY <1>3, PublishBegins DEF Abstract!ANext
<1>4. ASSUME NEW f \in File, Apply(p, f) \/ Restore(p, f)
      PROVE  UNCHANGED Abstract!avars
  <2>1. /\ f \in Targeted /\ marker /\ Touched(f)
        /\ UNCHANGED << marker, journal >>
    BY <1>0, <1>4 DEF Apply, Restore, Replace, LoopInv, PhaseInv, Touched, RestorePhase
  <2>2. Touched(f)'
    BY <1>0, <1>4 DEF TypeOK, Apply, Restore, Replace, Touched
  <2>3. \A g \in File : g # f => disk'[g] = disk[g]
    BY <1>0, <1>4 DEF TypeOK, Apply, Restore, Replace
  <2>4. QED
    BY <1>0, <2>1, <2>2, <2>3, UnseenReplace
<1>5. CASE Acknowledge(p) \/ Settle(p)
  BY <1>5, UnmarkSettles DEF Abstract!ANext
<1>6. QED
  BY <1>1, <1>2, <1>3, <1>4, <1>5 DEF Step

LEMMA NextRefines ==
  ASSUME IInv, IInv', [Next]_vars
  PROVE  [Abstract!ANext]_(Abstract!avars)
<1>0. TypeOK /\ TypeOK'
  BY DEF IInv, BaseInv
<1>1. ASSUME NEW p \in Proc, Step(p)
      PROVE  [Abstract!ANext]_(Abstract!avars)
  BY <1>1, StepRefines
<1>2. ASSUME NEW p \in Proc,
             BeginRecover(p) \/ (\E e \in Edits : BeginEdit(p, e)) \/ Fail(p) \/ Abandon(p)
      PROVE  [Abstract!ANext]_(Abstract!avars)
  BY <1>2, Unseen DEF BeginRecover, BeginEdit, Fail, Abandon
<1>3. ASSUME NEW f \in File, ExternalEdit(f)
      PROVE  [Abstract!ANext]_(Abstract!avars)
  BY <1>0, <1>3, ExternalRefines DEF Abstract!ANext
<1>4. ASSUME NEW f \in File, LosePayload(f)
      PROVE  [Abstract!ANext]_(Abstract!avars)
  BY <1>4, Unseen DEF LosePayload
<1>5. CASE UNCHANGED vars
  BY <1>5, Unseen DEF vars
<1>6. QED
  BY <1>1, <1>2, <1>3, <1>4, <1>5 DEF Next, Fault

\* While other programs keep out of a locked call, commit_project_files and
\* recover_project_files make an edit all-or-nothing, across failures and crashes.
THEOREM Atomicity == ASSUME ~ExternalWhileLocked PROVE Spec => EditsAreAtomic
<1>1. Init => Abstract!AInit
  BY InitRefines
<1>2. IInv /\ IInv' /\ [Next]_vars => [Abstract!ANext]_(Abstract!avars)
  BY NextRefines
<1>3. Spec => []IInv
  BY PhasesCorrect
<1>4. QED
  BY <1>1, <1>2, <1>3, PTL DEF Spec, EditsAreAtomic, Abstract!ASpec
================================================================================
