---------------------------- MODULE ProjectSnapshot ----------------------------
(***************************************************************************)
(* A reader of many files beside the editors of FileTransaction:           *)
(* retain_native_project (kicad/project_dependencies.py), which copies the *)
(* native files a board depends on, and _copy_context (board_revision.py), *)
(* which calls it and then checks what it copied. Neither takes the        *)
(* project lock; a copy is kept only if every file still holds, on a       *)
(* second reading, what was copied.                                        *)
(***************************************************************************)
EXTENDS FileTransaction

\* What a reader may copy: the native closure, with the ledger of accepted edits
\* that belongs to it only where it exists, and extra_files
CONSTANT Copies

ASSUME SnapshotAssumption ==
  Copies \subseteq [closure : SUBSET File, ifExists : SUBSET File, extra : SUBSET File]

VARIABLES
  rpc,      \* where the reader is
  copy,     \* what it copies
  seen,     \* the payloads it has read so far
  left,     \* files the running loop has not reached
  views,    \* history: the projects readers could rely on since it started
  reverted  \* history: has a file been put back that it had read otherwise?

reader == << rpc, copy, seen, left >>
svars  == << vars, reader, views, reverted >>

Nothing == [closure |-> {}, ifExists |-> {}, extra |-> {}]

Pass == {"collecting", "rereading", "extras", "rehashing"}

STypeOK ==
  /\ rpc \in {"idle", "complete", "retained", "recheck", "returned"} \cup Pass
  /\ copy \in Copies \cup {Nothing}
  /\ seen \in Partial /\ DOMAIN seen \subseteq copy.closure \cup copy.ifExists \cup copy.extra
  /\ left \subseteq File
  /\ views \subseteq [File -> Stored]
  /\ reverted \in BOOLEAN

SInit ==
  /\ Init
  /\ rpc = "idle" /\ copy = Nothing /\ seen = Empty /\ left = {}
  /\ views = {} /\ reverted = FALSE

\* A reader step from one place to another, reading nothing.
Move(from, to, files) ==
  /\ rpc = from /\ rpc' = to
  /\ left' = files
  /\ UNCHANGED << vars, views, reverted >>

\* Faulty variant: what a failed copy read is still there for the next.
GiveUpKeepingSeen == rpc' = "idle" /\ copy' = Nothing /\ left' = {} /\ UNCHANGED seen

GiveUp == rpc' = "idle" /\ copy' = Nothing /\ seen' = Empty /\ left' = {}

\* The reader's locals are gone.
Forget == GiveUp /\ views' = {} /\ reverted' = FALSE

\* _copy_context: require_complete_project(board.parent).
StartCopy(c) ==
  /\ ~marker /\ rpc = "idle"
  /\ rpc' = "complete"
  /\ copy' = c
  /\ views' = {Project} /\ reverted' = FALSE
  /\ UNCHANGED << vars, seen, left >>

\* retain_native_project: require_complete_project(source), once more.
StartRetain ==
  /\ ~marker
  /\ Move("complete", "collecting", copy.closure \cup copy.ifExists)
  /\ UNCHANGED << copy, seen >>

\* An extra file the closure already holds must not differ from it.
Differs(f) == rpc = "extras" /\ f \in DOMAIN seen /\ seen[f] # disk[f]

\* retain(path) and the extra_files loop: the file must be there.
Take(f) ==
  /\ rpc \in {"collecting", "extras"} /\ f \in left
  /\ disk[f] # Absent /\ ~Differs(f)
  /\ seen' = [g \in DOMAIN seen \cup {f} |-> IF g = f THEN disk[f] ELSE seen[g]]
  /\ left' = left \ {f}
  /\ UNCHANGED << vars, rpc, copy, views, reverted >>

\* ledger.exists(): no ledger, nothing to retain.
Skip(f) ==
  /\ rpc = "collecting" /\ f \in left \cap copy.ifExists
  /\ disk[f] = Absent
  /\ left' = left \ {f}
  /\ UNCHANGED << vars, rpc, copy, seen, views, reverted >>

\* "native dependency changed while retaining context", "revision source changed".
Compare(f) ==
  /\ rpc \in {"rereading", "rehashing"} /\ f \in left
  /\ disk[f] = seen[f]
  /\ left' = left \ {f}
  /\ UNCHANGED << vars, rpc, copy, seen, views, reverted >>

Reread == left = {} /\ Move("collecting", "rereading", DOMAIN seen) /\ UNCHANGED << copy, seen >>

\* retain_native_project returns.
Retained == left = {} /\ Move("rereading", "retained", {}) /\ UNCHANGED << copy, seen >>

TakeExtras == Move("retained", "extras", copy.extra) /\ UNCHANGED << copy, seen >>

\* _require_inputs: complete, and every digest as copied.
Recheck == left = {} /\ Move("extras", "recheck", {}) /\ UNCHANGED << copy, seen >>

\* Faulty variant: only the digests are checked again, not the marker.
RehashDigests == Move("recheck", "rehashing", DOMAIN seen) /\ UNCHANGED << copy, seen >>

Rehash ==
  /\ ~marker
  /\ Move("recheck", "rehashing", DOMAIN seen)
  /\ UNCHANGED << copy, seen >>

ReturnCopy == left = {} /\ Move("rehashing", "returned", {}) /\ UNCHANGED << copy, seen >>

\* The marker, a missing file or a changed one ends the copy with an error.
Reject ==
  /\ \/ rpc \in {"complete", "recheck"} /\ marker
     \/ rpc = "collecting" /\ \E f \in left \ copy.ifExists : disk[f] = Absent
     \/ rpc = "extras" /\ \E f \in left : disk[f] = Absent \/ Differs(f)
     \/ rpc \in {"rereading", "rehashing"} /\ \E f \in left : disk[f] # seen[f]
  /\ Forget
  /\ UNCHANGED vars

\* The caller has used its copy.
Use == rpc = "returned" /\ Forget /\ UNCHANGED vars

CopyStep ==
  \/ StartRetain \/ Reread \/ Retained \/ TakeExtras \/ Recheck \/ Rehash \/ ReturnCopy
  \/ \E f \in File : Take(f) \/ Skip(f) \/ Compare(f)

ReaderStep == CopyStep \/ Reject \/ Use \/ \E c \in Copies : StartCopy(c)

(***************************************************************************)
(* The editors go on meanwhile, as in FileTransaction, but for payloads    *)
(* that get lost, which only make a recovery refuse. Comparing digests     *)
(* cannot tell a file that was changed and changed back. A rollback does   *)
(* that, and must be told; `reverted` notes that anything else did: a new  *)
(* edit or another program wrote again what the copy had read of a file.   *)
(***************************************************************************)
PutBack == \E f \in DOMAIN seen : disk'[f] # disk[f] /\ disk'[f] = seen[f]

EditorStep(Editors, Wanted) ==
  /\ \/ \E p \in Editors : BeginRecover(p) \/ \E e \in Wanted : BeginEdit(p, e)
     \/ \E p \in Proc : Step(p)
     \/ \E p \in Proc : Fail(p) \/ Abandon(p)
     \/ \E f \in File : ExternalEdit(f)
  /\ reverted' = (reverted \/ (PutBack /\ \A p \in Proc : pc[p] # "restoring"))
  /\ views' = IF rpc = "idle" \/ reverted' THEN {} ELSE views \cup {Project'}
  /\ UNCHANGED reader

SNext == ReaderStep \/ EditorStep(Proc, Edits)

SSpec == SInit /\ [][SNext]_svars

-------------------------------------------------------------------------------
Matches(v) == \A f \in DOMAIN seen : seen[f] = v[f]

\* A copy _copy_context returns is the project as it was at one instant, and
\* never a mix of an edit's old and new files, whatever edits, rollbacks, crashes
\* and recoveries ran while it was made (and unless one of its files was changed
\* and then written again as it was).
CopyIsOneProject == rpc = "returned" /\ ~reverted => \E v \in views : Matches(v)

-------------------------------------------------------------------------------
(* The inductive invariant, when other programs keep out of locked calls *)

\* What readers may rely on now is among the views.
ViewInv == rpc # "idle" /\ ~reverted => Project \in views

\* No rollback that may still run puts back what the copy has read of f.
Spared(f) ==
  (marker \/ \E p \in Proc : pc[p] = "prepared") /\ f \in Targeted => journal.old[f] # seen[f]

\* From the second look at the marker on, the copy is the project of that look,
\* but for files that still have to be compared, and differ, and go on to differ.
RehashInv ==
  rpc \in {"rehashing", "returned"} /\ ~reverted =>
    \E v \in views : \A f \in DOMAIN seen :
      \/ seen[f] = v[f]
      \/ rpc = "rehashing" /\ f \in left /\ disk[f] # seen[f] /\ Spared(f)

SInv == IInv /\ ViewInv /\ RehashInv
================================================================================
