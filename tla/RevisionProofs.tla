---------------------------- MODULE RevisionProofs ----------------------------
(* Proofs about BoardRevision, for every project, request and number of editors. *)
EXTENDS BoardRevision, FileTransactionProofs

-------------------------------------------------------------------------------
(* The revision directory: DirInv *)

\* The inputs of a request are native files, the board among them, and perhaps
\* the ledger, all of them there.
LEMMA SourceFacts ==
  ASSUME SourceInv, dir # NoDirectory
  PROVE  /\ DOMAIN dir.source \in {Closure, Closure \cup {Ledger}}
         /\ Board \in DOMAIN dir.source /\ Board # Ledger
         /\ DOMAIN dir.source \subseteq File
         /\ dir.source \in [DOMAIN dir.source -> Content]
         /\ dir.source # Empty
BY RevisionAssumption DEF SourceInv, Empty

\* What is planned for a predecessor is a project of the same files.
LEMMA PlannedType ==
  ASSUME SourceInv, BeforeInv, dir.before # Empty
  PROVE  /\ dir # NoDirectory /\ dir.before = dir.source
         /\ Planned \in [DOMAIN dir.source -> Content]
         /\ Filled = [Planned EXCEPT ![Board] = Refilled(Planned[Board])]
         /\ Filled \in [DOMAIN dir.source -> Content]
         /\ Final \in {Planned, Filled}
         /\ Planned \in Partial /\ Filled \in Partial
         /\ Refilled(Planned[Board]) \in Stored
<1>1. dir # NoDirectory /\ dir.before = dir.source
  BY DEF BeforeInv, NoDirectory
<1>2. DOMAIN dir.source \subseteq File /\ Board \in DOMAIN dir.source
      /\ dir.source \in [DOMAIN dir.source -> Content]
  BY <1>1, SourceFacts
<1>3. Planned \in [DOMAIN dir.source -> Content]
  BY <1>1, <1>2, RevisionAssumption DEF Planned
<1>4. Filled = [Planned EXCEPT ![Board] = Refilled(Planned[Board])]
  BY DEF Filled
<1>5. Filled \in [DOMAIN dir.source -> Content]
  BY <1>2, <1>3, <1>4, RevisionAssumption
<1>6. Planned \in [DOMAIN dir.source -> Stored] /\ Filled \in [DOMAIN dir.source -> Stored]
  BY <1>3, <1>5 DEF Stored
<1>7. Planned \in Partial /\ Filled \in Partial
  BY <1>2, <1>6, PartialFunction
<1>8. Refilled(Planned[Board]) \in Stored
  BY <1>2, <1>3, RevisionAssumption DEF Stored
<1>9. QED
  BY <1>1, <1>3, <1>4, <1>5, <1>7, <1>8 DEF Final

\* The plan depends on the predecessor and the request.
LEMMA SamePlan ==
  ASSUME dir'.before = dir.before, dir'.request = dir.request
  PROVE  Planned' = Planned /\ Filled' = Filled /\ Final' = Final
BY DEF Planned, Filled, Final

LEMMA NoDirectoryType == NoDirectory \in Directory
BY EmptyPartial DEF NoDirectory, Directory, Verdict, Stored

LEMMA InitDirInv == RInit => DirInv
<1> SUFFICES ASSUME RInit
             PROVE  DirInv
  OBVIOUS
<1>1. dir = NoDirectory /\ place = "idle"
  BY DEF RInit
<1>2. dir \in Directory
  BY <1>1, NoDirectoryType
<1>3. SourceInv /\ BeforeInv /\ CandidateInv /\ EndInv
  BY <1>1 DEF SourceInv, BeforeInv, CandidateInv, EndInv, NoDirectory
<1>4. PlaceInv
  BY <1>1 DEF PlaceInv, Creating, Applying, Working, Replayed
<1>5. QED
  BY <1>2, <1>3, <1>4 DEF DirInv

\* A step that moves the reviser and leaves the directory alone.
LEMMA MoveDirInv ==
  ASSUME DirInv, dir' = dir, dir # NoDirectory \/ place' = "idle", PlaceInv'
  PROVE  DirInv'
<1>1. Planned' = Planned /\ Filled' = Filled /\ Final' = Final
  BY SamePlan
<1>2. dir' \in Directory /\ SourceInv' /\ BeforeInv' /\ CandidateInv' /\ EndInv'
  BY <1>1 DEF DirInv, SourceInv, BeforeInv, CandidateInv, EndInv
<1>3. QED
  BY <1>2 DEF DirInv

\* What no step of the workflow writes.
Kept ==
  /\ dir'.request = dir.request /\ dir'.source = dir.source /\ dir'.before = dir.before
  /\ dir'.verdict = dir.verdict /\ dir'.failure = dir.failure

\* A step that writes the candidate, the fill, the checks or a checkpoint.
LEMMA WorkDirInv ==
  ASSUME DirInv, dir.before # Empty, ~Terminal, dir' \in Directory, Kept, CandidateInv', PlaceInv'
  PROVE  DirInv'
<1>1. dir # NoDirectory
  BY DEF NoDirectory
<1>2. SourceInv' /\ BeforeInv' /\ EndInv'
  BY <1>1 DEF DirInv, SourceInv, BeforeInv, EndInv, Terminal, Kept
<1>3. QED
  BY <1>2 DEF DirInv

\* The reviser works on a directory.
LEMMA SomeDirectory ==
  ASSUME DirInv, place # "idle"
  PROVE  dir # NoDirectory
<1>1. dir.request \in Request
  BY DEF DirInv, SourceInv
<1>2. QED
  BY <1>1, RevisionAssumption DEF NoDirectory

LEMMA CreateDirInv ==
  ASSUME TypeOK, DirInv, NEW r \in Request, Create(r)
  PROVE  DirInv'
<1> USE DEF Create, Go
<1>1. /\ dir' = [NoDirectory EXCEPT !.request = r, !.source = [f \in Named |-> disk[f]]]
      /\ place' = "copying"
  OBVIOUS
<1>2. [f \in Named |-> disk[f]] \in [Closure -> Content] \cup [Closure \cup {Ledger} -> Content]
  <2>1. Named \in {Closure, Closure \cup {Ledger}} /\ Named \subseteq File
    BY RevisionAssumption DEF Named
  <2>2. \A f \in Named : disk[f] \in Content
    BY <2>1 DEF Named, TypeOK, Stored
  <2>3. QED
    BY <2>1, <2>2
<1>3. [f \in Named |-> disk[f]] \in Partial
  <2>1. Named \in SUBSET File /\ [f \in Named |-> disk[f]] \in [Named -> Stored]
    BY RevisionAssumption DEF Named, TypeOK
  <2>2. QED
    BY <2>1, PartialFunction
<1>4. dir' \in Directory
  <2> DEFINE source == [f \in Named |-> disk[f]]
  <2>1. source \in Partial /\ dir' = [NoDirectory EXCEPT !.request = r, !.source = source]
    BY <1>1, <1>3
  <2> HIDE DEF source
  <2>2. QED
    BY <2>1, NoDirectoryType DEF Directory
<1>5. SourceInv' /\ BeforeInv' /\ CandidateInv' /\ EndInv'
  BY <1>1, <1>2 DEF SourceInv, BeforeInv, CandidateInv, EndInv, NoDirectory
<1>6. PlaceInv'
  BY <1>1 DEF PlaceInv, NoDirectory, Terminal, Creating, Applying, Working, Replayed
<1>7. QED
  BY <1>4, <1>5, <1>6 DEF DirInv

LEMMA KeepBeforeDirInv ==
  ASSUME DirInv, KeepBefore
  PROVE  DirInv'
<1>1. /\ dir' = [dir EXCEPT !.before = dir.source]
      /\ place = "copying" /\ place' = "copied"
  BY DEF KeepBefore, Matched, Go
<1>2. /\ dir # NoDirectory /\ dir.before = Empty /\ ~Terminal
      /\ dir.design = Empty /\ dir.done = 0 /\ ~dir.blocked
      /\ dir.checks = Empty /\ dir.verdict = "none"
  <2>1. dir # NoDirectory /\ dir.before = Empty /\ ~Terminal
    BY <1>1, SomeDirectory DEF DirInv, PlaceInv, Creating
  <2>2. dir = [NoDirectory EXCEPT !.request = dir.request, !.source = dir.source,
                                  !.failure = dir.failure]
    BY <2>1 DEF DirInv, BeforeInv
  <2>3. dir.design = Empty /\ dir.done = 0 /\ ~dir.blocked /\ dir.checks = Empty
    BY <2>2 DEF NoDirectory
  <2>4. QED
    BY <2>1, <2>3 DEF Terminal
<1>3. dir.source # Empty
  BY <1>2, SourceFacts DEF DirInv
<1>4. dir' \in Directory /\ SourceInv' /\ BeforeInv' /\ EndInv'
  BY <1>1, <1>2, <1>3 DEF DirInv, Directory, SourceInv, BeforeInv, EndInv, NoDirectory
<1>5. CandidateInv' /\ PlaceInv'
  BY <1>1, <1>2, <1>3
  DEF DirInv, Directory, CandidateInv, PlaceInv, Terminal, Creating, Applying, Working, Replayed
<1>6. QED
  BY <1>4, <1>5 DEF DirInv

\* What holds of the directory when the workflow takes a step.
LEMMA AtWork ==
  ASSUME DirInv, place \in Working
  PROVE  /\ dir.before # Empty /\ ~Terminal /\ ~dir.blocked
         /\ CandidateInv /\ dir.done \in 0..5
         /\ dir.design \in Partial /\ dir.fill \in Stored /\ dir.checks \in Partial
         /\ Planned \in Partial /\ Filled \in Partial /\ Refilled(Planned[Board]) \in Stored
         /\ Filled = [Planned EXCEPT ![Board] = Refilled(Planned[Board])]
<1>1. dir.before # Empty /\ ~Terminal /\ ~dir.blocked
  BY DEF DirInv, PlaceInv
<1>2. QED
  BY <1>1, PlannedType DEF DirInv, Directory

\* A step of the workflow that leaves a candidate its checkpoint explains.
LEMMA WorkflowStep ==
  ASSUME DirInv, place \in Working, dir' \in Directory, Kept,
         dir'.done = 0 => dir'.design = dir.before,
         dir'.done = 1 => dir'.design \in {dir.before, Planned},
         dir'.done = 2 => dir'.design = Planned,
         dir'.done = 3 => dir'.design = Planned \/ (dir.request.refill /\ dir'.design = Filled),
         dir'.done \in {4, 5} => dir'.design = Final,
         dir'.checks # Empty => dir'.done = 5 /\ dir'.checks = dir'.design,
         \/ place' = "failing"
         \/ /\ ~dir'.blocked
            /\ \/ place' = "working"
               \/ place' = "written" /\ dir'.done = 1 /\ dir'.design = Planned
               \/ place' = "confirming" /\ dir'.done = 5
               \/ /\ dir'.done = 3 /\ dir.request.refill
                  /\ \/ place' = "filling" /\ dir'.design = Planned
                     \/ /\ place' = "filled" /\ dir'.design = Planned
                        /\ dir'.fill = Refilled(Planned[Board])
                     \/ place' = "merged" /\ dir'.design = Filled
  PROVE  DirInv'
<1>1. dir.before # Empty /\ ~Terminal
  BY AtWork
<1>2. /\ Planned' = Planned /\ Filled' = Filled /\ Final' = Final
      /\ ~Terminal' /\ dir'.before = dir.before /\ dir'.request = dir.request
  BY <1>1, SamePlan DEF Terminal, Kept
<1>3. CandidateInv'
  BY <1>1, <1>2 DEF CandidateInv
<1>4. PlaceInv'
  BY <1>1, <1>2 DEF PlaceInv, Creating, Applying, Working, Replayed
<1>5. QED
  BY <1>1, <1>3, <1>4, WorkDirInv

LEMMA WorkflowDirInv ==
  ASSUME DirInv,
         \/ CopyDesign \/ (\E n \in 1..5 : Examine(n)) \/ WriteCandidate \/ CheckpointCandidate
         \/ NoFill \/ ArchiveFill \/ WriteUnfilled \/ Refill \/ WriteFilled \/ CheckpointFill
         \/ CheckNatively \/ Block
  PROVE  DirInv'
<1> USE DEF Go, Checkpoint, Kept
<1>0. place \in Working
  BY DEF Working, CopyDesign, Examine, WriteCandidate, CheckpointCandidate, NoFill, ArchiveFill,
         WriteUnfilled, Refill, WriteFilled, CheckpointFill, CheckNatively, Block
<1>1. /\ dir.before # Empty /\ ~dir.blocked
      /\ CandidateInv /\ PlaceInv /\ dir.done \in 0..5 /\ dir \in Directory
      /\ dir.design \in Partial /\ dir.fill \in Stored /\ dir.checks \in Partial
      /\ dir.before \in Partial
      /\ Planned \in Partial /\ Filled \in Partial /\ Refilled(Planned[Board]) \in Stored
      /\ Filled = [Planned EXCEPT ![Board] = Refilled(Planned[Board])]
  BY <1>0, AtWork DEF DirInv, Directory
<1>2. CASE CopyDesign
  <2>1. /\ dir' \in Directory /\ Kept
        /\ dir'.design = dir.before /\ dir'.fill = dir.fill /\ dir'.done = dir.done
        /\ ~dir'.blocked /\ dir'.checks = dir.checks
        /\ place = "copied" /\ place' = "working"
    BY <1>1, <1>2 DEF CopyDesign, Directory
  <2>2. dir.done = 0 /\ dir.checks = Empty
    BY <1>1, <2>1 DEF PlaceInv, CandidateInv
  <2>3. QED
    BY <1>0, <1>1, <2>1, <2>2, WorkflowStep
<1>3. ASSUME NEW n \in 1..5, Examine(n)
      PROVE  DirInv'
  <2>1. /\ dir' \in Directory /\ Kept
        /\ dir'.design = dir.design /\ dir'.fill = dir.fill /\ dir'.done = n
        /\ ~dir'.blocked /\ dir'.checks = dir.checks
        /\ place = "working" /\ place' = "working" /\ dir.done = n - 1 /\ n \in {1, 3}
    BY <1>1, <1>3 DEF Examine, Directory
  <2>2. /\ dir.checks = Empty
        /\ n = 1 => dir.design = dir.before
        /\ n = 3 => dir.design = Planned
    BY <1>1, <2>1 DEF PlaceInv, CandidateInv
  <2>3. QED
    BY <1>0, <1>1, <2>1, <2>2, WorkflowStep
<1>4. CASE WriteCandidate
  <2>1. /\ dir' \in Directory /\ Kept
        /\ dir'.design = Planned /\ dir'.fill = dir.fill /\ dir'.done = 1
        /\ ~dir'.blocked /\ dir'.checks = dir.checks
        /\ place' = "written" /\ dir.done = 1
    BY <1>1, <1>4 DEF WriteCandidate, Directory
  <2>2. dir.checks = Empty
    BY <1>1, <2>1 DEF CandidateInv
  <2>3. QED
    BY <1>0, <1>1, <2>1, <2>2, WorkflowStep
<1>5. CASE CheckpointCandidate
  <2>1. /\ dir' \in Directory /\ Kept
        /\ dir'.design = dir.design /\ dir'.fill = dir.fill /\ dir'.done = 2
        /\ ~dir'.blocked /\ dir'.checks = dir.checks
        /\ place = "written" /\ place' = "working"
    BY <1>1, <1>5 DEF CheckpointCandidate, Directory
  <2>2. dir.checks = Empty /\ dir.design = Planned
    BY <1>1, <2>1 DEF PlaceInv, CandidateInv
  <2>3. QED
    BY <1>0, <1>1, <2>1, <2>2, WorkflowStep
<1>6. CASE NoFill
  <2>1. /\ dir' \in Directory /\ Kept
        /\ dir'.design = dir.design /\ dir'.fill = dir.fill /\ dir'.done = 4
        /\ ~dir'.blocked /\ dir'.checks = dir.checks
        /\ place' = "working" /\ dir.done = 3 /\ ~dir.request.refill
    BY <1>1, <1>6 DEF NoFill, Directory
  <2>2. dir.checks = Empty /\ dir.design = Final
    BY <1>1, <2>1 DEF CandidateInv, Final
  <2>3. QED
    BY <1>0, <1>1, <2>1, <2>2, WorkflowStep
<1>7. CASE ArchiveFill
  <2>1. /\ dir' \in Directory /\ Kept
        /\ dir'.design = dir.design /\ dir'.fill = Absent /\ dir'.done = 3
        /\ ~dir'.blocked /\ dir'.checks = dir.checks
        /\ place' = "working" /\ dir.done = 3
    BY <1>1, <1>7 DEF ArchiveFill, Directory, Stored
  <2>2. /\ dir.checks = Empty /\ Absent \in Stored
        /\ dir.design = Planned \/ (dir.request.refill /\ dir.design = Filled)
    BY <1>1, <2>1 DEF CandidateInv, Stored
  <2>3. QED
    BY <1>0, <1>1, <2>1, <2>2, WorkflowStep
<1>8. CASE WriteUnfilled
  <2>1. dir.done = 3 /\ dir.request.refill /\ place' = "filling"
    BY <1>8 DEF WriteUnfilled
  <2>2. /\ dir.checks = Empty
        /\ dir.design = Planned \/ (dir.request.refill /\ dir.design = Filled)
    BY <1>1, <2>1 DEF CandidateInv
  <2>3. [dir.design EXCEPT ![Board] = Planned[Board]] = Planned
    <3>1. Planned \in [DOMAIN dir.source -> Content] /\ Filled \in [DOMAIN dir.source -> Content]
      BY <1>1, PlannedType DEF DirInv
    <3>2. \A f \in DOMAIN dir.source : f # Board => Filled[f] = Planned[f]
      BY <1>1, <3>1
    <3>3. QED
      BY <2>2, <3>1, <3>2
  <2>4. /\ dir' \in Directory /\ Kept
        /\ dir'.design = Planned /\ dir'.fill = dir.fill /\ dir'.done = 3
        /\ ~dir'.blocked /\ dir'.checks = dir.checks
    BY <1>1, <1>8, <2>1, <2>3 DEF WriteUnfilled, Directory
  <2>5. QED
    BY <1>0, <1>1, <2>1, <2>2, <2>4, WorkflowStep
<1>9. CASE Refill
  <2>1. place = "filling" /\ place' = "filled"
    BY <1>9 DEF Refill
  <2>2. /\ dir.design = Planned /\ dir.done = 3 /\ dir.request.refill /\ dir.checks = Empty
    BY <1>1, <2>1 DEF PlaceInv, CandidateInv
  <2>3. /\ dir' \in Directory /\ Kept
        /\ dir'.design = Planned /\ dir'.fill = Refilled(Planned[Board]) /\ dir'.done = 3
        /\ ~dir'.blocked /\ dir'.checks = dir.checks
    BY <1>1, <1>9, <2>2 DEF Refill, Directory
  <2>4. QED
    BY <1>0, <1>1, <2>1, <2>2, <2>3, WorkflowStep
<1>10. CASE WriteFilled
  <2>1. place = "filled" /\ place' = "merged"
    BY <1>10 DEF WriteFilled
  <2>2. /\ dir.design = Planned /\ dir.fill = Refilled(Planned[Board])
        /\ dir.done = 3 /\ dir.request.refill /\ dir.checks = Empty
    BY <1>1, <2>1 DEF PlaceInv, CandidateInv
  <2>3. /\ dir' \in Directory /\ Kept
        /\ dir'.design = Filled /\ dir'.fill = dir.fill /\ dir'.done = 3
        /\ ~dir'.blocked /\ dir'.checks = dir.checks
    BY <1>1, <1>10, <2>2 DEF WriteFilled, Directory
  <2>4. QED
    BY <1>0, <1>1, <2>1, <2>2, <2>3, WorkflowStep
<1>11. CASE CheckpointFill
  <2>1. /\ dir' \in Directory /\ Kept
        /\ dir'.design = dir.design /\ dir'.fill = dir.fill /\ dir'.done = 4
        /\ ~dir'.blocked /\ dir'.checks = dir.checks
        /\ place = "merged" /\ place' = "working"
    BY <1>1, <1>11 DEF CheckpointFill, Directory
  <2>2. dir.checks = Empty /\ dir.design = Final
    BY <1>1, <2>1 DEF PlaceInv, CandidateInv, Final
  <2>3. QED
    BY <1>0, <1>1, <2>1, <2>2, WorkflowStep
<1>12. CASE CheckNatively
  <2>1. PICK checks \in {dir.design, Empty} : dir' = [dir EXCEPT !.done = 5, !.checks = checks]
    <3>1. PICK passed \in BOOLEAN :
            dir' = [dir EXCEPT !.done = 5,
                               !.checks = IF passed /\ dir.design # dir.before
                                          THEN dir.design ELSE Empty]
      BY <1>12 DEF CheckNatively
    <3>2. CASE passed /\ dir.design # dir.before
      BY <3>1, <3>2
    <3>3. CASE ~(passed /\ dir.design # dir.before)
      BY <3>1, <3>3
    <3>4. QED
      BY <3>2, <3>3
  <2>2. checks \in Partial /\ place' = "confirming" /\ dir.done = 4
    BY <1>1, <1>12, EmptyPartial DEF CheckNatively
  <2>3. /\ dir' \in Directory /\ Kept
        /\ dir'.design = dir.design /\ dir'.fill = dir.fill /\ dir'.done = 5
        /\ ~dir'.blocked /\ dir'.checks = checks
    <3> DEFINE d == [dir EXCEPT !.done = 5]
    <3>1. /\ d \in Directory
          /\ d.request = dir.request /\ d.source = dir.source /\ d.before = dir.before
          /\ d.verdict = dir.verdict /\ d.failure = dir.failure
          /\ d.design = dir.design /\ d.fill = dir.fill /\ d.done = 5 /\ ~d.blocked
      BY <1>1 DEF Directory
    <3>2. dir' = [d EXCEPT !.checks = checks]
      BY <2>1
    <3> HIDE DEF d
    <3>3. QED
      BY <2>2, <3>1, <3>2 DEF Directory
  <2>4. dir.design = Final
    BY <1>1, <2>2 DEF CandidateInv
  <2>5. QED
    BY <1>0, <1>1, <2>1, <2>2, <2>3, <2>4, WorkflowStep
<1>13. CASE Block
  <2>1. /\ dir' \in Directory /\ Kept
        /\ dir'.design = dir.design /\ dir'.fill = dir.fill /\ dir'.done = dir.done
        /\ dir'.blocked /\ dir'.checks = dir.checks
        /\ place' = "failing" /\ place # "copied"
    BY <1>1, <1>13 DEF Block, Directory
  <2>2. dir.done = 0 => dir.design = dir.before
    BY <1>1, <1>13 DEF Block, PlaceInv
  <2>3. QED
    BY <1>0, <1>1, <2>1, <2>2, WorkflowStep DEF CandidateInv
<1>14. QED
  BY <1>2, <1>3, <1>4, <1>5, <1>6, <1>7, <1>8, <1>9, <1>10, <1>11, <1>12, <1>13

LEMMA ConcludeDirInv ==
  ASSUME DirInv, Conclude
  PROVE  DirInv'
<1>1. place = "confirming" /\ place' = "idle"
  BY DEF Conclude, Matched, Go
<1>2. dir.before # Empty /\ ~dir.blocked /\ dir.done = 5 /\ ~Terminal /\ dir.design = Final
  BY <1>1 DEF DirInv, PlaceInv, CandidateInv, Creating
<1>3. PICK v \in Verdict :
        /\ dir' = [dir EXCEPT !.verdict = v]
        /\ v = "digitally_checked_candidate" => dir.checks # Empty
  <2>1. CASE dir.design = dir.before
    BY <2>1 DEF Conclude, Verdict
  <2>2. CASE dir.design # dir.before /\ dir.checks # Empty
    BY <2>2 DEF Conclude, Verdict
  <2>3. CASE dir.design # dir.before /\ dir.checks = Empty
    BY <2>3 DEF Conclude, Verdict
  <2>4. QED
    BY <2>1, <2>2, <2>3
<1>4. /\ dir' \in Directory /\ dir'.verdict = v
      /\ dir'.request = dir.request /\ dir'.source = dir.source /\ dir'.before = dir.before
      /\ dir'.design = dir.design /\ dir'.fill = dir.fill /\ dir'.done = dir.done
      /\ dir'.blocked = dir.blocked /\ dir'.checks = dir.checks /\ dir'.failure = dir.failure
  BY <1>3 DEF DirInv, Directory
<1>5. Planned' = Planned /\ Filled' = Filled /\ Final' = Final
  BY <1>4, SamePlan
<1>6. dir # NoDirectory
  BY <1>1, SomeDirectory
<1>7. SourceInv' /\ BeforeInv' /\ CandidateInv'
  BY <1>2, <1>4, <1>5, <1>6 DEF DirInv, SourceInv, BeforeInv, CandidateInv
<1>8. EndInv'
  BY <1>2, <1>3, <1>4 DEF DirInv, CandidateInv, EndInv, Terminal
<1>9. PlaceInv'
  BY <1>1 DEF PlaceInv, Creating, Applying, Working, Replayed
<1>10. QED
  BY <1>4, <1>7, <1>8, <1>9 DEF DirInv

LEMMA RecordFailureDirInv ==
  ASSUME DirInv, RecordFailure
  PROVE  DirInv'
<1>1. place = "failing" /\ place' = "idle" /\ dir' = [dir EXCEPT !.failure = TRUE]
  BY DEF RecordFailure, Go
<1>2. ~Terminal /\ dir # NoDirectory /\ dir \in Directory
  BY <1>1, SomeDirectory DEF DirInv, PlaceInv
<1>3. /\ dir' \in Directory /\ dir'.verdict = dir.verdict
      /\ dir'.request = dir.request /\ dir'.source = dir.source /\ dir'.before = dir.before
      /\ dir'.design = dir.design /\ dir'.fill = dir.fill /\ dir'.done = dir.done
      /\ dir'.blocked = dir.blocked /\ dir'.checks = dir.checks
  BY <1>1, <1>2 DEF Directory
<1>4. Planned' = Planned /\ Filled' = Filled /\ Final' = Final
  BY <1>3, SamePlan
<1>5. SourceInv' /\ CandidateInv' /\ EndInv'
  BY <1>2, <1>3, <1>4 DEF DirInv, SourceInv, CandidateInv, EndInv, Terminal
<1>6. BeforeInv'
  <2>1. CASE dir.before # Empty
    BY <1>3, <2>1 DEF DirInv, BeforeInv
  <2>2. CASE dir.before = Empty
    <3>1. dir = [NoDirectory EXCEPT !.request = dir.request, !.source = dir.source,
                                    !.failure = dir.failure]
      BY <2>2 DEF DirInv, BeforeInv
    <3>2. dir' = [NoDirectory EXCEPT !.request = dir'.request, !.source = dir'.source,
                                     !.failure = dir'.failure]
      BY <1>1, <1>2, <1>3, <3>1 DEF NoDirectory, Directory
    <3>3. QED
      BY <1>3, <2>2, <3>2 DEF BeforeInv
  <2>3. QED
    BY <2>1, <2>2
<1>7. PlaceInv'
  BY <1>1 DEF PlaceInv, Creating, Applying, Working, Replayed
<1>8. QED
  BY <1>3, <1>5, <1>6, <1>7 DEF DirInv

\* Where the reviser goes when it writes nothing.
LEMMA PlaceDirInv ==
  ASSUME DirInv, dir' = dir,
         \/ place' \in {place, "idle"}
         \/ place' = "failing" /\ place \in Creating \cup Working
         \/ place' = "working" /\ dir.before # Empty /\ ~Terminal /\ MayGoOn
         \/ place' = "confirming" /\ dir.before # Empty /\ ~Terminal /\ MayGoOn /\ dir.done = 5
         \/ place' = "failing" /\ dir.before # Empty /\ ~Terminal
         \/ place' \in Replayed /\ Replays
  PROVE  DirInv'
<1>1. /\ Planned' = Planned /\ Filled' = Filled /\ Final' = Final
      /\ Terminal' = Terminal /\ Replays' = Replays
  BY SamePlan DEF Terminal, Replays
<1>2. dir # NoDirectory \/ place' = "idle"
  <2>1. CASE place = "idle" /\ dir = NoDirectory
    BY <2>1 DEF NoDirectory, Replays, Creating, Working
  <2>2. QED
    BY <2>1, SomeDirectory
<1>3. PlaceInv'
  BY <1>1 DEF DirInv, PlaceInv, MayGoOn, Creating, Applying, Working, Replayed
<1>4. QED
  BY <1>2, <1>3, MoveDirInv

\* Every step of the reviser keeps what is known of its directory; editors do not
\* touch it.
LEMMA NextDirInv ==
  ASSUME TypeOK, DirInv, [RNext]_rvars
  PROVE  DirInv'
<1>1. ASSUME NEW r \in Request, Create(r)
      PROVE  DirInv'
  BY <1>1, CreateDirInv
<1>2. CASE CreateStep /\ ~(\E r \in Request : Create(r)) /\ ~Raise
  BY <1>2, KeepBeforeDirInv, WorkflowDirInv, ConcludeDirInv, RecordFailureDirInv DEF CreateStep
<1>3. CASE Raise
  BY <1>3, PlaceDirInv DEF Raise, Working
<1>4. CASE BeginCopy \/ Copy \/ EndCommit \/ CopyRefused
  <2>1. CASE place' \in {place, "idle"} /\ dir' = dir
    BY <2>1, PlaceDirInv
  <2>2. CASE place' = "failing" /\ place \in Creating /\ dir' = dir
    BY <2>2, PlaceDirInv
  <2>3. QED
    BY <1>4, <2>1, <2>2 DEF BeginCopy, Copy, EndCommit, CopyRefused, Go
<1>5. CASE Die
  BY <1>5, PlaceDirInv DEF Die
<1>6. CASE Resume
  BY <1>6, PlaceDirInv DEF Resume, Go
<1>7. CASE BeginApply
  BY <1>7, PlaceDirInv DEF BeginApply, Go, Replayed, Applying
<1>8. CASE MatchSource \/ CheckAgain \/ MatchAgain \/ NoteLedger \/ BeginCommit
  <2>1. place \in Replayed /\ place' \in Replayed \cup {"idle"} /\ dir' = dir
    BY <1>8 DEF MatchSource, CheckAgain, MatchAgain, NoteLedger, BeginCommit, Matched, Go,
                Replayed, Applying
  <2>2. Replays
    BY <2>1 DEF DirInv, PlaceInv
  <2>3. QED
    BY <2>1, <2>2, PlaceDirInv
<1>9. CASE UNCHANGED << place, noted, dir >>
  BY <1>9, PlaceDirInv
<1>10. CASE UNCHANGED rvars
  BY <1>9, <1>10 DEF rvars
<1>11. QED
  BY <1>1, <1>2, <1>3, <1>4, <1>5, <1>6, <1>7, <1>8, <1>9, <1>10
  DEF RNext, CreateStep, ApplyStep

-------------------------------------------------------------------------------
(* The reviser is one of the editors *)

\* What an application asks for is a request an editor may make.
LEMMA ApplicationType ==
  ASSUME DirInv, place \in Replayed, noted \in Stored
  PROVE  /\ Application \in Edits
         /\ Rewritten \subseteq DOMAIN Inputs /\ DOMAIN Inputs \subseteq File
         /\ Inputs \in [DOMAIN Inputs -> Stored]
<1>1. Replays /\ dir # NoDirectory
  BY SomeDirectory DEF DirInv, PlaceInv, Replayed, Applying
<1>2. dir.before # Empty /\ dir.before = dir.source
  BY <1>1 DEF DirInv, EndInv, Replays
<1>3. /\ DOMAIN dir.source \subseteq File /\ Board \in DOMAIN dir.source
      /\ dir.source \in [DOMAIN dir.source -> Content]
      /\ dir.design \in [DOMAIN dir.source -> Content]
  BY <1>1, <1>2, SourceFacts, PlannedType DEF DirInv, Replays
<1>4. /\ Rewritten \subseteq DOMAIN dir.source \cup {Ledger}
      /\ DOMAIN Inputs = DOMAIN dir.source \cup {Ledger} /\ DOMAIN Inputs \subseteq File
      /\ Inputs \in [DOMAIN Inputs -> Stored]
  BY <1>3, RevisionAssumption DEF Rewritten, Inputs, Stored
<1>5. Extended(noted, Entry) \in Content
  BY RevisionAssumption, EditAssumption
<1>6. Application.write \in [Rewritten -> Content]
  BY <1>3, <1>4, <1>5 DEF Application
<1>7. Application.append \in [{} -> Line]
  BY DEF Application, Empty
<1>8. Application.expect \in [DOMAIN Inputs -> Stored]
  BY <1>4 DEF Application
<1>9. /\ Application.write \in UNION {[S -> Content] : S \in SUBSET File}
      /\ Application.append \in UNION {[S -> Line] : S \in SUBSET File}
      /\ Application.expect \in UNION {[S -> Stored] : S \in SUBSET File}
  BY <1>4, <1>6, <1>7, <1>8
<1>10. Application \in EditRequest
  BY <1>9 DEF Application, EditRequest
<1>11. QED
  BY <1>4, <1>10, RevisionAssumption

\* What a step does to the project's files: nothing, a death or a commit of the
\* reviser, or a step of the editors.
LEMMA StepKinds ==
  ASSUME TypeOK, noted \in Stored, [RNext]_rvars
  PROVE  /\ noted' \in Stored
         /\ \/ UNCHANGED vars
            \/ BeginCommit
            \/ Die /\ pc[Reviser] # "idle" /\ Abandon(Reviser)
            \/ /\ EditorStep(Proc \ {Reviser}, Competing)
               /\ UNCHANGED << place, noted, dir >>
<1> USE DEF svars, rvars, Private
<1>1. disk[Ledger] \in Stored /\ Absent \in Stored
  BY RevisionAssumption DEF TypeOK, Stored
<1>2. CASE CreateStep
  BY <1>2 DEF CreateStep, Create, KeepBefore, Matched, Use, CopyDesign, Examine, WriteCandidate,
              CheckpointCandidate, NoFill, ArchiveFill, WriteUnfilled, Refill, WriteFilled,
              CheckpointFill, CheckNatively, Block, Conclude, Raise, RecordFailure
<1>3. CASE ApplyStep /\ ~BeginCommit
  BY <1>1, <1>3 DEF ApplyStep, BeginApply, MatchSource, Matched, Use, CheckAgain, MatchAgain,
                    NoteLedger, EndCommit
<1>4. CASE BeginCommit
  BY <1>1, <1>4 DEF BeginCommit
<1>5. CASE BeginCopy \/ CopyRefused
  BY <1>5 DEF BeginCopy, StartCopy, CopyRefused, Reject, Use
<1>6. CASE Copy
  BY <1>6 DEF Copy, CopyStep, StartRetain, Reread, Retained, TakeExtras, Recheck, Rehash,
              ReturnCopy, Take, Skip, Compare, Move
<1>7. CASE Die
  BY <1>1, <1>7 DEF Die
<1>8. CASE Resume
  BY <1>8 DEF Resume
<1>9. CASE UNCHANGED rvars
  BY <1>9
<1>10. QED
  BY <1>2, <1>3, <1>4, <1>5, <1>6, <1>7, <1>8, <1>9 DEF RNext

\* While it applies, the reviser does nothing else.
LEMMA WhileApplying ==
  ASSUME CopyInv, place = "applying", [RNext]_rvars
  PROVE  /\ dir' = dir
         /\ place' = "applying" \/ pc'[Reviser] = "idle" \/ Die
<1> USE DEF svars, rvars, Private, Go
<1>1. rpc = "idle"
  BY DEF CopyInv, Creating, Applying
<1>2. CASE CreateStep
  BY <1>2 DEF CreateStep, Create, KeepBefore, Matched, CopyDesign, Examine, WriteCandidate,
              CheckpointCandidate, NoFill, ArchiveFill, WriteUnfilled, Refill, WriteFilled,
              CheckpointFill, CheckNatively, Block, Conclude, Raise, RecordFailure, Creating
<1>3. CASE ApplyStep
  BY <1>3 DEF ApplyStep, BeginApply, MatchSource, Matched, CheckAgain, MatchAgain,
              NoteLedger, BeginCommit, EndCommit, vars
<1>4. CASE CopyRefused
  BY <1>1, <1>4 DEF CopyRefused, Reject, Use
<1>5. QED
  BY <1>2, <1>3, <1>4 DEF RNext, BeginCopy, Copy, Die, Resume

\* The reviser reads the project where it makes a copy.
LEMMA NextCopyInv ==
  ASSUME CopyInv, [RNext]_rvars
  PROVE  CopyInv'
<1> USE DEF svars, rvars, reader, Private, Go, Forget, GiveUp, CopyInv, Creating, Applying
<1>1. CASE CreateStep
  BY <1>1 DEF CreateStep, Create, KeepBefore, Matched, Use, CopyDesign, Examine, WriteCandidate,
              CheckpointCandidate, NoFill, ArchiveFill, WriteUnfilled, Refill, WriteFilled,
              CheckpointFill, CheckNatively, Block, Conclude, Raise, RecordFailure
<1>2. CASE ApplyStep
  BY <1>2 DEF ApplyStep, BeginApply, MatchSource, Matched, Use, CheckAgain, MatchAgain,
              NoteLedger, BeginCommit, EndCommit
<1>3. CASE BeginCopy \/ CopyRefused \/ Die \/ Resume
  BY <1>3 DEF BeginCopy, CopyRefused, Reject, Use, Die, Resume
<1>4. CASE Copy
  BY <1>4 DEF Copy, CopyStep, StartRetain, Reread, Retained, TakeExtras, Recheck, Rehash,
              ReturnCopy, Take, Skip, Compare, Move
<1>5. CASE EditorStep(Proc \ {Reviser}, Competing) /\ UNCHANGED << place, noted, dir >>
  BY <1>5 DEF EditorStep
<1>6. CASE UNCHANGED rvars
  BY <1>6
<1>7. QED
  BY <1>1, <1>2, <1>3, <1>4, <1>5, <1>6 DEF RNext

\* With the reviser among its editors, FileTransaction takes every step.
LEMMA StepIsEdit ==
  ASSUME TypeOK, DirInv, noted \in Stored, [RNext]_rvars
  PROVE  [Next]_vars
<1>1. CASE UNCHANGED vars
  BY <1>1
<1>2. CASE BeginCommit
  <2>1. place \in Replayed
    BY <1>2 DEF BeginCommit, Go, Replayed
  <2>2. Application \in Edits /\ BeginEdit(Reviser, Application)
    BY <1>2, <2>1, ApplicationType DEF BeginCommit
  <2>3. QED
    BY <2>2, RevisionAssumption DEF Next
<1>3. CASE Abandon(Reviser)
  BY <1>3, RevisionAssumption DEF Next, Fault
<1>4. CASE EditorStep(Proc \ {Reviser}, Competing)
  BY <1>4, RevisionAssumption DEF EditorStep, Next, Fault
<1>5. QED
  BY <1>1, <1>2, <1>3, <1>4, StepKinds

\* What another process does is no part of the reviser's call.
LEMMA OtherCall ==
  ASSUME TypeOK, NEW p \in Proc \ {Reviser},
         \/ Step(p) \/ Fail(p) \/ Abandon(p) \/ BeginRecover(p)
         \/ \E e \in Edits : BeginEdit(p, e)
  PROVE  pc'[Reviser] = pc[Reviser] /\ request'[Reviser] = request[Reviser]
<1> USE RevisionAssumption DEF TypeOK, Goto, Return, Acquire, locals
<1>1. CASE Step(p)
  BY <1>1 DEF Step, Validate, Refuse, Prepare, Publish, Apply, JournalCommit, Acknowledge,
              JournalRollingBack, CheckRestore, RefuseRestore, Restore, JournalRolledBack,
              Settle, VerifyCommitted, BeginRestore, EndRecover
<1>2. CASE ~Step(p)
  BY <1>2 DEF Fail, Abandon, BeginRecover, BeginEdit
<1>3. QED
  BY <1>1, <1>2

\* The reviser's call goes on with its request, or has failed, or ends.
LEMMA OwnCall ==
  ASSUME TypeOK, pc[Reviser] \notin RecoverPhase,
         Step(Reviser) \/ Fail(Reviser) \/ Abandon(Reviser)
  PROVE  /\ pc'[Reviser] \notin RecoverPhase
         /\ pc[Reviser] # "idle"
         /\ \/ pc'[Reviser] \in {"idle", "failed"} \cup RestorePhase
            \/ pc[Reviser] \in CommitPhase \ {"failed"} /\ request'[Reviser] = request[Reviser]
<1> USE RevisionAssumption
    DEF TypeOK, Goto, Return, locals, RestorePhase, RecoverPhase, CommitPhase
<1>1. CASE Step(Reviser)
  BY <1>1 DEF Step, Validate, Refuse, Prepare, Publish, Apply, JournalCommit, Acknowledge,
              JournalRollingBack, CheckRestore, RefuseRestore, Restore, JournalRolledBack,
              Settle, VerifyCommitted, BeginRestore, EndRecover
<1>2. CASE ~Step(Reviser)
  BY <1>2 DEF Fail, Abandon
<1>3. QED
  BY <1>1, <1>2

\* An editor's step, as one of the steps of FileTransaction.
LEMMA EditorKinds ==
  ASSUME EditorStep(Proc \ {Reviser}, Competing)
  PROVE  \/ \E p \in Proc \ {Reviser} :
              \/ Step(p) \/ Fail(p) \/ Abandon(p) \/ BeginRecover(p)
              \/ \E e \in Edits : BeginEdit(p, e)
         \/ Step(Reviser) \/ Fail(Reviser) \/ Abandon(Reviser)
         \/ \E f \in File : ExternalEdit(f)
BY RevisionAssumption DEF EditorStep

LEMMA NextCallInv ==
  ASSUME TypeOK, DirInv, CopyInv, CallInv, [RNext]_rvars
  PROVE  CallInv'
<1>0. noted \in Stored /\ noted' \in Stored /\ pc \in [Proc -> {"idle"} \cup CommitPhase
                                                       \cup RestorePhase \cup RecoverPhase]
  BY StepKinds DEF CallInv, TypeOK
<1>1. CASE UNCHANGED vars
  <2>1. CASE pc[Reviser] = "idle"
    BY <1>0, <1>1, <2>1 DEF CallInv, vars, CommitPhase
  <2>2. CASE pc[Reviser] # "idle"
    <3>1. place = "applying" /\ pc'[Reviser] # "idle"
      BY <1>1, <2>2 DEF CallInv, vars
    <3>2. ~Die
      BY <1>0, <1>1, <2>2, <3>1, RevisionAssumption DEF Die, Abandon, Return
    <3>3. QED
      BY <1>0, <1>1, <3>1, <3>2, WhileApplying DEF CallInv, vars, Rewritten, Inputs
  <2>3. QED
    BY <2>1, <2>2
<1>2. CASE BeginCommit
  <2>1. /\ pc'[Reviser] = "opened" /\ request'[Reviser] = Application
        /\ dir' = dir /\ place' = "applying"
    BY <1>2, RevisionAssumption DEF BeginCommit, BeginEdit, Acquire, Go, TypeOK
  <2>2. Rewritten' = Rewritten /\ Inputs' = Inputs
    BY <2>1 DEF Rewritten, Inputs
  <2>3. QED
    BY <1>0, <2>1, <2>2 DEF CallInv, Application, RecoverPhase
<1>3. CASE Abandon(Reviser)
  <2>1. pc'[Reviser] = "idle"
    BY <1>3, RevisionAssumption DEF Abandon, Return, TypeOK
  <2>2. QED
    BY <1>0, <2>1 DEF CallInv, CommitPhase
<1>4. CASE EditorStep(Proc \ {Reviser}, Competing) /\ UNCHANGED << place, noted, dir >>
  <2>0. Rewritten' = Rewritten /\ Inputs' = Inputs
    BY <1>4 DEF Rewritten, Inputs
  <2>1. CASE pc'[Reviser] = pc[Reviser] /\ request'[Reviser] = request[Reviser]
    BY <1>4, <2>0, <2>1 DEF CallInv
  <2>2. CASE Step(Reviser) \/ Fail(Reviser) \/ Abandon(Reviser)
    <3>1. pc[Reviser] \notin RecoverPhase
      BY DEF CallInv, RecoverPhase
    <3>2. QED
      BY <1>4, <2>0, <2>2, <3>1, OwnCall DEF CallInv, CommitPhase, RestorePhase
  <2>3. CASE \E f \in File : ExternalEdit(f)
    BY <2>1, <2>3 DEF ExternalEdit, locals
  <2>4. QED
    BY <1>4, <2>1, <2>2, <2>3, EditorKinds, OtherCall
<1>5. QED
  BY <1>0, <1>1, <1>2, <1>3, <1>4, StepKinds

-------------------------------------------------------------------------------
(* What the journal of an application says: JournalInv *)

\* Where its request is validated, the project is the predecessor.
LEMMA PublishJournal ==
  ASSUME IInv, DirInv, CallInv, Publish(Reviser), UNCHANGED dir
  PROVE  JournalInv'
<1> DEFINE e == request[Reviser]
<1>1. /\ Admissible(e, disk) /\ contents[Reviser] = NewContents(e, disk)
      /\ journal.new = contents[Reviser]
      /\ journal.old = [f \in Targets(e) |-> disk[f]]
  BY RevisionAssumption DEF IInv, PhaseInv, Validated, Publish, Goto
<1>2. /\ place = "applying" /\ noted \in Stored
      /\ e.append = Empty /\ e.expect = Inputs /\ DOMAIN e.write = Rewritten
      /\ \A f \in Rewritten \ {Ledger} : e.write[f] = dir.design[f]
  BY DEF CallInv, Publish, Goto, CommitPhase
<1>3. Rewritten \subseteq DOMAIN Inputs
  BY <1>2, ApplicationType DEF Replayed
<1>4. Targets(e) = Rewritten /\ \A f \in DOMAIN Inputs : disk[f] = Inputs[f]
  BY <1>1, <1>2 DEF Targets, Admissible, Empty
<1>5. /\ Targeted = Rewritten
      /\ \A f \in Rewritten : journal.old[f] = Inputs[f]
      /\ \A f \in Rewritten \ {Ledger} : journal.new[f] = dir.design[f]
      /\ \A f \in DOMAIN Inputs \ Rewritten : disk[f] = Inputs[f]
  BY <1>1, <1>2, <1>3, <1>4 DEF Targeted, NewContents
<1>6. Rewritten' = Rewritten /\ Inputs' = Inputs /\ UNCHANGED << disk, journal, dir >>
  BY DEF Rewritten, Inputs, Publish
<1>7. QED
  BY <1>5, <1>6 DEF JournalInv, Targeted

LEMMA NextJournalInv ==
  ASSUME ~ExternalWhileLocked, IInv, DirInv, CopyInv, CallInv, JournalInv, [RNext]_rvars
  PROVE  JournalInv'
<1> SUFFICES ASSUME pc'[Reviser] \in {"applying", "committed"}
             PROVE  JournalInv'
  BY DEF JournalInv
<1>0. TypeOK /\ LockInv /\ Reviser \in Proc
  BY RevisionAssumption DEF IInv, BaseInv
<1>1. pc[Reviser] # "idle"
  <2>1. CASE pc'[Reviser] = pc[Reviser]
    BY <2>1
  <2>2. CASE BeginCommit
    BY <1>0, <2>2 DEF BeginCommit, BeginEdit, Acquire, TypeOK
  <2>3. CASE Abandon(Reviser)
    BY <2>3 DEF Abandon
  <2>4. CASE EditorStep(Proc \ {Reviser}, Competing)
    <3>1. CASE Step(Reviser) \/ Fail(Reviser) \/ Abandon(Reviser)
      BY <1>0, <3>1, OwnCall DEF CallInv, RecoverPhase
    <3>2. CASE \E f \in File : ExternalEdit(f)
      BY <2>1, <3>2 DEF ExternalEdit
    <3>3. QED
      BY <1>0, <2>1, <2>4, <3>1, <3>2, EditorKinds, OtherCall
  <2>5. QED
    BY <1>0, <2>1, <2>2, <2>3, <2>4, StepKinds DEF CallInv, vars
<1>2. lock = Reviser /\ place = "applying"
  BY <1>0, <1>1 DEF LockInv, CallInv
<1>3. dir' = dir /\ Rewritten' = Rewritten /\ Inputs' = Inputs
  BY <1>2, WhileApplying DEF Rewritten, Inputs
<1>4. CASE UNCHANGED << disk, journal, pc >>
  BY <1>3, <1>4 DEF JournalInv, Targeted
<1>5. CASE Step(Reviser)
  <2>1. CASE Publish(Reviser)
    BY <1>3, <2>1, PublishJournal
  <2>2. ASSUME NEW f \in File, Apply(Reviser, f)
        PROVE  JournalInv'
    <3>1. /\ pc[Reviser] = "applying" /\ f \in todo[Reviser] /\ UNCHANGED journal
          /\ \A g \in File : g # f => disk'[g] = disk[g]
      BY <1>0, <2>2 DEF Apply, Replace, TypeOK
    <3>2. f \in Rewritten /\ DOMAIN Inputs \subseteq File
      BY <1>0, <1>2, <3>1, ApplicationType DEF IInv, BaseInv, LoopInv, JournalInv, CallInv, Replayed
    <3>3. QED
      BY <1>3, <3>1, <3>2 DEF JournalInv, Targeted
  <2>3. CASE JournalCommit(Reviser)
    BY <1>0, <1>3, <2>3 DEF JournalCommit, Goto, JournalInv, Targeted, TypeOK
  <2>4. \/ pc'[Reviser] # "applying" /\ pc'[Reviser] # "committed"
        \/ Publish(Reviser)
        \/ JournalCommit(Reviser)
        \/ \E f \in File : Apply(Reviser, f)
    BY <1>0, <1>5
    DEF Step, Validate, Refuse, Prepare, Acknowledge, JournalRollingBack, CheckRestore,
        RefuseRestore, Restore, JournalRolledBack, Settle, VerifyCommitted, BeginRestore,
        EndRecover, Goto, Return, TypeOK
  <2>5. QED
    BY <2>1, <2>2, <2>3, <2>4
<1>6. ~Fail(Reviser) /\ ~Abandon(Reviser) /\ ~BeginCommit
  BY <1>0, <1>1 DEF Fail, Abandon, BeginCommit, BeginEdit, Acquire, Goto, Return, TypeOK
<1>7. ASSUME NEW p \in Proc \ {Reviser},
             \/ Step(p) \/ Fail(p) \/ Abandon(p) \/ BeginRecover(p)
             \/ \E e \in Edits : BeginEdit(p, e)
      PROVE  FALSE
  <2>1. pc[p] = "idle" /\ lock # NoProc
    BY <1>0, <1>2, ProcessAssumption DEF LockInv
  <2>2. QED
    BY <1>7, <2>1 DEF Step, Validate, Refuse, Prepare, Publish, Apply, JournalCommit,
         Acknowledge, JournalRollingBack, CheckRestore, RefuseRestore, Restore,
         JournalRolledBack, Settle, VerifyCommitted, BeginRestore, EndRecover, Goto, Fail,
         Abandon, BeginRecover, BeginEdit, Acquire
<1>8. ASSUME NEW f \in File, ExternalEdit(f)
      PROVE  FALSE
  BY <1>0, <1>2, <1>8, ProcessAssumption DEF ExternalEdit
<1>9. QED
  BY <1>0, <1>4, <1>5, <1>6, <1>7, <1>8, StepKinds, EditorKinds DEF CallInv, vars

-------------------------------------------------------------------------------
(* Theorems *)

LEMMA InitRInv == RInit => IInv /\ DirInv /\ CopyInv /\ CallInv /\ JournalInv
<1> SUFFICES ASSUME RInit
             PROVE  IInv /\ DirInv /\ CopyInv /\ CallInv /\ JournalInv
  OBVIOUS
<1>1. IInv /\ DirInv
  BY InitIInv, InitDirInv DEF RInit, SInit
<1>2. pc[Reviser] = "idle" /\ rpc = "idle" /\ noted \in Stored
  BY RevisionAssumption DEF RInit, SInit, Init, Stored
<1>3. QED
  BY <1>1, <1>2 DEF CopyInv, CallInv, JournalInv, CommitPhase

\* What holds whenever other programs write.
LEMMA BoardInvariant == RSpec => [](BaseInv /\ DirInv /\ CopyInv /\ CallInv)
<1> DEFINE Inv == BaseInv /\ DirInv /\ CopyInv /\ CallInv
<1>1. RInit => Inv
  BY InitRInv DEF IInv
<1>2. Inv /\ [RNext]_rvars => Inv'
  <2> SUFFICES ASSUME Inv, [RNext]_rvars
               PROVE  Inv'
    OBVIOUS
  <2>1. TypeOK /\ noted \in Stored
    BY DEF BaseInv, CallInv
  <2>2. BaseInv'
    BY <2>1, StepIsEdit, NextBaseInv
  <2>3. QED
    BY <2>1, <2>2, NextDirInv, NextCopyInv, NextCallInv
<1>3. QED
  BY <1>1, <1>2, PTL DEF RSpec

\* Revisions and their applications are edits like any other's: what is proved of
\* commit_project_files and its recovery holds of a project that is revised.
THEOREM ReviserIsAnEditor == RSpec => Spec
<1>1. RInit => Init
  BY DEF RInit, SInit
<1>2. (BaseInv /\ DirInv /\ CopyInv /\ CallInv) /\ [RNext]_rvars => [Next]_vars
  BY StepIsEdit DEF BaseInv, CallInv
<1>3. QED
  BY <1>1, <1>2, BoardInvariant, PTL DEF RSpec, Spec

\* An application of a revision takes effect on all its files, the ledger of
\* accepted edits among them, or on none.
THEOREM ApplicationsAreAtomic ==
  ASSUME ~ExternalWhileLocked PROVE RSpec => EditsAreAtomic
BY ReviserIsAnEditor, Atomicity, PTL

\* A receipt is true of the candidate it names, however often its revision died.
THEOREM ReceiptsAreTrue == RSpec => []ReceiptIsTrue
<1>1. DirInv => ReceiptIsTrue
  BY DEF DirInv, BeforeInv, CandidateInv, EndInv, ReceiptIsTrue
<1>2. QED
  BY <1>1, BoardInvariant, PTL

\* A death costs an attempt only at the places named.
THEOREM DeathsAreSurvived == RSpec => []ResumableUnlessTorn
<1>1. ASSUME DirInv, dir.before # Empty, ~Terminal, ~Torn
      PROVE  MayGoOn
  <2>1. dir.done \in 1..5 /\ ~dir.blocked
    BY <1>1 DEF Torn, DirInv, Directory
  <2>2. CandidateInv /\ ~(dir.done = 1 /\ dir.design = Planned)
        /\ ~(dir.done = 3 /\ dir.fill = Absent /\ dir.design = Filled)
    BY <1>1 DEF Torn, DirInv
  <2>3. CASE dir.done = 1
    <3>1. dir.design = dir.before
      BY <1>1, <2>2, <2>3 DEF CandidateInv
    <3>2. QED
      BY <2>1, <2>3, <3>1 DEF MayGoOn, IsCurrent, Checkpointed
  <2>4. CASE dir.done = 2
    BY <1>1, <2>1, <2>2, <2>4 DEF MayGoOn, IsCurrent, Checkpointed, CandidateInv
  <2>5. CASE dir.done = 3
    BY <1>1, <2>1, <2>2, <2>5 DEF MayGoOn, IsCurrent, Checkpointed, CandidateInv
  <2>6. CASE dir.done \in {4, 5}
    BY <1>1, <2>1, <2>2, <2>6 DEF MayGoOn, IsCurrent, Checkpointed, CandidateInv
  <2>7. QED
    BY <2>1, <2>3, <2>4, <2>5, <2>6
<1>2. DirInv => ResumableUnlessTorn
  BY <1>1 DEF ResumableUnlessTorn
<1>3. QED
  BY <1>2, BoardInvariant, PTL

\* Nothing writes into the directory of a revision that has ended.
LEMMA EndStays ==
  ASSUME DirInv, Terminal, [RNext]_rvars
  PROVE  dir' = dir
<1>1. place \notin Creating \cup Working \cup {"failing"} /\ dir # NoDirectory
  BY DEF DirInv, PlaceInv, Terminal, NoDirectory
<1>2. ~CreateStep \/ dir' = dir
  BY <1>1 DEF CreateStep, Create, KeepBefore, Matched, CopyDesign, Examine, WriteCandidate,
              CheckpointCandidate, NoFill, ArchiveFill, WriteUnfilled, Refill, WriteFilled,
              CheckpointFill, CheckNatively, Block, Conclude, Raise, RecordFailure, Go,
              Creating, Working
<1>3. ApplyStep => dir' = dir
  BY DEF ApplyStep, BeginApply, MatchSource, CheckAgain, MatchAgain, NoteLedger, BeginCommit,
         EndCommit
<1>4. QED
  BY <1>2, <1>3 DEF RNext, BeginCopy, Copy, CopyRefused, Die, Resume, rvars

\* A revision that ended is never reopened.
THEOREM EndsAreFinal == RSpec => EndIsFinal
<1>1. DirInv /\ [RNext]_rvars => [Terminal => dir' = dir]_rvars
  BY EndStays
<1>2. QED
  BY <1>1, BoardInvariant, PTL DEF RSpec, EndIsFinal

\* Only the reviser's own acknowledgement ends its commit with the marker gone.
LEMMA AppliedIsAcknowledged ==
  ASSUME IInv, CallInv, noted \in Stored, [RNext]_rvars, Applied
  PROVE  Acknowledge(Reviser)
<1>0. TypeOK /\ LockInv /\ Reviser \in Proc /\ marker /\ ~marker' /\ pc[Reviser] = "committed"
  BY RevisionAssumption DEF IInv, BaseInv, Applied
<1>1. lock = Reviser /\ \A p \in Proc \ {Reviser} : pc[p] = "idle"
  BY <1>0, OthersIdle
<1>2. ~BeginCommit /\ ~Abandon(Reviser) /\ ~UNCHANGED vars
  BY <1>0 DEF BeginCommit, BeginEdit, Abandon, vars
<1>3. ASSUME NEW p \in Proc \ {Reviser},
             \/ Step(p) \/ Fail(p) \/ Abandon(p) \/ BeginRecover(p)
             \/ \E e \in Edits : BeginEdit(p, e)
      PROVE  FALSE
  BY <1>0, <1>1, <1>3, ProcessAssumption
  DEF Step, Validate, Refuse, Prepare, Publish, Apply, JournalCommit, Acknowledge,
      JournalRollingBack, CheckRestore, RefuseRestore, Restore, JournalRolledBack, Settle,
      VerifyCommitted, BeginRestore, EndRecover, Goto, Fail, Abandon, BeginRecover, BeginEdit,
      Acquire
<1>4. CASE Step(Reviser)
  BY <1>0, <1>4
  DEF Step, Validate, Refuse, Prepare, Publish, Apply, JournalCommit,
      JournalRollingBack, CheckRestore, RefuseRestore, Restore, JournalRolledBack, Settle,
      VerifyCommitted, BeginRestore, EndRecover, Goto
<1>5. ~Fail(Reviser) /\ \A f \in File : ~ExternalEdit(f)
  BY <1>0 DEF Fail, ExternalEdit
<1>6. QED
  BY <1>0, <1>2, <1>3, <1>4, <1>5, StepKinds, EditorKinds

LEMMA AppliedFits ==
  ASSUME IInv, DirInv, CallInv, JournalInv, [RNext]_rvars, Applied
  PROVE  /\ dir.checks = dir.design
         /\ Ledger \in DOMAIN dir.source \/ Project[Ledger] = Absent
         /\ \A f \in DOMAIN dir.source :
              /\ Project[f] = dir.source[f]
              /\ f # Ledger => Project'[f] = dir.design[f]
<1>1. /\ Acknowledge(Reviser) /\ TypeOK /\ Reviser \in Proc
      /\ marker /\ pc[Reviser] = "committed" /\ place = "applying"
  BY AppliedIsAcknowledged, RevisionAssumption DEF CallInv, IInv, BaseInv, Applied
<1>2. /\ AllNew
      /\ Targeted = Rewritten
      /\ \A f \in Rewritten : journal.old[f] = Inputs[f]
      /\ \A f \in Rewritten \ {Ledger} : journal.new[f] = dir.design[f]
      /\ \A f \in DOMAIN Inputs \ Rewritten : disk[f] = Inputs[f]
  BY <1>1 DEF IInv, PhaseInv, JournalInv
<1>3. Rewritten \subseteq DOMAIN Inputs /\ DOMAIN Inputs \subseteq File
  BY <1>1, ApplicationType DEF CallInv, Replayed
<1>4. \A f \in DOMAIN Inputs : Project[f] = Inputs[f]
  BY <1>1, <1>2, <1>3, MarkedProject DEF AllNew, Touched
<1>5. \A f \in File : Project'[f] = disk[f]
  BY <1>1 DEF Acknowledge, Project
<1>6. ASSUME NEW f \in DOMAIN dir.source, f # Ledger
      PROVE  disk[f] = dir.design[f]
  <2>1. CASE f \in Rewritten
    BY <1>2, <1>6, <2>1 DEF AllNew
  <2>2. CASE f \notin Rewritten
    BY <1>2, <2>2 DEF Rewritten, Inputs
  <2>3. QED
    BY <2>1, <2>2
<1>7. dir.checks = dir.design
  BY <1>1 DEF DirInv, PlaceInv, EndInv, Replays, Replayed
<1>8. QED
  BY <1>3, <1>4, <1>5, <1>6, <1>7 DEF Inputs

\* While other programs keep out of a locked call, what is applied is a candidate
\* that passed its checks, and it replaces the predecessor it was made from.
THEOREM ApplicationsFit == ASSUME ~ExternalWhileLocked PROVE RSpec => AppliedOnPredecessor
<1> DEFINE Inv == IInv /\ DirInv /\ CopyInv /\ CallInv /\ JournalInv
<1>1. RInit => Inv
  BY InitRInv
<1>2. Inv /\ [RNext]_rvars => Inv'
  <2> SUFFICES ASSUME Inv, [RNext]_rvars
               PROVE  Inv'
    OBVIOUS
  <2>1. TypeOK /\ noted \in Stored
    BY DEF IInv, BaseInv, CallInv
  <2>2. IInv'
    BY <2>1, StepIsEdit, NextIInv
  <2>3. QED
    BY <2>1, <2>2, NextDirInv, NextCopyInv, NextCallInv, NextJournalInv
<1>3. Inv /\ [RNext]_rvars =>
        [Applied =>
           /\ dir.checks = dir.design
           /\ Ledger \in DOMAIN dir.source \/ Project[Ledger] = Absent
           /\ \A f \in DOMAIN dir.source :
                /\ Project[f] = dir.source[f]
                /\ f # Ledger => Project'[f] = dir.design[f]]_rvars
  BY AppliedFits
<1>4. QED
  BY <1>1, <1>2, <1>3, PTL DEF RSpec, AppliedOnPredecessor

-------------------------------------------------------------------------------
(* Types *)

PlaceType ==
  place \in {"idle", "copied", "working", "written", "filling", "filled", "merged",
             "failing", "checking", "noting", "committing", "applying"}
            \cup Creating \cup Applying

LEMMA NextPlaceType ==
  ASSUME PlaceType, [RNext]_rvars
  PROVE  PlaceType'
<1> USE DEF PlaceType, Creating, Applying, Go
<1>1. CASE CreateStep
  BY <1>1 DEF CreateStep, Create, KeepBefore, Matched, CopyDesign, Examine, WriteCandidate,
              CheckpointCandidate, NoFill, ArchiveFill, WriteUnfilled, Refill, WriteFilled,
              CheckpointFill, CheckNatively, Block, Conclude, Raise, RecordFailure
<1>2. CASE ApplyStep
  BY <1>2 DEF ApplyStep, BeginApply, MatchSource, Matched, CheckAgain, MatchAgain, NoteLedger,
              BeginCommit, EndCommit
<1>3. QED
  BY <1>1, <1>2 DEF RNext, BeginCopy, Copy, CopyRefused, Die, Resume, rvars

\* The loops of a copy run over the files it asked for, and an idle reader has none.
ReaderInv ==
  /\ STypeOK
  /\ rpc \in {"idle", "complete"} => seen = Empty
  /\ rpc = "idle" => copy = Nothing
  /\ rpc = "collecting" => left \subseteq copy.closure \cup copy.ifExists
  /\ rpc = "extras" => left \subseteq copy.extra

\* What a copy names are files.
LEMMA CopyType ==
  ASSUME copy \in Copies \cup {Nothing}
  PROVE  copy.closure \subseteq File /\ copy.ifExists \subseteq File /\ copy.extra \subseteq File
BY SnapshotAssumption DEF Nothing

LEMMA ForgetReaderInv ==
  ASSUME Forget
  PROVE  ReaderInv'
BY EmptyPartial DEF Forget, GiveUp, ReaderInv, STypeOK, Nothing

LEMMA CopyStepReaderInv ==
  ASSUME TypeOK, ReaderInv, CopyStep
  PROVE  ReaderInv'
<1> USE DEF Pass
<1>0. /\ copy.closure \subseteq File /\ copy.ifExists \subseteq File /\ copy.extra \subseteq File
      /\ DOMAIN seen \subseteq copy.closure \cup copy.ifExists \cup copy.extra
      /\ seen \in Partial /\ left \subseteq File
  BY CopyType DEF ReaderInv, STypeOK
<1>1. CASE StartRetain \/ Reread \/ Retained \/ TakeExtras \/ Recheck \/ Rehash \/ ReturnCopy
  BY <1>0, <1>1 DEF ReaderInv, STypeOK, StartRetain, Reread, Retained, TakeExtras, Recheck,
                    Rehash, ReturnCopy, Move
<1>2. ASSUME NEW f \in File, Take(f)
      PROVE  ReaderInv'
  <2>1. /\ rpc \in {"collecting", "extras"} /\ f \in left /\ disk[f] \in Stored
        /\ UNCHANGED << rpc, copy, views, reverted >> /\ left' = left \ {f}
        /\ seen' = [g \in DOMAIN seen \cup {f} |-> IF g = f THEN disk[f] ELSE seen[g]]
    BY <1>2 DEF Take, TypeOK
  <2>2. f \in copy.closure \cup copy.ifExists \cup copy.extra
    BY <2>1 DEF ReaderInv
  <2>3. seen' \in Partial /\ DOMAIN seen' = DOMAIN seen \cup {f}
    <3>1. \A g \in DOMAIN seen : seen[g] \in Stored
      BY <1>0, PartialDomain
    <3>2. DOMAIN seen \cup {f} \in SUBSET File /\ seen' \in [DOMAIN seen \cup {f} -> Stored]
      BY <1>0, <2>1, <3>1
    <3>3. QED
      BY <3>2, PartialFunction
  <2>4. QED
    BY <1>0, <2>1, <2>2, <2>3 DEF ReaderInv, STypeOK
<1>3. ASSUME NEW f \in File, Skip(f) \/ Compare(f)
      PROVE  ReaderInv'
  BY <1>0, <1>3 DEF ReaderInv, STypeOK, Skip, Compare
<1>4. QED
  BY <1>1, <1>2, <1>3 DEF CopyStep

\* With or without a marker the project is one content or none per file.
LEMMA ProjectType ==
  ASSUME TypeOK
  PROVE  Project \in [File -> Stored]
BY UnmarkedProject, MarkedProject DEF TypeOK

LEMMA StartReaderInv ==
  ASSUME TypeOK, ReaderInv, NEW c \in Copies, StartCopy(c)
  PROVE  ReaderInv'
<1>1. {Project} \subseteq [File -> Stored]
  BY ProjectType
<1>2. /\ rpc = "idle" /\ rpc' = "complete" /\ copy' = c
      /\ views' = {Project} /\ reverted' = FALSE /\ UNCHANGED << seen, left >>
  BY DEF StartCopy
<1>3. seen = Empty /\ left \subseteq File
  BY <1>2 DEF ReaderInv, STypeOK
<1>4. QED
  BY <1>1, <1>2, <1>3, EmptyPartial DEF ReaderInv, STypeOK

LEMMA BeginCopyReaderInv ==
  ASSUME TypeOK, DirInv, ReaderInv, BeginCopy
  PROVE  ReaderInv'
<1> DEFINE c == [closure |-> Closure, ifExists |-> {Ledger}, extra |-> DOMAIN dir.source]
<1>1. c \in Copies
  <2>1. dir # NoDirectory
    BY SomeDirectory DEF BeginCopy, Creating, Applying
  <2>2. DOMAIN dir.source \in SUBSET (Closure \cup {Ledger})
    BY <2>1, SourceFacts DEF DirInv
  <2>3. QED
    BY <2>2, RevisionAssumption
<1>2. QED
  BY <1>1, StartReaderInv DEF BeginCopy

LEMMA EditorReaderInv ==
  ASSUME TypeOK', ReaderInv, NEW Editors, NEW Wanted, EditorStep(Editors, Wanted)
  PROVE  ReaderInv'
<1>1. views' \subseteq [File -> Stored]
  <2>1. \A f \in Targeted' : journal'.old[f] \in Stored
    BY PartialDomain DEF TypeOK, Targeted
  <2>2. Project' \in [File -> Stored]
    BY <2>1 DEF TypeOK, Project
  <2>3. QED
    BY <2>2 DEF EditorStep, ReaderInv, STypeOK
<1>2. reverted' \in BOOLEAN
  BY DEF EditorStep, ReaderInv, STypeOK, PutBack
<1>3. QED
  BY <1>1, <1>2 DEF EditorStep, reader, ReaderInv, STypeOK

LEMMA NextReaderInv ==
  ASSUME TypeOK, TypeOK', DirInv, ReaderInv, [RNext]_rvars
  PROVE  ReaderInv'
<1>1. CASE UNCHANGED << reader, views, reverted >>
  BY <1>1 DEF reader, ReaderInv, STypeOK
<1>2. CASE Forget
  BY <1>2, ForgetReaderInv
<1>3. CASE EditorStep(Proc \ {Reviser}, Competing)
  BY <1>3, EditorReaderInv
<1>4. CASE CreateStep \/ ApplyStep
  BY <1>1, <1>2, <1>4
  DEF CreateStep, ApplyStep, Create, KeepBefore, Matched, Use, CopyDesign, Examine,
      WriteCandidate, CheckpointCandidate, NoFill, ArchiveFill, WriteUnfilled, Refill,
      WriteFilled, CheckpointFill, CheckNatively, Block, Conclude, Raise, RecordFailure,
      BeginApply, MatchSource, CheckAgain, MatchAgain, NoteLedger, BeginCommit, EndCommit,
      Private, svars
<1>5. CASE BeginCopy
  BY <1>5, BeginCopyReaderInv
<1>6. CASE Copy
  BY <1>6, CopyStepReaderInv DEF Copy
<1>7. CASE CopyRefused \/ Die
  BY <1>2, <1>7 DEF CopyRefused, Reject, Use, Die
<1>8. CASE Resume \/ UNCHANGED rvars
  BY <1>1, <1>8 DEF Resume, Private, svars, rvars
<1>9. QED
  BY <1>3, <1>4, <1>5, <1>6, <1>7, <1>8 DEF RNext

\* The places of the reviser, the records it leaves and what its copies hold have
\* their types, whoever else edits.
THEOREM RevisionTypeCorrect == RSpec => []RTypeOK
<1>1. RInit => ReaderInv /\ PlaceType
  BY EmptyPartial DEF RInit, SInit, ReaderInv, STypeOK, PlaceType
<1>2. TypeOK /\ TypeOK' /\ DirInv /\ ReaderInv /\ PlaceType /\ [RNext]_rvars
        => ReaderInv' /\ PlaceType'
  BY NextReaderInv, NextPlaceType
<1>3. BaseInv => TypeOK
  BY DEF BaseInv
<1>4. DirInv /\ CallInv /\ ReaderInv /\ PlaceType => RTypeOK
  BY DEF DirInv, CallInv, ReaderInv, PlaceType, RTypeOK
<1>5. QED
  BY <1>1, <1>2, <1>3, <1>4, BoardInvariant, PTL DEF RSpec

-------------------------------------------------------------------------------
(* Copies of the project: SInv *)

\* What a transaction retains is what it finds on disk, and only a transaction
\* that is prepared can be published.
LEMMA Retention ==
  ASSUME TypeOK, [Next]_vars
  PROVE  \/ \E p \in Proc : Prepare(p)
         \/ /\ journal'.old = journal.old
            /\ (marker' \/ \E p \in Proc : pc'[p] = "prepared")
                 => (marker \/ \E p \in Proc : pc[p] = "prepared")
<1> USE DEF TypeOK, Goto, Return, Acquire, locals
<1>1. ASSUME NEW p \in Proc, Step(p), ~Prepare(p)
      PROVE  /\ journal'.old = journal.old
             /\ (marker' \/ \E q \in Proc : pc'[q] = "prepared")
                  => (marker \/ \E q \in Proc : pc[q] = "prepared")
  BY <1>1 DEF Step, Validate, Refuse, Publish, Apply, JournalCommit, Acknowledge,
              JournalRollingBack, CheckRestore, RefuseRestore, Restore, JournalRolledBack,
              Settle, VerifyCommitted, BeginRestore, EndRecover
<1>2. CASE \E p \in Proc : BeginRecover(p) \/ \E e \in Edits : BeginEdit(p, e)
  BY <1>2 DEF BeginRecover, BeginEdit
<1>3. CASE Fault \/ UNCHANGED vars
  BY <1>3 DEF Fault, Fail, Abandon, ExternalEdit, LosePayload, vars
<1>4. QED
  BY <1>1, <1>2, <1>3 DEF Next

\* While a call restores, files only change to what its journal retained.
LEMMA WhileRestoring ==
  ASSUME ~ExternalWhileLocked, IInv, NEW p \in Proc, pc[p] = "restoring", [Next]_vars,
         NEW f \in File, disk'[f] # disk[f]
  PROVE  marker /\ f \in Targeted /\ disk'[f] = journal.old[f]
<1>0. /\ TypeOK /\ lock = p /\ lock # NoProc /\ todo[p] \subseteq Targeted /\ marker
      /\ \A q \in Proc : q # p => pc[q] = "idle"
  BY OthersIdle, ProcessAssumption DEF IInv, BaseInv, LoopInv, PhaseInv, RestorePhase
<1>1. ASSUME NEW q \in Proc, Step(q)
      PROVE  q = p /\ \E g \in File : Restore(p, g)
  <2>1. q = p
    BY <1>0, <1>1 DEF Step, Validate, Refuse, Prepare, Publish, Apply, JournalCommit, Acknowledge,
                      JournalRollingBack, CheckRestore, RefuseRestore, Restore, JournalRolledBack,
                      Settle, VerifyCommitted, BeginRestore, EndRecover, Goto
  <2>2. QED
    BY <1>1, <2>1 DEF Step, Validate, Refuse, Prepare, Publish, Apply, JournalCommit, Acknowledge,
                      JournalRollingBack, CheckRestore, RefuseRestore, JournalRolledBack,
                      Settle, VerifyCommitted, BeginRestore, EndRecover, Goto
<1>2. \E g \in File : Restore(p, g)
  BY <1>0, <1>1 DEF Next, Fault, Fail, Abandon, ExternalEdit, LosePayload, BeginRecover, BeginEdit,
                    Goto, vars
<1>3. QED
  BY <1>0, <1>2 DEF Restore, Replace, TypeOK

\* A file that differs from what was read of it, and that no rollback puts back,
\* goes on to do so.
LEMMA GoesOnToDiffer ==
  ASSUME ~ExternalWhileLocked, IInv, [Next]_vars, UNCHANGED seen,
         PutBack => \E p \in Proc : pc[p] = "restoring",
         NEW f \in DOMAIN seen, f \in File, disk[f] # seen[f], Spared(f)
  PROVE  disk'[f] # seen'[f] /\ Spared(f)'
<1>1. disk'[f] # seen[f]
  <2>1. CASE \E p \in Proc : pc[p] = "restoring"
    BY <2>1, WhileRestoring DEF Spared
  <2>2. CASE ~PutBack
    BY <2>2 DEF PutBack
  <2>3. QED
    BY <2>1, <2>2
<1>2. Spared(f)'
  <2>1. CASE \E p \in Proc : Prepare(p)
    BY <2>1 DEF Prepare, Spared, Targeted
  <2>2. CASE ~\E p \in Proc : Prepare(p)
    BY <2>2, Retention DEF Spared, Targeted, IInv, BaseInv
  <2>3. QED
    BY <2>1, <2>2
<1>3. QED
  BY <1>1, <1>2

LEMMA EditorSInv ==
  ASSUME ~ExternalWhileLocked, IInv, STypeOK, ViewInv, RehashInv,
         NEW Editors \in SUBSET Proc, NEW Wanted \in SUBSET Edits, EditorStep(Editors, Wanted)
  PROVE  ViewInv' /\ RehashInv'
<1>0. [Next]_vars /\ UNCHANGED << rpc, copy, seen, left >>
  BY DEF EditorStep, Next, Fault, reader
<1>1. ViewInv'
  BY <1>0 DEF EditorStep, ViewInv
<1>2. RehashInv'
  <2> SUFFICES ASSUME rpc' \in {"rehashing", "returned"}, ~reverted'
               PROVE  \E v \in views' : \A f \in DOMAIN seen' :
                        \/ seen'[f] = v[f]
                        \/ rpc' = "rehashing" /\ f \in left' /\ disk'[f] # seen'[f] /\ Spared(f)'
    BY DEF RehashInv
  <2>1. /\ rpc \in {"rehashing", "returned"} /\ ~reverted
        /\ PutBack => \E p \in Proc : pc[p] = "restoring"
        /\ views \subseteq views'
    BY <1>0 DEF EditorStep
  <2>2. PICK v \in views : \A f \in DOMAIN seen :
          \/ seen[f] = v[f]
          \/ rpc = "rehashing" /\ f \in left /\ disk[f] # seen[f] /\ Spared(f)
    BY <2>1 DEF RehashInv
  <2>3. ASSUME NEW f \in DOMAIN seen, seen[f] # v[f]
        PROVE  rpc' = "rehashing" /\ f \in left' /\ disk'[f] # seen'[f] /\ Spared(f)'
    <3>1. f \in File
      BY PartialDomain DEF STypeOK
    <3>2. QED
      BY <1>0, <2>1, <2>2, <2>3, <3>1, GoesOnToDiffer
  <2>4. QED
    BY <1>0, <2>1, <2>2, <2>3
<1>3. QED
  BY <1>1, <1>2

\* At the second look the project is what is on disk, and what a transaction
\* retains by then is what is on disk.
LEMMA RehashSInv ==
  ASSUME IInv, STypeOK, ViewInv, Rehash
  PROVE  RehashInv'
<1>1. /\ ~marker /\ UNCHANGED << vars, seen, views, reverted >> /\ rpc # "idle"
      /\ rpc' = "rehashing" /\ left' = DOMAIN seen /\ seen \in Partial
  BY DEF Rehash, Move, STypeOK
<1>2. Project = disk
  BY <1>1, UnmarkedProject DEF IInv, BaseInv, TypeOK
<1>3. ASSUME NEW f \in DOMAIN seen, disk[f] # seen[f]
      PROVE  Spared(f)'
  <2>1. ASSUME NEW p \in Proc, pc[p] = "prepared", f \in Targeted
        PROVE  journal.old[f] = disk[f]
    <3>1. journal.old = [g \in Targets(request[p]) |-> disk[g]]
      BY <2>1 DEF IInv, PhaseInv
    <3>2. QED
      BY <2>1, <3>1 DEF Targeted
  <2>2. QED
    BY <1>1, <1>3, <2>1 DEF Spared, vars, Targeted
<1>4. ~reverted => disk' \in views'
  BY <1>1, <1>2 DEF ViewInv, vars
<1>5. QED
  BY <1>1, <1>3, <1>4 DEF RehashInv, vars

\* The copies of the reader, one step each.
LEMMA CopySInv ==
  ASSUME IInv, STypeOK, ViewInv, RehashInv, CopyStep
  PROVE  ViewInv' /\ RehashInv'
<1>0. UNCHANGED << vars, views, reverted >> /\ rpc # "idle"
  BY DEF CopyStep, StartRetain, Reread, Retained, TakeExtras, Recheck, Rehash, ReturnCopy, Move,
         Take, Skip, Compare
<1>1. ViewInv'
  BY <1>0 DEF ViewInv, vars, Project, Targeted
<1>2. CASE Rehash
  BY <1>1, <1>2, RehashSInv
<1>3. CASE ReturnCopy
  BY <1>0, <1>1, <1>3 DEF ReturnCopy, Move, RehashInv
<1>4. ASSUME NEW f \in File, Compare(f)
      PROVE  RehashInv'
  BY <1>0, <1>4 DEF Compare, RehashInv, vars, Spared, Targeted
<1>5. CASE StartRetain \/ Reread \/ Retained \/ TakeExtras \/ Recheck
           \/ \E f \in File : Take(f) \/ Skip(f)
  BY <1>1, <1>5 DEF StartRetain, Reread, Retained, TakeExtras, Recheck, Move, Take, Skip, RehashInv
<1>6. QED
  BY <1>1, <1>2, <1>3, <1>4, <1>5 DEF CopyStep

LEMMA IdleSInv ==
  ASSUME rpc' = "idle"
  PROVE  ViewInv' /\ RehashInv'
BY DEF ViewInv, RehashInv

LEMMA StartSInv ==
  ASSUME NEW c, StartCopy(c)
  PROVE  ViewInv' /\ RehashInv'
BY DEF StartCopy, ViewInv, RehashInv, vars, Project, Targeted

\* A reader beside any editors.
THEOREM AnyCopyIsOneProject == ASSUME ~ExternalWhileLocked PROVE SSpec => []CopyIsOneProject
<1> DEFINE Inv == IInv /\ ReaderInv /\ ViewInv /\ RehashInv
<1>1. SInit => Inv
  BY InitIInv, EmptyPartial DEF SInit, ReaderInv, STypeOK, ViewInv, RehashInv
<1>2. Inv /\ [SNext]_svars => Inv'
  <2> SUFFICES ASSUME Inv, [SNext]_svars
               PROVE  Inv'
    OBVIOUS
  <2>0. TypeOK /\ STypeOK
    BY DEF IInv, BaseInv, ReaderInv
  <2>1. [Next]_vars
    BY DEF SNext, ReaderStep, CopyStep, StartRetain, Reread, Retained, TakeExtras, Recheck, Rehash,
           ReturnCopy, Move, Take, Skip, Compare, Reject, Use, StartCopy, EditorStep, Next, Fault,
           svars
  <2>2. IInv' /\ TypeOK'
    BY <2>1, NextIInv DEF IInv, BaseInv
  <2>3. CASE CopyStep
    BY <2>0, <2>2, <2>3, CopyStepReaderInv, CopySInv
  <2>4. CASE Reject \/ Use
    BY <2>2, <2>4, ForgetReaderInv, IdleSInv DEF Reject, Use, Forget, GiveUp
  <2>5. ASSUME NEW c \in Copies, StartCopy(c)
        PROVE  Inv'
    BY <2>0, <2>2, <2>5, StartReaderInv, StartSInv
  <2>6. CASE EditorStep(Proc, Edits)
    BY <2>0, <2>2, <2>6, EditorReaderInv, EditorSInv
  <2>7. CASE UNCHANGED svars
    BY <2>2, <2>7 DEF svars, vars, reader, ReaderInv, STypeOK, ViewInv, RehashInv, Project, Spared,
                      Targeted
  <2>8. QED
    BY <2>3, <2>4, <2>5, <2>6, <2>7 DEF SNext, ReaderStep
<1>3. Inv => CopyIsOneProject
  BY DEF RehashInv, CopyIsOneProject, Matches
<1>4. QED
  BY <1>1, <1>2, <1>3, PTL DEF SSpec

\* The steps of the reviser are reads, or leave the project and its readers alone.
LEMMA RevisionSInv ==
  ASSUME ~ExternalWhileLocked, IInv, STypeOK, DirInv, CopyInv, CallInv, ViewInv, RehashInv,
         [RNext]_rvars
  PROVE  ViewInv' /\ RehashInv'
<1>1. CASE UNCHANGED << vars, reader, views, reverted >>
  BY <1>1 DEF vars, reader, ViewInv, RehashInv, Project, Spared, Targeted
<1>2. CASE Forget
  BY <1>2, IdleSInv DEF Forget, GiveUp
<1>3. CASE EditorStep(Proc \ {Reviser}, Competing)
  <2>1. Proc \ {Reviser} \in SUBSET Proc /\ Competing \in SUBSET Edits
    BY RevisionAssumption
  <2>2. QED
    BY <1>3, <2>1, EditorSInv
<1>4. CASE (CreateStep \/ ApplyStep) /\ ~BeginCommit
  BY <1>1, <1>2, <1>4
  DEF CreateStep, ApplyStep, Create, KeepBefore, Matched, Use, CopyDesign, Examine,
      WriteCandidate, CheckpointCandidate, NoFill, ArchiveFill, WriteUnfilled, Refill,
      WriteFilled, CheckpointFill, CheckNatively, Block, Conclude, Raise, RecordFailure,
      BeginApply, MatchSource, CheckAgain, MatchAgain, NoteLedger, EndCommit, Private, svars
<1>5. CASE BeginCommit
  BY <1>5, IdleSInv DEF BeginCommit, Go, reader, CopyInv, Creating, Applying
<1>6. CASE BeginCopy
  BY <1>6, StartSInv DEF BeginCopy
<1>7. CASE Copy
  BY <1>7, CopySInv DEF Copy
<1>8. CASE CopyRefused \/ Die
  BY <1>2, <1>8 DEF CopyRefused, Reject, Use, Die
<1>9. CASE Resume \/ UNCHANGED rvars
  BY <1>1, <1>9 DEF Resume, Private, svars, rvars
<1>10. QED
  BY <1>3, <1>4, <1>5, <1>6, <1>7, <1>8, <1>9 DEF RNext, ApplyStep, CreateStep

\* While other programs keep out of a locked call, a copy that a revision works on
\* or an application compares is the project of one instant, whatever edits,
\* rollbacks, deaths and recoveries ran while it was made.
THEOREM CopiesAreOneProject == ASSUME ~ExternalWhileLocked PROVE RSpec => []CopyIsOneProject
<1>1. RInit => SInv
  BY InitRInv DEF RInit, SInit, SInv, ViewInv, RehashInv
<1>2. SInv /\ BaseInv /\ DirInv /\ CopyInv /\ CallInv /\ RTypeOK /\ [RNext]_rvars => SInv'
  BY StepIsEdit, NextIInv, RevisionSInv DEF SInv, BaseInv, CallInv, RTypeOK
<1>3. SInv => CopyIsOneProject
  BY DEF SInv, RehashInv, CopyIsOneProject, Matches
<1>4. QED
  BY <1>1, <1>2, <1>3, BoardInvariant, RevisionTypeCorrect, PTL DEF RSpec
================================================================================
