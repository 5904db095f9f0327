----------------------------- MODULE BoardRevision -----------------------------
(***************************************************************************)
(* A local revision of a board (board_revision.py) and the checkpointed    *)
(* workflow it runs in (iterative_fixing_workflow.py), beside the editors  *)
(* of FileTransaction and reading the project as ProjectSnapshot does.     *)
(*                                                                         *)
(* create_board_revision copies the project into a directory of its own,   *)
(* works on a second copy in five steps, each with a checkpoint, compares  *)
(* the project with what it copied, and leaves revision.json or            *)
(* failure.json. A revision that died without either is resumed from its   *)
(* checkpoint. apply_board_revision replays the directory, compares the    *)
(* project twice, with fresh native checks in between, and commits the     *)
(* changed files with one more line in the ledger of accepted edits.       *)
(*                                                                         *)
(* The directory is private to the revision. Candidates are deterministic  *)
(* functions of the predecessor, and so is KiCad's fill of their zones;    *)
(* whether native checks pass is not.                                      *)
(***************************************************************************)
EXTENDS ProjectSnapshot, Naturals

CONSTANTS
  Reviser,       \* the process that revises and applies, one of Proc
  Competing,     \* what the others ask of commit_project_files
  Board,         \* the board file
  Ledger,        \* .pcbsmith/accepted-board-edits.json
  Closure,       \* the native files of the project, Board among them
  IsLedger(_),   \* is this content a ledger of accepted edits?
  Entry,         \* the line an application appends
  Request,       \* requests: the files they rewrite and whether zones are refilled
  NoRequestYet,  \* there is no revision directory
  Revised(_),    \* a content with the requested edits made
  Refilled(_)    \* a board with its declared zones filled by KiCad

ASSUME RevisionAssumption ==
  /\ Reviser \in Proc
  /\ Edits = EditRequest /\ Competing \subseteq Edits
  /\ Board \in Closure /\ Closure \subseteq File /\ Ledger \in File \ Closure
  /\ Entry \in Line
  /\ \A e \in SUBSET (Closure \cup {Ledger}) :
       [closure |-> Closure, ifExists |-> {Ledger}, extra |-> e] \in Copies
  /\ Request \subseteq [files : SUBSET Closure, refill : BOOLEAN]
  /\ \A r \in Request : Board \in r.files
  /\ NoRequestYet \notin Request
  /\ \A c \in Content : Revised(c) \in Content /\ Refilled(c) \in Content

VARIABLES
  place,    \* where the reviser is: its locals, lost when it dies
  noted,    \* the ledger it read for the application
  dir       \* the revision directory

rvars == << svars, place, noted, dir >>

Verdict == {"none", "no_change", "digitally_checked_candidate", "blocked_candidate"}

Creating == {"copying", "confirming"}
Applying == {"matching", "rematching"}

\* source: request.source_inputs; done, blocked: the checkpoint; checks: the
\* files that the retained native checks passed on.
NoDirectory ==
  [ request |-> NoRequestYet, source |-> Empty, before |-> Empty, design |-> Empty,
    fill |-> Absent, done |-> 0, blocked |-> FALSE, checks |-> Empty,
    verdict |-> "none", failure |-> FALSE ]

Directory ==
  [ request : Request \cup {NoRequestYet}, source : Partial, before : Partial,
    design : Partial, fill : Stored, done : 0..5, blocked : BOOLEAN,
    checks : Partial, verdict : Verdict, failure : BOOLEAN ]

RTypeOK ==
  /\ STypeOK
  /\ place \in {"idle", "copied", "working", "written", "filling", "filled", "merged",
                "failing", "checking", "noting", "committing", "applying"}
               \cup Creating \cup Applying
  /\ noted \in Stored
  /\ dir \in Directory

RInit == SInit /\ place = "idle" /\ noted = Absent /\ dir = NoDirectory

-------------------------------------------------------------------------------
(* Helpers *)

Terminal == dir.verdict # "none" \/ dir.failure

\* The files of the project a request names: the ledger only where it exists.
Named == Closure \cup {f \in {Ledger} : disk[f] # Absent}

\* _plan_revision_delta: the files rewritten by the edits.
Planned == [f \in DOMAIN dir.before |-> IF f \in dir.request.files THEN Revised(dir.before[f])
                                                                   ELSE dir.before[f]]

\* merge_verified_fill on the planned board.
Filled == [Planned EXCEPT ![Board] = Refilled(@)]

Final == IF dir.request.refill THEN Filled ELSE Planned

Go(from, to) == place = from /\ place' = to

\* What a step leaves alone besides the project and its readers.
Private == UNCHANGED << svars, noted >>

\* A checkpoint after an accepted step of the workflow.
Checkpoint(n) == dir' = [dir EXCEPT !.done = n]

-------------------------------------------------------------------------------
(* Copies of the project *)

\* _copy_context and _inspect_request: the closure, and the files of source_inputs.
BeginCopy ==
  /\ place \in Creating \cup Applying
  /\ StartCopy([closure |-> Closure, ifExists |-> {Ledger}, extra |-> DOMAIN dir.source])
  /\ UNCHANGED << place, noted, dir >>

Copy == CopyStep /\ UNCHANGED << place, noted, dir >>

\* A copy that is refused, or that differs from source_inputs, fails a revision
\* and ends an application.
CopyRefused ==
  /\ Reject \/ (Use /\ seen # dir.source)
  /\ place' = IF place \in Creating THEN "failing" ELSE "idle"
  /\ UNCHANGED << noted, dir >>

\* A copy that equals source_inputs.
Matched(from, to) == Go(from, to) /\ Use /\ seen = dir.source /\ UNCHANGED noted

-------------------------------------------------------------------------------
(* create_board_revision *)

\* A fresh output directory, for a request made of the project as it is now: its
\* inputs were just compared, file by file, and are compared again by the copy. A
\* fresh attempt would have a directory of its own; other editors stand for it.
Create(r) ==
  /\ dir = NoDirectory
  /\ ~marker /\ \A f \in Closure : disk[f] # Absent
  /\ Go("idle", "copying")
  /\ dir' = [NoDirectory EXCEPT !.request = r, !.source = [f \in Named |-> disk[f]]]
  /\ Private

\* A copy that died half-way leaves a partial before/, here none.
KeepBefore ==
  /\ Matched("copying", "copied")
  /\ dir' = [dir EXCEPT !.before = seen]

CopyDesign ==
  /\ Go("copied", "working")
  /\ dir' = [dir EXCEPT !.design = dir.before]
  /\ Private

-------------------------------------------------------------------------------
(* run_iterative_fix_workflow, its five steps in their order *)

\* IF1, the diagnosis, and IF3, the placement, change nothing.
Examine(n) ==
  /\ n \in {1, 3}
  /\ Go("working", "working") /\ dir.done = n - 1
  /\ Checkpoint(n)
  /\ Private

\* IF2: the candidate is written, in one replacement or in a journaled edit of
\* the directory; a death within that edit and one after it end alike.
WriteCandidate ==
  /\ Go("working", "written") /\ dir.done = 1
  /\ dir' = [dir EXCEPT !.design = Planned]
  /\ Private

CheckpointCandidate == Go("written", "working") /\ Checkpoint(2) /\ Private

\* IF4 of a request without zones.
NoFill ==
  /\ Go("working", "working") /\ dir.done = 3 /\ ~dir.request.refill
  /\ Checkpoint(4)
  /\ Private

\* IF4: a fill left by an interrupted run is put aside.
ArchiveFill ==
  /\ Go("working", "working") /\ dir.done = 3 /\ dir.fill # Absent
  /\ dir' = [dir EXCEPT !.fill = Absent]
  /\ Private

WriteUnfilled ==
  /\ Go("working", "filling")
  /\ dir.done = 3 /\ dir.request.refill /\ dir.fill = Absent
  /\ dir' = [dir EXCEPT !.design[Board] = Planned[Board]]
  /\ Private

Refill ==
  /\ Go("filling", "filled")
  /\ dir' = [dir EXCEPT !.fill = Refilled(dir.design[Board])]
  /\ Private

WriteFilled ==
  /\ Go("filled", "merged")
  /\ dir' = [dir EXCEPT !.design[Board] = dir.fill]
  /\ Private

\* Faulty variant: the checkpoint may be written before the filled candidate.
CheckpointFillEarly == place \in {"filled", "merged"} /\ place' = "working" /\ Checkpoint(4) /\ Private

CheckpointFill == Go("merged", "working") /\ Checkpoint(4) /\ Private

\* IF5: native checks of the candidate, made again if a run was interrupted; a
\* revision that changes nothing is not checked.
CheckNatively ==
  /\ Go("working", "confirming") /\ dir.done = 4
  /\ \E passed \in BOOLEAN :
       dir' = [dir EXCEPT !.done = 5,
                          !.checks = IF passed /\ dir.design # dir.before
                                     THEN dir.design ELSE Empty]
  /\ Private

\* An exception in a step, or an envelope exhausted: the checkpoint is terminal.
Block ==
  /\ place \in {"working", "written", "filling", "filled", "merged"}
  /\ place' = "failing"
  /\ dir' = [dir EXCEPT !.blocked = TRUE]
  /\ Private

-------------------------------------------------------------------------------
(* The end of a revision, its death and its resumption *)

\* revision.json, if the project still is what was copied.
Conclude ==
  /\ Matched("confirming", "idle")
  /\ dir' = [dir EXCEPT !.verdict = IF dir.design = dir.before THEN "no_change"
                                    ELSE IF dir.checks # Empty THEN "digitally_checked_candidate"
                                    ELSE "blocked_candidate"]

\* Any other exception of create_board_revision.
Raise ==
  /\ place \in Creating \cup {"copied"}
  /\ place' = "failing"
  /\ Forget
  /\ UNCHANGED << vars, noted, dir >>

\* failure.json.
RecordFailure ==
  /\ Go("failing", "idle")
  /\ dir' = [dir EXCEPT !.failure = TRUE]
  /\ Private

\* The reviser is killed or interrupted; before the journal of its commit, the
\* errors of an application end the same way. Its directory stays.
Die ==
  /\ place # "idle" /\ place' = "idle" /\ noted' = Absent
  /\ Forget
  /\ IF pc[Reviser] = "idle" THEN UNCHANGED vars ELSE Abandon(Reviser)
  /\ UNCHANGED dir

\* The candidate that the last accepted step left.
Checkpointed == CASE dir.done < 2        -> dir.before
                  [] dir.done \in {2, 3} -> Planned
                  [] OTHER               -> Final

\* Faulty variant: a filled board is only expected after its checkpoint.
IsCurrentAtCheckpoint == dir.design = Checkpointed

\* The candidate must be what the checkpoint says, or hold the retained fill.
IsCurrent == dir.design = Checkpointed \/ (dir.fill # Absent /\ dir.design = Filled)

\* _verify_checkpoint and the comparisons with the candidate.
MayGoOn == dir.done > 0 /\ ~dir.blocked /\ IsCurrent

\* Faulty variant: a recorded failure is no obstacle.
ResumeFailed ==
  /\ dir.before # Empty /\ dir.verdict = "none"
  /\ ~marker /\ \A f \in DOMAIN dir.source : disk[f] = dir.source[f]
  /\ Go("idle", IF ~MayGoOn THEN "failing" ELSE IF dir.done = 5 THEN "confirming" ELSE "working")
  /\ UNCHANGED dir
  /\ Private

Resume ==
  /\ dir.before # Empty /\ ~Terminal
  /\ ~marker /\ \A f \in DOMAIN dir.source : disk[f] = dir.source[f]
  /\ Go("idle", IF ~MayGoOn THEN "failing" ELSE IF dir.done = 5 THEN "confirming" ELSE "working")
  /\ UNCHANGED dir
  /\ Private

-------------------------------------------------------------------------------
(* apply_board_revision *)

\* replay_board_revision: the directory computed again from its request.
Replays ==
  /\ dir.verdict = "digitally_checked_candidate"
  /\ dir.before = dir.source
  /\ dir.design = Final
  /\ dir.done = 5 /\ ~dir.blocked

BeginApply ==
  /\ Replays
  /\ Go("idle", "matching")
  /\ UNCHANGED dir
  /\ Private

MatchSource == Matched("matching", "checking") /\ UNCHANGED dir

\* Fresh native checks of the candidate, which may fail now.
CheckAgain ==
  /\ place = "checking" /\ place' \in {"rematching", "idle"}
  /\ UNCHANGED dir
  /\ Private

MatchAgain == Matched("rematching", "noting") /\ UNCHANGED dir

\* The ledger is read without the lock; "unsupported accepted-edit journal".
NoteLedger ==
  /\ place = "noting"
  /\ IF disk[Ledger] = Absent \/ IsLedger(disk[Ledger])
     THEN place' = "committing" /\ noted' = disk[Ledger]
     ELSE place' = "idle" /\ UNCHANGED noted
  /\ UNCHANGED << svars, dir >>

\* The files that change, the ledger among them.
Rewritten == {f \in DOMAIN dir.source : dir.design[f] # dir.source[f]} \cup {Board, Ledger}

\* Faulty variant: a ledger that was not there is not expected to be absent.
InputsWithoutLedger == dir.source

\* The digests an application expects: the inputs of the request, and no ledger
\* if there was none.
Inputs ==
  [f \in DOMAIN dir.source \cup {Ledger} |->
     IF f \in DOMAIN dir.source THEN dir.source[f] ELSE Absent]

Application ==
  [ write      |-> [f \in Rewritten |-> IF f = Ledger THEN Extended(noted, Entry)
                                                      ELSE dir.design[f]],
    append     |-> Empty,
    expect     |-> Inputs,
    createOnly |-> FALSE ]

BeginCommit ==
  /\ Go("committing", "applying") /\ noted' = Absent
  /\ BeginEdit(Reviser, Application)
  /\ UNCHANGED << reader, views, reverted, dir >>

\* commit_project_files returned or raised.
EndCommit ==
  /\ pc[Reviser] = "idle"
  /\ Go("applying", "idle")
  /\ UNCHANGED dir
  /\ Private

-------------------------------------------------------------------------------
CreateStep ==
  \/ \E r \in Request : Create(r)
  \/ KeepBefore \/ CopyDesign
  \/ \E n \in 1..5 : Examine(n)
  \/ WriteCandidate \/ CheckpointCandidate
  \/ NoFill \/ ArchiveFill \/ WriteUnfilled \/ Refill \/ WriteFilled \/ CheckpointFill
  \/ CheckNatively \/ Block \/ Conclude \/ Raise \/ RecordFailure

ApplyStep ==
  \/ BeginApply \/ MatchSource \/ CheckAgain \/ MatchAgain
  \/ NoteLedger \/ BeginCommit \/ EndCommit

RNext ==
  \/ BeginCopy \/ Copy \/ CopyRefused
  \/ CreateStep \/ ApplyStep
  \/ Die \/ Resume
  \/ EditorStep(Proc \ {Reviser}, Competing) /\ UNCHANGED << place, noted, dir >>

RSpec == RInit /\ [][RNext]_rvars

-------------------------------------------------------------------------------
(* Properties *)

\* A receipt is true: the candidate is what the request makes of the predecessor
\* it names, all of it went through the workflow, and the checks it reports
\* passed were made of this candidate, however often the revision died.
ReceiptIsTrue ==
  dir.verdict # "none" =>
    /\ dir.before = dir.source /\ dir.design = Final
    /\ dir.done = 5 /\ ~dir.blocked /\ ~dir.failure
    /\ dir.verdict = "digitally_checked_candidate" => dir.checks = dir.design

\* What a revision ended with stays: no resumption reopens it, and nothing in its
\* directory changes.
EndIsFinal == [][Terminal => dir' = dir]_rvars

\* An interrupted revision can be resumed (its project unchanged), but for the
\* places where a death is known to cost the attempt: before the first
\* checkpoint, between the candidate or the failed step and its checkpoint, and
\* while a second run of the fill puts the first one aside.
Torn ==
  \/ dir.done = 0
  \/ dir.blocked
  \/ dir.done = 1 /\ dir.design = Planned
  \/ dir.done = 3 /\ dir.fill = Absent /\ dir.design = Filled

ResumableUnlessTorn ==
  dir.before # Empty /\ ~Terminal => MayGoOn \/ Torn

\* The commit of an application, as it is acknowledged.
Applied == pc[Reviser] = "committed" /\ place = "applying" /\ marker /\ ~marker'

\* What is applied is a candidate that passed its checks, and it replaces exactly
\* the predecessor it was made from, the ledger included (no accepted edit is
\* dropped from it), whoever else edited the project meanwhile.
AppliedOnPredecessor ==
  [][Applied =>
       /\ dir.checks = dir.design
       /\ Ledger \in DOMAIN dir.source \/ Project[Ledger] = Absent
       /\ \A f \in DOMAIN dir.source :
            /\ Project[f] = dir.source[f]
            /\ f # Ledger => Project'[f] = dir.design[f]]_rvars

\* The ledger an application installs is the one it replaces, with its entry: a
\* concurrent change of the ledger prevents the application.
LedgerGrowsByOne ==
  [][Applied => Project'[Ledger] = Extended(Project[Ledger], Entry)]_rvars

-------------------------------------------------------------------------------
(* The inductive invariants *)

\* What the directory says of the project it was made from.
SourceInv ==
  \/ dir = NoDirectory /\ place = "idle"
  \/ /\ dir.request \in Request
     /\ dir.source \in [Closure -> Content] \cup [Closure \cup {Ledger} -> Content]

\* Either there is no predecessor yet, and nothing else, or it is the one named.
BeforeInv ==
  IF dir.before = Empty
  THEN dir = [NoDirectory EXCEPT !.request = dir.request, !.source = dir.source,
                                 !.failure = dir.failure]
  ELSE dir.before = dir.source

\* The candidate at each checkpoint, wherever the revision died.
CandidateInv ==
  dir.before # Empty =>
    /\ dir.done = 0 => dir.design \in {Empty, dir.before}
    /\ dir.done = 1 => dir.design \in {dir.before, Planned}
    /\ dir.done = 2 => dir.design = Planned
    /\ dir.done = 3 => dir.design = Planned \/ (dir.request.refill /\ dir.design = Filled)
    /\ dir.done \in {4, 5} => dir.design = Final
    /\ dir.checks # Empty => dir.done = 5 /\ dir.checks = dir.design

EndInv ==
  dir.verdict # "none" =>
    /\ dir.before # Empty /\ dir.done = 5 /\ ~dir.blocked /\ ~dir.failure
    /\ dir.verdict = "digitally_checked_candidate" => dir.checks = dir.design

Working  == {"copied", "working", "written", "filling", "filled", "merged"}
Replayed == Applying \cup {"checking", "noting", "committing", "applying"}

\* What the reviser knows of its directory at each place.
PlaceInv ==
  /\ place \in Creating \cup Working \cup {"failing"} => ~Terminal
  /\ place = "copying" => dir.before = Empty
  /\ place \in Working \cup {"confirming"} => dir.before # Empty /\ ~dir.blocked
  /\ place = "copied" => dir.done = 0 /\ dir.design = Empty
  /\ place = "working" => dir.done # 0 \/ dir.design = dir.before
  /\ place = "written" => dir.done = 1 /\ dir.design = Planned
  /\ place \in {"filling", "filled", "merged"} => dir.done = 3 /\ dir.request.refill
  /\ place \in {"filling", "filled"} => dir.design = Planned
  /\ place = "filled" => dir.fill = Refilled(Planned[Board])
  /\ place = "merged" => dir.design = Filled
  /\ place = "confirming" => dir.done = 5
  /\ place \in Replayed => Replays

DirInv == dir \in Directory /\ SourceInv /\ BeforeInv /\ CandidateInv /\ EndInv /\ PlaceInv

\* It copies the project at these places only.
CopyInv == rpc # "idle" => place \in Creating \cup Applying

\* The reviser's call of commit_project_files, until it fails.
CallInv ==
  /\ noted \in Stored
  /\ pc[Reviser] # "idle" => place = "applying" /\ pc[Reviser] \notin RecoverPhase
  /\ pc[Reviser] \in CommitPhase \ {"failed"} =>
       LET e == request[Reviser] IN
         /\ e.append = Empty /\ e.expect = Inputs /\ DOMAIN e.write = Rewritten
         /\ \A f \in Rewritten \ {Ledger} : e.write[f] = dir.design[f]

\* What its journal says of the predecessor and the candidate.
JournalInv ==
  pc[Reviser] \in {"applying", "committed"} =>
    /\ Targeted = Rewritten
    /\ \A f \in Rewritten : journal.old[f] = Inputs[f]
    /\ \A f \in Rewritten \ {Ledger} : journal.new[f] = dir.design[f]
    /\ \A f \in DOMAIN Inputs \ Rewritten : disk[f] = Inputs[f]

RInv == IInv /\ DirInv /\ CopyInv /\ CallInv /\ JournalInv
================================================================================
