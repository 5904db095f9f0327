# Verification of PCBSmith's stateful core

PCBSmith generates, edits and reviews KiCad boards. Most of its code is pure: intermediate
representations, calculators, generators. What is hard to test in it is the code that keeps
state on disk while several processes, crashes, clocks and other programs act on it: the
journaled project edit, the ledger of a board job and the worker processes it supervises, the
publication of board generations with the callers that publish, the transactions of the bus
router, and the readers beside them. This directory holds TLA+ models of that code, the TLC runs that
check them on small instances, and TLAPS proofs of their main properties for every instance.

`PROJECT.json` lists the components, runs, mutants, findings, hazards and theorems, and maps
every definition to the lines it translates. Paths below are relative to `src/src/pcbsmith/`.

    tlc -workers 2 -config MCBoardJob.cfg MCBoardJob      # a run
    tlapm BoardJobProofs.tla                              # the proofs of a module

## 1. The system

| component | state | operations | talks to |
|---|---|---|---|
| Project file transactions, `operations/file_transaction.py` | project files; `.pcbsmith/edit.lock`, `pending-edit.json`, a transaction directory with journal and payloads | `commit_project_files`, `recover_project_files`, `require_complete_project` | every editor (`project_io`, board revision, native edits); the lock is also the job ledger's |
| Project copies, `kicad/project_dependencies.py`, `board_revision.py:177-206` | locals only | `retain_native_project`, `_copy_context`, `_require_inputs` | reads project files and the pending marker without the lock |
| Board job, `board_job.py` | `.pcbsmith/board-job.json`, predecessor files of continuations and of user decisions | start, snapshot, claim, finish_attempt, correction, begin/complete_diagnostic, stop, resume, local correction, annotation completion, continue_authorized | supervisors, workers and users call it in any order; wall and monotonic clocks |
| Supervised execution, `execution.py`, `run_operation` of `board_job.py` | one worker process tree, its logs and result | launch, handshake, poll, terminate, settle | claims and finishes attempts of the job; kills its worker |
| Generation transaction, `production_workflow.py` | `CURRENT.json`, its temporary file, `.staging`, `generations`, `failed` | `commit_generation_transaction`, `resolve_current_generation`; persist, revise, inspect and route as callers | runs in a supervised worker; the inspection permit checks beside it |
| Inspection completion, `inspection_completion.py` | authorization; attempt, failure, resumption and result records | authorize, permit, complete, resume | follows a finished job; publishes through the generation transaction |
| Routing candidate, `kicad/routing_candidate_transaction.py` | the retained candidate directories | search, validate, publish or reject, retain, report | publishes through the generation transaction; reads the pointer before and after |
| Bus transactions, `kicad/bus_transaction.py`, `bus_checked_commit.py`, `group_board.py` | occupancy ledger (`negotiated_resources.py`) and route map in memory | replace, checked commit, group commit, release of a retained candidate | callbacks of the caller; group negotiation |
| Group negotiation, `kicad/group_negotiation.py` | private clone of ledger and routes, budgets | passes of rip-up and search, until nothing is overused | searches by callback |
| Board revision, `board_revision.py` | a directory per revision: request, copies of the project, fill, checks, `revision.json` or `failure.json`; `.pcbsmith/accepted-board-edits.json` | create, resume, replay, apply | copies the project without its lock; applies through the file transaction |
| Iterative fix workflow, `iterative_fixing_workflow.py` | a checkpoint | run and resume five steps, promote | runs a revision's steps by callback |
| Workflow authority | an identity ledger | transition, replace an identity | boards on disk |
| Edit history, raster cache, attempt journal, evidence cache | undo/redo stacks; cache directories; an append-only log | push/undo/redo; rasterize; append | UI, review, agent |
| Everything else | none | pure functions, or I/O around the above | |

The behaviours that are hard: processes and programs interleaving on the same files with only
advisory locks; death of a process between any two writes; writes that fail, including those of
an error handler; readers that take no lock; two clocks, one of which may go back; budgets that
must survive any long sequence of legal calls; a worker that outlives its supervisor's patience.

What makes each component correct:

- *file transaction*: an edit is all or nothing, across failures and deaths; nobody else's edit is
  overwritten; a commit that was journaled is not taken back; a project does not stay blocked;
- *copies*: what is copied is the project of one instant;
- *revisions*: a receipt is true of its candidate, whatever died on the way; what is applied replaces
  exactly the predecessor it was made and checked for; an interrupted revision goes on, a finished one never;
- *board job*: no sequence of calls overdraws a budget; a requested review stops further building;
  a job that finished or stopped for good stays so; what a user may authorize can be recorded;
- *publication*: `CURRENT.json` always resolves, only to verified artifacts, which stay as they
  are; what is reported rolled back is not current;
- *publishers*: one process publishes at a time, though publication locks nothing; every publication
  succeeds the one it was made from; a finished job gets its authorized successor and no other; what
  results and records say of the pointer is so;
- *supervision*: a settled attempt leaves nobody at work, two workers are never rivals, a verdict is
  about a process that has ended, every lease is settled or was lost with its supervisor;
- *bus transactions*: ledger and route map change together or not at all; what is accepted is what
  was checked; a bus is routed whole or not; negotiation ends.

## 2. Modules

    ProjectEdit          requests and their meaning           (file_transaction.py 171-204)
     |- AtomicEdit       abstract: a multi-file edit is one step
     `- FileTransaction  lock, journal, marker, recovery      (file_transaction.py)
         `- ProjectSnapshot   a reader beside the editors     (project_dependencies.py, board_revision.py 177-206)
             `- BoardRevision make, resume, apply a revision  (board_revision.py, iterative_fixing_workflow.py)
    AttemptLedger        abstract: what a job's ledger promises about attempts and the job's status
    JobLedger            the record, _check, the audit        (board_job.py 336-576, 932-968)
     `- BoardJob         the operations                       (board_job.py)
    SupervisedRun             attempts and their processes    (board_job.py 2307-2430, execution.py)
    GenerationTransaction     publication                     (production_workflow.py 1277-1460)
     |- RoutingCandidate      a route and its publication     (routing_candidate_transaction.py)
     |- InspectionCompletion  the successor of a finished job (inspection_completion.py)
     `- BoardPublication      both of these and the job's other callers, composed
    Occupancy                 ledger and route map            (negotiated_resources.py)
     |- RouteBoard            abstract: a request takes effect at once or not at all
     `- GroupNegotiation      passes on a private clone       (group_negotiation.py)
         `- BusTransaction    the coordinators                (bus_transaction.py, bus_checked_commit.py, group_board.py)
    FileTransactionProofs, RevisionProofs, BoardJobProofs, SupervisionProofs,
    GenerationProofs, PublicationProofs, OccupancyProofs, BusProofs
    MC*                  instances for TLC

### FileTransaction

`disk`, `marker`, `journal` and `damaged` are what survives on disk; `pc`, `request`, `contents`,
`todo` are the locals of a call and die with it (`Abandon`). Each write of the code is an action:
payloads and journal (`Prepare`; they are written to a new directory nothing refers to yet, so a
death among them leaves nothing a reader meets), the marker, each `os.replace` of a target
(`Apply`, `Restore`), each rewriting of the journal, the unlinking. `Fail` is an exception inside
the `try`, in any of its steps, after which the handler's steps run; `Abandon` is a death, or an
I/O error no handler rolls back. `ExternalEdit` is a program that takes no lock (KiCad, version
control). `AtomicEdit` is what callers are promised, and `Project`/`Pending` the refinement
mapping: while an edit is pending, a target that holds its old or new content counts as old.

A digest is modelled by the content it identifies (no SHA-256 collisions); `atomic_write` installs
all or, after four attempts, raises and installs nothing; the JSON of the journal and the confinement
of paths are left out. The lock is not waited for: a refused call has no effect and is no action.

### ProjectSnapshot

One reader beside the editors, one action per file read, so that it interleaves with every replacement
of an edit. `views` records the projects a reader could have relied on since the copy began. A
comparison of digests cannot see a file that was changed and changed back between the two reads. Editors may
do that here: `reverted` notes that a new edit or another program wrote again what the present copy had
read of a file, and `CopyIsOneProject` is about the other copies. A rollback, which puts files back by design, is not
noted: the property must hold in spite of it. `retain_native_project` looks at the marker once, before its
first read, and so does `native_project_hashes`, which may therefore digest the half of an edit;
`_copy_context` looks again (`Rehash`), which is what makes its copies whole: without it (`RehashDigests`, the mutant of
`CopyIsOneProject`) they are mixes. Lost payloads, which only make a recovery refuse, are left out.

### BoardRevision

One process (`Reviser`) makes, resumes and applies a revision of a project that other processes edit, roll
back, recover and leave half-edited, as `FileTransaction` lets them; its copies of the project are
`ProjectSnapshot`'s. `dir` is the revision directory, which survives: the request with the digests of its
inputs, `before/`, `design/`, the retained fill, the last accepted step of the workflow, the files the native
checks passed on, and how it ended. `place` and `noted` are locals. Each write of the directory and each
comparison with the project is an action, `Die` is possible at every place, and so is a resumption after
it, any number of times. `Application` is the request of `commit_project_files`, whose steps the reviser then takes.

What the code makes of a candidate is taken as a function of the predecessor and the request
(`Revised`, `Refilled`), which is what the code relies on when it compares a candidate with its plan computed
again. The verdict of native checks is arbitrary each time. Merged: the candidate
of step IF2, one replacement or a journaled edit of a directory nobody else uses; a partly written `before/`,
which ends like none; the comparisons that precede the creation of the directory and of a resumption.
A resumption asks the workflow for the checkpoint, so a death that leaves a candidate no checkpoint
explains ends the attempt for good. `ResumableUnlessTorn` says that the four places listed in `Torn` are
the only ones: before the first checkpoint; between the candidate, or a failed step, and its
checkpoint; and in a second run of the fill, after it put the first fill aside. KiCad saves the filled board
in place (`--save-board`); the save is taken as atomic, as the code's comment (730) does. A death of KiCad
within it that tears the file would be a fifth place: the merge of the resumption (731-734) could not read it.

### JobLedger, BoardJob

Every operation reads, checks and saves the record under the project lock, so each is one action,
with `_check` (`Checked`, `Allowed`) inside. A call that raises `JobStopped` still saves what `_check`
did; a record the pydantic validators refuse is not saved (`Write`), and as validators run on each
assignment, a refused assignment changes nothing. `job.scopes` unites the job as started and its
continuations, as the code's `active_*` properties do. Two decisions write a file before the ledger;
the process may end in between (`Extend`, `Continue`).

`wall` is the wall clock, which may be set back and corrected; `elapsed` what a long-lived process
reads, since `_now` is anchored once and then monotonic; a call may read either (`Now`). `overdrawn`
is a history variable: the kinds of calls that *built* a record over its budgets, even if the save then
refused it (`Audited`): an operation or continuation, a local correction, an annotation completion.
That is how `BudgetsHold` checks the guards of the calls against the audit, rather than the audit
against itself. It says that only an annotation completion can do so, and only in a job with a scope
that has spent a retry other than the edit's (`RetrySpent`): the completion overwrites the scope's retries
with the edit's, so the attempt that used one is left without its grant. `AnnotationRecorded`, which
asks that such a completion be saved, is violated (section 4).

Left out: launcher and worker identities of an attempt, evidence files (a request bound to changed
files is a call without effect), jobs without the routing policy, and the one-stage recoveries
(pre-native, placement follow-up, final render, adapter and backend repair).

`AttemptLedger` is the promise without times, budgets, scopes and diagnostics: attempts run one at a time and
only while the job is active, a verdict is given once, a job goes on after a stop only when nothing runs, and a
finished one never. `BoardJob` implements it (an attempt's name is its token), and so does the small ledger inside
`SupervisedRun` (an attempt's name is its call), so the two models of one record agree on what the
supervisors rely on. `LedgerKept` is this refinement in both.

### SupervisedRun

One process per call of `run_operation`. `attempt`, `ready` and `tree` are what others see: the ledger's
attempt, the recorded launcher with its receipt, and the two processes that matter, the launched one and
one descendant (the interpreter behind a venv launcher, or a router that a worker runs). `run` is what
the runner holds (nothing, a process, its contained tree) and the termination it will report. Every
read of the ledger is an action of its own, since the job may be stopped, resumed or run out of time
between any two of them: `Preflight`, `Claim`, `Prepare` (the time limit), `Contain` (the launch is
recorded), `Stop` (each poll), `Finish` and `Settle`. `Interrupt` is the operator's Ctrl-C, in every
place, the clean-up included; `Crash` the death of a supervisor, which on one platform ends the tree
and on the other leaves it. A ledger call may find the lock busy.

Merged into one action each: the launch record with the receipt (`Contain`), `result.json` with the
settlement (`Finish`). `Complete` and `Continue` are the operator's `stop(finished=True)` and the new scope of
`continue_authorized`; a job in `failed` has stopped for good, unless it gets one. A poll that finds the process alive changes nothing (`Sleep`). The second check of a
worker inside the library and its `worker_pid` are left out: the launcher that redirects never asks. Of the
job only its status and the time left are kept; `BoardJob` has the rest. Left out too: an `OSError` while
emitting the heartbeat (`execution.py:307-315`), which the handler of line 330 reports as "unavailable" before the
clean-up of every other end. It would be one more way into that clean-up; no property depends on it.

### GenerationTransaction

One action per step of `commit_generation_transaction`: the permit's checks, the comparison with the
current pointer, staging, each artifact, the committed manifest, the move among the generations, the
temporary pointer, the swap; then the handler's three steps after a failure. `Leave` is a worker
killed before any step, or an exception outside the `try` or in the handler; `Fail` an exception in
the `try`. Either may leave the temporary pointer half-written (`Tear`). The four kinds of callers differ in when they read the pointer (`Begin`, `Bind`)
and in the permit (`Check`, `Recheck`). A pointer is the pair of the generation and the publisher,
as the manifest's fingerprint in it identifies the publication.

Writing a manifest is one step; so is writing the temporary pointer, but for the tear. Effects of two
processes that write through open handles to one file at once are left out, and so is the branch of
the handler (1390-1392) for a generation that is in neither place, which no execution reaches: nothing
else removes a directory. Artifacts are written in any order.

### RoutingCandidate, InspectionCompletion, BoardPublication

`BoardPublication` puts every caller that publishes below one transaction root beside the others. A
worker of the job (`Builder`) publishes placements and revisions (`Call`) and routes (`RouteStep`);
other processes complete inspections. Their calls go on with the steps of `GenerationTransaction`
(`Proceed`), so all interleave, fail and die in any of them. Publication locks nothing. That it has
one writer rests on: the claim, which admits one running attempt (`Claimed`; `SupervisedRun!NoRival`
is the evidence that a settled attempt has nobody at work, interrupted clean-ups apart); the refusal to
finish a job with a running attempt (`Finish`); and the creation of `attempt.json` or `resumption.json`
under the lock, each once (`Take`), after checks made without it (`Open`). `stop` does not wait for the
worker (`Cancel`): the worker is then refused at its next check (`Admitted`), or is past it and publishes.

`route[w]` is the call of `run_routing_candidate_transaction` with `pointer_before` and the status it will
report. Every exit is an action: rejected, committed, rolled back, raised, and `Forsake` for a candidate
that cannot be retained (its place is taken), after which the caller has an exception, the publication
stands and the evidence is gone. The model has the general case, in which callers choose candidate identities;
the production route gives each run a fresh root. `authorization` is the grant, `records` the
other files beside it, `clerk[w]` a call of `complete`. A death between `mkdir` and the grant leaves a
directory without grant for ever (`Halted`). The decisions, artifacts, digests and allowances of time that the
permit compares are refusals: any step that checks them may raise. The ledger's digest is not compared:
no call writes the ledger of a finished job again.

### Occupancy, GroupNegotiation, BusTransaction

A ledger is the two indexes of `OccupancyLedger`, by net and by resource, as the code keeps both; loops over
distinct nets are one operator on a set, as no control is given up in them. A fingerprint covers the
index by net and is modelled by it. `BusTransaction` has one thread: an action runs from one callback
(search, builder, materializer, exact checker) to the next. What a callback returns is arbitrary, and so
is what it writes to the ledger and the routes that are live meanwhile (`Returned`, bounded by `Stray`), except in
`replace`, whose production searches only return a bundle. `Provisional` is the board kept for the
materializer and the checker, `Undo` the restoration. A retained candidate (`Authorities`) was complete and without overuse
beside the claims of its time, and may be released on a board that has moved on (`bus_replay_checked_commit`,
the physical swap; the plain replay is `replace` with a fixed answer). `GroupNegotiation` runs its passes on a
private clone and compares the caller's board after every search. Requests refused before they have an
effect are no action; costs and the chosen bundles are left out. A search that wrote to both boards and
raised is reported with the caller's board as the search left it (`broken`); such a board is not used again.

`RouteBoard` is what callers are promised; `CallsAreAtomic` is the refinement, with the board of a
pending call mapped to the one the call began with.

## 3. Runs

| run | instance | what it shows |
|---|---|---|
| `file_transaction` | 2 processes, 2 files, 3 requests (replace both against a loaded board; replace and append; create) | `IInv` with its conjunct `TypeOK`; the edit refines `AtomicEdit`; outside edits kept; a committed edit kept; interrupted edits settle |
| `board_revision` | 1 reviser, 1 other editor, a board and its ledger; requests with and without zones; another application and its inverse; outside writes of either file | `CopyIsOneProject`, `ReceiptIsTrue`, `ResumableUnlessTorn`, `EndIsFinal`, `AppliedOnPredecessor` |
| `ledger_race` (violation) | same | an application commits the entry of an edit that was rolled back |
| `job_budgets` | 2 build operations (routing, edit), 4 attempts, 3 scopes, 3 requests, time stands still | `BudgetsHold` |
| `annotation_retry` (violation) | same operations, 3 attempts, 2 scopes, 1 request | an annotation completion that passes every check cannot be saved |
| `job_clocks` | 1 routing operation, 2 attempts, 2 scopes, time to 4, clock set back | `ReviewHoldsBuilds`, `HardStopsHold`; refines `AttemptLedger` (`LedgerKept`) |
| `clock_halt` (violation) | same | a clock stop is relabelled and continued |
| `missed_review` (violation) | same, clock not set back | a recovery that passes every check cannot be saved |
| `supervision` | 2 calls, one of them a build, 2 processes each; stop, resume, completion, continuation, deadline, interrupts, crashes, busy locks | `SettledIsQuiet`, `NoRival`, `VerdictIsFinal`; `AttemptsSettle`; refines `AttemptLedger` (`LedgerKept`) |
| `publication` | 1 worker of the job, 2 processes completing its inspection, 3 generations, 2 artifacts, 2 route candidates | `VerifiedBeforeNamed`, `CurrentResolves`, `PublishedImmutable`, `PublishersTakeTurns`, `EachSucceedsItsSource`, `SuccessorIsAuthorized`, `RecordsAreTrue`, `ReportsAreTrue`, `RolledBackIsNotCurrent` |
| `bus_transactions` | a bus of 2 nets and 1 other net, 3 resources, 3 routes, 1 standing obstacle | `LedgersIndexed`, `RoutesHoldTheirClaims`, `BusesAreWhole`, `RetainedFits`, `AcceptedAsChecked`; refines `RouteBoard`; `CallsEnd` |
| `shared_pointer` (violation) | 2 workers, 2 generations | a rolled back generation is current |

Why the bounds are enough to be of interest:

- *files*: two targets, one absent at first, give every half-way state (none, one, both replaced) and
  the deletion that undoes a creation; two processes give a recovery after, and a refusal during,
  another's call. A third process could only be refused, as the lock admits one.
- *copies*: a mix needs two files and one edit of both, as an application is; its inverse gives a second edit,
  begun after the first was settled within one copy.
- *revision*: a board and its ledger are the two files every application changes. The other editor's application
  and its inverse bring the project away from the predecessor and back to its board with a longer ledger, which
  is the case `AppliedOnPredecessor` is about; the creation of the ledger by the first gives the case of a
  ledger that was absent. One directory is enough, as a revision reads no other. Ledgers are told apart up to three entries.
- *job*: budgets are counted per operation, but one scope may grant retries of several, and a user decision
  about the edit rewrites them all; so there are two build operations, the one with the limit of 2
  (routing) and the one that local corrections and annotation completions are about (edit). Three scopes
  give a retry named by a scope that is itself continued, four attempts a routing and its retry beside an
  edit and its retry. In this instance annotation completions do build records over the budgets, so the exception
  in `BudgetsHold` is met. Verification, which no budget counts, is in the runs with clocks. Their
  seconds are coarse: 4 is past a deadline (2 + 1) and past the window of a review made after it.
- *supervision*: two calls are a worker and its rival; one is a build, which the verification reserve
  stops, the other is not. One descendant is enough for a tree that outlives its root.
- *publication*: three generations are one that is current, one that failed or was left by a killed
  worker, and one that is being published; two artifacts give a partly written generation. One worker
  is what the claim leaves; two completions race for the attempt, and the one resumption comes after it.
  Two candidates give a taken place. Which of a job's workers has the attempt does not matter to the
  files; the proofs are for any number of them. Two workers at once (`shared_pointer`) arise when two jobs
  use one root, or when a clean-up was interrupted (`execution.py:336`).
- *bus transactions*: a resource holds one claim, so two nets on one resource are overuse; a bus of two is
  the smallest that can be half routed; the third net is the neighbour whose claims must survive, and the
  obstacle a claim without a route. Three passes, one without progress, one unit of work and one per
  target reach every way a negotiation ends. Callbacks write one net's route each time they misbehave.

`MaxTime`, `MaxAttempts` and `MaxScopes` are the only counters cut for TLC; each is a guard of one
action (the `Max...` of the negotiation are budgets of the code). Symmetry is used for inputs,
generations, files, workers, completions and candidates, and in no run with liveness. Deadlock is not checked
where the system ends: when both calls of `supervision` are done, when a finished job has no
generation to complete or its completion is used up, and on a broken route board.

Fairness. `file_transaction`: `WF(Step(p))` says that a process that holds the lock goes on (it runs
straight-line code; a process that stops is `Abandon`, which is allowed). `SF(BeginRecover(p))` is an
assumption about the user, who asks again when told that recovery is needed or that the project is busy.
The property is moreover conditional: faults cease (`<>[][~Fault]_vars`). `supervision`:
`WF(Supervise(c))` says that a supervisor that is alive and not interrupted goes on; the poll loop compares
a monotonic clock with a limit, so it finds the limit passed at last, and the waits of the clean-up are
limited (30 seconds). Workers, which may hang, the operator and the job's own clock owe nothing.
`bus_transactions`: `WF(Continue)` says that the thread goes on and that callbacks return. The other
specifications state no fairness, and only safety is checked of them.

## 4. Findings

- `ledger_race`: `apply_board_revision` reads the ledger of accepted edits without the lock and without
  looking at the marker (958-963), and installs what it read plus its entry, under the expectation of
  the request's digest. If another application has replaced the ledger and is rolled back before the commit
  compares, the digest fits again, and the entry of an edit that never took effect is committed.
- `annotation_retry`: `authorize_annotation_completion` replaces the scope's `retry_failed_operations` by the
  edit's alone (1073). If the scope has already used the retry of a routing, the audit finds that attempt
  without a grant and refuses the record at the end of the call. Nothing is authorized, and since the
  predecessor file is there (1089), every further call is refused as a second one (1066).
- `clock_halt`: `_check` runs on stopped jobs too and overwrites `stop_kind`, so a job stopped for an
  inconsistent clock, which no continuation may follow, becomes one stopped at its deadline, which may.
- `missed_review`: a review after the deadline gets a window past the reserve; the audit tolerates it
  only while the job is stopped, so the continuation the review is for cannot be saved.
- `shared_pointer`: the temporary pointer has one name for every call and the comparison with
  `CURRENT.json` is not one step with its replacement. With two workers below one root, one publishes
  the other's pointer. Nothing but the sharing is needed for it: with publishers that take turns
  `RolledBackIsNotCurrent` holds (run `publication`; `SingleRolledBack` and `BoardRolledBack` prove it).

## 5. Proofs

For every value of the constants:

| theorem | states | assumes |
|---|---|---|
| `FileTransactionProofs!TypeCorrect`, `BaseCorrect` | types; the lock; the loops | nothing |
| `FileTransactionProofs!PhasesCorrect` | `[]IInv` | `~ExternalWhileLocked` |
| `FileTransactionProofs!ForeignKept`, `CommitKept` | `NoForeignOverwrite`, `CommittedEditKept` | `~ExternalWhileLocked` |
| `FileTransactionProofs!Atomicity` | `Spec => EditsAreAtomic` | `~ExternalWhileLocked` |
| `RevisionProofs!RevisionTypeCorrect`, `ReceiptsAreTrue`, `DeathsAreSurvived`, `EndsAreFinal` | `RTypeOK`, `ReceiptIsTrue`, `ResumableUnlessTorn`, `EndIsFinal` | nothing: any project, request and editors |
| `RevisionProofs!ReviserIsAnEditor` | `RSpec => Spec` of `FileTransaction` | nothing |
| `RevisionProofs!ApplicationsAreAtomic`, `ApplicationsFit` | `RSpec => EditsAreAtomic`; `AppliedOnPredecessor` | `~ExternalWhileLocked` |
| `RevisionProofs!CopiesAreOneProject`, `AnyCopyIsOneProject` | `CopyIsOneProject`, for the copies of a revision and for any one reader | `~ExternalWhileLocked` |
| `BoardJobProofs!TypeCorrect`, `BudgetsAlwaysHold`, `ReviewsHoldBuilds`, `HardStops` | types; `BudgetsHold`, with its exception; `ReviewHoldsBuilds`; `HardStopsHold` | nothing: any limits, requests and clocks, any number of attempts and scopes |
| `BoardJobProofs!JobKeepsLedger`, `SupervisionProofs!LedgerIsKept` | `Spec => LedgerKept` | nothing |
| `GenerationProofs!TypeCorrect`, `VerifiedFirst` | types; `VerifiedBeforeNamed` | nothing: any number of workers |
| `GenerationProofs!SingleResolves`, `SinglePreserves`, `SingleRolledBack` | `CurrentResolves`, `PublishedImmutable`, `RolledBackIsNotCurrent` | one worker |
| `PublicationProofs!BoardTypeCorrect`, `TurnsAreTaken`, `NoneIsLost`, `OnlyTheAuthorized`, `RecordsTrue`, `ReportsTrue` | types; the properties of `BoardPublication` | nothing: any number of workers and completions |
| `PublicationProofs!BoardVerified`, `BoardResolves`, `BoardPreserves`, `BoardRolledBack` | as for one worker, now for all callers together | nothing |
| `PublicationProofs!CallersPublish` | `BoardSpec => Spec` of `GenerationTransaction` | nothing |
| `SupervisionProofs!TypeCorrect`, `SettledAttemptIsQuiet`, `WorkersHaveNoRival`, `VerdictsAreFinal` | as named | nothing: any number of calls |
| `OccupancyProofs!OveruseIsExact` | `overuse` finds nothing in the index exactly if no two nets claim one resource | finite nets and resources |
| `BusProofs!TypeCorrect`, `IndexesAgree`, `ClaimsFollowRoutes`, `BusesStayWhole`, `CheckedIsAccepted`, `RetainedCandidatesFit` | as named | nothing: any nets, buses, routes, budgets and writes of callbacks |
| `BusProofs!CallsTakeEffectAtOnce` | `Spec => CallsAreAtomic` | nothing |

*File transaction.* Types alone are not inductive towards atomicity: a step of a loop is harmless only
because of where its call is. `IInv` adds what is known of the targets at each place (`PhaseInv`):
before the marker nothing has changed since the validation; while applying, what is in `todo` is old and
the rest new; once committed all is new; while restoring, what is not in `todo` is old. Each conjunct is
needed by the next step; the refinement then shows, action by action, that only `Validate`..`Publish`,
`Acknowledge` and `Settle` are steps of `AtomicEdit` and the rest stutter. `~ExternalWhileLocked` is
necessary: `_restore` (155-168) validates every target, then replaces them without looking again, so a program
that writes in between is overwritten.

*Revisions.* `DirInv` says what the candidate is at each checkpoint, wherever the revision died (`CandidateInv`), and
what the reviser knows of it at each place (`PlaceInv`); a receipt, a resumption and an application then find what they
rely on, and what ended is written by no step. `CallInv` ties the call of `commit_project_files` to the
request it was given, so every step of a system with a reviser is a step of `FileTransaction`, and its theorems
carry over. For `AppliedOnPredecessor` the lock carries the last comparison to the acknowledgement: `PhaseInv` gives
what held when the marker was published, `JournalInv` keeps it in the journal while the targets are replaced.
Deaths and resumptions need no bound in any of this.

*Copies.* From the second look at the marker on (`RehashInv`), the copy is the project of that look but for
files that are still to be compared, and that differ: their comparison would refuse the copy, if nothing gives them
back what the copy has read. A new edit or another program that does so sets `reverted`. A rollback could,
but restores a file only to what it held when the marker was published, which is not what the copy has
read of it (`Spared`): no marker was there at that look, so what differs then was changed by a settled
edit, or will be by one whose old content is that of the look. `AnyCopyIsOneProject` is this of a reader
beside any editors; `CopiesAreOneProject` of one that edits the project itself, as the reviser does.

*Board job.* No property is inductive alone. `JInv` adds to the types that no scope counts more
prior attempts than were made (or a new attempt could count as an old scope's), and that status and kind
of stop agree, a finished job having no running attempt (or a late `FinishAttempt` could relabel it).
Durations (`Execution`) stay opaque: nothing proved depends on how time is added up, only on the guards
made of it. `BudgetsHold` needs `RetriesSound` too: a scope grants retries of known attempts, no two of one
operation, and none without a blocker resolution. Then the attempt a claim adds (`ClaimedBudgets`) is the first of
its operation in cycle and scope, or the one retry of the attempt before it: a third would need a second grant.
The other operations keep what the budgets read or add to the active scope's builds (`SameBudgets`), and a
continuation adds an empty scope. For an annotation completion the budgets follow only if no scope has spent a
retry that is not the edit's: the edits of its job are the failed one it names, and no other operation lost a
grant it used (`AnnotationBudgets`). Otherwise the exception holds (`Excused`), and goes on to: grants are taken
away by nothing else, and attempts and scopes only grow (`Longer`).
`HardStopsHold` is about jobs that are finished or stopped by the deadline, a repeated failure or the
clock. Cancelled and interrupted jobs are not in it: `resume` reactivates them.

*Board job and its promise.* Every call either claims, settles, or leaves the attempts alone and moves the status
as the promise allows (`Moves`); that a reading of the clock can only stop an active job, and that a settlement
finds the job unfinished, come from `JInv`. On the other side, `SupervisionProofs` shows each step on the ledger to be a
claim, a settlement or an operator's act (`LedgerStep`, `OperatorStep`), with a finished job having no
running attempt (`NoneLeft`).

*Publication.* `PInv` says of each worker which of the directories of its generation are its own at
each place, and of each pointer that its publication was complete and now lies among the generations or
the failed ones; it holds for any number of workers because a directory is created only where there is
none and moved only to a free place. `SInv`, for one worker, adds that what was ever published is whole
and is not the generation the worker may still retire, and that the temporary pointer it swaps is its
own. The last conjunct is what two workers break. For `RolledBackIsNotCurrent` the directories of what was
rolled back are followed (`FailedInv`, `UnsettledInv`): one that lies under `failed` stays there, so its
identity is refused ever after (`Check`) and never becomes current.

*Publishers.* The one worker that `SInv` needs is here derived from the callers. `TurnsInv`: running
workers are one, and none once the job is finished; a completion exists only after that; who is past `Take`
has the attempt, or the resumption of a diagnosed failure, and there is one of those. From it `OthersIdle`: whoever
takes a step, every other process is outside publication; so `GenerationProofs`' lemma for one worker
(`SingleStep`) applies to each step of many, and `DiskInv`, which says of the files what holds whoever works,
passes from one publisher to the next. `SourceInv` (what a process works on succeeds what is current) gives
`NoneIsLost`; `RouteInv`, `ClerkInv` and `RecordsInv` say at each place of a call what it knows of the pointer,
with what the absence of a record implies: no attempt, no successor yet.

*Supervision.* The invariant says of each call, by its place in the code, what has become of its processes and
its attempt: before the spawn there are none; the receipt is given only while the tree is held; after the
clean-up nobody is past authorization or can get there. Only the claim relates two calls: one attempt is
running, and every attempt that is not running is quiet.

*Bus transactions.* Both indexes agree whatever a callback writes, as it writes through the ledger's operations. `AtomInv`
says at each callback in which nets the board differs from the one the call began with, that these are
routed whole, and of a retained candidate which claims it assumes; `Undo` then yields the first board
exactly, and what the checker accepts is what stands.

Only model-checked: `InterruptedEditsSettle`, `AttemptsSettle` and `CallsEnd` (liveness).

## 6. Plan

In this order; each gets a specification, an instance, hazards' properties and mutants.

1. `FileTransaction` and its abstract edit, `ProjectSnapshot`; refinement proof. *Done.*
2. `JobLedger`, `BoardJob`; invariants and proofs. *Done*, but for the parts listed in section 2.
3. `GenerationTransaction`; proofs for any number of workers and for one. *Done.*
4. `SupervisedRun`; proofs. *Done.*
5. `BusTransaction`, its abstract board and the refinement proof; `RoutingCandidate`, `InspectionCompletion`
   and their composition; proofs. *Done.*
6. The negotiation of single nets (`negotiated_graph`, `negotiated_board`), on `Occupancy`.
7. `BoardRevision` with its workflow, on `ProjectSnapshot` and `FileTransaction`; proofs. *Done.*
8. `WorkflowAuthority` (invalidation as a closure, compared with a reference
   definition), `EditHistory`, `RasterCache`.
9. A proof of `CopyIsOneProject`; the promise of the job's ledger, and its two refinements. *Done.*

The hazards in `PROJECT.json` that name no property carry the reason
in their note and are the worklist. Two that name one are covered in part: a program without the lock
that writes between a validation and its replacement (`file_transaction.py:155-168`) is excluded from the runs by
`ExternalWhileLocked = FALSE`, as the code cannot see it; a committed edit that stays blocked because a file changed
after the death is the exempted case (`Conflicted`) of `InterruptedEditsSettle`.

## 7. Not modelled, and why

Path search and geometry of the router, corridor searches, thermal and electrical calculators: numeric
code without state, of which a small instance says little. Generators of boards and schematics and the
intermediate representations: deterministic functions and frozen data. User interface, command line,
network lookups and the language-model client: I/O around the operations above. Malformed or hostile
files on disk: the models' initial states and inputs are those the program itself writes, except for
external edits of project files and lost payloads, which the code handles explicitly.
