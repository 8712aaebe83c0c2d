# GaussianOS in TLA+

GaussianOS is a desktop application that turns a video or a set of pictures into a
Gaussian-splat scene: it imports and samples the input, runs a pipeline of six stages
(ingest, COLMAP, a fallback reconstruction, training, validation, export), mostly in external
worker processes, and shows the result. This directory models the parts of it that several
threads, several processes and crashes touch: where a project is on disk, who may run it,
what a run writes, how outputs are published and how they are cleared. Source references
are paths under `src/`.

## The system and its parts

| part | source | state it keeps | what it does | model |
|---|---|---|---|---|
| project store | `apps/desktop/project_store.py`, `project_paths.py` | one JSON document per project, one workspace directory, the trash | create, delete, restore, purge, duplicate, rename, archive, startup recovery; replaces documents as a whole | `ProjectLifecycle`, `ProjectShelf`; copies in `ProjectCopy`; writes in `PipelineRun` |
| file locks | `packages/file_lock.py` | lock files | exclusive advisory locks of the operating system; most callers do not wait | in every module, as sets of holders |
| pipeline controller | `apps/desktop/pipeline.py` | the run lock, a private copy of the document, a cancellation token per run | `run`, `cancel`, edits between runs, recovery of interrupted runs | `PipelineRun` |
| cleanup | `apps/desktop/pipeline.py:166-410` | transaction directories | clears outputs, rolls back or finishes after errors and crashes | `CleanupTransaction` |
| worker runner | `packages/pipeline/runner.py` | one attempt and one process per call | starts, polls, stops and judges a worker | `WorkerRun` |
| artifact store | `packages/artifact_store/store.py` | attempts, published artifacts, commit locks | isolated attempts, all-or-nothing publication | `WorkerRun` |
| sampling analysis | `apps/desktop/pipeline.py:676-762` | the analysis directory, its staging and backup | analyses frames under the run lock and swaps the result in | `SamplingAnalysis` |
| video import | `apps/desktop/video_import.py`, `main.py:387-509` | an import session, a generation, one analysis thread | preflight, configure, analyse, commit | `VideoImport` |
| project session | `apps/desktop/project_session.py`, `main.py:969-1094` | the shown project, a generation, active and cancelled runs | accepts or drops the events of background threads | `DesktopSession`, `Presentation` |
| sampling | `apps/desktop/sampling.py` | none | selects frames | its outcomes, in `VideoImport` and `SamplingAnalysis` |
| plugin policy | `packages/licensing/policy.py` | none | decides whether a plugin may run | not modelled |
| worker contracts, scene bundle, exchange formats, metrics, viewer, camera timeline, portable runtime, command line, workers, benchmarks, QML | see `PROJECT.json` | | schemas, numeric conversion, byte formats, GPU programs, layout | not modelled: no concurrency and no state of their own, or out of reach of a model checker |

How they meet. The window's thread (`main.py`) starts a thread for every long operation;
these threads call the controller and the store and report back by queued signals. Several
instances of the application may share one project library. Threads and instances share
nothing but files and three kinds of lock files: the *delete lock* and the *run lock* of a
project, which nobody waits for, and its *state lock*, held for a single read-change-write of
its document. The controller calls the runner for the three stages that need a worker; the
runner starts a process, reads its result file and asks the artifact store to publish.

What makes each part correct, and what makes it hard:

* **Store.** A listed project has its workspace; a deletion, restoration or purge that is cut
  in two by an error or a crash is undone or finished; nobody moves a project under a run.
  Hard because the two halves of a project move by separate renames, rollbacks can fail too,
  and another instance may start its recovery at any moment.
* **Run.** The document a run writes is its own from the first to the last write; a success is
  complete and made from the present configuration; no stage remains recorded as running.
  Hard because a run works on a copy, any write may fail, and a run may die anywhere.
* **Cleanup.** Nothing the document names is lost, nothing invalidated returns. Hard because
  recovery has to guess from what is left how far a cleanup got.
* **Runner and artifact store.** A stopped or failed call publishes nothing, a successful one
  everything, a call ends even if its worker does not. Hard because exit, answer,
  cancellation and deadline come in any order and publication is a rename per artifact.
* **Copy.** A copy is all there or not at all, and comes from one run of its source. Hard because it
  is built, placed, listed and unmarked in separate steps, anybody may use it once it is listed,
  and the recovery has to tell an interrupted copy from a finished one.
* **Sampling analysis.** The thumbnails belong to the timeline the document shows. Hard because a
  directory and a document change in turn, and a directory that is missing for a moment is made
  again by whoever looks first.
* **Import and session.** A late result of a background thread is never shown for something
  else, and the newest configuration is analysed in the end.

## Modules

### ProjectLifecycle, ProjectShelf

`ProjectLifecycle` has an action for each step between two renames of `create` (260),
`delete` (971), `restore` (723), `purge` (785) and `recover_lifecycle_residuals` (844) of
`project_store.py`, and for the entry of a run (`pipeline.py:799-850`) as far as its locks and
the directories it makes go. `meta` and `ws` are the places of the document and of the
workspace, `skeleton` the unmarked directories that a run losing a race leaves behind,
`delLock` and `runLock` the holders of the locks, `pc`, `tgt` and `todo` the position of an
instance's store thread, `run` its pipeline threads. Any rename or removal may fail
(`Fault`), a process may die at every step (`Crash`), which frees its locks and nothing else.

`ProjectShelf` is what the user is promised: listed, trashed or removed, moving in single
steps, and never trashed while active; a project that was just created may also disappear, at any
time and from under a run. `ShelfSpec` is the refinement: every step of `ProjectLifecycle` is a step
of the shelf or changes nothing the user sees.

The last clause is what `create` can do: it lists the project (292) and then makes directories and
loads the document again (294-295), either of which may fail, the second also because of another
project's document. The handler (296-302) then unlinks the document and removes the workspace
without any lock. `CreateUnlist` and `CreateClear` are these steps, and the place `undone` is where
what they take goes. `LiveIsWhole`, `RunKeepsProject` and `OnlyTrashedMoves` hold but for what is
`undone`.

`Overlap` says whether an instance may start while another one is inside an operation. The
code allows it; two guarantees (`LiveIsWhole`, `OnlyTrashedMoves`) hold only without it, as
the run `lifecycle_race` shows.

### PipelineRun

One project's document and the run thread of each instance. Steps are the points between two
writes of the document: `_stage`, the work, `_complete` or `_skip`, for all six stages; then
every exception handler of `run` and its `finally` block. The window's `cancel`, the edits
(`import_input`, `set_profile`, `set_sampling_config`, `commit_video_import`: `Configure`),
cleanups (one step) and the marking of dead runs at startup (`Launch`) interleave. An output
is represented by the configuration it was made from, which is what makes "current" a property
of the state. `Failures` are the exceptions the document write may raise.

`run` loads the document twice: before it asks for the run lock (808) and under it (841). If the
second load fails, the run never begins, and the handler for store errors (878-880) writes what the
first one read, marked failed; the test in `_persist` (930) does not stop it, for the run that
document names is still the one on disk. An edit made between the two loads is lost with it, and so
may be a stage another instance completed. `HandleStoreError` models it, and `NoLostConfig` and
`ResumeKeeps` except this one step, `WritesOld`; without the exception TLC finds both false.

### WorkerRun

Calls of `SubprocessWorkerRunner.run` that share an artifact store. The host's steps follow
`run` and `_wait_for_process`: attempt, process, poll, stop, terminate, judge; then `commit`:
locks in sorted order, validation of everything, manifests, a rename per artifact, or the
rollback; then the archive. The worker may answer and exit at any moment or never, with any
outputs. Application runs use a store each; the class itself is written for sharing (it locks
and refuses conflicts), so the model lets calls share one.

### CleanupTransaction

`cleanup_project` with each phase write, each rename, the document write and the removal as
steps that may fail, its handler, and the recovery of the next start with its decision
`MetadataCommitted` (`pipeline.py:346-366`). Runs appear by what they leave: outputs, in
order, and records of them. `done` is a history variable: the document was changed.

All receipts of the viewer share one path. Two transactions that are left over and hold one each are
undone in the order of their random names, and the older receipt may come back first and keep the
place of the newer. `SucceededOpens` therefore says that a succeeded project can be opened
(`CanBeOpened`) in every behaviour in which no two such transactions are left over at a time
(`OneReceiptLeft`).

### SamplingAnalysis

`analyze_sampling` (`pipeline.py:676-762`): the note in the document, the work in a staging
directory, the old directory made a backup, the publication, the document, the removal of the
backup, and the way back from an error at any of these; called by the window or by the ingest stage
of a run, which reuses its own earlier result or an analysis that matches. Around it `set_sampling_config` and its like,
`commit_video_import`, and the recovery of an interrupted swap (381-393). A directory is known by the
configuration whose thumbnails it holds, all of them; `Mixed` is an empty one or one that is not
all of one analysis. `requested` and `hashed` are the number of frames asked for and the one the
hash was computed with, which is what decides whether a run trusts the analysis.

`lost` is a history variable: it records that one of three ways was taken in which the code is known
to lose the thumbnails (an import that fails after it has copied its thumbnails; `ensure_writable`
between the renames; a backup removed in part, which then looks new). The properties that speak of
the thumbnails exempt behaviours with a non-empty `lost`: with it they hold, without it TLC shows
each of the three.

### ProjectCopy

`duplicate` (`project_store.py:463-649`), an action per file operation and its handler, with what
others may do to the copy once it is listed (run, delete, restore), runs of the source, and
`recover_lifecycle_residuals` as far as copies and half deletions go. Recovery is modelled as it
is written: the marker read first (`Inspect`), the lock asked for then, the judgement last
(`Settle`). `hurt` are the copies that met one of the known defects: an error after the copy was
listed that meets somebody's use or deletion of it; a removal that fails or is cut short, or a crash
before the marker is written, which leave what nothing recognises; a recovery that removes the
workspace of a marked copy that is in the trash, because a deletion holds another lock than the one
the recovery asks for. `CopyWhole` speaks of the others. The variable has no influence on any step.

### DesktopSession, Presentation

The window: the slots that open, create, start, cancel, configure, clean, copy, archive, delete and
restore, the run threads, loaders, cleanups and copies they start, and `handleEvent` with
`ProjectSession.accepts`. `open`, `generation`, `active` and `cancelled` are the session's fields, `view`
is the viewer, `events` the queue of signals, in the order of their posting, which is Qt's for
queued connections. A thread of another project posts in between at any time. The controller appears
by its tokens (`registered`, `stopped`) and by what a run writes at its start and end.

`Presentation` is what the window promises: the scene it shows is of the open project and was the
result of that project's latest run when it appeared, and opening a project empties the view.
`PresentationSpec` is the refinement.

### VideoImport

The window's slots (`beginVideoImport`, `configureVideoImport`, `cancelVideoImport`,
`generateVideoImport`) and its handler of queued events, the preflight threads and the analysis
threads. `generation` and `session` are what decides whether a late result counts; `revision` and
`sampling` are fields of the session that the window and a thread share without a lock, so each
step is one read or write of them: `configure` counts the revision in one step and replaces the
data in the next, `analyze` reads them in that order, works, compares, updates. `shown` is what
the window displays, `Offered` the binding in `Main.qml` that lets the user generate. A sampling
is represented by the revision it was made from and whether it is analysed; `durable` is what
the last commit gave a project.

`docs/adr/P2.7.md:22-24` says that the newest snapshot is analysed and that Generate is disabled until
that is complete. The code keeps this only if a configuration does not fall into one of two gaps of
the analysis thread: between its reads of the revision and of the data, and between its last look at the
revision and its report (`video_import.py:97-98, 117-121`). A configuration in the second gap starts
no thread, because one is running, and is then overwritten by that thread's result: the window offers
the older frames and `generateVideoImport` commits them. `ConfiguredApart` says that no configuration
falls into a gap, and `GeneratesNewest` that the project is then given the newest configuration.
Without the hypothesis TLC finds a project with older frames after 15 steps of one session.

## Runs

| run | instance | shows |
|---|---|---|
| `lifecycle_alone` | 2 instances, an isolated and a legacy project, 3 faults, starts do not overlap operations | a listed project is whole at every step, a run keeps its project, a legacy workspace is never touched, a recovery that ends leaves nothing behind |
| `lifecycle_overlap` | 2 instances, 1 project, 3 faults, starts at any time, fairness | the locks exclude runs and moves; the invariants of the proofs; refinement of the shelf; recovery ends; a half deletion and a dead run heal |
| `lifecycle_race` (violation) | 2 instances, no fault | recovery moves the workspace of a project that was just restored |
| `pipeline` | 2 instances, 2 runs, 2 configurations, 2 faults | ownership of the document, current successes, no stage left running, no lost edit, resumption |
| `pipeline_points` (violation) | 1 instance, 2 runs, no fault | the exported points may come from an outdated fallback reconstruction |
| `worker` | 2 calls, 2 artifacts, 1 fault, fairness | all or nothing, nothing after a stop, published stays, every call ends |
| `cleanup` | 2 instances, one with a user; 2 runs, 2 cleanups (of the exports, then of the training), 2 faults | nothing lost, succeeded projects open unless two leftover transactions hold a receipt each, recovery leaves runs alone |
| `cleanup_back` (violation) | 1 instance, 2 runs, 1 cleanup, 1 fault | a run in between makes recovery restore what a completed cleanup cleared |
| `import` | 3 generations, 3 revisions, 3 threads, fairness | no session lost, one thread per session, nothing late is shown, a project is given the newest configuration unless one falls into a gap of the analysis, abandoned threads end |
| `session` | 2 projects, one of them a copy to be, 3 runs, 3 generations, 2 jobs, fairness | the controller has the token of the run at work; the scene is of the open project and was its latest result; an awaited scene appears |
| `analysis` | 2 instances, 3 configurations, 3 faults | the thumbnails of the timeline are kept, one failure restores the old directory, a run extracts the frames of the project's configuration |
| `copy` | 3 instances, 1 copy, 2 runs of the source, 3 faults | a copy nobody works on is all there, or gone or known to the next start |

`PROJECT.json` quotes for each violation run the sentence of the code or the documents the
program departs from.

**Why these bounds are enough to be interesting.** Locks are exclusive and never waited for, so
what two processes can do to each other shows with two. Two faults allow an error and a failing
rollback, or a crash in the recovery of a crash; the `lifecycle` runs have three because a create that
fails late is a fault of its own. `Runnable` names the projects that are run: the legacy
project of `lifecycle_alone` is not, for a run takes the same locks there and moves nothing. Two configurations and two runs are what "outdated" and "resumed" need,
two artifacts what "half-published" needs. Three generations let an import be replaced while the
one it replaced is still reporting; the third revision is configured while the second is analysed.
`copy` has three instances because a copy meets three parties: the one that makes it, the one that
uses it and the one that recovers; with two instances and two copies (4.7 million states) the
invariants hold too. In `analysis` the three faults are an error, an error on the way back and a
crash; three configurations tell the analysis shown, the one in the backup and the one being made
apart. In `session` a project is opened, left and opened again within three generations while two
results are late. Legacy projects are inert, so one is enough. In `cleanup` one
instance has a user who runs, configures and clears, and both start, recover and die (`Users`); the
run lock lets only one of them work at a time, so a second user would only exchange the names, and that the lock also
keeps a cleanup out of the run of another instance is what `RunAlone` proves for any `Users`. The
two cleanups (`Choices`) are one that leaves the timeline alone and one that takes it; with both
left over `CanBeOpened` is false within these bounds, so `OneReceiptLeft` is tested and not
vacuous. `cleanup_back` leaves the choice of outputs open.

**Symmetry** permutes instances, or calls, which the models only compare for equality; it is not
used in the runs with liveness properties (`lifecycle_overlap`, `worker`, `session`) and in `cleanup`, where the
instances differ. Sessions and threads of
`VideoImport` are numbers and are not permuted.

**Deadlock** is checked everywhere except in `worker`, where all calls may have ended, and in
`import` and `session`, where the user may have used up the imports or the runs and nothing is left
to do.

**Fairness.** `lifecycle_overlap` assumes weak fairness of each instance's next step, which needs no
lock to become free (every lock is tried and given up), and that a closed application is
started again; `ResidueHeals` in addition assumes that it is closed again and again, because
recovery runs only at startup. `worker` assumes that the calling thread runs and time passes
(its loop polls with a sleep); the worker owes nothing, so `CallEnds` cannot rest on it. `import`
assumes that the analysis threads are scheduled, nothing of the window. `session` assumes that the
run threads, loaders, cleanups and copies are scheduled and that Qt delivers what is posted; the
user owes nothing.
Nothing is assumed of users, workers or faults, which are bounded but never obliged.

**Abstractions shared by the modules.** Time is the freedom to be late. A write is atomic
(`_write_json` and `atomic_write_json` write a temporary file, flush it and rename it). The state
lock is part of the step that writes. File contents are what the properties tell apart.

## Proofs

Each module with a `...Proofs` beside it has its invariants and action properties proved by TLAPS for
every value of its constants: any sets of instances and projects, any number of runs, copies,
cleanups, generations and faults. The assumptions are those the modules name (the bounds are natural
numbers, `Isolated` is a part of `Projects`, `None` is no project), which TLC evaluates in the runs,
and where a theorem has a hypothesis besides, it is given below.

Every safety proof has the same form: `Init => IInv`, `IInv /\ [Next]_vars => IInv'`,
`IInv => Property`, where `IInv` is also checked by TLC, as an invariant of the run of its component.
The step goes action by action. What makes these proofs feasible is a frame lemma per module, which
says that a step of one thread can only disturb the parts of the invariant that are that thread's,
the lock holder's, or the document's.

| module | theorems | inductive invariant, and why the property alone is not enough |
|---|---|---|
| `ProjectLifecycleProofs` | `TypeCorrect`, `Exclusion`, `LifecycleCorrect`, `Legacy`; `Refinement` (`ShelfSpec`) | `LifecycleInv` = `TypeOK`, `LockInv`, `PlaceInv`. That nobody moves a project under a run does not say why: the locks have one holder, and are held at exactly the steps where the code holds them. `PlaceInv` says where document and workspace are at each step; the refinement needs it to see that a step moves a project on the shelf at most once |
| | with `~ Overlap`: `WholeCorrect`, `ListedIsWhole`, `RunKeeps`, `TrashedMoves`, `Settles` | `WholeInv` adds what a recovery has still to look at (`SettleInv`) and where the workspace of a listed project is while it is worked on. It rests on `AloneInv`, no operation beside a recovery, which is what `~ Overlap` gives |
| `PipelineRunProofs` | `RunCorrect`, `SuccessCurrent`, `ConfigKept`, `Resumes`; with `StateLockFree`: `StageRuns` | `RunInv`: who has recorded a run owns the run lock, and its private copy agrees with the document in run and configuration; only so a write of the whole copy loses nothing |
| `WorkerRunProofs` | `CommitCorrect`, `StoppedNothing`, `AllOrNone`, `Stays` | `CommitInv`: for each artifact, which call has published it and can still take it back, and that no other call can be at work on it |
| `CleanupTransactionProofs` | `CleanupCorrect`, `KeepsResults`, `KeepsRun`, `RunAlone` | `CleanupInv`: each step finds its directory in its phase, outputs are in one place, and what the document names is in place or in a transaction that will give it back (`KeptInv`) |
| | `ReceiptKept` (`SucceededOpens`, with its hypothesis `[]OneReceiptLeft`) | `ReceiptInv`: files and transactions hold at most one receipt each, and the one of a succeeded project is its own |
| `VideoImportProofs` | `ImportCorrect`, `NoneLost`, `ShowsCurrent` | `ImportInv`: a session is in one place, being probed, on its way, shown or dropped (`PlaceInv`), and a result agrees with its session until that is configured again (`ResultInv`) |
| | `GivesNewest` (`GeneratesNewest`, with its hypothesis `[]ConfiguredApart`) | `NewestInv`: outside of a half-made configuration a session has the data of its newest revision, and a thread that nothing will interrupt any more works on it |
| `DesktopSessionProofs` | `SessionCorrect`; `Refinement` (`PresentationSpec`) | `SessionInv`: the token of the run at work is in the controller, the active runs still have an event to come, and what a loader brings is a result of its project; late events make each of the three necessary |
| `SamplingAnalysisProofs` | `AnalysisCorrect`, `TimelineStays`, `FailureUndone` | `AnalysisInv`: where the old directory is at each step of the swap and of the way back, and how many faults the attempt has met; what `lost` exempts is said at `SamplingAnalysis` above |
| `ProjectCopyProofs` | `CopyCorrect`, `CopyIsWhole` | `CopyInv`: `CopyWhole` speaks of copies nobody works on, so the invariant says for each step of each thread what it may find, under either of the two locks; what `hurt` exempts is said at `ProjectCopy` above |

**Hypotheses.** `~ Overlap` (`ListedIsWhole` and its like) excludes starts in the middle of somebody's
operation; the code allows them, and `lifecycle_race` shows what then happens. `StateLockFree`
(`StageRuns`) says that no write of a run finds the state lock busy for its five seconds; the constants
of the run `pipeline` say so too, and without it TLC finds a stage recorded as running by no run. `OneReceiptLeft` (`ReceiptKept`) says that no two leftover transactions hold a
receipt each. It holds whenever there is one cleanup; with the two of the run `cleanup`, TLC finds `CanBeOpened`
violated without it: a transaction whose cleanup could not be confirmed and a later one, both left
over, are undone in the wrong order. `KeepsRun` is what holds even then. `ConfiguredApart`
(`GivesNewest`) is described at `VideoImport` above; nothing in the code enforces it.

**Only model-checked.** Liveness (`RecoveryEnds`, `ResidueHeals`, `CallEnds`, `DroppedWorkerEnds`,
`ViewSettles`) rests on fairness and ENABLED, which are beyond the proof system. The properties of
the three violation runs are false. Every other property of a run is stated by a theorem.

## Not modelled

The parts marked so above. Plugin policy, worker contracts, scene bundle, exchange formats, metrics
and the camera timeline are functions of their arguments without state: schemas, byte layouts and
numeric conversions, whose errors lie in arithmetic over data a model would abstract away. The
workers and the portable runtime drive external programs; for the pipeline a worker is its outcome.
The scoring and selection of frames is numeric too; what the rest of the system relies on, that an
analysis is of one configuration and ends, is in `SamplingAnalysis` and `VideoImport`. Further:
rename and archive of a project beyond their effect on the window (each is a single document write);
reading and classifying damaged documents; the texts of errors and events; the hashing inside
artifact validation; a descendant of a worker that outlives its process group.

`PROJECT.json` lists in `hazards` what is hard to test in this code and the properties that watch
it. Where the models reach a state the code does not repair and no document promises that it
would, the hazard says so, and the property that would be broken names the exemption:

* a purge interrupted after the marker is gone leaves a workspace nothing will remove;
* a create that fails after it has listed its project removes it without a lock (`undone` in
  `ProjectLifecycle`);
* a run whose second load fails writes the document it read before it had the lock (`WritesOld` in
  `PipelineRun`);
* two leftover cleanups are undone in the order of their random names (`OneReceiptLeft` in
  `CleanupTransaction`);
* a video configured in a gap of its analysis is generated with older frames, against
  `docs/adr/P2.7.md:22-24` (`ConfiguredApart` in `VideoImport`);
* three ways of losing the thumbnails of a timeline (`lost` in `SamplingAnalysis`);
* an error after a copy was listed, a removal of a copy cut short, and a recovery that meets a copy
  on its way to the trash (`hurt` in `ProjectCopy`);
* a project whose profile is chosen once more keeps the status succeeded without a run
  (`SameProfile` in `PipelineRun`);
* a cancellation after the run has succeeded leaves the viewer at "Loading" (`ViewSettles` in
  `DesktopSession`).

## Plan

The models cover the parts with state, and every safety and action property of the runs is proved.
What is left to prove is about the hypotheses: that each transaction left over took a fault, so that
with one fault `OneReceiptLeft` holds for any number of cleanups, and what of `LiveIsWhole`
survives overlapping starts (a listed project has its workspace, or a recovery that read its document
before it was restored is at work). Shorter proofs are worth
having where two modules argue alike: the one holder of the run lock in `PipelineRunProofs`,
`CleanupTransactionProofs` and `SamplingAnalysisProofs`.

Run a configuration with `tlc -config Lifecycle_overlap.cfg MCProjectLifecycle` (the module of each
run is in `PROJECT.json`), and the proofs with `tlapm <module>Proofs.tla`, eight modules in all; none
takes more than a few minutes.
