----------------------------- MODULE PipelineRun -----------------------------
(***************************************************************************)
(* One project's document while PipelineController.run works on it         *)
(* (apps/desktop/pipeline.py:799-1419).                                    *)
(*                                                                         *)
(* A run loads the document, takes the project's run lock, loads it again  *)
(* and works on that private snapshot; every stage transition replaces the *)
(* whole document with the snapshot (_persist).  The second load and every *)
(* write may fail, the user may cancel, a worker may fail, the process die *)
(* between any two steps; another instance may start, and the user may     *)
(* reconfigure or clean the project whenever nobody owns it.               *)
(*                                                                         *)
(* Abstractions: an output is known by the configuration it was made from; *)
(* what a worker does is its outcome (module WorkerRun has the rest); a    *)
(* cleanup is one step here; events to the window are left out.            *)
(***************************************************************************)
EXTENDS Naturals

CONSTANTS
    Instances,   \* application processes, one run thread each
    Failures,    \* exceptions a write of the document may raise
    MaxRuns,     \* bound: calls of run
    MaxConfig,   \* bound: versions of input and configuration
    MaxFaults    \* bound: failing writes and crashes together

WriteErrors == {"ProjectStoreError", "OSError", "ProjectLockError"}

ASSUME FailuresAssumption == Failures \subseteq WriteErrors
ASSUME BoundsAssumption == MaxRuns \in Nat /\ MaxConfig \in Nat \ {0} /\ MaxFaults \in Nat

STAGES == {"ingest", "colmap", "fallback", "train", "validate", "export"}
TERMINAL_STAGE_STATES == {"succeeded", "skipped", "fallback_required"}
StageStates ==
    TERMINAL_STAGE_STATES \cup {"pending", "running", "failed", "interrupted", "stale"}
Statuses == {"ready", "running", "succeeded", "failed", "interrupted"}

VARIABLES
    doc,     \* the durable document
    viewer,  \* the run the viewer receipt names, 0 if there is no receipt
    lock,    \* instances that hold the project's run lock
    pc,      \* step of each instance's run thread
    snap,    \* the thread's private copy of the document
    exc,     \* the exception it is handling
    token,   \* instances whose cancellation token is set
    runs,    \* runs so far: the identifier of the latest one
    run_id,  \* the identifier of the run each thread is to make or makes, 0 for none
    faults   \* faults so far

vars == <<doc, viewer, lock, pc, snap, exc, token, runs, run_id, faults>>

\* run is 0 for None; base[s] is the configuration the artifacts of stage s
\* were made from, 0 if it names none; cloud that of the exported points.
Documents ==
    [status: Statuses, run: 0..MaxRuns, cur: STAGES \cup {"none"},
     st: [STAGES -> StageStates], base: [STAGES -> 0..MaxConfig],
     cloud: 0..MaxConfig, cfg: 1..MaxConfig]

Waiting == {"down", "off", "stuck"}
Working ==
    {"ingest", "ingesting", "colmap", "colmapping", "skip", "fallback", "fallbacking",
     "prepare", "train", "training", "validate", "validating", "export", "exporting",
     "viewer", "done"}
\* Steps at which run has recorded the run as its own.
Started == Working \cup {"raised", "final", "unwritten"}
Before == {"lock", "begin", "unstarted"}
Steps == Waiting \cup Before \cup Started \cup {"release"}
Exceptions == WriteErrors \cup {"InterruptedError", "RuntimeError", "none"}

TypeOK ==
    /\ doc \in Documents
    /\ viewer \in 0..MaxRuns
    /\ lock \subseteq Instances
    /\ pc \in [Instances -> Steps]
    /\ snap \in [Instances -> Documents]
    /\ exc \in [Instances -> Exceptions]
    /\ token \subseteq Instances
    /\ runs \in 0..MaxRuns
    /\ run_id \in [Instances -> 0..MaxRuns]
    /\ faults \in 0..MaxFaults

\* A project whose first input has just been imported.
Imported ==
    [status |-> "ready", run |-> 0, cur |-> "none",
     st |-> [s \in STAGES |-> "pending"], base |-> [s \in STAGES |-> 0],
     cloud |-> 0, cfg |-> 1]

Init ==
    /\ doc = Imported
    /\ viewer = 0
    /\ lock = {}
    /\ pc = [i \in Instances |-> "down"]
    /\ snap = [i \in Instances |-> Imported]
    /\ exc = [i \in Instances |-> "none"]
    /\ token = {}
    /\ runs = 0
    /\ run_id = [i \in Instances |-> 0]
    /\ faults = 0

-----------------------------------------------------------------------------
(* Helpers *)

Goto(i, s) == pc' = [pc EXCEPT ![i] = s]
Keep(i, d) == snap' = [snap EXCEPT ![i] = d]
Fault == faults < MaxFaults /\ faults' = faults + 1

Raise(i, e) ==
    /\ exc' = [exc EXCEPT ![i] = e]
    /\ Goto(i, IF pc[i] \in Started THEN "raised" ELSE "unstarted")

\* What a write may raise: a document that names another run is not replaced.
Refusals(owned) == IF owned THEN Failures ELSE {"RuntimeError"}
Charge(e) == IF e \in WriteErrors THEN Fault ELSE UNCHANGED faults

\* _persist: the snapshot replaces the document as a whole.
Persist(i, d, next) ==
    LET owned == doc.run = d.run \/ pc[i] = "begin" IN
    /\ Keep(i, d)
    /\ \/ owned /\ doc' = d /\ Goto(i, next) /\ UNCHANGED <<exc, faults>>
       \/ \E e \in Refusals(owned) : Raise(i, e) /\ Charge(e) /\ UNCHANGED doc

\* _raise_if_cancelled
Cancelled(i) == i \in token

Interrupt(i) == Cancelled(i) /\ Raise(i, "InterruptedError") /\ UNCHANGED <<doc, snap, faults>>

\* The stage's own work raises.
Fails(i) == Raise(i, "RuntimeError") /\ UNCHANGED <<doc, snap, faults>>

SetStage(d, s, state) == [d EXCEPT !.st[s] = state]

\* _stage
Running(d, s) == [SetStage(d, s, "running") EXCEPT !.cur = s]

\* _complete, with the artifacts of the stage made from configuration b.
Completed(d, s, b) == [SetStage(d, s, "succeeded") EXCEPT !.base[s] = b]

\* _terminate_active_stage
Terminated(d, state) ==
    IF d.cur # "none" /\ d.st[d.cur] = "running" THEN SetStage(d, d.cur, state) ELSE d

\* _previous
Previous(d, s) == d.st[s] = "succeeded"

\* The reconstruction _reconstruct returns.
Reconstruction(d) == IF Previous(d, "colmap") THEN d.base["colmap"] ELSE d.base["fallback"]

-----------------------------------------------------------------------------
(* run *)

\* The document is loaded for the first time, before the run lock.
Register(i) ==
    /\ pc[i] = "off" /\ runs < MaxRuns
    /\ runs' = runs + 1
    /\ run_id' = [run_id EXCEPT ![i] = runs + 1]
    /\ Keep(i, doc)
    /\ Goto(i, "lock")
    /\ UNCHANGED <<doc, viewer, lock, exc, token, faults>>

\* Mutant: the recorded status decides whether the project is free.
AcquireRunLockStatus(i) ==
    /\ pc[i] = "lock"
    /\ IF doc.status # "running"
       THEN lock' = {i} /\ Goto(i, "begin") /\ UNCHANGED exc
       ELSE Raise(i, "ProjectLockError") /\ UNCHANGED lock
    /\ UNCHANGED <<doc, viewer, snap, token, runs, run_id, faults>>

AcquireRunLock(i) ==
    /\ pc[i] = "lock"
    /\ IF lock = {}
       THEN lock' = {i} /\ Goto(i, "begin") /\ UNCHANGED exc
       ELSE Raise(i, "ProjectLockError") /\ UNCHANGED lock
    /\ UNCHANGED <<doc, viewer, snap, token, runs, run_id, faults>>

\* Mutant: the document is not loaded again under the lock.
BeginUnread(i) ==
    /\ pc[i] = "begin"
    /\ IF doc.status = "running"
       THEN Raise(i, "ProjectLockError") /\ UNCHANGED <<doc, snap, faults>>
       ELSE Persist(i, [snap[i] EXCEPT !.run = run_id[i], !.status = "running", !.cur = "none"],
                    "ingest")
    /\ UNCHANGED <<viewer, lock, token, runs, run_id>>

\* The document is loaded again, which may fail: the snapshot is then still
\* the one from before the lock, with the run that one names.
Begin(i) ==
    /\ pc[i] = "begin"
    /\ \/ Fault /\ Raise(i, "ProjectStoreError") /\ UNCHANGED <<doc, snap>>
       \/ /\ doc.status = "running"
          /\ Raise(i, "ProjectLockError")
          /\ UNCHANGED <<doc, snap, faults>>
       \/ /\ doc.status # "running"
          /\ Persist(i, [doc EXCEPT !.run = run_id[i], !.status = "running", !.cur = "none"],
                     "ingest")
    /\ UNCHANGED <<viewer, lock, token, runs, run_id>>

Ingest(i) ==
    LET d == snap[i] IN
    /\ pc[i] = "ingest"
    /\ \/ Interrupt(i)
       \/ /\ ~ Cancelled(i) /\ Previous(d, "ingest") /\ d.base["ingest"] = d.cfg
          /\ Goto(i, "colmap")
          /\ UNCHANGED <<doc, snap, exc, faults>>
       \/ /\ ~ Cancelled(i) /\ ~ (Previous(d, "ingest") /\ d.base["ingest"] = d.cfg)
          /\ Persist(i, Running(d, "ingest"), "ingesting")
    /\ UNCHANGED <<viewer, lock, token, runs, run_id>>

\* Frames are copied or extracted; copying images looks at the token.
Ingested(i) ==
    /\ pc[i] = "ingesting"
    /\ \/ Interrupt(i) \/ Fails(i)
       \/ Persist(i, Completed(snap[i], "ingest", snap[i].cfg), "colmap")
    /\ UNCHANGED <<viewer, lock, token, runs, run_id>>

\* Mutant: only a COLMAP result is looked for.
ReconstructAgain(i) ==
    LET d == snap[i] IN
    /\ pc[i] = "colmap"
    /\ \/ Interrupt(i)
       \/ /\ ~ Cancelled(i) /\ Previous(d, "colmap")
          /\ Goto(i, "prepare")
          /\ UNCHANGED <<doc, snap, exc, faults>>
       \/ /\ ~ Cancelled(i) /\ ~ Previous(d, "colmap")
          /\ Persist(i, Running(d, "colmap"), "colmapping")
    /\ UNCHANGED <<viewer, lock, token, runs, run_id>>

\* _reconstruct: a reusable result of either reconstruction, else COLMAP.
Reconstruct(i) ==
    LET d == snap[i] IN
    /\ pc[i] = "colmap"
    /\ \/ Interrupt(i)
       \/ /\ ~ Cancelled(i)
          /\ \/ Previous(d, "colmap") /\ Goto(i, IF d.st["fallback"] = "skipped" THEN "prepare" ELSE "skip")
             \/ ~ Previous(d, "colmap") /\ Previous(d, "fallback") /\ Goto(i, "prepare")
          /\ UNCHANGED <<doc, snap, exc, faults>>
       \/ /\ ~ Cancelled(i) /\ ~ Previous(d, "colmap") /\ ~ Previous(d, "fallback")
          /\ Persist(i, Running(d, "colmap"), "colmapping")
    /\ UNCHANGED <<viewer, lock, token, runs, run_id>>

\* The COLMAP worker has returned.
ColmapReturned(i) ==
    LET d == snap[i] IN
    /\ pc[i] = "colmapping"
    /\ \/ Interrupt(i) \/ Fails(i)
       \/ /\ ~ Cancelled(i)
          /\ \/ Persist(i, Completed(d, "colmap", d.base["ingest"]), "skip")
             \/ Persist(i, SetStage(d, "colmap", "fallback_required"), "fallback")
    /\ UNCHANGED <<viewer, lock, token, runs, run_id>>

\* _skip: what a fallback of an earlier configuration left stays recorded.
SkipFallback(i) ==
    /\ pc[i] = "skip"
    /\ Persist(i, SetStage(snap[i], "fallback", "skipped"), "prepare")
    /\ UNCHANGED <<viewer, lock, token, runs, run_id>>

Fallback(i) ==
    /\ pc[i] = "fallback"
    /\ Persist(i, Running(snap[i], "fallback"), "fallbacking")
    /\ UNCHANGED <<viewer, lock, token, runs, run_id>>

FallbackReturned(i) ==
    /\ pc[i] = "fallbacking"
    /\ \/ Interrupt(i) \/ Fails(i)
       \/ /\ ~ Cancelled(i)
          /\ Persist(i, Completed(snap[i], "fallback", snap[i].base["ingest"]), "prepare")
    /\ UNCHANGED <<viewer, lock, token, runs, run_id>>

PrepareTrainingInput(i) ==
    /\ pc[i] = "prepare"
    /\ \/ Interrupt(i)
       \/ ~ Cancelled(i) /\ (Fails(i) \/ Persist(i, snap[i], "train"))
    /\ UNCHANGED <<viewer, lock, token, runs, run_id>>

Train(i) ==
    /\ pc[i] = "train"
    /\ \/ Interrupt(i)
       \/ /\ ~ Cancelled(i) /\ Previous(snap[i], "train")
          /\ Goto(i, "validate")
          /\ UNCHANGED <<doc, snap, exc, faults>>
       \/ /\ ~ Cancelled(i) /\ ~ Previous(snap[i], "train")
          /\ Persist(i, Running(snap[i], "train"), "training")
    /\ UNCHANGED <<viewer, lock, token, runs, run_id>>

TrainReturned(i) ==
    /\ pc[i] = "training"
    /\ \/ Interrupt(i) \/ Fails(i)
       \/ /\ ~ Cancelled(i)
          /\ Persist(i, Completed(snap[i], "train", Reconstruction(snap[i])), "validate")
    /\ UNCHANGED <<viewer, lock, token, runs, run_id>>

\* validate and export are never reused.
Validate(i) ==
    /\ pc[i] = "validate"
    /\ \/ Interrupt(i)
       \/ ~ Cancelled(i) /\ Persist(i, Running(snap[i], "validate"), "validating")
    /\ UNCHANGED <<viewer, lock, token, runs, run_id>>

Validated(i) ==
    /\ pc[i] = "validating"
    /\ \/ Fails(i)
       \/ Persist(i, Completed(snap[i], "validate", snap[i].base["train"]), "export")
    /\ UNCHANGED <<viewer, lock, token, runs, run_id>>

Export(i) ==
    /\ pc[i] = "export"
    /\ \/ Interrupt(i)
       \/ ~ Cancelled(i) /\ Persist(i, Running(snap[i], "export"), "exporting")
    /\ UNCHANGED <<viewer, lock, token, runs, run_id>>

\* The points come from whatever artifacts the fallback stage names, be it
\* skipped or not; only if it names none from those of COLMAP.
Exported(i) ==
    LET d == snap[i]
        points == IF d.base["fallback"] # 0 THEN d.base["fallback"] ELSE d.base["colmap"]
    IN
    /\ pc[i] = "exporting"
    /\ \/ Interrupt(i) \/ Fails(i)
       \/ /\ ~ Cancelled(i)
          /\ Persist(i, [Completed(d, "export", d.base["train"]) EXCEPT !.cloud = points], "viewer")
    /\ UNCHANGED <<viewer, lock, token, runs, run_id>>

PublishViewer(i) ==
    /\ pc[i] = "viewer"
    /\ \/ Fails(i) /\ UNCHANGED viewer
       \/ viewer' = snap[i].run /\ Goto(i, "done") /\ UNCHANGED <<doc, snap, exc, faults>>
    /\ UNCHANGED <<lock, token, runs, run_id>>

Terminal(d) == \A s \in STAGES : d.st[s] \in TERMINAL_STAGE_STATES

\* _normalize_success
Succeed(i) ==
    /\ pc[i] = "done"
    /\ \/ Interrupt(i)
       \/ /\ ~ Cancelled(i)
          /\ IF Terminal(snap[i])
             THEN /\ Keep(i, [snap[i] EXCEPT !.status = "succeeded"])
                  /\ Goto(i, "final")
                  /\ UNCHANGED <<doc, exc, faults>>
             ELSE Fails(i)
    /\ UNCHANGED <<viewer, lock, token, runs, run_id>>

-----------------------------------------------------------------------------
(* The exception handlers and the finally block of run *)

Ended(d, state) == [Terminated(d, state) EXCEPT !.status = state]

\* Mutant: the stage that was active keeps its state.
HandleStage(i) ==
    LET e == exc[i] IN
    /\ pc[i] = "raised" /\ e \notin {"ProjectLockError", "ProjectStoreError"}
    /\ Keep(i, [snap[i] EXCEPT !.status = IF e = "InterruptedError" THEN "interrupted" ELSE "failed"])
    /\ Goto(i, "final")
    /\ UNCHANGED <<doc, viewer, lock, exc, token, runs, run_id, faults>>

\* ProjectLockError is re-raised as it is, whoever raised it.
Handle(i) ==
    LET e == exc[i] IN
    /\ pc[i] = "raised" /\ e # "ProjectStoreError"
    /\ Keep(i, CASE e = "ProjectLockError" -> snap[i]
                 [] e = "InterruptedError" -> Ended(snap[i], "interrupted")
                 [] OTHER -> Ended(snap[i], "failed"))
    /\ Goto(i, "final")
    /\ UNCHANGED <<doc, viewer, lock, exc, token, runs, run_id, faults>>

\* _mark_persistence_failure: what it writes of the snapshot.
Failed(i) == [Ended(snap[i], "failed") EXCEPT !.cur = "none"]

\* One more attempt, whose failure is swallowed unless it is an OSError.  A run
\* that never began makes it too: its snapshot replaces the document if both
\* name the same run or none, whatever was changed since the first load.
HandleStoreError(i) ==
    LET owned == doc.run = snap[i].run IN
    /\ pc[i] \in {"raised", "unwritten", "unstarted"} /\ exc[i] = "ProjectStoreError"
    /\ Keep(i, Failed(i))
    /\ \/ owned /\ doc' = Failed(i) /\ Goto(i, "release") /\ UNCHANGED faults
       \/ \E e \in Refusals(owned) :
              /\ Charge(e)
              /\ Goto(i, IF e = "OSError" /\ pc[i] = "unwritten" THEN "stuck" ELSE "release")
              /\ UNCHANGED doc
    /\ UNCHANGED <<viewer, lock, exc, token, runs, run_id>>

\* The run was never recorded: after any other exception nothing is written.
HandleUnstarted(i) ==
    /\ pc[i] = "unstarted" /\ exc[i] # "ProjectStoreError"
    /\ Goto(i, "release")
    /\ UNCHANGED <<doc, viewer, lock, snap, exc, token, runs, run_id, faults>>

\* The final snapshot.  Anything but a ProjectStoreError leaves the finally
\* block before the lock, the token and the running mark are given back.
Finalize(i) ==
    LET d == [snap[i] EXCEPT !.cur = "none"]
        owned == doc.run = d.run
    IN
    /\ pc[i] = "final"
    /\ Keep(i, d)
    /\ \/ owned /\ doc' = d /\ Goto(i, "release") /\ UNCHANGED <<exc, faults>>
       \/ \E e \in Refusals(owned) :
              /\ Charge(e)
              /\ exc' = [exc EXCEPT ![i] = e]
              /\ Goto(i, IF e = "ProjectStoreError" THEN "unwritten" ELSE "stuck")
              /\ UNCHANGED doc
    /\ UNCHANGED <<viewer, lock, token, runs, run_id>>

\* What an instance keeps of a run that is over: nothing.
Forget(i, s) ==
    /\ lock' = lock \ {i}
    /\ token' = token \ {i}
    /\ exc' = [exc EXCEPT ![i] = "none"]
    /\ snap' = [snap EXCEPT ![i] = Imported]
    /\ run_id' = [run_id EXCEPT ![i] = 0]
    /\ Goto(i, s)

Release(i) ==
    /\ pc[i] = "release"
    /\ Forget(i, "off")
    /\ UNCHANGED <<doc, viewer, runs, faults>>

-----------------------------------------------------------------------------
(* The user and the operating system *)

\* cancel: a token exists from Register on.
Cancel(i) ==
    /\ pc[i] \notin Waiting /\ ~ Cancelled(i)
    /\ token' = token \cup {i}
    /\ UNCHANGED <<doc, viewer, lock, pc, snap, exc, runs, run_id, faults>>

\* _idle_project_write: the run lock, then the status.
Idle == lock = {} /\ doc.status # "running"

\* Mutant: a completed training survives a new configuration.
StaleSome(d) ==
    [s \in STAGES |-> IF s # "train" /\ d.st[s] \notin {"pending", "running"}
                      THEN "stale" ELSE d.st[s]]

\* _mark_outputs_stale
Stale(d) == [s \in STAGES |-> IF d.st[s] \in {"pending", "running"} THEN d.st[s] ELSE "stale"]

\* import_input, set_profile, set_sampling_config, commit_video_import.
Configure(i) ==
    /\ pc[i] # "down" /\ Idle /\ doc.cfg < MaxConfig
    /\ doc' = [doc EXCEPT !.cfg = @ + 1, !.st = Stale(doc), !.run = 0, !.cur = "none",
                          !.status = "ready"]
    /\ UNCHANGED <<viewer, lock, pc, snap, exc, token, runs, run_id, faults>>

\* set_profile with the profile a video project has already: its stages are
\* stale, its status stays what it was.
SameProfile(i) ==
    /\ pc[i] # "down" /\ Idle
    /\ doc' = [doc EXCEPT !.st = Stale(doc), !.run = 0, !.cur = "none"]
    /\ UNCHANGED <<viewer, lock, pc, snap, exc, token, runs, run_id, faults>>

StageGroups ==
    {{"colmap", "fallback", "train", "validate", "export"}, {"train", "validate", "export"},
     {"export"}}

\* cleanup_project: the stages of the group start over, the receipt goes.
Cleanup(i, G) ==
    /\ pc[i] # "down" /\ Idle
    /\ doc' = [doc EXCEPT !.st = [s \in STAGES |-> IF s \in G THEN "pending" ELSE @[s]],
                          !.base = [s \in STAGES |-> IF s \in G THEN 0 ELSE @[s]],
                          !.run = 0, !.cur = "none", !.status = "ready"]
    /\ viewer' = 0
    /\ UNCHANGED <<lock, pc, snap, exc, token, runs, run_id, faults>>

\* Startup: recover_interrupted_projects, whose failures are ignored.
Launch(i) ==
    /\ pc[i] = "down"
    /\ Goto(i, "off")
    /\ \/ /\ doc' = IF doc.status = "running" /\ lock = {}
                    THEN [doc EXCEPT !.status = "interrupted", !.cur = "none",
                                     !.st = [s \in STAGES |-> IF @[s] = "running" THEN "interrupted" ELSE @[s]]]
                    ELSE doc
          /\ UNCHANGED faults
       \/ Fault /\ UNCHANGED doc
    /\ UNCHANGED <<viewer, lock, snap, exc, token, runs, run_id>>

Quit(i) ==
    /\ pc[i] \in {"off", "stuck"}
    /\ Forget(i, "down")
    /\ UNCHANGED <<doc, viewer, runs, faults>>

Crash(i) ==
    /\ pc[i] # "down" /\ Fault
    /\ Forget(i, "down")
    /\ UNCHANGED <<doc, viewer, runs>>

-----------------------------------------------------------------------------

Reconstructing(i) ==
    Reconstruct(i) \/ ColmapReturned(i) \/ SkipFallback(i) \/ Fallback(i) \/ FallbackReturned(i)
Publishing(i) ==
    Validate(i) \/ Validated(i) \/ Export(i) \/ Exported(i) \/ PublishViewer(i) \/ Succeed(i)
Ending(i) ==
    Handle(i) \/ HandleStoreError(i) \/ HandleUnstarted(i) \/ Finalize(i) \/ Release(i)

\* What the run thread does next.
RunThread(i) ==
    \/ AcquireRunLock(i) \/ Begin(i) \/ Ingest(i) \/ Ingested(i)
    \/ Reconstructing(i) \/ PrepareTrainingInput(i) \/ Train(i) \/ TrainReturned(i)
    \/ Publishing(i) \/ Ending(i)

User(i) ==
    \/ Register(i) \/ Cancel(i) \/ Configure(i) \/ SameProfile(i)
    \/ \E G \in StageGroups : Cleanup(i, G)

Next == \E i \in Instances : RunThread(i) \/ User(i) \/ Launch(i) \/ Quit(i) \/ Crash(i)

Spec == Init /\ [][Next]_vars

-----------------------------------------------------------------------------
(* Properties *)

\* A run thread that has recorded its run owns the document until it gives
\* the lock back: nobody else holds the lock and the document names its run
\* and its configuration (pipeline.py:926-940, 839-850).
RunOwnsDocument ==
    \A i \in Instances :
        /\ pc[i] \in Started \cup {"begin", "stuck"} => lock = {i}
        /\ pc[i] \in Started => doc.run = snap[i].run /\ doc.cfg = snap[i].cfg

\* A project recorded as succeeded by a run it still names is complete and
\* current (SameProfile leaves the status of a run it forgets): every stage is in
\* a terminal state, what is reused or rebuilt comes from the present input
\* and configuration, one reconstruction was used, and the viewer receipt
\* names this run (pipeline.py:1004-1029, 1402-1415; P2.md:76-78).
SuccessIsCurrent ==
    doc.status = "succeeded" /\ doc.run # 0 =>
        /\ \A s \in STAGES : doc.st[s] \in TERMINAL_STAGE_STATES
        /\ \A s \in {"ingest", "train", "validate", "export"} :
               doc.st[s] = "succeeded" /\ doc.base[s] = doc.cfg
        /\ (doc.st["colmap"] = "succeeded") # (doc.st["fallback"] = "succeeded")
        /\ viewer = doc.run

\* A stage is recorded as running only as the current stage of a run that is
\* recorded as running: "Any active stage is changed to failed or interrupted
\* before the final project snapshot is written, including restart recovery"
\* (docs/adr/P2.md:78-80).
StageHasRun ==
    \A s \in STAGES : doc.st[s] = "running" => doc.status = "running" /\ doc.cur = s

\* The one step that puts an older document back: the second load of a run
\* failed, and the snapshot from before the lock is written as failed
\* (pipeline.py:841, 878-880, 950-956).
WritesOld(i) ==
    /\ pc[i] = "unstarted" /\ exc[i] = "ProjectStoreError" /\ doc.run = snap[i].run
    /\ doc' = Failed(i)

\* No step of a run writes an older configuration over the user's last one,
\* except for a run whose document could not be loaded again under the lock.
NoLostConfig == [][doc'.cfg >= doc.cfg \/ \E i \in Instances : WritesOld(i)]_vars

\* A resumed run does not start a completed ingest, reconstruction or training
\* over, nor drop one in favour of another: "restarts at the first incomplete
\* stage" (docs/adr/P2.md:28-30).  The same run is excepted.
ResumeKeeps ==
    [][\/ \A s \in {"ingest", "colmap", "fallback", "train"} :
            doc.st[s] = "succeeded" => doc'.st[s] \in {"succeeded", "stale", "pending"}
       \/ \E i \in Instances : WritesOld(i)]_vars

\* The exported points, too, come from the present configuration: "no old
\* artifact can be presented as current" (docs/adr/P2.7.md:77-80).
CloudIsCurrent == doc.status = "succeeded" => doc.cloud = doc.cfg

-----------------------------------------------------------------------------
(* The inductive invariant *)

\* A stage that is recorded as succeeded was made from the recorded
\* configuration, and at most one reconstruction is.
Made(d) ==
    /\ \A s \in STAGES : d.st[s] = "succeeded" => d.base[s] = d.cfg
    /\ ~ (Previous(d, "colmap") /\ Previous(d, "fallback"))

\* What a document that is recorded as succeeded promises of its stages.
Complete(d) ==
    /\ Terminal(d)
    /\ \A s \in {"ingest", "train", "validate", "export"} :
           d.st[s] = "succeeded" /\ d.base[s] = d.cfg
    /\ Previous(d, "colmap") # Previous(d, "fallback")

Resumable == {"ingest", "colmap", "fallback", "train"}

\* The steps before which a stage has been completed, or found complete.
Validating == {"export", "exporting", "viewer", "done"}
Trained == {"validate", "validating"} \cup Validating
Reconstructed == {"prepare", "train", "training"} \cup Trained
Ingesting == {"ingest", "ingesting"}

\* What a run knows of its snapshot d, by the step p it is at.
Progress(d, p) ==
    /\ p \in Working \ Ingesting => Previous(d, "ingest")
    /\ p \in {"colmapping", "fallback", "fallbacking"} =>
           ~ Previous(d, "colmap") /\ ~ Previous(d, "fallback")
    /\ p = "skip" => Previous(d, "colmap")
    /\ p \in Reconstructed => Previous(d, "colmap") \/ Previous(d, "fallback")
    /\ p \in Trained => Previous(d, "train")
    /\ p \in Validating => Previous(d, "validate")
    /\ p \in {"viewer", "done"} => Previous(d, "export")

SnapshotInv(i) ==
    LET d == snap[i] IN
    pc[i] \in Started =>
        /\ doc.status = "running"
        /\ Made(d) /\ Progress(d, pc[i])
        /\ \A s \in Resumable : Previous(doc, s) => Previous(d, s)
        /\ pc[i] \in Working => d.status = "running"
        /\ pc[i] = "done" => viewer = d.run
        /\ d.status = "succeeded" => Complete(d) /\ viewer = d.run

\* The five-second lock of the document is never found busy by a run.
StateLockFree == "ProjectLockError" \notin Failures

\* What a run that has not begun knows of the snapshot it loaded first, and
\* may yet write: it was true of the document then.
LoadedInv(i) ==
    LET d == snap[i] IN
    pc[i] \in Before =>
        /\ Made(d)
        /\ pc[i] = "unstarted" /\ exc[i] = "ProjectStoreError" => lock = {i}
        /\ StateLockFree => \A s \in STAGES : d.st[s] = "running" => d.cur = s

\* A stage is active only while its step is: it is the current one of its run.
Activity ==
    [ingesting |-> "ingest", colmapping |-> "colmap", fallbacking |-> "fallback",
     training |-> "train", validating |-> "validate", exporting |-> "export"]
Active(d, s) == d.st[s] = "running"
ActivityInv(i) ==
    LET d == snap[i] IN
    /\ pc[i] \in Working =>
           \A s \in STAGES : Active(d, s) =>
               d.cur = s /\ pc[i] \in DOMAIN Activity /\ Activity[pc[i]] = s
    /\ pc[i] = "raised" =>
           exc[i] # "ProjectLockError" /\ \A s \in STAGES : Active(d, s) => d.cur = s
    /\ pc[i] \in {"final", "unwritten"} => \A s \in STAGES : ~ Active(d, s)

RunInv ==
    /\ TypeOK /\ RunOwnsDocument
    /\ Made(doc) /\ \A i \in Instances : SnapshotInv(i) /\ LoadedInv(i)
    /\ StateLockFree => \A i \in Instances : ActivityInv(i)

=============================================================================
