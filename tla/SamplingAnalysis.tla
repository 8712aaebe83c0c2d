-------------------------- MODULE SamplingAnalysis --------------------------
(***************************************************************************)
(* The frame analysis of a project's video (apps/desktop/pipeline.py):     *)
(* analyze_sampling (676-762), called by the window or by a run (_ingest,  *)
(* 1059-1089); set_sampling_config and its like; commit_video_import       *)
(* (627-674); and what the startup recovery does with a swap that was cut  *)
(* short (381-393).                                                        *)
(*                                                                         *)
(* The document names thumbnails in inputs/analysis.  An analysis is built *)
(* in a staging directory; the old directory becomes a backup, the staging *)
(* directory takes its place, the document is written, and the backup is   *)
(* removed; an error puts the backup back.  Whoever touches the project    *)
(* first makes the directories it lacks (ensure_writable), the analysis    *)
(* directory among them, and run() does so before it has the lock.         *)
(*                                                                         *)
(* Abstractions: one isolated project with a video; a directory is known   *)
(* by the configuration whose thumbnails it holds, all of them, for an     *)
(* analysis is deterministic; a run is its ingest stage and its end.       *)
(***************************************************************************)
EXTENDS Integers, SequencesExt

CONSTANTS
    Instances,    \* application processes
    MaxConfigs,   \* bound: configurations of the sampling, the first included
    MaxFaults     \* bound: failing operations, crashes and refused runs together

ASSUME BoundsAssumption == MaxConfigs \in Nat \ {0} /\ MaxFaults \in Nat

Configs == 1..MaxConfigs
Missing == -1   \* no such directory
Mixed   == 0    \* empty, or not the whole of any one analysis
Contents == {Mixed} \cup Configs

VARIABLES
    doc,       \* the durable document
    dir,       \* inputs/analysis
    backups,   \* .analysis.*.backup, in the order in which they were made
    residue,   \* other directories left over: "staging", "failed"
    lock,      \* instances that hold the run lock
    pc,        \* step of each instance
    work,      \* what the instance has read and done
    fresh,     \* configurations so far
    lost,      \* known ways in which the document's thumbnails were lost
    faults     \* faults so far

vars == <<doc, dir, backups, residue, lock, pc, work, fresh, lost, faults>>

\* A number of frames is asked for: the one the user typed, the one that
\* follows from the video, or the one an automatic analysis settled on;
\* hashed is the one that selection_config_hash was computed with.
Numbers == {"typed", "default", "adjusted"}

\* shows is the configuration of the timeline, 0 for an empty one.
Documents ==
    [running: BOOLEAN, state: {"pending", "analyzing", "complete", "failed"},
     config: Configs, shows: 0..MaxConfigs, auto: BOOLEAN, requested: Numbers, hashed: Numbers]

Backups == [of: Contents, whole: BOOLEAN]

AnalysisSteps ==
    {"analyze", "swap", "publish", "unswap", "commit", "abandon", "restore", "note", "leave"}
Steps == {"down", "idle", "recover", "ingest", "extract", "end", "copy", "record"} \cup AnalysisSteps

\* run: the analysis belongs to a run; snap is the document the run holds;
\* before is the directory as it was, hits the faults met since.
Works ==
    [run: BOOLEAN, snap: Documents, before: Contents, hits: 0..MaxFaults, committed: BOOLEAN,
     import: 0..MaxConfigs]

FirstDocument ==
    [running |-> FALSE, state |-> "pending", config |-> 1, shows |-> 0, auto |-> TRUE,
     requested |-> "default", hashed |-> "typed"]
NoWork ==
    [run |-> FALSE, snap |-> FirstDocument, before |-> Mixed, hits |-> 0, committed |-> FALSE,
     import |-> 0]

TypeOK ==
    /\ doc \in Documents
    /\ dir \in {Missing} \cup Contents
    /\ backups \in Seq(Backups)
    /\ residue \subseteq {"staging", "failed"}
    /\ lock \subseteq Instances
    /\ pc \in [Instances -> Steps]
    /\ work \in [Instances -> Works]
    /\ fresh \in Configs
    /\ lost \subseteq {"import", "ensure", "age"}
    /\ faults \in 0..MaxFaults

Init ==
    /\ doc = FirstDocument
    /\ dir = Mixed
    /\ backups = <<>>
    /\ residue = {}
    /\ lock = {}
    /\ pc = [i \in Instances |-> "down"]
    /\ work = [i \in Instances |-> NoWork]
    /\ fresh = 1
    /\ lost = {}
    /\ faults = 0

-----------------------------------------------------------------------------
(* Helpers *)

Goto(i, s) == pc' = [pc EXCEPT ![i] = s]
Fault == faults < MaxFaults /\ faults' = faults + 1
Hit(i) == Fault /\ work' = [work EXCEPT ![i].hits = @ + 1]
Fine == UNCHANGED <<work, faults>>

Leave(i) ==
    /\ Goto(i, "idle")
    /\ work' = [work EXCEPT ![i] = NoWork]
    /\ lock' = lock \ {i}

\* ensure_writable: an empty directory in the place of a missing one, and the
\* recovery will not look for the backup any more.
Ensured == IF dir = Missing THEN Mixed ELSE dir
Ensure ==
    /\ dir' = Ensured
    /\ lost' = IF dir = Missing /\ backups # <<>> THEN lost \cup {"ensure"} ELSE lost

\* The document still names the configuration that is asked for.
Matches(d) == d.state = "complete" /\ d.hashed = d.requested

\* The configuration has changed: an empty timeline, nothing selected.
Configured(c, auto, hashed) ==
    [running |-> FALSE, state |-> "pending", config |-> c, shows |-> 0, auto |-> auto,
     requested |-> "default", hashed |-> hashed]

\* result: an automatic analysis settles on a number of its own, after the
\* hash was computed with the number it was given.
Analyzed(d) ==
    [d EXCEPT !.state = "complete", !.shows = d.config, !.hashed = d.requested,
              !.requested = IF d.auto THEN "adjusted" ELSE @]

-----------------------------------------------------------------------------
(* The configuration and the import *)

Idle(i) == pc[i] = "idle" /\ lock = {} /\ ~ doc.running

\* import_input, set_profile, set_sampling_config.
Configure(i) ==
    /\ Idle(i) /\ fresh < MaxConfigs
    /\ \E auto \in BOOLEAN, hashed \in {"typed", "default"} :
        doc' = Configured(fresh + 1, auto, hashed)
    /\ dir' = Ensured
    /\ lost' = {}
    /\ fresh' = fresh + 1
    /\ UNCHANGED <<backups, residue, lock, pc, work, faults>>

\* commit_video_import: the thumbnails are copied over those of the old
\* video, then the document is written.
ImportBegin(i) ==
    /\ pc[i] = "idle" /\ lock = {} /\ fresh < MaxConfigs
    /\ fresh' = fresh + 1
    /\ dir' = Mixed
    /\ lost' = lost \cup {"import"}
    /\ lock' = {i}
    /\ work' = [work EXCEPT ![i].import = fresh + 1]
    /\ Goto(i, "copy")
    /\ UNCHANGED <<doc, backups, residue, faults>>

ImportCopy(i) ==
    /\ pc[i] = "copy"
    /\ \/ dir' = work[i].import /\ Goto(i, "record") /\ UNCHANGED <<lock, work, faults>>
       \/ Fault /\ Leave(i) /\ UNCHANGED dir
    /\ UNCHANGED <<doc, backups, residue, fresh, lost>>

\* What the session analysed is complete, and an automatic analysis has
\* settled on a number; a project that says it is running is refused now.
ImportRecord(i) ==
    /\ pc[i] = "record"
    /\ \/ /\ ~ doc.running
          /\ \E auto \in BOOLEAN :
                doc' = Analyzed(Configured(work[i].import, auto, "default"))
          /\ lost' = {}
          /\ UNCHANGED faults
       \/ doc.running /\ UNCHANGED <<doc, lost, faults>>
       \/ Fault /\ UNCHANGED <<doc, lost>>
    /\ Leave(i)
    /\ UNCHANGED <<dir, backups, residue, fresh>>

-----------------------------------------------------------------------------
(* A run, seen from its first stage *)

\* The lock is free: the directories were made when run() was called, and a
\* holder of the lock may have died since.
RunBegin(i) ==
    /\ Idle(i)
    /\ Ensure \/ UNCHANGED <<dir, lost>>
    /\ doc' = [doc EXCEPT !.running = TRUE]
    /\ work' = [work EXCEPT ![i].run = TRUE, ![i].snap = doc]
    /\ lock' = {i}
    /\ Goto(i, "ingest")
    /\ UNCHANGED <<backups, residue, fresh, faults>>

\* The same call while somebody else has the lock: run() goes no further.
RunRefused(i) ==
    /\ pc[i] # "down" /\ lock # {} /\ dir = Missing /\ Fault
    /\ Ensure
    /\ UNCHANGED <<doc, backups, residue, lock, pc, work, fresh>>

\* An ingest stage that succeeded with this hash is reused: the project has
\* been analysed then, and whether the frames of that run are still there is
\* left open.  Otherwise a complete analysis of this configuration is used,
\* or one is made.
Ingest(i) ==
    /\ pc[i] = "ingest"
    /\ \/ work[i].snap.shows # 0 /\ Goto(i, "end") /\ Fine /\ UNCHANGED <<doc, dir, lost>>
       \/ /\ Matches(work[i].snap)
          /\ Goto(i, "extract") /\ Fine /\ UNCHANGED <<doc, dir, lost>>
       \/ /\ ~ Matches(work[i].snap)
          /\ Ensure
          /\ doc' = [doc EXCEPT !.state = "analyzing"]
          /\ work' = [work EXCEPT ![i].before = Ensured]
          /\ Goto(i, "analyze") /\ UNCHANGED faults
       \/ Hit(i) /\ Goto(i, "end") /\ UNCHANGED <<doc, dir, lost>>
    /\ UNCHANGED <<backups, residue, lock, fresh>>

\* The frames are extracted; the rest of the run writes no sampling.
Extract(i) ==
    /\ pc[i] = "extract"
    /\ Goto(i, "end")
    /\ UNCHANGED <<doc, dir, backups, residue, lock, work, fresh, lost, faults>>

\* The run writes the document it holds, however it ended; if it ended with a
\* busy state lock the document still says it is running.
RunEnd(i) ==
    /\ pc[i] = "end"
    /\ \/ /\ \E running \in {FALSE, work[i].hits > 0} :
                doc' = [work[i].snap EXCEPT !.running = running]
          /\ UNCHANGED faults
       \/ Fault /\ UNCHANGED doc
    /\ Leave(i)
    /\ UNCHANGED <<dir, backups, residue, fresh, lost>>

-----------------------------------------------------------------------------
(* analyze_sampling *)

AnalyzeBegin(i) ==
    /\ Idle(i)
    /\ Ensure
    /\ doc' = [doc EXCEPT !.state = "analyzing"]
    /\ lock' = {i}
    /\ work' = [work EXCEPT ![i].before = Ensured, ![i].snap = doc]
    /\ Goto(i, "analyze")
    /\ UNCHANGED <<backups, residue, fresh, faults>>

\* analyze_video, into the staging directory.
Analyze(i) ==
    /\ pc[i] = "analyze"
    /\ residue' = residue \cup {"staging"}
    /\ \/ Goto(i, "swap") /\ Fine
       \/ Hit(i) /\ Goto(i, "note")
    /\ UNCHANGED <<doc, dir, backups, lock, fresh, lost>>

\* The old directory, which ensure_writable has made if there was none.
Swap(i) ==
    /\ pc[i] = "swap"
    /\ \/ /\ backups' = Append(backups, [of |-> dir, whole |-> TRUE])
          /\ dir' = Missing
          /\ Goto(i, "publish") /\ Fine
       \/ Hit(i) /\ Goto(i, "note") /\ UNCHANGED <<dir, backups>>
    /\ UNCHANGED <<doc, residue, lock, fresh, lost>>

\* A directory that was made meanwhile may be replaced, or is in the way.
Publish(i) ==
    /\ pc[i] = "publish"
    /\ \/ dir' = doc.config /\ Goto(i, "commit") /\ Fine
       \/ dir # Missing /\ Goto(i, "unswap") /\ Fine /\ UNCHANGED dir
       \/ Hit(i) /\ Goto(i, "unswap") /\ UNCHANGED dir
    /\ UNCHANGED <<doc, backups, residue, lock, fresh, lost>>

\* Mutant: a failing publication leaves the old directory in its backup.
UnswapNot(i) ==
    /\ pc[i] = "unswap"
    /\ Goto(i, "note")
    /\ UNCHANGED <<doc, dir, backups, residue, lock, work, fresh, lost, faults>>

Unswap(i) ==
    /\ pc[i] = "unswap"
    /\ \/ dir' = Last(backups).of /\ backups' = Front(backups) /\ Fine
       \/ dir # Missing /\ Fine /\ UNCHANGED <<dir, backups>>
       \/ Hit(i) /\ UNCHANGED <<dir, backups>>
    /\ Goto(i, "note")
    /\ UNCHANGED <<doc, residue, lock, fresh, lost>>

\* apply: the configuration is compared, but nobody can have changed it.
Commit(i) ==
    /\ pc[i] = "commit"
    /\ \/ /\ doc.hashed = work[i].snap.hashed
          /\ doc' = Analyzed(doc)
          /\ work' = [work EXCEPT ![i].committed = TRUE, ![i].snap = Analyzed(@)]
          /\ lost' = {}
          /\ Goto(i, "leave") /\ UNCHANGED faults
       \/ Hit(i) /\ Goto(i, "abandon") /\ UNCHANGED <<doc, lost>>
    /\ UNCHANGED <<dir, backups, residue, lock, fresh>>

\* The new directory out of the way ...
Abandon(i) ==
    /\ pc[i] = "abandon"
    /\ \/ /\ dir' = Missing
          /\ residue' = residue \cup {"failed"}
          /\ Goto(i, "restore") /\ Fine
       \/ Hit(i) /\ Goto(i, "leave") /\ UNCHANGED <<dir, residue>>
    /\ UNCHANGED <<doc, backups, lock, fresh, lost>>

\* ... and the old one back; the new one goes even if the old one does not
\* come, and then the failure is not noted.
Restore(i) ==
    /\ pc[i] = "restore"
    /\ \/ dir' = Last(backups).of /\ backups' = Front(backups) /\ Goto(i, "note") /\ Fine
       \/ dir # Missing /\ Goto(i, "leave") /\ Fine /\ UNCHANGED <<dir, backups>>
       \/ Hit(i) /\ Goto(i, "leave") /\ UNCHANGED <<dir, backups>>
    /\ residue' = residue \ {"failed"}
    /\ UNCHANGED <<doc, lock, fresh, lost>>

Note(i) ==
    /\ pc[i] = "note"
    /\ \/ doc' = [doc EXCEPT !.state = "failed"] /\ Fine
       \/ Hit(i) /\ UNCHANGED doc
    /\ Goto(i, "leave")
    /\ UNCHANGED <<dir, backups, residue, lock, fresh, lost>>

\* A removal that ignores errors may stop anywhere.
RemoveBackup ==
    \/ backups' = Front(backups) /\ UNCHANGED faults
    \/ /\ Fault
       /\ \/ UNCHANGED backups
          \/ backups' = [backups EXCEPT ![Len(backups)].whole = FALSE]

\* finally; a run goes on with the new sampling, or ends.  What stays of the
\* staging directory when it cannot be removed is what a crash leaves of it.
LeaveAnalysis(i) ==
    /\ pc[i] = "leave"
    /\ residue' = residue \ {"staging"}
    /\ IF work[i].committed THEN RemoveBackup ELSE UNCHANGED <<backups, faults>>
    /\ IF work[i].run
       THEN /\ Goto(i, IF work[i].committed THEN "extract" ELSE "end")
            /\ UNCHANGED <<lock, work>>
       ELSE Leave(i)
    /\ UNCHANGED <<doc, dir, fresh, lost>>

-----------------------------------------------------------------------------
(* Startup: recover_interrupted_projects and recover_lifecycle_residuals    *)

Start(i) ==
    /\ pc[i] = "down"
    /\ doc' = IF lock = {} THEN [doc EXCEPT !.running = FALSE] ELSE doc
    /\ Goto(i, "recover")
    /\ UNCHANGED <<dir, backups, residue, lock, work, fresh, lost, faults>>

\* Mutant: the lock is not asked for.
RecoverBeginUnlocked(i) ==
    /\ pc[i] = "recover" /\ i \notin lock
    /\ lock' = lock \cup {i}
    /\ UNCHANGED <<doc, dir, backups, residue, pc, work, fresh, lost, faults>>

RecoverBegin(i) ==
    /\ pc[i] = "recover" /\ i \notin lock
    /\ IF lock = {} /\ ~ doc.running THEN lock' = {i} /\ UNCHANGED <<pc, work>> ELSE Leave(i)
    /\ UNCHANGED <<doc, dir, backups, residue, fresh, lost, faults>>

\* The newest backup by st_mtime, the time of the last change inside it: one
\* that was partly removed may look newer than one that was made later.
Newest(k) == ~ backups[k].whole \/ \A j \in DOMAIN backups : backups[j].whole => j <= k

\* Mutant: the first backup found.
RecoverRestoreFirst(i) ==
    /\ pc[i] = "recover" /\ i \in lock /\ dir = Missing
    /\ \/ /\ backups # <<>>
          /\ dir' = Head(backups).of
          /\ backups' = Tail(backups)
          /\ UNCHANGED <<pc, lock, work, faults>>
       \/ Fault /\ Leave(i) /\ UNCHANGED <<dir, backups>>
    /\ UNCHANGED <<doc, residue, fresh, lost>>

RecoverRestore(i) ==
    /\ pc[i] = "recover" /\ i \in lock /\ dir = Missing
    /\ \/ /\ \E k \in DOMAIN backups :
                /\ Newest(k)
                /\ dir' = IF backups[k].whole THEN backups[k].of ELSE Mixed
                /\ lost' = IF backups[k].whole THEN lost ELSE lost \cup {"age"}
                /\ backups' = RemoveAt(backups, k)
          /\ UNCHANGED <<pc, lock, work, faults>>
       \/ backups # <<>> /\ Fault /\ Leave(i) /\ UNCHANGED <<dir, backups, lost>>
    /\ UNCHANGED <<doc, residue, fresh>>

\* The other directories one by one; an error, which may come when a backup is
\* removed in part, ends the whole recovery.
RecoverRemove(i) ==
    /\ pc[i] = "recover" /\ i \in lock /\ (dir # Missing \/ backups = <<>>)
    /\ \/ /\ \/ \E k \in DOMAIN backups : backups' = RemoveAt(backups, k) /\ UNCHANGED residue
             \/ \E r \in residue : residue' = residue \ {r} /\ UNCHANGED backups
          /\ UNCHANGED <<pc, lock, work, faults>>
       \/ /\ backups # <<>> \/ residue # {}
          /\ Fault /\ Leave(i) /\ UNCHANGED <<backups, residue>>
       \/ /\ \E k \in DOMAIN backups : backups' = [backups EXCEPT ![k].whole = FALSE]
          /\ Fault /\ Leave(i) /\ UNCHANGED residue
    /\ UNCHANGED <<doc, dir, fresh, lost>>

RecoverEnd(i) ==
    /\ pc[i] = "recover" /\ i \in lock
    /\ backups = <<>> /\ residue = {}
    /\ Leave(i)
    /\ UNCHANGED <<doc, dir, backups, residue, fresh, lost, faults>>

Die(i) ==
    /\ Goto(i, "down")
    /\ work' = [work EXCEPT ![i] = NoWork]
    /\ lock' = lock \ {i}
    /\ UNCHANGED <<doc, dir, backups, residue, fresh, lost>>

Quit(i) == pc[i] = "idle" /\ Die(i) /\ UNCHANGED faults
Crash(i) == pc[i] # "down" /\ Fault /\ Die(i)

-----------------------------------------------------------------------------

Analysis(i) ==
    \/ AnalyzeBegin(i) \/ Analyze(i) \/ Swap(i) \/ Publish(i) \/ Unswap(i) \/ Commit(i)
    \/ Abandon(i) \/ Restore(i) \/ Note(i) \/ LeaveAnalysis(i)
Change(i) == Configure(i) \/ ImportBegin(i) \/ ImportCopy(i) \/ ImportRecord(i)
Run(i) == RunBegin(i) \/ RunRefused(i) \/ Ingest(i) \/ Extract(i) \/ RunEnd(i)
Startup(i) ==
    Start(i) \/ RecoverBegin(i) \/ RecoverRestore(i) \/ RecoverRemove(i) \/ RecoverEnd(i)

Next == \E i \in Instances : Analysis(i) \/ Change(i) \/ Run(i) \/ Startup(i) \/ Quit(i) \/ Crash(i)

Spec == Init /\ [][Next]_vars

-----------------------------------------------------------------------------
(* Properties *)

\* The thumbnails of the timeline the document shows are in place, or in a
\* backup that the next start puts back (pipeline.py:721-762, 381-393).  There
\* are three ways around it, which lost records: an import that copies its
\* thumbnails and does not get as far as the document, an ensure_writable
\* between the renames, and a half-removed backup that looks new.
TimelineKept ==
    doc.shows # 0 /\ lost = {} =>
        \/ dir = doc.shows
        \/ dir = Missing /\ \E k \in DOMAIN backups : backups[k] = [of |-> doc.shows, whole |-> TRUE]

\* One step of an analysis fails, and the directory is what it was
\* (pipeline.py:724-731, 744-753); a second failure may leave it in its backup.
FailureRestores ==
    [][\A i \in Instances :
         pc[i] = "leave" /\ pc'[i] # "leave" /\ pc'[i] # "down"
         /\ ~ work[i].committed /\ work[i].hits <= 1 /\ "ensure" \notin lost =>
            dir = work[i].before]_vars

\* The lock is exclusive, and whoever works has it.
LockInv ==
    /\ \A i, j \in lock : i = j
    /\ \A i \in Instances :
        /\ pc[i] \notin {"down", "idle", "recover"} => i \in lock
        /\ pc[i] \in {"down", "idle"} => i \notin lock
        /\ pc[i] \in {"down", "idle", "recover"} => work[i] = NoWork
        /\ work[i].hits <= faults

Swapped == {"publish", "unswap", "commit", "abandon", "restore"}
RunSteps == {"ingest", "extract", "end"}

\* A run or an analysis holds the document but for its state, and a run
\* extracts frames only of the configuration the project has.
SnapshotInv(i) ==
    LET d == work[i].snap IN
    /\ pc[i] \in RunSteps \cup AnalysisSteps =>
           /\ d.config = doc.config /\ d.shows = doc.shows /\ d.auto = doc.auto
           /\ d.requested = doc.requested /\ d.hashed = doc.hashed
           /\ d.state = "complete" => d.shows = d.config
    /\ pc[i] \in RunSteps \/ (pc[i] \in AnalysisSteps /\ work[i].run) => doc.running
    /\ pc[i] = "ingest" => work[i].run /\ ~ work[i].committed /\ work[i].hits = 0
    /\ pc[i] = "extract" => d.shows = doc.config

\* Where the old directory is at each step, and how many faults it took.
SwapInv(i) ==
    LET w == work[i]
        disturbed == "ensure" \in lost
    IN
    /\ pc[i] \in {"copy", "record"} => w.import # 0 /\ "import" \in lost
    /\ pc[i] = "record" => dir = w.import
    /\ pc[i] \in {"analyze", "swap"} => dir = w.before
    /\ pc[i] \in {"analyze", "swap", "publish", "commit"} => w.hits = 0
    /\ pc[i] \in {"abandon", "restore"} => w.hits > 0
    /\ pc[i] = "unswap" => w.hits > 0 \/ disturbed
    /\ pc[i] \in AnalysisSteps \ {"leave"} => ~ w.committed
    /\ pc[i] \in Swapped =>
           /\ backups # <<>> /\ Last(backups) = [of |-> w.before, whole |-> TRUE]
           /\ doc.shows # 0 /\ lost = {} => w.before = doc.shows
    /\ pc[i] \in {"publish", "unswap", "restore"} => dir = Missing \/ disturbed
    /\ pc[i] \in {"commit", "abandon"} => dir = doc.config
    /\ pc[i] = "leave" /\ w.committed =>
           dir = doc.config /\ doc.shows = doc.config /\ backups # <<>>
    /\ pc[i] \in {"note", "leave"} /\ ~ w.committed /\ w.hits <= 1 /\ ~ disturbed => dir = w.before

\* An analysis that is shown, or called complete, is one of the
\* configuration; of several backups the last whole one is the one to put
\* back.
ShowsInv ==
    /\ doc.shows \in {0, doc.config}
    /\ doc.state = "complete" => doc.shows = doc.config
    /\ doc.shows # 0 /\ lost = {} =>
        \/ dir = doc.shows
        \/ dir = Missing /\ \E k \in DOMAIN backups :
                                /\ backups[k] = [of |-> doc.shows, whole |-> TRUE]
                                /\ \A j \in DOMAIN backups : backups[j].whole => j <= k

AnalysisInv ==
    /\ TypeOK /\ LockInv
    /\ \A i \in Instances : SnapshotInv(i) /\ SwapInv(i)
    /\ ShowsInv

=============================================================================
