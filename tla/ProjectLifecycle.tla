-------------------------- MODULE ProjectLifecycle --------------------------
(***************************************************************************)
(* Where a project's two halves are on disk, and who may move them.        *)
(*                                                                         *)
(* apps/desktop/project_store.py keeps one JSON document per project (the  *)
(* metadata) and one directory per project (the workspace).  create,       *)
(* delete, restore, purge and the startup recovery move the two halves     *)
(* with separate renames, so a failing rename or a dying process can       *)
(* separate them.  apps/desktop/pipeline.py runs a project in place.       *)
(* Operating-system advisory locks (packages/file_lock.py) are all that    *)
(* keeps the application's instances apart; they are never waited for and  *)
(* they die with their process.                                            *)
(*                                                                         *)
(* An instance is one process: pc[i] is the thread that performs store     *)
(* operations (and the startup recovery, before anything else), run[i] its *)
(* pipeline threads.  A second store operation of the same process is      *)
(* excluded by the same locks as one of another process, so it is modelled *)
(* by another instance.                                                    *)
(*                                                                         *)
(* Abstractions: one project library; the timestamped trash directory of a *)
(* deletion and the uuid-named quarantine of a purge are one place each,   *)
(* per project; the five-second state lock is inside one step (whoever     *)
(* changes a document of an existing project already holds its run lock).  *)
(***************************************************************************)
EXTENDS Naturals

CONSTANTS
    Instances,   \* application processes
    Projects,    \* project identifiers
    Isolated,    \* the projects with a workspace of their own (workspace_kind)
    Runnable,    \* bound: the projects whose pipeline somebody starts
    Overlap,     \* may an instance start while another is inside an operation?
    MaxFaults    \* bound: crashes, failing renames and failing removals together

ASSUME IsolatedAssumption == Isolated \subseteq Projects
ASSUME RunnableAssumption == Runnable \subseteq Projects
ASSUME OverlapAssumption  == Overlap \in BOOLEAN
ASSUME FaultsAssumption   == MaxFaults \in Nat

VARIABLES
    meta,      \* place of <id>.json
    ws,        \* place of the workspace directory
    skeleton,  \* projects with an unmarked directory tree at the workspace path
    status,    \* durable status: "running" or "idle" (any other status)
    delLock,   \* holders of <id>.delete.lock
    runLock,   \* holders of <id>.run.lock
    pc,        \* step of the store operation of each instance
    tgt,       \* the project that step is about
    todo,      \* what is left of the recovery loop the instance is in
    run,       \* pipeline thread of each instance for each project
    faults     \* faults so far

vars == <<meta, ws, skeleton, status, delLock, runLock, pc, tgt, todo, run, faults>>

\* "partial" is a quarantine whose removal has already removed the marker;
\* "undone" is what a create that failed after listing its project took back.
MetaPlaces == {"absent", "live", "trash", "purging", "gone", "undone"}
WsPlaces   == {"absent", "home", "trash", "purging", "partial", "gone", "undone"}

\* Steps of recover_interrupted_projects and recover_lifecycle_residuals.
Recovering == {"mark", "moves", "move", "wipes", "wipe", "wiping", "metas", "metawipe"}

\* Steps of create: until it has unlinked it, the document may be taken back.
FreshSteps  == {"ensure", "load", "unlist"}
CreateSteps == {"create", "clear"} \cup FreshSteps

\* Steps at which the operation's thread owns both of the project's locks.
DeleteSteps  == {"delete_meta", "delete_ws", "delete_back"}
RestoreSteps == {"restore_ws", "restore_meta", "restore_back"}
PurgeSteps   == {"purge_ws", "purge_meta", "purge_back", "purge_rmws", "purge_rmmeta"}
MovingSteps  == DeleteSteps \cup RestoreSteps \cup PurgeSteps
Operations   == {"delete", "restore", "purge"}

Steps == {"down", "idle"} \cup CreateSteps \cup Recovering \cup Operations \cup MovingSteps

RunSteps == {"off", "checked", "ready", "locked", "on"}
Roles    == {"store", "pipeline"}

TypeOK ==
    /\ meta \in [Projects -> MetaPlaces]
    /\ ws \in [Projects -> WsPlaces]
    /\ skeleton \subseteq Projects
    /\ status \in [Projects -> {"idle", "running"}]
    /\ delLock \in [Projects -> SUBSET Instances]
    /\ runLock \in [Projects -> SUBSET (Instances \X Roles)]
    /\ pc \in [Instances -> Steps]
    /\ tgt \in [Instances -> Projects]
    /\ todo \in [Instances -> SUBSET Projects]
    /\ run \in [Instances -> [Projects -> RunSteps]]
    /\ faults \in 0..MaxFaults

\* Legacy projects were created by an older version; this one only creates
\* isolated ones.
Init ==
    /\ meta = [p \in Projects |-> IF p \in Isolated THEN "absent" ELSE "live"]
    /\ ws   = [p \in Projects |-> IF p \in Isolated THEN "absent" ELSE "home"]
    /\ skeleton = {}
    /\ status = [p \in Projects |-> "idle"]
    /\ delLock = [p \in Projects |-> {}]
    /\ runLock = [p \in Projects |-> {}]
    /\ pc = [i \in Instances |-> "down"]
    /\ tgt \in [Instances -> Projects]
    /\ todo = [i \in Instances |-> {}]
    /\ run = [i \in Instances |-> [p \in Projects |-> "off"]]
    /\ faults = 0

-----------------------------------------------------------------------------
(* Helpers *)

Goto(i, s) == pc' = [pc EXCEPT ![i] = s]

Fault == faults < MaxFaults /\ faults' = faults + 1

\* The workspace passes validate_isolated_identity: it carries its marker.
MarkerAtHome(p) == p \in Isolated => ws[p] = "home"

\* trash_entries lists every .trash/*/project.json; the quarantine of a
\* purge is a sibling directory and is listed as well.
Listed(p) == meta[p] \in {"trash", "purging"}

Release(i, p) ==
    /\ delLock' = [delLock EXCEPT ![p] = @ \ {i}]
    /\ runLock' = [runLock EXCEPT ![p] = @ \ {<<i, "store">>}]

\* The operation ends, one way or the other; both locks are released.
Finish(i) == Goto(i, "idle") /\ Release(i, tgt[i])

\* The user of an instance does not act while another one is starting.
Quiet == Overlap \/ \A j \in Instances : pc[j] \notin Recovering

-----------------------------------------------------------------------------
(* create: workspace and marker first, then the document; then the new     *)
(* project is used (ensure) and read back (load).  Whatever fails on the   *)
(* way, the handler unlinks a document that was saved and removes the      *)
(* workspace, with no lock at all: by then another instance may have found *)
(* the project in its list.                                                *)

CreateWorkspace(i, p) ==
    /\ pc[i] = "idle" /\ Quiet
    /\ p \in Isolated /\ meta[p] = "absent" /\ ws[p] = "absent"
    /\ ws' = [ws EXCEPT ![p] = "home"]
    /\ tgt' = [tgt EXCEPT ![i] = p]
    /\ Goto(i, "create")
    /\ UNCHANGED <<meta, skeleton, status, delLock, runLock, todo, run, faults>>

\* A document that is not saved leaves only a workspace to remove, as far as
\* it can be removed.
CreateMetadata(i) ==
    /\ pc[i] = "create"
    /\ \/ /\ meta' = [meta EXCEPT ![tgt[i]] = "live"]
          /\ Goto(i, "ensure")
          /\ UNCHANGED <<ws, faults>>
       \/ /\ Fault
          /\ \E w \in {"absent", "home"} : ws' = [ws EXCEPT ![tgt[i]] = w]
          /\ Goto(i, "idle")
          /\ UNCHANGED meta
    /\ UNCHANGED <<skeleton, status, delLock, runLock, tgt, todo, run>>

\* The marker is validated, then missing directories are created: a workspace
\* that leaves in between is built up again without one.
CreateEnsure(i) ==
    LET p == tgt[i] IN
    /\ pc[i] = "ensure"
    /\ \/ /\ skeleton' = IF MarkerAtHome(p) THEN skeleton ELSE skeleton \cup {p}
          /\ Goto(i, "load")
          /\ UNCHANGED faults
       \/ ~ MarkerAtHome(p) /\ Goto(i, "unlist") /\ UNCHANGED <<skeleton, faults>>
       \/ Fault /\ Goto(i, "unlist") /\ UNCHANGED skeleton
    /\ UNCHANGED <<meta, ws, status, delLock, runLock, tgt, todo, run>>

\* load also reads every other document: one that cannot be read, or that
\* vanishes while the list is read, is a fault as well.
CreateLoad(i) ==
    /\ pc[i] = "load"
    /\ \/ meta[tgt[i]] = "live" /\ Goto(i, "idle") /\ UNCHANGED faults
       \/ meta[tgt[i]] # "live" /\ Goto(i, "unlist") /\ UNCHANGED faults
       \/ Fault /\ Goto(i, "unlist")
    /\ UNCHANGED <<meta, ws, skeleton, status, delLock, runLock, tgt, todo, run>>

\* unlink(missing_ok): if it raises, the workspace is not removed either.
CreateUnlist(i) ==
    LET p == tgt[i] IN
    /\ pc[i] = "unlist"
    /\ \/ /\ meta' = [meta EXCEPT ![p] = IF @ = "live" THEN "undone" ELSE @]
          /\ Goto(i, "clear")
          /\ UNCHANGED faults
       \/ Fault /\ Goto(i, "idle") /\ UNCHANGED meta
    /\ UNCHANGED <<ws, skeleton, status, delLock, runLock, tgt, todo, run>>

\* rmtree(ignore_errors) of whatever is at the workspace path: the marker may
\* go before the rest, and the removal may stop at any point.
CreateClear(i) ==
    LET p == tgt[i] IN
    /\ pc[i] = "clear"
    /\ \/ /\ ws[p] = "home"
          /\ ws' = [ws EXCEPT ![p] = "undone"]
          /\ skeleton' = skeleton \cup {p}
          /\ UNCHANGED <<pc, faults>>
       \/ /\ ws' = [ws EXCEPT ![p] = IF @ = "home" THEN "undone" ELSE @]
          /\ skeleton' = skeleton \ {p}
          /\ Goto(i, "idle")
          /\ UNCHANGED faults
       \/ Fault /\ Goto(i, "idle") /\ UNCHANGED <<ws, skeleton>>
    /\ UNCHANGED <<meta, status, delLock, runLock, tgt, todo, run>>

-----------------------------------------------------------------------------
(* delete, restore and purge take the delete lock, then the run lock; both *)
(* refuse at once when somebody else holds them.                           *)

\* Mutant: the delete lock is not exclusive.
BeginUnlocked(i, p, o) ==
    /\ pc[i] = "idle" /\ Quiet
    /\ delLock' = [delLock EXCEPT ![p] = @ \cup {i}]
    /\ tgt' = [tgt EXCEPT ![i] = p]
    /\ Goto(i, o)
    /\ UNCHANGED <<meta, ws, skeleton, status, runLock, todo, run, faults>>

Begin(i, p, o) ==
    /\ pc[i] = "idle" /\ Quiet
    /\ delLock[p] = {}
    /\ delLock' = [delLock EXCEPT ![p] = {i}]
    /\ tgt' = [tgt EXCEPT ![i] = p]
    /\ Goto(i, o)
    /\ UNCHANGED <<meta, ws, skeleton, status, runLock, todo, run, faults>>

\* What the operation checks once it owns both locks, before it moves anything.
Allowed(o, p) ==
    CASE o = "delete"  -> meta[p] = "live" /\ status[p] # "running" /\ MarkerAtHome(p)
      [] o = "restore" -> /\ Listed(p)
                          /\ p \in Isolated => ws[p] = "trash" /\ p \notin skeleton
      [] o = "purge"   -> Listed(p) /\ (p \in Isolated => ws[p] = "trash")

\* Mutant: restore puts the document back before the workspace.
FirstStepRestore(o, p) ==
    CASE o = "delete"  -> "delete_meta"
      [] o = "restore" -> "restore_meta"
      [] o = "purge"   -> IF p \in Isolated THEN "purge_ws" ELSE "purge_meta"

\* Mutant: delete moves the workspace before the document.
FirstStepDelete(o, p) ==
    CASE o = "delete"  -> IF p \in Isolated THEN "delete_ws" ELSE "delete_meta"
      [] o = "restore" -> IF p \in Isolated THEN "restore_ws" ELSE "restore_meta"
      [] o = "purge"   -> IF p \in Isolated THEN "purge_ws" ELSE "purge_meta"

FirstStep(o, p) ==
    CASE o = "delete"  -> "delete_meta"
      [] o = "restore" -> IF p \in Isolated THEN "restore_ws" ELSE "restore_meta"
      [] o = "purge"   -> IF p \in Isolated THEN "purge_ws" ELSE "purge_meta"

\* Mutant: the run lock is taken from whoever holds it.
TakeRunLockBlind(i) ==
    LET p == tgt[i] IN
    /\ pc[i] \in Operations
    /\ IF meta[p] \in {"live", "trash"} /\ MarkerAtHome(p)
       THEN Goto(i, FirstStep(pc[i], p)) /\ UNCHANGED <<delLock, runLock>>
       ELSE Finish(i)
    /\ UNCHANGED <<meta, ws, skeleton, status, tgt, todo, run, faults>>

TakeRunLock(i) ==
    LET p == tgt[i] IN
    /\ pc[i] \in Operations
    /\ IF runLock[p] = {} /\ Allowed(pc[i], p)
       THEN /\ runLock' = [runLock EXCEPT ![p] = {<<i, "store">>}]
            /\ Goto(i, FirstStep(pc[i], p))
            /\ UNCHANGED delLock
       ELSE Finish(i)
    /\ UNCHANGED <<meta, ws, skeleton, status, tgt, todo, run, faults>>

\* Mutant: a legacy workspace is deleted like an isolated one.
DeleteMetadataAll(i) ==
    /\ pc[i] = "delete_meta"
    /\ meta' = [meta EXCEPT ![tgt[i]] = "trash"]
    /\ Goto(i, "delete_ws")
    /\ UNCHANGED <<ws, skeleton, status, delLock, runLock, tgt, todo, run, faults>>

\* delete: the metadata goes first.  A legacy workspace is left where it is.
DeleteMetadata(i) ==
    LET p == tgt[i] IN
    /\ pc[i] = "delete_meta"
    /\ \/ /\ meta[p] = "live"
          /\ meta' = [meta EXCEPT ![p] = "trash"]
          /\ IF p \in Isolated
             THEN Goto(i, "delete_ws") /\ UNCHANGED <<delLock, runLock>>
             ELSE Finish(i)
          /\ UNCHANGED faults
       \/ meta[p] # "live" /\ Finish(i) /\ UNCHANGED <<meta, faults>>
       \/ Fault /\ Finish(i) /\ UNCHANGED meta
    /\ UNCHANGED <<ws, skeleton, status, tgt, todo, run>>

\* Mutant: the rename is reported as failed after it was made.
DeleteWorkspaceLate(i) ==
    /\ pc[i] = "delete_ws"
    /\ ws' = [ws EXCEPT ![tgt[i]] = "trash"]
    /\ \/ Finish(i) /\ UNCHANGED faults
       \/ Fault /\ Goto(i, "delete_back") /\ UNCHANGED <<delLock, runLock>>
    /\ UNCHANGED <<meta, skeleton, status, tgt, todo, run>>

DeleteWorkspace(i) ==
    LET p == tgt[i] IN
    /\ pc[i] = "delete_ws"
    /\ \/ /\ ws[p] = "home"
          /\ ws' = [ws EXCEPT ![p] = "trash"]
          /\ Finish(i)
          /\ UNCHANGED faults
       \/ Fault /\ Goto(i, "delete_back") /\ UNCHANGED <<ws, delLock, runLock>>
       \/ ws[p] # "home" /\ Goto(i, "delete_back") /\ UNCHANGED <<ws, delLock, runLock, faults>>
    /\ UNCHANGED <<meta, skeleton, status, tgt, todo, run>>

DeleteRollback(i) ==
    /\ pc[i] = "delete_back"
    /\ \/ meta' = [meta EXCEPT ![tgt[i]] = "live"] /\ UNCHANGED faults
       \/ Fault /\ UNCHANGED meta
    /\ Finish(i)
    /\ UNCHANGED <<ws, skeleton, status, tgt, todo, run>>

\* restore: the workspace goes first.
RestoreWorkspace(i) ==
    LET p == tgt[i] IN
    /\ pc[i] = "restore_ws"
    /\ \/ /\ p \notin skeleton
          /\ ws' = [ws EXCEPT ![p] = "home"]
          /\ Goto(i, "restore_meta")
          /\ UNCHANGED <<delLock, runLock, faults>>
       \/ Fault /\ Finish(i) /\ UNCHANGED ws
       \/ p \in skeleton /\ Finish(i) /\ UNCHANGED <<ws, faults>>
    /\ UNCHANGED <<meta, skeleton, status, tgt, todo, run>>

RestoreMetadata(i) ==
    LET p == tgt[i] IN
    /\ pc[i] = "restore_meta"
    /\ \/ /\ meta' = [meta EXCEPT ![p] = "live"]
          /\ Finish(i)
          /\ UNCHANGED faults
       \/ /\ Fault
          /\ IF p \in Isolated
             THEN Goto(i, "restore_back") /\ UNCHANGED <<delLock, runLock>>
             ELSE Finish(i)
          /\ UNCHANGED meta
    /\ UNCHANGED <<ws, skeleton, status, tgt, todo, run>>

RestoreRollback(i) ==
    LET p == tgt[i] IN
    /\ pc[i] = "restore_back"
    /\ \/ ws[p] = "home" /\ ws' = [ws EXCEPT ![p] = "trash"] /\ UNCHANGED faults
       \/ ws[p] # "home" /\ UNCHANGED <<ws, faults>>
       \/ Fault /\ UNCHANGED ws
    /\ Finish(i)
    /\ UNCHANGED <<meta, skeleton, status, tgt, todo, run>>

\* purge: both halves are first renamed into quarantine, then removed.
PurgeWorkspace(i) ==
    /\ pc[i] = "purge_ws"
    /\ \/ /\ ws' = [ws EXCEPT ![tgt[i]] = "purging"]
          /\ Goto(i, "purge_meta")
          /\ UNCHANGED <<delLock, runLock, faults>>
       \/ Fault /\ Finish(i) /\ UNCHANGED ws
    /\ UNCHANGED <<meta, skeleton, status, tgt, todo, run>>

PurgeMetadata(i) ==
    LET p == tgt[i] IN
    /\ pc[i] = "purge_meta"
    /\ \/ /\ meta' = [meta EXCEPT ![p] = "purging"]
          /\ Goto(i, IF p \in Isolated THEN "purge_rmws" ELSE "purge_rmmeta")
          /\ UNCHANGED <<delLock, runLock, faults>>
       \/ /\ Fault
          /\ IF p \in Isolated
             THEN Goto(i, "purge_back") /\ UNCHANGED <<delLock, runLock>>
             ELSE Finish(i)
          /\ UNCHANGED meta
    /\ UNCHANGED <<ws, skeleton, status, tgt, todo, run>>

PurgeRollback(i) ==
    /\ pc[i] = "purge_back"
    /\ \/ ws' = [ws EXCEPT ![tgt[i]] = "trash"] /\ UNCHANGED faults
       \/ Fault /\ UNCHANGED ws
    /\ Finish(i)
    /\ UNCHANGED <<meta, skeleton, status, tgt, todo, run>>

\* shutil.rmtree of a quarantined workspace by the thread of i: the marker
\* may go before the rest, and the removal may stop at any point.
RemoveMarker(p) == ws[p] = "purging" /\ ws' = [ws EXCEPT ![p] = "partial"]
RemoveRest(p)   == ws[p] \in {"purging", "partial"} /\ ws' = [ws EXCEPT ![p] = "gone"]

PurgeRemoveWorkspace(i) ==
    LET p == tgt[i] IN
    /\ pc[i] = "purge_rmws"
    /\ \/ RemoveMarker(p) /\ UNCHANGED <<pc, delLock, runLock, faults>>
       \/ RemoveRest(p) /\ Goto(i, "purge_rmmeta") /\ UNCHANGED <<delLock, runLock, faults>>
       \/ Fault /\ Finish(i) /\ UNCHANGED ws
    /\ UNCHANGED <<meta, skeleton, status, tgt, todo, run>>

PurgeRemoveMetadata(i) ==
    /\ pc[i] = "purge_rmmeta"
    /\ \/ meta' = [meta EXCEPT ![tgt[i]] = "gone"] /\ UNCHANGED faults
       \/ Fault /\ UNCHANGED meta
    /\ Finish(i)
    /\ UNCHANGED <<ws, skeleton, status, tgt, todo, run>>

-----------------------------------------------------------------------------
(* Startup.  recover_interrupted_projects, then                            *)
(* recover_lifecycle_residuals; an exception ends the function it is       *)
(* raised in and the application starts all the same.                      *)

Start(i) ==
    /\ pc[i] = "down"
    /\ Overlap \/ \A j \in Instances : pc[j] \in {"down", "idle"}
    /\ todo' = [todo EXCEPT ![i] = {p \in Projects : meta[p] = "live" /\ status[p] = "running"}]
    /\ Goto(i, "mark")
    /\ UNCHANGED <<meta, ws, skeleton, status, delLock, runLock, tgt, run, faults>>

\* One project of the snapshot: skipped while its run lock is held; a
\* document that cannot be updated ends the loop.
MarkInterrupted(i, p) ==
    /\ pc[i] = "mark" /\ p \in todo[i]
    /\ IF runLock[p] # {}
       THEN /\ todo' = [todo EXCEPT ![i] = @ \ {p}]
            /\ UNCHANGED status
       ELSE IF meta[p] = "live" /\ MarkerAtHome(p)
       THEN /\ status' = [status EXCEPT ![p] = "idle"]
            /\ todo' = [todo EXCEPT ![i] = @ \ {p}]
       ELSE /\ todo' = [todo EXCEPT ![i] = {}]
            /\ UNCHANGED status
    /\ UNCHANGED <<meta, ws, skeleton, delLock, runLock, pc, tgt, run, faults>>

\* Mutant: only the project list is asked for libraries, not the trash.
LibraryKnownLive == \E p \in Isolated : meta[p] = "live"

\* The library is only visited while some isolated project still names it.
LibraryKnown == \E p \in Isolated : meta[p] \in {"live", "trash", "purging"}

MarkDone(i) ==
    /\ pc[i] = "mark" /\ todo[i] = {}
    /\ IF LibraryKnown
       THEN /\ todo' = [todo EXCEPT ![i] = {p \in Isolated : Listed(p)}]
            /\ Goto(i, "moves")
       ELSE /\ todo' = [todo EXCEPT ![i] = {p \in Projects : meta[p] = "purging"}]
            /\ Goto(i, "metas")
    /\ UNCHANGED <<meta, ws, skeleton, status, delLock, runLock, tgt, run, faults>>

\* Mutant: an entry that was inspected stays in the loop.
InspectEntryAgain(i, p) ==
    /\ pc[i] = "moves" /\ p \in todo[i]
    /\ IF Listed(p) /\ ws[p] = "home"
       THEN Goto(i, "move") /\ tgt' = [tgt EXCEPT ![i] = p]
       ELSE UNCHANGED <<pc, tgt>>
    /\ UNCHANGED <<meta, ws, skeleton, status, delLock, runLock, todo, run, faults>>

\* An entry whose workspace is not in the trash but still, with its marker,
\* at its original path is taken for an interrupted soft delete.  This is
\* read without any lock.
InspectEntry(i, p) ==
    /\ pc[i] = "moves" /\ p \in todo[i]
    /\ todo' = [todo EXCEPT ![i] = @ \ {p}]
    /\ IF Listed(p) /\ ws[p] = "home"
       THEN Goto(i, "move") /\ tgt' = [tgt EXCEPT ![i] = p]
       ELSE UNCHANGED <<pc, tgt>>
    /\ UNCHANGED <<meta, ws, skeleton, status, delLock, runLock, run, faults>>

\* Under the delete lock, the rename: what was read above is not read again.
FinishSoftDelete(i) ==
    LET p == tgt[i] IN
    /\ pc[i] = "move"
    /\ \/ /\ delLock[p] = {} /\ ws[p] = "home"
          /\ ws' = [ws EXCEPT ![p] = "trash"]
          /\ Goto(i, "moves")
          /\ UNCHANGED <<todo, faults>>
       \/ /\ delLock[p] # {}
          /\ Goto(i, "moves")
          /\ UNCHANGED <<ws, todo, faults>>
       \/ /\ delLock[p] = {}
          /\ \/ ws[p] # "home" /\ UNCHANGED faults
             \/ Fault
          /\ Goto(i, "idle")
          /\ todo' = [todo EXCEPT ![i] = {}]
          /\ UNCHANGED ws
    /\ UNCHANGED <<meta, skeleton, status, delLock, runLock, tgt, run>>

MovesDone(i) ==
    /\ pc[i] = "moves" /\ todo[i] = {}
    /\ todo' = [todo EXCEPT ![i] = {p \in Isolated : ws[p] \in {"purging", "partial"}}]
    /\ Goto(i, "wipes")
    /\ UNCHANGED <<meta, ws, skeleton, status, delLock, runLock, tgt, run, faults>>

\* A quarantine is only known by its marker.
InspectQuarantine(i, p) ==
    /\ pc[i] = "wipes" /\ p \in todo[i]
    /\ todo' = [todo EXCEPT ![i] = @ \ {p}]
    /\ IF ws[p] = "purging"
       THEN Goto(i, "wipe") /\ tgt' = [tgt EXCEPT ![i] = p]
       ELSE UNCHANGED <<pc, tgt>>
    /\ UNCHANGED <<meta, ws, skeleton, status, delLock, runLock, run, faults>>

LockQuarantine(i) ==
    LET p == tgt[i] IN
    /\ pc[i] = "wipe"
    /\ IF delLock[p] = {}
       THEN Goto(i, "wiping") /\ delLock' = [delLock EXCEPT ![p] = {i}]
       ELSE Goto(i, "wipes") /\ UNCHANGED delLock
    /\ UNCHANGED <<meta, ws, skeleton, status, runLock, tgt, todo, run, faults>>

RemoveQuarantine(i) ==
    LET p == tgt[i] IN
    /\ pc[i] = "wiping"
    /\ \/ RemoveMarker(p) /\ UNCHANGED <<pc, delLock, runLock, todo, faults>>
       \/ /\ RemoveRest(p)
          /\ Goto(i, "wipes") /\ Release(i, p)
          /\ UNCHANGED <<todo, faults>>
       \/ /\ \/ ws[p] \notin {"purging", "partial"} /\ UNCHANGED faults
             \/ Fault
          /\ Finish(i)
          /\ todo' = [todo EXCEPT ![i] = {}]
          /\ UNCHANGED ws
    /\ UNCHANGED <<meta, skeleton, status, tgt, run>>

WipesDone(i) ==
    /\ pc[i] = "wipes" /\ todo[i] = {}
    /\ todo' = [todo EXCEPT ![i] = {p \in Projects : meta[p] = "purging"}]
    /\ Goto(i, "metas")
    /\ UNCHANGED <<meta, ws, skeleton, status, delLock, runLock, tgt, run, faults>>

InspectMetadata(i, p) ==
    /\ pc[i] = "metas" /\ p \in todo[i]
    /\ todo' = [todo EXCEPT ![i] = @ \ {p}]
    /\ IF meta[p] = "purging"
       THEN Goto(i, "metawipe") /\ tgt' = [tgt EXCEPT ![i] = p]
       ELSE UNCHANGED <<pc, tgt>>
    /\ UNCHANGED <<meta, ws, skeleton, status, delLock, runLock, run, faults>>

RemoveMetadata(i) ==
    LET p == tgt[i] IN
    /\ pc[i] = "metawipe"
    /\ \/ /\ delLock[p] = {} /\ meta[p] = "purging"
          /\ meta' = [meta EXCEPT ![p] = "gone"]
          /\ Goto(i, "metas")
          /\ UNCHANGED <<todo, faults>>
       \/ /\ delLock[p] # {}
          /\ Goto(i, "metas")
          /\ UNCHANGED <<meta, todo, faults>>
       \/ /\ delLock[p] = {}
          /\ \/ meta[p] # "purging" /\ UNCHANGED faults
             \/ Fault
          /\ Goto(i, "idle")
          /\ todo' = [todo EXCEPT ![i] = {}]
          /\ UNCHANGED meta
    /\ UNCHANGED <<ws, skeleton, status, delLock, runLock, tgt, run>>

RecoveryDone(i) ==
    /\ pc[i] = "metas" /\ todo[i] = {}
    /\ Goto(i, "idle")
    /\ UNCHANGED <<meta, ws, skeleton, status, delLock, runLock, tgt, todo, run, faults>>

-----------------------------------------------------------------------------
(* A pipeline thread.  run first checks the project and creates missing    *)
(* workspace directories, all of it before it asks for the run lock.       *)

SetRun(i, p, s) == run' = [run EXCEPT ![i][p] = s]

RunCheck(i, p) ==
    /\ p \in Runnable /\ pc[i] \notin Recovering \cup {"down"}
    /\ run[i][p] = "off"
    /\ meta[p] = "live" /\ MarkerAtHome(p)
    /\ SetRun(i, p, "checked")
    /\ UNCHANGED <<meta, ws, skeleton, status, delLock, runLock, pc, tgt, todo, faults>>

\* mkdir(parents=True): a workspace that has just left is built up again,
\* empty and without a marker.
RunEnsure(i, p) ==
    /\ run[i][p] = "checked"
    /\ skeleton' = IF MarkerAtHome(p) THEN skeleton ELSE skeleton \cup {p}
    /\ SetRun(i, p, "ready")
    /\ UNCHANGED <<meta, ws, status, delLock, runLock, pc, tgt, todo, faults>>

RunLock(i, p) ==
    /\ run[i][p] = "ready"
    /\ IF runLock[p] = {}
       THEN SetRun(i, p, "locked") /\ runLock' = [runLock EXCEPT ![p] = {<<i, "pipeline">>}]
       ELSE SetRun(i, p, "off") /\ UNCHANGED runLock
    /\ UNCHANGED <<meta, ws, skeleton, status, delLock, pc, tgt, todo, faults>>

RunUnlock(i, p) ==
    /\ SetRun(i, p, "off")
    /\ runLock' = [runLock EXCEPT ![p] = @ \ {<<i, "pipeline">>}]

\* Mutant: what was read before the lock is not read again.
RunBeginStale(i, p) ==
    /\ run[i][p] = "locked"
    /\ status' = [status EXCEPT ![p] = "running"]
    /\ SetRun(i, p, "on")
    /\ UNCHANGED <<meta, ws, skeleton, runLock, delLock, pc, tgt, todo, faults>>

\* With the lock held the document is loaded again and the run recorded.
RunBegin(i, p) ==
    /\ run[i][p] = "locked"
    /\ IF meta[p] = "live" /\ status[p] # "running" /\ MarkerAtHome(p)
       THEN /\ status' = [status EXCEPT ![p] = "running"]
            /\ SetRun(i, p, "on")
            /\ UNCHANGED runLock
       ELSE RunUnlock(i, p) /\ UNCHANGED status
    /\ UNCHANGED <<meta, ws, skeleton, delLock, pc, tgt, todo, faults>>

RunEnd(i, p) ==
    /\ run[i][p] = "on"
    /\ status' = [status EXCEPT ![p] = IF meta[p] = "live" /\ MarkerAtHome(p) THEN "idle" ELSE @]
    /\ RunUnlock(i, p)
    /\ UNCHANGED <<meta, ws, skeleton, delLock, pc, tgt, todo, faults>>

-----------------------------------------------------------------------------
(* The process ends: every thread of it, and with them its locks. *)

Die(i) ==
    /\ Goto(i, "down")
    /\ todo' = [todo EXCEPT ![i] = {}]
    /\ run' = [run EXCEPT ![i] = [p \in Projects |-> "off"]]
    /\ delLock' = [p \in Projects |-> delLock[p] \ {i}]
    /\ runLock' = [p \in Projects |-> runLock[p] \ ({i} \X Roles)]
    /\ UNCHANGED <<meta, ws, skeleton, status, tgt>>

Crash(i) == pc[i] # "down" /\ Fault /\ Die(i)

\* The user closes an instance that has nothing to do.
Quit(i) ==
    /\ pc[i] = "idle" /\ \A p \in Projects : run[i][p] = "off"
    /\ Die(i)
    /\ UNCHANGED faults

-----------------------------------------------------------------------------

DoCreate(i) ==
    \/ CreateMetadata(i) \/ CreateEnsure(i) \/ CreateLoad(i)
    \/ CreateUnlist(i) \/ CreateClear(i)
Create(i) == DoCreate(i) \/ \E p \in Projects : CreateWorkspace(i, p)
DoDelete(i) == DeleteMetadata(i) \/ DeleteWorkspace(i) \/ DeleteRollback(i)
DoRestore(i) == RestoreWorkspace(i) \/ RestoreMetadata(i) \/ RestoreRollback(i)
DoPurge(i) ==
    \/ PurgeWorkspace(i) \/ PurgeMetadata(i) \/ PurgeRollback(i)
    \/ PurgeRemoveWorkspace(i) \/ PurgeRemoveMetadata(i)
RecoverProject(i, p) ==
    \/ MarkInterrupted(i, p) \/ InspectEntry(i, p)
    \/ InspectQuarantine(i, p) \/ InspectMetadata(i, p)
Recover(i) ==
    \/ \E p \in Projects : RecoverProject(i, p)
    \/ MarkDone(i) \/ FinishSoftDelete(i) \/ MovesDone(i) \/ LockQuarantine(i)
    \/ RemoveQuarantine(i) \/ WipesDone(i) \/ RemoveMetadata(i) \/ RecoveryDone(i)
Pipeline(i, p) ==
    \/ RunCheck(i, p) \/ RunEnsure(i, p) \/ RunLock(i, p)
    \/ RunBegin(i, p) \/ RunEnd(i, p)

\* A thread that is inside an operation goes on with it.
Continue(i) ==
    DoCreate(i) \/ TakeRunLock(i) \/ DoDelete(i) \/ DoRestore(i) \/ DoPurge(i) \/ Recover(i)

Next ==
    \E i \in Instances :
        \/ Start(i) \/ Recover(i) \/ Create(i)
        \/ \E p \in Projects, o \in Operations : Begin(i, p, o)
        \/ TakeRunLock(i) \/ DoDelete(i) \/ DoRestore(i) \/ DoPurge(i)
        \/ \E p \in Projects : Pipeline(i, p)
        \/ Crash(i) \/ Quit(i)

Spec == Init /\ [][Next]_vars

\* Threads are scheduled and no step waits for anybody; the user relaunches
\* an application that is down.
FairSpec ==
    /\ Spec
    /\ \A i \in Instances : WF_vars(Continue(i)) /\ WF_vars(Start(i))

-----------------------------------------------------------------------------
(* Properties *)

\* No two operations move the same project, one run at a time owns it, and
\* nothing is moved while a run is in progress: what delete_lock and run_lock
\* are for (project_store.py:723-1069, pipeline.py:842-854).
RunExcludesMoves ==
    \A p \in Projects, i, j \in Instances :
        /\ run[i][p] = "on" => ~ (pc[j] \in MovingSteps /\ tgt[j] = p)
        /\ run[i][p] = "on" /\ run[j][p] = "on" => i = j
        /\ pc[i] \in MovingSteps /\ pc[j] \in MovingSteps /\ tgt[i] = p /\ tgt[j] = p => i = j

\* A create that failed late has taken the document or the workspace back.
Undone(p) == "undone" \in {meta[p], ws[p]}

\* A project in the project list has its workspace at the recorded path, at
\* every step of every operation: delete moves the document away before the
\* workspace, restore brings it back after the workspace, create unlists
\* before it removes.  What create's unlocked removal takes from under a
\* delete or restore of another instance is the exception.
Whole(p) == MarkerAtHome(p) \/ ws[p] = "undone"
LiveIsWhole == \A p \in Projects : meta[p] = "live" => Whole(p)

\* A run in progress keeps its document and its workspace; only the rollback
\* of the project's own create takes them (project_store.py:296-302), which
\* asks for no lock.
RunKeepsProject ==
    \A p \in Projects, i \in Instances :
        run[i][p] = "on" => (meta[p] = "live" /\ MarkerAtHome(p)) \/ Undone(p)

\* Only residuals of a deletion are moved out of the workspace path
\* ("Finish only lifecycle residuals", project_store.py:845): when a
\* workspace leaves its path its project is in the trash, or its creation is
\* being rolled back.
OnlyTrashedMoves ==
    [][\A p \in Projects :
         ws[p] = "home" /\ ws'[p] # "home" =>
            meta[p] \in {"absent", "trash", "purging"} \/ ws'[p] = "undone"]_vars

\* A legacy workspace is never touched, whatever happens to its document
\* (project_store.py:1002-1029, legacy_workspace_preserved).
LegacyStays == \A p \in Projects \ Isolated : ws[p] = "home"

HalfDeleted(p) == p \in Isolated /\ Listed(p) /\ ws[p] = "home"
Owned(p) == \E i \in Instances : run[i][p] = "on"

\* A startup recovery that reaches its end leaves no half-finished deletion,
\* no marked quarantine and no quarantined document behind.
RecoverySettles ==
    [][\A i \in Instances : pc[i] = "metas" /\ pc'[i] = "idle" /\ faults' = faults =>
         \A p \in Projects :
            ~ HalfDeleted(p) /\ ws[p] # "purging" /\ meta[p] # "purging"]_vars

\* The startup recovery ends, so the application becomes usable.
RecoveryEnds ==
    \A i \in Instances : pc[i] \in Recovering ~> pc[i] \in {"idle", "down"}

\* If every instance is closed and one reopened again and again, a deletion
\* cut in two is completed (or undone), and a dead run does not stay
\* "running", unless a recovery that raced a restore has taken the workspace
\* away from its listed project (OnlyTrashedMoves fails in lifecycle_race), or
\* the rollback of its own create has.
Reopened == []<>(\A i \in Instances : pc[i] = "down")
Torn(p)  == meta[p] = "live" /\ ws[p] = "trash"
ResidueHeals ==
    Reopened => \A p \in Projects :
        /\ HalfDeleted(p) ~> ~ HalfDeleted(p)
        /\ (status[p] = "running" /\ ~ Owned(p)) ~> (status[p] = "idle" \/ Owned(p) \/ Torn(p) \/ Undone(p))

\* What a user of the project list is promised (module ProjectShelf).
PlaceOf(m) ==
    CASE m = "absent" -> "none"
      [] m = "live"   -> "listed"
      [] m \in {"trash", "purging"} -> "trashed"
      [] m \in {"gone", "undone"} -> "removed"
Shelf ==
    INSTANCE ProjectShelf WITH
        place  <- [p \in Projects |-> PlaceOf(meta[p])],
        active <- {p \in Projects : Owned(p)},
        fresh  <- {p \in Projects : \E i \in Instances : pc[i] \in FreshSteps /\ tgt[i] = p}
ShelfSpec == Shelf!Spec

-----------------------------------------------------------------------------
(* The inductive invariant *)

\* A lock has one holder, and who holds it is a matter of which step it is at.
LockInv ==
    \A p \in Projects :
        /\ \A a, b \in delLock[p] : a = b
        /\ \A a, b \in runLock[p] : a = b
        /\ \A i \in Instances :
            /\ i \in delLock[p] <=>
                   pc[i] \in Operations \cup MovingSteps \cup {"wiping"} /\ tgt[i] = p
            /\ <<i, "store">> \in runLock[p] <=> pc[i] \in MovingSteps /\ tgt[i] = p
            /\ <<i, "pipeline">> \in runLock[p] <=> run[i][p] \in {"locked", "on"}

\* Where the halves of the project of instance i are while i works on it.
StepPlace(i) ==
    LET p == tgt[i] IN
    /\ pc[i] = "create" => p \in Isolated /\ meta[p] = "absent" /\ ws[p] = "home"
    /\ pc[i] \in FreshSteps \cup {"clear"} => p \in Isolated /\ meta[p] # "absent"
    /\ pc[i] = "delete_meta" => meta[p] \in {"live", "undone"}
    /\ pc[i] \in {"delete_ws", "delete_back"} => p \in Isolated /\ meta[p] = "trash"
    /\ pc[i] \in RestoreSteps \cup {"purge_ws", "purge_meta", "purge_back"} => Listed(p)
    /\ pc[i] \in {"purge_rmws", "purge_rmmeta"} => meta[p] = "purging"
    /\ pc[i] \in {"restore_ws", "restore_back", "purge_ws", "purge_back", "purge_rmws"} =>
           p \in Isolated
    /\ pc[i] \in {"move", "wipe", "wiping"} => meta[p] # "absent"

\* Where the halves of any project are.
ProjectPlace(p) ==
    /\ ws[p] \notin {"absent", "home"} => meta[p] # "absent"
    /\ \A i \in Instances : run[i][p] = "on" => meta[p] \in {"live", "undone"}
    /\ \A i, j \in Instances :
          pc[i] \in CreateSteps /\ pc[j] \in CreateSteps /\ tgt[i] = p /\ tgt[j] = p => i = j

PlaceInv == (\A i \in Instances : StepPlace(i)) /\ \A p \in Projects : ProjectPlace(p)

\* The recovery only ever moves isolated workspaces.
LegacyInv ==
    /\ \A i \in Instances :
        /\ pc[i] \in {"moves", "move"} => todo[i] \subseteq Isolated
        /\ pc[i] = "move" => tgt[i] \in Isolated
    /\ LegacyStays

\* Where the workspace is, if instances start one at a time.
AloneInv ==
    \A i, j \in Instances : pc[i] \in Recovering /\ j # i => pc[j] \in {"down", "idle"}
StepWhole(i) ==
    /\ pc[i] \in DeleteSteps \cup {"restore_meta"} => Whole(tgt[i])
    /\ pc[i] = "move" => Listed(tgt[i])

\* What a recovery has still to look at in the loop it is in.
Ahead(i, inside) == todo[i] \cup (IF pc[i] \in inside THEN {tgt[i]} ELSE {})

\* Each loop of the recovery leaves nothing of its kind behind it.
StepSettles(i) ==
    /\ pc[i] = "purge_rmmeta" => ws[tgt[i]] # "purging"
    /\ pc[i] \in {"moves", "move"} =>
           \A p \in Projects : HalfDeleted(p) => p \in Ahead(i, {"move"})
    /\ pc[i] \in {"wipes", "wipe", "wiping"} =>
           \A p \in Projects :
               /\ ~ HalfDeleted(p)
               /\ ws[p] = "purging" => p \in Ahead(i, {"wipe", "wiping"})
    /\ pc[i] \in {"metas", "metawipe"} =>
           \A p \in Projects :
               /\ ~ HalfDeleted(p) /\ ws[p] # "purging"
               /\ meta[p] = "purging" => p \in Ahead(i, {"metawipe"})
SettleInv ==
    /\ \A p \in Projects : meta[p] = "gone" => ws[p] # "purging"
    /\ \A i \in Instances : StepSettles(i)

\* What create took from the list is at its path as well, until it is removed.
UndoneIsWhole == \A p \in Projects : meta[p] = "undone" => Whole(p)

WholeInv ==
    /\ LegacyInv /\ AloneInv /\ LiveIsWhole /\ UndoneIsWhole
    /\ \A i \in Instances : StepWhole(i)
    /\ SettleInv

LifecycleInv == TypeOK /\ LockInv /\ PlaceInv

=============================================================================
