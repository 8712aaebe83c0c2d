----------------------------- MODULE ProjectCopy -----------------------------
(***************************************************************************)
(* Copies of a project: ProjectStore.duplicate (apps/desktop/project_store *)
(* .py:463-649) and the part of the startup recovery that completes or     *)
(* removes the copies a dead process left (861-895).                       *)
(*                                                                         *)
(* A copy is built in a staging directory that carries a transaction       *)
(* marker, renamed to its place, listed by writing its document, and loses *)
(* the marker at last.  Recovery takes a marked directory without a listed *)
(* document for an interrupted copy and removes it.  The copy and its      *)
(* recovery hold the copy's lifecycle lock; a deletion, a restoration and  *)
(* a run of the copy, which is anybody's once it is listed, hold other     *)
(* locks.                                                                  *)
(*                                                                         *)
(* Abstractions: one isolated source; its outputs and the document that    *)
(* names them carry the number of the run that made them; deletion and     *)
(* restoration are as short as in module ProjectLifecycle, which has the   *)
(* rest of them.                                                           *)
(***************************************************************************)
EXTENDS Naturals

CONSTANTS
    Instances,   \* application processes
    MaxCopies,   \* bound: calls of duplicate
    MaxRuns,     \* bound: runs of the source
    MaxFaults    \* bound: failing file operations and crashes together

ASSUME BoundsAssumption == MaxCopies \in Nat /\ MaxRuns \in Nat /\ MaxFaults \in Nat

Copies == 1..MaxCopies

VARIABLES
    source,    \* the source's document and outputs
    srcLock,   \* holders of the source's lifecycle and run locks
    meta,      \* place of each copy's document
    dir,       \* place of its workspace
    marked,    \* workspaces with the transaction marker
    holds,     \* what is in the workspace
    clone,     \* what its document says
    life,      \* holders of its lifecycle lock
    busy,      \* holders of its run lock
    pc,        \* step of each instance
    own,       \* the copy it works on
    todo,      \* marked directories its recovery has still to look at
    seen,      \* where it saw the one it works on
    hurt,      \* copies that met one of the known ways of losing them
    faults     \* faults so far

disk  == <<meta, dir, marked, holds, clone, hurt>>
locks == <<srcLock, life, busy>>
vars  == <<source, disk, locks, pc, own, todo, seen, faults>>

Modes == {"none", "inputs", "complete"}

\* branded: the workspace has the project marker and receipts of its own.
Holdings == [inputs: BOOLEAN, outputs: 0..MaxRuns, branded: BOOLEAN]
Nothing == [inputs |-> FALSE, outputs |-> 0, branded |-> FALSE]

CopySteps == {"stage", "mark", "copy", "outputs", "brand", "publish", "save", "finish", "ensure",
              "fail", "unlist"}
Steps == {"down", "idle", "recover", "settle", "run", "use", "delete", "restore"} \cup CopySteps

TypeOK ==
    /\ source \in [status: {"idle", "running", "succeeded"}, run: 0..MaxRuns, outputs: 0..MaxRuns]
    /\ srcLock \subseteq Instances
    /\ meta \in [Copies -> {"absent", "live", "trash"}]
    /\ dir \in [Copies -> {"absent", "staging", "home", "trash"}]
    /\ marked \subseteq Copies
    /\ holds \in [Copies -> Holdings]
    /\ clone \in [Copies -> [mode: Modes, run: 0..MaxRuns]]
    /\ life \in [Copies -> SUBSET Instances]
    /\ busy \in [Copies -> SUBSET Instances]
    /\ pc \in [Instances -> Steps]
    /\ own \in [Instances -> 0..MaxCopies]
    /\ todo \in [Instances -> SUBSET Copies]
    /\ seen \in [Instances -> {"absent", "staging", "home"}]
    /\ hurt \subseteq Copies
    /\ faults \in 0..MaxFaults

Init ==
    /\ source = [status |-> "idle", run |-> 0, outputs |-> 0]
    /\ srcLock = {}
    /\ meta = [c \in Copies |-> "absent"]
    /\ dir = [c \in Copies |-> "absent"]
    /\ marked = {}
    /\ holds = [c \in Copies |-> Nothing]
    /\ clone = [c \in Copies |-> [mode |-> "none", run |-> 0]]
    /\ life = [c \in Copies |-> {}]
    /\ busy = [c \in Copies |-> {}]
    /\ pc = [i \in Instances |-> "down"]
    /\ own = [i \in Instances |-> 0]
    /\ todo = [i \in Instances |-> {}]
    /\ seen = [i \in Instances |-> "absent"]
    /\ hurt = {}
    /\ faults = 0

-----------------------------------------------------------------------------
(* Helpers *)

Goto(i, s) == pc' = [pc EXCEPT ![i] = s]
Fault == faults < MaxFaults /\ faults' = faults + 1

\* The thread is done and gives its locks back.
Leave(i) ==
    /\ Goto(i, "idle")
    /\ own' = [own EXCEPT ![i] = 0]
    /\ srcLock' = srcLock \ {i}
    /\ life' = [c \in Copies |-> life[c] \ {i}]
    /\ busy' = [c \in Copies |-> busy[c] \ {i}]

\* A workspace is removed, or, if that fails, some of it, with the marker or
\* without.
Removed(c) ==
    /\ dir' = [dir EXCEPT ![c] = "absent"]
    /\ marked' = marked \ {c}
    /\ holds' = [holds EXCEPT ![c] = Nothing]
RemovedInPart(c) ==
    /\ marked' \in {marked, marked \ {c}}
    /\ holds' = [holds EXCEPT ![c].inputs = FALSE]
    /\ UNCHANGED dir

\* The copy has all that its document names.
Whole(c) ==
    /\ holds[c].inputs /\ holds[c].branded
    /\ clone[c].mode = "complete" => holds[c].outputs = clone[c].run

-----------------------------------------------------------------------------
(* duplicate *)

\* Mutant: the run lock of the source is not taken.
CopyBeginUnlocked(i, c, mode) ==
    /\ pc[i] = "idle"
    /\ source.status # "running" /\ (mode = "complete" => source.status = "succeeded")
    /\ clone[c].mode = "none" /\ \A d \in Copies : d < c => clone[d].mode # "none"
    /\ clone' = [clone EXCEPT ![c] = [mode |-> mode, run |-> source.run]]
    /\ life' = [life EXCEPT ![c] = {i}]
    /\ own' = [own EXCEPT ![i] = c]
    /\ Goto(i, "stage")
    /\ UNCHANGED <<source, srcLock, meta, dir, marked, holds, busy, todo, seen, hurt, faults>>

\* The checks, the new document and the new identity; a complete copy needs a
\* run that succeeded, and its receipts.
CopyBegin(i, c, mode) ==
    /\ pc[i] = "idle" /\ srcLock = {}
    /\ source.status # "running" /\ (mode = "complete" => source.status = "succeeded")
    /\ clone[c].mode = "none" /\ \A d \in Copies : d < c => clone[d].mode # "none"
    /\ clone' = [clone EXCEPT ![c] = [mode |-> mode, run |-> source.run]]
    /\ srcLock' = {i}
    /\ life' = [life EXCEPT ![c] = {i}]
    /\ own' = [own EXCEPT ![i] = c]
    /\ Goto(i, "stage")
    /\ UNCHANGED <<source, meta, dir, marked, holds, busy, todo, seen, hurt, faults>>

CopyStage(i) ==
    /\ pc[i] = "stage"
    /\ \/ dir' = [dir EXCEPT ![own[i]] = "staging"] /\ Goto(i, "mark") /\ UNCHANGED faults
       \/ Fault /\ Goto(i, "fail") /\ UNCHANGED dir
    /\ UNCHANGED <<source, meta, marked, holds, clone, hurt, locks, own, todo, seen>>

CopyMark(i) ==
    /\ pc[i] = "mark"
    /\ \/ marked' = marked \cup {own[i]} /\ Goto(i, "copy") /\ UNCHANGED faults
       \/ Fault /\ Goto(i, "fail") /\ UNCHANGED marked
    /\ UNCHANGED <<source, meta, dir, holds, clone, hurt, locks, own, todo, seen>>

CopyInputs(i) ==
    /\ pc[i] = "copy"
    /\ \/ /\ holds' = [holds EXCEPT ![own[i]].inputs = TRUE]
          /\ Goto(i, IF clone[own[i]].mode = "complete" THEN "outputs" ELSE "brand")
          /\ UNCHANGED faults
       \/ Fault /\ Goto(i, "fail") /\ UNCHANGED holds
    /\ UNCHANGED <<source, meta, dir, marked, clone, hurt, locks, own, todo, seen>>

CopyOutputs(i) ==
    /\ pc[i] = "outputs"
    /\ \/ holds' = [holds EXCEPT ![own[i]].outputs = source.outputs] /\ Goto(i, "brand")
          /\ UNCHANGED faults
       \/ Fault /\ Goto(i, "fail") /\ UNCHANGED holds
    /\ UNCHANGED <<source, meta, dir, marked, clone, hurt, locks, own, todo, seen>>

\* The project marker, and the receipts made out to the copy.
CopyBrand(i) ==
    /\ pc[i] = "brand"
    /\ \/ holds' = [holds EXCEPT ![own[i]].branded = TRUE] /\ Goto(i, "publish")
          /\ UNCHANGED faults
       \/ Fault /\ Goto(i, "fail") /\ UNCHANGED holds
    /\ UNCHANGED <<source, meta, dir, marked, clone, hurt, locks, own, todo, seen>>

CopyPublish(i) ==
    /\ pc[i] = "publish"
    /\ \/ dir' = [dir EXCEPT ![own[i]] = "home"] /\ Goto(i, "save") /\ UNCHANGED faults
       \/ Fault /\ Goto(i, "fail") /\ UNCHANGED dir
    /\ UNCHANGED <<source, meta, marked, holds, clone, hurt, locks, own, todo, seen>>

\* From here on everybody sees the copy.
CopySave(i) ==
    /\ pc[i] = "save"
    /\ \/ meta' = [meta EXCEPT ![own[i]] = "live"] /\ Goto(i, "finish") /\ UNCHANGED faults
       \/ Fault /\ Goto(i, "fail") /\ UNCHANGED meta
    /\ UNCHANGED <<source, dir, marked, holds, clone, hurt, locks, own, todo, seen>>

\* unlink(missing_ok): a copy that was moved to the trash keeps its marker.
CopyFinish(i) ==
    LET c == own[i] IN
    /\ pc[i] = "finish"
    /\ \/ marked' = (IF dir[c] = "home" THEN marked \ {c} ELSE marked)
          /\ Goto(i, "ensure") /\ UNCHANGED faults
       \/ Fault /\ Goto(i, "fail") /\ UNCHANGED marked
    /\ UNCHANGED <<source, meta, dir, holds, clone, hurt, locks, own, todo, seen>>

\* ensure and load, which fail too if the copy was deleted meanwhile.
CopyEnsure(i) ==
    LET there == dir[own[i]] = "home" /\ meta[own[i]] = "live" IN
    /\ pc[i] = "ensure"
    /\ \/ there /\ Leave(i) /\ UNCHANGED faults
       \/ ~ there /\ Goto(i, "fail") /\ UNCHANGED <<faults, own, locks>>
       \/ there /\ Fault /\ Goto(i, "fail") /\ UNCHANGED <<own, locks>>
    /\ UNCHANGED <<source, disk, todo, seen>>

\* The handler: the workspace first, whether it is still being built, in its
\* place, or somebody's by now; errors of the removal are ignored ...
CopyFail(i) ==
    LET c == own[i] IN
    /\ pc[i] = "fail"
    /\ \/ dir[c] \in {"staging", "home"} /\ Removed(c) /\ UNCHANGED faults
       \/ dir[c] \in {"staging", "home"} /\ Fault /\ RemovedInPart(c)
       \/ dir[c] \in {"absent", "trash"} /\ UNCHANGED <<dir, marked, holds, faults>>
    /\ hurt' = (IF \/ meta[c] = "trash" \/ busy[c] # {}
                   \/ dir'[c] \in {"staging", "home"} /\ (meta[c] = "live" \/ c \notin marked')
                THEN hurt \cup {c} ELSE hurt)
    /\ Goto(i, "unlist")
    /\ UNCHANGED <<source, meta, clone, locks, own, todo, seen>>

\* ... then the document, unless it cannot be removed.
CopyUnlist(i) ==
    LET c == own[i] IN
    /\ pc[i] = "unlist"
    /\ \/ meta' = [meta EXCEPT ![c] = IF @ = "live" THEN "absent" ELSE @]
          /\ UNCHANGED <<hurt, faults>>
       \/ meta[c] = "live" /\ Fault /\ hurt' = hurt \cup {c} /\ UNCHANGED meta
    /\ Leave(i)
    /\ UNCHANGED <<source, dir, marked, holds, clone, todo, seen>>

-----------------------------------------------------------------------------
(* The source is run *)

RunBegin(i) ==
    /\ pc[i] = "idle" /\ srcLock = {} /\ source.status # "running" /\ source.run < MaxRuns
    /\ source' = [source EXCEPT !.status = "running", !.run = @ + 1]
    /\ srcLock' = {i}
    /\ Goto(i, "run")
    /\ UNCHANGED <<disk, life, busy, own, todo, seen, faults>>

RunWrite(i) ==
    /\ pc[i] = "run"
    /\ source' = [source EXCEPT !.outputs = source.run]
    /\ UNCHANGED <<disk, locks, pc, own, todo, seen, faults>>

RunEnd(i) ==
    /\ pc[i] = "run"
    /\ source' = [source EXCEPT !.status = IF source.outputs = source.run THEN "succeeded" ELSE "idle"]
    /\ Leave(i)
    /\ UNCHANGED <<disk, todo, seen, faults>>

-----------------------------------------------------------------------------
(* What others do with a listed copy *)

Take(i, c, s) ==
    /\ pc[i] = "idle" /\ busy[c] = {}
    /\ busy' = [busy EXCEPT ![c] = {i}]
    /\ own' = [own EXCEPT ![i] = c]
    /\ Goto(i, s)
    /\ UNCHANGED <<source, clone, srcLock, life, todo, seen, faults>>

\* A run of the copy; ensure_writable wants its project marker.
Use(i, c) ==
    /\ meta[c] = "live" /\ dir[c] = "home" /\ holds[c].branded
    /\ Take(i, c, "use")
    /\ UNCHANGED <<meta, dir, marked, holds, hurt>>

UseEnd(i) ==
    /\ pc[i] = "use"
    /\ Leave(i)
    /\ UNCHANGED <<source, disk, todo, seen, faults>>

\* The document goes first; if the workspace cannot follow, it comes back.
Delete(i, c) ==
    /\ meta[c] = "live" /\ dir[c] = "home" /\ holds[c].branded
    /\ Take(i, c, "delete")
    /\ meta' = [meta EXCEPT ![c] = "trash"]
    /\ UNCHANGED <<dir, marked, holds, hurt>>

DeleteWorkspace(i) ==
    LET c == own[i] IN
    /\ pc[i] = "delete"
    /\ \/ dir[c] = "home" /\ dir' = [dir EXCEPT ![c] = "trash"] /\ UNCHANGED <<meta, faults>>
       \/ dir[c] = "home" /\ Fault /\ meta' = [meta EXCEPT ![c] = "live"] /\ UNCHANGED dir
       \/ dir[c] # "home" /\ meta' = [meta EXCEPT ![c] = "live"] /\ UNCHANGED <<dir, faults>>
    /\ Leave(i)
    /\ UNCHANGED <<source, marked, holds, clone, todo, seen, hurt>>

\* The workspace comes back first.
Restore(i, c) ==
    /\ meta[c] = "trash" /\ dir[c] = "trash"
    /\ Take(i, c, "restore")
    /\ dir' = [dir EXCEPT ![c] = "home"]
    /\ UNCHANGED <<meta, marked, holds, hurt>>

RestoreMetadata(i) ==
    LET c == own[i] IN
    /\ pc[i] = "restore"
    /\ \/ meta' = [meta EXCEPT ![c] = "live"] /\ UNCHANGED <<dir, faults>>
       \/ Fault /\ dir' = [dir EXCEPT ![c] = IF @ = "home" THEN "trash" ELSE @] /\ UNCHANGED meta
    /\ Leave(i)
    /\ UNCHANGED <<source, marked, holds, clone, todo, seen, hurt>>

-----------------------------------------------------------------------------
(* Startup *)

\* A directory is known by its marker, in either place.
Start(i) ==
    /\ pc[i] = "down"
    /\ source' = IF srcLock = {} /\ source.status = "running"
                 THEN [source EXCEPT !.status = "idle"] ELSE source
    /\ todo' = [todo EXCEPT ![i] = {c \in marked : dir[c] \in {"staging", "home"}}]
    /\ Goto(i, "recover")
    /\ UNCHANGED <<disk, locks, own, seen, faults>>

\* The marker is read before the lock is asked for.
Inspect(i, c) ==
    /\ pc[i] = "recover" /\ c \in todo[i]
    /\ IF c \in marked /\ dir[c] \in {"staging", "home"}
       THEN /\ own' = [own EXCEPT ![i] = c] /\ seen' = [seen EXCEPT ![i] = dir[c]]
            /\ Goto(i, "settle") /\ UNCHANGED todo
       ELSE todo' = [todo EXCEPT ![i] = @ \ {c}] /\ UNCHANGED <<own, seen, pc>>
    /\ UNCHANGED <<source, disk, locks, faults>>

Proceed(i) ==
    /\ todo' = [todo EXCEPT ![i] = @ \ {own[i]}]
    /\ own' = [own EXCEPT ![i] = 0]
    /\ seen' = [seen EXCEPT ![i] = "absent"]
    /\ Goto(i, "recover")

\* An error ends the whole recovery.
Abort(i) ==
    /\ todo' = [todo EXCEPT ![i] = {}]
    /\ own' = [own EXCEPT ![i] = 0]
    /\ seen' = [seen EXCEPT ![i] = "absent"]
    /\ Goto(i, "idle")

\* A document at its place means a finished copy.  Everything else is taken
\* for an interrupted one, the workspace of a copy in the trash included.  A
\* directory that has been moved since it was seen is an error.
Judge(i) ==
    LET c == own[i]
        here == dir[c] = seen[i]
        listed == meta[c] = "live"
    IN
    \/ /\ listed /\ here /\ c \in marked
       /\ marked' = marked \ {c}
       /\ Proceed(i) /\ UNCHANGED <<dir, holds, hurt, faults>>
    \/ /\ ~ listed /\ here
       /\ Removed(c)
       /\ hurt' = (IF meta[c] = "trash" THEN hurt \cup {c} ELSE hurt)
       /\ Proceed(i) /\ UNCHANGED faults
    \/ /\ ~ listed /\ here /\ Fault
       /\ RemovedInPart(c)
       /\ hurt' = (IF meta[c] = "trash" \/ c \notin marked' THEN hurt \cup {c} ELSE hurt)
       /\ Abort(i)
    \/ /\ ~ here \/ (listed /\ c \notin marked)
       /\ Abort(i) /\ UNCHANGED <<dir, marked, holds, hurt, faults>>
    \/ /\ listed /\ here /\ Fault
       /\ Abort(i) /\ UNCHANGED <<dir, marked, holds, hurt>>

\* Mutant: the lock of the copy is not asked for.
SettleUnlocked(i) ==
    /\ pc[i] = "settle"
    /\ Judge(i)
    /\ UNCHANGED <<source, meta, clone, locks>>

Settle(i) ==
    /\ pc[i] = "settle"
    /\ \/ life[own[i]] = {} /\ Judge(i)
       \/ life[own[i]] # {} /\ Proceed(i) /\ UNCHANGED <<dir, marked, holds, hurt, faults>>
    /\ UNCHANGED <<source, meta, clone, locks>>

\* A deletion that was cut short is finished after the copies.
RecoverEnd(i) ==
    /\ pc[i] = "recover" /\ todo[i] = {}
    /\ \E done \in SUBSET {c \in Copies : meta[c] = "trash" /\ dir[c] = "home" /\ busy[c] = {}} :
        dir' = [c \in Copies |-> IF c \in done THEN "trash" ELSE dir[c]]
    /\ Goto(i, "idle")
    /\ UNCHANGED <<source, meta, marked, holds, clone, hurt, locks, own, todo, seen, faults>>

\* A process that dies before its staging directory has a marker, or while it
\* removes a copy, leaves what nobody will recognise.
Crash(i) ==
    /\ pc[i] # "down" /\ Fault
    /\ hurt' = (IF \/ pc[i] \in {"mark", "fail"} /\ dir[own[i]] = "staging" /\ own[i] \notin marked
                   \/ pc[i] = "unlist" /\ meta[own[i]] = "live"
                THEN hurt \cup {own[i]} ELSE hurt)
    /\ Goto(i, "down")
    /\ own' = [own EXCEPT ![i] = 0]
    /\ todo' = [todo EXCEPT ![i] = {}]
    /\ seen' = [seen EXCEPT ![i] = "absent"]
    /\ srcLock' = srcLock \ {i}
    /\ life' = [c \in Copies |-> life[c] \ {i}]
    /\ busy' = [c \in Copies |-> busy[c] \ {i}]
    /\ UNCHANGED <<source, meta, dir, marked, holds, clone>>

Quit(i) ==
    /\ pc[i] = "idle" /\ Goto(i, "down")
    /\ UNCHANGED <<source, disk, locks, own, todo, seen, faults>>

-----------------------------------------------------------------------------

Duplicate(i) ==
    \/ \E c \in Copies, mode \in {"inputs", "complete"} : CopyBegin(i, c, mode)
    \/ CopyStage(i) \/ CopyMark(i) \/ CopyInputs(i) \/ CopyOutputs(i) \/ CopyBrand(i)
    \/ CopyPublish(i) \/ CopySave(i) \/ CopyFinish(i) \/ CopyEnsure(i) \/ CopyFail(i)
    \/ CopyUnlist(i)
Others(i) ==
    \/ \E c \in Copies : Use(i, c) \/ Delete(i, c) \/ Restore(i, c)
    \/ UseEnd(i) \/ DeleteWorkspace(i) \/ RestoreMetadata(i)
    \/ RunBegin(i) \/ RunWrite(i) \/ RunEnd(i)
Startup(i) == Start(i) \/ (\E c \in Copies : Inspect(i, c)) \/ Settle(i) \/ RecoverEnd(i)

Next == \E i \in Instances : Duplicate(i) \/ Others(i) \/ Startup(i) \/ Crash(i) \/ Quit(i)

Spec == Init /\ [][Next]_vars

-----------------------------------------------------------------------------
(* Properties *)

\* A copy nobody works on is all there or not at all: listed, it has its
\* workspace with the inputs, its own receipts and the outputs its document
\* names; in the trash, it has them there or is on its way; not listed, it is
\* gone or marked for the next start (project_store.py:546-649, 861-895).  The
\* copies in hurt met one of the known ways around it: an error after they
\* were listed that met somebody's use or deletion of them, a removal that failed or was cut
\* short, or a recovery that took a copy in the trash for an interrupted one.
CopyWhole ==
    \A c \in Copies \ hurt :
        life[c] = {} /\ busy[c] = {} =>
            CASE meta[c] = "live"   -> dir[c] = "home" /\ Whole(c)
              [] meta[c] = "trash"  -> dir[c] \in {"home", "trash"} /\ Whole(c)
              [] meta[c] = "absent" -> dir[c] = "absent" \/ c \in marked

UserSteps == {"use", "delete", "restore"}

\* Each lock has the holder whose step says so, and one at most; a copy that
\* was not begun is nowhere.
LockInv ==
    /\ \A i, j \in srcLock : i = j
    /\ \A c \in Copies : (\A i, j \in life[c] : i = j) /\ (\A i, j \in busy[c] : i = j)
    /\ \A i \in Instances :
        /\ i \in srcLock <=> pc[i] \in CopySteps \cup {"run"}
        /\ own[i] # 0 <=> pc[i] \in CopySteps \cup UserSteps \cup {"settle"}
        /\ \A c \in Copies :
            /\ i \in life[c] <=> pc[i] \in CopySteps /\ own[i] = c
            /\ i \in busy[c] <=> pc[i] \in UserSteps /\ own[i] = c
    /\ \A c \in Copies :
        clone[c].mode = "none" =>
            /\ meta[c] = "absent" /\ dir[c] = "absent" /\ c \notin marked
            /\ \A i \in Instances : own[i] # c

\* A succeeded source has the outputs of its run, and does not change while it
\* is copied.
SourceInv ==
    /\ source.status = "succeeded" => source.outputs = source.run
    /\ \A i \in Instances :
        /\ pc[i] = "run" => source.status = "running"
        /\ pc[i] \in {"stage", "mark", "copy", "outputs"} /\ clone[own[i]].mode = "complete" =>
               source.outputs = clone[own[i]].run

\* Each step of a duplication finds the directory where it left it, although
\* others may use the copy once it is listed; who uses, deletes or restores a
\* copy finds its document where it left it, unless the copy is in hurt.
StepInv(i) ==
    LET c == own[i] IN
    /\ pc[i] \in {"stage", "mark", "copy", "outputs", "brand", "publish", "save"} =>
           meta[c] = "absent" /\ busy[c] = {}
    /\ pc[i] = "stage" => dir[c] = "absent"
    /\ pc[i] \in {"mark", "copy", "outputs", "brand", "publish"} => dir[c] = "staging"
    /\ pc[i] \in {"copy", "outputs", "brand", "publish", "save"} => c \in marked
    /\ pc[i] \in {"outputs", "brand"} => holds[c].inputs
    /\ pc[i] = "outputs" => clone[c].mode = "complete"
    /\ pc[i] = "brand" /\ clone[c].mode = "complete" => holds[c].outputs = clone[c].run
    /\ pc[i] \in {"publish", "save"} => Whole(c)
    /\ pc[i] = "save" => dir[c] = "home"
    /\ pc[i] \in {"finish", "ensure"} => meta[c] # "absent"
    /\ pc[i] = "fail" /\ c \notin hurt /\ meta[c] = "absent" /\ dir[c] = "home" => c \in marked
    /\ pc[i] = "unlist" /\ c \notin hurt =>
           /\ meta[c] # "trash" /\ busy[c] = {}
           /\ dir[c] = "absent" \/ (meta[c] = "absent" /\ c \in marked)
    /\ pc[i] = "use" /\ c \notin hurt => meta[c] = "live"
    /\ pc[i] \in {"delete", "restore"} /\ c \notin hurt => meta[c] = "trash"

\* CopyWhole of a copy that somebody may be at work on: only its own removal
\* takes the workspace of a listed one.
PlaceInv(c) ==
    /\ meta[c] = "live" =>
           \/ dir[c] = "home" /\ Whole(c)
           \/ dir[c] = "absent" /\ busy[c] = {} /\ \E i \in life[c] : pc[i] = "unlist"
    /\ meta[c] = "trash" =>
           dir[c] \in {"home", "trash"} /\ Whole(c) /\ (busy[c] # {} => dir[c] = "home")
    /\ meta[c] = "absent" =>
           dir[c] # "trash" /\ busy[c] = {} /\ (life[c] = {} => dir[c] = "absent" \/ c \in marked)

\* The locks of the source and of the copies are exclusive, a source is copied
\* as one run left it, and each thread finds the copy as its step expects
\* (project_store.py:471-649, 861-895).
CopyInv ==
    /\ TypeOK /\ LockInv /\ SourceInv
    /\ \A i \in Instances : StepInv(i)
    /\ \A c \in Copies \ hurt : PlaceInv(c)

=============================================================================
