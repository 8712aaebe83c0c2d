------------------------- MODULE CleanupTransaction -------------------------
(***************************************************************************)
(* Clearing outputs of a project: PipelineController.cleanup_project       *)
(* (apps/desktop/pipeline.py:166-309) and what the startup recovery makes  *)
(* of the transactions it left behind (311-410).                           *)
(*                                                                         *)
(* The outputs are renamed one by one into a transaction directory, then   *)
(* the document is changed, then the directory is removed; the phase in    *)
(* its transaction.json says how far this got.  An error moves everything  *)
(* back, unless the document has been changed.  A process may die between  *)
(* any two of these steps, and the next start decides from the phase and   *)
(* from the document whether to finish the transaction or to undo it.      *)
(*                                                                         *)
(* Abstractions: one isolated project; the reconstruction, the training    *)
(* and the exports of a run are a file each, the two reconstruction stages *)
(* one stage, and training includes its validation; a run is what module   *)
(* PipelineRun shows of it from outside: it makes its outputs in order and *)
(* ends.                                                                   *)
(***************************************************************************)
EXTENDS Naturals

CONSTANTS
    Instances,     \* application processes
    Users,         \* bound: those whose user runs, configures or clears
    Choices,       \* bound: the targets each cleanup is asked for
    MaxRuns,       \* bound: runs of the pipeline
    MaxCleanups,   \* bound: calls of cleanup_project
    MaxFaults      \* bound: failing file operations and crashes together

ASSUME BoundsAssumption == MaxRuns \in Nat /\ MaxCleanups \in Nat /\ MaxFaults \in Nat

Runs == 1..MaxRuns
Transactions == 1..MaxCleanups
Stages == {"reconstruction", "training", "export"}
Targets == {"reconstruction", "training", "viewer", "exports"}

ASSUME UsersAssumption == Users \subseteq Instances
ASSUME ChoicesAssumption == Choices \in [Transactions -> SUBSET Targets]

\* The run whose receipt the viewer manifest holds; all other outputs are in
\* the directory of their run.
Files == (Stages \cup {"timeline", "viewer"}) \X Runs

VARIABLES
    files,    \* outputs in place
    doc,      \* the durable document
    trans,    \* the transaction directories
    lock,     \* instances that hold the project's run lock
    pc,       \* step of each instance
    own,      \* the transaction it works on
    runs,     \* runs so far
    faults    \* faults so far

vars == <<files, doc, trans, lock, pc, own, runs, faults>>

\* made[s] is the run that made the artifacts stage s names, 0 for none;
\* cleared is what the warnings say of earlier cleanups.
Documents ==
    [status: {"ready", "running", "succeeded", "interrupted"}, run: 0..MaxRuns,
     stage: [Stages -> {"pending", "succeeded", "stale"}], made: [Stages -> 0..MaxRuns],
     cleared: SUBSET Targets]

\* "bare" is a directory without a readable manifest, "gone" one that was
\* removed; done records that the document has been changed.
TransactionStates ==
    [phase: {"absent", "bare", "moving", "moved", "committed", "gone"}, target: Targets,
     moves: SUBSET Files, inside: SUBSET Files, done: BOOLEAN]

CleanupSteps == {"record", "move", "commit", "confirm", "erase", "undo"}
Steps == {"down", "idle", "recover", "run"} \cup CleanupSteps

TypeOK ==
    /\ files \subseteq Files
    /\ doc \in Documents
    /\ trans \in [Transactions -> TransactionStates]
    /\ lock \subseteq Instances
    /\ pc \in [Instances -> Steps]
    /\ own \in [Instances -> 0..MaxCleanups]
    /\ runs \in 0..MaxRuns
    /\ faults \in 0..MaxFaults

NoTransaction ==
    [phase |-> "absent", target |-> "viewer", moves |-> {}, inside |-> {}, done |-> FALSE]

Init ==
    /\ files = {}
    /\ doc = [status |-> "ready", run |-> 0, stage |-> [s \in Stages |-> "pending"],
              made |-> [s \in Stages |-> 0], cleared |-> {}]
    /\ trans = [x \in Transactions |-> NoTransaction]
    /\ lock = {}
    /\ pc = [i \in Instances |-> "down"]
    /\ own = [i \in Instances |-> 0]
    /\ runs = 0
    /\ faults = 0

-----------------------------------------------------------------------------
(* Helpers *)

Goto(i, s) == pc' = [pc EXCEPT ![i] = s]
Fault == faults < MaxFaults /\ faults' = faults + 1

\* The thread gives its locks back.
Leave(i) ==
    /\ Goto(i, "idle")
    /\ own' = [own EXCEPT ![i] = 0]
    /\ lock' = lock \ {i}

Stay == UNCHANGED <<own, lock>>

\* All receipts share one path.
Free(f) == f \notin files /\ (f[1] = "viewer" => \A r \in Runs : <<"viewer", r>> \notin files)

\* A rename puts f back unless something is in its place.
PutBack(x, f) ==
    /\ Free(f)
    /\ files' = files \cup {f}
    /\ trans' = [trans EXCEPT ![x].inside = @ \ {f}]

StageGroup(t) ==
    CASE t = "reconstruction" -> Stages
      [] t = "training" -> {"training", "export"}
      [] OTHER -> {"export"}

\* What a cleanup removes: the artifacts its stages name, directories of the
\* run the document names, and the receipt.
Outputs(t) ==
    LET ofStages == IF t = "viewer" THEN {} ELSE {<<s, doc.made[s]>> : s \in StageGroup(t)}
        ofRun == {"training" : u \in {t} \cap {"reconstruction", "training"}}
                 \cup {"export" : u \in {t} \ {"viewer"}}
                 \cup {"timeline" : u \in {t} \ {"exports"}}
    IN files \cap (ofStages \cup {<<o, doc.run>> : o \in ofRun} \cup {<<"viewer", r>> : r \in Runs})

\* Mutant: the project is still shown as it was.
CleanedStatus(d, t) ==
    [d EXCEPT !.stage = [s \in Stages |-> IF s \in StageGroup(t) THEN "pending" ELSE @[s]],
              !.made = [s \in Stages |-> IF s \in StageGroup(t) THEN 0 ELSE @[s]],
              !.cleared = @ \cup {t}]

\* apply: the document after the cleanup.
Cleaned(d, t) ==
    [d EXCEPT !.stage = [s \in Stages |-> IF s \in StageGroup(t) THEN "pending" ELSE @[s]],
              !.made = [s \in Stages |-> IF s \in StageGroup(t) THEN 0 ELSE @[s]],
              !.run = 0, !.status = "ready", !.cleared = @ \cup {t}]

-----------------------------------------------------------------------------
(* cleanup_project *)

\* Both locks, the checks, the plan and the empty directory.
CleanupBegin(i, t, x) ==
    /\ pc[i] = "idle" /\ lock = {} /\ doc.status # "running"
    /\ trans[x] = NoTransaction /\ \A y \in Transactions : y < x => trans[y] # NoTransaction
    /\ trans' = [trans EXCEPT ![x] = [NoTransaction EXCEPT !.phase = "bare", !.target = t,
                                                           !.moves = Outputs(t)]]
    /\ lock' = {i}
    /\ own' = [own EXCEPT ![i] = x]
    /\ Goto(i, "record")
    /\ UNCHANGED <<files, doc, runs, faults>>

CleanupRecord(i) ==
    /\ pc[i] = "record"
    /\ \/ trans' = [trans EXCEPT ![own[i]].phase = "moving"] /\ Goto(i, "move") /\ Stay
          /\ UNCHANGED faults
       \/ Fault /\ Leave(i) /\ UNCHANGED trans
    /\ UNCHANGED <<files, doc, runs>>

\* One rename, or, when all are made, the new phase.
CleanupMove(i) ==
    LET x == own[i]
        left == trans[x].moves \cap files
    IN
    /\ pc[i] = "move"
    /\ \/ /\ \E f \in left :
                /\ files' = files \ {f}
                /\ trans' = [trans EXCEPT ![x].inside = @ \cup {f}]
          /\ UNCHANGED <<pc, faults>>
       \/ /\ left = {}
          /\ trans' = [trans EXCEPT ![x].phase = "moved"]
          /\ Goto(i, "commit")
          /\ UNCHANGED <<files, faults>>
       \/ Fault /\ Goto(i, "undo") /\ UNCHANGED <<files, trans>>
    /\ Stay
    /\ UNCHANGED <<doc, runs>>

CleanupCommit(i) ==
    LET x == own[i] IN
    /\ pc[i] = "commit"
    /\ \/ /\ doc' = Cleaned(doc, trans[x].target)
          /\ trans' = [trans EXCEPT ![x].done = TRUE]
          /\ Goto(i, "confirm")
          /\ UNCHANGED faults
       \/ Fault /\ Goto(i, "undo") /\ UNCHANGED <<doc, trans>>
    /\ Stay
    /\ UNCHANGED <<files, runs>>

\* If the last phase cannot be written the directory is left as it is.
CleanupConfirm(i) ==
    /\ pc[i] = "confirm"
    /\ \/ trans' = [trans EXCEPT ![own[i]].phase = "committed"] /\ Goto(i, "erase") /\ Stay
          /\ UNCHANGED faults
       \/ Fault /\ Leave(i) /\ UNCHANGED trans
    /\ UNCHANGED <<files, doc, runs>>

\* rmtree: it may fail at the first entry or after the manifest is gone.
Erase(x) == trans' = [trans EXCEPT ![x] = [NoTransaction EXCEPT !.phase = "gone"]]
EraseSome(x) == trans' \in {trans, [trans EXCEPT ![x].phase = "bare"]}

CleanupErase(i) ==
    /\ pc[i] = "erase"
    /\ \/ Erase(own[i]) /\ UNCHANGED faults
       \/ Fault /\ EraseSome(own[i])
    /\ Leave(i)
    /\ UNCHANGED <<files, doc, runs>>

\* Mutant: an error forgets what was moved.
CleanupUndoNothing(i) ==
    /\ pc[i] = "undo"
    /\ Erase(own[i])
    /\ Leave(i)
    /\ UNCHANGED <<files, doc, runs, faults>>

\* The exception handler: everything back, the directory away.
CleanupUndo(i) ==
    LET x == own[i] IN
    /\ pc[i] = "undo"
    /\ \/ \E f \in trans[x].inside : PutBack(x, f) /\ Stay /\ UNCHANGED <<pc, faults>>
       \/ trans[x].inside # {} /\ Fault /\ Leave(i) /\ UNCHANGED <<files, trans>>
       \/ trans[x].inside = {} /\ Erase(x) /\ Leave(i) /\ UNCHANGED <<files, faults>>
       \/ trans[x].inside = {} /\ Fault /\ EraseSome(x) /\ Leave(i) /\ UNCHANGED files
    /\ UNCHANGED <<doc, runs>>

-----------------------------------------------------------------------------
(* A run, and a change of the configuration *)

RunBegin(i) ==
    /\ pc[i] = "idle" /\ lock = {} /\ doc.status # "running" /\ runs < MaxRuns
    /\ runs' = runs + 1
    /\ doc' = [doc EXCEPT !.status = "running", !.run = runs + 1]
    /\ lock' = {i}
    /\ Goto(i, "run")
    /\ UNCHANGED <<files, trans, own, faults>>

\* _previous: a completed stage counts only if its artifacts are there.
Reusable(s) == s # "export" /\ doc.stage[s] = "succeeded" /\ <<s, doc.made[s]>> \in files

Before(s) ==
    CASE s = "reconstruction" -> {}
      [] s = "training" -> {"reconstruction"}
      [] s = "export" -> {"reconstruction", "training"}

\* The outputs of a stage are made, and then recorded.
RunStage(i, s) ==
    /\ pc[i] = "run" /\ ~ Reusable(s) /\ \A u \in Before(s) : Reusable(u)
    /\ s # "reconstruction" => <<"timeline", doc.run>> \in files
    /\ \/ files' = files \cup {<<s, doc.run>>} /\ UNCHANGED doc
       \/ /\ <<s, doc.run>> \in files
          /\ doc' = [doc EXCEPT !.stage[s] = "succeeded", !.made[s] = doc.run]
          /\ UNCHANGED files
    /\ UNCHANGED <<trans, lock, pc, own, runs, faults>>

\* The training input is prepared anew by every run, before the training, and
\* with it the timeline.
RunTimeline(i) ==
    /\ pc[i] = "run" /\ Reusable("reconstruction")
    /\ files' = files \cup {<<"timeline", doc.run>>}
    /\ UNCHANGED <<doc, trans, lock, pc, own, runs, faults>>

RunPublish(i) ==
    /\ pc[i] = "run" /\ doc.made["export"] = doc.run /\ <<"timeline", doc.run>> \in files
    /\ files' = (files \ ({"viewer"} \X Runs)) \cup {<<"viewer", doc.run>>}
    /\ UNCHANGED <<doc, trans, lock, pc, own, runs, faults>>

RunEnd(i) ==
    /\ pc[i] = "run"
    /\ doc' = [doc EXCEPT !.status = IF <<"viewer", doc.run>> \in files THEN "succeeded" ELSE "interrupted"]
    /\ Leave(i)
    /\ UNCHANGED <<files, trans, runs, faults>>

\* set_profile and its like; the profile it has already leaves the status.
Configure(i) ==
    /\ pc[i] = "idle" /\ lock = {} /\ doc.status # "running"
    /\ \E status \in {"ready", doc.status} :
        doc' = [doc EXCEPT !.status = status, !.run = 0,
                           !.stage = [s \in Stages |-> IF @[s] = "succeeded" THEN "stale" ELSE @[s]]]
    /\ UNCHANGED <<files, trans, lock, pc, own, runs, faults>>

-----------------------------------------------------------------------------
(* Startup: recover_interrupted_projects and recover_lifecycle_residuals.   *)
(* Nobody waits for the run lock: without it the project is left alone.     *)

Start(i) ==
    /\ pc[i] = "down"
    /\ doc' = IF doc.status = "running" /\ lock = {} THEN [doc EXCEPT !.status = "interrupted"] ELSE doc
    /\ Goto(i, "recover")
    /\ UNCHANGED <<files, trans, lock, own, runs, faults>>

\* Mutant: the run lock is not asked for.
RecoverBeginUnlocked(i) ==
    /\ pc[i] = "recover" /\ i \notin lock
    /\ IF \E x \in Transactions : trans[x].phase = "moving"
       THEN lock' = lock \cup {i} /\ UNCHANGED <<pc, own>>
       ELSE Leave(i)
    /\ UNCHANGED <<files, doc, trans, runs, faults>>

RecoverBegin(i) ==
    /\ pc[i] = "recover" /\ i \notin lock
    /\ IF lock = {} /\ doc.status # "running"
       THEN lock' = {i} /\ UNCHANGED <<pc, own>>
       ELSE Leave(i)
    /\ UNCHANGED <<files, doc, trans, runs, faults>>

Known(x) == trans[x].phase \in {"moving", "moved", "committed"}

\* The document looks as if this cleanup had changed it.
MetadataCommitted(x) ==
    LET t == trans[x].target IN
    doc.run = 0 /\ t \in doc.cleared /\ \A s \in StageGroup(t) : doc.stage[s] = "pending"

\* One transaction: finished, or put back file by file and then removed.
Recover(i, x) ==
    LET finish == trans[x].phase = "committed" \/ MetadataCommitted(x)
        back == {f \in trans[x].inside : Free(f)}
    IN
    /\ pc[i] = "recover" /\ i \in lock /\ Known(x)
    /\ \/ ~ finish /\ (\E f \in back : PutBack(x, f)) /\ Stay /\ UNCHANGED <<pc, faults>>
       \/ /\ finish \/ back = {}
          /\ Erase(x) /\ Stay
          /\ UNCHANGED <<files, pc, faults>>
       \/ Fault /\ trans' = trans /\ Leave(i) /\ UNCHANGED files
       \/ (finish \/ back = {}) /\ Fault /\ EraseSome(x) /\ Leave(i) /\ UNCHANGED files
    /\ UNCHANGED <<doc, runs>>

RecoverEnd(i) ==
    /\ pc[i] = "recover" /\ i \in lock /\ \A x \in Transactions : ~ Known(x)
    /\ Leave(i)
    /\ UNCHANGED <<files, doc, trans, runs, faults>>

Die(i) ==
    /\ Goto(i, "down")
    /\ own' = [own EXCEPT ![i] = 0]
    /\ lock' = lock \ {i}
    /\ UNCHANGED <<files, doc, trans, runs>>

Quit(i) == pc[i] = "idle" /\ Die(i) /\ UNCHANGED faults

\* What a removal leaves that a dying process was in is what a failing one
\* leaves.
Crash(i) ==
    /\ pc[i] # "down" /\ Fault
    /\ Die(i)

-----------------------------------------------------------------------------

Cleanup(i) ==
    \/ i \in Users /\ \E x \in Transactions : \E t \in Choices[x] : CleanupBegin(i, t, x)
    \/ CleanupRecord(i) \/ CleanupMove(i) \/ CleanupCommit(i) \/ CleanupConfirm(i)
    \/ CleanupErase(i) \/ CleanupUndo(i)
Run(i) ==
    \/ i \in Users /\ (RunBegin(i) \/ Configure(i))
    \/ RunTimeline(i) \/ RunPublish(i) \/ RunEnd(i)
    \/ \E s \in Stages : RunStage(i, s)
Startup(i) ==
    Start(i) \/ RecoverBegin(i) \/ RecoverEnd(i) \/ \E x \in Transactions : Recover(i, x)

Next == \E i \in Instances : Cleanup(i) \/ Run(i) \/ Startup(i) \/ Quit(i) \/ Crash(i)

Spec == Init /\ [][Next]_vars

-----------------------------------------------------------------------------
(* Properties *)

\* Nothing is lost by halves: an output the document names is in place or in
\* a transaction that the next start will undo (pipeline.py:291-309, 369-385).
Undoable(x) == Known(x) /\ trans[x].phase # "committed" /\ ~ MetadataCommitted(x)
NothingLost ==
    \A s \in Stages :
        doc.stage[s] = "succeeded" =>
            \/ <<s, doc.made[s]>> \in files
            \/ \E x \in Transactions : Undoable(x) /\ <<s, doc.made[s]>> \in trans[x].inside

\* Not two transactions with a receipt are left over at a time.  The receipts
\* share one path: of two, the one that is undone first takes it, and that may
\* be the older.
Receipts == {"viewer"} \X Runs
OneReceiptLeft ==
    \A x, y \in Transactions :
        /\ Known(x) /\ trans[x].inside \cap Receipts # {}
        /\ Known(y) /\ trans[y].inside \cap Receipts # {}
        => x = y

\* As long as no two leftover transactions hold a receipt each, a project shown
\* as succeeded with its run while nobody works on it and nothing is left to
\* recover can be opened: its receipt, its timeline and its exports are there
\* (main.py:651-704).
CanBeOpened ==
    doc.status = "succeeded" /\ doc.run # 0 /\ lock = {} /\ (\A x \in Transactions : ~ Known(x)) =>
        {<<"viewer", doc.run>>, <<"timeline", doc.run>>, <<"export", doc.run>>} \subseteq files
SucceededOpens == []OneReceiptLeft => []CanBeOpened

\* While a run is in progress nobody else moves an output.
RunUndisturbed ==
    [][\A i \in Instances :
         pc[i] = "run" /\ pc'[i] = "run" => trans' = trans /\ (files \ ({"viewer"} \X Runs)) \subseteq files']_vars

\* "Keep the owned transaction for startup to finish instead of restoring
\* artifacts that metadata has invalidated" (pipeline.py:297-300): what a
\* completed cleanup took away does not come back.
ClearedStaysCleared ==
    [][\A x \in Transactions :
         trans[x].done => files' \cap trans[x].inside \subseteq files]_vars

\* The locks are exclusive and tell who is at work; each step of a cleanup
\* finds the directory in the phase it left it in, and the phase never runs
\* ahead of the document; no output is in two places.
Phases(p) ==
    CASE p = "record" -> {"bare"}
      [] p = "move" -> {"moving"}
      [] p \in {"commit", "confirm"} -> {"moved"}
      [] p = "erase" -> {"committed"}
      [] p = "undo" -> {"moving", "moved"}

LockInv ==
    /\ \A i, j \in lock : i = j
    /\ \A i \in Instances :
        /\ pc[i] \in CleanupSteps \cup {"run"} => i \in lock
        /\ i \in lock => pc[i] \in CleanupSteps \cup {"run", "recover"}

StepInv ==
    \A i \in Instances :
        pc[i] \in CleanupSteps =>
            /\ own[i] # 0 /\ trans[own[i]].phase \in Phases(pc[i])
            /\ trans[own[i]].done <=> pc[i] \in {"confirm", "erase"}

PlaceInv ==
    \A x \in Transactions :
        /\ trans[x].phase = "committed" => trans[x].done
        /\ trans[x].inside \subseteq trans[x].moves \ files
        /\ \A f \in trans[x].moves : f[1] \in StageGroup(trans[x].target) \cup {"timeline", "viewer"}
        /\ \A y \in Transactions : x # y => trans[x].inside \cap trans[y].inside = {}

\* Nothing carries the number of a run that has not begun, and no transaction
\* an output of the run in progress, which names its outputs and publishes
\* its receipt when they are there.
RunsInv ==
    /\ doc.run <= runs
    /\ \A s \in Stages : doc.made[s] <= runs
    /\ \A f \in files : f[2] <= runs
    /\ \A x \in Transactions : \A f \in trans[x].inside : f[2] <= runs
    /\ \A i \in Instances :
        pc[i] = "run" =>
            /\ doc.status = "running" /\ doc.run = runs /\ runs # 0
            /\ \A x \in Transactions : \A f \in trans[x].inside : f[2] # runs
            /\ doc.made["export"] = runs => <<"export", runs>> \in files
            /\ <<"viewer", runs>> \in files =>
                   <<"timeline", runs>> \in files /\ <<"export", runs>> \in files

\* What the document relies on is in place or in a transaction whose cleanup
\* has not changed the document; of the receipts there is at least one.
Kept(f) ==
    \/ f \in files
    \/ \E x \in Transactions :
         trans[x].phase \in {"moving", "moved"} /\ ~ trans[x].done /\ f \in trans[x].inside
KeptInv ==
    /\ \A s \in Stages : doc.stage[s] = "succeeded" => Kept(<<s, doc.made[s]>>)
    /\ doc.status = "succeeded" /\ doc.run # 0 =>
           /\ Kept(<<"timeline", doc.run>>)
           /\ Kept(<<"export", doc.run>>)
           /\ \E r \in Runs : Kept(<<"viewer", r>>)

CleanupInv == TypeOK /\ LockInv /\ StepInv /\ PlaceInv /\ RunsInv /\ KeptInv

=============================================================================
