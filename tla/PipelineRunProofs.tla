-------------------------- MODULE PipelineRunProofs --------------------------
(***************************************************************************)
(* What TLAPS proves of PipelineRun, for any number of instances, runs,    *)
(* configurations and faults.                                              *)
(*                                                                         *)
(* The argument: at most one thread holds the run lock, so a step of the   *)
(* owner need only be checked against its own snapshot and the document    *)
(* (ThreadStep), and a step of anybody else leaves both alone (Aside).     *)
(* All steps of the stages are of three kinds: go on (GotoStep), raise     *)
(* (RaiseStep), or write a changed snapshot (PersistStep).                 *)
(***************************************************************************)
EXTENDS PipelineRun, TLAPS

Owners == Started \cup {"begin", "stuck"}

DocInv == Made(doc) /\ SuccessIsCurrent /\ (StateLockFree => StageHasRun)

OwnerInv(i) ==
    /\ pc[i] \in Owners => lock = {i}
    /\ pc[i] \in Started => doc.run = snap[i].run /\ doc.cfg = snap[i].cfg
    /\ SnapshotInv(i) /\ LoadedInv(i)
    /\ StateLockFree => ActivityInv(i)

IInv == TypeOK /\ DocInv /\ \A i \in Instances : OwnerInv(i)

\* What a step may do to a recorded document, unless it writes the snapshot of
\* a run whose second load failed.
Kept ==
    \/ /\ doc'.cfg >= doc.cfg
       /\ \A s \in Resumable :
              doc.st[s] = "succeeded" => doc'.st[s] \in {"succeeded", "stale", "pending"}
    \/ \E i \in Instances : WritesOld(i)

\* A step of thread i that leaves snapshot d, step p and exception e.
Thread(i, d, p, e) ==
    /\ snap' = [snap EXCEPT ![i] = d]
    /\ pc' = [pc EXCEPT ![i] = p]
    /\ exc' = [exc EXCEPT ![i] = e]
    /\ faults' \in 0..MaxFaults
    /\ UNCHANGED <<lock, token, runs, run_id>>

-----------------------------------------------------------------------------
(* Documents *)

LEMMA SetStageIs ==
    ASSUME NEW d \in Documents, NEW s \in STAGES, NEW state \in StageStates
    PROVE  LET e == SetStage(d, s, state) IN
           /\ e \in Documents
           /\ e.run = d.run /\ e.cfg = d.cfg /\ e.status = d.status /\ e.cur = d.cur
           /\ e.base = d.base /\ e.cloud = d.cloud
           /\ e.st = [d.st EXCEPT ![s] = state]
    BY DEF SetStage, Documents

\* The stage needs not be run: its result is taken from the other reconstruction.
LEMMA PassedOver ==
    ASSUME NEW d \in Documents, NEW s \in {"colmap", "fallback"},
           NEW state \in {"skipped", "fallback_required"}
    PROVE  LET e == SetStage(d, s, state) IN
           /\ e \in Documents
           /\ e.run = d.run /\ e.cfg = d.cfg /\ e.status = d.status
           /\ e.base = d.base
           /\ e.st = [d.st EXCEPT ![s] = state]
    <1>1. s \in STAGES /\ state \in StageStates
        BY DEF STAGES, StageStates, TERMINAL_STAGE_STATES
    <1> QED  BY <1>1, SetStageIs

LEMMA RunningIs ==
    ASSUME NEW d \in Documents, NEW s \in STAGES
    PROVE  LET e == Running(d, s) IN
           /\ e \in Documents
           /\ e.run = d.run /\ e.cfg = d.cfg /\ e.status = d.status /\ e.cur = s
           /\ e.base = d.base /\ e.cloud = d.cloud
           /\ e.st = [d.st EXCEPT ![s] = "running"]
    BY DEF Running, SetStage, Documents, StageStates

LEMMA CompletedIs ==
    ASSUME NEW d \in Documents, NEW s \in STAGES, NEW b \in 0..MaxConfig
    PROVE  LET e == Completed(d, s, b) IN
           /\ e \in Documents
           /\ e.run = d.run /\ e.cfg = d.cfg /\ e.status = d.status /\ e.cur = d.cur
           /\ e.base = [d.base EXCEPT ![s] = b] /\ e.cloud = d.cloud
           /\ e.st = [d.st EXCEPT ![s] = "succeeded"]
    BY DEF Completed, SetStage, Documents, StageStates, TERMINAL_STAGE_STATES

LEMMA EndedIs ==
    ASSUME NEW d \in Documents, NEW state \in {"failed", "interrupted"}
    PROVE  LET e == Ended(d, state) IN
           /\ e \in Documents
           /\ e.run = d.run /\ e.cfg = d.cfg /\ e.status = state /\ e.cur = d.cur
           /\ e.base = d.base /\ e.cloud = d.cloud
           /\ \A s \in STAGES :
                  e.st[s] = IF s = d.cur /\ d.st[s] = "running" THEN state ELSE d.st[s]
    <1>1. CASE d.cur # "none" /\ d.st[d.cur] = "running"
        <2>1. d.cur \in STAGES /\ state \in StageStates
            BY <1>1 DEF Documents, StageStates
        <2> DEFINE t == SetStage(d, d.cur, state)
        <2>2. /\ t \in Documents
              /\ t.run = d.run /\ t.cfg = d.cfg /\ t.cur = d.cur
              /\ t.base = d.base /\ t.cloud = d.cloud
              /\ t.st = [d.st EXCEPT ![d.cur] = state]
            BY <2>1, SetStageIs
        <2>3. Ended(d, state) = [t EXCEPT !.status = state]
            BY <1>1 DEF Ended, Terminated
        <2> HIDE DEF t
        <2> QED  BY <1>1, <2>1, <2>2, <2>3 DEF Documents, Statuses
    <1>2. CASE ~ (d.cur # "none" /\ d.st[d.cur] = "running")
        <2>1. Terminated(d, state) = d
            BY <1>2 DEF Terminated
        <2>2. \A s \in STAGES : ~ (s = d.cur /\ d.st[s] = "running")
            BY <1>2 DEF STAGES
        <2> QED  BY <2>1, <2>2 DEF Ended, Documents, Statuses
    <1> QED  BY <1>1, <1>2

-----------------------------------------------------------------------------
(* Who owns the document *)

LEMMA OneOwner ==
    ASSUME IInv, NEW i \in Instances, lock = {} \/ lock = {i}
    PROVE  \A j \in Instances : j # i => pc[j] \notin Owners
    BY DEF IInv, OwnerInv

\* A run that has begun, or is over, has no other snapshot to write.
LEMMA Begun ==
    /\ Started \cap Before = {}
    /\ "release" \notin Before /\ "stuck" \notin Before
    /\ \A i \in Instances : pc'[i] \notin Before => LoadedInv(i)'
    BY DEF Started, Working, Before, LoadedInv

LEMMA Idler ==
    ASSUME NEW j \in Instances, pc'[j] \notin Owners, LoadedInv(j)'
    PROVE  OwnerInv(j)'
    BY DEF OwnerInv, SnapshotInv, ActivityInv, Owners, Started

\* Only i acts, and nobody else may own the document.
LEMMA OwnerStep ==
    ASSUME IInv, NEW i \in Instances, lock = {} \/ lock = {i},
           TypeOK', DocInv', OwnerInv(i)',
           \A j \in Instances : j # i =>
               pc'[j] = pc[j] /\ snap'[j] = snap[j] /\ exc'[j] = exc[j]
    PROVE  IInv'
    <1>1. ASSUME NEW j \in Instances, j # i  PROVE OwnerInv(j)'
        <2>1. LoadedInv(j)
            BY DEF IInv, OwnerInv
        <2>2. LoadedInv(j)'
            BY <1>1, <2>1 DEF LoadedInv, Made, Previous, StateLockFree
        <2> QED  BY <1>1, <2>2, OneOwner, Idler
    <1> QED  BY <1>1 DEF IInv

\* The document is left alone, and so is everybody but i.
LEMMA Aside ==
    ASSUME IInv, NEW i \in Instances, TypeOK', OwnerInv(i)',
           UNCHANGED <<doc, viewer>>,
           lock' = lock \/ lock' = lock \ {i},
           \A j \in Instances : j # i =>
               pc'[j] = pc[j] /\ snap'[j] = snap[j] /\ exc'[j] = exc[j]
    PROVE  IInv' /\ Kept
    <1>1. ASSUME NEW j \in Instances, j # i  PROVE OwnerInv(j)'
        <2>1. pc'[j] \in Owners => lock' = {j}
            BY <1>1 DEF IInv, OwnerInv
        <2>2. pc'[j] \in Started => doc'.run = snap'[j].run /\ doc'.cfg = snap'[j].cfg
            BY <1>1 DEF IInv, OwnerInv
        <2>3. SnapshotInv(j)'
            BY <1>1 DEF IInv, OwnerInv, SnapshotInv
        <2>4. StateLockFree => ActivityInv(j)'
            BY <1>1 DEF IInv, OwnerInv, ActivityInv
        <2>5. LoadedInv(j)'
            <3>1. LoadedInv(j)
                BY DEF IInv, OwnerInv
            <3> QED  BY <1>1, <3>1 DEF LoadedInv, Made, Previous, StateLockFree
        <2> QED  BY <2>1, <2>2, <2>3, <2>4, <2>5 DEF OwnerInv, StateLockFree
    <1>2. DocInv'
        BY DEF IInv, DocInv, SuccessIsCurrent, StageHasRun, Made, StateLockFree
    <1>3. Kept
        BY DEF Kept, IInv, TypeOK, Documents
    <1> QED  BY <1>1, <1>2, <1>3 DEF IInv

LEMMA ThreadType ==
    ASSUME TypeOK, NEW i \in Instances, NEW d \in Documents, NEW p \in Steps,
           NEW e \in Exceptions, Thread(i, d, p, e), doc' \in Documents, viewer' \in 0..MaxRuns
    PROVE  /\ TypeOK'
           /\ pc'[i] = p /\ snap'[i] = d /\ exc'[i] = e
           /\ \A j \in Instances : j # i =>
                  pc'[j] = pc[j] /\ snap'[j] = snap[j] /\ exc'[j] = exc[j]
    BY DEF TypeOK, Thread

\* A step of the thread that owns the document.
LEMMA ThreadStep ==
    ASSUME IInv, NEW i \in Instances, pc[i] \in Owners,
           NEW d \in Documents, NEW p \in Steps, NEW e \in Exceptions, Thread(i, d, p, e),
           doc' \in Documents, viewer' \in 0..MaxRuns, DocInv',
           p \in Started => doc'.run = d.run /\ doc'.cfg = d.cfg,
           SnapshotInv(i)', StateLockFree => ActivityInv(i)',
           p \in Before => LoadedInv(i)'
    PROVE  IInv'
    <1>1. lock = {i}
        BY DEF IInv, OwnerInv
    <1>2. /\ TypeOK'
          /\ pc'[i] = p /\ snap'[i] = d
          /\ \A j \in Instances : j # i =>
                 pc'[j] = pc[j] /\ snap'[j] = snap[j] /\ exc'[j] = exc[j]
        BY ThreadType DEF IInv
    <1>3. LoadedInv(i)'
        BY <1>2, Begun
    <1>4. OwnerInv(i)'
        BY <1>1, <1>2, <1>3 DEF OwnerInv, Thread, StateLockFree
    <1> QED  BY <1>1, <1>2, <1>4, OwnerStep

-----------------------------------------------------------------------------
(* The three kinds of steps a working thread takes *)

\* What the thread knows of snapshot d at step p, while it works.
Sound(i, d, p) ==
    /\ d \in Documents /\ d.run = snap[i].run /\ d.cfg = snap[i].cfg
    /\ d.status = "running"
    /\ Made(d) /\ Progress(d, p)
    /\ \A s \in Resumable : Previous(snap[i], s) => Previous(d, s)
    /\ StateLockFree => \A s \in STAGES : Active(d, s) => d.cur = s

\* An active stage belongs to step p.
Own(d, p) ==
    \A s \in STAGES : Active(d, s) => p \in DOMAIN Activity /\ Activity[p] = s

\* What the invariant says of a working thread.
LEMMA AtWork ==
    ASSUME IInv, NEW i \in Instances, pc[i] \in Working
    PROVE  /\ Sound(i, snap[i], pc[i])
           /\ StateLockFree => Own(snap[i], pc[i])
           /\ lock = {i}
           /\ doc.status = "running"
           /\ doc.run = snap[i].run /\ doc.cfg = snap[i].cfg
           /\ \A s \in Resumable : Previous(doc, s) => Previous(snap[i], s)
    BY DEF IInv, TypeOK, OwnerInv, SnapshotInv, ActivityInv, Sound, Own, Owners, Started

\* A document a run writes while it works.
LEMMA WorkingDocument ==
    ASSUME NEW i \in Instances, NEW p, Sound(i, doc', p)
    PROVE  DocInv'
    BY DEF Sound, DocInv, SuccessIsCurrent, StageHasRun, Active, StateLockFree

LEMMA SameDocument ==
    ASSUME IInv, UNCHANGED <<doc, viewer>>
    PROVE  /\ DocInv' /\ Kept /\ doc' \in Documents /\ viewer' \in 0..MaxRuns
    BY DEF IInv, TypeOK, DocInv, SuccessIsCurrent, StageHasRun, StateLockFree, Made, Kept,
           Documents

\* The thread goes on to step p with the snapshot it wrote or has.
LEMMA OnStep ==
    ASSUME IInv, NEW i \in Instances, pc[i] \in Working,
           NEW d, NEW p \in Working \ {"done"}, Sound(i, d, p), StateLockFree => Own(d, p),
           Thread(i, d, p, exc[i]), doc' = d \/ (doc' = doc /\ d = snap[i]),
           viewer' = viewer
    PROVE  IInv' /\ Kept
    <1>1. d \in Documents /\ p \in Steps /\ p \in Started /\ exc[i] \in Exceptions
        BY DEF Sound, Steps, Started, IInv, TypeOK
    <1>2. /\ doc' \in Documents /\ viewer' \in 0..MaxRuns
          /\ doc'.run = d.run /\ doc'.cfg = d.cfg /\ doc'.status = "running"
          /\ \A s \in Resumable : Previous(doc', s) => Previous(d, s)
        BY AtWork, <1>1 DEF IInv, TypeOK, Sound
    <1>3. DocInv' /\ Kept
        <2>1. CASE doc' = d
            <3>1. Sound(i, doc', p)
                BY <2>1
            <3>2. doc'.cfg >= doc.cfg
                BY AtWork, <1>1, <1>2 DEF Sound, Documents
            <3>3. \A s \in Resumable : Previous(doc, s) => Previous(doc', s)
                BY AtWork, <2>1 DEF Sound
            <3> QED  BY <3>1, <3>2, <3>3, WorkingDocument DEF Kept, Previous
        <2>2. CASE doc' = doc
            BY <2>2, SameDocument
        <2> QED  BY <2>1, <2>2
    <1>4. pc'[i] = p /\ snap'[i] = d
        BY <1>1, <1>2, ThreadType DEF IInv
    <1>5. SnapshotInv(i)'
        BY <1>2, <1>4 DEF SnapshotInv, Sound
    <1>6. StateLockFree => ActivityInv(i)'
        BY <1>4 DEF ActivityInv, Sound, Own, Working, Started
    <1>7. p \notin Before
        BY <1>1, Begun
    <1> QED  BY <1>1, <1>2, <1>3, <1>5, <1>6, <1>7, ThreadStep DEF Owners, Started

\* The thread raises e, with the snapshot it tried to write or has.
LEMMA OffStep ==
    ASSUME IInv, NEW i \in Instances, pc[i] \in Working, NEW p,
           NEW d, Sound(i, d, p), NEW e \in Exceptions,
           StateLockFree => e # "ProjectLockError",
           Thread(i, d, "raised", e), UNCHANGED <<doc, viewer>>
    PROVE  IInv' /\ Kept
    <1>1. d \in Documents /\ "raised" \in Steps
        BY DEF Sound, Steps, Started
    <1>2. DocInv' /\ Kept /\ doc' \in Documents /\ viewer' \in 0..MaxRuns
        BY SameDocument
    <1>3. pc'[i] = "raised" /\ snap'[i] = d /\ exc'[i] = e
        BY <1>1, <1>2, ThreadType DEF IInv
    <1>4. SnapshotInv(i)'
        BY <1>3, AtWork DEF SnapshotInv, Sound, Progress, Working, Reconstructed, Trained, Validating
    <1>5. StateLockFree => ActivityInv(i)'
        BY <1>3 DEF ActivityInv, Sound, Working
    <1>6. doc'.run = d.run /\ doc'.cfg = d.cfg
        BY AtWork DEF Sound
    <1>7. "raised" \notin Before
        BY DEF Before
    <1> QED  BY <1>1, <1>2, <1>4, <1>5, <1>6, <1>7, ThreadStep DEF Owners, Started

-----------------------------------------------------------------------------
(* The same, for the helpers the actions are written with *)

\* What every action of a working thread leaves alone.
Rest == UNCHANGED <<viewer, lock, token, runs, run_id>>

LEMMA Raised ==
    ASSUME IInv, NEW i \in Instances, pc[i] \in Working, Rest,
           Interrupt(i) \/ Fails(i)
    PROVE  IInv' /\ Kept
    <1>1. PICK e \in {"InterruptedError", "RuntimeError"} :
              Raise(i, e) /\ UNCHANGED <<doc, snap, faults>>
        BY DEF Interrupt, Fails
    <1>2. Thread(i, snap[i], "raised", e)
        BY <1>1 DEF Thread, Raise, Goto, Started, Rest, IInv, TypeOK
    <1> QED  BY <1>1, <1>2, OffStep, AtWork DEF Exceptions, Rest

LEMMA Passed ==
    ASSUME IInv, NEW i \in Instances, pc[i] \in Working, Rest,
           NEW p \in Working \ {"done"}, Goto(i, p), UNCHANGED <<doc, snap, exc, faults>>,
           Progress(snap[i], p), pc[i] \notin DOMAIN Activity
    PROVE  IInv' /\ Kept
    <1>1. Sound(i, snap[i], p)
        BY AtWork DEF Sound
    <1>2. StateLockFree => Own(snap[i], p)
        BY AtWork DEF Own
    <1>3. Thread(i, snap[i], p, exc[i])
        BY DEF Thread, Goto, Rest, IInv, TypeOK
    <1> QED  BY <1>1, <1>2, <1>3, OnStep DEF Rest

LEMMA Persisted ==
    ASSUME IInv, NEW i \in Instances, pc[i] \in Working, Rest,
           NEW d, NEW p \in Working \ {"done"}, Persist(i, d, p),
           Sound(i, d, p), StateLockFree => Own(d, p)
    PROVE  IInv' /\ Kept
    <1>1. CASE doc' = d /\ Goto(i, p) /\ UNCHANGED <<exc, faults>>
        <2>1. Thread(i, d, p, exc[i])
            BY <1>1 DEF Persist, Thread, Keep, Goto, Rest, IInv, TypeOK
        <2>2. viewer' = viewer /\ (doc' = d \/ (doc' = doc /\ d = snap[i]))
            BY <1>1 DEF Rest
        <2> QED  BY <2>1, <2>2, OnStep, Zenon
    <1>2. ASSUME NEW e \in Failures \cup {"RuntimeError"}, Raise(i, e), Charge(e), UNCHANGED doc
          PROVE  IInv' /\ Kept
        <2>1. e \in Exceptions /\ (StateLockFree => e # "ProjectLockError")
            BY FailuresAssumption DEF Exceptions, StateLockFree
        <2>2. faults' \in 0..MaxFaults
            BY <1>2, BoundsAssumption DEF Charge, Fault, IInv, TypeOK
        <2>3. Thread(i, d, "raised", e)
            BY <1>2, <2>2 DEF Persist, Thread, Keep, Raise, Goto, Started, Rest
        <2> QED  BY <1>2, <2>1, <2>3, OffStep DEF Rest
    <1> QED  BY <1>1, <1>2 DEF Persist, Refusals

-----------------------------------------------------------------------------
(* What the stages write *)

\* A stage that is not complete yet, or is never reused, becomes active.
LEMMA Activated ==
    ASSUME IInv, NEW i \in Instances, pc[i] \in Working, pc[i] \notin DOMAIN Activity,
           NEW p \in DOMAIN Activity, NEW s \in STAGES, Activity[p] = s,
           s \in Resumable => ~ Previous(snap[i], s),
           Progress(Running(snap[i], s), p)
    PROVE  /\ Sound(i, Running(snap[i], s), p)
           /\ StateLockFree => Own(Running(snap[i], s), p)
    <1> DEFINE d == snap[i]
               e == Running(d, s)
    <1>1. /\ Sound(i, d, pc[i])
          /\ d \in Documents
          /\ StateLockFree => \A t \in STAGES : ~ Active(d, t)
        BY AtWork DEF Sound, Own
    <1>2. /\ e \in Documents
          /\ e.run = d.run /\ e.cfg = d.cfg /\ e.status = d.status /\ e.cur = s
          /\ e.base = d.base
          /\ e.st = [d.st EXCEPT ![s] = "running"]
        BY <1>1, RunningIs
    <1>3. \A t \in STAGES : e.st[t] = IF t = s THEN "running" ELSE d.st[t]
        BY <1>1, <1>2 DEF Documents
    <1> HIDE DEF e
    <1>4. \A t \in STAGES : Previous(e, t) <=> (t # s /\ Previous(d, t))
        BY <1>3 DEF Previous
    <1>5. Made(e)
        BY <1>1, <1>2, <1>4 DEF Made, Previous, Sound, STAGES
    <1>6. \A t \in Resumable : Previous(d, t) => Previous(e, t)
        BY <1>4 DEF Resumable, STAGES
    <1>7. StateLockFree => \A t \in STAGES : Active(e, t) => t = s
        BY <1>1, <1>3 DEF Active
    <1>8. Sound(i, e, p)
        BY <1>1, <1>2, <1>5, <1>6, <1>7 DEF Sound, e
    <1>9. StateLockFree => Own(e, p)
        BY <1>7 DEF Own
    <1> QED  BY <1>8, <1>9 DEF e

\* An active stage ends in state x; a result it names is current.
LEMMA Settled ==
    ASSUME IInv, NEW i \in Instances, pc[i] \in Working, NEW s \in STAGES,
           pc[i] \in DOMAIN Activity => Activity[pc[i]] = s,
           NEW e \in Documents,
           e.run = snap[i].run, e.cfg = snap[i].cfg, e.status = snap[i].status,
           \A t \in STAGES : t # s => e.st[t] = snap[i].st[t] /\ e.base[t] = snap[i].base[t],
           e.st[s] # "running",
           s \in Resumable => e.st[s] = "succeeded" \/ ~ Previous(snap[i], s),
           e.st[s] = "succeeded" => e.base[s] = e.cfg,
           ~ (Previous(e, "colmap") /\ Previous(e, "fallback")),
           NEW p, Progress(e, p)
    PROVE  Sound(i, e, p) /\ (StateLockFree => Own(e, p))
    <1>1. /\ Sound(i, snap[i], pc[i])
          /\ StateLockFree => \A t \in STAGES : Active(e, t) => FALSE
        BY AtWork DEF Own, Active
    <1>2. Made(e)
        BY <1>1 DEF Made, Sound
    <1>3. \A t \in Resumable : Previous(snap[i], t) => Previous(e, t)
        BY DEF Previous, Resumable, STAGES
    <1> QED  BY <1>1, <1>2, <1>3 DEF Sound, Own

LEMMA CompletedStage ==
    ASSUME IInv, NEW i \in Instances, pc[i] \in DOMAIN Activity, NEW s, Activity[pc[i]] = s,
           NEW b, b = snap[i].cfg,
           s \in {"colmap", "fallback"} => ~ Previous(snap[i], "colmap") /\ ~ Previous(snap[i], "fallback"),
           NEW p, Progress(Completed(snap[i], s, b), p)
    PROVE  /\ Sound(i, Completed(snap[i], s, b), p)
           /\ StateLockFree => Own(Completed(snap[i], s, b), p)
    <1> DEFINE d == snap[i]
               e == Completed(d, s, b)
    <1>1. d \in Documents /\ pc[i] \in Working /\ s \in STAGES /\ b \in 0..MaxConfig
        BY DEF IInv, TypeOK, Activity, Working, STAGES, Documents
    <1>2. /\ e \in Documents
          /\ e.run = d.run /\ e.cfg = d.cfg /\ e.status = d.status
          /\ e.base = [d.base EXCEPT ![s] = b]
          /\ e.st = [d.st EXCEPT ![s] = "succeeded"]
        BY <1>1, CompletedIs
    <1> HIDE DEF e
    <1>3. /\ \A t \in STAGES : t # s => e.st[t] = d.st[t] /\ e.base[t] = d.base[t]
          /\ e.st[s] = "succeeded" /\ e.base[s] = e.cfg
        BY <1>1, <1>2 DEF Documents
    <1>4. ~ (Previous(e, "colmap") /\ Previous(e, "fallback"))
        <2>1. ~ (Previous(d, "colmap") /\ Previous(d, "fallback"))
            BY <1>1, AtWork DEF Sound, Made
        <2> QED  BY <2>1, <1>3 DEF Previous, STAGES
    <1>5. Progress(e, p)
        BY DEF e
    <1>6. Sound(i, e, p) /\ (StateLockFree => Own(e, p))
        BY <1>1, <1>2, <1>3, <1>4, <1>5, Settled
    <1> QED  BY <1>6 DEF e

LEMMA PreviousCompleted ==
    ASSUME NEW d \in Documents, NEW s \in STAGES, NEW b \in 0..MaxConfig
    PROVE  \A t \in STAGES : Previous(Completed(d, s, b), t) <=> (t = s \/ Previous(d, t))
    <1>1. Completed(d, s, b).st = [d.st EXCEPT ![s] = "succeeded"]
        BY CompletedIs
    <1> QED  BY <1>1 DEF Previous, Documents

LEMMA PreviousRunning ==
    ASSUME NEW d \in Documents, NEW s \in STAGES
    PROVE  \A t \in STAGES : Previous(Running(d, s), t) <=> (t # s /\ Previous(d, t))
    <1>1. Running(d, s).st = [d.st EXCEPT ![s] = "running"]
        BY RunningIs
    <1> QED  BY <1>1 DEF Previous, Documents

-----------------------------------------------------------------------------
(* The steps of a working thread *)

\* What the proofs below unfold of the sets of steps.
USE DEF STAGES

LEMMA Places ==
    /\ DOMAIN Activity =
           {"ingesting", "colmapping", "fallbacking", "training", "validating", "exporting"}
    /\ DOMAIN Activity \subseteq Working
    /\ Activity["ingesting"] = "ingest" /\ Activity["colmapping"] = "colmap"
    /\ Activity["fallbacking"] = "fallback" /\ Activity["training"] = "train"
    /\ Activity["validating"] = "validate" /\ Activity["exporting"] = "export"
    BY DEF Activity, Working

\* What the thread knows of the configuration its results are made from.
LEMMA Current ==
    ASSUME IInv, NEW i \in Instances, pc[i] \in Working
    PROVE  LET d == snap[i] IN
           /\ d \in Documents /\ Made(d) /\ Progress(d, pc[i])
           /\ \A s \in STAGES : Previous(d, s) => d.base[s] = d.cfg
    BY AtWork DEF Sound, Made, Previous

LEMMA IngestStep ==
    ASSUME IInv, NEW i \in Instances, Ingest(i) \/ Ingested(i)
    PROVE  IInv' /\ Kept
    <1> DEFINE d == snap[i]
    <1>1. pc[i] \in Working /\ Rest
        BY DEF Ingest, Ingested, Working, Rest
    <1>2. CASE Interrupt(i) \/ Fails(i)
        BY <1>1, <1>2, Raised
    <1>3. CASE Ingest(i) /\ ~ Interrupt(i)
        <2>1. CASE Previous(d, "ingest")
            <3>1. Goto(i, "colmap") /\ UNCHANGED <<doc, snap, exc, faults>>
                BY <1>1, <1>3, <2>1, Current DEF Ingest
            <3>2. Progress(d, "colmap")
                BY <2>1 DEF Progress, Working, Reconstructed, Trained, Validating
            <3>3. "colmap" \in Working \ {"done"} /\ pc[i] \notin DOMAIN Activity
                BY <1>3, Places DEF Ingest, Working
            <3> QED  BY <1>1, <3>1, <3>2, <3>3, Passed
        <2>2. CASE ~ Previous(d, "ingest")
            <3>1. Persist(i, Running(d, "ingest"), "ingesting")
                BY <1>3, <2>2 DEF Ingest
            <3>2. Progress(Running(d, "ingest"), "ingesting")
                BY DEF Progress, Ingesting, Reconstructed, Trained, Validating
            <3>3. /\ Sound(i, Running(d, "ingest"), "ingesting")
                  /\ StateLockFree => Own(Running(d, "ingest"), "ingesting")
                <4>1. pc[i] \notin DOMAIN Activity
                    BY <1>3, Places DEF Ingest
                <4> QED  BY <1>1, <2>2, <3>2, <4>1, Places, Activated
            <3> QED  BY <1>1, <3>1, <3>3, Persisted DEF Working
        <2> QED  BY <2>1, <2>2
    <1>4. CASE Ingested(i) /\ ~ (Interrupt(i) \/ Fails(i))
        <2> DEFINE e == Completed(d, "ingest", d.cfg)
        <2>1. Persist(i, e, "colmap") /\ pc[i] = "ingesting"
            BY <1>4 DEF Ingested
        <2>2. Progress(e, "colmap")
            <3>1. d.cfg \in 0..MaxConfig
                BY <1>1, Current DEF Documents
            <3>2. Previous(e, "ingest")
                BY <1>1, <3>1, Current, PreviousCompleted
            <3> QED  BY <3>2 DEF Progress, Reconstructed, Trained, Validating
        <2>3. Sound(i, e, "colmap") /\ (StateLockFree => Own(e, "colmap"))
            BY <2>1, <2>2, Places, CompletedStage
        <2> QED  BY <1>1, <2>1, <2>3, Persisted DEF Working
    <1> QED  BY <1>2, <1>3, <1>4

LEMMA ReconstructStep ==
    ASSUME IInv, NEW i \in Instances, Reconstruct(i)
    PROVE  IInv' /\ Kept
    <1> DEFINE d == snap[i]
    <1>1. pc[i] \in Working /\ Rest /\ pc[i] = "colmap"
        BY DEF Reconstruct, Working, Rest
    <1>2. CASE Interrupt(i)
        BY <1>1, <1>2, Raised
    <1>3. CASE ~ Interrupt(i) /\ (Previous(d, "colmap") \/ Previous(d, "fallback"))
        <2>1. PICK p \in {"prepare", "skip"} :
                  /\ Goto(i, p) /\ UNCHANGED <<doc, snap, exc, faults>>
                  /\ p = "skip" => Previous(d, "colmap")
            BY <1>3 DEF Reconstruct
        <2>2. Progress(d, p)
            BY <1>1, <1>3, <2>1, Current
               DEF Progress, Working, Ingesting, Reconstructed, Trained, Validating
        <2>3. p \in Working \ {"done"} /\ pc[i] \notin DOMAIN Activity
            BY <1>1, Places DEF Working
        <2> QED  BY <1>1, <2>1, <2>2, <2>3, Passed
    <1>4. CASE ~ Interrupt(i) /\ ~ Previous(d, "colmap") /\ ~ Previous(d, "fallback")
        <2> DEFINE e == Running(d, "colmap")
        <2>1. Persist(i, e, "colmapping")
            BY <1>4 DEF Reconstruct
        <2>2. Progress(e, "colmapping")
            <3>1. \A t \in STAGES : Previous(e, t) <=> (t # "colmap" /\ Previous(d, t))
                BY <1>1, Current, PreviousRunning
            <3>2. Previous(d, "ingest")
                BY <1>1, Current DEF Progress, Ingesting
            <3> QED  BY <1>4, <3>1, <3>2 DEF Progress, Reconstructed, Trained, Validating
        <2>3. Sound(i, e, "colmapping") /\ (StateLockFree => Own(e, "colmapping"))
            <3>1. pc[i] \notin DOMAIN Activity
                BY <1>1, Places
            <3> QED  BY <1>1, <1>4, <2>2, <3>1, Places, Activated
        <2> QED  BY <1>1, <2>1, <2>3, Persisted DEF Working
    <1> QED  BY <1>2, <1>3, <1>4

LEMMA ColmapStep ==
    ASSUME IInv, NEW i \in Instances, ColmapReturned(i)
    PROVE  IInv' /\ Kept
    <1> DEFINE d == snap[i]
    <1>1. pc[i] \in Working /\ Rest /\ pc[i] = "colmapping"
        BY DEF ColmapReturned, Working, Rest
    <1>2. /\ d \in Documents /\ Previous(d, "ingest") /\ d.base["ingest"] = d.cfg
          /\ ~ Previous(d, "colmap") /\ ~ Previous(d, "fallback")
        BY <1>1, Current DEF Progress, Ingesting
    <1>3. CASE Interrupt(i) \/ Fails(i)
        BY <1>1, <1>3, Raised
    <1>4. CASE Persist(i, Completed(d, "colmap", d.base["ingest"]), "skip")
        <2> DEFINE e == Completed(d, "colmap", d.base["ingest"])
        <2>1. \A t \in STAGES : Previous(e, t) <=> (t = "colmap" \/ Previous(d, t))
            BY <1>2, PreviousCompleted DEF Documents
        <2>2. Progress(e, "skip")
            BY <1>2, <2>1 DEF Progress, Reconstructed, Trained, Validating
        <2>3. Sound(i, e, "skip") /\ (StateLockFree => Own(e, "skip"))
            BY <1>1, <1>2, <2>2, Places, CompletedStage
        <2> QED  BY <1>1, <1>4, <2>3, Persisted DEF Working
    <1>5. CASE Persist(i, SetStage(d, "colmap", "fallback_required"), "fallback")
        <2> DEFINE e == SetStage(d, "colmap", "fallback_required")
        <2>1. /\ e \in Documents
              /\ e.run = d.run /\ e.cfg = d.cfg /\ e.status = d.status
              /\ e.base = d.base
              /\ e.st = [d.st EXCEPT !["colmap"] = "fallback_required"]
            BY <1>2, PassedOver
        <2> HIDE DEF e
        <2>2. /\ \A t \in STAGES : t # "colmap" => e.st[t] = d.st[t] /\ e.base[t] = d.base[t]
              /\ e.st["colmap"] = "fallback_required"
            BY <1>2, <2>1 DEF Documents
        <2>3. Progress(e, "fallback")
            BY <1>2, <2>2 DEF Progress, Previous, Reconstructed, Trained, Validating
        <2>4. Sound(i, e, "fallback") /\ (StateLockFree => Own(e, "fallback"))
            <3>1. ~ Previous(e, "colmap")
                BY <2>2 DEF Previous
            <3>2. pc[i] \in DOMAIN Activity => Activity[pc[i]] = "colmap"
                BY <1>1, Places
            <3>3. e.st["colmap"] # "running" /\ e.st["colmap"] # "succeeded"
                BY <2>2
            <3> QED  BY <1>1, <1>2, <2>1, <2>2, <2>3, <3>1, <3>2, <3>3, Settled
        <2> QED  BY <1>1, <1>5, <2>4, Persisted DEF Working, e
    <1> QED  BY <1>3, <1>4, <1>5 DEF ColmapReturned

LEMMA SkipStep ==
    ASSUME IInv, NEW i \in Instances, SkipFallback(i)
    PROVE  IInv' /\ Kept
    <1> DEFINE d == snap[i]
               e == SetStage(d, "fallback", "skipped")
    <1>1. pc[i] \in Working /\ Rest /\ pc[i] = "skip" /\ Persist(i, e, "prepare")
        BY DEF SkipFallback, Working, Rest
    <1>2. /\ d \in Documents /\ Previous(d, "ingest")
          /\ Previous(d, "colmap") /\ ~ Previous(d, "fallback")
        BY <1>1, Current DEF Progress, Ingesting, Made
    <1>3. /\ e \in Documents
          /\ e.run = d.run /\ e.cfg = d.cfg /\ e.status = d.status
          /\ e.base = d.base
          /\ e.st = [d.st EXCEPT !["fallback"] = "skipped"]
        BY <1>2, PassedOver
    <1> HIDE DEF e
    <1>4. /\ \A t \in STAGES : t # "fallback" => e.st[t] = d.st[t] /\ e.base[t] = d.base[t]
          /\ e.st["fallback"] = "skipped"
        BY <1>2, <1>3 DEF Documents
    <1>5. Progress(e, "prepare")
        BY <1>2, <1>4 DEF Progress, Previous, Reconstructed, Trained, Validating
    <1>6. Sound(i, e, "prepare") /\ (StateLockFree => Own(e, "prepare"))
        <2>1. ~ Previous(e, "fallback") /\ pc[i] \notin DOMAIN Activity
            BY <1>1, <1>4, Places DEF Previous
        <2>2. e.st["fallback"] # "running" /\ e.st["fallback"] # "succeeded"
            BY <1>4
        <2> QED  BY <1>1, <1>2, <1>3, <1>4, <1>5, <2>1, <2>2, Settled
    <1> QED  BY <1>1, <1>6, Persisted DEF Working

LEMMA FallbackStep ==
    ASSUME IInv, NEW i \in Instances, Fallback(i) \/ FallbackReturned(i)
    PROVE  IInv' /\ Kept
    <1> DEFINE d == snap[i]
    <1>1. pc[i] \in Working /\ Rest /\ pc[i] \in {"fallback", "fallbacking"}
        BY DEF Fallback, FallbackReturned, Working, Rest
    <1>2. /\ d \in Documents /\ Previous(d, "ingest") /\ d.base["ingest"] = d.cfg
          /\ ~ Previous(d, "colmap") /\ ~ Previous(d, "fallback")
        BY <1>1, Current DEF Progress, Ingesting
    <1>3. CASE Interrupt(i) \/ Fails(i)
        BY <1>1, <1>3, Raised
    <1>4. CASE Fallback(i)
        <2> DEFINE e == Running(d, "fallback")
        <2>1. Persist(i, e, "fallbacking") /\ pc[i] = "fallback"
            BY <1>4 DEF Fallback
        <2>2. Progress(e, "fallbacking")
            <3>1. \A t \in STAGES : Previous(e, t) <=> (t # "fallback" /\ Previous(d, t))
                BY <1>2, PreviousRunning
            <3> QED  BY <1>2, <3>1 DEF Progress, Reconstructed, Trained, Validating
        <2>3. Sound(i, e, "fallbacking") /\ (StateLockFree => Own(e, "fallbacking"))
            <3>1. pc[i] \notin DOMAIN Activity
                BY <2>1, Places
            <3> QED  BY <1>1, <1>2, <2>2, <3>1, Places, Activated
        <2> QED  BY <1>1, <2>1, <2>3, Persisted DEF Working
    <1>5. CASE FallbackReturned(i) /\ ~ (Interrupt(i) \/ Fails(i))
        <2> DEFINE e == Completed(d, "fallback", d.base["ingest"])
        <2>1. Persist(i, e, "prepare") /\ pc[i] = "fallbacking"
            BY <1>5 DEF FallbackReturned
        <2>2. \A t \in STAGES : Previous(e, t) <=> (t = "fallback" \/ Previous(d, t))
            BY <1>2, PreviousCompleted DEF Documents
        <2>3. Progress(e, "prepare")
            BY <1>2, <2>2 DEF Progress, Reconstructed, Trained, Validating
        <2>4. Sound(i, e, "prepare") /\ (StateLockFree => Own(e, "prepare"))
            BY <1>2, <2>1, <2>3, Places, CompletedStage
        <2> QED  BY <1>1, <2>1, <2>4, Persisted DEF Working
    <1> QED  BY <1>3, <1>4, <1>5

LEMMA PrepareStep ==
    ASSUME IInv, NEW i \in Instances, PrepareTrainingInput(i)
    PROVE  IInv' /\ Kept
    <1> DEFINE d == snap[i]
    <1>1. pc[i] \in Working /\ Rest /\ pc[i] = "prepare"
        BY DEF PrepareTrainingInput, Working, Rest
    <1>2. CASE Interrupt(i) \/ Fails(i)
        BY <1>1, <1>2, Raised
    <1>3. CASE Persist(i, d, "train")
        <2>1. Progress(d, "train")
            BY <1>1, Current DEF Progress, Ingesting, Reconstructed, Trained, Validating, Working
        <2>2. Sound(i, d, "train")
            BY <1>1, <2>1, AtWork DEF Sound
        <2>3. StateLockFree => Own(d, "train")
            BY <1>1, AtWork, Places DEF Own
        <2> QED  BY <1>1, <1>3, <2>2, <2>3, Persisted DEF Working
    <1> QED  BY <1>2, <1>3 DEF PrepareTrainingInput

LEMMA TrainStep ==
    ASSUME IInv, NEW i \in Instances, Train(i) \/ TrainReturned(i)
    PROVE  IInv' /\ Kept
    <1> DEFINE d == snap[i]
    <1>1. pc[i] \in Working /\ Rest /\ pc[i] \in {"train", "training"}
        BY DEF Train, TrainReturned, Working, Rest
    <1>2. /\ d \in Documents /\ Made(d) /\ Previous(d, "ingest")
          /\ Previous(d, "colmap") \/ Previous(d, "fallback")
        BY <1>1, Current DEF Progress, Ingesting, Reconstructed
    <1>3. CASE Interrupt(i) \/ Fails(i)
        BY <1>1, <1>3, Raised
    <1>4. CASE Train(i) /\ ~ Interrupt(i) /\ Previous(d, "train")
        <2>1. Goto(i, "validate") /\ UNCHANGED <<doc, snap, exc, faults>> /\ pc[i] = "train"
            BY <1>4 DEF Train
        <2>2. Progress(d, "validate")
            BY <1>2, <1>4 DEF Progress, Validating
        <2>3. "validate" \in Working \ {"done"} /\ pc[i] \notin DOMAIN Activity
            BY <2>1, Places DEF Working
        <2> QED  BY <1>1, <2>1, <2>2, <2>3, Passed
    <1>5. CASE Train(i) /\ ~ Interrupt(i) /\ ~ Previous(d, "train")
        <2> DEFINE e == Running(d, "train")
        <2>1. Persist(i, e, "training") /\ pc[i] = "train"
            BY <1>5 DEF Train
        <2>2. \A t \in STAGES : Previous(e, t) <=> (t # "train" /\ Previous(d, t))
            BY <1>2, PreviousRunning
        <2>3. Progress(e, "training")
            BY <1>2, <2>2 DEF Progress, Reconstructed, Trained, Validating
        <2>4. Sound(i, e, "training") /\ (StateLockFree => Own(e, "training"))
            <3>1. pc[i] \notin DOMAIN Activity
                BY <2>1, Places
            <3> QED  BY <1>1, <1>5, <2>3, <3>1, Places, Activated
        <2> QED  BY <1>1, <2>1, <2>4, Persisted DEF Working
    <1>6. CASE TrainReturned(i) /\ ~ (Interrupt(i) \/ Fails(i))
        <2> DEFINE e == Completed(d, "train", Reconstruction(d))
        <2>1. Persist(i, e, "validate") /\ pc[i] = "training"
            BY <1>6 DEF TrainReturned
        <2>2. Reconstruction(d) = d.cfg
            BY <1>2 DEF Made, Previous, Reconstruction
        <2>3. \A t \in STAGES : Previous(e, t) <=> (t = "train" \/ Previous(d, t))
            BY <1>2, <2>2, PreviousCompleted DEF Documents
        <2>4. Progress(e, "validate")
            BY <1>2, <2>3 DEF Progress, Validating
        <2>5. Sound(i, e, "validate") /\ (StateLockFree => Own(e, "validate"))
            BY <2>1, <2>2, <2>4, Places, CompletedStage
        <2> QED  BY <1>1, <2>1, <2>5, Persisted DEF Working
    <1> QED  BY <1>3, <1>4, <1>5, <1>6

LEMMA ValidateStep ==
    ASSUME IInv, NEW i \in Instances, Validate(i) \/ Validated(i)
    PROVE  IInv' /\ Kept
    <1> DEFINE d == snap[i]
    <1>1. pc[i] \in Working /\ Rest /\ pc[i] \in {"validate", "validating"}
        BY DEF Validate, Validated, Working, Rest
    <1>2. /\ d \in Documents /\ Made(d) /\ Previous(d, "ingest") /\ Previous(d, "train")
          /\ Previous(d, "colmap") \/ Previous(d, "fallback")
        BY <1>1, Current DEF Progress, Ingesting, Reconstructed, Trained
    <1>3. CASE Interrupt(i) \/ Fails(i)
        BY <1>1, <1>3, Raised
    <1>4. CASE Validate(i) /\ ~ Interrupt(i)
        <2> DEFINE e == Running(d, "validate")
        <2>1. Persist(i, e, "validating") /\ pc[i] = "validate"
            BY <1>4 DEF Validate
        <2>2. \A t \in STAGES : Previous(e, t) <=> (t # "validate" /\ Previous(d, t))
            BY <1>2, PreviousRunning
        <2>3. Progress(e, "validating")
            BY <1>2, <2>2 DEF Progress, Validating
        <2>4. Sound(i, e, "validating") /\ (StateLockFree => Own(e, "validating"))
            <3>1. pc[i] \notin DOMAIN Activity /\ "validate" \notin Resumable
                BY <2>1, Places DEF Resumable
            <3> QED  BY <1>1, <2>3, <3>1, Places, Activated
        <2> QED  BY <1>1, <2>1, <2>4, Persisted DEF Working
    <1>5. CASE Validated(i) /\ ~ Fails(i)
        <2> DEFINE e == Completed(d, "validate", d.base["train"])
        <2>1. Persist(i, e, "export") /\ pc[i] = "validating"
            BY <1>5 DEF Validated
        <2>2. d.base["train"] = d.cfg
            BY <1>1, <1>2, Current
        <2>3. \A t \in STAGES : Previous(e, t) <=> (t = "validate" \/ Previous(d, t))
            BY <1>2, PreviousCompleted DEF Documents
        <2>4. Progress(e, "export")
            BY <1>2, <2>3 DEF Progress
        <2>5. Sound(i, e, "export") /\ (StateLockFree => Own(e, "export"))
            BY <2>1, <2>2, <2>4, Places, CompletedStage
        <2> QED  BY <1>1, <2>1, <2>5, Persisted DEF Working
    <1> QED  BY <1>3, <1>4, <1>5

LEMMA ExportStep ==
    ASSUME IInv, NEW i \in Instances, Export(i) \/ Exported(i)
    PROVE  IInv' /\ Kept
    <1> DEFINE d == snap[i]
    <1>1. pc[i] \in Working /\ Rest /\ pc[i] \in {"export", "exporting"}
        BY DEF Export, Exported, Working, Rest
    <1>2. /\ d \in Documents /\ Made(d) /\ Previous(d, "ingest") /\ Previous(d, "train")
          /\ Previous(d, "colmap") \/ Previous(d, "fallback")
          /\ Previous(d, "validate")
        BY <1>1, Current DEF Progress, Ingesting, Reconstructed, Trained, Validating
    <1>3. CASE Interrupt(i) \/ Fails(i)
        BY <1>1, <1>3, Raised
    <1>4. CASE Export(i) /\ ~ Interrupt(i)
        <2> DEFINE e == Running(d, "export")
        <2>1. Persist(i, e, "exporting") /\ pc[i] = "export"
            BY <1>4 DEF Export
        <2>2. \A t \in STAGES : Previous(e, t) <=> (t # "export" /\ Previous(d, t))
            BY <1>2, PreviousRunning
        <2>3. Progress(e, "exporting")
            BY <1>2, <2>2 DEF Progress
        <2>4. Sound(i, e, "exporting") /\ (StateLockFree => Own(e, "exporting"))
            <3>1. pc[i] \notin DOMAIN Activity /\ "export" \notin Resumable
                BY <2>1, Places DEF Resumable
            <3> QED  BY <1>1, <2>3, <3>1, Places, Activated
        <2> QED  BY <1>1, <2>1, <2>4, Persisted DEF Working
    <1>5. CASE Exported(i) /\ ~ (Interrupt(i) \/ Fails(i))
        <2> DEFINE c == Completed(d, "export", d.base["train"])
        <2>1. PICK points \in 0..MaxConfig :
                  Persist(i, [c EXCEPT !.cloud = points], "viewer") /\ pc[i] = "exporting"
            <3>1. /\ d.base["fallback"] \in 0..MaxConfig /\ d.base["colmap"] \in 0..MaxConfig
                BY <1>2 DEF Documents
            <3> QED  BY <1>5, <3>1 DEF Exported
        <2> DEFINE e == [c EXCEPT !.cloud = points]
        <2>2. d.base["train"] = d.cfg /\ d.base["train"] \in 0..MaxConfig
            BY <1>1, <1>2, Current DEF Documents
        <2>3. /\ c \in Documents
              /\ c.run = d.run /\ c.cfg = d.cfg /\ c.status = d.status
              /\ c.base = [d.base EXCEPT !["export"] = d.base["train"]]
              /\ c.st = [d.st EXCEPT !["export"] = "succeeded"]
            BY <1>2, <2>2, CompletedIs
        <2> HIDE DEF c
        <2>4. /\ e \in Documents
              /\ e.run = d.run /\ e.cfg = d.cfg /\ e.status = d.status
              /\ e.base = [d.base EXCEPT !["export"] = d.base["train"]]
              /\ e.st = [d.st EXCEPT !["export"] = "succeeded"]
            BY <2>3 DEF Documents
        <2> HIDE DEF e
        <2>5. /\ \A t \in STAGES : t # "export" => e.st[t] = d.st[t] /\ e.base[t] = d.base[t]
              /\ e.st["export"] = "succeeded" /\ e.base["export"] = e.cfg
            BY <1>2, <2>2, <2>4 DEF Documents
        <2>6. Progress(e, "viewer")
            BY <1>2, <2>5 DEF Progress, Previous
        <2>7. Sound(i, e, "viewer") /\ (StateLockFree => Own(e, "viewer"))
            <3>1. ~ (Previous(e, "colmap") /\ Previous(e, "fallback"))
                BY <1>2, <2>5 DEF Previous, Made
            <3>2. /\ pc[i] \in DOMAIN Activity => Activity[pc[i]] = "export"
                  /\ "export" \notin Resumable
                BY <2>1, Places DEF Resumable
            <3> QED  BY <1>1, <2>4, <2>5, <2>6, <3>1, <3>2, Settled
        <2> QED  BY <1>1, <2>1, <2>7, Persisted DEF Working, e
    <1> QED  BY <1>3, <1>4, <1>5

\* The receipt is written while nothing is recorded as succeeded.
LEMMA PublishStep ==
    ASSUME IInv, NEW i \in Instances, PublishViewer(i)
    PROVE  IInv' /\ Kept
    <1> DEFINE d == snap[i]
    <1>1. pc[i] \in Working /\ pc[i] = "viewer"
        BY DEF PublishViewer, Working
    <1>2. CASE Fails(i) /\ UNCHANGED viewer
        BY <1>1, <1>2, Raised DEF PublishViewer, Rest
    <1>3. CASE viewer' = d.run /\ Goto(i, "done") /\ UNCHANGED <<doc, snap, exc, faults>>
        <2>1. d \in Documents /\ exc[i] \in Exceptions /\ "done" \in Steps /\ "done" \in Started
            BY DEF IInv, TypeOK, Steps, Started, Working
        <2>2. Thread(i, d, "done", exc[i])
            BY <1>3 DEF Thread, Goto, PublishViewer, IInv, TypeOK
        <2>3. /\ doc' = doc /\ doc \in Documents /\ viewer' \in 0..MaxRuns /\ doc.status = "running"
              /\ doc.run = d.run /\ doc.cfg = d.cfg
              /\ \A s \in Resumable : Previous(doc, s) => Previous(d, s)
            BY <1>1, <1>3, <2>1, AtWork DEF IInv, TypeOK, Documents
        <2>4. DocInv'
            BY <2>3 DEF IInv, DocInv, Made, SuccessIsCurrent, StageHasRun, StateLockFree
        <2>5. pc'[i] = "done" /\ snap'[i] = d
            BY <2>1, <2>2, <2>3, ThreadType DEF IInv
        <2>6. SnapshotInv(i)'
            <3>1. Made(d) /\ d.status = "running"
                BY <1>1, AtWork DEF Sound
            <3>2. Progress(d, "done")
                BY <1>1, Current
                   DEF Progress, Ingesting, Reconstructed, Trained, Validating, Working
            <3> QED  BY <1>3, <2>3, <2>5, <3>1, <3>2 DEF SnapshotInv
        <2>7. StateLockFree => ActivityInv(i)'
            BY <1>1, <2>5, AtWork, Places DEF ActivityInv, Own, Working
        <2>8. Kept
            BY <2>3 DEF Kept, Documents
        <2>9. pc[i] \in Owners /\ doc'.run = d.run /\ doc'.cfg = d.cfg
            BY <1>1, <2>3 DEF Owners, Started
        <2>10. "done" \notin Before
            BY DEF Before
        <2> QED  BY <2>1, <2>2, <2>3, <2>4, <2>6, <2>7, <2>8, <2>9, <2>10, ThreadStep
    <1> QED  BY <1>2, <1>3 DEF PublishViewer

\* Everything the run recorded is complete when it calls itself a success.
LEMMA SucceedStep ==
    ASSUME IInv, NEW i \in Instances, Succeed(i)
    PROVE  IInv' /\ Kept
    <1> DEFINE c == snap[i]
    <1>1. pc[i] \in Working /\ pc[i] = "done" /\ Rest
        BY DEF Succeed, Working, Rest
    <1>2. CASE Interrupt(i) \/ Fails(i)
        BY <1>1, <1>2, Raised
    <1>3. CASE /\ Terminal(c)
               /\ Keep(i, [c EXCEPT !.status = "succeeded"]) /\ Goto(i, "final")
               /\ UNCHANGED <<doc, exc, faults>>
        <2> DEFINE d == [c EXCEPT !.status = "succeeded"]
        <2>1. c \in Documents /\ exc[i] \in Exceptions /\ "final" \in Steps /\ "final" \in Started
            BY DEF IInv, TypeOK, Steps, Started
        <2>2. /\ d \in Documents /\ d.run = c.run /\ d.cfg = c.cfg /\ d.st = c.st /\ d.base = c.base
              /\ d.cur = c.cur
            BY <2>1 DEF Documents, Statuses
        <2>3. Thread(i, d, "final", exc[i])
            BY <1>3 DEF Thread, Keep, Goto, Succeed, IInv, TypeOK
        <2> HIDE DEF d
        <2>4. DocInv' /\ Kept /\ doc' \in Documents /\ viewer' \in 0..MaxRuns
            BY <1>1, <1>3, SameDocument DEF Rest
        <2>5. /\ doc' = doc /\ doc.status = "running" /\ doc.run = d.run /\ doc.cfg = d.cfg
              /\ \A s \in Resumable : Previous(doc, s) => Previous(d, s)
            BY <1>1, <1>3, <2>2, AtWork DEF Previous
        <2>6. pc'[i] = "final" /\ snap'[i] = d /\ exc'[i] = exc[i]
            BY <2>1, <2>2, <2>3, <2>4, ThreadType DEF IInv
        <2>7. Complete(d) /\ Made(d)
            <3>1. Made(c) /\ Progress(c, "done")
                BY <1>1, Current
            <3> QED  BY <1>3, <2>2, <3>1
                     DEF Complete, Made, Terminal, Progress, Previous, Working, Ingesting,
                         Reconstructed, Trained, Validating
        <2>8. SnapshotInv(i)'
            <3>1. viewer' = d.run
                BY <1>1, <2>2 DEF IInv, OwnerInv, SnapshotInv, Started, Rest
            <3>2. Progress(d, "final")
                BY DEF Progress, Ingesting, Reconstructed, Trained, Validating, Working
            <3> QED  BY <2>5, <2>6, <2>7, <3>1, <3>2 DEF SnapshotInv, Working
        <2>9. StateLockFree => ActivityInv(i)'
            <3>1. \A s \in STAGES : ~ Active(d, s)
                BY <1>3, <2>2 DEF Active, Terminal, TERMINAL_STAGE_STATES
            <3> QED  BY <2>6, <3>1 DEF ActivityInv, Working
        <2>10. pc[i] \in Owners
            BY <1>1 DEF Owners, Started
        <2>11. "final" \notin Before
            BY DEF Before
        <2> QED  BY <2>1, <2>2, <2>3, <2>4, <2>5, <2>8, <2>9, <2>10, <2>11, ThreadStep
    <1> QED  BY <1>2, <1>3 DEF Succeed

-----------------------------------------------------------------------------
(* The steps before and after the stages *)

\* The document under the lock is the one the run starts from.
LEMMA BeginStep ==
    ASSUME IInv, NEW i \in Instances, Begin(i)
    PROVE  IInv' /\ Kept
    <1> DEFINE d == [doc EXCEPT !.run = run_id[i], !.status = "running", !.cur = "none"]
    <1>1. pc[i] = "begin" /\ pc[i] \in Owners /\ pc[i] \notin Started
        BY DEF Begin, Owners, Started, Working
    <1>2. /\ d \in Documents /\ d.cfg = doc.cfg /\ d.status = "running"
          /\ d.st = doc.st /\ d.base = doc.base
        BY DEF IInv, TypeOK, Documents, Statuses
    <1> HIDE DEF d
    <1>3. ASSUME NEW e \in Failures \cup {"RuntimeError", "ProjectLockError", "ProjectStoreError"},
                 Raise(i, e), UNCHANGED doc, faults' \in 0..MaxFaults, NEW c \in Documents,
                 snap' = [snap EXCEPT ![i] = c],
                 Made(c), StateLockFree => \A s \in STAGES : c.st[s] = "running" => c.cur = s
          PROVE  IInv' /\ Kept
        <2>1. e \in Exceptions /\ "unstarted" \in Steps /\ "unstarted" \notin Started
            BY FailuresAssumption DEF Exceptions, WriteErrors, Steps, Before, Started, Working
        <2>2. Thread(i, c, "unstarted", e)
            BY <1>1, <1>3 DEF Thread, Raise, Goto, Begin
        <2>3. DocInv' /\ Kept /\ doc' \in Documents /\ viewer' \in 0..MaxRuns
            BY <1>3, SameDocument DEF Begin
        <2>4. pc'[i] = "unstarted" /\ snap'[i] = c
            BY <2>1, <2>2, <2>3, ThreadType DEF IInv
        <2>5. SnapshotInv(i)' /\ (StateLockFree => ActivityInv(i)')
            BY <2>1, <2>4 DEF SnapshotInv, ActivityInv, Started
        <2>6. LoadedInv(i)'
            <3>1. lock' = {i}
                BY <1>1 DEF Begin, IInv, OwnerInv
            <3> QED  BY <1>3, <2>4, <3>1 DEF LoadedInv, StateLockFree
        <2> QED  BY <1>1, <2>1, <2>2, <2>3, <2>5, <2>6, ThreadStep
    <1>4. ASSUME NEW e \in {"ProjectLockError", "ProjectStoreError"}, Raise(i, e),
                 UNCHANGED <<doc, snap>>, UNCHANGED faults \/ Fault
          PROVE  IInv' /\ Kept
        <2>1. /\ faults' \in 0..MaxFaults
              /\ snap[i] \in Documents /\ snap' = [snap EXCEPT ![i] = snap[i]]
            BY <1>4, BoundsAssumption DEF Fault, IInv, TypeOK
        <2>2. Made(snap[i]) /\ (StateLockFree => \A s \in STAGES :
                                    snap[i].st[s] = "running" => snap[i].cur = s)
            BY <1>1 DEF IInv, OwnerInv, LoadedInv, Before
        <2> QED  BY <1>4, <2>1, <2>2, <1>3
    <1>5. CASE doc.status # "running" /\ doc' = d /\ Goto(i, "ingest") /\ UNCHANGED <<exc, faults>>
        <2>1. exc[i] \in Exceptions /\ "ingest" \in Steps /\ doc \in Documents
            BY DEF IInv, TypeOK, Steps, Started, Working
        <2>2. Thread(i, d, "ingest", exc[i])
            <3>1. snap' = [snap EXCEPT ![i] = d]
                BY <1>1, <1>5 DEF Begin, Persist, Keep, Raise, Goto, IInv, TypeOK, Started, Working, d
            <3>2. exc' = [exc EXCEPT ![i] = exc[i]] /\ faults' \in 0..MaxFaults
                BY <1>5 DEF IInv, TypeOK
            <3> QED  BY <1>5, <3>1, <3>2 DEF Thread, Goto, Begin
        <2>3. DocInv' /\ Kept
            <3>1. Made(d)
                BY <1>2 DEF Made, Previous, IInv, DocInv
            <3>2. StateLockFree => \A s \in STAGES : d.st[s] # "running"
                BY <1>2, <1>5 DEF IInv, DocInv, StageHasRun
            <3>3. Kept
                BY <1>2, <1>5, <2>1 DEF Kept, Documents
            <3> QED  BY <1>2, <1>5, <3>1, <3>2, <3>3
                     DEF DocInv, SuccessIsCurrent, StageHasRun, StateLockFree
        <2>4. /\ doc' \in Documents /\ viewer' = viewer /\ viewer' \in 0..MaxRuns
              /\ doc'.run = d.run /\ doc'.cfg = d.cfg
            BY <1>2, <1>5 DEF Begin, IInv, TypeOK
        <2>5. pc'[i] = "ingest" /\ snap'[i] = d
            BY <1>2, <2>1, <2>2, <2>4, ThreadType DEF IInv
        <2>6. SnapshotInv(i)'
            <3>1. Made(d)
                BY <1>2 DEF Made, Previous, IInv, DocInv
            <3>2. Progress(d, "ingest")
                BY DEF Progress, Ingesting, Reconstructed, Trained, Validating
            <3> QED  BY <1>2, <1>5, <2>5, <3>1, <3>2 DEF SnapshotInv
        <2>7. StateLockFree => ActivityInv(i)'
            <3>1. StateLockFree => \A s \in STAGES : ~ Active(d, s)
                BY <1>2, <1>5 DEF IInv, DocInv, StageHasRun, Active
            <3> QED  BY <2>5, <3>1 DEF ActivityInv
        <2>8. "ingest" \notin Before
            BY DEF Before
        <2> QED  BY <1>1, <1>2, <2>1, <2>2, <2>3, <2>4, <2>6, <2>7, <2>8, ThreadStep
    <1>6. ASSUME doc.status # "running", NEW e \in Failures \cup {"RuntimeError"},
                 Raise(i, e), Charge(e), UNCHANGED doc, Keep(i, d)
          PROVE  IInv' /\ Kept
        <2>1. faults' \in 0..MaxFaults
            BY <1>6, BoundsAssumption DEF Charge, Fault, IInv, TypeOK
        <2>2. Made(d)
            BY <1>2 DEF Made, Previous, IInv, DocInv
        <2>3. StateLockFree => \A s \in STAGES : d.st[s] # "running"
            BY <1>2, <1>6 DEF IInv, DocInv, StageHasRun
        <2> QED  BY <1>2, <1>3, <1>6, <2>1, <2>2, <2>3 DEF Keep
    <1>7. \/ \E e \in {"ProjectLockError", "ProjectStoreError"} :
                 Raise(i, e) /\ UNCHANGED <<doc, snap>> /\ (UNCHANGED faults \/ Fault)
          \/ doc.status # "running" /\ Persist(i, d, "ingest")
        BY DEF Begin, d
    <1> QED  BY <1>4, <1>5, <1>6, <1>7 DEF Persist, Refusals

LEMMA HandleStep ==
    ASSUME IInv, NEW i \in Instances, Handle(i)
    PROVE  IInv' /\ Kept
    <1> DEFINE c == snap[i]
    <1>1. /\ pc[i] = "raised" /\ pc[i] \in Owners /\ pc[i] \in Started /\ pc[i] \notin Working
          /\ c \in Documents /\ exc[i] \in Exceptions /\ "final" \in Steps /\ "final" \in Started
        BY DEF Handle, Owners, Started, Working, IInv, TypeOK, Steps
    <1>2. /\ doc.status = "running" /\ Made(c)
          /\ doc.run = c.run /\ doc.cfg = c.cfg
          /\ \A s \in Resumable : Previous(doc, s) => Previous(c, s)
          /\ c.status = "succeeded" => Complete(c) /\ viewer = c.run
          /\ StateLockFree =>
                 exc[i] # "ProjectLockError" /\ \A s \in STAGES : Active(c, s) => c.cur = s
        BY <1>1 DEF IInv, OwnerInv, SnapshotInv, ActivityInv
    <1>3. ASSUME NEW d \in Documents, Keep(i, d), d.run = c.run, d.cfg = c.cfg, Made(d),
                 \A s \in Resumable : Previous(c, s) => Previous(d, s),
                 d.status = "succeeded" => Complete(d) /\ viewer = d.run,
                 StateLockFree => \A s \in STAGES : ~ Active(d, s)
          PROVE  IInv' /\ Kept
        <2>1. Thread(i, d, "final", exc[i])
            BY <1>3 DEF Thread, Keep, Goto, Handle, IInv, TypeOK
        <2>2. DocInv' /\ Kept /\ doc' \in Documents /\ viewer' \in 0..MaxRuns
            BY SameDocument DEF Handle
        <2>3. pc'[i] = "final" /\ snap'[i] = d
            BY <1>1, <2>1, <2>2, ThreadType DEF IInv
        <2>4. SnapshotInv(i)'
            BY <1>2, <1>3, <2>3
               DEF SnapshotInv, Handle, Progress, Ingesting, Reconstructed, Trained, Validating,
                   Working
        <2>5. StateLockFree => ActivityInv(i)'
            BY <1>3, <2>3 DEF ActivityInv, Working
        <2>6. doc'.run = d.run /\ doc'.cfg = d.cfg
            BY <1>2, <1>3 DEF Handle
        <2>7. "final" \notin Before
            BY DEF Before
        <2> QED  BY <1>1, <2>1, <2>2, <2>4, <2>5, <2>6, <2>7, ThreadStep
    <1>4. CASE exc[i] = "ProjectLockError"
        <2>1. Keep(i, c)
            BY <1>4 DEF Handle
        <2> QED  BY <1>1, <1>2, <1>3, <1>4, <2>1
    <1>5. CASE exc[i] # "ProjectLockError"
        <2>1. PICK x \in {"failed", "interrupted"} : Keep(i, Ended(c, x))
            BY <1>5 DEF Handle
        <2> DEFINE d == Ended(c, x)
        <2>2. /\ d \in Documents
              /\ d.run = c.run /\ d.cfg = c.cfg /\ d.status = x /\ d.base = c.base
              /\ \A s \in STAGES :
                     d.st[s] = IF s = c.cur /\ c.st[s] = "running" THEN x ELSE c.st[s]
            BY <1>1, EndedIs
        <2> HIDE DEF d
        <2>3. \A s \in STAGES : Previous(c, s) <=> Previous(d, s)
            BY <2>2 DEF Previous
        <2>4. Made(d)
            BY <1>2, <2>2, <2>3 DEF Made, Previous
        <2>5. StateLockFree => \A s \in STAGES : ~ Active(d, s)
            BY <1>2, <2>2 DEF Active
        <2>6. \A s \in Resumable : Previous(c, s) => Previous(d, s)
            BY <2>3 DEF Resumable
        <2>7. Keep(i, d) /\ d.status # "succeeded"
            BY <2>1, <2>2 DEF d
        <2> QED  BY <1>3, <2>2, <2>4, <2>5, <2>6, <2>7
    <1> QED  BY <1>4, <1>5

\* A last write: the thread is done with the document, whether it succeeds or not.
LEMMA LastStep ==
    ASSUME IInv, NEW i \in Instances, pc[i] \in {"raised", "unwritten", "final"},
           NEW d \in Documents, NEW p \in Steps, NEW e \in Exceptions, Thread(i, d, p, e),
           d.run = snap[i].run, d.cfg = snap[i].cfg, Made(d),
           \A s \in Resumable : Previous(snap[i], s) => Previous(d, s),
           d.status = "succeeded" => Complete(d) /\ viewer = d.run,
           d.status # "running" \/ p \notin Working,
           StateLockFree => \A s \in STAGES : ~ Active(d, s),
           p \in {"release", "stuck", "unwritten"},
           doc' = doc \/ (doc' = d /\ p = "release"), viewer' = viewer
    PROVE  IInv' /\ Kept
    <1>1. /\ pc[i] \in Owners /\ pc[i] \in Started
          /\ "unwritten" \in Started /\ "release" \notin Started /\ "stuck" \notin Started
          /\ "unwritten" \notin Working
        BY DEF Owners, Started, Working
    <1>2. /\ doc.status = "running" /\ doc.run = snap[i].run /\ doc.cfg = snap[i].cfg
          /\ \A s \in Resumable : Previous(doc, s) => Previous(snap[i], s)
        BY <1>1 DEF IInv, OwnerInv, SnapshotInv
    <1>3. DocInv' /\ Kept /\ doc' \in Documents /\ viewer' \in 0..MaxRuns
        <2>1. CASE doc' = doc
            BY <2>1, SameDocument
        <2>2. CASE doc' = d
            <3>1. Kept
                <4>1. \A s \in Resumable : Previous(doc, s) => Previous(doc', s)
                    BY <1>2, <2>2
                <4>2. doc'.cfg >= doc.cfg
                    BY <1>2, <2>2 DEF Documents
                <4> QED  BY <4>1, <4>2 DEF Kept, Previous
            <3>2. SuccessIsCurrent'
                BY <2>2 DEF SuccessIsCurrent, Complete, Terminal, Previous
            <3>3. StateLockFree => StageHasRun'
                BY <2>2 DEF StageHasRun, Active
            <3> QED  BY <2>2, <3>1, <3>2, <3>3 DEF DocInv, IInv, TypeOK, StateLockFree
        <2> QED  BY <2>1, <2>2
    <1>4. pc'[i] = p /\ snap'[i] = d
        BY <1>3, ThreadType DEF IInv
    <1>5. SnapshotInv(i)'
        <2>1. CASE p = "unwritten"
            BY <1>1, <1>2, <1>4, <2>1
               DEF SnapshotInv, Progress, Ingesting, Reconstructed, Trained, Validating, Working
        <2>2. CASE p # "unwritten"
            BY <1>1, <1>4, <2>2 DEF SnapshotInv
        <2> QED  BY <2>1, <2>2
    <1>6. StateLockFree => ActivityInv(i)'
        BY <1>4 DEF ActivityInv, Working
    <1>7. p \in Started => doc'.run = d.run /\ doc'.cfg = d.cfg
        BY <1>1, <1>2
    <1>8. p \notin Before
        BY DEF Before
    <1> QED  BY <1>1, <1>3, <1>5, <1>6, <1>7, <1>8, ThreadStep

\* What the thread knows when it has left the stages.
LEMMA AtEnd ==
    ASSUME IInv, NEW i \in Instances, pc[i] \in {"raised", "unwritten", "final"}
    PROVE  LET c == snap[i] IN
           /\ c \in Documents /\ exc[i] \in Exceptions /\ Made(c)
           /\ c.status = "succeeded" => Complete(c) /\ viewer = c.run
           /\ StateLockFree => \A s \in STAGES : Active(c, s) => c.cur = s /\ pc[i] = "raised"
    BY DEF IInv, OwnerInv, SnapshotInv, ActivityInv, TypeOK, Started

LEMMA FailedIs ==
    ASSUME NEW i \in Instances, snap[i] \in Documents
    PROVE  LET c == snap[i]  d == Failed(i) IN
           /\ d \in Documents
           /\ d.run = c.run /\ d.cfg = c.cfg /\ d.status = "failed" /\ d.base = c.base
           /\ \A s \in STAGES :
                  d.st[s] = IF s = c.cur /\ c.st[s] = "running" THEN "failed" ELSE c.st[s]
           /\ \A s \in STAGES : Previous(c, s) <=> Previous(d, s)
           /\ Made(c) => Made(d)
    <1> DEFINE c == snap[i]
               d == Failed(i)
               e == Ended(c, "failed")
    <1>1. /\ e \in Documents
          /\ e.run = c.run /\ e.cfg = c.cfg /\ e.status = "failed" /\ e.base = c.base
          /\ \A s \in STAGES :
                 e.st[s] = IF s = c.cur /\ c.st[s] = "running" THEN "failed" ELSE c.st[s]
        BY EndedIs
    <1>2. d = [e EXCEPT !.cur = "none"]
        BY DEF Failed
    <1> HIDE DEF d, e
    <1>3. /\ d \in Documents
          /\ d.run = c.run /\ d.cfg = c.cfg /\ d.status = "failed" /\ d.base = c.base
          /\ \A s \in STAGES :
                 d.st[s] = IF s = c.cur /\ c.st[s] = "running" THEN "failed" ELSE c.st[s]
        BY <1>1, <1>2 DEF Documents
    <1>4. \A s \in STAGES : Previous(c, s) <=> Previous(d, s)
        BY <1>3 DEF Previous
    <1>5. Made(c) => Made(d)
        BY <1>3, <1>4 DEF Made, Previous, STAGES
    <1> QED  BY <1>3, <1>4, <1>5 DEF d

LEMMA HandleStoreErrorStep ==
    ASSUME IInv, NEW i \in Instances, HandleStoreError(i), pc[i] # "unstarted"
    PROVE  IInv' /\ Kept
    <1> DEFINE c == snap[i]
               d == Failed(i)
    <1>1. pc[i] \in {"raised", "unwritten"} /\ c \in Documents /\ exc[i] \in Exceptions
        BY AtEnd DEF HandleStoreError
    <1>2. /\ d \in Documents
          /\ d.run = c.run /\ d.cfg = c.cfg /\ d.status = "failed" /\ d.base = c.base
          /\ \A s \in STAGES :
                 d.st[s] = IF s = c.cur /\ c.st[s] = "running" THEN "failed" ELSE c.st[s]
        BY <1>1, FailedIs
    <1>3. Made(d) /\ \A s \in Resumable : Previous(c, s) => Previous(d, s)
        BY <1>1, AtEnd, FailedIs DEF Resumable, STAGES
    <1>4. StateLockFree => \A s \in STAGES : ~ Active(d, s)
        BY <1>1, <1>2, AtEnd DEF Active
    <1>5. PICK p \in {"release", "stuck"} :
              Goto(i, p) /\ (doc' = doc \/ (doc' = d /\ p = "release")) /\ faults' \in 0..MaxFaults
        BY BoundsAssumption DEF HandleStoreError, Charge, Fault, IInv, TypeOK
    <1>6. Thread(i, d, p, exc[i]) /\ viewer' = viewer /\ p \in Steps
        BY <1>5 DEF Thread, HandleStoreError, Keep, Goto, IInv, TypeOK, Steps, Waiting
    <1> QED  BY <1>1, <1>2, <1>3, <1>4, <1>5, <1>6, LastStep

\* The second load of a run that never began has failed: what it writes is an
\* older document, but one that was true of the project.
LEMMA OldStep ==
    ASSUME IInv, NEW i \in Instances, HandleStoreError(i), pc[i] = "unstarted"
    PROVE  IInv' /\ Kept
    <1> DEFINE c == snap[i]
               d == Failed(i)
    <1>1. /\ c \in Documents /\ exc[i] = "ProjectStoreError" /\ exc[i] \in Exceptions
          /\ Made(c) /\ lock = {i}
          /\ StateLockFree => \A s \in STAGES : c.st[s] = "running" => c.cur = s
        BY DEF HandleStoreError, IInv, TypeOK, OwnerInv, LoadedInv, Before
    <1>2. /\ d \in Documents /\ d.status = "failed" /\ Made(d)
          /\ \A s \in STAGES :
                 d.st[s] = IF s = c.cur /\ c.st[s] = "running" THEN "failed" ELSE c.st[s]
        BY <1>1, FailedIs
    <1>3. /\ Goto(i, "release") /\ faults' \in 0..MaxFaults
          /\ doc' = doc \/ (doc' = d /\ doc.run = c.run)
        BY BoundsAssumption DEF HandleStoreError, Charge, Fault, IInv, TypeOK
    <1>4. Thread(i, d, "release", exc[i]) /\ viewer' = viewer /\ "release" \in Steps
        BY <1>3 DEF Thread, HandleStoreError, Keep, Goto, IInv, TypeOK, Steps
    <1>5. DocInv' /\ Kept /\ doc' \in Documents /\ viewer' \in 0..MaxRuns
        <2>1. CASE doc' = doc
            BY <1>4, <2>1, SameDocument
        <2>2. CASE doc' = d /\ doc.run = c.run
            <3>1. Kept
                BY <1>1, <2>2 DEF Kept, WritesOld
            <3>2. SuccessIsCurrent'
                BY <1>2, <2>2 DEF SuccessIsCurrent
            <3>3. StateLockFree => StageHasRun'
                BY <1>1, <1>2, <2>2 DEF StageHasRun
            <3> QED  BY <1>2, <1>4, <2>2, <3>1, <3>2, <3>3 DEF DocInv, IInv, TypeOK, StateLockFree
        <2> QED  BY <1>3, <2>1, <2>2
    <1>6. /\ TypeOK' /\ pc'[i] = "release"
          /\ \A j \in Instances : j # i =>
                 pc'[j] = pc[j] /\ snap'[j] = snap[j] /\ exc'[j] = exc[j]
        BY <1>1, <1>2, <1>4, <1>5, ThreadType DEF IInv
    <1>7. OwnerInv(i)'
        BY <1>6, Begun, Idler DEF Owners, Started, Working
    <1> QED  BY <1>1, <1>5, <1>6, <1>7, OwnerStep

LEMMA FinalizeStep ==
    ASSUME IInv, NEW i \in Instances, Finalize(i)
    PROVE  IInv' /\ Kept
    <1> DEFINE c == snap[i]
               d == [c EXCEPT !.cur = "none"]
    <1>1. pc[i] = "final" /\ c \in Documents /\ exc[i] \in Exceptions
        BY AtEnd DEF Finalize
    <1>2. /\ d \in Documents
          /\ d.run = c.run /\ d.cfg = c.cfg /\ d.status = c.status /\ d.base = c.base
          /\ d.st = c.st
        BY <1>1 DEF Documents
    <1> HIDE DEF d
    <1>3. \A s \in STAGES : Previous(c, s) <=> Previous(d, s)
        BY <1>2 DEF Previous
    <1>4. /\ Made(d)
          /\ \A s \in Resumable : Previous(c, s) => Previous(d, s)
          /\ d.status = "succeeded" => Complete(d) /\ viewer = d.run
        BY <1>1, <1>2, <1>3, AtEnd DEF Made, Previous, Resumable, Complete, Terminal
    <1>5. StateLockFree => \A s \in STAGES : ~ Active(d, s)
        BY <1>1, <1>2, AtEnd DEF Active
    <1>6. PICK p \in {"release", "stuck", "unwritten"}, e \in Exceptions :
              /\ Goto(i, p) /\ exc' = [exc EXCEPT ![i] = e]
              /\ doc' = doc \/ (doc' = d /\ p = "release")
              /\ faults' \in 0..MaxFaults
        <2>1. CASE doc' = d /\ Goto(i, "release") /\ UNCHANGED <<exc, faults>>
            <3>1. exc' = [exc EXCEPT ![i] = exc[i]] /\ faults' \in 0..MaxFaults
                BY <2>1 DEF IInv, TypeOK
            <3> QED  BY <1>1, <2>1, <3>1
        <2>2. ASSUME NEW e \in Failures \cup {"RuntimeError"}, Charge(e),
                     exc' = [exc EXCEPT ![i] = e], UNCHANGED doc,
                     Goto(i, IF e = "ProjectStoreError" THEN "unwritten" ELSE "stuck")
              PROVE  \E p \in {"release", "stuck", "unwritten"}, x \in Exceptions :
                         /\ Goto(i, p) /\ exc' = [exc EXCEPT ![i] = x]
                         /\ doc' = doc \/ (doc' = d /\ p = "release")
                         /\ faults' \in 0..MaxFaults
            <3>1. e \in Exceptions
                BY FailuresAssumption DEF Exceptions
            <3>2. faults' \in 0..MaxFaults
                BY <2>2, BoundsAssumption DEF Charge, Fault, IInv, TypeOK
            <3>3. PICK p \in {"stuck", "unwritten"} : Goto(i, p)
                BY <2>2
            <3> QED  BY <2>2, <3>1, <3>2, <3>3
        <2> QED  BY <2>1, <2>2 DEF Finalize, Refusals, d
    <1>7. Thread(i, d, p, e) /\ viewer' = viewer /\ p \in Steps
        BY <1>6 DEF Thread, Finalize, Keep, Goto, Steps, Started, Waiting, d
    <1>8. p \notin Working
        BY <1>6 DEF Working
    <1> QED  BY <1>1, <1>2, <1>4, <1>5, <1>6, <1>7, <1>8, LastStep

-----------------------------------------------------------------------------
(* Everybody else *)

LEMMA AsideStep ==
    ASSUME IInv, NEW i \in Instances,
           Register(i) \/ HandleUnstarted(i) \/ Release(i) \/ Cancel(i) \/ Quit(i) \/ Crash(i)
    PROVE  IInv' /\ Kept
    <1>1. CASE Cancel(i)
        <2>1. TypeOK' /\ pc'[i] = pc[i] /\ snap'[i] = snap[i] /\ exc'[i] = exc[i]
            BY <1>1 DEF Cancel, IInv, TypeOK
        <2>2. OwnerInv(i)'
            <3>1. OwnerInv(i)
                BY DEF IInv
            <3>2. LoadedInv(i)'
                BY <1>1, <3>1 DEF Cancel, OwnerInv, LoadedInv, Made, Previous, StateLockFree
            <3> QED  BY <1>1, <3>1, <3>2
                     DEF Cancel, OwnerInv, SnapshotInv, ActivityInv, StateLockFree
        <2> QED  BY <1>1, <2>1, <2>2, Aside DEF Cancel
    <1>2. CASE ~ Cancel(i)
        <2>1. /\ UNCHANGED <<doc, viewer>>
              /\ lock' = lock \/ lock' = lock \ {i}
              /\ pc'[i] \notin Owners
              /\ \A j \in Instances : j # i =>
                     pc'[j] = pc[j] /\ snap'[j] = snap[j] /\ exc'[j] = exc[j]
            BY <1>2 DEF Register, HandleUnstarted, Release, Quit, Crash, Forget, Goto, Keep,
                        IInv, TypeOK, Owners, Started, Working
        <2>2. TypeOK'
            <3>1. Imported \in Documents
                BY BoundsAssumption DEF Imported, Documents, Statuses, StageStates
            <3>2. CASE Register(i)
                <4>1. runs + 1 \in 0..MaxRuns
                    BY <3>2, BoundsAssumption DEF Register, IInv, TypeOK
                <4> QED  BY <3>2, <4>1 DEF Register, Keep, Goto, IInv, TypeOK, Steps, Before
            <3>3. CASE HandleUnstarted(i)
                BY <3>3 DEF HandleUnstarted, Goto, IInv, TypeOK, Steps
            <3>4. CASE Release(i) \/ Quit(i) \/ Crash(i)
                <4>1. faults' \in 0..MaxFaults
                    BY <3>4, BoundsAssumption DEF Release, Quit, Crash, Fault, IInv, TypeOK
                <4>2. 0 \in 0..MaxRuns
                    BY BoundsAssumption
                <4> QED  BY <3>1, <3>4, <4>1, <4>2
                         DEF Release, Quit, Crash, Forget, Goto, IInv, TypeOK, Steps, Waiting,
                             Exceptions
            <3> QED  BY <1>2, <3>2, <3>3, <3>4
        <2>3. LoadedInv(i)'
            <3>1. CASE Register(i)
                <4>1. pc'[i] = "lock" /\ snap'[i] = doc /\ UNCHANGED doc
                    BY <3>1 DEF Register, Keep, Goto, IInv, TypeOK
                <4>2. Made(doc) /\ (StateLockFree => \A s \in STAGES :
                                       doc.st[s] = "running" => doc.cur = s)
                    BY DEF IInv, DocInv, StageHasRun
                <4> QED  BY <4>1, <4>2 DEF LoadedInv, Made, Previous, StateLockFree
            <3>2. CASE ~ Register(i)
                <4>1. pc'[i] \in {"release", "off", "down"}
                    BY <1>2, <3>2 DEF HandleUnstarted, Release, Quit, Crash, Forget, Goto, IInv, TypeOK
                <4> QED  BY <4>1, Begun DEF Before
            <3> QED  BY <3>1, <3>2
        <2>4. OwnerInv(i)'
            BY <2>1, <2>3, Idler
        <2> QED  BY <2>1, <2>2, <2>4, Aside
    <1> QED  BY <1>1, <1>2

LEMMA LockStep ==
    ASSUME IInv, NEW i \in Instances, AcquireRunLock(i)
    PROVE  IInv' /\ Kept
    <1>1. CASE lock = {}
        <2>1. /\ lock' = {i} /\ pc'[i] = "begin" /\ TypeOK'
              /\ pc[i] = "lock" /\ UNCHANGED <<snap, exc>>
              /\ \A j \in Instances : j # i => pc'[j] = pc[j]
            BY <1>1 DEF AcquireRunLock, Goto, IInv, TypeOK, Steps, Before
        <2>2. DocInv' /\ Kept
            BY SameDocument DEF AcquireRunLock
        <2>3. OwnerInv(i)'
            <3>1. LoadedInv(i)
                BY DEF IInv, OwnerInv
            <3>2. LoadedInv(i)'
                BY <2>1, <3>1 DEF LoadedInv, Before, Made, Previous, StateLockFree
            <3> QED  BY <2>1, <3>2 DEF OwnerInv, SnapshotInv, ActivityInv, Started, Working
        <2> QED  BY <1>1, <2>1, <2>2, <2>3, OwnerStep
    <1>2. CASE lock # {}
        <2>1. /\ UNCHANGED <<doc, viewer, lock>> /\ pc'[i] = "unstarted" /\ TypeOK'
              /\ pc[i] = "lock" /\ UNCHANGED snap /\ exc'[i] = "ProjectLockError"
              /\ \A j \in Instances : j # i =>
                     pc'[j] = pc[j] /\ snap'[j] = snap[j] /\ exc'[j] = exc[j]
            BY <1>2 DEF AcquireRunLock, Raise, Goto, IInv, TypeOK, Steps, Before, Started, Working,
                        Exceptions, WriteErrors
        <2>2. OwnerInv(i)'
            <3>1. LoadedInv(i)
                BY DEF IInv, OwnerInv
            <3>2. LoadedInv(i)'
                BY <2>1, <3>1 DEF LoadedInv, Before, Made, Previous, StateLockFree
            <3> QED  BY <2>1, <3>2, Idler DEF Owners, Started, Working
        <2> QED  BY <2>1, <2>2, Aside
    <1> QED  BY <1>1, <1>2

\* Nobody holds the run lock: the project is written, and no run is disturbed.
LEMMA FreeStep ==
    ASSUME IInv, NEW i \in Instances, lock = {}, UNCHANGED <<lock, snap, exc>>, TypeOK', DocInv',
           \A j \in Instances : pc'[j] = pc[j] \/ (j = i /\ pc'[j] = "off")
    PROVE  IInv'
    <1>1. \A j \in Instances : pc[j] \notin Owners
        BY DEF IInv, OwnerInv
    <1>2. ASSUME NEW j \in Instances  PROVE OwnerInv(j)'
        <2>1. LoadedInv(j)
            BY DEF IInv, OwnerInv
        <2>2. LoadedInv(j)'
            BY <2>1 DEF LoadedInv, Before, Made, Previous, StateLockFree
        <2>3. pc'[j] \notin Owners
            BY <1>1 DEF Owners, Started, Working
        <2> QED  BY <2>2, <2>3, Idler
    <1> QED  BY <1>2 DEF IInv

LEMMA StaleIs ==
    ASSUME NEW d \in Documents
    PROVE  /\ Stale(d) \in [STAGES -> StageStates]
           /\ \A s \in STAGES :
                  /\ d.st[s] = "running" => Stale(d)[s] = "running"
                  /\ d.st[s] # "running" => Stale(d)[s] \in {"pending", "stale"}
    BY DEF Stale, Documents, StageStates

\* A project nobody works on is reconfigured.
LEMMA ConfigureStep ==
    ASSUME IInv, NEW i \in Instances, Configure(i) \/ SameProfile(i)
    PROVE  IInv' /\ Kept
    <1>1. /\ doc \in Documents /\ doc.status # "running" /\ lock = {}
          /\ UNCHANGED <<viewer, lock, pc, snap, exc, token, runs, run_id, faults>>
        BY DEF Configure, SameProfile, Idle, IInv, TypeOK
    <1>2. StateLockFree => \A s \in STAGES : doc.st[s] # "running"
        BY <1>1 DEF IInv, DocInv, StageHasRun
    <1>3. /\ doc' \in Documents /\ doc'.cfg >= doc.cfg
          /\ doc'.st = Stale(doc) /\ doc'.run = 0
        <2> DEFINE st == Stale(doc)
        <2>1. st \in [STAGES -> StageStates]
            BY <1>1, StaleIs
        <2>2. /\ 0 \in 0..MaxRuns /\ "none" \in STAGES \cup {"none"} /\ "ready" \in Statuses
              /\ doc.cfg \in 1..MaxConfig
            BY <1>1, BoundsAssumption DEF Statuses, Documents
        <2>3. CASE Configure(i)
            <3> DEFINE cfg == doc.cfg + 1
            <3>1. doc' = [doc EXCEPT !.cfg = cfg, !.st = st, !.run = 0, !.cur = "none",
                                     !.status = "ready"]
                BY <2>3 DEF Configure
            <3>2. cfg \in 1..MaxConfig /\ cfg >= doc.cfg
                BY <2>2, <2>3, BoundsAssumption DEF Configure
            <3> HIDE DEF st, cfg
            <3>3. doc' \in Documents /\ doc'.cfg = cfg /\ doc'.st = st /\ doc'.run = 0
                BY <1>1, <2>1, <2>2, <3>1, <3>2 DEF Documents
            <3> QED  BY <3>2, <3>3 DEF st
        <2>4. CASE SameProfile(i)
            <3>1. doc' = [doc EXCEPT !.st = st, !.run = 0, !.cur = "none"]
                BY <2>4 DEF SameProfile
            <3> HIDE DEF st
            <3>2. doc' \in Documents /\ doc'.cfg = doc.cfg /\ doc'.st = st /\ doc'.run = 0
                BY <1>1, <2>1, <2>2, <3>1 DEF Documents
            <3> QED  BY <2>2, <3>2 DEF st
        <2> QED  BY <2>3, <2>4
    <1>4. \A s \in STAGES : doc'.st[s] # "succeeded"
        BY <1>1, <1>3, StaleIs
    <1>5. Kept
        BY <1>1, <1>3, StaleIs DEF Kept, Resumable
    <1>6. TypeOK'
        BY <1>1, <1>3 DEF IInv, TypeOK
    <1>7. DocInv'
        <2>1. Made(doc')
            BY <1>4 DEF Made, Previous
        <2>2. SuccessIsCurrent'
            BY <1>3 DEF SuccessIsCurrent
        <2>3. StateLockFree => StageHasRun'
            <3>1. ASSUME StateLockFree, NEW s \in STAGES  PROVE doc'.st[s] # "running"
                <4>1. doc.st[s] # "running"
                    BY <1>2, <3>1
                <4> QED  BY <1>1, <1>3, <4>1, StaleIs
            <3> QED  BY <3>1 DEF StageHasRun
        <2> QED  BY <2>1, <2>2, <2>3 DEF DocInv, StateLockFree
    <1> QED  BY <1>1, <1>5, <1>6, <1>7, FreeStep

LEMMA CleanupStep ==
    ASSUME IInv, NEW i \in Instances, NEW G \in StageGroups, Cleanup(i, G)
    PROVE  IInv' /\ Kept
    <1>1. /\ doc \in Documents /\ doc.status # "running" /\ lock = {}
          /\ UNCHANGED <<lock, pc, snap, exc, token, runs, run_id, faults>> /\ viewer' = 0
        BY DEF Cleanup, Idle, IInv, TypeOK
    <1>2. StateLockFree => \A s \in STAGES : doc.st[s] # "running"
        BY <1>1 DEF IInv, DocInv, StageHasRun
    <1>3. /\ doc' \in Documents /\ doc'.cfg = doc.cfg /\ doc'.run = 0
          /\ doc'.st = [s \in STAGES |-> IF s \in G THEN "pending" ELSE doc.st[s]]
          /\ doc'.base = [s \in STAGES |-> IF s \in G THEN 0 ELSE doc.base[s]]
        <2> DEFINE st == [s \in STAGES |-> IF s \in G THEN "pending" ELSE doc.st[s]]
                   base == [s \in STAGES |-> IF s \in G THEN 0 ELSE doc.base[s]]
        <2>1. st \in [STAGES -> StageStates] /\ base \in [STAGES -> 0..MaxConfig]
            BY <1>1, BoundsAssumption DEF Documents, StageStates
        <2>2. /\ 0 \in 0..MaxRuns /\ "none" \in STAGES \cup {"none"} /\ "ready" \in Statuses
            BY BoundsAssumption DEF Statuses
        <2>3. doc' = [doc EXCEPT !.st = st, !.base = base, !.run = 0, !.cur = "none",
                                 !.status = "ready"]
            BY DEF Cleanup
        <2> HIDE DEF st, base
        <2>4. doc' \in Documents /\ doc'.cfg = doc.cfg /\ doc'.run = 0
              /\ doc'.st = st /\ doc'.base = base
            BY <1>1, <2>1, <2>2, <2>3 DEF Documents
        <2> QED  BY <2>4 DEF st, base
    <1>4. \A s \in STAGES :
              /\ doc'.st[s] = "pending" \/ doc'.st[s] = doc.st[s]
              /\ doc'.st[s] = "succeeded" => doc.st[s] = "succeeded" /\ doc'.base[s] = doc.base[s]
        BY <1>3
    <1>5. Kept
        BY <1>1, <1>3, <1>4 DEF Kept, Resumable, Documents
    <1>6. TypeOK'
        BY <1>1, <1>3, BoundsAssumption DEF IInv, TypeOK
    <1>7. DocInv'
        <2>1. Made(doc')
            BY <1>3, <1>4 DEF IInv, DocInv, Made, Previous
        <2>2. SuccessIsCurrent'
            BY <1>3 DEF SuccessIsCurrent
        <2>3. StateLockFree => StageHasRun'
            BY <1>2, <1>4 DEF StageHasRun
        <2> QED  BY <2>1, <2>2, <2>3 DEF DocInv, StateLockFree
    <1> QED  BY <1>1, <1>5, <1>6, <1>7, FreeStep

\* A recovered project has no active stage.
LEMMA LaunchStep ==
    ASSUME IInv, NEW i \in Instances, Launch(i)
    PROVE  IInv' /\ Kept
    <1>1. /\ pc[i] = "down" /\ pc' = [pc EXCEPT ![i] = "off"]
          /\ UNCHANGED <<viewer, lock, snap, exc, token, runs, run_id>>
          /\ faults' \in 0..MaxFaults /\ doc \in Documents
          /\ pc'[i] = "off" /\ pc'[i] \notin Owners /\ pc'[i] \notin Before
          /\ \A j \in Instances : j # i => pc'[j] = pc[j]
        BY BoundsAssumption DEF Launch, Goto, Fault, IInv, TypeOK, Owners, Started, Working, Before
    <1>2. CASE doc' = doc
        <2>1. TypeOK'
            BY <1>1, <1>2 DEF IInv, TypeOK, Steps, Waiting
        <2>2. OwnerInv(i)'
            BY <1>1, Idler, Begun
        <2> QED  BY <1>1, <1>2, <2>1, <2>2, Aside
    <1>3. CASE doc' # doc
        <2>1. /\ lock = {}
              /\ doc' = [doc EXCEPT !.status = "interrupted", !.cur = "none",
                            !.st = [s \in STAGES |-> IF doc.st[s] = "running"
                                                     THEN "interrupted" ELSE doc.st[s]]]
            BY <1>3 DEF Launch
        <2>2. /\ doc' \in Documents /\ doc'.cfg = doc.cfg /\ doc'.status = "interrupted"
              /\ doc'.base = doc.base
              /\ \A s \in STAGES :
                     doc'.st[s] = IF doc.st[s] = "running" THEN "interrupted" ELSE doc.st[s]
            BY <1>1, <2>1 DEF Documents, Statuses, StageStates
        <2>3. TypeOK'
            BY <1>1, <2>2 DEF IInv, TypeOK, Steps, Waiting
        <2>4. DocInv'
            <3>1. Made(doc')
                BY <2>2 DEF IInv, DocInv, Made, Previous
            <3>2. SuccessIsCurrent' /\ StageHasRun'
                BY <2>2 DEF SuccessIsCurrent, StageHasRun
            <3> QED  BY <3>1, <3>2 DEF DocInv, StateLockFree
        <2>5. Kept
            BY <1>1, <2>2 DEF Kept, Resumable, Documents
        <2> QED  BY <1>1, <2>1, <2>3, <2>4, <2>5, FreeStep
    <1> QED  BY <1>2, <1>3

-----------------------------------------------------------------------------
(* The theorems *)

LEMMA InitInv ==
    ASSUME Init
    PROVE  IInv
    <1>1. Imported \in Documents
        BY BoundsAssumption DEF Imported, Documents, Statuses, StageStates
    <1>2. TypeOK
        BY <1>1, BoundsAssumption DEF Init, TypeOK, Steps, Waiting, Exceptions
    <1>3. DocInv
        BY DEF Init, Imported, DocInv, Made, Previous, SuccessIsCurrent, StageHasRun
    <1>4. \A i \in Instances : OwnerInv(i)
        BY DEF Init, OwnerInv, SnapshotInv, LoadedInv, Before, ActivityInv, Owners, Started, Working
    <1> QED  BY <1>2, <1>3, <1>4 DEF IInv

\* One step of any action, or none.
LEMMA StepInv ==
    ASSUME IInv, [Next]_vars
    PROVE  IInv' /\ Kept
    <1>1. CASE UNCHANGED vars
        <2>1. DocInv' /\ Kept
            BY <1>1, SameDocument DEF vars
        <2>2. TypeOK' /\ \A i \in Instances : OwnerInv(i)'
            BY <1>1 DEF vars, IInv, TypeOK, OwnerInv, SnapshotInv, LoadedInv, ActivityInv, Made,
                        Previous, StateLockFree
        <2> QED  BY <2>1, <2>2 DEF IInv
    <1>2. ASSUME NEW i \in Instances, RunThread(i)
          PROVE  IInv' /\ Kept
        <2>1. CASE Reconstructing(i)
            BY <2>1, ReconstructStep, ColmapStep, SkipStep, FallbackStep DEF Reconstructing
        <2>2. CASE Publishing(i)
            BY <2>2, ValidateStep, ExportStep, PublishStep, SucceedStep DEF Publishing
        <2>3. CASE Ending(i)
            BY <2>3, HandleStep, HandleStoreErrorStep, OldStep, FinalizeStep, AsideStep DEF Ending
        <2>4. CASE \/ AcquireRunLock(i) \/ Begin(i) \/ Ingest(i) \/ Ingested(i)
                   \/ PrepareTrainingInput(i) \/ Train(i) \/ TrainReturned(i)
            BY <2>4, LockStep, BeginStep, IngestStep, PrepareStep, TrainStep
        <2> QED  BY <1>2, <2>1, <2>2, <2>3, <2>4 DEF RunThread
    <1>3. ASSUME NEW i \in Instances, User(i) \/ Launch(i) \/ Quit(i) \/ Crash(i)
          PROVE  IInv' /\ Kept
        BY <1>3, AsideStep, ConfigureStep, CleanupStep, LaunchStep DEF User
    <1> QED  BY <1>1, <1>2, <1>3 DEF Next

LEMMA Invariance == Spec => []IInv
    <1>1. Init => IInv
        BY InitInv
    <1>2. IInv /\ [Next]_vars => IInv'
        BY StepInv
    <1> QED  BY <1>1, <1>2, PTL DEF Spec

\* A run thread that has recorded its run owns the document until it gives
\* the lock back, and what it knows of its private copy is true
\* (pipeline.py:839-850, 926-940).
THEOREM RunCorrect == Spec => []RunInv
    <1>1. IInv => RunInv
        BY DEF IInv, DocInv, OwnerInv, RunInv, RunOwnsDocument, Owners
    <1> QED  BY <1>1, Invariance, PTL

\* A project recorded as succeeded by a run it still names is complete and
\* current, and the receipt of the viewer names that run
\* (pipeline.py:1004-1029, 1402-1415).
THEOREM SuccessCurrent == Spec => []SuccessIsCurrent
    <1>1. IInv => SuccessIsCurrent
        BY DEF IInv, DocInv
    <1> QED  BY <1>1, Invariance, PTL

\* If the five-second lock of the document is never found busy by a run, a
\* stage is recorded as running only as the current stage of a running run
\* (docs/adr/P2.md:78-80).  Without that hypothesis it is false: Handle
\* re-raises ProjectLockError with the stage still active.
THEOREM StageRuns ==
    ASSUME StateLockFree
    PROVE  Spec => []StageHasRun
    <1>1. IInv => StageHasRun
        BY DEF IInv, DocInv
    <1> QED  BY <1>1, Invariance, PTL

\* No step of a run writes an older configuration over the user's last one,
\* but for a run whose document could not be loaded again under the lock:
\* that one writes the snapshot from before (pipeline.py:839-850, 878-880).
THEOREM ConfigKept == Spec => NoLostConfig
    <1> DEFINE Grows == doc'.cfg >= doc.cfg \/ \E i \in Instances : WritesOld(i)
    <1>1. IInv /\ [Next]_vars => [Grows]_vars
        BY StepInv DEF Kept
    <1>2. Spec => [][Grows]_vars
        BY <1>1, Invariance, PTL DEF Spec
    <1> QED  BY <1>2 DEF NoLostConfig

\* A resumed run starts no completed stage over, nor drops one in favour of
\* another (docs/adr/P2.md:28-30), with the same exception.
THEOREM Resumes == Spec => ResumeKeeps
    <1> DEFINE Stays == \/ \A s \in {"ingest", "colmap", "fallback", "train"} :
                              doc.st[s] = "succeeded" =>
                                  doc'.st[s] \in {"succeeded", "stale", "pending"}
                        \/ \E i \in Instances : WritesOld(i)
    <1>1. IInv /\ [Next]_vars => [Stays]_vars
        BY StepInv DEF Kept, Resumable
    <1>2. Spec => [][Stays]_vars
        BY <1>1, Invariance, PTL DEF Spec
    <1> QED  BY <1>2 DEF ResumeKeeps

=============================================================================
