--------------------------- MODULE WorkerRunProofs ---------------------------
(***************************************************************************)
(* What TLAPS proves of WorkerRun, for any number of calls, artifacts and  *)
(* faults.                                                                 *)
(*                                                                         *)
(* The argument: a step of call c changes only what c itself keeps, the    *)
(* locks c takes or gives back and the directories c publishes (Frame).    *)
(* So each action is checked against the three parts of the invariant of   *)
(* its own call, and only Publish and Rollback against the store.          *)
(***************************************************************************)
EXTENDS WorkerRun, TLAPS

\* What a step of call c leaves alone of the others.
Elsewhere(c) ==
    \A d \in Calls : d # c =>
        /\ pc'[d] = pc[d] /\ stop'[d] = stop[d] /\ attempt'[d] = attempt[d]
        /\ worker'[d] = worker[d] /\ output'[d] = output[d]
        /\ unrolled'[d] = unrolled[d] /\ outcome'[d] = outcome[d]

\* What it may do to the locks.
Takes(c) == \E a \in Artifacts : lock[a] = {} /\ lock' = [lock EXCEPT ![a] = {c}]

OwnInv(c) == HoldInv(c) /\ PhaseInv(c) /\ OutputInv(c)

-----------------------------------------------------------------------------
(* Frames *)

LEMMA OthersHold ==
    ASSUME CommitInv, NEW c \in Calls, UNCHANGED lock \/ Unlock(c) \/ Takes(c)
    PROVE  \A d \in Calls : d # c => Holds(d)' = Holds(d)
    <1>1. \A d \in Calls, a \in Artifacts : d # c => (d \in lock'[a] <=> d \in lock[a])
        <2>1. CASE UNCHANGED lock
            BY <2>1
        <2>2. CASE Unlock(c)
            BY <2>2 DEF Unlock
        <2>3. ASSUME NEW b \in Artifacts, lock[b] = {}, lock' = [lock EXCEPT ![b] = {c}]
              PROVE  \A d \in Calls, a \in Artifacts : d # c => (d \in lock'[a] <=> d \in lock[a])
            BY <2>3 DEF CommitInv, TypeOK
        <2> QED  BY <2>1, <2>2, <2>3 DEF Takes
    <1> QED  BY <1>1 DEF Holds

LEMMA LocksKept ==
    ASSUME CommitInv, NEW c \in Calls, Elsewhere(c),
           \/ (UNCHANGED lock \/ Takes(c)) /\ pc'[c] \in Committing
           \/ UNCHANGED lock /\ pc[c] \notin Committing
           \/ Unlock(c)
    PROVE  LockInv'
    <1> SUFFICES ASSUME NEW a \in Artifacts, NEW d \in Calls, d \in lock'[a]
                 PROVE  pc'[d] \in Committing /\ lock'[a] = {d}
        BY DEF LockInv
    <1>1. CASE d # c
        <2>1. d \in lock[a] /\ lock[a] = {d} /\ pc[d] \in Committing
            BY <1>1 DEF CommitInv, TypeOK, LockInv, Unlock, Takes
        <2>2. lock'[a] = {d}
            BY <1>1, <2>1 DEF CommitInv, TypeOK, Unlock, Takes
        <2> QED  BY <1>1, <2>1, <2>2 DEF Elsewhere
    <1>2. CASE d = c
        <2>1. pc'[c] \in Committing /\ (UNCHANGED lock \/ Takes(c))
            BY <1>2 DEF CommitInv, LockInv, Unlock
        <2>2. lock'[a] = {c}
            BY <1>2, <2>1 DEF CommitInv, TypeOK, LockInv, Takes
        <2> QED  BY <1>2, <2>1, <2>2
    <1> QED  BY <1>1, <1>2

LEMMA OthersKept ==
    ASSUME CommitInv, NEW c \in Calls, Elsewhere(c),
           UNCHANGED lock \/ Unlock(c) \/ Takes(c)
    PROVE  \A d \in Calls : d # c => OwnInv(d)'
    <1> SUFFICES ASSUME NEW d \in Calls, d # c
                 PROVE  OwnInv(d)'
        OBVIOUS
    <1>1. /\ pc'[d] = pc[d] /\ stop'[d] = stop[d] /\ attempt'[d] = attempt[d]
          /\ worker'[d] = worker[d] /\ output'[d] = output[d]
          /\ unrolled'[d] = unrolled[d] /\ outcome'[d] = outcome[d]
          /\ Holds(d)' = Holds(d)
        BY OthersHold DEF Elsewhere
    <1>2. Declared(d)' = Declared(d) /\ Published(d)' = Published(d)
        BY <1>1 DEF Declared, Published
    <1>3. HoldInv(d) /\ PhaseInv(d) /\ OutputInv(d)
        BY DEF CommitInv
    <1>4. HoldInv(d)'
        BY <1>1, <1>2, <1>3 DEF HoldInv
    <1>5. PhaseInv(d)'
        BY <1>1, <1>3 DEF PhaseInv
    <1>6. OutputInv(d)'
        BY <1>1, <1>2, <1>3 DEF OutputInv
    <1> QED  BY <1>4, <1>5, <1>6 DEF OwnInv

\* A step of call c is correct if it is so for c, and for the store.
LEMMA Frame ==
    ASSUME CommitInv, NEW c \in Calls, Elsewhere(c), TypeOK', StoreInv', OwnInv(c)',
           \/ (UNCHANGED lock \/ Takes(c)) /\ pc'[c] \in Committing
           \/ UNCHANGED lock /\ pc[c] \notin Committing
           \/ Unlock(c)
    PROVE  CommitInv'
    <1>1. LockInv'
        BY LocksKept
    <1>2. \A d \in Calls : d # c => OwnInv(d)'
        BY OthersKept
    <1> QED  BY <1>1, <1>2 DEF CommitInv, OwnInv

\* The same for a step that moves no directory.
LEMMA StillFrame ==
    ASSUME CommitInv, NEW c \in Calls, Elsewhere(c), TypeOK', UNCHANGED <<store, output>>,
           \/ (UNCHANGED lock \/ Takes(c)) /\ pc'[c] \in Committing
           \/ UNCHANGED lock /\ pc[c] \notin Committing
           \/ Unlock(c),
           Declared(c)' = Declared(c) /\ Published(c)' = Published(c) => OwnInv(c)'
    PROVE  CommitInv'
    <1>1. StoreInv'
        BY DEF CommitInv, StoreInv
    <1>2. OwnInv(c)'
        BY DEF Declared, Published
    <1> QED  BY <1>1, <1>2, Frame

-----------------------------------------------------------------------------
(* Types *)

LEMMA FaultType ==
    ASSUME TypeOK, Fault
    PROVE  faults' \in 0..MaxFaults
    BY FaultsAssumption DEF TypeOK, Fault

LEMMA LeaveType ==
    ASSUME TypeOK, NEW c \in Calls, NEW s \in Steps, Leave(c, s)
    PROVE  /\ pc' \in [Calls -> Steps] /\ token' \subseteq Calls
           /\ answer' \in [Calls -> {"none", "invalid", "failure", "success"}]
           /\ code' \in [Calls -> {"none", "zero", "nonzero"}]
           /\ pc'[c] = s /\ \A d \in Calls : d # c => pc'[d] = pc[d]
    BY DEF TypeOK, Leave, Goto

LEMMA GotoType ==
    ASSUME TypeOK, NEW c \in Calls, NEW s \in Steps, Goto(c, s)
    PROVE  /\ pc' \in [Calls -> Steps]
           /\ pc'[c] = s /\ \A d \in Calls : d # c => pc'[d] = pc[d]
    BY DEF TypeOK, Goto

LEMMA ResultType ==
    ASSUME TypeOK, NEW c \in Calls, NEW s \in Outcomes, Result(c, s)
    PROVE  /\ pc' \in [Calls -> Steps] /\ outcome' \in [Calls -> Outcomes]
           /\ pc'[c] = "archive" /\ outcome'[c] = s
           /\ \A d \in Calls : d # c => pc'[d] = pc[d] /\ outcome'[d] = outcome[d]
    BY DEF TypeOK, Result, Goto, Steps

LEMMA UnlockType ==
    ASSUME TypeOK, NEW c \in Calls, Unlock(c)
    PROVE  lock' \in [Artifacts -> SUBSET Calls] /\ Holds(c)' = {}
    BY DEF TypeOK, Unlock, Holds

LEMMA EscapeType ==
    ASSUME TypeOK, NEW c \in Calls, Escape(c)
    PROVE  /\ pc' \in [Calls -> Steps] /\ token' \subseteq Calls
           /\ answer' \in [Calls -> {"none", "invalid", "failure", "success"}]
           /\ code' \in [Calls -> {"none", "zero", "nonzero"}]
           /\ pc'[c] = "raised" /\ \A d \in Calls : d # c => pc'[d] = pc[d]
           /\ faults' \in 0..MaxFaults
    <1>1. "raised" \in Steps
        BY DEF Steps, Over
    <1> QED  BY <1>1, LeaveType, FaultType DEF Escape

-----------------------------------------------------------------------------
(* From the request to the judgement *)

LEMMA Own ==
    ASSUME CommitInv, NEW c \in Calls
    PROVE  TypeOK /\ HoldInv(c) /\ PhaseInv(c) /\ OutputInv(c)
    BY DEF CommitInv

LEMMA StartStep ==
    ASSUME CommitInv, NEW c \in Calls, Reject(c) \/ Accept(c) \/ BeginAttempt(c) \/ Spawn(c)
    PROVE  CommitInv'
    <1>1. TypeOK /\ HoldInv(c) /\ PhaseInv(c) /\ OutputInv(c)
        BY Own
    <1>2. UNCHANGED <<store, output, lock, stop, unrolled>> /\ pc[c] \in Starting
        BY DEF Reject, Accept, BeginAttempt, Spawn, Starting
    <1>3. pc[c] \notin Committing
        BY <1>2 DEF Starting, Committing
    <1>4. CASE Reject(c)
        <2>1. "returned" \in Steps /\ Leave(c, "returned") /\ pc[c] = "idle"
            BY <1>4 DEF Reject, Steps, Over
        <2>2. PICK s \in {"cancelled", "failed"} : outcome' = [outcome EXCEPT ![c] = s]
            BY <1>4 DEF Reject
        <2>3. /\ UNCHANGED <<attempt, worker, faults>>
              /\ outcome' \in [Calls -> Outcomes] /\ outcome'[c] = s
            BY <1>1, <1>4, <2>2 DEF Reject, TypeOK, Outcomes
        <2>4. TypeOK' /\ Elsewhere(c) /\ pc'[c] = "returned"
            BY <1>1, <1>2, <2>1, <2>2, <2>3, LeaveType DEF TypeOK, Elsewhere
        <2>5. ASSUME Declared(c)' = Declared(c), Published(c)' = Published(c)
              PROVE  OwnInv(c)'
            BY <1>1, <1>2, <2>1, <2>2, <2>3, <2>4, <2>5
               DEF OwnInv, HoldInv, PhaseInv, OutputInv, Starting, Committing, Sealed, Ending, Over
        <2> QED  BY <1>2, <1>3, <2>4, <2>5, StillFrame
    <1>5. CASE Accept(c)
        <2>1. "begin" \in Steps /\ Goto(c, "begin") /\ pc[c] = "idle"
              /\ UNCHANGED <<token, attempt, worker, answer, code, outcome, faults>>
            BY <1>5 DEF Accept, Steps, workerVars
        <2>2. TypeOK' /\ Elsewhere(c) /\ pc'[c] = "begin"
            BY <1>1, <1>2, <2>1, GotoType DEF TypeOK, Elsewhere
        <2>3. ASSUME Declared(c)' = Declared(c), Published(c)' = Published(c)
              PROVE  OwnInv(c)'
            BY <1>1, <1>2, <2>1, <2>2, <2>3
               DEF OwnInv, HoldInv, PhaseInv, OutputInv, Starting, Committing, Sealed, Ending, Over
        <2> QED  BY <1>2, <1>3, <2>2, <2>3, StillFrame
    <1>6. CASE BeginAttempt(c)
        <2>1. UNCHANGED <<worker, outcome>> /\ pc[c] = "begin"
            BY <1>6 DEF BeginAttempt
        <2>2. TypeOK' /\ Elsewhere(c)
              /\ \/ pc'[c] = "spawn" /\ attempt'[c] = "attempts"
                 \/ pc'[c] = "raised"
            <3>1. CASE /\ attempt' = [attempt EXCEPT ![c] = "attempts"]
                       /\ Goto(c, "spawn") /\ UNCHANGED <<token, answer, code, faults>>
                <4>1. "spawn" \in Steps
                    BY DEF Steps
                <4> QED  BY <1>1, <1>2, <2>1, <3>1, <4>1, GotoType DEF TypeOK, Elsewhere
            <3>2. CASE attempt' \in {attempt, [attempt EXCEPT ![c] = "attempts"]} /\ Escape(c)
                <4>1. /\ attempt' \in [Calls -> {"none", "attempts", "completed", "failed"}]
                      /\ \A d \in Calls : d # c => attempt'[d] = attempt[d]
                    BY <1>1, <3>2 DEF TypeOK
                <4> QED  BY <1>1, <1>2, <2>1, <3>2, <4>1, EscapeType DEF TypeOK, Elsewhere
            <3> QED  BY <1>6, <3>1, <3>2 DEF BeginAttempt
        <2>3. ASSUME Declared(c)' = Declared(c), Published(c)' = Published(c)
              PROVE  OwnInv(c)'
            BY <1>1, <1>2, <2>1, <2>2, <2>3
               DEF OwnInv, HoldInv, PhaseInv, OutputInv, Starting, Committing, Sealed, Ending, Over
        <2> QED  BY <1>2, <1>3, <2>2, <2>3, StillFrame
    <1>7. CASE Spawn(c)
        <2>1. UNCHANGED <<attempt, token, answer, code>> /\ pc[c] = "spawn"
            BY <1>7 DEF Spawn
        <2>2. TypeOK' /\ Elsewhere(c)
              /\ \/ pc'[c] = "waiting" /\ UNCHANGED outcome
                 \/ pc'[c] = "archive" /\ outcome'[c] = "failed" /\ UNCHANGED worker
            <3>1. CASE worker' = [worker EXCEPT ![c] = "running"] /\ Goto(c, "waiting")
                       /\ UNCHANGED <<outcome, faults>>
                <4>1. "waiting" \in Steps
                    BY DEF Steps
                <4> QED  BY <1>1, <1>2, <2>1, <3>1, <4>1, GotoType DEF TypeOK, Elsewhere
            <3>2. CASE Fault /\ Result(c, "failed") /\ UNCHANGED worker
                <4>1. "failed" \in Outcomes
                    BY DEF Outcomes
                <4> QED  BY <1>1, <1>2, <2>1, <3>2, <4>1, ResultType, FaultType
                         DEF TypeOK, Elsewhere
            <3> QED  BY <1>7, <3>1, <3>2 DEF Spawn
        <2>3. ASSUME Declared(c)' = Declared(c), Published(c)' = Published(c)
              PROVE  OwnInv(c)'
            BY <1>1, <1>2, <2>1, <2>2, <2>3
               DEF OwnInv, HoldInv, PhaseInv, OutputInv, Starting, Committing, Sealed, Ending, Over
        <2> QED  BY <1>2, <1>3, <2>2, <2>3, StillFrame
    <1> QED  BY <1>4, <1>5, <1>6, <1>7

\* A call that waits: what became of its process decides what is known of it.
LEMMA WaitStep ==
    ASSUME CommitInv, NEW c \in Calls,
           ObserveExit(c) \/ Terminate(c) \/ \E r \in {"cancelled", "timeout"} : RequestStop(c, r)
    PROVE  CommitInv'
    <1>1. TypeOK /\ HoldInv(c) /\ PhaseInv(c) /\ OutputInv(c)
        BY Own
    <1>2. /\ UNCHANGED <<store, output, lock, unrolled, attempt, token, answer>>
          /\ pc[c] = "waiting" /\ pc[c] \notin Committing
        BY DEF ObserveExit, Terminate, RequestStop, Committing, workerVars
    <1>3. Published(c) = {} /\ unrolled[c] = {} /\ outcome[c] = "none" /\ attempt[c] = "attempts"
        BY <1>1, <1>2 DEF OutputInv, PhaseInv, Ending, Over, TypeOK
    <1>4. TypeOK' /\ Elsewhere(c)
          /\ \/ pc'[c] = "ended" /\ outcome'[c] = "none" /\ worker'[c] = "exited"
             \/ pc'[c] = "waiting" /\ outcome'[c] = "none"
             \/ pc'[c] = "archive" /\ outcome'[c] = "failed"
        <2>1. CASE ObserveExit(c)
            <3>1. /\ Goto(c, "ended") /\ worker[c] = "exited" /\ "ended" \in Steps
                  /\ UNCHANGED <<stop, worker, code, outcome, faults>>
                BY <2>1 DEF ObserveExit, workerVars, Steps
            <3> QED  BY <1>1, <1>2, <1>3, <3>1, GotoType DEF TypeOK, Elsewhere
        <2>2. CASE Terminate(c)
            <3>1. /\ Goto(c, "ended") /\ "ended" \in Steps
                  /\ worker' = [worker EXCEPT ![c] = "exited"]
                  /\ code' = [code EXCEPT ![c] = "nonzero"]
                  /\ UNCHANGED <<stop, outcome, faults>>
                BY <2>2 DEF Terminate, Steps
            <3> QED  BY <1>1, <1>2, <1>3, <3>1, GotoType DEF TypeOK, Elsewhere
        <2>3. ASSUME NEW r \in {"cancelled", "timeout"}, RequestStop(c, r)
              PROVE  TypeOK' /\ Elsewhere(c)
                     /\ \/ pc'[c] = "waiting" /\ outcome'[c] = "none"
                        \/ pc'[c] = "archive" /\ outcome'[c] = "failed"
            <3>1. stop' = [stop EXCEPT ![c] = r] /\ UNCHANGED <<worker, code>>
                BY <2>3 DEF RequestStop, workerVars
            <3>2. CASE UNCHANGED <<pc, outcome, faults>>
                BY <1>1, <1>2, <1>3, <3>1, <3>2 DEF TypeOK, Elsewhere
            <3>3. CASE Fault /\ Result(c, "failed")
                <4>1. "failed" \in Outcomes
                    BY DEF Outcomes
                <4> QED  BY <1>1, <1>2, <3>1, <3>3, <4>1, ResultType, FaultType
                         DEF TypeOK, Elsewhere
            <3> QED  BY <2>3, <3>2, <3>3 DEF RequestStop
        <2> QED  BY <2>1, <2>2, <2>3
    <1>5. ASSUME Declared(c)' = Declared(c), Published(c)' = Published(c)
          PROVE  OwnInv(c)'
        BY <1>1, <1>2, <1>3, <1>4, <1>5
           DEF OwnInv, HoldInv, PhaseInv, OutputInv, Starting, Committing, Sealed, Ending, Over
    <1> QED  BY <1>2, <1>4, <1>5, StillFrame

\* Only a call nobody has stopped goes on to its commit.
LEMMA JudgeStep ==
    ASSUME CommitInv, NEW c \in Calls, Judge(c)
    PROVE  CommitInv'
    <1>1. TypeOK /\ HoldInv(c) /\ PhaseInv(c) /\ OutputInv(c)
        BY Own
    <1>2. /\ UNCHANGED <<token, stop, attempt, worker, answer, code, output, store, lock, unrolled,
                         faults>>
          /\ pc[c] = "ended" /\ pc[c] \notin Committing
        BY DEF Judge, Committing, workerVars
    <1>3. /\ Published(c) = {} /\ unrolled[c] = {} /\ outcome[c] = "none"
          /\ attempt[c] = "attempts" /\ worker[c] = "exited" /\ Holds(c) = {}
        <2>1. Holds(c) = {}
            BY <1>2 DEF CommitInv, LockInv, Holds
        <2> QED  BY <1>1, <1>2, <2>1 DEF OutputInv, PhaseInv, Ending, Over, TypeOK
    <1>4. TypeOK' /\ Elsewhere(c)
          /\ \/ pc'[c] = "archive" /\ outcome'[c] \in {"failed", "cancelled"}
             \/ pc'[c] = "locking" /\ outcome'[c] = "none" /\ stop[c] = "none"
        <2>1. ASSUME NEW s \in {"failed", "cancelled"}, Result(c, s)
              PROVE  TypeOK' /\ Elsewhere(c) /\ pc'[c] = "archive" /\ outcome'[c] = s
            <3>1. s \in Outcomes
                BY DEF Outcomes
            <3> QED  BY <1>1, <1>2, <2>1, <3>1, ResultType DEF TypeOK, Elsewhere
        <2>2. CASE stop[c] = "none" /\ Goto(c, "locking") /\ UNCHANGED outcome
            <3>1. "locking" \in Steps
                BY DEF Steps, Committing
            <3> QED  BY <1>1, <1>2, <1>3, <2>2, <3>1, GotoType DEF TypeOK, Elsewhere
        <2> QED  BY <2>1, <2>2 DEF Judge
    <1>5. Holds(c)' = {}
        BY <1>2, <1>3 DEF Holds
    <1>6. ASSUME Declared(c)' = Declared(c), Published(c)' = Published(c)
          PROVE  OwnInv(c)'
        BY <1>1, <1>2, <1>3, <1>4, <1>5, <1>6
           DEF OwnInv, HoldInv, PhaseInv, OutputInv, Starting, Committing, Sealed, Ending, Over
    <1> QED  BY <1>2, <1>4, <1>6, StillFrame

-----------------------------------------------------------------------------
(* The commit *)

\* A commit that ends with a result gives every lock back.
LEMMA GiveUpStep ==
    ASSUME CommitInv, NEW c \in Calls, pc[c] \in Committing,
           NEW s \in {"failed", "succeeded"}, Unlock(c), Result(c, s),
           UNCHANGED <<token, stop, attempt, workerVars, output, store, unrolled, faults>>,
           IF s = "succeeded" THEN Declared(c) # {} /\ Published(c) = Declared(c)
                              ELSE Published(c) = unrolled[c]
    PROVE  CommitInv'
    <1>1. TypeOK /\ HoldInv(c) /\ PhaseInv(c) /\ OutputInv(c)
        BY Own
    <1>2. TypeOK' /\ Elsewhere(c) /\ pc'[c] = "archive" /\ outcome'[c] = s /\ Holds(c)' = {}
        <2>1. s \in Outcomes
            BY DEF Outcomes
        <2> QED  BY <1>1, <2>1, ResultType, UnlockType DEF TypeOK, Elsewhere, workerVars
    <1>3. ASSUME Declared(c)' = Declared(c), Published(c)' = Published(c)
          PROVE  OwnInv(c)'
        BY <1>1, <1>2, <1>3
           DEF OwnInv, HoldInv, PhaseInv, OutputInv, Starting, Committing, Sealed, Ending, Over
    <1> QED  BY <1>2, <1>3, StillFrame

\* One that ends with an exception, or dies with its process, does so too.
LEMMA DropStep ==
    ASSUME CommitInv, NEW c \in Calls, NEW s \in {"raised", "crashed"},
           Unlock(c), Fault, Leave(c, s),
           UNCHANGED <<stop, attempt, worker, output, store, unrolled, outcome>>
    PROVE  CommitInv'
    <1>1. TypeOK /\ HoldInv(c) /\ PhaseInv(c) /\ OutputInv(c)
        BY Own
    <1>2. TypeOK' /\ Elsewhere(c) /\ pc'[c] = s /\ Holds(c)' = {}
        <2>1. s \in Steps
            BY DEF Steps, Over
        <2> QED  BY <1>1, <2>1, LeaveType, FaultType, UnlockType DEF TypeOK, Elsewhere
    <1>3. ASSUME Declared(c)' = Declared(c), Published(c)' = Published(c)
          PROVE  OwnInv(c)'
        BY <1>1, <1>2, <1>3
           DEF OwnInv, HoldInv, PhaseInv, OutputInv, Starting, Committing, Sealed, Ending, Over
    <1> QED  BY <1>2, <1>3, StillFrame

LEMMA LockStep ==
    ASSUME CommitInv, NEW c \in Calls, Lock(c)
    PROVE  CommitInv'
    <1> DEFINE missing == Declared(c) \ Holds(c)
    <1>1. TypeOK /\ HoldInv(c) /\ PhaseInv(c) /\ OutputInv(c)
        BY Own
    <1>2. /\ UNCHANGED <<stop, attempt, worker, output, store, unrolled>>
          /\ pc[c] = "locking" /\ pc[c] \in Committing
          /\ Holds(c) \subseteq Declared(c) /\ Published(c) = {} /\ unrolled[c] = {}
          /\ outcome[c] = "none"
        BY <1>1 DEF Lock, Committing, HoldInv, OutputInv, PhaseInv, Ending, Over, TypeOK
    <1>3. CASE missing = {} /\ Goto(c, "validating")
               /\ UNCHANGED <<token, answer, code, lock, outcome, faults>>
        <2>1. TypeOK' /\ Elsewhere(c) /\ pc'[c] = "validating" /\ pc'[c] \in Committing
            <3>1. "validating" \in Steps /\ "validating" \in Committing
                BY DEF Steps, Committing
            <3> QED  BY <1>1, <1>2, <1>3, <3>1, GotoType DEF TypeOK, Elsewhere
        <2>2. Holds(c)' = Declared(c)
            BY <1>2, <1>3 DEF Holds
        <2>3. ASSUME Declared(c)' = Declared(c), Published(c)' = Published(c)
              PROVE  OwnInv(c)'
            BY <1>1, <1>2, <1>3, <2>1, <2>2, <2>3
               DEF OwnInv, HoldInv, PhaseInv, OutputInv, Starting, Committing, Sealed, Ending, Over
        <2> QED  BY <1>2, <1>3, <2>1, <2>3, StillFrame
    <1>4. ASSUME NEW a \in missing, lock[a] = {}, lock' = [lock EXCEPT ![a] = {c}],
                 UNCHANGED <<pc, outcome, token, answer, code, faults>>
          PROVE  CommitInv'
        <2>1. a \in Artifacts /\ a \in Declared(c)
            BY DEF Declared
        <2>2. TypeOK' /\ Elsewhere(c) /\ pc'[c] = "locking" /\ pc'[c] \in Committing /\ Takes(c)
            BY <1>1, <1>2, <1>4, <2>1 DEF TypeOK, Elsewhere, Takes
        <2>3. Holds(c)' = Holds(c) \cup {a}
            BY <1>1, <1>4, <2>1 DEF Holds, TypeOK
        <2>4. ASSUME Declared(c)' = Declared(c), Published(c)' = Published(c)
              PROVE  OwnInv(c)'
            BY <1>1, <1>2, <1>4, <2>1, <2>2, <2>3, <2>4
               DEF OwnInv, HoldInv, PhaseInv, OutputInv, Starting, Committing, Sealed, Ending, Over
        <2> QED  BY <1>2, <2>2, <2>4, StillFrame
    <1>5. CASE Unlock(c) /\ Result(c, "failed") /\ UNCHANGED <<token, answer, code, faults>>
        BY <1>2, <1>5, GiveUpStep DEF workerVars
    <1>6. CASE Escape(c) /\ Unlock(c) /\ UNCHANGED outcome
        BY <1>2, <1>6, DropStep DEF Escape
    <1> QED  BY <1>3, <1>4, <1>5, <1>6 DEF Lock

LEMMA ValidateStep ==
    ASSUME CommitInv, NEW c \in Calls, Validate(c)
    PROVE  CommitInv'
    <1>1. TypeOK /\ HoldInv(c) /\ PhaseInv(c) /\ OutputInv(c)
        BY Own
    <1>2. /\ UNCHANGED <<stop, attempt, worker, output, store, unrolled>>
          /\ pc[c] = "validating" /\ pc[c] \in Committing
          /\ Holds(c) = Declared(c) /\ Published(c) = {} /\ unrolled[c] = {}
          /\ outcome[c] = "none"
        BY <1>1 DEF Validate, Committing, HoldInv, OutputInv, PhaseInv, Ending, Over, TypeOK
    <1>3. CASE /\ Declared(c) # {} /\ \A a \in Declared(c) : output[c][a] = "good"
               /\ Goto(c, "sealing")
               /\ UNCHANGED <<token, answer, code, lock, outcome, faults>>
        <2>1. TypeOK' /\ Elsewhere(c) /\ pc'[c] = "sealing" /\ pc'[c] \in Committing
            <3>1. "sealing" \in Steps /\ "sealing" \in Committing
                BY DEF Steps, Committing
            <3> QED  BY <1>1, <1>2, <1>3, <3>1, GotoType DEF TypeOK, Elsewhere
        <2>2. Holds(c)' = Declared(c)
            BY <1>2, <1>3 DEF Holds
        <2>3. ASSUME Declared(c)' = Declared(c), Published(c)' = Published(c)
              PROVE  OwnInv(c)'
            BY <1>1, <1>2, <1>3, <2>1, <2>2, <2>3
               DEF OwnInv, HoldInv, PhaseInv, OutputInv, Starting, Committing, Sealed, Ending, Over
        <2> QED  BY <1>2, <1>3, <2>1, <2>3, StillFrame
    <1>4. CASE Unlock(c) /\ Result(c, "failed") /\ UNCHANGED <<token, answer, code, faults>>
        BY <1>2, <1>4, GiveUpStep DEF workerVars
    <1>5. CASE Escape(c) /\ Unlock(c) /\ UNCHANGED outcome
        BY <1>2, <1>5, DropStep DEF Escape
    <1> QED  BY <1>3, <1>4, <1>5 DEF Validate

\* A step from one phase of a sealed commit to the next.
LEMMA PhaseStep ==
    ASSUME CommitInv, NEW c \in Calls, pc[c] \in Sealed, NEW s \in {"publishing", "rolling"},
           Goto(c, s), s = "publishing" => pc[c] = "sealing", faults' \in 0..MaxFaults,
           UNCHANGED <<token, stop, attempt, workerVars, output, store, lock, unrolled, outcome>>
    PROVE  CommitInv'
    <1>1. TypeOK /\ HoldInv(c) /\ PhaseInv(c) /\ OutputInv(c)
        BY Own
    <1>2. TypeOK' /\ Elsewhere(c) /\ pc'[c] = s /\ pc'[c] \in Committing
        <2>1. s \in Steps /\ s \in Committing
            BY DEF Steps, Committing
        <2> QED  BY <1>1, <2>1, GotoType DEF TypeOK, Elsewhere, workerVars
    <1>3. Holds(c)' = Holds(c)
        BY DEF Holds
    <1>4. ASSUME Declared(c)' = Declared(c), Published(c)' = Published(c)
          PROVE  OwnInv(c)'
        BY <1>1, <1>2, <1>3, <1>4
           DEF OwnInv, HoldInv, PhaseInv, OutputInv, Starting, Committing, Sealed, Ending, Over,
               workerVars
    <1> QED  BY <1>2, <1>4, StillFrame

LEMMA SealStep ==
    ASSUME CommitInv, NEW c \in Calls, Seal(c)
    PROVE  CommitInv'
    <1>1. pc[c] \in Sealed /\ TypeOK
        BY DEF Seal, Sealed, CommitInv
    <1>2. CASE Goto(c, "publishing") /\ UNCHANGED faults
        BY <1>1, <1>2, PhaseStep DEF Seal, TypeOK
    <1>3. CASE Fault /\ Goto(c, "rolling")
        BY <1>1, <1>3, PhaseStep, FaultType DEF Seal
    <1> QED  BY <1>2, <1>3 DEF Seal

LEMMA PublishStep ==
    ASSUME CommitInv, NEW c \in Calls, NEW a \in Artifacts, Publish(c, a)
    PROVE  CommitInv'
    <1>1. TypeOK /\ HoldInv(c) /\ PhaseInv(c) /\ OutputInv(c)
        BY Own
    <1>2. pc[c] = "publishing" /\ pc[c] \in Sealed /\ pc[c] \in Committing /\ output[c][a] = "good"
        BY DEF Publish, Sealed, Committing
    <1>3. CASE Goto(c, "rolling") /\ UNCHANGED <<output, store>> /\ (UNCHANGED faults \/ Fault)
        BY <1>1, <1>2, <1>3, PhaseStep, FaultType DEF Publish, TypeOK
    <1>4. CASE /\ store[a] = None
               /\ output' = [output EXCEPT ![c][a] = "moved"]
               /\ store' = [store EXCEPT ![a] = c]
               /\ UNCHANGED <<pc, faults>>
        <2>1. UNCHANGED <<pc, token, stop, attempt, worker, answer, code, lock, unrolled, outcome,
                          faults>>
            BY <1>4 DEF Publish, workerVars
        <2>2. /\ output' \in [Calls -> [Artifacts -> Outputs]]
              /\ store' \in [Artifacts -> Calls \cup {None}]
              /\ \A b \in Artifacts, d \in Calls :
                     output'[d][b] = IF d = c /\ b = a THEN "moved" ELSE output[d][b]
              /\ \A b \in Artifacts : store'[b] = IF b = a THEN c ELSE store[b]
              /\ \A d \in Calls : d # c => output'[d] = output[d]
            BY <1>1, <1>4 DEF TypeOK, Outputs
        <2>3. TypeOK' /\ Elsewhere(c)
            BY <1>1, <2>1, <2>2 DEF TypeOK, Elsewhere
        <2>4. StoreInv'
            <3>1. ASSUME NEW b \in Artifacts, NEW d \in Calls
                  PROVE  store'[b] = d <=> output'[d][b] = "moved"
                BY <1>2, <1>4, <2>2, NoneAssumption DEF CommitInv, StoreInv
            <3> QED  BY <3>1 DEF StoreInv
        <2>5. Declared(c)' = Declared(c) /\ Published(c)' = Published(c) \cup {a}
            BY <1>2, <2>2 DEF Declared, Published
        <2>6. OwnInv(c)'
            <3>1. HoldInv(c)'
                BY <1>1, <1>2, <2>1, <2>2, <2>5 DEF HoldInv, Holds, Sealed, Declared
            <3>2. PhaseInv(c)'
                BY <1>1, <2>1 DEF PhaseInv
            <3>3. OutputInv(c)'
                BY <1>1, <1>2, <2>1, <2>5 DEF OutputInv, PhaseInv, Committing, Ending, Over
            <3> QED  BY <3>1, <3>2, <3>3 DEF OwnInv
        <2> QED  BY <1>2, <2>1, <2>3, <2>4, <2>6, Frame
    <1> QED  BY <1>3, <1>4 DEF Publish

LEMMA CommittedStep ==
    ASSUME CommitInv, NEW c \in Calls, Committed(c)
    PROVE  CommitInv'
    <1>1. Declared(c) # {}
        BY Own DEF HoldInv, Committed, Sealed
    <1> QED  BY <1>1, GiveUpStep DEF Committed, Committing

LEMMA RollbackStep ==
    ASSUME CommitInv, NEW c \in Calls, Rollback(c)
    PROVE  CommitInv'
    <1>1. TypeOK /\ HoldInv(c) /\ PhaseInv(c) /\ OutputInv(c)
        BY Own
    <1>2. /\ pc[c] = "rolling" /\ pc[c] \in Sealed /\ pc[c] \in Committing
          /\ UNCHANGED <<token, stop, attempt, worker, answer, code>>
        BY DEF Rollback, Sealed, Committing, workerVars
    <1>3. CASE /\ Published(c) = unrolled[c]
               /\ Unlock(c) /\ Result(c, "failed")
               /\ UNCHANGED <<output, store, unrolled, faults>>
        BY <1>2, <1>3, GiveUpStep DEF workerVars
    <1>4. ASSUME NEW a \in Published(c) \ unrolled[c],
                 output' = [output EXCEPT ![c][a] = "good"], store' = [store EXCEPT ![a] = None],
                 UNCHANGED <<unrolled, faults, pc, lock, outcome>>
          PROVE  CommitInv'
        <2>1. a \in Artifacts /\ output[c][a] = "moved" /\ store[a] = c
            BY DEF Published, CommitInv, StoreInv
        <2>2. /\ output' \in [Calls -> [Artifacts -> Outputs]]
              /\ store' \in [Artifacts -> Calls \cup {None}]
              /\ \A b \in Artifacts, d \in Calls :
                     output'[d][b] = IF d = c /\ b = a THEN "good" ELSE output[d][b]
              /\ \A b \in Artifacts : store'[b] = IF b = a THEN None ELSE store[b]
              /\ \A d \in Calls : d # c => output'[d] = output[d]
            BY <1>1, <1>4, <2>1 DEF TypeOK, Outputs
        <2>3. TypeOK' /\ Elsewhere(c)
            BY <1>1, <1>2, <1>4, <2>2 DEF TypeOK, Elsewhere
        <2>4. StoreInv'
            <3>1. ASSUME NEW b \in Artifacts, NEW d \in Calls
                  PROVE  store'[b] = d <=> output'[d][b] = "moved"
                BY <2>1, <2>2, NoneAssumption DEF CommitInv, StoreInv
            <3> QED  BY <3>1 DEF StoreInv
        <2>5. Declared(c)' = Declared(c) /\ Published(c)' = Published(c) \ {a}
            BY <2>1, <2>2 DEF Declared, Published
        <2>6. OwnInv(c)'
            <3>1. HoldInv(c)'
                BY <1>1, <1>2, <1>4, <2>2, <2>5 DEF HoldInv, Holds, Sealed, Declared
            <3>2. PhaseInv(c)'
                BY <1>1, <1>2, <1>4 DEF PhaseInv
            <3>3. OutputInv(c)'
                BY <1>1, <1>2, <1>4, <2>5 DEF OutputInv, PhaseInv, Committing, Ending, Over
            <3> QED  BY <3>1, <3>2, <3>3 DEF OwnInv
        <2> QED  BY <1>2, <1>4, <2>3, <2>4, <2>6, Frame
    <1>5. ASSUME NEW a \in Published(c) \ unrolled[c], Fault,
                 unrolled' = [unrolled EXCEPT ![c] = unrolled[c] \cup {a}],
                 UNCHANGED <<output, store, pc, lock, outcome>>
          PROVE  CommitInv'
        <2>1. a \in Artifacts
            BY DEF Published
        <2>2. TypeOK' /\ Elsewhere(c) /\ unrolled'[c] = unrolled[c] \cup {a}
            BY <1>1, <1>2, <1>5, <2>1, FaultType DEF TypeOK, Elsewhere
        <2>3. ASSUME Declared(c)' = Declared(c), Published(c)' = Published(c)
              PROVE  OwnInv(c)'
            <3>1. Holds(c)' = Holds(c)
                BY <1>5 DEF Holds
            <3> QED  BY <1>1, <1>2, <1>5, <2>2, <2>3, <3>1
                     DEF OwnInv, HoldInv, PhaseInv, OutputInv, Sealed, Ending, Over
        <2> QED  BY <1>2, <1>5, <2>2, <2>3, StillFrame
    <1> QED  BY <1>3, <1>4, <1>5 DEF Rollback

-----------------------------------------------------------------------------
(* The end of a call, the user and the worker *)

LEMMA ArchiveStep ==
    ASSUME CommitInv, NEW c \in Calls, Archive(c)
    PROVE  CommitInv'
    <1>1. TypeOK /\ HoldInv(c) /\ PhaseInv(c) /\ OutputInv(c)
        BY Own
    <1>2. /\ UNCHANGED <<stop, worker, output, store, lock, unrolled, outcome>>
          /\ pc[c] = "archive" /\ pc[c] \notin Committing /\ Leave(c, "returned")
          /\ attempt[c] = "attempts"
        BY <1>1 DEF Archive, Committing, PhaseInv, Over
    <1>3. /\ attempt' \in [Calls -> {"none", "attempts", "completed", "failed"}]
          /\ \A d \in Calls : d # c => attempt'[d] = attempt[d]
          /\ attempt'[c] = "completed" => outcome[c] = "succeeded"
          /\ outcome[c] = "succeeded" => attempt'[c] \in {"attempts", "completed"}
          /\ faults' \in 0..MaxFaults
        BY <1>1, <1>2, FaultType DEF Archive, TypeOK
    <1>4. TypeOK' /\ Elsewhere(c) /\ pc'[c] = "returned"
        <2>1. "returned" \in Steps
            BY DEF Steps, Over
        <2> QED  BY <1>1, <1>2, <1>3, <2>1, LeaveType DEF TypeOK, Elsewhere
    <1>5. ASSUME Declared(c)' = Declared(c), Published(c)' = Published(c)
          PROVE  OwnInv(c)'
        BY <1>1, <1>2, <1>3, <1>4, <1>5
           DEF OwnInv, HoldInv, PhaseInv, OutputInv, Starting, Committing, Sealed, Ending, Over
    <1> QED  BY <1>2, <1>4, <1>5, StillFrame

LEMMA CrashStep ==
    ASSUME CommitInv, NEW c \in Calls, Crash(c)
    PROVE  CommitInv'
    BY DropStep DEF Crash

LEMMA CancelStep ==
    ASSUME CommitInv, NEW c \in Calls, Cancel(c)
    PROVE  CommitInv'
    <1>1. UNCHANGED <<pc, stop, attempt, store, lock, unrolled, outcome, faults, worker, answer,
                      code, output>>
        BY DEF Cancel, hostVars, workerVars
    <1>2. TypeOK' /\ Elsewhere(c) /\ pc[c] \notin Committing
        BY <1>1 DEF CommitInv, TypeOK, Elsewhere, Cancel, Committing
    <1>3. Holds(c)' = Holds(c)
        BY <1>1 DEF Holds
    <1>4. ASSUME Declared(c)' = Declared(c), Published(c)' = Published(c)
          PROVE  OwnInv(c)'
        BY <1>1, <1>3, <1>4, Own DEF OwnInv, HoldInv, PhaseInv, OutputInv
    <1> QED  BY <1>1, <1>2, <1>4, StillFrame

\* The outputs of a worker that answers late or never are in nobody's way.
LEMMA AnswerStep ==
    ASSUME CommitInv, NEW c \in Calls, WorkerAnswers(c)
    PROVE  CommitInv'
    <1>1. TypeOK /\ HoldInv(c) /\ PhaseInv(c) /\ OutputInv(c)
        BY Own
    <1>2. /\ UNCHANGED <<pc, stop, attempt, store, lock, unrolled, outcome, faults, worker, token,
                          code>>
          /\ pc[c] = "waiting" /\ pc[c] \notin Committing /\ Published(c) = {} /\ unrolled[c] = {}
        BY <1>1 DEF WorkerAnswers, hostVars, Committing, OutputInv, Ending, Over
    <1>3. /\ output' \in [Calls -> [Artifacts -> Outputs]]
          /\ \A d \in Calls : d # c => output'[d] = output[d]
          /\ \A a \in Artifacts : output'[c][a] # "moved"
          /\ answer' \in [Calls -> {"none", "invalid", "failure", "success"}]
        <2>1. CASE UNCHANGED output
                   /\ \E r \in {"invalid", "failure"} : answer' = [answer EXCEPT ![c] = r]
            BY <1>1, <1>2, <2>1 DEF TypeOK, Published
        <2>2. ASSUME NEW o \in [Artifacts -> {"none", "good", "bad"}],
                     output' = [output EXCEPT ![c] = o], answer' = [answer EXCEPT ![c] = "success"]
              PROVE  /\ output' \in [Calls -> [Artifacts -> Outputs]]
                     /\ \A d \in Calls : d # c => output'[d] = output[d]
                     /\ \A a \in Artifacts : output'[c][a] # "moved"
                     /\ answer' \in [Calls -> {"none", "invalid", "failure", "success"}]
            <3>1. o \in [Artifacts -> Outputs] /\ \A a \in Artifacts : o[a] # "moved"
                BY DEF Outputs
            <3> QED  BY <1>1, <2>2, <3>1 DEF TypeOK
        <2> QED  BY <2>1, <2>2 DEF WorkerAnswers
    <1>4. TypeOK' /\ Elsewhere(c)
        BY <1>1, <1>2, <1>3 DEF TypeOK, Elsewhere
    <1>5. StoreInv'
        <2>1. ASSUME NEW a \in Artifacts, NEW d \in Calls
              PROVE  store'[a] = d <=> output'[d][a] = "moved"
            BY <1>2, <1>3 DEF CommitInv, StoreInv, Published
        <2> QED  BY <2>1 DEF StoreInv
    <1>6. Published(c)' = {}
        BY <1>3 DEF Published
    <1>7. OwnInv(c)'
        BY <1>1, <1>2, <1>6
           DEF OwnInv, HoldInv, PhaseInv, OutputInv, Committing, Sealed, Ending, Over
    <1> QED  BY <1>2, <1>4, <1>5, <1>7, Frame

\* A worker may outlive its call.
LEMMA ExitStep ==
    ASSUME CommitInv, NEW c \in Calls, WorkerExits(c)
    PROVE  CommitInv'
    <1>1. TypeOK /\ HoldInv(c) /\ PhaseInv(c) /\ OutputInv(c)
        BY Own
    <1>2. /\ UNCHANGED <<pc, stop, attempt, store, lock, unrolled, outcome, faults, output, token,
                          answer>>
          /\ worker[c] = "running" /\ worker' = [worker EXCEPT ![c] = "exited"]
        BY DEF WorkerExits, hostVars
    <1>3. TypeOK' /\ Elsewhere(c) /\ worker'[c] = "exited"
        <2>1. code' \in [Calls -> {"none", "zero", "nonzero"}]
            BY <1>1 DEF WorkerExits, TypeOK
        <2> QED  BY <1>1, <1>2, <2>1 DEF TypeOK, Elsewhere
    <1>4. pc[c] \notin Committing
        BY <1>1, <1>2 DEF PhaseInv
    <1>5. ASSUME Declared(c)' = Declared(c), Published(c)' = Published(c)
          PROVE  OwnInv(c)'
        <2>1. Holds(c)' = Holds(c)
            BY <1>2 DEF Holds
        <2> QED  BY <1>1, <1>2, <1>3, <1>5, <2>1 DEF OwnInv, HoldInv, PhaseInv, OutputInv
    <1> QED  BY <1>2, <1>3, <1>4, <1>5, StillFrame

-----------------------------------------------------------------------------
(* The theorems *)

LEMMA InitInv ==
    ASSUME Init
    PROVE  CommitInv
    <1>1. TypeOK
        BY FaultsAssumption DEF Init, TypeOK, Steps, Outputs, Outcomes
    <1>2. StoreInv /\ LockInv
        BY NoneAssumption DEF Init, StoreInv, LockInv
    <1>3. ASSUME NEW c \in Calls
          PROVE  HoldInv(c) /\ PhaseInv(c) /\ OutputInv(c)
        <2>1. Published(c) = {}
            BY DEF Init, Published
        <2> QED  BY <2>1
                 DEF Init, HoldInv, PhaseInv, OutputInv, Starting, Committing, Sealed, Ending, Over
    <1> QED  BY <1>1, <1>2, <1>3 DEF CommitInv

LEMMA StepInv ==
    ASSUME CommitInv, [Next]_vars
    PROVE  CommitInv'
    <1>1. CASE UNCHANGED vars
        BY <1>1 DEF vars, CommitInv, TypeOK, StoreInv, LockInv, HoldInv, PhaseInv, OutputInv,
                    Holds, Declared, Published
    <1>2. ASSUME NEW c \in Calls, Commit(c)
          PROVE  CommitInv'
        BY <1>2, LockStep, ValidateStep, SealStep, CommittedStep, RollbackStep, PublishStep
           DEF Commit
    <1>3. ASSUME NEW c \in Calls, Host(c)
          PROVE  CommitInv'
        BY <1>2, <1>3, StartStep, WaitStep, JudgeStep, ArchiveStep DEF Host, Waiting
    <1>4. ASSUME NEW c \in Calls,
                 \/ Reject(c) \/ Accept(c) \/ Crash(c) \/ Cancel(c)
                 \/ WorkerAnswers(c) \/ WorkerExits(c)
          PROVE  CommitInv'
        BY <1>4, StartStep, CrashStep, CancelStep, AnswerStep, ExitStep
    <1> QED  BY <1>1, <1>3, <1>4 DEF Next

\* The store and the calls agree on what is published, a commit lock has one
\* holder, and only a commit that nobody has stopped publishes
\* (store.py:236-320, runner.py:238-312).
THEOREM CommitCorrect == Spec => []CommitInv
    BY InitInv, StepInv, PTL DEF Spec

\* A call that was stopped publishes nothing, and one that reports
\* "cancelled" leaves no process behind (runner.py:238-253, 364-402).
THEOREM StoppedNothing == Spec => []StoppedPublishesNothing
    <1>1. CommitInv => StoppedPublishesNothing
        BY DEF CommitInv, OutputInv, StoppedPublishesNothing
    <1> QED  BY <1>1, CommitCorrect, PTL

\* A commit publishes all of its artifacts or none but those whose rollback
\* failed (store.py:236-296).
THEOREM AllOrNone == Spec => []AllOrNothing
    <1>1. ASSUME CommitInv, NEW c \in Calls, pc[c] = "returned"
          PROVE  IF outcome[c] = "succeeded"
                 THEN /\ Declared(c) # {} /\ \A a \in Declared(c) : store[a] = c
                      /\ attempt[c] \in {"attempts", "completed"}
                 ELSE /\ {a \in Artifacts : store[a] = c} = unrolled[c]
                      /\ attempt[c] # "completed"
        <2>1. {a \in Artifacts : store[a] = c} = Published(c)
            BY <1>1 DEF CommitInv, StoreInv, Published
        <2>2. OutputInv(c)
            BY <1>1 DEF CommitInv
        <2> QED  BY <1>1, <2>1, <2>2 DEF OutputInv
    <1>2. CommitInv => AllOrNothing
        BY <1>1 DEF AllOrNothing
    <1> QED  BY <1>2, CommitCorrect, PTL

\* What a successful call has published stays (store.py:261-296).
THEOREM Stays == Spec => PublishedStays
    <1> DEFINE Stay == \A a \in Artifacts, c \in Calls :
                          store[a] = c /\ outcome[c] = "succeeded" => store'[a] = c
    <1>1. ASSUME CommitInv, Next, NEW a \in Artifacts, NEW c \in Calls,
                 store[a] = c, outcome[c] = "succeeded"
          PROVE  store'[a] = c
        <2>1. \/ UNCHANGED store
              \/ \E d \in Calls : Rollback(d) \/ \E b \in Artifacts : Publish(d, b)
            BY <1>1
               DEF Next, Host, Waiting, Commit, Reject, Accept, BeginAttempt, Spawn, ObserveExit,
                   RequestStop, Terminate, Judge, Lock, Validate, Seal, Committed, Archive, Crash,
                   Cancel, WorkerAnswers, WorkerExits, hostVars
        <2>2. store \in [Artifacts -> Calls \cup {None}]
            BY <1>1 DEF CommitInv, TypeOK
        <2>3. ASSUME NEW d \in Calls, NEW b \in Artifacts, Publish(d, b)
              PROVE  store'[a] = c
            BY <1>1, <2>2, <2>3, NoneAssumption DEF Publish
        <2>4. ASSUME NEW d \in Calls, Rollback(d)
              PROVE  store'[a] = c
            <3>1. d # c
                BY <1>1, <2>4 DEF CommitInv, PhaseInv, Rollback, Ending, Over
            <3>2. \A b \in Published(d) : store[b] = d
                BY <1>1 DEF CommitInv, StoreInv, Published
            <3> QED  BY <1>1, <2>2, <2>4, <3>1, <3>2 DEF Rollback
        <2> QED  BY <1>1, <2>1, <2>3, <2>4
    <1>2. CommitInv /\ [Next]_vars => [Stay]_vars
        BY <1>1 DEF vars
    <1>3. Spec => [][Stay]_vars
        BY <1>2, CommitCorrect, PTL DEF Spec
    <1> QED  BY <1>3 DEF PublishedStays

=============================================================================
