------------------------------ MODULE WorkerRun ------------------------------
(***************************************************************************)
(* Calls of SubprocessWorkerRunner.run (packages/pipeline/runner.py) that  *)
(* share one ArtifactStore (packages/artifact_store/store.py).             *)
(*                                                                         *)
(* A call starts a worker process in an attempt directory of its own,      *)
(* polls it, stops it when the user cancels or its time is up, and judges  *)
(* its answer.  The outputs of a good answer are published one rename at a *)
(* time under per-artifact locks, with a rollback when one of them fails.  *)
(* Whatever happened, the attempt directory is archived at the end.        *)
(*                                                                         *)
(* Abstractions: time is the freedom to be late; hashes, sizes and file    *)
(* sets of an output are whether it matches its manifest; a worker that    *)
(* ignores its cancellation file and one that obeys are the same process,  *)
(* which may exit at any moment or never.                                  *)
(***************************************************************************)
EXTENDS Naturals

CONSTANTS
    Calls,       \* calls of run, concurrent or one after the other
    Artifacts,   \* artifact identifiers, numbered in the order of sorted()
    None,        \* no call
    MaxFaults    \* bound: failing file operations and crashes together

ASSUME ArtifactsAssumption == Artifacts \subseteq Nat
ASSUME NoneAssumption == None \notin Calls
ASSUME FaultsAssumption == MaxFaults \in Nat

VARIABLES
    pc,        \* step of each call
    token,     \* calls whose cancellation token is set
    stop,      \* requested_stop of _wait_for_process
    attempt,   \* where the attempt directory is
    worker,    \* the worker process
    answer,    \* what its result file says
    code,      \* its exit code, once it has exited
    output,    \* its output directories
    store,     \* the attempt each published directory comes from
    lock,      \* holders of the commit lock of each artifact
    unrolled,  \* rollback_errors: published artifacts that could not be moved back
    outcome,   \* status of the result run returns
    faults     \* faults so far

hostVars == <<pc, stop, attempt, store, lock, unrolled, outcome, faults>>
workerVars == <<worker, answer, code>>
vars == <<pc, token, stop, attempt, worker, answer, code, output, store, lock, unrolled,
          outcome, faults>>

Committing == {"locking", "validating", "sealing", "publishing", "rolling"}
Over == {"returned", "raised", "crashed"}
Steps == {"idle", "begin", "spawn", "waiting", "ended", "archive"} \cup Committing \cup Over
Outputs == {"none", "good", "bad", "moved"}
Outcomes == {"none", "succeeded", "failed", "cancelled"}

TypeOK ==
    /\ pc \in [Calls -> Steps]
    /\ token \subseteq Calls
    /\ stop \in [Calls -> {"none", "cancelled", "timeout"}]
    /\ attempt \in [Calls -> {"none", "attempts", "completed", "failed"}]
    /\ worker \in [Calls -> {"none", "running", "exited"}]
    /\ answer \in [Calls -> {"none", "invalid", "failure", "success"}]
    /\ code \in [Calls -> {"none", "zero", "nonzero"}]
    /\ output \in [Calls -> [Artifacts -> Outputs]]
    /\ store \in [Artifacts -> Calls \cup {None}]
    /\ lock \in [Artifacts -> SUBSET Calls]
    /\ unrolled \in [Calls -> SUBSET Artifacts]
    /\ outcome \in [Calls -> Outcomes]
    /\ faults \in 0..MaxFaults

Init ==
    /\ pc = [c \in Calls |-> "idle"]
    /\ token = {}
    /\ stop = [c \in Calls |-> "none"]
    /\ attempt = [c \in Calls |-> "none"]
    /\ worker = [c \in Calls |-> "none"]
    /\ answer = [c \in Calls |-> "none"]
    /\ code = [c \in Calls |-> "none"]
    /\ output = [c \in Calls |-> [a \in Artifacts |-> "none"]]
    /\ store = [a \in Artifacts |-> None]
    /\ lock = [a \in Artifacts |-> {}]
    /\ unrolled = [c \in Calls |-> {}]
    /\ outcome = [c \in Calls |-> "none"]
    /\ faults = 0

-----------------------------------------------------------------------------
(* Helpers *)

Goto(c, s) == pc' = [pc EXCEPT ![c] = s]
Fault == faults < MaxFaults /\ faults' = faults + 1

\* The call goes on with this result; only the archive is left to be made.
Result(c, status) ==
    /\ outcome' = [outcome EXCEPT ![c] = status]
    /\ Goto(c, "archive")

\* What only the call itself knew is gone with it.
Leave(c, s) ==
    /\ Goto(c, s)
    /\ token' = token \ {c}
    /\ answer' = [answer EXCEPT ![c] = "none"]
    /\ code' = [code EXCEPT ![c] = "none"]

\* An exception that run does not catch.
Escape(c) == Fault /\ Leave(c, "raised")

\* The manifests of a success result, and what of them is published.
Declared(c) == {a \in Artifacts : output[c][a] # "none"}
Published(c) == {a \in Artifacts : output[c][a] = "moved"}

Holds(c) == {a \in Artifacts : c \in lock[a]}
Unlock(c) == lock' = [a \in Artifacts |-> lock[a] \ {c}]

-----------------------------------------------------------------------------
(* run: rejection, the attempt, the process *)

\* A token that is set already, a request the contract, the deadline or the
\* policy refuses: no attempt is made.
Reject(c) ==
    /\ pc[c] = "idle"
    /\ outcome' = [outcome EXCEPT ![c] = IF c \in token THEN "cancelled" ELSE "failed"]
    /\ Leave(c, "returned")
    /\ UNCHANGED <<stop, attempt, worker, output, store, lock, unrolled, faults>>

Accept(c) ==
    /\ pc[c] = "idle" /\ c \notin token
    /\ Goto(c, "begin")
    /\ UNCHANGED <<token, stop, attempt, workerVars, output, store, lock, unrolled, outcome, faults>>

\* begin_attempt and the request file.
BeginAttempt(c) ==
    /\ pc[c] = "begin"
    /\ \/ /\ attempt' = [attempt EXCEPT ![c] = "attempts"]
          /\ Goto(c, "spawn")
          /\ UNCHANGED <<token, answer, code, faults>>
       \/ attempt' \in {attempt, [attempt EXCEPT ![c] = "attempts"]} /\ Escape(c)
    /\ UNCHANGED <<stop, worker, output, store, lock, unrolled, outcome>>

Spawn(c) ==
    /\ pc[c] = "spawn"
    /\ \/ worker' = [worker EXCEPT ![c] = "running"] /\ Goto(c, "waiting")
          /\ UNCHANGED <<outcome, faults>>
       \/ Fault /\ Result(c, "failed") /\ UNCHANGED worker
    /\ UNCHANGED <<token, stop, attempt, answer, code, output, store, lock, unrolled>>

-----------------------------------------------------------------------------
(* _wait_for_process: the process is polled first, so an exit beats a stop. *)

ObserveExit(c) ==
    /\ pc[c] = "waiting" /\ worker[c] = "exited"
    /\ Goto(c, "ended")
    /\ UNCHANGED <<token, stop, attempt, workerVars, output, store, lock, unrolled, outcome, faults>>

\* Mutant: only the token is asked.
RequestStopToken(c, reason) ==
    /\ pc[c] = "waiting" /\ worker[c] = "running" /\ stop[c] = "none"
    /\ reason = "cancelled" /\ c \in token
    /\ stop' = [stop EXCEPT ![c] = reason]
    /\ UNCHANGED <<pc, outcome, faults>>
    /\ UNCHANGED <<token, attempt, workerVars, output, store, lock, unrolled>>

\* The token, then the deadline, each asked once; the cancellation file of
\* the attempt tells the worker.  If it cannot be written the OSError is
\* taken for a worker that did not start, and nobody ends the process.
RequestStop(c, reason) ==
    /\ pc[c] = "waiting" /\ worker[c] = "running" /\ stop[c] = "none"
    /\ reason = "cancelled" <=> c \in token
    /\ stop' = [stop EXCEPT ![c] = reason]
    /\ \/ UNCHANGED <<pc, outcome, faults>>
       \/ Fault /\ Result(c, "failed")
    /\ UNCHANGED <<token, attempt, workerVars, output, store, lock, unrolled>>

\* The grace period is over: _terminate_process_tree, and wait.
Terminate(c) ==
    /\ pc[c] = "waiting" /\ worker[c] = "running" /\ stop[c] # "none"
    /\ worker' = [worker EXCEPT ![c] = "exited"]
    /\ code' = [code EXCEPT ![c] = "nonzero"]
    /\ Goto(c, "ended")
    /\ UNCHANGED <<token, stop, attempt, answer, output, store, lock, unrolled, outcome, faults>>

-----------------------------------------------------------------------------
(* The judgement of a worker that has exited *)

\* Mutant: a good answer counts, whatever the call was told meanwhile.
JudgeAnswer(c) ==
    /\ pc[c] = "ended"
    /\ IF answer[c] = "success" THEN Goto(c, "locking") /\ UNCHANGED outcome ELSE Result(c, "failed")
    /\ UNCHANGED <<token, stop, attempt, workerVars, output, store, lock, unrolled, faults>>

\* A stop wins over any answer; a failure result may call itself cancelled.
Judge(c) ==
    /\ pc[c] = "ended"
    /\ \/ stop[c] = "cancelled" /\ Result(c, "cancelled")
       \/ stop[c] = "timeout" /\ Result(c, "failed")
       \/ stop[c] = "none" /\ answer[c] = "failure" /\ \E s \in {"failed", "cancelled"} : Result(c, s)
       \/ /\ stop[c] = "none" /\ answer[c] # "failure"
          /\ answer[c] # "success" \/ code[c] # "zero"
          /\ Result(c, "failed")
       \/ /\ stop[c] = "none" /\ answer[c] = "success" /\ code[c] = "zero"
          /\ Goto(c, "locking")
          /\ UNCHANGED outcome
    /\ UNCHANGED <<token, stop, attempt, workerVars, output, store, lock, unrolled, faults>>

-----------------------------------------------------------------------------
(* commit *)

\* _acquire_commit_locks: in sorted order and never waiting.
Lock(c) ==
    LET missing == Declared(c) \ Holds(c) IN
    /\ pc[c] = "locking"
    /\ \/ /\ missing = {} /\ Goto(c, "validating")
          /\ UNCHANGED <<token, answer, code, lock, outcome, faults>>
       \/ /\ \E a \in missing :
               /\ \A b \in missing : a <= b
               /\ \/ lock[a] = {} /\ lock' = [lock EXCEPT ![a] = {c}] /\ UNCHANGED <<pc, outcome>>
                  \/ lock[a] # {} /\ Unlock(c) /\ Result(c, "failed")
          /\ UNCHANGED <<token, answer, code, faults>>
       \/ Escape(c) /\ Unlock(c) /\ UNCHANGED outcome
    /\ UNCHANGED <<stop, attempt, worker, output, store, unrolled>>

\* Mutant: one good output vouches for all.
ValidateSome(c) ==
    /\ pc[c] = "validating"
    /\ \/ /\ \E a \in Declared(c) : output[c][a] = "good"
          /\ Goto(c, "sealing")
          /\ UNCHANGED <<lock, outcome>>
       \/ /\ \A a \in Declared(c) : output[c][a] # "good"
          /\ Unlock(c) /\ Result(c, "failed")
    /\ UNCHANGED <<token, stop, attempt, workerVars, output, store, unrolled, faults>>

\* validate_artifacts: all of them, before the first is published.
Validate(c) ==
    /\ pc[c] = "validating"
    /\ \/ /\ Declared(c) # {} /\ \A a \in Declared(c) : output[c][a] = "good"
          /\ Goto(c, "sealing")
          /\ UNCHANGED <<token, answer, code, lock, outcome, faults>>
       \/ /\ Declared(c) = {} \/ \E a \in Declared(c) : output[c][a] = "bad"
          /\ Unlock(c) /\ Result(c, "failed")
          /\ UNCHANGED <<token, answer, code, faults>>
       \/ Escape(c) /\ Unlock(c) /\ UNCHANGED outcome
    /\ UNCHANGED <<stop, attempt, worker, output, store, unrolled>>

\* A manifest is written into every output.
Seal(c) ==
    /\ pc[c] = "sealing"
    /\ \/ Goto(c, "publishing") /\ UNCHANGED faults
       \/ Fault /\ Goto(c, "rolling")
    /\ UNCHANGED <<token, stop, attempt, workerVars, output, store, lock, unrolled, outcome>>

\* Mutant: a published directory is replaced.
PublishOver(c, a) ==
    /\ pc[c] = "publishing" /\ output[c][a] = "good"
    /\ output' = [output EXCEPT ![c][a] = "moved"]
    /\ store' = [store EXCEPT ![a] = c]
    /\ UNCHANGED <<pc, token, stop, attempt, workerVars, lock, unrolled, outcome, faults>>

\* One rename; the worker decided the order of its manifests.
Publish(c, a) ==
    /\ pc[c] = "publishing" /\ output[c][a] = "good"
    /\ \/ /\ store[a] = None
          /\ output' = [output EXCEPT ![c][a] = "moved"]
          /\ store' = [store EXCEPT ![a] = c]
          /\ UNCHANGED <<pc, faults>>
       \/ store[a] # None /\ Goto(c, "rolling") /\ UNCHANGED <<output, store, faults>>
       \/ store[a] = None /\ Fault /\ Goto(c, "rolling") /\ UNCHANGED <<output, store>>
    /\ UNCHANGED <<token, stop, attempt, workerVars, lock, unrolled, outcome>>

Committed(c) ==
    /\ pc[c] = "publishing" /\ Declared(c) = Published(c)
    /\ Unlock(c) /\ Result(c, "succeeded")
    /\ UNCHANGED <<token, stop, attempt, workerVars, output, store, unrolled, faults>>

\* Mutant: the rollback stops where it has begun.
RollbackOne(c) ==
    /\ pc[c] = "rolling"
    /\ Unlock(c) /\ Result(c, "failed")
    /\ UNCHANGED <<token, stop, attempt, workerVars, output, store, unrolled, faults>>

\* Every rename is taken back or noted in rollback_errors.
Rollback(c) ==
    /\ pc[c] = "rolling"
    /\ \/ \E a \in Published(c) \ unrolled[c] :
            /\ \/ /\ output' = [output EXCEPT ![c][a] = "good"]
                  /\ store' = [store EXCEPT ![a] = None]
                  /\ UNCHANGED <<unrolled, faults>>
               \/ /\ Fault
                  /\ unrolled' = [unrolled EXCEPT ![c] = @ \cup {a}]
                  /\ UNCHANGED <<output, store>>
            /\ UNCHANGED <<pc, lock, outcome>>
       \/ /\ Published(c) = unrolled[c]
          /\ Unlock(c) /\ Result(c, "failed")
          /\ UNCHANGED <<output, store, unrolled, faults>>
    /\ UNCHANGED <<token, stop, attempt, workerVars>>

-----------------------------------------------------------------------------

\* finish_attempt; that it fails is tolerated.
Archive(c) ==
    /\ pc[c] = "archive"
    /\ \/ /\ attempt' = [attempt EXCEPT ![c] = IF outcome[c] = "succeeded" THEN "completed" ELSE "failed"]
          /\ UNCHANGED faults
       \/ Fault /\ UNCHANGED attempt
    /\ Leave(c, "returned")
    /\ UNCHANGED <<stop, worker, output, store, lock, unrolled, outcome>>

\* The process of the call dies; its worker, in a session of its own, does not.
Crash(c) ==
    /\ pc[c] \notin Over \cup {"idle"} /\ Fault
    /\ Leave(c, "crashed") /\ Unlock(c)
    /\ UNCHANGED <<stop, attempt, worker, output, store, unrolled, outcome>>

\* CancellationToken.cancel; once the process has been judged nobody reads it.
Cancel(c) ==
    /\ pc[c] \in {"idle", "begin", "spawn", "waiting"} /\ c \notin token
    /\ token' = token \cup {c}
    /\ UNCHANGED <<hostVars, workerVars, output>>

-----------------------------------------------------------------------------
(* The worker process *)

\* What a worker answers when its call is over is read by nobody.
WorkerAnswers(c) ==
    /\ worker[c] = "running" /\ answer[c] = "none" /\ pc[c] = "waiting"
    /\ \/ \E r \in {"invalid", "failure"} : answer' = [answer EXCEPT ![c] = r] /\ UNCHANGED output
       \/ /\ answer' = [answer EXCEPT ![c] = "success"]
          /\ \E o \in [Artifacts -> {"none", "good", "bad"}] : output' = [output EXCEPT ![c] = o]
    /\ UNCHANGED <<hostVars, token, worker, code>>

WorkerExits(c) ==
    /\ worker[c] = "running"
    /\ worker' = [worker EXCEPT ![c] = "exited"]
    /\ \E k \in {"zero", "nonzero"} : code' = [code EXCEPT ![c] = IF pc[c] \in Over THEN "none" ELSE k]
    /\ UNCHANGED <<hostVars, token, answer, output>>

-----------------------------------------------------------------------------

Waiting(c) ==
    ObserveExit(c) \/ Terminate(c) \/ \E reason \in {"cancelled", "timeout"} : RequestStop(c, reason)
Commit(c) ==
    \/ Lock(c) \/ Validate(c) \/ Seal(c) \/ Committed(c) \/ Rollback(c)
    \/ \E a \in Artifacts : Publish(c, a)
Host(c) ==
    BeginAttempt(c) \/ Spawn(c) \/ Waiting(c) \/ Judge(c) \/ Commit(c) \/ Archive(c)

Next ==
    \E c \in Calls :
        \/ Reject(c) \/ Accept(c) \/ Host(c) \/ Crash(c) \/ Cancel(c)
        \/ WorkerAnswers(c) \/ WorkerExits(c)

Spec == Init /\ [][Next]_vars

\* The calling thread runs on and time passes; a worker owes nothing.
FairSpec == Spec /\ \A c \in Calls : WF_vars(Host(c))

-----------------------------------------------------------------------------
(* Properties *)

\* A call that was stopped publishes nothing, even if the worker answered in
\* time, and one that reports "cancelled" leaves no process behind
\* (runner.py:238-253, 364-402).
StoppedPublishesNothing ==
    \A c \in Calls :
        /\ stop[c] # "none" => Published(c) = {}
        /\ outcome[c] = "cancelled" => worker[c] # "running" /\ Published(c) = {}

\* A commit publishes all or nothing: a call that returns a success has every
\* declared artifact in the store, and one that returns anything else has at
\* most those whose rollback failed (store.py:236-296; "Attempts that fail ...
\* never appear under artifacts", store.py:3-6).
AllOrNothing ==
    \A c \in Calls :
        pc[c] = "returned" =>
            IF outcome[c] = "succeeded"
            THEN /\ Declared(c) # {} /\ \A a \in Declared(c) : store[a] = c
                 /\ attempt[c] \in {"attempts", "completed"}
            ELSE /\ {a \in Artifacts : store[a] = c} = unrolled[c]
                 /\ attempt[c] # "completed"

\* What a successful call has published stays: no other commit, conflict or
\* rollback replaces or removes it.
PublishedStays ==
    [][\A a \in Artifacts, c \in Calls :
         store[a] = c /\ outcome[c] = "succeeded" => store'[a] = c]_vars

\* Every call ends, also if its worker never does ("crashes, CUDA OOM,
\* timeout, and cancellation cannot crash the host", docs/adr/P1.md:35).
CallEnds == \A c \in Calls : pc[c] = "begin" ~> pc[c] \in Over

-----------------------------------------------------------------------------
(* The inductive invariant *)

\* The two sides of a rename agree.
StoreInv == \A a \in Artifacts, c \in Calls : store[a] = c <=> output[c][a] = "moved"

\* A lock has one holder, and that is in the middle of a commit.
LockInv ==
    \A a \in Artifacts, c \in Calls :
        c \in lock[a] => pc[c] \in Committing /\ lock[a] = {c}

Starting == {"idle", "begin", "spawn"}
Ending == {"archive"} \cup Over
Sealed == {"sealing", "publishing", "rolling"}

\* What a call holds of locks and outputs while it commits.
HoldInv(c) ==
    /\ pc[c] = "locking" => Holds(c) \subseteq Declared(c)
    /\ pc[c] \in {"validating"} \cup Sealed => Holds(c) = Declared(c)
    /\ pc[c] \in Sealed => Declared(c) # {} /\ \A a \in Declared(c) : output[c][a] # "bad"

\* Where its process and its attempt are, by the step it is at.
PhaseInv(c) ==
    /\ pc[c] \in Starting => worker[c] = "none"
    /\ pc[c] \in {"ended"} \cup Committing => worker[c] = "exited"
    /\ pc[c] \in Committing => stop[c] = "none"
    /\ pc[c] \in {"idle", "begin"} => attempt[c] = "none"
    /\ pc[c] \notin {"idle", "begin"} \cup Over => attempt[c] = "attempts"
    /\ outcome[c] # "none" => pc[c] \in Ending

\* What it has published: only a commit publishes, and a result that is not
\* a success has published what could not be rolled back.
OutputInv(c) ==
    /\ pc[c] \notin {"publishing", "rolling"} \cup Ending => Published(c) = {}
    /\ pc[c] \notin {"rolling"} \cup Ending => unrolled[c] = {}
    /\ unrolled[c] \subseteq Published(c)
    /\ stop[c] # "none" => Published(c) = {}
    /\ outcome[c] = "cancelled" => worker[c] # "running" /\ Published(c) = {}
    /\ pc[c] \in {"archive", "returned"} =>
           IF outcome[c] = "succeeded"
           THEN /\ Declared(c) # {} /\ Published(c) = Declared(c)
                /\ attempt[c] \in {"attempts", "completed"}
           ELSE Published(c) = unrolled[c] /\ attempt[c] # "completed"

CommitInv ==
    /\ TypeOK /\ StoreInv /\ LockInv
    /\ \A c \in Calls : HoldInv(c) /\ PhaseInv(c) /\ OutputInv(c)

=============================================================================
