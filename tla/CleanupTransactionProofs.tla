---------------------- MODULE CleanupTransactionProofs ----------------------
(***************************************************************************)
(* What TLAPS proves of CleanupTransaction, for any number of instances,   *)
(* runs, cleanups and faults.                                              *)
(*                                                                         *)
(* The argument: the run lock has one holder, so a thread that holds it    *)
(* or finds it free need only keep its own part of the invariant (Acting), *)
(* and a thread without it changes no output and no transaction (Aside).   *)
(* What the steps do to the outputs is of five kinds: a transaction        *)
(* changes its phase (PhaseStep), an output enters it (EnterStep) or       *)
(* returns (ReturnStep), it is erased (EraseStep), the run adds outputs.   *)
(*                                                                         *)
(* All receipts share one path, and what returns to it depends on which    *)
(* transaction is undone first: that the receipt of a succeeded project is *)
(* its own (ReceiptKept) needs that no two leftover transactions hold one, *)
(* and an invariant of its own (ReceiptInv).                               *)
(***************************************************************************)
EXTENDS CleanupTransaction, TLAPS

Active == CleanupSteps \cup {"run"}

Numbered ==
    /\ doc.run <= runs
    /\ \A s \in Stages : doc.made[s] <= runs
    /\ \A f \in files : f[2] <= runs
    /\ \A x \in Transactions : \A f \in trans[x].inside : f[2] <= runs

DataInv == PlaceInv /\ Numbered /\ KeptInv

OwnInv(i) ==
    /\ pc[i] \in Active => i \in lock
    /\ i \in lock => pc[i] \in Active \cup {"recover"}
    /\ pc[i] \in CleanupSteps =>
           /\ own[i] \in Transactions /\ trans[own[i]].phase \in Phases(pc[i])
           /\ trans[own[i]].done <=> pc[i] \in {"confirm", "erase"}
    /\ pc[i] = "run" =>
           /\ doc.status = "running" /\ doc.run = runs /\ runs # 0
           /\ \A x \in Transactions : \A f \in trans[x].inside : f[2] # runs
           /\ doc.made["export"] = runs => <<"export", runs>> \in files
           /\ <<"viewer", runs>> \in files =>
                  <<"timeline", runs>> \in files /\ <<"export", runs>> \in files

IInv ==
    /\ TypeOK
    /\ \A i, j \in lock : i = j
    /\ DataInv
    /\ \A i \in Instances : OwnInv(i)

\* Transaction x still holds what its cleanup moved, and will give it back.
Holds(x, f) == trans[x].phase \in {"moving", "moved"} /\ ~ trans[x].done /\ f \in trans[x].inside

LEMMA IInvIsCleanupInv == CleanupInv <=> IInv
    <1> USE BoundsAssumption DEF Active, Transactions
    <1>1. ASSUME CleanupInv PROVE IInv
        <2>1. ASSUME NEW i \in Instances PROVE OwnInv(i)
            <3>1. own[i] # 0 => own[i] \in Transactions
                BY <1>1 DEF CleanupInv, TypeOK
            <3> QED  BY <1>1, <3>1 DEF CleanupInv, LockInv, StepInv, RunsInv, OwnInv
        <2> QED  BY <1>1, <2>1 DEF CleanupInv, IInv, DataInv, LockInv, RunsInv, Numbered
    <1>2. ASSUME IInv PROVE CleanupInv
        <2>1. LockInv /\ StepInv /\ RunsInv
            BY <1>2 DEF IInv, DataInv, Numbered, OwnInv, LockInv, StepInv, RunsInv
        <2> QED  BY <1>2, <2>1 DEF IInv, DataInv, CleanupInv
    <1> QED  BY <1>1, <1>2

-----------------------------------------------------------------------------
(* Threads *)

LEMMA GotoType ==
    ASSUME TypeOK, NEW i \in Instances, NEW s \in Steps, Goto(i, s)
    PROVE  /\ pc' \in [Instances -> Steps]
           /\ pc'[i] = s
           /\ \A j \in Instances : j # i => pc'[j] = pc[j]
    BY DEF TypeOK, Goto

LEMMA LeaveType ==
    ASSUME TypeOK, NEW i \in Instances, Leave(i)
    PROVE  /\ pc' \in [Instances -> Steps]
           /\ pc'[i] = "idle"
           /\ \A j \in Instances : j # i => pc'[j] = pc[j] /\ own'[j] = own[j]
           /\ own' \in [Instances -> 0..MaxCleanups]
           /\ lock' = lock \ {i}
    BY BoundsAssumption DEF TypeOK, Leave, Goto, Steps

LEMMA DieType ==
    ASSUME TypeOK, NEW i \in Instances, Die(i)
    PROVE  /\ pc' \in [Instances -> Steps]
           /\ pc'[i] = "down"
           /\ \A j \in Instances : j # i => pc'[j] = pc[j] /\ own'[j] = own[j]
           /\ own' \in [Instances -> 0..MaxCleanups]
           /\ lock' = lock \ {i}
    BY BoundsAssumption DEF TypeOK, Die, Goto, Steps

LEMMA FaultType ==
    ASSUME TypeOK, Fault
    PROVE  faults' \in 0..MaxFaults /\ faults' # faults
    BY BoundsAssumption DEF TypeOK, Fault

LEMMA Alone ==
    ASSUME IInv, NEW i \in Instances, lock = {} \/ i \in lock
    PROVE  \A j \in Instances : j # i => j \notin lock /\ pc[j] \notin Active
    BY DEF IInv, OwnInv

\* Thread i holds the lock or finds it free.
LEMMA Acting ==
    ASSUME IInv, NEW i \in Instances, lock = {} \/ i \in lock,
           TypeOK', DataInv', OwnInv(i)', lock' \subseteq lock \cup {i},
           \A j \in Instances : j # i => pc'[j] = pc[j]
    PROVE  IInv'
    <1>1. \A j \in Instances : j # i => j \notin lock' /\ pc'[j] \notin Active
        BY Alone
    <1>2. \A j \in Instances : j # i => OwnInv(j)'
        BY <1>1 DEF OwnInv, Active
    <1>3. \A j, k \in lock' : j = k
        BY <1>1 DEF TypeOK
    <1> QED  BY <1>2, <1>3 DEF IInv

\* Thread i has no part of the invariant, before or after.
LEMMA Aside ==
    ASSUME IInv, NEW i \in Instances, TypeOK', DataInv',
           UNCHANGED <<files, trans, runs>>,
           doc' = doc \/ (lock = {} /\ lock' = {}),
           pc'[i] \in {"down", "idle", "recover"}, lock' = lock \ {i},
           \A j \in Instances : j # i => pc'[j] = pc[j] /\ own'[j] = own[j]
    PROVE  IInv'
    <1>1. OwnInv(i)'
        BY DEF OwnInv, Active, CleanupSteps
    <1>2. ASSUME NEW j \in Instances, j # i PROVE OwnInv(j)'
        <2>1. OwnInv(j) /\ pc'[j] = pc[j] /\ own'[j] = own[j] /\ (j \in lock' <=> j \in lock)
            BY <1>2 DEF IInv
        <2>2. CASE doc' = doc
            BY <2>1, <2>2 DEF OwnInv
        <2>3. CASE lock = {} /\ lock' = {}
            BY <2>1, <2>3 DEF OwnInv, Active
        <2> QED  BY <2>2, <2>3
    <1>3. \A j, k \in lock' : j = k
        BY DEF IInv
    <1> QED  BY <1>1, <1>2, <1>3 DEF IInv

-----------------------------------------------------------------------------
(* Outputs *)

LEMMA TransType ==
    ASSUME TypeOK, NEW x \in Transactions, NEW t \in TransactionStates,
           trans' = [trans EXCEPT ![x] = t]
    PROVE  /\ trans' \in [Transactions -> TransactionStates]
           /\ trans'[x] = t
           /\ \A y \in Transactions : y # x => trans'[y] = trans[y]
    BY DEF TypeOK

LEMMA DataStays ==
    ASSUME DataInv, UNCHANGED <<files, trans, runs, doc>>
    PROVE  DataInv'
    BY DEF DataInv, PlaceInv, Numbered, KeptInv, Kept

LEMMA StageGroupIs ==
    ASSUME NEW t \in Targets
    PROVE  StageGroup(t) \subseteq Stages
    BY DEF StageGroup, Targets, Stages

\* Each output the document relies on is kept if it was, and a receipt if
\* there was one.
LEMMA KeptStays ==
    ASSUME TypeOK, KeptInv, doc' = doc,
           \A s \in Stages : doc.stage[s] = "succeeded" /\ Kept(<<s, doc.made[s]>>)
                                 => Kept(<<s, doc.made[s]>>)',
           doc.run # 0 =>
               /\ Kept(<<"timeline", doc.run>>) => Kept(<<"timeline", doc.run>>)'
               /\ Kept(<<"export", doc.run>>) => Kept(<<"export", doc.run>>)'
               /\ \A r \in Runs : Kept(<<"viewer", r>>) => \E q \in Runs : Kept(<<"viewer", q>>)'
    PROVE  KeptInv'
    <1>1. \A s \in Stages : doc'.stage[s] = "succeeded" => Kept(<<s, doc.made[s]>>)'
        BY DEF KeptInv
    <1>2. ASSUME doc'.status = "succeeded", doc'.run # 0
          PROVE  /\ Kept(<<"timeline", doc.run>>)'
                 /\ Kept(<<"export", doc.run>>)'
                 /\ \E r \in Runs : Kept(<<"viewer", r>>)'
        BY <1>2 DEF KeptInv
    <1> QED  BY <1>1, <1>2 DEF KeptInv

LEMMA KeptAlways ==
    ASSUME TypeOK, KeptInv, doc' = doc, \A f : Kept(f) => Kept(f)'
    PROVE  KeptInv'
    BY KeptStays

\* Transaction x changes its phase.
LEMMA PhaseStep ==
    ASSUME TypeOK, DataInv, NEW x \in Transactions, NEW t \in TransactionStates,
           trans' = [trans EXCEPT ![x] = t], UNCHANGED <<files, doc, runs>>,
           t.target = trans[x].target, t.moves = trans[x].moves, t.inside = trans[x].inside,
           t.phase = "committed" => t.done,
           \A f : Holds(x, f) => t.phase \in {"moving", "moved"} /\ ~ t.done
    PROVE  DataInv'
    <1>1. trans'[x] = t /\ \A y \in Transactions : y # x => trans'[y] = trans[y]
        BY TransType
    <1>2. \A y \in Transactions : /\ trans'[y].inside = trans[y].inside
                                  /\ trans'[y].moves = trans[y].moves
                                  /\ trans'[y].target = trans[y].target
                                  /\ trans'[y].phase = "committed" => trans'[y].done
        BY <1>1 DEF DataInv, PlaceInv
    <1>3. PlaceInv'
        BY <1>2 DEF DataInv, PlaceInv
    <1>4. Numbered'
        BY <1>2 DEF DataInv, Numbered
    <1>5. \A f : Kept(f) => Kept(f)'
        BY <1>1 DEF Kept, Holds
    <1> QED  BY <1>3, <1>4, <1>5, KeptAlways DEF DataInv

\* Output f enters transaction x, which will give it back.
LEMMA EnterStep ==
    ASSUME TypeOK, DataInv, NEW x \in Transactions, NEW f \in files, f \in trans[x].moves,
           trans[x].phase = "moving", ~ trans[x].done,
           files' = files \ {f}, trans' = [trans EXCEPT ![x].inside = @ \cup {f}],
           UNCHANGED <<doc, runs>>
    PROVE  trans' \in [Transactions -> TransactionStates] /\ DataInv'
    <1> DEFINE t == [trans[x] EXCEPT !.inside = @ \cup {f}]
    <1>1. trans[x] \in TransactionStates /\ f \in Files
        BY DEF TypeOK
    <1>2. /\ t \in TransactionStates
          /\ t.inside = trans[x].inside \cup {f} /\ t.moves = trans[x].moves
          /\ t.target = trans[x].target /\ t.phase = trans[x].phase /\ t.done = trans[x].done
        BY <1>1 DEF TransactionStates
    <1>3. trans' = [trans EXCEPT ![x] = t]
        OBVIOUS
    <1> HIDE DEF t
    <1>4. /\ trans' \in [Transactions -> TransactionStates]
          /\ trans'[x] = t /\ \A y \in Transactions : y # x => trans'[y] = trans[y]
        BY <1>2, <1>3, TransType
    <1>5. PlaceInv'
        <2>1. \A y \in Transactions : f \notin trans[y].inside
            BY DEF DataInv, PlaceInv
        <2>2. \A y \in Transactions :
                  /\ trans'[y].inside \subseteq trans[y].inside \cup {f}
                  /\ y # x => trans'[y].inside = trans[y].inside
            BY <1>2, <1>4
        <2>3. \A y, z \in Transactions : y # z => trans'[y].inside \cap trans'[z].inside = {}
            BY <2>1, <2>2 DEF DataInv, PlaceInv
        <2>4. \A y \in Transactions :
                  /\ trans'[y].phase = "committed" => trans'[y].done
                  /\ trans'[y].inside \subseteq trans'[y].moves \ files'
                  /\ \A g \in trans'[y].moves :
                         g[1] \in StageGroup(trans'[y].target) \cup {"timeline", "viewer"}
            BY <1>2, <1>4 DEF DataInv, PlaceInv
        <2> QED  BY <2>3, <2>4 DEF PlaceInv
    <1>6. Numbered'
        BY <1>2, <1>4 DEF DataInv, Numbered
    <1>7. \A g : Kept(g) => Kept(g)'
        BY <1>2, <1>4 DEF Kept
    <1> QED  BY <1>4, <1>5, <1>6, <1>7, KeptAlways DEF DataInv

\* Output f returns from transaction x.
LEMMA ReturnStep ==
    ASSUME TypeOK, DataInv, NEW x \in Transactions, NEW f \in trans[x].inside, PutBack(x, f),
           UNCHANGED <<doc, runs>>
    PROVE  /\ trans' \in [Transactions -> TransactionStates] /\ files' \subseteq Files
           /\ DataInv'
           /\ trans'[x].phase = trans[x].phase /\ trans'[x].done = trans[x].done
           /\ \A y \in Transactions : trans'[y].inside \subseteq trans[y].inside
    <1> DEFINE t == [trans[x] EXCEPT !.inside = @ \ {f}]
    <1>1. trans[x] \in TransactionStates /\ f \in Files
        BY DEF TypeOK, TransactionStates
    <1>2. /\ t \in TransactionStates
          /\ t.inside = trans[x].inside \ {f} /\ t.moves = trans[x].moves
          /\ t.target = trans[x].target /\ t.phase = trans[x].phase /\ t.done = trans[x].done
        BY <1>1 DEF TransactionStates
    <1>3. trans' = [trans EXCEPT ![x] = t] /\ files' = files \cup {f}
        BY DEF PutBack
    <1> HIDE DEF t
    <1>4. /\ trans' \in [Transactions -> TransactionStates]
          /\ trans'[x] = t /\ \A y \in Transactions : y # x => trans'[y] = trans[y]
        BY <1>2, <1>3, TransType
    <1>5. \A y \in Transactions : trans'[y].inside \subseteq trans[y].inside
        BY <1>2, <1>4
    <1>6. PlaceInv'
        <2>1. \A y \in Transactions : f \notin trans'[y].inside
            BY <1>2, <1>4 DEF DataInv, PlaceInv
        <2>2. \A y \in Transactions :
                  /\ trans'[y].phase = "committed" => trans'[y].done
                  /\ trans'[y].moves = trans[y].moves /\ trans'[y].target = trans[y].target
            BY <1>2, <1>4 DEF DataInv, PlaceInv
        <2> QED  BY <1>3, <1>5, <2>1, <2>2 DEF DataInv, PlaceInv
    <1>7. Numbered'
        BY <1>3, <1>5 DEF DataInv, Numbered
    <1>8. \A g : Kept(g) => Kept(g)'
        BY <1>2, <1>3, <1>4 DEF Kept
    <1>9. KeptInv'
        BY <1>8, KeptAlways DEF DataInv
    <1> QED  BY <1>1, <1>2, <1>3, <1>4, <1>5, <1>6, <1>7, <1>9 DEF DataInv, TypeOK

\* Transaction x is removed, and holds nothing the document relies on.
LEMMA EraseStep ==
    ASSUME TypeOK, DataInv, NEW x \in Transactions, Erase(x), KeptInv', UNCHANGED <<files, doc, runs>>
    PROVE  /\ trans' \in [Transactions -> TransactionStates] /\ DataInv'
           /\ \A y \in Transactions : trans'[y].inside \subseteq trans[y].inside
    <1> DEFINE t == [NoTransaction EXCEPT !.phase = "gone"]
    <1>1. /\ t \in TransactionStates
          /\ t.inside = {} /\ t.moves = {} /\ t.target = "viewer" /\ t.phase = "gone"
        BY DEF NoTransaction, TransactionStates, Targets
    <1>2. trans' = [trans EXCEPT ![x] = t]
        BY DEF Erase
    <1> HIDE DEF t
    <1>3. /\ trans' \in [Transactions -> TransactionStates]
          /\ trans'[x] = t /\ \A y \in Transactions : y # x => trans'[y] = trans[y]
        BY <1>1, <1>2, TransType
    <1>4. \A y \in Transactions : trans'[y].inside \subseteq trans[y].inside
        BY <1>1, <1>3
    <1>5. PlaceInv'
        BY <1>1, <1>3 DEF DataInv, PlaceInv
    <1>6. Numbered'
        BY <1>4 DEF DataInv, Numbered
    <1> QED  BY <1>3, <1>4, <1>5, <1>6 DEF DataInv

\* Erased, x takes away what only x holds.
LEMMA EraseKeeps ==
    ASSUME TypeOK, NEW x \in Transactions, Erase(x) \/ trans' = [trans EXCEPT ![x].phase = "bare"],
           UNCHANGED files, NEW f, Kept(f), ~ Holds(x, f)
    PROVE  Kept(f)'
    <1>1. \A y \in Transactions : y # x => trans'[y] = trans[y]
        BY DEF Erase, TypeOK
    <1> QED  BY <1>1 DEF Kept, Holds

\* rmtree fails.
LEMMA EraseSomeStep ==
    ASSUME TypeOK, DataInv, NEW x \in Transactions, EraseSome(x), KeptInv',
           UNCHANGED <<files, doc, runs>>
    PROVE  trans' \in [Transactions -> TransactionStates] /\ DataInv'
    <1>1. CASE trans' = trans
        BY <1>1, DataStays DEF TypeOK
    <1>2. CASE trans' = [trans EXCEPT ![x].phase = "bare"]
        <2> DEFINE t == [trans[x] EXCEPT !.phase = "bare"]
        <2>1. trans[x] \in TransactionStates
            BY DEF TypeOK
        <2>2. /\ t \in TransactionStates
              /\ t.inside = trans[x].inside /\ t.moves = trans[x].moves
              /\ t.target = trans[x].target /\ t.phase = "bare"
            BY <2>1 DEF TransactionStates
        <2>3. trans' = [trans EXCEPT ![x] = t]
            BY <1>2
        <2> HIDE DEF t
        <2>4. /\ trans' \in [Transactions -> TransactionStates]
              /\ trans'[x] = t /\ \A y \in Transactions : y # x => trans'[y] = trans[y]
            BY <2>2, <2>3, TransType
        <2>5. \A y \in Transactions : /\ trans'[y].inside = trans[y].inside
                                      /\ trans'[y].moves = trans[y].moves
                                      /\ trans'[y].target = trans[y].target
                                      /\ trans'[y].phase = "committed" => trans'[y].done
            BY <2>2, <2>4 DEF DataInv, PlaceInv
        <2>6. PlaceInv' /\ Numbered'
            BY <2>5 DEF DataInv, PlaceInv, Numbered
        <2> QED  BY <2>4, <2>6 DEF DataInv
    <1> QED  BY <1>1, <1>2 DEF EraseSome

\* The outputs of a run, and its changes of the document.
LEMMA AddStep ==
    ASSUME TypeOK, DataInv, NEW f \in Files, f[2] = runs,
           \A x \in Transactions : \A g \in trans[x].inside : g[2] # runs,
           UNCHANGED <<trans, doc, runs>>,
           \/ files' = files \cup {f}
           \/ f[1] = "viewer" /\ files' = (files \ ({"viewer"} \X Runs)) \cup {f}
    PROVE  files' \subseteq Files /\ DataInv'
    <1>1. files' \subseteq files \cup {f} /\ \A g \in files : g[1] # "viewer" => g \in files'
        OBVIOUS
    <1>2. PlaceInv' /\ Numbered'
        BY <1>1 DEF DataInv, PlaceInv, Numbered, TypeOK
    <1>3. \A g : Kept(g) /\ g[1] # "viewer" => Kept(g)'
        BY <1>1 DEF Kept
    <1>4. \A r \in Runs : Kept(<<"viewer", r>>) => \E q \in Runs : Kept(<<"viewer", q>>)'
        <2>1. CASE files' = files \cup {f}
            BY <2>1 DEF Kept
        <2>2. CASE f[1] = "viewer" /\ f \in files'
            <3>1. f = <<"viewer", f[2]>> /\ f[2] \in Runs
                BY <2>2 DEF Files
            <3> QED  BY <2>2, <3>1 DEF Kept
        <2> QED  BY <2>1, <2>2
    <1>5. KeptInv'
        <2>1. \A s \in Stages : s # "viewer"
            BY DEF Stages
        <2> QED  BY <1>3, <1>4, <2>1, KeptStays DEF DataInv
    <1> QED  BY <1>1, <1>2, <1>5 DEF DataInv, TypeOK

-----------------------------------------------------------------------------
(* cleanup_project *)

LEMMA OutputsAre ==
    ASSUME TypeOK, NEW t \in Targets
    PROVE  /\ Outputs(t) \subseteq Files
           /\ \A f \in Outputs(t) : f[1] \in StageGroup(t) \cup {"timeline", "viewer"}
    <1>1. Outputs(t) \subseteq Files
        BY DEF Outputs, TypeOK
    <1>2. ASSUME NEW f \in Outputs(t)
          PROVE  f[1] \in StageGroup(t) \cup {"timeline", "viewer"}
        <2> DEFINE ofRun == {"training" : u \in {t} \cap {"reconstruction", "training"}}
                            \cup {"export" : u \in {t} \ {"viewer"}}
                            \cup {"timeline" : u \in {t} \ {"exports"}}
        <2>1. \/ \E s \in StageGroup(t) : f = <<s, doc.made[s]>>
              \/ \E o \in ofRun : f = <<o, doc.run>>
              \/ \E r \in Runs : f = <<"viewer", r>>
            BY DEF Outputs
        <2>2. ofRun \subseteq StageGroup(t) \cup {"timeline"}
            BY DEF StageGroup, Stages, Targets
        <2> HIDE DEF ofRun
        <2> QED  BY <2>1, <2>2
    <1> QED  BY <1>1, <1>2

LEMMA CleanupBeginKeeps ==
    ASSUME IInv, NEW i \in Instances, NEW t \in Targets, NEW x \in Transactions,
           CleanupBegin(i, t, x)
    PROVE  IInv'
    <1> USE BoundsAssumption
    <1> DEFINE new == [NoTransaction EXCEPT !.phase = "bare", !.target = t, !.moves = Outputs(t)]
    <1>1. TypeOK /\ DataInv
        BY DEF IInv
    <1>2. /\ new \in TransactionStates
          /\ new.phase = "bare" /\ new.target = t /\ new.moves = Outputs(t)
          /\ new.inside = {} /\ new.done = FALSE
        BY <1>1, OutputsAre DEF NoTransaction, TransactionStates
    <1>3. /\ trans' = [trans EXCEPT ![x] = new]
          /\ lock = {} /\ lock' = {i} /\ Goto(i, "record") /\ own' = [own EXCEPT ![i] = x]
          /\ trans[x] = NoTransaction /\ UNCHANGED <<files, doc, runs, faults>>
        BY DEF CleanupBegin
    <1> HIDE DEF new
    <1>4. /\ trans' \in [Transactions -> TransactionStates]
          /\ trans'[x] = new /\ \A y \in Transactions : y # x => trans'[y] = trans[y]
        BY <1>1, <1>2, <1>3, TransType
    <1>5. /\ pc' \in [Instances -> Steps] /\ pc'[i] = "record"
          /\ \A j \in Instances : j # i => pc'[j] = pc[j]
        <2>1. "record" \in Steps
            BY DEF Steps, CleanupSteps
        <2> QED  BY <1>1, <1>3, <2>1, GotoType
    <1>6. own'[i] = x /\ own' \in [Instances -> 0..MaxCleanups]
        BY <1>1, <1>3 DEF TypeOK, Transactions
    <1>7. TypeOK'
        BY <1>1, <1>3, <1>4, <1>5, <1>6 DEF TypeOK
    <1>8. trans[x].inside = {} /\ trans[x].phase = "absent"
        BY <1>3 DEF NoTransaction
    <1>9. PlaceInv'
        BY <1>1, <1>2, <1>3, <1>4, OutputsAre DEF DataInv, PlaceInv
    <1>10. Numbered'
        BY <1>1, <1>2, <1>3, <1>4 DEF DataInv, Numbered
    <1>11. KeptInv'
        <2>1. \A f : Kept(f) => Kept(f)'
            BY <1>3, <1>4, <1>8 DEF Kept
        <2> QED  BY <1>1, <1>3, <2>1, KeptAlways DEF DataInv
    <1>12. OwnInv(i)'
        <2>1. pc'[i] \in CleanupSteps /\ pc'[i] # "run" /\ i \in lock'
            BY <1>3, <1>5 DEF CleanupSteps
        <2>2. trans'[own'[i]].phase \in Phases(pc'[i]) /\ ~ trans'[own'[i]].done
            BY <1>2, <1>4, <1>5, <1>6 DEF Phases
        <2> QED  BY <1>5, <1>6, <2>1, <2>2 DEF OwnInv, Active
    <1> QED  BY <1>3, <1>5, <1>7, <1>9, <1>10, <1>11, <1>12, Acting DEF DataInv

\* A step inside a cleanup: thread i stays at work on its transaction.
LEMMA Working ==
    ASSUME IInv, NEW i \in Instances, NEW s \in CleanupSteps, pc[i] \in CleanupSteps,
           pc' \in [Instances -> Steps], pc'[i] = s, \A j \in Instances : j # i => pc'[j] = pc[j],
           UNCHANGED <<own, lock>>, TypeOK', DataInv',
           trans'[own[i]].phase \in Phases(s),
           trans'[own[i]].done <=> s \in {"confirm", "erase"}
    PROVE  IInv'
    <1>1. i \in lock /\ own[i] \in Transactions
        BY DEF IInv, OwnInv, Active
    <1>2. "run" \notin CleanupSteps
        BY DEF CleanupSteps
    <1>3. OwnInv(i)'
        BY <1>1, <1>2 DEF OwnInv, Active
    <1> QED  BY <1>1, <1>3, Acting

\* The end of a cleanup or of a recovery.
LEMMA Leaving ==
    ASSUME IInv, NEW i \in Instances, lock = {} \/ i \in lock, Leave(i), TypeOK', DataInv'
    PROVE  IInv'
    <1>1. /\ pc'[i] = "idle" /\ lock' = lock \ {i}
          /\ \A j \in Instances : j # i => pc'[j] = pc[j]
        BY LeaveType DEF IInv
    <1>2. OwnInv(i)'
        BY <1>1 DEF OwnInv, Active, CleanupSteps
    <1> QED  BY <1>1, <1>2, Acting

\* Where thread i is in its cleanup.
LEMMA AtWork ==
    ASSUME IInv, NEW i \in Instances, pc[i] \in CleanupSteps
    PROVE  /\ TypeOK /\ DataInv /\ i \in lock
           /\ own[i] \in Transactions /\ trans[own[i]] \in TransactionStates
           /\ trans[own[i]].phase \in Phases(pc[i])
           /\ trans[own[i]].done <=> pc[i] \in {"confirm", "erase"}
    BY DEF IInv, OwnInv, Active, TypeOK

\* One more phase, or the document changed.
LEMMA NextPhase ==
    ASSUME TypeOK, NEW x \in Transactions, NEW p \in {"moving", "moved", "committed"}
    PROVE  LET t == [trans[x] EXCEPT !.phase = p] IN
           /\ t \in TransactionStates
           /\ t.phase = p /\ t.done = trans[x].done /\ t.target = trans[x].target
           /\ t.moves = trans[x].moves /\ t.inside = trans[x].inside
    <1>1. trans[x] \in TransactionStates
        BY DEF TypeOK
    <1> QED  BY <1>1 DEF TransactionStates

LEMMA PhaseKeeps ==
    ASSUME IInv, NEW i \in Instances, pc[i] \in CleanupSteps,
           NEW p \in {"moving", "moved", "committed"}, NEW s \in CleanupSteps,
           trans' = [trans EXCEPT ![own[i]].phase = p], Goto(i, s), Stay,
           UNCHANGED <<files, doc, runs, faults>>,
           p \in Phases(s), pc[i] \in {"confirm", "erase"} <=> s \in {"confirm", "erase"},
           p = "committed" => pc[i] = "confirm"
    PROVE  IInv'
    <1> DEFINE x == own[i]
    <1> DEFINE t == [trans[x] EXCEPT !.phase = p]
    <1>1. /\ TypeOK /\ DataInv /\ x \in Transactions
          /\ trans[x].done <=> pc[i] \in {"confirm", "erase"}
        BY AtWork
    <1>2. /\ t \in TransactionStates
          /\ t.phase = p /\ t.done = trans[x].done /\ t.target = trans[x].target
          /\ t.moves = trans[x].moves /\ t.inside = trans[x].inside
        BY <1>1, NextPhase
    <1>3. trans' = [trans EXCEPT ![x] = t]
        OBVIOUS
    <1> HIDE DEF t
    <1>4. trans' \in [Transactions -> TransactionStates] /\ trans'[x] = t
        BY <1>1, <1>2, <1>3, TransType
    <1>5. s \in Steps
        BY DEF Steps
    <1>6. /\ pc' \in [Instances -> Steps] /\ pc'[i] = s
          /\ \A j \in Instances : j # i => pc'[j] = pc[j]
        BY <1>1, <1>5, GotoType
    <1>7. TypeOK'
        BY <1>1, <1>4, <1>6 DEF TypeOK, Stay
    <1>8. DataInv'
        <2>1. \A f : Holds(x, f) => t.phase \in {"moving", "moved"} /\ ~ t.done
            BY <1>1, <1>2 DEF Holds
        <2>2. t.phase = "committed" => t.done
            BY <1>1, <1>2
        <2> QED  BY <1>1, <1>2, <1>3, <2>1, <2>2, PhaseStep
    <1> QED  BY <1>1, <1>2, <1>4, <1>6, <1>7, <1>8, Working DEF Stay

LEMMA CleanupRecordKeeps ==
    ASSUME IInv, NEW i \in Instances, CleanupRecord(i)
    PROVE  IInv'
    <1>1. pc[i] = "record" /\ pc[i] \in CleanupSteps /\ UNCHANGED <<files, doc, runs>>
        BY DEF CleanupRecord, CleanupSteps
    <1>2. CASE trans' = [trans EXCEPT ![own[i]].phase = "moving"] /\ Goto(i, "move") /\ Stay
               /\ UNCHANGED faults
        <2>1. "move" \in CleanupSteps /\ "moving" \in Phases("move")
            BY DEF CleanupSteps, Phases
        <2> QED  BY <1>1, <1>2, <2>1, PhaseKeeps
    <1>3. CASE Fault /\ Leave(i) /\ UNCHANGED trans
        <2>1. TypeOK /\ DataInv /\ i \in lock
            BY <1>1, AtWork
        <2>2. TypeOK'
            BY <1>1, <1>3, <2>1, LeaveType, FaultType DEF TypeOK
        <2> QED  BY <1>1, <1>3, <2>1, <2>2, DataStays, Leaving
    <1> QED  BY <1>2, <1>3 DEF CleanupRecord

LEMMA GoesToUndo ==
    ASSUME IInv, NEW i \in Instances, pc[i] \in {"move", "commit"}, Fault, Goto(i, "undo"), Stay,
           UNCHANGED <<files, trans, doc, runs>>
    PROVE  IInv'
    <1>1. pc[i] \in CleanupSteps /\ "undo" \in CleanupSteps
        BY DEF CleanupSteps
    <1>2. "undo" \in Steps
        BY <1>1 DEF Steps
    <1>3. /\ TypeOK /\ DataInv
          /\ trans[own[i]].phase \in Phases(pc[i])
          /\ trans[own[i]].done <=> pc[i] \in {"confirm", "erase"}
        BY <1>1, AtWork
    <1>4. /\ pc' \in [Instances -> Steps] /\ pc'[i] = "undo"
          /\ \A j \in Instances : j # i => pc'[j] = pc[j]
        BY <1>2, <1>3, GotoType
    <1>5. TypeOK'
        BY <1>3, <1>4, FaultType DEF TypeOK, Stay
    <1>6. trans'[own[i]].phase \in Phases("undo") /\ ~ trans'[own[i]].done
        BY <1>3 DEF Phases
    <1> QED  BY <1>1, <1>3, <1>4, <1>5, <1>6, DataStays, Working DEF Stay

LEMMA CleanupMoveKeeps ==
    ASSUME IInv, NEW i \in Instances, CleanupMove(i)
    PROVE  IInv'
    <1> DEFINE x == own[i]
    <1>1. /\ pc[i] = "move" /\ pc[i] \in CleanupSteps /\ Stay /\ UNCHANGED <<doc, runs>>
        BY DEF CleanupMove, CleanupSteps
    <1>2. /\ TypeOK /\ DataInv /\ i \in lock /\ x \in Transactions
          /\ trans[x] \in TransactionStates /\ trans[x].phase = "moving" /\ ~ trans[x].done
        BY <1>1, AtWork DEF Phases
    <1>3. ASSUME NEW f \in trans[x].moves \cap files, files' = files \ {f},
                 trans' = [trans EXCEPT ![x].inside = @ \cup {f}], UNCHANGED <<pc, faults>>
          PROVE  IInv'
        <2>1. trans' \in [Transactions -> TransactionStates] /\ DataInv'
            BY <1>1, <1>2, <1>3, EnterStep
        <2>2. TypeOK'
            BY <1>1, <1>2, <1>3, <2>1 DEF TypeOK, Stay
        <2>3. trans'[x].phase = "moving" /\ trans'[x].done = trans[x].done
            BY <1>2, <1>3 DEF TypeOK, TransactionStates
        <2>4. pc' \in [Instances -> Steps]
            BY <2>2 DEF TypeOK
        <2> QED  BY <1>1, <1>2, <1>3, <2>1, <2>2, <2>3, <2>4, Working DEF Stay, Phases
    <1>4. CASE /\ trans' = [trans EXCEPT ![x].phase = "moved"]
               /\ Goto(i, "commit") /\ UNCHANGED <<files, faults>>
        <2>1. "commit" \in CleanupSteps /\ "moved" \in Phases("commit")
            BY DEF CleanupSteps, Phases
        <2> QED  BY <1>1, <1>4, <2>1, PhaseKeeps
    <1>5. CASE Fault /\ Goto(i, "undo") /\ UNCHANGED <<files, trans>>
        BY <1>1, <1>5, GoesToUndo
    <1> QED  BY <1>3, <1>4, <1>5 DEF CleanupMove

LEMMA CleanedIs ==
    ASSUME NEW d \in Documents, NEW t \in Targets
    PROVE  LET e == Cleaned(d, t) IN
           /\ e \in Documents
           /\ e.run = 0 /\ e.status = "ready"
           /\ \A s \in Stages : /\ e.stage[s] = IF s \in StageGroup(t) THEN "pending" ELSE d.stage[s]
                                /\ e.made[s] = IF s \in StageGroup(t) THEN 0 ELSE d.made[s]
    <1> DEFINE stage == [s \in Stages |-> IF s \in StageGroup(t) THEN "pending" ELSE d.stage[s]]
    <1> DEFINE made == [s \in Stages |-> IF s \in StageGroup(t) THEN 0 ELSE d.made[s]]
    <1> DEFINE cleared == d.cleared \cup {t}
    <1>1. /\ stage \in [Stages -> {"pending", "succeeded", "stale"}]
          /\ made \in [Stages -> 0..MaxRuns]
          /\ cleared \in SUBSET Targets
        BY BoundsAssumption DEF Documents
    <1>2. Cleaned(d, t) = [d EXCEPT !.stage = stage, !.made = made, !.run = 0, !.status = "ready",
                                    !.cleared = cleared]
        BY DEF Cleaned
    <1>3. \A s \in Stages : /\ stage[s] = IF s \in StageGroup(t) THEN "pending" ELSE d.stage[s]
                            /\ made[s] = IF s \in StageGroup(t) THEN 0 ELSE d.made[s]
        OBVIOUS
    <1> HIDE DEF stage, made, cleared
    <1>4. Cleaned(d, t) = [status |-> "ready", run |-> 0, stage |-> stage, made |-> made,
                           cleared |-> cleared]
        BY <1>2 DEF Documents
    <1>5. 0 \in 0..MaxRuns
        BY BoundsAssumption
    <1> QED  BY <1>1, <1>3, <1>4, <1>5 DEF Documents

LEMMA CleanupCommitKeeps ==
    ASSUME IInv, NEW i \in Instances, CleanupCommit(i)
    PROVE  IInv'
    <1> DEFINE x == own[i]
    <1>1. /\ pc[i] = "commit" /\ pc[i] \in CleanupSteps /\ Stay /\ UNCHANGED <<files, runs>>
        BY DEF CleanupCommit, CleanupSteps
    <1>2. /\ TypeOK /\ DataInv /\ i \in lock /\ x \in Transactions
          /\ trans[x] \in TransactionStates /\ trans[x].phase = "moved" /\ ~ trans[x].done
        BY <1>1, AtWork DEF Phases
    <1>3. CASE /\ doc' = Cleaned(doc, trans[x].target)
               /\ trans' = [trans EXCEPT ![x].done = TRUE]
               /\ Goto(i, "confirm") /\ UNCHANGED faults
        <2> DEFINE t == [trans[x] EXCEPT !.done = TRUE]
        <2>1. /\ t \in TransactionStates
              /\ t.phase = "moved" /\ t.done = TRUE /\ t.target = trans[x].target
              /\ t.moves = trans[x].moves /\ t.inside = trans[x].inside
            BY <1>2 DEF TransactionStates
        <2>2. trans' = [trans EXCEPT ![x] = t]
            BY <1>3
        <2> HIDE DEF t
        <2>3. /\ trans' \in [Transactions -> TransactionStates]
              /\ trans'[x] = t /\ \A y \in Transactions : y # x => trans'[y] = trans[y]
            BY <1>2, <2>1, <2>2, TransType
        <2>4. trans[x].target \in Targets /\ doc \in Documents
            BY <1>2 DEF TypeOK, TransactionStates
        <2>5. /\ doc' \in Documents /\ doc'.run = 0
              /\ \A s \in Stages :
                     /\ doc'.stage[s] = "succeeded" =>
                            s \notin StageGroup(trans[x].target) /\ doc.stage[s] = "succeeded"
                                /\ doc'.made[s] = doc.made[s]
                     /\ doc'.made[s] \in {0, doc.made[s]}
            BY <1>3, <2>4, CleanedIs
        <2>6. \A y \in Transactions : /\ trans'[y].inside = trans[y].inside
                                      /\ trans'[y].moves = trans[y].moves
                                      /\ trans'[y].target = trans[y].target
                                      /\ trans'[y].phase = "committed" => trans'[y].done
            BY <1>2, <2>1, <2>3 DEF DataInv, PlaceInv
        <2>7. PlaceInv'
            BY <1>1, <1>2, <2>6 DEF DataInv, PlaceInv
        <2>8. Numbered'
            <3>1. doc'.run <= runs /\ \A s \in Stages : doc'.made[s] <= runs
                BY <1>2, <2>5 DEF DataInv, Numbered, TypeOK
            <3> QED  BY <1>1, <1>2, <2>6, <3>1 DEF DataInv, Numbered
        <2>9. ASSUME NEW s \in Stages, doc'.stage[s] = "succeeded"
              PROVE  Kept(<<s, doc.made[s]>>)'
            <3>1. Kept(<<s, doc.made[s]>>) /\ s \notin StageGroup(trans[x].target)
                BY <1>2, <2>5, <2>9 DEF DataInv, KeptInv
            <3>2. <<s, doc.made[s]>> \notin trans[x].inside
                <4>1. s \notin {"timeline", "viewer"}
                    BY DEF Stages
                <4> QED  BY <1>2, <3>1, <4>1 DEF DataInv, PlaceInv
            <3>3. doc'.made[s] = doc.made[s]
                BY <2>5, <2>9
            <3> QED  BY <1>1, <2>3, <3>1, <3>2, <3>3 DEF Kept
        <2>10. KeptInv'
            BY <2>5, <2>9 DEF KeptInv, Kept
        <2>11. "confirm" \in Steps /\ "confirm" \in CleanupSteps
            BY DEF Steps, CleanupSteps
        <2>12. /\ pc' \in [Instances -> Steps] /\ pc'[i] = "confirm"
               /\ \A j \in Instances : j # i => pc'[j] = pc[j]
            BY <1>2, <1>3, <2>11, GotoType
        <2>13. TypeOK'
            BY <1>1, <1>2, <1>3, <2>3, <2>5, <2>12 DEF TypeOK, Stay
        <2>14. trans'[own[i]].phase \in Phases("confirm") /\ trans'[own[i]].done
            BY <2>1, <2>3 DEF Phases
        <2> QED  BY <1>1, <2>7, <2>8, <2>10, <2>11, <2>12, <2>13, <2>14, Working DEF Stay, DataInv
    <1>4. CASE Fault /\ Goto(i, "undo") /\ UNCHANGED <<doc, trans>>
        BY <1>1, <1>4, GoesToUndo
    <1> QED  BY <1>3, <1>4 DEF CleanupCommit

LEMMA CleanupConfirmKeeps ==
    ASSUME IInv, NEW i \in Instances, CleanupConfirm(i)
    PROVE  IInv'
    <1>1. pc[i] = "confirm" /\ pc[i] \in CleanupSteps /\ UNCHANGED <<files, doc, runs>>
        BY DEF CleanupConfirm, CleanupSteps
    <1>2. CASE trans' = [trans EXCEPT ![own[i]].phase = "committed"] /\ Goto(i, "erase") /\ Stay
               /\ UNCHANGED faults
        <2>1. "erase" \in CleanupSteps /\ "committed" \in Phases("erase")
            BY DEF CleanupSteps, Phases
        <2> QED  BY <1>1, <1>2, <2>1, PhaseKeeps
    <1>3. CASE Fault /\ Leave(i) /\ UNCHANGED trans
        <2>1. TypeOK /\ DataInv /\ i \in lock
            BY <1>1, AtWork
        <2>2. TypeOK'
            BY <1>1, <1>3, <2>1, LeaveType, FaultType DEF TypeOK
        <2> QED  BY <1>1, <1>3, <2>1, <2>2, DataStays, Leaving
    <1> QED  BY <1>2, <1>3 DEF CleanupConfirm

\* A removal of a transaction that will give nothing back.
LEMMA EraseIdle ==
    ASSUME TypeOK, DataInv, NEW x \in Transactions, Erase(x) \/ EraseSome(x),
           UNCHANGED <<files, doc, runs>>, \A f : ~ Holds(x, f)
    PROVE  trans' \in [Transactions -> TransactionStates] /\ DataInv'
    <1>1. KeptInv'
        <2>1. CASE trans' = trans
            BY <2>1, DataStays DEF DataInv
        <2>2. CASE Erase(x) \/ trans' = [trans EXCEPT ![x].phase = "bare"]
            <3>1. \A f : Kept(f) => Kept(f)'
                BY <2>2, EraseKeeps
            <3> QED  BY <3>1, KeptAlways DEF DataInv
        <2> QED  BY <2>1, <2>2 DEF EraseSome
    <1> QED  BY <1>1, EraseStep, EraseSomeStep

LEMMA CleanupEraseKeeps ==
    ASSUME IInv, NEW i \in Instances, CleanupErase(i)
    PROVE  IInv'
    <1>1. /\ pc[i] = "erase" /\ pc[i] \in CleanupSteps /\ UNCHANGED <<files, doc, runs>> /\ Leave(i)
          /\ (Erase(own[i]) /\ UNCHANGED faults) \/ (EraseSome(own[i]) /\ Fault)
        BY DEF CleanupErase, CleanupSteps
    <1>2. TypeOK /\ DataInv /\ i \in lock /\ own[i] \in Transactions /\ trans[own[i]].done
        BY <1>1, AtWork
    <1>3. trans' \in [Transactions -> TransactionStates] /\ DataInv'
        <2>1. \A f : ~ Holds(own[i], f)
            BY <1>2 DEF Holds
        <2> QED  BY <1>1, <1>2, <2>1, EraseIdle
    <1>4. TypeOK'
        BY <1>1, <1>2, <1>3, LeaveType, FaultType DEF TypeOK
    <1> QED  BY <1>1, <1>2, <1>3, <1>4, Leaving

LEMMA CleanupUndoKeeps ==
    ASSUME IInv, NEW i \in Instances, CleanupUndo(i)
    PROVE  IInv'
    <1> DEFINE x == own[i]
    <1>1. pc[i] = "undo" /\ pc[i] \in CleanupSteps /\ UNCHANGED <<doc, runs>>
        BY DEF CleanupUndo, CleanupSteps
    <1>2. /\ TypeOK /\ DataInv /\ i \in lock /\ x \in Transactions
          /\ trans[x].phase \in Phases("undo") /\ ~ trans[x].done
        BY <1>1, AtWork
    <1>3. ASSUME NEW f \in trans[x].inside, PutBack(x, f), Stay, UNCHANGED <<pc, faults>>
          PROVE  IInv'
        <2>1. /\ trans' \in [Transactions -> TransactionStates] /\ files' \subseteq Files /\ DataInv'
              /\ trans'[x].phase = trans[x].phase /\ trans'[x].done = trans[x].done
            BY <1>1, <1>2, <1>3, ReturnStep
        <2>2. TypeOK'
            BY <1>1, <1>2, <1>3, <2>1 DEF TypeOK, Stay
        <2>3. pc' \in [Instances -> Steps]
            BY <2>2 DEF TypeOK
        <2> QED  BY <1>1, <1>2, <1>3, <2>1, <2>2, <2>3, Working DEF Stay
    <1>4. CASE trans[x].inside # {} /\ Fault /\ Leave(i) /\ UNCHANGED <<files, trans>>
        <2>1. TypeOK'
            BY <1>1, <1>2, <1>4, LeaveType, FaultType DEF TypeOK
        <2> QED  BY <1>1, <1>2, <1>4, <2>1, DataStays, Leaving
    <1>5. CASE /\ trans[x].inside = {} /\ Leave(i) /\ UNCHANGED files
               /\ (Erase(x) /\ UNCHANGED faults) \/ (EraseSome(x) /\ Fault)
        <2>1. trans' \in [Transactions -> TransactionStates] /\ DataInv'
            <3>1. \A f : ~ Holds(x, f)
                BY <1>5 DEF Holds
            <3> QED  BY <1>1, <1>2, <1>5, <3>1, EraseIdle
        <2>2. TypeOK'
            BY <1>1, <1>2, <1>5, <2>1, LeaveType, FaultType DEF TypeOK
        <2> QED  BY <1>2, <1>5, <2>1, <2>2, Leaving
    <1> QED  BY <1>3, <1>4, <1>5 DEF CleanupUndo

-----------------------------------------------------------------------------
(* A run, and a change of the configuration *)

LEMMA InRun ==
    ASSUME IInv, NEW i \in Instances, pc[i] = "run"
    PROVE  /\ TypeOK /\ DataInv /\ i \in lock
           /\ doc.status = "running" /\ doc.run = runs /\ runs \in Runs
           /\ \A x \in Transactions : \A f \in trans[x].inside : f[2] # runs
           /\ doc.made["export"] = runs => <<"export", runs>> \in files
           /\ <<"viewer", runs>> \in files =>
                  <<"timeline", runs>> \in files /\ <<"export", runs>> \in files
    BY BoundsAssumption DEF IInv, OwnInv, Active, TypeOK, Runs

LEMMA RunBeginKeeps ==
    ASSUME IInv, NEW i \in Instances, RunBegin(i)
    PROVE  IInv'
    <1> USE BoundsAssumption
    <1>1. TypeOK /\ DataInv
        BY DEF IInv
    <1>2. /\ lock = {} /\ lock' = {i} /\ Goto(i, "run") /\ runs < MaxRuns /\ runs' = runs + 1
          /\ doc' = [doc EXCEPT !.status = "running", !.run = runs + 1]
          /\ UNCHANGED <<files, trans, own, faults>>
        BY DEF RunBegin
    <1>3. /\ doc' \in Documents /\ doc'.status = "running" /\ doc'.run = runs + 1
          /\ doc'.stage = doc.stage /\ doc'.made = doc.made
        <2>1. doc \in Documents /\ runs + 1 \in 0..MaxRuns
            BY <1>1, <1>2 DEF TypeOK
        <2> DEFINE n == runs + 1
        <2>2. doc' = [doc EXCEPT !.status = "running", !.run = n]
            BY <1>2
        <2> HIDE DEF n
        <2>3. n \in 0..MaxRuns
            BY <2>1 DEF n
        <2>4. /\ doc' \in Documents /\ doc'.status = "running" /\ doc'.run = n
              /\ doc'.stage = doc.stage /\ doc'.made = doc.made
            BY <2>1, <2>2, <2>3 DEF Documents
        <2> QED  BY <2>4 DEF n
    <1>4. /\ pc' \in [Instances -> Steps] /\ pc'[i] = "run"
          /\ \A j \in Instances : j # i => pc'[j] = pc[j]
        <2>1. "run" \in Steps
            BY DEF Steps
        <2> QED  BY <1>1, <1>2, <2>1, GotoType
    <1>5. runs \in Nat /\ runs' \in 0..MaxRuns
        BY <1>1, <1>2 DEF TypeOK
    <1>6. TypeOK'
        BY <1>1, <1>2, <1>3, <1>4, <1>5 DEF TypeOK
    <1>7. /\ \A s \in Stages : doc.made[s] \in Nat /\ doc.made[s] <= runs
          /\ \A f \in files : f[2] \in Nat /\ f[2] <= runs
          /\ \A x \in Transactions : \A f \in trans[x].inside : f[2] \in Nat /\ f[2] <= runs
        BY <1>1 DEF TypeOK, Documents, TransactionStates, Files, Runs, DataInv, Numbered
    <1>8. Numbered'
        BY <1>2, <1>3, <1>5, <1>7 DEF Numbered
    <1>9. PlaceInv'
        BY <1>1, <1>2 DEF DataInv, PlaceInv
    <1>10. KeptInv'
        <2>1. doc'.status # "succeeded"
            BY <1>3
        <2>2. \A f : Kept(f) => Kept(f)'
            BY <1>2 DEF Kept
        <2>3. ASSUME NEW s \in Stages, doc'.stage[s] = "succeeded"
              PROVE  Kept(<<s, doc.made[s]>>)' /\ doc'.made[s] = doc.made[s]
            BY <1>1, <1>3, <2>2, <2>3 DEF DataInv, KeptInv
        <2> QED  BY <2>1, <2>3 DEF KeptInv, Kept
    <1>11. OwnInv(i)'
        <2>1. /\ doc'.made["export"] # runs' /\ runs' # 0
              /\ <<"viewer", runs'>> \notin files'
              /\ \A x \in Transactions : \A f \in trans'[x].inside : f[2] # runs'
            <3>1. runs' # 0 /\ \A n \in Nat : n <= runs => n # runs'
                BY <1>2, <1>5
            <3>2. "export" \in Stages
                BY DEF Stages
            <3> QED  BY <1>2, <1>3, <1>7, <3>1, <3>2
        <2>2. "run" \notin CleanupSteps
            BY DEF CleanupSteps
        <2> QED  BY <1>2, <1>3, <1>4, <2>1, <2>2 DEF OwnInv, Active
    <1> QED  BY <1>2, <1>4, <1>6, <1>8, <1>9, <1>10, <1>11, Acting DEF DataInv

\* The run stays at work.
LEMMA Running ==
    ASSUME IInv, NEW i \in Instances, pc[i] = "run", UNCHANGED <<trans, lock, pc, own, runs, faults>>,
           doc' \in Documents, doc'.status = "running", doc'.run = runs, files' \subseteq Files,
           DataInv',
           doc'.made["export"] = runs => <<"export", runs>> \in files',
           <<"viewer", runs>> \in files' =>
               <<"timeline", runs>> \in files' /\ <<"export", runs>> \in files'
    PROVE  IInv'
    <1>1. /\ TypeOK /\ i \in lock /\ runs # 0
          /\ \A x \in Transactions : \A f \in trans[x].inside : f[2] # runs
        BY InRun DEF Runs
    <1>2. TypeOK'
        BY <1>1 DEF TypeOK
    <1>3. OwnInv(i)'
        <2>1. "run" \notin CleanupSteps
            BY DEF CleanupSteps
        <2> QED  BY <1>1, <2>1 DEF OwnInv, Active
    <1> QED  BY <1>1, <1>2, <1>3, Acting

LEMMA RunFile ==
    ASSUME IInv, NEW i \in Instances, pc[i] = "run", NEW o \in Stages \cup {"timeline"}
    PROVE  <<o, runs>> \in Files
    BY InRun DEF Files

LEMMA RunStageKeeps ==
    ASSUME IInv, NEW i \in Instances, NEW s \in Stages, RunStage(i, s)
    PROVE  IInv'
    <1>1. /\ pc[i] = "run" /\ UNCHANGED <<trans, lock, pc, own, runs, faults>>
          /\ TypeOK /\ DataInv /\ doc.status = "running" /\ doc.run = runs /\ runs \in 0..MaxRuns
          /\ \A x \in Transactions : \A f \in trans[x].inside : f[2] # runs
          /\ doc.made["export"] = runs => <<"export", runs>> \in files
          /\ <<"viewer", runs>> \in files =>
                 <<"timeline", runs>> \in files /\ <<"export", runs>> \in files
        BY InRun DEF RunStage, TypeOK
    <1>2. "viewer" \notin Stages /\ "export" \in Stages
        BY DEF Stages
    <1>3. CASE files' = files \cup {<<s, doc.run>>} /\ UNCHANGED doc
        <2>1. <<s, runs>> \in Files
            BY <1>1, RunFile
        <2>2. files' \subseteq Files /\ DataInv'
            BY <1>1, <1>3, <2>1, AddStep
        <2>3. doc \in Documents
            BY <1>1 DEF TypeOK
        <2>4. <<"viewer", runs>> \in files' => <<"viewer", runs>> \in files
            BY <1>1, <1>2, <1>3
        <2> QED  BY <1>1, <1>3, <2>2, <2>3, <2>4, Running
    <1>4. CASE /\ <<s, doc.run>> \in files
               /\ doc' = [doc EXCEPT !.stage[s] = "succeeded", !.made[s] = doc.run]
               /\ UNCHANGED files
        <2> DEFINE stage == [doc.stage EXCEPT ![s] = "succeeded"]
        <2> DEFINE made == [doc.made EXCEPT ![s] = runs]
        <2>1. doc \in Documents
            BY <1>1 DEF TypeOK
        <2>2. /\ stage \in [Stages -> {"pending", "succeeded", "stale"}] /\ stage[s] = "succeeded"
              /\ made \in [Stages -> 0..MaxRuns] /\ made[s] = runs
              /\ \A u \in Stages : u # s => stage[u] = doc.stage[u] /\ made[u] = doc.made[u]
            BY <1>1, <2>1 DEF Documents
        <2>3. doc' = [doc EXCEPT !.stage = stage, !.made = made]
            BY <1>1, <1>4, <2>1 DEF Documents
        <2> HIDE DEF stage, made
        <2>4. /\ doc' \in Documents /\ doc'.status = "running" /\ doc'.run = runs
              /\ doc'.stage = stage /\ doc'.made = made
            BY <1>1, <2>1, <2>2, <2>3 DEF Documents
        <2>5. PlaceInv'
            BY <1>1, <1>4 DEF DataInv, PlaceInv
        <2>6. Numbered'
            <3>1. runs <= runs
                BY <1>1
            <3> QED  BY <1>1, <1>4, <2>2, <2>4, <3>1 DEF DataInv, Numbered
        <2>7. KeptInv'
            <3>1. ASSUME NEW u \in Stages, doc'.stage[u] = "succeeded" PROVE Kept(<<u, made[u]>>)
                BY <1>1, <1>4, <2>2, <2>4, <3>1 DEF DataInv, KeptInv, Kept
            <3> QED  BY <1>1, <1>4, <2>4, <3>1 DEF KeptInv, Kept
        <2>8. doc'.made["export"] = runs => <<"export", runs>> \in files'
            BY <1>1, <1>2, <1>4, <2>2, <2>4
        <2>9. files' \subseteq Files
            BY <1>1, <1>4 DEF TypeOK
        <2> QED  BY <1>1, <1>4, <2>4, <2>5, <2>6, <2>7, <2>8, <2>9, Running DEF DataInv
    <1> QED  BY <1>3, <1>4 DEF RunStage

LEMMA RunTimelineKeeps ==
    ASSUME IInv, NEW i \in Instances, RunTimeline(i)
    PROVE  IInv'
    <1>1. /\ pc[i] = "run" /\ UNCHANGED <<doc, trans, lock, pc, own, runs, faults>>
          /\ files' = files \cup {<<"timeline", runs>>}
          /\ TypeOK /\ DataInv /\ doc.status = "running" /\ doc.run = runs
          /\ \A x \in Transactions : \A f \in trans[x].inside : f[2] # runs
          /\ doc.made["export"] = runs => <<"export", runs>> \in files
          /\ <<"viewer", runs>> \in files =>
                 <<"timeline", runs>> \in files /\ <<"export", runs>> \in files
        BY InRun DEF RunTimeline
    <1>2. <<"timeline", runs>> \in Files
        BY <1>1, RunFile
    <1>3. files' \subseteq Files /\ DataInv'
        BY <1>1, <1>2, AddStep
    <1>4. doc \in Documents
        BY <1>1 DEF TypeOK
    <1> QED  BY <1>1, <1>3, <1>4, Running

LEMMA RunPublishKeeps ==
    ASSUME IInv, NEW i \in Instances, RunPublish(i)
    PROVE  IInv'
    <1>1. /\ pc[i] = "run" /\ UNCHANGED <<doc, trans, lock, pc, own, runs, faults>>
          /\ files' = (files \ ({"viewer"} \X Runs)) \cup {<<"viewer", runs>>}
          /\ TypeOK /\ DataInv /\ doc.status = "running" /\ doc.run = runs /\ runs \in Runs
          /\ \A x \in Transactions : \A f \in trans[x].inside : f[2] # runs
          /\ <<"timeline", runs>> \in files /\ <<"export", runs>> \in files
        BY InRun DEF RunPublish
    <1>2. <<"viewer", runs>> \in Files
        BY <1>1 DEF Files
    <1>3. files' \subseteq Files /\ DataInv'
        BY <1>1, <1>2, AddStep
    <1>4. doc \in Documents
        BY <1>1 DEF TypeOK
    <1>5. <<"timeline", runs>> \in files' /\ <<"export", runs>> \in files'
        BY <1>1
    <1> QED  BY <1>1, <1>3, <1>4, <1>5, Running

LEMMA RunEndKeeps ==
    ASSUME IInv, NEW i \in Instances, RunEnd(i)
    PROVE  IInv'
    <1> DEFINE status == IF <<"viewer", doc.run>> \in files THEN "succeeded" ELSE "interrupted"
    <1>1. /\ pc[i] = "run" /\ doc' = [doc EXCEPT !.status = status] /\ Leave(i)
          /\ UNCHANGED <<files, trans, runs, faults>>
          /\ TypeOK /\ DataInv /\ i \in lock /\ doc.run = runs /\ runs \in Runs
          /\ <<"viewer", runs>> \in files =>
                 <<"timeline", runs>> \in files /\ <<"export", runs>> \in files
        BY InRun DEF RunEnd
    <1>2. /\ doc' \in Documents /\ doc'.status = status
          /\ doc'.run = doc.run /\ doc'.stage = doc.stage /\ doc'.made = doc.made
        BY <1>1 DEF TypeOK, Documents
    <1>3. PlaceInv' /\ Numbered'
        BY <1>1, <1>2 DEF DataInv, PlaceInv, Numbered
    <1>4. KeptInv'
        <2>1. \A f : f \in files => Kept(f)'
            BY <1>1 DEF Kept
        <2>2. doc'.status = "succeeded" => /\ Kept(<<"timeline", runs>>)' /\ Kept(<<"export", runs>>)'
                                           /\ Kept(<<"viewer", runs>>)'
            BY <1>1, <1>2, <2>1 DEF Kept
        <2>3. \A f : Kept(f) => Kept(f)'
            BY <1>1 DEF Kept
        <2>4. \A s \in Stages : doc'.stage[s] = "succeeded" => Kept(<<s, doc'.made[s]>>)
            BY <1>1, <1>2 DEF DataInv, KeptInv
        <2> QED  BY <1>1, <1>2, <2>2, <2>3, <2>4 DEF KeptInv, Kept
    <1>5. TypeOK'
        BY <1>1, <1>2, LeaveType DEF TypeOK
    <1> QED  BY <1>1, <1>3, <1>4, <1>5, Leaving DEF DataInv

LEMMA ConfigureKeeps ==
    ASSUME IInv, NEW i \in Instances, Configure(i)
    PROVE  IInv'
    <1> DEFINE stage == [s \in Stages |-> IF doc.stage[s] = "succeeded" THEN "stale" ELSE doc.stage[s]]
    <1>1. TypeOK /\ DataInv /\ doc \in Documents
        BY DEF IInv, TypeOK
    <1>2. PICK status \in {"ready", doc.status} :
              doc' = [doc EXCEPT !.status = status, !.run = 0, !.stage = stage]
        BY DEF Configure
    <1>3. /\ pc[i] = "idle" /\ lock = {} /\ UNCHANGED <<files, trans, lock, pc, own, runs, faults>>
        BY DEF Configure
    <1>4. /\ stage \in [Stages -> {"pending", "succeeded", "stale"}]
          /\ \A s \in Stages : stage[s] # "succeeded"
        BY <1>1 DEF Documents
    <1> HIDE DEF stage
    <1>5. /\ doc' \in Documents /\ doc'.run = 0 /\ doc'.stage = stage /\ doc'.made = doc.made
        <2>1. 0 \in 0..MaxRuns /\ status \in {"ready", "running", "succeeded", "interrupted"}
            BY <1>1, BoundsAssumption DEF Documents
        <2> QED  BY <1>1, <1>2, <1>4, <2>1 DEF Documents
    <1>6. TypeOK'
        BY <1>1, <1>3, <1>5 DEF TypeOK
    <1>7. PlaceInv' /\ Numbered' /\ KeptInv'
        <2>1. 0 <= runs
            BY <1>1 DEF TypeOK
        <2> QED  BY <1>1, <1>3, <1>4, <1>5, <2>1 DEF DataInv, PlaceInv, Numbered, KeptInv
    <1>8. OwnInv(i)'
        BY <1>3 DEF OwnInv, Active, CleanupSteps
    <1> QED  BY <1>3, <1>6, <1>7, <1>8, Acting DEF DataInv

-----------------------------------------------------------------------------
(* Startup *)

LEMMA StartKeeps ==
    ASSUME IInv, NEW i \in Instances, Start(i)
    PROVE  IInv'
    <1>1. /\ pc[i] = "down" /\ Goto(i, "recover") /\ UNCHANGED <<files, trans, lock, own, runs, faults>>
          /\ doc' = IF doc.status = "running" /\ lock = {} THEN [doc EXCEPT !.status = "interrupted"]
                    ELSE doc
          /\ TypeOK /\ DataInv /\ doc \in Documents
        BY DEF Start, IInv, TypeOK
    <1>2. /\ pc' \in [Instances -> Steps] /\ pc'[i] = "recover"
          /\ \A j \in Instances : j # i => pc'[j] = pc[j]
        <2>1. "recover" \in Steps
            BY DEF Steps
        <2> QED  BY <1>1, <2>1, GotoType
    <1>3. i \notin lock
        BY <1>1 DEF IInv, OwnInv, Active, CleanupSteps
    <1>4. /\ doc' \in Documents /\ doc'.run = doc.run /\ doc'.stage = doc.stage /\ doc'.made = doc.made
          /\ doc'.status \in {doc.status, "interrupted"}
          /\ doc' = doc \/ lock = {}
        BY <1>1 DEF Documents
    <1>5. TypeOK'
        BY <1>1, <1>2, <1>4 DEF TypeOK
    <1>6. PlaceInv' /\ Numbered'
        BY <1>1, <1>4 DEF DataInv, PlaceInv, Numbered
    <1>7. KeptInv'
        <2>1. \A f : Kept(f) => Kept(f)'
            BY <1>1 DEF Kept
        <2>2. \A s \in Stages : doc'.stage[s] = "succeeded" => Kept(<<s, doc.made[s]>>)'
            BY <1>1, <1>4, <2>1 DEF DataInv, KeptInv
        <2>3. ASSUME doc'.status = "succeeded", doc'.run # 0
              PROVE  /\ Kept(<<"timeline", doc.run>>)' /\ Kept(<<"export", doc.run>>)'
                     /\ \E r \in Runs : Kept(<<"viewer", r>>)'
            BY <1>1, <1>4, <2>1, <2>3 DEF DataInv, KeptInv
        <2> QED  BY <1>1, <1>4, <2>2, <2>3 DEF KeptInv, Kept
    <1> QED  BY <1>1, <1>2, <1>3, <1>4, <1>5, <1>6, <1>7, Aside DEF DataInv

\* Thread i leaves, having changed nothing.
LEMMA Retire ==
    ASSUME IInv, NEW i \in Instances, UNCHANGED <<files, doc, trans, runs>>, faults' \in 0..MaxFaults,
           pc' \in [Instances -> Steps], pc'[i] \in {"idle", "down"},
           own' \in [Instances -> 0..MaxCleanups], lock' = lock \ {i},
           \A j \in Instances : j # i => pc'[j] = pc[j] /\ own'[j] = own[j]
    PROVE  IInv'
    <1>1. TypeOK /\ DataInv
        BY DEF IInv
    <1>2. TypeOK'
        BY <1>1 DEF TypeOK
    <1> QED  BY <1>1, <1>2, DataStays, Aside

LEMMA RecoverBeginKeeps ==
    ASSUME IInv, NEW i \in Instances, RecoverBegin(i)
    PROVE  IInv'
    <1>1. /\ TypeOK /\ DataInv /\ pc[i] = "recover" /\ UNCHANGED <<files, doc, trans, runs, faults>>
          /\ faults \in 0..MaxFaults
        BY DEF IInv, TypeOK, RecoverBegin
    <1>2. CASE lock = {} /\ lock' = {i} /\ UNCHANGED <<pc, own>>
        <2>1. TypeOK'
            BY <1>1, <1>2 DEF TypeOK
        <2>2. OwnInv(i)'
            BY <1>1, <1>2 DEF OwnInv, Active, CleanupSteps
        <2> QED  BY <1>1, <1>2, <2>1, <2>2, DataStays, Acting
    <1>3. CASE Leave(i)
        BY <1>1, <1>3, LeaveType, Retire
    <1> QED  BY <1>2, <1>3 DEF RecoverBegin

LEMMA RecoverEndKeeps ==
    ASSUME IInv, NEW i \in Instances, RecoverEnd(i)
    PROVE  IInv'
    <1>1. TypeOK /\ Leave(i) /\ UNCHANGED <<files, doc, trans, runs, faults>> /\ faults \in 0..MaxFaults
        BY DEF IInv, TypeOK, RecoverEnd
    <1> QED  BY <1>1, LeaveType, Retire

LEMMA QuitKeeps ==
    ASSUME IInv, NEW i \in Instances, Quit(i)
    PROVE  IInv'
    <1>1. /\ TypeOK /\ Die(i) /\ UNCHANGED <<files, doc, trans, runs, faults>>
          /\ faults \in 0..MaxFaults
        BY DEF IInv, TypeOK, Quit, Die
    <1> QED  BY <1>1, DieType, Retire

LEMMA CrashKeeps ==
    ASSUME IInv, NEW i \in Instances, Crash(i)
    PROVE  IInv'
    <1>1. TypeOK /\ Die(i) /\ Fault /\ UNCHANGED <<files, doc, trans, runs>>
        BY DEF IInv, Crash, Die
    <1> QED  BY <1>1, DieType, FaultType, Retire

\* What recovery erases holds nothing that the document relies on.
LEMMA NothingLeft ==
    ASSUME IInv, NEW x \in Transactions,
           \/ trans[x].phase = "committed" \/ MetadataCommitted(x)
           \/ {f \in trans[x].inside : Free(f)} = {}
    PROVE  /\ \A s \in Stages : doc.stage[s] = "succeeded" => ~ Holds(x, <<s, doc.made[s]>>)
           /\ doc.run # 0 =>
                  /\ ~ Holds(x, <<"timeline", doc.run>>)
                  /\ ~ Holds(x, <<"export", doc.run>>)
                  /\ \A r \in Runs : Holds(x, <<"viewer", r>>) => \E q \in Runs : <<"viewer", q>> \in files
    <1>1. DataInv /\ TypeOK
        BY DEF IInv
    <1>2. \A s \in Stages : s \notin {"timeline", "viewer"}
        BY DEF Stages
    <1>3. CASE trans[x].phase = "committed"
        BY <1>3 DEF Holds
    <1>4. CASE MetadataCommitted(x)
        <2>1. ASSUME NEW s \in Stages, doc.stage[s] = "succeeded", Holds(x, <<s, doc.made[s]>>)
              PROVE  FALSE
            <3>1. s \in StageGroup(trans[x].target)
                BY <1>1, <1>2, <2>1 DEF Holds, DataInv, PlaceInv
            <3> QED  BY <1>4, <2>1, <3>1 DEF MetadataCommitted
        <2>2. doc.run = 0
            BY <1>4 DEF MetadataCommitted
        <2> QED  BY <2>1, <2>2
    <1>5. CASE {f \in trans[x].inside : Free(f)} = {}
        <2>1. \A f \in trans[x].inside : f \notin files /\ ~ Free(f)
            BY <1>1, <1>5 DEF DataInv, PlaceInv
        <2>2. \A f \in trans[x].inside : f[1] = "viewer" /\ \E r \in Runs : <<"viewer", r>> \in files
            BY <2>1 DEF Free
        <2>3. \A o : o # "viewer" => \A n : ~ Holds(x, <<o, n>>)
            BY <2>2 DEF Holds
        <2>4. \A f : Holds(x, f) => \E r \in Runs : <<"viewer", r>> \in files
            BY <2>2 DEF Holds
        <2> QED  BY <1>2, <2>3, <2>4
    <1> QED  BY <1>3, <1>4, <1>5

LEMMA RecoverErases ==
    ASSUME IInv, NEW x \in Transactions, Erase(x) \/ EraseSome(x), UNCHANGED <<files, doc, runs>>,
           \/ trans[x].phase = "committed" \/ MetadataCommitted(x)
           \/ {f \in trans[x].inside : Free(f)} = {}
    PROVE  trans' \in [Transactions -> TransactionStates] /\ DataInv'
    <1>1. DataInv /\ TypeOK
        BY DEF IInv
    <1>2. CASE trans' = trans
        BY <1>1, <1>2, DataStays DEF TypeOK
    <1>3. CASE Erase(x) \/ trans' = [trans EXCEPT ![x].phase = "bare"]
        <2>1. \A f : Kept(f) /\ ~ Holds(x, f) => Kept(f)'
            BY <1>1, <1>3, EraseKeeps
        <2>2. \A f \in files : Kept(f)'
            BY DEF Kept
        <2>3. ASSUME NEW r \in Runs, doc.run # 0, Kept(<<"viewer", r>>)
              PROVE  \E q \in Runs : Kept(<<"viewer", q>>)'
            <3>1. Holds(x, <<"viewer", r>>) => \E q \in Runs : <<"viewer", q>> \in files
                BY <2>3, NothingLeft
            <3> QED  BY <2>1, <2>2, <2>3, <3>1
        <2>4. /\ \A s \in Stages : doc.stage[s] = "succeeded" => ~ Holds(x, <<s, doc.made[s]>>)
              /\ doc.run # 0 => ~ Holds(x, <<"timeline", doc.run>>) /\ ~ Holds(x, <<"export", doc.run>>)
            BY NothingLeft
        <2>5. KeptInv'
            BY <1>1, <2>1, <2>3, <2>4, KeptStays DEF DataInv
        <2>6. Erase(x) \/ EraseSome(x)
            OBVIOUS
        <2> QED  BY <1>1, <2>5, <2>6, EraseStep, EraseSomeStep
    <1> QED  BY <1>2, <1>3 DEF EraseSome

LEMMA RecoverKeeps ==
    ASSUME IInv, NEW i \in Instances, NEW x \in Transactions, Recover(i, x)
    PROVE  IInv'
    <1> DEFINE done == trans[x].phase = "committed" \/ MetadataCommitted(x)
                       \/ {f \in trans[x].inside : Free(f)} = {}
    <1>1. /\ pc[i] = "recover" /\ i \in lock /\ UNCHANGED <<doc, runs>> /\ TypeOK /\ DataInv
        BY DEF Recover, IInv
    <1>2. ASSUME NEW f \in trans[x].inside, PutBack(x, f), Stay, UNCHANGED <<pc, faults>>
          PROVE  IInv'
        <2>1. trans' \in [Transactions -> TransactionStates] /\ files' \subseteq Files /\ DataInv'
            BY <1>1, <1>2, ReturnStep
        <2>2. TypeOK'
            BY <1>1, <1>2, <2>1 DEF TypeOK, Stay
        <2>3. OwnInv(i)'
            BY <1>1, <1>2 DEF OwnInv, Active, CleanupSteps, Stay
        <2> QED  BY <1>1, <1>2, <2>1, <2>2, <2>3, Acting DEF Stay
    <1>3. CASE done /\ Erase(x) /\ Stay /\ UNCHANGED <<files, pc, faults>>
        <2>1. trans' \in [Transactions -> TransactionStates] /\ DataInv'
            BY <1>1, <1>3, RecoverErases
        <2>2. TypeOK'
            BY <1>1, <1>3, <2>1 DEF TypeOK, Stay
        <2>3. OwnInv(i)'
            BY <1>1, <1>3 DEF OwnInv, Active, CleanupSteps, Stay
        <2> QED  BY <1>1, <1>3, <2>1, <2>2, <2>3, Acting DEF Stay
    <1>4. CASE Fault /\ trans' = trans /\ Leave(i) /\ UNCHANGED files
        BY <1>1, <1>4, LeaveType, FaultType, Retire
    <1>5. CASE done /\ Fault /\ EraseSome(x) /\ Leave(i) /\ UNCHANGED files
        <2>1. trans' \in [Transactions -> TransactionStates] /\ DataInv'
            BY <1>1, <1>5, RecoverErases
        <2>2. TypeOK'
            BY <1>1, <1>5, <2>1, LeaveType, FaultType DEF TypeOK
        <2> QED  BY <1>1, <1>5, <2>1, <2>2, Leaving
    <1> QED  BY <1>2, <1>3, <1>4, <1>5 DEF Recover

-----------------------------------------------------------------------------
(* The theorems *)

LEMMA InitIInv ==
    ASSUME Init
    PROVE  IInv
    <1> USE BoundsAssumption
    <1>1. doc \in Documents
        BY DEF Init, Documents
    <1>2. NoTransaction \in TransactionStates
        BY DEF NoTransaction, TransactionStates, Targets
    <1>3. pc \in [Instances -> Steps] /\ own \in [Instances -> 0..MaxCleanups]
        BY DEF Init, Steps
    <1>4. TypeOK
        BY <1>1, <1>2, <1>3 DEF Init, TypeOK
    <1>5. \A x \in Transactions : trans[x].phase = "absent" /\ trans[x].inside = {} /\ trans[x].moves = {}
        BY DEF Init, NoTransaction
    <1>6. doc.run = 0 /\ \A s \in Stages : doc.made[s] = 0 /\ doc.stage[s] = "pending"
        BY DEF Init
    <1>7. DataInv
        BY <1>5, <1>6 DEF Init, DataInv, PlaceInv, Numbered, KeptInv
    <1>8. \A i \in Instances : OwnInv(i)
        BY DEF Init, OwnInv, Active, CleanupSteps
    <1> QED  BY <1>4, <1>7, <1>8 DEF Init, IInv

LEMMA NextKeeps ==
    ASSUME IInv, [Next]_vars
    PROVE  IInv'
    <1>1. CASE UNCHANGED vars
        BY <1>1 DEF vars, IInv, TypeOK, DataInv, PlaceInv, Numbered, KeptInv, Kept, OwnInv
    <1>2. ASSUME NEW i \in Instances, Cleanup(i) PROVE IInv'
        <2>1. ASSUME NEW x \in Transactions, NEW t \in Choices[x] PROVE t \in Targets
            BY <2>1, ChoicesAssumption
        <2> QED  BY <1>2, <2>1, CleanupBeginKeeps, CleanupRecordKeeps, CleanupMoveKeeps,
                    CleanupCommitKeeps, CleanupConfirmKeeps, CleanupEraseKeeps, CleanupUndoKeeps
                 DEF Cleanup
    <1>3. ASSUME NEW i \in Instances, Run(i) PROVE IInv'
        BY <1>3, RunBeginKeeps, RunTimelineKeeps, RunPublishKeeps, RunEndKeeps, ConfigureKeeps,
           RunStageKeeps DEF Run
    <1>4. ASSUME NEW i \in Instances, Startup(i) PROVE IInv'
        BY <1>4, StartKeeps, RecoverBeginKeeps, RecoverEndKeeps, RecoverKeeps DEF Startup
    <1> QED  BY <1>1, <1>2, <1>3, <1>4, QuitKeeps, CrashKeeps DEF Next

\* The run lock has one holder, every step of a cleanup finds its directory
\* as it left it, no output is in two places, and what the document relies on
\* is in place or will be given back.
THEOREM CleanupCorrect == Spec => []CleanupInv
    <1>1. Init => IInv
        BY InitIInv
    <1>2. IInv /\ [Next]_vars => IInv'
        BY NextKeeps
    <1>3. IInv => CleanupInv
        BY IInvIsCleanupInv
    <1> QED  BY <1>1, <1>2, <1>3, PTL DEF Spec

LEMMA NothingLostInv ==
    ASSUME IInv
    PROVE  NothingLost
    <1>1. DataInv
        BY DEF IInv
    <1>2. ASSUME NEW s \in Stages, doc.stage[s] = "succeeded", <<s, doc.made[s]>> \notin files
          PROVE  \E x \in Transactions : Undoable(x) /\ <<s, doc.made[s]>> \in trans[x].inside
        <2>1. PICK x \in Transactions :
                  trans[x].phase \in {"moving", "moved"} /\ <<s, doc.made[s]>> \in trans[x].inside
            BY <1>1, <1>2 DEF DataInv, KeptInv, Kept
        <2>2. s \notin {"timeline", "viewer"}
            BY DEF Stages
        <2>3. s \in StageGroup(trans[x].target)
            BY <1>1, <2>1, <2>2 DEF DataInv, PlaceInv
        <2> QED  BY <1>2, <2>1, <2>3 DEF Undoable, Known, MetadataCommitted
    <1> QED  BY <1>2 DEF NothingLost

\* A result that the document names is in place or in a transaction that the
\* next start will undo.
THEOREM KeepsResults == Spec => []NothingLost
    <1>1. Init => IInv
        BY InitIInv
    <1>2. IInv /\ [Next]_vars => IInv'
        BY NextKeeps
    <1>3. IInv => NothingLost
        BY NothingLostInv
    <1> QED  BY <1>1, <1>2, <1>3, PTL DEF Spec

\* What remains of SucceededOpens with any number of cleanups: the timeline
\* and the exports of the run are there, and a receipt, if perhaps not its own.
SucceededKeeps ==
    doc.status = "succeeded" /\ doc.run # 0 /\ lock = {} /\ (\A x \in Transactions : ~ Known(x)) =>
        /\ {<<"timeline", doc.run>>, <<"export", doc.run>>} \subseteq files
        /\ \E r \in Runs : <<"viewer", r>> \in files

\* A project shown as succeeded, with nothing left to recover, has the timeline and
\* the exports of its run, and a receipt.
THEOREM KeepsRun == Spec => []SucceededKeeps
    <1>1. Init => IInv
        BY InitIInv
    <1>2. IInv /\ [Next]_vars => IInv'
        BY NextKeeps
    <1>3. IInv => SucceededKeeps
        <2> SUFFICES ASSUME IInv, doc.status = "succeeded", doc.run # 0,
                            \A x \in Transactions : ~ Known(x)
                     PROVE  /\ {<<"timeline", doc.run>>, <<"export", doc.run>>} \subseteq files
                            /\ \E r \in Runs : <<"viewer", r>> \in files
            BY DEF SucceededKeeps
        <2>1. \A f : Kept(f) => f \in files
            BY DEF Kept, Known
        <2> QED  BY <2>1 DEF IInv, DataInv, KeptInv
    <1> QED  BY <1>1, <1>2, <1>3, PTL DEF Spec

\* While a run is in progress nobody else moves an output or touches a
\* transaction, and the run itself takes away receipts only.
THEOREM RunAlone == Spec => RunUndisturbed
    <1> DEFINE Quiet == \A i \in Instances :
                  pc[i] = "run" /\ pc'[i] = "run" =>
                      trans' = trans /\ (files \ ({"viewer"} \X Runs)) \subseteq files'
    <1>1. Init => IInv
        BY InitIInv
    <1>2. IInv /\ [Next]_vars => IInv'
        BY NextKeeps
    <1>3. IInv /\ [Next]_vars => [Quiet]_vars
        <2> SUFFICES ASSUME IInv, Next, NEW i \in Instances, pc[i] = "run", pc'[i] = "run"
                     PROVE  trans' = trans /\ (files \ ({"viewer"} \X Runs)) \subseteq files'
            OBVIOUS
        <2>1. i \in lock /\ \A j \in Instances : j # i => j \notin lock /\ pc[j] \notin Active
            BY InRun, Alone
        <2>2. PICK j \in Instances : Cleanup(j) \/ Run(j) \/ Startup(j) \/ Quit(j) \/ Crash(j)
            BY DEF Next
        <2>3. pc[j] \notin CleanupSteps
            BY <2>1 DEF Active, CleanupSteps
        <2>4. ~ Cleanup(j)
            BY <2>1, <2>3 DEF Cleanup, CleanupBegin, CleanupRecord, CleanupMove, CleanupCommit,
                   CleanupConfirm, CleanupErase, CleanupUndo, CleanupSteps
        <2>5. CASE Run(j)
            BY <2>5 DEF Run, RunBegin, RunTimeline, RunPublish, RunEnd, Configure, RunStage
        <2>6. CASE Startup(j)
            <3>1. ASSUME NEW x \in Transactions PROVE ~ Recover(j, x)
                BY <2>1 DEF Recover
            <3> QED  BY <2>6, <3>1 DEF Startup, Start, RecoverBegin, RecoverEnd
        <2>7. CASE Quit(j) \/ Crash(j)
            BY <2>7 DEF Quit, Crash, Die
        <2> QED  BY <2>2, <2>4, <2>5, <2>6, <2>7
    <1>4. Spec => [][Quiet]_vars
        BY <1>1, <1>2, <1>3, PTL DEF Spec
    <1> QED  BY <1>4 DEF RunUndisturbed

-----------------------------------------------------------------------------
(* The receipt.  All receipts share one path, so what is put back depends on *)
(* which of two leftover transactions is looked at first.                    *)

OneOf(S) == \A f, g \in S \cap Receipts : f = g

StepReceipt(i) ==
    /\ pc[i] = "record" => trans[own[i]].inside = {}
    /\ pc[i] = "move" => files \cap Receipts = {} \/ trans[own[i]].inside \cap Receipts = {}

DocReceipt ==
    doc.status = "succeeded" /\ doc.run # 0 =>
        Kept(<<"viewer", doc.run>>) /\ \A f \in files \cap Receipts : f = <<"viewer", doc.run>>

\* A transaction has one receipt, and a succeeded project its own.
ReceiptInv ==
    /\ OneOf(files) /\ \A x \in Transactions : OneOf(trans[x].inside)
    /\ \A i \in Instances : StepReceipt(i)
    /\ DocReceipt

LEMMA OthersStep ==
    ASSUME IInv, NEW i \in Instances, lock = {} \/ i \in lock,
           \A j \in Instances : j # i => pc'[j] = pc[j], StepReceipt(i)'
    PROVE  \A j \in Instances : StepReceipt(j)'
    <1>1. \A j \in Instances : j # i => pc'[j] \notin Active
        BY Alone
    <1> QED  BY <1>1 DEF StepReceipt, Active, CleanupSteps

\* A step that moves no output.
LEMMA LessKept ==
    ASSUME ReceiptInv, UNCHANGED files,
           \A y \in Transactions : trans'[y].inside \subseteq trans[y].inside,
           \A j \in Instances : StepReceipt(j)',
           doc'.status = "succeeded" /\ doc'.run # 0 =>
               doc.status = "succeeded" /\ doc'.run = doc.run /\ Kept(<<"viewer", doc.run>>)'
    PROVE  ReceiptInv'
    <1>1. \A y \in Transactions : OneOf(trans[y].inside)'
        BY DEF ReceiptInv, OneOf
    <1>2. OneOf(files)'
        BY DEF ReceiptInv, OneOf
    <1>3. DocReceipt'
        <2>1. ASSUME doc'.status = "succeeded", doc'.run # 0
              PROVE  Kept(<<"viewer", doc.run>>)' /\ \A f \in files' \cap Receipts : f = <<"viewer", doc'.run>>
            BY <2>1 DEF ReceiptInv, DocReceipt
        <2> QED  BY <2>1 DEF DocReceipt
    <1> QED  BY <1>1, <1>2, <1>3 DEF ReceiptInv

\* A step outside of the cleanups.
LEMMA NoneKept ==
    ASSUME ReceiptInv, NEW i \in Instances, UNCHANGED <<files, trans>>,
           pc'[i] \notin {"record", "move"},
           \A j \in Instances : j # i => pc'[j] = pc[j] /\ own'[j] = own[j],
           doc' = doc \/ doc'.status # "succeeded" \/ doc'.run = 0
    PROVE  ReceiptInv'
    <1>1. \A j \in Instances : StepReceipt(j)'
        BY DEF ReceiptInv, StepReceipt
    <1>2. doc'.status = "succeeded" /\ doc'.run # 0 =>
              doc.status = "succeeded" /\ doc'.run = doc.run /\ Kept(<<"viewer", doc.run>>)'
        BY DEF ReceiptInv, DocReceipt, Kept
    <1> QED  BY <1>1, <1>2, LessKept

\* Transaction x is erased, and does not hold the receipt of a succeeded project.
LEMMA EraseReceipt ==
    ASSUME IInv, ReceiptInv, NEW i \in Instances, i \in lock, NEW x \in Transactions, Erase(x) \/ EraseSome(x),
           UNCHANGED <<files, doc>>,
           pc'[i] \notin {"record", "move"}, \A j \in Instances : j # i => pc'[j] = pc[j],
           doc.status = "succeeded" /\ doc.run # 0 => ~ Holds(x, <<"viewer", doc.run>>)
    PROVE  ReceiptInv'
    <1>1. TypeOK
        BY DEF IInv
    <1>2. \A j \in Instances : StepReceipt(j)'
        BY OthersStep DEF StepReceipt
    <1>3. \A y \in Transactions : trans'[y].inside \subseteq trans[y].inside
        <2>1. CASE Erase(x)
            <3>1. \A y \in Transactions : trans'[y] = IF y = x THEN [NoTransaction EXCEPT !.phase = "gone"] ELSE trans[y]
                BY <1>1, <2>1 DEF Erase, TypeOK
            <3> QED  BY <3>1 DEF NoTransaction
        <2>2. CASE EraseSome(x)
            <3>1. trans[x] \in TransactionStates
                BY <1>1 DEF TypeOK
            <3>2. \A y \in Transactions : y # x => trans'[y] = trans[y]
                BY <1>1, <2>2 DEF EraseSome, TypeOK
            <3>3. trans'[x] \in {trans[x], [trans[x] EXCEPT !.phase = "bare"]}
                BY <1>1, <2>2 DEF EraseSome, TypeOK
            <3>4. trans'[x].inside = trans[x].inside
                BY <3>1, <3>3 DEF TransactionStates
            <3> QED  BY <3>2, <3>4
        <2> QED  BY <2>1, <2>2
    <1>4. ASSUME doc.status = "succeeded", doc.run # 0 PROVE Kept(<<"viewer", doc.run>>)'
        <2>1. Kept(<<"viewer", doc.run>>) /\ ~ Holds(x, <<"viewer", doc.run>>)
            BY <1>4 DEF ReceiptInv, DocReceipt
        <2>2. CASE trans' = trans
            BY <2>1, <2>2 DEF Kept
        <2>3. CASE Erase(x) \/ trans' = [trans EXCEPT ![x].phase = "bare"]
            BY <1>1, <2>1, <2>3, EraseKeeps
        <2> QED  BY <2>2, <2>3 DEF EraseSome
    <1> QED  BY <1>2, <1>3, <1>4, LessKept

\* Output f returns, and if it is a receipt, it is the one that was kept.
LEMMA BackReceipt ==
    ASSUME IInv, ReceiptInv, OneReceiptLeft, NEW i \in Instances, i \in lock,
           NEW x \in Transactions, NEW f \in trans[x].inside, Known(x), PutBack(x, f), UNCHANGED doc,
           pc'[i] \notin {"record", "move"}, \A j \in Instances : j # i => pc'[j] = pc[j]
    PROVE  ReceiptInv'
    <1>1. TypeOK
        BY DEF IInv
    <1>2. \A j \in Instances : StepReceipt(j)'
        BY OthersStep DEF StepReceipt
    <1>3. trans[x] \in TransactionStates /\ f \in Files
        BY <1>1 DEF TypeOK, TransactionStates
    <1>4. /\ files' = files \cup {f} /\ trans'[x].inside = trans[x].inside \ {f}
          /\ trans'[x].phase = trans[x].phase /\ trans'[x].done = trans[x].done
          /\ \A y \in Transactions : y # x => trans'[y] = trans[y]
        BY <1>1, <1>3 DEF PutBack, TypeOK, TransactionStates
    <1>5. f \in Receipts => files \cap Receipts = {}
        BY DEF PutBack, Free, Receipts
    <1>6. OneOf(files)'
        BY <1>4, <1>5 DEF OneOf, ReceiptInv
    <1>7. \A y \in Transactions : OneOf(trans[y].inside)'
        BY <1>4 DEF OneOf, ReceiptInv
    <1>8. ASSUME doc.status = "succeeded", doc.run # 0
          PROVE  Kept(<<"viewer", doc.run>>)' /\ \A g \in files' \cap Receipts : g = <<"viewer", doc.run>>
        <2> DEFINE r == <<"viewer", doc.run>>
        <2>1. Kept(r) /\ \A g \in files \cap Receipts : g = r
            BY <1>8 DEF ReceiptInv, DocReceipt
        <2>2. r \in Receipts
            BY <1>1, <1>8, BoundsAssumption DEF TypeOK, Documents, Runs, Receipts
        <2> HIDE DEF r
        <2>3. Kept(<<"viewer", doc.run>>)'
            <3>1. CASE r \in files \/ r = f
                <4>1. r \in files'
                    BY <1>4, <3>1
                <4> QED  BY <4>1 DEF Kept, r
            <3>2. ASSUME r # f, NEW y \in Transactions,
                         trans[y].phase \in {"moving", "moved"}, ~ trans[y].done, r \in trans[y].inside
                  PROVE  Kept(<<"viewer", doc.run>>)'
                <4>1. trans'[y].phase \in {"moving", "moved"} /\ ~ trans'[y].done /\ r \in trans'[y].inside
                    BY <1>4, <3>2
                <4> QED  BY <4>1 DEF Kept, r
            <3> QED  BY <2>1, <3>1, <3>2 DEF Kept
        <2>4. ASSUME f \in Receipts PROVE f = r
            <3>1. r \notin files
                BY <1>5, <2>2, <2>4
            <3>2. PICK y \in Transactions : trans[y].phase \in {"moving", "moved"} /\ r \in trans[y].inside
                BY <2>1, <3>1 DEF Kept
            <3>3. x = y
                BY <2>2, <2>4, <3>2 DEF OneReceiptLeft, Known
            <3> QED  BY <2>2, <2>4, <3>2, <3>3 DEF ReceiptInv, OneOf
        <2>5. \A g \in files' \cap Receipts : g = r
            BY <1>4, <2>1, <2>4
        <2> QED  BY <2>3, <2>5 DEF r
    <1>9. DocReceipt'
        BY <1>8 DEF DocReceipt, Kept
    <1> QED  BY <1>2, <1>6, <1>7, <1>9 DEF ReceiptInv

\* Transaction x changes, and still gives back what it would have given back.
LEMMA PhaseReceipt ==
    ASSUME IInv, ReceiptInv, NEW i \in Instances, lock = {} \/ i \in lock,
           NEW x \in Transactions, NEW t \in TransactionStates, trans' = [trans EXCEPT ![x] = t],
           t.inside \subseteq trans[x].inside,
           \A f : Holds(x, f) =>
               (t.phase \in {"moving", "moved"} /\ ~ t.done /\ f \in t.inside) \/ doc'.run = 0,
           UNCHANGED files, doc' = doc \/ doc'.run = 0,
           \A j \in Instances : j # i => pc'[j] = pc[j], StepReceipt(i)'
    PROVE  ReceiptInv'
    <1>1. TypeOK
        BY DEF IInv
    <1>2. trans'[x] = t /\ \A y \in Transactions : y # x => trans'[y] = trans[y]
        BY <1>1, TransType
    <1>3. \A j \in Instances : StepReceipt(j)'
        BY OthersStep
    <1>4. \A y \in Transactions : trans'[y].inside \subseteq trans[y].inside
        BY <1>2
    <1>5. ASSUME doc' = doc, doc.status = "succeeded", doc.run # 0
          PROVE  Kept(<<"viewer", doc.run>>)'
        <2>1. Kept(<<"viewer", doc.run>>)
            BY <1>5 DEF ReceiptInv, DocReceipt
        <2> QED  BY <1>2, <1>5, <2>1 DEF Kept, Holds
    <1> QED  BY <1>3, <1>4, <1>5, LessKept

LEMMA CleanupBeginReceipt ==
    ASSUME IInv, ReceiptInv, NEW i \in Instances, NEW k \in Targets, NEW x \in Transactions,
           CleanupBegin(i, k, x)
    PROVE  ReceiptInv'
    <1> DEFINE t == [NoTransaction EXCEPT !.phase = "bare", !.target = k, !.moves = Outputs(k)]
    <1>1. /\ TypeOK /\ lock = {} /\ trans[x] = NoTransaction /\ trans' = [trans EXCEPT ![x] = t]
          /\ Goto(i, "record") /\ own' = [own EXCEPT ![i] = x] /\ UNCHANGED <<files, doc>>
        BY DEF IInv, CleanupBegin
    <1>2. t \in TransactionStates /\ t.inside = {}
        BY <1>1 DEF NoTransaction, TransactionStates, Outputs, TypeOK
    <1> HIDE DEF t
    <1>3. pc'[i] = "record" /\ own'[i] = x /\ \A j \in Instances : j # i => pc'[j] = pc[j]
        BY <1>1 DEF Goto, TypeOK
    <1>4. trans'[x] = t
        BY <1>1, <1>2, TransType
    <1>5. StepReceipt(i)'
        BY <1>2, <1>3, <1>4 DEF StepReceipt
    <1>6. \A f : ~ Holds(x, f)
        BY <1>1 DEF Holds, NoTransaction
    <1> QED  BY <1>1, <1>2, <1>3, <1>5, <1>6, PhaseReceipt

\* The cleanup at work on transaction x goes on to its next step.
LEMMA StepOn ==
    ASSUME IInv, ReceiptInv, NEW i \in Instances, pc[i] \in CleanupSteps, NEW x \in Transactions,
           x = own[i], NEW t \in TransactionStates, trans' = [trans EXCEPT ![x] = t],
           t.inside = trans[x].inside,
           \/ trans[x].phase \in {"bare", "committed"} \/ trans[x].done
           \/ t.phase \in {"moving", "moved"} /\ (~ t.done \/ doc'.run = 0),
           UNCHANGED files, doc' = doc \/ doc'.run = 0, Stay, NEW s \in Steps, Goto(i, s),
           s # "record", s = "move" => pc[i] = "record"
    PROVE  ReceiptInv'
    <1>1. TypeOK /\ i \in lock
        BY AtWork
    <1>2. pc'[i] = s /\ \A j \in Instances : j # i => pc'[j] = pc[j]
        BY <1>1, GotoType
    <1>3. trans'[x] = t /\ own'[i] = x
        BY <1>1, TransType DEF Stay
    <1>4. StepReceipt(i)
        BY DEF ReceiptInv
    <1>5. StepReceipt(i)'
        BY <1>2, <1>3, <1>4 DEF StepReceipt
    <1>6. \A f : Holds(x, f) =>
              (t.phase \in {"moving", "moved"} /\ ~ t.done /\ f \in t.inside) \/ doc'.run = 0
        BY DEF Holds
    <1> QED  BY <1>1, <1>2, <1>5, <1>6, PhaseReceipt

\* The cleanup gives up before it has moved anything, or after all is done, or to undo.
LEMMA GiveUp ==
    ASSUME IInv, ReceiptInv, NEW i \in Instances,
           UNCHANGED <<files, doc, trans>>, Leave(i) \/ (Goto(i, "undo") /\ Stay)
    PROVE  ReceiptInv'
    <1>1. TypeOK
        BY DEF IInv
    <1>2. pc'[i] \in {"idle", "undo"} /\ \A j \in Instances : j # i => pc'[j] = pc[j] /\ own'[j] = own[j]
        BY <1>1, LeaveType DEF Goto, Stay, TypeOK
    <1> QED  BY <1>2, NoneKept

LEMMA CleanupRecordReceipt ==
    ASSUME IInv, ReceiptInv, NEW i \in Instances, CleanupRecord(i)
    PROVE  ReceiptInv'
    <1> DEFINE x == own[i]
    <1> DEFINE t == [trans[x] EXCEPT !.phase = "moving"]
    <1>1. pc[i] = "record" /\ pc[i] \in CleanupSteps /\ UNCHANGED <<files, doc>>
        BY DEF CleanupRecord, CleanupSteps
    <1>2. x \in Transactions /\ trans[x] \in TransactionStates /\ trans[x].phase = "bare"
        BY <1>1, AtWork DEF Phases
    <1>3. CASE trans' = [trans EXCEPT ![x].phase = "moving"] /\ Goto(i, "move") /\ Stay
        <2>1. t \in TransactionStates /\ t.inside = trans[x].inside
            BY <1>2 DEF TransactionStates
        <2>2. trans' = [trans EXCEPT ![x] = t]
            BY <1>3
        <2>3. "move" \in Steps
            BY DEF Steps, CleanupSteps
        <2> HIDE DEF t, x
        <2> QED  BY <1>1, <1>2, <1>3, <2>1, <2>2, <2>3, StepOn DEF x
    <1>4. CASE Leave(i) /\ UNCHANGED trans
        BY <1>1, <1>4, GiveUp
    <1> QED  BY <1>3, <1>4 DEF CleanupRecord

\* One output is moved away.
LEMMA EnterReceipt ==
    ASSUME IInv, ReceiptInv, NEW i \in Instances, pc[i] = "move", NEW x \in Transactions, x = own[i],
           NEW f \in trans[x].moves \cap files, files' = files \ {f},
           trans' = [trans EXCEPT ![x].inside = @ \cup {f}],
           UNCHANGED <<pc, own, doc>>
    PROVE  ReceiptInv'
    <1>1. /\ TypeOK /\ i \in lock /\ trans[x].phase = "moving" /\ ~ trans[x].done
          /\ trans[x] \in TransactionStates
        BY AtWork DEF Phases, CleanupSteps
    <1>2. /\ trans'[x].inside = trans[x].inside \cup {f}
          /\ trans'[x].phase = trans[x].phase /\ trans'[x].done = trans[x].done
          /\ \A y \in Transactions : y # x => trans'[y] = trans[y]
        BY <1>1 DEF TypeOK, TransactionStates
    <1>3. files \cap Receipts = {} \/ trans[x].inside \cap Receipts = {}
        BY DEF ReceiptInv, StepReceipt
    <1>4. OneOf(files) /\ \A y \in Transactions : OneOf(trans[y].inside)
        BY DEF ReceiptInv
    <1>5. OneOf(files)'
        BY <1>4 DEF OneOf
    <1>6. \A y \in Transactions : OneOf(trans[y].inside)'
        <2>1. ASSUME f \in Receipts PROVE trans[x].inside \cap Receipts = {}
            BY <1>3, <2>1
        <2>2. \A g, h \in trans'[x].inside \cap Receipts : g = h
            BY <1>2, <1>4, <2>1 DEF OneOf
        <2>3. \A y \in Transactions : y # x => \A g, h \in trans'[y].inside \cap Receipts : g = h
            BY <1>2, <1>4 DEF OneOf
        <2> QED  BY <2>2, <2>3 DEF OneOf
    <1>7. StepReceipt(i)'
        <2>1. files' \cap Receipts = {} \/ trans'[x].inside \cap Receipts = {}
            <3>1. CASE f \in Receipts
                BY <1>4, <3>1 DEF OneOf
            <3>2. CASE f \notin Receipts
                BY <1>2, <1>3, <3>2
            <3> QED  BY <3>1, <3>2
        <2> QED  BY <2>1 DEF StepReceipt
    <1>8. \A j \in Instances : StepReceipt(j)'
        BY <1>1, <1>7, OthersStep
    <1>9. DocReceipt'
        <2>1. ASSUME doc.status = "succeeded", doc.run # 0
              PROVE  Kept(<<"viewer", doc.run>>)' /\ \A g \in files' \cap Receipts : g = <<"viewer", doc.run>>
            <3>1. Kept(<<"viewer", doc.run>>) /\ \A g \in files \cap Receipts : g = <<"viewer", doc.run>>
                BY <2>1 DEF ReceiptInv, DocReceipt
            <3>2. Kept(<<"viewer", doc.run>>)'
                BY <1>1, <1>2, <3>1 DEF Kept
            <3> QED  BY <3>1, <3>2
        <2> QED  BY <2>1 DEF DocReceipt, Kept
    <1> QED  BY <1>5, <1>6, <1>8, <1>9 DEF ReceiptInv

LEMMA CleanupMoveReceipt ==
    ASSUME IInv, ReceiptInv, NEW i \in Instances, CleanupMove(i)
    PROVE  ReceiptInv'
    <1> DEFINE x == own[i]
    <1> DEFINE t == [trans[x] EXCEPT !.phase = "moved"]
    <1>1. pc[i] = "move" /\ pc[i] \in CleanupSteps /\ UNCHANGED <<doc>> /\ Stay
        BY DEF CleanupMove, CleanupSteps
    <1>2. /\ x \in Transactions /\ trans[x] \in TransactionStates
          /\ trans[x].phase = "moving" /\ ~ trans[x].done
        BY <1>1, AtWork DEF Phases
    <1>3. ASSUME NEW f \in trans[x].moves \cap files, files' = files \ {f},
                 trans' = [trans EXCEPT ![x].inside = @ \cup {f}], UNCHANGED pc
          PROVE  ReceiptInv'
        BY <1>1, <1>2, <1>3, EnterReceipt DEF Stay
    <1>4. CASE trans' = [trans EXCEPT ![x].phase = "moved"] /\ Goto(i, "commit") /\ UNCHANGED files
        <2>1. t \in TransactionStates /\ t.inside = trans[x].inside /\ t.phase = "moved" /\ ~ t.done
            BY <1>2 DEF TransactionStates
        <2>2. trans' = [trans EXCEPT ![x] = t]
            BY <1>4
        <2>3. "commit" \in Steps
            BY DEF Steps, CleanupSteps
        <2> HIDE DEF t, x
        <2> QED  BY <1>1, <1>2, <1>4, <2>1, <2>2, <2>3, StepOn DEF x
    <1>5. CASE Goto(i, "undo") /\ UNCHANGED <<files, trans>>
        BY <1>1, <1>5, GiveUp
    <1> QED  BY <1>3, <1>4, <1>5 DEF CleanupMove

LEMMA CleanupCommitReceipt ==
    ASSUME IInv, ReceiptInv, NEW i \in Instances, CleanupCommit(i)
    PROVE  ReceiptInv'
    <1> DEFINE x == own[i]
    <1> DEFINE t == [trans[x] EXCEPT !.done = TRUE]
    <1>1. pc[i] = "commit" /\ pc[i] \in CleanupSteps /\ UNCHANGED files /\ Stay
        BY DEF CleanupCommit, CleanupSteps
    <1>2. /\ x \in Transactions /\ trans[x] \in TransactionStates /\ TypeOK
          /\ trans[x].phase = "moved" /\ ~ trans[x].done
        BY <1>1, AtWork DEF Phases
    <1>3. CASE doc' = Cleaned(doc, trans[x].target) /\ trans' = [trans EXCEPT ![x].done = TRUE]
               /\ Goto(i, "confirm")
        <2>1. t \in TransactionStates /\ t.inside = trans[x].inside /\ t.phase = "moved"
            BY <1>2 DEF TransactionStates
        <2>2. trans' = [trans EXCEPT ![x] = t]
            BY <1>3
        <2>3. "confirm" \in Steps
            BY DEF Steps, CleanupSteps
        <2>4. doc'.run = 0
            <3>1. doc \in Documents /\ trans[x].target \in Targets
                BY <1>2 DEF TypeOK, TransactionStates
            <3> QED  BY <1>3, <3>1, CleanedIs
        <2> HIDE DEF t, x
        <2> QED  BY <1>1, <1>2, <1>3, <2>1, <2>2, <2>3, <2>4, StepOn DEF x
    <1>4. CASE Goto(i, "undo") /\ UNCHANGED <<doc, trans>>
        BY <1>1, <1>4, GiveUp
    <1> QED  BY <1>3, <1>4 DEF CleanupCommit

LEMMA CleanupConfirmReceipt ==
    ASSUME IInv, ReceiptInv, NEW i \in Instances, CleanupConfirm(i)
    PROVE  ReceiptInv'
    <1> DEFINE x == own[i]
    <1> DEFINE t == [trans[x] EXCEPT !.phase = "committed"]
    <1>1. pc[i] = "confirm" /\ pc[i] \in CleanupSteps /\ UNCHANGED <<files, doc>>
        BY DEF CleanupConfirm, CleanupSteps
    <1>2. x \in Transactions /\ trans[x] \in TransactionStates /\ trans[x].done
        BY <1>1, AtWork DEF Phases
    <1>3. CASE trans' = [trans EXCEPT ![x].phase = "committed"] /\ Goto(i, "erase") /\ Stay
        <2>1. t \in TransactionStates /\ t.inside = trans[x].inside
            BY <1>2 DEF TransactionStates
        <2>2. trans' = [trans EXCEPT ![x] = t]
            BY <1>3
        <2>3. "erase" \in Steps
            BY DEF Steps, CleanupSteps
        <2> HIDE DEF t, x
        <2> QED  BY <1>1, <1>2, <1>3, <2>1, <2>2, <2>3, StepOn DEF x
    <1>4. CASE Leave(i) /\ UNCHANGED trans
        BY <1>1, <1>4, GiveUp
    <1> QED  BY <1>3, <1>4 DEF CleanupConfirm

LEMMA CleanupEraseReceipt ==
    ASSUME IInv, ReceiptInv, NEW i \in Instances, CleanupErase(i)
    PROVE  ReceiptInv'
    <1>1. /\ pc[i] = "erase" /\ pc[i] \in CleanupSteps /\ UNCHANGED <<files, doc>> /\ Leave(i)
          /\ Erase(own[i]) \/ EraseSome(own[i])
        BY DEF CleanupErase, CleanupSteps
    <1>2. TypeOK /\ i \in lock /\ own[i] \in Transactions /\ trans[own[i]].done
        BY <1>1, AtWork
    <1>3. \A f : ~ Holds(own[i], f)
        BY <1>2 DEF Holds
    <1>4. pc'[i] \notin {"record", "move"} /\ \A j \in Instances : j # i => pc'[j] = pc[j]
        BY <1>1, <1>2, LeaveType
    <1> QED  BY <1>1, <1>2, <1>3, <1>4, EraseReceipt

LEMMA CleanupUndoReceipt ==
    ASSUME IInv, ReceiptInv, OneReceiptLeft, NEW i \in Instances, CleanupUndo(i)
    PROVE  ReceiptInv'
    <1> DEFINE x == own[i]
    <1>1. pc[i] = "undo" /\ pc[i] \in CleanupSteps /\ UNCHANGED <<doc>>
        BY DEF CleanupUndo, CleanupSteps
    <1>2. TypeOK /\ i \in lock /\ x \in Transactions /\ Known(x)
        BY <1>1, AtWork DEF Phases, Known
    <1>3. ASSUME NEW f \in trans[x].inside, PutBack(x, f), UNCHANGED pc
          PROVE  ReceiptInv'
        BY <1>1, <1>2, <1>3, BackReceipt
    <1>4. CASE Leave(i) /\ UNCHANGED <<files, trans>>
        BY <1>1, <1>4, GiveUp
    <1>5. CASE trans[x].inside = {} /\ Leave(i) /\ UNCHANGED files /\ (Erase(x) \/ EraseSome(x))
        <2>1. \A f : ~ Holds(x, f)
            BY <1>5 DEF Holds
        <2>2. pc'[i] \notin {"record", "move"} /\ \A j \in Instances : j # i => pc'[j] = pc[j]
            BY <1>2, <1>5, LeaveType
        <2> QED  BY <1>1, <1>2, <1>5, <2>1, <2>2, EraseReceipt
    <1> QED  BY <1>3, <1>4, <1>5 DEF CleanupUndo

\* What recovery erases is not the receipt of a succeeded project.
LEMMA RecoverReceipt ==
    ASSUME IInv, ReceiptInv, OneReceiptLeft, NEW i \in Instances, NEW x \in Transactions, Recover(i, x)
    PROVE  ReceiptInv'
    <1> DEFINE done == trans[x].phase = "committed" \/ MetadataCommitted(x)
                       \/ {f \in trans[x].inside : Free(f)} = {}
    <1>1. pc[i] = "recover" /\ i \in lock /\ UNCHANGED doc /\ TypeOK /\ PlaceInv /\ Known(x)
        BY DEF Recover, IInv, DataInv
    <1>2. ASSUME NEW f \in trans[x].inside, PutBack(x, f), UNCHANGED pc
          PROVE  ReceiptInv'
        BY <1>1, <1>2, BackReceipt
    <1>3. ASSUME done, doc.status = "succeeded", doc.run # 0
          PROVE  ~ Holds(x, <<"viewer", doc.run>>)
        <2>1. CASE trans[x].phase = "committed"
            BY <2>1 DEF Holds
        <2>2. CASE MetadataCommitted(x)
            BY <1>3, <2>2 DEF MetadataCommitted
        <2>3. CASE {f \in trans[x].inside : Free(f)} = {}
            <3>1. \A g \in files \cap Receipts : g = <<"viewer", doc.run>>
                BY <1>3 DEF ReceiptInv, DocReceipt
            <3>2. ASSUME <<"viewer", doc.run>> \in trans[x].inside PROVE FALSE
                <4>1. <<"viewer", doc.run>> \notin files
                    BY <1>1, <3>2 DEF PlaceInv
                <4>2. ~ Free(<<"viewer", doc.run>>)
                    BY <2>3, <3>2
                <4>3. PICK r \in Runs : <<"viewer", r>> \in files
                    BY <4>1, <4>2 DEF Free
                <4>4. <<"viewer", r>> \in Receipts
                    BY DEF Receipts
                <4> QED  BY <3>1, <4>1, <4>3, <4>4
            <3> QED  BY <3>2 DEF Holds
        <2> QED  BY <1>3, <2>1, <2>2, <2>3
    <1>4. CASE done /\ (Erase(x) \/ EraseSome(x)) /\ UNCHANGED files /\ (UNCHANGED pc \/ Leave(i))
        <2>1. pc'[i] \notin {"record", "move"} /\ \A j \in Instances : j # i => pc'[j] = pc[j]
            BY <1>1, <1>4, LeaveType
        <2> QED  BY <1>1, <1>3, <1>4, <2>1, EraseReceipt
    <1>5. CASE trans' = trans /\ Leave(i) /\ UNCHANGED files
        BY <1>1, <1>5, GiveUp
    <1> QED  BY <1>2, <1>4, <1>5 DEF Recover

LEMMA StartupReceipt ==
    ASSUME IInv, ReceiptInv, OneReceiptLeft, NEW i \in Instances, Startup(i)
    PROVE  ReceiptInv'
    <1>1. TypeOK
        BY DEF IInv
    <1>2. CASE Start(i)
        <2>1. /\ Goto(i, "recover") /\ UNCHANGED <<files, trans, own>>
              /\ doc' = doc \/ doc'.status # "succeeded"
            BY <1>1, <1>2 DEF Start, TypeOK, Documents
        <2>2. pc'[i] \notin {"record", "move"} /\ \A j \in Instances : j # i => pc'[j] = pc[j]
            BY <1>1, <2>1 DEF Goto, TypeOK
        <2> QED  BY <2>1, <2>2, NoneKept
    <1>3. CASE RecoverBegin(i)
        <2>1. UNCHANGED <<files, doc, trans>> /\ pc[i] = "recover" /\ (UNCHANGED <<pc, own>> \/ Leave(i))
            BY <1>3 DEF RecoverBegin
        <2>2. CASE UNCHANGED <<pc, own>>
            BY <2>1, <2>2, NoneKept
        <2> QED  BY <2>1, <2>2, GiveUp
    <1>4. CASE RecoverEnd(i)
        BY <1>4, GiveUp DEF RecoverEnd
    <1> QED  BY <1>2, <1>3, <1>4, RecoverReceipt DEF Startup

LEMMA StopReceipt ==
    ASSUME IInv, ReceiptInv, NEW i \in Instances, Die(i)
    PROVE  ReceiptInv'
    <1>1. TypeOK
        BY DEF IInv
    <1>2. pc'[i] = "down" /\ \A j \in Instances : j # i => pc'[j] = pc[j] /\ own'[j] = own[j]
        BY <1>1, DieType
    <1>3. UNCHANGED <<files, trans, doc>>
        BY DEF Die
    <1> QED  BY <1>2, <1>3, NoneKept

\* The run adds an output that is no receipt, or publishes its receipt.
LEMMA RunReceipt ==
    ASSUME IInv, ReceiptInv, NEW i \in Instances, pc[i] = "run", UNCHANGED <<trans, pc, own>>,
           doc'.status = "running", OneOf(files)'
    PROVE  ReceiptInv'
    <1>1. DocReceipt'
        BY DEF DocReceipt
    <1>2. \A j \in Instances : StepReceipt(j)'
        <2>1. StepReceipt(i)'
            BY DEF StepReceipt
        <2>2. i \in lock /\ \A j \in Instances : j # i => pc'[j] = pc[j]
            BY InRun
        <2> QED  BY <2>1, <2>2, OthersStep
    <1>3. \A y \in Transactions : OneOf(trans[y].inside)'
        BY DEF ReceiptInv, OneOf
    <1> QED  BY <1>1, <1>2, <1>3 DEF ReceiptInv

LEMMA RunEndReceipt ==
    ASSUME IInv, ReceiptInv, NEW i \in Instances, RunEnd(i)
    PROVE  ReceiptInv'
    <1>1. /\ pc[i] = "run" /\ Leave(i) /\ UNCHANGED <<files, trans>>
          /\ TypeOK /\ i \in lock /\ doc.run = runs /\ runs \in Runs
        BY InRun DEF RunEnd
    <1>2. /\ doc'.run = runs
          /\ doc'.status = "succeeded" => <<"viewer", runs>> \in files
        BY <1>1 DEF RunEnd, TypeOK, Documents
    <1>3. OneOf(files) /\ \A y \in Transactions : OneOf(trans[y].inside)
        BY DEF ReceiptInv
    <1>4. \A j \in Instances : StepReceipt(j)'
        <2>1. pc'[i] = "idle" /\ \A j \in Instances : j # i => pc'[j] = pc[j]
            BY <1>1, LeaveType
        <2>2. StepReceipt(i)'
            BY <2>1 DEF StepReceipt
        <2> QED  BY <1>1, <2>1, <2>2, OthersStep
    <1>5. DocReceipt'
        <2>1. ASSUME <<"viewer", runs>> \in files
              PROVE  \A f \in files \cap Receipts : f = <<"viewer", runs>>
            <3>1. <<"viewer", runs>> \in Receipts
                BY <1>1 DEF Receipts
            <3> QED  BY <1>3, <2>1, <3>1 DEF OneOf
        <2> QED  BY <1>1, <1>2, <2>1 DEF DocReceipt, Kept
    <1> QED  BY <1>1, <1>3, <1>4, <1>5 DEF ReceiptInv, OneOf

LEMMA RunsReceipt ==
    ASSUME IInv, ReceiptInv, NEW i \in Instances, Run(i)
    PROVE  ReceiptInv'
    <1>1. TypeOK /\ OneOf(files)
        BY DEF IInv, ReceiptInv
    <1>2. CASE RunBegin(i)
        <2>1. Goto(i, "run") /\ UNCHANGED <<files, trans, own>> /\ doc'.status # "succeeded"
            BY <1>1, <1>2 DEF RunBegin, TypeOK, Documents
        <2>2. pc'[i] = "run" /\ \A j \in Instances : j # i => pc'[j] = pc[j]
            BY <1>1, <2>1 DEF Goto, TypeOK
        <2> QED  BY <2>1, <2>2, NoneKept
    <1>3. ASSUME NEW o \in Stages \cup {"timeline"}, NEW n, files' = files \cup {<<o, n>>}
          PROVE  OneOf(files)'
        <2>1. <<o, n>> \notin Receipts
            BY DEF Receipts, Stages
        <2> QED  BY <1>1, <1>3, <2>1 DEF OneOf
    <1>4. CASE RunTimeline(i)
        <2>1. pc[i] = "run" /\ UNCHANGED <<trans, pc, own>> /\ doc'.status = "running"
            BY <1>4, InRun DEF RunTimeline
        <2>2. OneOf(files)'
            BY <1>3, <1>4 DEF RunTimeline
        <2> QED  BY <2>1, <2>2, RunReceipt
    <1>5. ASSUME NEW s \in Stages, RunStage(i, s) PROVE ReceiptInv'
        <2>1. pc[i] = "run" /\ UNCHANGED <<trans, pc, own>> /\ doc.status = "running"
            BY <1>5, InRun DEF RunStage
        <2>2. doc'.status = "running"
            BY <1>1, <1>5, <2>1 DEF RunStage, TypeOK, Documents
        <2>3. OneOf(files)'
            <3>1. CASE files' = files \cup {<<s, doc.run>>}
                BY <1>3, <3>1
            <3>2. CASE UNCHANGED files
                BY <1>1, <3>2 DEF OneOf
            <3> QED  BY <1>5, <3>1, <3>2 DEF RunStage
        <2> QED  BY <2>1, <2>2, <2>3, RunReceipt
    <1>6. CASE RunPublish(i)
        <2>1. /\ pc[i] = "run" /\ UNCHANGED <<trans, pc, own>> /\ doc'.status = "running"
              /\ files' = (files \ Receipts) \cup {<<"viewer", doc.run>>}
            BY <1>6, InRun DEF RunPublish, Receipts
        <2>2. OneOf(files)'
            BY <2>1 DEF OneOf
        <2> QED  BY <2>1, <2>2, RunReceipt
    <1>7. CASE Configure(i)
        <2>1. pc[i] = "idle" /\ UNCHANGED <<files, trans, pc, own>> /\ doc'.run = 0
            BY <1>1, <1>7 DEF Configure, TypeOK, Documents
        <2> QED  BY <2>1, NoneKept
    <1> QED  BY <1>2, <1>4, <1>5, <1>6, <1>7, RunEndReceipt DEF Run

LEMMA ReceiptNext ==
    ASSUME IInv, ReceiptInv, OneReceiptLeft, [Next]_vars
    PROVE  ReceiptInv'
    <1>1. CASE UNCHANGED vars
        BY <1>1 DEF vars, ReceiptInv, OneOf, StepReceipt, DocReceipt, Kept
    <1>2. ASSUME NEW i \in Instances, Cleanup(i) PROVE ReceiptInv'
        <2>1. ASSUME NEW x \in Transactions, NEW t \in Choices[x] PROVE t \in Targets
            BY <2>1, ChoicesAssumption
        <2> QED  BY <1>2, <2>1, CleanupBeginReceipt, CleanupRecordReceipt, CleanupMoveReceipt,
                    CleanupCommitReceipt, CleanupConfirmReceipt, CleanupEraseReceipt,
                    CleanupUndoReceipt DEF Cleanup
    <1>3. ASSUME NEW i \in Instances, Quit(i) \/ Crash(i) PROVE ReceiptInv'
        BY <1>3, StopReceipt DEF Quit, Crash
    <1> QED  BY <1>1, <1>2, <1>3, RunsReceipt, StartupReceipt DEF Next

LEMMA InitReceipt ==
    ASSUME Init
    PROVE  ReceiptInv
    <1>1. files = {} /\ \A x \in Transactions : trans[x].inside = {}
        BY DEF Init, NoTransaction
    <1>2. doc.run = 0 /\ \A i \in Instances : pc[i] = "down"
        BY DEF Init
    <1> QED  BY <1>1, <1>2 DEF ReceiptInv, OneOf, StepReceipt, DocReceipt

\* As long as no two leftover transactions hold a receipt each, a project shown as
\* succeeded, with nobody at work and nothing left to recover, has the receipt,
\* the timeline and the exports of its run (main.py:651-704).
THEOREM ReceiptKept == Spec => SucceededOpens
    <1>1. Init => IInv /\ ReceiptInv
        BY InitIInv, InitReceipt
    <1>2. IInv /\ ReceiptInv /\ OneReceiptLeft /\ [Next]_vars => (IInv /\ ReceiptInv)'
        BY NextKeeps, ReceiptNext
    <1>3. IInv /\ ReceiptInv => CanBeOpened
        <2> SUFFICES ASSUME IInv, ReceiptInv, doc.status = "succeeded", doc.run # 0,
                            \A x \in Transactions : ~ Known(x)
                     PROVE  {<<"viewer", doc.run>>, <<"timeline", doc.run>>, <<"export", doc.run>>}
                                \subseteq files
            BY DEF CanBeOpened
        <2>1. \A f : Kept(f) => f \in files
            BY DEF Kept, Known
        <2> QED  BY <2>1 DEF IInv, DataInv, KeptInv, ReceiptInv, DocReceipt
    <1>4. Spec /\ []OneReceiptLeft => []CanBeOpened
        BY <1>1, <1>2, <1>3, PTL DEF Spec
    <1> QED  BY <1>4 DEF SucceededOpens

=============================================================================
