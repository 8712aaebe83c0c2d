----------------------- MODULE SamplingAnalysisProofs -----------------------
(***************************************************************************)
(* What TLAPS proves of SamplingAnalysis, for any number of instances,     *)
(* configurations and faults.                                              *)
(*                                                                         *)
(* The argument: the run lock has one holder.  Who holds it, or finds it   *)
(* free, keeps its own part of the invariant and that of the document      *)
(* (Acting); who does not changes nothing (Aside), with one exception: the *)
(* ensure_writable of a run that is refused makes the analysis directory   *)
(* in the middle of somebody's swap (RunRefusedKeeps), and lost says so.   *)
(***************************************************************************)
EXTENDS SamplingAnalysis, SequenceTheorems, TLAPS

Quiet == {"down", "idle", "recover"}

OwnInv(i) ==
    /\ pc[i] \notin Quiet => i \in lock
    /\ pc[i] \in {"down", "idle"} => i \notin lock
    /\ pc[i] \in Quiet => work[i] = NoWork
    /\ work[i].hits <= faults
    /\ SnapshotInv(i) /\ SwapInv(i)

IInv ==
    /\ TypeOK
    /\ \A i, j \in lock : i = j
    /\ ShowsInv
    /\ \A i \in Instances : OwnInv(i)

LEMMA IInvIsAnalysisInv == AnalysisInv <=> IInv
    BY DEF AnalysisInv, IInv, LockInv, OwnInv, Quiet

-----------------------------------------------------------------------------
(* Sequences *)

LEMMA AppendLast ==
    ASSUME NEW S, NEW s \in Seq(S), NEW e \in S
    PROVE  /\ Append(s, e) \in Seq(S) /\ Append(s, e) # <<>>
           /\ Last(Append(s, e)) = e
    BY AppendProperties DEF Last

LEMMA LastOf ==
    ASSUME NEW S, NEW s \in Seq(S), s # <<>>
    PROVE  Last(s) \in S /\ Len(s) \in DOMAIN s
    BY DEF Last

LEMMA FrontOf ==
    ASSUME NEW S, NEW s \in Seq(S), s # <<>>
    PROVE  Front(s) \in Seq(S)
    <1>1. \A k \in 1..(Len(s) - 1) : s[k] \in S
        OBVIOUS
    <1>2. Len(s) - 1 \in Int /\ 1 \in Int
        OBVIOUS
    <1>3. SubSeq(s, 1, Len(s) - 1) \in Seq(S)
        BY <1>1, <1>2, SubSeqProperties
    <1> QED  BY <1>3 DEF Front

LEMMA RemoveAtOf ==
    ASSUME NEW S, NEW s \in Seq(S), NEW k \in DOMAIN s
    PROVE  RemoveAt(s, k) \in Seq(S)
    <1>1. k \in 1..Len(s) /\ Len(s) \in Nat
        OBVIOUS
    <1>2. /\ 1 \in Int /\ k - 1 \in Int /\ k + 1 \in Int /\ Len(s) \in Int
          /\ \A n \in 1..(k - 1) : s[n] \in S
          /\ \A n \in (k + 1)..Len(s) : s[n] \in S
        BY <1>1
    <1>3. SubSeq(s, 1, k - 1) \in Seq(S)
        BY <1>2, SubSeqProperties
    <1>4. SubSeq(s, k + 1, Len(s)) \in Seq(S)
        BY <1>2, SubSeqProperties
    <1> QED  BY <1>3, <1>4, ConcatProperties DEF RemoveAt

-----------------------------------------------------------------------------
(* Instances *)

LEMMA GotoType ==
    ASSUME TypeOK, NEW i \in Instances, NEW s \in Steps, Goto(i, s)
    PROVE  /\ pc' \in [Instances -> Steps]
           /\ pc'[i] = s
           /\ \A j \in Instances : j # i => pc'[j] = pc[j]
    BY DEF TypeOK, Goto

LEMMA NoWorkType == NoWork \in Works /\ FirstDocument \in Documents
    <1>1. 1 \in Configs /\ 0 \in 0..MaxConfigs /\ 0 \in 0..MaxFaults
        BY BoundsAssumption DEF Configs
    <1>2. FirstDocument \in Documents
        BY <1>1 DEF FirstDocument, Documents, Numbers
    <1> QED  BY <1>1, <1>2 DEF NoWork, Works, Contents

LEMMA WorkType ==
    ASSUME TypeOK, NEW i \in Instances, NEW w \in Works, work' = [work EXCEPT ![i] = w]
    PROVE  /\ work' \in [Instances -> Works]
           /\ work'[i] = w
           /\ \A j \in Instances : j # i => work'[j] = work[j]
    BY DEF TypeOK

LEMMA LeaveType ==
    ASSUME TypeOK, NEW i \in Instances, Leave(i)
    PROVE  /\ pc' \in [Instances -> Steps] /\ work' \in [Instances -> Works]
           /\ pc'[i] = "idle" /\ work'[i] = NoWork
           /\ \A j \in Instances : j # i => pc'[j] = pc[j] /\ work'[j] = work[j]
           /\ lock' = lock \ {i} /\ lock' \subseteq Instances
    <1>1. "idle" \in Steps
        BY DEF Steps
    <1> QED  BY <1>1, GotoType, NoWorkType, WorkType DEF Leave, TypeOK

LEMMA DieType ==
    ASSUME TypeOK, NEW i \in Instances, Die(i)
    PROVE  /\ pc' \in [Instances -> Steps] /\ work' \in [Instances -> Works]
           /\ pc'[i] = "down" /\ work'[i] = NoWork
           /\ \A j \in Instances : j # i => pc'[j] = pc[j] /\ work'[j] = work[j]
           /\ lock' = lock \ {i} /\ lock' \subseteq Instances
    <1>1. "down" \in Steps
        BY DEF Steps
    <1> QED  BY <1>1, GotoType, NoWorkType, WorkType DEF Die, TypeOK

LEMMA FaultType ==
    ASSUME TypeOK, Fault
    PROVE  faults' \in 0..MaxFaults /\ faults <= faults' /\ faults' # faults
    BY BoundsAssumption DEF TypeOK, Fault

LEMMA FineType ==
    ASSUME TypeOK, faults' = faults
    PROVE  faults' \in 0..MaxFaults /\ faults <= faults'
    BY BoundsAssumption DEF TypeOK

LEMMA HitType ==
    ASSUME IInv, NEW i \in Instances, Hit(i)
    PROVE  /\ work' \in [Instances -> Works]
           /\ work'[i] = [work[i] EXCEPT !.hits = @ + 1]
           /\ work'[i].hits = work[i].hits + 1 /\ work'[i].hits <= faults'
           /\ work[i].hits \in Nat
           /\ \A j \in Instances : j # i => work'[j] = work[j]
           /\ work'[i].run = work[i].run /\ work'[i].snap = work[i].snap
           /\ work'[i].before = work[i].before /\ work'[i].committed = work[i].committed
           /\ work'[i].import = work[i].import
           /\ faults' \in 0..MaxFaults /\ faults <= faults'
    <1> DEFINE w == [work[i] EXCEPT !.hits = @ + 1]
    <1>1. /\ work[i] \in Works /\ faults \in Nat /\ faults < MaxFaults /\ faults' = faults + 1
          /\ MaxFaults \in Nat
        BY BoundsAssumption DEF IInv, TypeOK, Hit, Fault
    <1>2. work[i].hits \in Nat /\ work[i].hits <= faults
        BY <1>1 DEF IInv, OwnInv, Works
    <1>3. work[i].hits + 1 \in 0..MaxFaults
        BY <1>1, <1>2
    <1>4. /\ w \in Works /\ w.hits = work[i].hits + 1
          /\ w.run = work[i].run /\ w.snap = work[i].snap /\ w.before = work[i].before
          /\ w.committed = work[i].committed /\ w.import = work[i].import
        BY <1>1, <1>3 DEF Works
    <1>5. work' = [work EXCEPT ![i] = w]
        BY DEF Hit
    <1>6. w = [work[i] EXCEPT !.hits = @ + 1]
        OBVIOUS
    <1> HIDE DEF w
    <1>7. /\ work' \in [Instances -> Works] /\ work'[i] = w
          /\ \A j \in Instances : j # i => work'[j] = work[j]
        BY <1>4, <1>5, WorkType DEF IInv
    <1>8. work'[i].hits = work[i].hits + 1 /\ work'[i].hits <= faults'
        BY <1>1, <1>2, <1>4, <1>7
    <1>9. faults' \in 0..MaxFaults /\ faults <= faults'
        BY <1>1
    <1> QED  BY <1>2, <1>4, <1>6, <1>7, <1>8, <1>9

LEMMA Alone ==
    ASSUME IInv, NEW i \in Instances, lock = {} \/ i \in lock
    PROVE  \A j \in Instances : j # i => j \notin lock /\ pc[j] \in Quiet
    BY DEF IInv, OwnInv

\* An instance at rest has no part in the invariant.
LEMMA QuietOwns ==
    ASSUME NEW i \in Instances, pc'[i] \in Quiet, pc'[i] \in {"down", "idle"} => i \notin lock',
           work'[i] = NoWork, faults' \in Nat
    PROVE  OwnInv(i)'
    <1>1. work'[i].hits <= faults'
        BY DEF NoWork
    <1>2. pc'[i] \notin RunSteps \cup AnalysisSteps \cup {"copy", "record"}
        BY DEF Quiet, RunSteps, AnalysisSteps
    <1>3. SnapshotInv(i)'
        BY <1>2 DEF SnapshotInv, RunSteps
    <1>4. SwapInv(i)'
        BY <1>2 DEF SwapInv, AnalysisSteps, Swapped
    <1> QED  BY <1>1, <1>3, <1>4 DEF OwnInv

\* Instance i holds the lock or finds it free.
LEMMA Acting ==
    ASSUME IInv, NEW i \in Instances, lock = {} \/ i \in lock,
           TypeOK', ShowsInv', OwnInv(i)', lock' \subseteq lock \cup {i},
           \A j \in Instances : j # i => pc'[j] = pc[j] /\ work'[j] = work[j]
    PROVE  IInv'
    <1>1. \A j \in Instances : j # i => j \notin lock' /\ pc'[j] \in Quiet
        BY Alone
    <1>2. ASSUME NEW j \in Instances, j # i PROVE OwnInv(j)'
        <2>1. work'[j] = NoWork
            BY <1>2, Alone DEF IInv, OwnInv
        <2>2. faults' \in Nat
            BY BoundsAssumption DEF TypeOK
        <2>3. pc'[j] \in Quiet /\ (pc'[j] \in {"down", "idle"} => j \notin lock')
            BY <1>1, <1>2
        <2> QED  BY <2>1, <2>2, <2>3, QuietOwns
    <1>3. \A j, k \in lock' : j = k
        BY <1>1 DEF TypeOK
    <1> QED  BY <1>2, <1>3 DEF IInv

\* Instance i goes to rest, and nothing else changes.
LEMMA Aside ==
    ASSUME IInv, NEW i \in Instances, UNCHANGED <<doc, dir, backups, residue, fresh, lost>>,
           pc' \in [Instances -> Steps], work' \in [Instances -> Works],
           pc'[i] \in Quiet, work'[i] = NoWork, lock' = lock \ {i},
           faults' \in 0..MaxFaults, faults <= faults',
           \A j \in Instances : j # i => pc'[j] = pc[j] /\ work'[j] = work[j]
    PROVE  IInv'
    <1>1. TypeOK'
        BY DEF IInv, TypeOK
    <1>2. ShowsInv'
        BY DEF IInv, ShowsInv
    <1>3. faults' \in Nat /\ faults \in Nat
        BY BoundsAssumption DEF IInv, TypeOK
    <1>4. OwnInv(i)'
        BY <1>3, QuietOwns
    <1>5. ASSUME NEW j \in Instances, j # i PROVE OwnInv(j)'
        <2>1. /\ OwnInv(j) /\ pc'[j] = pc[j] /\ work'[j] = work[j]
              /\ (j \in lock' <=> j \in lock)
            BY <1>5 DEF IInv
        <2>2. work[j].hits \in Nat
            BY DEF IInv, TypeOK, Works
        <2>3. work'[j].hits <= faults'
            BY <1>3, <2>1, <2>2 DEF OwnInv
        <2>4. SnapshotInv(j)'
            BY <2>1 DEF OwnInv, SnapshotInv
        <2>5. SwapInv(j)'
            BY <2>1 DEF OwnInv, SwapInv
        <2> QED  BY <2>1, <2>3, <2>4, <2>5 DEF OwnInv
    <1>6. \A j, k \in lock' : j = k
        BY DEF IInv
    <1> QED  BY <1>1, <1>2, <1>4, <1>5, <1>6 DEF IInv

-----------------------------------------------------------------------------
(* The document and the directory *)

\* Where the thumbnails of the document are: the third conjunct of ShowsInv.
Placed ==
    doc.shows # 0 /\ lost = {} =>
        \/ dir = doc.shows
        \/ dir = Missing /\ \E k \in DOMAIN backups :
                                /\ backups[k] = [of |-> doc.shows, whole |-> TRUE]
                                /\ \A j \in DOMAIN backups : backups[j].whole => j <= k

Shown == doc.shows \in {0, doc.config} /\ (doc.state = "complete" => doc.shows = doc.config)

LEMMA ShowsSplit == ShowsInv <=> Shown /\ Placed
    BY DEF ShowsInv, Shown, Placed

LEMMA PlacedStays ==
    ASSUME Placed, UNCHANGED <<dir, backups>>, doc'.shows = doc.shows, lost \subseteq lost'
    PROVE  Placed'
    BY DEF Placed

LEMMA Directories ==
    /\ Missing \notin Contents /\ Missing \notin 0..MaxConfigs
    /\ Configs \subseteq Contents /\ Configs \subseteq 0..MaxConfigs /\ 0 \notin Configs
    /\ Mixed \in Contents /\ Missing # Mixed
    /\ 0..MaxConfigs \subseteq Contents
    BY BoundsAssumption DEF Missing, Contents, Mixed, Configs

LEMMA EnsureStep ==
    ASSUME IInv, Ensure, backups' = backups, doc'.shows = doc.shows
    PROVE  /\ dir' = Ensured /\ Ensured \in Contents
           /\ lost \subseteq lost' /\ lost' \subseteq {"import", "ensure", "age"}
           /\ dir # Missing => dir' = dir /\ lost' = lost
           /\ dir = Missing /\ backups # <<>> => "ensure" \in lost'
           /\ Placed'
    <1>1. dir' = Ensured /\ Ensured \in Contents /\ (dir # Missing => dir' = dir /\ lost' = lost)
        BY Directories DEF IInv, TypeOK, Ensure, Ensured
    <1>2. lost \subseteq lost' /\ lost' \subseteq {"import", "ensure", "age"}
        BY DEF IInv, TypeOK, Ensure
    <1>3. dir = Missing /\ backups # <<>> => "ensure" \in lost'
        BY DEF Ensure
    <1>4. Placed'
        <2>1. Placed
            BY ShowsSplit DEF IInv
        <2>2. CASE dir # Missing
            BY <1>1, <2>1, <2>2, PlacedStays
        <2>3. CASE dir = Missing /\ backups # <<>>
            BY <1>3, <2>3 DEF Placed
        <2>4. CASE dir = Missing /\ backups = <<>>
            <3>1. DOMAIN backups = {} /\ lost' = lost
                BY <2>4 DEF Ensure
            <3>2. doc.shows \in 0..MaxConfigs
                BY DEF IInv, TypeOK, Documents
            <3> QED  BY <2>1, <2>4, <3>1, <3>2, Directories DEF Placed
        <2> QED  BY <2>2, <2>3, <2>4
    <1> QED  BY <1>1, <1>2, <1>3, <1>4

\* The document says that the analysis is going on, or has failed.
LEMMA StateStep ==
    ASSUME IInv, NEW s \in {"analyzing", "failed"}, doc' = [doc EXCEPT !.state = s]
    PROVE  /\ doc' \in Documents /\ Shown'
           /\ doc'.config = doc.config /\ doc'.shows = doc.shows /\ doc'.auto = doc.auto
           /\ doc'.requested = doc.requested /\ doc'.hashed = doc.hashed
           /\ doc'.running = doc.running
    <1>1. doc \in Documents
        BY DEF IInv, TypeOK
    <1>2. /\ doc' \in Documents /\ doc'.state = s
          /\ doc'.config = doc.config /\ doc'.shows = doc.shows /\ doc'.auto = doc.auto
          /\ doc'.requested = doc.requested /\ doc'.hashed = doc.hashed
          /\ doc'.running = doc.running
        BY <1>1 DEF Documents
    <1> QED  BY <1>2 DEF IInv, ShowsInv, Shown

LEMMA RunningStep ==
    ASSUME NEW d \in Documents, NEW b \in BOOLEAN, NEW e, e = [d EXCEPT !.running = b]
    PROVE  /\ e \in Documents /\ e.running = b
           /\ e.config = d.config /\ e.shows = d.shows /\ e.auto = d.auto
           /\ e.requested = d.requested /\ e.hashed = d.hashed /\ e.state = d.state
    BY DEF Documents

LEMMA ConfiguredIs ==
    ASSUME NEW c \in Configs, NEW auto \in BOOLEAN, NEW h \in {"typed", "default"},
           NEW e, e = Configured(c, auto, h)
    PROVE  /\ e \in Documents /\ e.running = FALSE /\ e.state = "pending"
           /\ e.config = c /\ e.shows = 0
    <1>1. 0 \in 0..MaxConfigs
        BY BoundsAssumption
    <1> QED  BY <1>1 DEF Configured, Documents, Numbers

LEMMA AnalyzedIs ==
    ASSUME NEW d \in Documents, NEW e, e = Analyzed(d)
    PROVE  /\ e \in Documents /\ e.running = d.running /\ e.state = "complete"
           /\ e.config = d.config /\ e.shows = d.config /\ e.auto = d.auto
           /\ e.hashed = d.requested
           /\ e.requested = IF d.auto THEN "adjusted" ELSE d.requested
    <1>1. d.config \in 0..MaxConfigs /\ "adjusted" \in Numbers
        BY Directories DEF Documents, Numbers
    <1> QED  BY <1>1 DEF Analyzed, Documents

-----------------------------------------------------------------------------
(* The configuration and the import *)

LEMMA CopyOwns ==
    ASSUME NEW i \in Instances, pc'[i] \in {"copy", "record"}, i \in lock', work'[i].hits <= faults',
           work'[i].import # 0, "import" \in lost', pc'[i] = "record" => dir' = work'[i].import
    PROVE  OwnInv(i)'
    <1>1. SnapshotInv(i)'
        BY DEF SnapshotInv, RunSteps, AnalysisSteps
    <1>2. SwapInv(i)'
        BY DEF SwapInv, AnalysisSteps, Swapped
    <1> QED  BY <1>1, <1>2 DEF OwnInv, Quiet

LEMMA ConfigureKeeps ==
    ASSUME IInv, NEW i \in Instances, Configure(i)
    PROVE  IInv'
    <1>1. /\ lock = {} /\ pc[i] = "idle" /\ TypeOK
          /\ fresh \in Configs /\ fresh < MaxConfigs /\ fresh' = fresh + 1
          /\ dir' = Ensured /\ lost' = {}
          /\ UNCHANGED <<backups, residue, lock, pc, work, faults>>
        BY DEF Configure, Idle, IInv, TypeOK
    <1>2. fresh + 1 \in Configs
        BY <1>1, BoundsAssumption DEF Configs
    <1>3. PICK auto \in BOOLEAN, h \in {"typed", "default"} : doc' = Configured(fresh + 1, auto, h)
        BY DEF Configure
    <1>4. doc' \in Documents /\ doc'.shows = 0 /\ doc'.state = "pending"
        <2> DEFINE e == Configured(fresh + 1, auto, h)
        <2>1. e \in Documents /\ e.shows = 0 /\ e.state = "pending"
            <3>1. 0 \in 0..MaxConfigs
                BY BoundsAssumption
            <3> QED  BY <1>2, <1>3, <3>1 DEF Configured, Documents, Numbers
        <2>2. doc' = e
            BY <1>3
        <2> HIDE DEF e
        <2> QED  BY <2>1, <2>2
    <1>5. dir' \in Contents
        BY <1>1, Directories DEF TypeOK, Ensured
    <1>6. TypeOK'
        BY <1>1, <1>2, <1>4, <1>5 DEF TypeOK
    <1>7. ShowsInv'
        BY <1>4 DEF ShowsInv
    <1>8. OwnInv(i)'
        BY <1>1, QuietOwns, BoundsAssumption DEF IInv, OwnInv, TypeOK, Quiet
    <1> QED  BY <1>1, <1>6, <1>7, <1>8, Acting

LEMMA ImportBeginKeeps ==
    ASSUME IInv, NEW i \in Instances, ImportBegin(i)
    PROVE  IInv'
    <1> USE DEF ImportBegin
    <1> DEFINE w == [work[i] EXCEPT !.import = fresh + 1]
    <1>1. lock = {} /\ pc[i] = "idle" /\ TypeOK /\ "copy" \in Steps
        BY DEF IInv, Steps
    <1>2. fresh + 1 \in Configs /\ work[i] \in Works /\ work[i].hits <= faults
        BY <1>1, BoundsAssumption DEF TypeOK, Configs, IInv, OwnInv
    <1>3. w \in Works /\ w.import # 0 /\ w.hits = work[i].hits
        BY <1>2, Directories DEF Works
    <1>4. work' = [work EXCEPT ![i] = w]
        OBVIOUS
    <1> HIDE DEF w
    <1>5. /\ work' \in [Instances -> Works] /\ work'[i] = w
          /\ pc' \in [Instances -> Steps] /\ pc'[i] = "copy"
          /\ \A j \in Instances : j # i => pc'[j] = pc[j] /\ work'[j] = work[j]
        <2>1. /\ work' \in [Instances -> Works] /\ work'[i] = w
              /\ \A j \in Instances : j # i => work'[j] = work[j]
            BY <1>1, <1>3, <1>4, WorkType
        <2>2. /\ pc' \in [Instances -> Steps] /\ pc'[i] = "copy"
              /\ \A j \in Instances : j # i => pc'[j] = pc[j]
            BY <1>1, GotoType
        <2> QED  BY <2>1, <2>2
    <1>6. TypeOK'
        BY <1>1, <1>2, <1>5, Directories DEF TypeOK
    <1>7. ShowsInv'
        BY DEF IInv, ShowsInv
    <1>8. OwnInv(i)'
        BY <1>1, <1>2, <1>3, <1>5, CopyOwns
    <1> QED  BY <1>1, <1>5, <1>6, <1>7, <1>8, Acting

LEMMA ImportCopyKeeps ==
    ASSUME IInv, NEW i \in Instances, ImportCopy(i)
    PROVE  IInv'
    <1> USE DEF ImportCopy
    <1>1. /\ i \in lock /\ pc[i] = "copy" /\ TypeOK /\ "record" \in Steps
          /\ work[i].import # 0 /\ "import" \in lost /\ work[i].hits <= faults
        BY DEF IInv, OwnInv, SwapInv, Quiet, Steps
    <1>2. work[i].import \in 0..MaxConfigs
        BY <1>1 DEF TypeOK, Works
    <1>3. ShowsInv'
        BY <1>1 DEF IInv, ShowsInv
    <1>4. CASE dir' = work[i].import /\ Goto(i, "record") /\ UNCHANGED <<lock, work, faults>>
        <2>1. /\ pc' \in [Instances -> Steps] /\ pc'[i] = "record"
              /\ \A j \in Instances : j # i => pc'[j] = pc[j] /\ work'[j] = work[j]
            BY <1>1, <1>4, GotoType
        <2>2. TypeOK'
            BY <1>1, <1>2, <1>4, <2>1, Directories DEF TypeOK
        <2>3. OwnInv(i)'
            BY <1>1, <1>4, <2>1, CopyOwns
        <2> QED  BY <1>1, <1>3, <1>4, <2>1, <2>2, <2>3, Acting
    <1>5. CASE Fault /\ Leave(i) /\ UNCHANGED dir
        BY <1>1, <1>5, FaultType, LeaveType, Aside DEF Quiet
    <1> QED  BY <1>4, <1>5

LEMMA ImportRecordKeeps ==
    ASSUME IInv, NEW i \in Instances, ImportRecord(i)
    PROVE  IInv'
    <1>1. /\ i \in lock /\ pc[i] = "record" /\ TypeOK
          /\ work[i].import # 0 /\ dir = work[i].import
          /\ Leave(i) /\ UNCHANGED <<dir, backups, residue, fresh>>
        BY DEF ImportRecord, IInv, OwnInv, SwapInv, Quiet
    <1>2. work[i].import \in Configs
        BY <1>1 DEF TypeOK, Works, Configs
    <1>3. /\ pc' \in [Instances -> Steps] /\ work' \in [Instances -> Works]
          /\ pc'[i] = "idle" /\ work'[i] = NoWork
          /\ \A j \in Instances : j # i => pc'[j] = pc[j] /\ work'[j] = work[j]
          /\ lock' = lock \ {i} /\ lock' \subseteq Instances
        BY <1>1, LeaveType
    <1>4. CASE /\ \E auto \in BOOLEAN :
                      doc' = Analyzed(Configured(work[i].import, auto, "default"))
               /\ lost' = {} /\ UNCHANGED faults
        <2>1. PICK auto \in BOOLEAN : doc' = Analyzed(Configured(work[i].import, auto, "default"))
            BY <1>4
        <2>2. /\ doc' \in Documents /\ doc'.state = "complete"
              /\ doc'.config = work[i].import /\ doc'.shows = work[i].import
            <3> DEFINE c == Configured(work[i].import, auto, "default")
            <3>1. c \in Documents /\ c.config = work[i].import
                BY <1>2, ConfiguredIs
            <3>2. doc' = Analyzed(c)
                BY <2>1
            <3> HIDE DEF c
            <3> QED  BY <3>1, <3>2, AnalyzedIs
        <2>3. TypeOK'
            BY <1>1, <1>3, <1>4, <2>2 DEF TypeOK
        <2>4. ShowsInv'
            BY <1>1, <1>4, <2>2 DEF ShowsInv
        <2>5. OwnInv(i)'
            BY <1>3, <2>3, QuietOwns, BoundsAssumption DEF TypeOK, Quiet
        <2> QED  BY <1>1, <1>3, <2>3, <2>4, <2>5, Acting
    <1>5. CASE UNCHANGED <<doc, lost, faults>>
        BY <1>1, <1>3, <1>5, FineType, Aside DEF Quiet
    <1>6. CASE Fault /\ UNCHANGED <<doc, lost>>
        BY <1>1, <1>3, <1>6, FaultType, Aside DEF Quiet
    <1> QED  BY <1>4, <1>5, <1>6 DEF ImportRecord

-----------------------------------------------------------------------------
(* A run *)

LEMMA Parts ==
    ASSUME IInv, NEW i \in Instances
    PROVE  /\ TypeOK /\ Shown /\ Placed /\ OwnInv(i) /\ SnapshotInv(i) /\ SwapInv(i)
           /\ doc \in Documents /\ doc.shows \in 0..MaxConfigs /\ doc.config \in Configs
           /\ work[i] \in Works /\ work[i].snap \in Documents /\ work[i].before \in Contents
           /\ work[i].hits \in Nat /\ faults \in Nat /\ work[i].hits <= faults
           /\ work[i].run \in BOOLEAN /\ work[i].committed \in BOOLEAN
    <1>1. TypeOK /\ Shown /\ Placed /\ OwnInv(i)
        BY ShowsSplit DEF IInv
    <1>2. doc \in Documents /\ work[i] \in Works /\ faults \in Nat
        BY <1>1, BoundsAssumption DEF TypeOK
    <1>3. /\ work[i].hits \in 0..MaxFaults /\ work[i].snap \in Documents /\ work[i].before \in Contents
          /\ work[i].run \in BOOLEAN /\ work[i].committed \in BOOLEAN
        BY <1>2 DEF Works
    <1>4. work[i].hits \in Nat
        BY <1>3, BoundsAssumption
    <1>5. doc.shows \in 0..MaxConfigs /\ doc.config \in Configs
        BY <1>2 DEF Documents
    <1> QED  BY <1>1, <1>2, <1>3, <1>4, <1>5 DEF OwnInv

LEMMA NoWorkIs ==
    /\ ~ NoWork.run /\ NoWork.hits = 0 /\ ~ NoWork.committed
    BY DEF NoWork

\* The instance goes on with the document it has read.
LEMMA SnapStays ==
    ASSUME NEW i \in Instances, SnapshotInv(i),
           work'[i].snap = work[i].snap, work'[i].run = work[i].run,
           doc'.config = doc.config, doc'.shows = doc.shows, doc'.auto = doc.auto,
           doc'.requested = doc.requested, doc'.hashed = doc.hashed, doc'.running = doc.running,
           \/ pc[i] \in AnalysisSteps \cup {"ingest"} /\ pc'[i] \in AnalysisSteps
           \/ pc[i] \in RunSteps \cup AnalysisSteps /\ pc'[i] = "end" /\ doc.running
    PROVE  SnapshotInv(i)'
    <1>1. CASE pc[i] \in AnalysisSteps \cup {"ingest"} /\ pc'[i] \in AnalysisSteps
        BY <1>1 DEF SnapshotInv, RunSteps, AnalysisSteps
    <1>2. CASE pc[i] \in RunSteps \cup AnalysisSteps /\ pc'[i] = "end" /\ doc.running
        BY <1>2 DEF SnapshotInv, RunSteps, AnalysisSteps
    <1> QED  BY <1>1, <1>2

LEMMA RunOwns ==
    ASSUME NEW i \in Instances, pc'[i] \in RunSteps, i \in lock', work'[i].hits <= faults',
           SnapshotInv(i)'
    PROVE  OwnInv(i)'
    <1>1. SwapInv(i)'
        BY DEF SwapInv, RunSteps, AnalysisSteps, Swapped
    <1> QED  BY <1>1 DEF OwnInv, RunSteps, Quiet

LEMMA RunBeginKeeps ==
    ASSUME IInv, NEW i \in Instances, RunBegin(i)
    PROVE  IInv'
    <1>1. /\ pc[i] = "idle" /\ lock = {} /\ lock' = {i} /\ Goto(i, "ingest") /\ "ingest" \in Steps
          /\ UNCHANGED <<backups, residue, fresh, faults>>
          /\ doc' = [doc EXCEPT !.running = TRUE]
        BY DEF RunBegin, Idle, Steps
    <1>2. /\ pc' \in [Instances -> Steps] /\ pc'[i] = "ingest"
          /\ \A j \in Instances : j # i => pc'[j] = pc[j]
        BY <1>1, Parts, GotoType
    <1>3. /\ doc' \in Documents /\ doc'.running = TRUE
          /\ doc'.config = doc.config /\ doc'.shows = doc.shows /\ doc'.auto = doc.auto
          /\ doc'.requested = doc.requested /\ doc'.hashed = doc.hashed /\ doc'.state = doc.state
        <2>1. doc \in Documents
            BY Parts
        <2> QED  BY <1>1, <2>1 DEF Documents
    <1> DEFINE w == [work[i] EXCEPT !.run = TRUE, !.snap = doc]
    <1>4. /\ w \in Works /\ w.run = TRUE /\ w.snap = doc /\ w.hits = work[i].hits
          /\ w.committed = work[i].committed
        BY Parts DEF Works
    <1>5. work' = [work EXCEPT ![i] = w]
        BY DEF RunBegin
    <1> HIDE DEF w
    <1>6. /\ work' \in [Instances -> Works] /\ work'[i] = w
          /\ \A j \in Instances : j # i => work'[j] = work[j]
        BY <1>4, <1>5, Parts, WorkType
    <1>7. Placed' /\ dir' \in {Missing} \cup Contents /\ lost' \subseteq {"import", "ensure", "age"}
        <2>1. CASE Ensure
            BY <1>1, <1>3, <2>1, EnsureStep
        <2>2. CASE UNCHANGED <<dir, lost>>
            BY <1>1, <1>3, <2>2, PlacedStays, Parts DEF TypeOK
        <2> QED  BY <2>1, <2>2 DEF RunBegin
    <1>8. TypeOK'
        BY <1>1, <1>2, <1>3, <1>6, <1>7, Parts DEF TypeOK
    <1>9. ShowsInv'
        BY <1>3, <1>7, Parts DEF Shown, Placed, ShowsInv
    <1>10. OwnInv(i)'
        <2>1. work[i] = NoWork
            BY <1>1, Parts DEF OwnInv, Quiet
        <2>2. SnapshotInv(i)'
            BY <1>2, <1>3, <1>4, <1>6, <2>1, NoWorkIs, Parts DEF SnapshotInv, RunSteps, AnalysisSteps, Shown
        <2>3. work'[i].hits <= faults'
            BY <1>1, <1>4, <1>6, Parts
        <2> QED  BY <1>1, <1>2, <2>2, <2>3, RunOwns DEF RunSteps
    <1> QED  BY <1>1, <1>2, <1>6, <1>8, <1>9, <1>10, Acting

\* Somebody else has the lock.
LEMMA RunRefusedKeeps ==
    ASSUME IInv, NEW i \in Instances, RunRefused(i)
    PROVE  IInv'
    <1>1. /\ lock # {} /\ dir = Missing /\ Fault /\ Ensure
          /\ UNCHANGED <<doc, backups, residue, lock, pc, work, fresh>>
        BY DEF RunRefused
    <1>2. TypeOK /\ faults' \in 0..MaxFaults /\ faults <= faults'
        BY <1>1, Parts, FaultType
    <1>3. /\ Placed' /\ dir' \in Contents /\ lost' \subseteq {"import", "ensure", "age"}
          /\ lost \subseteq lost' /\ (backups # <<>> => "ensure" \in lost')
        BY <1>1, EnsureStep
    <1>4. TypeOK'
        BY <1>1, <1>2, <1>3 DEF TypeOK
    <1>5. ShowsInv'
        BY <1>1, <1>3, Parts DEF Shown, Placed, ShowsInv
    <1>6. ASSUME NEW j \in Instances PROVE OwnInv(j)'
        <2>1. work'[j].hits <= faults'
            BY <1>1, <1>2, <1>4, Parts, BoundsAssumption DEF TypeOK
        <2>2. SnapshotInv(j)'
            BY <1>1, Parts DEF SnapshotInv
        <2>3. SwapInv(j)'
            <3>1. work[j].import \in 0..MaxConfigs
                BY Parts DEF Works
            <3>2. /\ pc[j] # "record" /\ pc[j] \notin {"analyze", "swap", "commit", "abandon"}
                  /\ pc[j] = "leave" => ~ work[j].committed
                  /\ ~ (pc[j] \in {"note", "leave"} /\ ~ work[j].committed /\ work[j].hits <= 1
                        /\ "ensure" \notin lost)
                BY <1>1, <3>1, Parts, Directories DEF SwapInv
            <3>3. pc[j] \in Swapped => "ensure" \in lost'
                BY <1>3, Parts DEF SwapInv
            <3> QED  BY <1>1, <1>3, <3>2, <3>3, Parts DEF SwapInv, Swapped
        <2> QED  BY <1>1, <2>1, <2>2, <2>3, Parts DEF OwnInv
    <1> QED  BY <1>1, <1>4, <1>5, <1>6 DEF IInv

\* An analysis begins.
LEMMA AnalyzeOwns ==
    ASSUME NEW i \in Instances, pc'[i] = "analyze", i \in lock', work'[i].hits = 0, faults' \in Nat,
           SnapshotInv(i)', dir' = work'[i].before, ~ work'[i].committed
    PROVE  OwnInv(i)'
    <1>1. SwapInv(i)'
        BY DEF SwapInv, AnalysisSteps, Swapped
    <1> QED  BY <1>1 DEF OwnInv, Quiet

LEMMA IngestKeeps ==
    ASSUME IInv, NEW i \in Instances, Ingest(i)
    PROVE  IInv'
    <1>1. /\ pc[i] = "ingest" /\ i \in lock /\ UNCHANGED <<backups, residue, lock, fresh>>
          /\ {"extract", "analyze", "end"} \subseteq Steps
          /\ work[i].run /\ ~ work[i].committed /\ work[i].hits = 0 /\ doc.running
        BY Parts DEF Ingest, Steps, AnalysisSteps, OwnInv, Quiet, SnapshotInv, RunSteps
    <1>5. CASE Goto(i, "end") /\ Fine /\ UNCHANGED <<doc, dir, lost>>
        <2>1. /\ pc' \in [Instances -> Steps] /\ pc'[i] = "end" /\ UNCHANGED <<work, faults>>
              /\ \A j \in Instances : j # i => pc'[j] = pc[j]
            BY <1>1, <1>5, Parts, GotoType DEF Fine
        <2>2. TypeOK'
            BY <1>1, <1>5, <2>1, Parts DEF TypeOK
        <2>3. ShowsInv'
            BY <1>1, <1>5, Parts DEF Shown, Placed, ShowsInv
        <2>4. SnapshotInv(i)'
            BY <1>1, <1>5, <2>1, Parts, SnapStays DEF RunSteps
        <2>5. OwnInv(i)'
            BY <1>1, <2>1, <2>4, RunOwns, Parts DEF RunSteps
        <2> QED  BY <1>1, <2>1, <2>2, <2>3, <2>5, Acting
    <1>2. CASE /\ Matches(work[i].snap)
               /\ Goto(i, "extract") /\ Fine /\ UNCHANGED <<doc, dir, lost>>
        <2>1. /\ pc' \in [Instances -> Steps] /\ pc'[i] = "extract" /\ UNCHANGED <<work, faults>>
              /\ \A j \in Instances : j # i => pc'[j] = pc[j]
            BY <1>1, <1>2, Parts, GotoType DEF Fine
        <2>2. TypeOK'
            BY <1>1, <1>2, <2>1, Parts DEF TypeOK
        <2>3. ShowsInv'
            BY <1>1, <1>2, Parts DEF Shown, Placed, ShowsInv
        <2>4. work[i].snap.state = "complete"
            BY <1>2 DEF Matches
        <2>5. SnapshotInv(i)'
            BY <1>1, <1>2, <2>1, <2>4, Parts DEF SnapshotInv, RunSteps, AnalysisSteps
        <2>6. OwnInv(i)'
            BY <1>1, <2>1, <2>5, RunOwns, Parts DEF RunSteps
        <2> QED  BY <1>1, <2>1, <2>2, <2>3, <2>6, Acting
    <1>3. CASE /\ Ensure
               /\ doc' = [doc EXCEPT !.state = "analyzing"]
               /\ work' = [work EXCEPT ![i].before = Ensured]
               /\ Goto(i, "analyze") /\ UNCHANGED faults
        <2>1. /\ pc' \in [Instances -> Steps] /\ pc'[i] = "analyze"
              /\ \A j \in Instances : j # i => pc'[j] = pc[j]
            BY <1>1, <1>3, Parts, GotoType
        <2>2. /\ doc' \in Documents /\ Shown'
              /\ doc'.config = doc.config /\ doc'.shows = doc.shows /\ doc'.auto = doc.auto
              /\ doc'.requested = doc.requested /\ doc'.hashed = doc.hashed
              /\ doc'.running = doc.running
            BY <1>3, StateStep
        <2>3. /\ Placed' /\ dir' = Ensured /\ dir' \in Contents
              /\ lost' \subseteq {"import", "ensure", "age"}
            BY <1>1, <1>3, <2>2, EnsureStep
        <2> DEFINE w == [work[i] EXCEPT !.before = Ensured]
        <2>4. /\ w \in Works /\ w.before = Ensured /\ w.run = work[i].run /\ w.snap = work[i].snap
              /\ w.hits = work[i].hits /\ w.committed = work[i].committed
            BY <2>3, Parts DEF Works
        <2>5. work' = [work EXCEPT ![i] = w]
            BY <1>3
        <2> HIDE DEF w
        <2>6. /\ work' \in [Instances -> Works] /\ work'[i] = w
              /\ \A j \in Instances : j # i => work'[j] = work[j]
            BY <2>4, <2>5, Parts, WorkType
        <2>7. TypeOK'
            BY <1>1, <1>3, <2>1, <2>2, <2>3, <2>6, Parts DEF TypeOK
        <2>8. ShowsInv'
            BY <2>2, <2>3 DEF Shown, Placed, ShowsInv
        <2>9. SnapshotInv(i)'
            BY <1>1, <2>1, <2>2, <2>4, <2>6, Parts, SnapStays DEF AnalysisSteps
        <2>10. OwnInv(i)'
            BY <1>1, <1>3, <2>1, <2>3, <2>4, <2>6, <2>9, Parts, AnalyzeOwns
        <2> QED  BY <1>1, <2>1, <2>6, <2>7, <2>8, <2>10, Acting
    <1>4. CASE Hit(i) /\ Goto(i, "end") /\ UNCHANGED <<doc, dir, lost>>
        <2>1. /\ pc' \in [Instances -> Steps] /\ pc'[i] = "end"
              /\ \A j \in Instances : j # i => pc'[j] = pc[j]
            BY <1>1, <1>4, Parts, GotoType
        <2>2. /\ work' \in [Instances -> Works] /\ work'[i].hits <= faults'
              /\ work'[i].snap = work[i].snap /\ work'[i].run = work[i].run
              /\ \A j \in Instances : j # i => work'[j] = work[j]
              /\ faults' \in 0..MaxFaults
            BY <1>4, HitType
        <2>3. TypeOK'
            BY <1>1, <1>4, <2>1, <2>2, Parts DEF TypeOK
        <2>4. ShowsInv'
            BY <1>1, <1>4, Parts DEF Shown, Placed, ShowsInv
        <2>5. SnapshotInv(i)'
            BY <1>1, <1>4, <2>1, <2>2, Parts, SnapStays DEF RunSteps
        <2>6. OwnInv(i)'
            BY <1>1, <2>1, <2>2, <2>5, RunOwns DEF RunSteps
        <2> QED  BY <1>1, <2>1, <2>2, <2>3, <2>4, <2>6, Acting
    <1> QED  BY <1>2, <1>3, <1>4, <1>5 DEF Ingest

LEMMA ExtractKeeps ==
    ASSUME IInv, NEW i \in Instances, Extract(i)
    PROVE  IInv'
    <1>1. /\ pc[i] = "extract" /\ i \in lock /\ doc.running /\ "end" \in Steps
          /\ Goto(i, "end") /\ UNCHANGED <<doc, dir, backups, residue, lock, work, fresh, lost, faults>>
        BY Parts DEF Extract, Steps, OwnInv, Quiet, SnapshotInv, RunSteps
    <1>2. /\ pc' \in [Instances -> Steps] /\ pc'[i] = "end"
          /\ \A j \in Instances : j # i => pc'[j] = pc[j]
        BY <1>1, Parts, GotoType
    <1>3. TypeOK'
        BY <1>1, <1>2, Parts DEF TypeOK
    <1>4. ShowsInv'
        BY <1>1, Parts DEF Shown, Placed, ShowsInv
    <1>5. SnapshotInv(i)'
        BY <1>1, <1>2, Parts, SnapStays DEF RunSteps
    <1>6. OwnInv(i)'
        BY <1>1, <1>2, <1>5, Parts, RunOwns DEF RunSteps
    <1> QED  BY <1>1, <1>2, <1>3, <1>4, <1>6, Acting

LEMMA RunEndKeeps ==
    ASSUME IInv, NEW i \in Instances, RunEnd(i)
    PROVE  IInv'
    <1>1. /\ pc[i] = "end" /\ i \in lock /\ Leave(i) /\ UNCHANGED <<dir, backups, residue, fresh, lost>>
        BY Parts DEF RunEnd, OwnInv, Quiet
    <1>2. /\ pc' \in [Instances -> Steps] /\ work' \in [Instances -> Works]
          /\ pc'[i] = "idle" /\ work'[i] = NoWork
          /\ \A j \in Instances : j # i => pc'[j] = pc[j] /\ work'[j] = work[j]
          /\ lock' = lock \ {i} /\ lock' \subseteq Instances
        BY <1>1, Parts, LeaveType
    <1>3. CASE /\ \E running \in {FALSE, work[i].hits > 0} :
                      doc' = [work[i].snap EXCEPT !.running = running]
               /\ UNCHANGED faults
        <2> DEFINE d == work[i].snap
        <2>1. PICK running \in BOOLEAN : doc' = [d EXCEPT !.running = running]
            <3> DEFINE hit == work[i].hits > 0
            <3>1. FALSE \in BOOLEAN /\ hit \in BOOLEAN
                OBVIOUS
            <3>2. \E running \in {FALSE, hit} : doc' = [d EXCEPT !.running = running]
                BY <1>3
            <3> HIDE DEF hit
            <3> QED  BY <3>1, <3>2, Zenon
        <2>2. d \in Documents
            BY Parts
        <2>3. /\ doc' \in Documents /\ doc'.config = d.config /\ doc'.shows = d.shows
              /\ doc'.state = d.state
            BY <2>1, <2>2 DEF Documents
        <2>4. /\ d.config = doc.config /\ d.shows = doc.shows
              /\ d.state = "complete" => d.shows = d.config
            BY <1>1, Parts DEF SnapshotInv, RunSteps
        <2>5. TypeOK'
            BY <1>1, <1>2, <1>3, <2>3, Parts DEF TypeOK
        <2>6. ShowsInv'
            BY <1>1, <2>3, <2>4, Parts DEF ShowsInv, Shown, Placed
        <2>7. OwnInv(i)'
            BY <1>2, <1>3, Parts, QuietOwns DEF Quiet
        <2> QED  BY <1>1, <1>2, <2>5, <2>6, <2>7, Acting
    <1>4. CASE Fault /\ UNCHANGED doc
        BY <1>1, <1>2, <1>4, Parts, FaultType, Aside DEF Quiet
    <1> QED  BY <1>3, <1>4 DEF RunEnd

-----------------------------------------------------------------------------
(* An analysis *)

LEMMA AnalyzeBeginKeeps ==
    ASSUME IInv, NEW i \in Instances, AnalyzeBegin(i)
    PROVE  IInv'
    <1>1. /\ pc[i] = "idle" /\ lock = {} /\ lock' = {i} /\ Goto(i, "analyze") /\ "analyze" \in Steps
          /\ Ensure /\ UNCHANGED <<backups, residue, fresh, faults>>
          /\ doc' = [doc EXCEPT !.state = "analyzing"]
        BY DEF AnalyzeBegin, Idle, Steps, AnalysisSteps
    <1>2. /\ pc' \in [Instances -> Steps] /\ pc'[i] = "analyze"
          /\ \A j \in Instances : j # i => pc'[j] = pc[j]
        BY <1>1, Parts, GotoType
    <1>3. /\ doc' \in Documents /\ Shown'
          /\ doc'.config = doc.config /\ doc'.shows = doc.shows /\ doc'.auto = doc.auto
          /\ doc'.requested = doc.requested /\ doc'.hashed = doc.hashed
        BY <1>1, StateStep
    <1>4. /\ Placed' /\ dir' = Ensured /\ dir' \in Contents
          /\ lost' \subseteq {"import", "ensure", "age"}
        BY <1>1, <1>3, EnsureStep
    <1> DEFINE w == [work[i] EXCEPT !.before = Ensured, !.snap = doc]
    <1>5. /\ w \in Works /\ w.before = Ensured /\ w.run = work[i].run /\ w.snap = doc
          /\ w.hits = work[i].hits /\ w.committed = work[i].committed
        BY <1>4, Parts DEF Works
    <1>6. work' = [work EXCEPT ![i] = w]
        BY DEF AnalyzeBegin
    <1> HIDE DEF w
    <1>7. /\ work' \in [Instances -> Works] /\ work'[i] = w
          /\ \A j \in Instances : j # i => work'[j] = work[j]
        BY <1>5, <1>6, Parts, WorkType
    <1>8. TypeOK'
        BY <1>1, <1>2, <1>3, <1>4, <1>7, Parts DEF TypeOK
    <1>9. ShowsInv'
        BY <1>3, <1>4 DEF Shown, Placed, ShowsInv
    <1>10. work[i] = NoWork
        BY <1>1, Parts DEF OwnInv, Quiet
    <1>11. w.hits = 0 /\ ~ w.committed /\ ~ w.run
        BY <1>5, <1>10, NoWorkIs
    <1>12. SnapshotInv(i)'
        BY <1>2, <1>3, <1>5, <1>7, <1>11, Parts DEF SnapshotInv, RunSteps, AnalysisSteps, Shown
    <1>13. OwnInv(i)'
        BY <1>1, <1>2, <1>4, <1>5, <1>7, <1>11, <1>12, Parts, AnalyzeOwns
    <1> QED  BY <1>1, <1>2, <1>7, <1>8, <1>9, <1>13, Acting

LEMMA AnalysisStep ==
    ASSUME IInv, NEW i \in Instances, pc[i] \in AnalysisSteps, NEW s \in AnalysisSteps, Goto(i, s),
           Fine \/ Hit(i)
    PROVE  /\ pc'[i] = s /\ i \in lock
           /\ pc' \in [Instances -> Steps] /\ work' \in [Instances -> Works]
           /\ \A j \in Instances : j # i => pc'[j] = pc[j] /\ work'[j] = work[j]
           /\ work'[i].run = work[i].run /\ work'[i].snap = work[i].snap
           /\ work'[i].before = work[i].before /\ work'[i].committed = work[i].committed
           /\ work[i].hits \in Nat /\ work'[i].hits <= faults' /\ faults' \in 0..MaxFaults
           /\ Fine => work'[i].hits = work[i].hits
           /\ Hit(i) => work'[i].hits = work[i].hits + 1
           /\ work'[i].hits = work[i].hits \/ work'[i].hits = work[i].hits + 1
    <1>1. i \in lock
        BY Parts DEF OwnInv, Quiet, AnalysisSteps
    <1>2. s \in Steps
        BY DEF Steps
    <1>3. /\ pc' \in [Instances -> Steps] /\ pc'[i] = s
          /\ \A j \in Instances : j # i => pc'[j] = pc[j]
        BY <1>2, Parts, GotoType
    <1>4. Hit(i) => work' # work
        <2>1. ASSUME Hit(i), work' = work PROVE FALSE
            <3>1. work'[i].hits = work[i].hits + 1 /\ work[i].hits \in Nat
                BY <2>1, HitType
            <3> QED  BY <2>1, <3>1
        <2> QED  BY <2>1
    <1>5. CASE Fine
        BY <1>1, <1>3, <1>4, <1>5, Parts DEF Fine, TypeOK
    <1>6. CASE Hit(i)
        <2>1. ~ Fine
            BY <1>4, <1>6 DEF Fine
        <2>2. /\ work' \in [Instances -> Works]
              /\ work'[i].hits = work[i].hits + 1 /\ work'[i].hits <= faults'
              /\ work[i].hits \in Nat
              /\ \A j \in Instances : j # i => work'[j] = work[j]
              /\ work'[i].run = work[i].run /\ work'[i].snap = work[i].snap
              /\ work'[i].before = work[i].before /\ work'[i].committed = work[i].committed
              /\ faults' \in 0..MaxFaults
            BY <1>6, HitType
        <2> QED  BY <1>1, <1>3, <2>1, <2>2
    <1> QED  BY <1>5, <1>6

LEMMA AnalysisKeeps ==
    ASSUME IInv, NEW i \in Instances, pc[i] \in AnalysisSteps, NEW s \in AnalysisSteps, Goto(i, s),
           Fine \/ Hit(i), UNCHANGED <<lock, fresh>>,
           doc' \in Documents, Shown',
           doc'.config = doc.config, doc'.shows = doc.shows, doc'.auto = doc.auto,
           doc'.requested = doc.requested, doc'.hashed = doc.hashed, doc'.running = doc.running,
           dir' \in {Missing} \cup Contents, backups' \in Seq(Backups),
           residue' \subseteq {"staging", "failed"}, lost' \subseteq {"import", "ensure", "age"},
           Placed', SwapInv(i)'
    PROVE  IInv'
    <1>1. /\ pc'[i] = s /\ i \in lock
          /\ pc' \in [Instances -> Steps] /\ work' \in [Instances -> Works]
          /\ \A j \in Instances : j # i => pc'[j] = pc[j] /\ work'[j] = work[j]
          /\ work'[i].run = work[i].run /\ work'[i].snap = work[i].snap
          /\ work'[i].hits <= faults' /\ faults' \in 0..MaxFaults
        BY AnalysisStep
    <1>2. TypeOK'
        BY <1>1, Parts DEF TypeOK
    <1>3. ShowsInv'
        BY DEF Shown, Placed, ShowsInv
    <1>4. SnapshotInv(i)'
        BY <1>1, Parts, SnapStays
    <1>5. OwnInv(i)'
        BY <1>1, <1>4 DEF OwnInv, Quiet, AnalysisSteps
    <1> QED  BY <1>1, <1>2, <1>3, <1>5, Acting

LEMMA AnalyzeKeeps ==
    ASSUME IInv, NEW i \in Instances, Analyze(i)
    PROVE  IInv'
    <1>1. PICK s \in {"swap", "note"} :
              /\ Goto(i, s) /\ (Fine \/ Hit(i)) /\ (s = "swap" => Fine)
        BY DEF Analyze
    <1>2. /\ pc[i] \in AnalysisSteps /\ s \in AnalysisSteps /\ pc[i] = "analyze"
          /\ UNCHANGED <<doc, dir, backups, lock, fresh, lost>>
          /\ residue' \subseteq {"staging", "failed"}
        BY <1>1, Parts DEF Analyze, AnalysisSteps, TypeOK
    <1>3. Placed' /\ Shown'
        BY <1>2, Parts DEF Placed, Shown
    <1>4. SwapInv(i)'
        BY <1>1, <1>2, AnalysisStep, Parts DEF SwapInv, AnalysisSteps, Swapped
    <1> QED  BY <1>1, <1>2, <1>3, <1>4, Parts, AnalysisKeeps DEF TypeOK

LEMMA SwapKeeps ==
    ASSUME IInv, NEW i \in Instances, Swap(i)
    PROVE  IInv'
    <1>1. /\ pc[i] \in AnalysisSteps /\ pc[i] = "swap" /\ {"publish", "note"} \subseteq AnalysisSteps
          /\ UNCHANGED <<doc, residue, lock, fresh, lost>>
          /\ Shown' /\ dir = work[i].before /\ dir \in Contents
        BY Parts DEF Swap, AnalysisSteps, Shown, SwapInv
    <1>2. CASE /\ backups' = Append(backups, [of |-> dir, whole |-> TRUE])
               /\ dir' = Missing
               /\ Goto(i, "publish") /\ Fine
        <2> DEFINE b == [of |-> dir, whole |-> TRUE]
        <2>1. b \in Backups /\ b.whole /\ backups \in Seq(Backups)
            BY <1>1, Parts DEF Backups, TypeOK
        <2>2. backups' = Append(backups, b) /\ (b = [of |-> work[i].before, whole |-> TRUE])
            BY <1>1, <1>2
        <2>3. doc.shows # 0 /\ lost = {} => dir = doc.shows /\ b = [of |-> doc.shows, whole |-> TRUE]
            BY <1>1, Parts, Directories DEF Placed
        <2> HIDE DEF b
        <2>4. /\ backups' \in Seq(Backups) /\ backups' # <<>> /\ Last(backups') = b
              /\ Len(backups') \in DOMAIN backups'
            BY <2>1, <2>2, AppendLast, LastOf
        <2>5. Placed'
            <3>1. \A j \in DOMAIN backups' : j <= Len(backups')
                BY <2>4
            <3>2. backups'[Len(backups')] = b
                BY <2>4 DEF Last
            <3> QED  BY <1>1, <1>2, <2>3, <2>4, <3>1, <3>2 DEF Placed
        <2>6. SwapInv(i)'
            BY <1>1, <1>2, <2>2, <2>3, <2>4, AnalysisStep, Parts DEF SwapInv, AnalysisSteps, Swapped
        <2> QED  BY <1>1, <1>2, <2>4, <2>5, <2>6, Parts, AnalysisKeeps DEF TypeOK
    <1>3. CASE Hit(i) /\ Goto(i, "note") /\ UNCHANGED <<dir, backups>>
        <2>1. Placed'
            BY <1>1, <1>3, Parts DEF Placed
        <2>2. SwapInv(i)'
            BY <1>1, <1>3, AnalysisStep, Parts DEF SwapInv, AnalysisSteps, Swapped
        <2> QED  BY <1>1, <1>3, <2>1, <2>2, Parts, AnalysisKeeps DEF TypeOK
    <1> QED  BY <1>2, <1>3 DEF Swap

LEMMA PublishKeeps ==
    ASSUME IInv, NEW i \in Instances, Publish(i)
    PROVE  IInv'
    <1>1. /\ pc[i] \in AnalysisSteps /\ pc[i] = "publish" /\ {"commit", "unswap"} \subseteq AnalysisSteps
          /\ UNCHANGED <<doc, backups, residue, lock, fresh, lost>> /\ Shown'
        BY Parts DEF Publish, AnalysisSteps, Shown
    <1>2. CASE dir' = doc.config /\ Goto(i, "commit") /\ Fine
        <2>1. Placed' /\ dir' \in Contents
            BY <1>1, <1>2, Parts, Directories DEF Placed, Shown
        <2>2. SwapInv(i)'
            BY <1>1, <1>2, AnalysisStep, Parts DEF SwapInv, AnalysisSteps, Swapped
        <2> QED  BY <1>1, <1>2, <2>1, <2>2, Parts, AnalysisKeeps DEF TypeOK
    <1>3. CASE Goto(i, "unswap") /\ ((dir # Missing /\ Fine) \/ Hit(i)) /\ UNCHANGED dir
        <2>1. Placed'
            BY <1>1, <1>3, Parts DEF Placed
        <2>2. SwapInv(i)'
            BY <1>1, <1>3, AnalysisStep, Parts DEF SwapInv, AnalysisSteps, Swapped
        <2> QED  BY <1>1, <1>3, <2>1, <2>2, Parts, AnalysisKeeps DEF TypeOK
    <1> QED  BY <1>2, <1>3 DEF Publish

\* The old directory comes back from the last backup.
LEMMA BackStep ==
    ASSUME IInv, NEW i \in Instances, pc[i] \in Swapped,
           dir' = Last(backups).of, backups' = Front(backups), UNCHANGED <<doc, lost>>
    PROVE  dir' = work[i].before /\ dir' \in Contents /\ backups' \in Seq(Backups) /\ Placed'
    <1>1. /\ Last(backups) = [of |-> work[i].before, whole |-> TRUE] /\ backups # <<>>
          /\ doc.shows # 0 /\ lost = {} => work[i].before = doc.shows
        BY Parts DEF SwapInv
    <1>2. dir' = work[i].before
        BY <1>1
    <1> QED  BY <1>1, <1>2, Parts, FrontOf DEF Placed, TypeOK

LEMMA UnswapKeeps ==
    ASSUME IInv, NEW i \in Instances, Unswap(i)
    PROVE  IInv'
    <1>1. /\ pc[i] \in AnalysisSteps /\ pc[i] = "unswap" /\ "note" \in AnalysisSteps
          /\ pc[i] \in Swapped /\ Goto(i, "note")
          /\ UNCHANGED <<doc, residue, lock, fresh, lost>> /\ Shown'
        BY Parts DEF Unswap, AnalysisSteps, Shown, Swapped
    <1>2. CASE dir' = Last(backups).of /\ backups' = Front(backups) /\ Fine
        <2>1. dir' = work[i].before /\ dir' \in Contents /\ backups' \in Seq(Backups) /\ Placed'
            BY <1>1, <1>2, BackStep
        <2>2. SwapInv(i)'
            BY <1>1, <1>2, <2>1, AnalysisStep, Parts DEF SwapInv, AnalysisSteps, Swapped
        <2> QED  BY <1>1, <1>2, <2>1, <2>2, Parts, AnalysisKeeps DEF TypeOK
    <1>3. CASE ((dir # Missing /\ Fine) \/ Hit(i)) /\ UNCHANGED <<dir, backups>>
        <2>1. Placed'
            BY <1>1, <1>3, Parts DEF Placed
        <2>2. SwapInv(i)'
            BY <1>1, <1>3, AnalysisStep, Parts DEF SwapInv, AnalysisSteps, Swapped
        <2> QED  BY <1>1, <1>3, <2>1, <2>2, Parts, AnalysisKeeps DEF TypeOK
    <1> QED  BY <1>2, <1>3 DEF Unswap

LEMMA CommitKeeps ==
    ASSUME IInv, NEW i \in Instances, Commit(i)
    PROVE  IInv'
    <1>1. /\ pc[i] \in AnalysisSteps /\ pc[i] = "commit" /\ {"leave", "abandon"} \subseteq AnalysisSteps
          /\ "leave" \in Steps /\ i \in lock
          /\ UNCHANGED <<dir, backups, residue, lock, fresh>> /\ pc[i] \in Swapped
          /\ dir = doc.config /\ backups # <<>>
        BY Parts DEF Commit, AnalysisSteps, SwapInv, Swapped, Steps, OwnInv, Quiet
    <1>2. CASE /\ doc' = Analyzed(doc)
               /\ work' = [work EXCEPT ![i].committed = TRUE, ![i].snap = Analyzed(@)]
               /\ lost' = {}
               /\ Goto(i, "leave") /\ UNCHANGED faults
        <2> DEFINE e == Analyzed(work[i].snap)
                   w == [work[i] EXCEPT !.committed = TRUE, !.snap = e]
        <2>1. /\ doc' \in Documents /\ doc'.running = doc.running /\ doc'.state = "complete"
              /\ doc'.config = doc.config /\ doc'.shows = doc.config /\ doc'.auto = doc.auto
              /\ doc'.hashed = doc.requested
              /\ doc'.requested = IF doc.auto THEN "adjusted" ELSE doc.requested
            BY <1>2, Parts, AnalyzedIs
        <2>2. LET d == work[i].snap IN
              /\ e \in Documents /\ e.state = "complete"
              /\ e.config = d.config /\ e.shows = d.config /\ e.auto = d.auto
              /\ e.hashed = d.requested
              /\ e.requested = IF d.auto THEN "adjusted" ELSE d.requested
            BY Parts, AnalyzedIs
        <2>3. work' = [work EXCEPT ![i] = w]
            BY <1>2
        <2> HIDE DEF e
        <2>4. /\ w \in Works /\ w.committed = TRUE /\ w.snap = e /\ w.run = work[i].run
              /\ w.hits = work[i].hits
            BY <2>2, Parts DEF Works
        <2> HIDE DEF w
        <2>5. /\ work' \in [Instances -> Works] /\ work'[i] = w
              /\ \A j \in Instances : j # i => work'[j] = work[j]
            BY <2>3, <2>4, Parts, WorkType
        <2>6. /\ pc' \in [Instances -> Steps] /\ pc'[i] = "leave"
              /\ \A j \in Instances : j # i => pc'[j] = pc[j]
            BY <1>1, <1>2, Parts, GotoType
        <2>7. TypeOK'
            BY <1>1, <1>2, <2>1, <2>5, <2>6, Parts DEF TypeOK
        <2>8. ShowsInv'
            BY <1>1, <2>1 DEF ShowsInv
        <2>9. SnapshotInv(i)'
            BY <1>1, <2>1, <2>2, <2>4, <2>5, <2>6, Parts DEF SnapshotInv, RunSteps, AnalysisSteps
        <2>10. SwapInv(i)'
            BY <1>1, <2>1, <2>4, <2>5, <2>6 DEF SwapInv, Swapped, AnalysisSteps
        <2>11. OwnInv(i)'
            BY <1>1, <1>2, <2>4, <2>5, <2>6, <2>9, <2>10, Parts DEF OwnInv, Quiet
        <2> QED  BY <1>1, <2>5, <2>6, <2>7, <2>8, <2>11, Acting
    <1>3. CASE Hit(i) /\ Goto(i, "abandon") /\ UNCHANGED <<doc, lost>>
        <2>1. Placed' /\ Shown'
            BY <1>1, <1>3, Parts DEF Placed, Shown
        <2>2. SwapInv(i)'
            BY <1>1, <1>3, AnalysisStep, Parts DEF SwapInv, AnalysisSteps, Swapped
        <2> QED  BY <1>1, <1>3, <2>1, <2>2, Parts, AnalysisKeeps DEF TypeOK
    <1> QED  BY <1>2, <1>3 DEF Commit

LEMMA AbandonKeeps ==
    ASSUME IInv, NEW i \in Instances, Abandon(i)
    PROVE  IInv'
    <1>1. /\ pc[i] \in AnalysisSteps /\ pc[i] = "abandon" /\ {"leave", "restore"} \subseteq AnalysisSteps
          /\ UNCHANGED <<doc, backups, lock, fresh, lost>> /\ Shown'
          /\ backups # <<>> /\ Last(backups) = [of |-> work[i].before, whole |-> TRUE]
          /\ doc.shows # 0 /\ lost = {} => work[i].before = doc.shows
        BY Parts DEF Abandon, AnalysisSteps, Shown, SwapInv, Swapped
    <1>2. CASE /\ dir' = Missing
               /\ residue' = residue \cup {"failed"}
               /\ Goto(i, "restore") /\ Fine
        <2>1. Placed'
            <3>1. Len(backups) \in DOMAIN backups /\ \A j \in DOMAIN backups : j <= Len(backups)
                BY <1>1, Parts DEF TypeOK
            <3>2. backups[Len(backups)] = [of |-> work[i].before, whole |-> TRUE]
                BY <1>1 DEF Last
            <3> QED  BY <1>1, <1>2, <3>1, <3>2 DEF Placed
        <2>2. SwapInv(i)'
            BY <1>1, <1>2, AnalysisStep, Parts DEF SwapInv, AnalysisSteps, Swapped
        <2>3. residue' \subseteq {"staging", "failed"}
            BY <1>2, Parts DEF TypeOK
        <2> QED  BY <1>1, <1>2, <2>1, <2>2, <2>3, Parts, AnalysisKeeps DEF TypeOK
    <1>3. CASE Hit(i) /\ Goto(i, "leave") /\ UNCHANGED <<dir, residue>>
        <2>1. Placed'
            BY <1>1, <1>3, Parts DEF Placed
        <2>2. SwapInv(i)'
            <3>1. /\ work[i].hits \in Nat /\ work[i].hits > 0 /\ ~ work[i].committed
                BY <1>1, Parts DEF SwapInv, AnalysisSteps
            <3>2. /\ work'[i].hits = work[i].hits + 1 /\ pc'[i] = "leave"
                  /\ work'[i].committed = work[i].committed
                BY <1>1, <1>3, AnalysisStep
            <3>3. ~ (work'[i].hits <= 1)
                BY <3>1, <3>2
            <3> QED  BY <3>1, <3>2, <3>3 DEF SwapInv, AnalysisSteps, Swapped
        <2> QED  BY <1>1, <1>3, <2>1, <2>2, Parts, AnalysisKeeps DEF TypeOK
    <1> QED  BY <1>2, <1>3 DEF Abandon

LEMMA RestoreKeeps ==
    ASSUME IInv, NEW i \in Instances, Restore(i)
    PROVE  IInv'
    <1>1. /\ pc[i] \in AnalysisSteps /\ pc[i] = "restore" /\ {"leave", "note"} \subseteq AnalysisSteps
          /\ pc[i] \in Swapped /\ residue' \subseteq {"staging", "failed"}
          /\ UNCHANGED <<doc, lock, fresh, lost>> /\ Shown'
        BY Parts DEF Restore, AnalysisSteps, Shown, Swapped, TypeOK
    <1>2. CASE dir' = Last(backups).of /\ backups' = Front(backups) /\ Goto(i, "note") /\ Fine
        <2>1. dir' = work[i].before /\ dir' \in Contents /\ backups' \in Seq(Backups) /\ Placed'
            BY <1>1, <1>2, BackStep
        <2>2. SwapInv(i)'
            BY <1>1, <1>2, <2>1, AnalysisStep, Parts DEF SwapInv, AnalysisSteps, Swapped
        <2> QED  BY <1>1, <1>2, <2>1, <2>2, Parts, AnalysisKeeps DEF TypeOK
    <1>3. CASE /\ (dir # Missing /\ Fine) \/ Hit(i)
               /\ Goto(i, "leave") /\ UNCHANGED <<dir, backups>>
        <2>1. Placed'
            BY <1>1, <1>3, Parts DEF Placed
        <2>2. SwapInv(i)'
            BY <1>1, <1>3, AnalysisStep, Parts DEF SwapInv, AnalysisSteps, Swapped
        <2> QED  BY <1>1, <1>3, <2>1, <2>2, Parts, AnalysisKeeps DEF TypeOK
    <1> QED  BY <1>2, <1>3 DEF Restore

LEMMA NoteKeeps ==
    ASSUME IInv, NEW i \in Instances, Note(i)
    PROVE  IInv'
    <1>1. /\ pc[i] \in AnalysisSteps /\ pc[i] = "note" /\ "leave" \in AnalysisSteps
          /\ Goto(i, "leave") /\ (Fine \/ Hit(i))
          /\ UNCHANGED <<dir, backups, residue, lock, fresh, lost>>
        BY DEF Note, AnalysisSteps
    <1>2. /\ doc' \in Documents /\ Shown'
          /\ doc'.config = doc.config /\ doc'.shows = doc.shows /\ doc'.auto = doc.auto
          /\ doc'.requested = doc.requested /\ doc'.hashed = doc.hashed
          /\ doc'.running = doc.running
        <2>1. CASE doc' = [doc EXCEPT !.state = "failed"]
            BY <2>1, StateStep
        <2>2. CASE doc' = doc
            BY <2>2, Parts DEF Shown
        <2> QED  BY <2>1, <2>2 DEF Note
    <1>3. Placed'
        BY <1>1, <1>2, Parts, PlacedStays
    <1>4. SwapInv(i)'
        BY <1>1, AnalysisStep, Parts DEF SwapInv, AnalysisSteps, Swapped
    <1> QED  BY <1>1, <1>2, <1>3, <1>4, Parts, AnalysisKeeps DEF TypeOK

\* Backup k is removed in part.
LEMMA HalfRemoved ==
    ASSUME TypeOK, NEW k \in DOMAIN backups
    PROVE  [backups EXCEPT ![k].whole = FALSE] \in Seq(Backups)
    <1> DEFINE b == [backups[k] EXCEPT !.whole = FALSE]
    <1>1. backups \in Seq(Backups) /\ backups[k] \in Backups
        BY DEF TypeOK
    <1>2. b \in Backups
        BY <1>1 DEF Backups
    <1> HIDE DEF b
    <1>3. [backups EXCEPT ![k] = b] \in Seq(Backups)
        BY <1>1, <1>2
    <1> QED  BY <1>3 DEF b

LEMMA RemoveBackupStep ==
    ASSUME TypeOK, RemoveBackup, backups # <<>>
    PROVE  backups' \in Seq(Backups) /\ faults' \in 0..MaxFaults /\ faults <= faults'
    <1>1. backups \in Seq(Backups) /\ Len(backups) \in DOMAIN backups
        BY LastOf DEF TypeOK
    <1>2. CASE backups' = Front(backups) /\ UNCHANGED faults
        BY <1>1, <1>2, FrontOf, FineType
    <1>3. CASE Fault /\ UNCHANGED backups
        BY <1>1, <1>3, FaultType
    <1>4. CASE Fault /\ backups' = [backups EXCEPT ![Len(backups)].whole = FALSE]
        BY <1>1, <1>4, FaultType, HalfRemoved
    <1> QED  BY <1>2, <1>3, <1>4 DEF RemoveBackup

LEMMA LeaveAnalysisKeeps ==
    ASSUME IInv, NEW i \in Instances, LeaveAnalysis(i)
    PROVE  IInv'
    <1>1. /\ pc[i] = "leave" /\ i \in lock /\ UNCHANGED <<doc, dir, fresh, lost>>
          /\ residue' \subseteq {"staging", "failed"} /\ {"extract", "end"} \subseteq Steps
        BY Parts DEF LeaveAnalysis, OwnInv, Quiet, TypeOK, Steps
    <1>2. work[i].committed => dir = doc.config /\ doc.shows = doc.config /\ backups # <<>>
        BY <1>1, Parts DEF SwapInv
    <1>3. /\ backups' \in Seq(Backups) /\ faults' \in 0..MaxFaults /\ faults <= faults'
          /\ ~ work[i].committed => UNCHANGED <<backups, faults>>
        <2>1. CASE work[i].committed
            BY <1>2, <2>1, Parts, RemoveBackupStep DEF LeaveAnalysis
        <2>2. CASE ~ work[i].committed
            BY <2>2, Parts, FineType DEF LeaveAnalysis, TypeOK
        <2> QED  BY <2>1, <2>2
    <1>4. ShowsInv'
        BY <1>1, <1>2, <1>3, Parts DEF ShowsInv, Shown, Placed
    <1>5. CASE work[i].run
        <2>1. /\ Goto(i, IF work[i].committed THEN "extract" ELSE "end") /\ UNCHANGED <<lock, work>>
            BY <1>5 DEF LeaveAnalysis
        <2>2. /\ pc' \in [Instances -> Steps]
              /\ pc'[i] = IF work[i].committed THEN "extract" ELSE "end"
              /\ \A j \in Instances : j # i => pc'[j] = pc[j]
            BY <1>1, <2>1, Parts DEF Goto, TypeOK
        <2>3. TypeOK'
            BY <1>1, <1>3, <2>1, <2>2, Parts DEF TypeOK
        <2>4. SnapshotInv(i)'
            BY <1>1, <1>2, <1>5, <2>1, <2>2, Parts DEF SnapshotInv, RunSteps, AnalysisSteps
        <2>5. work'[i].hits <= faults'
            BY <1>3, <2>1, <2>3, Parts, BoundsAssumption DEF TypeOK
        <2>6. OwnInv(i)'
            BY <1>1, <2>1, <2>2, <2>4, <2>5, RunOwns DEF RunSteps
        <2> QED  BY <1>1, <1>4, <2>1, <2>2, <2>3, <2>6, Acting
    <1>6. CASE ~ work[i].run
        <2>1. /\ pc' \in [Instances -> Steps] /\ work' \in [Instances -> Works]
              /\ pc'[i] = "idle" /\ work'[i] = NoWork
              /\ \A j \in Instances : j # i => pc'[j] = pc[j] /\ work'[j] = work[j]
              /\ lock' = lock \ {i} /\ lock' \subseteq Instances
            BY <1>6, Parts, LeaveType DEF LeaveAnalysis
        <2>2. TypeOK'
            BY <1>1, <1>3, <2>1, Parts DEF TypeOK
        <2>3. OwnInv(i)'
            BY <2>1, <2>2, QuietOwns, BoundsAssumption DEF Quiet, TypeOK
        <2> QED  BY <1>1, <1>4, <2>1, <2>2, <2>3, Acting
    <1> QED  BY <1>5, <1>6

-----------------------------------------------------------------------------
(* The start *)

LEMMA StartKeeps ==
    ASSUME IInv, NEW i \in Instances, Start(i)
    PROVE  IInv'
    <1>1. /\ pc[i] = "down" /\ Goto(i, "recover") /\ "recover" \in Steps
          /\ UNCHANGED <<dir, backups, residue, lock, work, fresh, lost, faults>>
          /\ i \notin lock /\ work[i] = NoWork
        BY Parts DEF Start, Steps, OwnInv, Quiet
    <1>2. /\ pc' \in [Instances -> Steps] /\ pc'[i] = "recover"
          /\ \A j \in Instances : j # i => pc'[j] = pc[j]
        BY <1>1, Parts, GotoType
    <1>3. CASE lock = {}
        <2>1. doc' = [doc EXCEPT !.running = FALSE] /\ doc \in Documents
            BY <1>3, Parts DEF Start
        <2>2. /\ doc' \in Documents /\ doc'.shows = doc.shows /\ doc'.config = doc.config
              /\ doc'.state = doc.state
            BY <2>1 DEF Documents
        <2>3. TypeOK'
            BY <1>1, <1>2, <2>2, Parts DEF TypeOK
        <2>4. ShowsInv'
            BY <1>1, <2>2, Parts DEF ShowsInv, Shown, Placed
        <2>5. OwnInv(i)'
            BY <1>1, <1>2, Parts, QuietOwns DEF Quiet
        <2> QED  BY <1>1, <1>2, <1>3, <2>3, <2>4, <2>5, Acting
    <1>4. CASE lock # {}
        <2>1. doc' = doc
            BY <1>4 DEF Start
        <2>2. lock' = lock \ {i}
            BY <1>1
        <2> QED  BY <1>1, <1>2, <2>1, <2>2, Parts, FineType, Aside DEF Quiet, TypeOK
    <1> QED  BY <1>3, <1>4

LEMMA RecoverBeginKeeps ==
    ASSUME IInv, NEW i \in Instances, RecoverBegin(i)
    PROVE  IInv'
    <1>1. /\ pc[i] = "recover" /\ i \notin lock
          /\ UNCHANGED <<doc, dir, backups, residue, fresh, lost, faults>>
        BY DEF RecoverBegin
    <1>2. CASE lock = {} /\ lock' = {i} /\ UNCHANGED <<pc, work>>
        <2>1. TypeOK'
            BY <1>1, <1>2, Parts DEF TypeOK
        <2>2. ShowsInv'
            BY <1>1, Parts DEF ShowsInv, Shown, Placed
        <2>3. OwnInv(i)'
            BY <1>1, <1>2, Parts, QuietOwns DEF Quiet, OwnInv
        <2> QED  BY <1>1, <1>2, <2>1, <2>2, <2>3, Acting
    <1>3. CASE Leave(i)
        BY <1>1, <1>3, Parts, LeaveType, FineType, Aside DEF Quiet
    <1> QED  BY <1>2, <1>3 DEF RecoverBegin

LEMMA RecoverRestoreKeeps ==
    ASSUME IInv, NEW i \in Instances, RecoverRestore(i)
    PROVE  IInv'
    <1>1. /\ pc[i] = "recover" /\ i \in lock /\ dir = Missing /\ UNCHANGED <<doc, residue, fresh>>
        BY DEF RecoverRestore
    <1>2. ASSUME NEW k \in DOMAIN backups, Newest(k),
                 dir' = IF backups[k].whole THEN backups[k].of ELSE Mixed,
                 lost' = IF backups[k].whole THEN lost ELSE lost \cup {"age"},
                 backups' = RemoveAt(backups, k),
                 UNCHANGED <<pc, lock, work, faults>>
          PROVE  IInv'
        <2>1. backups \in Seq(Backups) /\ backups[k] \in Backups
            BY Parts DEF TypeOK
        <2>2. backups[k].of \in Contents /\ backups[k].whole \in BOOLEAN
            BY <2>1 DEF Backups
        <2>3. dir' \in Contents /\ backups' \in Seq(Backups)
              /\ lost' \subseteq {"import", "ensure", "age"}
            BY <1>2, <2>1, <2>2, RemoveAtOf, Directories, Parts DEF TypeOK
        <2>4. TypeOK'
            BY <1>1, <1>2, <2>3, Parts DEF TypeOK
        <2>5. ASSUME doc.shows # 0, lost' = {} PROVE dir' = doc.shows
            <3>1. backups[k].whole /\ lost = {} /\ dir' = backups[k].of
                BY <1>2, <2>5
            <3>2. PICK n \in DOMAIN backups :
                      /\ backups[n] = [of |-> doc.shows, whole |-> TRUE]
                      /\ \A j \in DOMAIN backups : backups[j].whole => j <= n
                BY <1>1, <2>5, <3>1, Parts, Directories DEF Placed
            <3>3. k <= n /\ n <= k /\ k \in Nat /\ n \in Nat
                BY <1>2, <2>1, <3>1, <3>2 DEF Newest
            <3>4. k = n
                BY <3>3
            <3> QED  BY <3>1, <3>2, <3>4
        <2>6. ShowsInv'
            BY <1>1, <2>5, Parts DEF ShowsInv, Shown
        <2>7. OwnInv(i)'
            BY <1>1, <1>2, Parts, QuietOwns DEF Quiet, OwnInv
        <2> QED  BY <1>1, <1>2, <2>4, <2>6, <2>7, Acting
    <1>3. CASE Fault /\ Leave(i) /\ UNCHANGED <<dir, backups, lost>>
        BY <1>1, <1>3, Parts, LeaveType, FaultType, Aside DEF Quiet
    <1> QED  BY <1>2, <1>3 DEF RecoverRestore

LEMMA RecoverRemoveKeeps ==
    ASSUME IInv, NEW i \in Instances, RecoverRemove(i)
    PROVE  IInv'
    <1>1. /\ pc[i] = "recover" /\ i \in lock /\ (dir # Missing \/ backups = <<>>)
          /\ UNCHANGED <<doc, dir, fresh, lost>>
        BY DEF RecoverRemove
    <1>2. CASE /\ \/ \E k \in DOMAIN backups : backups' = RemoveAt(backups, k) /\ UNCHANGED residue
                  \/ \E r \in residue : residue' = residue \ {r} /\ UNCHANGED backups
               /\ UNCHANGED <<pc, lock, work, faults>>
        <2>1. backups' \in Seq(Backups) /\ residue' \subseteq {"staging", "failed"}
            BY <1>2, Parts, RemoveAtOf DEF TypeOK
        <2>2. TypeOK'
            BY <1>1, <1>2, <2>1, Parts DEF TypeOK
        <2>3. doc.shows # 0 /\ lost = {} => dir = doc.shows
            <3>1. backups = <<>> => DOMAIN backups = {}
                OBVIOUS
            <3> QED  BY <1>1, <3>1, Parts DEF Placed
        <2>4. ShowsInv'
            BY <1>1, <2>3, Parts DEF ShowsInv, Shown
        <2>5. OwnInv(i)'
            BY <1>1, <1>2, Parts, QuietOwns DEF Quiet, OwnInv
        <2> QED  BY <1>1, <1>2, <2>2, <2>4, <2>5, Acting
    <1>3. CASE Fault /\ Leave(i) /\ UNCHANGED <<backups, residue>>
        BY <1>1, <1>3, Parts, LeaveType, FaultType, Aside DEF Quiet
    <1>4. ASSUME NEW k \in DOMAIN backups, backups' = [backups EXCEPT ![k].whole = FALSE],
                 Fault, Leave(i), UNCHANGED residue
          PROVE  IInv'
        <2>1. backups' \in Seq(Backups)
            BY <1>4, Parts, HalfRemoved
        <2>2. TypeOK'
            BY <1>1, <1>4, <2>1, Parts, LeaveType, FaultType DEF TypeOK
        <2>3. doc.shows # 0 /\ lost = {} => dir = doc.shows
            <3>1. backups = <<>> => DOMAIN backups = {}
                OBVIOUS
            <3> QED  BY <1>1, <3>1, Parts DEF Placed
        <2>4. ShowsInv'
            BY <1>1, <2>3, Parts DEF ShowsInv, Shown
        <2>5. OwnInv(i)'
            BY <1>4, Parts, LeaveType, FaultType, QuietOwns DEF Quiet
        <2> QED  BY <1>1, <1>4, <2>2, <2>4, <2>5, Parts, LeaveType, FaultType, Acting
    <1> QED  BY <1>2, <1>3, <1>4 DEF RecoverRemove

LEMMA RecoverEndKeeps ==
    ASSUME IInv, NEW i \in Instances, RecoverEnd(i)
    PROVE  IInv'
    BY Parts, LeaveType, FineType, Aside DEF Quiet, RecoverEnd

LEMMA EndKeeps ==
    ASSUME IInv, NEW i \in Instances, Quit(i) \/ Crash(i)
    PROVE  IInv'
    <1>1. Die(i) /\ (UNCHANGED faults \/ Fault)
        BY DEF Quit, Crash
    <1>2. faults' \in 0..MaxFaults /\ faults <= faults'
        BY <1>1, Parts, FineType, FaultType
    <1> QED  BY <1>1, <1>2, Parts, DieType, Aside DEF Quiet, Die

-----------------------------------------------------------------------------
(* The theorems *)

LEMMA InitIInv == Init => IInv
    <1> SUFFICES ASSUME Init PROVE IInv
        OBVIOUS
    <1>1. TypeOK
        <2>1. /\ "down" \in Steps /\ 1 \in Configs /\ 0 \in 0..MaxFaults /\ Mixed \in Contents
              /\ <<>> \in Seq(Backups)
            BY BoundsAssumption DEF Steps, Configs, Contents
        <2> QED  BY <2>1, NoWorkType DEF Init, TypeOK
    <1>2. ShowsInv
        BY DEF Init, ShowsInv, FirstDocument
    <1>3. ASSUME NEW i \in Instances PROVE OwnInv(i)
        <2>1. pc[i] = "down" /\ work[i] = NoWork /\ lock = {} /\ faults = 0
            BY DEF Init
        <2>2. SnapshotInv(i)
            BY <2>1 DEF SnapshotInv, RunSteps, AnalysisSteps
        <2>3. SwapInv(i)
            BY <2>1 DEF SwapInv, AnalysisSteps, Swapped
        <2>4. work[i].hits <= faults
            BY <2>1, NoWorkIs
        <2> QED  BY <2>1, <2>2, <2>3, <2>4 DEF OwnInv, Quiet
    <1> QED  BY <1>1, <1>2, <1>3 DEF IInv, Init

LEMMA NextKeeps == IInv /\ [Next]_vars => IInv'
    <1> SUFFICES ASSUME IInv, [Next]_vars PROVE IInv'
        OBVIOUS
    <1>1. ASSUME NEW i \in Instances, Analysis(i) PROVE IInv'
        BY <1>1, AnalyzeBeginKeeps, AnalyzeKeeps, SwapKeeps, PublishKeeps, UnswapKeeps, CommitKeeps,
           AbandonKeeps, RestoreKeeps, NoteKeeps, LeaveAnalysisKeeps DEF Analysis
    <1>2. ASSUME NEW i \in Instances, Change(i) PROVE IInv'
        BY <1>2, ConfigureKeeps, ImportBeginKeeps, ImportCopyKeeps, ImportRecordKeeps DEF Change
    <1>3. ASSUME NEW i \in Instances, Run(i) PROVE IInv'
        BY <1>3, RunBeginKeeps, RunRefusedKeeps, IngestKeeps, ExtractKeeps, RunEndKeeps DEF Run
    <1>4. ASSUME NEW i \in Instances, Startup(i) PROVE IInv'
        BY <1>4, StartKeeps, RecoverBeginKeeps, RecoverRestoreKeeps, RecoverRemoveKeeps,
           RecoverEndKeeps DEF Startup
    <1>5. ASSUME NEW i \in Instances, Quit(i) \/ Crash(i) PROVE IInv'
        BY <1>5, EndKeeps
    <1>6. CASE UNCHANGED vars
        BY <1>6 DEF vars, IInv, TypeOK, ShowsInv, OwnInv, SnapshotInv, SwapInv
    <1> QED  BY <1>1, <1>2, <1>3, <1>4, <1>5, <1>6 DEF Next

LEMMA IInvAlways == Spec => []IInv
    BY InitIInv, NextKeeps, PTL DEF Spec

\* The invariant of analyze_sampling, commit_video_import and the startup
\* recovery (pipeline.py:627-762, 381-393): one holder of the run lock; the
\* document in a run's or an analysis' hands is the durable one but for its
\* state; where the old directory is at each step of a swap; and the
\* thumbnails of a timeline in place or in the backup to put back.
THEOREM AnalysisCorrect == Spec => []AnalysisInv
    BY IInvAlways, IInvIsAnalysisInv, PTL

\* The thumbnails of the timeline that the document shows are in place, or
\* whole in a backup, in every state (pipeline.py:721-762).
THEOREM TimelineStays == Spec => []TimelineKept
    <1>1. IInv => TimelineKept
        BY DEF IInv, ShowsInv, TimelineKept
    <1> QED  BY <1>1, IInvAlways, PTL

\* An analysis that fails once leaves the directory as it was
\* (pipeline.py:724-731, 744-753).
THEOREM FailureUndone == Spec => FailureRestores
    <1> DEFINE Restores ==
            \A i \in Instances :
                pc[i] = "leave" /\ pc'[i] # "leave" /\ pc'[i] # "down"
                /\ ~ work[i].committed /\ work[i].hits <= 1 /\ "ensure" \notin lost =>
                   dir = work[i].before
    <1>1. IInv /\ [Next]_vars => [Restores]_vars
        <2> SUFFICES ASSUME IInv PROVE Restores
            OBVIOUS
        <2> QED  BY Parts DEF SwapInv
    <1>2. Spec => [][Restores]_vars
        BY <1>1, IInvAlways, PTL DEF Spec
    <1> QED  BY <1>2 DEF FailureRestores

=============================================================================
