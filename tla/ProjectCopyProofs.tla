-------------------------- MODULE ProjectCopyProofs --------------------------
(***************************************************************************)
(* What TLAPS proves of ProjectCopy, for any number of instances, copies,  *)
(* runs and faults.                                                        *)
(*                                                                         *)
(* The argument: an instance changes its own step and one copy at a time.  *)
(* The locks make the duplication of a copy the work of one instance until *)
(* its document is written, and keep the start of another from touching it *)
(* until it is done; from then on users hold another lock, and what an     *)
(* error of the duplication or a recovery does to them is in hurt.  So a   *)
(* step has to be looked at for the step the instance comes to, for the    *)
(* one who holds the other lock of the copy, and for the copy (ActStep).   *)
(***************************************************************************)
EXTENDS ProjectCopy, TLAPS

\* LockInv of one instance.
LockOf(i) ==
    /\ i \in srcLock <=> pc[i] \in CopySteps \cup {"run"}
    /\ own[i] # 0 <=> pc[i] \in CopySteps \cup UserSteps \cup {"settle"}
    /\ \A c \in Copies :
        /\ i \in life[c] <=> pc[i] \in CopySteps /\ own[i] = c
        /\ i \in busy[c] <=> pc[i] \in UserSteps /\ own[i] = c

Fresh(c) == meta[c] = "absent" /\ dir[c] = "absent" /\ c \notin marked /\ \A i \in Instances : own[i] # c

LEMMA InvParts ==
    ASSUME CopyInv
    PROVE  /\ TypeOK /\ LockInv /\ SourceInv
           /\ \A i \in Instances : StepInv(i) /\ LockOf(i)
           /\ \A c \in Copies \ hurt : PlaceInv(c)
           /\ \A c \in Copies : clone[c].mode = "none" => Fresh(c)
    BY DEF CopyInv, LockInv, LockOf, Fresh

LEMMA CopiesAre == 0 \notin Copies /\ \A c \in 0..MaxCopies : c # 0 => c \in Copies
    BY BoundsAssumption DEF Copies

\* Who works on a copy, works on one that was begun.
LEMMA OwnIs ==
    ASSUME CopyInv, NEW i \in Instances, pc[i] \in CopySteps \cup UserSteps \cup {"settle"}
    PROVE  own[i] \in Copies /\ clone[own[i]].mode # "none"
    <1>1. own[i] \in Copies
        BY InvParts, CopiesAre DEF LockOf, TypeOK
    <1> QED  BY <1>1, InvParts DEF Fresh

\* Nobody else duplicates.
LEMMA CopiesAlone ==
    ASSUME CopyInv, NEW i \in Instances, NEW j \in Instances, i \in srcLock, pc[j] \in CopySteps \cup {"run"}
    PROVE  i = j
    BY InvParts DEF LockInv, LockOf

LEMMA UsesAlone ==
    ASSUME CopyInv, NEW i \in Instances, NEW j \in Instances, own[i] \in Copies, own[i] = own[j],
           pc[i] \in UserSteps, pc[j] \in UserSteps
    PROVE  i = j
    BY InvParts DEF LockInv, LockOf

\* The lock of a copy that is being duplicated is taken, the one of a copy in
\* use is.
LEMMA Holders ==
    ASSUME CopyInv, NEW i \in Instances, own[i] \in Copies
    PROVE  /\ pc[i] \in CopySteps => i \in life[own[i]] /\ i \in srcLock
           /\ pc[i] \in UserSteps => i \in busy[own[i]]
    BY InvParts DEF LockOf

LEMMA LockStep ==
    ASSUME TypeOK, LockInv, NEW i \in Instances,
           \A j \in Instances : j # i => pc'[j] = pc[j] /\ own'[j] = own[j],
           srcLock' \in {srcLock, srcLock \ {i}} \/ (srcLock = {} /\ srcLock' = {i}),
           \A c \in Copies :
               life'[c] \in {life[c], life[c] \ {i}} \/ (life[c] = {} /\ life'[c] = {i}),
           \A c \in Copies :
               busy'[c] \in {busy[c], busy[c] \ {i}} \/ (busy[c] = {} /\ busy'[c] = {i}),
           LockOf(i)',
           \A c \in Copies :
               clone'[c].mode = "none" =>
                   /\ clone[c].mode = "none" /\ meta'[c] = meta[c] /\ dir'[c] = dir[c]
                   /\ c \in marked' => c \in marked
                   /\ own'[i] # c
    PROVE  LockInv'
    <1>1. \A j, k \in srcLock' : j = k
        BY DEF LockInv
    <1>2. ASSUME NEW c \in Copies
          PROVE  (\A j, k \in life'[c] : j = k) /\ (\A j, k \in busy'[c] : j = k)
        <2>1. (\A j, k \in life[c] : j = k) /\ (\A j, k \in busy[c] : j = k)
            BY DEF LockInv
        <2>2. life'[c] \in {life[c], life[c] \ {i}} \/ (life[c] = {} /\ life'[c] = {i})
            OBVIOUS
        <2>3. busy'[c] \in {busy[c], busy[c] \ {i}} \/ (busy[c] = {} /\ busy'[c] = {i})
            OBVIOUS
        <2>4. \A j, k \in life'[c] : j = k
            BY <2>1, <2>2
        <2>5. \A j, k \in busy'[c] : j = k
            BY <2>1, <2>3
        <2> QED  BY <2>4, <2>5
    <1>3. ASSUME NEW j \in Instances PROVE LockOf(j)'
        <2>1. CASE j = i
            BY <2>1
        <2>2. CASE j # i
            <3>1. LockOf(j)
                BY DEF LockInv, LockOf
            <3>2. j \in srcLock' <=> j \in srcLock
                BY <2>2
            <3>3. \A c \in Copies : (j \in life'[c] <=> j \in life[c]) /\ (j \in busy'[c] <=> j \in busy[c])
                BY <2>2
            <3> QED  BY <2>2, <3>1, <3>2, <3>3 DEF LockOf
        <2> QED  BY <2>1, <2>2
    <1>4. \A c \in Copies : clone'[c].mode = "none" => Fresh(c)'
        BY DEF LockInv, Fresh
    <1> QED  BY <1>1, <1>2, <1>3, <1>4 DEF LockInv, LockOf, Fresh

LEMMA SourceStays ==
    ASSUME CopyInv, UNCHANGED <<source, clone>>,
           \A j \in Instances : pc'[j] = "run" => pc[j] = "run",
           \A j \in Instances :
               pc'[j] \in {"stage", "mark", "copy", "outputs"} =>
                   pc[j] \in {"stage", "mark", "copy", "outputs"} /\ own'[j] = own[j]
    PROVE  SourceInv'
    BY InvParts DEF SourceInv

\* A step of instance i that changes copy c.
LEMMA ActStep ==
    ASSUME CopyInv, NEW i \in Instances, NEW c \in Copies, own[i] \in {0, c},
           \A j \in Instances : j # i => pc'[j] = pc[j] /\ own'[j] = own[j],
           \A d \in Copies : d # c =>
               /\ meta'[d] = meta[d] /\ dir'[d] = dir[d] /\ holds'[d] = holds[d] /\ clone'[d] = clone[d]
               /\ life'[d] = life[d] /\ busy'[d] = busy[d]
               /\ d \in marked' <=> d \in marked
               /\ d \in hurt' <=> d \in hurt,
           TypeOK', LockInv', SourceInv', StepInv(i)',
           \A j \in Instances :
               j # i /\ own[j] = c /\ pc[j] \in CopySteps \cup UserSteps => StepInv(j)',
           c \notin hurt' => PlaceInv(c)'
    PROVE  CopyInv'
    <1>1. ASSUME NEW j \in Instances PROVE StepInv(j)'
        <2>1. CASE j = i
            BY <2>1
        <2>2. CASE j # i /\ own[j] = c /\ pc[j] \in CopySteps \cup UserSteps
            BY <2>2
        <2>3. CASE j # i /\ pc[j] \notin CopySteps \cup UserSteps
            BY <2>3 DEF StepInv, CopySteps, UserSteps
        <2>4. CASE j # i /\ own[j] # c /\ pc[j] \in CopySteps \cup UserSteps
            <3>1. PICK d \in Copies : d = own[j] /\ d # c
                BY <2>4, OwnIs
            <3>2. StepInv(j) /\ pc'[j] = pc[j] /\ own'[j] = d
                BY <2>4, <3>1, InvParts
            <3>3. Whole(d)' <=> Whole(d)
                BY <3>1 DEF Whole
            <3>4. /\ meta'[d] = meta[d] /\ dir'[d] = dir[d] /\ holds'[d] = holds[d] /\ clone'[d] = clone[d]
                  /\ busy'[d] = busy[d] /\ (d \in marked' <=> d \in marked) /\ (d \in hurt' <=> d \in hurt)
                BY <3>1
            <3> QED  BY <3>1, <3>2, <3>3, <3>4 DEF StepInv
        <2> QED  BY <2>1, <2>2, <2>3, <2>4
    <1>2. ASSUME NEW d \in Copies, d \notin hurt' PROVE PlaceInv(d)'
        <2>1. CASE d = c
            BY <1>2, <2>1
        <2>2. CASE d # c
            <3>1. PlaceInv(d)
                BY <1>2, <2>2, InvParts
            <3>2. /\ meta'[d] = meta[d] /\ dir'[d] = dir[d] /\ holds'[d] = holds[d] /\ clone'[d] = clone[d]
                  /\ life'[d] = life[d] /\ busy'[d] = busy[d] /\ (d \in marked' <=> d \in marked)
                BY <2>2
            <3>3. i \notin life[d]
                BY <2>2, InvParts, CopiesAre DEF LockOf
            <3>4. \A j \in life[d] : j \in Instances /\ pc'[j] = pc[j]
                BY <3>3, InvParts DEF TypeOK
            <3>5. Whole(d)' <=> Whole(d)
                BY <3>2 DEF Whole
            <3> QED  BY <3>1, <3>2, <3>4, <3>5 DEF PlaceInv
        <2> QED  BY <2>1, <2>2
    <1> QED  BY <1>1, <1>2 DEF CopyInv

\* A step of instance i that changes no copy.
LEMMA StillStep ==
    ASSUME CopyInv, NEW i \in Instances, own[i] = 0,
           \A j \in Instances : j # i => pc'[j] = pc[j] /\ own'[j] = own[j],
           UNCHANGED <<disk, life, busy>>,
           TypeOK', LockInv', SourceInv', StepInv(i)'
    PROVE  CopyInv'
    <1>1. UNCHANGED <<meta, dir, marked, holds, clone, hurt, life, busy>>
        BY DEF disk
    <1>2. ASSUME NEW j \in Instances PROVE StepInv(j)'
        <2>1. CASE j # i
            BY <1>1, <2>1, InvParts DEF StepInv, Whole
        <2> QED  BY <2>1
    <1>3. ASSUME NEW d \in Copies \ hurt' PROVE PlaceInv(d)'
        <2>1. PlaceInv(d) /\ i \notin life[d]
            BY <1>1, <1>3, InvParts, CopiesAre DEF LockOf
        <2>2. \A j \in life[d] : j \in Instances /\ pc'[j] = pc[j]
            BY <2>1, InvParts DEF TypeOK
        <2> QED  BY <1>1, <2>1, <2>2 DEF PlaceInv, Whole
    <1> QED  BY <1>2, <1>3 DEF CopyInv

LEMMA FaultIs ==
    ASSUME TypeOK
    PROVE  Fault \/ UNCHANGED faults => faults' \in 0..MaxFaults
    BY BoundsAssumption DEF Fault, TypeOK

LEMMA GotoIs ==
    ASSUME TypeOK, NEW i \in Instances, NEW s \in Steps, Goto(i, s)
    PROVE  /\ pc' \in [Instances -> Steps] /\ pc'[i] = s
           /\ \A j \in Instances : j # i => pc'[j] = pc[j]
    BY DEF Goto, TypeOK

LEMMA HoldsIs ==
    ASSUME TypeOK, NEW c \in Copies, NEW h \in Holdings, holds' = [holds EXCEPT ![c] = h]
    PROVE  /\ holds' \in [Copies -> Holdings] /\ holds'[c] = h
           /\ \A d \in Copies : d # c => holds'[d] = holds[d]
    BY DEF TypeOK

-----------------------------------------------------------------------------
(* duplicate *)

\* What a step of a duplication leaves alone, whatever it does to the copy.
LEMMA CopyStep ==
    ASSUME CopyInv, NEW i \in Instances, NEW c \in Copies, c = own[i], pc[i] \in CopySteps,
           NEW s \in CopySteps, Goto(i, s), s # "stage",
           s \in {"mark", "copy", "outputs"} => pc[i] \in {"stage", "mark", "copy", "outputs"},
           UNCHANGED <<source, clone, locks, own, todo, seen>>,
           meta' \in [Copies -> {"absent", "live", "trash"}],
           dir' \in [Copies -> {"absent", "staging", "home", "trash"}],
           marked' \subseteq Copies, holds' \in [Copies -> Holdings], hurt' \subseteq Copies,
           faults' \in 0..MaxFaults,
           \A d \in Copies : d # c =>
               /\ meta'[d] = meta[d] /\ dir'[d] = dir[d] /\ holds'[d] = holds[d]
               /\ d \in marked' <=> d \in marked
               /\ d \in hurt' <=> d \in hurt,
           StepInv(i)',
           \A j \in Instances : own[j] = c /\ pc[j] \in UserSteps => StepInv(j)',
           c \notin hurt' => PlaceInv(c)'
    PROVE  CopyInv'
    <1>1. UNCHANGED <<source, clone, srcLock, life, busy, own, todo, seen>>
        BY DEF locks
    <1>2. /\ pc' \in [Instances -> Steps] /\ pc'[i] = s
          /\ \A j \in Instances : j # i => pc'[j] = pc[j]
        BY InvParts, GotoIs DEF Steps
    <1>3. TypeOK'
        BY <1>1, <1>2, InvParts DEF TypeOK
    <1>4. clone[c].mode # "none"
        BY OwnIs
    <1>5. LockOf(i)'
        BY <1>1, <1>2, InvParts DEF LockOf, CopySteps, UserSteps
    <1>6. LockInv'
        <2>1. \A d \in Copies :
                  clone'[d].mode = "none" =>
                      /\ clone[d].mode = "none" /\ meta'[d] = meta[d] /\ dir'[d] = dir[d]
                      /\ d \in marked' => d \in marked
                      /\ own'[i] # d
            BY <1>1, <1>4
        <2> QED  BY <1>1, <1>2, <1>5, <2>1, InvParts, LockStep
    <1>7. SourceInv'
        BY <1>1, <1>2, SourceStays DEF CopySteps
    <1>8. \A j \in Instances :
              j # i /\ own[j] = c /\ pc[j] \in CopySteps \cup UserSteps => StepInv(j)'
        BY Holders, CopiesAlone
    <1> QED  BY <1>1, <1>2, <1>3, <1>6, <1>7, <1>8, ActStep

\* A step that meets an error leaves the copy as it is.
LEMMA CopyError ==
    ASSUME CopyInv, NEW i \in Instances, pc[i] \in CopySteps \ {"fail", "unlist"}, Goto(i, "fail"),
           UNCHANGED <<source, disk, locks, own, todo, seen>>, faults' \in 0..MaxFaults
    PROVE  CopyInv'
    <1>1. PICK c \in Copies : c = own[i]
        BY OwnIs
    <1>2. /\ UNCHANGED <<meta, dir, marked, holds, clone, hurt, life, busy, own>>
          /\ UNCHANGED <<source, clone, locks, own, todo, seen>>
        BY DEF disk, locks
    <1>3. pc'[i] = "fail" /\ \A j \in Instances : j # i => pc'[j] = pc[j]
        BY InvParts, GotoIs DEF Steps, CopySteps
    <1>4. StepInv(i) /\ i \in srcLock
        BY <1>1, InvParts, Holders
    <1>5. StepInv(i)'
        BY <1>1, <1>2, <1>3, <1>4 DEF StepInv, CopySteps
    <1>6. \A j \in Instances : own[j] = c /\ pc[j] \in UserSteps => StepInv(j)'
        BY <1>2, <1>3, InvParts DEF StepInv, UserSteps, CopySteps
    <1>7. c \notin hurt' => PlaceInv(c)'
        <2>1. ASSUME c \notin hurt PROVE PlaceInv(c)'
            <3>1. PlaceInv(c) /\ i \in life[c]
                BY <1>1, <2>1, InvParts, Holders
            <3>2. \A j \in life[c] : pc[j] # "unlist"
                BY <1>1, <1>4, InvParts, CopiesAlone DEF LockOf, TypeOK, CopySteps
            <3> QED  BY <1>2, <3>1, <3>2 DEF PlaceInv, Whole
        <2> QED  BY <1>2, <2>1
    <1> QED
        <2>1. "fail" \in CopySteps
            BY DEF CopySteps
        <2> QED  BY <1>1, <1>2, <1>5, <1>6, <1>7, <2>1, InvParts, CopyStep DEF TypeOK

\* Until its document is written nobody else has to do with the copy.
LEMMA Hidden ==
    ASSUME CopyInv, NEW i \in Instances, NEW c \in Copies, c = own[i],
           pc[i] \in {"stage", "mark", "copy", "outputs", "brand", "publish", "save"}
    PROVE  /\ meta[c] = "absent" /\ busy[c] = {} /\ i \in life[c]
           /\ \A j \in Instances : ~ (own[j] = c /\ pc[j] \in UserSteps)
    <1>1. meta[c] = "absent" /\ busy[c] = {}
        BY InvParts DEF StepInv
    <1>2. i \in life[c]
        BY Holders DEF CopySteps
    <1> QED  BY <1>1, <1>2, Holders

\* A step before that.
LEMMA HiddenStep ==
    ASSUME CopyInv, NEW i \in Instances, NEW c \in Copies, c = own[i],
           pc[i] \in {"stage", "mark", "copy", "outputs", "brand", "publish"},
           NEW s \in {"mark", "copy", "outputs", "brand", "publish", "save"}, Goto(i, s),
           s \in {"mark", "copy", "outputs"} => pc[i] \in {"stage", "mark", "copy", "outputs"},
           UNCHANGED <<source, meta, clone, hurt, locks, own, todo, seen, faults>>,
           dir' \in [Copies -> {"absent", "staging", "home", "trash"}],
           marked' \subseteq Copies, holds' \in [Copies -> Holdings],
           \A d \in Copies : d # c =>
               dir'[d] = dir[d] /\ holds'[d] = holds[d] /\ (d \in marked' <=> d \in marked),
           dir'[c] # "trash", StepInv(i)'
    PROVE  CopyInv'
    <1>1. /\ meta[c] = "absent" /\ busy[c] = {} /\ i \in life[c]
          /\ \A j \in Instances : ~ (own[j] = c /\ pc[j] \in UserSteps)
        BY Hidden
    <1>2. PlaceInv(c)'
        BY <1>1 DEF PlaceInv, locks
    <1>3. s \in CopySteps /\ pc[i] \in CopySteps /\ s # "stage"
        BY DEF CopySteps
    <1>4. /\ UNCHANGED <<source, clone, locks, own, todo, seen>>
          /\ meta' \in [Copies -> {"absent", "live", "trash"}] /\ hurt' \subseteq Copies
          /\ faults' \in 0..MaxFaults
        BY InvParts DEF TypeOK
    <1> QED  BY <1>1, <1>2, <1>3, <1>4, CopyStep

LEMMA CopyStageKeeps ==
    ASSUME CopyInv, NEW i \in Instances, CopyStage(i)
    PROVE  CopyInv'
    <1>1. /\ pc[i] = "stage" /\ UNCHANGED <<source, meta, marked, holds, clone, hurt, locks, own, todo, seen>>
          /\ pc[i] \in CopySteps
        BY DEF CopyStage, CopySteps
    <1>2. PICK c \in Copies : c = own[i]
        BY <1>1, OwnIs
    <1>3. CASE Fault /\ Goto(i, "fail") /\ UNCHANGED dir
        BY <1>1, <1>3, InvParts, FaultIs, CopyError DEF disk
    <1>4. CASE dir' = [dir EXCEPT ![c] = "staging"] /\ Goto(i, "mark") /\ UNCHANGED faults
        <2>1. /\ dir' \in [Copies -> {"absent", "staging", "home", "trash"}] /\ dir'[c] = "staging"
              /\ \A d \in Copies : d # c => dir'[d] = dir[d]
            BY <1>4, InvParts DEF TypeOK
        <2>2. pc'[i] = "mark"
            BY <1>4, InvParts, GotoIs DEF Steps, CopySteps
        <2>3. StepInv(i)'
            BY <1>1, <1>2, <2>1, <2>2, Hidden DEF StepInv, locks
        <2> QED  BY <1>1, <1>2, <1>4, <2>1, <2>3, InvParts, HiddenStep DEF TypeOK
    <1> QED  BY <1>2, <1>3, <1>4 DEF CopyStage

LEMMA CopyMarkKeeps ==
    ASSUME CopyInv, NEW i \in Instances, CopyMark(i)
    PROVE  CopyInv'
    <1>1. /\ pc[i] = "mark" /\ UNCHANGED <<source, meta, dir, holds, clone, hurt, locks, own, todo, seen>>
          /\ pc[i] \in CopySteps
        BY DEF CopyMark, CopySteps
    <1>2. PICK c \in Copies : c = own[i]
        BY <1>1, OwnIs
    <1>3. CASE Fault /\ Goto(i, "fail") /\ UNCHANGED marked
        BY <1>1, <1>3, InvParts, FaultIs, CopyError DEF disk
    <1>4. CASE marked' = marked \cup {c} /\ Goto(i, "copy") /\ UNCHANGED faults
        <2>1. marked' \subseteq Copies /\ dir[c] = "staging"
            BY <1>1, <1>2, <1>4, InvParts DEF TypeOK, StepInv
        <2>2. pc'[i] = "copy"
            BY <1>4, InvParts, GotoIs DEF Steps, CopySteps
        <2>3. StepInv(i)'
            BY <1>1, <1>2, <1>4, <2>1, <2>2, Hidden DEF StepInv, locks
        <2> QED  BY <1>1, <1>2, <1>4, <2>1, <2>3, InvParts, HiddenStep DEF TypeOK
    <1> QED  BY <1>2, <1>3, <1>4 DEF CopyMark

LEMMA CopyInputsKeeps ==
    ASSUME CopyInv, NEW i \in Instances, CopyInputs(i)
    PROVE  CopyInv'
    <1>1. /\ pc[i] = "copy" /\ UNCHANGED <<source, meta, dir, marked, clone, hurt, locks, own, todo, seen>>
          /\ pc[i] \in CopySteps
        BY DEF CopyInputs, CopySteps
    <1>2. PICK c \in Copies : c = own[i]
        BY <1>1, OwnIs
    <1>3. CASE Fault /\ Goto(i, "fail") /\ UNCHANGED holds
        BY <1>1, <1>3, InvParts, FaultIs, CopyError DEF disk
    <1>4. CASE /\ holds' = [holds EXCEPT ![c].inputs = TRUE]
               /\ Goto(i, IF clone[c].mode = "complete" THEN "outputs" ELSE "brand")
               /\ UNCHANGED faults
        <2> DEFINE h == [holds[c] EXCEPT !.inputs = TRUE]
        <2>1. h \in Holdings /\ h.inputs
            <3>1. holds[c] \in Holdings
                BY InvParts DEF TypeOK
            <3> QED  BY <3>1 DEF Holdings
        <2>2. holds' = [holds EXCEPT ![c] = h]
            BY <1>4
        <2> HIDE DEF h
        <2>3. /\ holds' \in [Copies -> Holdings] /\ holds'[c].inputs
              /\ \A d \in Copies : d # c => holds'[d] = holds[d]
            BY <2>1, <2>2, InvParts, HoldsIs
        <2>4. PICK s \in {"outputs", "brand"} :
                  s = (IF clone[c].mode = "complete" THEN "outputs" ELSE "brand") /\ Goto(i, s)
            BY <1>4
        <2>5. pc'[i] = s
            BY <2>4, InvParts, GotoIs DEF Steps, CopySteps
        <2>6. dir[c] = "staging" /\ c \in marked /\ meta[c] = "absent" /\ busy[c] = {}
            BY <1>1, <1>2, InvParts DEF StepInv
        <2>7. StepInv(i)'
            BY <1>1, <1>2, <2>3, <2>4, <2>5, <2>6 DEF StepInv, locks
        <2> QED  BY <1>1, <1>2, <1>4, <2>3, <2>4, <2>6, <2>7, InvParts, HiddenStep DEF TypeOK
    <1> QED  BY <1>2, <1>3, <1>4 DEF CopyInputs

LEMMA CopyOutputsKeeps ==
    ASSUME CopyInv, NEW i \in Instances, CopyOutputs(i)
    PROVE  CopyInv'
    <1>1. /\ pc[i] = "outputs" /\ UNCHANGED <<source, meta, dir, marked, clone, hurt, locks, own, todo, seen>>
          /\ pc[i] \in CopySteps
        BY DEF CopyOutputs, CopySteps
    <1>2. PICK c \in Copies : c = own[i]
        BY <1>1, OwnIs
    <1>3. CASE Fault /\ Goto(i, "fail") /\ UNCHANGED holds
        BY <1>1, <1>3, InvParts, FaultIs, CopyError DEF disk
    <1>4. CASE /\ holds' = [holds EXCEPT ![c].outputs = source.outputs] /\ Goto(i, "brand")
               /\ UNCHANGED faults
        <2> DEFINE h == [holds[c] EXCEPT !.outputs = source.outputs]
        <2>1. h \in Holdings /\ h.inputs = holds[c].inputs /\ h.outputs = source.outputs
            <3>1. holds[c] \in Holdings /\ source.outputs \in 0..MaxRuns
                BY InvParts DEF TypeOK
            <3> QED  BY <3>1 DEF Holdings
        <2>2. holds' = [holds EXCEPT ![c] = h]
            BY <1>4
        <2> HIDE DEF h
        <2>3. /\ holds' \in [Copies -> Holdings] /\ holds'[c].inputs = holds[c].inputs
              /\ holds'[c].outputs = source.outputs
              /\ \A d \in Copies : d # c => holds'[d] = holds[d]
            BY <2>1, <2>2, InvParts, HoldsIs
        <2>4. pc'[i] = "brand"
            BY <1>4, InvParts, GotoIs DEF Steps, CopySteps
        <2>5. /\ dir[c] = "staging" /\ c \in marked /\ meta[c] = "absent" /\ busy[c] = {}
              /\ holds[c].inputs /\ clone[c].mode = "complete"
            BY <1>1, <1>2, InvParts DEF StepInv
        <2>6. source.outputs = clone[c].run
            BY <1>1, <1>2, <2>5, InvParts DEF SourceInv
        <2>7. StepInv(i)'
            BY <1>1, <1>2, <2>3, <2>4, <2>5, <2>6 DEF StepInv, locks
        <2> QED  BY <1>1, <1>2, <1>4, <2>3, <2>5, <2>7, InvParts, HiddenStep DEF TypeOK
    <1> QED  BY <1>2, <1>3, <1>4 DEF CopyOutputs

LEMMA CopyBrandKeeps ==
    ASSUME CopyInv, NEW i \in Instances, CopyBrand(i)
    PROVE  CopyInv'
    <1>1. /\ pc[i] = "brand" /\ UNCHANGED <<source, meta, dir, marked, clone, hurt, locks, own, todo, seen>>
          /\ pc[i] \in CopySteps
        BY DEF CopyBrand, CopySteps
    <1>2. PICK c \in Copies : c = own[i]
        BY <1>1, OwnIs
    <1>3. CASE Fault /\ Goto(i, "fail") /\ UNCHANGED holds
        BY <1>1, <1>3, InvParts, FaultIs, CopyError DEF disk
    <1>4. CASE /\ holds' = [holds EXCEPT ![c].branded = TRUE] /\ Goto(i, "publish")
               /\ UNCHANGED faults
        <2> DEFINE h == [holds[c] EXCEPT !.branded = TRUE]
        <2>1. h \in Holdings /\ h.inputs = holds[c].inputs /\ h.outputs = holds[c].outputs /\ h.branded
            <3>1. holds[c] \in Holdings
                BY InvParts DEF TypeOK
            <3> QED  BY <3>1 DEF Holdings
        <2>2. holds' = [holds EXCEPT ![c] = h]
            BY <1>4
        <2> HIDE DEF h
        <2>3. /\ holds' \in [Copies -> Holdings] /\ holds'[c].inputs = holds[c].inputs
              /\ holds'[c].outputs = holds[c].outputs /\ holds'[c].branded
              /\ \A d \in Copies : d # c => holds'[d] = holds[d]
            BY <2>1, <2>2, InvParts, HoldsIs
        <2>4. pc'[i] = "publish"
            BY <1>4, InvParts, GotoIs DEF Steps, CopySteps
        <2>5. /\ dir[c] = "staging" /\ c \in marked /\ meta[c] = "absent" /\ busy[c] = {}
              /\ holds[c].inputs /\ (clone[c].mode = "complete" => holds[c].outputs = clone[c].run)
            BY <1>1, <1>2, InvParts DEF StepInv
        <2>6. Whole(c)'
            BY <1>1, <2>3, <2>5 DEF Whole
        <2>7. StepInv(i)'
            BY <1>1, <1>2, <2>3, <2>4, <2>5, <2>6 DEF StepInv, locks, Whole
        <2> QED  BY <1>1, <1>2, <1>4, <2>3, <2>5, <2>7, InvParts, HiddenStep DEF TypeOK
    <1> QED  BY <1>2, <1>3, <1>4 DEF CopyBrand

LEMMA CopyPublishKeeps ==
    ASSUME CopyInv, NEW i \in Instances, CopyPublish(i)
    PROVE  CopyInv'
    <1>1. /\ pc[i] = "publish" /\ UNCHANGED <<source, meta, marked, holds, clone, hurt, locks, own, todo, seen>>
          /\ pc[i] \in CopySteps
        BY DEF CopyPublish, CopySteps
    <1>2. PICK c \in Copies : c = own[i]
        BY <1>1, OwnIs
    <1>3. CASE Fault /\ Goto(i, "fail") /\ UNCHANGED dir
        BY <1>1, <1>3, InvParts, FaultIs, CopyError DEF disk
    <1>4. CASE dir' = [dir EXCEPT ![c] = "home"] /\ Goto(i, "save") /\ UNCHANGED faults
        <2>1. /\ dir' \in [Copies -> {"absent", "staging", "home", "trash"}] /\ dir'[c] = "home"
              /\ \A d \in Copies : d # c => dir'[d] = dir[d]
            BY <1>4, InvParts DEF TypeOK
        <2>2. pc'[i] = "save"
            BY <1>4, InvParts, GotoIs DEF Steps, CopySteps
        <2>3. c \in marked /\ Whole(c) /\ meta[c] = "absent" /\ busy[c] = {}
            BY <1>1, <1>2, InvParts DEF StepInv
        <2>4. StepInv(i)'
            BY <1>1, <1>2, <2>1, <2>2, <2>3 DEF StepInv, locks, Whole
        <2> QED  BY <1>1, <1>2, <1>4, <2>1, <2>4, InvParts, HiddenStep DEF TypeOK
    <1> QED  BY <1>2, <1>3, <1>4 DEF CopyPublish

\* A copy that is listed is all there as long as its duplication has not failed.
LEMMA ListedIsThere ==
    ASSUME CopyInv, NEW i \in Instances, NEW c \in Copies, c = own[i], pc[i] \in CopySteps \ {"unlist"},
           c \notin hurt, meta[c] = "live"
    PROVE  dir[c] = "home" /\ Whole(c)
    <1>1. PlaceInv(c) /\ i \in srcLock
        BY InvParts, Holders
    <1>2. \A j \in life[c] : j \in Instances /\ pc[j] # "unlist"
        BY <1>1, InvParts, CopiesAlone DEF LockOf, TypeOK, CopySteps
    <1> QED  BY <1>1, <1>2 DEF PlaceInv

LEMMA CopySaveKeeps ==
    ASSUME CopyInv, NEW i \in Instances, CopySave(i)
    PROVE  CopyInv'
    <1>1. /\ pc[i] = "save" /\ UNCHANGED <<source, dir, marked, holds, clone, hurt, locks, own, todo, seen>>
          /\ pc[i] \in CopySteps /\ "finish" \in CopySteps
        BY DEF CopySave, CopySteps
    <1>2. PICK c \in Copies : c = own[i]
        BY <1>1, OwnIs
    <1>3. CASE Fault /\ Goto(i, "fail") /\ UNCHANGED meta
        BY <1>1, <1>3, InvParts, FaultIs, CopyError DEF disk
    <1>4. CASE meta' = [meta EXCEPT ![c] = "live"] /\ Goto(i, "finish") /\ UNCHANGED faults
        <2>1. /\ meta' \in [Copies -> {"absent", "live", "trash"}] /\ meta'[c] = "live"
              /\ \A d \in Copies : d # c => meta'[d] = meta[d]
            BY <1>4, InvParts DEF TypeOK
        <2>2. pc'[i] = "finish"
            BY <1>1, <1>4, InvParts, GotoIs DEF Steps
        <2>3. Whole(c) /\ dir[c] = "home" /\ \A j \in Instances : ~ (own[j] = c /\ pc[j] \in UserSteps)
            BY <1>1, <1>2, InvParts, Hidden DEF StepInv
        <2>4. StepInv(i)'
            BY <1>1, <1>2, <2>1, <2>2 DEF StepInv
        <2>5. PlaceInv(c)'
            BY <1>1, <2>1, <2>3 DEF PlaceInv, Whole
        <2>6. /\ UNCHANGED <<source, clone, locks, own, todo, seen>>
              /\ dir' \in [Copies -> {"absent", "staging", "home", "trash"}]
              /\ marked' \subseteq Copies /\ holds' \in [Copies -> Holdings] /\ hurt' \subseteq Copies
              /\ faults' \in 0..MaxFaults
            BY <1>1, <1>4, InvParts DEF TypeOK
        <2> QED  BY <1>1, <1>2, <1>4, <2>1, <2>3, <2>4, <2>5, <2>6, CopyStep
    <1> QED  BY <1>2, <1>3, <1>4 DEF CopySave

LEMMA CopyFinishKeeps ==
    ASSUME CopyInv, NEW i \in Instances, CopyFinish(i)
    PROVE  CopyInv'
    <1>1. /\ pc[i] = "finish" /\ UNCHANGED <<source, meta, dir, holds, clone, hurt, locks, own, todo, seen>>
          /\ pc[i] \in CopySteps /\ "ensure" \in CopySteps
        BY DEF CopyFinish, CopySteps
    <1>2. PICK c \in Copies : c = own[i]
        BY <1>1, OwnIs
    <1>3. CASE Fault /\ Goto(i, "fail") /\ UNCHANGED marked
        BY <1>1, <1>3, InvParts, FaultIs, CopyError DEF disk
    <1>4. CASE /\ marked' = (IF dir[c] = "home" THEN marked \ {c} ELSE marked)
               /\ Goto(i, "ensure") /\ UNCHANGED faults
        <2>1. marked' \subseteq Copies /\ \A d \in Copies : d # c => (d \in marked' <=> d \in marked)
            BY <1>4, InvParts DEF TypeOK
        <2>2. pc'[i] = "ensure" /\ \A j \in Instances : j # i => pc'[j] = pc[j]
            BY <1>1, <1>4, InvParts, GotoIs DEF Steps
        <2>3. meta[c] # "absent"
            BY <1>1, <1>2, InvParts DEF StepInv
        <2>4. StepInv(i)'
            BY <1>1, <1>2, <2>2, <2>3 DEF StepInv
        <2>5. ASSUME c \notin hurt' PROVE PlaceInv(c)'
            <3>1. PlaceInv(c) /\ (meta[c] = "live" => dir[c] = "home" /\ Whole(c))
                BY <1>1, <1>2, <2>5, InvParts, ListedIsThere
            <3> QED  BY <1>1, <2>3, <3>1 DEF PlaceInv, Whole, locks
        <2>6. /\ UNCHANGED <<source, clone, locks, own, todo, seen>>
              /\ meta' \in [Copies -> {"absent", "live", "trash"}]
              /\ dir' \in [Copies -> {"absent", "staging", "home", "trash"}]
              /\ holds' \in [Copies -> Holdings] /\ hurt' \subseteq Copies
              /\ faults' \in 0..MaxFaults
            BY <1>1, <1>4, InvParts DEF TypeOK
        <2>7. \A j \in Instances : own[j] = c /\ pc[j] \in UserSteps => StepInv(j)'
            BY <1>1, <2>2, InvParts DEF StepInv, UserSteps, CopySteps
        <2> QED  BY <1>1, <1>2, <1>4, <2>1, <2>4, <2>5, <2>6, <2>7, CopyStep
    <1> QED  BY <1>2, <1>3, <1>4 DEF CopyFinish

\* A removal, whole or in part.
LEMMA RemovalIs ==
    ASSUME TypeOK, NEW c \in Copies, Removed(c) \/ RemovedInPart(c)
    PROVE  /\ dir' \in [Copies -> {"absent", "staging", "home", "trash"}]
           /\ marked' \subseteq Copies /\ holds' \in [Copies -> Holdings]
           /\ dir'[c] = "absent" \/ (RemovedInPart(c) /\ dir' = dir)
           /\ \A d \in Copies : d # c =>
                  dir'[d] = dir[d] /\ holds'[d] = holds[d] /\ (d \in marked' <=> d \in marked)
    <1>1. CASE Removed(c)
        <2>1. Nothing \in Holdings
            BY BoundsAssumption DEF Nothing, Holdings
        <2>2. holds' = [holds EXCEPT ![c] = Nothing]
            BY <1>1 DEF Removed
        <2>3. holds' \in [Copies -> Holdings] /\ \A d \in Copies : d # c => holds'[d] = holds[d]
            BY <2>1, <2>2, HoldsIs
        <2> QED  BY <1>1, <2>3 DEF Removed, TypeOK
    <1>2. CASE RemovedInPart(c)
        <2> DEFINE h == [holds[c] EXCEPT !.inputs = FALSE]
        <2>1. holds[c] \in Holdings
            BY DEF TypeOK
        <2>2. h \in Holdings
            BY <2>1 DEF Holdings
        <2>3. holds' = [holds EXCEPT ![c] = h]
            BY <1>2 DEF RemovedInPart
        <2> HIDE DEF h
        <2>4. holds' \in [Copies -> Holdings] /\ \A d \in Copies : d # c => holds'[d] = holds[d]
            BY <2>2, <2>3, HoldsIs
        <2> QED  BY <1>2, <2>4 DEF RemovedInPart, TypeOK
    <1> QED  BY <1>1, <1>2

LEMMA CopyFailKeeps ==
    ASSUME CopyInv, NEW i \in Instances, CopyFail(i)
    PROVE  CopyInv'
    <1>1. /\ pc[i] = "fail" /\ UNCHANGED <<source, meta, clone, locks, own, todo, seen>>
          /\ UNCHANGED <<source, clone, locks, own, todo, seen>> /\ UNCHANGED <<meta, life, busy, own>>
          /\ Goto(i, "unlist") /\ pc[i] \in CopySteps /\ "unlist" \in CopySteps
        BY DEF CopyFail, CopySteps, locks
    <1>2. PICK c \in Copies : c = own[i]
        BY <1>1, OwnIs
    <1>3. hurt' = (IF \/ meta[c] = "trash" \/ busy[c] # {}
                      \/ dir'[c] \in {"staging", "home"} /\ (meta[c] = "live" \/ c \notin marked')
                   THEN hurt \cup {c} ELSE hurt)
        BY <1>2 DEF CopyFail
    <1>4. /\ dir' \in [Copies -> {"absent", "staging", "home", "trash"}]
          /\ marked' \subseteq Copies /\ holds' \in [Copies -> Holdings] /\ faults' \in 0..MaxFaults
          /\ dir'[c] = "absent" \/ dir'[c] = dir[c]
          /\ \A d \in Copies : d # c =>
                 dir'[d] = dir[d] /\ holds'[d] = holds[d] /\ (d \in marked' <=> d \in marked)
        <2>1. CASE Removed(c) /\ UNCHANGED faults
            BY <2>1, InvParts, RemovalIs, FaultIs
        <2>2. CASE Fault /\ RemovedInPart(c)
            BY <2>2, InvParts, RemovalIs, FaultIs
        <2>3. CASE UNCHANGED <<dir, marked, holds, faults>>
            BY <2>3, InvParts DEF TypeOK
        <2> QED  BY <1>2, <2>1, <2>2, <2>3 DEF CopyFail
    <1>5. hurt' \subseteq Copies /\ \A d \in Copies : d # c => (d \in hurt' <=> d \in hurt)
        BY <1>3, InvParts DEF TypeOK
    <1>6. pc'[i] = "unlist" /\ \A j \in Instances : j # i => pc'[j] = pc[j]
        BY <1>1, InvParts, GotoIs DEF Steps
    <1>7. ASSUME c \notin hurt'
          PROVE  /\ c \notin hurt /\ meta[c] # "trash" /\ busy[c] = {}
                 /\ dir'[c] \in {"staging", "home"} => meta[c] = "absent" /\ c \in marked'
                 /\ dir'[c] # "trash"
        <2>1. /\ c \notin hurt /\ meta[c] # "trash" /\ busy[c] = {}
              /\ dir'[c] \in {"staging", "home"} => meta[c] # "live" /\ c \in marked'
            BY <1>3, <1>7
        <2>2. PlaceInv(c) /\ meta[c] \in {"absent", "live", "trash"}
            BY <2>1, InvParts DEF TypeOK
        <2> QED  BY <1>4, <2>1, <2>2 DEF PlaceInv
    <1>8. StepInv(i)'
        <2>1. dir'[c] \in {"absent", "staging", "home", "trash"}
            BY <1>4
        <2> QED  BY <1>1, <1>2, <1>6, <1>7, <2>1 DEF StepInv
    <1>9. \A j \in Instances : own[j] = c /\ pc[j] \in UserSteps => StepInv(j)'
        <2>1. ASSUME NEW j \in Instances, own[j] = c, pc[j] \in UserSteps PROVE StepInv(j)'
            <3>1. c \in hurt'
                BY <1>7, <2>1, Holders
            <3>2. own'[j] = c /\ pc'[j] \in UserSteps
                BY <1>1, <1>6, <2>1 DEF UserSteps
            <3> QED  BY <3>1, <3>2 DEF StepInv, UserSteps
        <2> QED  BY <2>1
    <1>10. c \notin hurt' => PlaceInv(c)'
        <2>1. i \in life[c]
            BY <1>1, <1>2, Holders
        <2>2. dir'[c] \in {"absent", "staging", "home", "trash"}
            BY <1>4
        <2> QED  BY <1>1, <1>6, <1>7, <2>1, <2>2 DEF PlaceInv
    <1>11. meta' \in [Copies -> {"absent", "live", "trash"}]
        BY <1>1, InvParts DEF TypeOK
    <1>12. \A d \in Copies : d # c =>
               /\ meta'[d] = meta[d] /\ dir'[d] = dir[d] /\ holds'[d] = holds[d]
               /\ d \in marked' <=> d \in marked
               /\ d \in hurt' <=> d \in hurt
        BY <1>1, <1>4, <1>5
    <1> QED  BY <1>1, <1>2, <1>4, <1>5, <1>8, <1>9, <1>10, <1>11, <1>12, CopyStep

LEMMA LeaveIs ==
    ASSUME TypeOK, NEW i \in Instances, Leave(i)
    PROVE  /\ pc' \in [Instances -> Steps] /\ pc'[i] = "idle" /\ \A j \in Instances : j # i => pc'[j] = pc[j]
           /\ own' = [own EXCEPT ![i] = 0] /\ srcLock' = srcLock \ {i}
           /\ life' \in [Copies -> SUBSET Instances] /\ \A d \in Copies : life'[d] = life[d] \ {i}
           /\ busy' \in [Copies -> SUBSET Instances] /\ \A d \in Copies : busy'[d] = busy[d] \ {i}
    <1>1. Goto(i, "idle") /\ "idle" \in Steps
        BY DEF Leave, Steps
    <1>2. pc' \in [Instances -> Steps] /\ pc'[i] = "idle" /\ \A j \in Instances : j # i => pc'[j] = pc[j]
        BY <1>1, GotoIs
    <1>3. /\ own' = [own EXCEPT ![i] = 0] /\ srcLock' = srcLock \ {i}
          /\ life' = [c \in Copies |-> life[c] \ {i}] /\ busy' = [c \in Copies |-> busy[c] \ {i}]
        BY DEF Leave
    <1> QED  BY <1>2, <1>3 DEF TypeOK

\* Instance i is done with copy c, and has no lock any more.
LEMMA LeaveStep ==
    ASSUME CopyInv, NEW i \in Instances, NEW c \in Copies, c = own[i],
           pc' \in [Instances -> Steps], pc'[i] \in {"idle", "down", "recover"},
           \A j \in Instances : j # i => pc'[j] = pc[j],
           own' = [own EXCEPT ![i] = 0], srcLock' = srcLock \ {i},
           life' \in [Copies -> SUBSET Instances], \A d \in Copies : life'[d] = life[d] \ {i},
           busy' \in [Copies -> SUBSET Instances], \A d \in Copies : busy'[d] = busy[d] \ {i},
           UNCHANGED <<source, clone>>,
           todo' \in [Instances -> SUBSET Copies], seen' \in [Instances -> {"absent", "staging", "home"}],
           meta' \in [Copies -> {"absent", "live", "trash"}],
           dir' \in [Copies -> {"absent", "staging", "home", "trash"}],
           marked' \subseteq Copies, holds' \in [Copies -> Holdings], hurt' \subseteq Copies,
           faults' \in 0..MaxFaults,
           \A d \in Copies : d # c =>
               /\ meta'[d] = meta[d] /\ dir'[d] = dir[d] /\ holds'[d] = holds[d]
               /\ d \in marked' <=> d \in marked
               /\ d \in hurt' <=> d \in hurt,
           \A j \in Instances :
               j # i /\ own[j] = c /\ pc[j] \in CopySteps \cup UserSteps => StepInv(j)',
           c \notin hurt' => PlaceInv(c)'
    PROVE  CopyInv'
    <1>1. own' \in [Instances -> 0..MaxCopies] /\ own'[i] = 0 /\ \A j \in Instances : j # i => own'[j] = own[j]
        BY InvParts, BoundsAssumption DEF TypeOK
    <1>2. TypeOK'
        BY <1>1, InvParts DEF TypeOK
    <1>3. clone[c].mode # "none"
        BY InvParts DEF Fresh
    <1>4. LockOf(i)'
        BY <1>1, CopiesAre DEF LockOf, CopySteps, UserSteps
    <1>5. LockInv'
        <2>1. \A d \in Copies :
                  clone'[d].mode = "none" =>
                      /\ clone[d].mode = "none" /\ meta'[d] = meta[d] /\ dir'[d] = dir[d]
                      /\ d \in marked' => d \in marked
                      /\ own'[i] # d
            BY <1>1, <1>3, CopiesAre
        <2> QED  BY <1>1, <1>4, <2>1, InvParts, LockStep
    <1>6. SourceInv'
        BY <1>1, SourceStays
    <1>7. StepInv(i)'
        BY DEF StepInv
    <1>8. ASSUME NEW d \in Copies, d # c PROVE life'[d] = life[d] /\ busy'[d] = busy[d]
        <2>1. i \notin life[d] /\ i \notin busy[d]
            BY <1>8, InvParts DEF LockOf
        <2>2. life[d] \ {i} = life[d] /\ busy[d] \ {i} = busy[d]
            BY <2>1
        <2>3. life'[d] = life[d] \ {i} /\ busy'[d] = busy[d] \ {i}
            OBVIOUS
        <2> QED  BY <2>2, <2>3
    <1> QED  BY <1>1, <1>2, <1>5, <1>6, <1>7, <1>8, ActStep

LEMMA CopyEnsureKeeps ==
    ASSUME CopyInv, NEW i \in Instances, CopyEnsure(i)
    PROVE  CopyInv'
    <1>1. pc[i] = "ensure" /\ UNCHANGED <<source, disk, todo, seen>> /\ pc[i] \in CopySteps
        BY DEF CopyEnsure, CopySteps
    <1>2. PICK c \in Copies : c = own[i]
        BY <1>1, OwnIs
    <1>3. CASE Goto(i, "fail") /\ (Fault \/ UNCHANGED faults) /\ UNCHANGED <<own, locks>>
        BY <1>1, <1>3, InvParts, FaultIs, CopyError
    <1>4. CASE dir[c] = "home" /\ meta[c] = "live" /\ Leave(i) /\ UNCHANGED faults
        <2>1. UNCHANGED <<meta, dir, marked, holds, clone, hurt>>
            BY <1>1 DEF disk
        <2>2. /\ pc' \in [Instances -> Steps] /\ pc'[i] = "idle" /\ \A j \in Instances : j # i => pc'[j] = pc[j]
              /\ own' = [own EXCEPT ![i] = 0] /\ srcLock' = srcLock \ {i}
              /\ life' \in [Copies -> SUBSET Instances] /\ \A d \in Copies : life'[d] = life[d] \ {i}
              /\ busy' \in [Copies -> SUBSET Instances] /\ \A d \in Copies : busy'[d] = busy[d] \ {i}
            BY <1>4, InvParts, LeaveIs
        <2>3. \A j \in Instances : j # i => own'[j] = own[j]
            BY <2>2, InvParts DEF TypeOK
        <2>4. ASSUME NEW j \in Instances, j # i, own[j] = c, pc[j] \in CopySteps \cup UserSteps
              PROVE  StepInv(j)'
            <3>1. pc[j] \in UserSteps
                BY <1>1, <1>2, <2>4, Holders, CopiesAlone
            <3> QED  BY <2>1, <2>2, <2>3, <2>4, <3>1, InvParts DEF StepInv, UserSteps
        <2>5. ASSUME c \notin hurt' PROVE PlaceInv(c)'
            <3>1. Whole(c)
                BY <1>1, <1>2, <1>4, <2>1, <2>5, ListedIsThere
            <3> QED  BY <1>4, <2>1, <3>1 DEF PlaceInv, Whole
        <2>6. /\ todo' \in [Instances -> SUBSET Copies] /\ seen' \in [Instances -> {"absent", "staging", "home"}]
              /\ meta' \in [Copies -> {"absent", "live", "trash"}]
              /\ dir' \in [Copies -> {"absent", "staging", "home", "trash"}]
              /\ marked' \subseteq Copies /\ holds' \in [Copies -> Holdings] /\ hurt' \subseteq Copies
              /\ faults' \in 0..MaxFaults /\ UNCHANGED <<source, clone>>
            BY <1>1, <1>4, <2>1, InvParts DEF TypeOK
        <2> QED  BY <1>2, <2>1, <2>2, <2>4, <2>5, <2>6, LeaveStep
    <1> QED  BY <1>2, <1>3, <1>4 DEF CopyEnsure

LEMMA CopyUnlistKeeps ==
    ASSUME CopyInv, NEW i \in Instances, CopyUnlist(i)
    PROVE  CopyInv'
    <1>1. /\ pc[i] = "unlist" /\ UNCHANGED <<source, dir, marked, holds, clone, todo, seen>>
          /\ pc[i] \in CopySteps /\ Leave(i)
        BY DEF CopyUnlist, CopySteps
    <1>2. PICK c \in Copies : c = own[i]
        BY <1>1, OwnIs
    <1>3. /\ pc' \in [Instances -> Steps] /\ pc'[i] = "idle" /\ \A j \in Instances : j # i => pc'[j] = pc[j]
          /\ own' = [own EXCEPT ![i] = 0] /\ srcLock' = srcLock \ {i}
          /\ life' \in [Copies -> SUBSET Instances] /\ \A d \in Copies : life'[d] = life[d] \ {i}
          /\ busy' \in [Copies -> SUBSET Instances] /\ \A d \in Copies : busy'[d] = busy[d] \ {i}
        BY <1>1, InvParts, LeaveIs
    <1>4. \/ /\ meta' = [meta EXCEPT ![c] = IF @ = "live" THEN "absent" ELSE @]
             /\ UNCHANGED <<hurt, faults>>
          \/ Fault /\ hurt' = hurt \cup {c} /\ UNCHANGED meta
        BY <1>2 DEF CopyUnlist
    <1>5. /\ meta' \in [Copies -> {"absent", "live", "trash"}] /\ hurt' \subseteq Copies
          /\ \A d \in Copies : d # c => meta'[d] = meta[d] /\ (d \in hurt' <=> d \in hurt)
          /\ faults' \in 0..MaxFaults
        BY <1>4, InvParts, FaultIs DEF TypeOK
    <1>6. ASSUME c \notin hurt'
          PROVE  /\ c \notin hurt /\ meta'[c] = "absent" /\ busy[c] = {}
                 /\ dir[c] # "trash" /\ (dir[c] = "absent" \/ c \in marked)
        <2>1. c \notin hurt /\ meta' = [meta EXCEPT ![c] = IF @ = "live" THEN "absent" ELSE @]
            BY <1>4, <1>6
        <2>2. /\ meta[c] # "trash" /\ busy[c] = {}
              /\ dir[c] = "absent" \/ (meta[c] = "absent" /\ c \in marked)
            BY <1>1, <1>2, <2>1, InvParts DEF StepInv
        <2>3. PlaceInv(c) /\ meta[c] \in {"absent", "live", "trash"}
            BY <2>1, InvParts DEF TypeOK
        <2>4. dir[c] # "trash"
            BY <2>2, <2>3 DEF PlaceInv
        <2>5. meta'[c] = "absent"
            BY <2>1, <2>2, <2>3, InvParts DEF TypeOK
        <2> QED  BY <2>1, <2>2, <2>4, <2>5
    <1>7. ASSUME NEW j \in Instances, j # i, own[j] = c, pc[j] \in CopySteps \cup UserSteps
          PROVE  StepInv(j)'
        <2>1. pc[j] \in UserSteps
            BY <1>1, <1>2, <1>7, Holders, CopiesAlone
        <2>2. c \in hurt'
            BY <1>2, <1>6, <1>7, <2>1, Holders
        <2>3. own'[j] = c /\ pc'[j] = pc[j]
            BY <1>3, <1>7, InvParts DEF TypeOK
        <2> QED  BY <2>1, <2>2, <2>3 DEF StepInv, UserSteps
    <1>8. c \notin hurt' => PlaceInv(c)'
        BY <1>1, <1>3, <1>6 DEF PlaceInv
    <1>9. /\ todo' \in [Instances -> SUBSET Copies] /\ seen' \in [Instances -> {"absent", "staging", "home"}]
          /\ dir' \in [Copies -> {"absent", "staging", "home", "trash"}]
          /\ marked' \subseteq Copies /\ holds' \in [Copies -> Holdings]
          /\ UNCHANGED <<source, clone>>
        BY <1>1, InvParts DEF TypeOK
    <1>10. \A d \in Copies : d # c =>
               /\ meta'[d] = meta[d] /\ dir'[d] = dir[d] /\ holds'[d] = holds[d]
               /\ d \in marked' <=> d \in marked
               /\ d \in hurt' <=> d \in hurt
        BY <1>1, <1>5
    <1> QED  BY <1>2, <1>3, <1>5, <1>7, <1>8, <1>9, <1>10, LeaveStep

LEMMA CopyBeginKeeps ==
    ASSUME CopyInv, NEW i \in Instances, NEW c \in Copies, NEW mode \in {"inputs", "complete"},
           CopyBegin(i, c, mode)
    PROVE  CopyInv'
    <1>1. /\ pc[i] = "idle" /\ srcLock = {} /\ (mode = "complete" => source.status = "succeeded")
          /\ clone[c].mode = "none" /\ srcLock' = {i} /\ life' = [life EXCEPT ![c] = {i}]
          /\ own' = [own EXCEPT ![i] = c] /\ Goto(i, "stage")
          /\ UNCHANGED <<source, meta, dir, marked, holds, busy, todo, seen, hurt, faults>>
          /\ clone' = [clone EXCEPT ![c] = [mode |-> mode, run |-> source.run]]
        BY DEF CopyBegin
    <1>2. pc' \in [Instances -> Steps] /\ pc'[i] = "stage" /\ \A j \in Instances : j # i => pc'[j] = pc[j]
        BY <1>1, InvParts, GotoIs DEF Steps, CopySteps
    <1>3. /\ own[i] = 0 /\ own' \in [Instances -> 0..MaxCopies] /\ own'[i] = c
          /\ \A j \in Instances : j # i => own'[j] = own[j]
        <2>1. own[i] = 0
            BY <1>1, InvParts DEF LockOf, CopySteps, UserSteps
        <2>2. c \in 0..MaxCopies
            BY BoundsAssumption DEF Copies
        <2> QED  BY <1>1, <2>1, <2>2, InvParts DEF TypeOK
    <1>4. /\ clone' \in [Copies -> [mode: Modes, run: 0..MaxRuns]]
          /\ clone'[c].mode = mode /\ clone'[c].run = source.run
          /\ \A d \in Copies : d # c => clone'[d] = clone[d]
        <2> DEFINE n == [mode |-> mode, run |-> source.run]
        <2>1. source.run \in 0..MaxRuns
            BY InvParts DEF TypeOK
        <2>2. n \in [mode: Modes, run: 0..MaxRuns] /\ n.mode = mode /\ n.run = source.run
            BY <2>1 DEF Modes
        <2>3. clone' = [clone EXCEPT ![c] = n]
            BY <1>1
        <2> HIDE DEF n
        <2> QED  BY <2>2, <2>3, InvParts DEF TypeOK
    <1>5. Fresh(c)
        BY <1>1, InvParts
    <1>6. life[c] = {} /\ busy[c] = {}
        <2>1. life[c] \subseteq Instances /\ busy[c] \subseteq Instances
            BY InvParts DEF TypeOK
        <2>2. \A j \in Instances : j \notin life[c] /\ j \notin busy[c]
            BY <1>5, InvParts DEF LockOf, Fresh
        <2> QED  BY <2>1, <2>2
    <1>7. /\ life' \in [Copies -> SUBSET Instances] /\ life'[c] = {i}
          /\ \A d \in Copies : d # c => life'[d] = life[d]
        BY <1>1, InvParts DEF TypeOK
    <1>8. TypeOK'
        BY <1>1, <1>2, <1>3, <1>4, <1>7, InvParts DEF TypeOK
    <1>9. LockOf(i)'
        <2>1. \A d \in Copies : i \notin life[d] /\ i \notin busy[d]
            BY <1>1, InvParts DEF LockOf, CopySteps, UserSteps
        <2>2. pc'[i] \in CopySteps /\ pc'[i] \notin UserSteps
            BY <1>2 DEF CopySteps, UserSteps
        <2> QED  BY <1>1, <1>3, <1>7, <2>1, <2>2, CopiesAre DEF LockOf
    <1>10. LockInv'
        <2>1. \A d \in Copies :
                  clone'[d].mode = "none" =>
                      /\ clone[d].mode = "none" /\ meta'[d] = meta[d] /\ dir'[d] = dir[d]
                      /\ d \in marked' => d \in marked
                      /\ own'[i] # d
            BY <1>1, <1>3, <1>4
        <2>2. \A d \in Copies :
                  life'[d] \in {life[d], life[d] \ {i}} \/ (life[d] = {} /\ life'[d] = {i})
            BY <1>6, <1>7
        <2> QED  BY <1>1, <1>2, <1>3, <1>9, <2>1, <2>2, InvParts, LockStep
    <1>11. SourceInv'
        <2>1. source.status = "succeeded" => source.outputs = source.run
            BY InvParts DEF SourceInv
        <2>2. ASSUME NEW j \in Instances, j # i PROVE pc'[j] \notin CopySteps \cup {"run"}
            BY <1>1, <1>2, <2>2, InvParts DEF LockOf
        <2>3. mode = "complete" => source.outputs = source.run
            BY <1>1, <2>1
        <2> QED  BY <1>1, <1>2, <1>3, <1>4, <2>1, <2>2, <2>3 DEF SourceInv, CopySteps
    <1>12. StepInv(i)' /\ PlaceInv(c)'
        BY <1>1, <1>2, <1>3, <1>5, <1>6, <1>7 DEF StepInv, PlaceInv, Fresh
    <1>13. \A j \in Instances : own[j] # c
        BY <1>5 DEF Fresh
    <1> QED  BY <1>1, <1>2, <1>3, <1>4, <1>7, <1>8, <1>10, <1>11, <1>12, <1>13, ActStep

-----------------------------------------------------------------------------
(* What others do with a listed copy *)

LEMMA TakeStep ==
    ASSUME CopyInv, NEW i \in Instances, NEW c \in Copies, NEW s \in UserSteps, Take(i, c, s),
           UNCHANGED <<marked, holds, hurt>>,
           meta' \in [Copies -> {"absent", "live", "trash"}],
           dir' \in [Copies -> {"absent", "staging", "home", "trash"}],
           \A d \in Copies : d # c => meta'[d] = meta[d] /\ dir'[d] = dir[d],
           (meta[c] = "live" /\ dir[c] = "home") \/ meta[c] = "trash",
           meta'[c] # "absent",
           s = "use" => meta'[c] = "live",
           s \in {"delete", "restore"} => meta'[c] = "trash",
           c \notin hurt => dir'[c] = "home" /\ Whole(c)
    PROVE  CopyInv'
    <1>1. /\ pc[i] = "idle" /\ busy[c] = {} /\ busy' = [busy EXCEPT ![c] = {i}]
          /\ own' = [own EXCEPT ![i] = c] /\ Goto(i, s)
          /\ UNCHANGED <<source, clone, srcLock, life, todo, seen, faults>>
        BY DEF Take
    <1>2. pc' \in [Instances -> Steps] /\ pc'[i] = s /\ \A j \in Instances : j # i => pc'[j] = pc[j]
        BY <1>1, InvParts, GotoIs DEF Steps, UserSteps
    <1>3. /\ own[i] = 0 /\ own' \in [Instances -> 0..MaxCopies] /\ own'[i] = c
          /\ \A j \in Instances : j # i => own'[j] = own[j]
        <2>1. own[i] = 0
            BY <1>1, InvParts DEF LockOf, CopySteps, UserSteps
        <2>2. c \in 0..MaxCopies
            BY BoundsAssumption DEF Copies
        <2> QED  BY <1>1, <2>1, <2>2, InvParts DEF TypeOK
    <1>4. /\ busy' \in [Copies -> SUBSET Instances] /\ busy'[c] = {i}
          /\ \A d \in Copies : d # c => busy'[d] = busy[d]
        BY <1>1, InvParts DEF TypeOK
    <1>5. TypeOK'
        BY <1>1, <1>2, <1>3, <1>4, InvParts DEF TypeOK
    <1>6. clone[c].mode # "none"
        BY InvParts DEF Fresh
    <1>7. LockOf(i)'
        <2>1. i \notin srcLock /\ \A d \in Copies : i \notin life[d] /\ i \notin busy[d]
            BY <1>1, InvParts DEF LockOf, CopySteps, UserSteps
        <2>2. pc'[i] \in UserSteps /\ pc'[i] \notin CopySteps \cup {"run"}
            BY <1>2 DEF CopySteps, UserSteps
        <2> QED  BY <1>1, <1>3, <1>4, <2>1, <2>2, CopiesAre DEF LockOf
    <1>8. LockInv'
        <2>1. \A d \in Copies :
                  clone'[d].mode = "none" =>
                      /\ clone[d].mode = "none" /\ meta'[d] = meta[d] /\ dir'[d] = dir[d]
                      /\ d \in marked' => d \in marked
                      /\ own'[i] # d
            BY <1>1, <1>3, <1>6
        <2>2. \A d \in Copies :
                  busy'[d] \in {busy[d], busy[d] \ {i}} \/ (busy[d] = {} /\ busy'[d] = {i})
            BY <1>1, <1>4
        <2> QED  BY <1>1, <1>2, <1>3, <1>7, <2>1, <2>2, InvParts, LockStep
    <1>9. SourceInv'
        BY <1>1, <1>2, <1>3, SourceStays DEF UserSteps
    <1>10. StepInv(i)'
        BY <1>2, <1>3 DEF StepInv, UserSteps
    <1>11. ASSUME NEW j \in Instances, j # i, own[j] = c, pc[j] \in CopySteps \cup UserSteps
           PROVE  StepInv(j)'
        <2>1. pc[j] \in CopySteps
            BY <1>1, <1>11, Holders
        <2>2. own'[j] = c /\ pc'[j] = pc[j]
            BY <1>2, <1>3, <1>11
        <2>3. StepInv(j)
            BY InvParts
        <2>4. pc[j] \in {"finish", "ensure", "fail"} \/ (pc[j] = "unlist" /\ c \in hurt)
            BY <1>11, <2>1, <2>3 DEF StepInv, CopySteps
        <2> QED  BY <2>2, <2>4 DEF StepInv
    <1>12. c \notin hurt' => PlaceInv(c)'
        BY <1>1 DEF PlaceInv, Whole
    <1> QED  BY <1>1, <1>2, <1>3, <1>4, <1>5, <1>8, <1>9, <1>10, <1>11, <1>12, ActStep

\* A listed copy whose directory is in its place is all there.
LEMMA HomeIsWhole ==
    ASSUME CopyInv, NEW c \in Copies, c \notin hurt,
           (meta[c] = "live" /\ dir[c] = "home") \/ meta[c] = "trash"
    PROVE  Whole(c)
    BY InvParts DEF PlaceInv

LEMMA UseKeeps ==
    ASSUME CopyInv, NEW i \in Instances, NEW c \in Copies, Use(i, c)
    PROVE  CopyInv'
    <1>1. /\ meta[c] = "live" /\ dir[c] = "home" /\ Take(i, c, "use")
          /\ UNCHANGED <<meta, dir, marked, holds, hurt>> /\ UNCHANGED <<marked, holds, hurt>>
          /\ "use" \in UserSteps
        BY DEF Use, UserSteps
    <1>2. c \notin hurt => Whole(c)
        BY <1>1, HomeIsWhole
    <1> QED  BY <1>1, <1>2, InvParts, TakeStep DEF TypeOK

LEMMA DeleteKeeps ==
    ASSUME CopyInv, NEW i \in Instances, NEW c \in Copies, Delete(i, c)
    PROVE  CopyInv'
    <1>1. /\ meta[c] = "live" /\ dir[c] = "home" /\ Take(i, c, "delete")
          /\ meta' = [meta EXCEPT ![c] = "trash"]
          /\ UNCHANGED dir /\ UNCHANGED <<marked, holds, hurt>> /\ "delete" \in UserSteps
        BY DEF Delete, UserSteps
    <1>2. c \notin hurt => Whole(c)
        BY <1>1, HomeIsWhole
    <1>3. /\ meta' \in [Copies -> {"absent", "live", "trash"}] /\ meta'[c] = "trash"
          /\ \A d \in Copies : d # c => meta'[d] = meta[d]
          /\ dir' \in [Copies -> {"absent", "staging", "home", "trash"}]
        BY <1>1, InvParts DEF TypeOK
    <1> QED  BY <1>1, <1>2, <1>3, TakeStep

LEMMA RestoreKeeps ==
    ASSUME CopyInv, NEW i \in Instances, NEW c \in Copies, Restore(i, c)
    PROVE  CopyInv'
    <1>1. /\ meta[c] = "trash" /\ Take(i, c, "restore") /\ dir' = [dir EXCEPT ![c] = "home"]
          /\ UNCHANGED meta /\ UNCHANGED <<marked, holds, hurt>> /\ "restore" \in UserSteps
        BY DEF Restore, UserSteps
    <1>2. c \notin hurt => Whole(c)
        BY <1>1, HomeIsWhole
    <1>3. /\ meta' \in [Copies -> {"absent", "live", "trash"}]
          /\ dir' \in [Copies -> {"absent", "staging", "home", "trash"}] /\ dir'[c] = "home"
          /\ \A d \in Copies : d # c => dir'[d] = dir[d]
        BY <1>1, InvParts DEF TypeOK
    <1> QED  BY <1>1, <1>2, <1>3, TakeStep

\* A user of copy c is done with it.
LEMMA UserLeaves ==
    ASSUME CopyInv, NEW i \in Instances, NEW c \in Copies, c = own[i], pc[i] \in UserSteps, Leave(i),
           UNCHANGED <<source, marked, holds, clone, todo, seen, hurt>>, faults' \in 0..MaxFaults,
           meta' \in [Copies -> {"absent", "live", "trash"}],
           dir' \in [Copies -> {"absent", "staging", "home", "trash"}],
           \A d \in Copies : d # c => meta'[d] = meta[d] /\ dir'[d] = dir[d],
           meta'[c] \in {meta[c], "live"},
           c \notin hurt /\ meta'[c] = "live" => dir'[c] = "home",
           c \notin hurt /\ meta'[c] = "trash" => dir'[c] \in {"home", "trash"}
    PROVE  CopyInv'
    <1>1. /\ pc' \in [Instances -> Steps] /\ pc'[i] = "idle" /\ \A j \in Instances : j # i => pc'[j] = pc[j]
          /\ own' = [own EXCEPT ![i] = 0] /\ srcLock' = srcLock \ {i}
          /\ life' \in [Copies -> SUBSET Instances] /\ \A d \in Copies : life'[d] = life[d] \ {i}
          /\ busy' \in [Copies -> SUBSET Instances] /\ \A d \in Copies : busy'[d] = busy[d] \ {i}
        BY InvParts, LeaveIs
    <1>2. i \in busy[c] /\ StepInv(i)
        BY InvParts, Holders
    <1>3. busy'[c] = {}
        <2>1. \A j \in busy[c] : j = i
            BY <1>2, InvParts DEF LockInv
        <2>2. busy[c] \ {i} = {}
            BY <2>1
        <2> QED  BY <1>1, <2>2
    <1>4. c \notin hurt => meta[c] \in {"live", "trash"} /\ Whole(c)
        <2>1. c \notin hurt => meta[c] \in {"live", "trash"} /\ PlaceInv(c)
            BY <1>2, InvParts DEF StepInv, UserSteps
        <2> QED  BY <1>2, <2>1 DEF PlaceInv
    <1>5. ASSUME NEW j \in Instances, j # i, own[j] = c, pc[j] \in CopySteps \cup UserSteps
          PROVE  StepInv(j)'
        <2>1. pc[j] \in CopySteps
            BY <1>5, UsesAlone
        <2>2. own'[j] = c /\ pc'[j] = pc[j]
            BY <1>1, <1>5, InvParts DEF TypeOK
        <2>3. StepInv(j)
            BY InvParts
        <2>4. \/ pc[j] \in {"finish", "ensure"} /\ meta[c] # "absent"
              \/ pc[j] = "fail"
              \/ pc[j] = "unlist" /\ c \in hurt
            BY <1>2, <1>5, <2>1, <2>3 DEF StepInv, CopySteps
        <2>5. c \notin hurt => meta'[c] # "absent"
            BY <1>4
        <2>6. meta[c] # "absent" => meta'[c] # "absent"
            OBVIOUS
        <2> QED  BY <2>2, <2>4, <2>5, <2>6 DEF StepInv
    <1>6. c \notin hurt' => PlaceInv(c)'
        BY <1>3, <1>4 DEF PlaceInv, Whole
    <1>7. /\ todo' \in [Instances -> SUBSET Copies] /\ seen' \in [Instances -> {"absent", "staging", "home"}]
          /\ marked' \subseteq Copies /\ holds' \in [Copies -> Holdings] /\ hurt' \subseteq Copies
          /\ UNCHANGED <<source, clone>>
        BY InvParts DEF TypeOK
    <1>8. \A d \in Copies : d # c =>
              /\ meta'[d] = meta[d] /\ dir'[d] = dir[d] /\ holds'[d] = holds[d]
              /\ d \in marked' <=> d \in marked
              /\ d \in hurt' <=> d \in hurt
        OBVIOUS
    <1>9. pc'[i] \in {"idle", "down", "recover"}
        BY <1>1
    <1>10. UNCHANGED <<source, clone>>
        OBVIOUS
    <1>11. \A j \in Instances : j # i /\ own[j] = c /\ pc[j] \in CopySteps \cup UserSteps => StepInv(j)'
        BY <1>5
    <1> QED  BY ZenonT(60), <1>1, <1>6, <1>7, <1>8, <1>9, <1>10, <1>11, LeaveStep

\* Its directory is in its place.
LEMMA UserHome ==
    ASSUME CopyInv, NEW i \in Instances, NEW c \in Copies, c = own[i], pc[i] \in UserSteps, c \notin hurt
    PROVE  /\ dir[c] = "home"
           /\ pc[i] = "use" => meta[c] = "live"
           /\ pc[i] \in {"delete", "restore"} => meta[c] = "trash"
    <1>1. i \in busy[c] /\ StepInv(i) /\ PlaceInv(c)
        BY InvParts, Holders
    <1> QED  BY <1>1 DEF StepInv, PlaceInv, UserSteps

LEMMA UseEndKeeps ==
    ASSUME CopyInv, NEW i \in Instances, UseEnd(i)
    PROVE  CopyInv'
    <1>1. /\ pc[i] = "use" /\ Leave(i) /\ UNCHANGED <<source, todo, seen, faults>>
          /\ UNCHANGED <<meta, dir, marked, holds, clone, hurt>> /\ pc[i] \in UserSteps
        BY DEF UseEnd, disk, UserSteps
    <1>2. PICK c \in Copies : c = own[i]
        BY <1>1, OwnIs
    <1>3. c \notin hurt => dir[c] = "home"
        BY <1>1, <1>2, UserHome
    <1>4. /\ UNCHANGED <<source, marked, holds, clone, todo, seen, hurt>> /\ faults' \in 0..MaxFaults
          /\ meta' \in [Copies -> {"absent", "live", "trash"}]
          /\ dir' \in [Copies -> {"absent", "staging", "home", "trash"}]
        BY <1>1, InvParts DEF TypeOK
    <1> QED  BY <1>1, <1>2, <1>3, <1>4, UserLeaves

LEMMA DeleteWorkspaceKeeps ==
    ASSUME CopyInv, NEW i \in Instances, DeleteWorkspace(i)
    PROVE  CopyInv'
    <1>1. /\ pc[i] = "delete" /\ Leave(i) /\ pc[i] \in UserSteps
          /\ UNCHANGED <<source, marked, holds, clone, todo, seen, hurt>>
        BY DEF DeleteWorkspace, UserSteps
    <1>2. PICK c \in Copies : c = own[i]
        BY <1>1, OwnIs
    <1>3. c \notin hurt => dir[c] = "home"
        BY <1>1, <1>2, UserHome
    <1>4. CASE dir' = [dir EXCEPT ![c] = "trash"] /\ UNCHANGED <<meta, faults>>
        <2>1. /\ dir' \in [Copies -> {"absent", "staging", "home", "trash"}] /\ dir'[c] = "trash"
              /\ \A d \in Copies : d # c => dir'[d] = dir[d]
              /\ meta' \in [Copies -> {"absent", "live", "trash"}] /\ faults' \in 0..MaxFaults
            BY <1>4, InvParts DEF TypeOK
        <2>2. c \notin hurt => meta[c] = "trash"
            BY <1>1, <1>2, UserHome
        <2> QED  BY <1>1, <1>2, <1>4, <2>1, <2>2, UserLeaves
    <1>5. CASE meta' = [meta EXCEPT ![c] = "live"] /\ UNCHANGED dir /\ (Fault \/ UNCHANGED faults)
        <2>1. /\ meta' \in [Copies -> {"absent", "live", "trash"}] /\ meta'[c] = "live"
              /\ \A d \in Copies : d # c => meta'[d] = meta[d]
              /\ dir' \in [Copies -> {"absent", "staging", "home", "trash"}] /\ faults' \in 0..MaxFaults
            BY <1>5, InvParts, FaultIs DEF TypeOK
        <2> QED  BY <1>1, <1>2, <1>3, <1>5, <2>1, UserLeaves
    <1> QED  BY <1>2, <1>4, <1>5 DEF DeleteWorkspace

LEMMA RestoreMetadataKeeps ==
    ASSUME CopyInv, NEW i \in Instances, RestoreMetadata(i)
    PROVE  CopyInv'
    <1>1. /\ pc[i] = "restore" /\ Leave(i) /\ pc[i] \in UserSteps
          /\ UNCHANGED <<source, marked, holds, clone, todo, seen, hurt>>
        BY DEF RestoreMetadata, UserSteps
    <1>2. PICK c \in Copies : c = own[i]
        BY <1>1, OwnIs
    <1>3. c \notin hurt => dir[c] = "home" /\ meta[c] = "trash"
        BY <1>1, <1>2, UserHome
    <1>4. CASE meta' = [meta EXCEPT ![c] = "live"] /\ UNCHANGED <<dir, faults>>
        <2>1. /\ meta' \in [Copies -> {"absent", "live", "trash"}] /\ meta'[c] = "live"
              /\ \A d \in Copies : d # c => meta'[d] = meta[d]
              /\ dir' \in [Copies -> {"absent", "staging", "home", "trash"}] /\ faults' \in 0..MaxFaults
            BY <1>4, InvParts DEF TypeOK
        <2> QED  BY <1>1, <1>2, <1>3, <1>4, <2>1, UserLeaves
    <1>5. CASE Fault /\ dir' = [dir EXCEPT ![c] = IF @ = "home" THEN "trash" ELSE @] /\ UNCHANGED meta
        <2>1. /\ dir' \in [Copies -> {"absent", "staging", "home", "trash"}]
              /\ dir'[c] = IF dir[c] = "home" THEN "trash" ELSE dir[c]
              /\ \A d \in Copies : d # c => dir'[d] = dir[d]
              /\ meta' \in [Copies -> {"absent", "live", "trash"}] /\ faults' \in 0..MaxFaults
            BY <1>5, InvParts, FaultIs DEF TypeOK
        <2> QED  BY <1>1, <1>2, <1>3, <1>5, <2>1, UserLeaves
    <1> QED  BY <1>2, <1>4, <1>5 DEF RestoreMetadata

-----------------------------------------------------------------------------
(* The source is run *)

\* Who works on no copy has no lock of one.
LEMMA IdleHas ==
    ASSUME CopyInv, NEW i \in Instances, own[i] = 0
    PROVE  \A c \in Copies : i \notin life[c] /\ i \notin busy[c]
    BY InvParts, CopiesAre DEF LockOf

LEMMA OwnsNone ==
    ASSUME CopyInv, NEW i \in Instances, pc[i] \in {"down", "idle", "recover", "run"}
    PROVE  own[i] = 0
    BY InvParts DEF LockOf, CopySteps, UserSteps

\* A step of an instance that works on no copy, which gives or takes no lock
\* of one.
LEMMA AsideStep ==
    ASSUME CopyInv, NEW i \in Instances, own[i] = 0,
           UNCHANGED <<disk, life, busy, own>>,
           pc' \in [Instances -> Steps], pc'[i] \in {"down", "idle", "recover", "run"},
           \A j \in Instances : j # i => pc'[j] = pc[j],
           srcLock' \in {srcLock, srcLock \ {i}} \/ (srcLock = {} /\ srcLock' = {i}),
           i \in srcLock' <=> pc'[i] = "run",
           source' \in [status: {"idle", "running", "succeeded"}, run: 0..MaxRuns, outputs: 0..MaxRuns],
           todo' \in [Instances -> SUBSET Copies], seen' \in [Instances -> {"absent", "staging", "home"}],
           faults' \in 0..MaxFaults, SourceInv'
    PROVE  CopyInv'
    <1>1. UNCHANGED <<meta, dir, marked, holds, clone, hurt, life, busy, own>>
        BY DEF disk
    <1>2. TypeOK'
        <2>1. srcLock' \subseteq Instances
            BY InvParts DEF TypeOK
        <2> QED  BY <1>1, <2>1, InvParts DEF TypeOK
    <1>3. LockOf(i)'
        BY <1>1, IdleHas, CopiesAre DEF LockOf, CopySteps, UserSteps
    <1>4. LockInv'
        <2>1. \A d \in Copies :
                  clone'[d].mode = "none" =>
                      /\ clone[d].mode = "none" /\ meta'[d] = meta[d] /\ dir'[d] = dir[d]
                      /\ d \in marked' => d \in marked
                      /\ own'[i] # d
            BY <1>1, CopiesAre
        <2> QED  BY <1>1, <1>3, <2>1, InvParts, LockStep
    <1>5. StepInv(i)'
        BY DEF StepInv
    <1> QED  BY <1>1, <1>2, <1>4, <1>5, StillStep

LEMMA RunBeginKeeps ==
    ASSUME CopyInv, NEW i \in Instances, RunBegin(i)
    PROVE  CopyInv'
    <1>1. /\ pc[i] = "idle" /\ srcLock = {} /\ source.run < MaxRuns /\ srcLock' = {i} /\ Goto(i, "run")
          /\ source' = [source EXCEPT !.status = "running", !.run = @ + 1]
          /\ UNCHANGED <<disk, life, busy, own, todo, seen, faults>>
        BY DEF RunBegin
    <1>2. own[i] = 0
        BY <1>1, OwnsNone
    <1>3. pc' \in [Instances -> Steps] /\ pc'[i] = "run" /\ \A j \in Instances : j # i => pc'[j] = pc[j]
        BY <1>1, InvParts, GotoIs DEF Steps
    <1>4. /\ source' \in [status: {"idle", "running", "succeeded"}, run: 0..MaxRuns, outputs: 0..MaxRuns]
          /\ source'.status = "running"
        <2>1. source \in [status: {"idle", "running", "succeeded"}, run: 0..MaxRuns, outputs: 0..MaxRuns]
            BY InvParts DEF TypeOK
        <2>2. source.run + 1 \in 0..MaxRuns
            BY <1>1, <2>1, BoundsAssumption
        <2>3. source' = [source EXCEPT !.status = "running", !.run = source.run + 1]
            BY <1>1
        <2> QED  BY <2>1, <2>2, <2>3
    <1>5. \A j \in Instances : pc[j] \notin CopySteps
        BY <1>1, InvParts DEF LockOf
    <1>6. SourceInv'
        BY <1>3, <1>4, <1>5 DEF SourceInv, CopySteps
    <1>7. todo' \in [Instances -> SUBSET Copies] /\ seen' \in [Instances -> {"absent", "staging", "home"}]
          /\ faults' \in 0..MaxFaults
        BY <1>1, InvParts DEF TypeOK
    <1> QED  BY <1>1, <1>2, <1>3, <1>4, <1>6, <1>7, AsideStep

\* Nobody copies a source that is run.
LEMMA RunAlone ==
    ASSUME CopyInv, NEW i \in Instances, pc[i] = "run"
    PROVE  /\ i \in srcLock /\ own[i] = 0
           /\ \A j \in Instances : j # i => pc[j] \notin CopySteps \cup {"run"}
    <1>1. i \in srcLock
        BY InvParts DEF LockOf
    <1> QED  BY <1>1, CopiesAlone, OwnsNone

LEMMA RunWriteKeeps ==
    ASSUME CopyInv, NEW i \in Instances, RunWrite(i)
    PROVE  CopyInv'
    <1>1. /\ pc[i] = "run" /\ source' = [source EXCEPT !.outputs = source.run]
          /\ UNCHANGED <<disk, srcLock, life, busy, pc, own, todo, seen, faults>>
        BY DEF RunWrite, locks
    <1>2. /\ i \in srcLock /\ own[i] = 0
          /\ \A j \in Instances : j # i => pc[j] \notin CopySteps \cup {"run"}
        BY <1>1, RunAlone
    <1>3. /\ source' \in [status: {"idle", "running", "succeeded"}, run: 0..MaxRuns, outputs: 0..MaxRuns]
          /\ source'.status = source.status
        BY <1>1, InvParts DEF TypeOK
    <1>4. source'.status = "running"
        BY <1>1, <1>3, InvParts DEF SourceInv
    <1>5. SourceInv'
        BY <1>1, <1>2, <1>4 DEF SourceInv, CopySteps
    <1>6. /\ todo' \in [Instances -> SUBSET Copies] /\ seen' \in [Instances -> {"absent", "staging", "home"}]
          /\ faults' \in 0..MaxFaults /\ pc' \in [Instances -> Steps]
          /\ \A j \in Instances : pc'[j] = pc[j]
        BY <1>1, InvParts DEF TypeOK
    <1> QED  BY <1>1, <1>2, <1>3, <1>5, <1>6, AsideStep

LEMMA RunEndKeeps ==
    ASSUME CopyInv, NEW i \in Instances, RunEnd(i)
    PROVE  CopyInv'
    <1>1. /\ pc[i] = "run" /\ Leave(i) /\ UNCHANGED <<disk, todo, seen, faults>>
          /\ source' = [source EXCEPT !.status = IF source.outputs = source.run THEN "succeeded" ELSE "idle"]
        BY DEF RunEnd
    <1>2. /\ i \in srcLock /\ own[i] = 0
          /\ \A j \in Instances : j # i => pc[j] \notin CopySteps \cup {"run"}
        BY <1>1, RunAlone
    <1>3. /\ pc' \in [Instances -> Steps] /\ pc'[i] = "idle" /\ \A j \in Instances : j # i => pc'[j] = pc[j]
          /\ own' = [own EXCEPT ![i] = 0] /\ srcLock' = srcLock \ {i}
          /\ life' \in [Copies -> SUBSET Instances] /\ \A d \in Copies : life'[d] = life[d] \ {i}
          /\ busy' \in [Copies -> SUBSET Instances] /\ \A d \in Copies : busy'[d] = busy[d] \ {i}
        BY <1>1, InvParts, LeaveIs
    <1>4. UNCHANGED <<own, life, busy>>
        <2>1. own' = own
            BY <1>2, <1>3, InvParts DEF TypeOK
        <2>2. ASSUME NEW d \in Copies PROVE life'[d] = life[d] /\ busy'[d] = busy[d]
            <3>1. i \notin life[d] /\ i \notin busy[d]
                BY <1>2, IdleHas
            <3>2. life[d] \ {i} = life[d] /\ busy[d] \ {i} = busy[d]
                BY <3>1
            <3>3. life'[d] = life[d] \ {i} /\ busy'[d] = busy[d] \ {i}
                BY <1>3
            <3> QED  BY <3>2, <3>3
        <2>3. life' = life
            BY <1>3, <2>2, InvParts DEF TypeOK
        <2>4. busy' = busy
            BY <1>3, <2>2, InvParts DEF TypeOK
        <2> QED  BY <2>1, <2>3, <2>4
    <1>5. /\ source' \in [status: {"idle", "running", "succeeded"}, run: 0..MaxRuns, outputs: 0..MaxRuns]
          /\ source'.status = "succeeded" => source'.outputs = source'.run
        BY <1>1, InvParts DEF TypeOK
    <1>6. SourceInv'
        BY <1>2, <1>3, <1>5 DEF SourceInv, CopySteps
    <1>7. todo' \in [Instances -> SUBSET Copies] /\ seen' \in [Instances -> {"absent", "staging", "home"}]
          /\ faults' \in 0..MaxFaults
        BY <1>1, InvParts DEF TypeOK
    <1> QED  BY <1>1, <1>2, <1>3, <1>4, <1>5, <1>6, <1>7, AsideStep

-----------------------------------------------------------------------------
(* Startup *)

LEMMA StartKeeps ==
    ASSUME CopyInv, NEW i \in Instances, Start(i)
    PROVE  CopyInv'
    <1>1. /\ pc[i] = "down" /\ Goto(i, "recover") /\ UNCHANGED <<disk, locks, own, seen, faults>>
          /\ todo' = [todo EXCEPT ![i] = {c \in marked : dir[c] \in {"staging", "home"}}]
          /\ \/ source' = source
             \/ srcLock = {} /\ source' = [source EXCEPT !.status = "idle"]
        BY DEF Start
    <1>2. own[i] = 0 /\ UNCHANGED <<srcLock, life, busy>>
        BY <1>1, OwnsNone DEF locks
    <1>3. pc' \in [Instances -> Steps] /\ pc'[i] = "recover" /\ \A j \in Instances : j # i => pc'[j] = pc[j]
        BY <1>1, InvParts, GotoIs DEF Steps
    <1>4. i \notin srcLock
        BY <1>1, InvParts DEF LockOf, CopySteps
    <1>5. /\ source' \in [status: {"idle", "running", "succeeded"}, run: 0..MaxRuns, outputs: 0..MaxRuns]
          /\ todo' \in [Instances -> SUBSET Copies] /\ seen' \in [Instances -> {"absent", "staging", "home"}]
          /\ faults' \in 0..MaxFaults
        BY <1>1, InvParts DEF TypeOK
    <1>6. SourceInv'
        <2>1. CASE source' = source
            BY <1>1, <1>3, <2>1, InvParts, SourceStays DEF disk
        <2>2. CASE srcLock = {} /\ source' = [source EXCEPT !.status = "idle"]
            <3>1. source'.status = "idle"
                BY <2>2, InvParts DEF TypeOK
            <3>2. \A j \in Instances : pc[j] \notin CopySteps \cup {"run"}
                BY <2>2, InvParts DEF LockOf
            <3> QED  BY <1>3, <3>1, <3>2 DEF SourceInv, CopySteps
        <2> QED  BY <1>1, <2>1, <2>2
    <1> QED  BY <1>1, <1>2, <1>3, <1>4, <1>5, <1>6, AsideStep

LEMMA QuitKeeps ==
    ASSUME CopyInv, NEW i \in Instances, Quit(i)
    PROVE  CopyInv'
    <1>1. /\ pc[i] = "idle" /\ Goto(i, "down")
          /\ UNCHANGED <<source, disk, srcLock, life, busy, own, todo, seen, faults>>
        BY DEF Quit, locks
    <1>2. own[i] = 0 /\ i \notin srcLock
        BY <1>1, OwnsNone, InvParts DEF LockOf, CopySteps
    <1>3. pc' \in [Instances -> Steps] /\ pc'[i] = "down" /\ \A j \in Instances : j # i => pc'[j] = pc[j]
        BY <1>1, InvParts, GotoIs DEF Steps
    <1>4. SourceInv'
        BY <1>1, <1>3, SourceStays DEF disk
    <1>5. /\ source' \in [status: {"idle", "running", "succeeded"}, run: 0..MaxRuns, outputs: 0..MaxRuns]
          /\ todo' \in [Instances -> SUBSET Copies] /\ seen' \in [Instances -> {"absent", "staging", "home"}]
          /\ faults' \in 0..MaxFaults
        BY <1>1, InvParts DEF TypeOK
    <1> QED  BY <1>1, <1>2, <1>3, <1>4, <1>5, AsideStep

LEMMA InspectKeeps ==
    ASSUME CopyInv, NEW i \in Instances, NEW c \in Copies, Inspect(i, c)
    PROVE  CopyInv'
    <1>1. pc[i] = "recover" /\ UNCHANGED <<source, disk, srcLock, life, busy, faults>>
        BY DEF Inspect, locks
    <1>2. own[i] = 0 /\ i \notin srcLock
        BY <1>1, OwnsNone, InvParts DEF LockOf, CopySteps
    <1>3. CASE /\ c \in marked /\ dir[c] \in {"staging", "home"} /\ UNCHANGED todo
               /\ own' = [own EXCEPT ![i] = c] /\ seen' = [seen EXCEPT ![i] = dir[c]] /\ Goto(i, "settle")
        <2>1. UNCHANGED <<meta, dir, marked, holds, clone, hurt>>
            BY <1>1 DEF disk
        <2>2. pc' \in [Instances -> Steps] /\ pc'[i] = "settle" /\ \A j \in Instances : j # i => pc'[j] = pc[j]
            BY <1>3, InvParts, GotoIs DEF Steps
        <2>3. c \in 0..MaxCopies
            BY BoundsAssumption DEF Copies
        <2>4. own' \in [Instances -> 0..MaxCopies] /\ own'[i] = c /\ \A j \in Instances : j # i => own'[j] = own[j]
            BY <1>3, <2>3, InvParts DEF TypeOK
        <2>5. TypeOK'
            <3>1. seen' \in [Instances -> {"absent", "staging", "home"}]
                BY <1>3, InvParts DEF TypeOK
            <3> QED  BY <1>1, <1>3, <2>1, <2>2, <2>4, <3>1, InvParts DEF TypeOK
        <2>6. clone[c].mode # "none" /\ c # 0
            BY <1>3, CopiesAre, InvParts DEF Fresh
        <2>7. LockOf(i)'
            BY <1>1, <1>2, <2>2, <2>4, <2>6, IdleHas DEF LockOf, CopySteps, UserSteps
        <2>8. LockInv'
            <3>1. \A d \in Copies :
                      clone'[d].mode = "none" =>
                          /\ clone[d].mode = "none" /\ meta'[d] = meta[d] /\ dir'[d] = dir[d]
                          /\ d \in marked' => d \in marked
                          /\ own'[i] # d
                BY <2>1, <2>4, <2>6
            <3> QED  BY <1>1, <2>2, <2>4, <2>7, <3>1, InvParts, LockStep
        <2>9. SourceInv'
            BY <1>1, <2>1, <2>2, <2>4, SourceStays
        <2>10. StepInv(i)'
            BY <2>2 DEF StepInv
        <2> QED  BY <1>1, <1>2, <2>2, <2>4, <2>5, <2>8, <2>9, <2>10, StillStep
    <1>4. CASE todo' = [todo EXCEPT ![i] = @ \ {c}] /\ UNCHANGED <<own, seen, pc>>
        <2>1. /\ source' \in [status: {"idle", "running", "succeeded"}, run: 0..MaxRuns, outputs: 0..MaxRuns]
              /\ todo' \in [Instances -> SUBSET Copies] /\ seen' \in [Instances -> {"absent", "staging", "home"}]
              /\ faults' \in 0..MaxFaults /\ pc' \in [Instances -> Steps]
              /\ \A j \in Instances : pc'[j] = pc[j]
            BY <1>1, <1>4, InvParts DEF TypeOK
        <2>2. SourceInv'
            BY <1>1, <1>4, SourceStays DEF disk
        <2> QED  BY <1>1, <1>2, <1>4, <2>1, <2>2, AsideStep
    <1> QED  BY <1>3, <1>4 DEF Inspect

\* Recovery is done with copy c.
LEMMA SettleStep ==
    ASSUME CopyInv, NEW i \in Instances, NEW c \in Copies, c = own[i], pc[i] = "settle",
           Proceed(i) \/ Abort(i), UNCHANGED <<source, meta, clone, locks>>,
           dir' \in [Copies -> {"absent", "staging", "home", "trash"}],
           marked' \subseteq Copies, holds' \in [Copies -> Holdings], hurt' \subseteq Copies,
           faults' \in 0..MaxFaults,
           \A d \in Copies : d # c =>
               /\ dir'[d] = dir[d] /\ holds'[d] = holds[d]
               /\ d \in marked' <=> d \in marked
               /\ d \in hurt' <=> d \in hurt,
           \A j \in Instances :
               j # i /\ own[j] = c /\ pc[j] \in CopySteps \cup UserSteps => StepInv(j)',
           c \notin hurt' => PlaceInv(c)'
    PROVE  CopyInv'
    <1>1. /\ pc' \in [Instances -> Steps] /\ pc'[i] \in {"idle", "down", "recover"}
          /\ \A j \in Instances : j # i => pc'[j] = pc[j]
        BY InvParts, GotoIs DEF Proceed, Abort, Steps
    <1>2. own' = [own EXCEPT ![i] = 0] /\ UNCHANGED <<srcLock, life, busy>>
        BY DEF Proceed, Abort, locks
    <1>3. /\ todo' \in [Instances -> SUBSET Copies] /\ seen' \in [Instances -> {"absent", "staging", "home"}]
          /\ life' \in [Copies -> SUBSET Instances] /\ busy' \in [Copies -> SUBSET Instances]
          /\ meta' \in [Copies -> {"absent", "live", "trash"}]
        <2>1. /\ todo' \in [Instances -> SUBSET Copies]
              /\ seen' \in [Instances -> {"absent", "staging", "home"}]
            <3>1. /\ todo' \in {[todo EXCEPT ![i] = {}], [todo EXCEPT ![i] = todo[i] \ {own[i]}]}
                  /\ seen' = [seen EXCEPT ![i] = "absent"]
                BY DEF Proceed, Abort
            <3> QED  BY <3>1, InvParts DEF TypeOK
        <2> QED  BY <1>2, <2>1, InvParts DEF TypeOK
    <1>4. i \notin srcLock /\ \A d \in Copies : i \notin life[d] /\ i \notin busy[d]
        BY InvParts DEF LockOf, CopySteps, UserSteps
    <1>5. srcLock' = srcLock \ {i}
        BY <1>2, <1>4
    <1>6. ASSUME NEW d \in Copies PROVE life'[d] = life[d] \ {i} /\ busy'[d] = busy[d] \ {i}
        <2>1. life[d] \ {i} = life[d] /\ busy[d] \ {i} = busy[d]
            BY <1>4
        <2> QED  BY <1>2, <2>1
    <1>7. \A d \in Copies : life'[d] = life[d] \ {i}
        BY <1>6
    <1>8. \A d \in Copies : busy'[d] = busy[d] \ {i}
        BY <1>6
    <1>9. \A d \in Copies : d # c =>
              /\ meta'[d] = meta[d] /\ dir'[d] = dir[d] /\ holds'[d] = holds[d]
              /\ d \in marked' <=> d \in marked
              /\ d \in hurt' <=> d \in hurt
        OBVIOUS
    <1>10. UNCHANGED <<source, clone>>
        OBVIOUS
    <1>11. own' = [own EXCEPT ![i] = 0]
        BY <1>2
    <1> QED  BY ZenonT(90), <1>1, <1>3, <1>5, <1>7, <1>8, <1>9, <1>10, <1>11, LeaveStep

\* It found the copy locked, or left it as it was.
LEMMA SettleStill ==
    ASSUME CopyInv, NEW i \in Instances, NEW c \in Copies, c = own[i], pc[i] = "settle",
           Proceed(i) \/ Abort(i), UNCHANGED <<source, disk, locks>>, faults' \in 0..MaxFaults
    PROVE  CopyInv'
    <1>1. UNCHANGED <<meta, dir, marked, holds, clone, hurt, srcLock, life, busy>>
        BY DEF disk, locks
    <1>2. \A j \in Instances : j # i => pc'[j] = pc[j] /\ own'[j] = own[j]
        BY InvParts DEF Proceed, Abort, Goto, TypeOK
    <1>3. \A j \in Instances : j # i /\ own[j] = c /\ pc[j] \in CopySteps \cup UserSteps => StepInv(j)'
        BY <1>1, <1>2, InvParts DEF StepInv, Whole
    <1>4. c \notin hurt' => PlaceInv(c)'
        <2>1. ASSUME c \notin hurt PROVE PlaceInv(c)'
            <3>1. PlaceInv(c)
                BY <2>1, InvParts
            <3>2. i \notin life[c]
                BY InvParts DEF LockOf, CopySteps
            <3>3. \A j \in life[c] : j \in Instances /\ pc'[j] = pc[j]
                BY <1>2, <3>2, InvParts DEF TypeOK
            <3> QED  BY <1>1, <3>1, <3>3 DEF PlaceInv, Whole
        <2> QED  BY <1>1, <2>1
    <1>5. /\ dir' \in [Copies -> {"absent", "staging", "home", "trash"}]
          /\ marked' \subseteq Copies /\ holds' \in [Copies -> Holdings] /\ hurt' \subseteq Copies
          /\ UNCHANGED <<source, meta, clone, locks>>
        BY <1>1, InvParts DEF TypeOK
    <1>6. \A d \in Copies : d # c =>
              /\ dir'[d] = dir[d] /\ holds'[d] = holds[d]
              /\ d \in marked' <=> d \in marked
              /\ d \in hurt' <=> d \in hurt
        BY <1>1
    <1> QED  BY <1>3, <1>4, <1>5, <1>6, SettleStep

\* It removed the copy or finished it: nobody duplicates it, and its users do
\* not rely on what is in its directory.
LEMMA SettleAct ==
    ASSUME CopyInv, NEW i \in Instances, NEW c \in Copies, c = own[i], pc[i] = "settle", life[c] = {},
           Proceed(i) \/ Abort(i), UNCHANGED <<source, meta, clone, locks>>,
           dir' \in [Copies -> {"absent", "staging", "home", "trash"}],
           marked' \subseteq Copies, holds' \in [Copies -> Holdings], hurt' \in {hurt, hurt \cup {c}},
           faults' \in 0..MaxFaults,
           \A d \in Copies : d # c =>
               dir'[d] = dir[d] /\ holds'[d] = holds[d] /\ (d \in marked' <=> d \in marked),
           c \notin hurt' => PlaceInv(c)'
    PROVE  CopyInv'
    <1>1. \A j \in Instances : j # i => pc'[j] = pc[j] /\ own'[j] = own[j]
        BY InvParts DEF Proceed, Abort, Goto, TypeOK
    <1>2. ASSUME NEW j \in Instances, j # i, own[j] = c, pc[j] \in CopySteps \cup UserSteps
          PROVE  StepInv(j)'
        <2>1. pc[j] \in UserSteps
            BY <1>2, InvParts DEF LockOf
        <2>2. StepInv(j) /\ own'[j] = c /\ pc'[j] = pc[j] /\ meta'[c] = meta[c] /\ (c \in hurt => c \in hurt')
            BY <1>1, <1>2, InvParts
        <2> QED  BY <1>2, <2>1, <2>2 DEF StepInv, UserSteps
    <1>3. \A j \in Instances : j # i /\ own[j] = c /\ pc[j] \in CopySteps \cup UserSteps => StepInv(j)'
        BY <1>2
    <1>4. hurt' \subseteq Copies
        BY InvParts DEF TypeOK
    <1>5. \A d \in Copies : d # c =>
              /\ dir'[d] = dir[d] /\ holds'[d] = holds[d]
              /\ d \in marked' <=> d \in marked
              /\ d \in hurt' <=> d \in hurt
        OBVIOUS
    <1> QED  BY ZenonT(60), <1>3, <1>4, <1>5, SettleStep

LEMMA SettleKeeps ==
    ASSUME CopyInv, NEW i \in Instances, Settle(i)
    PROVE  CopyInv'
    <1>1. pc[i] = "settle" /\ UNCHANGED <<source, meta, clone, locks>>
        BY DEF Settle
    <1>2. PICK c \in Copies : c = own[i]
        BY <1>1, OwnIs
    <1>3. CASE (Proceed(i) \/ Abort(i)) /\ UNCHANGED <<dir, marked, holds, hurt>> /\ (Fault \/ UNCHANGED faults)
        <2>1. UNCHANGED <<source, disk, locks>> /\ faults' \in 0..MaxFaults
            BY <1>1, <1>3, InvParts, FaultIs DEF disk
        <2> QED  BY <1>1, <1>2, <1>3, <2>1, SettleStill
    <1>4. CASE /\ life[c] = {} /\ meta[c] = "live" /\ marked' = marked \ {c}
               /\ Proceed(i) /\ UNCHANGED <<dir, holds, hurt, faults>>
        <2>1. /\ dir' \in [Copies -> {"absent", "staging", "home", "trash"}]
              /\ marked' \subseteq Copies /\ holds' \in [Copies -> Holdings] /\ hurt' \in {hurt, hurt \cup {c}}
              /\ faults' \in 0..MaxFaults
            BY <1>4, InvParts DEF TypeOK
        <2>2. c \notin hurt' => PlaceInv(c)'
            <3>1. UNCHANGED <<meta, dir, holds, clone, hurt, life, busy>>
                BY <1>1, <1>4 DEF locks
            <3>2. c \notin hurt => PlaceInv(c)
                BY InvParts
            <3> QED  BY <1>4, <3>1, <3>2 DEF PlaceInv, Whole
        <2>3. \A d \in Copies : d # c =>
                  dir'[d] = dir[d] /\ holds'[d] = holds[d] /\ (d \in marked' <=> d \in marked)
            BY <1>4
        <2> QED  BY <1>1, <1>2, <1>4, <2>1, <2>2, <2>3, SettleAct
    <1>5. CASE /\ life[c] = {} /\ meta[c] # "live" /\ (Removed(c) \/ RemovedInPart(c))
               /\ hurt' \in {hurt, hurt \cup {c}}
               /\ c \notin hurt' => meta[c] # "trash" /\ (Removed(c) \/ c \in marked')
               /\ Proceed(i) \/ Abort(i)
               /\ Fault \/ UNCHANGED faults
        <2>1. /\ dir' \in [Copies -> {"absent", "staging", "home", "trash"}]
              /\ marked' \subseteq Copies /\ holds' \in [Copies -> Holdings]
              /\ dir'[c] = "absent" \/ (RemovedInPart(c) /\ dir' = dir)
              /\ \A d \in Copies : d # c =>
                     dir'[d] = dir[d] /\ holds'[d] = holds[d] /\ (d \in marked' <=> d \in marked)
            BY <1>5, InvParts, RemovalIs
        <2>2. ASSUME c \notin hurt' PROVE PlaceInv(c)'
            <3>1. meta[c] = "absent" /\ c \notin hurt
                <4>1. meta[c] \in {"absent", "live", "trash"}
                    BY InvParts DEF TypeOK
                <4> QED  BY <1>5, <2>2, <4>1
            <3>2. dir[c] # "trash" /\ busy[c] = {}
                BY <3>1, InvParts DEF PlaceInv
            <3>3. dir'[c] # "trash" /\ (dir'[c] = "absent" \/ c \in marked')
                <4>1. CASE Removed(c)
                    BY <4>1, InvParts DEF Removed, TypeOK
                <4>2. CASE ~ Removed(c)
                    BY <1>5, <2>1, <2>2, <3>2, <4>2
                <4> QED  BY <4>1, <4>2
            <3>4. meta'[c] = "absent" /\ busy'[c] = {}
                BY <1>1, <3>1, <3>2 DEF locks
            <3> QED  BY <3>3, <3>4 DEF PlaceInv
        <2>3. faults' \in 0..MaxFaults
            BY <1>5, InvParts, FaultIs
        <2> QED  BY <1>1, <1>2, <1>5, <2>1, <2>2, <2>3, SettleAct
    <1>6. CASE life[c] # {} /\ Proceed(i) /\ UNCHANGED <<dir, marked, holds, hurt, faults>>
        BY <1>3, <1>6
    <1>7. CASE life[c] = {} /\ Judge(i)
        BY <1>2, <1>3, <1>4, <1>5, <1>7 DEF Judge, RemovedInPart
    <1> QED  BY <1>2, <1>6, <1>7 DEF Settle

LEMMA RecoverEndKeeps ==
    ASSUME CopyInv, NEW i \in Instances, RecoverEnd(i)
    PROVE  CopyInv'
    <1>1. /\ pc[i] = "recover" /\ Goto(i, "idle")
          /\ UNCHANGED <<source, meta, marked, holds, clone, hurt, srcLock, life, busy, own, todo, seen, faults>>
        BY DEF RecoverEnd, locks
    <1>2. PICK done \in SUBSET {c \in Copies : meta[c] = "trash" /\ dir[c] = "home" /\ busy[c] = {}} :
              dir' = [c \in Copies |-> IF c \in done THEN "trash" ELSE dir[c]]
        BY DEF RecoverEnd
    <1>3. /\ dir' \in [Copies -> {"absent", "staging", "home", "trash"}]
          /\ \A d \in Copies :
                 dir'[d] = dir[d] \/ (meta[d] = "trash" /\ dir[d] = "home" /\ busy[d] = {} /\ dir'[d] = "trash")
        BY <1>2, InvParts DEF TypeOK
    <1>4. pc' \in [Instances -> Steps] /\ pc'[i] = "idle" /\ \A j \in Instances : j # i => pc'[j] = pc[j]
        BY <1>1, InvParts, GotoIs DEF Steps
    <1>5. TypeOK'
        BY <1>1, <1>3, <1>4, InvParts DEF TypeOK
    <1>6. own[i] = 0 /\ i \notin srcLock
        BY <1>1, OwnsNone, InvParts DEF LockOf, CopySteps
    <1>7. LockOf(i)'
        BY <1>1, <1>4, <1>6, IdleHas, CopiesAre DEF LockOf, CopySteps, UserSteps
    <1>8. LockInv'
        <2>1. \A d \in Copies :
                  clone'[d].mode = "none" =>
                      /\ clone[d].mode = "none" /\ meta'[d] = meta[d] /\ dir'[d] = dir[d]
                      /\ d \in marked' => d \in marked
                      /\ own'[i] # d
            BY <1>1, <1>3, <1>6, CopiesAre, InvParts DEF Fresh
        <2> QED  BY <1>1, <1>4, <1>7, <2>1, InvParts, LockStep
    <1>9. SourceInv'
        BY <1>1, <1>4, SourceStays
    <1>10. ASSUME NEW j \in Instances PROVE StepInv(j)'
        <2>1. CASE pc[j] \in CopySteps \cup UserSteps
            <3>1. PICK c \in Copies : c = own[j]
                BY <2>1, OwnIs
            <3>2. StepInv(j) /\ pc'[j] = pc[j] /\ own'[j] = c
                BY <1>1, <1>4, <2>1, <3>1, InvParts DEF CopySteps, UserSteps
            <3>3. CASE dir'[c] = dir[c]
                BY <1>1, <3>1, <3>2, <3>3 DEF StepInv, Whole
            <3>4. CASE meta[c] = "trash" /\ dir[c] = "home"
                BY <1>1, <3>1, <3>2, <3>4 DEF StepInv, Whole
            <3> QED  BY <1>3, <3>3, <3>4
        <2>2. CASE pc[j] \notin CopySteps \cup UserSteps
            <3>1. pc'[j] \notin CopySteps \cup UserSteps
                BY <1>4, <2>2 DEF CopySteps, UserSteps
            <3> QED  BY <3>1 DEF StepInv, CopySteps, UserSteps
        <2> QED  BY <2>1, <2>2
    <1>11. ASSUME NEW d \in Copies \ hurt' PROVE PlaceInv(d)'
        <2>1. PlaceInv(d)
            BY <1>1, <1>11, InvParts
        <2>2. \A j \in life[d] : j \in Instances /\ (pc[j] = "unlist" => pc'[j] = "unlist")
            BY <1>1, <1>4, InvParts DEF TypeOK
        <2>3. CASE dir'[d] = dir[d]
            BY <1>1, <2>1, <2>2, <2>3 DEF PlaceInv, Whole
        <2>4. CASE meta[d] = "trash" /\ busy[d] = {} /\ dir'[d] = "trash"
            BY <1>1, <2>1, <2>4 DEF PlaceInv, Whole
        <2> QED  BY <1>3, <2>3, <2>4
    <1> QED  BY <1>5, <1>8, <1>9, <1>10, <1>11 DEF CopyInv

-----------------------------------------------------------------------------
(* A process dies *)

LEMMA CrashIs ==
    ASSUME CopyInv, NEW i \in Instances, Crash(i)
    PROVE  /\ pc' \in [Instances -> Steps] /\ pc'[i] = "down" /\ \A j \in Instances : j # i => pc'[j] = pc[j]
           /\ own' = [own EXCEPT ![i] = 0] /\ srcLock' = srcLock \ {i}
           /\ life' \in [Copies -> SUBSET Instances] /\ \A d \in Copies : life'[d] = life[d] \ {i}
           /\ busy' \in [Copies -> SUBSET Instances] /\ \A d \in Copies : busy'[d] = busy[d] \ {i}
           /\ todo' \in [Instances -> SUBSET Copies] /\ seen' \in [Instances -> {"absent", "staging", "home"}]
           /\ faults' \in 0..MaxFaults
           /\ UNCHANGED <<source, meta, dir, marked, holds, clone>>
    <1>1. /\ Goto(i, "down") /\ Fault
          /\ own' = [own EXCEPT ![i] = 0] /\ srcLock' = srcLock \ {i}
          /\ todo' = [todo EXCEPT ![i] = {}] /\ seen' = [seen EXCEPT ![i] = "absent"]
          /\ life' = [c \in Copies |-> life[c] \ {i}] /\ busy' = [c \in Copies |-> busy[c] \ {i}]
          /\ UNCHANGED <<source, meta, dir, marked, holds, clone>>
        BY DEF Crash
    <1>2. pc' \in [Instances -> Steps] /\ pc'[i] = "down" /\ \A j \in Instances : j # i => pc'[j] = pc[j]
        BY <1>1, InvParts, GotoIs DEF Steps
    <1>3. faults' \in 0..MaxFaults
        BY <1>1, InvParts, FaultIs
    <1>4. /\ life' \in [Copies -> SUBSET Instances] /\ \A d \in Copies : life'[d] = life[d] \ {i}
          /\ busy' \in [Copies -> SUBSET Instances] /\ \A d \in Copies : busy'[d] = busy[d] \ {i}
        BY <1>1, InvParts DEF TypeOK
    <1>5. todo' \in [Instances -> SUBSET Copies] /\ seen' \in [Instances -> {"absent", "staging", "home"}]
        BY <1>1, InvParts DEF TypeOK
    <1> QED  BY <1>1, <1>2, <1>3, <1>4, <1>5

\* One that worked on no copy.
LEMMA CrashAside ==
    ASSUME CopyInv, NEW i \in Instances, Crash(i), own[i] = 0
    PROVE  CopyInv'
    <1>1. /\ pc' \in [Instances -> Steps] /\ pc'[i] = "down" /\ \A j \in Instances : j # i => pc'[j] = pc[j]
          /\ own' = [own EXCEPT ![i] = 0] /\ srcLock' = srcLock \ {i}
          /\ life' \in [Copies -> SUBSET Instances] /\ \A d \in Copies : life'[d] = life[d] \ {i}
          /\ busy' \in [Copies -> SUBSET Instances] /\ \A d \in Copies : busy'[d] = busy[d] \ {i}
          /\ todo' \in [Instances -> SUBSET Copies] /\ seen' \in [Instances -> {"absent", "staging", "home"}]
          /\ faults' \in 0..MaxFaults
          /\ UNCHANGED <<source, meta, dir, marked, holds, clone>>
        BY CrashIs
    <1>2. pc[i] \notin CopySteps
        BY InvParts DEF LockOf
    <1>3. hurt' = hurt
        BY <1>2 DEF Crash, CopySteps
    <1>4. own' = own
        BY <1>1, InvParts DEF TypeOK
    <1>5. life' = life /\ busy' = busy
        <2>1. ASSUME NEW d \in Copies PROVE life'[d] = life[d] /\ busy'[d] = busy[d]
            <3>1. i \notin life[d] /\ i \notin busy[d]
                BY IdleHas
            <3>2. life[d] \ {i} = life[d] /\ busy[d] \ {i} = busy[d]
                BY <3>1
            <3>3. life'[d] = life[d] \ {i} /\ busy'[d] = busy[d] \ {i}
                BY <1>1
            <3> QED  BY <3>2, <3>3
        <2>2. life' = life
            BY <1>1, <2>1, InvParts DEF TypeOK
        <2>3. busy' = busy
            BY <1>1, <2>1, InvParts DEF TypeOK
        <2> QED  BY <2>2, <2>3
    <1>6. SourceInv'
        BY <1>1, <1>4, SourceStays
    <1>7. UNCHANGED <<disk, life, busy, own>>
        BY <1>1, <1>3, <1>4, <1>5 DEF disk
    <1>8. source' \in [status: {"idle", "running", "succeeded"}, run: 0..MaxRuns, outputs: 0..MaxRuns]
        BY <1>1, InvParts DEF TypeOK
    <1>9. i \notin srcLock'
        BY <1>1
    <1> QED  BY <1>1, <1>6, <1>7, <1>8, <1>9, AsideStep

\* What a duplication leaves without its document is marked, or nobody will
\* recognise it.
LEMMA CrashLeaves ==
    ASSUME CopyInv, NEW i \in Instances, NEW c \in Copies, c = own[i], Crash(i), pc[i] \in CopySteps,
           c \notin hurt', c \notin hurt, meta[c] = "absent", dir[c] # "trash"
    PROVE  dir[c] = "absent" \/ c \in marked
    <1>1. /\ ~ (pc[i] \in {"mark", "fail"} /\ dir[c] = "staging" /\ c \notin marked)
          /\ dir[c] \in {"absent", "staging", "home", "trash"} /\ StepInv(i)
        BY InvParts DEF Crash, TypeOK
    <1> QED  BY <1>1 DEF StepInv, CopySteps

LEMMA CrashKeeps ==
    ASSUME CopyInv, NEW i \in Instances, Crash(i)
    PROVE  CopyInv'
    <1>1. /\ pc' \in [Instances -> Steps] /\ pc'[i] = "down" /\ \A j \in Instances : j # i => pc'[j] = pc[j]
          /\ own' = [own EXCEPT ![i] = 0] /\ srcLock' = srcLock \ {i}
          /\ life' \in [Copies -> SUBSET Instances] /\ \A d \in Copies : life'[d] = life[d] \ {i}
          /\ busy' \in [Copies -> SUBSET Instances] /\ \A d \in Copies : busy'[d] = busy[d] \ {i}
          /\ todo' \in [Instances -> SUBSET Copies] /\ seen' \in [Instances -> {"absent", "staging", "home"}]
          /\ faults' \in 0..MaxFaults
          /\ UNCHANGED <<source, meta, dir, marked, holds, clone>>
        BY CrashIs
    <1>2. CASE own[i] # 0
        <2>1. PICK c \in Copies : c = own[i]
            BY <1>2, CopiesAre, InvParts DEF TypeOK
        <2>2. hurt' \in {hurt, hurt \cup {c}} /\ (pc[i] = "unlist" /\ meta[c] = "live" => c \in hurt')
            BY <2>1 DEF Crash
        <2>3. hurt' \subseteq Copies /\ (\A d \in Copies : d # c => (d \in hurt' <=> d \in hurt)) /\ (c \in hurt => c \in hurt')
            BY <2>2, InvParts DEF TypeOK
        <2>4. ASSUME NEW j \in Instances, j # i, own[j] = c, pc[j] \in CopySteps \cup UserSteps
              PROVE  StepInv(j)'
            <3>1. own'[j] = c /\ pc'[j] = pc[j] /\ StepInv(j)
                BY <1>1, <2>4, InvParts DEF TypeOK
            <3>2. busy[c] = {} => busy'[c] = {}
                BY <1>1
            <3> QED  BY <1>1, <2>3, <2>4, <3>1, <3>2 DEF StepInv, Whole
        <2>5. ASSUME c \notin hurt' PROVE PlaceInv(c)'
            <3>1. PlaceInv(c) /\ c \notin hurt
                BY <2>3, <2>5, InvParts
            <3>2. busy'[c] # {} => busy[c] # {}
                BY <1>1
            <3>3. Whole(c) => Whole(c)'
                BY <1>1 DEF Whole
            <3>4. \A j \in life[c] : j # i => j \in life'[c] /\ pc'[j] = pc[j]
                BY <1>1, InvParts DEF TypeOK
            <3>5. meta[c] = "live" /\ dir[c] = "absent" => pc[i] # "unlist"
                BY <2>2, <2>5
            <3>6. meta[c] = "absent" /\ life'[c] = {} => dir[c] = "absent" \/ c \in marked
                <4>1. CASE pc[i] \in CopySteps
                    BY <2>1, <2>5, <3>1, <4>1, CrashLeaves DEF PlaceInv
                <4>2. CASE pc[i] \notin CopySteps
                    <5>1. i \notin life[c]
                        BY <4>2, InvParts DEF LockOf
                    <5>2. life'[c] = {} => life[c] = {}
                        BY <3>4, <5>1
                    <5> QED  BY <3>1, <5>2 DEF PlaceInv
                <4> QED  BY <4>1, <4>2
            <3>7. meta[c] = "live" => PlaceInv(c)'
                BY <1>1, <3>1, <3>2, <3>3, <3>4, <3>5 DEF PlaceInv
            <3>8. meta[c] # "live" => PlaceInv(c)'
                BY <1>1, <3>1, <3>2, <3>3, <3>6 DEF PlaceInv
            <3> QED  BY <3>7, <3>8
        <2>6. pc'[i] \in {"idle", "down", "recover"} /\ own' = [own EXCEPT ![i] = 0] /\ UNCHANGED <<source, clone>>
            BY <1>1
        <2>7. /\ meta' \in [Copies -> {"absent", "live", "trash"}]
              /\ dir' \in [Copies -> {"absent", "staging", "home", "trash"}]
              /\ marked' \subseteq Copies /\ holds' \in [Copies -> Holdings]
            BY <1>1, InvParts DEF TypeOK
        <2>8. \A d \in Copies : d # c =>
                  /\ meta'[d] = meta[d] /\ dir'[d] = dir[d] /\ holds'[d] = holds[d]
                  /\ d \in marked' <=> d \in marked
                  /\ d \in hurt' <=> d \in hurt
            BY <1>1, <2>3
        <2>9. \A j \in Instances : j # i /\ own[j] = c /\ pc[j] \in CopySteps \cup UserSteps => StepInv(j)'
            BY <2>4
        <2>10. /\ pc' \in [Instances -> Steps] /\ \A j \in Instances : j # i => pc'[j] = pc[j]
               /\ life' \in [Copies -> SUBSET Instances] /\ \A d \in Copies : life'[d] = life[d] \ {i}
               /\ busy' \in [Copies -> SUBSET Instances] /\ \A d \in Copies : busy'[d] = busy[d] \ {i}
               /\ srcLock' = srcLock \ {i} /\ hurt' \subseteq Copies /\ faults' \in 0..MaxFaults
               /\ todo' \in [Instances -> SUBSET Copies] /\ seen' \in [Instances -> {"absent", "staging", "home"}]
            BY <1>1, <2>3
        <2>11. c = own[i] /\ (c \notin hurt' => PlaceInv(c)')
            BY <2>1, <2>5
        <2> QED  BY ZenonT(120), <2>6, <2>7, <2>8, <2>9, <2>10, <2>11, LeaveStep
    <1> QED  BY <1>2, CrashAside

-----------------------------------------------------------------------------
(* The theorems *)

LEMMA InitCopyInv == Init => CopyInv
    <1> SUFFICES ASSUME Init PROVE CopyInv
        OBVIOUS
    <1>1. /\ source = [status |-> "idle", run |-> 0, outputs |-> 0] /\ srcLock = {} /\ marked = {} /\ hurt = {}
          /\ faults = 0
          /\ \A c \in Copies :
                 /\ meta[c] = "absent" /\ dir[c] = "absent" /\ life[c] = {} /\ busy[c] = {}
                 /\ clone[c] = [mode |-> "none", run |-> 0]
          /\ \A i \in Instances : pc[i] = "down" /\ own[i] = 0
        BY DEF Init
    <1>2. TypeOK
        <2>1. Nothing \in Holdings /\ 0 \in 0..MaxRuns /\ 0 \in 0..MaxCopies /\ 0 \in 0..MaxFaults
            BY BoundsAssumption DEF Nothing, Holdings
        <2>2. "none" \in Modes /\ "down" \in Steps
            BY DEF Modes, Steps
        <2> QED  BY <1>1, <2>1, <2>2 DEF Init, TypeOK
    <1>3. LockInv
        BY <1>1, CopiesAre DEF LockInv, CopySteps, UserSteps
    <1>4. SourceInv
        BY <1>1 DEF SourceInv
    <1>5. \A i \in Instances : StepInv(i)
        BY <1>1 DEF StepInv
    <1>6. \A c \in Copies : PlaceInv(c)
        BY <1>1 DEF PlaceInv
    <1> QED  BY <1>2, <1>3, <1>4, <1>5, <1>6 DEF CopyInv

LEMMA DuplicateKeeps ==
    ASSUME CopyInv, NEW i \in Instances, Duplicate(i)
    PROVE  CopyInv'
    <1>1. CASE \E c \in Copies, mode \in {"inputs", "complete"} : CopyBegin(i, c, mode)
        BY <1>1, CopyBeginKeeps
    <1>2. CASE CopyStage(i) \/ CopyMark(i) \/ CopyInputs(i) \/ CopyOutputs(i) \/ CopyBrand(i)
        BY <1>2, CopyStageKeeps, CopyMarkKeeps, CopyInputsKeeps, CopyOutputsKeeps, CopyBrandKeeps
    <1>3. CASE CopyPublish(i) \/ CopySave(i) \/ CopyFinish(i) \/ CopyEnsure(i) \/ CopyFail(i) \/ CopyUnlist(i)
        BY <1>3, CopyPublishKeeps, CopySaveKeeps, CopyFinishKeeps, CopyEnsureKeeps, CopyFailKeeps, CopyUnlistKeeps
    <1> QED  BY <1>1, <1>2, <1>3 DEF Duplicate

LEMMA NextKeeps == CopyInv /\ [Next]_vars => CopyInv'
    <1> SUFFICES ASSUME CopyInv, [Next]_vars PROVE CopyInv'
        OBVIOUS
    <1>1. ASSUME NEW i \in Instances, Duplicate(i) PROVE CopyInv'
        BY <1>1, DuplicateKeeps
    <1>2. ASSUME NEW i \in Instances, Others(i) PROVE CopyInv'
        BY <1>2, UseKeeps, DeleteKeeps, RestoreKeeps, UseEndKeeps, DeleteWorkspaceKeeps, RestoreMetadataKeeps,
           RunBeginKeeps, RunWriteKeeps, RunEndKeeps DEF Others
    <1>3. ASSUME NEW i \in Instances, Startup(i) PROVE CopyInv'
        BY <1>3, StartKeeps, InspectKeeps, SettleKeeps, RecoverEndKeeps DEF Startup
    <1>4. ASSUME NEW i \in Instances, Crash(i) \/ Quit(i) PROVE CopyInv'
        BY <1>4, CrashKeeps, QuitKeeps
    <1>5. CASE UNCHANGED vars
        BY <1>5 DEF vars, disk, locks, CopyInv, TypeOK, LockInv, SourceInv, StepInv, PlaceInv, Whole
    <1> QED  BY <1>1, <1>2, <1>3, <1>4, <1>5 DEF Next

\* The locks of the source and of the copies are exclusive, a source is copied
\* as one run left it, and each thread finds the copy as its step expects,
\* whatever else is done and wherever a process dies
\* (project_store.py:471-649, 861-895).
THEOREM CopyCorrect == Spec => []CopyInv
    BY InitCopyInv, NextKeeps, PTL DEF Spec

\* A copy nobody works on is all there or not at all, unless it met one of the
\* known ways of losing it (project_store.py:546-649, 861-895).
THEOREM CopyIsWhole == Spec => []CopyWhole
    <1>1. CopyInv => CopyWhole
        <2> SUFFICES ASSUME CopyInv, NEW c \in Copies \ hurt, life[c] = {}, busy[c] = {}
                     PROVE  CASE meta[c] = "live"   -> dir[c] = "home" /\ Whole(c)
                              [] meta[c] = "trash"  -> dir[c] \in {"home", "trash"} /\ Whole(c)
                              [] meta[c] = "absent" -> dir[c] = "absent" \/ c \in marked
            BY DEF CopyWhole
        <2>1. meta[c] \in {"absent", "live", "trash"} /\ PlaceInv(c)
            BY InvParts DEF TypeOK
        <2> QED  BY <2>1 DEF PlaceInv
    <1> QED  BY <1>1, CopyCorrect, PTL

=============================================================================
