------------------------ MODULE DesktopSessionProofs ------------------------
(***************************************************************************)
(* What TLAPS proves of DesktopSession, for any number of projects, runs,  *)
(* generations and jobs.                                                   *)
(*                                                                         *)
(* The argument: a step belongs to the window's thread, which changes the  *)
(* session and starts runs and jobs, or to a run thread or a job, which    *)
(* changes a document, its own step and the events.  The invariant has     *)
(* three parts, and most steps keep two of them by what they leave alone   *)
(* (ThreadStays, ActiveStays, LoadsStay): ThreadInv ties the documents and *)
(* the controller's tokens to the run threads, ActiveInv the session's     *)
(* active runs to their events, ViewInv the loaders, and what they have    *)
(* reported, to results that are there.                                    *)
(***************************************************************************)
EXTENDS DesktopSession, SequenceTheorems, TLAPS

\* The second half of ViewInv.
Loads ==
    /\ \A j \in jobs : j.kind = "load" => Loadable(j.project, j.run)
    /\ \A k \in DOMAIN events :
        events[k].kind = "viewer_ready" => Loadable(events[k].project, events[k].run)

\* The first half.
Scene ==
    /\ open # None => shelf[open] = "listed"
    /\ view.run # 0 => view.project = open /\ view.generation = generation

LEMMA ViewSplit == ViewInv <=> Scene /\ Loads
    BY DEF ViewInv, Scene, Loads

-----------------------------------------------------------------------------
(* Sequences *)

LEMMA AppendIs ==
    ASSUME NEW S, NEW s \in Seq(S), NEW e \in S, NEW t, t = Append(s, e)
    PROVE  /\ t \in Seq(S)
           /\ \A k \in DOMAIN t : (k \in DOMAIN s /\ t[k] = s[k]) \/ t[k] = e
           /\ \A k \in DOMAIN s : k \in DOMAIN t /\ t[k] = s[k]
           /\ \E k \in DOMAIN t : t[k] = e
    <1>1. /\ t \in Seq(S) /\ Len(t) = Len(s) + 1
          /\ \A k \in 1..Len(s) : t[k] = s[k]
          /\ t[Len(s) + 1] = e
        BY AppendProperties
    <1>2. DOMAIN t = 1..(Len(s) + 1) /\ DOMAIN s = 1..Len(s) /\ Len(s) \in Nat
        BY <1>1
    <1>3. Len(s) + 1 \in DOMAIN t
        BY <1>2
    <1>4. \A k \in DOMAIN t : k \in DOMAIN s \/ k = Len(s) + 1
        BY <1>2
    <1>5. \A k \in DOMAIN s : k \in DOMAIN t
        BY <1>2
    <1> QED  BY <1>1, <1>2, <1>3, <1>4, <1>5

LEMMA TailIs ==
    ASSUME NEW S, NEW s \in Seq(S), s # <<>>, NEW t, t = Tail(s)
    PROVE  /\ t \in Seq(S) /\ Head(s) \in S
           /\ 1 \in DOMAIN s /\ s[1] = Head(s)
           /\ \A k \in DOMAIN t : \E n \in DOMAIN s : t[k] = s[n]
           /\ \A n \in DOMAIN s : s[n] = Head(s) \/ \E k \in DOMAIN t : t[k] = s[n]
    <1>1. /\ t \in Seq(S) /\ Head(s) \in S /\ Len(t) = Len(s) - 1
          /\ \A k \in 1..Len(t) : t[k] = s[k + 1]
        BY HeadTailProperties
    <1>2. /\ DOMAIN t = 1..Len(t) /\ DOMAIN s = 1..Len(s) /\ Len(s) \in Nat /\ Len(s) # 0
          /\ s[1] = Head(s)
        BY <1>1, EmptySeq
    <1>3. ASSUME NEW k \in DOMAIN t PROVE \E n \in DOMAIN s : t[k] = s[n]
        <2>1. k + 1 \in DOMAIN s /\ t[k] = s[k + 1]
            BY <1>1, <1>2
        <2> QED  BY <2>1
    <1>4. ASSUME NEW n \in DOMAIN s PROVE s[n] = Head(s) \/ \E k \in DOMAIN t : t[k] = s[n]
        <2>1. CASE n = 1
            BY <1>2, <2>1
        <2>2. CASE n # 1
            <3>1. n - 1 \in DOMAIN t /\ (n - 1) + 1 = n
                BY <1>1, <1>2, <2>2
            <3>2. t[n - 1] = s[n]
                BY <1>1, <1>2, <3>1
            <3> QED  BY <3>1, <3>2
        <2> QED  BY <2>1, <2>2
    <1> QED  BY <1>1, <1>2, <1>3, <1>4

LEMMA ElementIs ==
    ASSUME NEW S, NEW s \in Seq(S)
    PROVE  \A k \in DOMAIN s : s[k] \in S
    OBVIOUS

-----------------------------------------------------------------------------
(* What stays *)

LEMMA Numbers == Runs \subseteq 0..MaxRuns /\ 0 \notin Runs /\ 0 \in 0..MaxRuns /\ 0 \in Generations
                 /\ (\A r \in 0..MaxRuns : r # 0 => r \in Runs)
    BY BoundsAssumption DEF Runs, Generations

LEMMA EventsAre ==
    ASSUME TypeOK
    PROVE  \A k \in DOMAIN events :
               events[k] \in Events /\ events[k].project \in Projects /\ events[k].run \in 0..MaxRuns
    <1>1. \A n \in DOMAIN events : events[n] \in Events
        BY ElementIs DEF TypeOK
    <1>2. \A e \in Events : e.project \in Projects /\ e.run \in 0..MaxRuns
        BY DEF Events
    <1> QED  BY <1>1, <1>2

LEMMA BlankIs ==
    ASSUME NEW s \in {"none", "preparing", "loading", "shown", "failed"}
    PROVE  Blank(s) \in Views /\ Blank(s).run = 0 /\ Blank(s).project = None
    BY Numbers DEF Blank, Views

LEMMA ThreadStays ==
    ASSUME TypeOK, ThreadInv, UNCHANGED <<doc, thread, registered>>,
           \A p \in Projects : shelf[p] # "absent" => shelf'[p] # "absent"
    PROVE  ThreadInv'
    <1>1. \A r \in Runs : thread[r].project \in Projects \cup {None}
        BY DEF TypeOK, Threads
    <1> QED  BY <1>1 DEF ThreadInv

\* The session forgets active runs at most, and no run reports.
LEMMA ActiveStays ==
    ASSUME TypeOK, ActiveInv, UNCHANGED thread, \A p \in Projects : active'[p] \in {0, active[p]},
           \/ events' = events
           \/ \E e \in Events : Post(e) /\ e.kind \notin RunKinds
    PROVE  ActiveInv'
    <1>1. /\ \A k \in DOMAIN events' :
                 (k \in DOMAIN events /\ events'[k] = events[k]) \/ events'[k].kind \notin RunKinds
          /\ \A k \in DOMAIN events : k \in DOMAIN events' /\ events'[k] = events[k]
        <2>1. CASE events' = events
            BY <2>1
        <2>2. ASSUME NEW e \in Events, events' = Append(events, e), e.kind \notin RunKinds
              PROVE  <1>1!1 /\ <1>1!2
            <3>1. /\ \A k \in DOMAIN events' : (k \in DOMAIN events /\ events'[k] = events[k]) \/ events'[k] = e
                  /\ \A k \in DOMAIN events : k \in DOMAIN events' /\ events'[k] = events[k]
                BY <2>2, AppendIs DEF TypeOK
            <3> QED  BY <2>2, <3>1
        <2> QED  BY <2>1, <2>2 DEF Post
    <1>3. \A k \in DOMAIN events' :
              events'[k].kind \in RunKinds =>
                  events'[k].run # 0 /\ events'[k].project = thread'[events'[k].run].project
        BY <1>1 DEF ActiveInv
    <1>4. ASSUME NEW p \in Projects, NEW r \in Runs, active'[p] = r
          PROVE  /\ thread'[r].project = p
                 /\ \/ thread'[r].at # "over"
                    \/ \E k \in DOMAIN events' :
                           events'[k].run = r /\ events'[k].kind \in {"complete", "run_failed"}
        <2>1. active[p] = r
            BY <1>4, Numbers
        <2> QED  BY <1>1, <2>1 DEF ActiveInv
    <1> QED  BY <1>3, <1>4 DEF ActiveInv

LEMMA LoadableStays ==
    ASSUME NEW p \in Projects, NEW r, Loadable(p, r), shelf[p] # "absent" => shelf'[p] # "absent",
           thread[r].at \in {"recorded", "over"} => thread'[r].at \in {"recorded", "over"},
           doc'[p] = doc[p] \/ doc'[p].run # r \/ doc'[p].status = "succeeded"
    PROVE  Loadable(p, r)'
    BY DEF Loadable

LEMMA LoadsStay ==
    ASSUME TypeOK, Loads,
           \A p \in Projects, r \in Runs : Loadable(p, r) => Loadable(p, r)',
           \A j \in jobs' : j \in jobs \/ j.kind # "load" \/ Loadable(j.project, j.run)',
           \A k \in DOMAIN events' :
               \/ \E n \in DOMAIN events : events'[k] = events[n]
               \/ events'[k].kind # "viewer_ready"
               \/ Loadable(events[k].project, events[k].run)'
    PROVE  Loads'
    <1>1. \A j \in jobs : j.project \in Projects /\ (j.run # 0 => j.run \in Runs)
        BY Numbers DEF TypeOK, Jobs
    <1>2. \A n \in DOMAIN events : events[n].project \in Projects /\ (events[n].run # 0 => events[n].run \in Runs)
        BY EventsAre, Numbers
    <1>3. \A j \in jobs' : j.kind = "load" => Loadable(j.project, j.run)'
        BY <1>1 DEF Loads, Loadable
    <1>4. \A k \in DOMAIN events' :
              events'[k].kind = "viewer_ready" => Loadable(events[k].project, events[k].run)'
        <2> SUFFICES ASSUME NEW k \in DOMAIN events', events'[k].kind = "viewer_ready"
                     PROVE  Loadable(events[k].project, events[k].run)'
            OBVIOUS
        <2>1. ASSUME NEW n \in DOMAIN events, events'[k] = events[n]
              PROVE  Loadable(events[k].project, events[k].run)'
            <3>1. Loadable(events[n].project, events[n].run) /\ events[n].run # 0
                BY <2>1 DEF Loads, Loadable
            <3>2. PICK p \in Projects, r \in Runs : p = events[n].project /\ r = events[n].run
                BY <1>2, <3>1
            <3>3. Loadable(p, r)'
                BY <3>1, <3>2
            <3> QED  BY <2>1, <3>2, <3>3 DEF Loadable
        <2> QED  BY <2>1
    <1> QED  BY <1>3, <1>4 DEF Loads

\* Only the session, the jobs and the shelf change.
LEMMA LoadsStaySame ==
    ASSUME TypeOK, Loads, UNCHANGED <<doc, thread, events>>,
           \A p \in Projects : shelf[p] # "absent" => shelf'[p] # "absent",
           \A j \in jobs' : j \in jobs \/ j.kind # "load" \/ Loadable(j.project, j.run)'
    PROVE  Loads'
    <1>1. \A p \in Projects, r \in Runs : Loadable(p, r) => Loadable(p, r)'
        BY LoadableStays
    <1> QED  BY <1>1, LoadsStay

-----------------------------------------------------------------------------
(* What the slots do *)

\* A load that is started is of a result that is there.
LEMMA LoadViewStep ==
    ASSUME TypeOK, ThreadInv, NEW p \in Projects \cup {None}, NEW g \in Generations, LoadView(p, g),
           UNCHANGED <<doc, thread>>, p # None => shelf'[p] # "absent"
    PROVE  /\ view' \in Views /\ view'.run = 0 /\ view'.project = None /\ jobs' \subseteq Jobs
           /\ \A j \in jobs' : j \in jobs \/ j.kind # "load" \/ Loadable(j.project, j.run)'
    <1>1. CASE /\ p # None /\ Succeeded(p) /\ view' = Blank("loading")
               /\ jobs' = jobs \cup {[kind |-> "load", project |-> p, run |-> doc[p].run, generation |-> g]}
        <2>1. PICK r \in Runs : r = doc[p].run /\ p \in Projects /\ doc[p].status = "succeeded"
            BY <1>1, Numbers DEF TypeOK, Succeeded, Documents
        <2>2. thread[r].at \in {"recorded", "over"}
            BY <2>1 DEF ThreadInv
        <2>3. Loadable(p, r)'
            BY <1>1, <2>1, <2>2, Numbers DEF Loadable
        <2> DEFINE n == [kind |-> "load", project |-> p, run |-> r, generation |-> g]
        <2>4. n \in Jobs /\ n.project = p /\ n.run = r
            BY <2>1, Numbers DEF Jobs
        <2>5. jobs' = jobs \cup {n}
            BY <1>1, <2>1
        <2> HIDE DEF n
        <2>6. Loadable(n.project, n.run)'
            BY <2>3, <2>4
        <2>7. \A j \in jobs' : j \in jobs \/ j.kind # "load" \/ Loadable(j.project, j.run)'
            BY <2>5, <2>6
        <2> QED  BY <1>1, <2>4, <2>5, <2>7, BlankIs DEF TypeOK
    <1>2. CASE UNCHANGED jobs /\ (view' = Blank("failed") \/ view' = Blank("none"))
        BY <1>2, BlankIs DEF TypeOK
    <1> QED  BY <1>1, <1>2 DEF LoadView

\* The documents and the threads stay.
LEMMA SessionStep ==
    ASSUME SessionInv, UNCHANGED <<doc, events, thread, registered>>,
           shelf' \in [Projects -> {"absent", "listed", "archived", "trash"}],
           \A p \in Projects : shelf[p] # "absent" => shelf'[p] # "absent",
           open' \in Projects \cup {None}, generation' \in Generations,
           active' \in [Projects -> 0..MaxRuns], \A p \in Projects : active'[p] \in {0, active[p]},
           cancelled' \subseteq Projects \X Runs, view' \in Views, busy' \in BOOLEAN,
           stopped' \subseteq Runs, jobs' \subseteq Jobs,
           \A j \in jobs' : j \in jobs \/ j.kind # "load" \/ Loadable(j.project, j.run)',
           Scene'
    PROVE  SessionInv'
    <1>1. TypeOK /\ ThreadInv /\ ActiveInv /\ Loads
        BY ViewSplit DEF SessionInv
    <1>2. TypeOK'
        BY <1>1 DEF TypeOK
    <1>3. ThreadInv'
        BY <1>1, ThreadStays
    <1>4. ActiveInv'
        BY <1>1, ActiveStays
    <1>5. Loads'
        BY <1>1, LoadsStaySame
    <1> QED  BY <1>2, <1>3, <1>4, <1>5 DEF SessionInv, ViewInv, Scene, Loads

LEMMA RefreshIs ==
    ASSUME NEW p, Refresh(p)
    PROVE  busy' \in BOOLEAN
    BY DEF Refresh

LEMMA SwitchIs ==
    ASSUME TypeOK, NEW p, Switch(p)
    PROVE  open' = p /\ generation' = generation + 1 /\ generation' \in Generations
    BY DEF TypeOK, Switch, Generations

LEMMA ActivateStep ==
    ASSUME TypeOK, ThreadInv, NEW p \in Projects, NEW load \in BOOLEAN, Activate(p, load),
           UNCHANGED <<doc, thread>>, shelf'[p] = "listed"
    PROVE  /\ open' = p /\ generation' \in Generations /\ busy' \in BOOLEAN
           /\ view' \in Views /\ view'.run = 0 /\ view'.project = None /\ jobs' \subseteq Jobs
           /\ \A j \in jobs' : j \in jobs \/ j.kind # "load" \/ Loadable(j.project, j.run)'
           /\ Scene'
    <1>1. open' = p /\ generation' \in Generations /\ generation + 1 \in Generations
        BY SwitchIs DEF Activate, Switch
    <1>2. busy' \in BOOLEAN
        BY RefreshIs DEF Activate
    <1>3. /\ view' \in Views /\ view'.run = 0 /\ view'.project = None /\ jobs' \subseteq Jobs
          /\ \A j \in jobs' : j \in jobs \/ j.kind # "load" \/ Loadable(j.project, j.run)'
        <2>1. CASE load
            <3>1. LoadView(p, generation + 1)
                BY <2>1 DEF Activate
            <3> QED  BY <1>1, <3>1, LoadViewStep
        <2>2. CASE ~ load
            BY <2>2, BlankIs DEF Activate, TypeOK
        <2> QED  BY <2>1, <2>2
    <1>4. Scene'
        BY <1>1, <1>3 DEF Scene
    <1> QED  BY <1>1, <1>2, <1>3, <1>4

LEMMA InvParts ==
    ASSUME SessionInv
    PROVE  TypeOK /\ ThreadInv /\ ActiveInv /\ Scene /\ Loads
    BY ViewSplit DEF SessionInv

LEMMA selectProjectKeeps ==
    ASSUME SessionInv, NEW p \in Projects, selectProject(p)
    PROVE  SessionInv'
    <1>1. /\ shelf[p] = "listed" /\ Activate(p, TRUE)
          /\ UNCHANGED <<doc, shelf, active, cancelled, events, thread, registered, stopped>>
        BY DEF selectProject, threadVars
    <1>2. shelf'[p] = "listed"
        BY <1>1
    <1>3. /\ open' = p /\ generation' \in Generations /\ busy' \in BOOLEAN
          /\ view' \in Views /\ jobs' \subseteq Jobs
          /\ \A j \in jobs' : j \in jobs \/ j.kind # "load" \/ Loadable(j.project, j.run)'
          /\ Scene'
        BY <1>1, <1>2, InvParts, ActivateStep
    <1> QED  BY <1>1, <1>3, InvParts, SessionStep DEF TypeOK

LEMMA createProjectKeeps ==
    ASSUME SessionInv, NEW p \in Projects, createProject(p)
    PROVE  SessionInv'
    <1>1. /\ shelf' = [shelf EXCEPT ![p] = "listed"] /\ Activate(p, TRUE)
          /\ UNCHANGED <<doc, active, cancelled, events, thread, registered, stopped>>
        BY DEF createProject, threadVars
    <1>2. /\ shelf' \in [Projects -> {"absent", "listed", "archived", "trash"}]
          /\ shelf'[p] = "listed" /\ \A q \in Projects : shelf[q] # "absent" => shelf'[q] # "absent"
        BY <1>1, InvParts DEF TypeOK
    <1>3. /\ open' = p /\ generation' \in Generations /\ busy' \in BOOLEAN
          /\ view' \in Views /\ jobs' \subseteq Jobs
          /\ \A j \in jobs' : j \in jobs \/ j.kind # "load" \/ Loadable(j.project, j.run)'
          /\ Scene'
        BY <1>1, <1>2, InvParts, ActivateStep
    <1> QED  BY <1>1, <1>2, <1>3, InvParts, SessionStep DEF TypeOK

LEMMA loadViewerKeeps ==
    ASSUME SessionInv, loadViewer
    PROVE  SessionInv'
    <1>1. /\ open # None /\ LoadView(open, generation)
          /\ UNCHANGED <<doc, shelf, open, generation, active, cancelled, busy, events>>
          /\ UNCHANGED <<thread, registered, stopped>>
        BY DEF loadViewer, threadVars
    <1>2. open \in Projects \cup {None} /\ generation \in Generations /\ shelf[open] = "listed"
        BY <1>1, InvParts DEF TypeOK, Scene
    <1>3. /\ view' \in Views /\ view'.run = 0 /\ jobs' \subseteq Jobs
          /\ \A j \in jobs' : j \in jobs \/ j.kind # "load" \/ Loadable(j.project, j.run)'
        <2>1. PICK p \in Projects \cup {None}, g \in Generations : p = open /\ g = generation
            BY <1>2
        <2>2. LoadView(p, g) /\ (p # None => shelf'[p] # "absent")
            BY <1>1, <1>2, <2>1
        <2> QED  BY <1>1, <2>2, InvParts, LoadViewStep
    <1>4. Scene'
        BY <1>1, <1>3, InvParts DEF Scene
    <1> QED  BY <1>1, <1>3, <1>4, InvParts, SessionStep DEF TypeOK

LEMMA RequestKeeps ==
    ASSUME SessionInv, NEW p \in Projects, cleanupProject(p) \/ duplicateProject(p)
    PROVE  SessionInv'
    <1>1. PICK kind \in {"cleanup", "copy"} : Request(kind, p)
        BY DEF cleanupProject, duplicateProject
    <1>2. /\ UNCHANGED <<doc, shelf, open, generation, active, cancelled, view, busy, events>>
          /\ UNCHANGED <<thread, registered, stopped>>
        BY <1>1 DEF Request, sessionVars, threadVars
    <1> DEFINE n == [kind |-> kind, project |-> p, run |-> 0, generation |-> generation]
    <1>3. n \in Jobs /\ n.kind # "load"
        BY <1>1, InvParts, Numbers DEF Jobs, TypeOK
    <1>4. jobs' = jobs \cup {n}
        BY <1>1 DEF Request
    <1> HIDE DEF n
    <1>5. Scene'
        BY <1>2, InvParts DEF Scene
    <1> QED  BY <1>2, <1>3, <1>4, <1>5, InvParts, SessionStep DEF TypeOK

LEMMA RemoveStep ==
    ASSUME TypeOK, Scene, NEW p \in Projects, RemoveProject(p),
           \A q \in Projects : q # p => shelf'[q] = shelf[q]
    PROVE  /\ open' \in Projects \cup {None} /\ generation' \in Generations /\ view' \in Views
           /\ active' \in [Projects -> 0..MaxRuns] /\ \A q \in Projects : active'[q] \in {0, active[q]}
           /\ cancelled' \subseteq Projects \X Runs
           /\ Scene'
    <1>1. /\ active' \in [Projects -> 0..MaxRuns] /\ \A q \in Projects : active'[q] \in {0, active[q]}
          /\ cancelled' \subseteq Projects \X Runs
        BY Numbers DEF TypeOK, RemoveProject
    <1>2. CASE open = p
        <2>1. Switch(None) /\ view' = Blank("none")
            BY <1>2 DEF RemoveProject
        <2> QED  BY <1>1, <2>1, SwitchIs, BlankIs DEF Scene
    <1>3. CASE open # p
        <2>1. UNCHANGED <<open, generation, view>>
            BY <1>3 DEF RemoveProject
        <2> QED  BY <1>1, <1>3, <2>1 DEF Scene, TypeOK
    <1> QED  BY <1>2, <1>3

LEMMA deleteProjectKeeps ==
    ASSUME SessionInv, NEW p \in Projects, deleteProject(p)
    PROVE  SessionInv'
    <1>1. /\ shelf' = [shelf EXCEPT ![p] = "trash"] /\ RemoveProject(p) /\ busy' \in BOOLEAN
          /\ UNCHANGED <<doc, events, thread, registered, stopped, jobs>>
        BY DEF deleteProject, threadVars
    <1>2. /\ shelf' \in [Projects -> {"absent", "listed", "archived", "trash"}]
          /\ \A q \in Projects : shelf[q] # "absent" => shelf'[q] # "absent"
          /\ \A q \in Projects : q # p => shelf'[q] = shelf[q]
        BY <1>1, InvParts DEF TypeOK
    <1>3. /\ open' \in Projects \cup {None} /\ generation' \in Generations /\ view' \in Views
          /\ active' \in [Projects -> 0..MaxRuns] /\ \A q \in Projects : active'[q] \in {0, active[q]}
          /\ cancelled' \subseteq Projects \X Runs
          /\ Scene'
        BY <1>1, <1>2, InvParts, RemoveStep
    <1> QED  BY <1>1, <1>2, <1>3, InvParts, SessionStep DEF TypeOK

LEMMA setProjectArchivedKeeps ==
    ASSUME SessionInv, NEW p \in Projects, NEW archived \in BOOLEAN, setProjectArchived(p, archived)
    PROVE  SessionInv'
    <1>1. /\ busy' \in BOOLEAN /\ UNCHANGED <<doc, events, thread, registered, stopped, jobs>>
          /\ shelf[p] # "absent"
        BY DEF setProjectArchived, threadVars
    <1>2. CASE archived
        <2>1. shelf' = [shelf EXCEPT ![p] = "archived"] /\ RemoveProject(p)
            BY <1>2 DEF setProjectArchived
        <2>2. /\ shelf' \in [Projects -> {"absent", "listed", "archived", "trash"}]
              /\ \A q \in Projects : shelf[q] # "absent" => shelf'[q] # "absent"
              /\ \A q \in Projects : q # p => shelf'[q] = shelf[q]
            BY <2>1, InvParts DEF TypeOK
        <2>3. /\ open' \in Projects \cup {None} /\ generation' \in Generations /\ view' \in Views
              /\ active' \in [Projects -> 0..MaxRuns] /\ \A q \in Projects : active'[q] \in {0, active[q]}
              /\ cancelled' \subseteq Projects \X Runs
              /\ Scene'
            BY <2>1, <2>2, InvParts, RemoveStep
        <2> QED  BY <1>1, <2>2, <2>3, InvParts, SessionStep DEF TypeOK
    <1>3. CASE ~ archived
        <2>1. /\ shelf' = [shelf EXCEPT ![p] = "listed"]
              /\ UNCHANGED <<open, generation, view, active, cancelled>>
            BY <1>3 DEF setProjectArchived
        <2>2. /\ shelf' \in [Projects -> {"absent", "listed", "archived", "trash"}]
              /\ \A q \in Projects : shelf[q] # "absent" => shelf'[q] # "absent"
              /\ \A q \in Projects : shelf[q] = "listed" => shelf'[q] = "listed"
            BY <2>1, InvParts DEF TypeOK
        <2>3. Scene'
            BY <2>1, <2>2, InvParts DEF Scene, TypeOK
        <2> QED  BY <1>1, <2>1, <2>2, <2>3, InvParts, SessionStep DEF TypeOK
    <1> QED  BY <1>2, <1>3

LEMMA restoreProjectKeeps ==
    ASSUME SessionInv, NEW p \in Projects, restoreProject(p)
    PROVE  SessionInv'
    <1>1. /\ shelf[p] = "trash" /\ Refresh(open)
          /\ UNCHANGED <<doc, open, generation, active, cancelled, view, events, jobs>>
          /\ UNCHANGED <<thread, registered, stopped>>
        BY DEF restoreProject, threadVars
    <1>2. PICK place \in {"listed", "archived"} : shelf' = [shelf EXCEPT ![p] = place]
        BY DEF restoreProject
    <1>3. /\ shelf' \in [Projects -> {"absent", "listed", "archived", "trash"}]
          /\ \A q \in Projects : shelf[q] # "absent" => shelf'[q] # "absent"
          /\ \A q \in Projects : shelf[q] = "listed" => shelf'[q] = "listed"
        BY <1>1, <1>2, InvParts DEF TypeOK
    <1>4. Scene' /\ busy' \in BOOLEAN
        BY <1>1, <1>3, InvParts, RefreshIs DEF Scene, TypeOK
    <1> QED  BY <1>1, <1>3, <1>4, InvParts, SessionStep DEF TypeOK

LEMMA cancelKeeps ==
    ASSUME SessionInv, cancel
    PROVE  SessionInv'
    <1>1. /\ open # None /\ Refresh(open)
          /\ cancelled' = cancelled \cup {<<open, r>> : r \in {active[open]} \ {0}}
          /\ stopped' = stopped \cup ({registered[open]} \ {0})
          /\ UNCHANGED <<doc, shelf, open, generation, active, view, events, thread, registered, jobs>>
        BY DEF cancel
    <1>2. open \in Projects
        BY <1>1, InvParts DEF TypeOK
    <1>3. active[open] \in Runs \cup {0} /\ registered[open] \in Runs \cup {0}
        BY <1>2, InvParts, Numbers DEF TypeOK
    <1>4. cancelled' \subseteq Projects \X Runs /\ stopped' \subseteq Runs
        BY <1>1, <1>2, <1>3, InvParts DEF TypeOK
    <1>5. Scene' /\ busy' \in BOOLEAN
        BY <1>1, InvParts, RefreshIs DEF Scene
    <1> QED  BY <1>1, <1>4, <1>5, InvParts, SessionStep DEF TypeOK

-----------------------------------------------------------------------------
(* Run threads *)

LEMMA ThreadIs ==
    ASSUME TypeOK, NEW r \in Runs
    PROVE  /\ thread[r] \in Threads /\ thread[r].project \in Projects \cup {None}
           /\ thread[r].generation \in Generations /\ thread[r].good \in BOOLEAN
    BY DEF TypeOK, Threads

LEMMA ThreadUpdate ==
    ASSUME TypeOK, NEW r \in Runs, NEW t \in Threads, thread' = [thread EXCEPT ![r] = t]
    PROVE  /\ thread' \in [Runs -> Threads] /\ thread'[r] = t
           /\ \A q \in Runs : q # r => thread'[q] = thread[q]
    BY DEF TypeOK

Steps == {"none", "queued", "registered", "working", "last", "recorded", "over"}

LEMMA AdvanceIs ==
    ASSUME TypeOK, NEW r \in Runs, NEW at \in Steps, Advance(r, at)
    PROVE  /\ thread' \in [Runs -> Threads]
           /\ thread'[r].at = at /\ thread'[r].project = thread[r].project
           /\ thread'[r].generation = thread[r].generation /\ thread'[r].good = thread[r].good
           /\ \A q \in Runs : q # r => thread'[q] = thread[q]
    <1> DEFINE t == [thread[r] EXCEPT !.at = at]
    <1>1. /\ t \in Threads /\ t.at = at /\ t.project = thread[r].project
          /\ t.generation = thread[r].generation /\ t.good = thread[r].good
        BY ThreadIs DEF Threads, Steps
    <1>2. thread' = [thread EXCEPT ![r] = t]
        BY DEF Advance
    <1> HIDE DEF t
    <1> QED  BY <1>1, <1>2, ThreadUpdate

LEMMA ReportIs ==
    ASSUME TypeOK, NEW r \in Runs, thread[r].project \in Projects, NEW kind \in RunKinds, Report(r, kind)
    PROVE  \E e \in Events :
               events' = Append(events, e) /\ e.kind = kind /\ e.project = thread[r].project /\ e.run = r
    <1> DEFINE e == Event(kind, thread[r].project, r, thread[r].generation, thread[r].good)
    <1>1. e \in Events /\ e.kind = kind /\ e.project = thread[r].project /\ e.run = r
        BY ThreadIs, Numbers DEF Event, Events, Kinds, RunKinds
    <1>2. events' = Append(events, e)
        BY DEF Report, Post
    <1> HIDE DEF e
    <1> QED  BY <1>1, <1>2

\* ThreadInv of run r, but for what the documents say; and that.
TokenPart(r) ==
    LET t == thread[r] IN
    /\ t.at = "none" => t.project = None
    /\ t.at \notin {"none", "over"} => t.project # None
    /\ t.project # None => shelf[t.project] # "absent"
    /\ \A p \in Projects :
        registered[p] = r <=>
            t.project = p /\ t.at \in {"registered", "working", "last", "recorded"}

DocPart(r, p) ==
    /\ doc[p] = [status |-> "running", run |-> r] <=>
           thread[r].project = p /\ thread[r].at \in {"working", "last"}
    /\ doc[p].status \in {"succeeded", "ended"} /\ doc[p].run = r =>
           thread[r].at \in {"recorded", "over"}

LEMMA ThreadParts ==
    ThreadInv <=> \A r \in Runs : TokenPart(r) /\ \A p \in Projects : DocPart(r, p)
    BY DEF ThreadInv, TokenPart, DocPart

LEMMA RunningIs ==
    ASSUME NEW r
    PROVE  [status |-> "running", run |-> r].status = "running" /\ [status |-> "running", run |-> r].run = r
    OBVIOUS

\* Run r goes on, and reports when it is over.
LEMMA ActiveAdvance ==
    ASSUME TypeOK, ActiveInv, NEW r \in Runs, active' = active,
           \A q \in Runs : q # r => thread'[q] = thread[q],
           thread'[r].project = thread[r].project,
           \/ events' = events /\ (thread[r].at = "over" \/ thread'[r].at # "over")
           \/ \E e \in Events :
                  /\ events' = Append(events, e) /\ e.project = thread[r].project /\ e.run = r
                  /\ thread'[r].at # "over" \/ e.kind \in {"complete", "run_failed"}
    PROVE  ActiveInv'
    <1>1. CASE events' = events /\ (thread[r].at = "over" \/ thread'[r].at # "over")
        <2>1. \A q \in Runs : thread'[q].project = thread[q].project /\ (thread[q].at # "over" => thread'[q].at # "over")
            BY <1>1
        <2>2. \A k \in DOMAIN events : events[k].run \in 0..MaxRuns
            BY EventsAre
        <2> QED  BY <1>1, <2>1, <2>2, Numbers DEF ActiveInv
    <1>2. ASSUME NEW e \in Events, events' = Append(events, e), e.project = thread[r].project, e.run = r,
                 thread'[r].at # "over" \/ e.kind \in {"complete", "run_failed"}
          PROVE  ActiveInv'
        <2>1. /\ \A k \in DOMAIN events' : (k \in DOMAIN events /\ events'[k] = events[k]) \/ events'[k] = e
              /\ \A k \in DOMAIN events : k \in DOMAIN events' /\ events'[k] = events[k]
              /\ \E k \in DOMAIN events' : events'[k] = e
            BY <1>2, AppendIs DEF TypeOK
        <2>2. \A q \in Runs : thread'[q].project = thread[q].project
            OBVIOUS
        <2>3. \A k \in DOMAIN events : events[k].run \in 0..MaxRuns
            BY EventsAre
        <2>4. ASSUME NEW k \in DOMAIN events', events'[k].kind \in RunKinds
              PROVE  events'[k].run # 0 /\ events'[k].project = thread'[events'[k].run].project
            BY <1>2, <2>1, <2>2, <2>3, <2>4, Numbers DEF ActiveInv
        <2>5. ASSUME NEW p \in Projects, NEW q \in Runs, active'[p] = q
              PROVE  /\ thread'[q].project = p
                     /\ \/ thread'[q].at # "over"
                        \/ \E k \in DOMAIN events' :
                               events'[k].run = q /\ events'[k].kind \in {"complete", "run_failed"}
            <3>1. CASE q = r
                BY <1>2, <2>1, <2>2, <2>5, <3>1 DEF ActiveInv
            <3>2. CASE q # r
                BY <2>1, <2>2, <2>5, <3>2 DEF ActiveInv
            <3> QED  BY <3>1, <3>2
        <2> QED  BY <2>4, <2>5 DEF ActiveInv
    <1> QED  BY <1>1, <1>2

\* Some threads and documents change, and no loader reports.
LEMMA LoadsAdvance ==
    ASSUME TypeOK, Loads, jobs' = jobs,
           \A p \in Projects, r \in Runs : Loadable(p, r) => Loadable(p, r)',
           \/ events' = events
           \/ \E e \in Events : events' = Append(events, e) /\ e.kind # "viewer_ready"
    PROVE  Loads'
    <1>1. \A k \in DOMAIN events' :
              \/ \E n \in DOMAIN events : events'[k] = events[n]
              \/ events'[k].kind # "viewer_ready"
        <2>1. CASE events' = events
            BY <2>1
        <2>2. ASSUME NEW e \in Events, events' = Append(events, e), e.kind # "viewer_ready"
              PROVE  <1>1
            <3>1. \A k \in DOMAIN events' : (k \in DOMAIN events /\ events'[k] = events[k]) \/ events'[k] = e
                BY <2>2, AppendIs DEF TypeOK
            <3> QED  BY <2>2, <3>1
        <2> QED  BY <2>1, <2>2
    <1> QED  BY <1>1, LoadsStay

LEMMA AppendType ==
    ASSUME TypeOK, NEW e \in Events, events' = Append(events, e)
    PROVE  events' \in Seq(Events)
    BY AppendIs DEF TypeOK

\* A run thread makes a step: what is left to show is ThreadInv.
LEMMA RunStep ==
    ASSUME SessionInv, NEW r \in Runs, ThreadInv',
           doc' \in [Projects -> Documents], registered' \in [Projects -> 0..MaxRuns],
           thread' \in [Runs -> Threads], \A q \in Runs : q # r => thread'[q] = thread[q],
           thread'[r].project = thread[r].project,
           thread[r].at \in {"recorded", "over"} => thread'[r].at \in {"recorded", "over"},
           \A p \in Projects :
               doc'[p] = doc[p] \/ (doc'[p].run = r /\ thread[r].at \notin {"recorded", "over"}),
           UNCHANGED <<shelf, sessionVars, stopped, jobs>>,
           \/ events' = events /\ (thread[r].at = "over" \/ thread'[r].at # "over")
           \/ \E e \in Events :
                  /\ events' = Append(events, e) /\ e.project = thread[r].project /\ e.run = r
                  /\ thread'[r].at # "over" \/ e.kind \in {"complete", "run_failed"}
                  /\ e.kind # "viewer_ready"
    PROVE  SessionInv'
    <1>1. UNCHANGED <<shelf, open, generation, active, cancelled, view, busy, stopped, jobs>>
        BY DEF sessionVars
    <1>2. events' \in Seq(Events)
        BY InvParts, AppendType DEF TypeOK
    <1>3. TypeOK'
        BY <1>1, <1>2, InvParts DEF TypeOK
    <1>4. ActiveInv'
        BY <1>1, InvParts, ActiveAdvance
    <1>5. ASSUME NEW p \in Projects, NEW q \in Runs, Loadable(p, q) PROVE Loadable(p, q)'
        BY <1>1, <1>5 DEF Loadable
    <1>6. Loads'
        BY <1>1, <1>5, InvParts, LoadsAdvance
    <1>7. Scene'
        BY <1>1, InvParts DEF Scene
    <1> QED  BY <1>3, <1>4, <1>6, <1>7 DEF SessionInv, ViewInv, Scene, Loads

LEMMA RegisterKeeps ==
    ASSUME SessionInv, NEW r \in Runs, Register(r)
    PROVE  SessionInv'
    <1> DEFINE p == thread[r].project
    <1>1. /\ thread[r].at = "queued" /\ UNCHANGED <<doc, shelf, sessionVars, stopped, jobs>>
          /\ p \in Projects /\ "over" \in Steps /\ "registered" \in Steps /\ "run_failed" \in RunKinds
        BY ThreadIs, InvParts DEF Register, ThreadInv, Steps, RunKinds
    <1>2. CASE Advance(r, "over") /\ Report(r, "run_failed") /\ UNCHANGED registered
        <2>1. /\ thread' \in [Runs -> Threads] /\ thread'[r].at = "over" /\ thread'[r].project = p
              /\ \A q \in Runs : q # r => thread'[q] = thread[q]
            BY <1>1, <1>2, InvParts, AdvanceIs
        <2>2. \E e \in Events :
                  events' = Append(events, e) /\ e.kind = "run_failed" /\ e.project = p /\ e.run = r
            BY <1>1, <1>2, InvParts, ReportIs
        <2>3. ThreadInv'
            BY <1>1, <1>2, <2>1, InvParts DEF ThreadInv
        <2> QED  BY <1>1, <1>2, <2>1, <2>2, <2>3, InvParts, RunStep DEF TypeOK
    <1>3. CASE /\ registered[p] = 0 /\ registered' = [registered EXCEPT ![p] = r]
               /\ Advance(r, "registered") /\ UNCHANGED events
        <2>1. /\ thread' \in [Runs -> Threads] /\ thread'[r].at = "registered" /\ thread'[r].project = p
              /\ \A q \in Runs : q # r => thread'[q] = thread[q]
            BY <1>1, <1>3, InvParts, AdvanceIs
        <2>2. /\ registered' \in [Projects -> 0..MaxRuns] /\ registered'[p] = r
              /\ \A q \in Projects : q # p => registered'[q] = registered[q]
            BY <1>1, <1>3, InvParts, Numbers DEF TypeOK
        <2>3. ThreadInv'
            BY <1>1, <1>3, <2>1, <2>2, InvParts, Numbers DEF ThreadInv
        <2> QED  BY <1>1, <1>3, <2>1, <2>2, <2>3, InvParts, RunStep DEF TypeOK
    <1> QED  BY <1>2, <1>3 DEF Register

LEMMA BeginKeeps ==
    ASSUME SessionInv, NEW r \in Runs, Begin(r)
    PROVE  SessionInv'
    <1> DEFINE p == thread[r].project
    <1>1. /\ thread[r].at = "registered" /\ UNCHANGED <<shelf, sessionVars, stopped, jobs>>
          /\ p \in Projects /\ "over" \in Steps /\ "working" \in Steps
          /\ "run_failed" \in RunKinds /\ "stage" \in RunKinds /\ registered[p] = r
        BY ThreadIs, InvParts DEF Begin, ThreadInv, Steps, RunKinds
    <1>2. CASE /\ registered' = [registered EXCEPT ![p] = 0]
               /\ Advance(r, "over") /\ Report(r, "run_failed")
               /\ UNCHANGED doc
        <2>1. /\ thread' \in [Runs -> Threads] /\ thread'[r].at = "over" /\ thread'[r].project = p
              /\ \A q \in Runs : q # r => thread'[q] = thread[q]
            BY <1>1, <1>2, InvParts, AdvanceIs
        <2>2. \E e \in Events :
                  events' = Append(events, e) /\ e.kind = "run_failed" /\ e.project = p /\ e.run = r
            BY <1>1, <1>2, InvParts, ReportIs
        <2>3. /\ registered' \in [Projects -> 0..MaxRuns] /\ registered'[p] = 0
              /\ \A q \in Projects : q # p => registered'[q] = registered[q]
            BY <1>1, <1>2, InvParts, Numbers DEF TypeOK
        <2>4. ThreadInv'
            BY <1>1, <1>2, <2>1, <2>3, InvParts, Numbers DEF ThreadInv
        <2> QED  BY <1>1, <1>2, <2>1, <2>2, <2>3, <2>4, InvParts, RunStep DEF TypeOK
    <1>3. CASE /\ doc[p].status # "running"
               /\ Store(p, "running", r)
               /\ Advance(r, "working") /\ Report(r, "stage")
               /\ UNCHANGED registered
        <2>1. /\ thread' \in [Runs -> Threads] /\ thread'[r].at = "working" /\ thread'[r].project = p
              /\ \A q \in Runs : q # r => thread'[q] = thread[q]
            BY <1>1, <1>3, InvParts, AdvanceIs
        <2>2. \E e \in Events :
                  events' = Append(events, e) /\ e.kind = "stage" /\ e.project = p /\ e.run = r
            BY <1>1, <1>3, InvParts, ReportIs
        <2>3. /\ doc' \in [Projects -> Documents] /\ doc'[p] = [status |-> "running", run |-> r]
              /\ doc'[p].status = "running" /\ doc'[p].run = r
              /\ \A q \in Projects : q # p => doc'[q] = doc[q]
            <3> DEFINE d == [status |-> "running", run |-> r]
            <3>1. d \in Documents /\ d.status = "running" /\ d.run = r
                BY Numbers DEF Documents
            <3>2. doc' = [doc EXCEPT ![p] = d]
                BY <1>3 DEF Store
            <3> QED  BY <1>1, <3>1, <3>2, InvParts DEF TypeOK
        <2>4. ASSUME NEW q \in Runs, q # r
              PROVE  doc'[p] # [status |-> "running", run |-> q]
            <3>1. [status |-> "running", run |-> q].run = q
                OBVIOUS
            <3> QED  BY <2>3, <2>4, <3>1
        <2>5. \A q \in Runs : ~ (thread[q].project = p /\ thread[q].at \in {"working", "last"})
            <3>1. \A q \in Runs : doc[p] # [status |-> "running", run |-> q]
                <4>1. \A q \in Runs : [status |-> "running", run |-> q].status = "running"
                    OBVIOUS
                <4> QED  BY <1>3, <4>1
            <3> QED  BY <1>1, <3>1, InvParts DEF ThreadInv
        <2>6. ThreadInv'
            <3>1. ASSUME NEW q \in Runs PROVE TokenPart(q)'
                BY <1>1, <1>3, <2>1, InvParts, ThreadParts DEF TokenPart
            <3>2. ASSUME NEW q \in Runs, NEW o \in Projects PROVE DocPart(q, o)'
                <4>1. DocPart(q, o)
                    BY InvParts, ThreadParts
                <4>2. CASE q = r
                    BY <1>1, <2>1, <2>3, <4>1, <4>2 DEF DocPart
                <4>3. CASE q # r /\ o = p
                    BY <2>1, <2>3, <2>4, <2>5, <4>3 DEF DocPart
                <4>4. CASE q # r /\ o # p
                    BY <2>1, <2>3, <4>1, <4>4 DEF DocPart
                <4> QED  BY <4>2, <4>3, <4>4
            <3> QED  BY <3>1, <3>2 DEF ThreadInv, TokenPart, DocPart
        <2> QED  BY <1>1, <1>3, <2>1, <2>2, <2>3, <2>6, InvParts, RunStep DEF TypeOK
    <1> QED  BY <1>2, <1>3 DEF Begin

LEMMA LastLookKeeps ==
    ASSUME SessionInv, NEW r \in Runs, LastLook(r)
    PROVE  SessionInv'
    <1>1. /\ thread[r].at = "working"
          /\ UNCHANGED <<doc, shelf, sessionVars, events, registered, stopped, jobs>>
        BY DEF LastLook
    <1>2. PICK good \in BOOLEAN : thread' = [thread EXCEPT ![r].at = "last", ![r].good = good]
        BY DEF LastLook
    <1> DEFINE t == [thread[r] EXCEPT !.at = "last", !.good = good]
    <1>3. t \in Threads /\ t.at = "last" /\ t.project = thread[r].project
        BY <1>2, InvParts, ThreadIs DEF Threads
    <1>4. thread' = [thread EXCEPT ![r] = t]
        BY <1>2
    <1> HIDE DEF t
    <1>5. /\ thread' \in [Runs -> Threads] /\ thread'[r].at = "last"
          /\ thread'[r].project = thread[r].project
          /\ \A q \in Runs : q # r => thread'[q] = thread[q]
        BY <1>3, <1>4, InvParts, ThreadUpdate
    <1>6. ThreadInv'
        BY <1>1, <1>5, InvParts DEF ThreadInv
    <1> QED  BY <1>1, <1>5, <1>6, InvParts, RunStep DEF TypeOK

LEMMA RecordKeeps ==
    ASSUME SessionInv, NEW r \in Runs, Record(r)
    PROVE  SessionInv'
    <1> DEFINE p == thread[r].project
    <1>1. /\ thread[r].at = "last" /\ UNCHANGED <<shelf, sessionVars, events, registered, stopped, jobs>>
          /\ p \in Projects /\ Advance(r, "recorded") /\ "recorded" \in Steps
          /\ doc[p] = [status |-> "running", run |-> r]
        BY ThreadIs, InvParts DEF Record, ThreadInv, Steps
    <1>2. PICK status \in {"succeeded", "ended"} : Store(p, status, r)
        BY DEF Record
    <1>3. /\ thread' \in [Runs -> Threads] /\ thread'[r].at = "recorded" /\ thread'[r].project = p
          /\ \A q \in Runs : q # r => thread'[q] = thread[q]
        BY <1>1, InvParts, AdvanceIs
    <1>4. /\ doc' \in [Projects -> Documents] /\ doc'[p].status \in {"succeeded", "ended"} /\ doc'[p].run = r
          /\ \A q \in Projects : q # p => doc'[q] = doc[q]
        <2> DEFINE d == [status |-> status, run |-> r]
        <2>1. d \in Documents /\ d.status \in {"succeeded", "ended"} /\ d.run = r
            BY <1>2, Numbers DEF Documents
        <2>2. doc' = [doc EXCEPT ![p] = d]
            BY <1>2 DEF Store
        <2> HIDE DEF d
        <2> QED  BY <1>1, <2>1, <2>2, InvParts DEF TypeOK
    <1>5. \A q \in Runs : doc'[p] # [status |-> "running", run |-> q]
        <2>1. \A q \in Runs : [status |-> "running", run |-> q].status = "running"
            OBVIOUS
        <2> QED  BY <1>4, <2>1
    <1>6. \A q \in Runs : q # r => ~ (thread[q].project = p /\ thread[q].at \in {"working", "last"})
        <2>1. \A q \in Runs : [status |-> "running", run |-> q].run = q
            OBVIOUS
        <2>2. \A q \in Runs : q # r => doc[p] # [status |-> "running", run |-> q]
            BY <1>1, <2>1
        <2> QED  BY <1>1, <2>2, InvParts DEF ThreadInv
    <1>7. ThreadInv'
        <2>1. ASSUME NEW q \in Runs PROVE TokenPart(q)'
            BY <1>1, <1>3, InvParts, ThreadParts DEF TokenPart
        <2>2. ASSUME NEW q \in Runs, NEW o \in Projects PROVE DocPart(q, o)'
            <3>1. DocPart(q, o)
                BY InvParts, ThreadParts
            <3>2. CASE q = r
                BY <1>1, <1>3, <1>4, <1>5, <3>1, <3>2 DEF DocPart
            <3>3. CASE q # r /\ o = p
                BY <1>1, <1>3, <1>4, <1>5, <1>6, <3>3 DEF DocPart
            <3>4. CASE q # r /\ o # p
                BY <1>3, <1>4, <3>1, <3>4 DEF DocPart
            <3> QED  BY <3>2, <3>3, <3>4
        <2> QED  BY <2>1, <2>2 DEF ThreadInv, TokenPart, DocPart
    <1> QED  BY <1>1, <1>3, <1>4, <1>7, InvParts, RunStep DEF TypeOK

LEMMA ReturnKeeps ==
    ASSUME SessionInv, NEW r \in Runs, Return(r)
    PROVE  SessionInv'
    <1> DEFINE p == thread[r].project
    <1>1. /\ thread[r].at = "recorded" /\ UNCHANGED <<doc, shelf, sessionVars, stopped, jobs>>
          /\ p \in Projects /\ Advance(r, "over") /\ Report(r, "complete") /\ "over" \in Steps
          /\ "complete" \in RunKinds /\ registered[p] = r /\ registered' = [registered EXCEPT ![p] = 0]
        BY ThreadIs, InvParts DEF Return, ThreadInv, Steps, RunKinds
    <1>2. /\ thread' \in [Runs -> Threads] /\ thread'[r].at = "over" /\ thread'[r].project = p
          /\ \A q \in Runs : q # r => thread'[q] = thread[q]
        BY <1>1, InvParts, AdvanceIs
    <1>3. \E e \in Events :
              events' = Append(events, e) /\ e.kind = "complete" /\ e.project = p /\ e.run = r
        BY <1>1, InvParts, ReportIs
    <1>4. /\ registered' \in [Projects -> 0..MaxRuns] /\ registered'[p] = 0
          /\ \A q \in Projects : q # p => registered'[q] = registered[q]
        BY <1>1, InvParts, Numbers DEF TypeOK
    <1>5. ThreadInv'
        <2>1. ASSUME NEW q \in Runs PROVE TokenPart(q)'
            <3>1. TokenPart(q)
                BY InvParts, ThreadParts
            <3>2. CASE q = r
                BY <1>1, <1>2, <1>4, <3>1, <3>2, Numbers DEF TokenPart
            <3>3. CASE q # r
                BY <1>1, <1>2, <1>4, <3>1, <3>3, Numbers DEF TokenPart
            <3> QED  BY <3>2, <3>3
        <2>2. ASSUME NEW q \in Runs, NEW o \in Projects PROVE DocPart(q, o)'
            <3>1. DocPart(q, o)
                BY InvParts, ThreadParts
            <3> QED  BY <1>1, <1>2, <3>1 DEF DocPart
        <2> QED  BY <2>1, <2>2 DEF ThreadInv, TokenPart, DocPart
    <1> QED  BY <1>1, <1>2, <1>3, <1>4, <1>5, InvParts, RunStep DEF TypeOK

LEMMA startKeeps ==
    ASSUME SessionInv, start
    PROVE  SessionInv'
    <1>1. /\ open # None /\ Switch(open) /\ view' = Blank("preparing") /\ Refresh(open)
          /\ UNCHANGED <<doc, shelf, events, registered, stopped, jobs>>
        BY DEF start
    <1>2. PICK r \in Runs :
              /\ thread[r].at = "none"
              /\ active' = [active EXCEPT ![open] = r]
              /\ cancelled' = cancelled \ {<<open, r>>}
              /\ thread' = [thread EXCEPT ![r] = [NoThread EXCEPT !.at = "queued", !.project = open,
                                                                   !.generation = generation + 1]]
        BY DEF start
    <1>3. /\ open \in Projects /\ shelf[open] = "listed" /\ open' = open
          /\ generation' = generation + 1 /\ generation' \in Generations /\ busy' \in BOOLEAN
        BY <1>1, InvParts, SwitchIs, RefreshIs DEF TypeOK, Scene
    <1> DEFINE t == [NoThread EXCEPT !.at = "queued", !.project = open, !.generation = generation + 1]
    <1>4. t \in Threads /\ t.at = "queued" /\ t.project = open
        BY <1>3 DEF Threads, NoThread
    <1>5. thread' = [thread EXCEPT ![r] = t]
        BY <1>2
    <1> HIDE DEF t
    <1>6. /\ thread' \in [Runs -> Threads] /\ thread'[r].at = "queued" /\ thread'[r].project = open
          /\ \A q \in Runs : q # r => thread'[q] = thread[q]
        BY <1>2, <1>4, <1>5, InvParts, ThreadUpdate
    <1>7. thread[r].project = None /\ None \notin Projects
        BY <1>2, InvParts, ProjectsAssumption DEF ThreadInv
    <1>8. /\ active' \in [Projects -> 0..MaxRuns] /\ active'[open] = r
          /\ \A p \in Projects : p # open => active'[p] = active[p]
        BY <1>2, <1>3, InvParts, Numbers DEF TypeOK
    <1>9. TypeOK'
        BY <1>1, <1>2, <1>3, <1>6, <1>8, InvParts, BlankIs DEF TypeOK
    <1>10. ThreadInv'
        <2>1. ASSUME NEW q \in Runs PROVE TokenPart(q)'
            <3>1. TokenPart(q) /\ thread[q].project \in Projects \cup {None}
                BY InvParts, ThreadParts, ThreadIs
            <3>2. CASE q = r
                BY <1>1, <1>2, <1>3, <1>6, <1>7, <3>1, <3>2 DEF TokenPart
            <3>3. CASE q # r
                BY <1>1, <1>6, <3>1, <3>3 DEF TokenPart
            <3> QED  BY <3>2, <3>3
        <2>2. ASSUME NEW q \in Runs, NEW o \in Projects PROVE DocPart(q, o)'
            <3>1. DocPart(q, o)
                BY InvParts, ThreadParts
            <3>2. CASE q = r
                BY <1>1, <1>2, <1>6, <1>7, <3>1, <3>2 DEF DocPart
            <3>3. CASE q # r
                BY <1>1, <1>6, <3>1, <3>3 DEF DocPart
            <3> QED  BY <3>2, <3>3
        <2> QED  BY <2>1, <2>2 DEF ThreadInv, TokenPart, DocPart
    <1>11. ActiveInv'
        <2>1. ASSUME NEW k \in DOMAIN events', events'[k].kind \in RunKinds
              PROVE  events'[k].run # 0 /\ events'[k].project = thread'[events'[k].run].project
            <3>1. /\ events[k].run # 0 /\ events[k].project = thread[events[k].run].project
                  /\ events[k].project \in Projects /\ events[k].run \in 0..MaxRuns
                BY <1>1, <2>1, InvParts, EventsAre DEF ActiveInv
            <3>2. events[k].run \in Runs /\ events[k].run # r
                BY <1>7, <3>1, Numbers
            <3> QED  BY <1>1, <1>6, <3>1, <3>2
        <2>2. ASSUME NEW p \in Projects, NEW q \in Runs, active'[p] = q
              PROVE  /\ thread'[q].project = p
                     /\ \/ thread'[q].at # "over"
                        \/ \E k \in DOMAIN events' :
                               events'[k].run = q /\ events'[k].kind \in {"complete", "run_failed"}
            <3>1. CASE p = open
                BY <1>6, <1>8, <2>2, <3>1
            <3>2. CASE p # open
                <4>1. active[p] = q /\ thread[q].project = p /\ q # r
                    BY <1>7, <1>8, <2>2, <3>2, InvParts DEF ActiveInv
                <4> QED  BY <1>1, <1>6, <4>1, InvParts DEF ActiveInv
            <3> QED  BY <3>1, <3>2
        <2> QED  BY <2>1, <2>2 DEF ActiveInv
    <1>12. Loads'
        <2>1. \A p \in Projects, q \in Runs : Loadable(p, q) => Loadable(p, q)'
            BY <1>1, <1>2, <1>6 DEF Loadable
        <2> QED  BY <1>1, <2>1, InvParts, LoadsStay
    <1>13. Scene'
        BY <1>1, <1>3, BlankIs DEF Scene
    <1> QED  BY <1>9, <1>10, <1>11, <1>12, <1>13 DEF SessionInv, ViewInv, Scene, Loads

\* What is idle has no run at work.
LEMMA NobodyAtWork ==
    ASSUME SessionInv, NEW p \in Projects, Idle(p)
    PROVE  \A r \in Runs : /\ ~ (thread[r].project = p /\ thread[r].at \in {"working", "last"})
                           /\ doc[p] # [status |-> "running", run |-> r]
    BY RunningIs DEF Idle, Locked

\* A project that is idle gets another document, of no run or of one that is
\* over.
LEMMA IdleThread ==
    ASSUME SessionInv, NEW p \in Projects, NEW d \in Documents, doc' = [doc EXCEPT ![p] = d],
           d.status # "running",
           \A r \in Runs : ~ (thread[r].project = p /\ thread[r].at \in {"working", "last"}),
           d.run \in Runs => thread[d.run].at \in {"recorded", "over"},
           UNCHANGED <<thread, registered>>,
           \A q \in Projects : shelf[q] # "absent" => shelf'[q] # "absent"
    PROVE  /\ doc' \in [Projects -> Documents] /\ doc'[p] = d
           /\ \A q \in Projects : q # p => doc'[q] = doc[q]
           /\ ThreadInv'
    <1>1. /\ doc' \in [Projects -> Documents] /\ doc'[p] = d
          /\ \A q \in Projects : q # p => doc'[q] = doc[q]
        BY InvParts DEF TypeOK
    <1>2. ASSUME NEW r \in Runs PROVE TokenPart(r)'
        <2>1. TokenPart(r) /\ thread[r].project \in Projects \cup {None}
            BY InvParts, ThreadParts, ThreadIs
        <2> QED  BY <2>1 DEF TokenPart
    <1>3. ASSUME NEW r \in Runs, NEW o \in Projects PROVE DocPart(r, o)'
        <2>1. DocPart(r, o)
            BY InvParts, ThreadParts
        <2>2. CASE o = p
            <3>1. d # [status |-> "running", run |-> r]
                BY RunningIs
            <3>2. ~ (thread'[r].project = p /\ thread'[r].at \in {"working", "last"})
                OBVIOUS
            <3>3. d.run = r => thread'[r].at \in {"recorded", "over"}
                OBVIOUS
            <3> QED  BY <1>1, <2>2, <3>1, <3>2, <3>3 DEF DocPart
        <2>3. CASE o # p
            BY <1>1, <2>1, <2>3 DEF DocPart
        <2> QED  BY <2>2, <2>3
    <1> QED  BY <1>1, <1>2, <1>3 DEF ThreadInv, TokenPart, DocPart

LEMMA ConfigureKeeps ==
    ASSUME SessionInv, NEW p \in Projects, Configure(p)
    PROVE  SessionInv'
    <1>1. /\ Idle(p) /\ busy' = (busy /\ p # open)
          /\ UNCHANGED <<shelf, open, generation, active, cancelled, view, events, jobs>>
          /\ UNCHANGED <<thread, registered, stopped>>
        BY DEF Configure, threadVars
    <1>2. PICK status \in {"idle", doc[p].status} : Store(p, status, 0)
        BY DEF Configure
    <1> DEFINE d == [status |-> status, run |-> 0]
    <1>3. d \in Documents /\ d.status # "running" /\ d.run = 0
        BY <1>1, <1>2, InvParts, Numbers DEF TypeOK, Documents, Idle
    <1>4. doc' = [doc EXCEPT ![p] = d]
        BY <1>2 DEF Store
    <1> HIDE DEF d
    <1>5. /\ doc' \in [Projects -> Documents] /\ doc'[p] = d
          /\ \A q \in Projects : q # p => doc'[q] = doc[q]
          /\ ThreadInv'
        <2>1. \A r \in Runs : ~ (thread[r].project = p /\ thread[r].at \in {"working", "last"})
            BY <1>1, NobodyAtWork
        <2>2. d.run \notin Runs
            BY <1>3, Numbers
        <2> QED  BY <1>1, <1>3, <1>4, <2>1, <2>2, IdleThread
    <1>6. TypeOK'
        BY <1>1, <1>5, InvParts DEF TypeOK
    <1>7. ActiveInv'
        BY <1>1, InvParts, ActiveStays
    <1>8. \A q \in Projects, r \in Runs : Loadable(q, r) => Loadable(q, r)'
        BY <1>1, <1>3, <1>5, Numbers DEF Loadable
    <1>9. Loads'
        BY <1>1, <1>8, InvParts, LoadsStay
    <1>10. Scene'
        BY <1>1, InvParts DEF Scene
    <1> QED  BY <1>5, <1>6, <1>7, <1>9, <1>10 DEF SessionInv, ViewInv, Scene, Loads

-----------------------------------------------------------------------------
(* Loaders, cleanups and copies *)

LEMMA JobIs ==
    ASSUME TypeOK, NEW j \in jobs
    PROVE  j.project \in Projects /\ j.run \in 0..MaxRuns /\ j.generation \in Generations
    BY DEF TypeOK, Jobs

\* A job is done: what is left to show is what it does to documents and shelf.
LEMMA JobStep ==
    ASSUME SessionInv, NEW j \in jobs, jobs' = jobs \ {j},
           UNCHANGED <<sessionVars, threadVars>>,
           doc' \in [Projects -> Documents],
           shelf' \in [Projects -> {"absent", "listed", "archived", "trash"}],
           \A p \in Projects : shelf[p] # "absent" => shelf'[p] = shelf[p],
           \A p \in Projects : shelf[p] # "absent" => doc'[p] = doc[p] \/ doc'[p].run = 0,
           ThreadInv',
           \/ events' = events
           \/ \E e \in Events :
                  /\ Post(e) /\ e.kind \notin RunKinds
                  /\ e.kind # "viewer_ready" \/ Loadable(e.project, e.run)
    PROVE  SessionInv'
    <1>1. UNCHANGED <<open, generation, active, cancelled, view, busy, thread, registered, stopped>>
        BY DEF sessionVars, threadVars
    <1>2. events' \in Seq(Events)
        BY InvParts, AppendType DEF TypeOK, Post
    <1>3. TypeOK'
        BY <1>1, <1>2, InvParts DEF TypeOK
    <1>4. ActiveInv'
        BY <1>1, InvParts, ActiveStays
    <1>5. ASSUME NEW p \in Projects, NEW r, Loadable(p, r)
          PROVE  Loadable(p, r)'
        BY <1>1, <1>5 DEF Loadable
    <1>6. Loads'
        <2>1. ASSUME NEW k \in DOMAIN events'
              PROVE  \/ \E n \in DOMAIN events : events'[k] = events[n]
                     \/ events'[k].kind # "viewer_ready"
                     \/ Loadable(events[k].project, events[k].run)'
            <3>1. CASE events' = events
                BY <2>1, <3>1
            <3>2. ASSUME NEW e \in Events, Post(e), e.kind # "viewer_ready" \/ Loadable(e.project, e.run)
                  PROVE  <2>1!2
                <4>1. (k \in DOMAIN events /\ events'[k] = events[k]) \/ events'[k] = e
                    BY <2>1, <3>2, InvParts, AppendIs DEF TypeOK, Post
                <4>2. CASE k \in DOMAIN events /\ events'[k] = events[k]
                    BY <4>2
                <4>3. CASE events'[k] = e /\ e.kind # "viewer_ready"
                    BY <4>3
                <4>4. CASE events'[k] = e /\ Loadable(e.project, e.run)
                    <5>1. e.project \in Projects
                        BY DEF Events
                    <5>2. PICK p, r : p \in Projects /\ p = e.project /\ r = e.run
                        BY <5>1
                    <5>3. Loadable(p, r)'
                        BY <1>5, <4>4, <5>2
                    <5> QED  BY <4>4, <5>2, <5>3 DEF Loadable
                <4> QED  BY <3>2, <4>1, <4>2, <4>3, <4>4
            <3> QED  BY <3>1, <3>2
        <2>2. \A p \in Projects, r \in Runs : Loadable(p, r) => Loadable(p, r)'
            BY <1>5
        <2> QED  BY <2>1, <2>2, InvParts, LoadsStay
    <1>7. Scene'
        BY <1>1, InvParts DEF Scene, TypeOK
    <1> QED  BY <1>3, <1>4, <1>6, <1>7 DEF SessionInv, ViewInv, Scene, Loads

LEMMA LoadKeeps ==
    ASSUME SessionInv, NEW j \in jobs, Load(j)
    PROVE  SessionInv'
    <1>1. /\ j.kind = "load" /\ jobs' = jobs \ {j}
          /\ UNCHANGED <<doc, shelf, sessionVars, threadVars>>
        BY DEF Load
    <1>2. PICK kind \in {"viewer_ready", "viewer_failed"} :
              Post(Event(kind, j.project, j.run, j.generation, TRUE))
        BY DEF Load
    <1> DEFINE e == Event(kind, j.project, j.run, j.generation, TRUE)
    <1>3. e \in Events /\ e.kind = kind /\ e.project = j.project /\ e.run = j.run
        BY InvParts, JobIs DEF Event, Events, Kinds
    <1>4. Post(e)
        BY <1>2
    <1> HIDE DEF e
    <1>5. Loadable(e.project, e.run) /\ e.kind \notin RunKinds
        BY <1>1, <1>3, InvParts DEF Loads, RunKinds
    <1>6. ThreadInv'
        BY <1>1, InvParts, ThreadStays DEF threadVars
    <1>7. \E f \in Events :
              Post(f) /\ f.kind \notin RunKinds /\ (f.kind # "viewer_ready" \/ Loadable(f.project, f.run))
        BY <1>3, <1>4, <1>5
    <1> QED  BY <1>1, <1>6, <1>7, InvParts, JobStep DEF TypeOK

LEMMA CleanupKeeps ==
    ASSUME SessionInv, NEW j \in jobs, Cleanup(j)
    PROVE  SessionInv'
    <1> DEFINE p == j.project
    <1>1. /\ jobs' = jobs \ {j} /\ UNCHANGED <<shelf, sessionVars, threadVars>>
          /\ UNCHANGED <<thread, registered>> /\ p \in Projects
        BY InvParts, JobIs DEF Cleanup, threadVars
    <1>2. CASE UNCHANGED <<doc, events>>
        <2>1. ThreadInv'
            BY <1>1, <1>2, InvParts, ThreadStays
        <2> QED  BY <1>1, <1>2, <2>1, InvParts, JobStep DEF TypeOK
    <1>3. CASE /\ Idle(p) /\ Store(p, "idle", 0)
               /\ Post(Event("lifecycle_cleanup_ready", p, 0, j.generation, TRUE))
        <2> DEFINE d == [status |-> "idle", run |-> 0]
                   e == Event("lifecycle_cleanup_ready", p, 0, j.generation, TRUE)
        <2>1. d \in Documents /\ d.status # "running" /\ d.run = 0
            BY Numbers DEF Documents
        <2>2. doc' = [doc EXCEPT ![p] = d] /\ Post(e)
            BY <1>3 DEF Store
        <2>3. e \in Events /\ e.kind = "lifecycle_cleanup_ready"
            BY InvParts, JobIs, Numbers DEF Event, Events, Kinds
        <2> HIDE DEF d, e
        <2>4. \A r \in Runs : ~ (thread[r].project = p /\ thread[r].at \in {"working", "last"})
            BY <1>1, <1>3, NobodyAtWork
        <2>5. d.run \notin Runs
            BY <2>1, Numbers
        <2>6. /\ doc' \in [Projects -> Documents] /\ doc'[p] = d
              /\ \A q \in Projects : q # p => doc'[q] = doc[q]
              /\ ThreadInv'
            BY <1>1, <2>1, <2>2, <2>4, <2>5, IdleThread
        <2>7. \A q \in Projects : doc'[q] = doc[q] \/ doc'[q].run = 0
            BY <2>1, <2>6
        <2>8. \E f \in Events :
                  Post(f) /\ f.kind \notin RunKinds /\ (f.kind # "viewer_ready" \/ Loadable(f.project, f.run))
            BY <2>2, <2>3 DEF RunKinds
        <2> QED  BY <1>1, <2>6, <2>7, <2>8, InvParts, JobStep DEF TypeOK
    <1> QED  BY <1>2, <1>3 DEF Cleanup

LEMMA CopyKeeps ==
    ASSUME SessionInv, NEW j \in jobs, Copy(j)
    PROVE  SessionInv'
    <1> DEFINE p == j.project
    <1>1. /\ jobs' = jobs \ {j} /\ UNCHANGED <<sessionVars, threadVars>>
          /\ UNCHANGED <<thread, registered>> /\ p \in Projects
        BY InvParts, JobIs DEF Copy, threadVars
    <1>2. CASE UNCHANGED <<doc, shelf, events>>
        <2>1. ThreadInv'
            BY <1>1, <1>2, InvParts, ThreadStays
        <2> QED  BY <1>1, <1>2, <2>1, InvParts, JobStep DEF TypeOK
    <1>3. ASSUME NEW c \in Projects, NEW complete \in BOOLEAN,
                 shelf[c] = "absent", complete => Succeeded(p),
                 shelf' = [shelf EXCEPT ![c] = "listed"],
                 doc' = [doc EXCEPT ![c] = IF complete THEN doc[p] ELSE @],
                 Post([Event("lifecycle_duplicate_ready", p, 0, j.generation, complete) EXCEPT !.other = c])
          PROVE  SessionInv'
        <2> DEFINE e == [Event("lifecycle_duplicate_ready", p, 0, j.generation, complete) EXCEPT !.other = c]
        <2>1. e \in Events /\ e.kind = "lifecycle_duplicate_ready"
            BY InvParts, JobIs, Numbers, ProjectsAssumption DEF Event, Events, Kinds
        <2>2. Post(e)
            BY <1>3
        <2> HIDE DEF e
        <2>3. \E f \in Events :
                  Post(f) /\ f.kind \notin RunKinds /\ (f.kind # "viewer_ready" \/ Loadable(f.project, f.run))
            BY <2>1, <2>2 DEF RunKinds
        <2>4. /\ shelf' \in [Projects -> {"absent", "listed", "archived", "trash"}]
              /\ \A q \in Projects : shelf[q] # "absent" => shelf'[q] = shelf[q]
              /\ \A q \in Projects : shelf[q] # "absent" => shelf'[q] # "absent"
            BY <1>3, InvParts DEF TypeOK
        <2>5. \A r \in Runs : ~ (thread[r].project = c /\ thread[r].at \in {"working", "last"})
            BY <1>3, InvParts, ProjectsAssumption DEF ThreadInv
        <2>6. /\ doc' \in [Projects -> Documents] /\ ThreadInv'
              /\ \A q \in Projects : q # c => doc'[q] = doc[q]
            <3>1. CASE complete
                <4>1. /\ doc[p] \in Documents /\ doc[p].status = "succeeded"
                      /\ doc' = [doc EXCEPT ![c] = doc[p]]
                    BY <1>1, <1>3, <3>1, InvParts DEF TypeOK, Succeeded
                <4>2. doc[p].run \in Runs => thread[doc[p].run].at \in {"recorded", "over"}
                    BY <1>1, <4>1, InvParts DEF ThreadInv
                <4>3. PICK d \in Documents : d = doc[p]
                    BY <4>1
                <4>4. doc' = [doc EXCEPT ![c] = d] /\ d.status # "running"
                    BY <4>1, <4>3
                <4>5. d.run \in Runs => thread[d.run].at \in {"recorded", "over"}
                    BY <4>2, <4>3
                <4>6. UNCHANGED <<thread, registered>>
                    BY <1>1
                <4>7. \A q \in Projects : shelf[q] # "absent" => shelf'[q] # "absent"
                    BY <2>4
                <4>8. ThreadInv' /\ doc' \in [Projects -> Documents]
                    BY <2>5, <4>4, <4>5, <4>6, <4>7, IdleThread
                <4> QED  BY <4>1, <4>8, InvParts DEF TypeOK
            <3>2. CASE ~ complete
                <4>1. doc' = doc
                    BY <1>3, <3>2, InvParts DEF TypeOK
                <4> QED  BY <1>1, <2>4, <4>1, InvParts, ThreadStays DEF TypeOK
            <3> QED  BY <3>1, <3>2
        <2> QED  BY <1>1, <1>3, <2>3, <2>4, <2>6, JobStep
    <1> QED  BY <1>2, <1>3 DEF Copy

-----------------------------------------------------------------------------
(* handleEvent *)

\* What any event may do to the session.
Handled(e) ==
    /\ open' \in Projects \cup {None} /\ generation' \in Generations /\ busy' \in BOOLEAN
    /\ view' \in Views /\ jobs' \subseteq Jobs
    /\ \A j \in jobs' : j \in jobs \/ j.kind # "load" \/ Loadable(j.project, j.run)'
    /\ active' \in [Projects -> 0..MaxRuns] /\ \A p \in Projects : active'[p] \in {0, active[p]}
    /\ e.kind \in {"complete", "run_failed"} => active'[e.project] # e.run
    /\ cancelled' = cancelled

LEMMA LifecycleHandled ==
    ASSUME SessionInv, NEW e \in Events, HandleLifecycle(e), UNCHANGED <<doc, shelf, thread>>,
           e.kind \in {"lifecycle_cleanup_ready", "lifecycle_duplicate_ready"}
    PROVE  Handled(e) /\ Scene'
    <1>1. UNCHANGED <<active, cancelled>> /\ open \in Projects \cup {None}
        BY InvParts DEF HandleLifecycle, TypeOK
    <1>2. CASE /\ e.kind = "lifecycle_duplicate_ready" /\ shelf[e.other] = "listed"
               /\ Activate(e.other, e.good)
        <2>1. PICK p \in Projects, load \in BOOLEAN : p = e.other /\ load = e.good
            BY <1>2 DEF Events
        <2>2. Activate(p, load) /\ shelf'[p] = "listed"
            BY <1>2, <2>1
        <2>3. /\ open' = p /\ generation' \in Generations /\ busy' \in BOOLEAN
              /\ view' \in Views /\ jobs' \subseteq Jobs
              /\ \A j \in jobs' : j \in jobs \/ j.kind # "load" \/ Loadable(j.project, j.run)'
              /\ Scene'
            BY <2>2, InvParts, ActivateStep
        <2> QED  BY <1>1, <1>2, <2>3, InvParts DEF Handled, TypeOK
    <1>3. CASE UNCHANGED <<open, generation, view, jobs>> /\ (busy' = busy \/ Refresh(open))
        <2>1. busy' \in BOOLEAN
            BY <1>3, InvParts, RefreshIs DEF TypeOK
        <2> QED  BY <1>1, <1>3, <2>1, InvParts DEF Handled, Scene, TypeOK
    <1>4. CASE Switch(open) /\ view' = Blank("none") /\ Refresh(open) /\ UNCHANGED jobs
        <2>1. open' = open /\ generation' \in Generations /\ busy' \in BOOLEAN
            BY <1>4, InvParts, SwitchIs, RefreshIs
        <2>2. view' \in Views /\ view'.run = 0
            BY <1>4, BlankIs
        <2> QED  BY <1>1, <1>4, <2>1, <2>2, InvParts DEF Handled, Scene, TypeOK
    <1> QED  BY <1>2, <1>3, <1>4 DEF HandleLifecycle

LEMMA RunHandled ==
    ASSUME SessionInv, NEW e \in Events, HandleRun(e), UNCHANGED <<doc, shelf, thread>>,
           e.kind \in RunKinds => e.run # 0
    PROVE  Handled(e) /\ Scene'
    <1>1. UNCHANGED <<open, generation, cancelled>> /\ Refresh(open) /\ open \in Projects \cup {None}
        BY InvParts DEF HandleRun, TypeOK
    <1>2. e.project \in Projects /\ e.run \in 0..MaxRuns /\ e.generation \in Generations
        BY DEF Events
    <1>3. /\ active' \in [Projects -> 0..MaxRuns] /\ \A p \in Projects : active'[p] \in {0, active[p]}
          /\ e.kind \in {"complete", "run_failed"} => active'[e.project] # e.run
        <2>1. CASE /\ e.kind \in {"complete", "run_failed"} /\ active[e.project] = e.run
                   /\ active' = [active EXCEPT ![e.project] = 0]
            BY <1>2, <2>1, InvParts, Numbers DEF TypeOK, RunKinds
        <2>2. CASE /\ ~ (e.kind \in {"complete", "run_failed"} /\ active[e.project] = e.run)
                   /\ active' = active
            BY <1>2, <2>2, InvParts DEF TypeOK
        <2> QED  BY <2>1, <2>2 DEF HandleRun
    <1>4. /\ view' \in Views /\ jobs' \subseteq Jobs
          /\ \A j \in jobs' : j \in jobs \/ j.kind # "load" \/ Loadable(j.project, j.run)'
          /\ view'.run # 0 => view'.project = open /\ view'.generation = generation
        <2>1. CASE UNCHANGED <<view, jobs>>
            BY <2>1, InvParts DEF TypeOK, Scene
        <2>2. CASE UNCHANGED jobs /\ (view' = Blank("failed") \/ view' = Blank("none"))
            BY <2>2, InvParts, BlankIs DEF TypeOK
        <2>3. CASE /\ Addressed(e) /\ UNCHANGED jobs
                   /\ view' = [status |-> "shown", project |-> e.project, run |-> e.run,
                               generation |-> e.generation]
            BY <1>2, <2>3, InvParts DEF TypeOK, Views, Addressed
        <2>4. CASE LoadView(open, generation) /\ Addressed(e)
            <3>1. PICK p \in Projects, g \in Generations : p = open /\ g = generation
                BY <1>2, <2>4 DEF Addressed
            <3>2. LoadView(p, g) /\ shelf'[p] # "absent"
                BY <1>1, <2>4, <3>1, InvParts, ProjectsAssumption DEF Scene
            <3> QED  BY <3>2, InvParts, LoadViewStep
        <2>5. Accepts(e) => Addressed(e)
            BY DEF Accepts
        <2> QED  BY <2>1, <2>2, <2>3, <2>4, <2>5 DEF HandleRun, Present
    <1> QED  BY <1>1, <1>3, <1>4, InvParts, RefreshIs DEF Handled, Scene, TypeOK

LEMMA handleEventKeeps ==
    ASSUME SessionInv, handleEvent
    PROVE  SessionInv'
    <1>1. /\ events # <<>> /\ events' = Tail(events)
          /\ UNCHANGED <<doc, shelf, thread, registered, stopped>>
        BY DEF handleEvent, threadVars
    <1>2. PICK e \in Events : e = Head(events)
        BY <1>1, InvParts, TailIs DEF TypeOK
    <1>3. /\ events' \in Seq(Events) /\ 1 \in DOMAIN events /\ events[1] = e
          /\ \A k \in DOMAIN events' : \E n \in DOMAIN events : events'[k] = events[n]
          /\ \A n \in DOMAIN events : events[n] = e \/ \E k \in DOMAIN events' : events'[k] = events[n]
        <2>1. events \in Seq(Events)
            BY InvParts DEF TypeOK
        <2>2. /\ events' \in Seq(Events) /\ 1 \in DOMAIN events /\ events[1] = Head(events)
              /\ \A k \in DOMAIN events' : \E n \in DOMAIN events : events'[k] = events[n]
            BY <1>1, <2>1, TailIs
        <2>3. \A n \in DOMAIN events :
                  events[n] = Head(events) \/ \E k \in DOMAIN events' : events'[k] = events[n]
            <3>1. PICK s, t : s \in Seq(Events) /\ s = events /\ t = events' /\ t = Tail(s) /\ s # <<>>
                BY <1>1, <2>1
            <3>2. \A n \in DOMAIN s : s[n] = Head(s) \/ \E k \in DOMAIN t : t[k] = s[n]
                BY <3>1, TailIs
            <3> QED  BY <3>1, <3>2
        <2> QED  BY <1>2, <2>2, <2>3
    <1>4. e.kind \in RunKinds => e.run # 0 /\ e.project = thread[e.run].project
        BY <1>3, InvParts DEF ActiveInv
    <1>5. Handled(e) /\ Scene'
        <2>1. CASE e.kind \in {"lifecycle_cleanup_ready", "lifecycle_duplicate_ready"}
            <3>1. HandleLifecycle(e)
                BY <1>2, <2>1 DEF handleEvent
            <3> QED  BY <1>1, <2>1, <3>1, LifecycleHandled
        <2>2. CASE e.kind \notin {"lifecycle_cleanup_ready", "lifecycle_duplicate_ready"}
            <3>1. HandleRun(e)
                BY <1>2, <2>2 DEF handleEvent
            <3> QED  BY <1>1, <1>4, <3>1, RunHandled
        <2> QED  BY <2>1, <2>2
    <1>6. TypeOK'
        BY <1>1, <1>3, <1>5, InvParts DEF TypeOK, Handled
    <1>7. ThreadInv'
        BY <1>1, InvParts, ThreadStays
    <1>8. ActiveInv'
        <2>1. ASSUME NEW k \in DOMAIN events', events'[k].kind \in RunKinds
              PROVE  events'[k].run # 0 /\ events'[k].project = thread'[events'[k].run].project
            BY <1>1, <1>3, <2>1, InvParts DEF ActiveInv
        <2>2. ASSUME NEW p \in Projects, NEW r \in Runs, active'[p] = r
              PROVE  /\ thread'[r].project = p
                     /\ \/ thread'[r].at # "over"
                        \/ \E k \in DOMAIN events' :
                               events'[k].run = r /\ events'[k].kind \in {"complete", "run_failed"}
            <3>1. active[p] = r
                BY <1>5, <2>2, Numbers DEF Handled
            <3>2. /\ thread[r].project = p
                  /\ \/ thread[r].at # "over"
                     \/ \E k \in DOMAIN events :
                            events[k].run = r /\ events[k].kind \in {"complete", "run_failed"}
                BY <3>1, InvParts DEF ActiveInv
            <3>3. ASSUME NEW k \in DOMAIN events, events[k].run = r, events[k].kind \in {"complete", "run_failed"}
                  PROVE  \E n \in DOMAIN events' :
                             events'[n].run = r /\ events'[n].kind \in {"complete", "run_failed"}
                <4>1. CASE events[k] = e
                    <5>1. e.project = p /\ active'[e.project] # e.run
                        BY <1>4, <1>5, <3>2, <3>3, <4>1 DEF Handled, RunKinds
                    <5> QED  BY <2>2, <3>3, <4>1, <5>1
                <4>2. CASE events[k] # e
                    BY <1>3, <3>3, <4>2
                <4> QED  BY <4>1, <4>2
            <3> QED  BY <1>1, <3>2, <3>3
        <2> QED  BY <2>1, <2>2 DEF ActiveInv
    <1>9. Loads'
        <2>1. \A p \in Projects, r \in Runs : Loadable(p, r) => Loadable(p, r)'
            BY <1>1 DEF Loadable
        <2> QED  BY <1>3, <1>5, <2>1, InvParts, LoadsStay DEF Handled
    <1> QED  BY <1>5, <1>6, <1>7, <1>8, <1>9 DEF SessionInv, ViewInv, Scene, Loads

-----------------------------------------------------------------------------
(* The invariant *)

LEMMA InitSessionInv ==
    ASSUME Init
    PROVE  SessionInv
    <1>1. 1 \in Runs /\ 1 \in 0..MaxRuns
        BY BoundsAssumption DEF Runs
    <1>2. TypeOK
        <2>1. /\ [status |-> "succeeded", run |-> 1] \in Documents
              /\ [status |-> "idle", run |-> 0] \in Documents
            BY <1>1, Numbers DEF Documents
        <2>2. doc \in [Projects -> Documents]
            BY <2>1 DEF Init
        <2>3. \A r \in Runs : [NoThread EXCEPT !.at = IF r = 1 THEN "over" ELSE "none"] \in Threads
            BY Numbers DEF NoThread, Threads
        <2>4. thread \in [Runs -> Threads]
            BY <2>3 DEF Init
        <2>5. view \in Views /\ events \in Seq(Events)
            BY BlankIs DEF Init
        <2> QED  BY <2>2, <2>4, <2>5, Numbers DEF TypeOK, Init
    <1>3. ThreadInv
        <2>1. ASSUME NEW r \in Runs
              PROVE  thread[r].project = None /\ thread[r].at = IF r = 1 THEN "over" ELSE "none"
            BY DEF Init, NoThread
        <2>2. ASSUME NEW r \in Runs PROVE TokenPart(r)
            BY <2>1, Numbers, ProjectsAssumption DEF TokenPart, Init
        <2>3. ASSUME NEW r \in Runs, NEW p \in Projects PROVE DocPart(r, p)
            <3>1. doc[p].status \in {"succeeded", "idle"} /\ (doc[p].status = "succeeded" => doc[p].run = 1)
                BY DEF Init
            <3> QED  BY <2>1, <3>1, RunningIs, ProjectsAssumption DEF DocPart
        <2> QED  BY <2>2, <2>3, ThreadParts
    <1>4. ActiveInv
        BY Numbers DEF ActiveInv, Init
    <1>5. ViewInv
        BY BlankIs DEF ViewInv, Init
    <1> QED  BY <1>2, <1>3, <1>4, <1>5 DEF SessionInv

LEMMA NextKeeps ==
    ASSUME SessionInv, [Next]_vars
    PROVE  SessionInv'
    <1>1. CASE Slots
        <2>1. CASE start
            BY <2>1, startKeeps
        <2>2. CASE cancel
            BY <2>2, cancelKeeps
        <2>3. CASE loadViewer
            BY <2>3, loadViewerKeeps
        <2>4. ASSUME NEW p \in Projects,
                     \/ selectProject(p) \/ createProject(p) \/ Configure(p)
                     \/ deleteProject(p) \/ restoreProject(p)
                     \/ \E archived \in BOOLEAN : setProjectArchived(p, archived)
                     \/ cleanupProject(p) \/ duplicateProject(p)
              PROVE  SessionInv'
            BY <2>4, selectProjectKeeps, createProjectKeeps, ConfigureKeeps, deleteProjectKeeps,
               restoreProjectKeeps, setProjectArchivedKeeps, RequestKeeps
        <2> QED  BY <1>1, <2>1, <2>2, <2>3, <2>4 DEF Slots
    <1>2. ASSUME NEW r \in Runs, RunThread(r)
          PROVE  SessionInv'
        BY <1>2, RegisterKeeps, BeginKeeps, LastLookKeeps, RecordKeeps, ReturnKeeps DEF RunThread
    <1>3. CASE Loader
        BY <1>3, LoadKeeps DEF Loader
    <1>4. CASE OtherJob
        BY <1>4, CleanupKeeps, CopyKeeps DEF OtherJob
    <1>5. CASE handleEvent
        BY <1>5, handleEventKeeps
    <1>6. CASE UNCHANGED vars
        BY <1>6 DEF vars, sessionVars, threadVars, SessionInv, TypeOK, ThreadInv, ActiveInv, ViewInv, Loadable
    <1> QED  BY <1>1, <1>2, <1>3, <1>4, <1>5, <1>6 DEF Next

\* Whatever the user, the threads and the loaders do and in whatever order
\* their events arrive: the controller holds the token of the run that is at
\* work, the session's active runs still report, and what a loader brings is
\* the result it was started for (pipeline.py:814-818, project_session.py:58-60,
\* main.py:1057-1064).
THEOREM SessionCorrect == Spec => []SessionInv
<1> QED
  BY InitSessionInv, NextKeeps, PTL DEF Spec

-----------------------------------------------------------------------------
(* The refinement of Presentation *)

\* The run whose result project p has, as Promise has it, and the scene.
ResultOf(p) == IF Succeeded(p) THEN doc[p].run ELSE 0
Result == [p \in Projects |-> ResultOf(p)]
Shown == <<view.project, view.run>>

\* A step of Presentation, or none.
Presented == Promise!Next \/ UNCHANGED <<open, Result, Shown>>

LEMMA PresentStays ==
    ASSUME UNCHANGED <<doc, open, view>>
    PROVE  Presented
    BY DEF Presented, Result, ResultOf, Shown, Succeeded

\* A project is opened, or the view of the open one is emptied.
LEMMA PresentOpen ==
    ASSUME doc' = doc, open' \in Projects \cup {None}, view'.run = 0, view'.project = None
    PROVE  Presented
    <1>1. Result' = Result /\ Shown' = <<"", 0>>
        BY DEF Result, ResultOf, Shown, Succeeded, None
    <1>2. PICK p \in Projects \cup {""} : open' = p
        BY DEF None
    <1>3. Promise!Open(p)
        BY <1>1, <1>2 DEF Promise!Open, Promise!Nothing, Result, ResultOf, Shown
    <1> QED  BY <1>3 DEF Presented, Promise!Next

LEMMA PresentProduce ==
    ASSUME TypeOK, UNCHANGED <<open, view>>, NEW p \in Projects, NEW d \in Documents,
           doc' = [doc EXCEPT ![p] = d]
    PROVE  Presented
    <1> DEFINE r == IF d.status = "succeeded" /\ d.run # 0 THEN d.run ELSE 0
    <1>1. r \in Runs \cup {0}
        BY Numbers DEF Documents
    <1>2. doc'[p] = d /\ \A q \in Projects : q # p => doc'[q] = doc[q]
        BY DEF TypeOK
    <1>3. \A q \in Projects : ResultOf(q)' = IF q = p THEN r ELSE ResultOf(q)
        BY <1>2 DEF ResultOf, Succeeded
    <1> HIDE DEF r
    <1>4. Result' = [Result EXCEPT ![p] = r] /\ Shown' = Shown
        BY <1>3 DEF Result, Shown
    <1>5. Promise!Produce(p, r)
        BY <1>4 DEF Promise!Produce, Result, ResultOf, Shown
    <1> QED  BY <1>1, <1>5 DEF Presented, Promise!Next

\* The scene of a run appears that the open project's document still names.
LEMMA PresentShow ==
    ASSUME doc' = doc, open' = open, open \in Projects, Succeeded(open),
           view'.project = open, view'.run = doc[open].run
    PROVE  Presented
    <1>1. Result' = Result /\ Result[open] = doc[open].run /\ Result[open] # 0 /\ Shown' = <<open, Result[open]>>
        BY DEF Result, ResultOf, Shown, Succeeded
    <1>2. Promise!Show
        BY <1>1 DEF Promise!Show, Result, ResultOf, Shown
    <1> QED  BY <1>2 DEF Presented, Promise!Next

LEMMA SlotsPresent ==
    ASSUME SessionInv, Slots
    PROVE  Presented
    <1>1. open \in Projects \cup {None} /\ generation \in Generations
        BY InvParts DEF TypeOK
    <1>2. CASE start
        <2>1. doc' = doc /\ open' = open /\ view' = Blank("preparing")
            BY <1>2 DEF start, Switch
        <2> QED  BY <1>1, <2>1, BlankIs, PresentOpen
    <1>3. CASE cancel
        BY <1>3, PresentStays DEF cancel
    <1>4. CASE loadViewer
        <2>1. /\ open # None /\ LoadView(open, generation) /\ shelf[open] = "listed"
              /\ UNCHANGED <<doc, shelf, open, thread>>
            BY <1>4, InvParts DEF loadViewer, threadVars, Scene
        <2>2. PICK p \in Projects \cup {None}, g \in Generations : p = open /\ g = generation
            BY <1>1
        <2>3. LoadView(p, g) /\ shelf'[p] # "absent"
            BY <2>1, <2>2
        <2>4. view'.run = 0 /\ view'.project = None
            BY <2>1, <2>3, InvParts, LoadViewStep
        <2> QED  BY <1>1, <2>1, <2>4, PresentOpen
    <1>5. ASSUME NEW p \in Projects,
                 \/ selectProject(p) \/ createProject(p) \/ Configure(p)
                 \/ deleteProject(p) \/ restoreProject(p)
                 \/ \E archived \in BOOLEAN : setProjectArchived(p, archived)
                 \/ cleanupProject(p) \/ duplicateProject(p)
          PROVE  Presented
        <2>1. CASE selectProject(p) \/ createProject(p)
            <3>1. Activate(p, TRUE) /\ UNCHANGED <<doc, thread>> /\ shelf'[p] = "listed"
                BY <2>1, InvParts DEF selectProject, createProject, threadVars, TypeOK
            <3>2. PICK load \in BOOLEAN : load = TRUE
                OBVIOUS
            <3>3. Activate(p, load)
                BY <3>1, <3>2
            <3>4. open' = p /\ view'.run = 0 /\ view'.project = None
                BY <3>1, <3>3, InvParts, ActivateStep
            <3> QED  BY <3>1, <3>4, PresentOpen
        <2>2. CASE Configure(p)
            <3>1. PICK status \in {"idle", doc[p].status} : Store(p, status, 0)
                BY <2>2 DEF Configure
            <3>2. [status |-> status, run |-> 0] \in Documents
                BY <3>1, InvParts, Numbers DEF TypeOK, Documents
            <3>3. PICK d \in Documents : doc' = [doc EXCEPT ![p] = d]
                BY <3>1, <3>2 DEF Store
            <3>4. UNCHANGED <<open, view>>
                BY <2>2 DEF Configure
            <3> QED  BY <3>3, <3>4, InvParts, PresentProduce
        <2>3. CASE deleteProject(p) \/ \E archived \in BOOLEAN : setProjectArchived(p, archived)
            <3>1. /\ doc' = doc
                  /\ RemoveProject(p) \/ UNCHANGED <<open, generation, view, active, cancelled>>
                BY <2>3 DEF deleteProject, setProjectArchived
            <3>2. CASE UNCHANGED <<open, view>>
                BY <3>1, <3>2, PresentStays
            <3>3. CASE open' = None /\ view' = Blank("none")
                BY <3>1, <3>3, BlankIs, PresentOpen
            <3> QED  BY <3>1, <3>2, <3>3 DEF RemoveProject, Switch
        <2>4. CASE restoreProject(p)
            BY <2>4, PresentStays DEF restoreProject
        <2>5. CASE cleanupProject(p) \/ duplicateProject(p)
            BY <2>5, PresentStays DEF cleanupProject, duplicateProject, Request, sessionVars
        <2> QED  BY <1>5, <2>1, <2>2, <2>3, <2>4, <2>5
    <1> QED  BY <1>2, <1>3, <1>4, <1>5 DEF Slots

LEMMA ThreadsPresent ==
    ASSUME SessionInv, NEW r \in Runs, RunThread(r)
    PROVE  Presented
    <1>1. UNCHANGED <<open, view>>
        BY DEF RunThread, Register, Begin, LastLook, Record, Return, sessionVars
    <1>2. CASE doc' = doc
        BY <1>1, <1>2, PresentStays
    <1>3. ASSUME NEW p, p = thread[r].project, NEW status \in {"running", "succeeded", "ended"},
                 Store(p, status, r), thread[r].at \in {"registered", "last"}
          PROVE  Presented
        <2>1. p \in Projects
            BY <1>3, InvParts, ThreadIs DEF ThreadInv
        <2>2. [status |-> status, run |-> r] \in Documents
            BY <1>3, Numbers DEF Documents
        <2>3. PICK d \in Documents : doc' = [doc EXCEPT ![p] = d]
            BY <1>3, <2>2 DEF Store
        <2> QED  BY <1>1, <2>1, <2>3, InvParts, PresentProduce
    <1>4. CASE Register(r) \/ LastLook(r) \/ Return(r)
        BY <1>2, <1>4 DEF Register, LastLook, Return
    <1>5. CASE Begin(r)
        BY <1>2, <1>3, <1>5 DEF Begin
    <1>6. CASE Record(r)
        BY <1>2, <1>3, <1>6 DEF Record
    <1> QED  BY <1>4, <1>5, <1>6 DEF RunThread

LEMMA JobsPresent ==
    ASSUME SessionInv, Loader \/ OtherJob
    PROVE  Presented
    <1>1. PICK j \in jobs : Load(j) \/ Cleanup(j) \/ Copy(j)
        BY DEF Loader, OtherJob
    <1>2. UNCHANGED <<open, view>> /\ j.project \in Projects
        BY <1>1, InvParts, JobIs DEF Load, Cleanup, Copy, sessionVars
    <1>3. CASE doc' = doc
        BY <1>2, <1>3, PresentStays
    <1>4. ASSUME NEW p \in Projects, NEW d \in Documents, doc' = [doc EXCEPT ![p] = d]
          PROVE  Presented
        BY <1>2, <1>4, InvParts, PresentProduce
    <1>5. CASE Load(j)
        BY <1>3, <1>5 DEF Load
    <1>6. CASE Cleanup(j)
        <2>1. [status |-> "idle", run |-> 0] \in Documents
            BY Numbers DEF Documents
        <2> QED  BY <1>2, <1>3, <1>4, <1>6, <2>1 DEF Cleanup, Store
    <1>7. CASE Copy(j)
        <2>1. \A p \in Projects : doc[p] \in Documents
            BY InvParts DEF TypeOK
        <2>2. CASE UNCHANGED <<doc, shelf, events>>
            BY <1>3, <2>2
        <2>3. ASSUME NEW c \in Projects, NEW complete \in BOOLEAN,
                     doc' = [doc EXCEPT ![c] = IF complete THEN doc[j.project] ELSE @]
              PROVE  Presented
            <3>1. PICK d \in Documents : doc' = [doc EXCEPT ![c] = d]
                BY <1>2, <2>1, <2>3
            <3> QED  BY <1>4, <3>1
        <2> QED  BY <1>7, <2>2, <2>3 DEF Copy
    <1> QED  BY <1>1, <1>5, <1>6, <1>7

LEMMA EventsPresent ==
    ASSUME SessionInv, handleEvent
    PROVE  Presented
    <1>1. events # <<>> /\ UNCHANGED <<doc, shelf, thread>> /\ open \in Projects \cup {None}
        BY InvParts DEF handleEvent, threadVars, TypeOK
    <1>2. PICK e \in Events : e = Head(events) /\ e = events[1] /\ 1 \in DOMAIN events
        BY <1>1, InvParts, TailIs DEF TypeOK
    <1>3. CASE UNCHANGED <<open, view>>
        BY <1>1, <1>3, PresentStays
    <1>4. CASE open' \in Projects \cup {None} /\ view'.run = 0 /\ view'.project = None
        BY <1>1, <1>4, PresentOpen
    <1>5. CASE HandleLifecycle(e) /\ e.kind \in {"lifecycle_cleanup_ready", "lifecycle_duplicate_ready"}
        <2>1. CASE /\ e.kind = "lifecycle_duplicate_ready" /\ shelf[e.other] = "listed"
                   /\ Activate(e.other, e.good)
            <3>1. PICK p \in Projects, load \in BOOLEAN : p = e.other /\ load = e.good
                BY <2>1 DEF Events
            <3>2. Activate(p, load) /\ shelf'[p] = "listed"
                BY <1>1, <2>1, <3>1
            <3>3. open' = p /\ view'.run = 0 /\ view'.project = None
                BY <1>1, <3>2, InvParts, ActivateStep
            <3> QED  BY <1>4, <3>3
        <2>2. CASE Switch(open) /\ view' = Blank("none")
            BY <1>1, <1>4, <2>2, BlankIs DEF Switch
        <2> QED  BY <1>3, <1>5, <2>1, <2>2 DEF HandleLifecycle
    <1>6. CASE HandleRun(e)
        <2>1. open' = open
            BY <1>6 DEF HandleRun
        <2>2. CASE view' = view
            BY <1>3, <2>1, <2>2
        <2>3. CASE view' = Blank("failed") \/ view' = Blank("none")
            BY <1>1, <1>4, <2>1, <2>3, BlankIs
        <2>4. CASE /\ Accepts(e) /\ e.kind = "viewer_ready"
                   /\ view' = [status |-> "shown", project |-> e.project, run |-> e.run,
                               generation |-> e.generation]
            <3>1. /\ e.project \in Projects /\ e.project = open /\ doc[open].run = e.run
                  /\ view'.project = open /\ view'.run = e.run
                BY <2>4 DEF Events, Accepts, Addressed
            <3>2. Loadable(e.project, e.run)
                BY <1>2, <2>4, InvParts DEF Loads
            <3>3. Succeeded(open)
                BY <3>1, <3>2 DEF Loadable, Succeeded
            <3> QED  BY <1>1, <2>1, <3>1, <3>3, PresentShow
        <2>5. CASE LoadView(open, generation) /\ Accepts(e)
            <3>1. PICK p \in Projects, g \in Generations : p = open /\ g = generation
                BY <2>5, InvParts DEF Accepts, Addressed, Events, TypeOK
            <3>2. LoadView(p, g) /\ shelf'[p] # "absent"
                BY <1>1, <2>5, <3>1, InvParts, ProjectsAssumption DEF Scene
            <3>3. view'.run = 0 /\ view'.project = None
                BY <1>1, <3>2, InvParts, LoadViewStep
            <3> QED  BY <1>1, <1>4, <2>1, <3>3
        <2> QED  BY <1>6, <2>2, <2>3, <2>4, <2>5 DEF HandleRun, Present
    <1> QED  BY <1>2, <1>5, <1>6 DEF handleEvent

LEMMA NextPresents ==
    ASSUME SessionInv, [Next]_vars
    PROVE  Presented
    <1>1. CASE UNCHANGED vars
        BY <1>1, PresentStays DEF vars, sessionVars
    <1> QED  BY <1>1, SlotsPresent, ThreadsPresent, JobsPresent, EventsPresent DEF Next

\* The user sees the result of the open project's latest run or none, however
\* late and in whatever order loaders and runs report: the window implements
\* Presentation (main.py:1044-1088, project_session.py:58-60).
THEOREM Refinement == Spec => PresentationSpec
<1>1. Init => Promise!Init
  <2> SUFFICES ASSUME Init PROVE Promise!Init
    OBVIOUS
  <2>1. TypeOK
    BY InitSessionInv, InvParts
  <2>2. Result \in [Projects -> Runs \cup {0}]
    BY <2>1, Numbers DEF TypeOK, Result, ResultOf, Documents
  <2>3. open = "" /\ Shown = <<"", 0>>
    BY BlankIs DEF Init, Shown, None
  <2> QED
    BY <2>2, <2>3 DEF Promise!Init, Promise!Nothing, Result, ResultOf, Shown
<1>2. SessionInv /\ [Next]_vars =>
          [Promise!Next]_<<open, [p \in Projects |-> IF Succeeded(p) THEN doc[p].run ELSE 0],
                           <<view.project, view.run>>>>
  BY NextPresents DEF Presented, Result, ResultOf, Shown
<1> QED
  BY <1>1, <1>2, SessionCorrect, PTL DEF Spec, PresentationSpec, Promise!Spec

=============================================================================
