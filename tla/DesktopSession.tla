--------------------------- MODULE DesktopSession ---------------------------
(***************************************************************************)
(* The window of the desktop application, apps/desktop/main.py:595-1094,   *)
(* and the identity it gives to asynchronous results,                      *)
(* apps/desktop/project_session.py.                                        *)
(*                                                                         *)
(* The window's thread runs the slots the user calls and handles, one by   *)
(* one, the events that run threads, viewer loaders, cleanups and copies   *)
(* have posted.  An event carries the project, the run and the generation  *)
(* it was started under; opening a project, starting a run and a cleanup   *)
(* of the open project begin a new generation, and an event of an older    *)
(* one changes nothing.  The documents are written by the threads.         *)
(*                                                                         *)
(* Abstractions: a run is its start, its last look at the cancellation     *)
(* token and its end (module PipelineRun has the rest); a cleanup and a    *)
(* copy are one step each (CleanupTransaction, ProjectCopy); the import of *)
(* a video is in VideoImport; texts and logs are left out.                 *)
(***************************************************************************)
EXTENDS Naturals, Sequences, FiniteSets

CONSTANTS
    Projects,        \* the projects there may be
    Existing,        \* those there are at the start, with a result of the first run
    MaxRuns,         \* bound: runs, the first one included
    MaxGenerations,  \* bound: generations of the session
    MaxJobs          \* bound: loaders, cleanups and copies at work, together

None == ""
ASSUME ProjectsAssumption == None \notin Projects /\ Existing \subseteq Projects
ASSUME BoundsAssumption == MaxRuns \in Nat \ {0} /\ MaxGenerations \in Nat /\ MaxJobs \in Nat

Runs == 1..MaxRuns
Generations == Nat   \* bounded by Calm

VARIABLES
    doc,         \* status and run_id of each project's document
    shelf,       \* where each project is
    open,        \* session.project_id
    generation,  \* session.generation
    active,      \* session.active_runs, 0 for none
    cancelled,   \* session.cancelled_runs
    view,        \* the viewer's status and the scene it shows
    busy,        \* whether the Cancel button is enabled
    events,      \* signals on their way to handleEvent
    thread,      \* the run threads
    registered,  \* the run whose token the controller has for a project, 0 for none
    stopped,     \* runs whose token is cancelled
    jobs         \* loaders, cleanups and copies at work

sessionVars == <<open, generation, active, cancelled, view, busy>>
threadVars == <<thread, registered, stopped>>
vars == <<doc, shelf, sessionVars, events, threadVars, jobs>>

Documents == [status: {"idle", "running", "succeeded", "ended"}, run: 0..MaxRuns]

\* Status is what the viewer says; run is 0 if there is no scene.
Views == [status: {"none", "preparing", "loading", "shown", "failed"}, project: Projects \cup {None},
          run: 0..MaxRuns, generation: Generations]
Blank(status) == [status |-> status, project |-> None, run |-> 0, generation |-> 0]

Kinds == {"stage", "complete", "run_failed", "viewer_ready", "viewer_failed",
          "lifecycle_cleanup_ready", "lifecycle_duplicate_ready"}
\* other is the copy of a duplication; good is whether the run succeeded, or
\* the copy is a complete one.
Events ==
    {e \in [kind: Kinds, project: Projects, run: 0..MaxRuns, generation: Generations,
            other: Projects \cup {None}, good: BOOLEAN] :
        e.kind = "lifecycle_duplicate_ready" => e.other # None}
Event(kind, p, r, g, good) ==
    [kind |-> kind, project |-> p, run |-> r, generation |-> g, other |-> None, good |-> good]

Threads == [at: {"none", "queued", "registered", "working", "last", "recorded", "over"},
            project: Projects \cup {None}, generation: Generations, good: BOOLEAN]
Jobs == [kind: {"load", "cleanup", "copy"}, project: Projects, run: 0..MaxRuns,
         generation: Generations]

TypeOK ==
    /\ doc \in [Projects -> Documents]
    /\ shelf \in [Projects -> {"absent", "listed", "archived", "trash"}]
    /\ open \in Projects \cup {None}
    /\ generation \in Generations
    /\ active \in [Projects -> 0..MaxRuns]
    /\ cancelled \subseteq Projects \X Runs
    /\ view \in Views
    /\ busy \in BOOLEAN
    /\ events \in Seq(Events)
    /\ thread \in [Runs -> Threads]
    /\ registered \in [Projects -> 0..MaxRuns]
    /\ stopped \subseteq Runs
    /\ jobs \subseteq Jobs

NoThread == [at |-> "none", project |-> None, generation |-> 0, good |-> FALSE]

Init ==
    /\ doc = [p \in Projects |-> IF p \in Existing THEN [status |-> "succeeded", run |-> 1]
                                ELSE [status |-> "idle", run |-> 0]]
    /\ shelf = [p \in Projects |-> IF p \in Existing THEN "listed" ELSE "absent"]
    /\ open = None
    /\ generation = 0
    /\ active = [p \in Projects |-> 0]
    /\ cancelled = {}
    /\ view = Blank("none")
    /\ busy = FALSE
    /\ events = <<>>
    /\ thread = [r \in Runs |-> [NoThread EXCEPT !.at = IF r = 1 THEN "over" ELSE "none"]]
    /\ registered = [p \in Projects |-> 0]
    /\ stopped = {}
    /\ jobs = {}

-----------------------------------------------------------------------------
(* Helpers *)

Post(e) == events' = Append(events, e)
Store(p, status, r) == doc' = [doc EXCEPT ![p] = [status |-> status, run |-> r]]
Succeeded(p) == doc[p].status = "succeeded" /\ doc[p].run # 0

\* _refresh: the window reads the open project's document.
Refresh(p) == busy' = (p # None /\ doc[p].status = "running")

\* A run holds the project's run lock from its first write to its last.
Locked(p) == \E r \in Runs : thread[r].project = p /\ thread[r].at \in {"working", "last"}
Idle(p) == ~ Locked(p) /\ doc[p].status # "running"

\* ProjectSession.switch
Switch(p) == open' = p /\ generation' = generation + 1

\* loadViewer, with p open in generation g: a loader is started, or the
\* receipts turn out not to be those of the run.
LoadView(p, g) ==
    IF p # None /\ Succeeded(p)
    THEN \/ /\ view' = Blank("loading")
            /\ jobs' = jobs \cup {[kind |-> "load", project |-> p, run |-> doc[p].run, generation |-> g]}
         \/ view' = Blank("failed") /\ UNCHANGED jobs
    ELSE view' = Blank("none") /\ UNCHANGED jobs

\* _activate_project
Activate(p, load) ==
    /\ Switch(p)
    /\ Refresh(p)
    /\ IF load THEN LoadView(p, generation + 1) ELSE view' = Blank("none") /\ UNCHANGED jobs

\* Room for what the user asks for: requests that may begin a generation.
Requests == Cardinality(jobs) + Len(events)
Calm == Requests < MaxJobs /\ generation + Requests < MaxGenerations

-----------------------------------------------------------------------------
(* The slots the user calls *)

selectProject(p) ==
    /\ Calm /\ shelf[p] = "listed"
    /\ Activate(p, TRUE)
    /\ UNCHANGED <<doc, shelf, active, cancelled, events, threadVars>>

createProject(p) ==
    /\ Calm /\ shelf[p] = "absent"
    /\ shelf' = [shelf EXCEPT ![p] = "listed"]
    /\ Activate(p, TRUE)
    /\ UNCHANGED <<doc, active, cancelled, events, threadVars>>

\* The Run button; the document is asked whether it is running.
start ==
    /\ Calm /\ open # None /\ ~ busy /\ doc[open].status # "running"
    /\ \E r \in Runs :
        /\ thread[r].at = "none" /\ \A s \in Runs : s < r => thread[s].at # "none"
        /\ active' = [active EXCEPT ![open] = r]
        /\ cancelled' = cancelled \ {<<open, r>>}
        /\ thread' = [thread EXCEPT ![r] = [NoThread EXCEPT !.at = "queued", !.project = open,
                                                             !.generation = generation + 1]]
    /\ Switch(open)
    /\ view' = Blank("preparing")
    /\ Refresh(open)
    /\ UNCHANGED <<doc, shelf, events, registered, stopped, jobs>>

\* The Cancel button: the session forgets what the run will report, and the
\* controller cancels the token it has for the project, if any.
cancel ==
    /\ open # None /\ busy
    /\ cancelled' = cancelled \cup {<<open, r>> : r \in {active[open]} \ {0}}
    /\ stopped' = stopped \cup ({registered[open]} \ {0})
    /\ Refresh(open)
    /\ UNCHANGED <<doc, shelf, open, generation, active, view, events, thread, registered, jobs>>

\* "Open 3D Viewer" is offered while no scene is shown.
loadViewer ==
    /\ Calm /\ open # None /\ view.status # "shown"
    /\ LoadView(open, generation)
    /\ UNCHANGED <<doc, shelf, open, generation, active, cancelled, busy, events, threadVars>>

\* set_profile and its like, here or in the thread of an import: the project
\* forgets its run; the same profile leaves its status.
Configure(p) ==
    /\ shelf[p] = "listed" /\ Idle(p) /\ doc[p].run # 0
    /\ \E status \in {"idle", doc[p].status} : Store(p, status, 0)
    /\ busy' = (busy /\ p # open)
    /\ UNCHANGED <<shelf, open, generation, active, cancelled, view, events, threadVars, jobs>>

\* ProjectSession.remove_project, and an empty view if p was open.
RemoveProject(p) ==
    /\ active' = [active EXCEPT ![p] = 0]
    /\ cancelled' = {c \in cancelled : c[1] # p}
    /\ IF open = p
       THEN Switch(None) /\ view' = Blank("none")
       ELSE UNCHANGED <<open, generation, view>>

deleteProject(p) ==
    /\ Calm /\ shelf[p] \in {"listed", "archived"} /\ Idle(p)
    /\ shelf' = [shelf EXCEPT ![p] = "trash"]
    /\ RemoveProject(p)
    /\ busy' = (open \notin {None, p} /\ doc[open].status = "running")
    /\ UNCHANGED <<doc, events, threadVars, jobs>>

setProjectArchived(p, archived) ==
    /\ Calm /\ shelf[p] = (IF archived THEN "listed" ELSE "archived") /\ Idle(p)
    /\ shelf' = [shelf EXCEPT ![p] = IF archived THEN "archived" ELSE "listed"]
    /\ IF archived THEN RemoveProject(p) ELSE UNCHANGED <<open, generation, view, active, cancelled>>
    /\ busy' = (open \notin {None, p} /\ doc[open].status = "running")
    /\ UNCHANGED <<doc, events, threadVars, jobs>>

\* Back to where it was when it was deleted.
restoreProject(p) ==
    /\ shelf[p] = "trash" /\ Idle(p)
    /\ \E place \in {"listed", "archived"} : shelf' = [shelf EXCEPT ![p] = place]
    /\ Refresh(open)
    /\ UNCHANGED <<doc, open, generation, active, cancelled, view, events, threadVars, jobs>>

Request(kind, p) ==
    /\ Calm /\ shelf[p] \in {"listed", "archived"}
    /\ jobs' = jobs \cup {[kind |-> kind, project |-> p, run |-> 0, generation |-> generation]}
    /\ UNCHANGED <<doc, shelf, sessionVars, events, threadVars>>

cleanupProject(p) == Request("cleanup", p)

\* Only if Projects has room for one more.
duplicateProject(p) == (\E c \in Projects : shelf[c] = "absent") /\ Request("copy", p)

-----------------------------------------------------------------------------
(* Threads *)

Advance(r, at) == thread' = [thread EXCEPT ![r].at = at]
\* The event of run thread r, with the identity it was started under.
Report(r, kind) == Post(Event(kind, thread[r].project, r, thread[r].generation, thread[r].good))

\* run refuses a project that is running here already, or is in the trash.
Register(r) ==
    LET p == thread[r].project IN
    /\ thread[r].at = "queued"
    /\ IF shelf[p] = "trash" \/ registered[p] # 0
       THEN Advance(r, "over") /\ Report(r, "run_failed") /\ UNCHANGED registered
       ELSE registered' = [registered EXCEPT ![p] = r] /\ Advance(r, "registered") /\ UNCHANGED events
    /\ UNCHANGED <<doc, shelf, sessionVars, stopped, jobs>>

\* The run lock is taken and the run recorded, or either fails.
Begin(r) ==
    LET p == thread[r].project IN
    /\ thread[r].at = "registered"
    /\ \/ /\ registered' = [registered EXCEPT ![p] = 0]
          /\ Advance(r, "over") /\ Report(r, "run_failed")
          /\ UNCHANGED doc
       \/ /\ shelf[p] # "trash" /\ doc[p].status # "running"
          /\ Store(p, "running", r)
          /\ Advance(r, "working") /\ Report(r, "stage")
          /\ UNCHANGED registered
    /\ UNCHANGED <<shelf, sessionVars, stopped, jobs>>

\* The run looks at its token for the last time.
LastLook(r) ==
    /\ thread[r].at = "working"
    /\ \E good \in BOOLEAN :
        /\ good => r \notin stopped
        /\ thread' = [thread EXCEPT ![r].at = "last", ![r].good = good]
    /\ UNCHANGED <<doc, shelf, sessionVars, events, registered, stopped, jobs>>

Record(r) ==
    /\ thread[r].at = "last"
    /\ Store(thread[r].project, IF thread[r].good THEN "succeeded" ELSE "ended", r)
    /\ Advance(r, "recorded")
    /\ UNCHANGED <<shelf, sessionVars, events, registered, stopped, jobs>>

Return(r) ==
    /\ thread[r].at = "recorded"
    /\ registered' = [registered EXCEPT ![thread[r].project] = 0]
    /\ Advance(r, "over") /\ Report(r, "complete")
    /\ UNCHANGED <<doc, shelf, sessionVars, stopped, jobs>>

\* What a loader reads is right or broken.
Load(j) ==
    /\ j \in jobs /\ j.kind = "load"
    /\ jobs' = jobs \ {j}
    /\ \E kind \in {"viewer_ready", "viewer_failed"} :
           Post(Event(kind, j.project, j.run, j.generation, TRUE))
    /\ UNCHANGED <<doc, shelf, sessionVars, threadVars>>

\* cleanup_project, which may fail.
Cleanup(j) ==
    /\ j \in jobs /\ j.kind = "cleanup"
    /\ jobs' = jobs \ {j}
    /\ \/ /\ shelf[j.project] # "trash" /\ Idle(j.project)
          /\ Store(j.project, "idle", 0)
          /\ Post(Event("lifecycle_cleanup_ready", j.project, 0, j.generation, TRUE))
       \/ UNCHANGED <<doc, events>>
    /\ UNCHANGED <<shelf, sessionVars, threadVars>>

\* duplicate: the copy of the inputs has no run, a complete one keeps it.
Copy(j) ==
    /\ j \in jobs /\ j.kind = "copy"
    /\ jobs' = jobs \ {j}
    /\ \/ \E c \in Projects, complete \in BOOLEAN :
            /\ shelf[j.project] # "trash" /\ Idle(j.project) /\ shelf[c] = "absent"
            /\ complete => Succeeded(j.project)
            /\ shelf' = [shelf EXCEPT ![c] = "listed"]
            /\ doc' = [doc EXCEPT ![c] = IF complete THEN doc[j.project] ELSE @]
            /\ Post([Event("lifecycle_duplicate_ready", j.project, 0, j.generation, complete)
                        EXCEPT !.other = c])
       \/ UNCHANGED <<doc, shelf, events>>
    /\ UNCHANGED <<sessionVars, threadVars>>

-----------------------------------------------------------------------------
(* handleEvent *)

\* The event belongs to what is open.
Addressed(e) == e.project = open /\ e.generation = generation

HandleLifecycle(e) ==
    /\ CASE Addressed(e) /\ e.kind = "lifecycle_duplicate_ready" ->
                IF shelf[e.other] = "listed"
                THEN Activate(e.other, e.good)
                ELSE UNCHANGED <<open, generation, view, busy, jobs>>
         [] Addressed(e) /\ e.kind = "lifecycle_cleanup_ready" ->
                Switch(open) /\ view' = Blank("none") /\ Refresh(open) /\ UNCHANGED jobs
         [] OTHER -> Refresh(open) /\ UNCHANGED <<open, generation, view, jobs>>
    /\ UNCHANGED <<active, cancelled>>

\* Mutant: whether the document still names the run is not asked.
AcceptsSession(e) == Addressed(e) /\ <<e.project, e.run>> \notin cancelled

\* ProjectSession.accepts, and the document still names the run.
Accepts(e) ==
    /\ Addressed(e) /\ <<e.project, e.run>> \notin cancelled
    /\ e.kind = "run_failed" \/ doc[e.project].run = e.run

\* Mutant: the result of a run is not loaded when it has succeeded.
PresentLater(e) ==
    CASE e.kind = "viewer_ready" ->
            /\ view' = [status |-> "shown", project |-> e.project, run |-> e.run,
                        generation |-> e.generation]
            /\ UNCHANGED jobs
      [] e.kind = "viewer_failed" -> view' = Blank("failed") /\ UNCHANGED jobs
      [] e.kind = "run_failed"    -> view' = Blank("none") /\ UNCHANGED jobs
      [] OTHER -> UNCHANGED <<view, jobs>>

\* What an accepted event shows.
Present(e) ==
    CASE e.kind = "viewer_ready" ->
            /\ view' = [status |-> "shown", project |-> e.project, run |-> e.run,
                        generation |-> e.generation]
            /\ UNCHANGED jobs
      [] e.kind = "viewer_failed" -> view' = Blank("failed") /\ UNCHANGED jobs
      [] e.kind = "run_failed"    -> view' = Blank("none") /\ UNCHANGED jobs
      [] e.kind = "complete" /\ e.good -> LoadView(open, generation)
      [] OTHER -> UNCHANGED <<view, jobs>>

\* Mutant: a run's end is forgotten before its event is examined only if it
\* is accepted.
HandleRunAccepted(e) ==
    /\ active' = IF e.kind \in {"complete", "run_failed"} /\ active[e.project] = e.run /\ Accepts(e)
                 THEN [active EXCEPT ![e.project] = 0] ELSE active
    /\ IF Accepts(e) THEN Present(e) ELSE UNCHANGED <<view, jobs>>
    /\ Refresh(open)
    /\ UNCHANGED <<open, generation, cancelled>>

HandleRun(e) ==
    /\ active' = IF e.kind \in {"complete", "run_failed"} /\ active[e.project] = e.run
                 THEN [active EXCEPT ![e.project] = 0] ELSE active
    /\ IF Accepts(e) THEN Present(e) ELSE UNCHANGED <<view, jobs>>
    /\ Refresh(open)
    /\ UNCHANGED <<open, generation, cancelled>>

handleEvent ==
    /\ events # <<>>
    /\ events' = Tail(events)
    /\ LET e == Head(events) IN
       IF e.kind \in {"lifecycle_cleanup_ready", "lifecycle_duplicate_ready"}
       THEN HandleLifecycle(e) ELSE HandleRun(e)
    /\ UNCHANGED <<doc, shelf, threadVars>>

-----------------------------------------------------------------------------

Slots ==
    \/ start \/ cancel \/ loadViewer
    \/ \E p \in Projects :
        \/ selectProject(p) \/ createProject(p) \/ Configure(p)
        \/ deleteProject(p) \/ restoreProject(p) \/ \E archived \in BOOLEAN : setProjectArchived(p, archived)
        \/ cleanupProject(p) \/ duplicateProject(p)

RunThread(r) == Register(r) \/ Begin(r) \/ LastLook(r) \/ Record(r) \/ Return(r)
Loader   == \E j \in jobs : Load(j)
OtherJob == \E j \in jobs : Cleanup(j) \/ Copy(j)

Next == Slots \/ (\E r \in Runs : RunThread(r)) \/ Loader \/ OtherJob \/ handleEvent

Spec == Init /\ [][Next]_vars

\* Threads are scheduled and Qt delivers what is posted; the user need not act.
FairSpec ==
    /\ Spec
    /\ \A r \in Runs : WF_vars(RunThread(r))
    /\ WF_vars(Loader) /\ WF_vars(OtherJob) /\ WF_vars(handleEvent)

-----------------------------------------------------------------------------
(* Properties *)

RunKinds == {"stage", "complete", "run_failed"}

\* The controller has the token of the run that is at work on a project, so
\* that Cancel reaches it however often Run was pressed; and what the
\* document records as running is at work.
ThreadInv ==
    \A r \in Runs :
        LET t == thread[r] IN
        /\ t.at = "none" => t.project = None
        /\ t.at \notin {"none", "over"} => t.project # None
        /\ t.project # None => shelf[t.project] # "absent"
        /\ \A p \in Projects :
            /\ registered[p] = r <=>
                   t.project = p /\ t.at \in {"registered", "working", "last", "recorded"}
            /\ doc[p] = [status |-> "running", run |-> r] <=> t.project = p /\ t.at \in {"working", "last"}
            /\ doc[p].status \in {"succeeded", "ended"} /\ doc[p].run = r => t.at \in {"recorded", "over"}

\* A run the session takes for active still reports, and for the project it
\* is of.
ActiveInv ==
    /\ \A p \in Projects, r \in Runs :
        active[p] = r =>
            /\ thread[r].project = p
            /\ \/ thread[r].at # "over"
               \/ \E k \in DOMAIN events :
                      events[k].run = r /\ events[k].kind \in {"complete", "run_failed"}
    /\ \A k \in DOMAIN events :
        events[k].kind \in RunKinds =>
            events[k].run # 0 /\ events[k].project = thread[events[k].run].project

\* A run whose scene is loaded is over, and if the project still has it, its
\* result is there.
Loadable(p, r) ==
    /\ r # 0 /\ shelf[p] # "absent" /\ thread[r].at \in {"recorded", "over"}
    /\ doc[p].run = r => doc[p].status = "succeeded"

\* The scene is of the open project in its present generation, and nothing
\* but a listed project is open.
ViewInv ==
    /\ open # None => shelf[open] = "listed"
    /\ view.run # 0 => view.project = open /\ view.generation = generation
    /\ \A j \in jobs : j.kind = "load" => Loadable(j.project, j.run)
    /\ \A k \in DOMAIN events :
        events[k].kind = "viewer_ready" => Loadable(events[k].project, events[k].run)

\* pipeline.py:814-818, project_session.py:58-60, main.py:1057-1064.
SessionInv == TypeOK /\ ThreadInv /\ ActiveInv /\ ViewInv

\* A run that has succeeded in the generation that is still shown.
Awaited(r) ==
    /\ open # None /\ thread[r].project = open /\ thread[r].generation = generation
    /\ doc[open] = [status |-> "succeeded", run |-> r]
    /\ <<open, r>> \notin cancelled

\* A loader is at work on the open project's run.
Loading(r) ==
    /\ open # None /\ view.status = "loading"
    /\ doc[open].run = r /\ <<open, r>> \notin cancelled
    /\ [kind |-> "load", project |-> open, run |-> r, generation |-> generation] \in jobs

\* The scene of a run that succeeds while the user watches appears, or the
\* viewer says why not; and a viewer that is loading comes to an end, unless
\* the project forgets the run or the run is cancelled after it has succeeded
\* (main.py:1044-1088).
ViewSettles ==
    \A r \in Runs :
        /\ Awaited(r) ~> (~ Awaited(r) \/ view.run = r \/ view.status = "failed")
        /\ Loading(r) ~> (view.status # "loading" \/ doc[open].run # r \/ <<open, r>> \in cancelled)

\* What the window promises about its scene (module Presentation): it is of
\* the open project, and when it appears it is the result of that project's
\* latest run, however late and in whatever order the loaders report.
Promise ==
    INSTANCE Presentation WITH
        result <- [p \in Projects |-> IF Succeeded(p) THEN doc[p].run ELSE 0],
        shown  <- <<view.project, view.run>>
PresentationSpec == Promise!Spec

=============================================================================
