----------------------------- MODULE VideoImport -----------------------------
(***************************************************************************)
(* The import of a video: the window's thread, which changes the transient *)
(* VideoImportSession (apps/desktop/video_import.py) and handles queued    *)
(* events, the preflight threads and the analysis threads                  *)
(* (apps/desktop/main.py:387-509, 1009-1038).                              *)
(*                                                                         *)
(* Every begin and every cancel starts a new generation; an event of an    *)
(* older one is dropped.  Every configuration is a new revision of its     *)
(* session; an analysis that finds a newer one starts over.  The session's *)
(* fields are shared without a lock, so the steps below are the reads and  *)
(* writes of them.                                                         *)
(*                                                                         *)
(* Abstractions: a session has the number of its generation; sampling data *)
(* is known by the configuration it describes and whether it is analysed;  *)
(* a rejected configuration and a commit that fails only set a message.    *)
(***************************************************************************)
EXTENDS Naturals, Sequences

CONSTANTS
    MaxGenerations,   \* bound: calls of beginVideoImport and cancelVideoImport
    MaxRevisions,     \* bound: configurations of a session, the initial one included
    MaxThreads        \* bound: analysis threads at a time

ASSUME BoundsAssumption ==
    MaxGenerations \in Nat /\ MaxRevisions \in Nat \ {0} /\ MaxThreads \in Nat

Sessions == 1..MaxGenerations
Threads  == 1..MaxThreads

VARIABLES
    generation,   \* import_generation
    session,      \* import_session, 0 for None
    running,      \* import_analysis_running
    target,       \* the project that was open at begin
    shown,        \* import_state
    gui,          \* "configuring" between two writes of configure
    probing,      \* generations with a preflight thread
    cancelled,    \* sessions that are cancelled
    revision,     \* _revision of each session, 0 before it exists
    sampling,     \* its sampling data
    thread,       \* the analysis threads
    events,       \* signals on their way to handleEvent
    durable       \* what the project was given by the last commit

windowVars == <<generation, session, running, target, shown, gui>>
vars == <<windowVars, probing, cancelled, revision, sampling, thread, events, durable>>

\* of is the revision whose configuration it is, 0 for none.
Samplings == [of: 0..MaxRevisions, complete: BOOLEAN]
Nothing == [of |-> 0, complete |-> FALSE]

Statuses == {"none", "preflight", "ready", "analyzing", "failed"}
Kinds == {"preflight_ready", "preflight_failed", "analysis_ready", "analysis_failed"}
Events == [kind: Kinds, generation: Sessions, sampling: Samplings]

\* A thread keeps the revision and the configuration it has read.
ThreadStates ==
    [at: {"off", "loop", "read", "work", "checked", "stored"}, session: 0..MaxGenerations,
     revision: 0..MaxRevisions, of: 0..MaxRevisions]
NoThread == [at |-> "off", session |-> 0, revision |-> 0, of |-> 0]

TypeOK ==
    /\ generation \in 0..MaxGenerations
    /\ session \in 0..MaxGenerations
    /\ running \in BOOLEAN
    /\ target \in {"none", "same", "changed"}
    /\ shown \in [status: Statuses, session: 0..MaxGenerations, sampling: Samplings]
    /\ gui \in {"idle", "configuring"}
    /\ probing \subseteq Sessions
    /\ cancelled \subseteq Sessions
    /\ revision \in [Sessions -> 0..MaxRevisions]
    /\ sampling \in [Sessions -> Samplings]
    /\ thread \in [Threads -> ThreadStates]
    /\ events \in Seq(Events)
    /\ durable \in [session: 0..MaxGenerations, of: 0..MaxRevisions]

Blank(status) == [status |-> status, session |-> 0, sampling |-> Nothing]

Init ==
    /\ generation = 0
    /\ session = 0
    /\ running = FALSE
    /\ target = "none"
    /\ shown = Blank("none")
    /\ gui = "idle"
    /\ probing = {}
    /\ cancelled = {}
    /\ revision = [s \in Sessions |-> 0]
    /\ sampling = [s \in Sessions |-> Nothing]
    /\ thread = [t \in Threads |-> NoThread]
    /\ events = <<>>
    /\ durable = [session |-> 0, of |-> 0]

-----------------------------------------------------------------------------
(* The window's slots *)

\* The current session is cancelled and forgotten.
Drop == cancelled' = cancelled \cup ({session} \ {0}) /\ session' = 0

beginVideoImport ==
    /\ gui = "idle" /\ generation < MaxGenerations
    /\ generation' = generation + 1
    /\ target' \in {"none", "same"}
    /\ Drop
    /\ shown' = Blank("preflight")
    /\ probing' = probing \cup {generation + 1}
    /\ UNCHANGED <<running, gui, revision, sampling, thread, events, durable>>

cancelVideoImport ==
    /\ gui = "idle" /\ generation < MaxGenerations
    /\ generation' = generation + 1
    /\ Drop
    /\ shown' = Blank("none")
    /\ running' = FALSE
    /\ target' = "none"
    /\ UNCHANGED <<gui, probing, revision, sampling, thread, events, durable>>

\* session.configure counts the revision first ...
configureVideoImport ==
    /\ gui = "idle" /\ session # 0 /\ revision[session] < MaxRevisions
    /\ revision' = [revision EXCEPT ![session] = @ + 1]
    /\ gui' = "configuring"
    /\ UNCHANGED <<generation, session, running, target, shown, probing, cancelled, sampling,
                   thread, events, durable>>

Launch(t, s) ==
    /\ thread[t].at = "off"
    /\ thread' = [thread EXCEPT ![t] = [NoThread EXCEPT !.at = "loop", !.session = s]]

\* What configuring leaves: pending data of the newest revision.
Configured ==
    LET pending == [of |-> revision[session], complete |-> FALSE] IN
    /\ gui = "configuring"
    /\ gui' = "idle"
    /\ sampling' = [sampling EXCEPT ![session] = pending]
    /\ shown' = [status |-> "analyzing", session |-> session, sampling |-> pending]
    /\ running' = TRUE
    /\ UNCHANGED <<generation, session, target, probing, cancelled, revision, events, durable>>

\* Mutant: every configuration starts a thread.
AnalyzeEach == Configured /\ \E t \in Threads : Launch(t, session)

\* ... and replaces the data then; the window starts a thread if none runs.
AnalyzeLatest ==
    /\ Configured
    /\ IF running THEN UNCHANGED thread ELSE \E t \in Threads : Launch(t, session)

\* When the window offers to generate: the button of Pro, and Easy by itself.
Offered == shown.status = "ready" /\ shown.sampling.complete

\* Without a target a new project takes the import.
generateVideoImport ==
    /\ gui = "idle" /\ Offered /\ session # 0 /\ sampling[session].complete
    /\ target # "changed"
    /\ durable' = [session |-> session, of |-> sampling[session].of]
    /\ Drop
    /\ shown' = Blank("none")
    /\ running' = FALSE
    /\ target' = "none"
    /\ UNCHANGED <<generation, gui, probing, revision, sampling, thread, events>>

\* The user opens another project or starts the open one.
SwitchProject ==
    /\ gui = "idle" /\ target = "same"
    /\ target' = "changed"
    /\ UNCHANGED <<generation, session, running, shown, gui, probing, cancelled, revision,
                   sampling, thread, events, durable>>

-----------------------------------------------------------------------------
(* handleEvent *)

\* Mutant: an event of an older generation is dropped as it is.
HandleStaleOnly(e) ==
    /\ e.generation # generation
    /\ UNCHANGED <<session, running, shown, cancelled>>

\* A session that comes too late is cancelled.
HandleStale(e) ==
    /\ e.generation # generation
    /\ cancelled' = IF e.kind = "preflight_ready" THEN cancelled \cup {e.generation} ELSE cancelled
    /\ UNCHANGED <<session, running, shown>>

HandleReady(e) ==
    /\ e.kind = "preflight_ready"
    /\ session' = e.generation
    /\ shown' = [status |-> "ready", session |-> e.generation, sampling |-> sampling[e.generation]]
    /\ UNCHANGED running

HandleAnalyzed(e) ==
    /\ e.kind = "analysis_ready"
    /\ running' = FALSE
    /\ shown' = [shown EXCEPT !.status = "ready", !.sampling = e.sampling]
    /\ UNCHANGED session

HandleFailed(e) ==
    /\ e.kind \in {"preflight_failed", "analysis_failed"}
    /\ running' = (running /\ e.kind = "preflight_failed")
    /\ shown' = [shown EXCEPT !.status = "failed"]
    /\ UNCHANGED session

\* Mutant: the generation is not looked at.
HandleCurrentAny(e) ==
    (HandleReady(e) \/ HandleAnalyzed(e) \/ HandleFailed(e)) /\ UNCHANGED cancelled

HandleCurrent(e) ==
    /\ e.generation = generation
    /\ HandleReady(e) \/ HandleAnalyzed(e) \/ HandleFailed(e)
    /\ UNCHANGED cancelled

handleEvent ==
    /\ gui = "idle" /\ events # <<>>
    /\ HandleStale(Head(events)) \/ HandleCurrent(Head(events))
    /\ events' = Tail(events)
    /\ UNCHANGED <<generation, target, gui, probing, revision, sampling, thread, durable>>

-----------------------------------------------------------------------------
(* The preflight threads *)

Emit(k, g, data) == events' = Append(events, [kind |-> k, generation |-> g, sampling |-> data])

\* A VideoImportSession configures itself once when it is made.
Preflight(g) ==
    /\ g \in probing
    /\ probing' = probing \ {g}
    /\ \/ /\ revision' = [revision EXCEPT ![g] = 1]
          /\ sampling' = [sampling EXCEPT ![g].of = 1]
          /\ Emit("preflight_ready", g, Nothing)
       \/ Emit("preflight_failed", g, Nothing) /\ UNCHANGED <<revision, sampling>>
    /\ UNCHANGED <<windowVars, cancelled, thread, durable>>

-----------------------------------------------------------------------------
(* The analysis threads: analyze_latest and VideoImportSession.analyze *)

At(t, a) == thread' = [thread EXCEPT ![t].at = a]
Ends(t)  == thread' = [thread EXCEPT ![t] = NoThread]

\* Mutant: the loop does not ask whether it is still wanted.
LoopOn(t) ==
    /\ thread[t].at = "loop"
    /\ thread' = [thread EXCEPT ![t].at = "read", ![t].revision = revision[thread[t].session]]
    /\ UNCHANGED <<windowVars, probing, cancelled, revision, sampling, events, durable>>

\* The loop's condition, and the revision is read.
Loop(t) ==
    LET s == thread[t].session IN
    /\ thread[t].at = "loop"
    /\ IF session = s /\ s \notin cancelled
       THEN thread' = [thread EXCEPT ![t].at = "read", ![t].revision = revision[s]]
       ELSE Ends(t)
    /\ UNCHANGED <<windowVars, probing, cancelled, revision, sampling, events, durable>>

Snapshot(t) ==
    /\ thread[t].at = "read"
    /\ thread' = [thread EXCEPT ![t].at = "work", ![t].of = sampling[thread[t].session].of]
    /\ UNCHANGED <<windowVars, probing, cancelled, revision, sampling, events, durable>>

\* Mutant: an analysis is not interrupted by a newer configuration.
ObsoleteNever(t) == FALSE

Obsolete(t) == thread[t].revision # revision[thread[t].session]

\* analyze_video: interrupted between two frames, complete, or failed.
Work(t) ==
    LET s == thread[t].session IN
    /\ thread[t].at = "work"
    /\ \/ (Obsolete(t) \/ s \in cancelled) /\ At(t, "loop") /\ UNCHANGED events
       \/ ~ Obsolete(t) /\ At(t, "checked") /\ UNCHANGED events
       \/ Emit("analysis_failed", s, Nothing) /\ Ends(t)
    /\ UNCHANGED <<windowVars, probing, cancelled, revision, sampling, durable>>

\* self.sampling.update(result), whatever self.sampling is by now.
Store(t) ==
    LET th == thread[t] IN
    /\ th.at = "checked"
    /\ sampling' = [sampling EXCEPT ![th.session] = [of |-> th.of, complete |-> TRUE]]
    /\ At(t, "stored")
    /\ UNCHANGED <<windowVars, probing, cancelled, revision, events, durable>>

Report(t) ==
    LET s == thread[t].session IN
    /\ thread[t].at = "stored"
    /\ Emit("analysis_ready", s, sampling[s])
    /\ Ends(t)
    /\ UNCHANGED <<windowVars, probing, cancelled, revision, sampling, durable>>

-----------------------------------------------------------------------------

Window ==
    \/ beginVideoImport \/ cancelVideoImport \/ configureVideoImport \/ AnalyzeLatest
    \/ generateVideoImport \/ SwitchProject \/ handleEvent
Analysis(t) == Loop(t) \/ Snapshot(t) \/ Work(t) \/ Store(t) \/ Report(t)

Next ==
    \/ Window
    \/ \E g \in Sessions : Preflight(g)
    \/ \E t \in Threads : Analysis(t)

Spec == Init /\ [][Next]_vars

\* The threads run.
FairSpec == Spec /\ \A t \in Threads : WF_vars(Analysis(t))

-----------------------------------------------------------------------------
(* Properties *)

\* Nobody loses a session: one that was made is the current one, cancelled -
\* and its temporary directory with it - or on its way to the window
\* (main.py:392-394, 1010-1014).
NoSessionLost ==
    \A s \in Sessions :
        revision[s] # 0 =>
            \/ s = session
            \/ s \in cancelled
            \/ \E n \in DOMAIN events : events[n].kind = "preflight_ready" /\ events[n].generation = s

\* "The single analysis worker" (docs/adr/P2.7.md:22): no session is analysed
\* by two threads, and a thread of the current session is known to the window.
SingleWorker ==
    /\ \A t, u \in Threads :
        thread[t].at # "off" /\ thread[u].at # "off" /\ thread[t].session = thread[u].session => t = u
    /\ \A t \in Threads : thread[t].at # "off" /\ thread[t].session = session => running

\* What the window shows of an import belongs to the current session; one
\* that was replaced or cancelled shows nothing any more, however late its
\* threads report (main.py:1010-1014).
ShownIsCurrent ==
    /\ shown.session = session
    /\ session # 0 => session = generation /\ session \notin cancelled
    /\ session = 0 => shown.status # "ready" /\ shown.sampling = Nothing

\* The session is configured while a thread of it waits to begin or works on
\* the frames, not while it reads the revision and the configuration, or
\* between its last look at the revision and its end (video_import.py:97-98,
\* 117-120): nothing in the code excludes that.
ConfiguredApart ==
    gui = "configuring" =>
        \A t \in Threads : thread[t].session = session => thread[t].at \in {"loop", "work"}

\* "The single analysis worker abandons an obsolete revision and analyzes the
\* newest snapshot" (docs/adr/P2.7.md:22-24): however often an import is
\* configured and its analysis interrupted, the project is given the frames
\* of its newest configuration, as long as configurations and analyses do not
\* meet where the code leaves a gap (ConfiguredApart).
GivenIsNewest == durable.session # 0 => durable.of = revision[durable.session]
GeneratesNewest == []ConfiguredApart => []GivenIsNewest

\* The thread of a session that was replaced or cancelled ends.
DroppedWorkerEnds ==
    \A t \in Threads :
        (thread[t].at # "off" /\ thread[t].session # session) ~> thread[t].at = "off"

Results == {"analysis_ready", "analysis_failed"}
EventOf(g) == {n \in DOMAIN events : events[n].generation = g}
ThreadOf(g) == {t \in Threads : thread[t].at # "off" /\ thread[t].session = g}

\* A session is in one place: its preflight runs, an event of it is on its
\* way, or it is analysed.  None is ahead of the generations, and one the
\* window has yet to hear of is neither current nor cancelled.
PlaceInv ==
    /\ \A t \in Threads : thread[t].at # "off" =>
           thread[t].session \in (1..generation) \ probing /\ EventOf(thread[t].session) = {}
    /\ \A m, n \in DOMAIN events : events[m].generation = events[n].generation => m = n
    /\ \A n \in DOMAIN events :
           /\ events[n].generation \in (1..generation) \ probing
           /\ events[n].kind \notin Results => events[n].generation \notin cancelled \cup {session}
    /\ \A g \in probing : g \in (1..generation) \ (cancelled \cup {session}) /\ revision[g] = 0
    /\ cancelled \subseteq 1..generation
    /\ \A g \in Sessions : g > generation => revision[g] = 0

\* Work for the current session is known to the window, and over when the
\* window shows a result or has no session.
WorkInv ==
    /\ \A n \in DOMAIN events : events[n].kind \in Results /\ events[n].generation = session => running
    /\ session = 0 \/ shown.status = "ready" =>
           /\ ThreadOf(generation) = {}
           /\ \A n \in EventOf(generation) : events[n].kind \notin Results
    /\ gui = "configuring" => session # 0

\* A result that is on its way or shown is what the session has, unless that
\* is incomplete by now.
ResultInv ==
    /\ \A n \in DOMAIN events :
           LET g == events[n].generation IN
           events[n].kind = "analysis_ready" /\ sampling[g].complete => events[n].sampling = sampling[g]
    /\ session # 0 /\ shown.status = "ready" /\ sampling[session].complete
           /\ shown.sampling.complete => shown.sampling = sampling[session]

ImportInv == TypeOK /\ SingleWorker /\ PlaceInv /\ WorkInv /\ ResultInv

=============================================================================
