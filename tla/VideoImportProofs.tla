-------------------------- MODULE VideoImportProofs --------------------------
(***************************************************************************)
(* What TLAPS proves of VideoImport, for any number of generations,        *)
(* revisions and threads.                                                  *)
(*                                                                         *)
(* The argument: a session is in one place at a time (PlaceInv), so when   *)
(* its result is handled no thread of it works any more, and the next      *)
(* thread may start; what a thread reports stays what the session has      *)
(* until the session is configured again (ResultInv).                      *)
(***************************************************************************)
EXTENDS VideoImport, TLAPS

IInv == ImportInv /\ NoSessionLost /\ ShownIsCurrent

Parts == TypeOK /\ SingleWorker /\ PlaceInv /\ WorkInv /\ ResultInv /\ NoSessionLost /\ ShownIsCurrent

LEMMA IInvIsParts == IInv <=> Parts
    BY DEF IInv, Parts, ImportInv

-----------------------------------------------------------------------------
(* Events and threads *)

LEMMA EventType ==
    ASSUME TypeOK, NEW n \in DOMAIN events
    PROVE  events[n] \in Events
    BY DEF TypeOK

LEMMA Appended ==
    ASSUME TypeOK, NEW k \in Kinds, NEW g \in Sessions, NEW d \in Samplings, Emit(k, g, d)
    PROVE  /\ events' \in Seq(Events)
           /\ \A n \in DOMAIN events : n \in DOMAIN events' /\ events'[n] = events[n]
           /\ \A n \in DOMAIN events' \ DOMAIN events :
                  n = Len(events) + 1 /\ events'[n] = [kind |-> k, generation |-> g, sampling |-> d]
           /\ Len(events) + 1 \in DOMAIN events' \ DOMAIN events
    <1> DEFINE e == [kind |-> k, generation |-> g, sampling |-> d]
    <1>1. e \in Events /\ events \in Seq(Events) /\ events' = Append(events, e)
        BY DEF TypeOK, Emit, Events
    <1> HIDE DEF e
    <1>2. /\ events' \in Seq(Events) /\ Len(events') = Len(events) + 1
          /\ \A n \in 1..Len(events) : events'[n] = events[n]
          /\ events'[Len(events) + 1] = e
        BY <1>1
    <1>3. DOMAIN events = 1..Len(events) /\ DOMAIN events' = 1..(Len(events) + 1) /\ Len(events) \in Nat
        BY <1>1, <1>2
    <1> QED  BY <1>2, <1>3 DEF e

LEMMA Removed ==
    ASSUME TypeOK, events # <<>>, events' = Tail(events)
    PROVE  /\ events' \in Seq(Events) /\ 1 \in DOMAIN events /\ Head(events) = events[1]
           /\ \A n \in DOMAIN events' :
                  n + 1 \in DOMAIN events \ {1} /\ events'[n] = events[n + 1] /\ n \in Nat
           /\ \A n \in DOMAIN events \ {1} : n - 1 \in DOMAIN events' /\ events'[n - 1] = events[n]
    <1>1. events \in Seq(Events)
        BY DEF TypeOK
    <1>2. /\ events' \in Seq(Events) /\ Len(events') = Len(events) - 1
          /\ Len(events) \in Nat /\ Len(events) > 0 /\ Head(events) = events[1]
          /\ \A n \in 1..Len(events') : events'[n] = events[n + 1]
        BY <1>1
    <1>3. DOMAIN events = 1..Len(events) /\ DOMAIN events' = 1..(Len(events) - 1)
        BY <1>1, <1>2
    <1>4. \A n \in DOMAIN events \ {1} :
              /\ n - 1 \in 1..Len(events') /\ n - 1 + 1 = n
        BY <1>2, <1>3
    <1> QED  BY <1>2, <1>3, <1>4

LEMMA ThreadChange ==
    ASSUME TypeOK, NEW t \in Threads, NEW th \in ThreadStates, thread' = [thread EXCEPT ![t] = th]
    PROVE  /\ thread' \in [Threads -> ThreadStates] /\ thread'[t] = th
           /\ \A u \in Threads : u # t => thread'[u] = thread[u]
    BY DEF TypeOK

LEMMA NoThreadType == NoThread \in ThreadStates /\ NoThread.at = "off"
    BY BoundsAssumption DEF NoThread, ThreadStates

LEMMA NewThread ==
    ASSUME NEW s \in 0..MaxGenerations
    PROVE  LET th == [NoThread EXCEPT !.at = "loop", !.session = s] IN
           th \in ThreadStates /\ th.at = "loop" /\ th.session = s
    <1>1. NoThread \in ThreadStates
        BY NoThreadType
    <1> QED  BY <1>1 DEF ThreadStates

LEMMA NothingType == Nothing \in Samplings /\ Nothing.complete = FALSE /\ Nothing.of = 0
    BY BoundsAssumption DEF Nothing, Samplings

LEMMA BlankIs ==
    ASSUME NEW s \in Statuses
    PROVE  /\ Blank(s) \in [status: Statuses, session: 0..MaxGenerations, sampling: Samplings]
           /\ Blank(s).status = s /\ Blank(s).session = 0 /\ Blank(s).sampling = Nothing
    BY NothingType, BoundsAssumption DEF Blank

\* The current session is a session or none.
LEMMA CurrentIs ==
    ASSUME Parts
    PROVE  /\ generation \in Nat /\ generation <= MaxGenerations /\ session \in 0..generation
           /\ 1..generation \subseteq Sessions
           /\ session # 0 => session = generation /\ session \in Sessions
    BY BoundsAssumption DEF Parts, TypeOK, ShownIsCurrent, Sessions

-----------------------------------------------------------------------------
(* The window's slots *)

\* The current session is dropped, and what may come of it is too late, with
\* a new generation or because nothing is under way.
LEMMA DropKeeps ==
    ASSUME Parts, Drop, generation' \in 0..MaxGenerations,
           \/ generation' = generation + 1 /\ probing' \subseteq probing \cup {generation + 1}
           \/ generation' = generation /\ probing' = probing /\ shown.status = "ready",
           shown' \in {Blank("preflight"), Blank("none")}, running' \in BOOLEAN, gui' = "idle",
           target' \in {"none", "same", "changed"},
           durable' \in [session: 0..MaxGenerations, of: 0..MaxRevisions],
           UNCHANGED <<revision, sampling, thread, events>>
    PROVE  Parts'
    <1> USE DEF Parts
    <1>1. /\ session' = 0 /\ cancelled' = cancelled \cup ({session} \ {0})
          /\ generation \in Nat /\ generation' \in Nat /\ generation <= generation'
          /\ session # 0 => session = generation /\ session \in Sessions
          /\ session \in 0..generation
        BY CurrentIs, BoundsAssumption DEF Drop
    <1>2. /\ shown' \in [status: Statuses, session: 0..MaxGenerations, sampling: Samplings]
          /\ shown'.status \in {"preflight", "none"} /\ shown'.session = 0 /\ shown'.sampling = Nothing
        <2>1. "preflight" \in Statuses /\ "none" \in Statuses
            BY DEF Statuses
        <2> QED  BY <2>1, BlankIs
    <1>3. probing' \subseteq Sessions
        <2>1. probing \subseteq Sessions
            BY DEF TypeOK
        <2>2. generation' = generation + 1 => generation + 1 \in Sessions
            BY <1>1, BoundsAssumption DEF Sessions
        <2> QED  BY <2>1, <2>2
    <1>4. TypeOK'
        BY <1>1, <1>2, <1>3 DEF TypeOK
    <1>5. SingleWorker'
        BY <1>1 DEF SingleWorker, TypeOK, PlaceInv
    <1>6. \A n \in DOMAIN events : events[n].generation \in Nat /\ events[n].generation <= generation
        BY DEF PlaceInv
    <1>7. \A t \in Threads : thread[t].at # "off" =>
              thread[t].session \in Nat /\ thread[t].session <= generation
        BY DEF PlaceInv
    <1>8. PlaceInv'
        <2>1. \A g \in 1..generation : g \in 1..generation' /\ (g \in probing' => g \in probing)
            BY <1>1
        <2>2. \A t \in Threads : thread'[t].at # "off" =>
                  /\ thread'[t].session \in (1..generation') \ probing'
                  /\ EventOf(thread[t].session)' = {}
            BY <2>1 DEF PlaceInv, EventOf
        <2>3. \A n \in DOMAIN events' :
                  /\ events'[n].generation \in (1..generation') \ probing'
                  /\ events'[n].kind \notin Results => events'[n].generation \notin cancelled' \cup {session'}
            BY <1>1, <2>1 DEF PlaceInv
        <2>4. cancelled' \subseteq 1..generation'
            BY <1>1, <2>1 DEF PlaceInv
        <2>5. \A g \in Sessions : g > generation' => revision'[g] = 0
            BY <1>1 DEF PlaceInv, Sessions
        <2>6. \A g \in probing' : g \in (1..generation') \ (cancelled' \cup {session'}) /\ revision'[g] = 0
            <3>1. \A g \in probing : g \in (1..generation') \ (cancelled' \cup {session'}) /\ revision'[g] = 0
                BY <1>1, <2>1 DEF PlaceInv
            <3>2. ASSUME generation' = generation + 1
                  PROVE  /\ generation + 1 \in (1..generation') \ (cancelled' \cup {session'})
                         /\ revision'[generation + 1] = 0
                <4>1. generation + 1 \in Sessions /\ generation + 1 > generation
                    BY <1>1, <3>2, BoundsAssumption DEF Sessions
                <4>2. generation + 1 \notin 1..generation
                    BY <1>1
                <4> QED  BY <1>1, <3>2, <4>1, <4>2 DEF PlaceInv
            <3> QED  BY <3>1, <3>2
        <2> QED  BY <2>2, <2>3, <2>4, <2>5, <2>6 DEF PlaceInv
    <1>9. WorkInv'
        <2>1. ThreadOf(generation)' = {} /\ \A n \in EventOf(generation)' : events'[n].kind \notin Results
            <3>1. CASE generation' = generation + 1
                BY <1>1, <1>6, <1>7, <3>1 DEF ThreadOf, EventOf
            <3>2. CASE generation' = generation /\ shown.status = "ready"
                BY <3>2 DEF WorkInv, ThreadOf, EventOf
            <3> QED  BY <3>1, <3>2
        <2>2. \A n \in DOMAIN events' : events'[n].generation # session'
            BY <1>1 DEF PlaceInv
        <2> QED  BY <2>1, <2>2 DEF WorkInv, ThreadOf, EventOf
    <1>10. ResultInv'
        BY <1>1 DEF ResultInv
    <1>11. NoSessionLost'
        BY <1>1 DEF NoSessionLost
    <1>12. ShownIsCurrent'
        BY <1>1, <1>2 DEF ShownIsCurrent
    <1> QED  BY <1>4, <1>5, <1>8, <1>9, <1>10, <1>11, <1>12

LEMMA beginKeeps ==
    ASSUME Parts, beginVideoImport
    PROVE  Parts'
    <1>1. generation' \in 0..MaxGenerations /\ TypeOK
        BY BoundsAssumption DEF Parts, TypeOK, beginVideoImport
    <1> QED  BY <1>1, DropKeeps DEF beginVideoImport, TypeOK

LEMMA cancelKeeps ==
    ASSUME Parts, cancelVideoImport
    PROVE  Parts'
    <1>1. generation' \in 0..MaxGenerations /\ TypeOK
        BY BoundsAssumption DEF Parts, TypeOK, cancelVideoImport
    <1> QED  BY <1>1, DropKeeps DEF cancelVideoImport, TypeOK

LEMMA generateKeeps ==
    ASSUME Parts, generateVideoImport
    PROVE  Parts'
    <1>1. /\ Drop /\ shown.status = "ready" /\ shown' = Blank("none") /\ running' = FALSE
          /\ target' = "none" /\ gui = "idle"
          /\ durable' = [session |-> session, of |-> sampling[session].of]
          /\ UNCHANGED <<generation, gui, probing, revision, sampling, thread, events>>
        BY DEF generateVideoImport, Offered
    <1>2. TypeOK /\ session \in Sessions
        BY CurrentIs DEF Parts, generateVideoImport
    <1>3. sampling[session] \in Samplings /\ session \in 0..MaxGenerations
        BY <1>2 DEF TypeOK
    <1>4. sampling[session].of \in 0..MaxRevisions
        BY <1>3 DEF Samplings
    <1>5. durable' \in [session: 0..MaxGenerations, of: 0..MaxRevisions]
        BY <1>1, <1>3, <1>4
    <1>6. generation' \in 0..MaxGenerations
        BY <1>1, <1>2 DEF TypeOK
    <1> QED  BY <1>1, <1>5, <1>6, DropKeeps

LEMMA switchKeeps ==
    ASSUME Parts, SwitchProject
    PROVE  Parts'
    BY DEF Parts, SwitchProject, TypeOK, SingleWorker, PlaceInv, EventOf, WorkInv, ThreadOf, ResultInv,
           NoSessionLost, ShownIsCurrent

LEMMA configureKeeps ==
    ASSUME Parts, configureVideoImport
    PROVE  Parts'
    <1> USE DEF Parts
    <1>1. /\ gui = "idle" /\ session # 0 /\ session = generation /\ session \in Sessions
          /\ revision[session] < MaxRevisions
          /\ revision' = [revision EXCEPT ![session] = @ + 1] /\ gui' = "configuring"
          /\ UNCHANGED <<generation, session, running, target, shown, probing, cancelled, sampling,
                         thread, events, durable>>
        BY CurrentIs DEF configureVideoImport
    <1>2. /\ revision' \in [Sessions -> 0..MaxRevisions]
          /\ \A g \in Sessions : g # session => revision'[g] = revision[g]
        <2>1. revision[session] + 1 \in 0..MaxRevisions
            BY <1>1, BoundsAssumption DEF TypeOK
        <2> QED  BY <1>1, <2>1 DEF TypeOK
    <1>3. TypeOK'
        BY <1>1, <1>2 DEF TypeOK
    <1>4. SingleWorker'
        BY <1>1 DEF SingleWorker
    <1>5. PlaceInv'
        <2>1. \A g \in probing' : revision'[g] = 0
            BY <1>1, <1>2 DEF PlaceInv, TypeOK
        <2>2. \A g \in Sessions : g > generation' => revision'[g] = 0
            BY <1>1, <1>2, CurrentIs DEF PlaceInv
        <2> QED  BY <1>1, <2>1, <2>2 DEF PlaceInv, EventOf
    <1>6. WorkInv' /\ ResultInv' /\ ShownIsCurrent'
        BY <1>1 DEF WorkInv, ThreadOf, EventOf, ResultInv, ShownIsCurrent
    <1>7. NoSessionLost'
        BY <1>1, <1>2 DEF NoSessionLost
    <1> QED  BY <1>3, <1>4, <1>5, <1>6, <1>7

LEMMA analyzeKeeps ==
    ASSUME Parts, AnalyzeLatest
    PROVE  Parts'
    <1> USE DEF Parts
    <1> DEFINE pending == [of |-> revision[session], complete |-> FALSE]
    <1> DEFINE new == [status |-> "analyzing", session |-> session, sampling |-> pending]
    <1>1. /\ gui = "configuring" /\ gui' = "idle" /\ running' = TRUE
          /\ sampling' = [sampling EXCEPT ![session] = pending] /\ shown' = new
          /\ UNCHANGED <<generation, session, target, probing, cancelled, revision, events, durable>>
        BY DEF AnalyzeLatest, Configured
    <1>2. session # 0 /\ session = generation /\ session \in Sessions /\ session \in 1..generation
        BY <1>1, CurrentIs DEF WorkInv
    <1>3. pending \in Samplings /\ pending.complete = FALSE
        BY <1>2 DEF TypeOK, Samplings
    <1>4. /\ new \in [status: Statuses, session: 0..MaxGenerations, sampling: Samplings]
          /\ new.status = "analyzing" /\ new.session = session
        BY <1>2, <1>3 DEF TypeOK, Statuses
    <1> HIDE DEF pending, new
    <1>5. /\ sampling' \in [Sessions -> Samplings] /\ sampling'[session] = pending
          /\ \A g \in Sessions : g # session => sampling'[g] = sampling[g]
        BY <1>1, <1>2, <1>3 DEF TypeOK
    <1>6. \/ thread' = thread
          \/ \E t \in Threads : ~ running /\ Launch(t, session)
        BY DEF AnalyzeLatest
    <1>7. WorkInv' /\ ShownIsCurrent'
        BY <1>1, <1>2, <1>4 DEF WorkInv, ShownIsCurrent
    <1>8. ResultInv'
        <2>1. ASSUME NEW n \in DOMAIN events', events'[n].kind = "analysis_ready",
                     sampling'[events'[n].generation].complete
              PROVE  events'[n].sampling = sampling'[events'[n].generation]
            <3>1. events'[n] = events[n] /\ events[n].generation \in Sessions /\ n \in DOMAIN events
                BY <1>1, <2>1, EventType DEF Events
            <3>2. events[n].generation # session
                BY <1>3, <1>5, <2>1, <3>1
            <3> QED  BY <1>5, <2>1, <3>1, <3>2 DEF ResultInv
        <2> QED  BY <1>1, <1>4, <2>1 DEF ResultInv
    <1>9. NoSessionLost'
        BY <1>1 DEF NoSessionLost
    <1>10. CASE thread' = thread
        <2>1. TypeOK'
            BY <1>1, <1>4, <1>5, <1>10 DEF TypeOK
        <2>2. SingleWorker' /\ PlaceInv'
            BY <1>1, <1>10 DEF SingleWorker, PlaceInv, EventOf
        <2> QED  BY <1>7, <1>8, <1>9, <2>1, <2>2
    <1>11. ASSUME NEW t \in Threads, ~ running, Launch(t, session)
           PROVE  Parts'
        <2> DEFINE th == [NoThread EXCEPT !.at = "loop", !.session = session]
        <2>1. th \in ThreadStates /\ th.at = "loop" /\ th.session = session
            <3>1. session \in 0..MaxGenerations
                BY DEF TypeOK
            <3> QED  BY <3>1, NewThread
        <2>2. thread' = [thread EXCEPT ![t] = th]
            BY <1>11 DEF Launch
        <2> HIDE DEF th
        <2>3. /\ thread' \in [Threads -> ThreadStates] /\ thread'[t] = th
              /\ \A u \in Threads : u # t => thread'[u] = thread[u]
            BY <2>1, <2>2, ThreadChange
        <2>4. TypeOK'
            BY <1>1, <1>4, <1>5, <2>3 DEF TypeOK
        <2>5. \A u \in Threads : thread[u].at # "off" => thread[u].session # session
            BY <1>11 DEF SingleWorker
        <2>6. SingleWorker'
            BY <1>1, <2>1, <2>3, <2>5 DEF SingleWorker
        <2>7. EventOf(session) = {}
            <3>1. \A n \in DOMAIN events : events[n].generation # session
                BY <1>11 DEF WorkInv, PlaceInv
            <3> QED  BY <3>1 DEF EventOf
        <2>8. session \notin probing
            BY DEF PlaceInv
        <2>9. PlaceInv'
            BY <1>1, <1>2, <2>1, <2>3, <2>7, <2>8 DEF PlaceInv, EventOf
        <2> QED  BY <1>7, <1>8, <1>9, <2>4, <2>6, <2>9
    <1> QED  BY <1>6, <1>10, <1>11

-----------------------------------------------------------------------------
(* handleEvent *)

LEMMA handleKeeps ==
    ASSUME Parts, handleEvent
    PROVE  Parts'
    <1> USE DEF Parts
    <1> DEFINE e == events[1]
    <1> DEFINE g == e.generation
    <1>1. /\ gui = "idle" /\ events # <<>> /\ events' = Tail(events)
          /\ UNCHANGED <<generation, target, gui, probing, revision, sampling, thread, durable>>
        BY DEF handleEvent
    <1>2. /\ events' \in Seq(Events) /\ 1 \in DOMAIN events /\ Head(events) = e
          /\ \A n \in DOMAIN events' :
                 n + 1 \in DOMAIN events \ {1} /\ events'[n] = events[n + 1] /\ n \in Nat
          /\ \A n \in DOMAIN events \ {1} : n - 1 \in DOMAIN events' /\ events'[n - 1] = events[n]
        BY <1>1, Removed
    <1>3. e \in Events /\ g \in Sessions /\ e.kind \in Kinds /\ e.sampling \in Samplings
        BY <1>2, EventType DEF Events
    <1>4. HandleStale(e) \/ HandleCurrent(e)
        BY <1>2 DEF handleEvent
    <1> HIDE DEF e
    \* No other event is about g, and its session is neither analysed nor probed.
    <1>5. \A n \in DOMAIN events' : events'[n].generation # g
        BY <1>2 DEF PlaceInv, e
    <1>6. /\ g \in (1..generation) \ probing /\ \A t \in Threads : thread[t].at # "off" => thread[t].session # g
          /\ e.kind \notin Results => g \notin cancelled \cup {session}
          /\ e.kind \in Results /\ g = session => running
        BY <1>2 DEF PlaceInv, WorkInv, EventOf, e
    <1> HIDE DEF g
    <1>7. \A n \in DOMAIN events' : \E m \in DOMAIN events : events'[n] = events[m]
        BY <1>2
    <1>8. \A t \in Threads : EventOf(thread[t].session) = {} => EventOf(thread[t].session)' = {}
        BY <1>1, <1>7 DEF EventOf
    \* What is left of the queue.
    <1>9. /\ \A m, n \in DOMAIN events' : events'[m].generation = events'[n].generation => m = n
          /\ \A n \in DOMAIN events' :
                 /\ events'[n].generation \in (1..generation) \ probing
                 /\ events'[n].kind \notin Results => events'[n].generation \notin cancelled \cup {session}
        <2>1. ASSUME NEW m \in DOMAIN events', NEW n \in DOMAIN events',
                     events'[m].generation = events'[n].generation
              PROVE  m = n
            <3>1. m + 1 = n + 1 /\ m \in Nat /\ n \in Nat
                BY <1>2, <2>1 DEF PlaceInv
            <3> QED  BY <3>1
        <2> QED  BY <1>7, <2>1 DEF PlaceInv
    <1>10. ASSUME cancelled' = cancelled \cup {g} \/ cancelled' = cancelled,
                  session' = session \/ session' = g
           PROVE  /\ \A t \in Threads : thread'[t].at # "off" =>
                         /\ thread'[t].session \in (1..generation') \ probing'
                         /\ EventOf(thread[t].session)' = {}
                  /\ \A m, n \in DOMAIN events' : events'[m].generation = events'[n].generation => m = n
                  /\ \A n \in DOMAIN events' :
                         /\ events'[n].generation \in (1..generation') \ probing'
                         /\ events'[n].kind \notin Results => events'[n].generation \notin cancelled' \cup {session'}
                  /\ \A h \in probing' : h \in (1..generation') \ (cancelled' \cup {session'}) /\ revision'[h] = 0
                  /\ cancelled' \subseteq 1..generation'
                  /\ \A h \in Sessions : h > generation' => revision'[h] = 0
        <2>1. \A t \in Threads : thread'[t].at # "off" =>
                         /\ thread'[t].session \in (1..generation') \ probing'
                         /\ EventOf(thread[t].session)' = {}
            BY <1>1, <1>8 DEF PlaceInv
        <2>2. \A n \in DOMAIN events' :
                  events'[n].kind \notin Results => events'[n].generation \notin cancelled' \cup {session'}
            BY <1>5, <1>9, <1>10
        <2>3. \A h \in probing' : h \in (1..generation') \ (cancelled' \cup {session'}) /\ revision'[h] = 0
            BY <1>1, <1>6, <1>10 DEF PlaceInv
        <2>4. cancelled' \subseteq 1..generation'
            BY <1>1, <1>6, <1>10 DEF PlaceInv
        <2> QED  BY <1>1, <1>9, <2>1, <2>2, <2>3, <2>4 DEF PlaceInv
    <1>11. ASSUME cancelled' = cancelled \cup {g} \/ cancelled' = cancelled,
                  session' = session \/ session' = g
           PROVE  PlaceInv'
        BY <1>1, <1>10, <1>11 DEF PlaceInv, EventOf
    <1>12. ASSUME session' = session \/ session' = g, g \in cancelled' \/ g = session' \/ e.kind # "preflight_ready",
                  cancelled \subseteq cancelled', session # session' => session = 0
           PROVE  NoSessionLost'
        <2>1. ASSUME NEW s \in Sessions, revision'[s] # 0, s # session', s \notin cancelled'
              PROVE  \E n \in DOMAIN events' : events'[n].kind = "preflight_ready" /\ events'[n].generation = s
            <3>1. PICK n \in DOMAIN events : events[n].kind = "preflight_ready" /\ events[n].generation = s
                BY <1>1, <1>12, <2>1, BoundsAssumption DEF NoSessionLost, Sessions
            <3>2. n # 1
                BY <1>12, <2>1, <3>1 DEF e, g
            <3> QED  BY <1>2, <3>1, <3>2
        <2> QED  BY <2>1 DEF NoSessionLost
    <1>13. \A n \in DOMAIN events' :
               LET h == events'[n].generation IN
               events'[n].kind = "analysis_ready" /\ sampling'[h].complete => events'[n].sampling = sampling'[h]
        BY <1>1, <1>7 DEF ResultInv
    <1>14. \A n \in EventOf(generation)' : events'[n].kind \in Results =>
               \E m \in EventOf(generation) : events[m].kind \in Results
        BY <1>1, <1>7 DEF EventOf
    <1>15. /\ generation \in Nat /\ session \in 0..generation /\ (session # 0 => session = generation)
        BY CurrentIs
    <1>16. CASE HandleStale(e)
        <2>1. /\ g # generation /\ cancelled' \in {cancelled, cancelled \cup {g}}
              /\ e.kind = "preflight_ready" => g \in cancelled'
              /\ UNCHANGED <<session, running, shown>>
            BY <1>16 DEF HandleStale, g
        <2>2. TypeOK'
            BY <1>1, <1>2, <1>3, <2>1 DEF TypeOK
        <2>3. SingleWorker'
            BY <1>1, <2>1 DEF SingleWorker
        <2>4. WorkInv'
            BY <1>1, <1>7, <1>14, <2>1 DEF WorkInv, ThreadOf
        <2>5. ResultInv'
            BY <1>1, <1>13, <2>1 DEF ResultInv
        <2>6. ShownIsCurrent'
            BY <1>1, <1>15, <2>1 DEF ShownIsCurrent
        <2> QED  BY <1>11, <1>12, <2>1, <2>2, <2>3, <2>4, <2>5, <2>6
    <1>17. CASE HandleCurrent(e)
        <2>1. g = generation /\ UNCHANGED cancelled
            BY <1>17 DEF HandleCurrent, g
        <2>2. ThreadOf(generation)' = {} /\ \A n \in EventOf(generation)' : FALSE
            BY <1>1, <1>5, <1>6, <2>1 DEF ThreadOf, EventOf
        <2>3. CASE HandleReady(e)
            <3>1. /\ e.kind = "preflight_ready" /\ session' = g /\ UNCHANGED running
                  /\ shown' = [status |-> "ready", session |-> g, sampling |-> sampling[g]]
                BY <2>3 DEF HandleReady, g
            <3>2. session = 0 /\ g \notin cancelled /\ g # 0
                BY <1>6, <1>15, <2>1, <3>1 DEF Results
            <3>3. TypeOK'
                <4>1. sampling[g] \in Samplings /\ g \in 0..MaxGenerations /\ "ready" \in Statuses
                    BY <1>3, BoundsAssumption DEF TypeOK, Sessions, Statuses
                <4> QED  BY <1>1, <1>2, <2>1, <3>1, <4>1 DEF TypeOK
            <3>4. SingleWorker'
                BY <1>1, <1>6, <3>1 DEF SingleWorker
            <3>5. WorkInv'
                BY <1>1, <1>5, <2>2, <3>1, <3>2 DEF WorkInv
            <3>6. ResultInv'
                BY <1>1, <1>13, <3>1 DEF ResultInv
            <3>7. ShownIsCurrent'
                BY <1>1, <2>1, <3>1, <3>2 DEF ShownIsCurrent
            <3> QED  BY <1>11, <1>12, <2>1, <3>1, <3>2, <3>3, <3>4, <3>5, <3>6, <3>7
        <2>4. CASE HandleAnalyzed(e)
            <3>1. /\ e.kind = "analysis_ready" /\ running' = FALSE /\ UNCHANGED session
                  /\ shown' = [shown EXCEPT !.status = "ready", !.sampling = e.sampling]
                BY <2>4 DEF HandleAnalyzed
            <3>2. /\ shown' \in [status: Statuses, session: 0..MaxGenerations, sampling: Samplings]
                  /\ shown'.status = "ready" /\ shown'.sampling = e.sampling /\ shown'.session = shown.session
                <4>1. "ready" \in Statuses
                    BY DEF Statuses
                <4> QED  BY <1>3, <3>1, <4>1 DEF TypeOK
            <3>3. session = g /\ session # 0
                <4>1. 1 \in EventOf(generation) /\ events[1].kind \in Results
                    BY <1>2, <2>1, <3>1 DEF EventOf, g, e, Results
                <4>2. session # 0
                    BY <4>1 DEF WorkInv
                <4> QED  BY <1>15, <2>1, <4>2
            <3>4. TypeOK'
                BY <1>1, <1>2, <2>1, <3>1, <3>2 DEF TypeOK
            <3>5. SingleWorker'
                BY <1>1, <1>6, <3>1, <3>3 DEF SingleWorker
            <3>6. WorkInv'
                BY <1>1, <1>5, <2>2, <3>1, <3>3 DEF WorkInv
            <3>7. ResultInv'
                <4>1. sampling[g].complete => e.sampling = sampling[g]
                    BY <1>2, <3>1 DEF ResultInv, g, e
                <4> QED  BY <1>1, <1>13, <3>1, <3>2, <3>3, <4>1 DEF ResultInv
            <3>8. ShownIsCurrent'
                BY <1>1, <2>1, <3>1, <3>2, <3>3 DEF ShownIsCurrent
            <3>9. e.kind # "preflight_ready"
                BY <3>1
            <3> QED  BY <1>11, <1>12, <2>1, <3>1, <3>4, <3>5, <3>6, <3>7, <3>8, <3>9
        <2>5. CASE HandleFailed(e)
            <3>1. /\ e.kind \in {"preflight_failed", "analysis_failed"} /\ UNCHANGED session
                  /\ running' = (running /\ e.kind = "preflight_failed")
                  /\ shown' = [shown EXCEPT !.status = "failed"]
                BY <2>5 DEF HandleFailed
            <3>2. /\ shown' \in [status: Statuses, session: 0..MaxGenerations, sampling: Samplings]
                  /\ shown'.status = "failed" /\ shown'.sampling = shown.sampling
                  /\ shown'.session = shown.session
                <4>1. "failed" \in Statuses
                    BY DEF Statuses
                <4> QED  BY <3>1, <4>1 DEF TypeOK
            <3>3. TypeOK'
                <4>1. running' \in BOOLEAN
                    BY <3>1
                <4> QED  BY <1>1, <1>2, <2>1, <3>1, <3>2, <4>1 DEF TypeOK
            <3>4. session = 0 \/ session = g
                BY <1>15, <2>1
            <3>5. SingleWorker'
                <4>1. \A t \in Threads : thread[t].at # "off" => thread[t].session # session
                    BY <1>6, <3>4 DEF PlaceInv
                <4> QED  BY <1>1, <3>1, <4>1 DEF SingleWorker
            <3>6. WorkInv'
                <4>1. \A n \in DOMAIN events' : events'[n].generation # session'
                    BY <1>5, <1>9, <3>1, <3>4
                <4> QED  BY <1>1, <2>2, <3>1, <4>1 DEF WorkInv
            <3>7. ResultInv'
                BY <1>1, <1>13, <3>2 DEF ResultInv
            <3>8. ShownIsCurrent'
                BY <1>1, <2>1, <3>1, <3>2 DEF ShownIsCurrent
            <3>9. e.kind # "preflight_ready"
                BY <3>1
            <3> QED  BY <1>11, <1>12, <2>1, <3>1, <3>3, <3>5, <3>6, <3>7, <3>8, <3>9
        <2> QED  BY <1>17, <2>3, <2>4, <2>5 DEF HandleCurrent
    <1> QED  BY <1>4, <1>16, <1>17

-----------------------------------------------------------------------------
(* The preflight threads *)

\* An event of g, which is nowhere else, is sent.
LEMMA SentPlace ==
    ASSUME Parts, NEW k \in Kinds, NEW g \in 1..generation, NEW d \in Samplings, Emit(k, g, d),
           \A n \in DOMAIN events : events[n].generation # g,
           \A t \in Threads : thread'[t].at # "off" => thread'[t].session # g /\ thread[t].at # "off"
                                                       /\ thread'[t].session = thread[t].session,
           g \notin probing', probing' \subseteq probing, UNCHANGED <<generation, session, cancelled>>,
           k \notin Results => g \notin cancelled \cup {session},
           \A h \in Sessions : h # g => revision'[h] = revision[h]
    PROVE  PlaceInv'
    <1> USE DEF Parts
    <1>1. /\ \A n \in DOMAIN events : n \in DOMAIN events' /\ events'[n] = events[n]
          /\ \A n \in DOMAIN events' \ DOMAIN events :
                  n = Len(events) + 1 /\ events'[n] = [kind |-> k, generation |-> g, sampling |-> d]
        BY CurrentIs, Appended
    <1>2. \A t \in Threads : thread'[t].at # "off" =>
              thread'[t].session \in (1..generation') \ probing' /\ EventOf(thread[t].session)' = {}
        BY <1>1 DEF PlaceInv, EventOf
    <1>3. ASSUME NEW m \in DOMAIN events', NEW n \in DOMAIN events',
                 events'[m].generation = events'[n].generation
          PROVE  m = n
        BY <1>1, <1>3 DEF PlaceInv
    <1>4. \A n \in DOMAIN events' :
              /\ events'[n].generation \in (1..generation') \ probing'
              /\ events'[n].kind \notin Results => events'[n].generation \notin cancelled' \cup {session'}
        BY <1>1 DEF PlaceInv
    <1>5. \A h \in probing' : h \in (1..generation') \ (cancelled' \cup {session'}) /\ revision'[h] = 0
        BY CurrentIs DEF PlaceInv, TypeOK
    <1>6. \A h \in Sessions : h > generation' => revision'[h] = 0
        BY CurrentIs DEF PlaceInv
    <1> QED  BY <1>2, <1>3, <1>4, <1>5, <1>6 DEF PlaceInv, EventOf

LEMMA PreflightKeeps ==
    ASSUME Parts, NEW g \in Sessions, Preflight(g)
    PROVE  Parts'
    <1> USE DEF Parts
    <1>1. /\ g \in probing /\ probing' = probing \ {g}
          /\ UNCHANGED <<generation, session, running, target, shown, gui, cancelled, thread, durable>>
        BY DEF Preflight, windowVars
    <1>2. /\ g \in 1..generation /\ g \notin cancelled \cup {session} /\ revision[g] = 0
          /\ \A t \in Threads : thread[t].at # "off" => thread[t].session # g
          /\ \A n \in DOMAIN events : events[n].generation # g
        BY <1>1 DEF PlaceInv
    <1>3. PICK k \in {"preflight_ready", "preflight_failed"} :
              /\ Emit(k, g, Nothing)
              /\ k = "preflight_ready" =>
                     revision' = [revision EXCEPT ![g] = 1] /\ sampling' = [sampling EXCEPT ![g].of = 1]
              /\ k = "preflight_failed" => UNCHANGED <<revision, sampling>>
        BY DEF Preflight
    <1>4. k \in Kinds /\ k \notin Results
        BY DEF Kinds, Results
    <1>5. /\ events' \in Seq(Events)
          /\ \A n \in DOMAIN events : n \in DOMAIN events' /\ events'[n] = events[n]
          /\ \A n \in DOMAIN events' \ DOMAIN events :
                  n = Len(events) + 1 /\ events'[n] = [kind |-> k, generation |-> g, sampling |-> Nothing]
          /\ Len(events) + 1 \in DOMAIN events' \ DOMAIN events
        BY <1>3, <1>4, NothingType, Appended
    <1>6. /\ revision' \in [Sessions -> 0..MaxRevisions]
          /\ \A h \in Sessions : h # g => revision'[h] = revision[h]
        BY <1>3, BoundsAssumption DEF TypeOK
    <1>7. /\ sampling' \in [Sessions -> Samplings]
          /\ \A h \in Sessions : h # g => sampling'[h] = sampling[h]
        <2>1. 1 \in 0..MaxRevisions
            BY BoundsAssumption
        <2>2. sampling[g] \in Samplings
            BY DEF TypeOK
        <2>3. [sampling[g] EXCEPT !.of = 1] \in Samplings
            BY <2>1, <2>2 DEF Samplings
        <2> QED  BY <1>3, <2>3 DEF TypeOK
    <1>8. TypeOK'
        BY <1>1, <1>5, <1>6, <1>7 DEF TypeOK
    <1>9. PlaceInv'
        BY <1>1, <1>2, <1>3, <1>4, <1>6, NothingType, SentPlace
    <1>10. SingleWorker' /\ ShownIsCurrent'
        BY <1>1 DEF SingleWorker, ShownIsCurrent
    <1>11. WorkInv'
        <2>1. ThreadOf(generation)' = ThreadOf(generation)
            BY <1>1 DEF ThreadOf
        <2>2. \A n \in EventOf(generation)' : events'[n].kind \in Results => n \in EventOf(generation)
                                                /\ events'[n] = events[n]
            BY <1>1, <1>4, <1>5 DEF EventOf
        <2>3. \A n \in DOMAIN events' : events'[n].kind \in Results =>
                  n \in DOMAIN events /\ events'[n] = events[n]
            BY <1>4, <1>5
        <2> QED  BY <1>1, <2>1, <2>2, <2>3 DEF WorkInv
    <1>12. ResultInv'
        <2>1. ASSUME NEW n \in DOMAIN events', events'[n].kind = "analysis_ready",
                     sampling'[events'[n].generation].complete
              PROVE  events'[n].sampling = sampling'[events'[n].generation]
            <3>1. n \in DOMAIN events /\ events'[n] = events[n]
                BY <1>5, <2>1
            <3>2. events[n].generation # g /\ events[n].generation \in Sessions
                BY <1>2, <3>1, EventType DEF Events
            <3> QED  BY <1>7, <2>1, <3>1, <3>2 DEF ResultInv
        <2>2. session # 0 => sampling'[session] = sampling[session]
            BY <1>2, <1>7, CurrentIs
        <2> QED  BY <1>1, <2>1, <2>2 DEF ResultInv
    <1>13. NoSessionLost'
        <2>1. ASSUME NEW s \in Sessions, revision'[s] # 0, s # session', s \notin cancelled'
              PROVE  \E n \in DOMAIN events' : events'[n].kind = "preflight_ready" /\ events'[n].generation = s
            <3>1. CASE s = g
                <4>1. k = "preflight_ready"
                    BY <1>2, <1>3, <2>1, <3>1
                <4> QED  BY <1>5, <3>1, <4>1
            <3>2. CASE s # g
                BY <1>1, <1>5, <1>6, <2>1, <3>2 DEF NoSessionLost
            <3> QED  BY <3>1, <3>2
        <2> QED  BY <2>1 DEF NoSessionLost
    <1> QED  BY <1>8, <1>9, <1>10, <1>11, <1>12, <1>13

-----------------------------------------------------------------------------
(* The analysis threads *)

\* Thread t moves on, or ends, and says nothing.
LEMMA QuietStep ==
    ASSUME Parts, NEW t \in Threads, NEW th \in ThreadStates, thread[t].at # "off",
           thread' = [thread EXCEPT ![t] = th],
           th.at # "off" => th.session = thread[t].session,
           UNCHANGED <<windowVars, probing, cancelled, revision, sampling, events, durable>>
    PROVE  Parts'
    <1> USE DEF Parts, windowVars
    <1>1. /\ thread' \in [Threads -> ThreadStates]
          /\ \A u \in Threads : thread'[u].at # "off" =>
                 thread[u].at # "off" /\ thread'[u].session = thread[u].session
        BY ThreadChange
    <1>2. TypeOK'
        BY <1>1 DEF TypeOK
    <1>3. SingleWorker' /\ NoSessionLost' /\ ShownIsCurrent' /\ ResultInv'
        BY <1>1 DEF SingleWorker, NoSessionLost, ShownIsCurrent, ResultInv
    <1>4. PlaceInv'
        BY <1>1 DEF PlaceInv, EventOf
    <1>5. WorkInv'
        BY <1>1 DEF WorkInv, ThreadOf, EventOf
    <1> QED  BY <1>2, <1>3, <1>4, <1>5

LEMMA ThreadIs ==
    ASSUME Parts, NEW t \in Threads, thread[t].at # "off"
    PROVE  LET s == thread[t].session IN
           /\ thread[t] \in ThreadStates /\ s \in Sessions /\ s \in 1..generation
           /\ revision[s] \in 0..MaxRevisions /\ sampling[s] \in Samplings
    BY CurrentIs DEF Parts, PlaceInv, TypeOK

LEMMA LoopKeeps ==
    ASSUME Parts, NEW t \in Threads, Loop(t)
    PROVE  Parts'
    <1> DEFINE th == IF thread' = [thread EXCEPT ![t] = NoThread] THEN NoThread
                     ELSE [thread[t] EXCEPT !.at = "read", !.revision = revision[thread[t].session]]
    <1>1. /\ thread[t].at = "loop"
          /\ UNCHANGED <<windowVars, probing, cancelled, revision, sampling, events, durable>>
        BY DEF Loop
    <1>2. thread[t] \in ThreadStates /\ revision[thread[t].session] \in 0..MaxRevisions
        BY <1>1, ThreadIs
    <1>3. th \in ThreadStates /\ (th.at # "off" => th.session = thread[t].session)
        BY <1>2, NoThreadType DEF ThreadStates
    <1>4. thread' = [thread EXCEPT ![t] = th]
        BY DEF Loop, Ends, Parts, TypeOK
    <1> QED  BY <1>1, <1>3, <1>4, QuietStep

LEMMA SnapshotKeeps ==
    ASSUME Parts, NEW t \in Threads, Snapshot(t)
    PROVE  Parts'
    <1> DEFINE th == [thread[t] EXCEPT !.at = "work", !.of = sampling[thread[t].session].of]
    <1>1. /\ thread[t].at = "read"
          /\ UNCHANGED <<windowVars, probing, cancelled, revision, sampling, events, durable>>
        BY DEF Snapshot
    <1>2. thread[t] \in ThreadStates /\ sampling[thread[t].session].of \in 0..MaxRevisions
        BY <1>1, ThreadIs DEF Samplings
    <1>3. th \in ThreadStates /\ th.session = thread[t].session
        BY <1>2 DEF ThreadStates
    <1>4. thread' = [thread EXCEPT ![t] = th]
        BY DEF Snapshot, Parts, TypeOK
    <1> QED  BY <1>1, <1>3, <1>4, QuietStep

\* Thread t reports its result and ends.
LEMMA ReportStep ==
    ASSUME Parts, NEW t \in Threads, thread[t].at # "off", Ends(t), NEW k \in Results,
           NEW d \in Samplings, Emit(k, thread[t].session, d),
           k = "analysis_ready" => d = sampling[thread[t].session],
           UNCHANGED <<windowVars, probing, cancelled, revision, sampling, durable>>
    PROVE  Parts'
    <1> USE DEF Parts, windowVars
    <1> DEFINE s == thread[t].session
    <1>1. /\ s \in Sessions /\ s \in 1..generation /\ s \notin probing
          /\ \A n \in DOMAIN events : events[n].generation # s
          /\ s = session => running
        BY ThreadIs DEF PlaceInv, EventOf, SingleWorker
    <1>2. k \in Kinds
        BY DEF Kinds, Results
    <1>3. /\ events' \in Seq(Events)
          /\ \A n \in DOMAIN events : n \in DOMAIN events' /\ events'[n] = events[n]
          /\ \A n \in DOMAIN events' \ DOMAIN events :
                  n = Len(events) + 1 /\ events'[n] = [kind |-> k, generation |-> s, sampling |-> d]
        BY <1>1, <1>2, Appended
    <1>4. /\ thread' \in [Threads -> ThreadStates]
          /\ \A u \in Threads : thread'[u].at # "off" => u # t /\ thread'[u] = thread[u]
        BY NoThreadType, ThreadChange DEF Ends
    <1>5. TypeOK'
        BY <1>3, <1>4 DEF TypeOK
    <1>6. \A u \in Threads : thread'[u].at # "off" => thread'[u].session # s
        BY <1>4 DEF SingleWorker
    <1>7. PlaceInv'
        BY <1>1, <1>2, <1>4, <1>6, SentPlace
    <1>8. SingleWorker' /\ ShownIsCurrent'
        BY <1>4 DEF SingleWorker, ShownIsCurrent
    <1>9. NoSessionLost'
        BY <1>3 DEF NoSessionLost
    <1>10. ResultInv'
        <2>1. ASSUME NEW n \in DOMAIN events', events'[n].kind = "analysis_ready",
                     sampling'[events'[n].generation].complete
              PROVE  events'[n].sampling = sampling'[events'[n].generation]
            BY <1>3, <2>1 DEF ResultInv
        <2> QED  BY <2>1 DEF ResultInv
    <1>11. WorkInv'
        <2>1. (session = 0 \/ shown.status = "ready") => s # generation
            BY DEF WorkInv, ThreadOf
        <2>2. \A n \in DOMAIN events' : (n \in DOMAIN events /\ events'[n] = events[n])
                                        \/ events'[n].generation = s
            BY <1>3
        <2>3. ThreadOf(generation)' \subseteq ThreadOf(generation)
            BY <1>4 DEF ThreadOf
        <2> QED  BY <1>1, <2>1, <2>2, <2>3 DEF WorkInv, EventOf
    <1> QED  BY <1>5, <1>7, <1>8, <1>9, <1>10, <1>11

LEMMA AtKeeps ==
    ASSUME Parts, NEW t \in Threads, thread[t].at # "off", NEW a \in {"loop", "checked", "stored"}, At(t, a)
    PROVE  LET th == [thread[t] EXCEPT !.at = a] IN
           /\ th \in ThreadStates /\ th.at # "off" /\ th.session = thread[t].session
           /\ thread' = [thread EXCEPT ![t] = th]
    <1>1. thread[t] \in ThreadStates
        BY ThreadIs
    <1> QED  BY <1>1 DEF ThreadStates, At, Parts, TypeOK

LEMMA WorkKeeps ==
    ASSUME Parts, NEW t \in Threads, Work(t)
    PROVE  Parts'
    <1>1. /\ thread[t].at = "work" /\ thread[t].at # "off"
          /\ UNCHANGED <<windowVars, probing, cancelled, revision, sampling, durable>>
        BY DEF Work
    <1>2. ASSUME NEW a \in {"loop", "checked", "stored"}, At(t, a), UNCHANGED events PROVE Parts'
        BY <1>1, <1>2, AtKeeps, QuietStep
    <1>3. CASE Emit("analysis_failed", thread[t].session, Nothing) /\ Ends(t)
        <2>1. "analysis_failed" \in Results
            BY DEF Results
        <2> QED  BY <1>1, <1>3, <2>1, NothingType, ReportStep
    <1> QED  BY <1>2, <1>3 DEF Work

LEMMA ReportKeeps ==
    ASSUME Parts, NEW t \in Threads, Report(t)
    PROVE  Parts'
    <1>1. thread[t].at = "stored" /\ thread[t].at # "off"
        BY DEF Report
    <1>2. "analysis_ready" \in Results /\ sampling[thread[t].session] \in Samplings
        BY <1>1, ThreadIs DEF Results
    <1> QED  BY <1>1, <1>2, ReportStep DEF Report

LEMMA StoreKeeps ==
    ASSUME Parts, NEW t \in Threads, Store(t)
    PROVE  Parts'
    <1> USE DEF Parts, windowVars
    <1> DEFINE s == thread[t].session
    <1> DEFINE d == [of |-> thread[t].of, complete |-> TRUE]
    <1>1. /\ thread[t].at = "checked" /\ sampling' = [sampling EXCEPT ![s] = d] /\ At(t, "stored")
          /\ UNCHANGED <<windowVars, probing, cancelled, revision, events, durable>>
        BY DEF Store
    <1>2. /\ s \in Sessions /\ thread[t] \in ThreadStates
          /\ \A n \in DOMAIN events : events[n].generation # s
        BY <1>1, ThreadIs DEF PlaceInv, EventOf
    <1>3. d \in Samplings
        BY <1>2 DEF Samplings, ThreadStates
    <1>4. /\ sampling' \in [Sessions -> Samplings]
          /\ \A g \in Sessions : g # s => sampling'[g] = sampling[g]
        BY <1>1, <1>2, <1>3 DEF TypeOK
    <1>5. /\ thread' \in [Threads -> ThreadStates]
          /\ \A u \in Threads : thread'[u].at # "off" =>
                 thread[u].at # "off" /\ thread'[u].session = thread[u].session
        BY <1>1, AtKeeps, ThreadChange
    <1>6. TypeOK'
        BY <1>1, <1>4, <1>5 DEF TypeOK
    <1>7. SingleWorker' /\ NoSessionLost' /\ ShownIsCurrent'
        BY <1>1, <1>5 DEF SingleWorker, NoSessionLost, ShownIsCurrent
    <1>8. PlaceInv'
        BY <1>1, <1>5 DEF PlaceInv, EventOf
    <1>9. WorkInv'
        BY <1>1, <1>5 DEF WorkInv, ThreadOf, EventOf
    <1>10. ResultInv'
        <2>1. ASSUME NEW n \in DOMAIN events', events'[n].kind = "analysis_ready",
                     sampling'[events'[n].generation].complete
              PROVE  events'[n].sampling = sampling'[events'[n].generation]
            <3>1. events'[n] = events[n] /\ events[n].generation # s /\ events[n].generation \in Sessions
                BY <1>1, <1>2, EventType DEF Events
            <3> QED  BY <1>1, <1>4, <2>1, <3>1 DEF ResultInv
        <2>2. session # 0 /\ shown.status = "ready" => session # s /\ session \in Sessions
            BY <1>1, CurrentIs DEF WorkInv, ThreadOf
        <2>3. session # 0 /\ shown.status = "ready" => sampling'[session] = sampling[session]
            BY <1>4, <2>2
        <2> QED  BY <1>1, <2>1, <2>3 DEF ResultInv
    <1> QED  BY <1>6, <1>7, <1>8, <1>9, <1>10

-----------------------------------------------------------------------------
(* The theorems *)

LEMMA InitParts ==
    ASSUME Init
    PROVE  Parts
    <1>1. TypeOK
        <2>1. shown \in [status: Statuses, session: 0..MaxGenerations, sampling: Samplings]
            BY BlankIs DEF Init, Statuses
        <2>2. events \in Seq(Events)
            BY DEF Init
        <2>3. 0 \in 0..MaxGenerations /\ 0 \in 0..MaxRevisions
            BY BoundsAssumption
        <2>4. durable \in [session: 0..MaxGenerations, of: 0..MaxRevisions]
            BY <2>3 DEF Init
        <2>5. revision \in [Sessions -> 0..MaxRevisions] /\ sampling \in [Sessions -> Samplings]
            BY <2>3, NothingType DEF Init
        <2>6. thread \in [Threads -> ThreadStates]
            BY NoThreadType DEF Init
        <2> QED  BY <2>1, <2>2, <2>3, <2>4, <2>5, <2>6 DEF Init, TypeOK
    <1>2. events = <<>> /\ DOMAIN events = {} /\ \A t \in Threads : thread[t].at = "off"
        BY NoThreadType DEF Init
    <1>3. shown.status = "none" /\ shown.session = 0 /\ shown.sampling = Nothing
        BY DEF Init, Blank
    <1> QED  BY <1>1, <1>2, <1>3 DEF Init, Parts, SingleWorker, PlaceInv, WorkInv, EventOf, ThreadOf,
               ResultInv, NoSessionLost, ShownIsCurrent

LEMMA NextKeeps ==
    ASSUME Parts, [Next]_vars
    PROVE  Parts'
    <1>1. CASE UNCHANGED vars
        BY <1>1 DEF vars, windowVars, Parts, TypeOK, SingleWorker, PlaceInv, WorkInv, EventOf, ThreadOf,
           ResultInv, NoSessionLost, ShownIsCurrent
    <1>2. CASE Window
        BY <1>2, beginKeeps, cancelKeeps, configureKeeps, analyzeKeeps, generateKeeps, switchKeeps,
           handleKeeps DEF Window
    <1>3. ASSUME NEW t \in Threads, Analysis(t) PROVE Parts'
        BY <1>3, LoopKeeps, SnapshotKeeps, WorkKeeps, StoreKeeps, ReportKeeps DEF Analysis
    <1> QED  BY <1>1, <1>2, <1>3, PreflightKeeps DEF Next

LEMMA Inductive == Spec => []Parts
    <1>1. Init => Parts
        BY InitParts
    <1>2. Parts /\ [Next]_vars => Parts'
        BY NextKeeps
    <1> QED  BY <1>1, <1>2, PTL DEF Spec

\* No session is analysed by two threads, the window knows of a thread of
\* the current one, and a session is never in two places: probed, on its way
\* to the window, or analysed.
THEOREM ImportCorrect == Spec => []ImportInv
    <1>1. Parts => ImportInv
        BY DEF Parts, ImportInv
    <1> QED  BY <1>1, Inductive, PTL

\* A session that was made is the current one, cancelled, or on its way.
THEOREM NoneLost == Spec => []NoSessionLost
    <1>1. Parts => NoSessionLost
        BY DEF Parts
    <1> QED  BY <1>1, Inductive, PTL

\* The window shows the current session, and nothing of one that was
\* replaced, cancelled or committed.
THEOREM ShowsCurrent == Spec => []ShownIsCurrent
    <1>1. Parts => ShownIsCurrent
        BY DEF Parts
    <1> QED  BY <1>1, Inductive, PTL

-----------------------------------------------------------------------------
(* The newest configuration, as long as configurations and analyses do not *)
(* meet in the gaps.                                                       *)

\* The window is between the two writes of configuring session s.
HalfConfigured(s) == gui = "configuring" /\ s = session

\* A session has the data of its newest revision, and a thread that nothing
\* will interrupt any more works on it.
NewestInv ==
    /\ \A s \in Sessions : HalfConfigured(s) \/ sampling[s].of = revision[s]
    /\ \A t \in Threads :
           LET th == thread[t] IN
           /\ th.at # "off" => th.revision <= revision[th.session]
           /\ th.at = "work" => th.revision # revision[th.session] \/ th.of = revision[th.session]
           /\ th.at \in {"checked", "stored"} => th.of = revision[th.session]
    /\ durable.session # 0 =>
           durable.session \in cancelled /\ durable.of = revision[durable.session]

LEMMA InitNewest ==
    ASSUME Init
    PROVE  NewestInv
    BY NoThreadType DEF Init, NewestInv, Nothing

\* A step of the window that changes no revision, no data and no thread.
LEMMA WindowNewest ==
    ASSUME Parts, NewestInv, gui = "idle", cancelled \subseteq cancelled',
           UNCHANGED <<gui, revision, sampling, thread, durable>>
    PROVE  NewestInv'
    BY DEF NewestInv, HalfConfigured

LEMMA configureNewest ==
    ASSUME Parts, NewestInv, ConfiguredApart', configureVideoImport
    PROVE  NewestInv'
    <1>1. /\ session \in Sessions /\ gui' = "configuring" /\ revision[session] \in Nat
          /\ revision'[session] = revision[session] + 1
          /\ \A g \in Sessions : g # session => revision'[g] = revision[g]
          /\ UNCHANGED <<session, cancelled, sampling, thread, durable>>
        BY CurrentIs DEF configureVideoImport, Parts, TypeOK
    <1>2. \A s \in Sessions : (HalfConfigured(s) \/ sampling[s].of = revision[s])'
        BY <1>1 DEF NewestInv, HalfConfigured
    <1>3. ASSUME NEW t \in Threads, thread[t].at # "off"
          PROVE  /\ thread[t].revision <= revision'[thread[t].session]
                 /\ thread[t].at = "work" => \/ thread[t].revision # revision'[thread[t].session]
                                             \/ thread[t].of = revision'[thread[t].session]
                 /\ thread[t].at \in {"checked", "stored"} => thread[t].of = revision'[thread[t].session]
        <2>1. /\ thread[t].session \in Sessions /\ thread[t].revision \in Nat
              /\ revision[thread[t].session] \in Nat
            BY <1>3, ThreadIs DEF ThreadStates
        <2>2. thread[t].revision <= revision[thread[t].session]
            BY <1>3 DEF NewestInv
        <2>3. CASE thread[t].session = session
            <3>1. thread[t].at \in {"loop", "work"}
                BY <1>1, <2>3 DEF ConfiguredApart
            <3> QED  BY <1>1, <2>1, <2>2, <2>3, <3>1
        <2>4. CASE thread[t].session # session
            BY <1>1, <1>3, <2>1, <2>4 DEF NewestInv
        <2> QED  BY <2>3, <2>4
    <1>4. durable.session # 0 => durable.session \in cancelled /\ durable.of = revision'[durable.session]
        BY <1>1 DEF NewestInv, Parts, ShownIsCurrent, TypeOK
    <1> QED  BY <1>1, <1>2, <1>3, <1>4 DEF NewestInv

LEMMA analyzeNewest ==
    ASSUME Parts, NewestInv, AnalyzeLatest
    PROVE  NewestInv'
    <1>1. /\ gui = "configuring" /\ gui' = "idle" /\ session \in Sessions /\ revision[session] \in Nat
          /\ sampling'[session].of = revision[session]
          /\ \A s \in Sessions : s # session => sampling'[s] = sampling[s]
          /\ UNCHANGED <<session, cancelled, revision, durable>>
        BY CurrentIs DEF AnalyzeLatest, Configured, Parts, TypeOK, WorkInv
    <1>2. \A s \in Sessions : sampling'[s].of = revision'[s]
        BY <1>1 DEF NewestInv, HalfConfigured
    <1>3. CASE UNCHANGED thread
        BY <1>1, <1>2, <1>3 DEF NewestInv
    <1>4. ASSUME NEW t \in Threads, Launch(t, session) PROVE NewestInv'
        <2>1. /\ thread'[t].at = "loop" /\ thread'[t].session = session /\ thread'[t].revision = 0
              /\ \A u \in Threads : u # t => thread'[u] = thread[u]
            BY <1>1, <1>4 DEF Launch, NoThread, Parts, TypeOK
        <2> QED  BY <1>1, <1>2, <2>1 DEF NewestInv
    <1> QED  BY <1>3, <1>4 DEF AnalyzeLatest

LEMMA generateNewest ==
    ASSUME Parts, NewestInv, generateVideoImport
    PROVE  NewestInv'
    <1>1. /\ gui = "idle" /\ session \in Sessions /\ cancelled' = cancelled \cup {session}
          /\ durable' = [session |-> session, of |-> sampling[session].of]
          /\ UNCHANGED <<gui, revision, sampling, thread>>
        BY CurrentIs DEF generateVideoImport, Drop
    <1>2. sampling[session].of = revision[session]
        BY <1>1 DEF NewestInv, HalfConfigured
    <1>3. durable'.session \in cancelled' /\ durable'.of = revision'[durable'.session]
        BY <1>1, <1>2
    <1> QED  BY <1>1, <1>3 DEF NewestInv, HalfConfigured

LEMMA PreflightNewest ==
    ASSUME Parts, NewestInv, NEW g \in Sessions, Preflight(g)
    PROVE  NewestInv'
    <1>1. /\ g \in probing /\ UNCHANGED <<windowVars, cancelled, thread, durable>>
          /\ g \notin cancelled \cup {session}
          /\ \A t \in Threads : thread[t].at # "off" => thread[t].session # g
        BY DEF Preflight, Parts, PlaceInv
    <1>2. CASE UNCHANGED <<revision, sampling>>
        BY <1>1, <1>2 DEF NewestInv, HalfConfigured, windowVars
    <1>3. CASE revision' = [revision EXCEPT ![g] = 1] /\ sampling' = [sampling EXCEPT ![g].of = 1]
        <2>1. /\ revision'[g] = 1 /\ sampling'[g].of = 1
              /\ \A s \in Sessions : s # g => revision'[s] = revision[s] /\ sampling'[s] = sampling[s]
            BY <1>3 DEF Parts, TypeOK, Samplings
        <2>2. \A t \in Threads : thread[t].at # "off" => thread[t].session \in Sessions
            BY ThreadIs
        <2>3. durable.session # 0 => durable.session \in Sessions
            BY DEF Parts, TypeOK, Sessions
        <2> QED  BY <1>1, <2>1, <2>2, <2>3 DEF NewestInv, HalfConfigured, windowVars
    <1> QED  BY <1>2, <1>3 DEF Preflight

\* Thread t takes a step after which what it has is as it should be.
LEMMA ThreadNewest ==
    ASSUME Parts, NewestInv, NEW t \in Threads, NEW th \in ThreadStates,
           thread' = [thread EXCEPT ![t] = th],
           th.at # "off" => th.revision <= revision[th.session],
           th.at = "work" => th.revision # revision[th.session] \/ th.of = revision[th.session],
           th.at \in {"checked", "stored"} => th.of = revision[th.session],
           \A s \in Sessions : sampling'[s].of = sampling[s].of \/ sampling'[s].of = revision[s],
           UNCHANGED <<windowVars, cancelled, revision, durable>>
    PROVE  NewestInv'
    <1>1. thread'[t] = th /\ \A u \in Threads : u # t => thread'[u] = thread[u]
        BY ThreadChange DEF Parts
    <1>2. \A s \in Sessions : (HalfConfigured(s) \/ sampling[s].of = revision[s])'
        BY DEF NewestInv, HalfConfigured, windowVars
    <1>3. (durable.session # 0 =>
               durable.session \in cancelled /\ durable.of = revision[durable.session])'
        BY DEF NewestInv
    <1> QED  BY <1>1, <1>2, <1>3 DEF NewestInv

LEMMA AnalysisNewest ==
    ASSUME Parts, NewestInv, ConfiguredApart, NEW t \in Threads, Analysis(t)
    PROVE  NewestInv'
    <1> DEFINE s == thread[t].session
    <1>1. /\ thread[t].at # "off" /\ UNCHANGED <<windowVars, cancelled, revision, durable>>
        BY DEF Analysis, Loop, Snapshot, Work, Store, Report, Emit
    <1>2. /\ thread[t] \in ThreadStates /\ s \in Sessions
          /\ revision[s] \in 0..MaxRevisions /\ sampling[s] \in Samplings
        BY <1>1, ThreadIs
    <1>3. /\ thread[t].revision <= revision[s]
          /\ thread[t].at = "work" => thread[t].revision # revision[s] \/ thread[t].of = revision[s]
          /\ thread[t].at \in {"checked", "stored"} => thread[t].of = revision[s]
        BY <1>1 DEF NewestInv
    <1>4. ASSUME Ends(t), UNCHANGED sampling PROVE NewestInv'
        BY <1>1, <1>4, NoThreadType, ThreadNewest DEF Ends
    <1>5. ASSUME NEW a \in {"loop", "checked", "stored"}, At(t, a),
                 a # "loop" => thread[t].of = revision[s],
                 \A g \in Sessions : sampling'[g].of = sampling[g].of \/ sampling'[g].of = revision[g]
          PROVE  NewestInv'
        <2> DEFINE th == [thread[t] EXCEPT !.at = a]
        <2>1. /\ th \in ThreadStates /\ th.at = a /\ th.session = s
              /\ th.revision = thread[t].revision /\ th.of = thread[t].of
            BY <1>2 DEF ThreadStates
        <2>2. thread' = [thread EXCEPT ![t] = th]
            BY <1>5 DEF At, Parts, TypeOK
        <2> HIDE DEF th
        <2> QED  BY <1>1, <1>3, <1>5, <2>1, <2>2, ThreadNewest
    <1>6. CASE Loop(t)
        <2> DEFINE th == [thread[t] EXCEPT !.at = "read", !.revision = revision[s]]
        <2>1. UNCHANGED sampling /\ (Ends(t) \/ thread' = [thread EXCEPT ![t] = th])
            BY <1>6 DEF Loop, Parts, TypeOK
        <2>2. th \in ThreadStates /\ th.at = "read" /\ th.session = s /\ th.revision = revision[s]
            BY <1>2 DEF ThreadStates
        <2>3. th.revision <= revision[s]
            BY <1>2, <2>2
        <2> HIDE DEF th
        <2>4. CASE thread' = [thread EXCEPT ![t] = th]
            BY <1>1, <2>1, <2>2, <2>3, <2>4, ThreadNewest
        <2> QED  BY <1>4, <2>1, <2>4
    <1>7. CASE Snapshot(t)
        <2> DEFINE th == [thread[t] EXCEPT !.at = "work", !.of = sampling[s].of]
        <2>1. thread[t].at = "read" /\ UNCHANGED sampling /\ thread' = [thread EXCEPT ![t] = th]
            BY <1>7 DEF Snapshot, Parts, TypeOK
        <2>2. /\ th \in ThreadStates /\ th.at = "work" /\ th.session = s
              /\ th.revision = thread[t].revision /\ th.of = sampling[s].of
            BY <1>2 DEF ThreadStates, Samplings
        <2>3. ~ HalfConfigured(s)
            BY <2>1 DEF HalfConfigured, ConfiguredApart
        <2>4. sampling[s].of = revision[s]
            BY <1>2, <2>3 DEF NewestInv
        <2> HIDE DEF th
        <2> QED  BY <1>1, <1>3, <2>1, <2>2, <2>4, ThreadNewest
    <1>8. CASE Work(t)
        <2>1. thread[t].at = "work" /\ UNCHANGED sampling
            BY <1>8 DEF Work
        <2>2. At(t, "loop") \/ Ends(t) \/ (~ Obsolete(t) /\ At(t, "checked"))
            BY <1>8 DEF Work
        <2>3. ~ Obsolete(t) => thread[t].of = revision[s]
            BY <1>3, <2>1 DEF Obsolete
        <2> QED  BY <1>4, <1>5, <2>1, <2>2, <2>3
    <1>9. CASE Store(t)
        <2>1. /\ thread[t].at = "checked" /\ At(t, "stored")
              /\ sampling' = [sampling EXCEPT ![s] = [of |-> thread[t].of, complete |-> TRUE]]
            BY <1>9 DEF Store
        <2>2. \A g \in Sessions : sampling'[g].of = sampling[g].of \/ sampling'[g].of = revision[g]
            BY <1>2, <1>3, <2>1 DEF Parts, TypeOK
        <2> QED  BY <1>3, <1>5, <2>1, <2>2
    <1>10. CASE Report(t)
        BY <1>4, <1>10 DEF Report
    <1> QED  BY <1>6, <1>7, <1>8, <1>9, <1>10 DEF Analysis

LEMMA NewestNext ==
    ASSUME Parts, NewestInv, ConfiguredApart, ConfiguredApart', [Next]_vars
    PROVE  NewestInv'
    <1>1. CASE UNCHANGED vars
        BY <1>1 DEF vars, windowVars, NewestInv, HalfConfigured
    <1>2. CASE beginVideoImport \/ cancelVideoImport \/ SwitchProject \/ handleEvent
        <2>1. gui = "idle" /\ UNCHANGED <<gui, revision, sampling, thread, durable>>
            BY <1>2 DEF beginVideoImport, cancelVideoImport, SwitchProject, handleEvent
        <2>2. cancelled \subseteq cancelled'
            BY <1>2 DEF beginVideoImport, cancelVideoImport, SwitchProject, handleEvent, Drop,
                        HandleStale, HandleCurrent
        <2> QED  BY <2>1, <2>2, WindowNewest
    <1>3. CASE Window
        BY <1>2, <1>3, configureNewest, analyzeNewest, generateNewest DEF Window
    <1> QED  BY <1>1, <1>3, PreflightNewest, AnalysisNewest DEF Next

\* "The single analysis worker abandons an obsolete revision and analyzes the
\* newest snapshot" (docs/adr/P2.7.md:22-24): a project is given the frames of
\* the newest configuration, if configurations and analyses do not meet in the
\* gaps the code leaves.
THEOREM GivesNewest == Spec => GeneratesNewest
    <1>1. Init => NewestInv
        BY InitNewest
    <1>2. Parts /\ NewestInv /\ ConfiguredApart /\ ConfiguredApart' /\ [Next]_vars => NewestInv'
        BY NewestNext
    <1>3. NewestInv => GivenIsNewest
        BY DEF NewestInv, GivenIsNewest
    <1>4. Spec /\ []ConfiguredApart => []GivenIsNewest
        BY <1>1, <1>2, <1>3, Inductive, PTL DEF Spec
    <1> QED  BY <1>4 DEF GeneratesNewest

=============================================================================
