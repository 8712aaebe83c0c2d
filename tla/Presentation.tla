---------------------------- MODULE Presentation ----------------------------
(***************************************************************************)
(* What the window promises about the scene it shows: it belongs to the    *)
(* project that is open, it was the result of that project's latest run    *)
(* when it appeared, and opening another project takes it away.  Module    *)
(* DesktopSession implements this promise.                                 *)
(***************************************************************************)
CONSTANTS Projects, Runs

VARIABLES
    open,    \* the project that is open, "" if none is
    result,  \* the run whose result each project has, 0 for none
    shown    \* the project and the run of the scene, Nothing for an empty view

Nothing == <<"", 0>>

Init == open = "" /\ result \in [Projects -> Runs \cup {0}] /\ shown = Nothing

\* Another project, or none, is opened; or the open one once more.
Open(p) == open' = p /\ shown' = Nothing /\ UNCHANGED result

\* The view is emptied.
Blank == shown' = Nothing /\ UNCHANGED <<open, result>>

\* The scene of the open project's result appears.
Show ==
    /\ open \in Projects /\ result[open] # 0
    /\ shown' = <<open, result[open]>>
    /\ UNCHANGED <<open, result>>

\* A project gets the result of a run, or loses the one it has.
Produce(p, r) ==
    /\ result' = [result EXCEPT ![p] = r]
    /\ UNCHANGED <<open, shown>>

Next ==
    \/ \E p \in Projects \cup {""} : Open(p)
    \/ Blank \/ Show
    \/ \E p \in Projects, r \in Runs \cup {0} : Produce(p, r)

Spec == Init /\ [][Next]_<<open, result, shown>>

=============================================================================
