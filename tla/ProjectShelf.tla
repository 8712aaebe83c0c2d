---------------------------- MODULE ProjectShelf ----------------------------
(***************************************************************************)
(* The project list as its user sees it: a project is listed, in the trash *)
(* or removed, every change of place is a single step, and a project that  *)
(* is being run stays in the list.  The one exception is a project whose   *)
(* creation has not ended yet: it is listed, may be opened and run by      *)
(* another instance, and may still be taken back.                          *)
(***************************************************************************)
EXTENDS Naturals

CONSTANTS Projects, Isolated

VARIABLES
    place,    \* where the user finds the project
    active,   \* projects with a run in progress
    fresh     \* listed projects whose creation has not ended

shelfVars == <<place, active, fresh>>

Places == {"none", "listed", "trashed", "removed"}

Init ==
    /\ place = [p \in Projects |-> IF p \in Isolated THEN "none" ELSE "listed"]
    /\ active = {}
    /\ fresh = {}

Move(p, from, to) ==
    /\ place[p] = from
    /\ place' = [place EXCEPT ![p] = to]
    /\ UNCHANGED active

Create(p)  == Move(p, "none", "listed") /\ fresh' = fresh \cup {p}
Undo(p)    == p \in fresh /\ Move(p, "listed", "removed") /\ fresh' = fresh \ {p}
Trash(p)   == p \notin active /\ Move(p, "listed", "trashed") /\ UNCHANGED fresh
Restore(p) == Move(p, "trashed", "listed") /\ UNCHANGED fresh
Purge(p)   == Move(p, "trashed", "removed") /\ UNCHANGED fresh

Begin(p) ==
    /\ place[p] = "listed" /\ p \notin active
    /\ active' = active \cup {p}
    /\ UNCHANGED <<place, fresh>>

\* Runs and creations end one by one, or together when their process dies.
End(S, F) ==
    /\ S \subseteq active /\ F \subseteq fresh
    /\ active' = active \ S
    /\ fresh' = fresh \ F
    /\ UNCHANGED place

Next ==
    \/ \E p \in Projects :
        \/ Create(p) \/ Undo(p) \/ Trash(p) \/ Restore(p) \/ Purge(p) \/ Begin(p)
    \/ \E S, F \in SUBSET Projects : End(S, F)

Spec == Init /\ [][Next]_shelfVars

=============================================================================
