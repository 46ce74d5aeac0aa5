----------------------------- MODULE MCScreens ------------------------------
(***************************************************************************)
(* The browser shows one screen at a time: a behaviour is about the one    *)
(* chosen at the start, and the variables of the others stand still, each  *)
(* in an initial state.  "form" is one of the forms by itself.             *)
(***************************************************************************)
EXTENDS Grades, Kurikulum, PublicForm, Forms, TLC

VARIABLE screen

allVars == <<grVars, kurVars, pubVars, frVars, screen>>

Init ==
    /\ screen \in {"grades", "kurikulum", "absen", "form"}
    /\ IF screen = "grades" THEN GrInit ELSE GrOpened /\ marks = NoTable
    /\ KurInit /\ (screen # "kurikulum" => live = NoGroups)
    /\ PubInit
    /\ FrInit
    /\ screen # "form" => kind = "tingkat" /\ focus = "umur" /\ row = NoRow

Next ==
    /\ UNCHANGED screen
    /\ \/ /\ screen = "grades" /\ GrNext
          /\ UNCHANGED <<kurVars, pubVars, frVars>>
       \/ /\ screen = "kurikulum" /\ KurNext
          /\ UNCHANGED <<grVars, pubVars, frVars>>
       \/ /\ screen = "absen" /\ PubNext
          /\ UNCHANGED <<grVars, kurVars, frVars>>
       \/ /\ screen = "form" /\ FrNext
          /\ UNCHANGED <<grVars, kurVars, pubVars>>

Spec == Init /\ [][Next]_allVars

\* Age groups and reports are interchangeable, and so are requests.
\* Screens share their model values.
Symmetry == Permutations(AgeGroups) \cup Permutations(Slots)
=============================================================================
