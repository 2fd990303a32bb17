----------------------------- MODULE MCCaseDesk -----------------------------
(* CaseDesk on small sets of cases, staff and concurrent calls. *)
EXTENDS CaseDesk, TLC

\* Calls and staff are interchangeable, and so are cases and notes.
Interchangeable ==
    Permutations(Calls) \cup Permutations(Staff)
        \cup Permutations(References) \cup Permutations(Notes)

\* A shift.  TLC cannot use symmetry on liveness, so what a permutation of the
\* constants could undo is undone by hand: the first case to be stamped and the
\* member of staff who never leaves are fixed.  Every case that arrives needs
\* somebody; the others never come onto the list.
FirstStamped == CHOOSE c \in References : TRUE
Remains      == CHOOSE a \in Staff : TRUE

ShiftNext ==
    /\ DeskNext
    /\ \A c \in References :
          /\ rows'[c].route \in {Absent, "human_escalation"}
          /\ created'[c] # 0 => created'[FirstStamped] \in 1 .. created'[c]
    /\ Remains \in active'

ShiftSpec == DeskInit /\ [][ShiftNext]_deskVars /\ DeskFairness

=============================================================================
