----------------------------- MODULE MCKdbFile -----------------------------
(* A small instance of KdbFile: two runs at a time, two keys without lists. *)
EXTENDS KdbFile, TLC

MCItem == [l \in List |-> [i \in ItemIndex |-> 0]]

MCKdbFiles ==
    LET a == CHOOSE v \in Value : TRUE
    IN  {<<[name |-> 1, value |-> a]>>}

Symmetry == Permutations(Proc)

\* SerialUnlessTainted and ReadsLatest say nothing of a tainted state.
Untainted == ~tainted

=============================================================================
