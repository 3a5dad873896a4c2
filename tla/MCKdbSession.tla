--------------------------- MODULE MCKdbSession ---------------------------
(* A small instance of KdbSession: one list and room for three records.    *)
(* "list_-1" stands for the keys that are not elements of the list.        *)
EXTENDS KdbSession

\* "list_-1" < "list_0" < "list_1" < "list_2".
MCItem == [l \in List |-> [i \in -1 .. MAX_LINES - 1 |-> i + 2]]

MCPattern == {{1}, {1, 2, 3, 4}, {2, 3, 4}}

MCKdbFiles ==
    LET a == CHOOSE v \in Value : TRUE
        b == CHOOSE v \in Value : v # a
    IN  {<< >>,
         <<[name |-> 1, value |-> a], [name |-> 2, value |-> b]>>,
         <<[name |-> 2, value |-> a], [name |-> 3, value |-> b],
           [name |-> 4, value |-> a]>>}

=============================================================================
