------------------------------ MODULE KdbStore ------------------------------
(***************************************************************************)
(* What kdb promises the scripts that call it: a store of named values in  *)
(* which a list is the run of keys l0, l1, l2, ..., changed by sessions    *)
(* that take effect as a whole when they commit, or not at all.            *)
(*                                                                         *)
(* Two commands are not transactional in the program and are not here:     *)
(* Wipe (create) and Load (import, edit) change the store at once.  And    *)
(* one does not keep its word without an intact store: Spill (listrm).     *)
(***************************************************************************)
EXTENDS Integers, Sequences, FiniteSets

CONSTANTS Name, Value, List, Item, MAX_LINES, Pattern, Loads

VARIABLES
    store,      \* the committed contents: a function from some names
    intact,     \* is the store there, and whole?
    work,       \* the contents as the running session sees them
    active      \* is a session running?

vars == <<store, intact, work, active>>

Nothing == [n \in {} |-> CHOOSE v \in Value : TRUE]

With(s, n, v) == [k \in DOMAIN s \cup {n} |-> IF k = n THEN v ELSE s[k]]

Without(s, ns) == [k \in DOMAIN s \ ns |-> s[k]]

\* The elements of list l: the values of l0, l1, ... up to the first gap.
Elements(s, l) ==
    LET n == CHOOSE k \in 0 .. MAX_LINES :
                 /\ \A i \in 0 .. k - 1 : Item[l][i] \in DOMAIN s
                 /\ k = MAX_LINES \/ Item[l][k] \notin DOMAIN s
    IN  [k \in 1 .. n |-> s[Item[l][k - 1]]]

\* s with the elements of list l replaced by those of seq, which are no more.
WithElements(s, l, seq) ==
    LET old == {Item[l][i - 1] : i \in 1 .. Len(Elements(s, l))}
        new == {Item[l][i - 1] : i \in 1 .. Len(seq)}
    IN  [n \in (DOMAIN s \ old) \cup new |->
            IF n \in new THEN seq[CHOOSE i \in 1 .. Len(seq) : Item[l][i - 1] = n]
                         ELSE s[n]]

Removed(seq, i) ==
    [k \in 1 .. Len(seq) - 1 |-> IF k < i THEN seq[k] ELSE seq[k + 1]]

\* The names of the first k elements of list l.
Leading(l, k) == {Item[l][i] : i \in 0 .. k - 1}

HasRoom == Cardinality(DOMAIN work) < MAX_LINES

Init ==
    /\ store \in {Nothing} \cup Loads
    /\ intact \in BOOLEAN
    /\ work = store
    /\ active = FALSE

Update(s) == active /\ work' = s /\ UNCHANGED <<store, intact, active>>

Begin == ~active /\ active' = TRUE /\ work' = store /\ UNCHANGED <<store, intact>>

Put(n, v) == (n \in DOMAIN work \/ HasRoom) /\ Update(With(work, n, v))

Fill(p, v) == Update([n \in DOMAIN work |-> IF n \in p THEN v ELSE work[n]])

Remove(p) == Update(Without(work, p))

Move(o, n) ==
    /\ o \in DOMAIN work /\ o # n
    /\ Update(With(Without(work, {o}), n, work[o]))

\* A new element goes into the first gap.
Push(l, v) ==
    /\ HasRoom
    /\ Update(With(work, Item[l][Len(Elements(work, l))], v))

\* Element i leaves the list and the ones behind it move up.
Pull(l, i) ==
    /\ i \in 1 .. Len(Elements(work, l))
    /\ Update(WithElements(work, l, Removed(Elements(work, l), i)))

\* The elements of a list without element i, or all of them if i is 0, are
\* taken out and put back, and on the way the first lost of them are lost.
Spill(l, i, lost) ==
    /\ ~intact
    /\ i \in 0 .. Len(Elements(work, l))
    /\ LET kept == IF i = 0 THEN Elements(work, l)
                            ELSE Removed(Elements(work, l), i)
       IN  Update(Without(WithElements(work, l, kept), Leading(l, lost)))

Wipe ==
    /\ active
    /\ store' = Nothing
    /\ intact' = FALSE
    /\ work' \in {work, Nothing}
    /\ UNCHANGED active

Load(s) == active /\ store' = s /\ work' = s /\ intact' = TRUE /\ UNCHANGED active

Commit ==
    /\ active /\ active' = FALSE
    /\ store' = work /\ intact' = TRUE
    /\ work' = work

Abort == active /\ work' = store /\ active' = FALSE /\ UNCHANGED <<store, intact>>

Next ==
    \/ Begin \/ Wipe \/ Commit \/ Abort
    \/ \E n \in Name, v \in Value : Put(n, v)
    \/ \E p \in Pattern, v \in Value : Fill(p, v)
    \/ \E p \in Pattern : Remove(p)
    \/ \E o, n \in Name : Move(o, n)
    \/ \E l \in List, v \in Value : Push(l, v)
    \/ \E l \in List, i \in 1 .. MAX_LINES : Pull(l, i)
    \/ \E l \in List, i, lost \in 0 .. MAX_LINES : Spill(l, i, lost)
    \/ \E s \in Loads : Load(s)

Spec == Init /\ [][Next]_vars

=============================================================================
