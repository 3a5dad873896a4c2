------------------------------ MODULE KdbTable ------------------------------
(***************************************************************************)
(* The in-memory table of package/webface/kdb.c: the array db_lines with   *)
(* its count, and the functions that read and change it.                   *)
(*                                                                         *)
(* A table is a sequence of records [name, value].  Names are numbers and  *)
(* their order is the order strcmp gives the strings they stand for.  A    *)
(* wildcard pattern is the set of names it matches; KdbString relates the  *)
(* two.  Item[l][i] is the string snprintf(s, "%s%d", l, i) of list_*.     *)
(*                                                                         *)
(* A function that walks the array is written as the set of tables it may  *)
(* leave (one table, except for qsort, which is not stable).  C indices    *)
(* start at 0, sequences at 1: index i of the C code is i + 1 here, and    *)
(* the "not found" of find_key, -1 in C, is 0.                             *)
(***************************************************************************)
EXTENDS Integers, Sequences, FiniteSets

CONSTANTS
    Name,       \* the keys, by their rank in strcmp order
    Value,      \* the values
    List,       \* the list prefixes ("sys_name_"), which end in '_'
    Item,       \* Item[l][i] is the name of element i of list l
    MAX_LINES   \* the capacity of db_lines

ItemIndex == -1 .. MAX_LINES - 1

ASSUME NameAssumption == Name \subseteq Nat

ASSUME MaxLinesAssumption == MAX_LINES \in Nat

\* Printing a number after a prefix that ends in '_' is injective, in the
\* number and in the prefix.
ASSUME ItemAssumption ==
    /\ Item \in [List -> [ItemIndex -> Name]]
    /\ \A l, m \in List : \A i, j \in ItemIndex :
           Item[l][i] = Item[m][j] => l = m /\ i = j

Record == [name : Name, value : Value]

\* What kdbinit leaves in db_lines.
EmptyTable == << >>

IsTable(db) == db \in Seq(Record) /\ Len(db) <= MAX_LINES

Names(db) == {db[i].name : i \in DOMAIN db}

UniqueIn(db) == \A i, j \in DOMAIN db : db[i].name = db[j].name => i = j

-----------------------------------------------------------------------------
(* Look-up and single-record updates.                                      *)

find_key(db, key) ==
    IF key \in Names(db)
    THEN CHOOSE i \in DOMAIN db :
             /\ db[i].name = key
             /\ \A j \in DOMAIN db : j < i => db[j].name # key
    ELSE 0

\* Mutant of CanAdd: the limit is off by one.
CanAddOneMore(db) == Len(db) <= MAX_LINES

\* db_add refuses a record when the array is full.
CanAdd(db) == Len(db) < MAX_LINES

db_add(db, n, v) == Append(db, [name |-> n, value |-> v])

SetValueAt(db, i, v) == [db EXCEPT ![i] = [name |-> @.name, value |-> v]]

SetNameAt(db, i, n) == [db EXCEPT ![i] = [name |-> n, value |-> @.value]]

\* db_set succeeds on a key that is there, or when there is room for it.
CanSet(db, n) == n \in Names(db) \/ CanAdd(db)

\* Mutant of db_set: the key is not looked up.
db_set_appends(db, n, v) == db_add(db, n, v)

db_set(db, n, v) ==
    IF n \in Names(db) THEN SetValueAt(db, find_key(db, n), v)
                       ELSE db_add(db, n, v)

db_del_index(db, i) ==
    [k \in 1 .. Len(db) - 1 |-> IF k < i THEN db[k] ELSE db[k + 1]]

\* The table as a function from its names to their values.
Contents(db) == [n \in Names(db) |-> db[find_key(db, n)].value]

-----------------------------------------------------------------------------
(* Walks over the whole array.                                             *)

\* The subsequence of s at the positions in keep.
Subsequences(s, keep) ==
    {[k \in 1 .. Cardinality(keep) |-> s[f[k]]] :
        f \in {g \in [1 .. Cardinality(keep) -> keep] :
                 \A i, j \in 1 .. Cardinality(keep) : i < j => g[i] < g[j]}}

\* set "pattern=value" on a pattern with a '*'.
SetMatching(db, pattern, v) ==
    [k \in DOMAIN db |->
        IF db[k].name \in pattern THEN [name |-> db[k].name, value |-> v]
                                  ELSE db[k]]

del(db, pattern) ==
    Subsequences(db, {k \in DOMAIN db : db[k].name \notin pattern})

\* qsort by name: the records in some order that is sorted.
db_sort(db) ==
    {[k \in DOMAIN db |-> db[f[k]]] :
        f \in {g \in [DOMAIN db -> DOMAIN db] :
                 /\ \A i, j \in DOMAIN db : g[i] = g[j] => i = j
                 /\ \A i, j \in DOMAIN db :
                       i < j => db[g[i]].name <= db[g[j]].name}}

-----------------------------------------------------------------------------
(* Lists: the keys l0, l1, l2, ...                                         *)

\* The first index with no key, or -1 when all MAX_LINES are taken.
list_getnextindex(db, l) ==
    LET free == {i \in 0 .. MAX_LINES - 1 : Item[l][i] \notin Names(db)}
    IN  IF free = {} THEN -1
        ELSE CHOOSE i \in free : \A j \in free : i <= j

listadd(db, l, v) == db_add(db, Item[l][list_getnextindex(db, l)], v)

\* How many elements the first loop of listrm visits.
ListLength(db, l) ==
    CHOOSE n \in 0 .. MAX_LINES :
        /\ \A i \in 0 .. n - 1 : Item[l][i] \in Names(db)
        /\ n = MAX_LINES \/ Item[l][n] \notin Names(db)

\* local_lines: the elements other than key, renumbered from 0.
LocalLines(db, l, key) ==
    LET n == ListLength(db, l)
        Old(i) == db[find_key(db, Item[l][i])].value
        hit == {i \in 0 .. n - 1 : Item[l][i] = key}
    IN  [k \in 1 .. n - Cardinality(hit) |->
            [name |-> Item[l][k - 1],
             value |-> Old(IF \E i \in hit : i <= k - 1 THEN k ELSE k - 1)]]

\* The array after the first loop: the visited elements are deleted.
Unlisted(db, l) ==
    LET gone == {find_key(db, Item[l][i]) : i \in 0 .. ListLength(db, l) - 1}
    IN  Subsequences(db, DOMAIN db \ gone)

\* The second loop: db_set of every local line.  db_set calls db_read, and if
\* that fails the line is gone: the first lost lines go that way.  A name is
\* still there only if the array held it twice.
Relisted(db, local, lost) ==
    LET saved == {j \in DOMAIN local : j > lost}
        put == [k \in DOMAIN db |->
                  IF \E j \in saved : find_key(db, local[j].name) = k
                  THEN local[CHOOSE j \in saved : find_key(db, local[j].name) = k]
                  ELSE db[k]]
    IN  {put \o new : new \in
            Subsequences(local, {j \in saved : local[j].name \notin Names(db)})}

listrm(db, l, key, lost) ==
    UNION {Relisted(rest, LocalLines(db, l, key), lost) : rest \in Unlisted(db, l)}

-----------------------------------------------------------------------------
\* rename: newkey is removed before oldkey is looked up.  find_key(NULL)
\* returns 0, the index of the first record, so NULL removes that one.
NULL == -1

NewKeyIndex(db, newkey) ==
    IF newkey = NULL THEN IF db = EmptyTable THEN 0 ELSE 1
                     ELSE find_key(db, newkey)

\* Mutant of Displaced: newkey is not removed.
NothingDisplaced(db, newkey) == db

Displaced(db, newkey) ==
    IF NewKeyIndex(db, newkey) = 0 THEN db
    ELSE db_del_index(db, NewKeyIndex(db, newkey))

CanRename(db, oldkey, newkey) == oldkey \in Names(Displaced(db, newkey))

rename(db, oldkey, newkey) ==
    LET rest == Displaced(db, newkey)
    IN  IF newkey = NULL THEN rest
        ELSE SetNameAt(rest, find_key(rest, oldkey), newkey)

=============================================================================
