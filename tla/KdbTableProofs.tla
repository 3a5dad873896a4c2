--------------------------- MODULE KdbTableProofs ---------------------------
(***************************************************************************)
(* What the operators of KdbTable preserve: they keep a table a table, and *)
(* they keep its names distinct, for every capacity and every set of keys; *)
(* and what they do to the set of its records.                             *)
(***************************************************************************)
EXTENDS KdbTable, FiniteSetTheorems, SequenceTheorems, NaturalsInduction,
        WellFoundedInduction, TLAPS

-----------------------------------------------------------------------------
(* Least elements stand in for the loops' induction.                       *)

\* A non-empty set of naturals has a least element.
LEMMA LeastNatural ==
    ASSUME NEW T, T \subseteq Nat, T # {}
    PROVE  \E x \in T : \A y \in T : x <= y
  <1> DEFINE R == {p \in Nat \X Nat : p[1] < p[2]}
  <1>1. IsWellFoundedOn(R, Nat)
    BY NatLessThanWellFounded DEF OpToRel
  <1> HIDE DEF R
  <1>2. PICK x \in T : \A y \in T : ~(<<y, x>> \in R)
    BY <1>1, WFMin
  <1>3. ASSUME NEW y \in T, y < x PROVE <<y, x>> \in R
    BY <1>3 DEF R
  <1>4. ASSUME NEW y \in T PROVE x <= y
    <2>1. ~(y < x)
      BY <1>2, <1>3
    <2> QED BY <2>1
  <1> QED BY <1>4

\* Intervals are finite.
LEMMA IntervalSize ==
    \A n \in Nat : /\ IsFiniteSet(1 .. n) /\ Cardinality(1 .. n) = n
                   /\ IsFiniteSet(0 .. n - 1) /\ Cardinality(0 .. n - 1) = n
  BY FS_Interval

\* find_key returns the index of a record with that name.
LEMMA FindKey ==
    ASSUME NEW db \in Seq(Record), NEW key \in Names(db)
    PROVE  /\ find_key(db, key) \in 1 .. Len(db)
           /\ db[find_key(db, key)].name = key
  <1> DEFINE T == {i \in 1 .. Len(db) : db[i].name = key}
  <1>1. T \subseteq Nat /\ T # {}
    BY LenProperties DEF Names
  <1>2. PICK x \in T : \A y \in T : x <= y
    BY <1>1, LeastNatural
  <1>3. \A j \in DOMAIN db : j < x => db[j].name # key
    BY <1>2, LenProperties
  <1> QED BY <1>2, <1>3, LenProperties DEF find_key

\* An absent key is at no index of the table.
LEMMA FindKeyAbsent ==
    ASSUME NEW db \in Seq(Record), NEW key, key \notin Names(db)
    PROVE  find_key(db, key) = 0
  BY DEF find_key

-----------------------------------------------------------------------------
(* Single-record updates.                                                  *)

\* Two ways to see that a sequence of records is a table.
LEMMA TableByElements ==
    ASSUME NEW n \in Nat, n <= MAX_LINES,
           NEW s, DOMAIN s = 1 .. n, s = [k \in 1 .. n |-> s[k]],
           \A k \in 1 .. n : s[k] \in Record
    PROVE  IsTable(s) /\ Len(s) = n
  <1>1. s \in [1 .. n -> Record]
    OBVIOUS
  <1>2. s \in Seq(Record) /\ Len(s) = n
    BY <1>1
  <1> QED BY <1>2 DEF IsTable

\* A table with room takes one more record; a new name keeps names distinct.
LEMMA AddRecord ==
    ASSUME NEW db, IsTable(db), CanAdd(db), NEW n \in Name, NEW v \in Value
    PROVE  /\ IsTable(db_add(db, n, v))
           /\ UniqueIn(db) /\ n \notin Names(db) => UniqueIn(db_add(db, n, v))
  <1> DEFINE r == [name |-> n, value |-> v]
  <1>1. r \in Record /\ r.name = n
    BY DEF Record
  <1> HIDE DEF r
  <1>2. db \in Seq(Record) /\ Len(db) \in Nat /\ Len(db) < MAX_LINES
    BY LenProperties DEF IsTable, CanAdd
  <1>3. /\ Append(db, r) \in Seq(Record)
        /\ Len(Append(db, r)) = Len(db) + 1
        /\ \A i \in 1 .. Len(db) : Append(db, r)[i] = db[i]
        /\ Append(db, r)[Len(db) + 1] = r
    BY <1>1, <1>2
  <1>4. IsTable(Append(db, r))
    BY <1>2, <1>3, MaxLinesAssumption DEF IsTable
  <1>5. ASSUME UniqueIn(db), n \notin Names(db) PROVE UniqueIn(Append(db, r))
    <2>1. DOMAIN db = 1 .. Len(db) /\ DOMAIN Append(db, r) = 1 .. Len(db) + 1
      BY <1>2, <1>3, LenProperties
    <2>2. \A i \in 1 .. Len(db) : db[i].name # n
      BY <1>5, <2>1 DEF Names
    <2>3. \A i, j \in 1 .. Len(db) : db[i].name = db[j].name => i = j
      BY <1>5, <2>1 DEF UniqueIn
    <2> SUFFICES ASSUME NEW i \in 1 .. Len(db) + 1, NEW j \in 1 .. Len(db) + 1,
                        Append(db, r)[i].name = Append(db, r)[j].name
                 PROVE  i = j
      BY <2>1 DEF UniqueIn
    <2>4. CASE i = Len(db) + 1 /\ j = Len(db) + 1
      BY <2>4
    <2>5. CASE i = Len(db) + 1 /\ j \in 1 .. Len(db)
      BY <2>5, <2>2, <1>3, <1>1
    <2>6. CASE j = Len(db) + 1 /\ i \in 1 .. Len(db)
      BY <2>6, <2>2, <1>3, <1>1
    <2>7. CASE i \in 1 .. Len(db) /\ j \in 1 .. Len(db)
      BY <2>7, <2>3, <1>3
    <2> QED BY <2>4, <2>5, <2>6, <2>7, <1>2
  <1> QED BY <1>4, <1>5 DEF r, db_add

\* Replacing values keeps a table and its names.
LEMMA SameNames ==
    ASSUME NEW db, IsTable(db), NEW new,
           new = [k \in DOMAIN db |-> new[k]],
           \A k \in DOMAIN db : new[k] \in Record /\ new[k].name = db[k].name
    PROVE  /\ IsTable(new)
           /\ Names(new) = Names(db)
           /\ UniqueIn(db) => UniqueIn(new)
  <1>1. /\ Len(db) \in Nat /\ DOMAIN db = 1 .. Len(db) /\ DOMAIN new = DOMAIN db
        /\ Len(db) <= MAX_LINES
    BY LenProperties DEF IsTable
  <1>2. IsTable(new)
    BY <1>1, TableByElements
  <1>3. Names(new) = Names(db)
    BY <1>1 DEF Names
  <1>4. UniqueIn(db) => UniqueIn(new)
    BY <1>1 DEF UniqueIn
  <1> QED BY <1>2, <1>3, <1>4

\* set "pattern=value" changes values only.
LEMMA SetMatchingTable ==
    ASSUME NEW db, IsTable(db), NEW p, NEW v \in Value
    PROVE  /\ IsTable(SetMatching(db, p, v))
           /\ UniqueIn(db) => UniqueIn(SetMatching(db, p, v))
  <1> DEFINE new == SetMatching(db, p, v)
  <1>1. DOMAIN db = 1 .. Len(db) /\ \A k \in DOMAIN db : db[k] \in Record
    BY LenProperties, ElementOfSeq DEF IsTable
  <1>2. /\ new = [k \in DOMAIN db |-> new[k]]
        /\ \A k \in DOMAIN db : new[k] \in Record /\ new[k].name = db[k].name
    BY <1>1 DEF SetMatching, Record
  <1> HIDE DEF new
  <1>3. IsTable(new) /\ (UniqueIn(db) => UniqueIn(new))
    BY <1>2, SameNames
  <1> QED BY <1>3 DEF new

\* db_set keeps a table with distinct names such a table.
LEMMA SetTable ==
    ASSUME NEW db, IsTable(db), NEW n \in Name, NEW v \in Value, CanSet(db, n)
    PROVE  /\ IsTable(db_set(db, n, v))
           /\ UniqueIn(db) => UniqueIn(db_set(db, n, v))
  <1>1. CASE n \notin Names(db)
    <2>1. CanAdd(db) /\ db_set(db, n, v) = db_add(db, n, v)
      BY <1>1 DEF CanSet, db_set
    <2> QED BY <1>1, <2>1, AddRecord
  <1>2. CASE n \in Names(db)
    <2> DEFINE i == find_key(db, n)
               new == SetValueAt(db, i, v)
    <2>1. DOMAIN db = 1 .. Len(db) /\ \A k \in DOMAIN db : db[k] \in Record
      BY LenProperties, ElementOfSeq DEF IsTable
    <2> HIDE DEF i
    <2>2. /\ new = [k \in DOMAIN db |-> new[k]]
          /\ \A k \in DOMAIN db : new[k] \in Record /\ new[k].name = db[k].name
      BY <2>1 DEF SetValueAt, Record
    <2> HIDE DEF new
    <2>3. IsTable(new) /\ (UniqueIn(db) => UniqueIn(new))
      BY <2>2, SameNames
    <2> QED BY <1>2, <2>3 DEF new, i, db_set
  <1> QED BY <1>1, <1>2

-----------------------------------------------------------------------------
(* Walks over the array.                                                   *)

\* Picking distinct positions of a table gives a table, its names are names
\* at those positions, and distinct names stay distinct.
LEMMA PickRecords ==
    ASSUME NEW db, IsTable(db), NEW n, n \in Nat, n <= MAX_LINES,
           NEW f, f \in [1 .. n -> DOMAIN db],
           \A i, j \in 1 .. n : f[i] = f[j] => i = j,
           NEW new, new = [k \in 1 .. n |-> db[f[k]]]
    PROVE  /\ IsTable(new) /\ Len(new) = n
           /\ \A m \in Names(new) : \E k \in 1 .. n : m = db[f[k]].name
           /\ UniqueIn(db) => UniqueIn(new)
  <1>1. DOMAIN db = 1 .. Len(db) /\ \A k \in DOMAIN db : db[k] \in Record
    BY LenProperties, ElementOfSeq DEF IsTable
  <1>2. /\ DOMAIN new = 1 .. n
        /\ \A k \in 1 .. n : f[k] \in DOMAIN db /\ new[k] = db[f[k]]
    OBVIOUS
  <1>3. IsTable(new) /\ Len(new) = n
    <2>1. \A k \in 1 .. n : new[k] \in Record
      BY <1>1, <1>2
    <2> QED BY <1>2, <2>1, TableByElements
  <1>4. \A m \in Names(new) : \E k \in 1 .. n : m = db[f[k]].name
    BY <1>2 DEF Names
  <1>5. UniqueIn(db) => UniqueIn(new)
    BY <1>2 DEF UniqueIn
  <1> QED BY <1>3, <1>4, <1>5

\* A subsequence of a table is a table with names from the kept positions.
LEMMA SubsequenceTable ==
    ASSUME NEW db, IsTable(db), NEW keep \in SUBSET DOMAIN db,
           NEW new \in Subsequences(db, keep)
    PROVE  /\ IsTable(new)
           /\ Len(new) = Cardinality(keep)
           /\ Cardinality(keep) <= Len(db)
           /\ \A m \in Names(new) : \E k \in keep : m = db[k].name
           /\ UniqueIn(db) => UniqueIn(new)
  <1>1. Len(db) \in Nat /\ DOMAIN db = 1 .. Len(db) /\ Len(db) <= MAX_LINES
    BY LenProperties DEF IsTable
  <1>2. IsFiniteSet(1 .. Len(db)) /\ Cardinality(1 .. Len(db)) = Len(db)
    BY <1>1, IntervalSize
  <1>3. Cardinality(keep) \in Nat /\ Cardinality(keep) <= Len(db)
    BY <1>1, <1>2, FS_Subset, FS_CardinalityType
  <1> DEFINE n == Cardinality(keep)
  <1> HIDE DEF n
  <1>4. PICK f \in [1 .. n -> keep] :
            /\ \A i, j \in 1 .. n : i < j => f[i] < f[j]
            /\ new = [k \in 1 .. n |-> db[f[k]]]
    BY DEF Subsequences, n
  <1>5. n \in Nat /\ n <= MAX_LINES
    BY <1>1, <1>3, MaxLinesAssumption DEF n
  <1>6. f \in [1 .. n -> DOMAIN db]
    BY <1>4
  <1>7. \A i, j \in 1 .. n : f[i] = f[j] => i = j
    <2> SUFFICES ASSUME NEW i \in 1 .. n, NEW j \in 1 .. n, f[i] = f[j], i # j
                 PROVE  FALSE
      OBVIOUS
    <2>1. f[i] \in Nat /\ f[j] \in Nat
      BY <1>6, <1>1
    <2>2. CASE i < j
      BY <2>1, <2>2, <1>4
    <2>3. CASE j < i
      BY <2>1, <2>3, <1>4
    <2> QED BY <2>2, <2>3, <1>5
  <1>8. /\ IsTable(new) /\ Len(new) = n
        /\ \A m \in Names(new) : \E k \in 1 .. n : m = db[f[k]].name
        /\ UniqueIn(db) => UniqueIn(new)
    BY <1>4, <1>5, <1>6, <1>7, PickRecords
  <1>9. \A m \in Names(new) : \E k \in keep : m = db[k].name
    BY <1>4, <1>8
  <1> QED BY <1>3, <1>8, <1>9 DEF n

\* Sorting keeps a table, and its names distinct.
LEMMA SortTable ==
    ASSUME NEW db, IsTable(db), NEW new, new \in db_sort(db)
    PROVE  IsTable(new) /\ (UniqueIn(db) => UniqueIn(new))
  <1>1. PICK n : n = Len(db)
    OBVIOUS
  <1>2. DOMAIN db = 1 .. n
    BY <1>1, LenProperties DEF IsTable
  <1>3. n \in Nat /\ n <= MAX_LINES
    BY <1>1, LenProperties DEF IsTable
  <1>4. PICK f : /\ f \in [1 .. n -> DOMAIN db]
                 /\ \A i, j \in 1 .. n : f[i] = f[j] => i = j
                 /\ new = [k \in 1 .. n |-> db[f[k]]]
    BY <1>2 DEF db_sort
  <1>5. /\ IsTable(new) /\ Len(new) = n
        /\ \A m \in Names(new) : \E k \in 1 .. n : m = db[f[k]].name
        /\ UniqueIn(db) => UniqueIn(new)
    BY <1>3, <1>4, PickRecords, SMTT(30)
  <1> QED BY <1>5

\* Deleting one record keeps a table; with distinct names its name is gone.
LEMMA DelIndexTable ==
    ASSUME NEW db, IsTable(db), NEW i \in DOMAIN db
    PROVE  /\ IsTable(db_del_index(db, i))
           /\ UniqueIn(db) => /\ UniqueIn(db_del_index(db, i))
                              /\ db[i].name \notin Names(db_del_index(db, i))
  <1> DEFINE n == Len(db) - 1
             f == [k \in 1 .. n |-> IF k < i THEN k ELSE k + 1]
             new == db_del_index(db, i)
  <1>1. Len(db) \in Nat /\ DOMAIN db = 1 .. Len(db) /\ Len(db) <= MAX_LINES
    BY LenProperties DEF IsTable
  <1>2. n \in Nat /\ n <= MAX_LINES
    BY <1>1, MaxLinesAssumption
  <1>3. f \in [1 .. n -> DOMAIN db]
    BY <1>1, <1>2
  <1>8. \A j, k \in 1 .. n : f[j] = f[k] => j = k
    BY <1>1, <1>2
  <1>4. new = [k \in 1 .. n |-> db[f[k]]]
    BY <1>1, <1>2 DEF db_del_index
  <1>5. \A k \in 1 .. n : f[k] # i
    BY <1>1, <1>2
  <1> HIDE DEF n, f, new
  <1>6. /\ IsTable(new) /\ Len(new) = n
        /\ \A m \in Names(new) : \E k \in 1 .. n : m = db[f[k]].name
        /\ UniqueIn(db) => UniqueIn(new)
    BY <1>2, <1>3, <1>4, <1>8, PickRecords, SMTT(30)
  <1>7. UniqueIn(db) => db[i].name \notin Names(new)
    BY <1>3, <1>5, <1>6 DEF UniqueIn
  <1> QED BY <1>6, <1>7 DEF new

\* rename keeps a table, and removing newkey first keeps its names distinct.
LEMMA RenameTable ==
    ASSUME NEW db, IsTable(db), NEW oldkey \in Name,
           NEW newkey \in Name \cup {NULL}, CanRename(db, oldkey, newkey)
    PROVE  /\ IsTable(rename(db, oldkey, newkey))
           /\ UniqueIn(db) => UniqueIn(rename(db, oldkey, newkey))
  <1> DEFINE rest == Displaced(db, newkey)
  <1>0. Len(db) \in Nat /\ DOMAIN db = 1 .. Len(db) /\ db \in Seq(Record)
    BY LenProperties DEF IsTable
  <1>1. NewKeyIndex(db, newkey) # 0 => NewKeyIndex(db, newkey) \in DOMAIN db
    BY <1>0, FindKey DEF NewKeyIndex, find_key, EmptyTable
  <1>2. IsTable(rest) /\ (UniqueIn(db) => UniqueIn(rest))
    BY <1>1, DelIndexTable DEF Displaced
  <1>3. CASE newkey = NULL
    BY <1>2, <1>3 DEF rename
  <1>4. CASE newkey # NULL
    <2>1. newkey \in Name
      BY <1>4
    <2>2. UniqueIn(db) => newkey \notin Names(rest)
      <3>1. CASE newkey \in Names(db)
        BY <1>0, <1>1, <1>4, <3>1, FindKey, DelIndexTable
           DEF Displaced, NewKeyIndex
      <3>2. CASE newkey \notin Names(db)
        BY <1>0, <1>4, <3>2, FindKeyAbsent DEF Displaced, NewKeyIndex
      <3> QED BY <3>1, <3>2
    <2> DEFINE i == find_key(rest, oldkey)
               new == SetNameAt(rest, i, newkey)
    <2>3. /\ Len(rest) \in Nat /\ Len(rest) <= MAX_LINES
          /\ DOMAIN rest = 1 .. Len(rest) /\ rest \in Seq(Record)
          /\ \A k \in DOMAIN rest : rest[k] \in Record
      BY <1>2, LenProperties, ElementOfSeq DEF IsTable
    <2> HIDE DEF i, rest
    <2>4. /\ DOMAIN new = DOMAIN rest
          /\ new = [k \in 1 .. Len(rest) |-> new[k]]
          /\ \A k \in DOMAIN rest :
                /\ new[k] \in Record
                /\ k = i => new[k].name = newkey
                /\ k # i => new[k].name = rest[k].name
      BY <2>1, <2>3 DEF SetNameAt, Record
    <2> HIDE DEF new
    <2>5. IsTable(new)
      BY <2>3, <2>4, TableByElements
    <2>6. UniqueIn(db) => UniqueIn(new)
      <3>1. UniqueIn(db) => \A k \in DOMAIN rest : rest[k].name # newkey
        BY <2>2 DEF Names
      <3> SUFFICES ASSUME UniqueIn(db),
                          NEW j \in DOMAIN rest, NEW k \in DOMAIN rest,
                          new[j].name = new[k].name
                   PROVE  j = k
        BY <2>4 DEF UniqueIn
      <3>2. rest[j].name = rest[k].name => j = k
        BY <1>2 DEF UniqueIn
      <3>3. rest[j].name # newkey /\ rest[k].name # newkey
        BY <3>1
      <3>4. CASE j = i \/ k = i
        BY <2>4, <3>3, <3>4
      <3>5. CASE j # i /\ k # i
        BY <2>4, <3>2, <3>5
      <3> QED BY <3>4, <3>5
    <2> QED BY <1>4, <2>5, <2>6 DEF rename, new, i, rest
  <1> QED BY <1>3, <1>4

\* del keeps a table, and its names distinct.
LEMMA DelTable ==
    ASSUME NEW db, IsTable(db), NEW p, NEW new \in del(db, p)
    PROVE  IsTable(new) /\ (UniqueIn(db) => UniqueIn(new))
  <1> DEFINE keep == {k \in DOMAIN db : db[k].name \notin p}
  <1>1. keep \in SUBSET DOMAIN db /\ new \in Subsequences(db, keep)
    BY DEF del
  <1> HIDE DEF keep
  <1> QED BY <1>1, SubsequenceTable

-----------------------------------------------------------------------------
(* Lists.                                                                  *)

\* Elements have names, and different ones different names.
LEMMA ItemName ==
    ASSUME NEW l \in List
    PROVE  /\ \A i \in 0 .. MAX_LINES - 1 : Item[l][i] \in Name
           /\ \A i, j \in 0 .. MAX_LINES - 1 : Item[l][i] = Item[l][j] => i = j
           /\ Item[l][-1] \in Name
  <1>1. /\ 0 .. MAX_LINES - 1 \subseteq ItemIndex
        /\ -1 \in ItemIndex
    BY MaxLinesAssumption DEF ItemIndex
  <1>2. Item[l] \in [ItemIndex -> Name]
    BY ItemAssumption
  <1>3. \A i, j \in ItemIndex : Item[l][i] = Item[l][j] => i = j
    BY ItemAssumption
  <1> QED BY <1>1, <1>2, <1>3

\* A table with room leaves an index free (pigeonhole), so the -1 of
\* list_getnextindex never becomes part of a name.
LEMMA FreeIndex ==
    ASSUME NEW db, IsTable(db), CanAdd(db), NEW l \in List
    PROVE  /\ list_getnextindex(db, l) \in 0 .. MAX_LINES - 1
           /\ Item[l][list_getnextindex(db, l)] \notin Names(db)
           /\ \A j \in 0 .. list_getnextindex(db, l) - 1 : Item[l][j] \in Names(db)
  <1> DEFINE S == 0 .. MAX_LINES - 1
             free == {i \in S : Item[l][i] \notin Names(db)}
  <1>0. /\ db \in Seq(Record) /\ Len(db) \in Nat /\ DOMAIN db = 1 .. Len(db)
        /\ Len(db) < MAX_LINES
    BY LenProperties DEF IsTable, CanAdd
  <1>1. free # {}
    <2> SUFFICES ASSUME free = {} PROVE FALSE
      OBVIOUS
    <2>1. \A i \in S : Item[l][i] \in Names(db)
      OBVIOUS
    <2> DEFINE f == [i \in S |-> find_key(db, Item[l][i])]
               T == 1 .. Len(db)
    <2>2. f \in [S -> T] /\ \A i \in S : db[f[i]].name = Item[l][i]
      BY <1>0, <2>1, FindKey
    <2>3. IsFiniteSet(S) /\ Cardinality(S) = MAX_LINES
      BY IntervalSize, MaxLinesAssumption
    <2>4. IsFiniteSet(T) /\ Cardinality(T) = Len(db)
      BY <1>0, IntervalSize
    <2>5. Cardinality(T) < Cardinality(S)
      BY <1>0, <2>3, <2>4
    <2> HIDE DEF f, T, S
    <2>6. PICK x \in S, y \in S : x # y /\ f[x] = f[y]
      BY <2>2, <2>3, <2>4, <2>5, FS_PigeonHole
    <2>7. Item[l][x] = Item[l][y]
      BY <2>2, <2>6
    <2> QED BY <2>6, <2>7, ItemName DEF S
  <1>2. free \subseteq Nat
    BY MaxLinesAssumption
  <1>3. PICK i \in free : \A j \in free : i <= j
    BY <1>1, <1>2, LeastNatural
  <1>4. /\ list_getnextindex(db, l) \in free
        /\ \A j \in free : list_getnextindex(db, l) <= j
    BY <1>1, <1>3 DEF list_getnextindex
  <1>5. ASSUME NEW j \in 0 .. list_getnextindex(db, l) - 1 PROVE Item[l][j] \in Names(db)
    BY <1>4, MaxLinesAssumption
  <1> QED BY <1>4, <1>5

\* listadd keeps a table with distinct names such a table.
LEMMA ListAddTable ==
    ASSUME NEW db, IsTable(db), CanAdd(db), NEW l \in List, NEW v \in Value
    PROVE  /\ IsTable(listadd(db, l, v))
           /\ UniqueIn(db) => UniqueIn(listadd(db, l, v))
  <1> DEFINE n == Item[l][list_getnextindex(db, l)]
  <1>1. n \in Name /\ n \notin Names(db)
    BY FreeIndex, ItemName
  <1> HIDE DEF n
  <1>2. IsTable(db_add(db, n, v)) /\ (UniqueIn(db) => UniqueIn(db_add(db, n, v)))
    BY <1>1, AddRecord
  <1> QED BY <1>2 DEF listadd, n

\* The first loop of listrm stops: at a gap or at the end of the array.
LEMMA ListLengthType ==
    ASSUME NEW db, NEW l \in List
    PROVE  /\ ListLength(db, l) \in 0 .. MAX_LINES
           /\ \A i \in 0 .. ListLength(db, l) - 1 : Item[l][i] \in Names(db)
           /\ ListLength(db, l) = MAX_LINES \/ Item[l][ListLength(db, l)] \notin Names(db)
  <1> DEFINE free == {i \in 0 .. MAX_LINES - 1 : Item[l][i] \notin Names(db)}
             Stop(n) == /\ \A i \in 0 .. n - 1 : Item[l][i] \in Names(db)
                        /\ n = MAX_LINES \/ Item[l][n] \notin Names(db)
  <1>1. \E n \in 0 .. MAX_LINES : Stop(n)
    <2>1. CASE free = {}
      <3>1. MAX_LINES \in 0 .. MAX_LINES /\ Stop(MAX_LINES)
        BY <2>1, MaxLinesAssumption
      <3> QED BY <3>1
    <2>2. CASE free # {}
      <3>1. free \subseteq Nat
        BY MaxLinesAssumption
      <3>2. PICK n \in free : \A j \in free : n <= j
        BY <2>2, <3>1, LeastNatural
      <3>3. n \in 0 .. MAX_LINES /\ Stop(n)
        BY <3>2, MaxLinesAssumption
      <3> QED BY <3>3
    <2> QED BY <2>1, <2>2
  <1>2. ListLength(db, l) = CHOOSE n \in 0 .. MAX_LINES : Stop(n)
    BY DEF ListLength
  <1>3. ListLength(db, l) \in 0 .. MAX_LINES /\ Stop(ListLength(db, l))
    BY <1>1, <1>2
  <1> QED BY <1>3

\* local_lines is a table: at most as many lines as were visited, with the
\* names of the first elements.
LEMMA LocalLinesTable ==
    ASSUME NEW db, IsTable(db), NEW l \in List, NEW key
    PROVE  LET local == LocalLines(db, l, key)
           IN  /\ IsTable(local) /\ UniqueIn(local)
               /\ Len(local) <= ListLength(db, l)
  <1> DEFINE n == ListLength(db, l)
             Old(i) == db[find_key(db, Item[l][i])].value
             hit == {i \in 0 .. n - 1 : Item[l][i] = key}
             m == n - Cardinality(hit)
             At(k) == IF \E i \in hit : i <= k - 1 THEN k ELSE k - 1
             local == [k \in 1 .. m |->
                          [name |-> Item[l][k - 1], value |-> Old(At(k))]]
  <1>0. db \in Seq(Record)
    BY DEF IsTable
  <1>1. n \in Nat /\ n <= MAX_LINES /\ \A i \in 0 .. n - 1 : Item[l][i] \in Names(db)
    BY ListLengthType, MaxLinesAssumption
  <1>2. IsFiniteSet(0 .. n - 1) /\ Cardinality(0 .. n - 1) = n
    BY <1>1, IntervalSize
  <1>3. hit \in SUBSET (0 .. n - 1)
    OBVIOUS
  <1> HIDE DEF n, hit
  <1>4. IsFiniteSet(hit) /\ Cardinality(hit) \in Nat /\ Cardinality(hit) <= n
    BY <1>2, <1>3, FS_Subset, FS_CardinalityType
  <1>5. hit # {} => Cardinality(hit) # 0
    BY <1>4, FS_EmptySet
  <1>6. m \in Nat /\ m <= n
    BY <1>1, <1>4
  <1>7. \A k \in 1 .. m : At(k) \in 0 .. n - 1 /\ k - 1 \in 0 .. MAX_LINES - 1
    BY <1>1, <1>4, <1>5, MaxLinesAssumption
  <1> HIDE DEF m, At
  <1>8. ASSUME NEW i \in 0 .. n - 1 PROVE Old(i) \in Value
    <2>1. Item[l][i] \in Names(db)
      BY <1>1
    <2>2. find_key(db, Item[l][i]) \in 1 .. Len(db)
      BY <1>0, <2>1, FindKey
    <2>3. db[find_key(db, Item[l][i])] \in Record
      BY <1>0, <2>2, ElementOfSeq
    <2> QED BY <2>3 DEF Record
  <1> HIDE DEF Old
  <1>9. /\ DOMAIN local = 1 .. m
        /\ local = [k \in 1 .. m |-> local[k]]
        /\ \A k \in 1 .. m : local[k] \in Record /\ local[k].name = Item[l][k - 1]
    <2>1. \A k \in 1 .. m : Item[l][k - 1] \in Name /\ Old(At(k)) \in Value
      BY <1>7, <1>8, ItemName
    <2> QED BY <2>1 DEF Record
  <1>10. local = LocalLines(db, l, key)
    BY DEF LocalLines, local, m, At, Old, hit, n
  <1> HIDE DEF local
  <1>11. m <= MAX_LINES
    BY <1>1, <1>6, MaxLinesAssumption
  <1>12. IsTable(local) /\ Len(local) = m
    BY <1>6, <1>9, <1>11, TableByElements
  <1>13. UniqueIn(local)
    <2> SUFFICES ASSUME NEW i \in 1 .. m, NEW j \in 1 .. m,
                        Item[l][i - 1] = Item[l][j - 1]
                 PROVE  i = j
      BY <1>9 DEF UniqueIn
    <2>1. i - 1 = j - 1
      BY <1>7, ItemName
    <2> QED BY <2>1, <1>6
  <1> QED BY <1>6, <1>10, <1>12, <1>13 DEF n

\* The first loop takes as many records out of the array as it visits.
LEMMA UnlistedTable ==
    ASSUME NEW db, IsTable(db), NEW l \in List, NEW rest, rest \in Unlisted(db, l)
    PROVE  /\ IsTable(rest)
           /\ UniqueIn(db) => UniqueIn(rest)
           /\ Len(rest) + ListLength(db, l) <= MAX_LINES
  <1> DEFINE n == ListLength(db, l)
             S == 0 .. n - 1
             D == DOMAIN db
             gone == {find_key(db, Item[l][i]) : i \in S}
             f == [i \in S |-> find_key(db, Item[l][i])]
  <1>0. /\ db \in Seq(Record) /\ Len(db) \in Nat /\ D = 1 .. Len(db)
        /\ Len(db) <= MAX_LINES
    BY LenProperties DEF IsTable
  <1>1. n \in Nat /\ n <= MAX_LINES /\ \A i \in S : Item[l][i] \in Names(db)
    BY ListLengthType, MaxLinesAssumption
  <1>2. rest \in Subsequences(db, D \ gone)
    BY DEF Unlisted
  <1>3. \A i \in S : f[i] \in D /\ db[f[i]].name = Item[l][i]
    BY <1>0, <1>1, FindKey
  <1>4. gone \subseteq D /\ \A i \in S : f[i] \in gone
    BY <1>3
  <1>5. f \in Injection(S, gone)
    <2>1. f \in [S -> gone]
      BY <1>4
    <2>2. ASSUME NEW i \in S, NEW j \in S, f[i] = f[j] PROVE i = j
      <3>1. Item[l][i] = Item[l][j]
        BY <1>3, <2>2
      <3>2. i \in 0 .. MAX_LINES - 1 /\ j \in 0 .. MAX_LINES - 1
        BY <1>1, MaxLinesAssumption
      <3> QED BY <3>1, <3>2, ItemName
    <2> QED BY <2>1, <2>2 DEF Injection, IsInjective
  <1>6. IsFiniteSet(S) /\ Cardinality(S) = n
    BY <1>1, IntervalSize
  <1>7. IsFiniteSet(D) /\ Cardinality(D) = Len(db)
    BY <1>0, IntervalSize
  <1> HIDE DEF n, S, D, gone, f
  <1>8. IsFiniteSet(gone) /\ Cardinality(gone) \in Nat
    BY <1>4, <1>7, FS_Subset, FS_CardinalityType
  <1>9. n <= Cardinality(gone)
    BY <1>5, <1>6, <1>8, FS_Injection
  <1>10. Cardinality(D \ gone) = Len(db) - Cardinality(gone)
    <2>1. Cardinality(D \ gone) = Cardinality(D) - Cardinality(D \cap gone)
      BY <1>7, FS_Difference
    <2>2. D \cap gone = gone
      BY <1>4
    <2> QED BY <1>7, <2>1, <2>2
  <1>11. D \ gone \in SUBSET DOMAIN db
    BY DEF D
  <1>12. /\ IsTable(rest) /\ Len(rest) = Cardinality(D \ gone)
         /\ UniqueIn(db) => UniqueIn(rest)
    BY <1>2, <1>11, SubsequenceTable
  <1>13. Len(rest) + n <= MAX_LINES
    BY <1>0, <1>1, <1>8, <1>9, <1>10, <1>12, MaxLinesAssumption
  <1> QED BY <1>12, <1>13 DEF n

\* Two tables that share no name, one behind the other.
LEMMA ConcatTable ==
    ASSUME NEW s, IsTable(s), NEW t, IsTable(t), Len(s) + Len(t) <= MAX_LINES
    PROVE  /\ IsTable(s \o t)
           /\ UniqueIn(s) /\ UniqueIn(t) /\ Names(s) \cap Names(t) = {}
                => UniqueIn(s \o t)
  <1> DEFINE u == s \o t
  <1>1. /\ s \in Seq(Record) /\ Len(s) \in Nat /\ DOMAIN s = 1 .. Len(s)
        /\ t \in Seq(Record) /\ Len(t) \in Nat /\ DOMAIN t = 1 .. Len(t)
    BY LenProperties DEF IsTable
  <1>2. /\ u \in Seq(Record) /\ Len(u) = Len(s) + Len(t)
        /\ DOMAIN u = 1 .. Len(s) + Len(t)
        /\ \A i \in 1 .. Len(s) + Len(t) :
              u[i] = IF i <= Len(s) THEN s[i] ELSE t[i - Len(s)]
    BY <1>1, ConcatProperties, LenProperties
  <1> HIDE DEF u
  <1>3. IsTable(u)
    BY <1>2 DEF IsTable
  <1>4. ASSUME UniqueIn(s), UniqueIn(t), Names(s) \cap Names(t) = {}
        PROVE  UniqueIn(u)
    <2> SUFFICES ASSUME NEW i \in 1 .. Len(s) + Len(t),
                        NEW j \in 1 .. Len(s) + Len(t),
                        u[i].name = u[j].name
                 PROVE  i = j
      BY <1>2 DEF UniqueIn
    <2>1. \A k \in 1 .. Len(s), m \in 1 .. Len(t) : s[k].name # t[m].name
      <3> SUFFICES ASSUME NEW k \in 1 .. Len(s), NEW m \in 1 .. Len(t),
                          s[k].name = t[m].name
                   PROVE  FALSE
        OBVIOUS
      <3>1. s[k].name \in Names(s) /\ t[m].name \in Names(t)
        BY <1>1 DEF Names
      <3> QED BY <1>4, <3>1
    <2>2. CASE i <= Len(s) /\ j <= Len(s)
      <3>1. i \in DOMAIN s /\ j \in DOMAIN s
        BY <1>1, <2>2
      <3>2. u[i] = s[i] /\ u[j] = s[j]
        BY <1>1, <1>2, <2>2
      <3> QED BY <1>4, <3>1, <3>2 DEF UniqueIn
    <2>3. CASE i > Len(s) /\ j > Len(s)
      <3>1. i - Len(s) \in 1 .. Len(t) /\ j - Len(s) \in 1 .. Len(t)
        BY <1>1, <2>3
      <3>2. u[i] = t[i - Len(s)] /\ u[j] = t[j - Len(s)]
        BY <1>1, <1>2, <2>3
      <3>3. i - Len(s) = j - Len(s)
        BY <1>1, <1>4, <3>1, <3>2 DEF UniqueIn
      <3> QED BY <1>1, <3>3
    <2>4. CASE i <= Len(s) /\ j > Len(s)
      <3>1. i \in 1 .. Len(s) /\ j - Len(s) \in 1 .. Len(t)
        BY <1>1, <2>4
      <3>2. u[i] = s[i] /\ u[j] = t[j - Len(s)]
        BY <1>1, <1>2, <2>4
      <3> QED BY <2>1, <3>1, <3>2
    <2>5. CASE i > Len(s) /\ j <= Len(s)
      <3>1. j \in 1 .. Len(s) /\ i - Len(s) \in 1 .. Len(t)
        BY <1>1, <2>5
      <3>2. u[j] = s[j] /\ u[i] = t[i - Len(s)]
        BY <1>1, <1>2, <2>5
      <3> QED BY <2>1, <3>1, <3>2
    <2> QED BY <1>1, <2>2, <2>3, <2>4, <2>5
  <1> QED BY <1>3, <1>4 DEF u

\* The second loop of listrm: whether db_set finds a name or appends it, the
\* table keeps distinct names and does not overflow.
LEMMA RelistedTable ==
    ASSUME NEW db, IsTable(db), NEW local, IsTable(local), UniqueIn(local),
           Len(db) + Len(local) <= MAX_LINES, NEW lost, NEW t \in Relisted(db, local, lost)
    PROVE  IsTable(t) /\ (UniqueIn(db) => UniqueIn(t))
  <1> DEFINE saved == {j \in DOMAIN local : j > lost}
             Hit(k) == \E j \in saved : find_key(db, local[j].name) = k
             Of(k) == CHOOSE j \in saved : find_key(db, local[j].name) = k
             put == [k \in DOMAIN db |-> IF Hit(k) THEN local[Of(k)] ELSE db[k]]
             miss == {j \in saved : local[j].name \notin Names(db)}
  <1>1. /\ db \in Seq(Record) /\ Len(db) \in Nat /\ DOMAIN db = 1 .. Len(db)
        /\ local \in Seq(Record) /\ Len(local) \in Nat
        /\ \A k \in DOMAIN db : db[k] \in Record
        /\ \A k \in DOMAIN local : local[k] \in Record
    BY LenProperties, ElementOfSeq DEF IsTable
  <1>2. PICK new \in Subsequences(local, miss) : t = put \o new
    BY DEF Relisted
  <1>3. ASSUME NEW k \in DOMAIN db
        PROVE  put[k] \in Record /\ put[k].name = db[k].name
    <2>1. CASE ~Hit(k)
      BY <1>1, <2>1
    <2>2. CASE Hit(k)
      <3>1. Of(k) \in saved /\ find_key(db, local[Of(k)].name) = k
        BY <2>2
      <3>2. local[Of(k)].name \in Names(db)
        BY <1>1, <3>1, FindKeyAbsent
      <3>3. db[k].name = local[Of(k)].name
        BY <1>1, <3>1, <3>2, FindKey
      <3>4. put[k] = local[Of(k)]
        BY <2>2
      <3> QED BY <1>1, <3>1, <3>3, <3>4
    <2> QED BY <2>1, <2>2
  <1>4. put = [k \in DOMAIN db |-> put[k]]
    OBVIOUS
  <1>5. miss \in SUBSET DOMAIN local
    OBVIOUS
  <1>6. \A k \in miss : local[k].name \notin Names(db)
    OBVIOUS
  <1>12. DOMAIN put = DOMAIN db
    OBVIOUS
  <1> HIDE DEF put, miss
  <1>7. /\ IsTable(put) /\ Names(put) = Names(db)
        /\ UniqueIn(db) => UniqueIn(put)
    BY <1>3, <1>4, SameNames
  <1>8. /\ IsTable(new) /\ Len(new) = Cardinality(miss)
        /\ Cardinality(miss) <= Len(local)
        /\ \A m \in Names(new) : \E k \in miss : m = local[k].name
        /\ UniqueIn(new)
    BY <1>2, <1>5, SubsequenceTable
  <1>9. Names(put) \cap Names(new) = {}
    BY <1>6, <1>7, <1>8
  <1>10. Len(put) = Len(db)
    BY <1>1, <1>7, <1>12, LenProperties DEF IsTable
  <1>11. Len(put) + Len(new) <= MAX_LINES
    <2>1. Len(new) \in Nat
      BY <1>8, LenProperties DEF IsTable
    <2> QED BY <1>1, <1>8, <1>10, <2>1, MaxLinesAssumption
  <1>13. IsTable(put \o new) /\ (UniqueIn(put) => UniqueIn(put \o new))
    BY <1>7, <1>8, <1>9, <1>11, ConcatTable
  <1> QED BY <1>2, <1>7, <1>13

\* listrm keeps a table with distinct names such a table.
LEMMA ListRmTable ==
    ASSUME NEW db, IsTable(db), NEW l \in List, NEW key, NEW lost,
           NEW t \in listrm(db, l, key, lost)
    PROVE  IsTable(t) /\ (UniqueIn(db) => UniqueIn(t))
  <1> DEFINE local == LocalLines(db, l, key)
  <1>1. PICK rest \in Unlisted(db, l) : t \in Relisted(rest, local, lost)
    BY DEF listrm
  <1>2. /\ IsTable(local) /\ UniqueIn(local) /\ Len(local) \in Nat
        /\ Len(local) <= ListLength(db, l)
    BY LocalLinesTable, LenProperties DEF IsTable
  <1>3. /\ IsTable(rest) /\ (UniqueIn(db) => UniqueIn(rest)) /\ Len(rest) \in Nat
        /\ Len(rest) + ListLength(db, l) <= MAX_LINES
    BY UnlistedTable, LenProperties DEF IsTable
  <1> HIDE DEF local
  <1>4. Len(rest) + Len(local) <= MAX_LINES
    BY <1>2, <1>3, ListLengthType, MaxLinesAssumption
  <1>5. IsTable(t) /\ (UniqueIn(rest) => UniqueIn(t))
    BY <1>1, <1>2, <1>3, <1>4, RelistedTable
  <1> QED BY <1>3, <1>5

-----------------------------------------------------------------------------
(* What a table holds, whatever the order of its records.                  *)

Records(db) == {db[i] : i \in DOMAIN db}

\* Tables with distinct names and the same records are of the same length and
\* have the same contents.
LEMMA SameRecords ==
    ASSUME NEW a, IsTable(a), UniqueIn(a), NEW b, IsTable(b), UniqueIn(b),
           Records(a) = Records(b)
    PROVE  Names(a) = Names(b) /\ Len(a) = Len(b) /\ Contents(a) = Contents(b)
  <1>1. /\ Len(a) \in Nat /\ DOMAIN a = 1 .. Len(a) /\ a \in Seq(Record)
        /\ Len(b) \in Nat /\ DOMAIN b = 1 .. Len(b) /\ b \in Seq(Record)
    BY LenProperties DEF IsTable
  <1>2. Names(a) = Names(b)
    <2>1. Names(a) = {r.name : r \in Records(a)} /\ Names(b) = {r.name : r \in Records(b)}
      BY DEF Names, Records
    <2>. QED BY <2>1
  <1>3. ASSUME NEW s, NEW t, s \in Seq(Record), t \in Seq(Record), UniqueIn(s),
               Records(s) = Records(t)
        PROVE  Len(s) <= Len(t)
    <2>1. /\ Len(s) \in Nat /\ DOMAIN s = 1 .. Len(s)
          /\ Len(t) \in Nat /\ DOMAIN t = 1 .. Len(t)
      BY <1>3, LenProperties
    <2>2. \A i \in 1 .. Len(s) : \E j \in 1 .. Len(t) : t[j] = s[i]
      BY <1>3, <2>1 DEF Records
    <2>3. PICK f \in [1 .. Len(s) -> 1 .. Len(t)] : \A i \in 1 .. Len(s) : t[f[i]] = s[i]
      <3>. DEFINE g == [i \in 1 .. Len(s) |-> CHOOSE j \in 1 .. Len(t) : t[j] = s[i]]
      <3>1. \A i \in 1 .. Len(s) : g[i] \in 1 .. Len(t) /\ t[g[i]] = s[i]
        BY <2>2
      <3>. QED BY <3>1
    <2>4. f \in Injection(1 .. Len(s), 1 .. Len(t))
      <3>1. \A i, j \in 1 .. Len(s) : f[i] = f[j] => i = j
        <4>. SUFFICES ASSUME NEW i \in 1 .. Len(s), NEW j \in 1 .. Len(s), f[i] = f[j]
                      PROVE  i = j
          OBVIOUS
        <4>1. s[i] = s[j]
          BY <2>3
        <4>. QED BY <1>3, <2>1, <4>1 DEF UniqueIn
      <3>. QED BY <2>3, <3>1 DEF Injection, IsInjective
    <2>5. \A n \in Nat : IsFiniteSet(1 .. n) /\ Cardinality(1 .. n) = n
      BY IntervalSize
    <2>6. Cardinality(1 .. Len(s)) <= Cardinality(1 .. Len(t))
      BY <2>1, <2>4, <2>5, FS_Injection
    <2>. QED BY <2>1, <2>5, <2>6
  <1>4. Len(a) = Len(b)
    <2>1. Len(a) <= Len(b) /\ Len(b) <= Len(a)
      BY <1>1, <1>3, Zenon
    <2>2. Len(a) \in Nat /\ Len(b) \in Nat
      BY <1>1
    <2>. QED BY <2>1, <2>2
  <1>5. ASSUME NEW n \in Names(a)
        PROVE  a[find_key(a, n)].value = b[find_key(b, n)].value
    <2>1. /\ find_key(a, n) \in 1 .. Len(a) /\ a[find_key(a, n)].name = n
          /\ find_key(b, n) \in 1 .. Len(b) /\ b[find_key(b, n)].name = n
      BY <1>1, <1>2, <1>5, FindKey
    <2>2. PICK j \in DOMAIN b : b[j] = a[find_key(a, n)]
      BY <1>1, <2>1 DEF Records
    <2>3. j = find_key(b, n)
      BY <1>1, <2>1, <2>2 DEF UniqueIn
    <2>. QED BY <2>2, <2>3
  <1>. QED BY <1>2, <1>4, <1>5 DEF Contents

\* A table without records is the empty one.
LEMMA NoRecords ==
    ASSUME NEW db, IsTable(db), Records(db) = {}
    PROVE  db = EmptyTable
  <1>1. db \in Seq(Record) /\ Len(db) \in Nat /\ DOMAIN db = 1 .. Len(db)
    BY LenProperties DEF IsTable
  <1>2. Len(db) = 0
    <2>. SUFFICES ASSUME Len(db) # 0 PROVE FALSE
      OBVIOUS
    <2>1. 1 \in DOMAIN db
      BY <1>1
    <2>. QED BY <2>1 DEF Records
  <1>. QED BY <1>1, <1>2, EmptySeq DEF EmptyTable

\* db_set puts one record in the place of those with its name.
LEMMA SetRecords ==
    ASSUME NEW db, IsTable(db), UniqueIn(db), NEW n \in Name, NEW v \in Value
    PROVE  Records(db_set(db, n, v)) =
               {r \in Records(db) : r.name # n} \cup {[name |-> n, value |-> v]}
  <1>. DEFINE new == db_set(db, n, v)
              e == [name |-> n, value |-> v]
  <1>1. /\ Len(db) \in Nat /\ DOMAIN db = 1 .. Len(db) /\ db \in Seq(Record)
        /\ e \in Record /\ e.name = n
    BY LenProperties DEF IsTable, Record
  <1>2. CASE n \in Names(db)
    <2>1. /\ find_key(db, n) \in DOMAIN db /\ db[find_key(db, n)].name = n
          /\ new = [db EXCEPT ![find_key(db, n)] = e]
      BY <1>1, <1>2, FindKey DEF db_set, SetValueAt
    <2>2. PICK i \in DOMAIN db : db[i].name = n /\ new = [db EXCEPT ![i] = e]
      BY <2>1
    <2>3. DOMAIN new = DOMAIN db /\ \A k \in DOMAIN db : new[k] = IF k = i THEN e ELSE db[k]
      BY <2>2
    <2>4. \A k \in DOMAIN db : db[k].name # n <=> k # i
      BY <2>2 DEF UniqueIn
    <2>. HIDE DEF new, e
    <2>. QED BY <2>2, <2>3, <2>4 DEF Records, new, e
  <1>3. CASE n \notin Names(db)
    <2>1. new = Append(db, e)
      BY <1>3 DEF db_set, db_add
    <2>2. /\ new \in Seq(Record) /\ Len(new) = Len(db) + 1
          /\ \A i \in 1 .. Len(db) : new[i] = db[i]
          /\ new[Len(db) + 1] = e
      BY <1>1, <2>1, AppendProperties
    <2>3. DOMAIN new = 1 .. Len(db) + 1
      BY <2>2, LenProperties
    <2>4. Records(new) = Records(db) \cup {e}
      <3>. HIDE DEF new, e
      <3>1. ASSUME NEW k \in DOMAIN new PROVE new[k] \in Records(db) \cup {e}
        <4>1. k \in 1 .. Len(db) \/ k = Len(db) + 1
          BY <1>1, <2>3
        <4>. QED BY <1>1, <2>2, <4>1 DEF Records
      <3>2. ASSUME NEW k \in DOMAIN db PROVE db[k] \in Records(new)
        BY <1>1, <2>2, <2>3 DEF Records
      <3>3. e \in Records(new)
        BY <1>1, <2>2, <2>3 DEF Records
      <3>. QED BY <3>1, <3>2, <3>3 DEF Records
    <2>5. {r \in Records(db) : r.name # n} = Records(db)
      BY <1>3 DEF Names, Records
    <2>. QED BY <2>4, <2>5
  <1>. QED BY <1>2, <1>3

\* A subsequence has the records at the positions that are kept.
LEMMA SubsequenceRecords ==
    ASSUME NEW db, IsTable(db), NEW keep \in SUBSET DOMAIN db,
           NEW new \in Subsequences(db, keep)
    PROVE  Records(new) = {db[k] : k \in keep}
  <1>. DEFINE n == Cardinality(keep)
  <1>1. Len(db) \in Nat /\ DOMAIN db = 1 .. Len(db)
    BY LenProperties DEF IsTable
  <1>2. IsFiniteSet(DOMAIN db)
    BY <1>1, IntervalSize
  <1>3. n \in Nat /\ IsFiniteSet(keep)
    BY <1>2, FS_Subset, FS_CardinalityType
  <1>4. PICK f \in [1 .. n -> keep] :
            /\ \A i, j \in 1 .. n : i < j => f[i] < f[j]
            /\ new = [k \in 1 .. n |-> db[f[k]]]
    BY DEF Subsequences
  <1>. HIDE DEF n
  <1>5. \A i, j \in 1 .. n : f[i] = f[j] => i = j
    <2>. SUFFICES ASSUME NEW i \in 1 .. n, NEW j \in 1 .. n, f[i] = f[j], i # j
                  PROVE  FALSE
      OBVIOUS
    <2>1. f[i] \in Nat /\ f[j] \in Nat
      BY <1>1, <1>4
    <2>. QED BY <1>3, <1>4, <2>1
  <1>6. Cardinality(1 .. n) = n
    BY <1>3, IntervalSize
  <1>7. f \in Injection(1 .. n, keep)
    BY <1>4, <1>5 DEF Injection, IsInjective
  <1>8. f \in Surjection(1 .. n, keep)
    BY <1>3, <1>6, <1>7, FS_Injection DEF n
  <1>9. \A k \in keep : \E i \in 1 .. n : f[i] = k
    BY <1>8 DEF Surjection
  <1>10. DOMAIN new = 1 .. n /\ \A k \in 1 .. n : new[k] = db[f[k]] /\ f[k] \in keep
    BY <1>4
  <1>. QED BY <1>9, <1>10 DEF Records

\* del leaves the records whose names do not match.
LEMMA DelRecords ==
    ASSUME NEW db, IsTable(db), NEW p, NEW new \in del(db, p)
    PROVE  Records(new) = {r \in Records(db) : r.name \notin p}
  <1>. DEFINE keep == {k \in DOMAIN db : db[k].name \notin p}
  <1>1. Records(new) = {db[k] : k \in keep}
    BY SubsequenceRecords DEF del
  <1>. QED BY <1>1 DEF Records

\* Sorting keeps the records.
LEMMA SortRecords ==
    ASSUME NEW db, IsTable(db), NEW new \in db_sort(db)
    PROVE  Records(new) = Records(db)
  <1>1. Len(db) \in Nat /\ DOMAIN db = 1 .. Len(db)
    BY LenProperties DEF IsTable
  <1>2. IsFiniteSet(DOMAIN db)
    BY <1>1, IntervalSize
  <1>3. PICK f \in [DOMAIN db -> DOMAIN db] :
            /\ \A i, j \in DOMAIN db : f[i] = f[j] => i = j
            /\ new = [k \in DOMAIN db |-> db[f[k]]]
    BY DEF db_sort
  <1>4. f \in Injection(DOMAIN db, DOMAIN db)
    BY <1>3 DEF Injection, IsInjective
  <1>5. f \in Surjection(DOMAIN db, DOMAIN db)
    BY <1>2, <1>4, FS_Injection
  <1>6. \A k \in DOMAIN db : \E i \in DOMAIN db : f[i] = k
    BY <1>5 DEF Surjection
  <1>. QED BY <1>3, <1>6 DEF Records

\* The contents of a table are what its records say.
LEMMA ContentsOf ==
    ASSUME NEW db, IsTable(db), UniqueIn(db)
    PROVE  /\ DOMAIN Contents(db) = Names(db)
           /\ Names(db) = {r.name : r \in Records(db)}
           /\ \A r \in Records(db) : r \in Record /\ Contents(db)[r.name] = r.value
           /\ \A n \in Names(db) : [name |-> n, value |-> Contents(db)[n]] \in Records(db)
  <1>1. /\ Len(db) \in Nat /\ DOMAIN db = 1 .. Len(db) /\ db \in Seq(Record)
        /\ \A i \in DOMAIN db : db[i] \in Record
    BY LenProperties, ElementOfSeq DEF IsTable
  <1>2. DOMAIN Contents(db) = Names(db) /\ Names(db) = {r.name : r \in Records(db)}
    BY DEF Contents, Names, Records
  <1>3. ASSUME NEW n \in Names(db)
        PROVE  \E i \in DOMAIN db : /\ db[i].name = n /\ Contents(db)[n] = db[i].value
                                    /\ i = find_key(db, n)
    BY <1>1, <1>3, FindKey DEF Contents
  <1>4. ASSUME NEW r \in Records(db) PROVE r \in Record /\ Contents(db)[r.name] = r.value
    <2>1. PICK j \in DOMAIN db : r = db[j]
      BY DEF Records
    <2>2. r.name \in Names(db)
      BY <2>1 DEF Names
    <2>3. PICK i \in DOMAIN db : db[i].name = r.name /\ Contents(db)[r.name] = db[i].value
      BY <1>3, <2>2
    <2>4. i = j
      BY <2>1, <2>3 DEF UniqueIn
    <2>. QED BY <1>1, <2>1, <2>3, <2>4
  <1>5. ASSUME NEW n \in Names(db)
        PROVE  [name |-> n, value |-> Contents(db)[n]] \in Records(db)
    <2>1. PICK i \in DOMAIN db : db[i].name = n /\ Contents(db)[n] = db[i].value
      BY <1>3, <1>5
    <2>2. db[i] = [name |-> n, value |-> Contents(db)[n]]
      BY <1>1, <2>1 DEF Record
    <2>. QED BY <2>2 DEF Records
  <1>. QED BY <1>2, <1>4, <1>5

\* A function that agrees with the records is the contents.
LEMMA ContentsBy ==
    ASSUME NEW db, IsTable(db), UniqueIn(db), NEW s, s = [n \in DOMAIN s |-> s[n]],
           \A n \in DOMAIN s : [name |-> n, value |-> s[n]] \in Records(db),
           \A r \in Records(db) : r.name \in DOMAIN s
    PROVE  Contents(db) = s
  <1>1. /\ DOMAIN Contents(db) = Names(db)
        /\ Names(db) = {r.name : r \in Records(db)}
        /\ \A r \in Records(db) : Contents(db)[r.name] = r.value
    BY ContentsOf
  <1>2. ASSUME NEW n \in DOMAIN s
        PROVE  n \in Names(db) /\ Contents(db)[n] = s[n]
    <2>. DEFINE e == [name |-> n, value |-> s[n]]
    <2>1. e \in Records(db) /\ e.name = n /\ e.value = s[n]
      BY <1>2
    <2>. HIDE DEF e
    <2>. QED BY <1>1, <2>1
  <1>3. DOMAIN Contents(db) = DOMAIN s
    <2>1. \A n \in Names(db) : n \in DOMAIN s
      BY <1>1
    <2>2. Names(db) = DOMAIN s
      BY <1>2, <2>1
    <2>. QED BY <1>1, <2>2
  <1>4. Contents(db) = [n \in DOMAIN Contents(db) |-> Contents(db)[n]]
    BY DEF Contents
  <1>. QED BY <1>2, <1>3, <1>4

\* A table with distinct names has as many of them as records.
LEMMA CountNames ==
    ASSUME NEW db, IsTable(db)
    PROVE  Cardinality(Names(db)) <= Len(db) /\ Cardinality(Names(db)) \in Nat
  <1>1. Len(db) \in Nat /\ DOMAIN db = 1 .. Len(db)
    BY LenProperties DEF IsTable
  <1>2. IsFiniteSet(DOMAIN db) /\ Cardinality(DOMAIN db) = Len(db)
    BY <1>1, IntervalSize
  <1>. DEFINE f == [i \in DOMAIN db |-> db[i].name]
  <1>3. f \in Surjection(DOMAIN db, Names(db))
    BY DEF Surjection, Names
  <1>4. IsFiniteSet(Names(db)) /\ Cardinality(Names(db)) <= Cardinality(DOMAIN db)
    BY <1>2, <1>3, FS_Surjection
  <1>. QED BY <1>2, <1>4, FS_CardinalityType

\* set of a pattern gives the matching records a new value.
LEMMA SetMatchingRecords ==
    ASSUME NEW db, IsTable(db), NEW p, NEW v
    PROVE  Records(SetMatching(db, p, v)) =
               {r \in Records(db) : r.name \notin p}
                 \cup {[name |-> r.name, value |-> v] : r \in {x \in Records(db) : x.name \in p}}
  <1>. DEFINE new == SetMatching(db, p, v)
  <1>1. /\ DOMAIN new = DOMAIN db
        /\ \A k \in DOMAIN db :
              new[k] = IF db[k].name \in p THEN [name |-> db[k].name, value |-> v] ELSE db[k]
    BY DEF SetMatching
  <1>. HIDE DEF new
  <1>2. ASSUME NEW k \in DOMAIN db, db[k].name \in p
        PROVE  new[k] = [name |-> db[k].name, value |-> v]
    BY <1>1, <1>2
  <1>3. ASSUME NEW k \in DOMAIN db, db[k].name \notin p PROVE new[k] = db[k]
    BY <1>1, <1>3
  <1>. QED BY <1>1, <1>2, <1>3 DEF Records, new

\* The index that listadd takes is the length of the list.
LEMMA NextIsLength ==
    ASSUME NEW db, IsTable(db), CanAdd(db), NEW l \in List
    PROVE  list_getnextindex(db, l) = ListLength(db, l)
  <1>. DEFINE i == list_getnextindex(db, l)
              n == ListLength(db, l)
  <1>1. /\ i \in 0 .. MAX_LINES - 1 /\ Item[l][i] \notin Names(db)
        /\ \A j \in 0 .. i - 1 : Item[l][j] \in Names(db)
    BY FreeIndex
  <1>2. /\ n \in 0 .. MAX_LINES /\ \A j \in 0 .. n - 1 : Item[l][j] \in Names(db)
        /\ n = MAX_LINES \/ Item[l][n] \notin Names(db)
    BY ListLengthType
  <1>. HIDE DEF i, n
  <1>3. ~(i < n)
    BY <1>1, <1>2, MaxLinesAssumption
  <1>4. ~(n < i)
    BY <1>1, <1>2, MaxLinesAssumption
  <1>. QED BY <1>1, <1>2, <1>3, <1>4, MaxLinesAssumption DEF i, n

\* Deleting an index takes away its record.
LEMMA DelIndexRecords ==
    ASSUME NEW db, IsTable(db), UniqueIn(db), NEW i \in DOMAIN db
    PROVE  Records(db_del_index(db, i)) = {r \in Records(db) : r.name # db[i].name}
  <1>. DEFINE new == db_del_index(db, i)
  <1>1. Len(db) \in Nat /\ DOMAIN db = 1 .. Len(db) /\ i \in 1 .. Len(db)
    BY LenProperties DEF IsTable
  <1>2. /\ DOMAIN new = 1 .. Len(db) - 1
        /\ \A k \in 1 .. Len(db) - 1 : new[k] = IF k < i THEN db[k] ELSE db[k + 1]
    BY DEF db_del_index
  <1>. HIDE DEF new
  <1>3. ASSUME NEW k \in DOMAIN new PROVE \E j \in DOMAIN db : j # i /\ new[k] = db[j]
    <2>1. CASE k < i
      <3>1. k \in DOMAIN db /\ k # i /\ new[k] = db[k]
        BY <1>1, <1>2, <2>1
      <3>. QED BY <3>1
    <2>2. CASE ~(k < i)
      <3>1. k + 1 \in DOMAIN db /\ k + 1 # i /\ new[k] = db[k + 1]
        BY <1>1, <1>2, <2>2
      <3>. QED BY <3>1
    <2>. QED BY <2>1, <2>2
  <1>4. ASSUME NEW j \in DOMAIN db, j # i PROVE \E k \in DOMAIN new : new[k] = db[j]
    <2>1. CASE j < i
      <3>1. j \in DOMAIN new /\ new[j] = db[j]
        BY <1>1, <1>2, <2>1
      <3>. QED BY <3>1
    <2>2. CASE ~(j < i)
      <3>1. j - 1 \in 1 .. Len(db) - 1 /\ ~(j - 1 < i) /\ (j - 1) + 1 = j
        BY <1>1, <1>4, <2>2
      <3>2. j - 1 \in DOMAIN new /\ new[j - 1] = db[j]
        BY <1>2, <3>1
      <3>. QED BY <3>2
    <2>. QED BY <2>1, <2>2
  <1>5. \A j \in DOMAIN db : db[j].name # db[i].name <=> j # i
    BY DEF UniqueIn
  <1>. QED BY <1>3, <1>4, <1>5 DEF Records, new

\* rename: the record of oldkey gets the name newkey, in the place of those
\* that have that name.
LEMMA RenameRecords ==
    ASSUME NEW db, IsTable(db), UniqueIn(db), NEW oldkey \in Name, NEW newkey \in Name,
           CanRename(db, oldkey, newkey)
    PROVE  /\ oldkey # newkey /\ oldkey \in Names(db)
           /\ Records(rename(db, oldkey, newkey)) =
                 {r \in Records(db) : r.name # oldkey /\ r.name # newkey}
                   \cup {[name |-> newkey, value |-> Contents(db)[oldkey]]}
  <1>. DEFINE rest == Displaced(db, newkey)
              new == rename(db, oldkey, newkey)
  <1>1. Len(db) \in Nat /\ DOMAIN db = 1 .. Len(db) /\ db \in Seq(Record)
    BY LenProperties DEF IsTable
  <1>2. newkey # NULL
    BY NameAssumption DEF NULL
  <1>3. /\ IsTable(rest) /\ UniqueIn(rest)
        /\ Records(rest) = {r \in Records(db) : r.name # newkey}
    <2>1. CASE newkey \in Names(db)
      <3>1. find_key(db, newkey) \in DOMAIN db /\ db[find_key(db, newkey)].name = newkey
        BY <1>1, <2>1, FindKey
      <3>2. find_key(db, newkey) # 0
        BY <1>1, <3>1
      <3>3. rest = db_del_index(db, find_key(db, newkey))
        BY <1>2, <3>2 DEF Displaced, NewKeyIndex
      <3>. HIDE DEF rest
      <3>4. PICK i \in DOMAIN db : db[i].name = newkey /\ rest = db_del_index(db, i)
        BY <3>1, <3>3
      <3>5. IsTable(rest) /\ UniqueIn(rest)
        BY <3>4, DelIndexTable
      <3>. QED BY <3>4, <3>5, DelIndexRecords
    <2>2. CASE newkey \notin Names(db)
      <3>1. rest = db
        BY <1>1, <1>2, <2>2, FindKeyAbsent DEF Displaced, NewKeyIndex
      <3>2. \A r \in Records(db) : r.name # newkey
        BY <2>2 DEF Names, Records
      <3>. HIDE DEF rest
      <3>. QED BY <3>1, <3>2
    <2>. QED BY <2>1, <2>2
  <1>4. oldkey \in Names(rest) /\ new = SetNameAt(rest, find_key(rest, oldkey), newkey)
    BY <1>2 DEF CanRename, rename
  <1>. HIDE DEF rest, new
  <1>5. /\ rest \in Seq(Record) /\ DOMAIN rest = 1 .. Len(rest) /\ Len(rest) \in Nat
        /\ \A k \in DOMAIN rest : rest[k] \in Record
    BY <1>3, LenProperties, ElementOfSeq DEF IsTable
  <1>6. find_key(rest, oldkey) \in DOMAIN rest /\ rest[find_key(rest, oldkey)].name = oldkey
    BY <1>4, <1>5, FindKey
  <1>7. PICK i \in DOMAIN rest :
            /\ rest[i].name = oldkey
            /\ new = [rest EXCEPT ![i] = [name |-> newkey, value |-> rest[i].value]]
    BY <1>4, <1>5, <1>6 DEF SetNameAt
  <1>8. rest[i] \in Records(rest) /\ rest[i] \in Records(db) /\ oldkey # newkey
    BY <1>3, <1>7 DEF Records
  <1>9. Contents(db)[oldkey] = rest[i].value /\ oldkey \in Names(db)
    BY <1>7, <1>8, ContentsOf
  <1>. DEFINE e == [name |-> newkey, value |-> Contents(db)[oldkey]]
  <1>10. DOMAIN new = DOMAIN rest /\ \A k \in DOMAIN rest : new[k] = IF k = i THEN e ELSE rest[k]
    BY <1>7, <1>9
  <1>11. \A k \in DOMAIN rest : rest[k].name # oldkey <=> k # i
    BY <1>3, <1>7 DEF UniqueIn
  <1>. HIDE DEF e
  <1>12. Records(new) = {r \in Records(rest) : r.name # oldkey} \cup {e}
    BY <1>7, <1>10, <1>11 DEF Records
  <1>13. {r \in Records(rest) : r.name # oldkey} =
             {r \in Records(db) : r.name # oldkey /\ r.name # newkey}
    BY <1>3
  <1>. QED BY <1>8, <1>9, <1>12, <1>13 DEF e, new

\* Two tables, one behind the other, have the records of both.
LEMMA ConcatRecords ==
    ASSUME NEW a, IsTable(a), NEW b, IsTable(b)
    PROVE  Records(a \o b) = Records(a) \cup Records(b)
  <1>. DEFINE u == a \o b
  <1>1. /\ a \in Seq(Record) /\ Len(a) \in Nat /\ DOMAIN a = 1 .. Len(a)
        /\ b \in Seq(Record) /\ Len(b) \in Nat /\ DOMAIN b = 1 .. Len(b)
    BY LenProperties DEF IsTable
  <1>2. /\ u \in Seq(Record) /\ Len(u) = Len(a) + Len(b)
        /\ \A i \in 1 .. Len(a) + Len(b) : u[i] = IF i <= Len(a) THEN a[i] ELSE b[i - Len(a)]
    BY <1>1, ConcatProperties
  <1>. HIDE DEF u
  <1>3. DOMAIN u = 1 .. Len(a) + Len(b)
    BY <1>2, LenProperties
  <1>4. ASSUME NEW i \in DOMAIN u PROVE u[i] \in Records(a) \cup Records(b)
    <2>1. CASE i <= Len(a)
      <3>1. i \in DOMAIN a /\ u[i] = a[i]
        BY <1>1, <1>2, <1>3, <2>1
      <3>. QED BY <3>1 DEF Records
    <2>2. CASE ~(i <= Len(a))
      <3>1. i - Len(a) \in DOMAIN b /\ u[i] = b[i - Len(a)]
        BY <1>1, <1>2, <1>3, <2>2
      <3>. QED BY <3>1 DEF Records
    <2>. QED BY <2>1, <2>2
  <1>5. ASSUME NEW i \in DOMAIN a PROVE a[i] \in Records(u)
    <2>1. i \in DOMAIN u /\ u[i] = a[i]
      BY <1>1, <1>2, <1>3
    <2>. QED BY <2>1 DEF Records
  <1>6. ASSUME NEW i \in DOMAIN b PROVE b[i] \in Records(u)
    <2>1. i + Len(a) \in DOMAIN u /\ ~(i + Len(a) <= Len(a)) /\ (i + Len(a)) - Len(a) = i
      BY <1>1, <1>3
    <2>2. u[i + Len(a)] = b[i]
      BY <1>2, <1>3, <2>1
    <2>. QED BY <2>1, <2>2 DEF Records
  <1>7. Records(u) \subseteq Records(a) \cup Records(b)
    BY <1>4 DEF Records
  <1>8. Records(a) \subseteq Records(u) /\ Records(b) \subseteq Records(u)
    BY <1>5, <1>6 DEF Records
  <1>. QED BY <1>7, <1>8 DEF u

\* local_lines: all the elements if key is none of them, and otherwise those
\* before it and those behind it, the latter one index lower.
LEMMA LocalLinesOf ==
    ASSUME NEW db, IsTable(db), NEW l \in List, NEW key
    PROVE  LET n == ListLength(db, l)
               C == Contents(db)
           IN  /\ key \notin {Item[l][i] : i \in 0 .. n - 1} =>
                     LocalLines(db, l, key) =
                         [k \in 1 .. n |-> [name |-> Item[l][k - 1], value |-> C[Item[l][k - 1]]]]
               /\ \A j \in 0 .. n - 1 : Item[l][j] = key =>
                     LocalLines(db, l, key) =
                         [k \in 1 .. n - 1 |->
                             [name |-> Item[l][k - 1],
                              value |-> C[Item[l][IF k < j + 1 THEN k - 1 ELSE k]]]]
  <1>. DEFINE n == ListLength(db, l)
              C == Contents(db)
              Old(i) == db[find_key(db, Item[l][i])].value
              hit == {i \in 0 .. n - 1 : Item[l][i] = key}
              At(k) == IF \E i \in hit : i <= k - 1 THEN k ELSE k - 1
  <1>1. n \in Nat /\ n <= MAX_LINES /\ \A i \in 0 .. n - 1 : Item[l][i] \in Names(db)
    BY ListLengthType, MaxLinesAssumption
  <1>2. \A i \in 0 .. n - 1 : Old(i) = C[Item[l][i]]
    BY <1>1 DEF Contents
  <1>3. LocalLines(db, l, key) =
            [k \in 1 .. n - Cardinality(hit) |->
                [name |-> Item[l][k - 1], value |-> Old(At(k))]]
    BY DEF LocalLines
  <1>. HIDE DEF n, C, Old
  <1>4. CASE key \notin {Item[l][i] : i \in 0 .. n - 1}
    <2>1. hit = {}
      BY <1>4
    <2>2. Cardinality(hit) = 0
      BY <2>1, FS_EmptySet
    <2>. HIDE DEF hit
    <2>3. \A k \in 1 .. n : Old(At(k)) = C[Item[l][k - 1]]
      BY <1>1, <1>2, <2>1
    <2>. HIDE DEF At
    <2>4. LocalLines(db, l, key) =
              [k \in 1 .. n |-> [name |-> Item[l][k - 1], value |-> C[Item[l][k - 1]]]]
      BY <1>1, <1>3, <2>2, <2>3
    <2>. QED BY <1>4, <2>4 DEF n, C
  <1>5. ASSUME NEW j \in 0 .. n - 1, Item[l][j] = key
        PROVE  LocalLines(db, l, key) =
                   [k \in 1 .. n - 1 |->
                       [name |-> Item[l][k - 1],
                        value |-> C[Item[l][IF k < j + 1 THEN k - 1 ELSE k]]]]
    <2>1. \A i \in 0 .. n - 1 : Item[l][i] = Item[l][j] => i = j
      BY <1>1, ItemName, MaxLinesAssumption
    <2>2. hit = {j}
      BY <1>5, <2>1
    <2>3. Cardinality(hit) = 1
      BY <2>2, FS_Singleton
    <2>. HIDE DEF hit
    <2>4. \A k \in 1 .. n - 1 : At(k) = IF k < j + 1 THEN k - 1 ELSE k
      BY <1>1, <2>2
    <2>5. \A k \in 1 .. n - 1 : At(k) \in 0 .. n - 1
      BY <1>1, <2>4
    <2>. HIDE DEF At
    <2>. QED BY <1>1, <1>2, <1>3, <2>3, <2>4, <2>5
  <1>6. CASE key \in {Item[l][i] : i \in 0 .. n - 1}
    BY <1>5, <1>6 DEF n, C
  <1>. QED BY <1>4, <1>6

\* The records that listrm does not visit.
Others(db, l) ==
    {r \in Records(db) : r.name \notin {Item[l][i] : i \in 0 .. ListLength(db, l) - 1}}

\* The local lines behind the first lost ones.
Saved(local, lost) == {local[k] : k \in {j \in DOMAIN local : j > lost}}

\* listrm: the records of the elements give way to those of local_lines that
\* db_set accepts.
LEMMA ListRmRecords ==
    ASSUME NEW db, IsTable(db), UniqueIn(db), NEW l \in List, NEW key,
           NEW lost, NEW t \in listrm(db, l, key, lost)
    PROVE  Records(t) = Others(db, l) \cup Saved(LocalLines(db, l, key), lost)
  <1>. DEFINE n == ListLength(db, l)
              old == {Item[l][i] : i \in 0 .. n - 1}
              local == LocalLines(db, l, key)
              gone == {find_key(db, Item[l][i]) : i \in 0 .. n - 1}
              keep == DOMAIN db \ gone
              saved == {j \in DOMAIN local : j > lost}
  <1>1. PICK rest \in Unlisted(db, l) : t \in Relisted(rest, local, lost)
    BY DEF listrm
  <1>2. /\ db \in Seq(Record) /\ Len(db) \in Nat /\ DOMAIN db = 1 .. Len(db)
        /\ n \in Nat /\ \A i \in 0 .. n - 1 : Item[l][i] \in Names(db)
    BY ListLengthType, LenProperties, MaxLinesAssumption DEF IsTable
  <1>3. IsTable(rest) /\ IsTable(local) /\ Len(local) <= n
    BY UnlistedTable, LocalLinesTable
  <1>4. /\ DOMAIN local = 1 .. Len(local) /\ Len(local) \in Nat
        /\ rest \in Seq(Record) /\ DOMAIN rest = 1 .. Len(rest)
    BY <1>3, LenProperties DEF IsTable
  <1>5. \A k \in DOMAIN local : local[k].name \in old
    <2>1. \A k \in DOMAIN local : local[k].name = Item[l][k - 1]
      BY DEF LocalLines
    <2>. HIDE DEF local, n
    <2>. QED BY <1>2, <1>3, <1>4, <2>1
  <1>6. rest \in Subsequences(db, keep)
    BY DEF Unlisted
  <1>. HIDE DEF n, local
  <1>7. \A i \in 0 .. n - 1 :
            find_key(db, Item[l][i]) \in DOMAIN db /\ db[find_key(db, Item[l][i])].name = Item[l][i]
    BY <1>2, FindKey
  <1>8. \A k \in DOMAIN db : k \in keep <=> db[k].name \notin old
    BY <1>7 DEF UniqueIn
  <1>9. Records(rest) = {db[k] : k \in keep}
    BY <1>6, SubsequenceRecords
  <1>10. Records(rest) = {r \in Records(db) : r.name \notin old}
    <2>. HIDE DEF keep
    <2>1. keep \subseteq DOMAIN db
      BY DEF keep
    <2>. QED BY <1>8, <1>9, <2>1 DEF Records
  <1>. HIDE DEF old, keep, gone
  <1>11. \A j \in DOMAIN local : local[j].name \notin Names(rest)
    <2>1. \A m \in Names(rest) : m \notin old
      BY <1>10 DEF Names, Records
    <2>. QED BY <1>5, <2>1
  <1>12. \A j \in DOMAIN local : find_key(rest, local[j].name) \notin DOMAIN rest
    BY <1>4, <1>11, FindKeyAbsent
  <1>13. {j \in saved : local[j].name \notin Names(rest)} = saved
    BY <1>11
  <1>14. \E new \in Subsequences(local, saved) : t = rest \o new
    <2>. DEFINE put == [k \in DOMAIN rest |->
                  IF \E j \in saved : find_key(rest, local[j].name) = k
                  THEN local[CHOOSE j \in saved : find_key(rest, local[j].name) = k]
                  ELSE rest[k]]
    <2>1. \A k \in DOMAIN rest : put[k] = rest[k]
      BY <1>12
    <2>2. put = rest
      BY <1>4, <2>1, LenProperties
    <2>3. \E new \in Subsequences(local, {j \in saved : local[j].name \notin Names(rest)}) :
              t = put \o new
      BY <1>1 DEF Relisted
    <2>. QED BY <1>13, <2>2, <2>3
  <1>15. PICK new \in Subsequences(local, saved) : t = rest \o new
    BY <1>14
  <1>16. IsTable(new) /\ Records(new) = {local[k] : k \in saved}
    <2>1. saved \in SUBSET DOMAIN local
      OBVIOUS
    <2>. HIDE DEF saved
    <2>. QED BY <1>3, <1>15, <2>1, SubsequenceTable, SubsequenceRecords
  <1>17. Records(t) = Records(rest) \cup {local[k] : k \in saved}
    BY <1>3, <1>15, <1>16, ConcatRecords
  <1>. QED BY <1>10, <1>17 DEF Others, Saved, old, n, local

=============================================================================
