-------------------------- MODULE KdbSessionProofs --------------------------
(***************************************************************************)
(* KdbSession for every capacity, every set of names, values, lists and    *)
(* patterns: the types, distinct names, the two facts about what a run has *)
(* read when it writes, and the refinement of KdbStore.  For the last one, *)
(* each command is first shown to do to the map of a table (Contents) what *)
(* the operation of KdbStore does.                                         *)
(***************************************************************************)
EXTENDS KdbSession, KdbTableProofs

\* Between runs nothing is left of the last one.
Fresh ==
    pc = "idle" => /\ ~db_file
                   /\ db_lines = EmptyTable
                   /\ ~db_already_readed
                   /\ ~need_write /\ ~elsewhere

\* A run that has opened a file that can be read to its end has read it.
Opened ==
    (pc = "run" /\ db_file /\ disk.form = "kdb") => db_already_readed

IInv ==
    /\ TypeOK /\ UniqueNames /\ NoBlindWrite /\ ImportStartsEmpty
    /\ Fresh /\ Opened

\* The empty table is a table.
LEMMA EmptyTableFacts == IsTable(EmptyTable) /\ UniqueIn(EmptyTable)
  <1>1. EmptyTable \in Seq(Record) /\ Len(EmptyTable) = 0
    BY EmptySeq DEF EmptyTable
  <1> QED BY <1>1, MaxLinesAssumption DEF IsTable, UniqueIn, EmptyTable

\* Every initial file satisfies the invariant.
LEMMA InitIInv == Init => IInv
  <1> SUFFICES ASSUME Init PROVE IInv
    OBVIOUS
  <1>1. CASE disk = Missing
    <2>1. disk.form = "missing" /\ disk.lines = EmptyTable
      BY <1>1 DEF Missing
    <2>2. disk \in [form : Form, lines : Seq(Record)]
      BY <1>1, EmptyTableFacts DEF Missing, IsTable, Form
    <2> QED BY <2>1, <2>2, EmptyTableFacts
         DEF Init, IInv, TypeOK, UniqueNames, NoBlindWrite, ImportStartsEmpty, Fresh, Opened
  <1>2. CASE disk \in {Kdb(t) : t \in KdbFiles} \cup {Damaged(t) : t \in KdbFiles}
    <2>1. PICK t \in KdbFiles : disk = Kdb(t) \/ disk = Damaged(t)
      BY <1>2
    <2>2. IsTable(t) /\ UniqueIn(t) /\ t \in Seq(Record)
      BY KdbFilesAssumption DEF IsTable
    <2>3. disk.form \in {"kdb", "damaged"} /\ disk.lines = t
      BY <2>1 DEF Kdb, Damaged
    <2>4. disk \in [form : Form, lines : Seq(Record)]
      BY <2>1, <2>2 DEF Kdb, Damaged, Form
    <2> QED BY <2>2, <2>3, <2>4, EmptyTableFacts
         DEF Init, IInv, TypeOK, UniqueNames, NoBlindWrite, ImportStartsEmpty, Fresh, Opened
  <1> QED BY <1>1, <1>2 DEF Init

\* What db_read may return in a state of the invariant.
LEMMA ReadFacts ==
    ASSUME IInv, pc = "run", NEW r \in ReadOutcomes
    PROVE  /\ r.ok \in BOOLEAN
           /\ IsTable(r.db) /\ UniqueIn(r.db)
           /\ disk.form = "kdb" => r.ok
  <1>1. /\ IsTable(db_lines) /\ UniqueIn(db_lines)
        /\ IsTable(disk.lines) /\ UniqueIn(disk.lines)
    BY DEF IInv, TypeOK, UniqueNames
  <1>2. CASE NothingToRead
    <2>1. PICK o \in ReadAgain(db_already_readed) : r = [ok |-> o, db |-> db_lines]
      BY <1>2 DEF ReadOutcomes
    <2>2. o \in BOOLEAN /\ (db_already_readed => o)
      BY <2>1 DEF ReadAgain
    <2>3. disk.form = "kdb" => db_already_readed
      BY <1>2 DEF NothingToRead
    <2>4. r.ok = o /\ r.db = db_lines
      BY <2>1
    <2> QED BY <1>1, <2>2, <2>3, <2>4
  <1>3. CASE ~NothingToRead
    <2>1. r = [ok |-> disk.form = "kdb", db |-> disk.lines]
      BY <1>3 DEF ReadOutcomes
    <2>2. r.ok = (disk.form = "kdb") /\ r.db = disk.lines
      BY <2>1
    <2> QED BY <1>1, <2>2
  <1> QED BY <1>2, <1>3

\* A command that succeeds keeps the invariant if its table is a table with
\* distinct names.
LEMMA DoneStep ==
    ASSUME IInv, NEW r \in ReadOutcomes, NEW ok \in BOOLEAN, r.ok => ok, ReadThen(ok),
           NEW db, IsTable(db), UniqueIn(db),
           NEW dirty \in BOOLEAN, Done(db, dirty)
    PROVE  IInv'
  <1>1. pc = "run" /\ pc' = "run" /\ disk' = disk
    BY DEF ReadThen, Done
  <1>2. disk.form = "kdb" => ok
    BY <1>1, ReadFacts
  <1>3. /\ db_lines' = db /\ need_write' = (need_write \/ dirty) /\ elsewhere' = elsewhere
        /\ db_file' = (disk.form # "missing") /\ db_already_readed' = ok
    BY DEF ReadThen, Done
  <1>4. need_write' \in BOOLEAN /\ db_file' \in BOOLEAN /\ db_already_readed' \in BOOLEAN
    BY <1>2, <1>3 DEF IInv, TypeOK
  <1>5. TypeOK'
    BY <1>1, <1>3, <1>4 DEF IInv, TypeOK
  <1>6. UniqueNames'
    BY <1>1, <1>3 DEF IInv, UniqueNames
  <1>7. NoBlindWrite' /\ ImportStartsEmpty' /\ Fresh' /\ Opened'
    BY <1>1, <1>2, <1>3 DEF NoBlindWrite, ImportStartsEmpty, Fresh, Opened
  <1> QED BY <1>5, <1>6, <1>7 DEF IInv

\* The end of a run keeps the invariant if what is in the file is good.
LEMMA ExitStep ==
    ASSUME IInv, Exit,
           disk' = disk \/ \E t : disk' = Kdb(t) /\ IsTable(t) /\ UniqueIn(t)
    PROVE  IInv'
  <1> DEFINE Good == /\ disk' \in [form : Form, lines : Seq(Record)]
                     /\ IsTable(disk'.lines) /\ UniqueIn(disk'.lines)
                     /\ disk'.form \in {"missing", "blank"} => disk'.lines = EmptyTable
  <1>1. Good
    <2>1. CASE disk' = disk
      BY <2>1 DEF IInv, TypeOK, UniqueNames
    <2>2. CASE \E t : disk' = Kdb(t) /\ IsTable(t) /\ UniqueIn(t)
      <3>1. PICK t : disk' = Kdb(t) /\ IsTable(t) /\ UniqueIn(t)
        BY <2>2
      <3> QED BY <3>1 DEF Kdb, IsTable, Form
    <2> QED BY <2>1, <2>2
  <1>2. TypeOK'
    BY <1>1, EmptyTableFacts DEF Exit, TypeOK
  <1>3. UniqueNames' /\ NoBlindWrite' /\ ImportStartsEmpty' /\ Fresh' /\ Opened'
    BY <1>1 DEF Exit, UniqueNames, NoBlindWrite, ImportStartsEmpty, Fresh, Opened
  <1> QED BY <1>2, <1>3 DEF IInv

\* A command that returns false keeps the invariant.
LEMMA FailStep == ASSUME IInv, Fail PROVE IInv'
  BY ExitStep DEF Fail

\* import: the lines read so far are none, or the run stops.
LEMMA ImportStep ==
    ASSUME IInv, NEW t \in KdbFiles, import(t)
    PROVE  IInv'
  <1> DEFINE db == db_lines \o t
  <1>1. /\ IsTable(t) /\ UniqueIn(t) /\ IsTable(db_lines) /\ pc = "run"
        /\ t \in Seq(Record) /\ db_lines \in Seq(Record)
    BY KdbFilesAssumption DEF IInv, TypeOK, import, IsTable
  <1>2. CASE Fail
    BY <1>2, FailStep
  <1>3. CASE /\ Len(db) <= MAX_LINES /\ db_file /\ pc' = "stuck"
             /\ db_lines' = db /\ db_already_readed' = TRUE
             /\ UNCHANGED <<disk, db_file, need_write, elsewhere>>
    <2>1. db \in Seq(Record)
      BY <1>1, ConcatProperties
    <2>2. IsTable(db)
      BY <1>3, <2>1 DEF IsTable
    <2> HIDE DEF db
    <2>3. TypeOK'
      BY <1>3, <2>2 DEF IInv, TypeOK
    <2>4. UniqueNames' /\ NoBlindWrite' /\ ImportStartsEmpty' /\ Fresh' /\ Opened'
      BY <1>3 DEF IInv, TypeOK, UniqueNames, NoBlindWrite, ImportStartsEmpty, Fresh, Opened
    <2> QED BY <2>3, <2>4 DEF IInv
  <1>4. CASE /\ ~db_file /\ disk.form # "missing"
             /\ \E s \in db_sort(db) :
                   /\ disk' = Kdb(s) /\ db_lines' = s /\ db_file' = TRUE
                   /\ db_already_readed' = TRUE /\ need_write' = TRUE
                   /\ UNCHANGED <<pc, elsewhere>>
    <2>1. db = t
      <3>1. db_lines = << >>
        BY <1>4 DEF IInv, ImportStartsEmpty, EmptyTable
      <3> QED BY <1>1, <3>1, ConcatEmptySeq
    <2> HIDE DEF db
    <2>2. PICK s \in db_sort(db) :
                   /\ disk' = Kdb(s) /\ db_lines' = s /\ db_file' = TRUE
                   /\ db_already_readed' = TRUE /\ need_write' = TRUE
                   /\ UNCHANGED <<pc, elsewhere>>
      BY <1>4
    <2>3. IsTable(s) /\ UniqueIn(s)
      BY <1>1, <2>1, <2>2, SortTable
    <2>4. /\ disk'.form = "kdb" /\ disk'.lines = s
          /\ disk' \in [form : Form, lines : Seq(Record)]
      BY <2>2, <2>3 DEF Kdb, IsTable, Form
    <2>5. TypeOK'
      BY <1>1, <2>2, <2>3, <2>4 DEF IInv, TypeOK
    <2>6. UniqueNames' /\ NoBlindWrite' /\ ImportStartsEmpty' /\ Fresh' /\ Opened'
      BY <1>1, <2>2, <2>3, <2>4
         DEF UniqueNames, NoBlindWrite, ImportStartsEmpty, Fresh, Opened
    <2> QED BY <2>5, <2>6 DEF IInv
  <1>5. Len(db) \in Nat
    BY <1>1, ConcatProperties, LenProperties
  <1>6. ~(Len(db) > MAX_LINES) => Len(db) <= MAX_LINES
    BY <1>5, MaxLinesAssumption
  <1> HIDE DEF db
  <1>7. import(t) =>
           \/ Fail
           \/ /\ ~(Len(db) > MAX_LINES) /\ db_file /\ pc' = "stuck"
              /\ db_lines' = db /\ db_already_readed' = TRUE
              /\ UNCHANGED <<disk, db_file, need_write, elsewhere>>
           \/ /\ ~db_file /\ disk.form # "missing"
              /\ \E s \in db_sort(db) :
                   /\ disk' = Kdb(s) /\ db_lines' = s /\ db_file' = TRUE
                   /\ db_already_readed' = TRUE /\ need_write' = TRUE
                   /\ UNCHANGED <<pc, elsewhere>>
    BY DEF import, db
  <1> QED BY <1>2, <1>3, <1>4, <1>6, <1>7

\* Every step of a run keeps the invariant.
LEMMA NextIInv == ASSUME IInv, [Next]_vars PROVE IInv'
  <1>1. CASE UNCHANGED vars
    BY <1>1 DEF vars, IInv, TypeOK, UniqueNames, NoBlindWrite, ImportStartsEmpty,
                Fresh, Opened
  <1>2. CASE Start
    BY <1>2, EmptyTableFacts
       DEF Start, IInv, TypeOK, UniqueNames, NoBlindWrite, ImportStartsEmpty, Fresh, Opened
  <1>3. CASE Query
    <2>1. PICK r \in ReadOutcomes : ReadThen(r.ok) /\ Done(r.db, FALSE)
      BY <1>3 DEF Query
    <2>2. r.ok \in BOOLEAN /\ IsTable(r.db) /\ UniqueIn(r.db)
      BY <2>1, ReadFacts DEF ReadThen
    <2> QED BY <2>1, <2>2, DoneStep
  <1>4. ASSUME NEW n \in Name, isset(n) PROVE IInv'
    <2>1. CASE pc = "run" /\ Fail
      BY <2>1, FailStep
    <2>2. CASE \E r \in ReadOutcomes : ReadThen(r.ok) /\ Done(r.db, FALSE)
      <3>1. PICK r \in ReadOutcomes : ReadThen(r.ok) /\ Done(r.db, FALSE)
        BY <2>2
      <3>2. r.ok \in BOOLEAN /\ IsTable(r.db) /\ UniqueIn(r.db)
        BY <3>1, ReadFacts DEF ReadThen
      <3> QED BY <3>1, <3>2, DoneStep
    <2> QED BY <1>4, <2>1, <2>2 DEF isset
  <1>5. ASSUME NEW n \in Name, NEW v \in Value, set(n, v) PROVE IInv'
    <2>1. CASE pc = "run" /\ Fail
      BY <2>1, FailStep
    <2>2. ASSUME NEW r \in ReadOutcomes, NEW ok \in ReadAgain(r.ok), ok, CanSet(r.db, n),
                 ReadThen(ok), Done(db_set(r.db, n, v), TRUE)
          PROVE  IInv'
      <3>1. r.ok \in BOOLEAN /\ IsTable(r.db) /\ UniqueIn(r.db)
        BY <2>2, ReadFacts DEF ReadThen
      <3>2. IsTable(db_set(r.db, n, v)) /\ UniqueIn(db_set(r.db, n, v))
        BY <2>2, <3>1, SetTable
      <3>3. ok \in BOOLEAN
        BY DEF ReadAgain
      <3> QED BY <2>2, <3>2, <3>3, DoneStep
    <2> QED BY <1>5, <2>1, <2>2 DEF set
  <1>6. ASSUME NEW p \in Pattern, NEW v \in Value, setWild(p, v) PROVE IInv'
    <2>1. PICK r \in ReadOutcomes :
              ReadThen(r.ok) /\ Done(SetMatching(r.db, p, v), Names(r.db) \cap p # {})
      BY <1>6 DEF setWild
    <2>2. r.ok \in BOOLEAN /\ IsTable(r.db) /\ UniqueIn(r.db)
      BY <2>1, ReadFacts DEF ReadThen
    <2>3. IsTable(SetMatching(r.db, p, v)) /\ UniqueIn(SetMatching(r.db, p, v))
      BY <2>2, SetMatchingTable
    <2> QED BY <2>1, <2>2, <2>3, DoneStep
  <1>7. ASSUME NEW p \in Pattern, delWild(p) PROVE IInv'
    <2>1. PICK r \in ReadOutcomes : \E db \in del(r.db, p) :
              ReadThen(r.ok) /\ Done(db, Names(r.db) \cap p # {})
      BY <1>7 DEF delWild
    <2>2. PICK db \in del(r.db, p) :
              ReadThen(r.ok) /\ Done(db, Names(r.db) \cap p # {})
      BY <2>1
    <2>3. r.ok \in BOOLEAN /\ IsTable(r.db) /\ UniqueIn(r.db)
      BY <2>2, ReadFacts DEF ReadThen
    <2>4. IsTable(db) /\ UniqueIn(db)
      BY <2>2, <2>3, DelTable
    <2> QED BY <2>2, <2>3, <2>4, DoneStep
  <1>8. ASSUME NEW n \in Name, NEW m \in NewKey, renameKey(n, m) PROVE IInv'
    <2>1. CASE pc = "run" /\ Fail
      BY <2>1, FailStep
    <2>2. CASE \E r \in ReadOutcomes :
              CanRename(r.db, n, m) /\ ReadThen(r.ok) /\ Done(rename(r.db, n, m), TRUE)
      <3>1. PICK r \in ReadOutcomes :
              CanRename(r.db, n, m) /\ ReadThen(r.ok) /\ Done(rename(r.db, n, m), TRUE)
        BY <2>2
      <3>2. r.ok \in BOOLEAN /\ IsTable(r.db) /\ UniqueIn(r.db)
        BY <3>1, ReadFacts DEF ReadThen
      <3>3. m \in Name \cup {NULL}
        BY NewKeyAssumption
      <3>4. IsTable(rename(r.db, n, m)) /\ UniqueIn(rename(r.db, n, m))
        BY <3>1, <3>2, <3>3, RenameTable
      <3> QED BY <3>1, <3>2, <3>4, DoneStep
    <2> QED BY <1>8, <2>1, <2>2 DEF renameKey
  <1>9. ASSUME NEW l \in List, NEW v \in Value, ladd(l, v) PROVE IInv'
    <2>1. CASE pc = "run" /\ Fail
      BY <2>1, FailStep
    <2>2. CASE \E r \in ReadOutcomes :
              CanAdd(r.db) /\ ReadThen(r.ok) /\ Done(listadd(r.db, l, v), TRUE)
      <3>1. PICK r \in ReadOutcomes :
              CanAdd(r.db) /\ ReadThen(r.ok) /\ Done(listadd(r.db, l, v), TRUE)
        BY <2>2
      <3>2. r.ok \in BOOLEAN /\ IsTable(r.db) /\ UniqueIn(r.db)
        BY <3>1, ReadFacts DEF ReadThen
      <3>3. IsTable(listadd(r.db, l, v)) /\ UniqueIn(listadd(r.db, l, v))
        BY <3>1, <3>2, ListAddTable
      <3> QED BY <3>1, <3>2, <3>3, DoneStep
    <2> QED BY <1>9, <2>1, <2>2 DEF ladd
  <1>10. ASSUME NEW l \in List, NEW key, lrm(l, key) PROVE IInv'
    <2>1. CASE \E r \in ReadOutcomes : ReadThen(r.ok) /\ Done(r.db, FALSE)
      <3>1. PICK r \in ReadOutcomes : ReadThen(r.ok) /\ Done(r.db, FALSE)
        BY <2>1
      <3>2. r.ok \in BOOLEAN /\ IsTable(r.db) /\ UniqueIn(r.db)
        BY <3>1, ReadFacts DEF ReadThen
      <3> QED BY <3>1, <3>2, DoneStep
    <2>2. ASSUME NEW r \in ReadOutcomes, NEW m \in List,
                 NEW lost, NEW db \in listrm(r.db, m, key, lost),
                 ReadThen(r.ok \/ lost < Len(LocalLines(r.db, m, key))),
                 Done(db, ListLength(r.db, m) > 0)
          PROVE  IInv'
      <3>1. r.ok \in BOOLEAN /\ IsTable(r.db) /\ UniqueIn(r.db)
        BY <2>2, ReadFacts DEF ReadThen
      <3>2. IsTable(db) /\ UniqueIn(db)
        BY <2>2, <3>1, ListRmTable
      <3>3. /\ (ListLength(r.db, m) > 0) \in BOOLEAN
            /\ (r.ok \/ lost < Len(LocalLines(r.db, m, key))) \in BOOLEAN
        OBVIOUS
      <3> QED BY <2>2, <3>2, <3>3, DoneStep
    <2> QED BY <1>10, <2>1, <2>2 DEF lrm
  <1>11. CASE Export
    <2>1. PICK r \in ReadOutcomes : \E db \in db_sort(r.db) :
              ReadThen(r.ok) /\ Done(db, FALSE)
      BY <1>11 DEF Export
    <2>2. PICK db \in db_sort(r.db) : ReadThen(r.ok) /\ Done(db, FALSE)
      BY <2>1
    <2>3. r.ok \in BOOLEAN /\ IsTable(r.db) /\ UniqueIn(r.db)
      BY <2>2, ReadFacts DEF ReadThen
    <2>4. IsTable(db) /\ UniqueIn(db)
      BY <2>2, <2>3, SortTable
    <2> QED BY <2>2, <2>3, <2>4, DoneStep
  <1>12. CASE create
    <2>1. /\ disk'.form = "blank" /\ disk'.lines = EmptyTable
          /\ disk' \in [form : Form, lines : Seq(Record)]
      BY <1>12, EmptyTableFacts DEF create, Blank, IsTable, Form
    <2>2. TypeOK'
      BY <1>12, <2>1, EmptyTableFacts DEF create, IInv, TypeOK
    <2>3. UniqueNames' /\ NoBlindWrite' /\ ImportStartsEmpty' /\ Fresh' /\ Opened'
      BY <1>12, <2>1, EmptyTableFacts
         DEF create, IInv, UniqueNames, NoBlindWrite, ImportStartsEmpty, Fresh, Opened
    <2> QED BY <2>2, <2>3 DEF IInv
  <1>13. ASSUME NEW t \in KdbFiles, edit(t) PROVE IInv'
    <2>1. CASE import(t)
      BY <2>1, ImportStep
    <2>2. CASE UNCHANGED vars
      BY <1>1, <2>2
    <2>3. CASE /\ db_file /\ pc = "run" /\ pc' = "stuck"
               /\ UNCHANGED <<disk, db_file, db_lines, db_already_readed, need_write, elsewhere>>
      BY <2>3
         DEF IInv, TypeOK, UniqueNames, NoBlindWrite, ImportStartsEmpty, Fresh, Opened
    <2> QED BY <1>13, <2>1, <2>2, <2>3 DEF edit
  <1>14. CASE BadArgument
    BY <1>14, FailStep DEF BadArgument
  <1>15. CASE Killed
    BY <1>15, FailStep DEF Killed
  <1>16. CASE Finish
    <2>1. Exit /\ pc = "run" /\ IsTable(db_lines) /\ UniqueIn(db_lines)
      BY <1>16 DEF Finish, IInv, TypeOK, UniqueNames
    <2>2. CASE UNCHANGED disk
      BY <2>1, <2>2, ExitStep
    <2>3. CASE \E s \in db_sort(db_lines) : disk' = Kdb(s)
      <3>1. PICK s \in db_sort(db_lines) : disk' = Kdb(s)
        BY <2>3
      <3>2. IsTable(s) /\ UniqueIn(s)
        BY <2>1, <3>1, SortTable
      <3> QED BY <2>1, <3>1, <3>2, ExitStep
    <2> QED BY <1>16, <2>2, <2>3 DEF Finish
  <1>17. ASSUME NEW t \in KdbFiles, import(t) PROVE IInv'
    BY <1>17, ImportStep
  <1>18. CASE createOther
    BY <1>18
       DEF createOther, IInv, TypeOK, UniqueNames, NoBlindWrite, ImportStartsEmpty,
           Fresh, Opened
  <1> QED
    BY <1>1, <1>2, <1>3, <1>4, <1>5, <1>6, <1>7, <1>8, <1>9, <1>10, <1>11, <1>12,
       <1>13, <1>14, <1>15, <1>16, <1>17, <1>18 DEF Next

\* The invariant holds in every state of every run.
THEOREM Invariance == Spec => []IInv
  <1>1. Init => IInv
    BY InitIInv
  <1>2. IInv /\ [Next]_vars => IInv'
    BY NextIInv
  <1> QED BY <1>1, <1>2, PTL DEF Spec

\* TypeOK of KdbSession: in particular no command makes the table or the file
\* hold more than MAX_LINES records, whatever the capacity.
THEOREM TypeCorrect == Spec => []TypeOK
  <1>1. IInv => TypeOK
    BY DEF IInv
  <1> QED BY <1>1, Invariance, PTL

\* UniqueNames: no sequence of kdb commands makes a key appear twice, although
\* db_add, rename and listrm append and rename without looking.
THEOREM DistinctNames == Spec => []UniqueNames
  <1>1. IInv => UniqueNames
    BY DEF IInv
  <1> QED BY <1>1, Invariance, PTL

\* NoBlindWrite: a run that is going to write a file that has records has read
\* them, to the end of the file or to the damage where every run stops,
\* although the commands go on when db_read fails.
THEOREM WritesWhatItRead == Spec => []NoBlindWrite
  <1>1. IInv => NoBlindWrite
    BY DEF IInv
  <1> QED BY <1>1, Invariance, PTL

\* ImportStartsEmpty: an import that gets as far as writing has nothing in
\* memory before it, so it replaces the database.
THEOREM ImportReplaces == Spec => []ImportStartsEmpty
  <1>1. IInv => ImportStartsEmpty
    BY DEF IInv
  <1> QED BY <1>1, Invariance, PTL

-----------------------------------------------------------------------------
(* What the commands do to the map from names to values.                   *)

\* db_set is the update of the map at one name.
LEMMA PutContents ==
    ASSUME NEW db, IsTable(db), UniqueIn(db), NEW n \in Name, NEW v \in Value,
           CanSet(db, n)
    PROVE  Contents(db_set(db, n, v)) = Store!With(Contents(db), n, v)
  <1>. DEFINE C == Contents(db)
              t == db_set(db, n, v)
              s == Store!With(C, n, v)
              e == [name |-> n, value |-> v]
  <1>1. IsTable(t) /\ UniqueIn(t) /\ Records(t) = {r \in Records(db) : r.name # n} \cup {e}
    BY SetTable, SetRecords
  <1>2. /\ DOMAIN C = Names(db) /\ Names(db) = {r.name : r \in Records(db)}
        /\ \A m \in Names(db) : [name |-> m, value |-> C[m]] \in Records(db)
    BY ContentsOf
  <1>. HIDE DEF C, t
  <1>3. /\ DOMAIN s = DOMAIN C \cup {n} /\ s = [m \in DOMAIN s |-> s[m]]
        /\ \A m \in DOMAIN s : s[m] = IF m = n THEN v ELSE C[m]
    BY DEF Store!With
  <1>. HIDE DEF s
  <1>4. \A m \in DOMAIN s : [name |-> m, value |-> s[m]] \in Records(t)
    <2>. SUFFICES ASSUME NEW m \in DOMAIN s PROVE [name |-> m, value |-> s[m]] \in Records(t)
      OBVIOUS
    <2>1. CASE m = n
      BY <1>1, <1>3, <2>1
    <2>2. CASE m # n
      <3>1. [name |-> m, value |-> C[m]] \in Records(db) /\ s[m] = C[m]
        BY <1>2, <1>3, <2>2
      <3>. QED BY <1>1, <2>2, <3>1
    <2>. QED BY <2>1, <2>2
  <1>5. \A r \in Records(t) : r.name \in DOMAIN s
    BY <1>1, <1>2, <1>3
  <1>6. Contents(t) = s
    BY <1>1, <1>3, <1>4, <1>5, ContentsBy
  <1>. QED BY <1>6 DEF s, t, C

\* set of a pattern gives every matching name the value.
LEMMA FillContents ==
    ASSUME NEW db, IsTable(db), UniqueIn(db), NEW p, NEW v \in Value
    PROVE  Contents(SetMatching(db, p, v)) =
               [n \in DOMAIN Contents(db) |-> IF n \in p THEN v ELSE Contents(db)[n]]
  <1>. DEFINE C == Contents(db)
              t == SetMatching(db, p, v)
              s == [n \in DOMAIN C |-> IF n \in p THEN v ELSE C[n]]
  <1>1. /\ IsTable(t) /\ UniqueIn(t)
        /\ Records(t) = {r \in Records(db) : r.name \notin p} \cup
               {[name |-> r.name, value |-> v] : r \in {x \in Records(db) : x.name \in p}}
    BY SetMatchingTable, SetMatchingRecords
  <1>2. /\ DOMAIN C = Names(db) /\ Names(db) = {r.name : r \in Records(db)}
        /\ \A m \in Names(db) : [name |-> m, value |-> C[m]] \in Records(db)
    BY ContentsOf
  <1>. HIDE DEF C, t
  <1>3. /\ DOMAIN s = DOMAIN C /\ s = [m \in DOMAIN s |-> s[m]]
        /\ \A m \in DOMAIN s : s[m] = IF m \in p THEN v ELSE C[m]
    OBVIOUS
  <1>. HIDE DEF s
  <1>4. ASSUME NEW m \in DOMAIN s PROVE [name |-> m, value |-> s[m]] \in Records(t)
    <2>. DEFINE r == [name |-> m, value |-> C[m]]
    <2>1. r \in Records(db) /\ r.name = m
      BY <1>2, <1>3
    <2>2. m \notin p => s[m] = C[m] /\ r \in Records(t)
      <3>. HIDE DEF r
      <3>. QED BY <1>1, <1>3, <2>1
    <2>3. m \in p => s[m] = v /\ [name |-> m, value |-> v] \in Records(t)
      <3>. HIDE DEF r
      <3>. QED BY <1>1, <1>3, <2>1
    <2>. QED BY <2>2, <2>3
  <1>5. \A r \in Records(t) : r.name \in DOMAIN s
    BY <1>1, <1>2, <1>3
  <1>6. Contents(t) = s
    BY <1>1, <1>3, <1>4, <1>5, ContentsBy
  <1>. QED BY <1>6 DEF s, t, C

\* del takes the matching names out of the map.
LEMMA RemoveContents ==
    ASSUME NEW db, IsTable(db), UniqueIn(db), NEW p, NEW t \in del(db, p)
    PROVE  Contents(t) = Store!Without(Contents(db), p)
  <1>. DEFINE C == Contents(db)
              s == Store!Without(C, p)
  <1>1. /\ IsTable(t) /\ UniqueIn(t)
        /\ Records(t) = {r \in Records(db) : r.name \notin p}
    BY DelTable, DelRecords
  <1>2. /\ DOMAIN C = Names(db) /\ Names(db) = {r.name : r \in Records(db)}
        /\ \A m \in Names(db) : [name |-> m, value |-> C[m]] \in Records(db)
    BY ContentsOf
  <1>. HIDE DEF C
  <1>3. /\ DOMAIN s = DOMAIN C \ p /\ s = [m \in DOMAIN s |-> s[m]]
        /\ \A m \in DOMAIN s : s[m] = C[m]
    BY DEF Store!Without
  <1>. HIDE DEF s
  <1>4. \A m \in DOMAIN s : [name |-> m, value |-> s[m]] \in Records(t)
    BY <1>1, <1>2, <1>3
  <1>5. \A r \in Records(t) : r.name \in DOMAIN s
    BY <1>1, <1>2, <1>3
  <1>6. Contents(t) = s
    BY <1>1, <1>3, <1>4, <1>5, ContentsBy
  <1>. QED BY <1>6 DEF s, C

\* rename moves the value of one name to another.
LEMMA MoveContents ==
    ASSUME NEW db, IsTable(db), UniqueIn(db), NEW o \in Name, NEW n \in Name,
           CanRename(db, o, n)
    PROVE  /\ o \in DOMAIN Contents(db) /\ o # n
           /\ Contents(rename(db, o, n)) =
                  Store!With(Store!Without(Contents(db), {o}), n, Contents(db)[o])
  <1>. DEFINE C == Contents(db)
              t == rename(db, o, n)
              s == Store!With(Store!Without(C, {o}), n, C[o])
              e == [name |-> n, value |-> C[o]]
  <1>1. /\ IsTable(t) /\ UniqueIn(t) /\ o # n /\ o \in Names(db)
        /\ Records(t) = {r \in Records(db) : r.name # o /\ r.name # n} \cup {e}
    BY RenameTable, RenameRecords
  <1>2. /\ DOMAIN C = Names(db) /\ Names(db) = {r.name : r \in Records(db)}
        /\ \A m \in Names(db) : [name |-> m, value |-> C[m]] \in Records(db)
    BY ContentsOf
  <1>. HIDE DEF C, t
  <1>3. /\ DOMAIN s = (DOMAIN C \ {o}) \cup {n} /\ s = [m \in DOMAIN s |-> s[m]]
        /\ \A m \in DOMAIN s : s[m] = IF m = n THEN C[o] ELSE C[m]
    BY DEF Store!With, Store!Without
  <1>. HIDE DEF s
  <1>4. ASSUME NEW m \in DOMAIN s PROVE [name |-> m, value |-> s[m]] \in Records(t)
    <2>1. CASE m = n
      BY <1>1, <1>3, <2>1
    <2>2. CASE m # n
      <3>1. m # o /\ [name |-> m, value |-> C[m]] \in Records(db) /\ s[m] = C[m]
        BY <1>2, <1>3, <2>2
      <3>. QED BY <1>1, <2>2, <3>1
    <2>. QED BY <2>1, <2>2
  <1>5. \A r \in Records(t) : r.name \in DOMAIN s
    BY <1>1, <1>2, <1>3
  <1>6. Contents(t) = s
    BY <1>1, <1>3, <1>4, <1>5, ContentsBy
  <1>. QED BY <1>1, <1>2, <1>6 DEF s, t, C

\* A list of the map is as long as the first loop of listrm finds it.
LEMMA ElementsOf ==
    ASSUME NEW db, IsTable(db), UniqueIn(db), NEW l \in List
    PROVE  /\ Store!Elements(Contents(db), l) =
                  [k \in 1 .. ListLength(db, l) |-> Contents(db)[Item[l][k - 1]]]
           /\ Len(Store!Elements(Contents(db), l)) = ListLength(db, l)
  <1>. DEFINE C == Contents(db)
              n == CHOOSE k \in 0 .. MAX_LINES :
                       /\ \A i \in 0 .. k - 1 : Item[l][i] \in DOMAIN C
                       /\ k = MAX_LINES \/ Item[l][k] \notin DOMAIN C
  <1>1. DOMAIN C = Names(db)
    BY DEF Contents
  <1>. HIDE DEF C
  <1>2. n = ListLength(db, l)
    BY <1>1 DEF ListLength
  <1>3. Store!Elements(C, l) = [k \in 1 .. n |-> C[Item[l][k - 1]]]
    BY DEF Store!Elements
  <1>4. ListLength(db, l) \in Nat
    BY ListLengthType, MaxLinesAssumption
  <1>. HIDE DEF n
  <1>5. Len([k \in 1 .. ListLength(db, l) |-> C[Item[l][k - 1]]]) = ListLength(db, l)
    BY <1>4
  <1>. QED BY <1>2, <1>3, <1>5 DEF C

\* listadd puts the value behind the last element of the list.
LEMMA PushContents ==
    ASSUME NEW db, IsTable(db), UniqueIn(db), NEW l \in List, NEW v \in Value, CanAdd(db)
    PROVE  Contents(listadd(db, l, v)) =
               Store!With(Contents(db), Item[l][Len(Store!Elements(Contents(db), l))], v)
  <1>. DEFINE i == list_getnextindex(db, l)
              m == Item[l][i]
  <1>1. m \in Name /\ m \notin Names(db)
    BY FreeIndex, ItemName
  <1>2. i = Len(Store!Elements(Contents(db), l))
    BY NextIsLength, ElementsOf
  <1>3. listadd(db, l, v) = db_add(db, m, v)
    BY DEF listadd
  <1>. HIDE DEF m, i
  <1>4. db_add(db, m, v) = db_set(db, m, v)
    BY <1>1 DEF db_set
  <1>5. Contents(db_set(db, m, v)) = Store!With(Contents(db), m, v)
    BY <1>1, PutContents DEF CanSet
  <1>. QED BY <1>2, <1>3, <1>4, <1>5 DEF m

\* listrm of a key that is no element of the list changes nothing, if every
\* db_set succeeds.
LEMMA MissContents ==
    ASSUME NEW db, IsTable(db), UniqueIn(db), NEW l \in List, NEW key,
           key \notin {Item[l][i] : i \in 0 .. ListLength(db, l) - 1},
           NEW t \in listrm(db, l, key, 0)
    PROVE  Contents(t) = Contents(db)
  <1>. DEFINE n == ListLength(db, l)
              C == Contents(db)
              old == {Item[l][i] : i \in 0 .. n - 1}
              local == LocalLines(db, l, key)
              e(k) == [name |-> Item[l][k - 1], value |-> C[Item[l][k - 1]]]
              back == {local[k] : k \in {j \in DOMAIN local : j > 0}}
  <1>1. /\ IsTable(t) /\ UniqueIn(t)
        /\ Records(t) = {r \in Records(db) : r.name \notin old} \cup back
    BY ListRmTable, ListRmRecords DEF Others, Saved
  <1>2. local = [k \in 1 .. n |-> e(k)]
    BY LocalLinesOf
  <1>3. n \in Nat /\ \A i \in 0 .. n - 1 : Item[l][i] \in Names(db)
    BY ListLengthType, MaxLinesAssumption
  <1>4. /\ \A m \in Names(db) : [name |-> m, value |-> C[m]] \in Records(db)
        /\ \A r \in Records(db) : r \in Record /\ C[r.name] = r.value
    BY ContentsOf
  <1>. HIDE DEF n, C, local
  <1>5. ASSUME NEW k \in 1 .. n PROVE e(k) \in Records(db)
    <2>1. k - 1 \in 0 .. n - 1
      BY <1>3
    <2>. QED BY <1>3, <1>4, <2>1
  <1>6. back = {e(k) : k \in 1 .. n}
    <2>. HIDE DEF e
    <2>1. {j \in DOMAIN local : j > 0} = 1 .. n
      BY <1>2, <1>3
    <2>. QED BY <1>2, <2>1
  <1>7. ASSUME NEW r \in Records(db), r.name \in old PROVE r \in back
    <2>1. PICK i \in 0 .. n - 1 : r.name = Item[l][i]
      BY <1>7
    <2>2. i + 1 \in 1 .. n /\ (i + 1) - 1 = i
      BY <1>3
    <2>3. e(i + 1) = [name |-> r.name, value |-> C[r.name]]
      BY <2>1, <2>2
    <2>4. r = [name |-> r.name, value |-> C[r.name]]
      BY <1>4 DEF Record
    <2>. HIDE DEF back
    <2>. QED BY <1>6, <2>2, <2>3, <2>4
  <1>8. Records(t) = Records(db)
    <2>. HIDE DEF e, old, back
    <2>. QED BY <1>1, <1>5, <1>6, <1>7
  <1>. QED BY <1>1, <1>8, SameRecords

\* Where local_lines holds the values of kept, listrm makes them the elements
\* of the list, but for the first lost of them.
LEMMA KeptContents ==
    ASSUME NEW db, IsTable(db), UniqueIn(db), NEW l \in List, NEW key, NEW kept,
           NEW c \in 0 .. ListLength(db, l), Len(kept) = c,
           DOMAIN LocalLines(db, l, key) = 1 .. c,
           \A k \in 1 .. c : LocalLines(db, l, key)[k] =
                                 [name |-> Item[l][k - 1], value |-> kept[k]],
           NEW lost \in 0 .. c, NEW t \in listrm(db, l, key, lost)
    PROVE  Contents(t) =
               Store!Without(Store!WithElements(Contents(db), l, kept),
                             Store!Leading(l, lost))
  <1>. DEFINE n == ListLength(db, l)
              C == Contents(db)
              old == {Item[l][i] : i \in 0 .. n - 1}
              local == LocalLines(db, l, key)
              back == {local[k] : k \in {j \in DOMAIN local : j > lost}}
              s == Store!WithElements(C, l, kept)
              new == {Item[l][i - 1] : i \in 1 .. c}
              gone == Store!Leading(l, lost)
              w == Store!Without(s, gone)
              e(k) == [name |-> Item[l][k - 1], value |-> kept[k]]
  <1>1. /\ IsTable(t) /\ UniqueIn(t)
        /\ Records(t) = {r \in Records(db) : r.name \notin old} \cup back
    <2>1. IsTable(t) /\ UniqueIn(t)
      BY ListRmTable
    <2>2. Records(t) = Others(db, l) \cup Saved(local, lost)
      BY ListRmRecords
    <2>. QED BY <2>1, <2>2 DEF Others, Saved
  <1>2. DOMAIN local = 1 .. c /\ \A k \in 1 .. c : local[k] = e(k)
    OBVIOUS
  <1>3. /\ n \in Nat /\ n <= MAX_LINES /\ \A i \in 0 .. n - 1 : Item[l][i] \in Names(db)
        /\ c \in Nat /\ c <= n /\ lost \in Nat /\ lost <= c
    BY ListLengthType, MaxLinesAssumption
  <1>4. /\ DOMAIN C = Names(db) /\ Names(db) = {r.name : r \in Records(db)}
        /\ \A m \in Names(db) : [name |-> m, value |-> C[m]] \in Records(db)
    BY ContentsOf
  <1>5. Len(Store!Elements(C, l)) = n
    BY ElementsOf
  <1>6. \A h, i \in 1 .. c : Item[l][h - 1] = Item[l][i - 1] => h = i
    <2>. SUFFICES ASSUME NEW h \in 1 .. c, NEW i \in 1 .. c,
                         Item[l][h - 1] = Item[l][i - 1]
                  PROVE  h = i
      OBVIOUS
    <2>1. h - 1 \in 0 .. MAX_LINES - 1 /\ i - 1 \in 0 .. MAX_LINES - 1
      BY <1>3, MaxLinesAssumption
    <2>2. h - 1 = i - 1
      BY <2>1, ItemName
    <2>. QED BY <1>3, <2>2
  <1>. HIDE DEF n, C, local
  <1>7. {Item[l][i - 1] : i \in 1 .. n} = old
    <2>1. ASSUME NEW i \in 1 .. n PROVE Item[l][i - 1] \in old
      <3>1. i - 1 \in 0 .. n - 1
        BY <1>3
      <3>. QED BY <3>1
    <2>2. ASSUME NEW i \in 0 .. n - 1 PROVE Item[l][i] \in {Item[l][h - 1] : h \in 1 .. n}
      <3>1. i + 1 \in 1 .. n /\ (i + 1) - 1 = i
        BY <1>3
      <3>. QED BY <3>1
    <2>. QED BY <2>1, <2>2
  <1>8. s = [m \in (DOMAIN C \ old) \cup new |->
                 IF m \in new THEN kept[CHOOSE i \in 1 .. c : Item[l][i - 1] = m] ELSE C[m]]
    <2>. DEFINE F(a, b) ==
                  [m \in (DOMAIN C \ {Item[l][i - 1] : i \in 1 .. a})
                            \cup {Item[l][i - 1] : i \in 1 .. b} |->
                      IF m \in {Item[l][i - 1] : i \in 1 .. b}
                      THEN kept[CHOOSE i \in 1 .. b : Item[l][i - 1] = m] ELSE C[m]]
    <2>1. s = F(Len(Store!Elements(C, l)), Len(kept))
      BY Zenon DEF Store!WithElements
    <2>2. s = F(n, c)
      <3>. HIDE DEF F, s
      <3>. QED BY <1>5, <2>1
    <2>. QED BY <1>7, <2>2
  <1>9. /\ DOMAIN s = (DOMAIN C \ old) \cup new
        /\ \A m \in DOMAIN s : m \notin new => s[m] = C[m]
    <2>. HIDE DEF new, old
    <2>. QED BY <1>8
  <1>10. ASSUME NEW k \in 1 .. c
         PROVE  Item[l][k - 1] \in DOMAIN s /\ s[Item[l][k - 1]] = kept[k]
    <2>. DEFINE m == Item[l][k - 1]
                i == CHOOSE h \in 1 .. c : Item[l][h - 1] = m
    <2>1. m \in new
      OBVIOUS
    <2>2. i \in 1 .. c /\ Item[l][i - 1] = m
      OBVIOUS
    <2>3. i = k
      BY <1>6, <2>2
    <2>. HIDE DEF new, old
    <2>4. s[m] = kept[i]
      BY <1>8, <1>9, <2>1
    <2>. QED BY <1>9, <2>1, <2>3, <2>4
  <1>. HIDE DEF s
  <1>11. /\ DOMAIN w = DOMAIN s \ gone /\ w = [m \in DOMAIN w |-> w[m]]
         /\ \A m \in DOMAIN w : w[m] = s[m]
    <2>. HIDE DEF gone
    <2>. QED BY DEF Store!Without
  <1>. HIDE DEF w
  <1>12. back = {e(k) : k \in {j \in 1 .. c : j > lost}}
    <2>. HIDE DEF e
    <2>1. DOMAIN local = 1 .. c
      BY <1>2
    <2>. QED BY <1>2, <2>1
  <1>. HIDE DEF back
  <1>13. ASSUME NEW k \in 1 .. c PROVE Item[l][k - 1] \in gone <=> k <= lost
    <2>1. CASE k <= lost
      <3>1. k - 1 \in 0 .. lost - 1
        BY <1>3, <2>1
      <3>. QED BY <2>1, <3>1 DEF Store!Leading
    <2>2. CASE ~(k <= lost)
      <3>1. ASSUME NEW h \in 0 .. lost - 1, Item[l][k - 1] = Item[l][h] PROVE FALSE
        <4>1. h + 1 \in 1 .. c /\ (h + 1) - 1 = h /\ h + 1 # k
          BY <1>3, <2>2
        <4>. QED BY <1>6, <3>1, <4>1
      <3>. QED BY <2>2, <3>1 DEF Store!Leading
    <2>. QED BY <2>1, <2>2
  <1>14. \A x \in gone : x \in old
    BY <1>3 DEF Store!Leading
  <1>. HIDE DEF gone
  <1>15. ASSUME NEW m \in DOMAIN w PROVE [name |-> m, value |-> w[m]] \in Records(t)
    <2>1. CASE m \in new
      <3>1. PICK k \in 1 .. c : m = Item[l][k - 1]
        BY <2>1
      <3>2. k > lost /\ k \in {j \in 1 .. c : j > lost}
        BY <1>3, <1>11, <1>13, <3>1
      <3>3. [name |-> m, value |-> w[m]] = e(k)
        BY <1>10, <1>11, <3>1
      <3>. HIDE DEF e
      <3>. QED BY <1>1, <1>12, <3>2, <3>3
    <2>2. CASE m \notin new
      <3>1. m \in Names(db) /\ m \notin old /\ w[m] = C[m]
        BY <1>4, <1>9, <1>11, <2>2
      <3>2. [name |-> m, value |-> C[m]] \in Records(db)
        BY <1>4, <3>1
      <3>. QED BY <1>1, <3>1, <3>2
    <2>. QED BY <2>1, <2>2
  <1>16. ASSUME NEW r \in Records(t) PROVE r.name \in DOMAIN w
    <2>1. CASE r \in Records(db) /\ r.name \notin old
      BY <1>4, <1>9, <1>11, <1>14, <2>1
    <2>2. CASE r \in back
      <3>1. PICK k \in {j \in 1 .. c : j > lost} : r = e(k)
        <4>. HIDE DEF e
        <4>. QED BY <1>12, <2>2
      <3>2. k \in 1 .. c /\ ~(k <= lost) /\ r.name = Item[l][k - 1]
        BY <1>3, <3>1
      <3>. QED BY <1>10, <1>11, <1>13, <3>2
    <2>. QED BY <1>1, <2>1, <2>2
  <1>17. Contents(t) = w
    BY <1>1, <1>11, <1>15, <1>16, ContentsBy
  <1>. QED BY <1>17 DEF w, s, gone, C

\* listrm of element j takes it out of the list and moves up those behind it,
\* but for those that are lost.
LEMMA PullContents ==
    ASSUME NEW db, IsTable(db), UniqueIn(db), NEW l \in List,
           NEW j \in 0 .. ListLength(db, l) - 1, NEW lost \in Nat,
           lost <= Len(LocalLines(db, l, Item[l][j])),
           NEW t \in listrm(db, l, Item[l][j], lost)
    PROVE  /\ lost <= ListLength(db, l)
           /\ Contents(t) =
                  Store!Without(Store!WithElements(Contents(db), l,
                      Store!Removed(Store!Elements(Contents(db), l), j + 1)),
                      Store!Leading(l, lost))
  <1>. DEFINE n == ListLength(db, l)
              C == Contents(db)
              E == Store!Elements(C, l)
              Q == Store!Removed(E, j + 1)
              local == LocalLines(db, l, Item[l][j])
              V(k) == C[Item[l][IF k < j + 1 THEN k - 1 ELSE k]]
              e(k) == [name |-> Item[l][k - 1], value |-> V(k)]
  <1>1. local = [k \in 1 .. n - 1 |-> e(k)]
    <2>1. ASSUME NEW key, Item[l][j] = key
          PROVE  LocalLines(db, l, key) = [k \in 1 .. n - 1 |-> e(k)]
      BY <2>1, LocalLinesOf
    <2>. HIDE DEF e, n
    <2>. QED BY <2>1
  <1>2. n \in Nat /\ n <= MAX_LINES /\ j \in 0 .. n - 1
    BY ListLengthType, MaxLinesAssumption
  <1>3. E = [k \in 1 .. n |-> C[Item[l][k - 1]]] /\ Len(E) = n
    BY ElementsOf
  <1>. HIDE DEF n, C, local, E
  <1>4. Q = [k \in 1 .. n - 1 |-> V(k)] /\ Len(Q) = n - 1
    <2>1. Q = [k \in 1 .. n - 1 |-> IF k < j + 1 THEN E[k] ELSE E[k + 1]]
      BY <1>3 DEF Store!Removed
    <2>2. ASSUME NEW k \in 1 .. n - 1
          PROVE  (IF k < j + 1 THEN E[k] ELSE E[k + 1]) = V(k)
      <3>1. k \in 1 .. n /\ k + 1 \in 1 .. n /\ (k + 1) - 1 = k
        BY <1>2
      <3>2. E[k] = C[Item[l][k - 1]] /\ E[k + 1] = C[Item[l][k]]
        BY <1>3, <3>1
      <3>. QED BY <3>2
    <2>. HIDE DEF Q, V
    <2>3. Q = [k \in 1 .. n - 1 |-> V(k)]
      BY <2>1, <2>2
    <2>4. n - 1 \in Nat
      BY <1>2
    <2>. QED BY <2>3, <2>4
  <1>. HIDE DEF Q, V
  <1>5. local = [k \in 1 .. n - 1 |-> [name |-> Item[l][k - 1], value |-> Q[k]]]
    BY <1>1, <1>4
  <1>6. n - 1 \in 0 .. n /\ Len(local) = n - 1 /\ lost \in 0 .. n - 1 /\ lost <= n
    <2>1. n - 1 \in Nat
      BY <1>2
    <2>2. Len(local) = n - 1
      BY <1>5, <2>1
    <2>3. lost <= Len(local)
      BY DEF local
    <2>. QED BY <1>2, <2>1, <2>2, <2>3
  <1>7. Contents(t) = Store!Without(Store!WithElements(C, l, Q),
                                    Store!Leading(l, lost))
    <2>1. ASSUME NEW key, key = Item[l][j]
          PROVE  Contents(t) = Store!Without(Store!WithElements(C, l, Q),
                                             Store!Leading(l, lost))
      <3>1. /\ DOMAIN LocalLines(db, l, key) = 1 .. n - 1
            /\ \A k \in 1 .. n - 1 : LocalLines(db, l, key)[k] =
                                         [name |-> Item[l][k - 1], value |-> Q[k]]
        BY <1>5, <2>1 DEF local
      <3>2. t \in listrm(db, l, key, lost)
        BY <2>1
      <3>3. Len(Q) = n - 1
        BY <1>4
      <3>. HIDE DEF e
      <3>. QED BY <1>6, <3>1, <3>2, <3>3, KeptContents DEF n, C
    <2>. QED BY <2>1
  <1>. QED BY <1>6, <1>7 DEF Q, E, C, n

\* listrm of a key that is no element of the list loses the first elements,
\* if db_set fails for them.
LEMMA SpillContents ==
    ASSUME NEW db, IsTable(db), UniqueIn(db), NEW l \in List, NEW key,
           key \notin {Item[l][i] : i \in 0 .. ListLength(db, l) - 1}, NEW lost \in Nat,
           lost <= Len(LocalLines(db, l, key)), NEW t \in listrm(db, l, key, lost)
    PROVE  /\ lost <= ListLength(db, l)
           /\ Contents(t) =
                  Store!Without(Store!WithElements(Contents(db), l,
                      Store!Elements(Contents(db), l)),
                      Store!Leading(l, lost))
  <1>. DEFINE n == ListLength(db, l)
              C == Contents(db)
              E == Store!Elements(C, l)
              local == LocalLines(db, l, key)
  <1>1. local = [k \in 1 .. n |-> [name |-> Item[l][k - 1], value |-> C[Item[l][k - 1]]]]
    BY LocalLinesOf
  <1>2. n \in Nat
    BY ListLengthType, MaxLinesAssumption
  <1>3. E = [k \in 1 .. n |-> C[Item[l][k - 1]]] /\ Len(E) = n
    BY ElementsOf
  <1>. HIDE DEF n, C, local, E
  <1>4. local = [k \in 1 .. n |-> [name |-> Item[l][k - 1], value |-> E[k]]]
    BY <1>1, <1>3
  <1>5. /\ n \in 0 .. n /\ lost \in 0 .. n
        /\ DOMAIN local = 1 .. n
        /\ \A k \in 1 .. n : local[k] = [name |-> Item[l][k - 1], value |-> E[k]]
    <2>1. Len(local) = n
      BY <1>2, <1>4
    <2>2. lost <= Len(local)
      BY DEF local
    <2>3. /\ DOMAIN local = 1 .. n
          /\ \A k \in 1 .. n : local[k] = [name |-> Item[l][k - 1], value |-> E[k]]
      BY <1>4
    <2>. QED BY <1>2, <2>1, <2>2, <2>3
  <1>6. Contents(t) = Store!Without(Store!WithElements(C, l, E),
                                    Store!Leading(l, lost))
    <2>1. /\ n = ListLength(db, l) /\ C = Contents(db) /\ local = LocalLines(db, l, key)
          /\ Len(E) = n
      BY <1>3 DEF n, C, local
    <2>2. /\ n \in 0 .. ListLength(db, l)
          /\ DOMAIN LocalLines(db, l, key) = 1 .. n
          /\ \A k \in 1 .. n : LocalLines(db, l, key)[k] =
                                   [name |-> Item[l][k - 1], value |-> E[k]]
      BY <1>5, <2>1
    <2>3. lost \in 0 .. n
      BY <1>5
    <2>. QED BY <2>1, <2>2, <2>3, KeptContents
  <1>. QED BY <1>5, <1>6 DEF E, C, n

-----------------------------------------------------------------------------
(* Every step of a session is a step of the store, or none.                *)

\* The table that db_read leaves is the one the run would see.
LEMMA ReadIsSeen ==
    ASSUME IInv, pc = "run", NEW r \in ReadOutcomes
    PROVE  r.db = Seen /\ IsTable(Seen) /\ UniqueIn(Seen)
  <1>1. CASE NothingToRead
    BY <1>1, ReadFacts DEF ReadOutcomes, Seen
  <1>2. CASE ~NothingToRead
    BY <1>2, ReadFacts DEF ReadOutcomes, Seen
  <1>. QED BY <1>1, <1>2, ReadFacts

\* A command that succeeds changes the session's copy and nothing else.
LEMMA DoneIsUpdate ==
    ASSUME IInv, NEW r \in ReadOutcomes, NEW ok \in BOOLEAN, r.ok => ok, ReadThen(ok),
           NEW db, NEW dirty, Done(db, dirty)
    PROVE  /\ Store!Update(Contents(db))
           /\ Contents(db) = Contents(Seen) => UNCHANGED Store!vars
  <1>1. pc = "run" /\ pc' = "run" /\ disk' = disk /\ db_lines' = db
    BY DEF ReadThen, Done
  <1>2. /\ db_already_readed' = ok /\ db_file' = (disk.form # "missing")
        /\ disk.form = "kdb" => ok
    BY <1>1, ReadFacts DEF ReadThen
  <1>3. disk.form \in Form
    BY DEF IInv, TypeOK
  <1>4. NothingToRead'
    BY <1>1, <1>2, <1>3 DEF NothingToRead, Form
  <1>5. Seen' = db
    BY <1>1, <1>4 DEF Seen
  <1>6. Contents(Seen)' = Contents(db)
    BY <1>5
  <1>7. UNCHANGED <<Contents(disk.lines), disk.form = "kdb", pc = "run">>
    BY <1>1
  <1>. QED BY <1>1, <1>6, <1>7 DEF Store!Update, Store!vars

\* The end of a run that leaves the file as it is abandons the session.
LEMMA EndIsAbort ==
    ASSUME pc = "run", pc' # "run", UNCHANGED disk
    PROVE  Store!Abort
  <1>1. Seen' = disk'.lines
    BY DEF Seen
  <1>2. Contents(Seen)' = Contents(disk.lines)
    BY <1>1
  <1>3. UNCHANGED <<Contents(disk.lines), disk.form = "kdb">>
    OBVIOUS
  <1>. QED BY <1>2, <1>3 DEF Store!Abort

\* What keeps the file and starts or ends no run is no step of the store.
LEMMA IdleIsStutter ==
    ASSUME pc # "run", pc' # "run", UNCHANGED disk
    PROVE  UNCHANGED Store!vars
  <1>1. Seen' = Seen
    BY DEF Seen
  <1>2. Contents(Seen)' = Contents(Seen) /\ Contents(disk.lines)' = Contents(disk.lines)
    BY <1>1
  <1>3. (pc = "run")' = (pc = "run") /\ (disk.form = "kdb")' = (disk.form = "kdb")
    OBVIOUS
  <1>. QED BY <1>2, <1>3 DEF Store!vars

\* The empty table holds nothing.
LEMMA EmptyContents == Contents(EmptyTable) = Store!Nothing
  <1>1. Names(EmptyTable) = {}
    BY DEF Names, EmptyTable
  <1>. QED BY <1>1 DEF Contents, Store!Nothing

\* A free line in the table is room in the store.
LEMMA RoomFollows ==
    ASSUME IInv, pc = "run", NEW r \in ReadOutcomes, CanAdd(r.db)
    PROVE  Store!HasRoom
  <1>1. r.db = Seen /\ IsTable(Seen)
    BY ReadIsSeen
  <1>2. Cardinality(Names(Seen)) \in Nat /\ Cardinality(Names(Seen)) <= Len(Seen)
    BY <1>1, CountNames
  <1>3. Len(Seen) < MAX_LINES /\ Len(Seen) \in Nat
    BY <1>1, LenProperties DEF CanAdd, IsTable
  <1>4. DOMAIN Contents(Seen) = Names(Seen)
    BY DEF Contents
  <1>5. Cardinality(DOMAIN Contents(Seen)) < MAX_LINES
    BY <1>2, <1>3, <1>4, MaxLinesAssumption
  <1>6. \A S : Store!Cardinality(S) = Cardinality(S)
    BY DEF Cardinality, Store!Cardinality
  <1>. QED BY <1>5, <1>6 DEF Store!HasRoom

\* import that gets as far as writing loads the file it has read.
LEMMA ImportIsLoad ==
    ASSUME IInv, NEW t \in KdbFiles, import(t)
    PROVE  [Store!Next]_Store!vars
  <1>. DEFINE db == db_lines \o t
  <1>1. pc = "run" /\ IsTable(t) /\ UniqueIn(t) /\ t \in Seq(Record)
    BY KdbFilesAssumption DEF import, IsTable
  <1>2. \/ Fail
        \/ pc' = "stuck" /\ UNCHANGED disk
        \/ /\ ~db_file /\ disk.form # "missing"
           /\ \E s \in db_sort(db) :
                 /\ disk' = Kdb(s) /\ db_lines' = s /\ db_already_readed' = TRUE
                 /\ UNCHANGED pc
    BY DEF import
  <1>3. CASE Fail \/ (pc' = "stuck" /\ UNCHANGED disk)
    <2>1. pc' # "run" /\ UNCHANGED disk
      BY <1>3 DEF Fail, Exit
    <2>. QED BY <1>1, <2>1, EndIsAbort DEF Store!Next
  <1>4. CASE /\ ~db_file /\ disk.form # "missing"
             /\ \E s \in db_sort(db) :
                   /\ disk' = Kdb(s) /\ db_lines' = s /\ db_already_readed' = TRUE
                   /\ UNCHANGED pc
    <2>1. db = t
      <3>1. db_lines = << >>
        BY <1>4 DEF IInv, ImportStartsEmpty, EmptyTable
      <3>. QED BY <1>1, <3>1, ConcatEmptySeq
    <2>. HIDE DEF db
    <2>2. PICK s \in db_sort(t) :
              /\ disk' = Kdb(s) /\ db_lines' = s /\ db_already_readed' = TRUE
              /\ UNCHANGED pc
      BY <1>4, <2>1
    <2>3. IsTable(s) /\ UniqueIn(s) /\ Records(s) = Records(t)
      BY <1>1, <2>2, SortTable, SortRecords
    <2>4. Contents(s) = Contents(t)
      BY <1>1, <2>3, SameRecords
    <2>5. disk'.lines = s /\ Seen' = s /\ disk'.form = "kdb"
      BY <1>1, <2>2 DEF Kdb, Seen, NothingToRead
    <2>6. /\ Contents(disk.lines)' = Contents(t) /\ Contents(Seen)' = Contents(t)
          /\ (disk.form = "kdb")' = TRUE
      BY <2>4, <2>5
    <2>7. Store!Load(Contents(t))
      BY <1>1, <2>2, <2>6 DEF Store!Load
    <2>. QED BY <2>7 DEF Store!Next
  <1>. QED BY <1>2, <1>3, <1>4

\* Nothing is taken out.
LEMMA WithoutNone ==
    ASSUME NEW s, NEW l, NEW seq, NEW m
    PROVE  Store!Without(Store!WithElements(s, l, seq), Store!Leading(m, 0))
               = Store!WithElements(s, l, seq)
  <1>. DEFINE w == Store!WithElements(s, l, seq)
  <1>1. w = [n \in DOMAIN w |-> w[n]]
    BY DEF Store!WithElements
  <1>2. Store!Leading(m, 0) = {}
    BY DEF Store!Leading
  <1>. HIDE DEF w
  <1>3. DOMAIN w \ {} = DOMAIN w
    OBVIOUS
  <1>4. Store!Without(w, {}) = w
    BY <1>1, <1>3 DEF Store!Without
  <1>. QED BY <1>2, <1>4 DEF w

\* listrm of an element pulls it out of the list; of anything else, over this
\* list or over another one, it is no step of the store.  Where db_read fails,
\* elements are lost on the way.
LEMMA ListRmIsPull ==
    ASSUME IInv, NEW l \in List, NEW i \in ItemIndex, lrm(l, Item[l][i])
    PROVE  [Store!Next]_Store!vars
  <1>. DEFINE key == Item[l][i]
  <1>1. ASSUME NEW r \in ReadOutcomes, ReadThen(r.ok), Done(r.db, FALSE)
        PROVE  [Store!Next]_Store!vars
    <2>1. r.db = Seen /\ r.ok \in BOOLEAN
      BY <1>1, ReadIsSeen, ReadFacts DEF ReadThen
    <2>. QED BY <1>1, <2>1, DoneIsUpdate
  <1>2. ASSUME NEW r \in ReadOutcomes, NEW m \in List,
               NEW lost \in Lost(r.ok, Len(LocalLines(r.db, m, key))),
               NEW db \in listrm(r.db, m, key, lost),
               m = l \/ key \notin {Item[m][h] : h \in ItemIndex},
               ReadThen(r.ok \/ lost < Len(LocalLines(r.db, m, key))),
               Done(db, ListLength(r.db, m) > 0)
        PROVE  [Store!Next]_Store!vars
    <2>. DEFINE n == ListLength(r.db, m)
                c == Len(LocalLines(r.db, m, key))
                kept(h) == Store!Removed(Store!Elements(Contents(Seen), m), h)
    <2>1. /\ r.db = Seen /\ IsTable(Seen) /\ UniqueIn(Seen) /\ pc = "run"
          /\ r.ok \in BOOLEAN /\ (disk.form = "kdb" => r.ok)
      BY <1>2, ReadIsSeen, ReadFacts DEF ReadThen
    <2>2. n \in 0 .. MAX_LINES /\ 0 .. n - 1 \subseteq ItemIndex
      BY <2>1, ListLengthType, MaxLinesAssumption DEF ItemIndex
    <2>3. c \in Nat
      BY <2>1, LocalLinesTable, LenProperties DEF IsTable
    <2>4. lost \in Nat /\ lost <= c /\ (r.ok => lost = 0)
      BY <1>2, <2>3 DEF Lost
    <2>5. /\ Store!Update(Contents(db))
          /\ Contents(db) = Contents(Seen) => UNCHANGED Store!vars
      <3>1. (r.ok \/ lost < c) \in BOOLEAN /\ (r.ok => (r.ok \/ lost < c))
        OBVIOUS
      <3>. QED BY <1>2, <3>1, DoneIsUpdate
    <2>6. Len(Store!Elements(Contents(Seen), m)) = n
      BY <2>1, ElementsOf
    <2>7. CASE key \notin {Item[m][h] : h \in 0 .. n - 1}
      <3>. HIDE DEF key
      <3>1. CASE r.ok
        <4>1. db \in listrm(Seen, m, key, 0)
          BY <1>2, <2>1, <2>4, <3>1
        <4>2. Contents(db) = Contents(Seen)
          BY <2>1, <2>7, <4>1, MissContents
        <4>. QED BY <2>5, <4>2
      <3>2. CASE ~r.ok
        <4>1. /\ lost <= n
              /\ Contents(db) =
                     Store!Without(Store!WithElements(Contents(Seen), m,
                         Store!Elements(Contents(Seen), m)),
                         Store!Leading(m, lost))
          BY <1>2, <2>1, <2>4, <2>7, SpillContents
        <4>2. 0 \in 0 .. n /\ 0 \in 0 .. MAX_LINES /\ lost \in 0 .. MAX_LINES
          BY <2>2, <2>4, <4>1, MaxLinesAssumption
        <4>3. Store!Spill(m, 0, lost)
          BY <2>1, <2>5, <2>6, <3>2, <4>1, <4>2 DEF Store!Spill
        <4>. QED BY <4>2, <4>3 DEF Store!Next
      <3>. QED BY <2>1, <3>1, <3>2
    <2>8. CASE key \in {Item[m][h] : h \in 0 .. n - 1}
      <3>1. PICK h \in 0 .. n - 1 : key = Item[m][h]
        BY <2>8
      <3>2. m = l
        BY <1>2, <2>2, <3>1
      <3>. HIDE DEF key
      <3>3. /\ db \in listrm(Seen, m, Item[m][h], lost)
            /\ h \in 0 .. ListLength(Seen, m) - 1
            /\ lost <= Len(LocalLines(Seen, m, Item[m][h]))
        BY <1>2, <2>1, <2>4, <3>1
      <3>4. /\ lost <= n
            /\ Contents(db) = Store!Without(Store!WithElements(Contents(Seen), m, kept(h + 1)),
                                            Store!Leading(m, lost))
        BY <2>1, <2>4, <3>3, PullContents
      <3>5. /\ h + 1 \in 1 .. n /\ h + 1 \in 1 .. MAX_LINES
            /\ h + 1 \in 0 .. n /\ h + 1 \in 0 .. MAX_LINES /\ h + 1 # 0
            /\ lost \in 0 .. MAX_LINES
        BY <2>2, <2>4, <3>4, MaxLinesAssumption
      <3>6. CASE r.ok
        <4>1. Contents(db) = Store!WithElements(Contents(Seen), m, kept(h + 1))
          <5>. HIDE DEF kept
          <5>. QED BY <2>4, <3>4, <3>6, WithoutNone
        <4>2. Store!Pull(m, h + 1)
          BY <2>5, <2>6, <3>5, <4>1 DEF Store!Pull
        <4>. QED BY <3>5, <4>2 DEF Store!Next
      <3>7. CASE ~r.ok
        <4>1. Store!Spill(m, h + 1, lost)
          BY <2>1, <2>5, <2>6, <3>4, <3>5, <3>7 DEF Store!Spill
        <4>. QED BY <3>5, <4>1 DEF Store!Next
      <3>. QED BY <2>1, <3>6, <3>7
    <2>. QED BY <2>7, <2>8
  <1>. QED BY <1>1, <1>2 DEF lrm

\* Every step of a run is a step of the store, or none.
LEMMA NextIsStore ==
    ASSUME NewKey \subseteq Name, IInv, [Next]_vars
    PROVE  [Store!Next]_Store!vars
  <1>1. CASE UNCHANGED vars
    <2>1. Seen' = Seen /\ disk' = disk /\ pc' = pc
      BY <1>1 DEF vars, Seen, NothingToRead
    <2>2. /\ Contents(Seen)' = Contents(Seen) /\ Contents(disk.lines)' = Contents(disk.lines)
          /\ (pc = "run")' = (pc = "run") /\ (disk.form = "kdb")' = (disk.form = "kdb")
      BY <2>1
    <2>. QED BY <2>2 DEF Store!vars
  <1>2. CASE Start
    <2>1. Seen' = disk.lines
      <3>1. /\ db_lines = EmptyTable /\ ~db_already_readed /\ ~db_file
            /\ disk.form \in {"missing", "blank"} => disk.lines = EmptyTable
        BY <1>2 DEF IInv, TypeOK, Fresh, Start
      <3>. QED BY <1>2, <3>1 DEF Start, Seen, NothingToRead
    <2>2. /\ Contents(Seen)' = Contents(disk.lines)
          /\ UNCHANGED <<Contents(disk.lines), disk.form = "kdb">>
      BY <1>2, <2>1 DEF Start
    <2>3. Store!Begin
      BY <1>2, <2>2 DEF Start, Store!Begin
    <2>. QED BY <2>3 DEF Store!Next
  <1>3. ASSUME pc = "run", Fail PROVE [Store!Next]_Store!vars
    <2>1. Store!Abort
      BY <1>3, EndIsAbort DEF Fail, Exit
    <2>. QED BY <2>1 DEF Store!Next
  <1>4. ASSUME NEW r \in ReadOutcomes, ReadThen(r.ok), NEW db, NEW dirty, Done(db, dirty)
        PROVE  /\ r.db = Seen /\ IsTable(Seen) /\ UniqueIn(Seen) /\ pc = "run"
               /\ Store!Update(Contents(db))
               /\ Contents(db) = Contents(Seen) => [Store!Next]_Store!vars
    <2>1. r.ok \in BOOLEAN
      BY <1>4, ReadFacts DEF ReadThen
    <2>. QED BY <1>4, <2>1, ReadIsSeen, DoneIsUpdate DEF ReadThen
  <1>5. CASE Query
    BY <1>4, <1>5 DEF Query
  <1>6. ASSUME NEW n \in Name, isset(n) PROVE [Store!Next]_Store!vars
    BY <1>3, <1>4, <1>6 DEF isset
  <1>7. ASSUME NEW n \in Name, NEW v \in Value, set(n, v) PROVE [Store!Next]_Store!vars
    <2>1. ASSUME NEW r \in ReadOutcomes, NEW ok \in ReadAgain(r.ok), ok, CanSet(r.db, n),
                 ReadThen(ok), Done(db_set(r.db, n, v), TRUE)
          PROVE  [Store!Next]_Store!vars
      <3>1. /\ r.db = Seen /\ IsTable(Seen) /\ UniqueIn(Seen) /\ pc = "run"
            /\ Store!Update(Contents(db_set(r.db, n, v)))
        <4>1. ok \in BOOLEAN
          BY DEF ReadAgain
        <4>. QED BY <2>1, <4>1, ReadIsSeen, DoneIsUpdate DEF ReadThen
      <3>2. Contents(db_set(r.db, n, v)) = Store!With(Contents(Seen), n, v)
        BY <2>1, <3>1, PutContents
      <3>3. n \in DOMAIN Contents(Seen) \/ Store!HasRoom
        <4>1. DOMAIN Contents(Seen) = Names(Seen)
          BY DEF Contents
        <4>. QED BY <2>1, <3>1, <4>1, RoomFollows DEF CanSet
      <3>4. Store!Put(n, v)
        BY <3>1, <3>2, <3>3 DEF Store!Put
      <3>. QED BY <3>4 DEF Store!Next
    <2>. QED BY <1>3, <1>7, <2>1 DEF set
  <1>8. ASSUME NEW p \in Pattern, NEW v \in Value, setWild(p, v)
        PROVE  [Store!Next]_Store!vars
    <2>1. PICK r \in ReadOutcomes :
              ReadThen(r.ok) /\ Done(SetMatching(r.db, p, v), Names(r.db) \cap p # {})
      BY <1>8 DEF setWild
    <2>2. /\ r.db = Seen /\ IsTable(Seen) /\ UniqueIn(Seen)
          /\ Store!Update(Contents(SetMatching(r.db, p, v)))
      BY <1>4, <2>1
    <2>3. Store!Fill(p, v)
      BY <2>2, FillContents DEF Store!Fill
    <2>. QED BY <2>3 DEF Store!Next
  <1>9. ASSUME NEW p \in Pattern, delWild(p) PROVE [Store!Next]_Store!vars
    <2>1. PICK r \in ReadOutcomes : \E db \in del(r.db, p) :
              ReadThen(r.ok) /\ Done(db, Names(r.db) \cap p # {})
      BY <1>9 DEF delWild
    <2>2. PICK db \in del(r.db, p) : ReadThen(r.ok) /\ Done(db, Names(r.db) \cap p # {})
      BY <2>1
    <2>3. r.db = Seen /\ IsTable(Seen) /\ UniqueIn(Seen) /\ Store!Update(Contents(db))
      BY <1>4, <2>2
    <2>4. Store!Remove(p)
      BY <2>2, <2>3, RemoveContents DEF Store!Remove
    <2>. QED BY <2>4 DEF Store!Next
  <1>10. ASSUME NEW n \in Name, NEW m \in NewKey, renameKey(n, m)
         PROVE  [Store!Next]_Store!vars
    <2>1. ASSUME NEW r \in ReadOutcomes, CanRename(r.db, n, m), ReadThen(r.ok),
                 Done(rename(r.db, n, m), TRUE)
          PROVE  [Store!Next]_Store!vars
      <3>1. /\ r.db = Seen /\ IsTable(Seen) /\ UniqueIn(Seen) /\ m \in Name
            /\ Store!Update(Contents(rename(r.db, n, m)))
        BY <1>4, <2>1
      <3>2. Store!Move(n, m)
        BY <2>1, <3>1, MoveContents DEF Store!Move
      <3>. QED BY <3>1, <3>2 DEF Store!Next
    <2>. QED BY <1>3, <1>10, <2>1 DEF renameKey
  <1>11. ASSUME NEW l \in List, NEW v \in Value, ladd(l, v) PROVE [Store!Next]_Store!vars
    <2>1. ASSUME NEW r \in ReadOutcomes, CanAdd(r.db), ReadThen(r.ok),
                 Done(listadd(r.db, l, v), TRUE)
          PROVE  [Store!Next]_Store!vars
      <3>1. /\ r.db = Seen /\ IsTable(Seen) /\ UniqueIn(Seen) /\ pc = "run"
            /\ Store!Update(Contents(listadd(r.db, l, v)))
        BY <1>4, <2>1
      <3>2. Store!HasRoom
        BY <2>1, <3>1, RoomFollows
      <3>3. Store!Push(l, v)
        BY <2>1, <3>1, <3>2, PushContents DEF Store!Push
      <3>. QED BY <3>3 DEF Store!Next
    <2>. QED BY <1>3, <1>11, <2>1 DEF ladd
  <1>12. ASSUME NEW l \in List, NEW i \in ItemIndex, lrm(l, Item[l][i])
         PROVE  [Store!Next]_Store!vars
    BY <1>12, ListRmIsPull
  <1>13. CASE Export
    <2>1. PICK r \in ReadOutcomes : \E db \in db_sort(r.db) : ReadThen(r.ok) /\ Done(db, FALSE)
      BY <1>13 DEF Export
    <2>2. PICK db \in db_sort(r.db) : ReadThen(r.ok) /\ Done(db, FALSE)
      BY <2>1
    <2>3. r.db = Seen /\ IsTable(Seen) /\ UniqueIn(Seen)
      BY <1>4, <2>2
    <2>4. Contents(db) = Contents(Seen)
      BY <2>2, <2>3, SortTable, SortRecords, SameRecords
    <2>. QED BY <1>4, <2>2, <2>4
  <1>14. CASE create
    <2>1. /\ pc = "run" /\ pc' = "run" /\ disk'.lines = EmptyTable /\ disk'.form = "blank"
          /\ db_lines' = db_lines
      BY <1>14 DEF create, Blank
    <2>2. Seen' = db_lines
      BY <2>1 DEF Seen, NothingToRead
    <2>3. Seen = db_lines \/ db_lines = EmptyTable
      <3>1. NothingToRead \/ (~db_file /\ disk.form # "missing")
        BY <2>1 DEF IInv, TypeOK, Form, Opened, NothingToRead
      <3>. QED BY <2>1, <3>1 DEF IInv, ImportStartsEmpty, Seen
    <2>4. /\ Contents(disk.lines)' = Contents(EmptyTable)
          /\ Contents(Seen)' \in {Contents(Seen), Contents(EmptyTable)}
          /\ (disk.form = "kdb")' = FALSE
      BY <2>1, <2>2, <2>3
    <2>5. Store!Wipe
      BY <2>1, <2>4, EmptyContents DEF Store!Wipe
    <2>. QED BY <2>5 DEF Store!Next
  <1>15. ASSUME NEW t \in KdbFiles, import(t) PROVE [Store!Next]_Store!vars
    BY <1>15, ImportIsLoad
  <1>16. ASSUME NEW t \in KdbFiles, edit(t) PROVE [Store!Next]_Store!vars
    <2>1. CASE pc = "run" /\ pc' = "stuck" /\ UNCHANGED disk
      BY <2>1, EndIsAbort DEF Store!Next
    <2>. QED BY <1>1, <1>15, <1>16, <2>1 DEF edit
  <1>17. CASE BadArgument
    BY <1>3, <1>17 DEF BadArgument
  <1>18. CASE Killed
    BY <1>18, IdleIsStutter DEF Killed, Fail, Exit
  <1>19. CASE Finish
    <2>1. pc = "run" /\ pc' = "idle"
      BY <1>19 DEF Finish, Exit
    <2>2. CASE UNCHANGED disk
      BY <2>1, <2>2, EndIsAbort DEF Store!Next
    <2>3. CASE need_write /\ db_file /\ \E s \in db_sort(db_lines) : disk' = Kdb(s)
      <3>1. PICK s \in db_sort(db_lines) : disk' = Kdb(s)
        BY <2>3
      <3>2. Seen = db_lines
        <4>1. NothingToRead
          BY <2>1, <2>3 DEF IInv, NoBlindWrite, TypeOK, Form, NothingToRead
        <4>. QED BY <2>1, <4>1 DEF Seen
      <3>3. IsTable(db_lines) /\ UniqueIn(db_lines)
        BY <2>1 DEF IInv, TypeOK, UniqueNames
      <3>4. Contents(s) = Contents(Seen)
        BY <3>1, <3>2, <3>3, SortTable, SortRecords, SameRecords
      <3>5. disk'.lines = s /\ Seen' = s /\ disk'.form = "kdb"
        BY <2>1, <3>1 DEF Kdb, Seen
      <3>6. /\ Contents(disk.lines)' = Contents(Seen) /\ Contents(Seen)' = Contents(Seen)
            /\ (disk.form = "kdb")' = TRUE
        BY <3>4, <3>5
      <3>7. Store!Commit
        BY <2>1, <3>6 DEF Store!Commit
      <3>. QED BY <3>7 DEF Store!Next
    <2>. QED BY <1>19, <2>2, <2>3 DEF Finish
  <1>20. CASE createOther
    <2>1. Seen' = Seen /\ disk' = disk /\ pc' = pc
      BY <1>20 DEF createOther, Seen, NothingToRead
    <2>2. /\ Contents(Seen)' = Contents(Seen) /\ Contents(disk.lines)' = Contents(disk.lines)
          /\ (pc = "run")' = (pc = "run") /\ (disk.form = "kdb")' = (disk.form = "kdb")
      BY <2>1
    <2>. QED BY <2>2 DEF Store!vars
  <1>. QED
    BY <1>1, <1>2, <1>5, <1>6, <1>7, <1>8, <1>9, <1>10, <1>11, <1>12, <1>13, <1>14,
       <1>15, <1>16, <1>17, <1>18, <1>19, <1>20 DEF Next

\* ImplementsStore: for every capacity, every set of names, lists and patterns
\* and every file, whole or damaged, a run of kdb is a transaction on the map
\* from names to values that can be read from it, and only without a whole
\* file does listrm lose elements; if rename is always given its second
\* argument (without it rename deletes the first record of the table, which is
\* no operation of a map).
THEOREM IsTransaction == NewKey \subseteq Name => (Spec => ImplementsStore)
  <1>. SUFFICES ASSUME NewKey \subseteq Name PROVE Spec => ImplementsStore
    OBVIOUS
  <1>1. Init => Store!Init
    <2>. SUFFICES ASSUME Init PROVE Store!Init
      OBVIOUS
    <2>1. pc = "idle" /\ Seen = disk.lines
      BY DEF Init, Seen
    <2>2. CASE disk = Missing
      <3>1. disk.lines = EmptyTable
        BY <2>2 DEF Missing
      <3>. QED BY <2>1, <3>1, EmptyContents DEF Store!Init
    <2>3. CASE disk \in {Kdb(t) : t \in KdbFiles} \cup {Damaged(t) : t \in KdbFiles}
      <3>1. PICK t \in KdbFiles : disk.lines = t
        BY <2>3 DEF Kdb, Damaged
      <3>. QED BY <2>1, <3>1 DEF Store!Init
    <2>. QED BY <2>2, <2>3 DEF Init
  <1>2. IInv /\ [Next]_vars => [Store!Next]_Store!vars
    BY NextIsStore
  <1>. QED BY <1>1, <1>2, Invariance, PTL DEF Spec, ImplementsStore, Store!Spec

=============================================================================
