--------------------------- MODULE KdbFileProofs ---------------------------
(***************************************************************************)
(* Proofs about KdbFile for any number of processes, any table size and    *)
(* any length of command line: the flock of db_open is exclusive, so no    *)
(* run loses the changes of another between its read and its write; and    *)
(* the file is what the runs, one after the other, should have left in it, *)
(* unless one of the hazards that the model marks has been met.            *)
(***************************************************************************)
EXTENDS KdbFile, KdbTableProofs

Place == {"idle", "wait", "fill", "import", "run", "close", "fclose"}

\* The places between the return of flock(LOCK_EX) and flock(LOCK_UN).
Locked == {"fill", "import", "run", "close"}

\* A run between flock(LOCK_EX) and flock(LOCK_UN) is the owner of the lock.
LockInv ==
    /\ pc \in [Proc -> Place]
    /\ \A p \in Proc : pc[p] \in Locked => lock = p

LEMMA InitLock == Init => LockInv
  BY DEF Init, LockInv, Place, Locked

\* Moves of p inside, out of, and into the locked region.
LEMMA MoveLock ==
    ASSUME NEW p \in Proc, LockInv, NEW to \in Place,
           pc' = [pc EXCEPT ![p] = to],
           \/ lock' = lock /\ (to \in Locked => pc[p] \in Locked)
           \/ lock' = p /\ lock = NoProc
           \/ lock = p /\ to \notin Locked
    PROVE  LockInv'
<1>1. pc' \in [Proc -> Place]
  BY DEF LockInv
<1>2. ASSUME NEW q \in Proc, pc'[q] \in Locked
      PROVE  lock' = q
  <2>1. CASE q = p
    BY <1>2, <2>1 DEF LockInv
  <2>2. CASE q # p
    <3>1. pc[q] \in Locked /\ lock = q
      BY <1>2, <2>2 DEF LockInv
    <3>2. lock # p /\ lock # NoProc
      BY <2>2, <3>1, ProcAssumption
    <3>. QED  BY <3>1, <3>2
  <2>. QED  BY <2>1, <2>2
<1>. QED  BY <1>1, <1>2 DEF LockInv

\* The steps that leave program counters and lock alone.
LEMMA StayLock == LockInv /\ UNCHANGED <<pc, lock>> => LockInv'
  BY DEF LockInv

\* Commands stay in "run", or fail and go to "close".
LEMMA CommandStep ==
    ASSUME NEW p \in Proc,
           \/ Query(p)
           \/ \E n \in Name : delKey(p, n) \/ isset(p, n)
           \/ \E n \in Name, v \in Value : set(p, n, v)
    PROVE  /\ UNCHANGED <<lock, truth>>
           /\ pc[p] = "run"
           /\ pc' = pc \/ pc' = [pc EXCEPT ![p] = "close"]
<1>1. ASSUME NEW r, NEW db, NEW sh, NEW dirty, Done(p, r, db, sh, dirty)
      PROVE  UNCHANGED <<lock, truth>> /\ pc[p] = "run" /\ pc' = pc
  BY <1>1 DEF Done
<1>2. ASSUME Fail(p)
      PROVE  /\ UNCHANGED <<lock, truth>>
             /\ pc[p] = "run" /\ pc' = [pc EXCEPT ![p] = "close"]
  BY <1>2 DEF Fail, Go, io, aux
<1>3. CASE Query(p)
  BY <1>1, <1>3 DEF Query
<1>4. CASE \E n \in Name : delKey(p, n)
  BY <1>1, <1>4 DEF delKey
<1>5. CASE \E n \in Name : isset(p, n)
  BY <1>1, <1>2, <1>5 DEF isset
<1>6. CASE \E n \in Name, v \in Value : set(p, n, v)
  <2>1. PICK n \in Name, v \in Value : set(p, n, v)
    BY <1>6
  <2>2. Fail(p) \/ \E r, db, sh, dirty : Done(p, r, db, sh, dirty)
    BY <2>1, Zenon DEF set
  <2>. QED  BY <1>1, <1>2, <2>2
<1>. QED  BY <1>3, <1>4, <1>5, <1>6

\* What a step of p does to the lock: nothing, or p takes a free lock or
\* gives up its own.
LEMMA NextLock == LockInv /\ [Next]_vars => LockInv'
<1>. SUFFICES ASSUME LockInv, [Next]_vars PROVE LockInv'
  OBVIOUS
<1>. USE DEF Place, Locked
<1>1. CASE UNCHANGED vars
  BY <1>1, StayLock DEF vars, io
<1>2. ASSUME NEW p \in Proc, Open(p) \/ Create(p) \/ \E t \in KdbFiles : Import(p, t)
      PROVE  LockInv'
  <2>1. pc' = [pc EXCEPT ![p] = "wait"] /\ lock' = lock
    BY <1>2 DEF Open, Create, Import, Go, io
  <2>. QED  BY <2>1, MoveLock
<1>3. ASSUME NEW p \in Proc, Lock(p)
      PROVE  LockInv'
  <2>1. PICK to \in {"import", "run", "fill"} : pc' = [pc EXCEPT ![p] = to]
    BY <1>3 DEF Lock, Go
  <2>2. lock' = p /\ lock = NoProc
    BY <1>3 DEF Lock
  <2>. QED  BY <2>1, <2>2, MoveLock
<1>4. ASSUME NEW p \in Proc, Fill(p) \/ Rewind(p)
      PROVE  LockInv'
  BY <1>4, StayLock DEF Fill, Rewind
<1>5. ASSUME NEW p \in Proc, FillLast(p)
      PROVE  LockInv'
  <2>1. pc[p] = "fill" /\ pc' = [pc EXCEPT ![p] = "run"] /\ lock' = lock
    BY <1>5 DEF FillLast, Go
  <2>. QED  BY <2>1, MoveLock
<1>6. ASSUME NEW p \in Proc,
             \/ Query(p)
             \/ \E n \in Name : delKey(p, n) \/ isset(p, n)
             \/ \E n \in Name, v \in Value : set(p, n, v)
      PROVE  LockInv'
  <2>1. /\ lock' = lock /\ pc[p] = "run"
        /\ pc' = pc \/ pc' = [pc EXCEPT ![p] = "close"]
    BY <1>6, CommandStep
  <2>2. CASE pc' = pc
    BY <2>1, <2>2, StayLock
  <2>3. CASE pc' = [pc EXCEPT ![p] = "close"]
    BY <2>1, <2>3, MoveLock
  <2>. QED  BY <2>1, <2>2, <2>3
<1>7. ASSUME NEW p \in Proc, ImportWrite(p)
      PROVE  LockInv'
  <2>1. pc[p] = "import" /\ pc' = [pc EXCEPT ![p] = "run"] /\ lock' = lock
    BY <1>7 DEF ImportWrite, db_write, Go
  <2>. QED  BY <2>1, MoveLock
<1>8. ASSUME NEW p \in Proc, Write(p) \/ NoWrite(p)
      PROVE  LockInv'
  <2>1. pc[p] = "run" /\ pc' = [pc EXCEPT ![p] = "close"] /\ lock' = lock
    BY <1>8 DEF Write, NoWrite, db_write, Go, io
  <2>. QED  BY <2>1, MoveLock
<1>9. ASSUME NEW p \in Proc, Unlock(p)
      PROVE  LockInv'
  <2>1. pc[p] = "close" /\ pc' = [pc EXCEPT ![p] = "fclose"]
    BY <1>9 DEF Unlock, Go
  <2>2. lock = p
    BY <2>1 DEF LockInv
  <2>. QED  BY <2>1, <2>2, MoveLock
<1>10. ASSUME NEW p \in Proc, Fclose(p)
       PROVE  LockInv'
  <2>1. pc' = [pc EXCEPT ![p] = "idle"] /\ lock' = lock
    BY <1>10 DEF Fclose, Clear
  <2>. QED  BY <2>1, MoveLock
<1>11. ASSUME NEW p \in Proc, Kill(p)
       PROVE  LockInv'
  <2>1. pc' = [pc EXCEPT ![p] = "idle"] /\ (lock' = lock \/ lock = p)
    BY <1>11 DEF Kill, Clear
  <2>. QED  BY <2>1, MoveLock
<1>. QED
  BY <1>1, <1>2, <1>3, <1>4, <1>5, <1>6, <1>7, <1>8, <1>9, <1>10, <1>11
     DEF Next, Step

-----------------------------------------------------------------------------
\* The flock of db_open is exclusive: of two runs only one is between
\* flock(LOCK_EX) and flock(LOCK_UN) (kdb.c 149-174).
THEOREM Exclusive ==
    Spec => [](\A p, q \in Proc : pc[p] \in Locked /\ pc[q] \in Locked => p = q)
<1>1. LockInv => \A p, q \in Proc : pc[p] \in Locked /\ pc[q] \in Locked => p = q
  BY DEF LockInv
<1>. QED  BY <1>1, InitLock, NextLock, PTL DEF Spec

\* A step that changes what the database should hold is a step of the run
\* that has the lock, which leaves its place by it, or a create that does
\* not look at the lock.
LEMMA LostUpdateStep ==
    LockInv /\ [Next]_vars =>
        \A p \in Proc :
            (pc[p] \in {"fill", "run"} /\ pc'[p] = pc[p]) => truth' = truth \/ tainted'
<1>. SUFFICES ASSUME LockInv, [Next]_vars, NEW p \in Proc,
                     pc[p] \in {"fill", "run"}, pc'[p] = pc[p]
              PROVE  truth' = truth \/ tainted'
  OBVIOUS
<1>1. lock = p /\ lock # NoProc
  BY ProcAssumption DEF LockInv, Locked
<1>2. CASE UNCHANGED vars
  BY <1>2 DEF vars, aux
<1>3. ASSUME NEW q \in Proc, Create(q)
      PROVE  tainted'
  BY <1>1, <1>3 DEF Create
<1>4. ASSUME NEW q \in Proc, ImportWrite(q) \/ Write(q) \/ NoWrite(q)
      PROVE  FALSE
  <2>1. pc[q] \in {"import", "run"}
    BY <1>4 DEF ImportWrite, Write, NoWrite, db_write, Go
  <2>2. q = p
    BY <1>1, <2>1 DEF LockInv, Locked
  <2>3. pc[p] = "run" /\ pc' = [pc EXCEPT ![p] = "close"]
    BY <1>4, <2>2 DEF ImportWrite, Write, NoWrite, db_write, Go
  <2>4. pc'[p] = "close"
    BY <2>3 DEF LockInv
  <2>. QED  BY <2>3, <2>4
<1>5. ASSUME NEW q \in Proc,
             \/ Query(q)
             \/ \E n \in Name : delKey(q, n) \/ isset(q, n)
             \/ \E n \in Name, v \in Value : set(q, n, v)
      PROVE  truth' = truth
  BY <1>5, CommandStep
<1>6. ASSUME NEW q \in Proc,
             \/ Open(q) \/ Lock(q) \/ Fill(q) \/ FillLast(q) \/ Rewind(q)
             \/ Unlock(q) \/ Fclose(q) \/ Kill(q)
             \/ \E t \in KdbFiles : Import(q, t)
      PROVE  truth' = truth
  BY <1>6 DEF Open, Lock, Fill, FillLast, Rewind, Unlock, Fclose, Kill, Import,
              Clear, aux
<1>. QED
  BY <1>2, <1>3, <1>4, <1>5, <1>6 DEF Next, Step

\* No run of kdb loses the changes of another: between its read and its write
\* nobody else changes the database (kdb.c 149-174, 266-309, 438-469), except
\* a create that truncates the file without the lock.
THEOREM KeepsUpdates == Spec => NoLostUpdate
<1>1. LockInv /\ [Next]_vars =>
        [\A p \in Proc :
            (pc[p] \in {"fill", "run"} /\ pc'[p] = pc[p]) => truth' = truth \/ tainted']_vars
  BY LostUpdateStep
<1>. QED  BY <1>1, InitLock, NextLock, PTL DEF Spec, NoLostUpdate

-----------------------------------------------------------------------------
(* Lines.                                                                  *)

Table == {t \in Seq(Record) : Len(t) <= MAX_LINES}

\* The kinds of lines tell them apart.
LEMMA LineKinds ==
    /\ Header \in Line /\ Footer \in Line /\ Bad \in Line
    /\ Header.kind = "hdr" /\ Footer.kind = "ftr"
    /\ \A r \in Record : Pair(r) \in Line /\ Pair(r).kind = "pair" /\ Pair(r).rec = r
    /\ \A l \in Line : l.kind = "pair" => l.rec \in Record
<1>1. Header.kind = "hdr" /\ Footer.kind = "ftr" /\ Bad.kind = "bad"
  BY DEF Header, Footer, Bad
<1>2. \A r \in Record : Pair(r).kind = "pair" /\ Pair(r).rec = r
  BY DEF Pair
<1>3. ASSUME NEW l \in Line, l.kind = "pair" PROVE l.rec \in Record
  <2>1. PICK r \in Record : l = Pair(r)
    BY <1>1, <1>3 DEF Line
  <2>. QED  BY <1>2, <2>1
<1>. QED  BY <1>1, <1>2, <1>3 DEF Line

\* What db_write makes of a table: a header, its records and a footer.
LEMMA ImageShape ==
    ASSUME NEW t \in Table
    PROVE  /\ Image(t) \in Seq(Line) /\ Len(t) \in Nat /\ Len(Image(t)) = Len(t) + 2
           /\ Image(t)[1] = Header /\ Image(t)[Len(t) + 2] = Footer
           /\ \A k \in 1 .. Len(t) : Image(t)[k + 1] = Pair(t[k])
<1>. DEFINE body == [k \in DOMAIN t |-> Pair(t[k])]
<1>1. t \in Seq(Record) /\ Len(t) \in Nat /\ DOMAIN t = 1 .. Len(t)
  BY LenProperties DEF Table
<1>2. \A k \in 1 .. Len(t) : Pair(t[k]) \in Line
  BY <1>1, ElementOfSeq, LineKinds
<1>3. body \in Seq(Line) /\ Len(body) = Len(t) /\ \A k \in 1 .. Len(t) : body[k] = Pair(t[k])
  BY <1>1, <1>2
<1>4. <<Header>> \in Seq(Line) /\ Len(<<Header>>) = 1 /\ <<Header>>[1] = Header
      /\ <<Footer>> \in Seq(Line) /\ Len(<<Footer>>) = 1 /\ <<Footer>>[1] = Footer
  BY LineKinds
<1>. HIDE DEF body
<1>5. /\ <<Header>> \o body \in Seq(Line) /\ Len(<<Header>> \o body) = Len(t) + 1
      /\ (<<Header>> \o body)[1] = Header
      /\ \A k \in 1 .. Len(t) : (<<Header>> \o body)[k + 1] = Pair(t[k])
  BY <1>1, <1>3, <1>4, ConcatProperties
<1>6. Image(t) = (<<Header>> \o body) \o <<Footer>>
  BY DEF Image, body
<1>. DEFINE front == <<Header>> \o body
<1>. HIDE DEF front
<1>7. Image(t) = front \o <<Footer>>
  BY <1>6 DEF front
<1>8. /\ front \in Seq(Line) /\ Len(front) = Len(t) + 1 /\ front[1] = Header
      /\ \A k \in 1 .. Len(t) : front[k + 1] = Pair(t[k])
  BY <1>5 DEF front
<1>9. /\ Image(t) \in Seq(Line) /\ Len(Image(t)) = Len(t) + 2
      /\ \A i \in 1 .. Len(t) + 2 :
            Image(t)[i] = IF i <= Len(t) + 1 THEN front[i] ELSE <<Footer>>[i - (Len(t) + 1)]
  BY <1>1, <1>4, <1>7, <1>8, ConcatProperties
<1>. QED  BY <1>1, <1>4, <1>8, <1>9

\* r is what db_read gives when its loop stops at line stop.
StopsAt(s, db, r, stop) ==
    /\ s[1].kind \in {"hdr", "ftr"}
    /\ stop > Len(s) \/ s[stop].kind # "pair" \/ stop - 1 > MAX_LINES - Len(db)
    /\ \A k \in 2 .. stop - 1 :
          k <= Len(s) /\ s[k].kind = "pair" /\ k - 1 <= MAX_LINES - Len(db)
    /\ r.ok = (stop > Len(s) \/ s[stop].kind = "ftr")
    /\ r.db = db \o [k \in 1 .. stop - 2 |-> s[k + 1].rec]
    /\ r.rest = SubSeq(s, stop + 1, Len(s))

\* The loop of db_read stops somewhere: Parse has a least stop.
LEMMA ParseStop ==
    ASSUME NEW s \in Seq(Line), s # << >>, NEW db \in Table, NEW r \in Parse(s, db)
    PROVE  \/ r.ok = FALSE /\ r.db = db /\ r.rest = Tail(s) /\ s[1].kind \notin {"hdr", "ftr"}
           \/ \E stop \in 2 .. Len(s) + 1 : StopsAt(s, db, r, stop)
<1>. DEFINE stops == {k \in 2 .. Len(s) + 1 :
                        \/ k > Len(s)
                        \/ s[k].kind # "pair"
                        \/ k - 1 > MAX_LINES - Len(db)}
            stop == CHOOSE k \in stops : \A j \in stops : k <= j
<1>1. Len(s) \in Nat /\ Len(s) >= 1
  BY EmptySeq
<1>2. stops \subseteq Nat /\ stops # {}
  <2>1. Len(s) + 1 \in stops
    BY <1>1
  <2>. QED  BY <1>1, <2>1
<1>3. stop \in stops /\ \A j \in stops : stop <= j
  <2>. HIDE DEF stops
  <2>. QED  BY <1>2, LeastNatural
<1>4. HeaderTest(s) = {s[1].kind \in {"hdr", "ftr"}}
  BY DEF HeaderTest
<1>5. r = IF ~(s[1].kind \in {"hdr", "ftr"}) THEN [ok |-> FALSE, db |-> db, rest |-> Tail(s)]
          ELSE [ok   |-> stop > Len(s) \/ s[stop].kind = "ftr",
                db   |-> db \o [k \in 1 .. stop - 2 |-> s[k + 1].rec],
                rest |-> SubSeq(s, stop + 1, Len(s))]
  BY <1>4 DEF Parse
<1>. HIDE DEF stop
<1>6. /\ stop \in 2 .. Len(s) + 1
      /\ stop > Len(s) \/ s[stop].kind # "pair" \/ stop - 1 > MAX_LINES - Len(db)
  BY <1>3
<1>7. ASSUME NEW k \in 2 .. stop - 1
      PROVE  k <= Len(s) /\ s[k].kind = "pair" /\ k - 1 <= MAX_LINES - Len(db)
  <2>1. k \notin stops /\ k \in 2 .. Len(s) + 1
    BY <1>1, <1>3, <1>6, <1>7
  <2>2. k \in Nat /\ MAX_LINES - Len(db) \in Int
    BY <1>1, <2>1, LenProperties, MaxLinesAssumption DEF Table
  <2>. QED  BY <1>1, <2>1, <2>2
<1>. QED  BY <1>5, <1>6, <1>7 DEF StopsAt

\* db_read of an empty file reads nothing; whether it says so is open.
LEMMA ParseEmpty ==
    ASSUME NEW db, NEW r \in Parse(<< >>, db)
    PROVE  r.db = db /\ r.rest = << >> /\ r.ok \in BOOLEAN
  BY DEF Parse, HeaderTest

\* db_read leaves a table that fits, whatever the lines.
LEMMA ParseTypes ==
    ASSUME NEW s \in Seq(Line), NEW db \in Table, NEW r \in Parse(s, db)
    PROVE  r.ok \in BOOLEAN /\ r.db \in Table /\ r.rest \in Seq(Line)
<1>1. /\ db \in Seq(Record) /\ Len(db) \in Nat /\ Len(db) <= MAX_LINES
      /\ Len(s) \in Nat /\ \A k \in 1 .. Len(s) : s[k] \in Line
  BY LenProperties, ElementOfSeq DEF Table
<1>2. CASE s = << >>
  BY <1>2, ParseEmpty
<1>3. CASE s # << >> /\ r.ok = FALSE /\ r.db = db /\ r.rest = Tail(s)
  BY <1>3, HeadTailProperties
<1>4. CASE \E stop \in 2 .. Len(s) + 1 : StopsAt(s, db, r, stop)
  <2>. PICK stop \in 2 .. Len(s) + 1 : StopsAt(s, db, r, stop)
    BY <1>4
  <2>1. /\ \A k \in 2 .. stop - 1 :
              k <= Len(s) /\ s[k].kind = "pair" /\ k - 1 <= MAX_LINES - Len(db)
        /\ r.ok = (stop > Len(s) \/ s[stop].kind = "ftr")
        /\ r.db = db \o [k \in 1 .. stop - 2 |-> s[k + 1].rec]
        /\ r.rest = SubSeq(s, stop + 1, Len(s))
    BY DEF StopsAt
  <2>. DEFINE new == [k \in 1 .. stop - 2 |-> s[k + 1].rec]
  <2>2. \A k \in 1 .. stop - 2 : s[k + 1].rec \in Record
    <3>. SUFFICES ASSUME NEW k \in 1 .. stop - 2 PROVE s[k + 1].rec \in Record
      OBVIOUS
    <3>1. k + 1 \in 2 .. stop - 1
      BY <1>1
    <3>2. k + 1 \in 1 .. Len(s) /\ s[k + 1].kind = "pair"
      BY <1>1, <2>1, <3>1
    <3>. QED  BY <1>1, <3>2, LineKinds
  <2>3. new \in Seq(Record) /\ Len(new) = stop - 2
    BY <1>1, <2>2
  <2>4. stop - 2 <= MAX_LINES - Len(db)
    <3>1. CASE stop = 2
      BY <1>1, <3>1, MaxLinesAssumption
    <3>2. CASE stop > 2
      <4>1. stop - 1 \in 2 .. stop - 1
        BY <3>2
      <4>2. (stop - 1) - 1 <= MAX_LINES - Len(db)
        BY <2>1, <4>1
      <4>. QED  BY <4>2
    <3>. QED  BY <1>1, <3>1, <3>2
  <2>5. r.db \in Seq(Record) /\ Len(r.db) = Len(db) + (stop - 2)
    <3>. HIDE DEF new
    <3>1. r.db = db \o new
      BY <2>1 DEF new
    <3>. QED  BY <1>1, <2>3, <3>1, ConcatProperties
  <2>6. r.db \in Table
    BY <1>1, <2>4, <2>5, MaxLinesAssumption DEF Table
  <2>7. r.rest \in Seq(Line)
    <3>1. \A k \in stop + 1 .. Len(s) : s[k] \in Line
      BY <1>1
    <3>2. stop + 1 \in Int /\ Len(s) \in Int
      BY <1>1
    <3>. QED  BY <2>1, <3>1, <3>2, SubSeqProperties
  <2>8. r.ok \in BOOLEAN
    BY <2>1
  <2>. QED  BY <2>6, <2>7, <2>8
<1>5. s # << >> => \/ r.ok = FALSE /\ r.db = db /\ r.rest = Tail(s)
                   \/ \E stop \in 2 .. Len(s) + 1 : StopsAt(s, db, r, stop)
  BY ParseStop
<1>. QED  BY <1>2, <1>3, <1>4, <1>5

\* db_read of what db_write has written gives the table back.
LEMMA ParseImage ==
    ASSUME NEW t \in Table, NEW r \in Parse(Image(t), EmptyTable)
    PROVE  r.ok /\ r.db = t /\ r.rest = << >>
<1>. DEFINE s == Image(t)
<1>1. /\ s \in Seq(Line) /\ Len(t) \in Nat /\ Len(s) = Len(t) + 2
      /\ s[1] = Header /\ s[Len(t) + 2] = Footer
      /\ \A k \in 1 .. Len(t) : s[k + 1] = Pair(t[k])
  BY ImageShape
<1>2. t \in Seq(Record) /\ Len(t) <= MAX_LINES /\ \A k \in 1 .. Len(t) : t[k] \in Record
  BY ElementOfSeq DEF Table
<1>. HIDE DEF s
<1>3. EmptyTable \in Table /\ Len(EmptyTable) = 0 /\ EmptyTable \in Seq(Record)
  BY MaxLinesAssumption DEF EmptyTable, Table
<1>4. s # << >>
  BY <1>1, EmptySeq
<1>. PICK stop \in 2 .. Len(s) + 1 : StopsAt(s, EmptyTable, r, stop)
  <2>1. s[1].kind \in {"hdr", "ftr"} /\ r \in Parse(s, EmptyTable)
    BY <1>1, LineKinds DEF s
  <2>. QED  BY <1>1, <1>3, <1>4, <2>1, ParseStop
<1>5. /\ stop > Len(s) \/ s[stop].kind # "pair" \/ stop - 1 > MAX_LINES - Len(EmptyTable)
      /\ \A k \in 2 .. stop - 1 : s[k].kind = "pair"
      /\ r.ok = (stop > Len(s) \/ s[stop].kind = "ftr")
      /\ r.db = EmptyTable \o [k \in 1 .. stop - 2 |-> s[k + 1].rec]
      /\ r.rest = SubSeq(s, stop + 1, Len(s))
  BY DEF StopsAt
<1>6. \A k \in 1 .. Len(t) : s[k + 1].kind = "pair" /\ s[k + 1].rec = t[k]
  BY <1>1, <1>2, LineKinds
<1>7. stop >= Len(t) + 2
  <2>. SUFFICES ASSUME stop < Len(t) + 2 PROVE FALSE
    BY <1>1
  <2>1. stop - 1 \in 1 .. Len(t)
    BY <1>1
  <2>2. s[stop].kind = "pair"
    <3>1. s[(stop - 1) + 1].kind = "pair"
      BY <1>6, <2>1
    <3>. QED  BY <3>1
  <2>. QED  BY <1>1, <1>2, <1>3, <1>5, <2>1, <2>2, MaxLinesAssumption
<1>8. stop = Len(t) + 2
  <2>. SUFFICES ASSUME stop # Len(t) + 2 PROVE FALSE
    OBVIOUS
  <2>1. Len(t) + 2 \in 2 .. stop - 1
    BY <1>1, <1>7
  <2>2. s[Len(t) + 2].kind = "pair"
    BY <1>5, <2>1
  <2>. QED  BY <1>1, <2>2, LineKinds
<1>9. r.ok
  BY <1>1, <1>5, <1>8, LineKinds
<1>10. r.db = t
  <2>1. [k \in 1 .. stop - 2 |-> s[k + 1].rec] = t
    <3>1. stop - 2 = Len(t)
      BY <1>1, <1>8
    <3>2. t = [k \in 1 .. Len(t) |-> t[k]]
      BY <1>2
    <3>. QED  BY <1>6, <3>1, <3>2
  <2>. QED  BY <1>2, <1>5, <2>1, ConcatEmptySeq DEF EmptyTable
<1>11. r.rest = << >>
  BY <1>1, <1>5, <1>8, SubSeqEmpty
<1>. QED  BY <1>9, <1>10, <1>11

\* A table written by db_write, some lines at once and the others later, is
\* there when the others are.
LEMMA OverlayTypes ==
    ASSUME NEW f \in Seq(Line), NEW o \in Nat, NEW w \in Seq(Line)
    PROVE  Overlay(f, o, w) \in Seq(Line)
<1>1. /\ Len(f) \in Nat /\ \A i \in 1 .. Len(f) : f[i] \in Line
      /\ Len(w) \in Nat /\ \A i \in 1 .. Len(w) : w[i] \in Line
  BY LenProperties, ElementOfSeq
<1>2. CASE w = << >>
  BY <1>2 DEF Overlay
<1>3. CASE w # << >>
  <2>. DEFINE n == IF Len(f) > o + Len(w) THEN Len(f) ELSE o + Len(w)
              At(i) == IF i > o /\ i <= o + Len(w) THEN w[i - o]
                       ELSE IF i <= Len(f) THEN f[i] ELSE Bad
  <2>1. Overlay(f, o, w) = [i \in 1 .. n |-> At(i)]
    BY <1>3 DEF Overlay
  <2>2. n \in Nat
    BY <1>1
  <2>3. \A i \in 1 .. n : At(i) \in Line
    BY <1>1, <2>2, LineKinds
  <2>. HIDE DEF n, At
  <2>. QED  BY <2>1, <2>2, <2>3
<1>. QED  BY <1>2, <1>3

LEMMA OverlayBack ==
    ASSUME NEW s \in Seq(Line), NEW k \in 0 .. Len(s)
    PROVE  /\ SubSeq(s, 1, k) \in Seq(Line) /\ SubSeq(s, k + 1, Len(s)) \in Seq(Line)
           /\ Overlay(SubSeq(s, 1, k), k, SubSeq(s, k + 1, Len(s))) = s
           /\ SubSeq(s, k + 1, Len(s)) = << >> => SubSeq(s, 1, k) = s
<1>. DEFINE f == SubSeq(s, 1, k)
            w == SubSeq(s, k + 1, Len(s))
<1>1. Len(s) \in Nat /\ k \in Nat /\ k <= Len(s) /\ \A i \in 1 .. Len(s) : s[i] \in Line
  BY LenProperties, ElementOfSeq
<1>2. f \in Seq(Line) /\ Len(f) = k /\ \A i \in 1 .. k : f[i] = s[i]
  <2>1. \A i \in 1 .. k : s[i] \in Line
    BY <1>1
  <2>2. /\ f \in Seq(Line) /\ Len(f) = IF 1 <= k THEN k - 1 + 1 ELSE 0
        /\ \A i \in 1 .. k - 1 + 1 : f[i] = s[1 + i - 1]
    BY <1>1, <2>1, SubSeqProperties
  <2>. HIDE DEF f
  <2>. QED  BY <1>1, <2>2
<1>3. w \in Seq(Line) /\ Len(w) = Len(s) - k /\ \A i \in 1 .. Len(s) - k : w[i] = s[k + i]
  <2>1. \A i \in k + 1 .. Len(s) : s[i] \in Line
    BY <1>1
  <2>2. /\ w \in Seq(Line)
        /\ Len(w) = IF k + 1 <= Len(s) THEN Len(s) - (k + 1) + 1 ELSE 0
        /\ \A i \in 1 .. Len(s) - (k + 1) + 1 : w[i] = s[k + 1 + i - 1]
    BY <1>1, <2>1, SubSeqProperties
  <2>. HIDE DEF w
  <2>. QED  BY <1>1, <2>2
<1>4. w = << >> => f = s
  <2>. SUFFICES ASSUME w = << >> PROVE f = s
    OBVIOUS
  <2>1. Len(w) = 0
    BY EmptySeq
  <2>2. k = Len(s)
    BY <1>1, <1>3, <2>1
  <2>. QED  BY <1>1, <2>2, SubSeqFull
<1>5. CASE w = << >>
  BY <1>2, <1>3, <1>4, <1>5 DEF Overlay
<1>6. CASE w # << >>
  <2>. HIDE DEF f, w
  <2>1. Overlay(f, k, w) = [i \in 1 .. Len(s) |->
                IF i > k /\ i <= Len(s) THEN w[i - k]
                ELSE IF i <= k THEN f[i] ELSE Bad]
    <3>1. ~(Len(f) > k + Len(w)) /\ k + Len(w) = Len(s) /\ Len(f) = k
      BY <1>1, <1>2, <1>3
    <3>. QED  BY <1>6, <3>1 DEF Overlay
  <2>2. \A i \in 1 .. Len(s) : (IF i > k /\ i <= Len(s) THEN w[i - k]
                ELSE IF i <= k THEN f[i] ELSE Bad) = s[i]
    <3>. SUFFICES ASSUME NEW i \in 1 .. Len(s)
                  PROVE  (IF i > k /\ i <= Len(s) THEN w[i - k]
                          ELSE IF i <= k THEN f[i] ELSE Bad) = s[i]
      OBVIOUS
    <3>1. CASE i > k
      <4>1. i - k \in 1 .. Len(s) - k /\ k + (i - k) = i
        BY <1>1, <3>1
      <4>. QED  BY <1>1, <1>3, <3>1, <4>1
    <3>2. CASE i <= k
      BY <1>1, <1>2, <3>2
    <3>. QED  BY <1>1, <3>1, <3>2
  <2>3. s = [i \in 1 .. Len(s) |-> s[i]]
    OBVIOUS
  <2>. QED  BY <1>2, <1>3, <1>4, <2>1, <2>2, <2>3 DEF f, w
<1>. QED  BY <1>5, <1>6

\* read(2) goes on where it stopped.
LEMMA Prefix ==
    ASSUME NEW s \in Seq(Line), NEW r \in Seq(Line), Len(r) <= Len(s),
           r = SubSeq(s, 1, Len(r)), NEW n \in Len(r) .. Len(s)
    PROVE  r \o SubSeq(s, Len(r) + 1, n) = SubSeq(s, 1, n)
<1>1. Len(r) \in Nat /\ Len(s) \in Nat
  BY LenProperties
<1>2. PICK m \in Nat : m = Len(r)
  BY <1>1
<1>3. 1 \in 1 .. Len(s) + 1 /\ m \in 1 - 1 .. Len(s) /\ n \in m .. Len(s)
  BY <1>1, <1>2
<1>4. SubSeq(s, 1, m) \o SubSeq(s, m + 1, n) = SubSeq(s, 1, n)
  BY <1>3, ConcatAdjacentSubSeq
<1>. QED  BY <1>2, <1>4

-----------------------------------------------------------------------------
(* The inductive invariant of serialisability.                             *)

\* The state of the runs and of the auxiliary tables.
StateTypes ==
    /\ file \in Seq(Line) /\ lock \in Proc \cup {NoProc}
    /\ db_lines \in [Proc -> Table] /\ shadow \in [Proc -> Table]
    /\ rest \in [Proc -> Seq(Line)] /\ wbuf \in [Proc -> Seq(Line)]
    /\ db_already_readed \in [Proc -> BOOLEAN] /\ need_write \in [Proc -> BOOLEAN]
    /\ off \in [Proc -> Nat] /\ ncmd \in [Proc -> 0 .. MaxCmds]
    /\ truth \in Table /\ tainted \in BOOLEAN

\* The lock has an owner only between flock(LOCK_EX) and flock(LOCK_UN).
OwnerInside == \A p \in Proc : lock = p => pc[p] \in Locked

\* The tables that ought to be never name a key twice.
ShouldBeUnique == UniqueIn(truth) /\ \A p \in Proc : UniqueIn(shadow[p])

\* What a run has before it reads.
Starting(p) ==
    /\ pc[p] \in {"idle", "wait", "fill"} =>
          /\ rest[p] = << >> \/ pc[p] = "fill"
          /\ wbuf[p] = << >>
          /\ ~db_already_readed[p] => db_lines[p] = EmptyTable
    /\ pc[p] \in {"idle", "fill"} => ~db_already_readed[p] /\ ~need_write[p]
    /\ pc[p] = "wait" =>
          /\ db_already_readed[p] => ~need_write[p] /\ UniqueIn(db_lines[p])
          /\ need_write[p] => ncmd[p] = MaxCmds
    /\ pc[p] = "import" =>
          /\ db_already_readed[p] /\ wbuf[p] = << >>
          /\ UniqueIn(db_lines[p]) /\ shadow[p] = db_lines[p]

\* Only one run has lines in its buffer, and no other has the lock.
OneBuffer ==
    \A p, q \in Proc : p # q /\ wbuf[p] # << >> => wbuf[q] = << >> /\ lock # q

\* f is what db_write makes of truth, or is empty as create leaves it.
Stands(f) ==
    \/ f = << >> /\ truth = EmptyTable
    \/ \E t \in Table : UniqueIn(t) /\ Records(t) = Records(truth) /\ f = Image(t)

\* The file stands for truth, or will when the buffer has been written.
FileStands ==
    /\ Quiet => Stands(file)
    /\ \A p \in Proc : wbuf[p] # << >> => Stands(Overlay(file, off[p], wbuf[p]))

\* What a run with the lock has read and changed.
Reading(p) ==
    /\ pc[p] = "fill" =>
          shadow[p] = truth /\ Len(rest[p]) <= Len(file) /\ rest[p] = SubSeq(file, 1, Len(rest[p]))
    /\ pc[p] = "run" /\ ~db_already_readed[p] =>
          /\ db_lines[p] = EmptyTable
          /\ need_write[p] => ncmd[p] = MaxCmds /\ shadow[p] = EmptyTable
          /\ ~need_write[p] => rest[p] = file /\ wbuf[p] = << >>
    /\ pc[p] = "run" /\ ~need_write[p] => Records(shadow[p]) = Records(truth)
    /\ pc[p] \in {"import", "run", "close"} /\ db_already_readed[p] =>
          UniqueIn(db_lines[p]) /\ Records(db_lines[p]) = Records(shadow[p])

IInv ==
    /\ LockInv /\ StateTypes /\ OwnerInside /\ ShouldBeUnique
    /\ \A p \in Proc : Starting(p)
    /\ ~tainted => OneBuffer /\ FileStands /\ \A p \in Proc : Reading(p)

-----------------------------------------------------------------------------
(* Every step keeps it.                                                    *)

\* Tables.
LEMMA TableMeans ==
    /\ \A t : t \in Table <=> IsTable(t)
    /\ EmptyTable \in Table /\ UniqueIn(EmptyTable) /\ Records(EmptyTable) = {}
  BY MaxLinesAssumption DEF Table, IsTable, EmptyTable, UniqueIn, Records

\* Of a step of p the others notice the lock, the file and truth only.
Elsewhere(p) ==
    \A q \in Proc \ {p} :
        /\ pc'[q] = pc[q] /\ rest'[q] = rest[q] /\ wbuf'[q] = wbuf[q] /\ off'[q] = off[q]
        /\ db_lines'[q] = db_lines[q] /\ db_already_readed'[q] = db_already_readed[q]
        /\ need_write'[q] = need_write[q] /\ ncmd'[q] = ncmd[q] /\ shadow'[q] = shadow[q]

\* A step of p keeps the invariant if it keeps p's part of it and if it leaves
\* file and truth alone while another has the lock.
LEMMA StepOf ==
    ASSUME NEW p \in Proc, IInv, StateTypes', LockInv', OwnerInside', Elsewhere(p),
           UniqueIn(truth'), UniqueIn(shadow'[p]), Starting(p)',
           ~tainted' => /\ ~tainted /\ OneBuffer' /\ FileStands' /\ Reading(p)'
                        /\ lock \in Proc \ {p} => file' = file /\ truth' = truth
    PROVE  IInv'
<1>1. ShouldBeUnique'
  BY DEF ShouldBeUnique, IInv, Elsewhere
<1>2. ASSUME NEW q \in Proc, q # p
      PROVE  Starting(q)' /\ (~tainted' => Reading(q)')
  <2>1. /\ pc'[q] = pc[q] /\ rest'[q] = rest[q] /\ wbuf'[q] = wbuf[q]
        /\ db_lines'[q] = db_lines[q] /\ db_already_readed'[q] = db_already_readed[q]
        /\ need_write'[q] = need_write[q] /\ ncmd'[q] = ncmd[q] /\ shadow'[q] = shadow[q]
    BY <1>2 DEF Elsewhere
  <2>2. Starting(q)'
    BY <2>1 DEF Starting, IInv
  <2>3. ASSUME ~tainted' PROVE Reading(q)'
    <3>1. Reading(q) /\ (pc[q] \in Locked => lock = q)
      BY <2>3 DEF IInv, LockInv
    <3>2. pc[q] \in Locked => file' = file /\ truth' = truth
      BY <1>2, <2>3, <3>1
    <3>. QED  BY <2>1, <3>1, <3>2 DEF Reading, Locked
  <2>. QED  BY <2>2, <2>3
<1>. QED  BY <1>1, <1>2 DEF IInv

\* Buffers and file stay good if nothing happens to them and the lock is not
\* taken.
LEMMA FilesStay ==
    ASSUME OneBuffer, FileStands, UNCHANGED <<file, wbuf, off, truth>>,
           lock' = lock \/ lock' = NoProc
    PROVE  OneBuffer' /\ FileStands'
<1>1. OneBuffer'
  BY ProcAssumption DEF OneBuffer
<1>2. FileStands'
  BY DEF FileStands, Quiet, Stands
<1>. QED  BY <1>1, <1>2

\* A run begins: db_open, or the reading of another file for import.
LEMMA OpenKeeps ==
    ASSUME NEW p \in Proc, IInv, LockInv', Open(p) \/ \E t \in KdbFiles : Import(p, t)
    PROVE  IInv'
<1>1. /\ pc[p] = "idle" /\ pc' = [pc EXCEPT ![p] = "wait"]
      /\ UNCHANGED <<file, lock, rest, wbuf, off, need_write, ncmd, truth, shadow, tainted>>
  BY DEF Open, Import, Go, io, mem, aux
<1>2. \/ UNCHANGED <<db_lines, db_already_readed>>
      \/ \E t \in KdbFiles :
            /\ db_lines' = [db_lines EXCEPT ![p] = t]
            /\ db_already_readed' = [db_already_readed EXCEPT ![p] = TRUE]
  BY DEF Open, Import, mem
<1>3. \A t \in KdbFiles : t \in Table /\ UniqueIn(t)
  BY KdbFilesAssumption, TableMeans
<1>4. StateTypes'
  BY <1>1, <1>2, <1>3 DEF IInv, StateTypes
<1>5. Elsewhere(p)
  BY <1>1, <1>2 DEF Elsewhere, IInv, StateTypes, LockInv
<1>6. OwnerInside'
  <2>1. lock # p
    BY <1>1 DEF IInv, OwnerInside, Locked
  <2>. QED  BY <1>1, <2>1 DEF IInv, OwnerInside, LockInv
<1>7. pc'[p] = "wait"
  BY <1>1 DEF IInv, LockInv
<1>8. Starting(p)'
  <2>1. /\ rest'[p] = << >> /\ wbuf'[p] = << >> /\ ~need_write'[p]
        /\ ~db_already_readed[p] /\ db_lines[p] = EmptyTable
    BY <1>1 DEF IInv, Starting
  <2>2. /\ ~db_already_readed'[p] => db_lines'[p] = EmptyTable
        /\ db_already_readed'[p] => UniqueIn(db_lines'[p])
    BY <1>2, <1>3, <2>1 DEF IInv, StateTypes
  <2>. QED  BY <1>7, <2>1, <2>2 DEF Starting
<1>9. ~tainted' => ~tainted /\ OneBuffer' /\ FileStands' /\ Reading(p)'
  BY <1>1, <1>7, FilesStay DEF IInv, Reading
<1>. QED  BY <1>1, <1>4, <1>5, <1>6, <1>8, <1>9, StepOf DEF IInv, ShouldBeUnique

\* create: the file is empty, and so is what it should hold; but nobody may be
\* at work.
LEMMA CreateKeeps ==
    ASSUME NEW p \in Proc, IInv, LockInv', Create(p)
    PROVE  IInv'
<1>1. /\ pc[p] = "idle" /\ pc' = [pc EXCEPT ![p] = "wait"]
      /\ file' = << >> /\ truth' = EmptyTable
      /\ tainted' = (tainted \/ lock # NoProc \/ Unflushed(p))
      /\ need_write' = [need_write EXCEPT ![p] = TRUE]
      /\ ncmd' = [ncmd EXCEPT ![p] = MaxCmds]
      /\ UNCHANGED <<lock, rest, wbuf, off, db_lines, db_already_readed, shadow>>
  BY DEF Create, Go
<1>2. StateTypes'
  <2>1. tainted' \in BOOLEAN
    BY <1>1
  <2>2. MaxCmds \in 0 .. MaxCmds
    BY MaxCmdsAssumption
  <2>. QED  BY <1>1, <2>1, <2>2, TableMeans DEF IInv, StateTypes
<1>3. Elsewhere(p)
  BY <1>1 DEF Elsewhere, IInv, StateTypes, LockInv
<1>4. OwnerInside'
  <2>1. lock # p
    BY <1>1 DEF IInv, OwnerInside, Locked
  <2>. QED  BY <1>1, <2>1 DEF IInv, OwnerInside, LockInv
<1>5. pc'[p] = "wait" /\ need_write'[p] /\ ncmd'[p] = MaxCmds
  BY <1>1 DEF IInv, LockInv, StateTypes
<1>6. /\ rest[p] = << >> /\ wbuf[p] = << >>
      /\ ~db_already_readed[p] /\ db_lines[p] = EmptyTable
  BY <1>1 DEF IInv, Starting
<1>7. Starting(p)'
  BY <1>1, <1>5, <1>6 DEF Starting
<1>8. ASSUME ~tainted'
      PROVE  ~tainted /\ lock = NoProc /\ OneBuffer' /\ FileStands' /\ Reading(p)'
  <2>1. ~tainted /\ lock = NoProc /\ \A q \in Proc : wbuf'[q] = << >>
    BY <1>1, <1>6, <1>8 DEF Unflushed
  <2>. QED  BY <1>1, <1>5, <2>1 DEF OneBuffer, FileStands, Stands, Reading
<1>. QED  BY <1>1, <1>2, <1>3, <1>4, <1>7, <1>8, StepOf, TableMeans, ProcAssumption
             DEF IInv, ShouldBeUnique

\* flock(LOCK_EX) returns: the run begins with what the file should hold.
LEMMA LockKeeps ==
    ASSUME NEW p \in Proc, IInv, LockInv', Lock(p)
    PROVE  IInv'
<1>1. /\ lock = NoProc /\ lock' = p /\ pc[p] = "wait"
      /\ pc' = [pc EXCEPT ![p] = IF db_already_readed[p] THEN "import"
                                 ELSE IF need_write[p] THEN "run" ELSE "fill"]
      /\ tainted' = (tainted \/ Unflushed(p))
      /\ shadow' = [shadow EXCEPT ![p] =
                      IF db_already_readed[p] \/ need_write[p] THEN db_lines[p]
                      ELSE truth]
      /\ UNCHANGED <<file, rest, wbuf, off, db_lines, db_already_readed, need_write,
                     ncmd, truth>>
  BY DEF Lock, Go, mem
<1>2. /\ rest[p] = << >> /\ wbuf[p] = << >>
      /\ ~db_already_readed[p] => db_lines[p] = EmptyTable
      /\ db_already_readed[p] => ~need_write[p] /\ UniqueIn(db_lines[p])
      /\ need_write[p] => ncmd[p] = MaxCmds
  BY <1>1 DEF IInv, Starting
<1>3. /\ pc'[p] = IF db_already_readed[p] THEN "import"
                  ELSE IF need_write[p] THEN "run" ELSE "fill"
      /\ shadow'[p] = IF db_already_readed[p] \/ need_write[p] THEN db_lines[p] ELSE truth
      /\ shadow' \in [Proc -> Table]
  BY <1>1 DEF IInv, LockInv, StateTypes
<1>4. StateTypes'
  <2>1. tainted' \in BOOLEAN
    BY <1>1
  <2>. QED  BY <1>1, <1>3, <2>1 DEF IInv, StateTypes
<1>5. Elsewhere(p)
  BY <1>1 DEF Elsewhere, IInv, StateTypes, LockInv
<1>6. OwnerInside'
  BY <1>1, <1>3 DEF OwnerInside, Locked
<1>7. UniqueIn(shadow'[p])
  BY <1>2, <1>3, TableMeans DEF IInv, ShouldBeUnique
<1>8. Starting(p)'
  BY <1>1, <1>2, <1>3 DEF Starting
<1>9. ASSUME ~tainted'
      PROVE  ~tainted /\ OneBuffer' /\ FileStands' /\ Reading(p)'
  <2>1. ~tainted /\ \A q \in Proc : wbuf[q] = << >>
    BY <1>1, <1>2, <1>9 DEF Unflushed
  <2>2. OneBuffer' /\ FileStands'
    BY <1>1, <2>1 DEF IInv, OneBuffer, FileStands, Quiet, Stands
  <2>3. rest[p] = SubSeq(file, 1, Len(rest[p])) /\ Len(rest[p]) = 0 /\ 0 <= Len(file)
    BY <1>2, SubSeqEmpty, LenProperties, EmptySeq DEF IInv, StateTypes
  <2>4. Reading(p)'
    BY <1>1, <1>2, <1>3, <2>3 DEF Reading
  <2>. QED  BY <2>1, <2>2, <2>4
<1>. QED  BY <1>1, <1>4, <1>5, <1>6, <1>7, <1>8, <1>9, StepOf, ProcAssumption
             DEF IInv, ShouldBeUnique

\* read(2): the lines read are the first of the file.
LEMMA FillKeeps ==
    ASSUME NEW p \in Proc, IInv, LockInv', Fill(p) \/ FillLast(p)
    PROVE  IInv'
<1>1. /\ pc[p] = "fill" /\ (pc' = pc \/ pc' = [pc EXCEPT ![p] = "run"])
      /\ UNCHANGED <<file, lock, wbuf, off, db_lines, db_already_readed, need_write, ncmd,
                     truth, shadow, tainted>>
  BY DEF Fill, FillLast, Go, mem, aux
<1>2. /\ Len(rest[p]) \in Nat /\ Len(file) \in Nat
      /\ file \in Seq(Line) /\ rest[p] \in Seq(Line) /\ \A i \in 1 .. Len(file) : file[i] \in Line
  BY LenProperties, ElementOfSeq DEF IInv, StateTypes
<1>3. PICK n \in Nat :
          /\ rest' = [rest EXCEPT ![p] = @ \o SubSeq(file, Len(@) + 1, n)]
          /\ n <= Len(file) /\ (n < Len(rest[p]) => n = Len(file))
          /\ pc'[p] = "run" => n = Len(file)
          /\ pc'[p] \in {"run", "fill"}
  <2>1. CASE Fill(p)
    <3>1. PICK n \in Len(rest[p]) + 1 .. Len(file) - 1 :
             rest' = [rest EXCEPT ![p] = @ \o SubSeq(file, Len(@) + 1, n)]
      BY <2>1 DEF Fill
    <3>2. pc' = pc
      BY <2>1 DEF Fill
    <3>3. n \in Nat /\ n <= Len(file) /\ ~(n < Len(rest[p]))
      BY <1>2, <3>1
    <3>. QED  BY <1>1, <3>1, <3>2, <3>3
  <2>2. CASE FillLast(p)
    <3>1. rest' = [rest EXCEPT ![p] = @ \o SubSeq(file, Len(@) + 1, Len(file))]
          /\ pc'[p] = "run"
      BY <2>2 DEF FillLast, Go, IInv, LockInv
    <3>2. Len(file) \in Nat /\ Len(file) <= Len(file)
      BY <1>2
    <3>. QED  BY <3>1, <3>2
  <2>. QED  BY <2>1, <2>2
<1>4. rest[p] \o SubSeq(file, Len(rest[p]) + 1, n) \in Seq(Line)
  <2>1. \A i \in Len(rest[p]) + 1 .. n : file[i] \in Line
    BY <1>2, <1>3
  <2>2. SubSeq(file, Len(rest[p]) + 1, n) \in Seq(Line)
    BY <1>2, <2>1, SubSeqProperties
  <2>. QED  BY <1>2, <2>2, ConcatProperties
<1>5. rest'[p] = rest[p] \o SubSeq(file, Len(rest[p]) + 1, n) /\ rest' \in [Proc -> Seq(Line)]
  BY <1>3, <1>4 DEF IInv, StateTypes
<1>6. StateTypes'
  BY <1>1, <1>5 DEF IInv, StateTypes
<1>7. Elsewhere(p)
  BY <1>1, <1>3 DEF Elsewhere, IInv, StateTypes, LockInv
<1>8. OwnerInside'
  BY <1>1, <1>3 DEF IInv, OwnerInside, LockInv, Locked
<1>9. Starting(p)'
  BY <1>1, <1>3 DEF IInv, Starting
<1>10. ASSUME ~tainted'
       PROVE  ~tainted /\ OneBuffer' /\ FileStands' /\ Reading(p)'
  <2>1. ~tainted /\ OneBuffer' /\ FileStands'
    BY <1>1, <1>10, FilesStay DEF IInv
  <2>2. /\ shadow[p] = truth /\ Len(rest[p]) <= Len(file)
        /\ rest[p] = SubSeq(file, 1, Len(rest[p]))
        /\ ~db_already_readed[p] /\ ~need_write[p] /\ db_lines[p] = EmptyTable
        /\ wbuf[p] = << >>
    BY <1>1, <2>1 DEF IInv, Reading, Starting
  <2>3. n \in Len(rest[p]) .. Len(file)
    BY <1>2, <1>3, <2>2
  <2>4. rest'[p] = SubSeq(file, 1, n)
    BY <1>2, <1>5, <2>2, <2>3, Prefix
  <2>5. Len(rest'[p]) = n
    <3>1. \A i \in 1 .. n : file[i] \in Line
      BY <1>2, <1>3
    <3>2. Len(SubSeq(file, 1, n)) = IF 1 <= n THEN n - 1 + 1 ELSE 0
      BY <3>1, SubSeqProperties
    <3>. QED  BY <2>4, <3>2
  <2>6. pc'[p] = "run" => rest'[p] = file
    BY <1>2, <1>3, <2>4, SubSeqFull
  <2>7. Reading(p)'
    BY <1>1, <1>3, <2>2, <2>4, <2>5, <2>6 DEF Reading
  <2>. QED  BY <2>1, <2>7
<1>. QED  BY <1>1, <1>6, <1>7, <1>8, <1>9, <1>10, StepOf DEF IInv, ShouldBeUnique

-----------------------------------------------------------------------------
(* Commands.                                                               *)

\* What a run that may still execute a command has read.
LEMMA ReadOutcome ==
    ASSUME NEW p \in Proc, IInv, pc[p] = "run", ncmd[p] < MaxCmds, NEW r \in db_read(p)
    PROVE  /\ r.ok \in BOOLEAN /\ r.db \in Table /\ r.rest \in Seq(Line)
           /\ ~tainted /\ r.ok => UniqueIn(r.db) /\ Records(r.db) = Records(shadow[p])
           /\ ~tainted /\ ~r.ok =>
                 /\ file = << >> /\ r.db = EmptyTable /\ r.rest = << >>
                 /\ ~need_write[p] /\ wbuf[p] = << >> /\ shadow[p] = EmptyTable
                 /\ truth = EmptyTable
<1>1. /\ db_lines[p] \in Table /\ rest[p] \in Seq(Line)
      /\ shadow[p] \in Table /\ truth \in Table
  BY DEF IInv, StateTypes
<1>2. CASE db_already_readed[p]
  <2>1. r = [ok |-> TRUE, db |-> db_lines[p], rest |-> rest[p]]
    BY <1>2 DEF db_read
  <2>2. r.ok = TRUE /\ r.db = db_lines[p] /\ r.rest = rest[p]
    BY <2>1
  <2>3. ~tainted => UniqueIn(db_lines[p]) /\ Records(db_lines[p]) = Records(shadow[p])
    BY <1>2 DEF IInv, Reading
  <2>. QED  BY <1>1, <2>2, <2>3
<1>3. CASE ~db_already_readed[p]
  <2>1. r \in Parse(rest[p], db_lines[p])
    BY <1>3 DEF db_read
  <2>2. r.ok \in BOOLEAN /\ r.db \in Table /\ r.rest \in Seq(Line)
    BY <1>1, <2>1, ParseTypes
  <2>3. ASSUME ~tainted
        PROVE  /\ r.ok => UniqueIn(r.db) /\ Records(r.db) = Records(shadow[p])
               /\ ~r.ok => /\ file = << >> /\ r.db = EmptyTable /\ r.rest = << >>
                           /\ ~need_write[p] /\ wbuf[p] = << >> /\ shadow[p] = EmptyTable
                           /\ truth = EmptyTable
    <3>1. /\ db_lines[p] = EmptyTable /\ ~need_write[p] /\ rest[p] = file
          /\ wbuf[p] = << >> /\ Records(shadow[p]) = Records(truth)
      <4>1. ncmd[p] # MaxCmds
        BY MaxCmdsAssumption DEF IInv, StateTypes
      <4>. QED  BY <1>3, <2>3, <4>1 DEF IInv, Reading
    <3>2. Quiet
      <4>1. lock = p
        BY DEF IInv, LockInv, Locked
      <4>. QED  BY <2>3, <3>1, <4>1 DEF IInv, OneBuffer, Quiet
    <3>3. Stands(file)
      BY <2>3, <3>2 DEF IInv, FileStands
    <3>4. CASE file = << >> /\ truth = EmptyTable
      <4>1. r.db = EmptyTable /\ r.rest = << >>
        BY <2>1, <3>1, <3>4, ParseEmpty
      <4>2. shadow[p] = EmptyTable
        BY <1>1, <3>1, <3>4, NoRecords, TableMeans
      <4>. QED  BY <3>1, <3>4, <4>1, <4>2, TableMeans
    <3>5. CASE \E t \in Table : UniqueIn(t) /\ Records(t) = Records(truth) /\ file = Image(t)
      <4>1. PICK t \in Table : UniqueIn(t) /\ Records(t) = Records(truth) /\ file = Image(t)
        BY <3>5
      <4>2. r.ok /\ r.db = t
        BY <2>1, <3>1, <4>1, ParseImage
      <4>. QED  BY <3>1, <4>1, <4>2
    <3>. QED  BY <3>3, <3>4, <3>5 DEF Stands
  <2>. QED  BY <2>2, <2>3
<1>. QED  BY <1>2, <1>3

\* A command that returns true keeps the invariant if its table goes on to be
\* the one it should be.
LEMMA DoneKeeps ==
    ASSUME NEW p \in Proc, IInv, LockInv', NEW r, NEW db \in Table, NEW sh \in Table,
           NEW dirty \in BOOLEAN, Done(p, r, db, sh, dirty),
           r.ok \in BOOLEAN, r.rest \in Seq(Line), UniqueIn(sh),
           ~tainted =>
              \/ /\ r.ok /\ UniqueIn(db) /\ Records(db) = Records(sh)
                 /\ ~dirty => Records(sh) = Records(shadow[p])
              \/ /\ ~r.ok /\ ~dirty /\ ~need_write[p] /\ wbuf[p] = << >>
                 /\ db = EmptyTable /\ r.rest = file
                 /\ Records(sh) = Records(shadow[p])
    PROVE  IInv'
<1>1. /\ pc[p] = "run" /\ ncmd[p] < MaxCmds
      /\ ncmd' = [ncmd EXCEPT ![p] = @ + 1]
      /\ db_already_readed' = [db_already_readed EXCEPT ![p] = r.ok]
      /\ rest' = [rest EXCEPT ![p] = r.rest]
      /\ db_lines' = [db_lines EXCEPT ![p] = db]
      /\ shadow' = [shadow EXCEPT ![p] = sh]
      /\ need_write' = [need_write EXCEPT ![p] = @ \/ dirty]
      /\ UNCHANGED <<file, lock, wbuf, off, truth, tainted, pc>>
  BY DEF Done
<1>2. /\ db_already_readed'[p] = r.ok /\ rest'[p] = r.rest /\ db_lines'[p] = db
      /\ shadow'[p] = sh /\ need_write'[p] = (need_write[p] \/ dirty)
  BY <1>1 DEF IInv, StateTypes
<1>3. StateTypes'
  <2>1. ncmd[p] + 1 \in 0 .. MaxCmds
    BY <1>1, MaxCmdsAssumption DEF IInv, StateTypes
  <2>2. ncmd' \in [Proc -> 0 .. MaxCmds]
    BY <1>1, <2>1 DEF IInv, StateTypes
  <2>3. /\ db_already_readed' \in [Proc -> BOOLEAN] /\ need_write' \in [Proc -> BOOLEAN]
        /\ rest' \in [Proc -> Seq(Line)]
        /\ db_lines' \in [Proc -> Table] /\ shadow' \in [Proc -> Table]
    BY <1>1 DEF IInv, StateTypes
  <2>. QED  BY <1>1, <2>2, <2>3 DEF IInv, StateTypes
<1>4. Elsewhere(p)
  BY <1>1 DEF Elsewhere, IInv, StateTypes
<1>5. OwnerInside' /\ Starting(p)'
  BY <1>1 DEF IInv, OwnerInside, Starting
<1>6. ASSUME ~tainted'
      PROVE  ~tainted /\ OneBuffer' /\ FileStands' /\ Reading(p)'
  <2>1. ~tainted /\ OneBuffer' /\ FileStands'
    BY <1>1, <1>6, FilesStay DEF IInv
  <2>2. ~need_write[p] => Records(shadow[p]) = Records(truth)
    BY <1>1, <2>1 DEF IInv, Reading
  <2>3. Reading(p)'
    BY <1>1, <1>2, <2>1, <2>2 DEF Reading
  <2>. QED  BY <2>1, <2>3
<1>. QED  BY <1>1, <1>2, <1>3, <1>4, <1>5, <1>6, StepOf DEF IInv, ShouldBeUnique

\* A run that gives up, or ends without a change, keeps the file.
LEMMA FailKeeps ==
    ASSUME NEW p \in Proc, IInv, LockInv', Fail(p)
    PROVE  IInv'
<1>1. /\ pc[p] = "run" /\ pc' = [pc EXCEPT ![p] = "close"] /\ pc'[p] = "close"
      /\ UNCHANGED <<file, lock, rest, wbuf, off, db_lines, db_already_readed, need_write,
                     ncmd, truth, shadow, tainted>>
  BY DEF Fail, Go, io, mem, aux, IInv, LockInv
<1>2. StateTypes'
  BY <1>1 DEF IInv, StateTypes
<1>3. Elsewhere(p)
  BY <1>1 DEF Elsewhere, IInv, LockInv
<1>4. OwnerInside' /\ Starting(p)'
  BY <1>1 DEF IInv, OwnerInside, Starting, LockInv, Locked
<1>5. ~tainted' => ~tainted /\ OneBuffer' /\ FileStands' /\ Reading(p)'
  BY <1>1, FilesStay DEF IInv, Reading
<1>. QED  BY <1>1, <1>2, <1>3, <1>4, <1>5, StepOf DEF IInv, ShouldBeUnique

\* ls, get and the like.
LEMMA QueryKeeps ==
    ASSUME NEW p \in Proc, IInv, LockInv', Query(p) \/ \E n \in Name : isset(p, n)
    PROVE  IInv'
<1>1. ASSUME NEW r \in db_read(p), Done(p, r, r.db, shadow[p], FALSE)
      PROVE  IInv'
  <2>1. pc[p] = "run" /\ ncmd[p] < MaxCmds
    BY <1>1 DEF Done
  <2>2. /\ r.ok \in BOOLEAN /\ r.db \in Table /\ r.rest \in Seq(Line)
        /\ ~tainted /\ r.ok => UniqueIn(r.db) /\ Records(r.db) = Records(shadow[p])
        /\ ~tainted /\ ~r.ok =>
              /\ file = << >> /\ r.db = EmptyTable /\ r.rest = << >>
              /\ ~need_write[p] /\ wbuf[p] = << >>
    BY <1>1, <2>1, ReadOutcome
  <2>3. shadow[p] \in Table /\ UniqueIn(shadow[p])
    BY DEF IInv, StateTypes, ShouldBeUnique
  <2>. QED  BY <1>1, <2>2, <2>3, DoneKeeps
<1>2. CASE Query(p)
  BY <1>1, <1>2 DEF Query
<1>3. CASE \E n \in Name : isset(p, n)
  BY <1>1, <1>3, FailKeeps DEF isset
<1>. QED  BY <1>2, <1>3

\* del of one key.
LEMMA DelKeeps ==
    ASSUME NEW p \in Proc, IInv, LockInv', NEW n \in Name, delKey(p, n)
    PROVE  IInv'
<1>. PICK r \in db_read(p) :
        \E db \in del(r.db, {n}) : \E sh \in del(shadow[p], {n}) :
            Done(p, r, db, sh, n \in Names(r.db))
  BY DEF delKey
<1>. PICK db \in del(r.db, {n}) :
        \E sh \in del(shadow[p], {n}) : Done(p, r, db, sh, n \in Names(r.db))
  OBVIOUS
<1>. DEFINE dirty == n \in Names(r.db)
<1>1. PICK sh \in del(shadow[p], {n}) : Done(p, r, db, sh, dirty)
  OBVIOUS
<1>2. pc[p] = "run" /\ ncmd[p] < MaxCmds
  BY <1>1 DEF Done
<1>3. /\ r.ok \in BOOLEAN /\ r.db \in Table /\ r.rest \in Seq(Line)
      /\ ~tainted /\ r.ok => UniqueIn(r.db) /\ Records(r.db) = Records(shadow[p])
      /\ ~tainted /\ ~r.ok =>
            /\ file = << >> /\ r.db = EmptyTable /\ r.rest = << >>
            /\ ~need_write[p] /\ wbuf[p] = << >> /\ shadow[p] = EmptyTable
  BY <1>1, <1>2, ReadOutcome
<1>4. shadow[p] \in Table /\ UniqueIn(shadow[p])
  BY DEF IInv, StateTypes, ShouldBeUnique
<1>5. /\ IsTable(r.db) /\ IsTable(shadow[p])
  BY <1>3, <1>4, TableMeans
<1>6. db \in Table /\ sh \in Table /\ UniqueIn(sh) /\ (UniqueIn(r.db) => UniqueIn(db))
  BY <1>1, <1>4, <1>5, DelTable, TableMeans
<1>7. /\ Records(db) = {x \in Records(r.db) : x.name \notin {n}}
      /\ Records(sh) = {x \in Records(shadow[p]) : x.name \notin {n}}
  BY <1>1, <1>5, DelRecords
<1>8. n \notin Names(r.db) => {x \in Records(r.db) : x.name \notin {n}} = Records(r.db)
  BY DEF Names, Records
<1>9. ASSUME ~tainted, r.ok
      PROVE  /\ UniqueIn(db) /\ Records(db) = Records(sh)
             /\ ~dirty => Records(sh) = Records(shadow[p])
  BY <1>3, <1>6, <1>7, <1>8, <1>9
<1>10. ASSUME ~tainted, ~r.ok
       PROVE  /\ ~dirty /\ ~need_write[p] /\ wbuf[p] = << >>
              /\ db = EmptyTable /\ r.rest = file
              /\ Records(sh) = Records(shadow[p])
  <2>1. Names(r.db) = {} /\ Records(r.db) = {} /\ Records(shadow[p]) = {}
    BY <1>3, <1>10, TableMeans DEF Names, EmptyTable
  <2>2. db = EmptyTable
    BY <1>6, <1>7, <2>1, NoRecords, TableMeans
  <2>. QED  BY <1>3, <1>7, <1>10, <2>1, <2>2
<1>11. dirty \in BOOLEAN
  OBVIOUS
<1>. HIDE DEF dirty
<1>. QED  BY <1>1, <1>3, <1>6, <1>9, <1>10, <1>11, DoneKeeps

\* set: what is put into the table is put into the one that should be.
LEMMA SetKeeps ==
    ASSUME NEW p \in Proc, IInv, LockInv', NEW n \in Name, NEW v \in Value, set(p, n, v)
    PROVE  IInv'
<1>. DEFINE sh == IF CanSet(shadow[p], n) THEN db_set(shadow[p], n, v) ELSE shadow[p]
<1>. PICK r \in db_read(p) : \E q \in (IF r.ok THEN {r} ELSE Parse(r.rest, r.db)) :
        IF q.ok /\ CanSet(q.db, n) THEN Done(p, q, db_set(q.db, n, v), sh, TRUE)
        ELSE Fail(p)
  BY Zenon DEF set
<1>1. PICK q \in (IF r.ok THEN {r} ELSE Parse(r.rest, r.db)) :
        IF q.ok /\ CanSet(q.db, n) THEN Done(p, q, db_set(q.db, n, v), sh, TRUE)
        ELSE Fail(p)
  OBVIOUS
<1>2. pc[p] = "run" /\ ncmd[p] < MaxCmds
  BY <1>1 DEF Done, Fail, Go
<1>3. /\ r.ok \in BOOLEAN /\ r.db \in Table /\ r.rest \in Seq(Line)
      /\ ~tainted /\ r.ok => UniqueIn(r.db) /\ Records(r.db) = Records(shadow[p])
      /\ ~tainted /\ ~r.ok =>
            r.db = EmptyTable /\ r.rest = << >> /\ shadow[p] = EmptyTable
  BY <1>1, <1>2, ReadOutcome
<1>4. shadow[p] \in Table /\ UniqueIn(shadow[p]) /\ IsTable(shadow[p])
  BY TableMeans DEF IInv, StateTypes, ShouldBeUnique
<1>5. /\ q.ok \in BOOLEAN /\ q.db \in Table /\ q.rest \in Seq(Line)
      /\ ~tainted /\ q.ok => UniqueIn(q.db) /\ Records(q.db) = Records(shadow[p])
  <2>1. CASE r.ok
    BY <1>1, <1>3, <2>1
  <2>2. CASE ~r.ok
    <3>1. q \in Parse(r.rest, r.db)
      BY <1>1, <2>2
    <3>2. q.ok \in BOOLEAN /\ q.db \in Table /\ q.rest \in Seq(Line)
      BY <1>3, <3>1, ParseTypes
    <3>3. ~tainted => q.db = EmptyTable /\ shadow[p] = EmptyTable
      BY <1>3, <2>2, <3>1, ParseEmpty
    <3>. QED  BY <3>2, <3>3, TableMeans
  <2>. QED  BY <2>1, <2>2
<1>6. CASE q.ok /\ CanSet(q.db, n)
  <2>1. Done(p, q, db_set(q.db, n, v), sh, TRUE)
    BY <1>1, <1>6
  <2>2. IsTable(q.db)
    BY <1>5, TableMeans
  <2>3. db_set(q.db, n, v) \in Table /\ (UniqueIn(q.db) => UniqueIn(db_set(q.db, n, v)))
    BY <1>6, <2>2, SetTable, TableMeans
  <2>4. sh \in Table /\ UniqueIn(sh)
    BY <1>4, SetTable, TableMeans
  <2>5. ASSUME ~tainted
        PROVE  UniqueIn(q.db) /\ Records(db_set(q.db, n, v)) = Records(sh)
    <3>1. UniqueIn(q.db) /\ Records(q.db) = Records(shadow[p])
      BY <1>5, <1>6, <2>5
    <3>2. CanSet(shadow[p], n)
      BY <1>4, <1>6, <2>2, <3>1, SameRecords DEF CanSet, CanAdd
    <3>3. sh = db_set(shadow[p], n, v)
      BY <3>2
    <3>4. /\ Records(db_set(q.db, n, v)) =
                {x \in Records(q.db) : x.name # n} \cup {[name |-> n, value |-> v]}
          /\ Records(db_set(shadow[p], n, v)) =
                {x \in Records(shadow[p]) : x.name # n} \cup {[name |-> n, value |-> v]}
      BY <1>4, <2>2, <3>1, SetRecords
    <3>. QED  BY <3>1, <3>3, <3>4
  <2>. HIDE DEF sh
  <2>. QED  BY <1>5, <1>6, <2>1, <2>3, <2>4, <2>5, DoneKeeps
<1>7. CASE ~(q.ok /\ CanSet(q.db, n))
  BY <1>1, <1>7, FailKeeps
<1>. QED  BY <1>6, <1>7

-----------------------------------------------------------------------------
(* Writing and closing.                                                    *)

\* The buffer of p is written: the file stands, and no buffer is left.
LEMMA Flushed ==
    ASSUME NEW p \in Proc, IInv, ~tainted,
           file' = Overlay(file, off[p], wbuf[p]), wbuf' = [wbuf EXCEPT ![p] = << >>],
           \A q \in Proc : q # p => off'[q] = off[q], truth' = truth, lock' = lock
    PROVE  /\ OneBuffer' /\ FileStands'
           /\ lock \in Proc \ {p} => file' = file
<1>1. wbuf'[p] = << >> /\ \A q \in Proc : q # p => wbuf'[q] = wbuf[q]
  BY DEF IInv, StateTypes
<1>2. OneBuffer'
  BY <1>1 DEF IInv, OneBuffer
<1>3. CASE wbuf[p] = << >>
  <2>1. file' = file
    BY <1>3 DEF Overlay
  <2>2. \A q \in Proc : wbuf'[q] = wbuf[q]
    BY <1>1, <1>3
  <2>3. FileStands'
    <3>1. Quiet' => Stands(file)
      BY <2>2 DEF Quiet, IInv, FileStands
    <3>2. ASSUME NEW q \in Proc, wbuf'[q] # << >>
          PROVE  Stands(Overlay(file, off[q], wbuf[q])) /\ off'[q] = off[q] /\ wbuf'[q] = wbuf[q]
      BY <1>1, <1>3, <3>2 DEF IInv, FileStands
    <3>. QED  BY <2>1, <3>1, <3>2 DEF FileStands, Stands
  <2>. QED  BY <1>2, <2>1, <2>3
<1>4. CASE wbuf[p] # << >>
  <2>1. \A q \in Proc : wbuf'[q] = << >> /\ (q # p => lock # q)
    BY <1>1, <1>4 DEF IInv, OneBuffer
  <2>2. Stands(Overlay(file, off[p], wbuf[p]))
    BY <1>4 DEF IInv, FileStands
  <2>3. FileStands'
    BY <2>1, <2>2 DEF FileStands, Stands
  <2>. QED  BY <1>2, <2>1, <2>3
<1>. QED  BY <1>3, <1>4

\* rewind.
LEMMA RewindKeeps ==
    ASSUME NEW p \in Proc, IInv, LockInv', Rewind(p)
    PROVE  IInv'
<1>1. /\ pc[p] = "run" /\ wbuf[p] # << >>
      /\ file' = Overlay(file, off[p], wbuf[p]) /\ wbuf' = [wbuf EXCEPT ![p] = << >>]
      /\ UNCHANGED <<lock, rest, off, db_lines, db_already_readed, need_write, ncmd,
                     truth, shadow, tainted, pc>>
  BY DEF Rewind, mem, aux
<1>2. StateTypes'
  <2>1. file' \in Seq(Line)
    BY <1>1, OverlayTypes DEF IInv, StateTypes
  <2>. QED  BY <1>1, <2>1, EmptySeq DEF IInv, StateTypes
<1>3. Elsewhere(p)
  BY <1>1 DEF Elsewhere, IInv, StateTypes
<1>4. OwnerInside' /\ Starting(p)'
  BY <1>1 DEF IInv, OwnerInside, Starting
<1>5. ASSUME ~tainted'
      PROVE  /\ ~tainted /\ OneBuffer' /\ FileStands' /\ Reading(p)'
             /\ lock \in Proc \ {p} => file' = file
  <2>1. ~tainted /\ OneBuffer' /\ FileStands' /\ (lock \in Proc \ {p} => file' = file)
    BY <1>1, <1>5, Flushed
  <2>2. Reading(p)'
    BY <1>1, <2>1 DEF IInv, Reading
  <2>. QED  BY <2>1, <2>2
<1>. QED  BY <1>1, <1>2, <1>3, <1>4, <1>5, StepOf DEF IInv, ShouldBeUnique

\* db_write, in import and at the end of main: the table that is written is
\* the one that should be.
LEMMA WriteKeeps ==
    ASSUME NEW p \in Proc, IInv, LockInv', ImportWrite(p) \/ Write(p)
    PROVE  IInv'
<1>1. /\ wbuf[p] = << >>
      /\ \/ pc[p] = "import" /\ pc'[p] = "run" /\ need_write'[p]
         \/ pc[p] = "run" /\ pc'[p] = "close" /\ need_write[p] /\ need_write'[p]
      /\ pc' = [pc EXCEPT ![p] = pc'[p]]
      /\ need_write' = [need_write EXCEPT ![p] = TRUE]
      /\ truth' = shadow[p]
      /\ UNCHANGED <<lock, rest, db_lines, db_already_readed, ncmd, shadow, tainted>>
  <2>1. CASE ImportWrite(p)
    BY <2>1 DEF ImportWrite, db_write, Go, IInv, LockInv, StateTypes
  <2>2. CASE Write(p)
    BY <2>2 DEF Write, db_write, Go, IInv, LockInv, StateTypes
  <2>. QED  BY <2>1, <2>2
<1>2. PICK s \in db_sort(db_lines[p]) : \E k \in 0 .. Len(Image(s)) :
          /\ file' = SubSeq(Image(s), 1, k)
          /\ wbuf' = [wbuf EXCEPT ![p] = SubSeq(Image(s), k + 1, Len(Image(s)))]
          /\ off' = [off EXCEPT ![p] = k]
  BY DEF ImportWrite, Write, db_write
<1>3. PICK k \in 0 .. Len(Image(s)) :
          /\ file' = SubSeq(Image(s), 1, k)
          /\ wbuf' = [wbuf EXCEPT ![p] = SubSeq(Image(s), k + 1, Len(Image(s)))]
          /\ off' = [off EXCEPT ![p] = k]
  BY <1>2
<1>4. db_lines[p] \in Table /\ shadow[p] \in Table /\ UniqueIn(shadow[p])
  BY DEF IInv, StateTypes, ShouldBeUnique
<1>5. s \in Table /\ (UniqueIn(db_lines[p]) => UniqueIn(s)) /\ Records(s) = Records(db_lines[p])
  BY <1>2, <1>4, SortTable, SortRecords, TableMeans
<1>6. Image(s) \in Seq(Line) /\ Len(Image(s)) \in Nat
  BY <1>5, ImageShape, LenProperties
<1>7. /\ file' \in Seq(Line) /\ SubSeq(Image(s), k + 1, Len(Image(s))) \in Seq(Line)
      /\ Overlay(file', k, SubSeq(Image(s), k + 1, Len(Image(s)))) = Image(s)
      /\ SubSeq(Image(s), k + 1, Len(Image(s))) = << >> => file' = Image(s)
  BY <1>3, <1>6, OverlayBack
<1>8. /\ wbuf'[p] = SubSeq(Image(s), k + 1, Len(Image(s))) /\ off'[p] = k /\ k \in Nat
      /\ wbuf' \in [Proc -> Seq(Line)] /\ off' \in [Proc -> Nat]
  BY <1>3, <1>6, <1>7 DEF IInv, StateTypes
<1>9. StateTypes'
  BY <1>1, <1>4, <1>7, <1>8 DEF IInv, StateTypes
<1>10. Elsewhere(p)
  BY <1>1, <1>3 DEF Elsewhere, IInv, StateTypes, LockInv
<1>11. OwnerInside' /\ Starting(p)' /\ lock = p
  BY <1>1 DEF IInv, OwnerInside, Starting, LockInv, Locked
<1>12. ASSUME ~tainted'
       PROVE  ~tainted /\ OneBuffer' /\ FileStands' /\ Reading(p)'
  <2>1. ~tainted
    BY <1>1, <1>12
  <2>2. \A q \in Proc : q # p => wbuf'[q] = << >>
    BY <1>10, <1>11, <2>1 DEF IInv, OneBuffer, Elsewhere
  <2>3. UniqueIn(db_lines[p]) /\ Records(db_lines[p]) = Records(shadow[p])
    <3>1. CASE db_already_readed[p]
      BY <1>1, <2>1, <3>1 DEF IInv, Reading
    <3>2. CASE ~db_already_readed[p]
      <4>1. pc[p] = "run"
        BY <1>1, <3>2 DEF IInv, Starting
      <4>. QED  BY <1>1, <2>1, <3>2, <4>1, TableMeans DEF IInv, Reading
    <3>. QED  BY <3>1, <3>2
  <2>4. Stands(Image(s))'
    BY <1>1, <1>5, <2>3 DEF Stands
  <2>5. OneBuffer'
    BY <1>1, <1>11, <2>2 DEF OneBuffer
  <2>6. FileStands'
    <3>1. Quiet' => Stands(file)'
      BY <1>7, <1>8, <2>4 DEF Quiet
    <3>2. ASSUME NEW q \in Proc, wbuf'[q] # << >>
          PROVE  q = p /\ Overlay(file', off'[q], wbuf'[q]) = Image(s)
      BY <1>7, <1>8, <2>2, <3>2
    <3>. QED  BY <2>4, <3>1, <3>2 DEF FileStands, Stands
  <2>7. Reading(p)'
    <3>1. pc'[p] = "run" => db_already_readed[p]
      BY <1>1 DEF IInv, Starting
    <3>. QED  BY <1>1, <2>3, <3>1 DEF Reading
  <2>. QED  BY <2>1, <2>5, <2>6, <2>7
<1>. QED  BY <1>1, <1>4, <1>9, <1>10, <1>11, <1>12, StepOf

\* The end of a run that has changed nothing.
LEMMA NoWriteKeeps ==
    ASSUME NEW p \in Proc, IInv, LockInv', NoWrite(p)
    PROVE  IInv'
<1>1. /\ ~need_write[p] /\ pc[p] = "run" /\ pc' = [pc EXCEPT ![p] = "close"]
      /\ pc'[p] = "close" /\ truth' = shadow[p]
      /\ UNCHANGED <<file, lock, rest, wbuf, off, db_lines, db_already_readed, need_write,
                     ncmd, shadow, tainted>>
  BY DEF NoWrite, Go, io, mem, IInv, LockInv
<1>2. StateTypes' /\ UniqueIn(truth')
  BY <1>1 DEF IInv, StateTypes, ShouldBeUnique
<1>3. Elsewhere(p)
  BY <1>1 DEF Elsewhere, IInv, LockInv
<1>4. OwnerInside' /\ Starting(p)' /\ lock = p
  BY <1>1 DEF IInv, OwnerInside, Starting, LockInv, Locked
<1>5. ASSUME ~tainted'
      PROVE  ~tainted /\ OneBuffer' /\ FileStands' /\ Reading(p)'
  <2>1. ~tainted /\ Records(truth') = Records(truth)
    BY <1>1, <1>5 DEF IInv, Reading
  <2>2. truth = EmptyTable => truth' = EmptyTable
    BY <1>2, <2>1, NoRecords, TableMeans DEF StateTypes
  <2>3. OneBuffer'
    BY <1>1, <2>1 DEF IInv, OneBuffer
  <2>4. FileStands'
    <3>1. Quiet' => Stands(file)
      BY <1>1, <2>1 DEF IInv, FileStands, Quiet
    <3>2. ASSUME NEW q \in Proc, wbuf'[q] # << >> PROVE Stands(Overlay(file, off[q], wbuf[q]))
      BY <1>1, <2>1, <3>2 DEF IInv, FileStands
    <3>. QED  BY <1>1, <2>1, <2>2, <3>1, <3>2 DEF FileStands, Stands
  <2>5. Reading(p)'
    BY <1>1, <2>1 DEF IInv, Reading
  <2>. QED  BY <2>1, <2>3, <2>4, <2>5
<1>. QED  BY <1>1, <1>2, <1>3, <1>4, <1>5, StepOf DEF IInv, ShouldBeUnique

\* flock(LOCK_UN): the buffer may still have lines, but nobody has the lock.
LEMMA UnlockKeeps ==
    ASSUME NEW p \in Proc, IInv, LockInv', Unlock(p)
    PROVE  IInv'
<1>1. /\ pc[p] = "close" /\ pc' = [pc EXCEPT ![p] = "fclose"] /\ pc'[p] = "fclose"
      /\ lock' = NoProc
      /\ UNCHANGED <<file, rest, wbuf, off, db_lines, db_already_readed, need_write,
                     ncmd, truth, shadow, tainted>>
  BY DEF Unlock, Go, mem, aux, IInv, LockInv
<1>2. StateTypes'
  BY <1>1 DEF IInv, StateTypes
<1>3. Elsewhere(p)
  BY <1>1 DEF Elsewhere, IInv, LockInv
<1>4. OwnerInside' /\ Starting(p)'
  BY <1>1, ProcAssumption DEF OwnerInside, Starting
<1>5. ~tainted' => ~tainted /\ OneBuffer' /\ FileStands' /\ Reading(p)'
  BY <1>1, FilesStay DEF IInv, Reading
<1>. QED  BY <1>1, <1>2, <1>3, <1>4, <1>5, StepOf DEF IInv, ShouldBeUnique

\* The memory of a run that is over.
LEMMA Cleared ==
    ASSUME NEW p \in Proc, IInv, Clear(p)
    PROVE  /\ pc'[p] = "idle" /\ wbuf'[p] = << >> /\ truth' = truth
           /\ UniqueIn(shadow'[p]) /\ Starting(p)' /\ Reading(p)' /\ Elsewhere(p)
           /\ db_lines' \in [Proc -> Table] /\ shadow' \in [Proc -> Table]
           /\ rest' \in [Proc -> Seq(Line)] /\ wbuf' \in [Proc -> Seq(Line)]
           /\ db_already_readed' \in [Proc -> BOOLEAN] /\ need_write' \in [Proc -> BOOLEAN]
           /\ off' \in [Proc -> Nat] /\ ncmd' \in [Proc -> 0 .. MaxCmds]
<1>1. /\ pc'[p] = "idle" /\ db_lines'[p] = EmptyTable /\ ~db_already_readed'[p]
      /\ ~need_write'[p] /\ rest'[p] = << >> /\ wbuf'[p] = << >>
      /\ shadow'[p] = EmptyTable /\ truth' = truth
  BY DEF Clear, IInv, StateTypes, LockInv
<1>2. Elsewhere(p)
  BY DEF Clear, Elsewhere, IInv, StateTypes, LockInv
<1>3. 0 \in 0 .. MaxCmds /\ 0 \in Nat /\ << >> \in Seq(Line) /\ EmptyTable \in Table
  BY MaxCmdsAssumption, EmptySeq, TableMeans
<1>4. /\ db_lines' \in [Proc -> Table] /\ shadow' \in [Proc -> Table]
      /\ rest' \in [Proc -> Seq(Line)] /\ wbuf' \in [Proc -> Seq(Line)]
      /\ db_already_readed' \in [Proc -> BOOLEAN] /\ need_write' \in [Proc -> BOOLEAN]
      /\ off' \in [Proc -> Nat] /\ ncmd' \in [Proc -> 0 .. MaxCmds]
  BY <1>3 DEF Clear, IInv, StateTypes
<1>. QED  BY <1>1, <1>2, <1>4, TableMeans DEF Starting, Reading

\* fclose writes the buffer: nobody has read the file in the meantime.
LEMMA FcloseKeeps ==
    ASSUME NEW p \in Proc, IInv, LockInv', Fclose(p)
    PROVE  IInv'
<1>1. /\ pc[p] = "fclose" /\ file' = Overlay(file, off[p], wbuf[p]) /\ Clear(p)
      /\ UNCHANGED <<lock, tainted>>
  BY DEF Fclose
<1>2. StateTypes'
  <2>1. file' \in Seq(Line)
    BY <1>1, OverlayTypes DEF IInv, StateTypes
  <2>. QED  BY <1>1, <2>1, Cleared DEF IInv, StateTypes
<1>3. OwnerInside'
  <2>1. lock # p
    BY <1>1 DEF IInv, OwnerInside, Locked
  <2>. QED  BY <1>1, <2>1, Cleared DEF IInv, OwnerInside, Elsewhere
<1>4. ASSUME ~tainted'
      PROVE  /\ ~tainted /\ OneBuffer' /\ FileStands'
             /\ lock \in Proc \ {p} => file' = file
  <2>1. ~tainted
    BY <1>1, <1>4
  <2>2. /\ wbuf' = [wbuf EXCEPT ![p] = << >>] /\ truth' = truth
        /\ \A q \in Proc : q # p => off'[q] = off[q]
    BY <1>1 DEF Clear, IInv, StateTypes
  <2>. QED  BY <1>1, <2>1, <2>2, Flushed
<1>. QED  BY <1>1, <1>2, <1>3, <1>4, Cleared, StepOf DEF IInv, ShouldBeUnique

\* A run is killed: if its buffer was empty the file is as it was.
LEMMA KillKeeps ==
    ASSUME NEW p \in Proc, IInv, LockInv', Kill(p)
    PROVE  IInv'
<1>1. /\ lock' = IF lock = p THEN NoProc ELSE lock
      /\ tainted' = (tainted \/ wbuf[p] # << >>) /\ Clear(p) /\ file' = file
  BY DEF Kill
<1>2. StateTypes'
  <2>1. tainted' \in BOOLEAN /\ lock' \in Proc \cup {NoProc}
    BY <1>1 DEF IInv, StateTypes
  <2>. QED  BY <1>1, <2>1, Cleared DEF IInv, StateTypes
<1>3. OwnerInside'
  BY <1>1, Cleared, ProcAssumption DEF IInv, OwnerInside, Elsewhere
<1>4. ASSUME ~tainted'
      PROVE  ~tainted /\ OneBuffer' /\ FileStands'
  <2>1. ~tainted /\ wbuf[p] = << >>
    BY <1>1, <1>4
  <2>2. \A q \in Proc : wbuf'[q] = wbuf[q] /\ (q # p => off'[q] = off[q])
    BY <1>1, <2>1, Cleared DEF Elsewhere
  <2>3. OneBuffer'
    BY <1>1, <2>1, <2>2, ProcAssumption DEF IInv, OneBuffer
  <2>4. FileStands'
    <3>1. Quiet' => Stands(file)
      BY <2>1, <2>2 DEF Quiet, IInv, FileStands
    <3>2. ASSUME NEW q \in Proc, wbuf'[q] # << >>
          PROVE  Stands(Overlay(file, off[q], wbuf[q])) /\ off'[q] = off[q] /\ wbuf'[q] = wbuf[q]
      BY <2>1, <2>2, <3>2 DEF IInv, FileStands
    <3>3. truth' = truth
      BY <1>1, Cleared
    <3>. QED  BY <1>1, <3>1, <3>2, <3>3 DEF FileStands, Stands
  <2>. QED  BY <2>1, <2>3, <2>4
<1>. QED  BY <1>1, <1>2, <1>3, <1>4, Cleared, StepOf DEF IInv, ShouldBeUnique

\* The invariant holds at the start: the file is the image of truth.
LEMMA InitHolds == Init => IInv
<1>. SUFFICES ASSUME Init PROVE IInv
  OBVIOUS
<1>1. PICK t \in KdbFiles : file = Image(t) /\ truth = t
  BY DEF Init
<1>2. t \in Table /\ UniqueIn(t)
  BY KdbFilesAssumption, TableMeans
<1>3. file \in Seq(Line)
  BY <1>1, <1>2, ImageShape
<1>4. 0 \in 0 .. MaxCmds /\ << >> \in Seq(Line) /\ EmptyTable \in Table /\ UniqueIn(EmptyTable)
  BY MaxCmdsAssumption, EmptySeq, TableMeans
<1>5. StateTypes
  BY <1>1, <1>2, <1>3, <1>4 DEF Init, StateTypes
<1>6. OwnerInside /\ ShouldBeUnique /\ \A p \in Proc : Starting(p)
  BY <1>1, <1>2, <1>4, ProcAssumption DEF Init, OwnerInside, ShouldBeUnique, Starting
<1>7. OneBuffer /\ FileStands
  BY <1>1, <1>2 DEF Init, OneBuffer, FileStands, Stands
<1>8. \A p \in Proc : Reading(p)
  BY DEF Init, Reading
<1>. QED  BY <1>5, <1>6, <1>7, <1>8, InitLock DEF IInv

\* IInv is an invariant.
THEOREM Inductive == Spec => []IInv
<1>1. IInv /\ [Next]_vars => IInv'
  <2>. SUFFICES ASSUME IInv, [Next]_vars PROVE IInv'
    OBVIOUS
  <2>1. LockInv'
    BY NextLock DEF IInv
  <2>2. CASE UNCHANGED vars
    <3>1. UNCHANGED <<file, lock, pc, db_lines, db_already_readed, need_write, rest, wbuf,
                      off, ncmd, truth, shadow, tainted>>
      BY <2>2 DEF vars, io, mem, aux
    <3>2. StateTypes' /\ OwnerInside' /\ ShouldBeUnique' /\ \A p \in Proc : Starting(p)'
      BY <3>1 DEF IInv, StateTypes, OwnerInside, ShouldBeUnique, Starting
    <3>3. ~tainted' => OneBuffer' /\ FileStands'
      BY <3>1, FilesStay DEF IInv
    <3>4. ~tainted' => \A p \in Proc : Reading(p)'
      BY <3>1 DEF IInv, Reading
    <3>. QED  BY <2>1, <3>2, <3>3, <3>4 DEF IInv
  <2>3. CASE \E p \in Proc : \/ Open(p) \/ Create(p) \/ Lock(p) \/ Step(p) \/ Kill(p)
                             \/ \E t \in KdbFiles : Import(p, t)
    BY <2>1, <2>3, OpenKeeps, CreateKeeps, LockKeeps, FillKeeps, QueryKeeps, DelKeeps,
       SetKeeps, RewindKeeps, WriteKeeps, NoWriteKeeps, UnlockKeeps, FcloseKeeps, KillKeeps
       DEF Step
  <2>. QED  BY <2>2, <2>3 DEF Next
<1>. QED  BY <1>1, InitHolds, PTL DEF Spec

\* Every table fits into db_lines, and offsets, buffers and counters stay in
\* their ranges, also in runs that have met a hazard (kdb.c 62-64, 266-309).
THEOREM TypeCorrect == Spec => []TypeOK
<1>1. IInv => TypeOK
  BY TableMeans DEF IInv, StateTypes, LockInv, Place, TypeOK
<1>. QED  BY <1>1, Inductive, PTL

\* The file holds the result of the runs that have succeeded, one after the
\* other, unless one of the three hazards has been met (kdb.c 149-174,
\* 266-309, 438-469).
THEOREM Serialisable == Spec => []SerialUnlessTainted
<1>1. IInv => SerialUnlessTainted
  <2>. SUFFICES ASSUME IInv, ~tainted, Quiet PROVE Holds(truth)
    BY DEF SerialUnlessTainted
  <2>1. Stands(file)
    BY DEF IInv, FileStands
  <2>2. CASE file = << >> /\ truth = EmptyTable
    BY <2>2 DEF Holds
  <2>3. CASE \E t \in Table : UniqueIn(t) /\ Records(t) = Records(truth) /\ file = Image(t)
    <3>1. PICK t \in Table : UniqueIn(t) /\ Records(t) = Records(truth) /\ file = Image(t)
      BY <2>3
    <3>2. file # << >>
      BY <3>1, ImageShape, EmptySeq
    <3>3. Contents(t) = Contents(truth)
      BY <3>1, SameRecords, TableMeans DEF IInv, StateTypes, ShouldBeUnique
    <3>4. \A r \in Parse(file, EmptyTable) : r.ok /\ r.db = t
      BY <3>1, ParseImage
    <3>. QED  BY <3>2, <3>3, <3>4 DEF Holds
  <2>. QED  BY <2>1, <2>2, <2>3 DEF Stands
<1>. QED  BY <1>1, Inductive, PTL

\* Once a run has read the file under the lock its table is the one that the
\* runs before it have left, with its own changes (kdb.c 266-309, 606-700).
THEOREM SeesLatest == Spec => []ReadsLatest
<1>1. IInv => ReadsLatest
  <2>. SUFFICES ASSUME IInv, NEW p \in Proc, ~tainted, lock = p, db_already_readed[p]
                PROVE  Contents(db_lines[p]) = Contents(shadow[p])
    BY DEF ReadsLatest
  <2>1. pc[p] \in {"import", "run", "close"}
    BY DEF IInv, OwnerInside, Locked, Starting
  <2>2. UniqueIn(db_lines[p]) /\ Records(db_lines[p]) = Records(shadow[p])
    BY <2>1 DEF IInv, Reading
  <2>. QED  BY <2>2, SameRecords, TableMeans DEF IInv, StateTypes, ShouldBeUnique
<1>. QED  BY <1>1, Inductive, PTL

=============================================================================
