------------------------------- MODULE KdbFile -------------------------------
(***************************************************************************)
(* Runs of kdb that overlap: db_open, db_read, db_write and db_close of    *)
(* package/webface/kdb.c over one database file, with flock and with the   *)
(* buffer that stdio keeps between fwrite and fclose.                      *)
(*                                                                         *)
(* The file is a sequence of lines.  Offsets are counted in lines.  A run  *)
(* opens the file, waits for the lock, reads the lines, runs at most       *)
(* MaxCmds commands, and then db_write truncates the file and hands the    *)
(* new lines to stdio, which writes some of them at once and the others    *)
(* at fclose: after db_close has given up the lock.                        *)
(***************************************************************************)
EXTENDS KdbTable

CONSTANTS
    Proc,       \* processes that run kdb
    NoProc,     \* the owner of a free lock
    KdbFiles,   \* tables of well-formed files, for import
    MaxCmds,    \* commands on one command line
    MayCreate,  \* do runs of "kdb create" occur?
    MayKill     \* may a run be killed?

ASSUME ProcAssumption == NoProc \notin Proc

ASSUME MaxCmdsAssumption == MaxCmds \in Nat \ {0}

ASSUME KdbFilesAssumption ==
    \A t \in KdbFiles : IsTable(t) /\ UniqueIn(t)

ASSUME EnvironmentAssumption == MayCreate \in BOOLEAN /\ MayKill \in BOOLEAN

VARIABLES
    file,       \* the lines of the database file
    lock,       \* who holds the flock
    pc,
    db_lines,
    db_already_readed,
    need_write,
    rest,       \* lines read from the file and not parsed yet
    wbuf,       \* lines in the stdio buffer, not written yet
    off,        \* the file offset at which wbuf starts
    ncmd,       \* commands executed
    \* What the file should hold; these are read by no action of kdb.
    truth,      \* the table after the runs that have succeeded, in that order
    shadow,     \* the table the running commands should be changing
    tainted     \* has a run met one of the three hazards below?

io   == <<file, lock, rest, wbuf, off>>
mem  == <<db_lines, db_already_readed, need_write, ncmd>>
aux  == <<truth, shadow, tainted>>
vars == <<io, mem, aux, pc>>

-----------------------------------------------------------------------------
(* Lines.                                                                  *)

Header == [kind |-> "hdr"]
Footer == [kind |-> "ftr"]
Bad    == [kind |-> "bad"]          \* a line that is no pair: a torn one, a hole
Pair(r) == [kind |-> "pair", rec |-> r]

Line == {Header, Footer, Bad} \cup {Pair(r) : r \in Record}

\* The buffer db_write makes of a sorted table.
Image(t) == <<Header>> \o [k \in DOMAIN t |-> Pair(t[k])] \o <<Footer>>

\* write(2) of the lines w at offset o: what is beyond stays, a gap is a hole.
Overlay(f, o, w) ==
    IF w = << >> THEN f
    ELSE LET n == IF Len(f) > o + Len(w) THEN Len(f) ELSE o + Len(w)
         IN  [i \in 1 .. n |->
                IF i > o /\ i <= o + Len(w) THEN w[i - o]
                ELSE IF i <= Len(f) THEN f[i] ELSE Bad]

\* parse_header compares three characters: "KDB\n" and "KDB END\n" both pass.
\* With no line to read, head_buf is uninitialised.
HeaderTest(s) ==
    IF s = << >> THEN BOOLEAN ELSE {s[1].kind \in {"hdr", "ftr"}}

\* db_read of the lines s behind the table db: the table, the result, and the
\* lines that stay unread.  The loop stops at the end, at a line that is no
\* pair, and at a pair for which db_add has no room; only the end and the
\* footer are success.
Parse(s, db) ==
    LET stops == {k \in 2 .. Len(s) + 1 :
                    \/ k > Len(s)
                    \/ s[k].kind # "pair"
                    \/ k - 1 > MAX_LINES - Len(db)}
        stop  == CHOOSE k \in stops : \A j \in stops : k <= j
    IN  {IF s = << >> THEN [ok |-> h, db |-> db, rest |-> s]
         ELSE IF ~h   THEN [ok |-> FALSE, db |-> db, rest |-> Tail(s)]
         ELSE [ok   |-> stop > Len(s) \/ s[stop].kind = "ftr",
               db   |-> db \o [k \in 1 .. stop - 2 |-> s[k + 1].rec],
               rest |-> SubSeq(s, stop + 1, Len(s))] :
         h \in HeaderTest(s)}

\* The outcomes of a call of db_read by p.
db_read(p) ==
    IF db_already_readed[p]
    THEN {[ok |-> TRUE, db |-> db_lines[p], rest |-> rest[p]]}
    ELSE Parse(rest[p], db_lines[p])

-----------------------------------------------------------------------------
TypeOK ==
    /\ file \in Seq(Line)
    /\ lock \in Proc \cup {NoProc}
    /\ pc \in [Proc -> {"idle", "wait", "fill", "import", "run", "close", "fclose"}]
    /\ \A p \in Proc : IsTable(db_lines[p]) /\ IsTable(shadow[p])
    /\ db_already_readed \in [Proc -> BOOLEAN]
    /\ need_write \in [Proc -> BOOLEAN]
    /\ \A p \in Proc : rest[p] \in Seq(Line) /\ wbuf[p] \in Seq(Line)
    /\ off \in [Proc -> Nat]
    /\ ncmd \in [Proc -> 0 .. MaxCmds]
    /\ IsTable(truth)
    /\ tainted \in BOOLEAN

Init ==
    /\ \E t \in KdbFiles : file = Image(t) /\ truth = t
    /\ lock = NoProc
    /\ pc = [p \in Proc |-> "idle"]
    /\ db_lines = [p \in Proc |-> EmptyTable]
    /\ db_already_readed = [p \in Proc |-> FALSE]
    /\ need_write = [p \in Proc |-> FALSE]
    /\ rest = [p \in Proc |-> << >>]
    /\ wbuf = [p \in Proc |-> << >>]
    /\ off = [p \in Proc |-> 0]
    /\ ncmd = [p \in Proc |-> 0]
    /\ shadow = [p \in Proc |-> EmptyTable]
    /\ tainted = FALSE

Go(p, from, to) == pc[p] = from /\ pc' = [pc EXCEPT ![p] = to]

\* Lines some other process has in its buffer.
Unflushed(p) == \E q \in Proc \ {p} : wbuf[q] # << >>

-----------------------------------------------------------------------------
(* Opening.                                                                *)

\* A run whose first command reads: db_read calls db_open, which calls fopen.
Open(p) == Go(p, "idle", "wait") /\ UNCHANGED <<io, mem, aux>>

\* "kdb create": fopen(.., "w") empties the file, without the lock.
\* Hazard: another run holds the lock, or has lines in its buffer.
Create(p) ==
    /\ MayCreate
    /\ Go(p, "idle", "wait")
    /\ file' = << >>
    /\ truth' = EmptyTable
    /\ tainted' = (tainted \/ lock # NoProc \/ Unflushed(p))
    /\ need_write' = [need_write EXCEPT ![p] = TRUE]
    /\ ncmd' = [ncmd EXCEPT ![p] = MaxCmds]
    /\ UNCHANGED <<lock, rest, wbuf, off, db_lines, db_already_readed, shadow>>

\* "kdb import f", also at the end of "kdb edit": f is read before db_open.
Import(p, t) ==
    /\ Go(p, "idle", "wait")
    /\ db_lines' = [db_lines EXCEPT ![p] = t]
    /\ db_already_readed' = [db_already_readed EXCEPT ![p] = TRUE]
    /\ UNCHANGED <<io, aux, need_write, ncmd>>

\* Mutant of Lock: a shared lock.
LockShared(p) ==
    /\ Go(p, "wait", IF db_already_readed[p] THEN "import"
                     ELSE IF need_write[p] THEN "run" ELSE "fill")
    /\ lock' = p
    /\ tainted' = (tainted \/ Unflushed(p))
    /\ shadow' = [shadow EXCEPT ![p] =
                    IF db_already_readed[p] \/ need_write[p] THEN db_lines[p]
                    ELSE truth]
    /\ UNCHANGED <<file, rest, wbuf, off, mem, truth>>

\* flock(LOCK_EX) returns.
\* Hazard: the last holder has not written its buffer yet.
Lock(p) ==
    /\ lock = NoProc
    /\ Go(p, "wait", IF db_already_readed[p] THEN "import"
                     ELSE IF need_write[p] THEN "run" ELSE "fill")
    /\ lock' = p
    /\ tainted' = (tainted \/ Unflushed(p))
    /\ shadow' = [shadow EXCEPT ![p] =
                    IF db_already_readed[p] \/ need_write[p] THEN db_lines[p]
                    ELSE truth]
    /\ UNCHANGED <<file, rest, wbuf, off, mem, truth>>

\* read(2) fills the buffer of the FILE, in one call or in several.
Fill(p) ==
    /\ pc[p] = "fill"
    /\ \E n \in Len(rest[p]) + 1 .. Len(file) - 1 :
          rest' = [rest EXCEPT ![p] = @ \o SubSeq(file, Len(@) + 1, n)]
    /\ UNCHANGED <<file, lock, wbuf, off, mem, aux, pc>>

FillLast(p) ==
    /\ Go(p, "fill", "run")
    /\ rest' = [rest EXCEPT ![p] = @ \o SubSeq(file, Len(@) + 1, Len(file))]
    /\ UNCHANGED <<file, lock, wbuf, off, mem, aux>>

-----------------------------------------------------------------------------
(* Commands of a run that has the lock.                                    *)

\* A command returns true, having read r and left the tables db and sh.
Done(p, r, db, sh, dirty) ==
    /\ pc[p] = "run" /\ ncmd[p] < MaxCmds
    /\ ncmd' = [ncmd EXCEPT ![p] = @ + 1]
    /\ db_already_readed' = [db_already_readed EXCEPT ![p] = r.ok]
    /\ rest' = [rest EXCEPT ![p] = r.rest]
    /\ db_lines' = [db_lines EXCEPT ![p] = db]
    /\ shadow' = [shadow EXCEPT ![p] = sh]
    /\ need_write' = [need_write EXCEPT ![p] = @ \/ dirty]
    /\ UNCHANGED <<file, lock, wbuf, off, truth, tainted, pc>>

\* A command returns false: no db_write, straight to db_close.
Fail(p) == ncmd[p] < MaxCmds /\ Go(p, "run", "close") /\ UNCHANGED <<io, mem, aux>>

Query(p) ==
    \E r \in db_read(p) : Done(p, r, r.db, shadow[p], FALSE)

\* set calls db_read, and db_set calls it again if it failed.
set(p, n, v) ==
    \E r \in db_read(p) :
    \E q \in (IF r.ok THEN {r} ELSE Parse(r.rest, r.db)) :
        IF q.ok /\ CanSet(q.db, n)
        THEN Done(p, q, db_set(q.db, n, v),
                  IF CanSet(shadow[p], n) THEN db_set(shadow[p], n, v)
                  ELSE shadow[p],
                  TRUE)
        ELSE Fail(p)

\* Mutant of delKey: need_write is not set.
delKeyUnsaved(p, n) ==
    \E r \in db_read(p) : \E db \in del(r.db, {n}) : \E sh \in del(shadow[p], {n}) :
        Done(p, r, db, sh, FALSE)

\* del goes on with whatever a failed db_read has left in the table.
delKey(p, n) ==
    \E r \in db_read(p) : \E db \in del(r.db, {n}) : \E sh \in del(shadow[p], {n}) :
        Done(p, r, db, sh, n \in Names(r.db))

isset(p, n) ==
    \E r \in db_read(p) :
        IF n \in Names(r.db) THEN Done(p, r, r.db, shadow[p], FALSE) ELSE Fail(p)

-----------------------------------------------------------------------------
(* Writing and closing.                                                    *)

\* rewind flushes what an earlier db_write of the run (in import) has left.
Rewind(p) ==
    /\ pc[p] = "run" /\ wbuf[p] # << >>
    /\ file' = Overlay(file, off[p], wbuf[p])
    /\ wbuf' = [wbuf EXCEPT ![p] = << >>]
    /\ UNCHANGED <<lock, rest, off, mem, aux, pc>>

\* db_sort, ftruncate(0) and fwrite: stdio writes some lines now and keeps the
\* others.
db_write(p, to) ==
    /\ wbuf[p] = << >>
    /\ Go(p, IF to = "run" THEN "import" ELSE "run", to)
    /\ \E s \in db_sort(db_lines[p]) : \E k \in 0 .. Len(Image(s)) :
          /\ file' = SubSeq(Image(s), 1, k)
          /\ wbuf' = [wbuf EXCEPT ![p] = SubSeq(Image(s), k + 1, Len(Image(s)))]
          /\ off' = [off EXCEPT ![p] = k]
    /\ truth' = shadow[p]
    /\ UNCHANGED <<lock, rest, db_lines, db_already_readed, ncmd, shadow, tainted>>

\* import writes at once and marks the table to be written again.
ImportWrite(p) ==
    /\ db_write(p, "run")
    /\ need_write' = [need_write EXCEPT ![p] = TRUE]

\* The end of main(): the arguments are used up, result is true.
Write(p) == need_write[p] /\ db_write(p, "close") /\ UNCHANGED need_write

NoWrite(p) ==
    /\ ~need_write[p] /\ ncmd[p] > 0
    /\ Go(p, "run", "close")
    /\ truth' = shadow[p]
    /\ UNCHANGED <<io, mem, shadow, tainted>>

\* db_close gives up the lock first ...
Unlock(p) ==
    /\ Go(p, "close", "fclose")
    /\ lock' = NoProc
    /\ UNCHANGED <<file, rest, wbuf, off, mem, aux>>

Clear(p) ==
    /\ pc' = [pc EXCEPT ![p] = "idle"]
    /\ db_lines' = [db_lines EXCEPT ![p] = EmptyTable]
    /\ db_already_readed' = [db_already_readed EXCEPT ![p] = FALSE]
    /\ need_write' = [need_write EXCEPT ![p] = FALSE]
    /\ rest' = [rest EXCEPT ![p] = << >>]
    /\ wbuf' = [wbuf EXCEPT ![p] = << >>]
    /\ off' = [off EXCEPT ![p] = 0]
    /\ ncmd' = [ncmd EXCEPT ![p] = 0]
    /\ shadow' = [shadow EXCEPT ![p] = EmptyTable]
    /\ UNCHANGED truth

\* ... and fclose writes what is left in the buffer.
Fclose(p) ==
    /\ pc[p] = "fclose"
    /\ file' = Overlay(file, off[p], wbuf[p])
    /\ Clear(p)
    /\ UNCHANGED <<lock, tainted>>

\* Mutant of Kill: a lock that outlives its holder, as a lock file does.
KillKeepsLock(p) ==
    /\ MayKill
    /\ pc[p] # "idle"
    /\ tainted' = (tainted \/ wbuf[p] # << >>)
    /\ Clear(p)
    /\ UNCHANGED <<file, lock>>

\* The process is killed: the kernel drops its lock, its buffer is lost.
\* Hazard: there was something in the buffer.
Kill(p) ==
    /\ MayKill
    /\ pc[p] # "idle"
    /\ lock' = IF lock = p THEN NoProc ELSE lock
    /\ tainted' = (tainted \/ wbuf[p] # << >>)
    /\ Clear(p)
    /\ UNCHANGED file

\* One more step of the run of p, the wait for the lock aside.
Step(p) ==
    \/ Fill(p) \/ FillLast(p) \/ Query(p) \/ Rewind(p) \/ ImportWrite(p)
    \/ Write(p) \/ NoWrite(p) \/ Unlock(p) \/ Fclose(p)
    \/ \E n \in Name : delKey(p, n) \/ isset(p, n)
    \/ \E n \in Name, v \in Value : set(p, n, v)

Next ==
    \E p \in Proc :
        \/ Open(p) \/ Create(p) \/ Lock(p) \/ Step(p) \/ Kill(p)
        \/ \E t \in KdbFiles : Import(p, t)

Spec == Init /\ [][Next]_vars

\* A run that is not waiting goes on, and flock grants a lock that is free
\* again and again to each of its waiters (the kernel queues them in order).
Fairness == \A p \in Proc : WF_vars(Step(p)) /\ SF_vars(Lock(p))

FairSpec == Spec /\ Fairness

-----------------------------------------------------------------------------
(* Properties.                                                             *)

Quiet == \A p \in Proc : wbuf[p] = << >>

\* The file reads as the table t; a file just emptied by create reads as
\* nothing.
Holds(t) ==
    IF file = << >> THEN t = EmptyTable
    ELSE \A r \in Parse(file, EmptyTable) : r.ok /\ Contents(r.db) = Contents(t)

\* The file holds the result of the runs that have succeeded, one after the
\* other, as long as none has met a hazard: taking the lock before the last
\* holder's fclose, create in the middle of another run, death with lines in
\* the buffer.  A failed run, and one killed before it writes, leave no trace.
SerialUnlessTainted == (~tainted /\ Quiet) => Holds(truth)

\* When all runs are over the file holds the result of those that have
\* written, one after the other: what db_open takes the lock for
\* (kdb.c 160, "lock the file").
Serial == (\A p \in Proc : pc[p] = "idle") => Holds(truth)

\* A run sees the runs before it: once it has read the file under the lock,
\* its table is the one the earlier runs have left, plus its own changes.
ReadsLatest ==
    \A p \in Proc :
        (~tainted /\ lock = p /\ db_already_readed[p])
            => Contents(db_lines[p]) = Contents(shadow[p])

\* From the time a run has the lock until it writes, no other run changes
\* what the database should hold, so that no change is lost, if create does
\* not come in between.
NoLostUpdate ==
    [][\A p \in Proc :
          (pc[p] \in {"fill", "run"} /\ pc'[p] = pc[p]) => truth' = truth \/ tainted']_vars

\* Every run of kdb comes to an end: no two runs wait for each other.
RunsEnd == \A p \in Proc : pc[p] # "idle" ~> pc[p] = "idle"

=============================================================================
