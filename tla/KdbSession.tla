----------------------------- MODULE KdbSession -----------------------------
(***************************************************************************)
(* One run of the kdb program at a time: main() of package/webface/kdb.c   *)
(* and its command loop "kdb ARG : ARG : ...", with the database file.     *)
(* Runs follow each other; KdbFile models runs that overlap.               *)
(*                                                                         *)
(* One action is one command of the loop, with the db_read it begins with. *)
(* A command that returns false ends the run (Fail): nothing is written.   *)
(* Commands that only print (list, get, sublist, keylist, sskeylist) are   *)
(* Query: what they print is not modelled.                                 *)
(***************************************************************************)
EXTENDS KdbTable

CONSTANTS
    Pattern,    \* the wildcard patterns in use, as sets of names
    NewKey,     \* the second arguments of rename: names, or NULL if absent
    KdbFiles    \* contents of well-formed files: kdb.default, backups

ASSUME PatternAssumption == Pattern \subseteq SUBSET Name

ASSUME NewKeyAssumption == NewKey \subseteq Name \cup {NULL}

\* Files that export and db_write make hold every key once.
ASSUME KdbFilesAssumption ==
    \A t \in KdbFiles : IsTable(t) /\ UniqueIn(t)

VARIABLES
    disk,               \* the database file
    pc,                 \* "idle", "run", or "stuck" in flock
    db_file,            \* is the database open (and locked)?
    db_lines,
    db_already_readed,
    need_write,
    elsewhere           \* does db_filename name a file that is not db_file?

vars == <<disk, pc, db_file, db_lines, db_already_readed, need_write, elsewhere>>

Missing == [form |-> "missing", lines |-> EmptyTable]

\* A file of no bytes: not even a header.
Blank == [form |-> "blank", lines |-> EmptyTable]

Kdb(t) == [form |-> "kdb", lines |-> t]

\* A file that cannot be read to its end: its header is bad, or a line behind
\* the records t has no '=' (a write was cut there, the name is empty), or t
\* fills db_lines and there are more.  What lies behind t no run ever sees.
Damaged(t) == [form |-> "damaged", lines |-> t]

Form == {"missing", "blank", "kdb", "damaged"}

TypeOK ==
    /\ disk \in [form : Form, lines : Seq(Record)]
    /\ IsTable(disk.lines)
    /\ disk.form \in {"missing", "blank"} => disk.lines = EmptyTable
    /\ pc \in {"idle", "run", "stuck"}
    /\ db_file \in BOOLEAN
    /\ IsTable(db_lines)
    /\ db_already_readed \in BOOLEAN
    /\ need_write \in BOOLEAN
    /\ elsewhere \in BOOLEAN

Init ==
    /\ disk \in {Missing} \cup {Kdb(t) : t \in KdbFiles}
                          \cup {Damaged(t) : t \in KdbFiles}
    /\ pc = "idle"
    /\ db_file = FALSE
    /\ db_lines = EmptyTable
    /\ db_already_readed = FALSE
    /\ need_write = FALSE
    /\ elsewhere = FALSE

-----------------------------------------------------------------------------
(* The parts every command is made of.                                     *)

\* What db_read may return when it is called again, having returned ok.  At
\* the end of the file, or in one of no bytes, fgets fails, head_buf is
\* uninitialised, and the header test may go either way; behind a damage it
\* fails until it takes the footer for a header.
ReadAgain(ok) ==
    IF ok THEN {TRUE} ELSE IF disk.form = "missing" THEN {FALSE} ELSE BOOLEAN

\* This run will get no record from the file, or no more than it has.
NothingToRead ==
    \/ db_already_readed
    \/ disk.form \in {"missing", "blank"}
    \/ disk.form = "damaged" /\ db_file

\* db_read: what it returns and the table it leaves.  In a damaged file it
\* fails at the damage and keeps what it has read up to there.
ReadOutcomes ==
    IF NothingToRead
    THEN {[ok |-> o, db |-> db_lines] : o \in ReadAgain(db_already_readed)}
    ELSE {[ok |-> disk.form = "kdb", db |-> disk.lines]}

\* Mutant of ReadThen: the open file is not remembered in db_file.
ReadThenForget(ok) ==
    /\ pc = "run"
    /\ db_file' = db_file
    /\ db_already_readed' = ok
    /\ UNCHANGED elsewhere

\* The calls of db_read in a command that goes on; ok is the last result.
ReadThen(ok) ==
    /\ pc = "run"
    /\ db_file' = (disk.form # "missing")
    /\ db_already_readed' = ok
    /\ UNCHANGED elsewhere

\* The command returns true and leaves the table db.
Done(db, dirty) ==
    /\ db_lines' = db
    /\ need_write' = (need_write \/ dirty)
    /\ UNCHANGED <<disk, pc>>

\* The process is gone: the loop broke or the program crashed.
Exit ==
    /\ pc' = "idle"
    /\ db_file' = FALSE
    /\ db_lines' = EmptyTable
    /\ db_already_readed' = FALSE
    /\ need_write' = FALSE
    /\ elsewhere' = FALSE

\* Mutant of Fail: the result is not looked at before the table is written.
FailWrites ==
    /\ Exit
    /\ disk' = IF need_write /\ db_file THEN Kdb(db_lines) ELSE disk

\* The command returns false: the loop breaks, nothing is written.
Fail == Exit /\ UNCHANGED disk

-----------------------------------------------------------------------------
(* The commands.                                                           *)

Start ==
    /\ pc = "idle"
    /\ pc' = "run"
    /\ UNCHANGED <<disk, db_file, db_lines, db_already_readed, need_write, elsewhere>>

\* list, get, sublist, keylist and sskeylist return true even if db_read
\* failed.
Query == \E r \in ReadOutcomes : ReadThen(r.ok) /\ Done(r.db, FALSE)

isset(n) ==
    \E r \in ReadOutcomes :
        \/ n \in Names(r.db) /\ ReadThen(r.ok) /\ Done(r.db, FALSE)
        \/ pc = "run" /\ n \notin Names(r.db) /\ Fail

\* set "name=value", and "name=%ENV" with the value from the environment.
\* db_set calls db_read again and stops if it fails.
set(n, v) ==
    \E r \in ReadOutcomes : \E ok \in ReadAgain(r.ok) :
        \/ /\ ok /\ CanSet(r.db, n)
           /\ ReadThen(ok)
           /\ Done(db_set(r.db, n, v), TRUE)
        \/ pc = "run" /\ ~(ok /\ CanSet(r.db, n)) /\ Fail

\* set "pattern=value" goes on after a failed db_read.
setWild(p, v) ==
    \E r \in ReadOutcomes :
        /\ ReadThen(r.ok)
        /\ Done(SetMatching(r.db, p, v), Names(r.db) \cap p # {})

delWild(p) ==
    \E r \in ReadOutcomes : \E db \in del(r.db, p) :
        ReadThen(r.ok) /\ Done(db, Names(r.db) \cap p # {})

renameKey(oldkey, newkey) ==
    \E r \in ReadOutcomes :
        \/ /\ CanRename(r.db, oldkey, newkey)
           /\ ReadThen(r.ok)
           /\ Done(rename(r.db, oldkey, newkey), TRUE)
        \/ pc = "run" /\ ~CanRename(r.db, oldkey, newkey) /\ Fail

ladd(l, v) ==
    \E r \in ReadOutcomes :
        \/ CanAdd(r.db) /\ ReadThen(r.ok) /\ Done(listadd(r.db, l, v), TRUE)
        \/ pc = "run" /\ ~CanAdd(r.db) /\ Fail

\* How many of n calls of db_set fail, where db_read has returned ok: each
\* calls db_read again, until that succeeds.
Lost(ok, n) ==
    IF ok THEN {0} ELSE IF disk.form = "missing" THEN {n} ELSE 0 .. n

\* listrm key, for a key of list l.  strncpy leaves prefix_name without its
\* final NUL: the loops may run over l, over some other list, or over none.
\* The results of db_set are not looked at.
lrm(l, key) ==
    \E r \in ReadOutcomes :
        \/ \E m \in List : LET n == Len(LocalLines(r.db, m, key)) IN
              \E lost \in Lost(r.ok, n) : \E db \in listrm(r.db, m, key, lost) :
                  /\ m = l \/ key \notin {Item[m][i] : i \in ItemIndex}
                  /\ ReadThen(r.ok \/ lost < n)
                  /\ Done(db, ListLength(r.db, m) > 0)
        \/ ReadThen(r.ok) /\ Done(r.db, FALSE)

\* export sorts the table before it prints it.
Export ==
    \E r \in ReadOutcomes : \E db \in db_sort(r.db) :
        ReadThen(r.ok) /\ Done(db, FALSE)

\* Mutant of create: the file is opened without being truncated.
create_keeps ==
    /\ pc = "run"
    /\ db_file' = TRUE
    /\ need_write' = TRUE
    /\ elsewhere' = FALSE
    /\ UNCHANGED <<disk, pc, db_lines, db_already_readed>>

\* create truncates the file at once; the table in memory stays.
create ==
    /\ pc = "run"
    /\ disk' = Blank
    /\ db_file' = TRUE
    /\ need_write' = TRUE
    /\ elsewhere' = FALSE
    /\ UNCHANGED <<pc, db_lines, db_already_readed>>

\* create of another file while the database is open: db_open finds db_file
\* set, so the run goes on with the file it has, and will write it.
createOther ==
    /\ pc = "run"
    /\ db_file
    /\ need_write' = TRUE
    /\ elsewhere' = TRUE
    /\ UNCHANGED <<disk, pc, db_file, db_lines, db_already_readed>>

\* import of a file that holds t.  The file is read behind the lines already
\* in memory; then the database is opened and written at once.  If this run
\* has it open already, flock waits for a lock the run itself holds; behind
\* createOther it is the other file that is opened, and this one is left.
import(t) ==
    /\ pc = "run"
    /\ LET db == db_lines \o t IN
       IF Len(db) > MAX_LINES \/ elsewhere THEN Fail
       ELSE IF db_file
       THEN /\ pc' = "stuck"
            /\ db_lines' = db
            /\ db_already_readed' = TRUE
            /\ UNCHANGED <<disk, db_file, need_write, elsewhere>>
       ELSE IF disk.form = "missing" THEN Fail      \* db_write(NULL) crashes
       ELSE \E s \in db_sort(db) :
            /\ disk' = Kdb(s)
            /\ db_lines' = s
            /\ db_file' = TRUE
            /\ db_already_readed' = TRUE
            /\ need_write' = TRUE
            /\ UNCHANGED <<pc, elsewhere>>

\* edit runs "kdb export" in a child, which waits for the lock if this run
\* holds it, then an editor, then import.
edit(t) ==
    \/ (~db_file \/ elsewhere) /\ import(t)
    \/ (~db_file \/ elsewhere) /\ pc = "run" /\ UNCHANGED vars  \* the editor failed
    \/ /\ db_file /\ pc = "run" /\ pc' = "stuck"
       /\ UNCHANGED <<disk, db_file, db_lines, db_already_readed, need_write, elsewhere>>

\* Commands refused for their arguments: set or listadd of something that is
\* not name=value, listadd of a key without a final '_', listrm of a key
\* without a '_', sskls without its arguments, import of an unreadable file.
BadArgument == pc = "run" /\ Fail

\* The arguments are used up: if (result && need_write) db_write(); db_close().
Finish ==
    /\ pc = "run"
    /\ IF need_write /\ db_file
       THEN \E s \in db_sort(db_lines) : disk' = Kdb(s)
       ELSE UNCHANGED disk           \* without a file db_write crashes
    /\ Exit

\* A signal ends the run that waits for itself.
Killed == pc = "stuck" /\ Fail

Next ==
    \/ Start \/ Query \/ Export \/ create \/ createOther
    \/ BadArgument \/ Finish \/ Killed
    \/ \E n \in Name : isset(n)
    \/ \E n \in Name, v \in Value : set(n, v)
    \/ \E p \in Pattern, v \in Value : setWild(p, v)
    \/ \E p \in Pattern : delWild(p)
    \/ \E n \in Name, m \in NewKey : renameKey(n, m)
    \/ \E l \in List, v \in Value : ladd(l, v)
    \/ \E l \in List, i \in ItemIndex : lrm(l, Item[l][i])
    \/ \E t \in KdbFiles : import(t) \/ edit(t)

Spec == Init /\ [][Next]_vars

-----------------------------------------------------------------------------
(* Properties.                                                             *)

\* No command sequence of kdb leaves a key twice in the table or in the file,
\* although db_add, rename and the second loop of listrm append without
\* looking (kdb.c 571-584, 732-786, 830-861); find_key only ever sees the
\* first of two.
UniqueNames ==
    /\ UniqueIn(disk.lines)
    /\ pc = "run" => UniqueIn(db_lines)

\* A run writes back what it has read, although del, rename, listadd, listrm
\* and set of a pattern go on when db_read fails: a run that has marked the
\* table for writing has read the file to its end, or to the damage at which
\* every run has to stop.  It does lose what lies behind a damage (kdb.c
\* 266-309, 1005).
NoBlindWrite ==
    (pc = "run" /\ need_write) =>
        /\ disk.form = "kdb" => db_already_readed
        /\ disk.form = "damaged" => db_already_readed \/ db_file

\* import appends to db_lines without clearing it (kdb.c 486-516).  It still
\* replaces the database and never mixes two of them: in a run that has not
\* opened the file, the only kind that gets through import's db_open, the
\* table is empty.
ImportStartsEmpty ==
    (~db_file /\ disk.form # "missing") => db_lines = EmptyTable

\* A command line of several ARGs comes to its end: no run waits for a lock
\* that it holds itself (kdb.c 110, "[OPTIONS] ARG [: ARG]").
NeverWaitsForItself == pc # "stuck"

-----------------------------------------------------------------------------
(* The session program implements the store.                               *)

\* What the run would see: the table once it is read, the file before.
Seen == IF pc = "run" /\ NothingToRead THEN db_lines ELSE disk.lines

Store == INSTANCE KdbStore WITH
    store  <- Contents(disk.lines),
    intact <- disk.form = "kdb",
    work   <- Contents(Seen),
    active <- pc = "run",
    Loads  <- {Contents(t) : t \in KdbFiles}

\* Every run of kdb acts on what can be read of the file as a transaction on a
\* map from names to values: its commands change a private copy as the
\* abstract operations do (set, del, rename, listadd, listrm), and the copy
\* replaces the file when the last command has succeeded and never otherwise.
\* Only while there is no file that can be read to its end may listrm lose the
\* elements it should keep (kdb.c 942-1008).
ImplementsStore == Store!Spec

=============================================================================
