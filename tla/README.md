# Verification of flyrouter

flyrouter is a distribution for small Linux routers: a build system, a few
kernel drivers of its own, and the web interface *webface* with the boot
scripts that configure the device. All configuration lives in one database
file, `/etc/kdb`, that the program `kdb` (`package/webface/kdb.c`) reads and
writes. Scripts and CGI programs run `kdb` at any time and side by side; the
power may go at any time. These modules model `kdb`, the scripts that depend
on it most, and the driver of the distribution's own DSL card (mr17h), in which
an interrupt handler, softirqs, a monitor and user processes share rings,
buffers and flags.

## 1. Inventory

| part | state | operations | interacts with | what is hard | what makes it correct |
|---|---|---|---|---|---|
| kdb table (`kdb.c` 193-436, 571-861) | `db_lines`, its count | `db_add`, `db_set`, `db_del_index`, `db_sort`, `rename`, `listadd`, `listrm` | called by the commands | capacity `MAX_LINES`; appends without a look-up; NULL arguments | every key once, never more than `MAX_LINES` |
| kdb command line (`kdb.c` 486-1008) | `db_file`, `db_already_readed`, `need_write` | 15 commands joined by `:` | the table, the file | one of several commands fails; commands go on after a failed `db_read`; `import` in the middle | a run is a transaction on a map |
| kdb file and lock (`kdb.c` 149-174, 266-309, 438-469, 887-904) | the file, the flock, the stdio buffer | `db_open`, `db_read`, `db_write`, `db_close`, `createdb` | all runs of `kdb` | interleaving, death in the middle of a write, lock order | runs are serialised; none waits for ever |
| kdb strings (`kdb.c` 209-262, 1019-1195) | none | `str_escape`, `str_unescape`, `parse_pair`, `match_wildcard` | the file format | character classes, signedness of `char`, digits behind an escape | what is written reads back |
| MAC addresses at boot (`files/etc/init.d/kdb`) | keys `sys_ifaces_mac_base`, `_next`, `sys_iface_*_mac` | draw a base, give one address per interface | `kdb`, the web page of an interface | power failure between or within two writes | no address twice, none missing |
| network start-up (`files/etc/init.d/network`) | `sys_ifaces_next_unit`, `sys_iface_*_ppp_unit`, pid files, pppd | `ifup`, `ifdown`, `kill_ppp` | `kdb`, pppd, the web pages | the counter is read long before it is written; pid files name the wrong process or none | one unit, one interface; one pppd for each |
| web interface list (`files/www/lib/misc.sh`, `controllers/ifaces.sh`) | `sys_ifaces`, keys of an interface | `get_next_iface`, `iface_add`, `iface_del`, `iface_update_sys_ifaces` | `kdb`, `ifup`, `ifdown` | read-modify-write over several runs of `kdb` | no interface is lost |
| mr17h network device (`mr17h-drv/sg17main.c`, `sg17ring_funcs.h`) | transmit and receive ring, IMR, CRA, the queue of the stack | open, close, start_xmit, tx_timeout, link up and down, link support, interrupt | the kernel, the chip, the monitor | interrupt inside the loops that free buffers; stop of the queue behind the last interrupt; status thrown away; no memory | no descriptor without its buffer; the receiver is fed; the queue wakes |
| mr17h SCI channel (`sg17sci.c`, `sdfe4_lib.c` 230-440) | `tx_buf`, `rx_msg`, wait queue | command, answer, notification, acknowledgement, time-out, signal | the chip, the monitor, sysfs | lost wake-up, late answer, one buffer for two writers | a command gets its own answer, is woken by it, and returns |
| mr17h EOC ring (`eoc_ring.c`) | slots of fragments, `head`, `tail` | append, abort, read | interrupt handler, readers of sysfs | full ring, no memory, a reader that sleeps between look and copy | messages whole, in order, once |
| mr17h chip library and monitor (`sdfe4_lib.c` 620-1040) | flags in a bit field, settings | notifications, set-up, start and stop of a channel, `sdfe4_state_mon` | interrupt handler, network device, sysfs | flags changed by read-modify-write while the handler sets others; commands that fail and are not repeated | a failed line is started again; carrier and rate follow the line |
| mr17h sysfs (`sg17sysfs.c`) | settings of a channel | store rate, apply, read EOC | monitor | settings changed while the monitor uses them | what was applied is what the chip has |
| mr16g, adm5120 drivers | rings | as mr17h | | as mr17h | not modelled |
| flyavr firmware and host driver | TWI state, ring buffers | interrupt handler, main loop, ioctl | TWI bus | interrupt against main loop | bytes in order, none lost silently |
| templates, hdb, htpasswd, mtd, vlhttp, robocfg, wificonf | none or third-party | | | | not modelled, see `PROJECT.json` |

`PROJECT.json` lists the hazards with their lines and the properties that would
catch them, or the reason why none does.

## 2. Modules and how they follow the code

    KdbTable      db_lines and the functions on it; constant operators only
      KdbSession  main() and all commands, one run at a time
        KdbStore  (abstract) a map with transactions; KdbSession implements it
        MCKdbSession
      KdbFile     runs that overlap: fopen, flock, read, write, fclose, kill
        MCKdbFile
    KdbString     the string functions, on sequences of character codes
    MacAlloc      init.d/kdb with reboots, cut writes and edits
      MCMacAlloc
    Ifaces        PPP interfaces: web requests, ifup and ifdown side by side
      MCIfaces
    SgRing        struct sg_ring and its functions; constant operators only
      Sg17Net     the network device of the DSL card
    Sg17Sci       commands and answers between driver and DSL chip
    Sg17Link      the monitor of one DSL channel, with the chip
    EocRing       ring of EOC messages
      EocQueue    (abstract) a queue of messages; EocRing implements it

    KdbTableProofs       lemmas about the operators of KdbTable
      KdbSessionProofs   KdbSession and its refinement of KdbStore
      KdbFileProofs      KdbFile
    MacAllocProofs, IfacesProofs, Sg17NetProofs (with lemmas about SgRing),
    Sg17ChipProofs (Sg17Sci and Sg17Link),
    EocRingProofs (with the refinement of EocQueue)

**KdbTable.** A table is a sequence of records; a name is a number whose order
is the `strcmp` order of the string it stands for. A wildcard pattern is the
set of names it matches. `Item[l][i]` is the string that `snprintf("%s%d")`
makes; the only fact used about it is that it is injective, which holds because
list prefixes end in `_`. `qsort` is not stable, so `db_sort` is a set of
tables; the other walks are sets with one member. C index `i` is `i + 1` here,
and the index `-1` for "not found" is 0. Lengths of strings (`MAX_LINE_SIZE`,
the 32 KB buffer of `db_write`) are left out.

**KdbSession.** The variables are those of the program. An action is one
command of the loop in `main`, with the `db_read` it starts with. `Fail` is
`break` with `result == false`; `Finish` is the end of the loop. What the
printing commands print is left out (`Query`).

The file is missing, blank (no bytes, as `create` leaves it), a kdb file, or
damaged: its header is bad, a line has no `=` or an empty name before it (a cut
write, an empty key), or it has more lines than fit. Only what stands before the
damage can ever be read, and `disk.lines` is that part. The first `db_read` in a
damaged file takes these lines and returns false; a later one goes on behind the
damage, where it takes the next line for a header and fails, until it comes to the
footer, which passes for a header, or to the end (`ReadAgain`). The commands that
ignore its result go on with what was read. `set` and the second loop of `listrm`
go through `db_set`, which calls `db_read` once more and does nothing if that
fails: `Lost` says how many of the elements `listrm` wants to keep are gone.
Damaged files are there at the start and every run that writes replaces them; how
a write is cut is the matter of KdbFile and MacAlloc. A key behind the damage that
begins with `KDB` would pass for a header, and the records behind it would be read;
this is left out.

Undefined behaviour is a choice: at the end of a file or in one without bytes
`db_read` tests an uninitialised `head_buf` (`ReadAgain`), and `listrm` copies its
prefix without the final NUL, so that `lrm` may walk the list it should, another
one, or none. `listadd` of something that is not `name=value` looks at an
uninitialised name; only the outcome where it is refused is modelled
(`BadArgument`). `createOther` is `create` with the name of another file while the
database is open: the run keeps the file it has, and `elsewhere` says that the
name no longer is that file's; what a later `import` then does to the other file is
left out. The files to import (`KdbFiles`) are ones that `export` or `db_write` made.

**KdbStore** says what a run promises: `store` is a map from names to values,
`work` the copy of the run in progress; `Commit` replaces the store by the
copy, `Abort` drops the copy. Two commands reach the store before the end of
the run, as in the code: `create` (`Wipe`) and `import` (`Load`). `intact` says
whether the file can be read to its end. Only while it cannot may `listrm` lose
elements of the list on the way (`Spill`); on an intact file it is `Pull`.

**KdbFile.** One action is one system call or one command without any. The file
is a sequence of lines and offsets count lines. stdio is modelled from how
`kdb.c` uses it: a read of the file happens in one or several `read` calls
(`Fill`, `FillLast`), `fwrite` writes some prefix at once and keeps the rest,
`rewind` and `fclose` write what is kept, and a killed process loses it. `flock`
is owned by one process and dropped when it dies. Of the commands, `set`, `del`
of one name, `isset` and the printing ones are there (the others differ only in
what they do to the table, which is KdbSession's matter), and `create` and
`import` because they open the file in other ways. `truth` and `shadow` are
history: what the file should hold if runs were one after the other, and what
the running commands should be changing; no action of kdb reads them.

**KdbString.** Strings are sequences of codes 1-255. `signed` says how the build
treats `char`: the octal escape of a code above 127 shifts a negative number
on MIPS and x86 and a positive one on ARM. The state is one input, grown by a
character a step, so that TLC enumerates all inputs up to a length; one run
grows records (name and value) and patterns (pattern and string).

**MacAlloc.** A kdb command line of the script is one step (KdbSession justifies
it), or a torn one: then the file is cut at an arbitrary point of the sorted
lines, where the addresses come before the base and the base before the next
number. A cut address may still look like an address (its last digit missing),
a cut number may still be a number. A file cut within a name makes `db_read`
fail; the script does not look at the result. Power may go in every state. The
user may enter or empty an address while the device is up.

**Ifaces.** A script is a process with its own copies of what it has read; each
of its kdb command lines is one step (KdbFile justifies it, up to its three
hazards), and all scripts interleave. `ifup` reads `sys_iface*` when it starts
(line 300) and the keys of its interface later, gives a unit and moves the
counter on in one command line (129), kills an old pppd and starts one.
`ReadKeys` and `FirstUnit` follow the two independent tests at 122 and 127, so
an interface that has a unit may still reset a counter that was not set when
the script started. `kill_ppp` kills one process by its pid file; only pptp has
such a file under the name looked for, so that a pppoe interface keeps its old
pppd (lines 26 and 224): for it OnePppd does not hold and is not claimed.
`oldList`, `oldUnit` and `shared` are history: a script has written a list made
from data changed meanwhile, has given a unit from a counter changed meanwhile,
or two scripts have worked on one interface. The scripts have no lock, so these
things happen; the properties say what holds until they do, and that nothing
else can break it.

**The mr17h modules** have their scheduling in common. The kernels of the target
are uniprocessor and not preemptible, so spin locks without `irqsave` are empty,
a process loses the processor to another process only where it sleeps, and an
interrupt may come between any two steps. History variables again mark the
faults that are certain once their window is hit.

**SgRing, Sg17Net.** A ring record has the three indices of the descriptors
(first not freed, current of the device, last), the two of the buffers, and the
set of slots that hold a buffer. `sg_ring_del_skb` outside the handler takes two
steps, with a place for the interrupt between them; inside the handler the loop
is `Drain`. `job` says where a process (open, close, link changes, link support)
and a softirq (transmit, watchdog) are. The device finishes descriptors in order
(`HwSend`, `HwReceive`), and may run out of data (`HwUnderflow`). `raced` is set
when the handler changes a ring between another one's look at it and the end of
the change; the model stops there (`Halt`), since what follows is a double free.
`starved` is set when a refill finds no memory for a single buffer.

**Sg17Sci.** `tx_buf` is two halves (the header and the rest) and a length, each
marked with whose it is; a process fills it in one step and sets TXLEN and TXEN
in another. `sg17_sci_recv` copies `rx_msg` byte by byte with interrupts on: the
bytes up to the id in one step (`RecvHead`), the others in another (`RecvRest`),
and an answer may be written over `rx_msg` between them. An oversized frame of the
chip leaves RXEN off for good (`IntrOversize`); from then on a time-out returns
success (`sg17sci.c` 255) and the command goes on with what is in `rx_msg`, as it
does after a signal (`GoesOn`). The chip answers a command once or never. `dirty`
is set for a command for which another answer with its id may come, into whose copy
another answer was written, or that goes on without an answer while one to another
command with its id is in `rx_msg`; `missed` for one whose answer came between
transmission and sleep; `raced` when the handler wrote to `tx_buf` between the two
steps of a process.

**Sg17Link.** The chip goes from its initial state through activation and data
mode to a synchronised line, may fall back at any time, and sends a notification
for each change. The monitor takes one step for each test of the flags, each
clearing of a flag (a read and a later write of the whole word, `word`) and each
command. The set-up of a channel is three steps around the read of the rate: the
commands before it, at whose end the rate is copied into the list of capabilities
(`SetupMode`, `caplist`), the command with that list (`SetupCaplist`), and the
commands behind it (`SetupSdi`); the user may store and apply in each of these
sleeps. A command may fail on either side. Messages of the chip arrive in order,
and a command ends after the notifications sent before it. `unseen` and `lost`
stand for a notification wiped out and a command that the chip did not do;
`stale` for a flag left over from before the start of the chip; `excused` for
the reasons why settings may differ that AppliedIsSetUp names.

**EocRing.** A slot is a sequence of fragments; each fragment knows its message
and its number there. `hurt` is the set of messages that a fault has hit: no
memory, no room, too many fragments, failed reception, remains of the message
before. `rbuf_abort_new` empties the slot at `head` and not the one at `tail`
(line 98), as in the code, so that the fault hits the oldest message and the one
to come. A reader looks (`GetCur`), copies, frees the slot and moves `head`; the
interrupt may come between any two of these, other readers only before the copy.
`broken` is set when two readers are between look and copy, or when a failed
reception comes inside the loop in which a reader frees the slot, so that fragments
are freed twice.
**EocQueue** is the promise: messages are put together, completed, emptied in
place at the front, and taken from the front, at the moment of the copy.

## 3. Runs

| run | expects | properties | shows |
|---|---|---|---|
| KdbSession | pass | TypeOK, UniqueNames, NoBlindWrite, ImportStartsEmpty, ImplementsStore | any sequence of runs with any commands keeps keys unique and is a sequence of transactions on a map, also on a file that is missing, blank or damaged |
| KdbFile | pass | TypeOK, SerialUnlessTainted, ReadsLatest, NoLostUpdate | overlapping runs are serialised unless one of three hazards happens |
| KdbFileLive | pass | RunsEnd | every run ends |
| KdbString | pass | RecordReadsBack, MatchesAsDocumented | a written record reads back; wildcards mean what the comment says, up to `**` and `*\` |
| MacAlloc | pass | TypeOK, UniqueMacs, NoneWasted, AllHaveMac | addresses are unique and complete over reboots, and unique after a cut write |
| Ifaces | pass | TypeOK, UniqueUnits, ListComplete, OnePppd | units, the list and pptp's pppd stay right until a script uses an old copy or two work on one interface |
| Sg17Net | pass | TypeOK, DmaSafe, RxFed, ClosedIsQuiet, TxResumes | descriptors have buffers, the receiver is fed, a closed device is quiet, a stopped queue is woken |
| EocRing | pass | TypeOK, DamageConfined, InOrder, ImplementsQueue | faults hit only the messages named; the ring is a queue |
| Sg17Sci | pass | TypeOK, OwnAnswer, WokenByAnswer, FramesWhole, CommandReturns | which answer a command takes, with interrupts in the middle of its copy and the receiver off, and that it returns |
| Sg17Link | pass | LinkTypeOK, AppliedIsSetUp, RateIsAgreed, Restarts, CarrierFalls, CarrierRises | settings, rate, restart and carrier follow the line, up to wiped notifications and lost commands |
| KdbFileSerial | violation | Serial | `FUNLOCK` comes before `fclose`: two `set` lose an update |
| KdbSessionStuck | violation | NeverWaitsForItself | `ls : import f` waits for its own lock |

The three hazards of KdbFile, each recorded by `tainted` at the step where it
happens, are: a run takes the lock before the previous holder's `fclose` has
written its buffer; `create` truncates the file while another run holds the
lock or has lines buffered; a run dies with lines in its buffer. KdbFileSerial
shows the first one with two plain `set` commands. SerialUnlessTainted shows
that there is no fourth: failed commands, kills before the write, reads in
several pieces, double writes by `import` and queues on the lock all leave the
file as it should be.

What the modules contain and the properties except, because one call is enough
to see it:

* `rename x` without a second argument takes index 0 for "found" and deletes the
  first record (`kdb.c` 387, 574). `KdbTable` has the NULL key; `NewKey` of the
  run leaves it out, with it ImplementsStore fails at once.
* `listrm` copies its prefix without the NUL (`kdb.c` 746). The choice of what
  it then finds is in the run: names stay unique, but the list may keep the item.
* A run whose `db_read` fails at a damaged line, and whose commands do not look at
  that, writes what it has read and loses the rest; `listrm` then loses elements
  of its list as well (`kdb.c` 780). NoBlindWrite says that it loses no more than
  that, and ImplementsStore that `listrm` does so only there.
* BEL is written as `\a\b` (`kdb.c` 1030, a missing `break`) and comes back as two
  characters; RecordReadsBack excepts it.
* In `match_wildcard` a `*` followed by `*` or `\` looks for that character itself
  (`kdb.c` 1160-1178); MatchesAsDocumented excepts such patterns.
* The pppd of a pppoe interface is never killed (`network` 26, 224).
* `rbuf_abort_new` empties the wrong slot (`eoc_ring.c` 98).

Bounds and why they are enough:

* KdbSession: three records of room, four names, one list with its index -1,
  three patterns, three files to import. The table gets full, lists have up to
  three elements, and an import overflows; the next record would be handled by
  the same branches. Each of the three files is also the readable part of a damaged
  one: of one with a bad header, of one cut in the middle, and of one with too many
  lines. Runs have any number of commands, because the number of
  commands is not part of the state. Two values tell "changed" from "kept".
* KdbFile: two runs at a time, two keys, two commands each, any number of runs
  one after the other. A third waiter would meet the lock in the same three
  situations (free, held, held with a buffer to come); the proofs hold for any
  number. The processes are symmetric. The state constraint stops at tainted
  states, of which the properties of that run say nothing.
* KdbFileLive: one key and one command, because only the order of steps matters
  for the end of a run; no symmetry and no constraint, which liveness forbids.
* KdbString, records: fifteen characters, at least one of each class the code
  tells apart and the borders 127, 128 and 255; length two puts every class
  behind and before every other, which is as far as the code looks, and in the
  name as well as in the value. Three octal digits followed by a digit are
  covered. Patterns: `*`, `\` and two letters, lengths up to four: two stars with
  a character behind each, and the strings that need a second attempt.
* MacAlloc: the eight interfaces of the script, three bases of which one is the
  bad one, the lowest interesting and the highest first number, one edit and
  one cut write. `MaxEdits` and `MaxTears` are the bounds of the model, and
  `Draw` is what `$RANDOM % 230` may give.
* Ifaces: two scripts, one interface of each protocol, three units, two pppd for
  an interface. Two scripts suffice for every old copy; with one interface of
  each protocol two interfaces compete for a unit, and an interface is deleted
  and added again. The theorems hold for any number. Scripts are symmetric.
* Sg17Net: rings of three slots and three descriptors, so that a ring is empty,
  partly and fully filled and every index wraps; any number of frames. The
  invariants are about distances in the ring, which a longer one only repeats.
* EocRing: three slots of two fragments, messages of up to three fragments (one
  too many), four messages (one more than fit, and one behind them), two readers.
* Sg17Sci: two processes, two ids, three commands (a given-up one and two more),
  two messages on the way. The model ends when the commands are used up.
* Sg17Link: two rates, two notifications on the way: the one of a start and the
  one of the failure that follows. Any number of failures and reconfigurations.

Fairness:

* KdbFileLive: a run that does not wait goes on (weak fairness of its steps),
  because it makes no blocking call but `flock`; and `flock` gives a lock that is
  free again and again to each waiter in turn (strong fairness of `Lock`),
  because Linux queues the waiters of a file in order. Nothing is assumed of
  runs that have not started, or of kills.
* Sg17Net: the handler is taken and ends (weak). Interrupted code goes on and the
  watchdog of the stack comes back, each time the handler lets them (strong, as
  each interrupt disables them for a while); a device that is switched on again
  and again sends (strong). TxResumes has as a premise that interrupts leave gaps,
  i.e. frames arrive slower than the handler works; nothing in the driver ensures
  that. It does not assume that interrupts come.
* Sg17Sci: a process that can run does, and the timer of
  `interruptible_sleep_on_timeout` expires (weak). Nothing is assumed of the chip.
* Sg17Link: the monitor is scheduled every two seconds and each of its commands
  ends (Sg17Sci's CommandReturns); a notification on its way arrives (weak).
  Nothing is assumed of the line.

`CHECK_DEADLOCK FALSE` stands where the model ends by a bound: Sg17Sci and EocRing
(commands and messages used up), KdbString (inputs at full length) and Ifaces
(a script that would give the unit past the bound waits).

## 4. Theorems

The provers' results hold for every capacity, all sets of names, values, lists,
patterns, processes and interfaces, all sizes of rings and messages, and every
bound of the models that meet the named assumptions. Each proof has the same
shape: an invariant `IInv` with one named conjunct per idea, a lemma per action
that the action keeps it, and theorems that read the property off it. No
property below is inductive by itself; what the invariant adds is said in each
case.

* **KdbSession**: `TypeCorrect`, `DistinctNames`, `WritesWhatItRead`,
  `ImportReplaces` (TypeOK, UniqueNames, NoBlindWrite, ImportStartsEmpty).
  `IInv` adds that nothing is left between runs (`Fresh`) and that a run which
  has opened a file that can be read to its end has read it (`Opened`).
  `KdbTableProofs` holds the lemmas about the operators: each keeps a table a
  table and names unique. Three are not obvious. `listadd` needs a free index
  when there is room: by the pigeonhole principle, since `MAX_LINES` list keys
  would fill the table. `listrm` needs its length, the least index without a
  key, to exist: by the least element of a non-empty set of numbers. And its
  second loop does not meet the names that the first has deleted.
  `IsTransaction` is the refinement ImplementsStore. A second set of lemmas of
  KdbTableProofs says what each operator does to the set of records; from these
  KdbSessionProofs shows that each does to the map what the operation of
  KdbStore does (`PutContents`, `FillContents`, `RemoveContents`,
  `MoveContents`, `PushContents`, `PullContents`, `SpillContents`,
  `MissContents`). Then every command is an operation or a stutter, a failed one an
  `Abort`, and the end of a run a `Commit`, for which NoBlindWrite is needed: what
  the run has is what can be read of the file, plus its changes. Where `listrm` loses
  elements, `db_read` has failed, and on an intact file it cannot (`ReadFacts`). The theorem has one hypothesis, `NewKey \subseteq Name`: rename
  has its second argument. Without it the statement is false.
* **KdbFile**: `TypeCorrect`, `Exclusive` (at most one run is between
  `flock(LOCK_EX)` and `flock(LOCK_UN)`), `KeepsUpdates` (NoLostUpdate),
  `Serialisable` (SerialUnlessTainted), `SeesLatest` (ReadsLatest). `IInv` says,
  as long as nothing is tainted: only one run has lines in its buffer, and no
  other has the lock meanwhile; the file, once that buffer is written, is the
  image of `truth`, or empty; what a run has read so far is the beginning of the
  file, and all of it when it has read the end; and the table of a run holds the
  records of the one it should have (`shadow`), in whatever order.
* **MacAlloc**: `TypeCorrect`, with any number of cut writes; `EveryIfaceServed`
  (AllHaveMac) and `NumbersLast` (NoneWasted), which speak of the time before the
  first one; `AddressesDiffer` (UniqueMacs), without cut writes for any list of
  interfaces and with any number of them for up to nine (after a cut write
  UniqueMacs speaks only of a device whose base was drawn once and whose addresses
  the user has not touched). All for any draws and any number of reboots and edits. As long as no write was cut (`Untorn`), all
  generated addresses have the stored base and a number below the stored next
  number, and inside the loop the shell's copies agree with the file for the
  interfaces still to come (`NextIsNew` is its main part). NoneWasted is part
  of `Untorn`: the numbers given so far are no more than the interfaces that have
  one, by the library's theorems on cardinality. After a cut write the shell
  still counts with a number in the loop (`Counting`), which TypeOK needs.
  What keeps the addresses apart then is arithmetic (`Sound`): the interfaces
  with an address are always the first ones of the list, their numbers are closer
  together than the list is long (`Apart`), and no number is in the way of those
  still to be given (`Ahead`). A number that loses a digit falls by at least nine
  (`CutFalls`), so it lands below all of these and the boot that counts on from it
  ends before it reaches them. With ten interfaces TLC finds the
  collision (a next number cut from 10 to 1); the script has eight, so the
  hypothesis is a fact about it and not a bound of the model.
* **Ifaces**: `TypeCorrect`, `UnitsDiffer`, `NoneForgotten`, `OneEach` (TypeOK,
  UniqueUnits, ListComplete, OnePppd), for any set of scripts and all bounds.
  `IInv` adds what a script's place says about the rest: a script that is about to
  give a unit has a counter (`NextIsSet`); every unit in use is below the counter
  as long as nobody used an old one (`UnitsBelow`), which is why the next one is
  new; an interface that no two scripts shared has at most one script at work
  (`Alone`), its keys are there while `ifup` works on it (`StillThere`), and it
  has no pppd between the kill and the start, or while it is being deleted
  (`Killed`).
* **Sg17Net**: `TypeCorrect`, `BuffersStay` (DmaSafe), `ReceiverFed` (RxFed),
  `StaysClosed` (ClosedIsQuiet), for rings of any size. The indices of
  descriptors and buffers of a ring move together, so that the slots with a
  buffer are those between the first and the last; a loop that frees works only
  on descriptors the device has finished; a process works on the rings only
  while the device is closed, a softirq only while it is open; no interrupt is
  pending when it is closed; and the receiver is not switched on while the link
  is down. The arithmetic modulo the size of a ring is in lemmas about SgRing.
* **Sg17Sci**: `TypeCorrect`, `AnswersMatch` (OwnAnswer), `AnswersWake`
  (WokenByAnswer), `WholeFrames` (FramesWhole), for any number of processes,
  ids, commands and messages. Numbers of commands are used once; a command
  that is not `dirty` is the only one that asks with its id, the only one sent
  with it, and the only one an answer with it is for, wherever this answer is:
  still in the chip, in `rx_msg`, or taken; and while it copies an answer whose id
  fits, `rx_msg` is its own.
* **Sg17Link**: `LinkTypeCorrect`, `SettingsReachChip` (AppliedIsSetUp) and
  `RegisterHasRate` (RateIsAgreed), for any number of rates and of notifications
  on the way. `LinkInv` adds what the monitor's place says: the settings are the
  user's until something else is written over them (`RateIsAsked`), are in the list
  of capabilities once the monitor has read them, and are in the
  chip when `need_reconf` is about to be cleared (`SetUpIsAsked`); the carrier is
  down from the reset of a channel to its start and up when its flag is cleared.
  RateIsAgreed needs that a chip that trains has not yet said that its line works
  (`NoSyncSaid`), so that the carrier comes up, and the register is set, only after
  the rate is agreed on (`NoSyncYet`). `LineIsFollowed` is the safety half of the
  three liveness properties: whenever the chip is in its initial state, or the
  carrier differs from the line, the notification is on the way, its flag is
  set, or the monitor is already starting the chip (`RestartDue`, `FallDue`,
  `RiseDue`). It needs that the last notification on the way says where the chip is
  (`LastSaid`) and that the handler only adds to the flags the monitor has read
  (`WordRead`). The rest of the liveness, that the monitor comes round and the
  message arrives, is fairness, and model-checked.
* **EocRing**: `TypeCorrect`, `Confined` (DamageConfined), `KeepsOrder`
  (InOrder) and the refinement `IsQueue` (ImplementsQueue). `IInv` says, as long
  as the ring is not `broken`: one reader at most is between look and copy, and
  its slot is the one at `head`; the slot of a message that is copied is empty or
  holds, if it is whole, a message that has been read (`Stages`); slots behind `tail` are empty; fragments are in
  the order of their reception from `head` to `tail` and older than what comes
  next; of a message in progress that no fault has hit, all fragments so far are
  at `tail`; and a finished one has been read or is whole in the ring.

Only model-checked:

* liveness (RunsEnd, TxResumes, CommandReturns, Restarts, CarrierFalls,
  CarrierRises): liveness under fairness is out of the prover's reach;
* KdbString (RecordReadsBack, MatchesAsDocumented): the functions are recursive
  over strings, and what they compute for every string takes an induction over
  data that the installed provers cannot do.

Every invariant and every action property of the other runs is stated by a theorem.

## 5. Not modelled

*kdb.* Printing commands and their output; lengths of strings and buffers; the
command that stores an empty name (`kdb.c` 619; the damaged file it leaves is one of
those KdbSession starts from); keys behind a damage that begin with `KDB`; what a run
does to another file after `create` has changed the name; `-q`
and the other options; disk-full and other errors of `fwrite` and `ftruncate`,
which `db_write` does not look at.

*Interfaces.* What `ifup` does to ethernet, bridge, bonding and wireless
interfaces: a fixed sequence of commands without state of its own.

*mr17h.* `sdfe4_download_fw` and the commands of its RAM phase: one process
before interrupts matter; its `while(1)` at `sdfe4_lib.c` 606 ends only if the
chip answers. `sdfe4_eoc_tx` (1198-1259) and the statistics and repeater
commands. The EOC pointer is NULL for
the moment between `memset` and its restoration (`sdfe4_lib.c` 82). The return
with -1 at `sdfe4_lib.c` 992 only delays the other channel of the card. Buffers
are leaked, not reused, at `sg17main.c` 229 and 329. Padding, statistics and
error counters.

*Other parts.* `PROJECT.json` lists them with the reason. The repository is for
the most part not its own program: kernel patches for each board, vendor and
third-party wireless drivers, firmware as C arrays, boot loaders and imported
packages make up about nine tenths of its lines of code, and firmware and
form pages much of the rest; a model of a large share of the lines is out of reach. The parts with state of
their own that are left are the mr16g driver, which has the rings and handlers of
mr17h with other registers, and the flyavr firmware with its host driver.

## 6. Plan

mr16g's own handlers, over SgRing, and flyavr: TWI slave, ring buffers, host
driver.
