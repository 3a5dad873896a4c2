------------------------------ MODULE MacAlloc ------------------------------
(***************************************************************************)
(* The boot script package/webface/files/etc/init.d/kdb, which gives every *)
(* interface a MAC address and keeps base, next number and addresses in    *)
(* the kdb database, over any number of reboots.                           *)
(*                                                                         *)
(* A kdb command line changes the database as a whole (see KdbSession).    *)
(* If the power fails while it writes, a prefix of the new file stays:     *)
(* kdb writes its keys in strcmp order, and there the addresses            *)
(* sys_iface_*_mac come before sys_ifaces_mac_base and this one before     *)
(* sys_ifaces_mac_next.                                                    *)
(***************************************************************************)
EXTENDS Integers, Sequences, FiniteSets

CONSTANTS
    Ifaces,     \* the interfaces, in the order of the loop and of strcmp
    Base,       \* what may come out of /dev/urandom as the first five bytes
    BadBase,    \* BAD_MAC_BASE, one of them
    Draw,       \* what may come out of $RANDOM % 230
    MaxEdits,   \* how often a user saves the address of an interface
    MaxTears    \* how often the power fails while kdb writes

ASSUME IfacesAssumption == Ifaces \in Seq(STRING)

ASSUME BaseAssumption ==
    BadBase \in Base /\ Base \cap {"none", "broken", "custom"} = {}

ASSUME DrawAssumption == Draw \subseteq 0 .. 229

ASSUME BoundsAssumption == MaxEdits \in Nat /\ MaxTears \in Nat

Slot == DOMAIN Ifaces

NoNext == -1
NoMac == [base |-> "none", num |-> 0]
Broken == [base |-> "broken", num |-> 0]        \* a piece of an address
Custom == [base |-> "custom", num |-> 0]        \* one the user has entered

Mac(b, n) == [base |-> b, num |-> n]

VARIABLES
    kdb,        \* the file: its form and the keys of the script
    pc,         \* "off", the place in the script, or "up"
    i,          \* the position of the loop
    sh,         \* the shell variables: base, next, mac
    redrawn,    \* was a base drawn that an address in the file already has?
    edits,
    tears

vars == <<kdb, pc, i, sh, redrawn, edits, tears>>

NoKeys == [base |-> "none", next |-> NoNext, mac |-> [s \in Slot |-> NoMac]]

File(form, keys) == [form |-> form, keys |-> keys]

TypeOK ==
    LET Number == Nat \cup {NoNext}
        Name   == Base \cup {"none", "broken", "custom"}
        Keys   == [base : Name, next : Number,
                   mac : [Slot -> [base : Name, num : Nat]]]
    IN  /\ kdb \in [form : {"missing", "blank", "bad", "good"}, keys : Keys]
        /\ pc \in {"off", "start", "generate", "eval", "loop", "done", "up"}
        /\ i \in 1 .. Len(Ifaces) + 1
        /\ sh \in Keys
        /\ redrawn \in BOOLEAN
        /\ edits \in 0 .. MaxEdits
        /\ tears \in 0 .. MaxTears

Init ==
    /\ kdb = File("missing", NoKeys)
    /\ pc = "off"
    /\ i = 1
    /\ sh = NoKeys
    /\ redrawn = FALSE
    /\ edits = 0
    /\ tears = 0

-----------------------------------------------------------------------------
(* Writing the database.                                                   *)

\* What a prefix of an address reads as: shorter by its last digit it may be
\* an address still.
TornMac(m) ==
    {NoMac, Broken} \cup (IF m.num >= 16 THEN {Mac(m.base, m.num \div 16)} ELSE {})

\* What a prefix of a decimal number reads as.
TornNumber(n) == {NoNext} \cup {n \div d : d \in {k \in {10, 100} : n >= k}}

\* The keys in a prefix of the file: it ends at address k, at the base, at
\* the next number, or behind them.
TornKeys(keys) ==
    (UNION {{[NoKeys EXCEPT !.mac = [s \in Slot |-> IF s < k THEN keys.mac[s]
                                                   ELSE IF s = k THEN m ELSE NoMac]] :
              m \in IF keys.mac[k] = NoMac THEN {NoMac} ELSE TornMac(keys.mac[k])} :
             k \in Slot})
    \cup {[keys EXCEPT !.base = b, !.next = NoNext] : b \in {"none", "broken", keys.base}}
    \cup {[keys EXCEPT !.next = n] : n \in {keys.next} \cup TornNumber(keys.next)}

\* A line cut in its name makes db_read fail: the file is bad, its first
\* lines are still listed.
Torn(keys) ==
    {File("blank", NoKeys)} \cup {File(f, k) : f \in {"good", "bad"}, k \in TornKeys(keys)}

Off == pc' = "off" /\ i' = 1 /\ sh' = NoKeys

\* The power fails in the middle of a write and leaves one of files.
Tear(files) ==
    /\ tears < MaxTears
    /\ tears' = tears + 1
    /\ kdb' \in files
    /\ Off

\* "kdb set ..." of a script that goes on at pc = next with the variables
\* vs.  A bad file makes kdb fail, and the script does not look; on a blank
\* one kdb may go either way.
KdbSet(keys, next, vs, pos) ==
    \/ /\ \/ kdb.form \in {"good", "blank"} /\ kdb' = File("good", keys)
          \/ kdb.form \in {"bad", "blank"} /\ UNCHANGED kdb
       /\ pc' = next /\ sh' = vs /\ i' = pos
       /\ UNCHANGED tears
    \/ kdb.form \in {"good", "blank"} /\ Tear(Torn(keys))

-----------------------------------------------------------------------------
(* The script.                                                             *)

PowerOn ==
    /\ pc = "off"
    /\ pc' = "start"
    /\ UNCHANGED <<kdb, i, sh, redrawn, edits, tears>>

\* [ -f /etc/kdb ] || cp /etc/kdb.default /etc/kdb
\* The default file has none of the keys.
CopyDefault ==
    /\ pc = "start"
    /\ UNCHANGED <<redrawn, edits>>
    /\ \/ /\ kdb' = IF kdb.form = "missing" THEN File("good", NoKeys) ELSE kdb
          /\ pc' = "generate"
          /\ UNCHANGED <<i, sh, tears>>
       \/ /\ kdb.form = "missing"
          /\ Tear({File(f, NoKeys) : f \in {"blank", "bad", "good"}})

\* A base and a first number are drawn if no base is stored.
Generate(b, n) ==
    /\ pc = "generate"
    /\ kdb.keys.base = "none"
    /\ IF b = BadBase
       THEN /\ sh' = [sh EXCEPT !.base = b]     \* "storing skipped"
            /\ pc' = "eval"
            /\ UNCHANGED <<kdb, i, tears>>
       ELSE KdbSet([kdb.keys EXCEPT !.base = b, !.next = n], "eval",
                   [sh EXCEPT !.base = b], i)
    /\ redrawn' = (redrawn \/ \E s \in Slot : kdb.keys.mac[s].base = b)
    /\ UNCHANGED edits

HaveBase ==
    /\ pc = "generate"
    /\ kdb.keys.base # "none"
    /\ pc' = "eval"
    /\ UNCHANGED <<kdb, i, sh, redrawn, edits, tears>>

\* Mutant of Eval: -o for -a.
EvalEither ==
    LET keys == kdb.keys
        vs == [keys EXCEPT !.base = IF @ = "none" THEN sh.base ELSE @]
    IN  /\ pc = "eval"
        /\ sh' = vs
        /\ pc' = IF vs.base # "none" \/ vs.next # NoNext THEN "loop" ELSE "done"
        /\ UNCHANGED <<kdb, i, redrawn, edits, tears>>

\* eval `kdb ls ...`: a key that is not stored leaves its variable alone.
Eval ==
    LET keys == kdb.keys
        vs == [keys EXCEPT !.base = IF @ = "none" THEN sh.base ELSE @]
    IN  /\ pc = "eval"
        /\ sh' = vs
        /\ pc' = IF vs.base # "none" /\ vs.next # NoNext THEN "loop" ELSE "done"
        /\ UNCHANGED <<kdb, i, redrawn, edits, tears>>

\* Mutant of Assign: the next number is not stored.
AssignOnlyMac ==
    /\ pc = "loop"
    /\ i \in Slot /\ sh.mac[i] = NoMac
    /\ KdbSet([kdb.keys EXCEPT !.mac[i] = Mac(sh.base, sh.next)],
              "loop", [sh EXCEPT !.next = @ + 1], i + 1)
    /\ UNCHANGED <<redrawn, edits>>

\* One interface: without an address it gets the next one, and address and
\* next number are stored by one command.
Assign ==
    /\ pc = "loop"
    /\ i \in Slot /\ sh.mac[i] = NoMac
    /\ KdbSet([kdb.keys EXCEPT !.mac = [@ EXCEPT ![i] = Mac(sh.base, sh.next)],
                               !.next = sh.next + 1],
              "loop", [sh EXCEPT !.next = @ + 1], i + 1)
    /\ UNCHANGED <<redrawn, edits>>

\* Mutant of Skip: the number is increased for every interface.
SkipCounts ==
    /\ pc = "loop"
    /\ i \in Slot /\ sh.mac[i] # NoMac
    /\ i' = i + 1
    /\ sh' = [sh EXCEPT !.next = @ + 1]
    /\ UNCHANGED <<kdb, pc, redrawn, edits, tears>>

Skip ==
    /\ pc = "loop"
    /\ i \in Slot /\ sh.mac[i] # NoMac
    /\ i' = i + 1
    /\ UNCHANGED <<kdb, pc, sh, redrawn, edits, tears>>

\* Mutant of EndLoop: the last interface is left out.
EndLoopEarly ==
    /\ pc = "loop"
    /\ i >= Len(Ifaces)
    /\ pc' = "done"
    /\ UNCHANGED <<kdb, i, sh, redrawn, edits, tears>>

EndLoop ==
    /\ pc = "loop"
    /\ i \notin Slot
    /\ pc' = "done"
    /\ UNCHANGED <<kdb, i, sh, redrawn, edits, tears>>

\* The other boot scripts run, then the web interface.
Up == pc = "done" /\ pc' = "up" /\ UNCHANGED <<kdb, i, sh, redrawn, edits, tears>>

\* The page of an interface saves its MAC Address field, also when empty.
SaveIface(s, m) ==
    /\ pc = "up"
    /\ kdb.keys.mac[s] # m
    /\ edits < MaxEdits
    /\ KdbSet([kdb.keys EXCEPT !.mac[s] = m], "up", sh, i)
    /\ edits' = edits + 1
    /\ UNCHANGED redrawn

PowerOff == pc # "off" /\ Off /\ UNCHANGED <<kdb, redrawn, edits, tears>>

Next ==
    \/ PowerOn \/ CopyDefault \/ HaveBase \/ Eval \/ Assign \/ Skip \/ EndLoop
    \/ Up \/ PowerOff
    \/ \E b \in Base, n \in Draw : Generate(b, n)
    \/ \E s \in Slot, m \in {NoMac, Custom} : SaveIface(s, m)

Spec == Init /\ [][Next]_vars

-----------------------------------------------------------------------------
(* Properties.                                                             *)

Generated == {s \in Slot : kdb.keys.mac[s].base \in Base}

\* No two interfaces have the same generated address, at whatever points the
\* power has failed (lines 29-55).  After a torn write this needs luck: that
\* no base is drawn twice, and that no user has emptied addresses (numbers
\* given again and a number cut short can meet).
UniqueMacs ==
    (tears = 0 \/ (~redrawn /\ edits = 0)) =>
        \A s, t \in Generated : kdb.keys.mac[s] = kdb.keys.mac[t] => s = t

\* Reboots do not use up numbers: those from the first one drawn up to the
\* next one have each gone to an interface, so that addresses stay below
\* 229 + 8 plus the number of times a user has emptied one.  (%x of a
\* number above 255 is no byte.)
NoneWasted ==
    (tears = 0 /\ kdb.keys.next # NoNext) =>
        kdb.keys.next + Cardinality({s \in Slot : kdb.keys.mac[s] = NoMac})
            <= 229 + Len(Ifaces) + edits

\* A boot that has come to the end of the script with base and number stored
\* leaves no interface without an address.
AllHaveMac ==
    (tears = 0 /\ pc = "done" /\ kdb.keys.next # NoNext) =>
        \A s \in Slot : kdb.keys.mac[s] # NoMac

=============================================================================
