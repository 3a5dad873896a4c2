------------------------------- MODULE Ifaces -------------------------------
(***************************************************************************)
(* The dynamic PPP interfaces of the router: the web page that adds and    *)
(* deletes them (www/controllers/ifaces.sh, www/lib/misc.sh) and the       *)
(* scripts ifup and ifdown (etc/init.d/network), which give each interface *)
(* a unit number and run its pppd.  All of them are processes that run at  *)
(* any time beside each other (start-up, web requests, hotplug) and share  *)
(* nothing but kdb; each kdb command line is atomic (KdbFile), and what a  *)
(* script has read may be old when it writes.                              *)
(*                                                                         *)
(* sys_ifaces is kept as a set, and of the keys sys_iface_X_* the unit and *)
(* whether there are any (X_valid).                                        *)
(***************************************************************************)
EXTENDS Integers

CONSTANTS
    Script,         \* processes
    MaxNum,         \* bound: interfaces of one protocol
    MaxUnit,        \* bound: units given away, the first of which is 100
    MaxPppd         \* bound: pppd processes of one interface

ASSUME BoundAssumption ==
    MaxNum \in Nat \ {0} /\ MaxUnit \in Nat \ {0} /\ MaxPppd \in Nat \ {0}

Proto == {"pptp", "pppoe"}
Iface == Proto \X (0 .. MaxNum - 1)
Unit == 100 .. 100 + MaxUnit
None == 0

VARIABLES
    sys_ifaces, valid,
    unit,           \* sys_iface_X_ppp_unit
    next_unit,      \* sys_ifaces_next_unit
    pppd,           \* how many pppd run for each interface
    job,            \* what each script does, and what it has read
    \* What has happened; these are read by no script.
    oldList,        \* has a script written a list made from an old one?
    oldUnit,        \* has one used an old sys_ifaces_next_unit?
    shared          \* interfaces on which two scripts have worked at once

kdb == <<sys_ifaces, valid, unit, next_unit>>
ghost == <<oldList, oldUnit, shared>>
vars == <<kdb, pppd, job, ghost>>

NoJob == [at |-> "idle", iface |-> <<"pptp", 0>>, list |-> {}, next |-> None]

TypeOK ==
    /\ sys_ifaces \subseteq Iface /\ valid \subseteq Iface
    /\ unit \in [Iface -> Unit \cup {None}]
    /\ next_unit \in Unit \cup {None}
    /\ pppd \in [Iface -> 0 .. MaxPppd]
    /\ job \in [Script -> [at : {"idle", "add", "rm", "ls", "list",
                                 "read", "first", "firstOnly", "assign", "kill", "start"},
                           iface : Iface, list : SUBSET Iface,
                           next : Unit \cup {None}]]
    /\ oldList \in BOOLEAN /\ oldUnit \in BOOLEAN /\ shared \subseteq Iface

Init ==
    /\ sys_ifaces = {} /\ valid = {}
    /\ unit = [i \in Iface |-> None] /\ next_unit = None
    /\ pppd = [i \in Iface |-> 0]
    /\ job = [p \in Script |-> NoJob]
    /\ oldList = FALSE /\ oldUnit = FALSE /\ shared = {}

-----------------------------------------------------------------------------
(* Scripts.                                                                *)

Busy(i) == \E p \in Script : job[p].at # "idle" /\ job[p].iface = i

\* The script p begins its work on the interface i.
Begins(p, j) ==
    /\ job[p].at = "idle"
    /\ job' = [job EXCEPT ![p] = j]
    /\ shared' = IF Busy(j.iface) THEN shared \cup {j.iface} ELSE shared

Goes(p, a) == job' = [job EXCEPT ![p].at = a]
Ends(p) == job' = [job EXCEPT ![p] = NoJob]

\* Mutant of kill_ppp: the pid file of pptp is looked for under another name.
kill_none(i) == UNCHANGED pppd

\* Only pptp gives its pppd the linkname that makes the name of the first pid
\* file; the name of the second one has "ppp" in it twice.
kill_ppp(i) ==
    pppd' = IF i[1] = "pptp" /\ pppd[i] > 0 THEN [pppd EXCEPT ![i] = @ - 1] ELSE pppd

-----------------------------------------------------------------------------
(* The page.                                                               *)

\* The numbers of proto that the list l does not have.
Free(proto, l) == {n \in 0 .. MaxNum - 1 : <<proto, n>> \notin l}

\* The list is read and the first free name taken.
get_next_iface(p, proto) ==
    /\ \E n \in Free(proto, sys_ifaces) :
          /\ \A k \in Free(proto, sys_ifaces) : n <= k
          /\ Begins(p, [at |-> "add", iface |-> <<proto, n>>, list |-> sys_ifaces,
                        next |-> None])
    /\ UNCHANGED <<kdb, pppd, oldList, oldUnit>>

\* Mutant of iface_add: the list is replaced.
iface_add_only(p) ==
    /\ job[p].at = "add"
    /\ sys_ifaces' = {job[p].iface}
    /\ valid' = valid \cup {job[p].iface}
    /\ oldList' = (oldList \/ sys_ifaces # job[p].list)
    /\ Ends(p)
    /\ UNCHANGED <<unit, next_unit, pppd, oldUnit, shared>>

iface_add(p) ==
    /\ job[p].at = "add"
    /\ sys_ifaces' = job[p].list \cup {job[p].iface}
    /\ valid' = valid \cup {job[p].iface}
    /\ oldList' = (oldList \/ sys_ifaces # job[p].list)
    /\ Ends(p)
    /\ UNCHANGED <<unit, next_unit, pppd, oldUnit, shared>>

\* iface_del: ifdown, then the keys, then the list from the keys that are
\* left.
iface_del(p, i) ==
    /\ Begins(p, [at |-> "rm", iface |-> i, list |-> {}, next |-> None])
    /\ IF i \in valid THEN kill_ppp(i) ELSE UNCHANGED pppd
    /\ UNCHANGED <<kdb, oldList, oldUnit>>

RemoveKeys(p) ==
    /\ job[p].at = "rm"
    /\ valid' = valid \ {job[p].iface}
    /\ unit' = [unit EXCEPT ![job[p].iface] = None]
    /\ Goes(p, "ls")
    /\ UNCHANGED <<sys_ifaces, next_unit, pppd, ghost>>

ListValid(p) ==
    /\ job[p].at = "ls"
    /\ job' = [job EXCEPT ![p].at = "list", ![p].list = valid]
    /\ UNCHANGED <<kdb, pppd, ghost>>

iface_update_sys_ifaces(p) ==
    /\ job[p].at = "list"
    /\ sys_ifaces' = job[p].list
    /\ oldList' = (oldList \/ valid # job[p].list)
    /\ Ends(p)
    /\ UNCHANGED <<valid, unit, next_unit, pppd, oldUnit, shared>>

-----------------------------------------------------------------------------
(* ifup and ifdown.  The interface may be one that is no longer there.     *)

\* The last lines of the script: all of sys_iface* is read.
ifup(p, i) ==
    /\ Begins(p, [at |-> "read", iface |-> i, list |-> {}, next |-> next_unit])
    /\ UNCHANGED <<kdb, pppd, oldList, oldUnit>>

\* Mutant of ReadKeys: a missing counter is not set to 100 first.
ReadKeysNoFirst(p) ==
    /\ job[p].at = "read"
    /\ IF job[p].iface \notin valid THEN Ends(p)
       ELSE Goes(p, IF unit[job[p].iface] = None THEN "assign" ELSE "kill")
    /\ UNCHANGED <<kdb, pppd, ghost>>

\* The keys of the interface are read.  Without a protocol that is all.
ReadKeys(p) ==
    /\ job[p].at = "read"
    /\ IF job[p].iface \notin valid THEN Ends(p)
       ELSE Goes(p, IF unit[job[p].iface] = None
                    THEN IF job[p].next = None THEN "first" ELSE "assign"
                    ELSE IF job[p].next = None THEN "firstOnly" ELSE "kill")
    /\ UNCHANGED <<kdb, pppd, ghost>>

\* The first unit, for an interface without a unit or with one that another
\* script has given it meanwhile.
FirstUnit(p) ==
    /\ job[p].at \in {"first", "firstOnly"}
    /\ next_unit' = 100
    /\ oldUnit' = (oldUnit \/ next_unit # None)
    /\ job' = [job EXCEPT ![p].next = 100,
                          ![p].at = IF @ = "first" THEN "assign" ELSE "kill"]
    /\ UNCHANGED <<sys_ifaces, valid, unit, pppd, oldList, shared>>

\* Mutant of AssignUnit: the counter is not advanced.
AssignKeepsNext(p) ==
    /\ job[p].at = "assign"
    /\ job[p].next < 100 + MaxUnit
    /\ unit' = [unit EXCEPT ![job[p].iface] = job[p].next]
    /\ next_unit' = job[p].next
    /\ oldUnit' = (oldUnit \/ next_unit # job[p].next)
    /\ Goes(p, "kill")
    /\ UNCHANGED <<sys_ifaces, valid, pppd, oldList, shared>>

\* Unit and counter are written by one command line.
AssignUnit(p) ==
    /\ job[p].at = "assign"
    /\ job[p].next < 100 + MaxUnit
    /\ unit' = [unit EXCEPT ![job[p].iface] = job[p].next]
    /\ next_unit' = job[p].next + 1
    /\ oldUnit' = (oldUnit \/ next_unit # job[p].next)
    /\ Goes(p, "kill")
    /\ UNCHANGED <<sys_ifaces, valid, pppd, oldList, shared>>

\* An interface that has no method or is not enabled is left alone from here on.
KillPppd(p) ==
    /\ job[p].at = "kill"
    /\ \/ kill_ppp(job[p].iface) /\ Goes(p, "start")
       \/ Ends(p) /\ UNCHANGED pppd
    /\ UNCHANGED <<kdb, ghost>>

\* pppd starts, or the script ends because something is not set or failed.
StartPppd(p) ==
    /\ job[p].at = "start"
    /\ \/ /\ pppd[job[p].iface] < MaxPppd
          /\ pppd' = [pppd EXCEPT ![job[p].iface] = @ + 1]
       \/ UNCHANGED pppd
    /\ Ends(p)
    /\ UNCHANGED <<kdb, ghost>>

\* ifdown looks for the interface and kills its pppd.
ifdown(i) ==
    /\ i \in valid
    /\ kill_ppp(i)
    /\ shared' = IF Busy(i) THEN shared \cup {i} ELSE shared
    /\ UNCHANGED <<kdb, job, oldList, oldUnit>>

\* A pppd ends on its own.
PppdExits(i) ==
    /\ pppd[i] > 0
    /\ pppd' = [pppd EXCEPT ![i] = @ - 1]
    /\ UNCHANGED <<kdb, job, ghost>>

Page(p) ==
    \/ \E proto \in Proto : get_next_iface(p, proto)
    \/ iface_add(p)
    \/ \E i \in Iface : iface_del(p, i)
    \/ RemoveKeys(p) \/ ListValid(p) \/ iface_update_sys_ifaces(p)

Ifup(p) ==
    \/ \E i \in Iface : ifup(p, i)
    \/ ReadKeys(p) \/ FirstUnit(p) \/ AssignUnit(p) \/ KillPppd(p) \/ StartPppd(p)

Next ==
    \/ \E p \in Script : Page(p) \/ Ifup(p)
    \/ \E i \in Iface : ifdown(i) \/ PppdExits(i)

Spec == Init /\ [][Next]_vars

-----------------------------------------------------------------------------
(* Properties.                                                             *)

\* No two interfaces have the same unit, whatever was added, deleted and
\* started in whatever order, unless a script gave away a unit from a counter
\* that another one had changed meanwhile (network 122-130, 300).
UniqueUnits ==
    ~oldUnit => \A i, j \in Iface : (unit[i] # None /\ unit[i] = unit[j]) => i = j

\* Every interface that is there is in the list, and "network start" and
\* "network stop" reach it; the list has another one only while that is
\* being deleted.  Excepted are lists made from a list, or from keys, that
\* had changed meanwhile (misc.sh 27-55, ifaces.sh 6).
ListComplete ==
    ~oldList =>
        /\ valid \subseteq sys_ifaces
        /\ \A i \in sys_ifaces \ valid :
              \E p \in Script : job[p].at \in {"ls", "list"} /\ job[p].iface = i

\* A pptp interface has at most one pppd, and none once it is deleted, unless
\* two scripts have worked on it at once.  For pppoe this does not hold
\* (network 19-29, 194-212, misc.sh 45).
OnePppd ==
    \A i \in Iface \ shared :
        i[1] = "pptp" => pppd[i] <= (IF i \in valid THEN 1 ELSE 0)

=============================================================================
