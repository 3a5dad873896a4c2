--------------------------- MODULE IfacesProofs ---------------------------
(***************************************************************************)
(* UniqueUnits, ListComplete and OnePppd for any scripts and all bounds.   *)
(***************************************************************************)
EXTENDS Ifaces, TLAPS

\* The places of ifup behind the check that the interface is there.
Starting == {"first", "firstOnly", "assign", "kill", "start"}

\* A unit is given away from a counter that is set.
NextIsSet == \A p \in Script : job[p].at = "assign" => job[p].next # None

\* Without stale copies every unit is below the counter.
UnitsBelow ==
    ~oldUnit => \A i \in Iface : unit[i] # None => next_unit # None /\ unit[i] < next_unit

\* What "not shared" means.
Alone ==
    \A p, q \in Script :
        (/\ job[p].at # "idle" /\ job[q].at # "idle" /\ job[p].iface = job[q].iface
         /\ job[p].iface \notin shared) => p = q

\* A script that works alone on an interface finds the keys as it left them.
StillThere ==
    \A p \in Script :
        (job[p].at \in Starting /\ job[p].iface \notin shared) => job[p].iface \in valid

\* A script that works alone on a pptp interface finds it without a pppd
\* when it starts one or removes the keys.
Killed ==
    \A p \in Script :
        (/\ job[p].at \in {"start", "rm"} /\ job[p].iface \notin shared
         /\ job[p].iface[1] = "pptp") => pppd[job[p].iface] = 0

IInv ==
    /\ TypeOK /\ NextIsSet /\ UnitsBelow /\ UniqueUnits
    /\ ListComplete /\ Alone /\ StillThere /\ Killed /\ OnePppd

Places == {"idle", "add", "rm", "ls", "list",
           "read", "first", "firstOnly", "assign", "kill", "start"}
Job == [at : Places, iface : Iface, list : SUBSET Iface, next : Unit \cup {None}]

-----------------------------------------------------------------------------
\* The first interface of the model is one.
LEMMA FirstIface == <<"pptp", 0>> \in Iface
  BY BoundAssumption DEF Iface, Proto

\* NoJob is a job.
LEMMA NoJobIsJob == NoJob \in Job
  BY FirstIface DEF NoJob, Job, Places

\* kill_ppp keeps the number of pppd a number, leaves no pppd of a pptp
\* interface that had one at most, and touches no other interface.
LEMMA KillEffect ==
  ASSUME TypeOK, NEW i \in Iface, kill_ppp(i)
  PROVE  /\ pppd' \in [Iface -> 0 .. MaxPppd]
         /\ \A k \in Iface : pppd'[k] <= pppd[k]
         /\ \A k \in Iface : k # i => pppd'[k] = pppd[k]
         /\ (i[1] = "pptp" /\ pppd[i] <= 1) => pppd'[i] = 0
  <1>. pppd \in [Iface -> 0 .. MaxPppd] /\ MaxPppd \in Nat
    BY BoundAssumption DEF TypeOK
  <1>1. CASE i[1] = "pptp" /\ pppd[i] > 0
    <2>1. pppd' = [pppd EXCEPT ![i] = pppd[i] - 1]
      BY <1>1 DEF kill_ppp
    <2>. QED BY <2>1, <1>1
  <1>2. CASE ~(i[1] = "pptp" /\ pppd[i] > 0)
    <2>1. pppd' = pppd
      BY <1>2 DEF kill_ppp
    <2>. QED BY <2>1, <1>2
  <1>. QED BY <1>1, <1>2

\* The first state.
LEMMA InitHolds == Init => IInv
  <1>. SUFFICES ASSUME Init PROVE IInv
    OBVIOUS
  <1>0. \A p \in Script : job[p] = NoJob
    BY DEF Init
  <1>0a. \A p \in Script : job[p].at = "idle"
    <2>1. NoJob.at = "idle"
      BY DEF NoJob
    <2>. QED BY <1>0, <2>1
  <1>1. TypeOK
    <2>1. job \in [Script -> Job]
      BY NoJobIsJob DEF Init
    <2>2. unit \in [Iface -> Unit \cup {None}] /\ next_unit \in Unit \cup {None}
      BY DEF Init
    <2>3. pppd \in [Iface -> 0 .. MaxPppd]
      BY BoundAssumption DEF Init
    <2>4. oldList \in BOOLEAN /\ oldUnit \in BOOLEAN /\ shared \subseteq Iface
      BY Zenon DEF Init
    <2>5. sys_ifaces \subseteq Iface /\ valid \subseteq Iface
      BY DEF Init
    <2>. QED BY <2>1, <2>2, <2>3, <2>4, <2>5, Zenon DEF TypeOK, Job, Places
  <1>2. NextIsSet /\ Alone /\ StillThere /\ Killed
    BY <1>0a DEF NextIsSet, Alone, StillThere, Killed, Starting
  <1>3. UnitsBelow /\ UniqueUnits
    BY DEF Init, UnitsBelow, UniqueUnits
  <1>4. ListComplete
    BY DEF Init, ListComplete
  <1>5. OnePppd
    BY DEF Init, OnePppd
  <1>. QED BY <1>1, <1>2, <1>3, <1>4, <1>5 DEF IInv

-----------------------------------------------------------------------------
(* Steps of a script.                                                      *)

\* A script begins with a job, and only its own place changes.
LEMMA BeginsEffect ==
  ASSUME TypeOK, NEW p \in Script, NEW j \in Job, Begins(p, j)
  PROVE  /\ job[p].at = "idle"
         /\ job' \in [Script -> Job]
         /\ job'[p] = j
         /\ \A q \in Script : q # p => job'[q] = job[q]
         /\ shared' = IF Busy(j.iface) THEN shared \cup {j.iface} ELSE shared
         /\ shared' \subseteq Iface
  <1>1. job \in [Script -> Job] /\ shared \subseteq Iface /\ j.iface \in Iface
    BY DEF TypeOK, Job, Places
  <1>. QED BY <1>1 DEF Begins

\* A script goes on to another place and keeps what it has read.
LEMMA GoesEffect ==
  ASSUME TypeOK, NEW p \in Script, NEW a \in Places, Goes(p, a)
  PROVE  /\ job' \in [Script -> Job]
         /\ job'[p].at = a /\ job'[p].iface = job[p].iface
         /\ job'[p].next = job[p].next
         /\ \A q \in Script : q # p => job'[q] = job[q]
  <1>1. job \in [Script -> Job]
    BY DEF TypeOK, Job, Places
  <1>. QED BY <1>1 DEF Goes, Job

\* A script ends.
LEMMA EndsEffect ==
  ASSUME TypeOK, NEW p \in Script, Ends(p)
  PROVE  /\ job' \in [Script -> Job]
         /\ job'[p].at = "idle"
         /\ \A q \in Script : q # p => job'[q] = job[q]
  <1>1. job \in [Script -> Job]
    BY DEF TypeOK, Job, Places
  <1>2. NoJob.at = "idle"
    BY DEF NoJob
  <1>. QED BY <1>1, <1>2, NoJobIsJob DEF Ends

-----------------------------------------------------------------------------
(* The inductive step, one lemma for each action.                          *)

\* get_next_iface keeps the invariant.
LEMMA GetNextKeeps ==
  ASSUME IInv, NEW p \in Script, NEW proto \in Proto, get_next_iface(p, proto)
  PROVE  IInv'
  <1>0. TypeOK /\ job \in [Script -> Job]
    BY DEF IInv, TypeOK, Job, Places
  <1>a. PICK j \in Job : Begins(p, j) /\ j.at = "add"
    <2>1. PICK n \in 0 .. MaxNum - 1 :
             Begins(p, [at |-> "add", iface |-> <<proto, n>>, list |-> sys_ifaces,
                        next |-> None])
      BY DEF get_next_iface, Free
    <2>. DEFINE j == [at |-> "add", iface |-> <<proto, n>>, list |-> sys_ifaces,
                      next |-> None]
    <2>2. j \in Job /\ j.at = "add"
      BY <1>0 DEF Job, Places, Iface, TypeOK
    <2>. QED BY <2>1, <2>2
  <1>1. /\ job[p].at = "idle" /\ job' \in [Script -> Job]
        /\ job'[p].at = "add"
        /\ \A q \in Script : q # p => job'[q] = job[q]
        /\ shared' = IF Busy(job'[p].iface) THEN shared \cup {job'[p].iface} ELSE shared
        /\ shared' \subseteq Iface
    BY <1>0, <1>a, BeginsEffect
  <1>2. job[p].iface \in Iface /\ job'[p].iface \in Iface
    BY <1>0, <1>1 DEF Job
  <1>3. TypeOK'
    BY <1>0, <1>1, <1>2 DEF get_next_iface, ghost, kdb, TypeOK, Job, Places
  <1>4. NextIsSet'
    BY <1>1 DEF IInv, NextIsSet
  <1>5. UnitsBelow' /\ UniqueUnits'
    BY <1>1 DEF get_next_iface, ghost, kdb, IInv, UnitsBelow, UniqueUnits
  <1>6. ListComplete'
    BY <1>0, <1>1, <1>2 DEF get_next_iface, ghost, kdb, IInv, ListComplete
  <1>7. Alone'
    BY <1>0, <1>1, <1>2 DEF get_next_iface, ghost, kdb, IInv, Alone, Busy
  <1>8. StillThere'
    BY <1>0, <1>1, <1>2 DEF get_next_iface, ghost, kdb, IInv, Alone, StillThere, Starting, Busy
  <1>9. Killed' /\ OnePppd'
    BY <1>0, <1>1, <1>2 DEF get_next_iface, ghost, kdb, IInv, Alone, StillThere, Starting, Killed, OnePppd, Busy
  <1>. QED BY <1>3, <1>4, <1>5, <1>6, <1>7, <1>8, <1>9 DEF IInv

\* iface_add keeps it.
LEMMA AddKeeps ==
  ASSUME IInv, NEW p \in Script, iface_add(p)
  PROVE  IInv'
  <1>0. TypeOK /\ job \in [Script -> Job]
    BY DEF IInv, TypeOK, Job, Places
  <1>1. /\ job[p].at = "add" /\ job' \in [Script -> Job] /\ job'[p].at = "idle"
        /\ \A q \in Script : q # p => job'[q] = job[q]
    BY <1>0, EndsEffect DEF iface_add
  <1>2. job[p].iface \in Iface /\ job'[p].iface \in Iface
    BY <1>0, <1>1 DEF Job
  <1>3. TypeOK'
    BY <1>0, <1>1, <1>2 DEF iface_add, ghost, kdb, TypeOK, Job, Places
  <1>4. NextIsSet'
    BY <1>1 DEF IInv, NextIsSet
  <1>5. UnitsBelow' /\ UniqueUnits'
    BY <1>1 DEF iface_add, ghost, kdb, IInv, UnitsBelow, UniqueUnits
  <1>6. ListComplete'
    <2>1. ~oldList' => ~oldList /\ sys_ifaces = job[p].list
      BY Zenon DEF iface_add
    <2>. QED BY <2>1, <1>0, <1>1, <1>2 DEF iface_add, IInv, ListComplete
  <1>7. Alone'
    BY <1>0, <1>1, <1>2 DEF iface_add, ghost, kdb, IInv, Alone, Busy
  <1>8. StillThere'
    BY <1>0, <1>1, <1>2 DEF iface_add, ghost, kdb, IInv, Alone, StillThere, Starting, Busy
  <1>9. Killed' /\ OnePppd'
    <2>1. pppd' = pppd /\ shared' = shared /\ valid' = valid \cup {job[p].iface}
      BY DEF iface_add
    <2>2. Killed'
      BY <2>1, <1>1 DEF IInv, Killed
    <2>3. \A k \in Iface : pppd[k] \in Int
      BY <1>0 DEF TypeOK
    <2>. QED BY <2>1, <2>2, <2>3, <1>2 DEF IInv, OnePppd
  <1>. QED BY <1>3, <1>4, <1>5, <1>6, <1>7, <1>8, <1>9 DEF IInv

\* iface_del keeps it.
LEMMA DelKeeps ==
  ASSUME IInv, NEW p \in Script, NEW i \in Iface, iface_del(p, i)
  PROVE  IInv'
  <1>0. TypeOK /\ job \in [Script -> Job]
    BY DEF IInv, TypeOK, Job, Places
  <1>a. PICK j \in Job : Begins(p, j) /\ j.at = "rm" /\ j.iface = i
    <2>. DEFINE j == [at |-> "rm", iface |-> i, list |-> {}, next |-> None]
    <2>1. j \in Job /\ j.at = "rm" /\ j.iface = i
      BY DEF Job, Places
    <2>. QED BY <2>1 DEF iface_del
  <1>1. /\ job[p].at = "idle" /\ job' \in [Script -> Job]
        /\ job'[p].at = "rm" /\ job'[p].iface = i
        /\ \A q \in Script : q # p => job'[q] = job[q]
        /\ shared' = IF Busy(job'[p].iface) THEN shared \cup {job'[p].iface} ELSE shared
        /\ shared' \subseteq Iface
    BY <1>0, <1>a, BeginsEffect
  <1>2. job[p].iface \in Iface /\ job'[p].iface \in Iface
    BY <1>0, <1>1 DEF Job
  <1>3. TypeOK'
    <2>1. pppd' \in [Iface -> 0 .. MaxPppd]
      BY <1>0, KillEffect DEF iface_del, TypeOK
    <2>. QED BY <2>1, <1>0, <1>1 DEF iface_del, kdb, TypeOK, Job, Places
  <1>4. NextIsSet'
    BY <1>1 DEF IInv, NextIsSet
  <1>5. UnitsBelow' /\ UniqueUnits'
    BY <1>1 DEF iface_del, ghost, kdb, IInv, UnitsBelow, UniqueUnits
  <1>6. ListComplete'
    BY <1>0, <1>1, <1>2 DEF iface_del, ghost, kdb, IInv, ListComplete
  <1>7. Alone'
    BY <1>0, <1>1, <1>2 DEF iface_del, ghost, kdb, IInv, Alone, Busy
  <1>8. StillThere'
    BY <1>0, <1>1, <1>2 DEF iface_del, ghost, kdb, IInv, Alone, StillThere, Starting, Busy
  <1>9. Killed' /\ OnePppd'
    <2>1. pppd' = pppd \/ kill_ppp(i)
      BY DEF iface_del
    <2>2. /\ \A k \in Iface : pppd[k] \in 0 .. MaxPppd /\ pppd'[k] \in 0 .. MaxPppd
          /\ \A k \in Iface : pppd'[k] <= pppd[k]
      BY <1>0, <1>3, <2>1, KillEffect DEF TypeOK
    <2>3. MaxPppd \in Nat
      BY BoundAssumption
    <2>4. (i[1] = "pptp" /\ i \notin shared) => pppd'[i] = 0
      BY <1>0, <2>2, <2>3, KillEffect DEF iface_del, IInv, OnePppd
    <2>5. shared \subseteq shared' /\ valid' = valid
      BY <1>1 DEF iface_del, kdb
    <2>6. Killed'
      <3>. SUFFICES ASSUME NEW q \in Script, job'[q].at \in {"start", "rm"},
                           job'[q].iface \notin shared', job'[q].iface[1] = "pptp"
                    PROVE  pppd'[job'[q].iface] = 0
        BY DEF Killed
      <3>1. CASE q = p
        BY <3>1, <1>1, <2>4, <2>5
      <3>2. CASE q # p
        <4>1. job'[q] = job[q] /\ job[q].iface \in Iface
          BY <3>2, <1>0, <1>1 DEF Job
        <4>2. pppd[job[q].iface] = 0
          BY <4>1, <2>5 DEF IInv, Killed
        <4>. QED BY <4>1, <4>2, <2>2, <2>3
      <3>. QED BY <3>1, <3>2
    <2>7. OnePppd'
      BY <2>2, <2>3, <2>5 DEF IInv, OnePppd
    <2>. QED BY <2>6, <2>7
  <1>. QED BY <1>3, <1>4, <1>5, <1>6, <1>7, <1>8, <1>9 DEF IInv

\* Removing the keys keeps it.
LEMMA RemoveKeeps ==
  ASSUME IInv, NEW p \in Script, RemoveKeys(p)
  PROVE  IInv'
  <1>0. TypeOK /\ job \in [Script -> Job]
    BY DEF IInv, TypeOK, Job, Places
  <1>1. /\ job[p].at = "rm" /\ job' \in [Script -> Job]
        /\ job'[p].at = "ls" /\ job'[p].iface = job[p].iface
        /\ \A q \in Script : q # p => job'[q] = job[q]
    BY <1>0, GoesEffect DEF RemoveKeys, Places
  <1>2. job[p].iface \in Iface /\ job'[p].iface \in Iface
    BY <1>0, <1>1 DEF Job
  <1>3. TypeOK'
    BY <1>0, <1>1, <1>2 DEF RemoveKeys, ghost, kdb, TypeOK, Job, Places
  <1>4. NextIsSet'
    BY <1>1 DEF IInv, NextIsSet
  <1>5. UnitsBelow' /\ UniqueUnits'
    BY <1>1 DEF RemoveKeys, ghost, kdb, IInv, UnitsBelow, UniqueUnits
  <1>6. ListComplete'
    BY <1>0, <1>1, <1>2 DEF RemoveKeys, ghost, kdb, IInv, ListComplete
  <1>7. Alone'
    BY <1>0, <1>1, <1>2 DEF RemoveKeys, ghost, kdb, IInv, Alone, Busy
  <1>8. StillThere'
    BY <1>0, <1>1, <1>2 DEF RemoveKeys, ghost, kdb, IInv, Alone, StillThere, Starting, Busy
  <1>9. Killed' /\ OnePppd'
    BY <1>0, <1>1, <1>2 DEF RemoveKeys, ghost, kdb, IInv, Alone, StillThere, Starting, Killed, OnePppd, Busy
  <1>. QED BY <1>3, <1>4, <1>5, <1>6, <1>7, <1>8, <1>9 DEF IInv

\* Reading the keys that are left keeps it.
LEMMA ListValidKeeps ==
  ASSUME IInv, NEW p \in Script, ListValid(p)
  PROVE  IInv'
  <1>0. TypeOK /\ job \in [Script -> Job]
    BY DEF IInv, TypeOK, Job, Places
  <1>1. /\ job[p].at = "ls" /\ job' \in [Script -> Job]
        /\ job'[p].at = "list" /\ job'[p].iface = job[p].iface
        /\ \A q \in Script : q # p => job'[q] = job[q]
    BY <1>0, ZenonT(40) DEF ListValid, Job, Places, TypeOK
  <1>2. job[p].iface \in Iface /\ job'[p].iface \in Iface
    BY <1>0, <1>1 DEF Job
  <1>3. TypeOK'
    BY <1>0, <1>1, <1>2 DEF ListValid, ghost, kdb, TypeOK, Job, Places
  <1>4. NextIsSet'
    BY <1>1 DEF IInv, NextIsSet
  <1>5. UnitsBelow' /\ UniqueUnits'
    BY <1>1 DEF ListValid, ghost, kdb, IInv, UnitsBelow, UniqueUnits
  <1>6. ListComplete'
    BY <1>0, <1>1, <1>2 DEF ListValid, ghost, kdb, IInv, ListComplete
  <1>7. Alone'
    BY <1>0, <1>1, <1>2 DEF ListValid, ghost, kdb, IInv, Alone, Busy
  <1>8. StillThere'
    BY <1>0, <1>1, <1>2 DEF ListValid, ghost, kdb, IInv, Alone, StillThere, Starting, Busy
  <1>9. Killed' /\ OnePppd'
    BY <1>0, <1>1, <1>2 DEF ListValid, ghost, kdb, IInv, Alone, StillThere, Starting, Killed, OnePppd, Busy
  <1>. QED BY <1>3, <1>4, <1>5, <1>6, <1>7, <1>8, <1>9 DEF IInv

\* Writing the list keeps it.
LEMMA UpdateKeeps ==
  ASSUME IInv, NEW p \in Script, iface_update_sys_ifaces(p)
  PROVE  IInv'
  <1>0. TypeOK /\ job \in [Script -> Job]
    BY DEF IInv, TypeOK, Job, Places
  <1>1. /\ job[p].at = "list" /\ job' \in [Script -> Job] /\ job'[p].at = "idle"
        /\ \A q \in Script : q # p => job'[q] = job[q]
    BY <1>0, EndsEffect DEF iface_update_sys_ifaces
  <1>2. job[p].iface \in Iface /\ job'[p].iface \in Iface
    BY <1>0, <1>1 DEF Job
  <1>3. TypeOK'
    BY <1>0, <1>1, <1>2 DEF iface_update_sys_ifaces, ghost, kdb, TypeOK, Job, Places
  <1>4. NextIsSet'
    BY <1>1 DEF IInv, NextIsSet
  <1>5. UnitsBelow' /\ UniqueUnits'
    BY <1>1 DEF iface_update_sys_ifaces, ghost, kdb, IInv, UnitsBelow, UniqueUnits
  <1>6. ListComplete'
    BY <1>0, <1>1, <1>2 DEF iface_update_sys_ifaces, ghost, kdb, IInv, ListComplete
  <1>7. Alone'
    BY <1>0, <1>1, <1>2 DEF iface_update_sys_ifaces, ghost, kdb, IInv, Alone, Busy
  <1>8. StillThere'
    BY <1>0, <1>1, <1>2 DEF iface_update_sys_ifaces, ghost, kdb, IInv, Alone, StillThere, Starting, Busy
  <1>9. Killed' /\ OnePppd'
    BY <1>0, <1>1, <1>2 DEF iface_update_sys_ifaces, ghost, kdb, IInv, Alone, StillThere, Starting, Killed, OnePppd, Busy
  <1>. QED BY <1>3, <1>4, <1>5, <1>6, <1>7, <1>8, <1>9 DEF IInv

\* ifup keeps it.
LEMMA IfupKeeps ==
  ASSUME IInv, NEW p \in Script, NEW i \in Iface, ifup(p, i)
  PROVE  IInv'
  <1>0. TypeOK /\ job \in [Script -> Job]
    BY DEF IInv, TypeOK, Job, Places
  <1>a. PICK j \in Job : Begins(p, j) /\ j.at = "read" /\ j.iface = i
    <2>. DEFINE j == [at |-> "read", iface |-> i, list |-> {}, next |-> next_unit]
    <2>1. j \in Job /\ j.at = "read" /\ j.iface = i
      BY <1>0 DEF Job, Places, TypeOK
    <2>. QED BY <2>1 DEF ifup
  <1>1. /\ job[p].at = "idle" /\ job' \in [Script -> Job]
        /\ job'[p].at = "read" /\ job'[p].iface = i
        /\ \A q \in Script : q # p => job'[q] = job[q]
        /\ shared' = IF Busy(job'[p].iface) THEN shared \cup {job'[p].iface} ELSE shared
        /\ shared' \subseteq Iface
    BY <1>0, <1>a, BeginsEffect
  <1>2. job[p].iface \in Iface /\ job'[p].iface \in Iface
    BY <1>0, <1>1 DEF Job
  <1>3. TypeOK'
    BY <1>0, <1>1, <1>2 DEF ifup, ghost, kdb, TypeOK, Job, Places
  <1>4. NextIsSet'
    BY <1>1 DEF IInv, NextIsSet
  <1>5. UnitsBelow' /\ UniqueUnits'
    BY <1>1 DEF ifup, ghost, kdb, IInv, UnitsBelow, UniqueUnits
  <1>6. ListComplete'
    BY <1>0, <1>1, <1>2 DEF ifup, ghost, kdb, IInv, ListComplete
  <1>7. Alone'
    BY <1>0, <1>1, <1>2 DEF ifup, ghost, kdb, IInv, Alone, Busy
  <1>8. StillThere'
    BY <1>0, <1>1, <1>2 DEF ifup, ghost, kdb, IInv, Alone, StillThere, Starting, Busy
  <1>9. Killed' /\ OnePppd'
    BY <1>0, <1>1, <1>2 DEF ifup, ghost, kdb, IInv, Alone, StillThere, Starting, Killed, OnePppd, Busy
  <1>. QED BY <1>3, <1>4, <1>5, <1>6, <1>7, <1>8, <1>9 DEF IInv

\* Reading the keys of the interface keeps it.
LEMMA ReadKeeps ==
  ASSUME IInv, NEW p \in Script, ReadKeys(p)
  PROVE  IInv'
  <1>0. TypeOK /\ job \in [Script -> Job]
    BY DEF IInv, TypeOK, Job, Places
  <1>1. /\ job[p].at = "read" /\ job' \in [Script -> Job]
        /\ \/ job'[p].at = "idle"
           \/ /\ job'[p].at \in {"first", "firstOnly", "assign", "kill"}
              /\ job'[p].iface = job[p].iface /\ job[p].iface \in valid
              /\ job'[p].next = job[p].next
              /\ job'[p].at = "assign" => job[p].next # None
        /\ \A q \in Script : q # p => job'[q] = job[q]
    BY <1>0, GoesEffect, EndsEffect DEF ReadKeys, Places
  <1>2. job[p].iface \in Iface /\ job'[p].iface \in Iface
    BY <1>0, <1>1 DEF Job
  <1>3. TypeOK'
    BY <1>0, <1>1, <1>2 DEF ReadKeys, ghost, kdb, TypeOK, Job, Places
  <1>4. NextIsSet'
    BY <1>1 DEF IInv, NextIsSet
  <1>5. UnitsBelow' /\ UniqueUnits'
    BY <1>1 DEF ReadKeys, ghost, kdb, IInv, UnitsBelow, UniqueUnits
  <1>6. ListComplete'
    BY <1>0, <1>1, <1>2 DEF ReadKeys, ghost, kdb, IInv, ListComplete
  <1>7. Alone'
    BY <1>0, <1>1, <1>2 DEF ReadKeys, ghost, kdb, IInv, Alone, Busy
  <1>8. StillThere'
    BY <1>0, <1>1, <1>2 DEF ReadKeys, ghost, kdb, IInv, Alone, StillThere, Starting, Busy
  <1>9. Killed' /\ OnePppd'
    BY <1>0, <1>1, <1>2 DEF ReadKeys, ghost, kdb, IInv, Alone, StillThere, Starting, Killed, OnePppd, Busy
  <1>. QED BY <1>3, <1>4, <1>5, <1>6, <1>7, <1>8, <1>9 DEF IInv

\* Setting the counter keeps it.
LEMMA FirstKeeps ==
  ASSUME IInv, NEW p \in Script, FirstUnit(p)
  PROVE  IInv'
  <1>0. TypeOK /\ job \in [Script -> Job]
    BY DEF IInv, TypeOK, Job, Places
  <1>1. /\ job[p].at \in {"first", "firstOnly"} /\ job' \in [Script -> Job]
        /\ job'[p].at \in {"assign", "kill"} /\ job'[p].iface = job[p].iface
        /\ job'[p].next = 100
        /\ \A q \in Script : q # p => job'[q] = job[q]
    BY <1>0, BoundAssumption DEF FirstUnit, Job, Places, Unit
  <1>2. job[p].iface \in Iface /\ job'[p].iface \in Iface
    BY <1>0, <1>1 DEF Job
  <1>3. TypeOK'
    BY <1>0, <1>1, <1>2 DEF FirstUnit, ghost, kdb, TypeOK, Job, Places
  <1>4. NextIsSet'
    BY <1>1 DEF IInv, NextIsSet, None
  <1>5. UnitsBelow' /\ UniqueUnits'
    BY <1>1 DEF FirstUnit, ghost, kdb, IInv, UnitsBelow, UniqueUnits
  <1>6. ListComplete'
    BY <1>0, <1>1, <1>2 DEF FirstUnit, ghost, kdb, IInv, ListComplete
  <1>7. Alone'
    BY <1>0, <1>1, <1>2 DEF FirstUnit, ghost, kdb, IInv, Alone, Busy
  <1>8. StillThere'
    BY <1>0, <1>1, <1>2 DEF FirstUnit, ghost, kdb, IInv, Alone, StillThere, Starting, Busy
  <1>9. Killed' /\ OnePppd'
    BY <1>0, <1>1, <1>2 DEF FirstUnit, ghost, kdb, IInv, Alone, StillThere, Starting, Killed, OnePppd, Busy
  <1>. QED BY <1>3, <1>4, <1>5, <1>6, <1>7, <1>8, <1>9 DEF IInv

\* Giving a unit keeps it.
LEMMA AssignKeeps ==
  ASSUME IInv, NEW p \in Script, AssignUnit(p)
  PROVE  IInv'
  <1>0. TypeOK /\ job \in [Script -> Job]
    BY DEF IInv, TypeOK, Job, Places
  <1>1. /\ job[p].at = "assign" /\ job' \in [Script -> Job]
        /\ job'[p].at = "kill" /\ job'[p].iface = job[p].iface
        /\ \A q \in Script : q # p => job'[q] = job[q]
    BY <1>0, GoesEffect DEF AssignUnit, Places
  <1>2. job[p].iface \in Iface /\ job'[p].iface \in Iface
    BY <1>0, <1>1 DEF Job
  <1>3. TypeOK'
    <2>1. job[p].next \in Unit
      BY <1>0, <1>1 DEF IInv, NextIsSet, Job
    <2>2. job[p].next + 1 \in Unit
      BY <2>1, BoundAssumption DEF AssignUnit, Unit
    <2>3. unit' \in [Iface -> Unit \cup {None}] /\ next_unit' \in Unit \cup {None}
      BY <1>0, <2>1, <2>2 DEF AssignUnit, TypeOK
    <2>4. oldUnit' \in BOOLEAN
      BY Zenon DEF AssignUnit
    <2>. QED BY <2>3, <2>4, <1>0, <1>1 DEF AssignUnit, TypeOK, Job, Places
  <1>4. NextIsSet'
    BY <1>1 DEF IInv, NextIsSet
  <1>5. UnitsBelow' /\ UniqueUnits'
    <2>. SUFFICES ASSUME ~oldUnit' PROVE UnitsBelow' /\ UniqueUnits'
      BY Zenon DEF UnitsBelow, UniqueUnits
    <2>1. ~oldUnit /\ next_unit = job[p].next
      BY Zenon DEF AssignUnit
    <2>2. /\ next_unit \in Int /\ next_unit >= 100
          /\ \A i \in Iface : unit[i] \in Int
      BY <1>0, <1>1, <2>1, BoundAssumption DEF IInv, NextIsSet, Job, Unit, None, TypeOK
    <2>3. /\ next_unit' = next_unit + 1
          /\ unit'[job[p].iface] = next_unit
          /\ \A i \in Iface : i # job[p].iface => unit'[i] = unit[i]
      BY <1>0, <1>2, <2>1 DEF AssignUnit, TypeOK
    <2>4. \A i \in Iface : unit[i] # None => unit[i] < next_unit
      BY <2>1 DEF IInv, UnitsBelow
    <2>5. UnitsBelow'
      BY <2>2, <2>3, <2>4 DEF UnitsBelow, None
    <2>6. UniqueUnits'
      BY <2>1, <2>2, <2>3, <2>4, <1>2 DEF IInv, UniqueUnits
    <2>. QED BY <2>5, <2>6
  <1>6. ListComplete'
    BY <1>0, <1>1, <1>2 DEF AssignUnit, ghost, kdb, IInv, ListComplete
  <1>7. Alone'
    BY <1>0, <1>1, <1>2 DEF AssignUnit, ghost, kdb, IInv, Alone, Busy
  <1>8. StillThere'
    BY <1>0, <1>1, <1>2 DEF AssignUnit, ghost, kdb, IInv, Alone, StillThere, Starting, Busy
  <1>9. Killed' /\ OnePppd'
    BY <1>0, <1>1, <1>2 DEF AssignUnit, ghost, kdb, IInv, Alone, StillThere, Starting, Killed, OnePppd, Busy
  <1>. QED BY <1>3, <1>4, <1>5, <1>6, <1>7, <1>8, <1>9 DEF IInv

\* Killing the old pppd keeps it.
LEMMA KillKeeps ==
  ASSUME IInv, NEW p \in Script, KillPppd(p)
  PROVE  IInv'
  <1>0. TypeOK /\ job \in [Script -> Job]
    BY DEF IInv, TypeOK, Job, Places
  <1>1. /\ job[p].at = "kill" /\ job' \in [Script -> Job]
        /\ \/ job'[p].at = "idle" /\ pppd' = pppd
           \/ /\ job'[p].at = "start" /\ job'[p].iface = job[p].iface
              /\ kill_ppp(job[p].iface)
        /\ \A q \in Script : q # p => job'[q] = job[q]
    BY <1>0, GoesEffect, EndsEffect DEF KillPppd, Places
  <1>2. job[p].iface \in Iface /\ job'[p].iface \in Iface
    BY <1>0, <1>1 DEF Job
  <1>3. TypeOK'
    <2>1. pppd' \in [Iface -> 0 .. MaxPppd]
      BY <1>0, <1>1, <1>2, KillEffect DEF TypeOK
    <2>. QED BY <2>1, <1>0, <1>1 DEF KillPppd, kdb, ghost, TypeOK, Job, Places
  <1>4. NextIsSet'
    BY <1>1 DEF IInv, NextIsSet
  <1>5. UnitsBelow' /\ UniqueUnits'
    BY <1>1 DEF KillPppd, ghost, kdb, IInv, UnitsBelow, UniqueUnits
  <1>6. ListComplete'
    BY <1>0, <1>1, <1>2 DEF KillPppd, ghost, kdb, IInv, ListComplete
  <1>7. Alone'
    BY <1>0, <1>1, <1>2 DEF KillPppd, ghost, kdb, IInv, Alone, Busy
  <1>8. StillThere'
    BY <1>0, <1>1, <1>2 DEF KillPppd, ghost, kdb, IInv, Alone, StillThere, Starting, Busy
  <1>9. Killed' /\ OnePppd'
    <2>1. /\ \A k \in Iface : pppd[k] \in 0 .. MaxPppd /\ pppd'[k] \in 0 .. MaxPppd
          /\ \A k \in Iface : pppd'[k] <= pppd[k]
      BY <1>0, <1>1, <1>2, <1>3, KillEffect DEF TypeOK
    <2>2. MaxPppd \in Nat
      BY BoundAssumption
    <2>3. shared' = shared /\ valid' = valid
      BY DEF KillPppd, kdb, ghost
    <2>4. Killed'
      <3>. SUFFICES ASSUME NEW q \in Script, job'[q].at \in {"start", "rm"},
                           job'[q].iface \notin shared', job'[q].iface[1] = "pptp"
                    PROVE  pppd'[job'[q].iface] = 0
        BY DEF Killed
      <3>1. CASE q = p
        <4>1. /\ job'[p].iface = job[p].iface /\ kill_ppp(job[p].iface)
              /\ job[p].iface \notin shared /\ job[p].iface[1] = "pptp"
          BY <3>1, <1>1, <2>3
        <4>2. pppd[job[p].iface] <= 1
          BY <4>1, <1>2, <2>1, <2>2 DEF IInv, OnePppd
        <4>. QED BY <3>1, <4>1, <4>2, <1>0, <1>2, KillEffect
      <3>2. CASE q # p
        <4>1. job'[q] = job[q] /\ job[q].iface \in Iface
          BY <3>2, <1>0, <1>1 DEF Job
        <4>2. pppd[job[q].iface] = 0
          BY <4>1, <2>3 DEF IInv, Killed
        <4>. QED BY <4>1, <4>2, <2>1, <2>2
      <3>. QED BY <3>1, <3>2
    <2>5. OnePppd'
      BY <2>1, <2>2, <2>3 DEF IInv, OnePppd
    <2>. QED BY <2>4, <2>5
  <1>. QED BY <1>3, <1>4, <1>5, <1>6, <1>7, <1>8, <1>9 DEF IInv

\* Starting pppd keeps it.
LEMMA StartKeeps ==
  ASSUME IInv, NEW p \in Script, StartPppd(p)
  PROVE  IInv'
  <1>0. TypeOK /\ job \in [Script -> Job]
    BY DEF IInv, TypeOK, Job, Places
  <1>1. /\ job[p].at = "start" /\ job' \in [Script -> Job] /\ job'[p].at = "idle"
        /\ \A q \in Script : q # p => job'[q] = job[q]
    BY <1>0, EndsEffect DEF StartPppd
  <1>2. job[p].iface \in Iface /\ job'[p].iface \in Iface
    BY <1>0, <1>1 DEF Job
  <1>3. TypeOK'
    <2>1. pppd' \in [Iface -> 0 .. MaxPppd]
      BY <1>0, <1>2, BoundAssumption DEF StartPppd, TypeOK
    <2>. QED BY <2>1, <1>0, <1>1 DEF StartPppd, kdb, ghost, TypeOK, Job, Places
  <1>4. NextIsSet'
    BY <1>1 DEF IInv, NextIsSet
  <1>5. UnitsBelow' /\ UniqueUnits'
    BY <1>1 DEF StartPppd, ghost, kdb, IInv, UnitsBelow, UniqueUnits
  <1>6. ListComplete'
    BY <1>0, <1>1, <1>2 DEF StartPppd, ghost, kdb, IInv, ListComplete
  <1>7. Alone'
    BY <1>0, <1>1, <1>2 DEF StartPppd, ghost, kdb, IInv, Alone, Busy
  <1>8. StillThere'
    BY <1>0, <1>1, <1>2 DEF StartPppd, ghost, kdb, IInv, Alone, StillThere, Starting, Busy
  <1>9. Killed' /\ OnePppd'
    <2>. DEFINE i == job[p].iface
    <2>1. /\ \A k \in Iface : k # i => pppd'[k] = pppd[k]
          /\ pppd'[i] = pppd[i] \/ pppd'[i] = pppd[i] + 1
      BY <1>0, <1>2 DEF StartPppd, TypeOK
    <2>2. shared' = shared /\ valid' = valid
      BY DEF StartPppd, kdb, ghost
    <2>3. i \notin shared => i \in valid /\ (i[1] = "pptp" => pppd[i] = 0)
      BY <1>1 DEF IInv, StillThere, Starting, Killed
    <2>4. \A q \in Script : (q # p /\ job[q].at # "idle" /\ i \notin shared) =>
                                job[q].iface # i
      BY <1>1 DEF IInv, Alone
    <2>5. Killed'
      <3>. SUFFICES ASSUME NEW q \in Script, job'[q].at \in {"start", "rm"},
                           job'[q].iface \notin shared', job'[q].iface[1] = "pptp"
                    PROVE  pppd'[job'[q].iface] = 0
        BY DEF Killed
      <3>1. q # p /\ job'[q] = job[q] /\ job[q].iface \in Iface
        BY <1>0, <1>1 DEF Job
      <3>. QED BY <3>1, <2>1, <2>2, <2>4 DEF IInv, Killed
    <2>6. OnePppd'
      BY <1>0, <1>2, <2>1, <2>2, <2>3 DEF IInv, OnePppd, TypeOK
    <2>. QED BY <2>5, <2>6
  <1>. QED BY <1>3, <1>4, <1>5, <1>6, <1>7, <1>8, <1>9 DEF IInv

\* A step that only ends pppd processes keeps the invariant.
LEMMA FewerPppd ==
  ASSUME IInv,
         UNCHANGED <<sys_ifaces, valid, unit, next_unit, job, oldList, oldUnit>>,
         shared \subseteq shared', shared' \subseteq Iface,
         pppd' \in [Iface -> 0 .. MaxPppd],
         \A k \in Iface : pppd'[k] <= pppd[k]
  PROVE  IInv'
  <1>1. TypeOK'
    BY DEF IInv, TypeOK
  <1>2. NextIsSet' /\ UnitsBelow' /\ UniqueUnits' /\ ListComplete'
    BY DEF IInv, NextIsSet, UnitsBelow, UniqueUnits, ListComplete
  <1>3. Alone' /\ StillThere'
    BY DEF IInv, Alone, StillThere
  <1>4. \A k \in Iface : pppd[k] \in Nat /\ pppd'[k] \in Nat
    BY BoundAssumption DEF IInv, TypeOK
  <1>5. \A p \in Script : job[p].iface \in Iface
    BY DEF IInv, TypeOK
  <1>6. Killed'
    BY <1>4, <1>5 DEF IInv, Killed
  <1>7. OnePppd'
    BY <1>4 DEF IInv, OnePppd
  <1>. QED BY <1>1, <1>2, <1>3, <1>6, <1>7 DEF IInv

\* ifdown keeps it.
LEMMA IfdownKeeps ==
  ASSUME IInv, NEW i \in Iface, ifdown(i)
  PROVE  IInv'
  <1>0. TypeOK
    BY DEF IInv
  <1>1. /\ UNCHANGED <<sys_ifaces, valid, unit, next_unit, job, oldList, oldUnit>>
        /\ shared \subseteq shared' /\ shared' \subseteq Iface
    BY <1>0 DEF ifdown, kdb, TypeOK
  <1>2. /\ pppd' \in [Iface -> 0 .. MaxPppd]
        /\ \A k \in Iface : pppd'[k] <= pppd[k]
    BY <1>0, KillEffect DEF ifdown
  <1>. QED BY <1>0, <1>1, <1>2, FewerPppd

\* The end of a pppd keeps it.
LEMMA ExitKeeps ==
  ASSUME IInv, NEW i \in Iface, PppdExits(i)
  PROVE  IInv'
  <1>0. TypeOK
    BY DEF IInv
  <1>1. /\ UNCHANGED <<sys_ifaces, valid, unit, next_unit, job, oldList, oldUnit>>
        /\ shared \subseteq shared' /\ shared' \subseteq Iface
    BY <1>0 DEF PppdExits, kdb, ghost, TypeOK
  <1>2. /\ pppd' \in [Iface -> 0 .. MaxPppd]
        /\ \A k \in Iface : pppd'[k] <= pppd[k]
    BY <1>0, BoundAssumption DEF PppdExits, TypeOK
  <1>. QED BY <1>0, <1>1, <1>2, FewerPppd

\* A stuttering step keeps it.
LEMMA StutterKeeps == IInv /\ UNCHANGED vars => IInv'
  BY DEF vars, kdb, ghost, IInv, TypeOK, NextIsSet, UnitsBelow, UniqueUnits,
         ListComplete, Alone, StillThere, Killed, OnePppd

\* Every step keeps it.
LEMMA StepKeeps == IInv /\ [Next]_vars => IInv'
  <1>. SUFFICES ASSUME IInv, Next PROVE IInv'
    BY StutterKeeps
  <1>1. ASSUME NEW p \in Script, Page(p) PROVE IInv'
    BY <1>1, GetNextKeeps, AddKeeps, DelKeeps, RemoveKeeps, ListValidKeeps, UpdateKeeps
       DEF Page
  <1>2. ASSUME NEW p \in Script, Ifup(p) PROVE IInv'
    BY <1>2, IfupKeeps, ReadKeeps, FirstKeeps, AssignKeeps, KillKeeps, StartKeeps
       DEF Ifup
  <1>. QED BY <1>1, <1>2, IfdownKeeps, ExitKeeps DEF Next

-----------------------------------------------------------------------------
\* The invariant holds in every state of every behaviour.
THEOREM Inductive == Spec => []IInv
  BY InitHolds, StepKeeps, PTL DEF Spec

\* The counters, lists and places of the scripts keep their types, and no
\* unit is made from a counter that is not set (network 122-130).
THEOREM TypeCorrect == Spec => []TypeOK
  <1>1. IInv => TypeOK
    BY DEF IInv
  <1>. QED BY <1>1, Inductive, PTL

\* No two PPP interfaces get one unit, for any number of interfaces and of
\* scripts, as long as no script uses a counter that is out of date
\* (network 122-130, 300).
THEOREM UnitsDiffer == Spec => []UniqueUnits
  <1>1. IInv => UniqueUnits
    BY DEF IInv
  <1>. QED BY <1>1, Inductive, PTL

\* The list has every interface that is there, as long as no script writes
\* one made from a list or from keys that are out of date (misc.sh 27-55).
THEOREM NoneForgotten == Spec => []ListComplete
  <1>1. IInv => ListComplete
    BY DEF IInv
  <1>. QED BY <1>1, Inductive, PTL

\* A pptp interface never has two pppd, nor one after it is deleted, unless
\* two scripts have worked on it at once (network 19-29, misc.sh 45).
THEOREM OneEach == Spec => []OnePppd
  <1>1. IInv => OnePppd
    BY DEF IInv
  <1>. QED BY <1>1, Inductive, PTL

=============================================================================
