--------------------------- MODULE MacAllocProofs ---------------------------
(***************************************************************************)
(* Proofs about MacAlloc for any interfaces, any random numbers and any    *)
(* number of reboots, edits and torn writes.  What a torn write leaves is  *)
(* of the right types, and addresses differ also then, if no base is drawn *)
(* twice and no user has changed one; that none is wasted and that every   *)
(* interface gets one is proved for as long as no write was torn.          *)
(***************************************************************************)
EXTENDS MacAlloc, FiniteSetTheorems, TLAPS

Keys ==
    [base : Base \cup {"none"}, next : Nat \cup {NoNext},
     mac : [Slot -> [base : Base \cup {"none", "custom"}, num : Nat]]]

WholeType ==
    /\ kdb \in [form : {"missing", "good"}, keys : Keys]
    /\ pc \in {"off", "start", "generate", "eval", "loop", "done", "up"}
    /\ i \in Nat \ {0}
    /\ sh \in Keys
    /\ edits \in Nat
    /\ tears = 0

\* Base and next number are stored together.
Pair == kdb.keys.base = "none" <=> kdb.keys.next = NoNext

\* Every generated address in the file has the stored base.
OneBase == \A s \in Generated : kdb.keys.mac[s].base = kdb.keys.base

\* The number stored is above every address made of the stored base: what
\* is given next is new, at whatever point the last boot was cut off.
NextIsNew ==
    tears = 0 =>
        \A s \in Generated :
            kdb.keys.mac[s].base = kdb.keys.base => kdb.keys.mac[s].num < kdb.keys.next

Distinct == \A s, t \in Generated : kdb.keys.mac[s] = kdb.keys.mac[t] => s = t

\* The loop starts at the first interface.
FromFirst == pc \in {"off", "start", "generate", "eval"} => i = 1

\* In the loop the shell variables are those of the file, as far as they are
\* still used, and the interfaces behind i have an address.
InLoop ==
    pc = "loop" =>
        /\ sh.base = kdb.keys.base /\ sh.base \in Base
        /\ sh.next = kdb.keys.next /\ sh.next \in Nat
        /\ \A s \in Slot : /\ s < i => kdb.keys.mac[s] # NoMac
                           /\ s >= i => sh.mac[s] = kdb.keys.mac[s]

\* While no write has been torn.
Untorn ==
    /\ WholeType /\ Pair /\ OneBase /\ NextIsNew /\ Distinct
    /\ FromFirst /\ InLoop /\ AllHaveMac /\ NoneWasted

LEMMA SlotFacts == Slot = 1 .. Len(Ifaces) /\ Len(Ifaces) \in Nat
  BY IfacesAssumption DEF Slot

\* The interfaces without an address.
Without == {s \in Slot : kdb.keys.mac[s] = NoMac}

LEMMA FewSlots ==
  ASSUME NEW T \in SUBSET Slot
  PROVE  IsFiniteSet(T) /\ Cardinality(T) \in Nat /\ Cardinality(T) <= Len(Ifaces)
<1>1. IsFiniteSet(Slot) /\ Cardinality(Slot) = Len(Ifaces)
  <2>1. Len(Ifaces) \in Int /\ 1 \in Int
    BY SlotFacts
  <2>2. /\ IsFiniteSet(1 .. Len(Ifaces))
        /\ Cardinality(1 .. Len(Ifaces)) = IF 1 > Len(Ifaces) THEN 0 ELSE Len(Ifaces) - 1 + 1
    BY <2>1, FS_Interval
  <2>. QED  BY <2>2, SlotFacts
<1>2. IsFiniteSet(T) /\ Cardinality(T) <= Len(Ifaces)
  BY <1>1, FS_Subset
<1>. QED  BY <1>2, FS_CardinalityType

LEMMA NoKeysType == NoKeys \in Keys
  BY DEF NoKeys, Keys, NoMac

LEMMA InitUntorn == Init => Untorn
<1>. SUFFICES ASSUME Init PROVE Untorn
  OBVIOUS
<1>1. WholeType
  BY NoKeysType DEF Init, WholeType, File
<1>2. Generated = {}
  BY BaseAssumption DEF Init, Generated, File, NoKeys, NoMac
<1>3. Pair /\ FromFirst /\ InLoop /\ AllHaveMac /\ NoneWasted
  BY DEF Init, Pair, FromFirst, InLoop, AllHaveMac, NoneWasted, File, NoKeys
<1>4. OneBase /\ NextIsNew /\ Distinct
  BY <1>2 DEF OneBase, NextIsNew, Distinct
<1>. QED  BY <1>1, <1>3, <1>4 DEF Untorn

\* A kdb command that is not torn succeeds.
LEMMA SetSucceeds ==
    ASSUME tears' = 0, WholeType, NEW keys, NEW next, NEW vs, NEW pos,
           KdbSet(keys, next, vs, pos)
    PROVE  /\ kdb' = [form |-> "good", keys |-> keys]
           /\ pc' = next /\ sh' = vs /\ i' = pos /\ tears' = 0
  BY DEF KdbSet, WholeType, Tear, File

\* Steps that leave the file alone.
LEMMA SameFile ==
    ASSUME Untorn, kdb' = kdb, tears' = tears, edits' = edits,
           pc' \in {"off", "start", "generate", "eval", "loop", "done", "up"},
           i' \in Nat \ {0}, sh' \in Keys, FromFirst', InLoop', AllHaveMac'
    PROVE  Untorn'
<1>1. WholeType' /\ Pair'
  BY DEF Untorn, WholeType, Pair
<1>2. OneBase' /\ NextIsNew' /\ Distinct' /\ NoneWasted'
  BY DEF Untorn, OneBase, NextIsNew, Distinct, NoneWasted, Generated
<1>. QED  BY <1>1, <1>2 DEF Untorn

\* Address n of the stored base is new, and n + 1 is then the next number.
LEMMA StepAssign == tears' = 0 /\ Untorn /\ Assign => Untorn'
<1>. SUFFICES ASSUME tears' = 0, Untorn, Assign PROVE Untorn'
  OBVIOUS
<1>. DEFINE m == [base |-> sh.base, num |-> sh.next]
            keys == [kdb.keys EXCEPT !.mac = [@ EXCEPT ![i] = m], !.next = sh.next + 1]
<1>1. /\ pc = "loop" /\ i \in Slot /\ i \in Nat \ {0}
      /\ sh.base = kdb.keys.base /\ sh.base \in Base
      /\ sh.next = kdb.keys.next /\ sh.next \in Nat
  BY DEF Assign, Untorn, InLoop, WholeType
<1>2. /\ kdb' = [form |-> "good", keys |-> keys]
      /\ pc' = "loop" /\ sh' = [sh EXCEPT !.next = @ + 1] /\ i' = i + 1 /\ tears' = 0 /\ edits' = edits
  BY SetSucceeds DEF Assign, Untorn, Mac
<1>3. /\ kdb.keys \in Keys /\ sh \in Keys
  BY DEF Untorn, WholeType
<1>4. /\ kdb'.keys.base = kdb.keys.base
      /\ kdb'.keys.next = sh.next + 1
      /\ kdb'.keys.mac = [kdb.keys.mac EXCEPT ![i] = m]
      /\ kdb'.form = "good"
  BY <1>2, <1>3 DEF Keys
<1>5. /\ keys \in Keys
      /\ sh' \in Keys
  <2>1. [kdb.keys.mac EXCEPT ![i] = m]
            \in [Slot -> [base : Base \cup {"none", "custom"}, num : Nat]]
    BY <1>1, <1>3 DEF Keys
  <2>2. ASSUME NEW f \in [Slot -> [base : Base \cup {"none", "custom"}, num : Nat]],
               NEW n \in Nat
        PROVE  [kdb.keys EXCEPT !.mac = f, !.next = n] \in Keys
    BY <1>3 DEF Keys
  <2>3. keys \in Keys
    <3>1. sh.next + 1 \in Nat
      BY <1>1
    <3>. QED  BY <2>1, <2>2, <3>1, Zenon
  <2>4. sh' \in Keys
    BY <1>1, <1>2, <1>3 DEF Keys
  <2>. QED  BY <2>3, <2>4
<1>6. WholeType'
  BY <1>1, <1>2, <1>5 DEF WholeType, Untorn
<1>7. Pair'
  BY <1>1, <1>4, BaseAssumption DEF Pair, NoNext
<1>8. \A s \in Slot : s # i => kdb'.keys.mac[s] = kdb.keys.mac[s]
  BY <1>3, <1>4 DEF Keys
<1>9. kdb'.keys.mac[i] = m
  BY <1>1, <1>3, <1>4 DEF Keys
<1>10. OneBase'
  BY <1>1, <1>4, <1>8, <1>9 DEF OneBase, Generated, Untorn
<1>11. \A s \in Slot : kdb.keys.mac[s].num \in Nat
  BY <1>3 DEF Keys
<1>12. \A s \in Generated : kdb.keys.mac[s].num < sh.next
  BY <1>1 DEF Untorn, WholeType, OneBase, NextIsNew
<1>13. NextIsNew'
  <2>. SUFFICES ASSUME NEW s \in Generated' PROVE kdb'.keys.mac[s].num < kdb'.keys.next
    BY DEF NextIsNew
  <2>1. CASE s = i
    BY <2>1, <1>1, <1>4, <1>9
  <2>2. CASE s # i
    <3>1. s \in Slot /\ s \in Generated /\ kdb'.keys.mac[s] = kdb.keys.mac[s]
      BY <2>2, <1>8 DEF Generated
    <3>. QED  BY <3>1, <1>1, <1>4, <1>11, <1>12
  <2>. QED  BY <2>1, <2>2
<1>14. Distinct'
  <2>. SUFFICES ASSUME NEW s \in Generated', NEW t \in Generated',
                       kdb'.keys.mac[s] = kdb'.keys.mac[t]
                PROVE  s = t
    BY DEF Distinct
  <2>1. ASSUME NEW u \in Generated', u # i
        PROVE  /\ u \in Slot /\ u \in Generated
               /\ kdb'.keys.mac[u] = kdb.keys.mac[u]
               /\ kdb.keys.mac[u].num # m.num
    <3>1. u \in Slot /\ u \in Generated /\ kdb'.keys.mac[u] = kdb.keys.mac[u]
      BY <2>1, <1>8 DEF Generated
    <3>. QED  BY <3>1, <1>1, <1>11, <1>12
  <2>2. CASE s = i \/ t = i
    BY <2>1, <2>2, <1>9
  <2>3. CASE s # i /\ t # i
    BY <2>1, <2>3 DEF Untorn, Distinct
  <2>. QED  BY <2>2, <2>3
<1>15. FromFirst' /\ AllHaveMac'
  BY <1>2 DEF FromFirst, AllHaveMac
<1>16. InLoop'
  <2>1. sh'.base = sh.base /\ sh'.next = sh.next + 1 /\ sh'.mac = sh.mac
    BY <1>2, <1>3 DEF Keys
  <2>2. ASSUME NEW s \in Slot
        PROVE  /\ s < i + 1 => kdb'.keys.mac[s] # NoMac
               /\ s >= i + 1 => sh.mac[s] = kdb'.keys.mac[s]
    <3>. s \in Nat
      BY SlotFacts
    <3>1. CASE s = i
      BY <3>1, <1>1, <1>9, BaseAssumption DEF NoMac
    <3>2. CASE s # i
      BY <3>2, <1>1, <1>8 DEF Untorn, InLoop
    <3>. QED  BY <3>1, <3>2
  <2>. QED  BY <2>1, <2>2, <1>1, <1>2, <1>4 DEF InLoop
<1>17. NoneWasted'
  <2>1. i \in Without /\ Without' = Without \ {i}
    <3>1. i \in Without
      BY <1>1, SlotFacts DEF Without, Assign, Untorn, InLoop
    <3>2. m # NoMac
      BY <1>1, BaseAssumption DEF NoMac
    <3>. QED  BY <1>8, <1>9, <3>1, <3>2 DEF Without
  <2>2. /\ IsFiniteSet(Without) /\ Cardinality(Without) \in Nat
        /\ Cardinality(Without') = Cardinality(Without) - 1
    <3>1. IsFiniteSet(Without) /\ Cardinality(Without) \in Nat
      BY FewSlots DEF Without
    <3>. QED  BY <2>1, <3>1, FS_RemoveElement
  <2>3. sh.next + Cardinality(Without) <= 229 + Len(Ifaces) + edits
    BY <1>1 DEF Untorn, WholeType, NoneWasted, Without, NoNext
  <2>4. kdb'.keys.next + Cardinality(Without') <= 229 + Len(Ifaces) + edits'
    BY <1>1, <1>2, <1>4, <2>2, <2>3
  <2>. QED  BY <2>4 DEF NoneWasted, Without
<1>. QED
  BY <1>6, <1>7, <1>10, <1>13, <1>14, <1>15, <1>16, <1>17 DEF Untorn

\* A base is drawn only while there is none, and then no address was ever
\* generated.
LEMMA StepGenerate ==
    ASSUME tears' = 0, Untorn, NEW b \in Base, NEW n \in Draw, Generate(b, n)
    PROVE  Untorn'
<1>. DEFINE keys == [kdb.keys EXCEPT !.base = b, !.next = n]
<1>1. /\ kdb.keys \in Keys /\ sh \in Keys /\ i \in Nat \ {0} /\ tears = 0
      /\ edits \in Nat /\ edits' = edits
  BY DEF Untorn, WholeType, Generate
<1>2. pc = "generate" /\ kdb.keys.base = "none" /\ i = 1 /\ n \in Nat /\ n <= 229
  BY DrawAssumption DEF Generate, Untorn, FromFirst
<1>3. Generated = {}
  BY <1>2, BaseAssumption DEF Untorn, OneBase, Generated
<1>4. [sh EXCEPT !.base = b] \in Keys
  BY <1>1 DEF Keys
<1>5. CASE b = BadBase
  <2>1. /\ kdb' = kdb /\ i' = i /\ tears' = tears
        /\ pc' = "eval" /\ sh' = [sh EXCEPT !.base = b]
    BY <1>5 DEF Generate
  <2>2. FromFirst' /\ InLoop' /\ AllHaveMac'
    BY <1>2, <2>1 DEF FromFirst, InLoop, AllHaveMac
  <2>. QED  BY <1>1, <1>4, <2>1, <2>2, SameFile
<1>6. CASE b # BadBase
  <2>1. /\ kdb' = [form |-> "good", keys |-> keys]
        /\ pc' = "eval" /\ sh' = [sh EXCEPT !.base = b] /\ i' = i /\ tears' = 0
    BY <1>6, SetSucceeds DEF Generate, Untorn
  <2>2. keys \in Keys
    BY <1>1, <1>2 DEF Keys
  <2>3. /\ kdb'.keys.base = b /\ kdb'.keys.next = n
        /\ kdb'.keys.mac = kdb.keys.mac
    BY <1>1, <2>1 DEF Keys
  <2>4. WholeType'
    BY <1>1, <1>4, <2>1, <2>2 DEF WholeType
  <2>5. Pair'
    BY <1>2, <2>3, BaseAssumption DEF Pair, NoNext
  <2>6. Generated' = {}
    BY <1>3, <2>3 DEF Generated
  <2>7. OneBase' /\ NextIsNew' /\ Distinct'
    BY <2>6 DEF OneBase, NextIsNew, Distinct
  <2>8. FromFirst' /\ InLoop' /\ AllHaveMac'
    BY <1>2, <2>1 DEF FromFirst, InLoop, AllHaveMac
  <2>9. NoneWasted'
    <3>1. /\ Cardinality(Without') \in Nat /\ Cardinality(Without') <= Len(Ifaces)
          /\ Len(Ifaces) \in Nat
      BY FewSlots, SlotFacts DEF Without
    <3>2. kdb'.keys.next + Cardinality(Without') <= 229 + Len(Ifaces) + edits'
      BY <1>1, <1>2, <2>3, <3>1
    <3>. QED  BY <3>2 DEF NoneWasted, Without
  <2>. QED  BY <2>4, <2>5, <2>7, <2>8, <2>9 DEF Untorn
<1>. QED  BY <1>5, <1>6

\* An emptied or an entered address is not a generated one.
LEMMA StepSave ==
    ASSUME tears' = 0, Untorn, NEW s \in Slot, NEW m \in {NoMac, Custom}, SaveIface(s, m)
    PROVE  Untorn'
<1>. DEFINE keys == [kdb.keys EXCEPT !.mac[s] = m]
<1>1. kdb.keys \in Keys /\ sh \in Keys /\ i \in Nat \ {0} /\ pc = "up"
  BY DEF Untorn, WholeType, SaveIface
<1>2. /\ kdb' = [form |-> "good", keys |-> keys]
      /\ pc' = "up" /\ sh' = sh /\ i' = i /\ tears' = 0
  BY SetSucceeds DEF SaveIface, Untorn
<1>3. /\ kdb'.keys.base = kdb.keys.base /\ kdb'.keys.next = kdb.keys.next
      /\ kdb'.keys.mac = [kdb.keys.mac EXCEPT ![s] = m]
  BY <1>1, <1>2 DEF Keys
<1>4. keys \in Keys
  <2>1. m \in [base : Base \cup {"none", "custom"}, num : Nat]
    BY DEF NoMac, Custom
  <2>2. [kdb.keys.mac EXCEPT ![s] = m]
            \in [Slot -> [base : Base \cup {"none", "custom"}, num : Nat]]
    BY <1>1, <2>1 DEF Keys
  <2>3. keys = [base |-> kdb.keys.base, next |-> kdb.keys.next,
                mac |-> [kdb.keys.mac EXCEPT ![s] = m]]
    BY <1>1, SMTT(30) DEF Keys
  <2>. QED  BY <1>1, <2>2, <2>3 DEF Keys
<1>5. WholeType' /\ Pair' /\ FromFirst' /\ InLoop' /\ AllHaveMac'
  BY <1>1, <1>2, <1>3, <1>4
     DEF WholeType, Pair, FromFirst, InLoop, AllHaveMac, Untorn, SaveIface
<1>6. ASSUME NEW t \in Generated'
      PROVE  t \in Generated /\ kdb'.keys.mac[t] = kdb.keys.mac[t]
  <2>1. t \in Slot /\ kdb'.keys.mac[t].base \in Base
    BY DEF Generated
  <2>2. kdb'.keys.mac[s] = m
    BY <1>1, <1>3 DEF Keys
  <2>3. t # s
    BY <2>1, <2>2, BaseAssumption DEF NoMac, Custom
  <2>. QED  BY <1>1, <1>3, <2>1, <2>3 DEF Generated, Keys
<1>7. OneBase' /\ NextIsNew' /\ Distinct'
  <2>1. tears = 0
    BY DEF Untorn, WholeType
  <2>. QED  BY <1>3, <1>6, <2>1 DEF OneBase, NextIsNew, Distinct, Untorn
<1>8. NoneWasted'
  <2>. SUFFICES ASSUME kdb.keys.next # NoNext
                PROVE  kdb'.keys.next + Cardinality(Without') <= 229 + Len(Ifaces) + edits'
    BY <1>3 DEF NoneWasted, Without
  <2>1. Without' \in SUBSET (Without \cup {s})
    BY <1>1, <1>3 DEF Without, Keys
  <2>2. /\ IsFiniteSet(Without) /\ Cardinality(Without) \in Nat /\ Len(Ifaces) \in Nat
        /\ Cardinality(Without') \in Nat
    BY FewSlots, SlotFacts DEF Without
  <2>3. /\ IsFiniteSet(Without \cup {s})
        /\ \/ Cardinality(Without \cup {s}) = Cardinality(Without)
           \/ Cardinality(Without \cup {s}) = Cardinality(Without) + 1
    BY <2>2, FS_AddElement
  <2>4. Cardinality(Without') <= Cardinality(Without) + 1
    BY <2>1, <2>2, <2>3, FS_Subset
  <2>5. kdb.keys.next + Cardinality(Without) <= 229 + Len(Ifaces) + edits
    BY DEF Untorn, WholeType, NoneWasted, Without
  <2>6. edits' = edits + 1 /\ edits \in Nat /\ kdb.keys.next \in Nat
    BY <1>1 DEF SaveIface, Untorn, WholeType, Keys
  <2>. QED  BY <1>3, <2>2, <2>4, <2>5, <2>6, SMTT(30)
<1>. QED  BY <1>5, <1>7, <1>8 DEF Untorn

LEMMA NextUntorn == tears' = 0 /\ Untorn /\ [Next]_vars => Untorn'
<1>. SUFFICES ASSUME tears' = 0, Untorn, [Next]_vars PROVE Untorn'
  OBVIOUS
<1>0. kdb.keys \in Keys /\ sh \in Keys /\ i \in Nat \ {0} /\ tears = 0 /\ edits \in Nat
  BY DEF Untorn, WholeType
<1>1. CASE UNCHANGED vars
  BY <1>1, SameFile DEF vars, Untorn, WholeType, FromFirst, InLoop, AllHaveMac
<1>2. CASE PowerOn
  BY <1>2, <1>0, SameFile DEF PowerOn, Untorn, FromFirst, InLoop, AllHaveMac
<1>3. CASE CopyDefault
  <2>1. /\ pc = "start" /\ pc' = "generate" /\ i' = i /\ sh' = sh /\ tears' = tears
        /\ edits' = edits
        /\ kdb' = IF kdb.form = "missing" THEN File("good", NoKeys) ELSE kdb
    BY <1>3, <1>0 DEF CopyDefault, Tear
  <2>2. FromFirst' /\ InLoop' /\ AllHaveMac'
    BY <2>1 DEF Untorn, FromFirst, InLoop, AllHaveMac
  <2>3. CASE kdb' = kdb
    BY <1>0, <2>1, <2>2, <2>3, SameFile
  <2>4. CASE kdb' = File("good", NoKeys)
    <3>1. WholeType'
      BY <1>0, <2>1, <2>4, NoKeysType DEF WholeType, File
    <3>2. Generated' = {}
      BY <2>4, BaseAssumption DEF Generated, File, NoKeys, NoMac
    <3>3. Pair'
      BY <2>4 DEF Pair, File, NoKeys
    <3>4. OneBase' /\ NextIsNew' /\ Distinct'
      BY <3>2 DEF OneBase, NextIsNew, Distinct
    <3>5. NoneWasted'
      BY <2>4 DEF NoneWasted, File, NoKeys
    <3>. QED  BY <2>2, <3>1, <3>3, <3>4, <3>5 DEF Untorn
  <2>. QED  BY <2>1, <2>3, <2>4
<1>4. CASE HaveBase
  BY <1>4, <1>0, SameFile DEF HaveBase, Untorn, FromFirst, InLoop, AllHaveMac
<1>5. CASE Eval
  <2>. DEFINE vs == [kdb.keys EXCEPT !.base = IF @ = "none" THEN sh.base ELSE @]
  <2>1. /\ pc = "eval" /\ i = 1 /\ kdb' = kdb /\ i' = i /\ tears' = tears /\ sh' = vs
        /\ edits' = edits
        /\ pc' = IF vs.base # "none" /\ vs.next # NoNext THEN "loop" ELSE "done"
    BY <1>5 DEF Eval, Untorn, FromFirst
  <2>2. vs \in Keys /\ vs.next = kdb.keys.next /\ vs.mac = kdb.keys.mac
    BY <1>0 DEF Keys
  <2>3. kdb.keys.next # NoNext => vs.base = kdb.keys.base /\ vs.base \in Base
    BY <1>0 DEF Untorn, Pair, Keys
  <2>4. kdb.keys.next # NoNext => vs.base # "none" /\ kdb.keys.next \in Nat
    BY <1>0, <2>3, BaseAssumption DEF Keys
  <2>5. FromFirst' /\ AllHaveMac'
    BY <2>1, <2>2, <2>4 DEF FromFirst, AllHaveMac
  <2>6. InLoop'
    <3>1. \A s \in Slot : s \in Nat /\ ~(s < 1)
      BY SlotFacts
    <3>. QED  BY <2>1, <2>2, <2>3, <2>4, <3>1 DEF InLoop
  <2>7. pc' \in {"loop", "done"}
    BY <2>1
  <2>8. i' \in Nat \ {0} /\ sh' \in Keys
    BY <1>0, <2>1, <2>2
  <2>. QED  BY <2>1, <2>5, <2>6, <2>7, <2>8, SameFile
<1>6. CASE Assign
  BY <1>6, StepAssign
<1>7. CASE Skip
  <2>1. /\ pc = "loop" /\ i \in Slot /\ sh.mac[i] # NoMac /\ i' = i + 1
        /\ kdb' = kdb /\ pc' = pc /\ sh' = sh /\ tears' = tears /\ edits' = edits
    BY <1>7 DEF Skip
  <2>2. ASSUME NEW s \in Slot
        PROVE  /\ s < i + 1 => kdb.keys.mac[s] # NoMac
               /\ s >= i + 1 => sh.mac[s] = kdb.keys.mac[s]
    <3>. s \in Nat
      BY SlotFacts
    <3>1. CASE s = i
      BY <3>1, <1>0, <2>1 DEF Untorn, InLoop
    <3>2. CASE s # i
      BY <3>2, <1>0, <2>1 DEF Untorn, InLoop
    <3>. QED  BY <3>1, <3>2
  <2>3. InLoop'
    BY <2>1, <2>2 DEF Untorn, InLoop
  <2>4. FromFirst' /\ AllHaveMac'
    BY <2>1 DEF FromFirst, AllHaveMac
  <2>. QED  BY <1>0, <2>1, <2>3, <2>4, SameFile
<1>8. CASE EndLoop
  <2>1. /\ pc = "loop" /\ i \notin Slot /\ pc' = "done"
        /\ kdb' = kdb /\ i' = i /\ sh' = sh /\ tears' = tears /\ edits' = edits
    BY <1>8 DEF EndLoop
  <2>2. ASSUME NEW s \in Slot PROVE kdb.keys.mac[s] # NoMac
    BY <1>0, <2>1, SlotFacts DEF Untorn, InLoop
  <2>. QED  BY <1>0, <2>1, <2>2, SameFile DEF FromFirst, InLoop, AllHaveMac
<1>9. CASE Up
  BY <1>9, <1>0, SameFile DEF Up, Untorn, FromFirst, InLoop, AllHaveMac
<1>10. CASE PowerOff
  BY <1>10, <1>0, NoKeysType, SameFile
     DEF PowerOff, Off, FromFirst, InLoop, AllHaveMac
<1>11. ASSUME NEW b \in Base, NEW n \in Draw, Generate(b, n) PROVE Untorn'
  BY <1>11, StepGenerate
<1>12. ASSUME NEW s \in Slot, NEW m \in {NoMac, Custom}, SaveIface(s, m) PROVE Untorn'
  BY <1>12, StepSave
<1>. QED
  BY <1>1, <1>2, <1>3, <1>4, <1>5, <1>6, <1>7, <1>8, <1>9, <1>10, <1>11, <1>12 DEF Next

-----------------------------------------------------------------------------
(* The types, torn writes and all.                                         *)

Names == Base \cup {"none", "broken", "custom"}
Macs == [base : Names, num : Nat]
AnyKeys == [base : Names, next : Nat \cup {NoNext}, mac : [Slot -> Macs]]
Files == [form : {"missing", "blank", "bad", "good"}, keys : AnyKeys]
Places == {"off", "start", "generate", "eval", "loop", "done", "up"}

\* The loop is entered with a number only.
Counting == pc = "loop" => sh.next \in Nat

LEMMA Types ==
  TypeOK <=> /\ kdb \in Files /\ pc \in Places /\ i \in 1 .. Len(Ifaces) + 1
             /\ sh \in AnyKeys /\ redrawn \in BOOLEAN
             /\ edits \in 0 .. MaxEdits /\ tears \in 0 .. MaxTears
  BY DEF TypeOK, Files, Places, AnyKeys, Macs, Names

LEMMA NoKeysAny == NoKeys \in AnyKeys /\ NoMac \in Macs /\ Broken \in Macs /\ Custom \in Macs
  BY DEF NoKeys, AnyKeys, NoMac, Broken, Custom, Macs, Names

\* Keys with another base, number or list of addresses.
LEMMA OtherKeys ==
  ASSUME NEW keys \in AnyKeys, NEW b \in Names, NEW n \in Nat \cup {NoNext},
         NEW f \in [Slot -> Macs]
  PROVE  /\ [keys EXCEPT !.base = b, !.next = n] \in AnyKeys
         /\ [keys EXCEPT !.base = b] \in AnyKeys
         /\ [keys EXCEPT !.next = n] \in AnyKeys
         /\ [keys EXCEPT !.mac = f] \in AnyKeys
         /\ [keys EXCEPT !.mac = f, !.next = n] \in AnyKeys
  BY DEF AnyKeys

\* A prefix of an address or of a number is one again, or nothing.
LEMMA Prefixes ==
  ASSUME NEW m \in Macs, NEW n \in Nat \cup {NoNext}
  PROVE  TornMac(m) \subseteq Macs /\ TornNumber(n) \subseteq Nat \cup {NoNext}
<1>1. \A a \in Nat : a \div 16 \in Nat /\ a \div 10 \in Nat /\ a \div 100 \in Nat
  OBVIOUS
<1>2. TornMac(m) \subseteq Macs
  <2>1. m.num \in Nat /\ m.base \in Names
    BY DEF Macs
  <2>2. [base |-> m.base, num |-> m.num \div 16] \in Macs
    BY <1>1, <2>1 DEF Macs
  <2>. QED  BY <2>2, NoKeysAny DEF TornMac, Mac
<1>3. TornNumber(n) \subseteq Nat \cup {NoNext}
  <2>. SUFFICES ASSUME NEW d \in {10, 100}, n >= d PROVE n \div d \in Nat
    BY DEF TornNumber
  <2>1. n \in Nat
    BY DEF NoNext
  <2>. QED  BY <1>1, <2>1
<1>. QED  BY <1>2, <1>3

LEMMA TornTypes ==
  ASSUME NEW keys \in AnyKeys
  PROVE  Torn(keys) \subseteq Files
<1>1. keys.base \in Names /\ keys.next \in Nat \cup {NoNext} /\ keys.mac \in [Slot -> Macs]
  BY DEF AnyKeys
<1>2. ASSUME NEW k \in Slot,
             NEW m \in IF keys.mac[k] = NoMac THEN {NoMac} ELSE TornMac(keys.mac[k])
      PROVE  [NoKeys EXCEPT !.mac = [s \in Slot |-> IF s < k THEN keys.mac[s]
                                                    ELSE IF s = k THEN m ELSE NoMac]]
                \in AnyKeys
  <2>1. m \in Macs
    BY <1>1, <1>2, Prefixes, NoKeysAny
  <2>. DEFINE f == [s \in Slot |-> IF s < k THEN keys.mac[s] ELSE IF s = k THEN m ELSE NoMac]
  <2>2. f \in [Slot -> Macs]
    BY <1>1, <2>1, NoKeysAny
  <2>. HIDE DEF f
  <2>3. [NoKeys EXCEPT !.mac = f] \in AnyKeys
    BY <2>2, NoKeysAny, OtherKeys DEF Names, NoNext
  <2>. QED  BY <2>3 DEF f
<1>3. ASSUME NEW b \in {"none", "broken", keys.base}
      PROVE  [keys EXCEPT !.base = b, !.next = NoNext] \in AnyKeys
  <2>1. b \in Names
    BY <1>1 DEF Names
  <2>. QED  BY <1>1, <2>1, OtherKeys
<1>4. ASSUME NEW n \in {keys.next} \cup TornNumber(keys.next)
      PROVE  [keys EXCEPT !.next = n] \in AnyKeys
  <2>1. n \in Nat \cup {NoNext}
    BY <1>1, Prefixes, NoKeysAny
  <2>. QED  BY <1>1, <2>1, OtherKeys
<1>5. ASSUME NEW x \in TornKeys(keys) PROVE x \in AnyKeys
  <2>. DEFINE Cut(k, m) ==
                [NoKeys EXCEPT !.mac = [s \in Slot |-> IF s < k THEN keys.mac[s]
                                                       ELSE IF s = k THEN m ELSE NoMac]]
              Rest(k) == IF keys.mac[k] = NoMac THEN {NoMac} ELSE TornMac(keys.mac[k])
              Cuts(k) == {Cut(k, m) : m \in Rest(k)}
              A == {[keys EXCEPT !.base = b, !.next = NoNext] : b \in {"none", "broken", keys.base}}
              B == {[keys EXCEPT !.next = n] : n \in {keys.next} \cup TornNumber(keys.next)}
  <2>1. TornKeys(keys) = (UNION {Cuts(k) : k \in Slot}) \cup A \cup B
    BY Zenon DEF TornKeys
  <2>2. A \subseteq AnyKeys /\ B \subseteq AnyKeys
    BY <1>3, <1>4
  <2>3. ASSUME NEW k \in Slot PROVE Cuts(k) \subseteq AnyKeys
    BY <1>2
  <2>. HIDE DEF Cuts, A, B
  <2>. QED  BY <1>5, <2>1, <2>2, <2>3
<1>. QED  BY <1>5, NoKeysAny DEF Torn, File, Files

LEMMA TearTypes ==
  ASSUME TypeOK, NEW files \in SUBSET Files, Tear(files)
  PROVE  /\ kdb' \in Files /\ pc' = "off" /\ i' \in 1 .. Len(Ifaces) + 1 /\ sh' \in AnyKeys
         /\ tears' \in 0 .. MaxTears /\ tears' # 0
<1>1. tears \in 0 .. MaxTears /\ MaxTears \in Nat
  BY BoundsAssumption DEF TypeOK
<1>. QED  BY <1>1, NoKeysAny, SlotFacts DEF Tear, Off

LEMMA SetTypes ==
  ASSUME TypeOK, NEW keys \in AnyKeys, NEW next \in Places, NEW vs \in AnyKeys,
         NEW pos \in 1 .. Len(Ifaces) + 1, KdbSet(keys, next, vs, pos)
  PROVE  /\ kdb' \in Files /\ i' \in 1 .. Len(Ifaces) + 1 /\ sh' \in AnyKeys
         /\ (pc' = next /\ sh' = vs) \/ pc' = "off"
         /\ tears' \in 0 .. MaxTears
<1>1. CASE Tear(Torn(keys))
  BY <1>1, TornTypes, TearTypes
<1>2. CASE ~Tear(Torn(keys))
  <2>1. /\ kdb' = kdb \/ kdb' = [form |-> "good", keys |-> keys]
        /\ pc' = next /\ sh' = vs /\ i' = pos /\ tears' = tears
    BY <1>2 DEF KdbSet, File
  <2>2. kdb \in Files /\ tears \in 0 .. MaxTears
    BY Types
  <2>. QED  BY <2>1, <2>2 DEF Files
<1>. QED  BY <1>1, <1>2

LEMMA TypeKeeps == TypeOK /\ Counting /\ [Next]_vars => TypeOK' /\ Counting'
<1>. SUFFICES ASSUME TypeOK, Counting, [Next]_vars PROVE TypeOK' /\ Counting'
  OBVIOUS
<1>1. /\ kdb \in Files /\ pc \in Places /\ i \in 1 .. Len(Ifaces) + 1
      /\ sh \in AnyKeys /\ redrawn \in BOOLEAN
      /\ edits \in 0 .. MaxEdits /\ tears \in 0 .. MaxTears
  BY Types
<1>2. /\ kdb.keys \in AnyKeys /\ kdb.keys.base \in Names
      /\ kdb.keys.next \in Nat \cup {NoNext} /\ kdb.keys.mac \in [Slot -> Macs]
      /\ sh.base \in Names /\ sh.next \in Nat \cup {NoNext}
  BY <1>1 DEF Files, AnyKeys
<1>. SUFFICES /\ kdb' \in Files /\ pc' \in Places /\ i' \in 1 .. Len(Ifaces) + 1
              /\ sh' \in AnyKeys /\ redrawn' \in BOOLEAN
              /\ edits' \in 0 .. MaxEdits /\ tears' \in 0 .. MaxTears
              /\ pc' = "loop" => sh'.next \in Nat
  BY DEF TypeOK, Files, Places, AnyKeys, Macs, Names, Counting
<1>3. CASE UNCHANGED vars
  BY <1>1, <1>3 DEF vars, Counting
<1>4. CASE PowerOn \/ HaveBase \/ Up \/ EndLoop
  BY <1>1, <1>4 DEF PowerOn, HaveBase, Up, EndLoop, Places
<1>5. CASE CopyDefault
  <2>1. File("good", NoKeys) \in Files
    BY NoKeysAny DEF File, Files
  <2>2. {File(f, NoKeys) : f \in {"blank", "bad", "good"}} \in SUBSET Files
    BY NoKeysAny DEF File, Files
  <2>3. CASE Tear({File(f, NoKeys) : f \in {"blank", "bad", "good"}})
    <3>1. redrawn' = redrawn /\ edits' = edits
      BY <1>5 DEF CopyDefault
    <3>. QED  BY <1>1, <2>2, <2>3, <3>1, TearTypes DEF Places
  <2>4. CASE pc' = "generate" /\ UNCHANGED <<i, sh, tears>>
    <3>1. redrawn' = redrawn /\ edits' = edits
      BY <1>5 DEF CopyDefault
    <3>2. kdb' = File("good", NoKeys) \/ kdb' = kdb
      BY <1>5, <2>4 DEF CopyDefault, Tear, Off
    <3>. QED  BY <1>1, <2>1, <2>4, <3>1, <3>2 DEF Places
  <2>. QED  BY <1>5, <2>3, <2>4 DEF CopyDefault
<1>6. CASE Eval
  <2>. DEFINE vs == [kdb.keys EXCEPT !.base = IF @ = "none" THEN sh.base ELSE @]
  <2>1. /\ sh' = vs /\ pc' = (IF vs.base # "none" /\ vs.next # NoNext THEN "loop" ELSE "done")
        /\ UNCHANGED <<kdb, i, redrawn, edits, tears>>
    BY <1>6 DEF Eval
  <2>2. vs \in AnyKeys /\ vs.next \in Nat \cup {NoNext}
    BY <1>2 DEF AnyKeys
  <2>. HIDE DEF vs
  <2>. QED  BY <1>1, <2>1, <2>2 DEF Places
<1>7. CASE Assign
  <2>. DEFINE f == [kdb.keys.mac EXCEPT ![i] = Mac(sh.base, sh.next)]
              keys == [kdb.keys EXCEPT !.mac = f, !.next = sh.next + 1]
              vs == [sh EXCEPT !.next = @ + 1]
  <2>1. /\ pc = "loop" /\ i \in Slot /\ UNCHANGED <<redrawn, edits>>
        /\ KdbSet([kdb.keys EXCEPT !.mac = [@ EXCEPT ![i] = Mac(sh.base, sh.next)],
                                   !.next = sh.next + 1],
                  "loop", [sh EXCEPT !.next = @ + 1], i + 1)
    BY <1>7 DEF Assign
  <2>2. sh.next \in Nat /\ sh.next + 1 \in Nat
    BY <2>1 DEF Counting
  <2>3. KdbSet(keys, "loop", vs, i + 1)
    <3>1. keys = [kdb.keys EXCEPT !.mac = [@ EXCEPT ![i] = Mac(sh.base, sh.next)],
                                  !.next = sh.next + 1]
      BY <1>2 DEF AnyKeys
    <3>. QED  BY <2>1, <3>1
  <2>4. f \in [Slot -> Macs]
    <3>1. Mac(sh.base, sh.next) \in Macs
      BY <1>2, <2>2 DEF Mac, Macs
    <3>. QED  BY <1>2, <3>1
  <2>. HIDE DEF f
  <2>5. keys \in AnyKeys
    BY <1>2, <2>2, <2>4, OtherKeys
  <2>6. vs \in AnyKeys /\ vs.next \in Nat
    BY <1>1, <2>2 DEF AnyKeys
  <2>7. i + 1 \in 1 .. Len(Ifaces) + 1
    BY <2>1, SlotFacts
  <2>8. "loop" \in Places /\ "off" \in Places
    BY DEF Places
  <2>. HIDE DEF keys, vs
  <2>9. /\ kdb' \in Files /\ i' \in 1 .. Len(Ifaces) + 1 /\ sh' \in AnyKeys
        /\ (pc' = "loop" /\ sh' = vs) \/ pc' = "off"
        /\ tears' \in 0 .. MaxTears
    BY <2>3, <2>5, <2>6, <2>7, <2>8, SetTypes
  <2>. QED  BY <1>1, <2>1, <2>6, <2>8, <2>9
<1>8. CASE Skip
  <2>1. i \in Slot /\ i' = i + 1 /\ UNCHANGED <<kdb, pc, sh, redrawn, edits, tears>>
    BY <1>8 DEF Skip
  <2>2. i' \in 1 .. Len(Ifaces) + 1
    BY <2>1, SlotFacts
  <2>. QED  BY <1>1, <2>1, <2>2 DEF Counting
<1>9. CASE PowerOff
  BY <1>1, <1>9, NoKeysAny, SlotFacts DEF PowerOff, Off, Places
<1>10. ASSUME NEW b \in Base, NEW n \in Draw, Generate(b, n)
       PROVE  /\ kdb' \in Files /\ pc' \in Places /\ i' \in 1 .. Len(Ifaces) + 1
              /\ sh' \in AnyKeys /\ redrawn' \in BOOLEAN
              /\ edits' \in 0 .. MaxEdits /\ tears' \in 0 .. MaxTears
              /\ pc' = "loop" => sh'.next \in Nat
  <2>1. b \in Names /\ n \in Nat \cup {NoNext}
    BY DrawAssumption DEF Names
  <2>2. [kdb.keys EXCEPT !.base = b, !.next = n] \in AnyKeys /\ [sh EXCEPT !.base = b] \in AnyKeys
    BY <1>1, <1>2, <2>1, OtherKeys
  <2>3. edits' = edits /\ redrawn' \in BOOLEAN
    BY <1>10 DEF Generate
  <2>4. CASE b = BadBase
    <3>1. sh' = [sh EXCEPT !.base = b] /\ pc' = "eval" /\ UNCHANGED <<kdb, i, tears>>
      BY <1>10, <2>4 DEF Generate
    <3>. QED  BY <1>1, <2>2, <2>3, <3>1 DEF Places
  <2>5. CASE b # BadBase
    <3>1. KdbSet([kdb.keys EXCEPT !.base = b, !.next = n], "eval", [sh EXCEPT !.base = b], i)
      BY <1>10, <2>5 DEF Generate
    <3>2. "eval" \in Places /\ "off" \in Places
      BY DEF Places
    <3>3. /\ kdb' \in Files /\ i' \in 1 .. Len(Ifaces) + 1 /\ sh' \in AnyKeys
          /\ pc' = "eval" \/ pc' = "off"
          /\ tears' \in 0 .. MaxTears
      BY <1>1, <2>2, <3>1, <3>2, SetTypes
    <3>. QED  BY <1>1, <2>3, <3>2, <3>3
  <2>. QED  BY <2>4, <2>5
<1>11. ASSUME NEW s \in Slot, NEW m \in {NoMac, Custom}, SaveIface(s, m)
       PROVE  /\ kdb' \in Files /\ pc' \in Places /\ i' \in 1 .. Len(Ifaces) + 1
              /\ sh' \in AnyKeys /\ redrawn' \in BOOLEAN
              /\ edits' \in 0 .. MaxEdits /\ tears' \in 0 .. MaxTears
              /\ pc' = "loop" => sh'.next \in Nat
  <2>. DEFINE f == [kdb.keys.mac EXCEPT ![s] = m]
              keys == [kdb.keys EXCEPT !.mac = f]
  <2>1. /\ KdbSet([kdb.keys EXCEPT !.mac[s] = m], "up", sh, i)
        /\ edits < MaxEdits /\ edits' = edits + 1 /\ redrawn' = redrawn
    BY <1>11 DEF SaveIface
  <2>2. f \in [Slot -> Macs]
    BY <1>2, NoKeysAny
  <2>3. [kdb.keys EXCEPT !.mac[s] = m] = keys
    BY <1>2 DEF AnyKeys
  <2>4. KdbSet(keys, "up", sh, i)
    BY <2>1, <2>3
  <2>. HIDE DEF f
  <2>5. keys \in AnyKeys
    BY <1>2, <2>2, OtherKeys
  <2>6. "up" \in Places /\ "off" \in Places
    BY DEF Places
  <2>. HIDE DEF keys
  <2>7. /\ kdb' \in Files /\ i' \in 1 .. Len(Ifaces) + 1 /\ sh' \in AnyKeys
        /\ pc' = "up" \/ pc' = "off"
        /\ tears' \in 0 .. MaxTears
    BY <1>1, <2>4, <2>5, <2>6, SetTypes
  <2>8. edits' \in 0 .. MaxEdits
    BY <1>1, <2>1, BoundsAssumption
  <2>. QED  BY <1>1, <2>1, <2>6, <2>7, <2>8
<1>. QED
  BY <1>3, <1>4, <1>5, <1>6, <1>7, <1>8, <1>9, <1>10, <1>11 DEF Next

-----------------------------------------------------------------------------
(* After torn writes, as long as no base is drawn twice and no user has    *)
(* changed an address.  The addresses fill the first slots.  Those of one  *)
(* base may come from several runs of numbers, because a number cut short  *)
(* starts a new one; with few interfaces the runs cannot meet.             *)

\* Addresses of one base differ, and a later slot is hardly above an earlier
\* one, so that what is left of a number that is cut is below all of them.
Apart(keys) ==
    \A s, t \in Slot :
        (s < t /\ keys.mac[s].base \in Base /\ keys.mac[t].base = keys.mac[s].base) =>
            keys.mac[s].num # keys.mac[t].num /\ keys.mac[s].num + t > keys.mac[t].num

\* The slots below t have an address.
Filled(keys, t) == \A s \in Slot : keys.mac[s] = NoMac <=> s >= t

\* The slots from t on can be numbered from the next number on: no address of
\* the base is in the way, nor far below.
Ahead(keys, t) ==
    keys.next # NoNext =>
        \A s \in Slot : keys.mac[s].base = keys.base =>
            /\ keys.mac[s].num + t > keys.next
            /\ keys.mac[s].num < keys.next \/ keys.mac[s].num + t > keys.next + Len(Ifaces)

Sound(keys) ==
    /\ keys.next # NoNext => keys.base \in Base
    /\ Apart(keys)
    /\ \E t \in 1 .. Len(Ifaces) + 1 : Filled(keys, t) /\ Ahead(keys, t)

\* A file that can be written holds what the loop thinks it does.
LoopSound ==
    pc = "loop" =>
        /\ kdb.form \in {"good", "bad"}
        /\ kdb.form = "good" =>
              /\ sh.base = kdb.keys.base /\ sh.next = kdb.keys.next /\ sh.next # NoNext
              /\ \A s \in Slot : /\ s < i => kdb.keys.mac[s] # NoMac
                                 /\ s >= i => sh.mac[s] = kdb.keys.mac[s]

Lucky ==
    /\ Sound(kdb.keys) /\ LoopSound
    /\ kdb.form \in {"missing", "blank"} => kdb.keys = NoKeys
    /\ pc \in {"off", "start", "generate", "eval"} => i = 1

\* Few interfaces, no base twice, no user.
InLuck == Len(Ifaces) <= 9 /\ ~redrawn /\ edits = 0

\* While no write was torn, and in luck; elsewhere the types are all there is.
IInv == TypeOK /\ Counting /\ (tears = 0 => Untorn) /\ (InLuck => Lucky)

\* A number that loses a digit falls by more than there are interfaces.
LEMMA CutFalls ==
  ASSUME NEW a \in Nat
  PROVE  /\ a >= 16 => a \div 16 \in Nat /\ a \div 16 # 0 /\ a \div 16 + 15 <= a
         /\ a >= 10 => a \div 10 \in Nat /\ a \div 10 + 9 <= a
         /\ a >= 100 => a \div 100 \in Nat /\ a \div 100 + 9 <= a
  OBVIOUS

\* What a torn write leaves of the keys: a prefix of the addresses, or all of
\* them with the base and the number lost or the number cut.
LEMMA TornForms ==
  ASSUME NEW keys \in AnyKeys, NEW x \in TornKeys(keys)
  PROVE  \/ \E k \in Slot :
            \E m \in (IF keys.mac[k] = NoMac THEN {NoMac} ELSE TornMac(keys.mac[k])) :
              /\ x.next = NoNext
              /\ \A s \in Slot : x.mac[s] = IF s < k THEN keys.mac[s]
                                            ELSE IF s = k THEN m ELSE NoMac
         \/ x.next = NoNext /\ x.mac = keys.mac
         \/ /\ x.base = keys.base /\ x.mac = keys.mac
            /\ x.next \in {keys.next} \cup TornNumber(keys.next)
<1>. DEFINE Cut(k, m) ==
              [NoKeys EXCEPT !.mac = [s \in Slot |-> IF s < k THEN keys.mac[s]
                                                     ELSE IF s = k THEN m ELSE NoMac]]
            Rest(k) == IF keys.mac[k] = NoMac THEN {NoMac} ELSE TornMac(keys.mac[k])
            Cuts(k) == {Cut(k, m) : m \in Rest(k)}
            A == {[keys EXCEPT !.base = b, !.next = NoNext] : b \in {"none", "broken", keys.base}}
            B == {[keys EXCEPT !.next = n] : n \in {keys.next} \cup TornNumber(keys.next)}
<1>1. TornKeys(keys) = (UNION {Cuts(k) : k \in Slot}) \cup A \cup B
  BY Zenon DEF TornKeys
<1>2. CASE x \in A
  BY <1>2 DEF AnyKeys
<1>3. CASE x \in B
  BY <1>3 DEF AnyKeys
<1>4. CASE \E k \in Slot : x \in Cuts(k)
  <2>1. PICK k \in Slot : \E m \in Rest(k) : x = Cut(k, m)
    BY <1>4
  <2>2. PICK m \in Rest(k) : x = Cut(k, m)
    BY <2>1
  <2>3. x.next = NoNext
    BY <2>2 DEF NoKeys
  <2>4. x.mac = [s \in Slot |-> IF s < k THEN keys.mac[s] ELSE IF s = k THEN m ELSE NoMac]
    BY <2>2 DEF NoKeys
  <2>. QED  BY <2>2, <2>3, <2>4
<1>5. x \in A \/ x \in B \/ \E k \in Slot : x \in Cuts(k)
  <2>. HIDE DEF A, B, Cuts
  <2>. QED  BY <1>1
<1>. QED  BY <1>2, <1>3, <1>4, <1>5

\* A torn write of sound keys leaves sound ones.
LEMMA TornSound ==
  ASSUME Len(Ifaces) <= 9, NEW keys \in AnyKeys, Sound(keys), NEW x \in TornKeys(keys)
  PROVE  Sound(x)
<1>1. keys.next \in Nat \cup {NoNext} /\ keys.mac \in [Slot -> Macs]
  BY DEF AnyKeys
<1>2. \A s \in Slot : keys.mac[s].num \in Nat
  BY <1>1 DEF Macs
<1>3. PICK t \in 1 .. Len(Ifaces) + 1 : Filled(keys, t) /\ Ahead(keys, t)
  BY DEF Sound
<1>4. CASE \E k \in Slot :
           \E m \in (IF keys.mac[k] = NoMac THEN {NoMac} ELSE TornMac(keys.mac[k])) :
              /\ x.next = NoNext
              /\ \A s \in Slot : x.mac[s] = IF s < k THEN keys.mac[s]
                                            ELSE IF s = k THEN m ELSE NoMac
  <2>0. PICK k \in Slot :
           \E m \in (IF keys.mac[k] = NoMac THEN {NoMac} ELSE TornMac(keys.mac[k])) :
              /\ x.next = NoNext
              /\ \A s \in Slot : x.mac[s] = IF s < k THEN keys.mac[s]
                                            ELSE IF s = k THEN m ELSE NoMac
    BY <1>4
  <2>1. PICK m \in (IF keys.mac[k] = NoMac THEN {NoMac} ELSE TornMac(keys.mac[k])) :
              /\ x.next = NoNext
              /\ \A s \in Slot : x.mac[s] = IF s < k THEN keys.mac[s]
                                            ELSE IF s = k THEN m ELSE NoMac
    BY <2>0
  <2>2. \/ m = NoMac
        \/ keys.mac[k] # NoMac /\ m = Broken
        \/ /\ keys.mac[k] # NoMac /\ keys.mac[k].num >= 16
           /\ m = [base |-> keys.mac[k].base, num |-> keys.mac[k].num \div 16]
    BY DEF TornMac, Mac
  <2>3. \E u \in 1 .. Len(Ifaces) + 1 : Filled(x, u)
    <3>1. CASE m = NoMac
      <4>1. CASE t <= k
        BY <1>3, <2>1, <3>1, <4>1, SlotFacts DEF Filled
      <4>2. CASE k < t
        <5>1. k \in 1 .. Len(Ifaces) + 1
          BY SlotFacts
        <5>2. Filled(x, k)
          BY <1>3, <2>1, <3>1, <4>2, SlotFacts DEF Filled
        <5>. QED  BY <5>1, <5>2
      <4>. QED  BY <4>1, <4>2, SlotFacts
    <3>2. CASE m # NoMac
      <4>1. k < t
        BY <1>3, <2>2, <3>2, SlotFacts DEF Filled
      <4>2. k + 1 \in 1 .. Len(Ifaces) + 1
        BY SlotFacts
      <4>3. Filled(x, k + 1)
        BY <1>3, <2>1, <3>2, <4>1, SlotFacts DEF Filled
      <4>. QED  BY <4>2, <4>3
    <3>. QED  BY <3>1, <3>2
  <2>4. Apart(x)
    <3>. SUFFICES ASSUME NEW s \in Slot, NEW u \in Slot, s < u, x.mac[s].base \in Base,
                         x.mac[u].base = x.mac[s].base
                  PROVE  x.mac[s].num # x.mac[u].num /\ x.mac[s].num + u > x.mac[u].num
      BY DEF Apart
    <3>1. NoMac.base \notin Base /\ Broken.base \notin Base
      BY BaseAssumption DEF NoMac, Broken
    <3>2. u <= k /\ s < k /\ x.mac[s] = keys.mac[s]
      BY <2>1, <3>1, SlotFacts
    <3>3. CASE u < k
      BY <2>1, <3>2, <3>3 DEF Sound, Apart
    <3>4. CASE u = k
      <4>1. /\ keys.mac[k].num >= 16 /\ x.mac[u] = m
            /\ m = [base |-> keys.mac[k].base, num |-> keys.mac[k].num \div 16]
        BY <2>1, <2>2, <3>1, <3>4, SlotFacts
      <4>2. keys.mac[s].num + k > keys.mac[k].num
        BY <3>2, <3>4, <4>1 DEF Sound, Apart
      <4>3. k <= 9 /\ k \in Nat
        BY SlotFacts
      <4>4. keys.mac[k].num \in Nat /\ keys.mac[s].num \in Nat
        BY <1>2
      <4>5. x.mac[u].num \in Nat /\ x.mac[u].num + 15 <= keys.mac[k].num
        BY <4>1, <4>4, CutFalls
      <4>. DEFINE a == keys.mac[s].num
                  b == keys.mac[k].num
                  c == x.mac[u].num
      <4>6. a \in Nat /\ b \in Nat /\ c \in Nat /\ c + 15 <= b /\ a + k > b
        BY <4>2, <4>4, <4>5
      <4>. HIDE DEF a, b, c
      <4>7. a # c /\ a + k > c
        BY <4>3, <4>6
      <4>. QED  BY <3>2, <3>4, <4>7 DEF a, c
    <3>. QED  BY <3>2, <3>3, <3>4, SlotFacts
  <2>. QED  BY <2>1, <2>3, <2>4 DEF Sound, Ahead
<1>5. CASE x.next = NoNext /\ x.mac = keys.mac
  <2>1. Apart(x) /\ Filled(x, t) /\ Ahead(x, t)
    BY <1>3, <1>5 DEF Sound, Apart, Filled, Ahead
  <2>. QED  BY <1>5, <2>1 DEF Sound
<1>6. CASE /\ x.base = keys.base /\ x.mac = keys.mac
           /\ x.next \in {keys.next} \cup TornNumber(keys.next)
  <2>1. Apart(x) /\ Filled(x, t)
    BY <1>3, <1>6 DEF Sound, Apart, Filled
  <2>2. \/ x.next = NoNext \/ x.next = keys.next
        \/ /\ keys.next \in Nat /\ x.next \in Nat
           /\ x.next + 9 <= keys.next
    <3>1. ASSUME NEW d \in {10, 100}, keys.next >= d
          PROVE  keys.next \in Nat /\ keys.next \div d \in Nat /\ keys.next \div d + 9 <= keys.next
      <4>1. keys.next \in Nat
        BY <1>1, <3>1 DEF NoNext
      <4>. QED  BY <3>1, <4>1, CutFalls
    <3>. QED  BY <1>6, <3>1 DEF TornNumber
  <2>3. x.next # NoNext => x.base \in Base /\ Ahead(x, t)
    <3>1. CASE x.next = keys.next
      BY <1>3, <1>6, <3>1 DEF Sound, Ahead
    <3>2. CASE keys.next \in Nat /\ x.next \in Nat /\ x.next + 9 <= keys.next
      <4>1. keys.next # NoNext
        BY <3>2 DEF NoNext
      <4>2. keys.base \in Base
        BY <4>1 DEF Sound
      <4>3. ASSUME NEW s \in Slot, keys.mac[s].base = keys.base
            PROVE  /\ keys.mac[s].num + t > x.next
                   /\ keys.mac[s].num + t > x.next + Len(Ifaces)
        <5>1. keys.mac[s].num + t > keys.next
          BY <1>3, <4>1, <4>3 DEF Ahead
        <5>2. keys.mac[s].num \in Nat /\ t \in Nat /\ Len(Ifaces) \in Nat
          BY <1>2, SlotFacts
        <5>3. ASSUME NEW a \in Nat, NEW b \in Nat, NEW c \in Nat, c + 9 <= b, a + t > b
              PROVE  a + t > c /\ a + t > c + Len(Ifaces)
          BY <5>2, <5>3
        <5>. QED  BY <3>2, <5>1, <5>2, <5>3
      <4>. QED  BY <1>6, <4>2, <4>3 DEF Ahead
    <3>. QED  BY <2>2, <3>1, <3>2
  <2>4. Ahead(x, t)
    BY <2>3 DEF Ahead
  <2>. QED  BY <2>1, <2>3, <2>4 DEF Sound
<1>. QED  BY <1>4, <1>5, <1>6, TornForms

\* A file without the keys is sound.
LEMMA EmptySound == Sound(NoKeys)
<1>1. NoKeys.next = NoNext /\ \A s \in Slot : NoKeys.mac[s] = NoMac
  BY DEF NoKeys
<1>2. NoMac.base \notin Base
  BY BaseAssumption DEF NoMac
<1>3. 1 \in 1 .. Len(Ifaces) + 1 /\ Filled(NoKeys, 1) /\ Ahead(NoKeys, 1)
  BY <1>1, SlotFacts DEF Filled, Ahead
<1>4. Apart(NoKeys)
  BY <1>1, <1>2 DEF Apart
<1>. QED  BY <1>1, <1>3, <1>4 DEF Sound

\* What a kdb command that writes sound keys may leave.
LEMMA SetLucky ==
  ASSUME Len(Ifaces) <= 9, NEW keys \in AnyKeys, kdb.form # "bad" => Sound(keys),
         NEW next, NEW vs, NEW pos, KdbSet(keys, next, vs, pos)
  PROVE  \/ /\ pc' = "off" /\ i' = 1 /\ Sound(kdb'.keys)
            /\ kdb'.form \in {"missing", "blank"} => kdb'.keys = NoKeys
         \/ /\ pc' = next /\ sh' = vs /\ i' = pos
            /\ \/ kdb'.form = "good" /\ kdb'.keys = keys /\ kdb.form # "bad"
               \/ kdb' = kdb /\ kdb.form \in {"bad", "blank"}
<1>1. CASE kdb.form \in {"good", "blank"} /\ Tear(Torn(keys))
  <2>1. kdb' \in Torn(keys) /\ pc' = "off" /\ i' = 1
    BY <1>1 DEF Tear, Off
  <2>2. CASE kdb' = [form |-> "blank", keys |-> NoKeys]
    BY <2>1, <2>2, EmptySound
  <2>3. CASE \E f \in {"good", "bad"}, x \in TornKeys(keys) : kdb' = [form |-> f, keys |-> x]
    BY <1>1, <2>1, <2>3, TornSound
  <2>. QED  BY <2>1, <2>2, <2>3 DEF Torn, File
<1>2. CASE ~(kdb.form \in {"good", "blank"} /\ Tear(Torn(keys)))
  BY <1>2 DEF KdbSet, File
<1>. QED  BY <1>1, <1>2

\* The next number of the loop fits.
LEMMA AssignSound ==
  ASSUME TypeOK, Counting, Lucky, kdb.form = "good", pc = "loop", i \in Slot, sh.mac[i] = NoMac
  PROVE  Sound([kdb.keys EXCEPT !.mac = [kdb.keys.mac EXCEPT ![i] = Mac(sh.base, sh.next)],
                                !.next = sh.next + 1])
<1>. DEFINE old == kdb.keys
            m == [base |-> sh.base, num |-> sh.next]
            f == [old.mac EXCEPT ![i] = m]
            keys == [old EXCEPT !.mac = f, !.next = sh.next + 1]
<1>1. old \in AnyKeys /\ old.mac \in [Slot -> Macs] /\ i \in Nat /\ i >= 1 /\ i <= Len(Ifaces)
  BY Types, SlotFacts DEF Files, AnyKeys
<1>2. /\ sh.base = old.base /\ sh.next = old.next /\ sh.next # NoNext /\ sh.next \in Nat
      /\ old.base \in Base
      /\ \A s \in Slot : s < i => old.mac[s] # NoMac
      /\ old.mac[i] = NoMac
  BY SlotFacts DEF Lucky, LoopSound, Sound, Counting
<1>3. \A s \in Slot : old.mac[s].num \in Nat
  BY <1>1 DEF Macs
<1>4. Filled(old, i) /\ Ahead(old, i) /\ Apart(old)
  <2>1. PICK t \in 1 .. Len(Ifaces) + 1 : Filled(old, t) /\ Ahead(old, t)
    BY DEF Lucky, Sound
  <2>2. t = i
    BY <1>1, <1>2, <2>1, SlotFacts DEF Filled
  <2>. QED  BY <2>1, <2>2 DEF Lucky, Sound
<1>5. /\ keys.base = old.base /\ keys.next = sh.next + 1 /\ keys.mac = f
      /\ f[i] = m /\ \A s \in Slot : s # i => f[s] = old.mac[s]
  BY <1>1 DEF AnyKeys
<1>. HIDE DEF keys, f
<1>6. \A s \in Slot : old.mac[s].base = old.base =>
          old.mac[s].num # sh.next /\ old.mac[s].num + i > sh.next
  <2>. SUFFICES ASSUME NEW s \in Slot, old.mac[s].base = old.base
                PROVE  old.mac[s].num # sh.next /\ old.mac[s].num + i > sh.next
    OBVIOUS
  <2>. DEFINE a == old.mac[s].num
              b == sh.next
  <2>1. a + i > b /\ (a < b \/ a + i > b + Len(Ifaces))
    BY <1>2, <1>4 DEF Ahead
  <2>2. a \in Nat /\ b \in Nat /\ Len(Ifaces) \in Nat
    BY <1>2, <1>3, SlotFacts
  <2>. HIDE DEF a, b
  <2>3. a # b /\ a + i > b
    BY <1>1, <2>1, <2>2
  <2>. QED  BY <2>3 DEF a, b
<1>7. NoMac.base \notin Base /\ m # NoMac
  BY <1>2, BaseAssumption DEF NoMac
<1>8. Apart(keys)
  <2>. SUFFICES ASSUME NEW s \in Slot, NEW u \in Slot, s < u, keys.mac[s].base \in Base,
                       keys.mac[u].base = keys.mac[s].base
                PROVE  keys.mac[s].num # keys.mac[u].num /\ keys.mac[s].num + u > keys.mac[u].num
    BY DEF Apart
  <2>1. u <= i
    BY <1>1, <1>4, <1>5, <1>7, SlotFacts DEF Filled
  <2>2. s # i /\ keys.mac[s] = old.mac[s]
    BY <1>1, <1>5, <2>1, SlotFacts
  <2>3. CASE u = i
    BY <1>2, <1>5, <1>6, <2>2, <2>3
  <2>4. CASE u # i
    BY <1>4, <1>5, <2>2, <2>4 DEF Apart
  <2>. QED  BY <2>3, <2>4
<1>9. Filled(keys, i + 1)
  BY <1>1, <1>4, <1>5, <1>7, SlotFacts DEF Filled
<1>10. Ahead(keys, i + 1)
  <2>. SUFFICES ASSUME NEW s \in Slot, keys.mac[s].base = keys.base
                PROVE  /\ keys.mac[s].num + (i + 1) > keys.next
                       /\ \/ keys.mac[s].num < keys.next
                          \/ keys.mac[s].num + (i + 1) > keys.next + Len(Ifaces)
    BY DEF Ahead
  <2>1. CASE s = i
    BY <1>1, <1>2, <1>5, <2>1
  <2>2. CASE s # i
    <3>1. /\ old.mac[s].num + i > sh.next
          /\ old.mac[s].num < sh.next \/ old.mac[s].num + i > sh.next + Len(Ifaces)
      BY <1>2, <1>4, <1>5, <2>2 DEF Ahead
    <3>2. keys.mac[s].num = old.mac[s].num /\ old.mac[s].num \in Nat /\ Len(Ifaces) \in Nat
      BY <1>3, <1>5, <2>2, SlotFacts
    <3>. DEFINE a == old.mac[s].num
                b == sh.next
    <3>3. a \in Nat /\ b \in Nat /\ a + i > b /\ (a < b \/ a + i > b + Len(Ifaces))
      BY <1>2, <3>1, <3>2
    <3>. HIDE DEF a, b
    <3>4. a + (i + 1) > b + 1 /\ (a < b + 1 \/ a + (i + 1) > (b + 1) + Len(Ifaces))
      BY <1>1, <3>2, <3>3
    <3>. QED  BY <1>5, <3>2, <3>4 DEF a, b
  <2>. QED  BY <2>1, <2>2
<1>11. i + 1 \in 1 .. Len(Ifaces) + 1
  BY <1>1, SlotFacts
<1>12. Sound(keys)
  BY <1>2, <1>5, <1>8, <1>9, <1>10, <1>11 DEF Sound
<1>. QED  BY <1>12 DEF keys, f, Mac

\* Luck that holds after a step held before it.
LEMMA LuckStays == TypeOK /\ InLuck' /\ [Next]_vars => InLuck /\ edits' = edits
<1>. SUFFICES ASSUME TypeOK, InLuck', [Next]_vars PROVE InLuck /\ edits' = edits
  OBVIOUS
<1>1. redrawn => redrawn'
  BY DEF Next, vars, PowerOn, CopyDefault, Generate, HaveBase, Eval, Assign, Skip, EndLoop,
         Up, SaveIface, PowerOff
<1>2. edits' = edits \/ edits' = edits + 1
  BY DEF Next, vars, PowerOn, CopyDefault, Generate, HaveBase, Eval, Assign, Skip, EndLoop,
         Up, SaveIface, PowerOff
<1>3. edits \in Nat
  BY BoundsAssumption DEF TypeOK
<1>. QED  BY <1>1, <1>2, <1>3 DEF InLuck

LEMMA NextLucky ==
  ASSUME TypeOK, Counting, InLuck => Lucky, InLuck', [Next]_vars
  PROVE  Lucky'
<1>1. /\ kdb \in Files /\ kdb.keys \in AnyKeys /\ kdb.keys.mac \in [Slot -> Macs]
      /\ kdb.form \in {"missing", "blank", "bad", "good"}
      /\ sh \in AnyKeys /\ i \in Nat
  BY Types, SlotFacts DEF Files, AnyKeys
<1>2. Lucky /\ Len(Ifaces) <= 9 /\ edits' = edits /\ ~redrawn'
  BY LuckStays DEF InLuck
<1>3. CASE UNCHANGED vars
  BY <1>2, <1>3 DEF vars, Lucky, LoopSound
<1>4. CASE PowerOn \/ HaveBase \/ Up \/ EndLoop \/ PowerOff
  <2>1. kdb' = kdb /\ pc' # "loop" /\ (pc' \in {"off", "start", "generate", "eval"} => i' = 1)
    BY <1>2, <1>4 DEF PowerOn, HaveBase, Up, EndLoop, PowerOff, Off, Lucky
  <2>. QED  BY <1>2, <2>1 DEF Lucky, LoopSound
<1>5. CASE CopyDefault
  <2>1. /\ i' = 1 /\ pc' # "loop"
        /\ kdb' = kdb \/ \E f \in {"blank", "bad", "good"} : kdb' = [form |-> f, keys |-> NoKeys]
    BY <1>2, <1>5 DEF CopyDefault, Tear, Off, File, Lucky
  <2>2. CASE kdb' = kdb
    BY <1>2, <2>1, <2>2 DEF Lucky, LoopSound
  <2>3. CASE \E f \in {"blank", "bad", "good"} : kdb' = [form |-> f, keys |-> NoKeys]
    <3>1. kdb'.keys = NoKeys
      BY <2>3
    <3>. QED  BY <2>1, <3>1, EmptySound DEF Lucky, LoopSound
  <2>. QED  BY <2>1, <2>2, <2>3
<1>6. CASE Eval
  <2>. DEFINE vs == [kdb.keys EXCEPT !.base = IF @ = "none" THEN sh.base ELSE @]
  <2>1. /\ kdb' = kdb /\ i' = i /\ i = 1 /\ sh' = vs
        /\ pc' = (IF vs.base # "none" /\ vs.next # NoNext THEN "loop" ELSE "done")
    BY <1>2, <1>6 DEF Eval, Lucky
  <2>2. vs.next = kdb.keys.next /\ vs.mac = kdb.keys.mac
        /\ (kdb.keys.base # "none" => vs.base = kdb.keys.base)
    BY <1>1 DEF AnyKeys
  <2>. HIDE DEF vs
  <2>3. LoopSound'
    <3>. SUFFICES ASSUME pc' = "loop" PROVE LoopSound'
      BY DEF LoopSound
    <3>1. kdb.keys.next # NoNext
      BY <2>1, <2>2
    <3>2. kdb.keys.base \in Base /\ kdb.keys.base # "none"
      BY <1>2, <3>1, BaseAssumption DEF Lucky, Sound
    <3>3. kdb.form \in {"good", "bad"}
      BY <1>1, <1>2, <3>1 DEF Lucky, NoKeys
    <3>. QED  BY <2>1, <2>2, <3>1, <3>2, <3>3, SlotFacts DEF LoopSound
  <2>. QED  BY <1>2, <2>1, <2>3 DEF Lucky
<1>7. CASE Assign
  <2>. DEFINE f == [kdb.keys.mac EXCEPT ![i] = Mac(sh.base, sh.next)]
              keys == [kdb.keys EXCEPT !.mac = f, !.next = sh.next + 1]
              vs == [sh EXCEPT !.next = @ + 1]
  <2>1. pc = "loop" /\ i \in Slot /\ sh.mac[i] = NoMac
    BY <1>7 DEF Assign
  <2>2. sh.next \in Nat /\ kdb.form \in {"good", "bad"}
    BY <1>2, <2>1 DEF Counting, Lucky, LoopSound
  <2>3. KdbSet(keys, "loop", vs, i + 1)
    <3>1. keys = [kdb.keys EXCEPT !.mac = [@ EXCEPT ![i] = Mac(sh.base, sh.next)],
                                  !.next = sh.next + 1]
      BY <1>1 DEF AnyKeys
    <3>. QED  BY <1>7, <3>1 DEF Assign
  <2>4. f \in [Slot -> Macs] /\ f[i] = Mac(sh.base, sh.next)
        /\ \A s \in Slot : s # i => f[s] = kdb.keys.mac[s]
    <3>1. Mac(sh.base, sh.next) \in Macs
      BY <1>1, <2>2 DEF Mac, Macs, AnyKeys
    <3>. QED  BY <1>1, <2>1, <3>1
  <2>5. kdb.form # "bad" => Sound(keys)
    BY <1>2, <2>1, <2>2, AssignSound
  <2>. HIDE DEF f
  <2>6. keys \in AnyKeys /\ keys.base = kdb.keys.base /\ keys.next = sh.next + 1 /\ keys.mac = f
    <3>1. kdb.keys.base \in Names /\ sh.next + 1 \in Nat \cup {NoNext}
      BY <1>1, <2>2 DEF AnyKeys
    <3>2. keys \in AnyKeys
      BY <1>1, <2>4, <3>1, OtherKeys
    <3>. QED  BY <1>1, <3>2 DEF AnyKeys
  <2>7. vs.base = sh.base /\ vs.next = sh.next + 1 /\ vs.mac = sh.mac
    BY <1>1 DEF AnyKeys
  <2>. HIDE DEF keys, vs
  <2>8. \/ /\ pc' = "off" /\ i' = 1 /\ Sound(kdb'.keys)
           /\ kdb'.form \in {"missing", "blank"} => kdb'.keys = NoKeys
        \/ /\ pc' = "loop" /\ sh' = vs /\ i' = i + 1
           /\ \/ kdb'.form = "good" /\ kdb'.keys = keys /\ kdb.form # "bad"
              \/ kdb' = kdb /\ kdb.form \in {"bad", "blank"}
    BY <1>2, <2>3, <2>5, <2>6, SetLucky
  <2>9. CASE /\ pc' = "off" /\ i' = 1 /\ Sound(kdb'.keys)
             /\ kdb'.form \in {"missing", "blank"} => kdb'.keys = NoKeys
    BY <2>9 DEF Lucky, LoopSound
  <2>10. CASE /\ pc' = "loop" /\ sh' = vs /\ i' = i + 1
              /\ kdb'.form = "good" /\ kdb'.keys = keys /\ kdb.form # "bad"
    <3>1. Sound(kdb'.keys)
      BY <2>5, <2>10
    <3>2. sh.base = kdb.keys.base /\ sh.base \in Base
          /\ \A s \in Slot : /\ s < i => kdb.keys.mac[s] # NoMac
                             /\ s >= i => sh.mac[s] = kdb.keys.mac[s]
      BY <1>2, <2>1, <2>2, <2>10 DEF Lucky, LoopSound, Sound
    <3>3. Mac(sh.base, sh.next) # NoMac /\ sh.next + 1 # NoNext
      BY <2>2, <3>2, BaseAssumption DEF Mac, NoMac, NoNext
    <3>4. \A s \in Slot : /\ s < i + 1 => f[s] # NoMac
                          /\ s >= i + 1 => sh.mac[s] = f[s]
      BY <1>1, <2>1, <2>4, <3>2, <3>3, SlotFacts
    <3>5. LoopSound'
      <4>1. kdb'.keys.mac = f /\ sh'.mac = sh.mac /\ i' = i + 1
        BY <2>6, <2>7, <2>10
      <4>2. \A s \in Slot : /\ s < i' => kdb'.keys.mac[s] # NoMac
                            /\ s >= i' => sh'.mac[s] = kdb'.keys.mac[s]
        BY <3>4, <4>1
      <4>3. /\ kdb'.form = "good" /\ sh'.base = kdb'.keys.base
            /\ sh'.next = kdb'.keys.next /\ sh'.next # NoNext
        BY <2>6, <2>7, <2>10, <3>2, <3>3
      <4>. QED  BY <4>2, <4>3 DEF LoopSound
    <3>. QED  BY <2>10, <3>1, <3>5 DEF Lucky
  <2>11. CASE /\ pc' = "loop" /\ sh' = vs /\ i' = i + 1
              /\ kdb' = kdb /\ kdb.form \in {"bad", "blank"}
    BY <1>2, <2>2, <2>11 DEF Lucky, LoopSound
  <2>. QED  BY <2>8, <2>9, <2>10, <2>11
<1>8. CASE Skip
  <2>1. /\ pc = "loop" /\ i \in Slot /\ sh.mac[i] # NoMac /\ i' = i + 1
        /\ kdb' = kdb /\ pc' = pc /\ sh' = sh
    BY <1>8 DEF Skip
  <2>2. LoopSound'
    BY <1>1, <1>2, <2>1, SlotFacts DEF Lucky, LoopSound
  <2>. QED  BY <1>2, <2>1, <2>2 DEF Lucky
<1>9. ASSUME NEW b \in Base, NEW n \in Draw, Generate(b, n)
      PROVE  Lucky'
  <2>1. pc = "generate" /\ i = 1 /\ \A s \in Slot : kdb.keys.mac[s].base # b
    BY <1>2, <1>9 DEF Generate, Lucky
  <2>2. CASE b = BadBase
    <3>1. pc' = "eval" /\ kdb' = kdb /\ i' = i
      BY <1>9, <2>2 DEF Generate
    <3>. QED  BY <1>2, <2>1, <3>1 DEF Lucky, LoopSound
  <2>3. CASE b # BadBase
    <3>. DEFINE keys == [kdb.keys EXCEPT !.base = b, !.next = n]
    <3>1. KdbSet(keys, "eval", [sh EXCEPT !.base = b], i)
      BY <1>9, <2>3 DEF Generate
    <3>2. b \in Names /\ n \in Nat \cup {NoNext}
      BY DrawAssumption DEF Names
    <3>3. keys \in AnyKeys /\ keys.base = b /\ keys.next = n /\ keys.mac = kdb.keys.mac
      BY <1>1, <3>2, OtherKeys DEF AnyKeys
    <3>. HIDE DEF keys
    <3>4. Sound(keys)
      <4>1. PICK t \in 1 .. Len(Ifaces) + 1 : Filled(kdb.keys, t)
        BY <1>2 DEF Lucky, Sound
      <4>2. Filled(keys, t) /\ Ahead(keys, t)
        BY <2>1, <3>3, <4>1 DEF Filled, Ahead
      <4>3. Apart(keys)
        BY <1>2, <3>3 DEF Lucky, Sound, Apart
      <4>. QED  BY <3>3, <4>2, <4>3 DEF Sound
    <3>5. \/ /\ pc' = "off" /\ i' = 1 /\ Sound(kdb'.keys)
             /\ kdb'.form \in {"missing", "blank"} => kdb'.keys = NoKeys
          \/ /\ pc' = "eval" /\ i' = i
             /\ \/ kdb'.form = "good" /\ kdb'.keys = keys
                \/ kdb' = kdb
      BY <1>2, <3>1, <3>3, <3>4, SetLucky
    <3>. QED  BY <1>2, <2>1, <3>4, <3>5 DEF Lucky, LoopSound
  <2>. QED  BY <2>2, <2>3
<1>10. ASSUME NEW s \in Slot, NEW m \in {NoMac, Custom}, SaveIface(s, m)
       PROVE  FALSE
  <2>1. edits' = edits + 1 /\ edits \in Nat
    BY <1>10, BoundsAssumption DEF SaveIface, TypeOK
  <2>. QED  BY <1>2, <2>1
<1>. QED  BY <1>3, <1>4, <1>5, <1>6, <1>7, <1>8, <1>9, <1>10 DEF Next

LEMMA TearsStay == TypeOK /\ [Next]_vars /\ tears' = 0 => tears = 0
<1>. SUFFICES ASSUME TypeOK, [Next]_vars PROVE tears' = tears \/ tears' = tears + 1
  BY BoundsAssumption DEF TypeOK
<1>. QED
  BY DEF Next, vars, PowerOn, CopyDefault, Generate, HaveBase, Eval, Assign, Skip, EndLoop,
         Up, SaveIface, PowerOff, KdbSet, Tear

-----------------------------------------------------------------------------
\* The invariant holds in every reachable state.
THEOREM Inductive == Spec => []IInv
<1>1. Init => IInv
  <2>. SUFFICES ASSUME Init PROVE IInv
    OBVIOUS
  <2>1. TypeOK
    <3>1. kdb \in Files /\ sh \in AnyKeys
      BY NoKeysAny DEF Init, Files, File
    <3>2. pc \in Places /\ redrawn \in BOOLEAN
      BY DEF Init, Places
    <3>3. i \in 1 .. Len(Ifaces) + 1 /\ edits \in 0 .. MaxEdits /\ tears \in 0 .. MaxTears
      BY SlotFacts, BoundsAssumption DEF Init
    <3>. QED  BY <3>1, <3>2, <3>3, Types
  <2>2. Lucky
    BY EmptySound DEF Init, Lucky, LoopSound, File
  <2>. QED  BY <2>1, <2>2, InitUntorn DEF IInv, Init, Counting
<1>2. IInv /\ [Next]_vars => IInv'
  <2>. SUFFICES ASSUME IInv, [Next]_vars PROVE IInv'
    OBVIOUS
  <2>1. TypeOK' /\ Counting' /\ (tears' = 0 => Untorn')
    BY TypeKeeps, TearsStay, NextUntorn DEF IInv
  <2>2. InLuck' => Lucky'
    BY NextLucky DEF IInv
  <2>. QED  BY <2>1, <2>2 DEF IInv
<1>. QED  BY <1>1, <1>2, PTL DEF Spec

\* Every variable keeps its type, whatever a torn write leaves in the file:
\* the script never counts with a number that is not there.
THEOREM TypeCorrect == Spec => []TypeOK
<1>1. IInv => TypeOK
  BY DEF IInv
<1>. QED  BY <1>1, Inductive, PTL

\* The boot script never gives one address to two interfaces, however often it
\* is cut off and started again (lines 29-55).  Without torn writes this holds
\* for any interfaces; with torn writes for at most nine, and the script has
\* eight: with ten, a number that is cut from 10 to 1 can meet an earlier one.
THEOREM AddressesDiffer ==
  MaxTears = 0 \/ Len(Ifaces) <= 9 => (Spec => []UniqueMacs)
<1>. SUFFICES ASSUME MaxTears = 0 \/ Len(Ifaces) <= 9 PROVE Spec => []UniqueMacs
  OBVIOUS
<1>1. IInv => UniqueMacs
  <2>. SUFFICES ASSUME IInv, tears = 0 \/ (~redrawn /\ edits = 0),
                       NEW s \in Generated, NEW t \in Generated,
                       kdb.keys.mac[s] = kdb.keys.mac[t]
                PROVE  s = t
    BY DEF UniqueMacs
  <2>1. CASE tears = 0
    BY <2>1 DEF IInv, Untorn, Distinct
  <2>2. CASE tears # 0
    <3>1. InLuck
      BY <2>2 DEF IInv, TypeOK, InLuck
    <3>2. Apart(kdb.keys)
      BY <3>1 DEF IInv, Lucky, Sound
    <3>. QED  BY <3>2, SlotFacts DEF Apart, Generated
  <2>. QED  BY <2>1, <2>2
<1>. QED  BY <1>1, Inductive, PTL

\* A boot that ends with base and number stored leaves no interface without
\* an address, also after boots that were cut off half way (lines 29-55).
THEOREM EveryIfaceServed == Spec => []AllHaveMac
<1>1. IInv => AllHaveMac
  BY DEF IInv, Untorn, AllHaveMac
<1>. QED  BY <1>1, Inductive, PTL

\* Reboots use up no numbers: as long as no write was torn, the next number is
\* below 229 plus the interfaces plus the addresses that users have emptied
\* (lines 29-55).
THEOREM NumbersLast == Spec => []NoneWasted
<1>1. IInv => NoneWasted
  BY DEF IInv, Untorn, NoneWasted
<1>. QED  BY <1>1, Inductive, PTL

=============================================================================
