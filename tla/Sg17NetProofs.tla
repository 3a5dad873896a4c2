--------------------------- MODULE Sg17NetProofs ---------------------------
(***************************************************************************)
(* DmaSafe, RxFed and ClosedIsQuiet for rings of any length.               *)
(***************************************************************************)
EXTENDS Sg17Net, TLAPS

RingName == {"tx", "rx"}

\* The descriptors in use, finished or not.
Count(r) == Dist(r.FxDR, r.LxDR, HW_RING_MASK)

\* Descriptors and buffers move together, and the device is between the two
\* ends of the descriptors.
Good(r) == Used(r) = Count(r) /\ Done(r) <= Count(r)

\* The slots from the given one on are filled.
Filled(r, from) == \A k \in from .. Count(r) - 1 : Step(r.head, k, SW_RING_MASK) \in r.sw_ring

\* The first slot is empty while somebody is between the two halves of
\* sg_ring_del_skb.
FirstFilled(q) == IF \E c \in Context : job[c].at = "advance" /\ job[c].ring = q THEN 1 ELSE 0

RingsGood ==
    (~raced /\ job["proc"].at # "open") =>
        \A q \in RingName : Good(ring[q]) /\ Filled(ring[q], FirstFilled(q))

\* Who is about to take a buffer has seen a finished descriptor.
WindowsFinished ==
    ~raced => \A c \in Context :
        job[c].at \in {"take", "advance"} => Finished(ring[job[c].ring])

\* The process works on the rings while the device is closed, the softirq
\* while it is open.
Jobs ==
    /\ job["proc"].at \in {"open", "test", "take", "advance", "wake"}
          => ~running /\ job["soft"] = Idle
    /\ job["soft"] # Idle => running

\* Between the two halves of sg17_open.
Opening ==
    job["proc"].at = "open" =>
        \A q \in RingName : ring[q].head = 0 /\ ring[q].tail = 0 /\ ring[q].FxDR = 0

\* A closed device has no interrupt in service, and none waits to be taken.
ClosedNoIrq == (~running /\ ~raced) => irq = {} /\ (link => sr = {})

\* Nothing is received without a link, and the handler does not run.
DownNoRx == ~link => "RXS" \notin sr /\ irq = {}

IInv ==
    /\ TypeOK /\ Jobs /\ RingsGood /\ WindowsFinished /\ Opening
    /\ ClosedIsQuiet /\ ClosedNoIrq /\ DownNoRx /\ RxFed

-----------------------------------------------------------------------------
(* Indices.                                                                *)

\* A distance is an index, and 0 between equal indices only.
LEMMA DistRange ==
  ASSUME NEW m \in Nat, NEW i \in 0 .. m, NEW j \in 0 .. m
  PROVE  Dist(i, j, m) \in 0 .. m /\ (Dist(i, j, m) = 0 <=> i = j)
  BY DEF Dist

\* One step of sg_ring_inc at the far end, and at the near end, of a distance.
LEMMA IncDist ==
  ASSUME NEW m \in Nat, NEW i \in 0 .. m, NEW j \in 0 .. m
  PROVE  /\ sg_ring_inc(i, m) \in 0 .. m
         /\ sg_ring_inc(j, m) # i => Dist(i, sg_ring_inc(j, m), m) = Dist(i, j, m) + 1
         /\ sg_ring_inc(j, m) # i <=> Dist(i, j, m) < m
         /\ i # j => Dist(sg_ring_inc(i, m), j, m) = Dist(i, j, m) - 1
  BY DEF Dist, sg_ring_inc

\* Steps stay in the ring and are undone by distances.
LEMMA StepDist ==
  ASSUME NEW m \in Nat, NEW i \in 0 .. m, NEW j \in 0 .. m, NEW d \in 0 .. m
  PROVE  /\ Step(i, d, m) \in 0 .. m
         /\ Dist(i, Step(i, d, m), m) = d
         /\ Step(i, Dist(i, j, m), m) = j
         /\ Dist(i, j, m) + d <= m => Dist(i, Step(j, d, m), m) = Dist(i, j, m) + d
         /\ d <= Dist(i, j, m) => Dist(Step(i, d, m), j, m) = Dist(i, j, m) - d
  BY DEF Dist, Step

\* Steps behind each other.
LEMMA StepStep ==
  ASSUME NEW m \in Nat, NEW i \in 0 .. m, NEW d \in 0 .. m, NEW e \in 0 .. m, d + e <= m
  PROVE  Step(Step(i, d, m), e, m) = Step(i, d + e, m)
  BY DEF Step

\* Different numbers of steps lead to different slots.
LEMMA StepInjective ==
  ASSUME NEW m \in Nat, NEW i \in 0 .. m, NEW d \in 0 .. m, NEW e \in 0 .. m,
         Step(i, d, m) = Step(i, e, m)
  PROVE  d = e
  BY DEF Step

-----------------------------------------------------------------------------
(* Rings.                                                                  *)

\* The fields of a ring and the numbers made from them.
LEMMA RingFields ==
  ASSUME NEW r \in Ring
  PROVE  /\ r.head \in Slot /\ r.tail \in Slot /\ r.sw_ring \subseteq Slot
         /\ r.FxDR \in Desc /\ r.CxDR \in Desc /\ r.LxDR \in Desc
         /\ Used(r) \in 0 .. SW_RING_MASK /\ Done(r) \in 0 .. HW_RING_MASK
         /\ Count(r) \in 0 .. HW_RING_MASK
         /\ Finished(r) <=> Done(r) > 0
         /\ Used(r) = 0 <=> r.head = r.tail
  <1>1. /\ r.head \in Slot /\ r.tail \in Slot /\ r.sw_ring \subseteq Slot
        /\ r.FxDR \in Desc /\ r.CxDR \in Desc /\ r.LxDR \in Desc
    BY DEF Ring
  <1>2. Used(r) \in 0 .. SW_RING_MASK /\ (Used(r) = 0 <=> r.head = r.tail)
    BY <1>1, MaskAssumption DEF Slot, Used, Dist
  <1>3. Done(r) \in 0 .. HW_RING_MASK /\ (Finished(r) <=> Done(r) > 0)
    BY <1>1, MaskAssumption DEF Desc, Done, Dist, Finished
  <1>4. Count(r) \in 0 .. HW_RING_MASK
    BY <1>1, MaskAssumption DEF Desc, Count, Dist
  <1>. QED BY <1>1, <1>2, <1>3, <1>4

\* Queued means that the device has not reached the last descriptor.
LEMMA QueuedCount ==
  ASSUME NEW r \in Ring, Good(r)
  PROVE  Queued(r) <=> Done(r) < Count(r)
  BY RingFields, MaskAssumption DEF Good, Queued, Done, Count, Dist, Desc

\* NewRing is empty.
LEMMA NewRingGood ==
  NewRing \in Ring /\ Good(NewRing) /\ Filled(NewRing, 0) /\ ~Finished(NewRing)
  BY MaskAssumption DEF NewRing, Ring, Slot, Desc, Good, Filled, Finished, Used, Done, Count, Dist

\* sg_ring_add_skb puts one more buffer behind the others.
LEMMA AddGood ==
  ASSUME NEW r \in Ring, NEW from \in {0, 1}, sg_ring_have_space(r), Good(r), Filled(r, from)
  PROVE  /\ sg_ring_add_skb(r) \in Ring
         /\ Good(sg_ring_add_skb(r)) /\ Filled(sg_ring_add_skb(r), from)
         /\ Done(sg_ring_add_skb(r)) = Done(r)
  <1>. DEFINE s == sg_ring_add_skb(r)
  <1>1. /\ s \in Ring /\ s.head = r.head /\ s.FxDR = r.FxDR /\ s.CxDR = r.CxDR
        /\ s.LxDR = sg_ring_inc(r.LxDR, HW_RING_MASK)
        /\ s.tail = sg_ring_inc(r.tail, SW_RING_MASK)
        /\ s.sw_ring = r.sw_ring \cup {r.tail}
    BY RingFields, IncDist, MaskAssumption DEF Ring, Slot, Desc, sg_ring_add_skb
  <1>. HIDE DEF s
  <1>2. Used(s) = Used(r) + 1 /\ Used(r) < SW_RING_MASK
    BY <1>1, RingFields, IncDist, MaskAssumption DEF Used, Slot, sg_ring_have_space
  <1>3. Count(s) = Count(r) + 1
    <2>1. Count(r) < HW_RING_MASK
      BY <1>2, RingFields, MaskAssumption DEF Good
    <2>. QED BY <1>1, <2>1, RingFields, IncDist, MaskAssumption DEF Count, Desc
  <1>4. Done(s) = Done(r) /\ Good(s)
    BY <1>1, <1>2, <1>3, RingFields DEF Done, Good
  <1>5. Filled(s, from)
    <2>. SUFFICES ASSUME NEW k \in from .. Count(r)
                  PROVE  Step(s.head, k, SW_RING_MASK) \in s.sw_ring
      BY <1>3, RingFields, MaskAssumption DEF Filled
    <2>1. CASE k = Count(r)
      <3>1. r.head \in Slot /\ r.tail \in Slot
        BY RingFields
      <3>2. Step(r.head, Used(r), SW_RING_MASK) = r.tail
        BY <3>1, MaskAssumption DEF Used, Slot, Dist, Step
      <3>. QED BY <2>1, <3>2, <1>1 DEF Good
    <2>2. CASE k # Count(r)
      BY <2>2, <1>1, RingFields, MaskAssumption DEF Filled
    <2>. QED BY <2>1, <2>2
  <1>. QED BY <1>1, <1>4, <1>5 DEF s

\* The device ends the work on a descriptor, which is finished from now on.
LEMMA AdvanceGood ==
  ASSUME NEW r \in Ring, NEW from \in {0, 1}, Queued(r), Good(r), Filled(r, from)
  PROVE  /\ Advance(r) \in Ring
         /\ Good(Advance(r)) /\ Filled(Advance(r), from) /\ Finished(Advance(r))
  <1>. DEFINE s == Advance(r)
  <1>1. /\ s \in Ring /\ s.head = r.head /\ s.FxDR = r.FxDR /\ s.LxDR = r.LxDR
        /\ s.tail = r.tail /\ s.sw_ring = r.sw_ring
        /\ s.CxDR = sg_ring_inc(r.CxDR, HW_RING_MASK)
    BY RingFields, IncDist, MaskAssumption DEF Ring, Desc, Advance
  <1>. HIDE DEF s
  <1>2. Done(r) < Count(r)
    BY QueuedCount
  <1>3. Done(s) = Done(r) + 1
    BY <1>1, <1>2, RingFields, IncDist, MaskAssumption, SMTT(30) DEF Done, Desc
  <1>4. Used(s) = Used(r) /\ Count(s) = Count(r)
    BY <1>1 DEF Used, Count
  <1>5. Good(s) /\ Finished(s)
    BY <1>1, <1>2, <1>3, <1>4, RingFields DEF Good
  <1>6. Filled(s, from)
    BY <1>1, <1>4 DEF Filled
  <1>. QED BY <1>1, <1>5, <1>6 DEF s

\* The first half of sg_ring_del_skb empties the first slot only.
LEMMA TakeGood ==
  ASSUME NEW r \in Ring, Good(r), Filled(r, 0)
  PROVE  /\ TakeHead(r) \in Ring
         /\ Good(TakeHead(r)) /\ Filled(TakeHead(r), 1)
         /\ Finished(TakeHead(r)) <=> Finished(r)
  <1>. DEFINE s == TakeHead(r)
  <1>1. /\ s \in Ring /\ s.head = r.head /\ s.FxDR = r.FxDR /\ s.LxDR = r.LxDR
        /\ s.tail = r.tail /\ s.CxDR = r.CxDR /\ s.sw_ring = r.sw_ring \ {r.head}
    BY RingFields DEF Ring, TakeHead
  <1>. HIDE DEF s
  <1>2. Used(s) = Used(r) /\ Count(s) = Count(r) /\ Done(s) = Done(r)
    BY <1>1 DEF Used, Count, Done
  <1>3. Filled(s, 1)
    <2>. SUFFICES ASSUME NEW k \in 1 .. Count(r) - 1
                  PROVE  Step(r.head, k, SW_RING_MASK) \in r.sw_ring \ {r.head}
      BY <1>1, <1>2 DEF Filled
    <2>1. k \in 0 .. SW_RING_MASK /\ k # 0
      BY RingFields, MaskAssumption DEF Good
    <2>2. Step(r.head, k, SW_RING_MASK) # r.head
      BY <2>1, RingFields, MaskAssumption DEF Step, Slot
    <2>3. Step(r.head, k, SW_RING_MASK) \in r.sw_ring
      BY RingFields DEF Filled
    <2>. QED BY <2>2, <2>3
  <1>4. Good(s) /\ (Finished(s) <=> Finished(r))
    BY <1>1, <1>2 DEF Good, Finished
  <1>. QED BY <1>1, <1>3, <1>4 DEF s

\* The second half moves both ends on, and the empty slot is outside again.
LEMMA MoveGood ==
  ASSUME NEW r \in Ring, Good(r), Filled(r, 1), Finished(r)
  PROVE  MoveOn(r) \in Ring /\ Good(MoveOn(r)) /\ Filled(MoveOn(r), 0)
  <1>. DEFINE s == MoveOn(r)
  <1>f. /\ r.head \in Slot /\ r.tail \in Slot /\ Count(r) \in Nat
        /\ r.FxDR \in Desc /\ r.CxDR \in Desc /\ r.LxDR \in Desc
    BY RingFields, MaskAssumption
  <1>1. /\ s \in Ring /\ s.tail = r.tail /\ s.LxDR = r.LxDR /\ s.CxDR = r.CxDR
        /\ s.sw_ring = r.sw_ring
        /\ s.head = sg_ring_inc(r.head, SW_RING_MASK)
        /\ s.FxDR = sg_ring_inc(r.FxDR, HW_RING_MASK)
    BY RingFields, IncDist, MaskAssumption DEF Ring, Slot, Desc, MoveOn
  <1>. HIDE DEF s
  <1>2. Done(r) > 0 /\ Count(r) > 0 /\ Used(r) > 0 /\ Used(r) <= SW_RING_MASK
    BY RingFields DEF Good
  <1>3. r.head # r.tail /\ r.FxDR # r.LxDR /\ r.FxDR # r.CxDR
    BY <1>2, <1>f, MaskAssumption DEF Used, Count, Done, Slot, Desc, Dist
  <1>4. Used(s) = Used(r) - 1 /\ Count(s) = Count(r) - 1 /\ Done(s) = Done(r) - 1
    BY <1>1, <1>3, <1>f, MaskAssumption DEF Used, Count, Done, Slot, Desc, Dist, sg_ring_inc
  <1>5. Good(s)
    BY <1>4, RingFields DEF Good
  <1>6. Filled(s, 0)
    <2>. SUFFICES ASSUME NEW k \in 0 .. Count(r) - 2
                  PROVE  Step(s.head, k, SW_RING_MASK) \in r.sw_ring
      BY <1>1, <1>4, RingFields, MaskAssumption DEF Filled
    <2>1. k \in 0 .. SW_RING_MASK /\ k + 1 <= SW_RING_MASK /\ k + 1 \in 1 .. Count(r) - 1
      BY <1>2, RingFields, MaskAssumption DEF Good
    <2>2. Step(s.head, k, SW_RING_MASK) = Step(r.head, k + 1, SW_RING_MASK)
      BY <1>1, <2>1, RingFields, MaskAssumption DEF Step, sg_ring_inc, Slot
    <2>3. Step(r.head, k + 1, SW_RING_MASK) \in r.sw_ring
      BY <2>1 DEF Filled
    <2>. QED BY <2>2, <2>3
  <1>. QED BY <1>1, <1>5, <1>6 DEF s

\* Drain frees what is finished and nothing else.
LEMMA DrainGood ==
  ASSUME NEW r \in Ring, Good(r), Filled(r, 0)
  PROVE  /\ Drain(r) \in Ring /\ Good(Drain(r)) /\ Filled(Drain(r), 0)
         /\ ~Finished(Drain(r))
  <1>. DEFINE s == Drain(r)
  <1>f. /\ r.head \in Slot /\ r.tail \in Slot /\ Count(r) \in Nat
        /\ r.FxDR \in Desc /\ r.CxDR \in Desc /\ r.LxDR \in Desc
    BY RingFields, MaskAssumption
  <1>0. Done(r) \in 0 .. SW_RING_MASK /\ Done(r) <= Used(r) /\ Done(r) <= Count(r)
    BY RingFields, MaskAssumption DEF Good
  <1>1. /\ s \in Ring /\ s.tail = r.tail /\ s.LxDR = r.LxDR /\ s.CxDR = r.CxDR
        /\ s.sw_ring = r.sw_ring \ Slots(r, Done(r))
        /\ s.head = Step(r.head, Done(r), SW_RING_MASK)
        /\ s.FxDR = r.CxDR
    BY <1>0, RingFields, StepDist, MaskAssumption DEF Ring, Slot, Desc, Drain
  <1>. HIDE DEF s
  <1>2. Used(s) = Used(r) - Done(r)
    BY <1>0, <1>1, <1>f, MaskAssumption DEF Used, Slot, Dist, Step
  <1>3. Count(s) = Count(r) - Done(r)
    BY <1>0, <1>1, <1>f, MaskAssumption DEF Count, Done, Desc, Dist
  <1>4. Done(s) = 0 /\ ~Finished(s)
    BY <1>1, RingFields, DistRange, MaskAssumption DEF Done, Finished, Desc
  <1>5. Good(s)
    BY <1>2, <1>3, <1>4, <1>0, RingFields DEF Good
  <1>6. Filled(s, 0)
    <2>. SUFFICES ASSUME NEW k \in 0 .. Count(r) - Done(r) - 1
                  PROVE  Step(s.head, k, SW_RING_MASK) \in r.sw_ring \ Slots(r, Done(r))
      BY <1>1, <1>3 DEF Filled
    <2>1. /\ k \in 0 .. SW_RING_MASK /\ Done(r) + k <= SW_RING_MASK
          /\ Done(r) + k \in 0 .. Count(r) - 1
      BY <1>0, RingFields, MaskAssumption DEF Good
    <2>2. Step(s.head, k, SW_RING_MASK) = Step(r.head, Done(r) + k, SW_RING_MASK)
      BY <1>0, <1>1, <2>1, RingFields, StepStep, MaskAssumption DEF Slot
    <2>3. Step(r.head, Done(r) + k, SW_RING_MASK) \in r.sw_ring
      BY <2>1 DEF Filled
    <2>4. ASSUME NEW e \in 0 .. Done(r) - 1
          PROVE  Step(r.head, Done(r) + k, SW_RING_MASK) # Step(r.head, e, SW_RING_MASK)
      <3>1. e \in 0 .. SW_RING_MASK /\ Done(r) + k \in 0 .. SW_RING_MASK /\ e # Done(r) + k
        BY <1>0, <2>1, MaskAssumption
      <3>. QED BY <3>1, RingFields, StepInjective, MaskAssumption DEF Slot
    <2>. QED BY <2>2, <2>3, <2>4 DEF Slots
  <1>. QED BY <1>1, <1>4, <1>5, <1>6 DEF s

\* Fill adds buffers behind the others.
LEMMA FillGood ==
  ASSUME NEW r \in Ring, Good(r), Filled(r, 0), NEW d \in 0 .. Room(r)
  PROVE  /\ Fill(r, d) \in Ring /\ Good(Fill(r, d)) /\ Filled(Fill(r, d), 0)
         /\ Done(Fill(r, d)) = Done(r)
  <1>. DEFINE s == Fill(r, d)
  <1>f. /\ r.head \in Slot /\ r.tail \in Slot /\ Count(r) \in Nat
        /\ r.FxDR \in Desc /\ r.CxDR \in Desc /\ r.LxDR \in Desc
    BY RingFields, MaskAssumption
  <1>0. d \in 0 .. SW_RING_MASK /\ d \in 0 .. HW_RING_MASK /\ Used(r) + d <= SW_RING_MASK
    BY RingFields, MaskAssumption DEF Room
  <1>1. /\ s \in Ring /\ s.head = r.head /\ s.FxDR = r.FxDR /\ s.CxDR = r.CxDR
        /\ s.LxDR = Step(r.LxDR, d, HW_RING_MASK)
        /\ s.tail = Step(r.tail, d, SW_RING_MASK)
        /\ s.sw_ring = r.sw_ring \cup {Step(r.tail, k, SW_RING_MASK) : k \in 0 .. d - 1}
    <2>1. {Step(r.tail, k, SW_RING_MASK) : k \in 0 .. d - 1} \subseteq Slot
      <3>1. ASSUME NEW k \in 0 .. d - 1 PROVE Step(r.tail, k, SW_RING_MASK) \in Slot
        BY <1>0, <1>f, MaskAssumption DEF Slot, Step
      <3>. QED BY <3>1
    <2>. QED BY <1>0, <2>1, RingFields, StepDist, MaskAssumption DEF Ring, Slot, Desc, Fill
  <1>. HIDE DEF s
  <1>2. Used(s) = Used(r) + d
    BY <1>0, <1>1, <1>f, MaskAssumption DEF Used, Slot, Dist, Step
  <1>3. Count(s) = Count(r) + d
    <2>1. Count(r) + d <= HW_RING_MASK
      BY <1>0, RingFields, MaskAssumption DEF Good
    <2>. QED BY <1>0, <1>1, <1>f, <2>1, MaskAssumption DEF Count, Desc, Dist, Step
  <1>4. Done(s) = Done(r)
    BY <1>1 DEF Done
  <1>5. Good(s)
    BY <1>2, <1>3, <1>4, <1>0, RingFields DEF Good
  <1>6. Filled(s, 0)
    <2>0. s.head = r.head
      BY <1>1
    <2>. SUFFICES ASSUME NEW k \in 0 .. Count(r) + d - 1
                  PROVE  Step(r.head, k, SW_RING_MASK) \in s.sw_ring
      BY <2>0, <1>0, <1>3, <1>f DEF Filled
    <2>1. CASE k < Count(r)
      BY <2>1, <1>1, RingFields DEF Filled
    <2>2. CASE k >= Count(r)
      <3>. DEFINE e == k - Used(r)
      <3>1. e \in 0 .. d - 1 /\ e \in 0 .. SW_RING_MASK /\ k = Used(r) + e /\ k <= SW_RING_MASK
        BY <2>2, <1>0, RingFields, MaskAssumption DEF Good
      <3>. HIDE DEF e
      <3>2. r.tail = Step(r.head, Used(r), SW_RING_MASK)
        BY <1>f, MaskAssumption DEF Used, Slot, Dist, Step
      <3>3. Step(r.tail, e, SW_RING_MASK) = Step(r.head, k, SW_RING_MASK)
        BY <3>1, <3>2, RingFields, StepStep, MaskAssumption DEF Slot
      <3>. QED BY <3>1, <3>3, <1>1
    <2>. QED BY <2>1, <2>2, RingFields
  <1>. QED BY <1>1, <1>4, <1>5, <1>6 DEF s

\* A refill leaves the ring in order, and with a buffer for the device if
\* with any.
LEMMA RefilledGood ==
  ASSUME NEW r \in Ring, Good(r), Filled(r, 0), NEW s \in Refilled(r)
  PROVE  /\ s \in Ring /\ Good(s) /\ Filled(s, 0) /\ ~Finished(s)
         /\ Used(s) # 0 => Queued(s)
  <1>1. /\ Drain(r) \in Ring /\ Good(Drain(r)) /\ Filled(Drain(r), 0) /\ ~Finished(Drain(r))
    BY DrainGood
  <1>2. PICK d \in 0 .. Room(Drain(r)) : s = Fill(Drain(r), d)
    <2>1. Room(Drain(r)) \in Nat
      BY <1>1, RingFields, MaskAssumption DEF Room
    <2>. QED BY <2>1 DEF Refilled
  <1>3. s \in Ring /\ Good(s) /\ Filled(s, 0) /\ Done(s) = Done(Drain(r))
    BY <1>1, <1>2, FillGood
  <1>4. Done(s) = 0 /\ ~Finished(s)
    BY <1>1, <1>3, RingFields
  <1>. QED BY <1>3, <1>4, QueuedCount, RingFields DEF Good

\* The rings as sg17_open leaves them, once the registers are set to 0.
LEMMA ResetGood ==
  ASSUME NEW r \in Ring, r.head = 0, r.tail = 0, r.FxDR = 0
  PROVE  Reset(r) \in Ring /\ Good(Reset(r)) /\ Filled(Reset(r), 0)
  <1>. DEFINE s == Reset(r)
  <1>1. /\ s \in Ring /\ s.head = 0 /\ s.tail = 0 /\ s.FxDR = 0 /\ s.CxDR = 0 /\ s.LxDR = 0
    BY RingFields, MaskAssumption DEF Ring, Desc, Reset
  <1>. HIDE DEF s
  <1>. QED BY <1>1, MaskAssumption DEF s, Good, Filled, Used, Done, Count, Dist

-----------------------------------------------------------------------------
(* The inductive step.                                                     *)

JobType == [at : {"idle", "open", "test", "take", "advance", "wake", "stop"},
            ring : RingName]

\* The types that the steps below need.
LEMMA Types ==
  ASSUME TypeOK
  PROVE  /\ ring \in [RingName -> Ring] /\ ring["tx"] \in Ring /\ ring["rx"] \in Ring
         /\ job \in [Context -> JobType] /\ job["proc"] \in JobType /\ job["soft"] \in JobType
         /\ \A q \in RingName : FirstFilled(q) \in {0, 1}
  BY DEF TypeOK, JobType, RingName, Context, FirstFilled

\* The places as records.
LEMMA Places ==
  /\ Idle \in JobType /\ Idle.at = "idle"
  /\ \A a \in {"idle", "open", "test", "take", "advance", "wake", "stop"}, q \in RingName :
        At(a, q) \in JobType /\ At(a, q).at = a /\ At(a, q).ring = q
  BY DEF Idle, At, JobType, RingName

\* Whoever is about to take a buffer while the device is open is the softirq.
LEMMA OpenWindows ==
  ASSUME IInv, running
  PROVE  job["proc"].at \in {"idle", "stop"}
  BY Types DEF IInv, Jobs, JobType

\* Nobody is about to take a buffer from a ring without a finished one.
LEMMA NoWindow ==
  ASSUME IInv, ~raced, NEW q \in RingName, ~(Finished(ring[q]) /\ InWindow(q))
  PROVE  /\ \A c \in Context : ~(job[c].at \in {"take", "advance"} /\ job[c].ring = q)
         /\ FirstFilled(q) = 0
  <1>1. \A c \in Context : ~(job[c].at \in {"take", "advance"} /\ job[c].ring = q)
    BY DEF IInv, WindowsFinished, InWindow
  <1>. QED BY <1>1 DEF FirstFilled

\* The first state.
LEMMA InitHolds == Init => IInv
  <1>. SUFFICES ASSUME Init PROVE IInv
    OBVIOUS
  <1>1. \A q \in RingName : ring[q] = NewRing
    BY DEF Init, RingName
  <1>2. \A c \in Context : job[c] = Idle
    BY DEF Init
  <1>3. TypeOK
    <2>1. ring \in [{"tx", "rx"} -> Ring]
      BY NewRingGood DEF Init
    <2>2. job \in [Context -> JobType]
      BY Places DEF Init
    <2>3. sr \in SUBSET {"RXS", "TXS", "UFL"} /\ irq \in SUBSET {"RXS", "TXS", "UFL"}
      BY DEF Init
    <2>4. /\ link \in BOOLEAN /\ txen \in BOOLEAN /\ rxen \in BOOLEAN
          /\ stopped \in BOOLEAN /\ running \in BOOLEAN
          /\ starved \in BOOLEAN /\ raced \in BOOLEAN
      BY Zenon DEF Init
    <2>. QED BY <2>1, <2>2, <2>3, <2>4 DEF TypeOK, JobType, RingName
  <1>4. job["proc"] = Idle /\ job["soft"] = Idle
    BY <1>2 DEF Context
  <1>5. Jobs /\ Opening
    BY <1>4, Places DEF Jobs, Opening
  <1>6. \A q \in RingName : FirstFilled(q) = 0
    BY <1>2, Places DEF FirstFilled
  <1>7. RingsGood
    BY <1>1, <1>6, NewRingGood DEF RingsGood
  <1>8. WindowsFinished
    BY <1>2, Places DEF WindowsFinished
  <1>9. ClosedIsQuiet /\ ClosedNoIrq /\ DownNoRx /\ RxFed
    BY DEF Init, ClosedIsQuiet, ClosedNoIrq, DownNoRx, RxFed
  <1>. QED BY <1>3, <1>5, <1>7, <1>8, <1>9 DEF IInv

-----------------------------------------------------------------------------
(* The device.                                                             *)

\* The device ends a descriptor of the open ring q.
LEMMA HwAdvances ==
  ASSUME IInv, ~raced, running, NEW q \in RingName, Queued(ring[q]),
         ring' = [ring EXCEPT ![q] = Advance(@)], UNCHANGED <<job, running, raced>>
  PROVE  /\ ring' \in [RingName -> Ring]
         /\ Jobs' /\ RingsGood' /\ WindowsFinished' /\ Opening'
         /\ \A x \in RingName : x # q => ring'[x] = ring[x]
  <1>1. job["proc"].at \in {"idle", "stop"}
    BY OpenWindows
  <1>2. ring[q] \in Ring /\ FirstFilled(q) \in {0, 1} /\ ring \in [RingName -> Ring]
    BY Types DEF IInv
  <1>3. \A x \in RingName : Good(ring[x]) /\ Filled(ring[x], FirstFilled(x))
    BY <1>1 DEF IInv, RingsGood
  <1>4. ring'[q] = Advance(ring[q]) /\ \A x \in RingName : x # q => ring'[x] = ring[x]
    BY <1>2
  <1>5. /\ Advance(ring[q]) \in Ring /\ Good(Advance(ring[q]))
        /\ Filled(Advance(ring[q]), FirstFilled(q)) /\ Finished(Advance(ring[q]))
    BY <1>2, <1>3, AdvanceGood
  <1>6. ring' \in [RingName -> Ring]
    BY <1>2, <1>5
  <1>7. \A x \in RingName : FirstFilled(x)' = FirstFilled(x)
    BY DEF FirstFilled
  <1>8. RingsGood'
    BY <1>3, <1>4, <1>5, <1>7 DEF RingsGood
  <1>9. WindowsFinished'
    <2>1. \A c \in Context : job[c].ring \in RingName
      BY Types DEF IInv, JobType
    <2>. QED BY <1>4, <1>5, <2>1 DEF WindowsFinished, IInv
  <1>10. Jobs' /\ Opening'
    BY <1>1 DEF IInv, Jobs, Opening
  <1>. QED BY <1>4, <1>6, <1>8, <1>9, <1>10

\* HwSend keeps the invariant.
LEMMA HwSendKeeps ==
  ASSUME IInv, ~raced, HwSend
  PROVE  IInv'
  <1>. USE DEF IInv
  <1>1. /\ txen /\ Queued(ring["tx"]) /\ ring' = [ring EXCEPT !["tx"] = Advance(@)]
        /\ sr' = sr \cup {"TXS"}
        /\ UNCHANGED <<irq, link, txen, rxen, stopped, running, job, starved, raced>>
    BY DEF HwSend
  <1>2. running
    BY <1>1 DEF ClosedIsQuiet
  <1>3. /\ ring' \in [RingName -> Ring]
        /\ Jobs' /\ RingsGood' /\ WindowsFinished' /\ Opening'
        /\ ring'["rx"] = ring["rx"]
    BY <1>1, <1>2, HwAdvances DEF RingName
  <1>4. TypeOK'
    BY <1>1, <1>3 DEF TypeOK, RingName
  <1>5. ClosedIsQuiet' /\ ClosedNoIrq' /\ DownNoRx'
    BY <1>1, <1>2 DEF ClosedIsQuiet, ClosedNoIrq, DownNoRx
  <1>6. RxFed'
    BY <1>1, <1>3 DEF RxFed
  <1>. QED BY <1>3, <1>4, <1>5, <1>6

\* HwReceive keeps it.
LEMMA HwReceiveKeeps ==
  ASSUME IInv, ~raced, HwReceive
  PROVE  IInv'
  <1>. USE DEF IInv
  <1>1. /\ rxen /\ link /\ Queued(ring["rx"]) /\ ring' = [ring EXCEPT !["rx"] = Advance(@)]
        /\ sr' = sr \cup {"RXS"}
        /\ UNCHANGED <<irq, link, txen, rxen, stopped, running, job, starved, raced>>
    BY DEF HwReceive
  <1>2. running
    BY <1>1 DEF ClosedIsQuiet
  <1>3. /\ ring' \in [RingName -> Ring]
        /\ Jobs' /\ RingsGood' /\ WindowsFinished' /\ Opening'
    BY <1>1, <1>2, HwAdvances DEF RingName
  <1>4. TypeOK'
    BY <1>1, <1>3 DEF TypeOK, RingName
  <1>5. ClosedIsQuiet' /\ ClosedNoIrq' /\ DownNoRx' /\ RxFed'
    BY <1>1, <1>2 DEF ClosedIsQuiet, ClosedNoIrq, DownNoRx, RxFed
  <1>. QED BY <1>3, <1>4, <1>5

\* A step that leaves the rings and the places alone.
LEMMA SameRings ==
  ASSUME IInv, UNCHANGED <<ring, job, running, raced>>
  PROVE  Jobs' /\ RingsGood' /\ WindowsFinished' /\ Opening'
  BY DEF IInv, Jobs, RingsGood, WindowsFinished, Opening, FirstFilled

\* HwUnderflow keeps it.
LEMMA HwUnderflowKeeps ==
  ASSUME IInv, ~raced, HwUnderflow
  PROVE  IInv'
  <1>. USE DEF IInv
  <1>1. /\ txen /\ txen' = FALSE /\ sr' = sr \cup {"UFL"}
        /\ UNCHANGED <<ring, irq, link, rxen, stopped, running, job, starved, raced>>
    BY DEF HwUnderflow
  <1>2. Jobs' /\ RingsGood' /\ WindowsFinished' /\ Opening'
    BY <1>1, SameRings
  <1>3. TypeOK'
    BY <1>1 DEF TypeOK
  <1>4. running
    BY <1>1 DEF ClosedIsQuiet
  <1>5. ClosedIsQuiet' /\ ClosedNoIrq' /\ DownNoRx' /\ RxFed'
    BY <1>1, <1>4 DEF ClosedIsQuiet, ClosedNoIrq, DownNoRx, RxFed
  <1>. QED BY <1>2, <1>3, <1>5

-----------------------------------------------------------------------------
(* The interrupt handler.                                                  *)

\* sg17_interrupt keeps it: the status moves from SR to the handler.
LEMMA InterruptKeeps ==
  ASSUME IInv, ~raced, sg17_interrupt
  PROVE  IInv'
  <1>. USE DEF IInv
  <1>1. /\ irq = {} /\ link /\ sr # {} /\ irq' = sr /\ sr' = {}
        /\ UNCHANGED <<ring, link, txen, rxen, stopped, running, job, starved, raced>>
    BY DEF sg17_interrupt, Pending
  <1>2. Jobs' /\ RingsGood' /\ WindowsFinished' /\ Opening'
    BY <1>1, SameRings
  <1>3. TypeOK'
    BY <1>1 DEF TypeOK
  <1>4. running
    BY <1>1 DEF ClosedNoIrq
  <1>5. ClosedIsQuiet' /\ ClosedNoIrq' /\ DownNoRx' /\ RxFed'
    BY <1>1, <1>4 DEF ClosedIsQuiet, ClosedNoIrq, DownNoRx, RxFed
  <1>. QED BY <1>2, <1>3, <1>5

\* The handler replaces the ring q by one in order in which nothing is
\* finished, when nobody is about to take a buffer from it.
LEMMA HandlerReplaces ==
  ASSUME IInv, ~raced, running, NEW q \in RingName,
         ~(Finished(ring[q]) /\ InWindow(q)),
         NEW r \in Ring, Good(r), Filled(r, 0),
         ring' = [ring EXCEPT ![q] = r], UNCHANGED <<job, running, raced>>
  PROVE  /\ ring' \in [RingName -> Ring] /\ ring'[q] = r
         /\ Jobs' /\ RingsGood' /\ WindowsFinished' /\ Opening'
         /\ \A x \in RingName : x # q => ring'[x] = ring[x]
  <1>1. job["proc"].at \in {"idle", "stop"}
    BY OpenWindows
  <1>2. ring \in [RingName -> Ring]
    BY Types DEF IInv
  <1>3. ring'[q] = r /\ \A x \in RingName : x # q => ring'[x] = ring[x]
    BY <1>2
  <1>4. /\ \A c \in Context : ~(job[c].at \in {"take", "advance"} /\ job[c].ring = q)
        /\ FirstFilled(q) = 0
    BY NoWindow
  <1>5. \A x \in RingName : FirstFilled(x)' = FirstFilled(x)
    BY DEF FirstFilled
  <1>6. RingsGood'
    BY <1>1, <1>3, <1>4, <1>5 DEF RingsGood, IInv
  <1>7. WindowsFinished'
    <2>1. \A c \in Context : job[c].ring \in RingName
      BY Types DEF IInv, JobType
    <2>. QED BY <1>3, <1>4, <2>1 DEF WindowsFinished, IInv
  <1>8. Jobs' /\ Opening'
    BY <1>1 DEF IInv, Jobs, Opening
  <1>9. ring' \in [RingName -> Ring]
    BY <1>2
  <1>. QED BY <1>3, <1>6, <1>7, <1>8, <1>9

\* The handler runs only while the device is open and the link up.
LEMMA HandlerOpen ==
  ASSUME IInv, ~raced, irq # {}
  PROVE  running /\ link
  BY DEF IInv, ClosedNoIrq, DownNoRx

\* Once the handler has come into a window nothing is claimed of the rings.
LEMMA RacedKeeps ==
  ASSUME IInv, ~raced, raced' = TRUE, NEW b \in irq, irq' = irq \ {b},
         UNCHANGED <<ring, device, stopped, running, job, starved>>
  PROVE  IInv'
  <1>. USE DEF IInv
  <1>1. UNCHANGED <<sr, link, txen, rxen>>
    BY DEF device
  <1>2. TypeOK'
    BY <1>1 DEF TypeOK
  <1>3. Jobs' /\ Opening' /\ RingsGood' /\ WindowsFinished'
    BY DEF Jobs, Opening, RingsGood, WindowsFinished
  <1>4. ClosedIsQuiet' /\ ClosedNoIrq' /\ DownNoRx' /\ RxFed'
    BY <1>1 DEF ClosedIsQuiet, ClosedNoIrq, DownNoRx, RxFed
  <1>. QED BY <1>2, <1>3, <1>4

\* IrqReceive keeps it.
LEMMA IrqReceiveKeeps ==
  ASSUME IInv, ~raced, IrqReceive
  PROVE  IInv'
  <1>. USE DEF IInv
  <1>1. /\ "RXS" \in irq /\ irq' = irq \ {"RXS"}
        /\ UNCHANGED <<sr, link, txen, rxen, stopped, running, job>>
    BY DEF IrqReceive, device
  <1>2. running /\ link
    BY <1>1, HandlerOpen
  <1>3. CASE Finished(ring["rx"]) /\ InWindow("rx")
    BY <1>1, <1>3, RacedKeeps DEF IrqReceive
  <1>4. CASE ~(Finished(ring["rx"]) /\ InWindow("rx"))
    <2>1. PICK r \in Refilled(ring["rx"]) :
             ring' = [ring EXCEPT !["rx"] = r] /\ starved' = (Used(r) = 0) /\ raced' = raced
      BY <1>4 DEF IrqReceive
    <2>2. ring["rx"] \in Ring /\ Good(ring["rx"]) /\ Filled(ring["rx"], 0)
      BY <1>2, <1>4, Types, OpenWindows, NoWindow DEF RingsGood, RingName
    <2>3. /\ r \in Ring /\ Good(r) /\ Filled(r, 0) /\ (Used(r) # 0 => Queued(r))
      BY <2>2, RefilledGood
    <2>4. /\ ring' \in [RingName -> Ring] /\ ring'["rx"] = r
          /\ Jobs' /\ RingsGood' /\ WindowsFinished' /\ Opening'
      BY <1>1, <1>2, <1>4, <2>1, <2>3, HandlerReplaces DEF RingName
    <2>5. starved' \in BOOLEAN
      BY <2>1, Zenon
    <2>6. TypeOK'
      BY <1>1, <2>1, <2>4, <2>5 DEF TypeOK, RingName
    <2>7. ClosedIsQuiet' /\ ClosedNoIrq' /\ DownNoRx'
      BY <1>1, <1>2, <2>1 DEF ClosedIsQuiet, ClosedNoIrq, DownNoRx
    <2>8. RxFed'
      BY <1>1, <2>1, <2>3, <2>4 DEF RxFed
    <2>. QED BY <2>4, <2>6, <2>7, <2>8
  <1>. QED BY <1>3, <1>4

\* IrqTransmit keeps it.
LEMMA IrqTransmitKeeps ==
  ASSUME IInv, ~raced, IrqTransmit
  PROVE  IInv'
  <1>. USE DEF IInv
  <1>1. /\ "TXS" \in irq /\ irq' = irq \ {"TXS"}
        /\ UNCHANGED <<sr, link, txen, rxen, running, job, starved>>
    BY DEF IrqTransmit, device
  <1>2. running /\ link
    BY <1>1, HandlerOpen
  <1>3. CASE Finished(ring["tx"]) /\ InWindow("tx")
    BY <1>1, <1>3, RacedKeeps DEF IrqTransmit
  <1>4. CASE ~(Finished(ring["tx"]) /\ InWindow("tx"))
    <2>1. /\ ring' = [ring EXCEPT !["tx"] = Drain(ring["tx"])] /\ raced' = raced
          /\ WakeQueue(Drain(ring["tx"]))
      BY <1>4 DEF IrqTransmit
    <2>2. ring["tx"] \in Ring /\ Good(ring["tx"]) /\ Filled(ring["tx"], 0)
      BY <1>2, <1>4, Types, OpenWindows, NoWindow DEF RingsGood, RingName
    <2>3. /\ Drain(ring["tx"]) \in Ring /\ Good(Drain(ring["tx"])) /\ Filled(Drain(ring["tx"]), 0)
      BY <2>2, DrainGood
    <2>4. /\ ring' \in [RingName -> Ring] /\ ring'["rx"] = ring["rx"]
          /\ Jobs' /\ RingsGood' /\ WindowsFinished' /\ Opening'
      BY <1>1, <1>2, <1>4, <2>1, <2>3, HandlerReplaces DEF RingName
    <2>5. stopped' \in BOOLEAN
      BY <2>1, Zenon DEF WakeQueue
    <2>6. TypeOK'
      BY <1>1, <2>1, <2>4, <2>5 DEF TypeOK, RingName
    <2>7. ClosedIsQuiet' /\ ClosedNoIrq' /\ DownNoRx'
      BY <1>1, <1>2, <2>1 DEF ClosedIsQuiet, ClosedNoIrq, DownNoRx
    <2>8. RxFed'
      BY <1>1, <2>1, <2>4 DEF RxFed
    <2>. QED BY <2>4, <2>6, <2>7, <2>8
  <1>. QED BY <1>3, <1>4

\* IrqUnderflow keeps it.
LEMMA IrqUnderflowKeeps ==
  ASSUME IInv, ~raced, IrqUnderflow
  PROVE  IInv'
  <1>. USE DEF IInv
  <1>1. /\ irq = {"UFL"} /\ irq' = {} /\ txen' = TRUE
        /\ UNCHANGED <<ring, sr, link, rxen, stopped, running, job, starved, raced>>
    BY DEF IrqUnderflow
  <1>2. running /\ link
    BY <1>1, HandlerOpen
  <1>3. Jobs' /\ RingsGood' /\ WindowsFinished' /\ Opening'
    BY <1>1, SameRings
  <1>4. TypeOK'
    BY <1>1 DEF TypeOK
  <1>5. ClosedIsQuiet' /\ ClosedNoIrq' /\ DownNoRx' /\ RxFed'
    BY <1>1, <1>2 DEF ClosedIsQuiet, ClosedNoIrq, DownNoRx, RxFed
  <1>. QED BY <1>3, <1>4, <1>5

-----------------------------------------------------------------------------
(* Processes and softirqs.                                                 *)

\* What CanRun says: no interrupt is in service or waits to be taken, and a
\* process runs only when no softirq does.
LEMMA CanRunMeans ==
  ASSUME NEW c \in Context, CanRun(c)
  PROVE  irq = {} /\ (link => sr = {}) /\ (c = "proc" => job["soft"] = Idle)
  BY DEF CanRun, Pending

\* Two contexts are never inside sg_ring_del_skb, or sg17_open, at once.
LEMMA OthersOutside ==
  ASSUME IInv, NEW c \in Context, CanRun(c), job[c].at \in {"test", "take", "advance", "wake"}
  PROVE  /\ job["proc"].at # "open"
         /\ \A d \in Context : d # c => job[d].at \in {"idle", "stop"}
         /\ c = "soft" => running
         /\ c = "proc" => ~running /\ job["soft"] = Idle
  <1>1. CASE c = "proc"
    BY <1>1, Places DEF IInv, Jobs, Context
  <1>2. CASE c = "soft"
    <2>1. job["soft"] # Idle
      BY <1>2, Places
    <2>2. running /\ job["proc"].at \in {"idle", "stop"}
      BY <2>1, OpenWindows DEF IInv, Jobs
    <2>. QED BY <1>2, <2>2 DEF Context
  <1>. QED BY <1>1, <1>2 DEF Context

\* A step from place to place outside the windows.
LEMMA PlaceMoves ==
  ASSUME IInv, ~raced, NEW c \in Context, NEW j \in JobType, job' = [job EXCEPT ![c] = j],
         job[c].at \notin {"advance", "open"}, j.at \notin {"advance", "open"},
         j.at = "take" => Finished(ring[j.ring]),
         UNCHANGED <<ring, raced>>
  PROVE  /\ job' \in [Context -> JobType] /\ job'[c] = j
         /\ \A d \in Context : d # c => job'[d] = job[d]
         /\ RingsGood' /\ WindowsFinished' /\ Opening'
  <1>1. job \in [Context -> JobType]
    BY Types DEF IInv
  <1>2. job'[c] = j /\ (\A d \in Context : d # c => job'[d] = job[d]) /\ job' \in [Context -> JobType]
    BY <1>1
  <1>3. \A q \in RingName : FirstFilled(q)' = FirstFilled(q)
    <2>. SUFFICES ASSUME NEW q \in RingName
                  PROVE  (\E d \in Context : job'[d].at = "advance" /\ job'[d].ring = q)
                         <=> (\E d \in Context : job[d].at = "advance" /\ job[d].ring = q)
      BY DEF FirstFilled
    <2>. QED BY <1>2
  <1>4. job'["proc"].at = "open" <=> job["proc"].at = "open"
    BY <1>2 DEF Context
  <1>5. RingsGood' /\ Opening'
    BY <1>3, <1>4 DEF IInv, RingsGood, Opening
  <1>6. WindowsFinished'
    BY <1>2 DEF IInv, WindowsFinished
  <1>. QED BY <1>2, <1>5, <1>6

\* sg17_start_xmit keeps it, from the stack and from the monitor.
LEMMA XmitKeeps ==
  ASSUME IInv, ~raced, NEW c \in Context, sg17_start_xmit(c), c = "soft" => running
  PROVE  IInv'
  <1>. USE DEF IInv
  <1>1. /\ CanRun(c) /\ job[c] = Idle /\ link
        /\ UNCHANGED <<sr, link, txen, rxen, irq, stopped, running, starved, raced>>
    BY DEF sg17_start_xmit, Starts, device
  <1>2. ClosedIsQuiet' /\ ClosedNoIrq' /\ DownNoRx'
    BY <1>1 DEF ClosedIsQuiet, ClosedNoIrq, DownNoRx
  <1>3. CASE sg_ring_have_space(ring["tx"])
    <2>1. ring' = [ring EXCEPT !["tx"] = sg_ring_add_skb(@)] /\ job' = job
      BY <1>3 DEF sg17_start_xmit
    <2>2. job["proc"].at # "open"
      BY <1>1, Places, OpenWindows DEF Context
    <2>3. ring \in [RingName -> Ring] /\ ring["tx"] \in Ring /\ FirstFilled("tx") \in {0, 1}
      BY Types DEF RingName
    <2>4. \A q \in RingName : Good(ring[q]) /\ Filled(ring[q], FirstFilled(q))
      BY <2>2 DEF RingsGood
    <2>. DEFINE r == sg_ring_add_skb(ring["tx"])
    <2>5. r \in Ring /\ Good(r) /\ Filled(r, FirstFilled("tx")) /\ Done(r) = Done(ring["tx"])
      BY <1>3, <2>3, <2>4, AddGood DEF RingName
    <2>6. Finished(r) <=> Finished(ring["tx"])
      BY <2>3, <2>5, RingFields
    <2>7. ring'["tx"] = r /\ ring'["rx"] = ring["rx"] /\ ring' \in [RingName -> Ring]
      BY <2>1, <2>3, <2>5 DEF RingName
    <2>. HIDE DEF r
    <2>8. \A q \in RingName : FirstFilled(q)' = FirstFilled(q)
      BY <2>1 DEF FirstFilled
    <2>9. RingsGood'
      BY <2>1, <2>4, <2>5, <2>7, <2>8, <1>1 DEF RingsGood, RingName
    <2>10. WindowsFinished'
      <3>1. \A d \in Context : job[d].ring \in RingName
        BY Types DEF JobType
      <3>. QED BY <1>1, <2>1, <2>6, <2>7, <3>1 DEF WindowsFinished, RingName
    <2>11. Jobs' /\ Opening'
      BY <1>1, <2>1, <2>2 DEF Jobs, Opening
    <2>12. TypeOK'
      BY <1>1, <2>1, <2>7 DEF TypeOK, RingName
    <2>13. RxFed'
      BY <1>1, <2>7 DEF RxFed
    <2>. QED BY <1>2, <2>9, <2>10, <2>11, <2>12, <2>13
  <1>4. CASE ~sg_ring_have_space(ring["tx"])
    <2>1. job' = [job EXCEPT ![c] = At("stop", "tx")] /\ ring' = ring
      BY <1>4 DEF sg17_start_xmit
    <2>2. /\ At("stop", "tx") \in JobType /\ At("stop", "tx").at = "stop" /\ job[c].at = "idle"
      BY <1>1, Places DEF RingName
    <2>3. /\ job' \in [Context -> JobType] /\ job'[c] = At("stop", "tx")
          /\ \A d \in Context : d # c => job'[d] = job[d]
          /\ RingsGood' /\ WindowsFinished' /\ Opening'
      BY <1>1, <2>1, <2>2, PlaceMoves
    <2>4. TypeOK'
      BY <1>1, <2>1, <2>3 DEF TypeOK, JobType, RingName
    <2>5. Jobs'
      <3>1. CASE c = "proc"
        BY <1>1, <2>2, <2>3, <3>1 DEF Jobs, Context
      <3>2. CASE c = "soft"
        BY <1>1, <2>2, <2>3, <3>2, OpenWindows DEF Jobs, Context
      <3>. QED BY <3>1, <3>2 DEF Context
    <2>6. RxFed'
      BY <1>1, <2>1 DEF RxFed
    <2>. QED BY <1>2, <2>3, <2>4, <2>5, <2>6
  <1>. QED BY <1>3, <1>4

\* StopQueue keeps it.
LEMMA StopKeeps ==
  ASSUME IInv, ~raced, NEW c \in Context, StopQueue(c)
  PROVE  IInv'
  <1>. USE DEF IInv
  <1>1. /\ job[c].at = "stop" /\ stopped' = TRUE /\ job' = [job EXCEPT ![c] = Idle]
        /\ UNCHANGED <<ring, sr, link, txen, rxen, irq, running, starved, raced>>
    BY DEF StopQueue, device
  <1>2. /\ job' \in [Context -> JobType] /\ job'[c] = Idle
        /\ \A d \in Context : d # c => job'[d] = job[d]
        /\ RingsGood' /\ WindowsFinished' /\ Opening'
    BY <1>1, Places, PlaceMoves
  <1>3. TypeOK'
    BY <1>1, <1>2 DEF TypeOK, JobType, RingName
  <1>4. Jobs'
    BY <1>1, <1>2, Places DEF Jobs, Context
  <1>5. ClosedIsQuiet' /\ ClosedNoIrq' /\ DownNoRx' /\ RxFed'
    BY <1>1 DEF ClosedIsQuiet, ClosedNoIrq, DownNoRx, RxFed
  <1>. QED BY <1>2, <1>3, <1>4, <1>5

\* sg17_tx_timeout keeps it.
LEMMA TimeoutKeeps ==
  ASSUME IInv, ~raced, sg17_tx_timeout
  PROVE  IInv'
  <1>. USE DEF IInv
  <1>1. /\ job["soft"] = Idle /\ running /\ link /\ txen' = TRUE
        /\ job' = [job EXCEPT !["soft"] = At("test", "tx")]
        /\ UNCHANGED <<ring, sr, link, rxen, irq, stopped, running, starved, raced>>
    BY DEF sg17_tx_timeout, Starts
  <1>2. /\ job' \in [Context -> JobType] /\ job'["soft"] = At("test", "tx")
        /\ job'["proc"] = job["proc"]
        /\ RingsGood' /\ WindowsFinished' /\ Opening'
    BY <1>1, Places, PlaceMoves DEF Context, RingName
  <1>3. TypeOK'
    BY <1>1, <1>2 DEF TypeOK, JobType, RingName
  <1>4. Jobs'
    BY <1>1, <1>2, OpenWindows DEF Jobs
  <1>5. ClosedIsQuiet' /\ ClosedNoIrq' /\ DownNoRx' /\ RxFed'
    BY <1>1 DEF ClosedIsQuiet, ClosedNoIrq, DownNoRx, RxFed
  <1>. QED BY <1>2, <1>3, <1>4, <1>5

\* sg17_close keeps it: no interrupt is left that would switch the device on.
LEMMA CloseKeeps ==
  ASSUME IInv, ~raced, sg17_close
  PROVE  IInv'
  <1>. USE DEF IInv
  <1>1. /\ CanRun("proc") /\ job["proc"] = Idle /\ running' = FALSE /\ txen' = FALSE
        /\ rxen' = FALSE /\ stopped' = TRUE
        /\ job' = [job EXCEPT !["proc"] = At("test", "rx")]
        /\ UNCHANGED <<ring, sr, link, irq, starved, raced>>
    BY DEF sg17_close, Starts
  <1>2. irq = {} /\ (link => sr = {}) /\ job["soft"] = Idle
    BY <1>1, CanRunMeans DEF Context
  <1>3. /\ job' \in [Context -> JobType] /\ job'["soft"] = job["soft"]
        /\ RingsGood' /\ WindowsFinished' /\ Opening'
    BY <1>1, Places, PlaceMoves DEF Context, RingName
  <1>4. TypeOK'
    BY <1>1, <1>3 DEF TypeOK, JobType, RingName
  <1>5. Jobs'
    BY <1>1, <1>2, <1>3 DEF Jobs
  <1>6. ClosedIsQuiet' /\ ClosedNoIrq' /\ DownNoRx' /\ RxFed'
    BY <1>1, <1>2 DEF ClosedIsQuiet, ClosedNoIrq, DownNoRx, RxFed
  <1>. QED BY <1>3, <1>4, <1>5, <1>6

\* Test keeps it.
LEMMA TestKeeps ==
  ASSUME IInv, ~raced, NEW c \in Context, Test(c)
  PROVE  IInv'
  <1>. USE DEF IInv
  <1>1. /\ CanRun(c) /\ job[c].at = "test"
        /\ job' = [job EXCEPT ![c] =
                     IF Finished(ring[job[c].ring]) THEN At("take", job[c].ring)
                     ELSE IF job[c].ring = "rx" THEN At("test", "tx")
                     ELSE At("wake", "tx")]
        /\ UNCHANGED <<ring, sr, link, txen, rxen, irq, stopped, running, starved, raced>>
    BY DEF Test, device
  <1>2. job[c].ring \in RingName
    BY Types DEF JobType
  <1>3. PICK j \in JobType : /\ job' = [job EXCEPT ![c] = j]
                             /\ j.at \in {"test", "take", "wake"}
                             /\ j.at = "take" => Finished(ring[j.ring])
    <2>1. CASE Finished(ring[job[c].ring])
      <3>1. At("take", job[c].ring) \in JobType /\ At("take", job[c].ring).ring = job[c].ring
            /\ At("take", job[c].ring).at = "take"
        BY <1>2, Places
      <3>. QED BY <1>1, <2>1, <3>1
    <2>2. CASE ~Finished(ring[job[c].ring]) /\ job[c].ring = "rx"
      <3>1. At("test", "tx") \in JobType /\ At("test", "tx").at = "test"
        BY Places DEF RingName
      <3>. QED BY <1>1, <2>2, <3>1
    <2>3. CASE ~Finished(ring[job[c].ring]) /\ job[c].ring # "rx"
      <3>1. At("wake", "tx") \in JobType /\ At("wake", "tx").at = "wake"
        BY Places DEF RingName
      <3>. QED BY <1>1, <2>3, <3>1
    <2>. QED BY <2>1, <2>2, <2>3
  <1>4. /\ job' \in [Context -> JobType] /\ job'[c] = j
        /\ \A d \in Context : d # c => job'[d] = job[d]
        /\ RingsGood' /\ WindowsFinished' /\ Opening'
    BY <1>1, <1>3, PlaceMoves, ZenonT(40)
  <1>5. TypeOK'
    BY <1>1, <1>4 DEF TypeOK, JobType, RingName
  <1>6. Jobs'
    BY <1>1, <1>3, <1>4, OthersOutside DEF Jobs, Context
  <1>7. ClosedIsQuiet' /\ ClosedNoIrq' /\ DownNoRx' /\ RxFed'
    BY <1>1 DEF ClosedIsQuiet, ClosedNoIrq, DownNoRx, RxFed
  <1>. QED BY <1>4, <1>5, <1>6, <1>7

\* Wake keeps it.
LEMMA WakeKeeps ==
  ASSUME IInv, ~raced, NEW c \in Context, Wake(c)
  PROVE  IInv'
  <1>. USE DEF IInv
  <1>1. /\ job[c].at = "wake" /\ WakeQueue(ring["tx"]) /\ job' = [job EXCEPT ![c] = Idle]
        /\ UNCHANGED <<ring, sr, link, txen, rxen, irq, running, starved, raced>>
    BY DEF Wake, device
  <1>2. /\ job' \in [Context -> JobType] /\ job'[c] = Idle
        /\ \A d \in Context : d # c => job'[d] = job[d]
        /\ RingsGood' /\ WindowsFinished' /\ Opening'
    BY <1>1, Places, PlaceMoves
  <1>3. stopped' \in BOOLEAN
    BY <1>1, Zenon DEF WakeQueue
  <1>4. TypeOK'
    BY <1>1, <1>2, <1>3 DEF TypeOK, JobType, RingName
  <1>5. Jobs'
    BY <1>1, <1>2, Places DEF Jobs, Context
  <1>6. ClosedIsQuiet' /\ ClosedNoIrq' /\ DownNoRx' /\ RxFed'
    BY <1>1 DEF ClosedIsQuiet, ClosedNoIrq, DownNoRx, RxFed
  <1>. QED BY <1>2, <1>4, <1>5, <1>6

\* The halves of sg_ring_del_skb leave to the device what it has.
LEMMA DelQueued ==
  ASSUME NEW r \in Ring
  PROVE  (Queued(TakeHead(r)) <=> Queued(r)) /\ (Queued(MoveOn(r)) <=> Queued(r))
  BY DEF Ring, TakeHead, MoveOn, Queued

\* One half of sg_ring_del_skb in the context c, on the ring q.
LEMMA DelKeeps ==
  ASSUME IInv, ~raced, NEW c \in Context, CanRun(c), NEW q \in RingName, job[c].ring = q,
         job[c].at \in {"take", "advance"},
         NEW r \in Ring, Good(r), Filled(r, IF job[c].at = "take" THEN 1 ELSE 0),
         job[c].at = "take" => Finished(r), Queued(r) <=> Queued(ring[q]),
         ring' = [ring EXCEPT ![q] = r],
         job' = [job EXCEPT ![c] = At(IF job[c].at = "take" THEN "advance" ELSE "test", q)],
         UNCHANGED <<sr, link, txen, rxen, irq, stopped, running, starved, raced>>
  PROVE  IInv'
  <1>. USE DEF IInv
  <1>. DEFINE to == IF job[c].at = "take" THEN "advance" ELSE "test"
              j == At(to, q)
  <1>0. /\ ring \in [RingName -> Ring] /\ job \in [Context -> JobType]
    BY Types
  <1>1. j \in JobType /\ j.at = to /\ j.ring = q
    BY Places
  <1>2. /\ job["proc"].at # "open"
        /\ \A d \in Context : d # c => job[d].at \in {"idle", "stop"}
        /\ c = "soft" => running
        /\ c = "proc" => ~running /\ job["soft"] = Idle
    BY OthersOutside
  <1>3. /\ job' \in [Context -> JobType] /\ job'[c] = j
        /\ \A d \in Context : d # c => job'[d] = job[d]
    BY <1>0, <1>1
  <1>4. /\ ring' \in [RingName -> Ring] /\ ring'[q] = r
        /\ \A x \in RingName : x # q => ring'[x] = ring[x]
    BY <1>0
  <1>. HIDE DEF j
  <1>5. \A x \in RingName : Good(ring[x]) /\ Filled(ring[x], FirstFilled(x))
    BY <1>2 DEF RingsGood
  <1>6. \A x \in RingName : x # q => FirstFilled(x) = 0 /\ FirstFilled(x)' = 0
    BY <1>1, <1>2, <1>3 DEF FirstFilled
  <1>7. FirstFilled(q)' = IF job[c].at = "take" THEN 1 ELSE 0
    <2>1. CASE job[c].at = "take"
      BY <2>1, <1>1, <1>3 DEF FirstFilled
    <2>2. CASE job[c].at = "advance"
      BY <2>2, <1>1, <1>2, <1>3 DEF FirstFilled
    <2>. QED BY <2>1, <2>2
  <1>8. RingsGood'
    BY <1>4, <1>5, <1>6, <1>7 DEF RingsGood
  <1>9. WindowsFinished'
    BY <1>1, <1>2, <1>3, <1>4 DEF WindowsFinished
  <1>10. job'["proc"].at # "open"
    BY <1>1, <1>2, <1>3 DEF Context
  <1>11. Opening'
    BY <1>10 DEF Opening
  <1>12. Jobs'
    <2>1. CASE c = "proc"
      BY <2>1, <1>2, <1>3 DEF Jobs, Context
    <2>2. CASE c = "soft"
      BY <2>2, <1>2, <1>3 DEF Jobs, Context
    <2>. QED BY <2>1, <2>2 DEF Context
  <1>13. TypeOK'
    BY <1>3, <1>4 DEF TypeOK, JobType, RingName
  <1>14. ClosedIsQuiet' /\ ClosedNoIrq' /\ DownNoRx'
    BY DEF ClosedIsQuiet, ClosedNoIrq, DownNoRx
  <1>15. RxFed'
    <2>1. Queued(ring["rx"])' <=> Queued(ring["rx"])
      BY <1>4 DEF RingName, Queued
    <2>. QED BY <2>1 DEF RxFed
  <1>. QED BY <1>8, <1>9, <1>11, <1>12, <1>13, <1>14, <1>15

\* Take keeps it: the slot it empties belongs to a finished descriptor.
LEMMA TakeKeeps ==
  ASSUME IInv, ~raced, NEW c \in Context, Take(c)
  PROVE  IInv'
  <1>. USE DEF IInv
  <1>. DEFINE q == job[c].ring
  <1>1. /\ CanRun(c) /\ job[c].at = "take" /\ ring' = [ring EXCEPT ![q] = TakeHead(ring[q])]
        /\ job' = [job EXCEPT ![c] = At("advance", q)]
        /\ UNCHANGED <<sr, link, txen, rxen, irq, stopped, running, starved, raced>>
    BY DEF Take, device
  <1>2. q \in RingName /\ ring[q] \in Ring
    BY Types DEF JobType
  <1>3. /\ job["proc"].at # "open"
        /\ \A d \in Context : d # c => job[d].at \in {"idle", "stop"}
    BY <1>1, OthersOutside
  <1>4. FirstFilled(q) = 0
    BY <1>1, <1>3 DEF FirstFilled
  <1>5. Good(ring[q]) /\ Filled(ring[q], 0) /\ Finished(ring[q])
    BY <1>1, <1>2, <1>3, <1>4 DEF RingsGood, WindowsFinished
  <1>6. /\ TakeHead(ring[q]) \in Ring /\ Good(TakeHead(ring[q]))
        /\ Filled(TakeHead(ring[q]), 1) /\ Finished(TakeHead(ring[q]))
        /\ Queued(TakeHead(ring[q])) <=> Queued(ring[q])
    BY <1>2, <1>5, TakeGood, DelQueued
  <1>. HIDE DEF q
  <1>. QED BY <1>1, <1>2, <1>6, DelKeeps DEF q

\* MoveOnBy keeps it.
LEMMA MoveKeeps ==
  ASSUME IInv, ~raced, NEW c \in Context, MoveOnBy(c)
  PROVE  IInv'
  <1>. USE DEF IInv
  <1>. DEFINE q == job[c].ring
  <1>1. /\ CanRun(c) /\ job[c].at = "advance" /\ ring' = [ring EXCEPT ![q] = MoveOn(ring[q])]
        /\ job' = [job EXCEPT ![c] = At("test", q)]
        /\ UNCHANGED <<sr, link, txen, rxen, irq, stopped, running, starved, raced>>
    BY DEF MoveOnBy, device
  <1>2. q \in RingName /\ ring[q] \in Ring
    BY Types DEF JobType
  <1>3. job["proc"].at # "open"
    BY <1>1, OthersOutside
  <1>4. FirstFilled(q) = 1
    BY <1>1 DEF FirstFilled
  <1>5. Good(ring[q]) /\ Filled(ring[q], 1) /\ Finished(ring[q])
    BY <1>1, <1>2, <1>3, <1>4 DEF RingsGood, WindowsFinished
  <1>6. /\ MoveOn(ring[q]) \in Ring /\ Good(MoveOn(ring[q])) /\ Filled(MoveOn(ring[q]), 0)
        /\ Queued(MoveOn(ring[q])) <=> Queued(ring[q])
    BY <1>2, <1>5, MoveGood, DelQueued
  <1>. HIDE DEF q
  <1>. QED BY <1>1, <1>2, <1>6, DelKeeps DEF q

\* sg17_open keeps it.
LEMMA OpenKeeps ==
  ASSUME IInv, ~raced, sg17_open
  PROVE  IInv'
  <1>. USE DEF IInv
  <1>1. /\ CanRun("proc") /\ job["proc"] = Idle /\ ~running
        /\ ring' = [q \in RingName |-> [ring[q] EXCEPT !.head = 0, !.tail = 0, !.FxDR = 0]]
        /\ job' = [job EXCEPT !["proc"] = At("open", "tx")]
        /\ UNCHANGED <<sr, link, txen, rxen, irq, stopped, running, starved, raced>>
    BY DEF sg17_open, Starts, device, RingName
  <1>2. job["soft"] = Idle
    BY <1>1, CanRunMeans DEF Context
  <1>3. ASSUME NEW r \in Ring
        PROVE  LET s == [r EXCEPT !.head = 0, !.tail = 0, !.FxDR = 0]
               IN  s \in Ring /\ s.head = 0 /\ s.tail = 0 /\ s.FxDR = 0
    <2>1. 0 \in Slot /\ 0 \in Desc
      BY MaskAssumption DEF Slot, Desc
    <2>. QED BY <1>3, <2>1 DEF Ring
  <1>4. \A q \in RingName : /\ ring'[q] \in Ring /\ ring'[q].head = 0
                            /\ ring'[q].tail = 0 /\ ring'[q].FxDR = 0
    BY <1>1, <1>3, Types
  <1>5. ring' \in [RingName -> Ring]
    BY <1>1, <1>4
  <1>6. /\ job' \in [Context -> JobType] /\ job'["proc"].at = "open" /\ job'["soft"] = Idle
    BY <1>1, <1>2, Types, Places DEF Context, RingName
  <1>7. TypeOK'
    BY <1>1, <1>5, <1>6 DEF TypeOK, JobType, RingName
  <1>8. Jobs' /\ RingsGood' /\ Opening'
    BY <1>1, <1>4, <1>6 DEF Jobs, RingsGood, Opening
  <1>9. WindowsFinished'
    BY <1>6, Places DEF WindowsFinished, Context
  <1>10. ClosedIsQuiet' /\ ClosedNoIrq' /\ DownNoRx' /\ RxFed'
    BY <1>1 DEF ClosedIsQuiet, ClosedNoIrq, DownNoRx, RxFed
  <1>. QED BY <1>7, <1>8, <1>9, <1>10

\* OpenDevice keeps it: the rings start empty, whatever they held before.
LEMMA OpenDeviceKeeps ==
  ASSUME IInv, ~raced, OpenDevice
  PROVE  IInv'
  <1>. USE DEF IInv
  <1>1. /\ CanRun("proc") /\ job["proc"].at = "open"
        /\ txen' = TRUE /\ rxen' = TRUE /\ stopped' = FALSE /\ running' = TRUE
        /\ job' = [job EXCEPT !["proc"] = Idle]
        /\ UNCHANGED <<sr, link, irq, raced>>
    BY DEF OpenDevice
  <1>2. PICK r \in Refilled(Reset(ring["rx"])) :
           /\ ring' = [tx |-> Reset(ring["tx"]), rx |-> r]
           /\ starved' = (Used(r) = 0)
    BY DEF OpenDevice
  <1>3. /\ Reset(ring["tx"]) \in Ring /\ Good(Reset(ring["tx"])) /\ Filled(Reset(ring["tx"]), 0)
        /\ Reset(ring["rx"]) \in Ring /\ Good(Reset(ring["rx"])) /\ Filled(Reset(ring["rx"]), 0)
    BY <1>1, Types, ResetGood DEF Opening, RingName
  <1>4. r \in Ring /\ Good(r) /\ Filled(r, 0) /\ (Used(r) # 0 => Queued(r))
    BY <1>3, RefilledGood
  <1>5. ring'["tx"] = Reset(ring["tx"]) /\ ring'["rx"] = r /\ ring' \in [RingName -> Ring]
    BY <1>2, <1>3, <1>4 DEF RingName
  <1>6. /\ job' \in [Context -> JobType] /\ job'["proc"] = Idle /\ job'["soft"] = Idle
    BY <1>1, CanRunMeans, Types, Places DEF Context
  <1>7. starved' \in BOOLEAN
    BY <1>2, Zenon
  <1>8. TypeOK'
    BY <1>1, <1>5, <1>6, <1>7 DEF TypeOK, JobType, RingName
  <1>9. \A q \in RingName : FirstFilled(q)' = 0
    BY <1>6, Places DEF FirstFilled, Context
  <1>10. RingsGood'
    BY <1>3, <1>4, <1>5, <1>9 DEF RingsGood, RingName
  <1>11. Jobs' /\ Opening' /\ WindowsFinished'
    BY <1>6, Places DEF Jobs, Opening, WindowsFinished, Context
  <1>12. ClosedIsQuiet' /\ ClosedNoIrq' /\ DownNoRx'
    BY <1>1 DEF ClosedIsQuiet, ClosedNoIrq, DownNoRx
  <1>13. RxFed'
    BY <1>2, <1>4, <1>5 DEF RxFed
  <1>. QED BY <1>8, <1>10, <1>11, <1>12, <1>13

\* sg17_link_up keeps it: the status it throws away has no reception in it.
LEMMA LinkUpKeeps ==
  ASSUME IInv, ~raced, sg17_link_up
  PROVE  IInv'
  <1>. USE DEF IInv
  <1>1. /\ CanRun("proc") /\ link' = TRUE /\ sr' = {}
        /\ UNCHANGED <<ring, txen, rxen, irq, stopped, running, job, starved, raced>>
    BY DEF sg17_link_up, Starts
  <1>2. irq = {} /\ "RXS" \notin sr
    BY <1>1, CanRunMeans DEF Context, DownNoRx
  <1>3. Jobs' /\ RingsGood' /\ WindowsFinished' /\ Opening'
    BY <1>1, SameRings
  <1>4. TypeOK'
    BY <1>1 DEF TypeOK
  <1>5. ClosedIsQuiet' /\ ClosedNoIrq' /\ DownNoRx' /\ RxFed'
    BY <1>1, <1>2 DEF ClosedIsQuiet, ClosedNoIrq, DownNoRx, RxFed
  <1>. QED BY <1>3, <1>4, <1>5

\* sg17_link_down keeps it.
LEMMA LinkDownKeeps ==
  ASSUME IInv, ~raced, sg17_link_down
  PROVE  IInv'
  <1>. USE DEF IInv
  <1>1. /\ CanRun("proc") /\ link' = FALSE
        /\ UNCHANGED <<ring, sr, txen, rxen, irq, stopped, running, job, starved, raced>>
    BY DEF sg17_link_down, Starts
  <1>2. irq = {} /\ "RXS" \notin sr
    BY <1>1, CanRunMeans DEF Context, DownNoRx
  <1>3. Jobs' /\ RingsGood' /\ WindowsFinished' /\ Opening'
    BY <1>1, SameRings
  <1>4. TypeOK'
    BY <1>1 DEF TypeOK
  <1>5. ClosedIsQuiet' /\ ClosedNoIrq' /\ DownNoRx' /\ RxFed'
    BY <1>1, <1>2 DEF ClosedIsQuiet, ClosedNoIrq, DownNoRx, RxFed
  <1>. QED BY <1>3, <1>4, <1>5

-----------------------------------------------------------------------------
\* IInv is an invariant.
THEOREM Inductive == Spec => []IInv
  <1>1. IInv /\ [Next]_vars => IInv'
    <2>. SUFFICES ASSUME IInv, [Next]_vars PROVE IInv'
      OBVIOUS
    <2>1. CASE UNCHANGED vars
      <3>1. UNCHANGED <<ring, sr, link, txen, rxen, irq, stopped, running, job, starved, raced>>
        BY <2>1 DEF vars, device
      <3>2. TypeOK' /\ ClosedIsQuiet' /\ ClosedNoIrq' /\ DownNoRx' /\ RxFed'
        BY <3>1 DEF IInv, TypeOK, ClosedIsQuiet, ClosedNoIrq, DownNoRx, RxFed
      <3>. QED BY <3>1, <3>2, SameRings DEF IInv
    <2>2. CASE ~raced /\ (Hardware \/ Interrupt)
      BY <2>2, HwSendKeeps, HwReceiveKeeps, HwUnderflowKeeps, InterruptKeeps,
         IrqReceiveKeeps, IrqTransmitKeeps, IrqUnderflowKeeps DEF Hardware, Interrupt
    <2>3. CASE ~raced /\ \E c \in Context : CpuStep(c)
      BY <2>3, StopKeeps, TestKeeps, TakeKeeps, MoveKeeps, WakeKeeps, OpenDeviceKeeps DEF CpuStep
    <2>4. CASE ~raced /\ (Transmit \/ sg17_tx_timeout \/ sg17_link_support)
      BY <2>4, XmitKeeps, TimeoutKeeps DEF Transmit, sg17_link_support, Context
    <2>5. CASE ~raced /\ (sg17_open \/ sg17_close \/ sg17_link_up \/ sg17_link_down)
      BY <2>5, OpenKeeps, CloseKeeps, LinkUpKeeps, LinkDownKeeps
    <2>6. CASE Halt
      BY <2>1, <2>6 DEF Halt
    <2>. QED BY <2>1, <2>2, <2>3, <2>4, <2>5, <2>6 DEF Next
  <1>. QED BY InitHolds, <1>1, PTL DEF Spec

\* The indices stay inside both rings, for all their lengths
\* (sg17ring_funcs.h 16-110).
THEOREM TypeCorrect == Spec => []TypeOK
  <1>1. IInv => TypeOK
    BY DEF IInv
  <1>. QED BY Inductive, <1>1, PTL

\* The device never works on a descriptor whose buffer has been freed, unless
\* the interrupt came into a window (sg17ring_funcs.h 31-110, sg17main.c 503).
THEOREM BuffersStay == Spec => []DmaSafe
  <1>1. IInv => DmaSafe
    <2>. SUFFICES ASSUME IInv, ~raced, NEW q \in RingName, job["proc"].at # "open",
                         NEW k \in Done(ring[q]) .. Count(ring[q]) - 1
                  PROVE  Step(ring[q].head, k, SW_RING_MASK) \in ring[q].sw_ring
      BY DEF DmaSafe, RingName, Count
    <2>1. ring[q] \in Ring /\ Filled(ring[q], FirstFilled(q)) /\ FirstFilled(q) \in {0, 1}
      BY Types DEF IInv, RingsGood
    <2>2. Done(ring[q]) \in Nat /\ Count(ring[q]) \in Nat /\ FirstFilled(q) <= Done(ring[q])
      <3>1. Done(ring[q]) \in Nat /\ Count(ring[q]) \in Nat
            /\ (Finished(ring[q]) <=> Done(ring[q]) > 0)
        BY <2>1, RingFields, MaskAssumption
      <3>2. FirstFilled(q) = 1 => Finished(ring[q])
        BY DEF FirstFilled, IInv, WindowsFinished
      <3>. QED BY <2>1, <3>1, <3>2
    <2>. QED BY <2>1, <2>2 DEF Filled
  <1>. QED BY Inductive, <1>1, PTL

\* The receiver of an open device has a buffer, or its interrupt is on the
\* way, unless a refill found no memory at all (sg17main.c 187-191, 471-494).
THEOREM ReceiverFed == Spec => []RxFed
  <1>1. IInv => RxFed
    BY DEF IInv
  <1>. QED BY Inductive, <1>1, PTL

\* A closed device stays switched off (sg17main.c 206-215, 248, 286).
THEOREM StaysClosed == Spec => []ClosedIsQuiet
  <1>1. IInv => ClosedIsQuiet
    BY DEF IInv
  <1>. QED BY Inductive, <1>1, PTL

=============================================================================
