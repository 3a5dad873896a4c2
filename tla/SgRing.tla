------------------------------- MODULE SgRing -------------------------------
(***************************************************************************)
(* struct sg_ring of the mr17h network device (sg17ring.h) and its         *)
(* functions (sg17ring_funcs.h).  A ring is two rings of different length  *)
(* that move together: the descriptors FxDR .. LxDR-1 of the hardware, of  *)
(* which the device has finished those before CxDR, and the buffers        *)
(* head .. tail-1 of sw_ring.  The descriptor LxDR gets the address of the *)
(* buffer that the same call puts at tail.                                 *)
(***************************************************************************)
EXTENDS Integers

CONSTANTS
    SW_RING_MASK,   \* slots of sw_ring, minus one
    HW_RING_MASK    \* descriptors of the device, minus one

\* sw_ring is the smaller of the two.
ASSUME MaskAssumption ==
    /\ SW_RING_MASK \in Nat \ {0}
    /\ HW_RING_MASK \in Nat
    /\ SW_RING_MASK <= HW_RING_MASK

Slot == 0 .. SW_RING_MASK
Desc == 0 .. HW_RING_MASK

\* Mutant of sg_ring_inc: the mask is forgotten.
IncUnmasked(ind, mask) == ind + 1

\* (ind + 1) & mask of an index that is at most mask.
sg_ring_inc(ind, mask) == IF ind = mask THEN 0 ELSE ind + 1

\* How many steps of sg_ring_inc lead from i to j.
Dist(i, j, mask) == IF i <= j THEN j - i ELSE j - i + mask + 1

\* The index n steps behind i.
Step(i, n, mask) == IF i + n <= mask THEN i + n ELSE i + n - mask - 1

\* sw_ring is the set of the slots that hold a buffer, the others are NULL.
Ring == [head : Slot, tail : Slot, FxDR : Desc, CxDR : Desc, LxDR : Desc,
         sw_ring : SUBSET Slot]

NewRing == [head |-> 0, tail |-> 0, FxDR |-> 0, CxDR |-> 0, LxDR |-> 0,
            sw_ring |-> {}]

sg_ring_have_space(r) == sg_ring_inc(r.tail, SW_RING_MASK) # r.head

\* Mutant of Finished: LxDR is read instead of CxDR.
FinishedUpToLast(r) == r.FxDR # r.LxDR

\* Is there a descriptor that sg_ring_del_skb would take?
Finished(r) == r.FxDR # r.CxDR

\* Has the device a descriptor to work on?
Queued(r) == r.CxDR # r.LxDR

sg_ring_add_skb(r) ==
    [r EXCEPT !.LxDR = sg_ring_inc(@, HW_RING_MASK),
              !.sw_ring = @ \cup {r.tail},
              !.tail = sg_ring_inc(@, SW_RING_MASK)]

\* sg_ring_del_skb in two halves: the buffer leaves sw_ring, then the indices
\* move on.
TakeHead(r) == [r EXCEPT !.sw_ring = @ \ {r.head}]

MoveOn(r) == [r EXCEPT !.FxDR = sg_ring_inc(@, HW_RING_MASK),
                       !.head = sg_ring_inc(@, SW_RING_MASK)]

\* The slots of the n buffers from head on.
Slots(r, n) == {Step(r.head, k, SW_RING_MASK) : k \in 0 .. n - 1}

Done(r)  == Dist(r.FxDR, r.CxDR, HW_RING_MASK)
Used(r)  == Dist(r.head, r.tail, SW_RING_MASK)
Room(r)  == SW_RING_MASK - Used(r)

\* sg_ring_del_skb until it finds nothing: the loops of xmit_free_buffs and
\* recv_init_frames in the interrupt handler.
Drain(r) ==
    [r EXCEPT !.head = Step(@, Done(r), SW_RING_MASK),
              !.sw_ring = @ \ Slots(r, Done(r)),
              !.FxDR = r.CxDR]

\* sg_ring_add_skb of n buffers: the loop of recv_alloc_buffs.
Fill(r, n) ==
    [r EXCEPT !.LxDR = Step(@, n, HW_RING_MASK),
              !.sw_ring = @ \cup {Step(r.tail, k, SW_RING_MASK) : k \in 0 .. n - 1},
              !.tail = Step(@, n, SW_RING_MASK)]

\* The device ends the work on one descriptor.
Advance(r) == [r EXCEPT !.CxDR = sg_ring_inc(@, HW_RING_MASK)]

=============================================================================
