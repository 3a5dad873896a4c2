---------------------------- MODULE EocRingProofs ----------------------------
(***************************************************************************)
(* Proofs about EocRing for every size of the ring and of a message, and   *)
(* any number of messages and readers: as long as no two readers have been *)
(* in rbuf_get_cur at once and no fragment was freed twice, the ring keeps *)
(* the order of the fragments, damage stays with the messages that a fault *)
(* has hit, and the ring implements the queue of EocQueue.                 *)
(***************************************************************************)
EXTENDS EocRing, SequenceTheorems, TLAPS

\* The places behind head: head has place 0, and the slots in use are those
\* up to the place of tail.
Place(x) == IF head <= x THEN x - head ELSE x - head + RING_SIZE

\* Is f received before g, and g of a later message if f ends its own?
Before(f, g) == Earlier(f, g) /\ (f.last => f.msg < g.msg)

\* A reader that has looked at the ring is the only one, and the slot it has
\* looked at is still the first, which is not the one being filled.
OneReader ==
    \A p \in Reader : cur[p] # None =>
        /\ cur[p] = head /\ head # tail
        /\ \A q \in Reader : cur[q] # None => q = p

\* A reader that has copied a message is the only one too, and what it has
\* copied it frees.
Stages ==
    /\ stage # "none" => head # tail /\ \A p \in Reader : cur[p] = None
    /\ (stage = "copied" /\ Whole(rb[head])) => Msgs(rb[head]) \subseteq out
    /\ stage = "freed" => rb[head] = << >>

\* The slots behind tail have no fragments.
FreeEmpty == \A x \in Index : Place(x) > Place(tail) => rb[x] = << >>

\* The fragments are in the order of their reception.
Ordered ==
    \A x, y \in Index : \A a \in DOMAIN rb[x], b \in DOMAIN rb[y] :
        (Place(x) < Place(y) \/ (x = y /\ a < b)) => Before(rb[x][a], rb[y][b])

\* f was received before what the chip receives next.
Past(f) == f.msg < msg \/ (f.msg = msg /\ f.k < k /\ ~f.last)

\* What is in the ring, and what has been read, was received before what the
\* chip receives next; nothing that has been read is in the ring, except where
\* it has just been copied from.
Received ==
    /\ \A x \in Index : \A a \in DOMAIN rb[x] :
          /\ Past(rb[x][a])
          /\ (stage = "copied" /\ x = head) \/ rb[x][a].msg \notin out
    /\ \A m \in out : m < msg

\* Of a message no fault has hit, all fragments so far are at tail.
InProgress ==
    msg \notin hurt =>
        /\ Len(rb[tail]) = k - 1
        /\ \A a \in DOMAIN rb[tail] : rb[tail][a] = [msg |-> msg, k |-> a, last |-> FALSE]

\* A finished message no fault has hit has been read or is in the ring.
Kept ==
    \A m \in 1 .. msg - 1 : m \notin hurt =>
        \/ m \in out
        \/ \E x \in Index : Place(x) < Place(tail) /\ Whole(rb[x]) /\ Msgs(rb[x]) = {m}

IInv ==
    /\ TypeOK
    /\ ~broken => /\ OneReader /\ Stages /\ FreeEmpty /\ Ordered /\ Received
                  /\ InProgress /\ Kept

-----------------------------------------------------------------------------
(* Indices.                                                                *)

LEMMA Places ==
  ASSUME TypeOK
  PROVE  /\ \A x \in Index : Place(x) \in 0 .. RING_SIZE - 1
         /\ \A x, y \in Index : Place(x) = Place(y) => x = y
         /\ Place(head) = 0 /\ head \in Index /\ tail \in Index
         /\ inc_index(tail) \in Index /\ inc_index(head) \in Index
         /\ ~Full => Place(inc_index(tail)) = Place(tail) + 1
  BY SizeAssumption DEF TypeOK, Index, Place, inc_index, Full

\* When head moves on, every other slot comes one place nearer to it.
LEMMA HeadMoves ==
  ASSUME TypeOK, head' = inc_index(head)
  PROVE  /\ \A x \in Index : x # head => Place(x)' = Place(x) - 1
         /\ Place(head)' = 0
         /\ LET h == head IN \A x \in Index : x = h => Place(x)' = RING_SIZE - 1
  BY SizeAssumption DEF TypeOK, Index, Place, inc_index

\* The fragments in the ring.
LEMMA Fragments ==
  ASSUME TypeOK, NEW x \in Index
  PROVE  /\ rb[x] \in Seq(Fragment) /\ Len(rb[x]) \in Nat /\ DOMAIN rb[x] = 1 .. Len(rb[x])
         /\ \A a \in DOMAIN rb[x] :
               /\ rb[x][a] \in Fragment /\ rb[x][a].msg \in Nat /\ rb[x][a].k \in Nat
               /\ rb[x][a].msg \in Msg /\ rb[x][a].last \in BOOLEAN
  <1>1. rb[x] \in Seq(Fragment)
    BY DEF TypeOK
  <1>2. Len(rb[x]) \in Nat /\ DOMAIN rb[x] = 1 .. Len(rb[x])
    BY <1>1, LenProperties
  <1>3. ASSUME NEW a \in DOMAIN rb[x]
        PROVE  /\ rb[x][a] \in Fragment /\ rb[x][a].msg \in Nat /\ rb[x][a].k \in Nat
               /\ rb[x][a].msg \in Msg /\ rb[x][a].last \in BOOLEAN
    <2>1. rb[x][a] \in Fragment
      BY <1>1, <1>2, <1>3, ElementOfSeq
    <2>. QED BY <2>1, SizeAssumption DEF Fragment, Msg
  <1>. QED BY <1>1, <1>2, <1>3

\* The chip goes on: what was received before is so still.
LEMMA PastStays ==
  ASSUME TypeOK, NEW end \in BOOLEAN, ChipGoesOn(end), NEW f \in Fragment, Past(f)
  PROVE  Past(f)'
  <1>1. f.msg \in Nat /\ f.k \in Nat /\ msg \in Nat /\ k \in Nat
    BY SizeAssumption DEF Fragment, Msg, TypeOK
  <1>. QED BY <1>1 DEF Past, ChipGoesOn

-----------------------------------------------------------------------------
(* The parts of the invariant, step by step.                               *)

\* A slot is emptied, or nothing happens to the slots.
LEMMA EmptyingKeeps ==
  ASSUME TypeOK, NEW x \in Index, UNCHANGED <<head, tail>>,
         rb' = rb \/ rb' = [rb EXCEPT ![x] = << >>]
  PROVE  /\ \A y \in Index : rb'[y] = rb[y] \/ (y = x /\ rb'[y] = << >>)
         /\ FreeEmpty => FreeEmpty'
         /\ Ordered => Ordered'
  <1>1. \A y \in Index : rb'[y] = rb[y] \/ (y = x /\ rb'[y] = << >>)
    BY DEF TypeOK
  <1>2. \A y \in Index : Place(y)' = Place(y)
    BY DEF Place
  <1>3. tail \in Index /\ Place(tail)' = Place(tail)
    BY DEF TypeOK, Place
  <1>4. ASSUME FreeEmpty PROVE FreeEmpty'
    BY <1>1, <1>2, <1>3, <1>4 DEF FreeEmpty
  <1>5. ASSUME Ordered PROVE Ordered'
    <2>. SUFFICES ASSUME NEW y \in Index, NEW z \in Index,
                         NEW a \in DOMAIN rb'[y], NEW b \in DOMAIN rb'[z],
                         Place(y)' < Place(z)' \/ (y = z /\ a < b)
                  PROVE  Before(rb'[y][a], rb'[z][b])
      BY DEF Ordered, Before, Earlier
    <2>1. DOMAIN << >> = {}
      OBVIOUS
    <2>2. rb'[y] = rb[y] /\ rb'[z] = rb[z]
      BY <1>1, <2>1
    <2>. QED BY <1>2, <1>5, <2>2 DEF Ordered
  <1>. QED BY <1>1, <1>4, <1>5

\* The types, whatever the readers do.
LEMMA TypeKeeps == TypeOK /\ [Next]_vars => TypeOK'
  <1>. SUFFICES ASSUME TypeOK, [Next]_vars PROVE TypeOK'
    OBVIOUS
  <1>1. CASE UNCHANGED vars
    BY <1>1 DEF vars, TypeOK
  <1>2. << >> \in Seq(Fragment) /\ Len(<< >>) <= MAX_SBUFS
    BY EmptySeq, SizeAssumption
  <1>3. ASSUME NEW x \in Index, rb' = [rb EXCEPT ![x] = << >>]
        PROVE  rb' \in [Index -> Seq(Fragment)] /\ \A y \in Index : Len(rb'[y]) <= MAX_SBUFS
    BY <1>2, <1>3 DEF TypeOK
  <1>4. ASSUME NEW end \in BOOLEAN, ChipGoesOn(end), msg \in Msg, k < MaxFrags \/ end
        PROVE  /\ msg' \in 1 .. MaxMsgs + 1 /\ k' \in 1 .. MaxFrags
               /\ \A s : Spoilt(end, s) \subseteq 1 .. MaxMsgs + 1
    BY <1>4, SizeAssumption DEF ChipGoesOn, TypeOK, Msg, Spoilt
  <1>5. \A x \in Index : Msgs(rb[x]) \subseteq Msg
    BY Fragments DEF Msgs
  <1>6. Msg \subseteq 1 .. MaxMsgs + 1
    BY SizeAssumption DEF Msg
  <1>7. CASE \E end \in BOOLEAN : rbuf_append(end)
    <2>1. PICK end \in BOOLEAN : rbuf_append(end)
      BY <1>7
    <2>2. /\ msg \in Msg /\ (k < MaxFrags \/ end) /\ ChipGoesOn(end)
          /\ UNCHANGED <<head, cur, stage, out, broken>>
      BY <2>1 DEF rbuf_append
    <2>3. CASE Append_ok(end)
      <3>. DEFINE g == [msg |-> msg, k |-> k, last |-> end]
      <3>1. /\ rb' = [rb EXCEPT ![tail] = Append(@, g)] /\ Len(rb[tail]) < MAX_SBUFS
            /\ tail' = (IF end THEN inc_index(tail) ELSE tail) /\ hurt' = hurt
        BY <2>3 DEF Append_ok
      <3>2. g \in Fragment
        BY <2>2 DEF TypeOK, Fragment
      <3>. HIDE DEF g
      <3>3. tail \in Index /\ tail' \in Index
        BY <3>1, Places
      <3>4. Append(rb[tail], g) \in Seq(Fragment) /\ Len(Append(rb[tail], g)) <= MAX_SBUFS
        BY <3>1, <3>2, <3>3, Fragments, AppendProperties, SizeAssumption
      <3>5. rb' \in [Index -> Seq(Fragment)] /\ \A y \in Index : Len(rb'[y]) <= MAX_SBUFS
        BY <3>1, <3>3, <3>4 DEF TypeOK
      <3>. QED BY <1>4, <2>2, <3>1, <3>3, <3>5 DEF TypeOK
    <2>4. CASE Append_full(end)
      <3>1. /\ rb' = [rb EXCEPT ![tail] = << >>] /\ tail' = tail /\ tail \in Index
            /\ hurt' = hurt \cup {msg} \cup Msgs(rb[tail])
        BY <2>4 DEF Append_full, TypeOK
      <3>2. hurt' \subseteq 1 .. MaxMsgs + 1
        BY <1>5, <1>6, <2>2, <3>1 DEF TypeOK
      <3>3. rb' \in [Index -> Seq(Fragment)] /\ \A y \in Index : Len(rb'[y]) <= MAX_SBUFS
        BY <1>3, <3>1
      <3>. QED BY <1>4, <2>2, <3>1, <3>2, <3>3 DEF TypeOK
    <2>5. CASE Append_nomem(end) \/ Append_noslot(end)
      <3>1. hurt' = hurt \cup Spoilt(end, rb[tail]) /\ UNCHANGED <<rb, tail>>
        BY <2>5 DEF Append_nomem, Append_noslot
      <3>. QED BY <1>4, <2>2, <3>1 DEF TypeOK
    <2>. QED BY <2>1, <2>3, <2>4, <2>5 DEF rbuf_append
  <1>8. CASE rbuf_abort_new
    <2>1. /\ msg \in Msg /\ ChipGoesOn(TRUE) /\ UNCHANGED <<head, tail, cur, stage, out>>
          /\ broken' = broken \/ broken' = TRUE
      BY <1>8 DEF rbuf_abort_new
    <2>2. /\ msg' \in 1 .. MaxMsgs + 1 /\ k' \in 1 .. MaxFrags
          /\ \A s : Spoilt(TRUE, s) \subseteq 1 .. MaxMsgs + 1
      BY <1>4, <2>1
    <2>3. rb' \in [Index -> Seq(Fragment)] /\ \A y \in Index : Len(rb'[y]) <= MAX_SBUFS
      <3>1. rb' = rb \/ rb' = [rb EXCEPT ![head] = << >>]
        BY <1>8 DEF rbuf_abort_new
      <3>. QED BY <1>3, <3>1 DEF TypeOK
    <2>4. hurt' \subseteq 1 .. MaxMsgs + 1
      <3>1. \/ hurt' = hurt \cup Spoilt(TRUE, rb[tail])
            \/ hurt' = hurt \cup Msgs(rb[head]) \cup Spoilt(TRUE, rb'[tail])
        BY <1>8 DEF rbuf_abort_new
      <3>. QED BY <1>5, <1>6, <2>2, <3>1, Places DEF TypeOK
    <2>. QED BY <2>1, <2>2, <2>3, <2>4 DEF TypeOK
  <1>9. CASE \E p \in Reader : GetCur(p) \/ NoMemory(p) \/ Copy(p)
    <2>1. PICK p \in Reader : GetCur(p) \/ NoMemory(p) \/ Copy(p)
      BY <1>9
    <2>2. CASE GetCur(p)
      <3>1. cur' = [cur EXCEPT ![p] = head] /\ broken' \in BOOLEAN
            /\ UNCHANGED <<rb, head, tail, stage, msg, k, hurt, out>>
        BY <2>2 DEF GetCur
      <3>. QED BY <3>1 DEF TypeOK
    <2>3. CASE NoMemory(p)
      BY <2>3 DEF NoMemory, TypeOK
    <2>4. CASE Copy(p)
      <3>1. /\ cur[p] # None /\ cur' = [cur EXCEPT ![p] = None] /\ stage' = "copied"
            /\ (out' = out \/ out' = out \cup Msgs(rb[cur[p]]))
            /\ UNCHANGED <<rb, head, tail, msg, k, hurt, broken>>
        BY <2>4 DEF Copy
      <3>2. cur[p] \in Index
        BY <3>1 DEF TypeOK
      <3>3. out' \subseteq Msg
        BY <1>5, <3>1, <3>2 DEF TypeOK
      <3>4. cur' \in [Reader -> Index \cup {None}]
        BY <3>1 DEF TypeOK
      <3>. QED BY <3>1, <3>3, <3>4 DEF TypeOK
    <2>. QED BY <2>1, <2>2, <2>3, <2>4
  <1>10. CASE Free
    <2>1. rb' \in [Index -> Seq(Fragment)] /\ \A y \in Index : Len(rb'[y]) <= MAX_SBUFS
      BY <1>3, <1>10, Places DEF Free
    <2>. QED BY <1>10, <2>1 DEF Free, TypeOK
  <1>11. CASE Move
    BY <1>11, Places DEF Move, TypeOK
  <1>. QED BY <1>1, <1>7, <1>8, <1>9, <1>10, <1>11 DEF Next

\* rbuf_append of a fragment for which there is room.
LEMMA AppendKeeps ==
  ASSUME IInv, TypeOK', ~broken, NEW end \in BOOLEAN, rbuf_append(end), Append_ok(end)
  PROVE  IInv'
  <1>. DEFINE g == [msg |-> msg, k |-> k, last |-> end]
  <1>1. /\ msg \in Msg /\ ChipGoesOn(end) /\ UNCHANGED <<head, cur, stage, out, broken>>
        /\ ~Full /\ rb' = [rb EXCEPT ![tail] = Append(@, g)]
        /\ tail' = (IF end THEN inc_index(tail) ELSE tail) /\ hurt' = hurt
    BY DEF rbuf_append, Append_ok
  <1>2. TypeOK /\ OneReader /\ Stages /\ FreeEmpty /\ Ordered /\ Received /\ InProgress /\ Kept
    BY DEF IInv
  <1>3. /\ g \in Fragment /\ g.msg = msg /\ g.k = k /\ g.last = end
        /\ msg \in Nat /\ k \in Nat /\ k >= 1
    BY <1>1, <1>2, SizeAssumption DEF TypeOK, Fragment, Msg
  <1>. HIDE DEF g
  <1>4. /\ tail \in Index /\ tail' \in Index
        /\ tail' = tail \/ Place(tail') = Place(tail) + 1
        /\ \A x \in Index : Place(x) \in Nat
    BY <1>1, <1>2, Places
  <1>5. \A x \in Index : Place(x)' = Place(x)
    BY <1>1 DEF Place
  <1>6. Place(tail)' = Place(tail') /\ Place(tail') >= Place(tail)
    BY <1>1, <1>4, <1>5 DEF Place
  <1>. DEFINE n == Len(rb[tail])
  <1>7. /\ n \in Nat /\ DOMAIN rb[tail] = 1 .. n /\ DOMAIN rb'[tail] = 1 .. n + 1
        /\ \A a \in 1 .. n : rb'[tail][a] = rb[tail][a]
        /\ rb'[tail][n + 1] = g /\ Len(rb'[tail]) = n + 1
        /\ \A x \in Index : x # tail => rb'[x] = rb[x]
    <2>1. rb[tail] \in Seq(Fragment) /\ n \in Nat /\ DOMAIN rb[tail] = 1 .. n
      BY <1>2, <1>4, Fragments
    <2>2. rb'[tail] = Append(rb[tail], g) /\ \A x \in Index : x # tail => rb'[x] = rb[x]
      BY <1>1, <1>2, <1>4 DEF TypeOK
    <2>. QED BY <1>3, <2>1, <2>2, AppendProperties, LenProperties
  <1>. HIDE DEF n
  <1>8. ASSUME NEW x \in Index, NEW a \in DOMAIN rb'[x]
        PROVE  \/ a \in DOMAIN rb[x] /\ rb'[x][a] = rb[x][a]
               \/ x = tail /\ a = n + 1 /\ rb'[x][a] = g
    <2>1. CASE x = tail
      <3>1. a \in 1 .. n \/ a = n + 1
        BY <1>7, <1>8, <2>1
      <3>. QED BY <1>7, <2>1, <3>1
    <2>2. CASE x # tail
      BY <1>7, <1>8, <2>2
    <2>. QED BY <2>1, <2>2
  <1>9. FreeEmpty'
    <2>. SUFFICES ASSUME NEW x \in Index, Place(x)' > Place(tail)' PROVE rb'[x] = << >>
      BY DEF FreeEmpty
    <2>1. Place(x) > Place(tail) /\ x # tail
      BY <1>4, <1>5, <1>6
    <2>. QED BY <1>2, <1>7, <2>1 DEF FreeEmpty
  <1>10. Ordered'
    <2>. SUFFICES ASSUME NEW x \in Index, NEW y \in Index,
                         NEW a \in DOMAIN rb'[x], NEW b \in DOMAIN rb'[y],
                         Place(x) < Place(y) \/ (x = y /\ a < b)
                  PROVE  Before(rb'[x][a], rb'[y][b])
      BY <1>5 DEF Ordered, Before, Earlier
    <2>1. CASE /\ a \in DOMAIN rb[x] /\ rb'[x][a] = rb[x][a]
               /\ b \in DOMAIN rb[y] /\ rb'[y][b] = rb[y][b]
      BY <1>2, <2>1 DEF Ordered
    <2>2. CASE /\ a \in DOMAIN rb[x] /\ rb'[x][a] = rb[x][a]
               /\ y = tail /\ b = n + 1 /\ rb'[y][b] = g
      <3>1. Past(rb[x][a])
        BY <1>2, <2>2 DEF Received
      <3>. QED BY <1>3, <2>2, <3>1 DEF Past, Before, Earlier
    <2>3. CASE x = tail /\ a = n + 1
      <3>1. CASE Place(x) < Place(y)
        <4>1. rb[y] = << >> /\ y # tail
          BY <1>2, <1>4, <2>3, <3>1 DEF FreeEmpty
        <4>. QED BY <1>7, <4>1
      <3>2. CASE x = y /\ a < b
        BY <1>7, <2>3, <3>2
      <3>. QED BY <3>1, <3>2
    <2>. QED BY <1>8, <2>1, <2>2, <2>3
  <1>11. Received'
    <2>1. ASSUME NEW x \in Index, NEW a \in DOMAIN rb'[x]
          PROVE  /\ Past(rb[x][a])'
                 /\ (stage' = "copied" /\ x = head') \/ rb'[x][a].msg \notin out'
      <3>1. CASE a \in DOMAIN rb[x] /\ rb'[x][a] = rb[x][a]
        <4>1. /\ Past(rb[x][a]) /\ rb[x][a] \in Fragment
              /\ (stage = "copied" /\ x = head) \/ rb[x][a].msg \notin out
          BY <1>2, <3>1, Fragments DEF Received
        <4>2. Past(rb[x][a])'
          <5>1. PICK h \in Fragment : h = rb[x][a]
            BY <4>1
          <5>2. Past(h)'
            BY <1>1, <1>2, <4>1, <5>1, PastStays
          <5>. QED BY <3>1, <5>1, <5>2 DEF Past
        <4>. QED BY <1>1, <3>1, <4>1, <4>2
      <3>2. CASE rb'[x][a] = g
        <4>1. msg \notin out
          BY <1>2, <1>3 DEF Received
        <4>. QED BY <1>1, <1>3, <3>2, <4>1 DEF Past, ChipGoesOn
      <3>. QED BY <1>8, <2>1, <3>1, <3>2
    <2>2. \A m \in out' : m < msg'
      <3>1. \A m \in out : m < msg /\ m \in Nat
        BY <1>2 DEF Received, TypeOK, Msg
      <3>. QED BY <1>1, <1>3, <3>1 DEF ChipGoesOn
    <2>. QED BY <2>1, <2>2 DEF Received, Past
  <1>12. OneReader' /\ Stages'
    <2>1. OneReader'
      BY <1>1, <1>2 DEF OneReader, Full
    <2>2. stage # "none" => head # tail /\ rb'[head] = rb[head]
      BY <1>1, <1>2, <1>7, Places DEF Stages
    <2>. QED BY <1>1, <1>2, <2>1, <2>2 DEF Stages, Full, Whole, Msgs
  <1>13. InProgress'
    <2>1. CASE end
      <3>1. tail' # tail /\ rb[tail'] = << >>
        BY <1>1, <1>2, <1>4, <2>1, Places DEF FreeEmpty
      <3>2. rb'[tail'] = << >> /\ k' = 1
        BY <1>1, <1>4, <1>7, <2>1, <3>1 DEF ChipGoesOn
      <3>. QED BY <3>2, EmptySeq DEF InProgress
    <2>2. CASE ~end
      <3>1. tail' = tail /\ k' = k + 1 /\ msg' = msg
        BY <1>1, <2>2 DEF ChipGoesOn
      <3>. SUFFICES ASSUME msg \notin hurt
                    PROVE  /\ Len(rb'[tail]) = k
                           /\ \A a \in DOMAIN rb'[tail] :
                                 rb'[tail][a] = [msg |-> msg, k |-> a, last |-> FALSE]
        BY <1>1, <1>3, <3>1 DEF InProgress
      <3>2. /\ n = k - 1
            /\ \A a \in DOMAIN rb[tail] : rb[tail][a] = [msg |-> msg, k |-> a, last |-> FALSE]
        BY <1>2 DEF InProgress, n
      <3>3. g = [msg |-> msg, k |-> n + 1, last |-> FALSE]
        <4>1. k = n + 1 /\ end = FALSE
          BY <1>3, <1>7, <2>2, <3>2
        <4>. QED BY <4>1 DEF g
      <3>4. ASSUME NEW a \in DOMAIN rb'[tail]
            PROVE  rb'[tail][a] = [msg |-> msg, k |-> a, last |-> FALSE]
        BY <1>4, <1>8, <3>2, <3>3
      <3>5. Len(rb'[tail]) = k
        BY <1>3, <1>7, <3>2
      <3>. QED BY <3>4, <3>5
    <2>. QED BY <2>1, <2>2
  <1>14. Kept'
    <2>. SUFFICES ASSUME NEW m \in 1 .. msg' - 1, m \notin hurt, m \notin out
                  PROVE  \E x \in Index : /\ Place(x) < Place(tail')
                                          /\ Whole(rb'[x]) /\ Msgs(rb'[x]) = {m}
      BY <1>1, <1>5, <1>6, ZenonT(40) DEF Kept, Whole, Msgs
    <2>1. CASE m \in 1 .. msg - 1
      <3>1. PICK x \in Index : Place(x) < Place(tail) /\ Whole(rb[x]) /\ Msgs(rb[x]) = {m}
        BY <1>2, <2>1 DEF Kept
      <3>2. x # tail /\ Place(x) < Place(tail')
        BY <1>4, <1>6, <3>1
      <3>. QED BY <1>7, <3>1, <3>2
    <2>2. CASE m \notin 1 .. msg - 1
      <3>1. end /\ m = msg
        BY <1>1, <1>3, <2>2 DEF ChipGoesOn
      <3>2. Place(tail) < Place(tail')
        BY <1>1, <1>2, <1>4, <3>1, Places
      <3>3. /\ n = k - 1
            /\ \A a \in DOMAIN rb[tail] : rb[tail][a] = [msg |-> msg, k |-> a, last |-> FALSE]
        BY <1>2, <3>1 DEF InProgress, n
      <3>4. g = [msg |-> msg, k |-> n + 1, last |-> TRUE]
        <4>1. k = n + 1 /\ end = TRUE
          BY <1>3, <1>7, <3>1, <3>3
        <4>. QED BY <4>1 DEF g
      <3>5. \A a \in 1 .. n + 1 :
               rb'[tail][a] = [msg |-> msg, k |-> a, last |-> a = n + 1]
        <4>. SUFFICES ASSUME NEW a \in 1 .. n + 1
                      PROVE  rb'[tail][a] = [msg |-> msg, k |-> a, last |-> a = n + 1]
          OBVIOUS
        <4>1. CASE a = n + 1
          BY <1>7, <3>4, <4>1
        <4>2. CASE a # n + 1
          <5>1. a \in 1 .. n /\ (a = n + 1) = FALSE
            BY <1>7, <4>2
          <5>. QED BY <1>7, <3>3, <5>1
        <4>. QED BY <4>1, <4>2
      <3>6. rb'[tail][1].msg = msg /\ 1 \in 1 .. n + 1 /\ rb'[tail] # << >>
        <4>1. 1 \in 1 .. n + 1 /\ 1 \in DOMAIN rb'[tail]
          BY <1>7
        <4>2. rb'[tail][1] = [msg |-> msg, k |-> 1, last |-> 1 = n + 1]
          BY <3>5, <4>1
        <4>3. rb'[tail] # << >>
          BY <4>1
        <4>. QED BY <4>1, <4>2, <4>3
      <3>7. Whole(rb'[tail])
        BY <1>7, <3>5, <3>6 DEF Whole
      <3>8. Msgs(rb'[tail]) = {msg}
        <4>1. ASSUME NEW a \in DOMAIN rb'[tail] PROVE rb'[tail][a].msg = msg
          <5>1. rb'[tail][a] = [msg |-> msg, k |-> a, last |-> a = n + 1]
            BY <1>7, <3>5, <4>1
          <5>. QED BY <5>1
        <4>. QED BY <1>7, <3>6, <4>1 DEF Msgs
      <3>. QED BY <1>4, <3>1, <3>2, <3>7, <3>8
    <2>. QED BY <2>1, <2>2
  <1>. QED BY <1>9, <1>10, <1>11, <1>12, <1>13, <1>14 DEF IInv

\* Something is lost: a slot is emptied at most, its messages are hit, and so
\* is the message that gets the remains of an unfinished one.
LEMMA LossKeeps ==
  ASSUME IInv, TypeOK', ~broken, NEW end \in BOOLEAN, ChipGoesOn(end),
         UNCHANGED <<head, tail, cur, stage, out, broken>>, NEW x \in Index,
         \/ rb' = rb
         \/ rb' = [rb EXCEPT ![x] = << >>] /\ Msgs(rb[x]) \subseteq hurt',
         hurt \cup {msg} \subseteq hurt',
         (end /\ rb'[tail] # << >>) => msg + 1 \in hurt'
  PROVE  IInv'
  <1>1. TypeOK /\ OneReader /\ Stages /\ FreeEmpty /\ Ordered /\ Received /\ InProgress /\ Kept
    BY DEF IInv
  <1>2. /\ \A y \in Index : rb'[y] = rb[y] \/ (y = x /\ rb'[y] = << >>)
        /\ FreeEmpty' /\ Ordered'
    BY <1>1, EmptyingKeeps
  <1>3. /\ tail \in Index /\ msg \in Nat /\ Place(tail)' = Place(tail)
        /\ \A y \in Index : Place(y)' = Place(y)
    BY <1>1, SizeAssumption DEF TypeOK, Place
  <1>4. OneReader' /\ Stages'
    <2>1. OneReader'
      BY <1>1 DEF OneReader
    <2>2. rb'[head] = rb[head] \/ rb'[head] = << >>
      BY <1>1, <1>2, Places
    <2>3. ~Whole(<< >>)
      BY DEF Whole
    <2>4. stage' # "none" => head' # tail' /\ \A p \in Reader : cur'[p] = None
      BY <1>1 DEF Stages
    <2>5. (stage' = "copied" /\ Whole(rb'[head'])) => Msgs(rb'[head']) \subseteq out'
      <3>. SUFFICES ASSUME stage' = "copied", Whole(rb'[head'])
                    PROVE  Msgs(rb'[head']) \subseteq out'
        OBVIOUS
      <3>1. rb'[head'] = rb[head] /\ stage = "copied" /\ out' = out
        BY <2>2, <2>3
      <3>. QED BY <1>1, <3>1 DEF Stages
    <2>6. stage' = "freed" => rb'[head'] = << >>
      BY <1>1, <2>2 DEF Stages
    <2>7. Stages'
      BY <2>4, <2>5, <2>6 DEF Stages, Whole, Msgs
    <2>. QED BY <2>1, <2>7
  <1>5. Received'
    <2>1. ASSUME NEW y \in Index, NEW a \in DOMAIN rb'[y]
          PROVE  /\ Past(rb[y][a])'
                 /\ (stage' = "copied" /\ y = head') \/ rb'[y][a].msg \notin out'
      <3>1. DOMAIN << >> = {}
        OBVIOUS
      <3>2. rb'[y] = rb[y]
        BY <1>2, <2>1, <3>1
      <3>3. /\ Past(rb[y][a]) /\ rb[y][a] \in Fragment
            /\ (stage = "copied" /\ y = head) \/ rb[y][a].msg \notin out
        BY <1>1, <2>1, <3>2, Fragments DEF Received
      <3>4. PICK h \in Fragment : h = rb[y][a]
        BY <3>3
      <3>5. Past(h)'
        BY <1>1, <3>3, <3>4, PastStays
      <3>6. Past(rb[y][a])'
        BY <3>2, <3>4, <3>5 DEF Past
      <3>. QED BY <3>2, <3>3, <3>6
    <2>2. \A m \in out' : m < msg'
      <3>1. \A m \in out : m < msg /\ m \in Nat
        BY <1>1 DEF Received, TypeOK, Msg
      <3>. QED BY <1>3, <3>1 DEF ChipGoesOn
    <2>. QED BY <2>1, <2>2 DEF Received, Past
  <1>6. InProgress'
    <2>1. CASE end /\ rb'[tail] = << >>
      BY <2>1, EmptySeq DEF InProgress, ChipGoesOn
    <2>2. CASE ~end \/ rb'[tail] # << >>
      BY <2>2 DEF InProgress, ChipGoesOn
    <2>. QED BY <2>1, <2>2
  <1>7. Kept'
    <2>. SUFFICES ASSUME NEW m \in 1 .. msg' - 1, m \notin hurt', m \notin out
                  PROVE  \E y \in Index : /\ Place(y)' < Place(tail)'
                                          /\ Whole(rb[y])' /\ Msgs(rb[y])' = {m}
      BY DEF Kept
    <2>1. m \in 1 .. msg - 1 /\ m \notin hurt
      BY <1>3 DEF ChipGoesOn
    <2>2. PICK y \in Index : Place(y) < Place(tail) /\ Whole(rb[y]) /\ Msgs(rb[y]) = {m}
      BY <1>1, <2>1 DEF Kept
    <2>3. rb'[y] = rb[y]
      BY <1>2, <2>2
    <2>4. Msgs(rb[y])' = {m}
      BY <2>2, <2>3 DEF Msgs
    <2>5. Whole(rb[y])'
      BY <2>2, <2>3 DEF Whole
    <2>. QED BY <1>3, <2>2, <2>4, <2>5
  <1>. QED BY <1>2, <1>4, <1>5, <1>6, <1>7 DEF IInv

\* rbuf_append of a fragment that is lost, and rbuf_abort_new.
LEMMA FaultKeeps ==
  ASSUME IInv, TypeOK', ~broken', NEW end \in BOOLEAN,
         \/ /\ rbuf_append(end)
            /\ Append_full(end) \/ Append_nomem(end) \/ Append_noslot(end)
         \/ rbuf_abort_new /\ end
  PROVE  IInv'
  <1>1. head \in Index /\ tail \in Index /\ rb \in [Index -> Seq(Fragment)]
        /\ broken' = broken /\ ~broken
    BY DEF IInv, TypeOK, rbuf_append, rbuf_abort_new
  <1>2. CASE rbuf_append(end) /\ Append_full(end)
    <2>1. /\ ChipGoesOn(end) /\ UNCHANGED <<head, tail, cur, stage, out, broken>>
          /\ rb' = [rb EXCEPT ![tail] = << >>]
          /\ hurt' = hurt \cup {msg} \cup Msgs(rb[tail])
      BY <1>2 DEF rbuf_append, Append_full
    <2>2. rb'[tail] = << >>
      BY <1>1, <2>1
    <2>3. Msgs(rb[tail]) \subseteq hurt' /\ hurt \cup {msg} \subseteq hurt'
      BY <2>1
    <2>. QED BY <1>1, <2>1, <2>2, <2>3, LossKeeps
  <1>3. CASE rbuf_append(end) /\ (Append_nomem(end) \/ Append_noslot(end))
    <2>1. /\ ChipGoesOn(end) /\ UNCHANGED <<head, tail, cur, stage, out, broken>> /\ rb' = rb
          /\ hurt' = hurt \cup Spoilt(end, rb[tail])
      BY <1>3 DEF rbuf_append, Append_nomem, Append_noslot
    <2>2. /\ hurt \cup {msg} \subseteq hurt'
          /\ (end /\ rb'[tail] # << >>) => msg + 1 \in hurt'
      BY <2>1 DEF Spoilt
    <2>. QED BY <1>1, <2>1, <2>2, LossKeeps
  <1>4. CASE rbuf_abort_new /\ end
    <2>1. ChipGoesOn(end) /\ UNCHANGED <<head, tail, cur, stage, out, broken>>
      BY <1>1, <1>4 DEF rbuf_abort_new
    <2>2. CASE Full
      <3>1. hurt' = hurt \cup Spoilt(TRUE, rb[tail]) /\ rb' = rb
        BY <1>4, <2>2 DEF rbuf_abort_new
      <3>2. hurt \cup {msg} \subseteq hurt' /\ (rb'[tail] # << >> => msg + 1 \in hurt')
        BY <3>1 DEF Spoilt
      <3>. QED BY <1>1, <1>4, <2>1, <3>1, <3>2, LossKeeps
    <2>3. CASE ~Full
      <3>1. /\ rb' = [rb EXCEPT ![head] = << >>]
            /\ hurt' = hurt \cup Msgs(rb[head]) \cup Spoilt(TRUE, rb'[tail])
        BY <1>4, <2>3 DEF rbuf_abort_new
      <3>2. /\ Msgs(rb[head]) \subseteq hurt' /\ hurt \cup {msg} \subseteq hurt'
            /\ rb'[tail] # << >> => msg + 1 \in hurt'
        BY <3>1 DEF Spoilt
      <3>. QED BY <1>1, <1>4, <2>1, <3>1, <3>2, LossKeeps
    <2>. QED BY <2>2, <2>3
  <1>. QED BY <1>2, <1>3, <1>4

\* What depends on the slots and the chip only.
LEMMA SameRing ==
  ASSUME UNCHANGED <<rb, head, tail, msg, k, hurt>>, out \subseteq out',
         FreeEmpty, Ordered, InProgress, Kept
  PROVE  FreeEmpty' /\ Ordered' /\ InProgress' /\ Kept'
  <1>1. FreeEmpty' /\ InProgress'
    BY DEF FreeEmpty, InProgress, Place
  <1>2. Ordered'
    BY DEF Ordered, Before, Earlier, Place
  <1>3. Kept'
    <2>1. Place(tail)' = Place(tail) /\ \A x \in Index : Place(x)' = Place(x)
      BY DEF Place
    <2>2. \A x \in Index : Msgs(rb[x])' = Msgs(rb[x])
      BY DEF Msgs
    <2>3. \A x \in Index : Whole(rb[x]) => Whole(rb[x])'
      BY DEF Whole
    <2>. QED BY <2>1, <2>2, <2>3 DEF Kept
  <1>. QED BY <1>1, <1>2, <1>3

\* A whole message has one number, and a last fragment.
LEMMA WholeMessage ==
  ASSUME TypeOK, NEW h \in Index, Whole(rb[h])
  PROVE  \E f \in Fragment :
            /\ Msgs(rb[h]) = {f.msg} /\ f.last
            /\ \E a \in DOMAIN rb[h] : f = rb[h][a]
  <1>1. /\ rb[h] \in Seq(Fragment) /\ Len(rb[h]) \in Nat /\ rb[h] # << >>
        /\ DOMAIN rb[h] = 1 .. Len(rb[h])
    BY Fragments DEF Whole
  <1>2. Len(rb[h]) # 0
    BY <1>1, EmptySeq
  <1>3. Len(rb[h]) \in DOMAIN rb[h]
    BY <1>1, <1>2
  <1>. DEFINE f == rb[h][Len(rb[h])]
  <1>4. f \in Fragment
    BY <1>3, Fragments
  <1>5. f.last
    <2>1. f = [msg |-> rb[h][1].msg, k |-> Len(rb[h]), last |-> Len(rb[h]) = Len(rb[h])]
      BY <1>3 DEF Whole
    <2>2. f = [msg |-> rb[h][1].msg, k |-> Len(rb[h]), last |-> TRUE]
      BY <2>1
    <2>. HIDE DEF f
    <2>. QED BY <2>2
  <1>6. ASSUME NEW a \in DOMAIN rb[h] PROVE rb[h][a].msg = rb[h][1].msg
    <2>1. rb[h][a] = [msg |-> rb[h][1].msg, k |-> a, last |-> a = Len(rb[h])]
      BY <1>6 DEF Whole
    <2>. QED BY <2>1
  <1>7. Msgs(rb[h]) = {f.msg}
    BY <1>3, <1>6 DEF Msgs
  <1>. QED BY <1>3, <1>4, <1>5, <1>7

\* rbuf_get_cur before it copies.
LEMMA LookKeeps ==
  ASSUME IInv, TypeOK', ~broken', NEW p \in Reader, GetCur(p) \/ NoMemory(p)
  PROVE  IInv'
  <1>1. /\ UNCHANGED <<rb, head, tail, stage, msg, k, hurt, out>> /\ ~broken /\ stage = "none"
        /\ \/ /\ cur' = [cur EXCEPT ![p] = head] /\ head # tail
              /\ \A q \in Reader : cur[q] = None
           \/ cur' = [cur EXCEPT ![p] = None]
    <2>1. CASE GetCur(p)
      <3>1. ~(broken \/ \E q \in Reader : cur[q] # None)
        BY <2>1, Zenon DEF GetCur
      <3>. QED BY <2>1, <3>1 DEF GetCur
    <2>2. CASE NoMemory(p)
      BY <2>2 DEF NoMemory
    <2>. QED BY <2>1, <2>2
  <1>2. TypeOK /\ OneReader /\ Stages /\ FreeEmpty /\ Ordered /\ Received /\ InProgress /\ Kept
    BY <1>1 DEF IInv
  <1>3. OneReader'
    BY <1>1, <1>2, SMTT(30) DEF OneReader, TypeOK
  <1>4. Stages' /\ Received'
    BY <1>1, <1>2 DEF Stages, Received, Past
  <1>5. FreeEmpty' /\ Ordered' /\ InProgress' /\ Kept'
    BY <1>1, <1>2, SameRing
  <1>. QED BY <1>3, <1>4, <1>5 DEF IInv

\* rbuf_get_cur copies the message at head: it is read, and all others are
\* later.
LEMMA CopyKeeps ==
  ASSUME IInv, TypeOK', ~broken, NEW p \in Reader, Copy(p)
  PROVE  IInv'
  <1>1. TypeOK /\ OneReader /\ Stages /\ FreeEmpty /\ Ordered /\ Received /\ InProgress /\ Kept
    BY DEF IInv
  <1>2. PICK h \in Index : h = head
    BY <1>1 DEF TypeOK
  <1>3. /\ cur[p] = h /\ h # tail /\ cur' = [cur EXCEPT ![p] = None]
        /\ out' = (IF Whole(rb[h]) THEN out \cup Msgs(rb[h]) ELSE out)
        /\ stage = "none" /\ stage' = "copied"
        /\ UNCHANGED <<rb, head, tail, msg, k, hurt, broken>>
        /\ \A q \in Reader : cur[q] # None => q = p
    BY <1>1, <1>2 DEF Copy, OneReader
  <1>4. Place(h) = 0 /\ \A x \in Index : x # h => Place(x) > 0
    <2>1. /\ \A x \in Index : Place(x) \in Nat
          /\ Place(h) = 0 /\ \A x \in Index : Place(x) = Place(h) => x = h
      BY <1>1, <1>2, Places
    <2>. QED BY <2>1
  <1>5. \A q \in Reader : cur'[q] = None
    BY <1>1, <1>3 DEF TypeOK
  <1>6. OneReader' /\ Stages'
    <2>1. OneReader'
      BY <1>5 DEF OneReader
    <2>2. Whole(rb[h]) => Msgs(rb[h]) \subseteq out'
      BY <1>3
    <2>. QED BY <1>2, <1>3, <1>5, <2>1, <2>2 DEF Stages, Whole, Msgs
  <1>7. FreeEmpty' /\ Ordered' /\ InProgress' /\ Kept'
    <2>1. out \subseteq out'
      BY <1>3
    <2>. QED BY <1>1, <1>3, <2>1, SameRing
  <1>8. Received'
    <2>1. ASSUME NEW x \in Index, NEW a \in DOMAIN rb[x]
          PROVE  Past(rb[x][a]) /\ (x = h \/ rb[x][a].msg \notin out')
      <3>1. Past(rb[x][a]) /\ rb[x][a].msg \notin out /\ rb[x][a].msg \in Nat
        BY <1>1, <1>3, <2>1, Fragments DEF Received
      <3>2. ASSUME Whole(rb[h]), x # h PROVE rb[x][a].msg \notin Msgs(rb[h])
        <4>1. PICK f \in Fragment : /\ Msgs(rb[h]) = {f.msg} /\ f.last
                                    /\ \E b \in DOMAIN rb[h] : f = rb[h][b]
          BY <1>1, <3>2, WholeMessage
        <4>2. f.msg < rb[x][a].msg
          BY <1>1, <1>4, <2>1, <3>2, <4>1 DEF Ordered, Before
        <4>3. f.msg \in Nat
          BY DEF Fragment, Msg
        <4>. QED BY <3>1, <4>1, <4>2, <4>3
      <3>. QED BY <1>3, <3>1, <3>2
    <2>2. ASSUME NEW m \in out' PROVE m < msg
      <3>1. CASE m \in out
        BY <1>1, <3>1 DEF Received
      <3>2. CASE m \notin out
        <4>1. Whole(rb[h]) /\ m \in Msgs(rb[h])
          BY <1>3, <2>2, <3>2
        <4>2. PICK f \in Fragment : /\ Msgs(rb[h]) = {f.msg} /\ f.last
                                    /\ \E b \in DOMAIN rb[h] : f = rb[h][b]
          BY <1>1, <4>1, WholeMessage
        <4>3. Past(f)
          BY <1>1, <4>2 DEF Received
        <4>. QED BY <4>1, <4>2, <4>3 DEF Past
      <3>. QED BY <3>1, <3>2
    <2>. QED BY <1>2, <1>3, <2>1, <2>2 DEF Received, Past
  <1>. QED BY <1>6, <1>7, <1>8 DEF IInv

\* It frees the slot at head: what was whole in it has been read.
LEMMA FreeKeeps ==
  ASSUME IInv, TypeOK', ~broken, Free
  PROVE  IInv'
  <1>1. TypeOK /\ OneReader /\ Stages /\ FreeEmpty /\ Ordered /\ Received /\ InProgress /\ Kept
    BY DEF IInv
  <1>2. /\ head \in Index /\ tail \in Index /\ head # tail
        /\ stage = "copied" /\ stage' = "freed" /\ rb' = [rb EXCEPT ![head] = << >>]
        /\ UNCHANGED <<head, tail, cur, msg, k, hurt, out, broken>>
    BY <1>1 DEF Free, Stages, TypeOK
  <1>3. /\ rb'[head] = << >> /\ DOMAIN rb'[head] = {}
        /\ \A x \in Index : x # head => rb'[x] = rb[x]
    BY <1>1, <1>2 DEF TypeOK
  <1>4. FreeEmpty' /\ Ordered'
    BY <1>1, <1>2, EmptyingKeeps
  <1>5. OneReader' /\ Stages'
    BY <1>1, <1>2, <1>3 DEF OneReader, Stages
  <1>6. Received'
    BY <1>1, <1>2, <1>3 DEF Received, Past
  <1>7. InProgress'
    BY <1>1, <1>2, <1>3 DEF InProgress
  <1>8. Kept'
    <2>. SUFFICES ASSUME NEW m \in 1 .. msg - 1, m \notin hurt, m \notin out
                  PROVE  \E x \in Index : /\ Place(x)' < Place(tail)'
                                          /\ Whole(rb[x])' /\ Msgs(rb[x])' = {m}
      BY <1>2 DEF Kept
    <2>1. PICK x \in Index : Place(x) < Place(tail) /\ Whole(rb[x]) /\ Msgs(rb[x]) = {m}
      BY <1>1 DEF Kept
    <2>2. x # head
      BY <1>1, <1>2, <2>1 DEF Stages
    <2>3. Place(x)' < Place(tail)'
      BY <1>2, <2>1 DEF Place
    <2>4. Msgs(rb[x])' = {m}
      BY <1>3, <2>1, <2>2 DEF Msgs
    <2>5. Whole(rb[x])'
      BY <1>3, <2>1, <2>2 DEF Whole
    <2>. QED BY <2>3, <2>4, <2>5
  <1>. QED BY <1>4, <1>5, <1>6, <1>7, <1>8 DEF IInv

\* It moves head, and leaves an empty slot behind.
LEMMA MoveKeeps ==
  ASSUME IInv, TypeOK', ~broken, Move
  PROVE  IInv'
  <1>1. TypeOK /\ OneReader /\ Stages /\ FreeEmpty /\ Ordered /\ Received /\ InProgress /\ Kept
    BY DEF IInv
  <1>2. PICK h \in Index : h = head
    BY <1>1 DEF TypeOK
  <1>3. /\ h # tail /\ head' = inc_index(head) /\ rb[h] = << >> /\ DOMAIN rb[h] = {}
        /\ stage = "freed" /\ stage' = "none" /\ \A q \in Reader : cur[q] = None
        /\ UNCHANGED <<rb, tail, cur, msg, k, hurt, out, broken>>
    BY <1>1, <1>2 DEF Move, Stages
  <1>4. /\ \A x \in Index : x # h => Place(x)' = Place(x) - 1
        /\ \A x \in Index : Place(x) \in Nat
    BY <1>1, <1>2, <1>3, Places, HeadMoves
  <1>5. tail \in Index /\ Place(tail)' = Place(tail) - 1
    <2>1. PICK t \in Index : t = tail
      BY <1>1 DEF TypeOK
    <2>2. Place(t)' = Place(t) - 1
      BY <1>3, <1>4, <2>1
    <2>. QED BY <1>3, <2>1, <2>2 DEF Place
  <1>6. OneReader' /\ Stages'
    BY <1>3 DEF OneReader, Stages
  <1>7. FreeEmpty'
    <2>. SUFFICES ASSUME NEW x \in Index, Place(x)' > Place(tail)', x # h
                  PROVE  rb[x] = << >>
      BY <1>3 DEF FreeEmpty
    <2>. QED BY <1>1, <1>4, <1>5 DEF FreeEmpty
  <1>8. Ordered'
    <2>. SUFFICES ASSUME NEW x \in Index, NEW y \in Index,
                         NEW a \in DOMAIN rb[x], NEW b \in DOMAIN rb[y],
                         Place(x)' < Place(y)' \/ (x = y /\ a < b)
                  PROVE  Before(rb[x][a], rb[y][b])
      BY <1>3 DEF Ordered, Before, Earlier
    <2>1. x # h /\ y # h
      BY <1>3
    <2>2. Place(x) < Place(y) \/ (x = y /\ a < b)
      BY <1>4, <2>1
    <2>. QED BY <1>1, <2>2 DEF Ordered
  <1>9. Received' /\ InProgress'
    BY <1>1, <1>3 DEF Received, InProgress, Past
  <1>10. Kept'
    <2>. SUFFICES ASSUME NEW m \in 1 .. msg - 1, m \notin hurt, m \notin out
                  PROVE  \E x \in Index : /\ Place(x)' < Place(tail)'
                                          /\ Whole(rb[x])' /\ Msgs(rb[x])' = {m}
      BY <1>3 DEF Kept
    <2>1. PICK x \in Index : Place(x) < Place(tail) /\ Whole(rb[x]) /\ Msgs(rb[x]) = {m}
      BY <1>1 DEF Kept
    <2>2. x # h
      BY <1>3, <2>1 DEF Whole
    <2>3. Place(x)' < Place(tail)'
      BY <1>4, <1>5, <2>1, <2>2
    <2>4. Msgs(rb[x])' = {m}
      BY <1>3, <2>1 DEF Msgs
    <2>5. Whole(rb[x])'
      BY <1>3, <2>1 DEF Whole
    <2>. QED BY <2>3, <2>4, <2>5
  <1>. QED BY <1>6, <1>7, <1>8, <1>9, <1>10 DEF IInv

LEMMA InitHolds == Init => IInv
  <1>. SUFFICES ASSUME Init PROVE IInv
    OBVIOUS
  <1>1. << >> \in Seq(Fragment) /\ Len(<< >>) = 0 /\ DOMAIN << >> = {}
    BY EmptySeq
  <1>2. \A x \in Index : rb[x] = << >>
    BY DEF Init
  <1>3. TypeOK
    BY <1>1, <1>2, SizeAssumption, SMTT(30) DEF Init, TypeOK, Index
  <1>4. OneReader /\ Stages /\ FreeEmpty
    BY <1>2 DEF Init, OneReader, Stages, FreeEmpty
  <1>5. Ordered /\ Received
    BY <1>1, <1>2 DEF Init, Ordered, Received
  <1>6. InProgress /\ Kept
    BY <1>1, <1>2, <1>3 DEF Init, InProgress, Kept, TypeOK
  <1>. QED BY <1>3, <1>4, <1>5, <1>6 DEF IInv

LEMMA StepKeeps == IInv /\ [Next]_vars => IInv'
  <1>. SUFFICES ASSUME IInv, [Next]_vars PROVE IInv'
    OBVIOUS
  <1>1. TypeOK'
    BY TypeKeeps DEF IInv
  <1>2. CASE broken'
    BY <1>1, <1>2 DEF IInv
  <1>3. CASE ~broken' /\ UNCHANGED vars
    <2>1. UNCHANGED <<rb, head, tail, cur, stage, msg, k, hurt, out, broken>> /\ ~broken
      BY <1>3 DEF vars
    <2>2. TypeOK /\ OneReader /\ Stages /\ FreeEmpty /\ Ordered /\ Received /\ InProgress /\ Kept
      BY <2>1 DEF IInv
    <2>3. OneReader' /\ Received'
      BY <2>1, <2>2 DEF OneReader, Received, Past
    <2>4. Stages'
      BY <2>1, <2>2 DEF Stages, Whole, Msgs
    <2>5. FreeEmpty' /\ Ordered' /\ InProgress' /\ Kept'
      BY <2>1, <2>2, SameRing
    <2>. QED BY <1>1, <2>3, <2>4, <2>5 DEF IInv
  <1>4. CASE ~broken' /\ \E end \in BOOLEAN : rbuf_append(end)
    <2>1. PICK end \in BOOLEAN : rbuf_append(end)
      BY <1>4
    <2>2. ~broken
      BY <1>4, <2>1 DEF rbuf_append
    <2>3. CASE Append_ok(end)
      BY <1>1, <2>1, <2>2, <2>3, AppendKeeps
    <2>4. CASE Append_full(end) \/ Append_nomem(end) \/ Append_noslot(end)
      BY <1>1, <1>4, <2>1, <2>4, FaultKeeps
    <2>. QED BY <2>1, <2>3, <2>4 DEF rbuf_append
  <1>5. CASE ~broken' /\ rbuf_abort_new
    BY <1>1, <1>5, FaultKeeps
  <1>6. CASE ~broken' /\ \E p \in Reader : GetCur(p) \/ NoMemory(p) \/ Copy(p)
    <2>1. PICK p \in Reader : GetCur(p) \/ NoMemory(p) \/ Copy(p)
      BY <1>6
    <2>2. CASE GetCur(p) \/ NoMemory(p)
      BY <1>1, <1>6, <2>2, LookKeeps
    <2>3. CASE Copy(p)
      <3>1. ~broken
        BY <1>6, <2>3 DEF Copy
      <3>. QED BY <1>1, <2>3, <3>1, CopyKeeps
    <2>. QED BY <2>1, <2>2, <2>3
  <1>7. CASE ~broken' /\ (Free \/ Move)
    <2>1. ~broken
      BY <1>7 DEF Free, Move
    <2>. QED BY <1>1, <1>7, <2>1, FreeKeeps, MoveKeeps
  <1>. QED BY <1>2, <1>3, <1>4, <1>5, <1>6, <1>7 DEF Next

\* The invariant holds in every reachable state.
THEOREM Inductive == Spec => []IInv
  BY InitHolds, StepKeeps, PTL DEF Spec

\* Every variable keeps its type, and no slot ever has more than MAX_SBUFS
\* fragments, whatever the readers do (eoc_ring.c 71-125).
THEOREM TypeCorrect == Spec => []TypeOK
  <1>1. IInv => TypeOK
    BY DEF IInv
  <1>. QED BY Inductive, <1>1, PTL

-----------------------------------------------------------------------------
(* What follows from the invariant, in the words of the properties.        *)

\* Pos(i) is the slot whose place is i - 1.
LEMMA Positions ==
  ASSUME TypeOK
  PROVE  /\ Used = Place(tail)
         /\ \A i \in 1 .. RING_SIZE : Pos(i) \in Index /\ Place(Pos(i)) = i - 1
         /\ \A x \in Index : /\ Place(x) + 1 \in 1 .. RING_SIZE
                             /\ Pos(Place(x) + 1) = x
         /\ Used \in 0 .. RING_SIZE - 1
  <1>1. RING_SIZE \in Nat /\ RING_SIZE > 1 /\ head \in Index /\ tail \in Index
    BY SizeAssumption DEF TypeOK
  <1>2. \A a \in 0 .. RING_SIZE - 1 : a % RING_SIZE = a
    BY <1>1
  <1>3. \A a \in RING_SIZE .. RING_SIZE + RING_SIZE - 1 : a % RING_SIZE = a - RING_SIZE
    BY <1>1
  <1>4. Used = Place(tail)
    BY <1>1, <1>2, <1>3 DEF Used, Place, Index
  <1>5. ASSUME NEW i \in 1 .. RING_SIZE PROVE Pos(i) \in Index /\ Place(Pos(i)) = i - 1
    BY <1>1, <1>2, <1>3 DEF Pos, Place, Index
  <1>6. ASSUME NEW x \in Index
        PROVE  Place(x) + 1 \in 1 .. RING_SIZE /\ Pos(Place(x) + 1) = x
    BY <1>1, <1>2, <1>3 DEF Pos, Place, Index
  <1>7. Used \in 0 .. RING_SIZE - 1
    BY <1>1, <1>4 DEF Place, Index
  <1>. QED BY <1>4, <1>5, <1>6, <1>7

\* What waits is a sequence with the slots before tail, in their places.
Arranged ==
    /\ Waiting \in Seq(Seq(Fragment)) /\ Len(Waiting) = Place(tail) /\ Place(tail) \in Nat
    /\ \A i \in 1 .. Place(tail) : \E x \in Index : Place(x) = i - 1 /\ Waiting[i] = rb[x]

LEMMA WaitingSeq == TypeOK => Arranged
  <1>. SUFFICES ASSUME TypeOK PROVE Arranged
    OBVIOUS
  <1>1. /\ Used = Place(tail) /\ Used \in 0 .. RING_SIZE - 1
        /\ \A i \in 1 .. RING_SIZE : Pos(i) \in Index /\ Place(Pos(i)) = i - 1
    BY Positions
  <1>2. Used \in Nat /\ \A i \in 1 .. Used : i \in 1 .. RING_SIZE
    BY <1>1, SizeAssumption
  <1>3. \A i \in 1 .. Used : rb[Pos(i)] \in Seq(Fragment)
    BY <1>1, <1>2 DEF TypeOK
  <1>4. Waiting \in Seq(Seq(Fragment)) /\ Len(Waiting) = Used
    BY <1>2, <1>3, IsASeq DEF Waiting
  <1>5. \A i \in 1 .. Used : Waiting[i] = rb[Pos(i)]
    BY DEF Waiting
  <1>. QED BY <1>1, <1>2, <1>4, <1>5 DEF Arranged

LEMMA WaitingSeqNext == TypeOK' => Arranged'
  BY WaitingSeq, PTL

\* The message at place i of what waits.
LEMMA WaitingAt ==
  ASSUME TypeOK, NEW x \in Index, Place(x) < Place(tail)
  PROVE  Place(x) + 1 \in 1 .. Len(Waiting) /\ Waiting[Place(x) + 1] = rb[x]
  <1>1. Arranged
    BY WaitingSeq
  <1>2. Place(x) \in Nat /\ \A y \in Index : Place(y) \in Nat
    BY Places
  <1>3. Place(x) + 1 \in 1 .. Place(tail)
    BY <1>1, <1>2 DEF Arranged
  <1>4. PICK y \in Index : Place(y) = Place(x) /\ Waiting[Place(x) + 1] = rb[y]
    BY <1>1, <1>2, <1>3 DEF Arranged
  <1>. QED BY <1>1, <1>3, <1>4, Places DEF Arranged

\* A message no fault has hit and that has been received is in the ring, whole,
\* or has been read (eoc_ring.c 71-125).
THEOREM Confined == Spec => []DamageConfined
  <1>1. IInv => DamageConfined
    <2>. SUFFICES ASSUME IInv, ~broken, NEW m \in 1 .. msg - 1, m \notin hurt, m \notin out
                  PROVE  \E i \in 1 .. Used : Whole(Waiting[i]) /\ Msgs(Waiting[i]) = {m}
      BY DEF DamageConfined
    <2>1. PICK x \in Index : Place(x) < Place(tail) /\ Whole(rb[x]) /\ Msgs(rb[x]) = {m}
      BY DEF IInv, Kept
    <2>2. TypeOK
      BY DEF IInv
    <2>3. Place(x) + 1 \in 1 .. Len(Waiting) /\ Waiting[Place(x) + 1] = rb[x]
      BY <2>1, <2>2, WaitingAt
    <2>4. Len(Waiting) = Used
      BY <2>2, WaitingSeq, Positions DEF Arranged
    <2>. QED BY <2>1, <2>3, <2>4
  <1>. QED BY Inductive, <1>1, PTL

\* What readers get never goes back: the fragments in the ring are in the
\* order of their reception, none is there twice or has been read already, and
\* no slot that is not in use keeps any (eoc_ring.c 71-125).
THEOREM KeepsOrder == Spec => []InOrder
  <1>1. IInv => InOrder
    <2>. SUFFICES ASSUME IInv, ~broken
                  PROVE  /\ \A i, j \in 1 .. Used + 1 :
                               \A a \in DOMAIN rb[Pos(i)], b \in DOMAIN rb[Pos(j)] :
                                  (i < j \/ (i = j /\ a < b)) =>
                                      Earlier(rb[Pos(i)][a], rb[Pos(j)][b])
                         /\ \A i \in 1 .. Used + 1 :
                               (i = 1 /\ stage = "copied") \/ Msgs(rb[Pos(i)]) \cap out = {}
                         /\ \A i \in Used + 2 .. RING_SIZE : rb[Pos(i)] = << >>
      BY DEF InOrder
    <2>1. TypeOK /\ FreeEmpty /\ Ordered /\ Received
      BY DEF IInv
    <2>2. /\ Used = Place(tail) /\ Used \in 0 .. RING_SIZE - 1
          /\ \A i \in 1 .. RING_SIZE : Pos(i) \in Index /\ Place(Pos(i)) = i - 1
      BY <2>1, Positions
    <2>3. \A i \in 1 .. Used + 1 : i \in 1 .. RING_SIZE
      BY <2>2, SizeAssumption
    <2>4. ASSUME NEW i \in 1 .. Used + 1, NEW j \in 1 .. Used + 1,
                 NEW a \in DOMAIN rb[Pos(i)], NEW b \in DOMAIN rb[Pos(j)],
                 i < j \/ (i = j /\ a < b)
          PROVE  Earlier(rb[Pos(i)][a], rb[Pos(j)][b])
      <3>1. Place(Pos(i)) < Place(Pos(j)) \/ (Pos(i) = Pos(j) /\ a < b)
        BY <2>2, <2>3, <2>4
      <3>. QED BY <2>1, <2>2, <2>3, <3>1 DEF Ordered, Before
    <2>5. ASSUME NEW i \in 1 .. Used + 1
          PROVE  (i = 1 /\ stage = "copied") \/ Msgs(rb[Pos(i)]) \cap out = {}
      <3>1. Pos(i) \in Index /\ (Pos(i) = head => i = 1)
        BY <2>1, <2>2, <2>3, Places
      <3>. QED BY <2>1, <3>1 DEF Received, Msgs
    <2>6. ASSUME NEW i \in Used + 2 .. RING_SIZE PROVE rb[Pos(i)] = << >>
      <3>1. i \in 1 .. RING_SIZE /\ i - 1 > Used
        BY <2>2, SizeAssumption
      <3>. QED BY <2>1, <2>2, <3>1 DEF FreeEmpty
    <2>. QED BY <2>4, <2>5, <2>6
  <1>. QED BY Inductive, <1>1, PTL

-----------------------------------------------------------------------------
(* The ring implements the queue.                                          *)

\* Something happens at tail only: what waits stays.
LEMMA SameWaiting ==
  ASSUME TypeOK, TypeOK', UNCHANGED <<head, tail>>,
         \A x \in Index : x # tail => rb'[x] = rb[x]
  PROVE  Waiting' = Waiting
  <1>1. Arranged /\ Arranged'
    BY WaitingSeq, WaitingSeqNext
  <1>2. Place(tail)' = Place(tail) /\ \A x \in Index : Place(x)' = Place(x)
    BY DEF Place
  <1>3. ASSUME NEW i \in 1 .. Len(Waiting) PROVE Waiting'[i] = Waiting[i]
    <2>1. PICK x \in Index : Place(x) = i - 1 /\ Waiting'[i] = rb'[x]
      BY <1>1, <1>2, <1>3 DEF Arranged
    <2>2. Place(x) < Place(tail) /\ Place(x) + 1 = i /\ x # tail
      BY <1>1, <1>3, <2>1 DEF Arranged
    <2>. QED BY <2>1, <2>2, WaitingAt
  <1>4. /\ Waiting \in Seq(Seq(Fragment)) /\ Waiting' \in Seq(Seq(Fragment))
        /\ Len(Waiting') = Len(Waiting)
    BY <1>1, <1>2 DEF Arranged
  <1>. QED BY <1>3, <1>4, SeqEqual

\* Nothing happens to what waits, nor to the reader.
LEMMA SameUnread ==
  ASSUME Waiting' = Waiting, stage' = stage
  PROVE  Unread' = Unread
  BY DEF Unread

\* As long as head and tail differ, something waits.
LEMMA SomeWaiting ==
  ASSUME TypeOK, head # tail
  PROVE  Waiting # << >>
  <1>1. Place(tail) # 0 /\ Waiting \in Seq(Seq(Fragment)) /\ Len(Waiting) = Place(tail)
    BY Places, WaitingSeq DEF Arranged
  <1>. QED BY <1>1, EmptySeq

\* To drop the first and to append at the end may change places.
LEMMA TailAppend ==
  ASSUME NEW S, NEW s \in Seq(S), s # << >>, NEW e \in S
  PROVE  Tail(Append(s, e)) = Append(Tail(s), e)
  <1>. DEFINE t == Append(s, e)
              n == Len(s)
  <1>1. n \in Nat /\ n >= 1
    BY EmptySeq, LenProperties
  <1>2. /\ t \in Seq(S) /\ Len(t) = n + 1 /\ t[n + 1] = e
        /\ \A i \in 1 .. n : t[i] = s[i]
    BY AppendProperties
  <1>3. /\ Tail(s) \in Seq(S) /\ Len(Tail(s)) = n - 1
        /\ \A i \in 1 .. n - 1 : Tail(s)[i] = s[i + 1]
    BY HeadTailProperties
  <1>4. /\ Append(Tail(s), e) \in Seq(S) /\ Len(Append(Tail(s), e)) = n
        /\ \A i \in 1 .. n - 1 : Append(Tail(s), e)[i] = Tail(s)[i]
        /\ Append(Tail(s), e)[n] = e
    <2>1. /\ Append(Tail(s), e) \in Seq(S) /\ Len(Append(Tail(s), e)) = Len(Tail(s)) + 1
          /\ \A i \in 1 .. Len(Tail(s)) : Append(Tail(s), e)[i] = Tail(s)[i]
          /\ Append(Tail(s), e)[Len(Tail(s)) + 1] = e
      BY <1>3, AppendProperties
    <2>2. Len(Tail(s)) + 1 = n
      BY <1>1, <1>3
    <2>. QED BY <1>3, <2>1, <2>2
  <1>. HIDE DEF t, n
  <1>5. t # << >>
    BY <1>1, <1>2, EmptySeq
  <1>6. Tail(t) \in Seq(S) /\ Len(Tail(t)) = n /\ \A i \in 1 .. n : Tail(t)[i] = t[i + 1]
    <2>1. /\ Tail(t) \in Seq(S) /\ Len(Tail(t)) = Len(t) - 1
          /\ \A i \in 1 .. Len(t) - 1 : Tail(t)[i] = t[i + 1]
      BY <1>2, <1>5, HeadTailProperties
    <2>2. Len(t) - 1 = n
      BY <1>1, <1>2
    <2>. QED BY <2>1, <2>2
  <1>7. ASSUME NEW i \in 1 .. n PROVE Tail(t)[i] = Append(Tail(s), e)[i]
    <2>1. CASE i = n
      BY <1>2, <1>4, <1>6, <2>1
    <2>2. CASE i # n
      <3>1. i \in 1 .. n - 1 /\ i + 1 \in 1 .. n
        BY <1>1, <2>2
      <3>2. Tail(t)[i] = s[i + 1]
        BY <1>2, <1>6, <1>7, <3>1
      <3>. QED BY <1>3, <1>4, <3>1, <3>2
    <2>. QED BY <2>1, <2>2
  <1>8. Tail(t) = Append(Tail(s), e)
    BY <1>4, <1>6, <1>7, SeqEqual
  <1>. QED BY <1>8 DEF t

\* A fragment is appended: the new message grows, or is complete and waits.
LEMMA AppendRefines ==
  ASSUME IInv, TypeOK', ~broken, NEW end \in BOOLEAN, rbuf_append(end), Append_ok(end)
  PROVE  Queue!Next
  <1>. DEFINE g == [msg |-> msg, k |-> k, last |-> end]
  <1>1. /\ msg \in Msg /\ UNCHANGED <<head, stage, broken>>
        /\ ~Full /\ rb' = [rb EXCEPT ![tail] = Append(@, g)]
        /\ tail' = (IF end THEN inc_index(tail) ELSE tail)
    BY DEF rbuf_append, Append_ok
  <1>2. TypeOK /\ FreeEmpty /\ Stages
    BY DEF IInv
  <1>3. g \in Fragment
    BY <1>1, <1>2 DEF TypeOK, Fragment
  <1>. HIDE DEF g
  <1>4. /\ tail \in Index /\ rb'[tail] = Append(rb[tail], g)
        /\ \A x \in Index : x # tail => rb'[x] = rb[x]
    BY <1>1, <1>2 DEF TypeOK
  <1>5. CASE ~end
    <2>1. tail' = tail
      BY <1>1, <1>5
    <2>2. Unread' = Unread
      BY <1>1, <1>2, <1>4, <2>1, SameWaiting, SameUnread
    <2>3. Queue!Extend(g)
      BY <1>1, <1>4, <2>1, <2>2 DEF Queue!Extend
    <2>. QED BY <1>3, <2>3 DEF Queue!Next
  <1>6. CASE end
    <2>1. tail' \in Index /\ Place(tail') = Place(tail) + 1 /\ Place(tail) \in Nat
      BY <1>1, <1>2, <1>4, <1>6, Places
    <2>2. rb[tail]' = << >>
      <3>1. tail' # tail /\ rb[tail'] = << >>
        BY <1>2, <2>1 DEF FreeEmpty
      <3>. QED BY <1>4, <2>1, <3>1
    <2>3. /\ Place(tail)' = Place(tail) + 1
          /\ \A x \in Index : Place(x)' = Place(x)
      BY <1>1, <2>1 DEF Place
    <2>4. Arranged /\ Arranged'
      BY <1>2, WaitingSeq, WaitingSeqNext
    <2>. DEFINE new == Append(rb[tail], g)
    <2>5. new \in Seq(Fragment)
      BY <1>2, <1>3, <1>4, Fragments, AppendProperties
    <2>. HIDE DEF new
    <2>6. /\ Append(Waiting, new) \in Seq(Seq(Fragment))
          /\ Len(Append(Waiting, new)) = Place(tail) + 1
          /\ \A i \in 1 .. Place(tail) : Append(Waiting, new)[i] = Waiting[i]
          /\ Append(Waiting, new)[Place(tail) + 1] = new
      <3>1. Waiting \in Seq(Seq(Fragment)) /\ Len(Waiting) = Place(tail)
        BY <2>4 DEF Arranged
      <3>. QED BY <2>5, <3>1, AppendProperties
    <2>7. Waiting' \in Seq(Seq(Fragment)) /\ Len(Waiting') = Place(tail) + 1
      BY <2>3, <2>4 DEF Arranged
    <2>8. ASSUME NEW i \in 1 .. Place(tail) + 1
          PROVE  Waiting'[i] = Append(Waiting, new)[i]
      <3>1. PICK x \in Index : Place(x) = i - 1 /\ Waiting'[i] = rb'[x]
        BY <2>3, <2>4, <2>8 DEF Arranged
      <3>2. CASE x = tail
        <4>1. i = Place(tail) + 1
          BY <2>1, <3>1, <3>2
        <4>. QED BY <1>4, <2>6, <3>1, <3>2, <4>1 DEF new
      <3>3. CASE x # tail
        <4>1. Place(x) # Place(tail)
          BY <1>2, <1>4, <3>3, Places
        <4>2. i \in 1 .. Place(tail) /\ Place(x) < Place(tail) /\ Place(x) + 1 = i
          BY <2>1, <3>1, <4>1
        <4>3. Waiting[i] = rb[x]
          BY <1>2, <4>2, WaitingAt
        <4>. QED BY <1>4, <2>6, <3>1, <3>3, <4>2, <4>3
      <3>. QED BY <3>2, <3>3
    <2>9. Waiting' = Append(Waiting, new)
      BY <2>6, <2>7, <2>8, SeqEqual
    <2>10. Waiting \in Seq(Seq(Fragment)) /\ Waiting' # << >>
      BY <2>1, <2>4, <2>7, EmptySeq DEF Arranged
    <2>11. Unread' = Append(Unread, new)
      <3>1. CASE stage = "none"
        BY <1>1, <2>9, <3>1 DEF Unread
      <3>2. CASE stage # "none"
        <4>1. Waiting # << >>
          BY <1>2, <3>2, SomeWaiting DEF Stages
        <4>2. Tail(Append(Waiting, new)) = Append(Tail(Waiting), new)
          BY <2>5, <2>10, <4>1, TailAppend
        <4>. QED BY <1>1, <2>9, <2>10, <3>2, <4>1, <4>2 DEF Unread
      <3>. QED BY <3>1, <3>2
    <2>12. Queue!Complete(g)
      BY <1>1, <2>2, <2>11 DEF Queue!Complete, new
    <2>. QED BY <1>3, <2>12 DEF Queue!Next
  <1>. QED BY <1>5, <1>6

\* A fragment is lost: the new message is given up or stays as it is.
LEMMA LossRefines ==
  ASSUME IInv, TypeOK', ~broken, NEW end \in BOOLEAN, rbuf_append(end),
         Append_full(end) \/ Append_nomem(end) \/ Append_noslot(end)
  PROVE  Queue!Next \/ UNCHANGED <<Unread, rb[tail], broken>>
  <1>1. /\ UNCHANGED <<head, tail, stage, broken>>
        /\ rb' = [rb EXCEPT ![tail] = << >>] \/ rb' = rb
    BY DEF rbuf_append, Append_full, Append_nomem, Append_noslot
  <1>2. TypeOK /\ tail \in Index
    BY DEF IInv, TypeOK
  <1>3. Unread' = Unread
    <2>1. \A x \in Index : x # tail => rb'[x] = rb[x]
      BY <1>1, <1>2 DEF TypeOK
    <2>. QED BY <1>1, <1>2, <2>1, SameWaiting, SameUnread
  <1>4. CASE rb' = rb
    BY <1>1, <1>3, <1>4
  <1>5. CASE rb' = [rb EXCEPT ![tail] = << >>]
    <2>1. rb[tail]' = << >>
      BY <1>1, <1>2, <1>5 DEF TypeOK
    <2>. QED BY <1>1, <1>3, <2>1 DEF Queue!Next, Queue!Give_up
  <1>. QED BY <1>1, <1>4, <1>5

\* The slot at head is emptied while something waits.
LEMMA EmptiesOldest ==
  ASSUME TypeOK, TypeOK', UNCHANGED <<head, tail>>, head # tail,
         rb' = [rb EXCEPT ![head] = << >>]
  PROVE  /\ rb[tail]' = rb[tail] /\ Waiting # << >> /\ Waiting' # << >>
         /\ Waiting' = <<(<< >>)>> \o Tail(Waiting)
         /\ Tail(Waiting') = Tail(Waiting)
  <1>0. TypeOK /\ tail \in Index /\ head \in Index
    BY DEF TypeOK
  <1>1. /\ rb[tail]' = rb[tail] /\ rb'[head] = << >>
        /\ \A x \in Index : x # head => rb'[x] = rb[x]
    BY <1>0 DEF TypeOK
  <1>2. Place(tail)' = Place(tail) /\ \A x \in Index : Place(x)' = Place(x)
    BY <1>0 DEF Place
  <1>3. /\ Place(head) = 0 /\ Place(tail) \in Nat /\ Place(tail) # 0
        /\ \A x \in Index : Place(x) = 0 => x = head
    BY <1>0, Places
  <1>4. Arranged /\ Arranged'
    BY <1>0, WaitingSeq, WaitingSeqNext
  <1>. DEFINE emptied == <<(<< >>)>> \o Tail(Waiting)
  <1>5. /\ Waiting \in Seq(Seq(Fragment)) /\ Len(Waiting) = Place(tail)
        /\ Waiting # << >>
        /\ Waiting' \in Seq(Seq(Fragment)) /\ Len(Waiting') = Place(tail)
    BY <1>2, <1>3, <1>4, EmptySeq DEF Arranged
  <1>6. /\ Tail(Waiting) \in Seq(Seq(Fragment)) /\ Len(Tail(Waiting)) = Place(tail) - 1
        /\ \A i \in 1 .. Place(tail) - 1 : Tail(Waiting)[i] = Waiting[i + 1]
    BY <1>5, HeadTailProperties
  <1>7. /\ <<(<< >>)>> \in Seq(Seq(Fragment)) /\ Len(<<(<< >>)>>) = 1
        /\ <<(<< >>)>>[1] = << >>
    BY EmptySeq
  <1>8. /\ emptied \in Seq(Seq(Fragment)) /\ Len(emptied) = Place(tail)
        /\ \A i \in 1 .. Place(tail) :
              emptied[i] = IF i <= 1 THEN << >> ELSE Tail(Waiting)[i - 1]
    <2>1. /\ emptied \in Seq(Seq(Fragment))
          /\ Len(emptied) = 1 + Len(Tail(Waiting))
          /\ \A i \in 1 .. 1 + Len(Tail(Waiting)) :
                emptied[i] = IF i <= 1 THEN <<(<< >>)>>[i] ELSE Tail(Waiting)[i - 1]
      <3>. HIDE DEF emptied
      <3>1. emptied = <<(<< >>)>> \o Tail(Waiting)
        BY DEF emptied
      <3>. QED BY <1>6, <1>7, <3>1, ConcatProperties
    <2>. HIDE DEF emptied
    <2>2. 1 + Len(Tail(Waiting)) = Place(tail)
      BY <1>3, <1>6
    <2>3. \A i \in 1 .. Place(tail) : i <= 1 => i = 1
      BY <1>3
    <2>. QED BY <1>7, <2>1, <2>2, <2>3
  <1>. HIDE DEF emptied
  <1>9. ASSUME NEW i \in 1 .. Place(tail) PROVE Waiting'[i] = emptied[i]
    <2>1. PICK x \in Index : Place(x) = i - 1 /\ Waiting'[i] = rb'[x]
      BY <1>2, <1>4, <1>9 DEF Arranged
    <2>2. CASE x = head
      BY <1>1, <1>3, <1>8, <2>1, <2>2
    <2>3. CASE x # head
      <3>1. i > 1 /\ Place(x) < Place(tail) /\ Place(x) + 1 = i
        BY <1>3, <2>1, <2>3
      <3>2. Waiting[i] = rb[x]
        BY <1>0, <3>1, WaitingAt
      <3>3. Tail(Waiting)[i - 1] = Waiting[i]
        <4>1. i - 1 \in 1 .. Place(tail) - 1 /\ (i - 1) + 1 = i
          BY <1>3, <3>1
        <4>. QED BY <1>6, <4>1
      <3>4. emptied[i] = Tail(Waiting)[i - 1]
        <4>1. ~(i <= 1)
          BY <1>3, <3>1
        <4>. QED BY <1>8, <4>1, Zenon
      <3>. QED BY <1>1, <2>1, <2>3, <3>2, <3>3, <3>4
    <2>. QED BY <2>2, <2>3
  <1>10. Waiting' = emptied
    BY <1>5, <1>8, <1>9, SeqEqual
  <1>11. Waiting' # << >>
    BY <1>3, <1>5, EmptySeq
  <1>12. Tail(Waiting') = Tail(Waiting)
    <2>1. /\ Tail(Waiting') \in Seq(Seq(Fragment)) /\ Len(Tail(Waiting')) = Place(tail) - 1
          /\ \A i \in 1 .. Place(tail) - 1 : Tail(Waiting')[i] = Waiting'[i + 1]
      BY <1>5, <1>11, HeadTailProperties
    <2>2. ASSUME NEW i \in 1 .. Place(tail) - 1 PROVE Tail(Waiting')[i] = Tail(Waiting)[i]
      <3>1. i + 1 \in 1 .. Place(tail) /\ ~(i + 1 <= 1) /\ (i + 1) - 1 = i
        BY <1>3
      <3>2. emptied[i + 1] = Tail(Waiting)[i]
        BY <1>8, <3>1
      <3>. QED BY <1>10, <2>1, <2>2, <3>2
    <2>. QED BY <1>6, <2>1, <2>2, SeqEqual
  <1>. QED BY <1>1, <1>5, <1>10, <1>11, <1>12 DEF emptied

\* Reception fails: the new message is given up when it is the only one, else
\* the oldest one is emptied, unless a reader has copied it already.
LEMMA AbortRefines ==
  ASSUME IInv, TypeOK', ~broken, ~broken', rbuf_abort_new
  PROVE  Queue!Next \/ UNCHANGED <<Unread, rb[tail], broken>>
  <1>1. /\ UNCHANGED <<head, tail, stage>>
        /\ rb' = [rb EXCEPT ![head] = << >>] \/ rb' = rb
    BY DEF rbuf_abort_new
  <1>2. TypeOK /\ tail \in Index /\ head \in Index /\ Stages /\ broken' = broken
    BY DEF IInv, TypeOK
  <1>3. CASE rb' = rb
    <2>1. Unread' = Unread
      BY <1>1, <1>2, <1>3, SameWaiting, SameUnread
    <2>. QED BY <1>1, <1>2, <1>3, <2>1
  <1>4. CASE rb' = [rb EXCEPT ![head] = << >>] /\ head = tail
    <2>1. rb[tail]' = << >> /\ \A x \in Index : x # tail => rb'[x] = rb[x]
      BY <1>1, <1>2, <1>4 DEF TypeOK
    <2>2. Unread' = Unread
      BY <1>1, <1>2, <2>1, SameWaiting, SameUnread
    <2>. QED BY <1>2, <2>1, <2>2 DEF Queue!Next, Queue!Give_up
  <1>5. CASE rb' = [rb EXCEPT ![head] = << >>] /\ head # tail
    <2>1. /\ rb[tail]' = rb[tail] /\ Waiting # << >> /\ Waiting' # << >>
          /\ Waiting' = <<(<< >>)>> \o Tail(Waiting) /\ Tail(Waiting') = Tail(Waiting)
      BY <1>1, <1>2, <1>5, EmptiesOldest
    <2>2. CASE stage = "none"
      <3>1. Unread = Waiting /\ Unread' = Waiting'
        BY <1>1, <2>2 DEF Unread
      <3>2. Queue!Empty
        BY <1>2, <2>1, <3>1 DEF Queue!Empty
      <3>. QED BY <3>2 DEF Queue!Next
    <2>3. CASE stage # "none"
      <3>1. Unread = Tail(Waiting) /\ Unread' = Tail(Waiting')
        BY <1>1, <2>1, <2>3 DEF Unread
      <3>. QED BY <1>2, <2>1, <3>1
    <2>. QED BY <2>2, <2>3
  <1>. QED BY <1>1, <1>3, <1>4, <1>5

\* A message is copied: it is the oldest one, and taken.
LEMMA CopyRefines ==
  ASSUME IInv, TypeOK', ~broken, NEW p \in Reader, Copy(p)
  PROVE  Queue!Next
  <1>1. TypeOK /\ OneReader
    BY DEF IInv
  <1>2. /\ head # tail /\ UNCHANGED <<rb, head, tail, broken>>
        /\ stage = "none" /\ stage' = "copied"
    BY <1>1 DEF Copy, OneReader
  <1>3. Waiting # << >> /\ Waiting' = Waiting
    BY <1>1, <1>2, SomeWaiting, SameWaiting
  <1>4. Unread = Waiting /\ Unread' = Tail(Waiting)
    BY <1>2, <1>3 DEF Unread
  <1>5. Queue!Take
    BY <1>2, <1>3, <1>4 DEF Queue!Take
  <1>. QED BY <1>5 DEF Queue!Next

\* Its fragments are freed: it was taken before.
LEMMA FreeRefines ==
  ASSUME IInv, TypeOK', ~broken, Free
  PROVE  UNCHANGED <<Unread, rb[tail], broken>>
  <1>1. TypeOK /\ Stages
    BY DEF IInv
  <1>2. /\ head # tail /\ UNCHANGED <<head, tail, broken>>
        /\ rb' = [rb EXCEPT ![head] = << >>] /\ stage = "copied" /\ stage' = "freed"
    BY <1>1 DEF Free, Stages
  <1>3. /\ rb[tail]' = rb[tail] /\ Waiting # << >> /\ Waiting' # << >>
        /\ Tail(Waiting') = Tail(Waiting)
    BY <1>1, <1>2, EmptiesOldest
  <1>4. Unread = Tail(Waiting) /\ Unread' = Tail(Waiting')
    BY <1>2, <1>3 DEF Unread
  <1>. QED BY <1>2, <1>3, <1>4

\* Its place is given back.
LEMMA MoveRefines ==
  ASSUME IInv, TypeOK', ~broken, Move
  PROVE  UNCHANGED <<Unread, rb[tail], broken>>
  <1>1. TypeOK /\ Stages
    BY DEF IInv
  <1>2. PICK h \in Index : h = head
    BY <1>1 DEF TypeOK
  <1>3. /\ h # tail /\ tail \in Index /\ head' = inc_index(head)
        /\ UNCHANGED <<rb, tail, broken>> /\ stage = "freed" /\ stage' = "none"
    BY <1>1, <1>2 DEF Move, Stages, TypeOK
  <1>5. /\ \A x \in Index : x # h => Place(x)' = Place(x) - 1
        /\ \A x \in Index : x = h => Place(x)' = RING_SIZE - 1
        /\ \A x \in Index : Place(x) \in 0 .. RING_SIZE - 1
        /\ Place(tail) # 0
    <2>1. Place(h) = 0 /\ \A x \in Index : Place(x) = Place(h) => x = h
      BY <1>1, <1>2, Places
    <2>2. \A x \in Index : Place(x) \in 0 .. RING_SIZE - 1
      BY <1>1, Places
    <2>3. /\ \A x \in Index : x # h => Place(x)' = Place(x) - 1
          /\ \A x \in Index : x = h => Place(x)' = RING_SIZE - 1
      BY <1>1, <1>2, <1>3, HeadMoves
    <2>. QED BY <1>3, <2>1, <2>2, <2>3
  <1>6. Place(tail)' = Place(tail) - 1
    <2>1. PICK t \in Index : t = tail
      BY <1>3
    <2>2. Place(t)' = Place(t) - 1
      BY <1>3, <1>5, <2>1
    <2>. QED BY <1>3, <2>1, <2>2 DEF Place
  <1>7. Arranged /\ Arranged'
    BY <1>1, WaitingSeq, WaitingSeqNext
  <1>8. /\ Waiting \in Seq(Seq(Fragment)) /\ Len(Waiting) = Place(tail)
        /\ Waiting # << >>
        /\ Waiting' \in Seq(Seq(Fragment)) /\ Len(Waiting') = Place(tail) - 1
    BY <1>5, <1>6, <1>7, EmptySeq DEF Arranged
  <1>9. /\ Tail(Waiting) \in Seq(Seq(Fragment)) /\ Len(Tail(Waiting)) = Place(tail) - 1
        /\ \A i \in 1 .. Place(tail) - 1 : Tail(Waiting)[i] = Waiting[i + 1]
    BY <1>8, HeadTailProperties
  <1>10. ASSUME NEW i \in 1 .. Place(tail) - 1 PROVE Waiting'[i] = Tail(Waiting)[i]
    <2>1. PICK x \in Index : Place(x)' = i - 1 /\ Waiting'[i] = rb'[x]
      BY <1>6, <1>7, <1>10 DEF Arranged
    <2>2. x # h
      BY <1>3, <1>5, <2>1, SizeAssumption
    <2>3. Place(x) < Place(tail) /\ Place(x) + 1 = i + 1
      BY <1>3, <1>5, <2>1, <2>2
    <2>4. Waiting[i + 1] = rb[x]
      BY <1>1, <2>3, WaitingAt
    <2>. QED BY <1>3, <1>9, <2>1, <2>4
  <1>11. Waiting' = Tail(Waiting)
    BY <1>8, <1>9, <1>10, SeqEqual
  <1>12. Unread = Tail(Waiting) /\ Unread' = Waiting'
    BY <1>3, <1>8 DEF Unread
  <1>. QED BY <1>3, <1>11, <1>12

\* As long as no two readers have been in rbuf_get_cur at once and no interrupt
\* has freed the fragments that a reader was freeing, the ring is a queue of
\* messages with one message being put together: nothing overtakes, comes
\* twice or is taken from the middle (eoc_ring.c 10-125).
THEOREM IsQueue == Spec => ImplementsQueue
  <1>1. Init => Queue!Init
    <2>. SUFFICES ASSUME Init PROVE Queue!Init
      OBVIOUS
    <2>1. TypeOK
      BY InitHolds DEF IInv
    <2>2. rb[tail] = << >> /\ broken = FALSE
      BY SizeAssumption DEF Init, Index
    <2>3. Arranged /\ Place(tail) = 0
      BY <2>1, WaitingSeq DEF Init, Place
    <2>4. Waiting = << >>
      BY <2>3, EmptySeq DEF Arranged
    <2>5. Unread = << >>
      BY <2>4 DEF Unread
    <2>. QED BY <2>2, <2>5 DEF Queue!Init
  <1>2. IInv /\ [Next]_vars => [Queue!Next]_<<Unread, rb[tail], broken>>
    <2>. SUFFICES ASSUME IInv, [Next]_vars
                  PROVE  Queue!Next \/ UNCHANGED <<Unread, rb[tail], broken>>
      OBVIOUS
    <2>1. TypeOK /\ TypeOK'
      BY TypeKeeps DEF IInv
    <2>2. CASE broken'
      <3>1. broken' = TRUE
        BY <2>1, <2>2 DEF TypeOK
      <3>. QED BY <3>1 DEF Queue!Next, Queue!Break
    <2>3. CASE UNCHANGED <<rb, head, tail, stage, broken>>
      <3>1. Unread' = Unread
        BY <2>1, <2>3, SameWaiting, SameUnread
      <3>. QED BY <2>3, <3>1
    <2>4. CASE ~broken' /\ \E end \in BOOLEAN : rbuf_append(end)
      <3>1. PICK end \in BOOLEAN : rbuf_append(end)
        BY <2>4
      <3>2. ~broken
        BY <2>4, <3>1 DEF rbuf_append
      <3>3. CASE Append_ok(end)
        BY <2>1, <3>1, <3>2, <3>3, AppendRefines
      <3>4. CASE Append_full(end) \/ Append_nomem(end) \/ Append_noslot(end)
        BY <2>1, <3>1, <3>2, <3>4, LossRefines
      <3>. QED BY <3>1, <3>3, <3>4 DEF rbuf_append
    <2>5. CASE ~broken' /\ rbuf_abort_new
      <3>1. ~broken
        BY <2>5 DEF rbuf_abort_new
      <3>. QED BY <2>1, <2>5, <3>1, AbortRefines
    <2>6. CASE ~broken' /\ \E p \in Reader : GetCur(p) \/ NoMemory(p) \/ Copy(p)
      <3>1. PICK p \in Reader : GetCur(p) \/ NoMemory(p) \/ Copy(p)
        BY <2>6
      <3>2. CASE GetCur(p) \/ NoMemory(p)
        <4>1. UNCHANGED <<rb, head, tail, stage>>
          BY <3>2 DEF GetCur, NoMemory
        <4>2. broken = FALSE /\ broken' = FALSE
          <5>1. broken' = (broken \/ \E q \in Reader : cur[q] # None) \/ broken' = broken
            BY <3>2 DEF GetCur, NoMemory
          <5>. QED BY <2>1, <2>6, <5>1 DEF TypeOK
        <4>. QED BY <2>3, <4>1, <4>2
      <3>3. CASE Copy(p)
        <4>1. ~broken
          BY <2>6, <3>3 DEF Copy
        <4>. QED BY <2>1, <3>3, <4>1, CopyRefines
      <3>. QED BY <3>1, <3>2, <3>3
    <2>7. CASE ~broken' /\ (Free \/ Move)
      <3>1. ~broken
        BY <2>7 DEF Free, Move
      <3>. QED BY <2>1, <2>7, <3>1, FreeRefines, MoveRefines
    <2>8. CASE UNCHANGED vars
      BY <2>3, <2>8 DEF vars
    <2>. QED BY <2>2, <2>4, <2>5, <2>6, <2>7, <2>8 DEF Next
  <1>. QED BY <1>1, <1>2, Inductive, PTL DEF Spec, ImplementsQueue, Queue!Spec

=============================================================================
