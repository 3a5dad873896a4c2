------------------------------- MODULE EocRing -------------------------------
(***************************************************************************)
(* The ring in which the mr17h driver keeps the messages of the embedded   *)
(* operations channel (eoc_ring.c): the interrupt handler appends the      *)
(* fragments that the chip notifies (sdfe4_eoc_init), processes read whole *)
(* messages from sysfs (show_eoc).  Nothing but the order of their steps   *)
(* protects the ring.                                                      *)
(*                                                                         *)
(* A reader may sleep in kmalloc, after it has looked at the ring and      *)
(* before it copies: there the interrupt and other readers come in.  From  *)
(* the copy to its end it keeps the processor, and only the interrupt      *)
(* comes in.                                                               *)
(***************************************************************************)
EXTENDS Integers, Sequences

CONSTANTS
    RING_SIZE, MAX_SBUFS,
    Reader,         \* processes that read the sysfs file "eoc"
    MaxMsgs,        \* bound: messages the chip receives
    MaxFrags        \* bound: fragments of one message

ASSUME SizeAssumption ==
    /\ RING_SIZE \in Nat \ {0, 1} /\ MAX_SBUFS \in Nat \ {0}
    /\ MaxMsgs \in Nat \ {0} /\ MaxFrags \in Nat \ {0}

Index == 0 .. RING_SIZE - 1
Msg == 1 .. MaxMsgs
Fragment == [msg : Msg, k : 1 .. MaxFrags, last : BOOLEAN]
None == -1

VARIABLES
    rb, head, tail,
    cur,            \* the slot each reader waits to copy, or None
    stage,          \* how far the reader on the processor is behind its copy
    \* The chip: the number of the message it receives, and of its fragment.
    msg, k,
    \* What has happened; these are read by no action of the driver.
    hurt,           \* messages that a fault has hit
    out,            \* messages a reader has got, whole
    broken          \* have two readers been in rbuf_get_cur at once, or
                    \* fragments been freed twice?

vars == <<rb, head, tail, cur, stage, msg, k, hurt, out, broken>>

TypeOK ==
    /\ rb \in [Index -> Seq(Fragment)]
    /\ \A i \in Index : Len(rb[i]) <= MAX_SBUFS
    /\ head \in Index /\ tail \in Index
    /\ cur \in [Reader -> Index \cup {None}]
    /\ stage \in {"none", "copied", "freed"}
    /\ msg \in 1 .. MaxMsgs + 1 /\ k \in 1 .. MaxFrags
    /\ hurt \subseteq 1 .. MaxMsgs + 1 /\ out \subseteq Msg
    /\ broken \in BOOLEAN

\* rbuf_init.
Init ==
    /\ rb = [i \in Index |-> << >>]
    /\ head = 0 /\ tail = 0
    /\ cur = [p \in Reader |-> None] /\ stage = "none"
    /\ msg = 1 /\ k = 1
    /\ hurt = {} /\ out = {} /\ broken = FALSE

inc_index(ind) == IF ind + 1 < RING_SIZE THEN ind + 1 ELSE 0

Full == inc_index(tail) = head

\* The messages of which s has a fragment.
Msgs(s) == {s[i].msg : i \in DOMAIN s}

\* Is s one message, from its first fragment to its last?
Whole(s) ==
    /\ s # << >>
    /\ \A i \in DOMAIN s :
          s[i] = [msg |-> s[1].msg, k |-> i, last |-> i = Len(s)]

-----------------------------------------------------------------------------
(* The interrupt handler.  It runs with the readers standing still.        *)

\* The chip goes on to the next fragment, or to the next message.
ChipGoesOn(end) ==
    /\ msg' = IF end THEN msg + 1 ELSE msg
    /\ k' = IF end THEN 1 ELSE k + 1

\* What is left at tail when a message ends without its last fragment will
\* be the beginning of the next one.
Spoilt(end, left) == {msg} \cup (IF end /\ left # << >> THEN {msg + 1} ELSE {})

\* Mutant of Append_ok: MAX_SBUFS is tested one too late.
Append_onemore(end) ==
    /\ ~Full /\ Len(rb[tail]) <= MAX_SBUFS
    /\ rb' = [rb EXCEPT ![tail] = Append(@, [msg |-> msg, k |-> k, last |-> end])]
    /\ tail' = IF end THEN inc_index(tail) ELSE tail
    /\ UNCHANGED hurt

\* rbuf_append of a fragment for which there is room and memory.
Append_ok(end) ==
    /\ ~Full /\ Len(rb[tail]) < MAX_SBUFS
    /\ rb' = [rb EXCEPT ![tail] = Append(@, [msg |-> msg, k |-> k, last |-> end])]
    /\ tail' = IF end THEN inc_index(tail) ELSE tail
    /\ UNCHANGED hurt

\* rbuf_append of one fragment too many: all of them are freed.
Append_full(end) ==
    /\ ~Full /\ Len(rb[tail]) = MAX_SBUFS
    /\ rb' = [rb EXCEPT ![tail] = << >>]
    /\ hurt' = hurt \cup {msg} \cup Msgs(rb[tail])
    /\ UNCHANGED tail

\* rbuf_append without memory.
Append_nomem(end) ==
    /\ ~Full /\ Len(rb[tail]) < MAX_SBUFS
    /\ hurt' = hurt \cup Spoilt(end, rb[tail])
    /\ UNCHANGED <<rb, tail>>

\* Mutant of Append_noslot: the last slot is given away too.
Append_noslot_wraps(end) ==
    /\ Full
    /\ rb' = [rb EXCEPT ![tail] = Append(@, [msg |-> msg, k |-> k, last |-> end])]
    /\ tail' = IF end THEN inc_index(tail) ELSE tail
    /\ UNCHANGED hurt

\* rbuf_append to a full ring.
Append_noslot(end) ==
    /\ Full
    /\ hurt' = hurt \cup Spoilt(end, rb[tail])
    /\ UNCHANGED <<rb, tail>>

\* A notification NFC_EOC_RX with a fragment.
rbuf_append(end) ==
    /\ msg \in Msg
    /\ k < MaxFrags \/ end
    /\ Append_ok(end) \/ Append_full(end) \/ Append_nomem(end) \/ Append_noslot(end)
    /\ ChipGoesOn(end)
    /\ UNCHANGED <<head, cur, stage, out, broken>>

\* A notification NFC_EOC_RX that reception has failed.  The slot at head is
\* emptied, and that is the new message only if there is no other.  If the
\* interrupt comes inside the loop in which a reader frees the same slot, some
\* fragments are freed twice.
rbuf_abort_new ==
    /\ msg \in Msg
    /\ IF Full THEN hurt' = hurt \cup Spoilt(TRUE, rb[tail]) /\ UNCHANGED <<rb, broken>>
       ELSE /\ rb' = [rb EXCEPT ![head] = << >>]
            /\ hurt' = hurt \cup Msgs(rb[head]) \cup Spoilt(TRUE, rb'[tail])
            /\ \/ UNCHANGED broken
               \/ stage = "copied" /\ rb[head] # << >> /\ broken' = TRUE
    /\ ChipGoesOn(TRUE)
    /\ UNCHANGED <<head, tail, cur, stage, out>>

-----------------------------------------------------------------------------
(* rbuf_get_cur in the process p.                                          *)

\* There is a message: its size is counted and kmalloc called.
GetCur(p) ==
    /\ stage = "none"
    /\ cur[p] = None
    /\ head # tail
    /\ cur' = [cur EXCEPT ![p] = head]
    /\ broken' = (broken \/ \E q \in Reader : cur[q] # None)
    /\ UNCHANGED <<rb, head, tail, stage, msg, k, hurt, out>>

NoMemory(p) ==
    /\ stage = "none"
    /\ cur[p] # None
    /\ cur' = [cur EXCEPT ![p] = None]
    /\ UNCHANGED <<rb, head, tail, stage, msg, k, hurt, out, broken>>

\* The message is copied from the slot looked at.  An interrupt inside the
\* copy counts as one before it: a message that it empties is not read whole.
Copy(p) ==
    /\ stage = "none"
    /\ cur[p] # None
    /\ out' = IF Whole(rb[cur[p]]) THEN out \cup Msgs(rb[cur[p]]) ELSE out
    /\ cur' = [cur EXCEPT ![p] = None]
    /\ stage' = "copied"
    /\ UNCHANGED <<rb, head, tail, msg, k, hurt, broken>>

\* Mutant of Free: the fragments are kept.
FreeNothing ==
    /\ stage = "copied"
    /\ stage' = "freed"
    /\ UNCHANGED <<rb, head, tail, cur, msg, k, hurt, out, broken>>

\* Mutant of Free: as if the index was moved before.
FreeNext ==
    /\ stage = "copied"
    /\ rb' = [rb EXCEPT ![inc_index(head)] = << >>]
    /\ stage' = "freed"
    /\ UNCHANGED <<head, tail, cur, msg, k, hurt, out, broken>>

\* The slot that is freed is the one at head now.
Free ==
    /\ stage = "copied"
    /\ rb' = [rb EXCEPT ![head] = << >>]
    /\ stage' = "freed"
    /\ UNCHANGED <<head, tail, cur, msg, k, hurt, out, broken>>

Move ==
    /\ stage = "freed"
    /\ head' = inc_index(head)
    /\ stage' = "none"
    /\ UNCHANGED <<rb, tail, cur, msg, k, hurt, out, broken>>

Next ==
    \/ \E end \in BOOLEAN : rbuf_append(end)
    \/ rbuf_abort_new
    \/ \E p \in Reader : GetCur(p) \/ NoMemory(p) \/ Copy(p)
    \/ Free \/ Move

Spec == Init /\ [][Next]_vars

-----------------------------------------------------------------------------
(* Properties.                                                             *)

Used == (tail - head + RING_SIZE) % RING_SIZE
Pos(i) == (head + i - 1) % RING_SIZE

\* The messages that wait for a reader, oldest first.
Waiting == [i \in 1 .. Used |-> rb[Pos(i)]]

\* A message of which no fragment was lost for want of room or memory, that
\* no failed reception emptied and that did not get the remains of an
\* unfinished one in front of it, is whole in the ring or has been read
\* whole, whatever happened to other messages (eoc_ring.c 71-125).
DamageConfined ==
    ~broken => \A m \in 1 .. msg - 1 :
        m \notin hurt =>
            \/ m \in out
            \/ \E i \in 1 .. Used : Whole(Waiting[i]) /\ Msgs(Waiting[i]) = {m}

\* Is f received before g?
Earlier(f, g) == f.msg < g.msg \/ (f.msg = g.msg /\ f.k < g.k)

\* What readers get never goes back: the fragments in the ring are in the
\* order of their reception, none is there twice, none belongs to a message
\* that has been read, except in the slot that its reader is about to free,
\* and no slot outside head .. tail keeps any (eoc_ring.c 71-125).
InOrder ==
    ~broken =>
        /\ \A i, j \in 1 .. Used + 1 :
              \A a \in DOMAIN rb[Pos(i)], b \in DOMAIN rb[Pos(j)] :
                  (i < j \/ (i = j /\ a < b)) =>
                      Earlier(rb[Pos(i)][a], rb[Pos(j)][b])
        /\ \A i \in 1 .. Used + 1 :
              (i = 1 /\ stage = "copied") \/ Msgs(rb[Pos(i)]) \cap out = {}
        /\ \A i \in Used + 2 .. RING_SIZE : rb[Pos(i)] = << >>

\* The messages that no reader has copied.
Unread == IF stage = "none" \/ Waiting = << >> THEN Waiting ELSE Tail(Waiting)

\* The ring is a queue of messages, and a message is taken from it when it is
\* copied (eoc_ring.c 10-125).
Queue == INSTANCE EocQueue WITH queue <- Unread, new <- rb[tail]

ImplementsQueue == Queue!Spec

=============================================================================
