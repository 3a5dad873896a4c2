------------------------------ MODULE EocQueue ------------------------------
(***************************************************************************)
(* What the EOC ring of the mr17h driver promises to its readers: a queue  *)
(* of messages and one message that is being put together.  Fragments may  *)
(* be lost and messages emptied, but nothing overtakes, comes twice or is  *)
(* taken from the middle.  Nothing is promised once two readers have       *)
(* been in rbuf_get_cur at the same time, or an interrupt has freed the    *)
(* fragments that a reader was freeing (broken).                           *)
(***************************************************************************)
EXTENDS Sequences

CONSTANT Fragment

VARIABLES queue, new, broken

Init == queue = << >> /\ new = << >> /\ broken = FALSE

Extend(f) == new' = Append(new, f) /\ UNCHANGED <<queue, broken>>

Complete(f) ==
    /\ queue' = Append(queue, Append(new, f))
    /\ new' = << >>
    /\ UNCHANGED broken

Give_up == new' = << >> /\ UNCHANGED <<queue, broken>>

\* The oldest message is emptied but keeps its place.
Empty ==
    /\ queue # << >>
    /\ queue' = <<(<< >>)>> \o Tail(queue)
    /\ UNCHANGED <<new, broken>>

Take == queue # << >> /\ queue' = Tail(queue) /\ UNCHANGED <<new, broken>>

\* From here on anything may happen.
Break == broken' = TRUE

Next ==
    \/ \E f \in Fragment : Extend(f) \/ Complete(f)
    \/ Give_up \/ Empty \/ Take \/ Break

Spec == Init /\ [][Next]_<<queue, new, broken>>

=============================================================================
