------------------------------- MODULE Sg17Sci -------------------------------
(***************************************************************************)
(* The control channel between the mr17h driver and its DSL chip           *)
(* (sg17sci.c, and sdfe4_pamdsl_cmd, _ack, _parse of sdfe4_lib.c).         *)
(* Processes send a command and sleep until the interrupt handler has      *)
(* received an answer or two seconds have passed; the handler acknowledges *)
(* every message of the chip through the same transmit buffer.             *)
(*                                                                         *)
(* The target kernel is uniprocessor and not preemptible: chip_lock is     *)
(* empty there, a process gives way to another one only while it sleeps,   *)
(* and the interrupt handler may run between any two of its steps.         *)
(***************************************************************************)
EXTENDS Integers, Sequences

CONSTANTS
    Proc,           \* processes that send commands
    Id,             \* acknowledge ids; the channel is not compared
    MaxCmds,        \* bound: commands sent
    MaxQueue        \* bound: messages the chip has ready

ASSUME BoundAssumption == MaxCmds \in Nat \ {0} /\ MaxQueue \in Nat \ {0}

\* Commands are numbered; 0 stands for an acknowledgement of the host, and
\* for no command.
Number == 0 .. MaxCmds

VARIABLES
    at,             \* where each process is in sdfe4_pamdsl_cmd
    req,            \* rmsg->ack_id of its command
    n,              \* the number of its command
    fits,           \* has it copied its own ack_id out of rx_msg?
    ncmd,           \* commands sent so far
    txen, rxen,     \* TXEN and RXEN of the register CRA
    tx,             \* whose are the first bytes of tx_buf, the others, TXLEN
    rx,             \* s->rx_msg
    chip,           \* messages the chip has for the host
    \* What has happened; these are read by no action of the driver.
    got,            \* the command whose answer the last command took
    dirty,          \* may another answer pass for its own?
    missed,         \* did its answer come before it slept?
    raced           \* has the handler used tx_buf under someone's hands?

host  == <<at, req, n, fits, ncmd>>
ghost == <<got, dirty, missed>>
vars == <<host, txen, rxen, tx, rx, chip, ghost, raced>>

Answer == [kind : {"ack"}, id : Id, n : Number]
Notification == [kind |-> "nfc"]
NoAnswer == [kind |-> "none", n |-> 0]

TypeOK ==
    /\ at \in [Proc -> {"idle", "fire", "sleep", "asleep", "woken", "copy"}]
    /\ req \in [Proc -> Id] /\ n \in [Proc -> Number] /\ ncmd \in Number
    /\ fits \in [Proc -> BOOLEAN]
    /\ txen \in BOOLEAN /\ rxen \in BOOLEAN
    /\ tx \in [first : Number, rest : Number, len : Number]
    /\ rx \in Answer \cup {NoAnswer}
    /\ chip \in Seq(Answer \cup {Notification}) /\ Len(chip) <= MaxQueue
    /\ got \in [Proc -> Number]
    /\ dirty \in [Proc -> BOOLEAN] /\ missed \in [Proc -> BOOLEAN]
    /\ raced \in BOOLEAN

Init ==
    /\ at = [p \in Proc |-> "idle"]
    /\ \E i \in Id : req = [p \in Proc |-> i]
    /\ n = [p \in Proc |-> 0] /\ ncmd = 0
    /\ fits = [p \in Proc |-> FALSE]
    /\ txen = FALSE /\ rxen = TRUE
    /\ tx = [first |-> 0, rest |-> 0, len |-> 0]
    /\ rx = NoAnswer
    /\ chip = << >>
    /\ got = [p \in Proc |-> 0]
    /\ dirty = [p \in Proc |-> FALSE] /\ missed = [p \in Proc |-> FALSE]
    /\ raced = FALSE

-----------------------------------------------------------------------------
(* A process.                                                              *)

\* No other process is on the processor.
Runs(p) == \A q \in Proc \ {p} : at[q] \notin {"fire", "sleep", "copy"}

Active(p) == at[p] # "idle"

\* May an answer with the id i be in rx_msg, on its way or still to be made,
\* without a command of p?
Outstanding(p, i) ==
    \/ \E k \in DOMAIN chip : chip[k].kind = "ack" /\ chip[k].id = i
    \/ \E q \in Proc \ {p} : Active(q) /\ req[q] = i
    \/ txen /\ tx.len # 0

\* Mutant of sg17_sci_xmit: TXEN is not looked at.
XmitAnyway(p, i) ==
    /\ at[p] = "idle" /\ Runs(p)
    /\ ncmd < MaxCmds
    /\ at' = [at EXCEPT ![p] = "fire"]
    /\ req' = [req EXCEPT ![p] = i]
    /\ ncmd' = ncmd + 1
    /\ n' = [n EXCEPT ![p] = ncmd']
    /\ tx' = [tx EXCEPT !.first = ncmd', !.rest = ncmd']
    /\ got' = [got EXCEPT ![p] = 0]
    /\ dirty' = [q \in Proc |->
                   IF q = p THEN Outstanding(p, i)
                   ELSE dirty[q] \/ (Active(q) /\ req[q] = i)]
    /\ UNCHANGED <<fits, txen, rxen, rx, chip, missed, raced>>

\* The beginning of sdfe4_pamdsl_cmd and of sg17_sci_xmit, up to the end of
\* the loop that fills tx_buf.  While TXEN is set the command fails at once.
\* An interrupt that is taken inside the loop counts as one after it.
sg17_sci_xmit(p, i) ==
    /\ at[p] = "idle" /\ Runs(p)
    /\ ncmd < MaxCmds
    /\ ~txen
    /\ at' = [at EXCEPT ![p] = "fire"]
    /\ req' = [req EXCEPT ![p] = i]
    /\ ncmd' = ncmd + 1
    /\ n' = [n EXCEPT ![p] = ncmd']
    /\ tx' = [tx EXCEPT !.first = ncmd', !.rest = ncmd']
    /\ got' = [got EXCEPT ![p] = 0]
    /\ dirty' = [q \in Proc |->
                   IF q = p THEN Outstanding(p, i)
                   ELSE dirty[q] \/ (Active(q) /\ req[q] = i)]
    /\ UNCHANGED <<fits, txen, rxen, rx, chip, missed, raced>>

\* The end of sg17_sci_xmit: TXLEN and TXEN.
Fire(p) ==
    /\ at[p] = "fire"
    /\ at' = [at EXCEPT ![p] = "sleep"]
    /\ tx' = [tx EXCEPT !.len = n[p]]
    /\ txen' = TRUE
    /\ UNCHANGED <<req, n, fits, ncmd, rxen, rx, chip, ghost, raced>>

\* interruptible_sleep_on_timeout enters the wait queue.
Sleep(p) ==
    /\ at[p] = "sleep"
    /\ at' = [at EXCEPT ![p] = "asleep"]
    /\ UNCHANGED <<req, n, fits, ncmd, txen, rxen, tx, rx, chip, ghost, raced>>

\* Is an answer to another command in rx_msg that has the id of p's?
StaleAnswer(p) == rx.kind = "ack" /\ rx.id = req[p] /\ rx.n # n[p]

\* The wait has ended without an answer, and the command goes on as if there
\* was one.
GoesOn(p) ==
    /\ at[p] = "asleep"
    /\ at' = [at EXCEPT ![p] = "woken"]
    /\ dirty' = [dirty EXCEPT ![p] = @ \/ StaleAnswer(p)]

\* Mutant of Timeout: the wait has no limit.
NoTimeout(p) == FALSE /\ UNCHANGED vars

\* The two seconds are over, perhaps because the process did not run soon
\* enough after an answer.  The command fails; but while the receiver is off,
\* or has just got a frame that the handler has not seen, it goes on.
Timeout(p) ==
    /\ Runs(p)
    /\ \/ /\ at[p] \in {"asleep", "woken"} /\ rxen
          /\ at' = [at EXCEPT ![p] = "idle"]
          /\ missed' = [missed EXCEPT ![p] = FALSE]
          /\ dirty' = [dirty EXCEPT ![p] = FALSE]
       \/ (~rxen \/ chip # << >>) /\ GoesOn(p) /\ UNCHANGED missed
    /\ UNCHANGED <<req, n, fits, ncmd, txen, rxen, tx, rx, chip, got, raced>>

\* A signal ends the wait before its time, like an answer.
Signal(p) ==
    /\ GoesOn(p)
    /\ UNCHANGED <<req, n, fits, ncmd, txen, rxen, tx, rx, chip, got, missed, raced>>

\* Mutant of RecvHead: the id is not compared.
RecvAny(p) ==
    /\ at[p] = "woken" /\ Runs(p)
    /\ at' = [at EXCEPT ![p] = "copy"]
    /\ fits' = [fits EXCEPT ![p] = rx.kind = "ack"]
    /\ UNCHANGED <<req, n, ncmd, txen, rxen, tx, rx, chip, ghost, raced>>

\* sg17_sci_recv copies rx_msg byte by byte with interrupts enabled: first the
\* bytes up to the id ...
RecvHead(p) ==
    /\ at[p] = "woken" /\ Runs(p)
    /\ at' = [at EXCEPT ![p] = "copy"]
    /\ fits' = [fits EXCEPT ![p] = rx.kind = "ack" /\ rx.id = req[p]]
    /\ UNCHANGED <<req, n, ncmd, txen, rxen, tx, rx, chip, ghost, raced>>

\* ... then the others, and the end of sdfe4_pamdsl_cmd: success if the id
\* fits.
RecvRest(p) ==
    /\ at[p] = "copy"
    /\ at' = [at EXCEPT ![p] = "idle"]
    /\ got' = [got EXCEPT ![p] = IF fits[p] THEN rx.n ELSE 0]
    /\ fits' = [fits EXCEPT ![p] = FALSE]
    /\ missed' = [missed EXCEPT ![p] = FALSE]
    /\ UNCHANGED <<req, n, ncmd, txen, rxen, tx, rx, chip, dirty, raced>>

-----------------------------------------------------------------------------
(* The chip and the interrupt handler.                                     *)

WholeFrame == tx.first = tx.len /\ (tx.len # 0 => tx.rest = tx.len)

\* Can the chip send a message?  While the receiver is off it is lost.
ChipSends == rxen /\ Len(chip) < MaxQueue

\* The frame in tx_buf goes out.  The chip answers a command now or never; it
\* cannot read a frame that is mixed from two.
HwSend ==
    /\ txen
    /\ txen' = FALSE
    /\ \/ /\ WholeFrame /\ tx.len # 0
          /\ ChipSends
          /\ \E p \in Proc :
                /\ n[p] = tx.len
                /\ chip' = Append(chip, [kind |-> "ack", id |-> req[p], n |-> n[p]])
       \/ UNCHANGED chip
    /\ UNCHANGED <<host, rxen, tx, rx, ghost, raced>>

Notify ==
    /\ ChipSends
    /\ chip' = Append(chip, Notification)
    /\ UNCHANGED <<host, txen, rxen, tx, rx, ghost, raced>>

\* sdfe4_pamdsl_ack in the handler.  While TXEN is set it fails, and the chip
\* may send its message again.
Acknowledge ==
    \/ /\ ~txen
       /\ tx' = [tx EXCEPT !.first = 0, !.len = 0]
       /\ txen' = TRUE
       /\ raced' = (raced \/ \E p \in Proc : at[p] = "fire")
       /\ chip' = Tail(chip)
    \/ /\ txen
       /\ chip' \in {chip, Tail(chip)}
       /\ UNCHANGED <<tx, txen, raced>>

\* Mutant of WakeUp: the queue of the EOC writers is woken instead.
WakeOthers == UNCHANGED at

\* wake_up of everyone on wait_q.
WakeUp == at' = [p \in Proc |-> IF at[p] = "asleep" THEN "woken" ELSE at[p]]

\* sg17_sci_intr with an answer.  A process may be copying the one before.
IntrAck ==
    /\ rxen
    /\ chip # << >> /\ Head(chip).kind = "ack"
    /\ Acknowledge
    /\ rx' = Head(chip)
    /\ WakeUp
    /\ missed' = [p \in Proc |-> missed[p] \/ (at[p] = "sleep" /\ n[p] = rx'.n)]
    /\ dirty' = [p \in Proc |-> dirty[p] \/ (at[p] = "copy" /\ fits[p] /\ n[p] # rx'.n)]
    /\ UNCHANGED <<req, n, fits, ncmd, rxen, got>>

\* Mutant of IntrNfc: the switch falls through, and a notification is kept
\* like an answer.
IntrNfcKept ==
    /\ rxen
    /\ chip # << >> /\ Head(chip).kind = "nfc"
    /\ Acknowledge
    /\ rx' = Head(chip)
    /\ WakeUp
    /\ UNCHANGED <<req, n, fits, ncmd, rxen, ghost>>

\* sg17_sci_intr with a notification.
IntrNfc ==
    /\ rxen
    /\ chip # << >> /\ Head(chip).kind = "nfc"
    /\ Acknowledge
    /\ UNCHANGED <<host, rxen, rx, ghost>>

\* sg17_sci_intr with a frame that is too long for sdfe4_msg_init: it is
\* thrown away, and the receiver is not switched on again.
IntrOversize ==
    /\ rxen
    /\ rxen' = FALSE
    /\ chip' = << >>
    /\ UNCHANGED <<host, txen, tx, rx, ghost, raced>>

CpuStep(p) == Fire(p) \/ Sleep(p) \/ Timeout(p) \/ RecvHead(p) \/ RecvRest(p)

Next ==
    \/ \E p \in Proc : CpuStep(p) \/ Signal(p)
    \/ \E p \in Proc, i \in Id : sg17_sci_xmit(p, i)
    \/ HwSend \/ Notify
    \/ IntrAck \/ IntrNfc \/ IntrOversize

\* A process that can run does, and the timer of its wait expires.
Fairness == \A p \in Proc : WF_vars(CpuStep(p))

Spec == Init /\ [][Next]_vars /\ Fairness

-----------------------------------------------------------------------------
(* Properties.                                                             *)

\* A command that succeeds has got its own answer, the whole of it, although
\* only the id is compared and rx_msg is shared, unless an answer with the same
\* id was on its way when it began (a command given up too early, or one of the
\* other channel), another process asks for the same, the next answer came
\* while it was copying its own, or it went on without an answer, after a
\* signal or a time-out with the receiver off, and found one to an earlier
\* command with its id (sdfe4_lib.c 273-285, sg17sci.c 167-178, 209-227,
\* 253-257).
OwnAnswer ==
    \A p \in Proc : (got[p] # 0 /\ at[p] = "idle") => (got[p] = n[p] \/ dirty[p])

\* No process sleeps on an answer that has come, except when it came between
\* the transmission and the sleep: then the command waits the two seconds and
\* fails although it was answered (sg17sci.c 177, 253, sdfe4_lib.c 255-277).
WokenByAnswer ==
    \A p \in Proc : (at[p] = "asleep" /\ rx.n = n[p]) => missed[p]

\* What the hardware sends is one message, a command or an acknowledgement,
\* unless the interrupt came while a process was filling tx_buf: then both
\* are lost (sg17sci.c 229-247, sdfe4_lib.c 423).
FramesWhole == (txen /\ ~raced) => WholeFrame

\* Every command returns, answered or not (sg17sci.c 253).
CommandReturns == \A p \in Proc : Active(p) ~> ~Active(p)

=============================================================================
