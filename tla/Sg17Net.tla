------------------------------- MODULE Sg17Net -------------------------------
(***************************************************************************)
(* One network interface of the mr17h DSL card (mr17h-drv/sg17main.c): its *)
(* transmit and receive rings, used by the stack, the watchdog, the        *)
(* monitor, open and close, and the interrupt handler, while the device    *)
(* works on the descriptors.                                               *)
(*                                                                         *)
(* The target kernel is uniprocessor and not preemptible.  A process       *)
(* ("proc") is interrupted only by softirqs and interrupts, a softirq      *)
(* ("soft") only by interrupts, and a spin lock with interrupts off makes  *)
(* a step atomic.  An interrupt that is raised and not masked is taken     *)
(* before the next step of either.                                         *)
(*                                                                         *)
(* netif_carrier, IMR and RXDE are set and cleared together by             *)
(* sg17_link_up and sg17_link_down: one variable.  CRC and OFL only count  *)
(* errors and are left out.                                                *)
(***************************************************************************)
EXTENDS SgRing

CONSTANT
    MayFail         \* may dev_alloc_skb find no memory?

ASSUME MayFailAssumption == MayFail \in BOOLEAN

VARIABLES
    ring,           \* nl->tx and nl->rx
    sr,             \* the register SR
    irq,            \* status bits the interrupt handler has yet to serve
    link,           \* carrier, IMR and not RXDE
    txen, rxen,     \* bits of the register CRA
    stopped,        \* netif_queue_stopped
    running,        \* is the device up (and the watchdog with it)?
    job,            \* where the process and the softirq are
    \* What has happened; these are read by no action of the driver.
    starved,        \* has a refill left the receive ring without any buffer?
    raced           \* has the handler changed a ring under someone's hands?

device == <<sr, link, txen, rxen>>
vars == <<ring, device, irq, stopped, running, job, starved, raced>>

Context == {"proc", "soft"}
Idle == [at |-> "idle", ring |-> "tx"]
At(a, q) == [at |-> a, ring |-> q]

TypeOK ==
    /\ ring \in [{"tx", "rx"} -> Ring]
    /\ sr \in SUBSET {"RXS", "TXS", "UFL"}
    /\ irq \in SUBSET {"RXS", "TXS", "UFL"}
    /\ link \in BOOLEAN /\ txen \in BOOLEAN /\ rxen \in BOOLEAN
    /\ stopped \in BOOLEAN /\ running \in BOOLEAN
    /\ job \in [Context -> [at : {"idle", "open", "test", "take", "advance",
                                  "wake", "stop"},
                            ring : {"tx", "rx"}]]
    /\ starved \in BOOLEAN /\ raced \in BOOLEAN

\* After sg17_probe.
Init ==
    /\ ring = [q \in {"tx", "rx"} |-> NewRing]
    /\ sr = {} /\ irq = {}
    /\ link = FALSE /\ txen = FALSE /\ rxen = FALSE
    /\ stopped = TRUE /\ running = FALSE
    /\ job = [c \in Context |-> Idle]
    /\ starved = FALSE /\ raced = FALSE

-----------------------------------------------------------------------------
(* The device.                                                             *)

HwSend ==
    /\ txen /\ Queued(ring["tx"])
    /\ ring' = [ring EXCEPT !["tx"] = Advance(@)]
    /\ sr' = sr \cup {"TXS"}
    /\ UNCHANGED <<irq, link, txen, rxen, stopped, running, job, starved, raced>>

HwReceive ==
    /\ rxen /\ link /\ Queued(ring["rx"])
    /\ ring' = [ring EXCEPT !["rx"] = Advance(@)]
    /\ sr' = sr \cup {"RXS"}
    /\ UNCHANGED <<irq, link, txen, rxen, stopped, running, job, starved, raced>>

\* The transmitter runs out of data and switches itself off.
HwUnderflow ==
    /\ txen /\ Queued(ring["tx"])
    /\ txen' = FALSE
    /\ sr' = sr \cup {"UFL"}
    /\ UNCHANGED <<ring, irq, link, rxen, stopped, running, job, starved, raced>>

-----------------------------------------------------------------------------
(* The interrupt handler.  Nothing but the device moves while it runs.     *)

Pending == link /\ sr # {}

sg17_interrupt ==
    /\ irq = {} /\ Pending
    /\ irq' = sr /\ sr' = {}
    /\ UNCHANGED <<ring, link, txen, rxen, stopped, running, job, starved, raced>>

\* Is a process or the softirq between its look at ring q and the end of the
\* change it makes to it?
InWindow(q) ==
    \E c \in Context :
        \/ job[c].ring = q /\ job[c].at \in {"take", "advance"}
        \/ job[c].at = "open"

\* recv_init_frames and then recv_alloc_buffs, which stops when there is no
\* memory.
Refilled(r) ==
    LET d == Drain(r)
    IN  {Fill(d, n) : n \in IF MayFail THEN 0 .. Room(d) ELSE {Room(d)}}

IrqReceive ==
    /\ "RXS" \in irq
    /\ irq' = irq \ {"RXS"}
    /\ IF Finished(ring["rx"]) /\ InWindow("rx")
       THEN raced' = TRUE /\ UNCHANGED <<ring, starved>>
       ELSE /\ \E r \in Refilled(ring["rx"]) :
                  /\ ring' = [ring EXCEPT !["rx"] = r]
                  /\ starved' = (Used(r) = 0)
            /\ UNCHANGED raced
    /\ UNCHANGED <<device, stopped, running, job>>

\* The end of xmit_free_buffs.
WakeQueue(r) == stopped' = (stopped /\ ~sg_ring_have_space(r))

\* Mutant of IrqTransmit: the status is acknowledged at the end of the handler.
IrqTransmitAcks ==
    /\ "TXS" \in irq /\ "RXS" \notin irq
    /\ irq' = {}
    /\ sr' = {}
    /\ ring' = [ring EXCEPT !["tx"] = Drain(@)]
    /\ WakeQueue(Drain(ring["tx"]))
    /\ UNCHANGED <<link, txen, rxen, running, job, starved, raced>>

IrqTransmit ==
    /\ "TXS" \in irq /\ "RXS" \notin irq
    /\ irq' = irq \ {"TXS"}
    /\ IF Finished(ring["tx"]) /\ InWindow("tx")
       THEN raced' = TRUE /\ UNCHANGED <<ring, stopped>>
       ELSE /\ ring' = [ring EXCEPT !["tx"] = Drain(@)]
            /\ WakeQueue(Drain(ring["tx"]))
            /\ UNCHANGED raced
    /\ UNCHANGED <<device, running, job, starved>>

\* The transmitter is switched on again.
IrqUnderflow ==
    /\ irq = {"UFL"}
    /\ irq' = {}
    /\ txen' = TRUE
    /\ UNCHANGED <<ring, sr, link, rxen, stopped, running, job, starved, raced>>

-----------------------------------------------------------------------------
(* Processes and softirqs.                                                 *)

CanRun(c) ==
    /\ irq = {} /\ ~Pending
    /\ c = "proc" => job["soft"] = Idle

Starts(c) == CanRun(c) /\ job[c] = Idle

\* sg17_start_xmit up to the end of the critical section.  Without a carrier
\* the buffer is dropped.
sg17_start_xmit(c) ==
    /\ Starts(c)
    /\ link
    /\ IF sg_ring_have_space(ring["tx"])
       THEN /\ ring' = [ring EXCEPT !["tx"] = sg_ring_add_skb(@)]
            /\ UNCHANGED job
       ELSE job' = [job EXCEPT ![c] = At("stop", "tx")] /\ UNCHANGED ring
    /\ UNCHANGED <<device, irq, stopped, running, starved, raced>>

\* dev_queue_xmit calls it while the device is up and its queue not stopped.
Transmit == running /\ ~stopped /\ sg17_start_xmit("soft")

\* sg17_link_support calls it from the monitor, whatever the queue.
sg17_link_support == sg17_start_xmit("proc")

StopQueue(c) ==
    /\ CanRun(c)
    /\ job[c].at = "stop"
    /\ stopped' = TRUE
    /\ job' = [job EXCEPT ![c] = Idle]
    /\ UNCHANGED <<ring, device, irq, running, starved, raced>>

\* Mutant of sg17_tx_timeout: the ring is not looked at.
TimeoutOnlyEnables ==
    /\ Starts("soft")
    /\ running /\ stopped /\ link
    /\ txen' = TRUE
    /\ UNCHANGED <<ring, sr, link, rxen, irq, stopped, running, job, starved, raced>>

\* The watchdog finds the queue stopped for too long.  IMR is 0 meanwhile and
\* is restored before xmit_free_buffs starts.
sg17_tx_timeout ==
    /\ Starts("soft")
    /\ running /\ stopped /\ link
    /\ txen' = TRUE
    /\ job' = [job EXCEPT !["soft"] = At("test", "tx")]
    /\ UNCHANGED <<ring, sr, link, rxen, irq, stopped, running, starved, raced>>

\* sg17_close up to recv_free_buffs.  The stack has taken the device out of
\* use before.
sg17_close ==
    /\ Starts("proc")
    /\ running
    /\ running' = FALSE
    /\ txen' = FALSE /\ rxen' = FALSE
    /\ stopped' = TRUE
    /\ job' = [job EXCEPT !["proc"] = At("test", "rx")]
    /\ UNCHANGED <<ring, sr, link, irq, starved, raced>>

\* One round of the loop of recv_free_buffs or xmit_free_buffs, with
\* sg_ring_del_skb in it, where an interrupt may come in between.
Test(c) ==
    /\ CanRun(c)
    /\ job[c].at = "test"
    /\ job' = [job EXCEPT ![c] =
                 IF Finished(ring[@.ring]) THEN At("take", @.ring)
                 ELSE IF @.ring = "rx" THEN At("test", "tx")
                 ELSE At("wake", "tx")]
    /\ UNCHANGED <<ring, device, irq, stopped, running, starved, raced>>

Take(c) ==
    /\ CanRun(c)
    /\ job[c].at = "take"
    /\ ring' = [ring EXCEPT ![job[c].ring] = TakeHead(@)]
    /\ job' = [job EXCEPT ![c] = At("advance", @.ring)]
    /\ UNCHANGED <<device, irq, stopped, running, starved, raced>>

MoveOnBy(c) ==
    /\ CanRun(c)
    /\ job[c].at = "advance"
    /\ ring' = [ring EXCEPT ![job[c].ring] = MoveOn(@)]
    /\ job' = [job EXCEPT ![c] = At("test", @.ring)]
    /\ UNCHANGED <<device, irq, stopped, running, starved, raced>>

Wake(c) ==
    /\ CanRun(c)
    /\ job[c].at = "wake"
    /\ WakeQueue(ring["tx"])
    /\ job' = [job EXCEPT ![c] = Idle]
    /\ UNCHANGED <<ring, device, irq, running, starved, raced>>

\* The registers of a ring are set to 0.
Reset(r) == [r EXCEPT !.CxDR = 0, !.LxDR = 0]

\* sg17_open: the indices in memory, then the registers, the receive buffers
\* and the transceiver.  What sw_ring holds stays there.
sg17_open ==
    /\ Starts("proc")
    /\ ~running
    /\ ring' = [q \in {"tx", "rx"} |->
                  [ring[q] EXCEPT !.head = 0, !.tail = 0, !.FxDR = 0]]
    /\ job' = [job EXCEPT !["proc"] = At("open", "tx")]
    /\ UNCHANGED <<device, irq, stopped, running, starved, raced>>

OpenDevice ==
    /\ CanRun("proc")
    /\ job["proc"].at = "open"
    /\ \E r \in Refilled(Reset(ring["rx"])) :
          /\ ring' = [tx |-> Reset(ring["tx"]), rx |-> r]
          /\ starved' = (Used(r) = 0)
    /\ txen' = TRUE /\ rxen' = TRUE
    /\ stopped' = FALSE /\ running' = TRUE
    /\ job' = [job EXCEPT !["proc"] = Idle]
    /\ UNCHANGED <<sr, link, irq, raced>>

\* Mutant of sg17_link_up: what happened while the link was down stays in SR.
LinkUpKeepsStatus ==
    /\ Starts("proc")
    /\ link' = TRUE
    /\ UNCHANGED <<ring, sr, txen, rxen, irq, stopped, running, job, starved, raced>>

sg17_link_up ==
    /\ Starts("proc")
    /\ link' = TRUE
    /\ sr' = {}
    /\ UNCHANGED <<ring, txen, rxen, irq, stopped, running, job, starved, raced>>

sg17_link_down ==
    /\ Starts("proc")
    /\ link' = FALSE
    /\ UNCHANGED <<ring, sr, txen, rxen, irq, stopped, running, job, starved, raced>>

-----------------------------------------------------------------------------
CpuStep(c) ==
    \/ StopQueue(c) \/ Test(c) \/ Take(c) \/ MoveOnBy(c) \/ Wake(c)
    \/ c = "proc" /\ OpenDevice

Interrupt == sg17_interrupt \/ IrqReceive \/ IrqTransmit \/ IrqUnderflow

Hardware == HwSend \/ HwReceive \/ HwUnderflow

\* The ring is corrupt: nothing is said of what the driver does from here on.
Halt == raced /\ UNCHANGED vars

Next ==
    \/ ~raced /\ Hardware
    \/ ~raced /\ Interrupt
    \/ ~raced /\ \E c \in Context : CpuStep(c)
    \/ ~raced /\ (Transmit \/ sg17_tx_timeout)
    \/ ~raced /\ (sg17_open \/ sg17_close)
    \/ ~raced /\ (sg17_link_up \/ sg17_link_down \/ sg17_link_support)
    \/ Halt

\* The handler and the interrupted code go on, the watchdog comes back and
\* the line takes frames.
Fairness ==
    /\ WF_vars(~raced /\ Interrupt)
    /\ \A c \in Context : SF_vars(~raced /\ CpuStep(c))
    /\ SF_vars(~raced /\ HwSend)
    /\ SF_vars(~raced /\ sg17_tx_timeout)

Spec == Init /\ [][Next]_vars /\ Fairness

-----------------------------------------------------------------------------
(* Properties.                                                             *)

\* No descriptor that the device may still work on has lost its buffer: the
\* slots of the descriptors CxDR .. LxDR-1 are filled, so that the device
\* never reads or writes memory that has been freed, unless the interrupt has
\* come in one of the windows (sg17ring_funcs.h 31-110, sg17main.c 503, 527).
DmaSafe ==
    ~raced => \A q \in {"tx", "rx"} :
        job["proc"].at # "open" =>
            \A k \in Done(ring[q]) .. Dist(ring[q].FxDR, ring[q].LxDR, HW_RING_MASK) - 1 :
                Step(ring[q].head, k, SW_RING_MASK) \in ring[q].sw_ring

\* The receiver of an open device has a buffer to fill or its interrupt is on
\* the way, whatever the order of link changes, frames and refills; only a
\* refill that finds memory for no buffer at all ends reception, and that for
\* good (sg17main.c 187-191, 471-494).
RxFed ==
    (running /\ ~raced /\ ~starved) => (Queued(ring["rx"]) \/ "RXS" \in sr \cup irq)

\* Once closed, the device is not switched on before the next open: an
\* underflow from before the close does not start the transmitter again
\* (sg17main.c 206-215, 248, 286).
ClosedIsQuiet == (~running /\ ~raced) => (~txen /\ ~rxen)

\* A stopped queue is woken while the link stays up.  The interrupt that
\* empties the ring may come before sg17_start_xmit stops the queue, and then
\* the watchdog is what wakes it (sg17main.c 413-417, 439-442, 511-528).
\* Interrupts must leave gaps: frames slower than the handler.
TxResumes ==
    []<>(irq = {} /\ ~Pending) =>
        ((running /\ stopped /\ link) ~> (~stopped \/ ~running \/ ~link \/ raced))

=============================================================================
