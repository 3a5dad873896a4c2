------------------------------ MODULE Sg17Link ------------------------------
(***************************************************************************)
(* How the mr17h driver follows one channel of its DSL chip: the interrupt *)
(* handler keeps the notifications of the chip as flags                    *)
(* (sdfe4_pamdsl_nfc), the monitor acts on them every two seconds          *)
(* (sdfe4_state_mon), and the user changes and applies the settings        *)
(* through sysfs while the interface is down.                              *)
(*                                                                         *)
(* The target kernel is uniprocessor and not preemptible: a process gives  *)
(* way to another one only while it sleeps on a command (wait_ms is a busy *)
(* loop), and an interrupt comes between any two steps.  Of a command      *)
(* matters whether the chip did it and whether the driver saw its answer   *)
(* (Sg17Sci).  The other channel of the card only delays the monitor.      *)
(* Messages of the chip arrive in order: by the end of a command the       *)
(* notifications from before it have come.                                 *)
(* Of the settings of a master the rate is kept, the one the chip changes. *)
(***************************************************************************)
EXTENDS Integers, Sequences

CONSTANTS
    MaxRate,        \* rates are 1 .. MaxRate
    MaxNfc          \* bound: notifications on the way

ASSUME LinkAssumption == MaxRate \in Nat \ {0} /\ MaxNfc \in Nat \ {0}

Rate == 1 .. MaxRate
Mode == {"init", "act", "data", "sync"}
Flag == {"state_change", "conn_state_change", "sdi_dpll_sync"}

VARIABLES
    \* The chip.
    mode,           \* where it is on its way to a working line
    offer,          \* the highest rate it was set up with
    agreed,         \* the rate it has agreed on
    nfc,            \* notifications on the way to the host
    \* The driver.
    chan,           \* hwdev->ch[i]: state, and the flags that are set
    cfg,            \* hwdev->cfg[i]: rate and need_reconf
    link, RATE,     \* carrier, and the register of the line rate
    mon,            \* where the monitor is in sdfe4_state_mon
    word,           \* the bit field as it has read it
    caplist,        \* the rate in the command it sends or sent last
    \* What has happened; these are read by no action of the driver.
    unseen,         \* has a notification been wiped before it was looked at?
    lost,           \* has the chip not done a command since its last start?
    stale,          \* was it started with a flag from before the start?
    asked,          \* the rate the user stored last
    applied,        \* and has applied
    excused         \* may the chip have another one?

dsl == <<mode, offer, agreed, nfc>>
user == <<asked, applied, excused>>
linkVars == <<dsl, chan, cfg, link, RATE, mon, word, caplist,
                   unseen, lost, stale, user>>

Chan == [state : Mode, flags : SUBSET Flag]
Place == [do : {"look", "write", "load", "disable", "reset",
                "setup", "caplist", "sdi", "start"},
          for : Flag \cup {"init", "reconf"}]
Look == [do |-> "look", for |-> "init"]
Do(a, f) == [do |-> a, for |-> f]

LinkTypeOK ==
    /\ mode \in Mode /\ offer \in Rate /\ agreed \in Rate
    /\ nfc \in Seq(Mode \cup {"conn"}) /\ Len(nfc) <= MaxNfc
    /\ chan \in Chan /\ word \in Chan
    /\ cfg \in [rate : Rate, need_reconf : BOOLEAN]
    /\ link \in BOOLEAN /\ RATE \in Rate
    /\ mon \in Place /\ caplist \in Rate
    /\ unseen \in BOOLEAN /\ lost \in BOOLEAN /\ stale \in BOOLEAN
    /\ asked \in Rate /\ applied \in BOOLEAN
    /\ excused \in BOOLEAN

\* After sdfe4_download_fw has started the chip.  The notification that the
\* chip is in its initial state is still to come, or it has come before the
\* end of sdfe4_download_fw, which clears state_change.
LinkInit ==
    /\ mode = "init" /\ offer = MaxRate /\ agreed = MaxRate
    /\ \/ nfc = <<"init">> /\ unseen = FALSE
       \/ nfc = << >> /\ unseen = TRUE
    /\ chan = [state |-> "init", flags |-> {}] /\ word = chan
    /\ cfg = [rate |-> MaxRate, need_reconf |-> FALSE]
    /\ link = FALSE /\ RATE = MaxRate
    /\ mon = Look /\ caplist = MaxRate
    /\ lost = FALSE /\ stale = FALSE
    /\ asked = MaxRate /\ applied = FALSE /\ excused = FALSE

-----------------------------------------------------------------------------
(* The chip, and the interrupt handler.                                    *)

\* The chip is in the mode m and says so.
Enters(m) == mode' = m /\ nfc' = Append(nfc, m)

\* The line makes progress; the two ends agree on a rate on the way.
Train ==
    /\ Len(nfc) < MaxNfc
    /\ \/ mode = "act" /\ Enters("data") /\ agreed' \in 1 .. offer
       \/ mode = "data" /\ Enters("sync") /\ UNCHANGED agreed
    /\ UNCHANGED <<offer, chan, cfg, link, RATE, mon, word, caplist,
                   unseen, lost, stale, user>>

\* The line fails.
Fall ==
    /\ Len(nfc) < MaxNfc
    /\ mode # "init"
    /\ Enters("init")
    /\ UNCHANGED <<offer, agreed, chan, cfg, link, RATE, mon, word, caplist,
                   unseen, lost, stale, user>>

\* NFC_CONNECT_CONDITION, about the progress of the activation.
Condition ==
    /\ Len(nfc) < MaxNfc
    /\ mode = "act"
    /\ nfc' = Append(nfc, "conn")
    /\ UNCHANGED <<mode, offer, agreed, chan, cfg, link, RATE, mon, word, caplist,
                   unseen, lost, stale, user>>

\* Mutant of sdfe4_pamdsl_nfc: every status is stored as the state.
NfcStoresAll ==
    /\ nfc # << >>
    /\ nfc' = Tail(nfc)
    /\ chan' = [state |-> Head(nfc), flags |-> chan.flags \cup {"state_change"}]
    /\ UNCHANGED <<mode, offer, agreed, cfg, link, RATE, mon, word, caplist,
                   unseen, lost, stale, user>>

\* NFC_CONNECT_CTRL, NFC_CONNECT_CONDITION, NFC_SDI_DPLL_SYNC.
sdfe4_pamdsl_nfc ==
    /\ nfc # << >>
    /\ nfc' = Tail(nfc)
    /\ chan' = CASE Head(nfc) = "conn" -> [chan EXCEPT !.flags = @ \cup {"conn_state_change"}]
                 [] Head(nfc) = "sync" -> [chan EXCEPT !.flags = @ \cup {"sdi_dpll_sync"}]
                 [] OTHER -> [state |-> Head(nfc), flags |-> chan.flags \cup {"state_change"}]
    /\ UNCHANGED <<mode, offer, agreed, cfg, link, RATE, mon, word, caplist,
                   unseen, lost, stale, user>>

-----------------------------------------------------------------------------
(* The monitor.                                                            *)

\* The command that the monitor sleeps on ends, with or without success.
Answered(a) == mon.do = a /\ nfc = << >>

\* The tests of a round, from one of them on.  An interrupt between two tests
\* might as well come before or after both.
FromReconf == IF cfg.need_reconf THEN Do("disable", "reconf") ELSE Look
FromSync(c) == IF "sdi_dpll_sync" \in c.flags THEN Do("load", "init") ELSE FromReconf
FromConn(c) ==
    IF "conn_state_change" \in c.flags THEN Do("write", "conn_state_change")
    ELSE FromSync(c)

\* A step that leads to the clearing of a flag has read the word.
NoWord == [state |-> "init", flags |-> {}]
Reads(c) == word' = IF mon'.do = "write" THEN c ELSE NoWord

\* Mutant of LookState: the carrier is not taken away.
LookStateKeepsCarrier ==
    /\ mon = Look
    /\ mon' = IF "state_change" \notin chan.flags THEN FromConn(chan)
              ELSE IF chan.state = "init" THEN Do("reset", "init")
              ELSE Do("write", "state_change")
    /\ Reads(chan)
    /\ UNCHANGED <<dsl, chan, cfg, link, RATE, caplist, unseen, lost, stale, user>>

LookState ==
    /\ mon = Look
    /\ IF "state_change" \notin chan.flags
       THEN mon' = FromConn(chan) /\ UNCHANGED link
       ELSE IF chan.state = "init"
       THEN mon' = Do("reset", "init") /\ link' = FALSE
       ELSE mon' = Do("write", "state_change") /\ UNCHANGED link
    /\ Reads(chan)
    /\ UNCHANGED <<dsl, chan, cfg, RATE, caplist, unseen, lost, stale, user>>

\* Is something that chan says, and that matters, not in new?
Wiped(new) ==
    \/ "sdi_dpll_sync" \in chan.flags \ new.flags /\ mon.for # "sdi_dpll_sync"
    \/ chan.state = "init" /\ "state_change" \in chan.flags
       /\ (new.state # "init" \/ "state_change" \notin new.flags)

\* The flags are bits of one 16-bit word: one is cleared by reading the word
\* and writing it back, and what the handler has set meanwhile is gone.
ClearFlag ==
    /\ mon.do = "write"
    /\ chan' = [word EXCEPT !.flags = @ \ {mon.for}]
    /\ unseen' = (unseen \/ Wiped(chan'))
    /\ mon' = CASE mon.for = "state_change" -> FromConn(chan')
                [] mon.for = "conn_state_change" -> FromSync(chan')
                [] OTHER -> FromReconf
    /\ Reads(chan')
    /\ UNCHANGED <<dsl, cfg, link, RATE, caplist, lost, stale, user>>

\* Mutant of LinkUp: the rate of the settings is used.
LinkUpBlind ==
    /\ Answered("load")
    /\ link' = TRUE
    /\ RATE' = cfg.rate
    /\ mon' = Do("write", "sdi_dpll_sync") /\ Reads(chan)
    /\ UNCHANGED <<dsl, chan, cfg, caplist, unseen, lost, stale, user>>

\* sdfe4_load_config asks the chip for the rate and keeps it, if there is an
\* answer; then sg17_link_up, whatever the answer.
LinkUp ==
    /\ Answered("load")
    /\ \/ /\ cfg' = [cfg EXCEPT !.rate = agreed]
          /\ excused' = (excused \/ agreed # asked)
          /\ UNCHANGED lost
       \/ lost' = TRUE /\ UNCHANGED <<cfg, excused>>
    /\ link' = TRUE
    /\ RATE' = cfg'.rate
    /\ mon' = Do("write", "sdi_dpll_sync") /\ Reads(chan)
    /\ UNCHANGED <<dsl, chan, caplist, unseen, stale, asked, applied>>

\* sdfe4_disable_channel, whose result is not looked at, and sg17_link_down.
Disable ==
    /\ Answered("disable")
    /\ \/ /\ mode # "init"
          /\ Enters("init")
          /\ UNCHANGED lost
       \/ mode = "init" /\ UNCHANGED <<mode, nfc, lost>>
       \/ mode # "init" /\ lost' = TRUE /\ UNCHANGED <<mode, nfc>>
    /\ link' = FALSE
    /\ mon' = Do("reset", "reconf")
    /\ UNCHANGED <<offer, agreed, chan, cfg, RATE, word, caplist, unseen, stale, user>>

\* The memory of the channel is set to zero.
sdfe4_reset_hwdev_chan ==
    /\ mon.do = "reset"
    /\ chan' = [state |-> "init", flags |-> {}]
    /\ unseen' = (unseen \/ (mode = "sync" /\ "sdi_dpll_sync" \in chan.flags))
    /\ stale' = FALSE
    /\ mon' = Do("setup", mon.for)
    /\ UNCHANGED <<dsl, cfg, link, RATE, word, caplist, lost, user>>

\* sdfe4_setup_chan gives up at the first command that fails; the monitor goes
\* on with the start.  A chip that is not in its initial state refuses them.
\* First come the role of the line and the handshake; then the list of
\* capabilities is filled with the rate that is stored now.
SetupMode ==
    /\ Answered("setup")
    /\ \/ /\ mode = "init"
          /\ caplist' = cfg.rate
          /\ mon' = Do("caplist", mon.for)
          /\ UNCHANGED excused
       \/ /\ mon' = Do("start", mon.for)
          /\ excused' = TRUE
          /\ UNCHANGED caplist
    /\ UNCHANGED <<dsl, chan, cfg, link, RATE, word, unseen, lost, stale, asked, applied>>

\* Mutant of SetupCaplist: the list still has the values of the start.
SetupDefaults ==
    /\ Answered("caplist")
    /\ \/ mode = "init" /\ offer' = MaxRate /\ UNCHANGED excused
       \/ UNCHANGED offer /\ excused' = TRUE
    /\ mon' \in {Do("sdi", mon.for), Do("start", mon.for)}
    /\ UNCHANGED <<mode, agreed, nfc, chan, cfg, link, RATE, word, caplist,
                   unseen, lost, stale, asked, applied>>

\* The list reaches the chip or not, and the driver goes on or gives up.
SetupCaplist ==
    /\ Answered("caplist")
    /\ \/ mode = "init" /\ offer' = caplist /\ UNCHANGED excused
       \/ UNCHANGED offer /\ excused' = TRUE
    /\ mon' \in {Do("sdi", mon.for), Do("start", mon.for)}
    /\ UNCHANGED <<mode, agreed, nfc, chan, cfg, link, RATE, word, caplist,
                   unseen, lost, stale, asked, applied>>

\* The commands behind it, which have no rate in them.
SetupSdi ==
    /\ Answered("sdi")
    /\ mon' = Do("start", mon.for)
    /\ UNCHANGED <<dsl, chan, cfg, link, RATE, word, caplist, unseen, lost, stale, user>>

\* Mutant of sdfe4_start_channel: it is not called after a line has failed.
StartOnlyReconf ==
    /\ Answered("start")
    /\ \/ /\ mon.for = "reconf" /\ mode = "init"
          /\ Enters("act")
          /\ lost' = FALSE /\ unseen' = FALSE
          /\ stale' = ("sdi_dpll_sync" \in chan.flags)
       \/ mon.for # "reconf" /\ UNCHANGED <<mode, nfc, unseen, lost, stale>>
    /\ cfg' = [cfg EXCEPT !.need_reconf = @ /\ mon.for # "reconf"]
    /\ mon' = Look
    /\ UNCHANGED <<offer, agreed, chan, link, RATE, word, caplist, user>>

\* sdfe4_start_channel, after which the monitor leaves, or need_reconf is
\* cleared.  Only a chip in its initial state starts.
sdfe4_start_channel ==
    /\ Answered("start")
    /\ \/ /\ mode = "init"
          /\ Enters("act")
          /\ lost' = FALSE /\ unseen' = FALSE
          /\ stale' = ("sdi_dpll_sync" \in chan.flags)
       \/ lost' = TRUE /\ UNCHANGED <<mode, nfc, unseen, stale>>
    /\ cfg' = [cfg EXCEPT !.need_reconf = @ /\ mon.for # "reconf"]
    /\ mon' = Look
    /\ UNCHANGED <<offer, agreed, chan, link, RATE, word, caplist, user>>

Monitor ==
    \/ LookState \/ ClearFlag \/ LinkUp \/ Disable
    \/ sdfe4_reset_hwdev_chan \/ SetupMode \/ SetupCaplist \/ SetupSdi
    \/ sdfe4_start_channel

-----------------------------------------------------------------------------
(* The user, while the monitor waits for its next round or for the chip.   *)

Waits == mon.do \in {"look", "load", "disable", "setup", "caplist", "sdi", "start"}

\* The monitor has read the rate and has still to clear need_reconf.
TooLate == mon \in {Do("caplist", "reconf"), Do("sdi", "reconf"), Do("start", "reconf")}

store_rate ==
    /\ Waits
    /\ \E r \in Rate : cfg' = [cfg EXCEPT !.rate = r] /\ asked' = r
    /\ applied' = FALSE
    /\ excused' = FALSE
    /\ UNCHANGED <<dsl, chan, link, RATE, mon, word, caplist, unseen, lost, stale>>

store_apply_cfg ==
    /\ Waits
    /\ cfg' = [cfg EXCEPT !.need_reconf = TRUE]
    /\ applied' = TRUE
    /\ excused' = (excused \/ TooLate)
    /\ UNCHANGED <<dsl, chan, link, RATE, mon, word, caplist, unseen, lost, stale, asked>>

LinkNext ==
    \/ Train \/ Fall \/ Condition
    \/ sdfe4_pamdsl_nfc
    \/ Monitor
    \/ store_rate \/ store_apply_cfg

\* The monitor is scheduled again and again, and a command ends; a
\* notification reaches the host.
LinkFairness == WF_linkVars(Monitor) /\ WF_linkVars(sdfe4_pamdsl_nfc)

LinkSpec == LinkInit /\ [][LinkNext]_linkVars /\ LinkFairness

-----------------------------------------------------------------------------
(* Properties.                                                             *)

\* The settings that the user has applied are the ones the chip was set up
\* with, once need_reconf is clear, unless a command failed, the user applied
\* them after the monitor had read the ones before and before it cleared
\* need_reconf, or the agreed rate was written over them
\* (sdfe4_lib.c 712-813, 929, 1020-1030, sg17sysfs.c 156, 220).
AppliedIsSetUp ==
    (applied /\ ~cfg.need_reconf) => (offer = asked \/ excused)

\* While the line works, the register of the line rate is what the two ends
\* have agreed on, unless the chip did not answer sdfe4_load_config, or the
\* flag was set between the reset and the start of the chip and the carrier
\* came up before the line (sdfe4_lib.c 986-989, 1014-1018, sg17main.c 284).
RateIsAgreed == (link /\ mode = "sync" /\ ~lost /\ ~stale) => RATE = agreed

\* A chip that has fallen back to its initial state is started again, unless
\* the notification was wiped out or a command did not reach the chip, which
\* nobody repeats (sdfe4_lib.c 635, 976-996, 1017).
Restarts == (mode = "init") ~> (mode # "init" \/ unseen \/ lost)

\* The carrier of a line that has failed is taken away, unless the
\* notification was wiped out (sdfe4_lib.c 984-996).
CarrierFalls == (mode = "init" /\ link) ~> (~link \/ unseen)

\* A line that works gets its carrier, unless the notification was wiped out
\* or the channel could not be stopped before (sdfe4_lib.c 1014-1023).
CarrierRises ==
    (mode = "sync" /\ ~link) ~> (link \/ mode # "sync" \/ unseen \/ lost)

=============================================================================
