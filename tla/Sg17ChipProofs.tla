--------------------------- MODULE Sg17ChipProofs ---------------------------
(***************************************************************************)
(* The two modules about the DSL chip of the mr17h card.  The control      *)
(* channel (Sg17Sci): OwnAnswer, WokenByAnswer and FramesWhole for any     *)
(* number of processes, ids, commands and messages of the chip.  The       *)
(* monitor of a line (Sg17Link): AppliedIsSetUp, RateIsAgreed and the      *)
(* safety parts of its liveness properties for any number of rates and of  *)
(* notifications on the way.  Nothing of one is used in the other.         *)
(***************************************************************************)
EXTENDS Sg17Sci, Sg17Link, SequenceTheorems, TLAPS

-----------------------------------------------------------------------------
(* The control channel.                                                    *)

Message == Answer \cup {Notification}

\* Command numbers are given out once.
Numbers ==
    /\ \A p \in Proc : n[p] <= ncmd
    /\ \A p \in Proc : Active(p) => n[p] # 0 /\ got[p] = 0
    /\ \A p, q \in Proc : n[p] # 0 /\ n[p] = n[q] => p = q
    /\ tx.len <= ncmd /\ rx.n <= ncmd
    /\ \A k \in DOMAIN chip : chip[k].kind = "ack" => chip[k].n <= ncmd

\* One process at most has the processor, and what it is filling is not yet
\* known to anybody.
OneRuns ==
    \A p, q \in Proc :
        at[p] \in {"fire", "sleep", "copy"} /\ at[q] \in {"fire", "sleep", "copy"} => p = q

Unsent ==
    \A p \in Proc : at[p] = "fire" =>
        /\ tx.len # n[p] /\ rx.n # n[p]
        /\ \A k \in DOMAIN chip : chip[k].kind = "ack" => chip[k].n # n[p]

\* While a process fills tx_buf nothing is sent from it.
Filling ==
    \A p \in Proc : (at[p] = "fire" /\ ~raced) => ~txen /\ tx.first = n[p] /\ tx.rest = n[p]

\* A clean command is the only one that asks for its id ...
OnlyAsker ==
    \A p, q \in Proc :
        (p # q /\ Active(p) /\ Active(q) /\ req[p] = req[q]) => dirty[p]

\* ... also among those whose frame is on its way ...
OnlySent ==
    \A p, q \in Proc :
        (p # q /\ Active(p) /\ ~dirty[p] /\ txen /\ tx.len # 0 /\ n[q] = tx.len)
            => req[q] # req[p]

\* ... and all answers with its id, on the way or received, are its own.
OnlyAnswer ==
    \A p \in Proc : (Active(p) /\ ~dirty[p]) =>
        /\ \A k \in DOMAIN chip :
              (chip[k].kind = "ack" /\ chip[k].id = req[p]) => chip[k].n = n[p]
        /\ (at[p] = "woken" /\ rx.kind = "ack" /\ rx.id = req[p]) => rx.n = n[p]
        /\ (at[p] = "copy" /\ fits[p]) => rx.n = n[p]

\* An answer that came before the sleep is known to have been missed.
Missed == \A p \in Proc : (at[p] \in {"sleep", "asleep"} /\ rx.n = n[p]) => missed[p]

IInv ==
    /\ TypeOK /\ Numbers /\ OneRuns /\ Unsent /\ Filling /\ FramesWhole
    /\ OnlyAsker /\ OnlySent /\ OnlyAnswer /\ Missed /\ OwnAnswer

-----------------------------------------------------------------------------
(* The queue of the chip.                                                  *)

\* The handler adds nothing to the messages of the chip, and takes away the
\* first one at most.
LEMMA AcknowledgeQueue ==
  ASSUME TypeOK, chip # << >>, Acknowledge
  PROVE  /\ chip' \in Seq(Message) /\ Len(chip') <= MaxQueue
         /\ \A k \in DOMAIN chip' : \E j \in DOMAIN chip : chip'[k] = chip[j]
  <1>1. chip \in Seq(Message) /\ Len(chip) <= MaxQueue /\ MaxQueue \in Nat
    BY BoundAssumption DEF TypeOK, Message
  <1>2. chip' = chip \/ chip' = Tail(chip)
    BY DEF Acknowledge
  <1>3. CASE chip' = chip
    BY <1>1, <1>3
  <1>4. CASE chip' = Tail(chip)
    <2>1. Tail(chip) \in Seq(Message) /\ Len(Tail(chip)) = Len(chip) - 1
      BY <1>1
    <2>2. \A k \in 1 .. Len(chip) - 1 : Tail(chip)[k] = chip[k + 1] /\ k + 1 \in DOMAIN chip
      BY <1>1
    <2>. QED BY <1>1, <1>4, <2>1, <2>2
  <1>. QED BY <1>2, <1>3, <1>4

\* A message more at the end.
LEMMA AppendQueue ==
  ASSUME TypeOK, Len(chip) < MaxQueue, NEW m \in Message, chip' = Append(chip, m)
  PROVE  /\ chip' \in Seq(Message) /\ Len(chip') <= MaxQueue
         /\ \A k \in DOMAIN chip' : chip'[k] = m \/ \E j \in DOMAIN chip : chip'[k] = chip[j]
  <1>1. chip \in Seq(Message) /\ MaxQueue \in Nat
    BY BoundAssumption DEF TypeOK, Message
  <1>2. chip' \in Seq(Message) /\ Len(chip') = Len(chip) + 1
    BY <1>1
  <1>3. \A k \in 1 .. Len(chip) + 1 : chip'[k] = IF k = Len(chip) + 1 THEN m ELSE chip[k]
    BY <1>1
  <1>. QED BY <1>1, <1>2, <1>3

\* The head of the queue is one of its messages.
LEMMA HeadQueue ==
  ASSUME TypeOK, chip # << >>
  PROVE  Head(chip) \in Message /\ \E k \in DOMAIN chip : Head(chip) = chip[k]
  <1>1. chip \in Seq(Message)
    BY DEF TypeOK, Message
  <1>. QED BY <1>1

\* Messages of the kind "ack" are answers.
LEMMA AckIsAnswer ==
  ASSUME NEW m \in Message, m.kind = "ack"
  PROVE  m \in Answer
  BY DEF Message, Notification

-----------------------------------------------------------------------------
\* The first state.
LEMMA InitHolds == Init => IInv
  <1>. SUFFICES ASSUME Init PROVE IInv
    OBVIOUS
  <1>0. \A p \in Proc : at[p] = "idle" /\ n[p] = 0 /\ got[p] = 0
    BY DEF Init
  <1>1. TypeOK
    <2>1. chip \in Seq(Message) /\ Len(chip) <= MaxQueue
      BY BoundAssumption DEF Init
    <2>2. req \in [Proc -> Id] /\ n \in [Proc -> Number] /\ got \in [Proc -> Number]
          /\ ncmd \in Number /\ tx \in [first : Number, rest : Number, len : Number]
      BY BoundAssumption DEF Init, Number
    <2>3. txen \in BOOLEAN /\ rxen \in BOOLEAN /\ raced \in BOOLEAN
          /\ fits \in [Proc -> BOOLEAN] /\ dirty \in [Proc -> BOOLEAN] /\ missed \in [Proc -> BOOLEAN]
      BY Zenon DEF Init
    <2>. QED BY <2>1, <2>2, <2>3 DEF Init, TypeOK, Message
  <1>2. Numbers
    BY <1>0, BoundAssumption DEF Init, Numbers, Active, NoAnswer
  <1>3. OneRuns /\ Unsent /\ Filling /\ OnlyAsker /\ OnlySent /\ OnlyAnswer /\ Missed
    BY <1>0 DEF OneRuns, Unsent, Filling, OnlyAsker, OnlySent, OnlyAnswer, Missed, Active
  <1>4. FramesWhole /\ OwnAnswer
    BY <1>0 DEF Init, FramesWhole, OwnAnswer
  <1>. QED BY <1>1, <1>2, <1>3, <1>4 DEF IInv

-----------------------------------------------------------------------------
(* The inductive step, one lemma for each action.                          *)

\* sg17_sci_xmit keeps the invariant: its command number is new, and dirty
\* says whether its id is.
LEMMA XmitKeeps ==
  ASSUME IInv, NEW p \in Proc, NEW i \in Id, sg17_sci_xmit(p, i)
  PROVE  IInv'
  <1>. USE DEF IInv
  <1>0. TypeOK /\ chip \in Seq(Message) /\ MaxCmds \in Nat
    BY BoundAssumption DEF TypeOK, Message
  <1>1. /\ at[p] = "idle" /\ ~txen /\ ncmd < MaxCmds
        /\ at' = [at EXCEPT ![p] = "fire"]
        /\ req' = [req EXCEPT ![p] = i]
        /\ ncmd' = ncmd + 1
        /\ n' = [n EXCEPT ![p] = ncmd + 1]
        /\ tx' = [tx EXCEPT !.first = ncmd + 1, !.rest = ncmd + 1]
        /\ got' = [got EXCEPT ![p] = 0]
        /\ missed' = missed /\ fits' = fits /\ rxen' = rxen
        /\ txen' = txen /\ rx' = rx /\ chip' = chip /\ raced' = raced
    BY DEF sg17_sci_xmit
  <1>2. \A q \in Proc : q # p =>
           /\ at'[q] = at[q] /\ at[q] \notin {"fire", "sleep", "copy"}
           /\ n'[q] = n[q] /\ req'[q] = req[q] /\ got'[q] = got[q]
    BY <1>1 DEF sg17_sci_xmit, Runs, TypeOK
  <1>3. at'[p] = "fire" /\ n'[p] = ncmd + 1 /\ req'[p] = i /\ got'[p] = 0
    BY <1>1 DEF TypeOK
  <1>4. /\ dirty' = [q \in Proc |-> IF q = p THEN Outstanding(p, i)
                                    ELSE dirty[q] \/ (Active(q) /\ req[q] = i)]
    BY DEF sg17_sci_xmit
  <1>5. /\ dirty'[p] <=> Outstanding(p, i)
        /\ \A q \in Proc : q # p => (dirty'[q] <=> dirty[q] \/ (Active(q) /\ req[q] = i))
    BY <1>4, Zenon
  <1>6. \A q \in Proc : q # p => (Active(q)' <=> Active(q))
    BY <1>2 DEF Active
  <1>7. TypeOK'
    <2>1. dirty' \in [Proc -> BOOLEAN]
      <3>1. Outstanding(p, i) \in BOOLEAN
        BY Zenon DEF Outstanding
      <3>2. \A q \in Proc : (dirty[q] \/ (Active(q) /\ req[q] = i)) \in BOOLEAN
        BY Zenon
      <3>. QED BY <1>4, <3>1, <3>2, Zenon
    <2>2. ncmd + 1 \in Number
      BY <1>0, <1>1 DEF TypeOK, Number
    <2>3. 0 \in Number
      BY <1>0 DEF Number
    <2>4. tx' \in [first : Number, rest : Number, len : Number]
      BY <1>1, <2>2 DEF TypeOK
    <2>. QED BY <1>0, <1>1, <2>1, <2>2, <2>3, <2>4 DEF TypeOK
  <1>8. /\ tx'.len = tx.len /\ tx'.first = ncmd + 1 /\ tx'.rest = ncmd + 1
    BY <1>1 DEF TypeOK
  <1>9. ncmd \in Nat /\ tx.len \in Nat /\ rx.n \in Nat /\ \A q \in Proc : n[q] \in Nat
    BY <1>0 DEF TypeOK, Number, Answer, NoAnswer
  <1>10. \A k \in DOMAIN chip : chip[k].kind = "ack" => chip[k].n \in Nat /\ chip[k].n <= ncmd
    <2>1. \A k \in DOMAIN chip : chip[k] \in Message
      BY <1>0
    <2>. QED BY <2>1, AckIsAnswer DEF Numbers, Answer, Number
  <1>11. Numbers'
    BY <1>1, <1>2, <1>3, <1>6, <1>8, <1>9, <1>10 DEF Numbers, Active
  <1>12. OneRuns'
    BY <1>2 DEF OneRuns
  <1>13. Unsent'
    BY <1>1, <1>2, <1>3, <1>8, <1>9, <1>10 DEF Unsent, Numbers
  <1>14. Filling' /\ FramesWhole'
    BY <1>1, <1>2, <1>3, <1>8 DEF Filling, FramesWhole
  <1>15. OnlyAsker'
    <2>. SUFFICES ASSUME NEW q \in Proc, NEW r \in Proc,
                         q # r, Active(q)', Active(r)', req'[q] = req'[r]
                  PROVE  dirty'[q]
      BY DEF OnlyAsker
    <2>1. CASE q = p
      <3>1. Active(r) /\ req[r] = i
        BY <2>1, <1>2, <1>3, <1>6
      <3>2. Outstanding(p, i)
        BY <2>1, <3>1, Zenon DEF Outstanding
      <3>. QED BY <2>1, <3>2, <1>5
    <2>2. CASE q # p
      BY <2>2, <1>2, <1>3, <1>5, <1>6 DEF OnlyAsker
    <2>. QED BY <2>1, <2>2
  <1>16. OnlySent'
    BY <1>1 DEF OnlySent
  <1>17. OnlyAnswer'
    <2>. SUFFICES ASSUME NEW q \in Proc, Active(q)', ~dirty'[q]
                  PROVE  /\ \A k \in DOMAIN chip' :
                              (chip'[k].kind = "ack" /\ chip'[k].id = req'[q])
                                  => chip'[k].n = n'[q]
                         /\ (at'[q] = "woken" /\ rx'.kind = "ack" /\ rx'.id = req'[q])
                                => rx'.n = n'[q]
                         /\ (at'[q] = "copy" /\ fits'[q]) => rx'.n = n'[q]
      BY DEF OnlyAnswer
    <2>1. CASE q = p
      <3>1. ~Outstanding(p, i)
        BY <2>1, <1>5
      <3>2. \A k \in DOMAIN chip : ~(chip[k].kind = "ack" /\ chip[k].id = i)
        BY <3>1, Zenon DEF Outstanding
      <3>. QED BY <2>1, <3>2, <1>1, <1>3
    <2>2. CASE q # p
      BY <2>2, <1>1, <1>2, <1>5, <1>6 DEF OnlyAnswer
    <2>. QED BY <2>1, <2>2
  <1>18. Missed'
    BY <1>1, <1>2, <1>3 DEF Missed
  <1>19. OwnAnswer'
    BY <1>2, <1>3, <1>5 DEF OwnAnswer
  <1>. QED BY <1>7, <1>11, <1>12, <1>13, <1>14, <1>15, <1>16, <1>17, <1>18, <1>19

\* Fire keeps it: the frame is whole, and its number is known from now on.
LEMMA FireKeeps ==
  ASSUME IInv, NEW p \in Proc, Fire(p)
  PROVE  IInv'
  <1>. USE DEF IInv
  <1>1. /\ at[p] = "fire" /\ at' = [at EXCEPT ![p] = "sleep"]
        /\ tx' = [tx EXCEPT !.len = n[p]] /\ txen' = TRUE
        /\ UNCHANGED <<req, n, fits, ncmd, rxen, rx, chip, got, dirty, missed, raced>>
    BY DEF Fire, ghost
  <1>2. at'[p] = "sleep" /\ \A q \in Proc : q # p => at'[q] = at[q]
        /\ at[q] \notin {"fire", "sleep", "copy"}
    BY <1>1 DEF TypeOK, OneRuns
  <1>3. tx'.len = n[p] /\ tx'.first = tx.first /\ tx'.rest = tx.rest
    BY <1>1 DEF TypeOK
  <1>4. TypeOK'
    <2>1. tx' \in [first : Number, rest : Number, len : Number]
      BY <1>1 DEF TypeOK
    <2>2. at' \in [Proc -> {"idle", "fire", "sleep", "asleep", "woken", "copy"}]
      BY <1>1 DEF TypeOK
    <2>. QED BY <1>1, <2>1, <2>2 DEF TypeOK
  <1>5. \A q \in Proc : Active(q)' <=> Active(q)
    BY <1>1, <1>2 DEF Active
  <1>6. Numbers'
    BY <1>1, <1>3, <1>5 DEF Numbers
  <1>7. OneRuns' /\ Unsent' /\ Filling'
    BY <1>2 DEF OneRuns, Unsent, Filling
  <1>8. FramesWhole'
    BY <1>1, <1>3 DEF FramesWhole, WholeFrame, Filling
  <1>9. OnlyAsker'
    BY <1>1, <1>5 DEF OnlyAsker
  <1>10. OnlySent'
    <2>1. Active(p)
      BY <1>1 DEF Active
    <2>. QED BY <1>1, <1>3, <1>5, <2>1 DEF OnlySent, OnlyAsker, Numbers
  <1>11. OnlyAnswer'
    BY <1>1, <1>2, <1>5 DEF OnlyAnswer
  <1>12. Missed'
    BY <1>1, <1>2 DEF Missed, Unsent
  <1>13. OwnAnswer'
    BY <1>1, <1>2 DEF OwnAnswer
  <1>. QED BY <1>4, <1>6, <1>7, <1>8, <1>9, <1>10, <1>11, <1>12, <1>13

\* Sleep keeps it.
LEMMA SleepKeeps ==
  ASSUME IInv, NEW p \in Proc, Sleep(p)
  PROVE  IInv'
  <1>. USE DEF IInv
  <1>1. /\ at[p] = "sleep" /\ at' = [at EXCEPT ![p] = "asleep"]
        /\ UNCHANGED <<req, n, fits, ncmd, tx, txen, rxen, rx, chip, got, dirty, missed, raced>>
    BY DEF Sleep, ghost
  <1>2. at'[p] = "asleep" /\ \A q \in Proc : q # p => at'[q] = at[q]
    BY <1>1 DEF TypeOK
  <1>3. TypeOK'
    BY <1>1 DEF TypeOK
  <1>4. \A q \in Proc : Active(q)' <=> Active(q)
    BY <1>1, <1>2 DEF Active
  <1>5. Numbers' /\ OnlyAsker' /\ OnlySent'
    BY <1>1, <1>4 DEF Numbers, OnlyAsker, OnlySent
  <1>6. OneRuns' /\ Unsent' /\ Filling' /\ FramesWhole'
    BY <1>1, <1>2 DEF OneRuns, Unsent, Filling, FramesWhole, WholeFrame
  <1>7. OnlyAnswer' /\ Missed' /\ OwnAnswer'
    BY <1>1, <1>2, <1>4 DEF OnlyAnswer, Missed, OwnAnswer
  <1>. QED BY <1>3, <1>5, <1>6, <1>7

\* A command that goes on without an answer is clean only if no other one is
\* in rx_msg that has its id.
LEMMA GoesOnKeeps ==
  ASSUME IInv, NEW p \in Proc, GoesOn(p),
         UNCHANGED <<req, n, fits, ncmd, tx, txen, rxen, rx, chip, got, missed, raced>>
  PROVE  IInv'
  <1>. USE DEF IInv
  <1>1. /\ at[p] = "asleep" /\ at' = [at EXCEPT ![p] = "woken"]
        /\ dirty' = [dirty EXCEPT ![p] = dirty[p] \/ StaleAnswer(p)]
    BY DEF GoesOn
  <1>2. at'[p] = "woken" /\ \A q \in Proc : q # p => at'[q] = at[q]
    BY <1>1 DEF TypeOK
  <1>3. /\ \A q \in Proc : dirty[q] => dirty'[q]
        /\ StaleAnswer(p) => dirty'[p]
    BY <1>1, Zenon DEF TypeOK
  <1>4. TypeOK'
    <2>1. (dirty[p] \/ StaleAnswer(p)) \in BOOLEAN
      BY Zenon
    <2>2. dirty' \in [Proc -> BOOLEAN]
      BY <1>1, <2>1, Zenon DEF TypeOK
    <2>. QED BY <1>1, <2>2 DEF TypeOK
  <1>5. \A q \in Proc : Active(q)' <=> Active(q)
    BY <1>1, <1>2 DEF Active
  <1>6. Numbers' /\ OnlyAsker' /\ OnlySent'
    BY <1>3, <1>5 DEF Numbers, OnlyAsker, OnlySent
  <1>7. OneRuns' /\ Unsent' /\ Filling' /\ FramesWhole'
    BY <1>2 DEF OneRuns, Unsent, Filling, FramesWhole, WholeFrame
  <1>8. OnlyAnswer' /\ Missed'
    BY <1>2, <1>3, <1>5 DEF OnlyAnswer, Missed, StaleAnswer
  <1>9. OwnAnswer'
    BY <1>2, <1>3 DEF OwnAnswer
  <1>. QED BY <1>4, <1>6, <1>7, <1>8, <1>9

\* Timeout keeps it: a command that fails has got nothing.
LEMMA TimeoutKeeps ==
  ASSUME IInv, NEW p \in Proc, Timeout(p)
  PROVE  IInv'
  <1>. USE DEF IInv
  <1>0. UNCHANGED <<req, n, fits, ncmd, tx, txen, rxen, rx, chip, got, raced>>
    BY DEF Timeout
  <1>1. CASE GoesOn(p) /\ UNCHANGED missed
    BY <1>0, <1>1, GoesOnKeeps
  <1>2. CASE /\ at[p] \in {"asleep", "woken"} /\ at' = [at EXCEPT ![p] = "idle"]
             /\ missed' = [missed EXCEPT ![p] = FALSE]
             /\ dirty' = [dirty EXCEPT ![p] = FALSE]
    <2>1. /\ at'[p] = "idle"
          /\ \A q \in Proc : q # p => /\ at'[q] = at[q] /\ dirty'[q] = dirty[q]
                                      /\ missed'[q] = missed[q]
      BY <1>2 DEF TypeOK
    <2>2. TypeOK'
      BY <1>0, <1>2 DEF TypeOK
    <2>3. \A q \in Proc : Active(q)' => Active(q) /\ q # p
      BY <2>1 DEF Active
    <2>4. Numbers' /\ OnlyAsker' /\ OnlySent'
      BY <1>0, <2>1, <2>3 DEF Numbers, OnlyAsker, OnlySent
    <2>5. OneRuns' /\ Unsent' /\ Filling' /\ FramesWhole'
      BY <1>0, <2>1 DEF OneRuns, Unsent, Filling, FramesWhole, WholeFrame
    <2>6. OnlyAnswer' /\ Missed'
      BY <1>0, <2>1, <2>3 DEF OnlyAnswer, Missed
    <2>7. OwnAnswer'
      <3>1. got[p] = 0
        BY <1>2 DEF Numbers, Active
      <3>. QED BY <1>0, <2>1, <3>1 DEF OwnAnswer
    <2>. QED BY <2>2, <2>4, <2>5, <2>6, <2>7
  <1>. QED BY <1>1, <1>2 DEF Timeout

\* Signal keeps it.
LEMMA SignalKeeps ==
  ASSUME IInv, NEW p \in Proc, Signal(p)
  PROVE  IInv'
  BY GoesOnKeeps DEF Signal

\* RecvHead keeps it: if the id of a clean command fits, rx_msg is its own
\* answer.
LEMMA RecvHeadKeeps ==
  ASSUME IInv, NEW p \in Proc, RecvHead(p)
  PROVE  IInv'
  <1>. USE DEF IInv
  <1>1. /\ at[p] = "woken" /\ at' = [at EXCEPT ![p] = "copy"]
        /\ fits' = [fits EXCEPT ![p] = rx.kind = "ack" /\ rx.id = req[p]]
        /\ UNCHANGED <<req, n, ncmd, tx, txen, rxen, rx, chip, got, dirty, missed, raced>>
    BY DEF RecvHead, ghost
  <1>2. /\ at'[p] = "copy"
        /\ \A q \in Proc : q # p => /\ at'[q] = at[q] /\ fits'[q] = fits[q]
                                    /\ at[q] \notin {"fire", "sleep", "copy"}
    BY <1>1 DEF RecvHead, Runs, TypeOK
  <1>3. fits'[p] => rx.kind = "ack" /\ rx.id = req[p]
    BY <1>1, Zenon DEF TypeOK
  <1>4. TypeOK'
    <2>1. (rx.kind = "ack" /\ rx.id = req[p]) \in BOOLEAN
      BY Zenon
    <2>2. fits' \in [Proc -> BOOLEAN]
      BY <1>1, <2>1, Zenon DEF TypeOK
    <2>. QED BY <1>1, <2>2 DEF TypeOK
  <1>5. \A q \in Proc : Active(q)' <=> Active(q)
    BY <1>1, <1>2 DEF Active
  <1>6. Numbers' /\ OnlyAsker' /\ OnlySent'
    BY <1>1, <1>5 DEF Numbers, OnlyAsker, OnlySent
  <1>7. OneRuns' /\ Unsent' /\ Filling' /\ FramesWhole'
    BY <1>1, <1>2 DEF OneRuns, Unsent, Filling, FramesWhole, WholeFrame
  <1>8. OnlyAnswer' /\ Missed'
    BY <1>1, <1>2, <1>3, <1>5 DEF OnlyAnswer, Missed
  <1>9. OwnAnswer'
    BY <1>1, <1>2 DEF OwnAnswer
  <1>. QED BY <1>4, <1>6, <1>7, <1>8, <1>9

\* RecvRest keeps it: rx_msg is still the answer that the id was copied from,
\* or the command is not clean.
LEMMA RecvRestKeeps ==
  ASSUME IInv, NEW p \in Proc, RecvRest(p)
  PROVE  IInv'
  <1>. USE DEF IInv
  <1>1. /\ at[p] = "copy" /\ at' = [at EXCEPT ![p] = "idle"]
        /\ got' = [got EXCEPT ![p] = IF fits[p] THEN rx.n ELSE 0]
        /\ fits' = [fits EXCEPT ![p] = FALSE]
        /\ missed' = [missed EXCEPT ![p] = FALSE]
        /\ UNCHANGED <<req, n, ncmd, tx, txen, rxen, rx, chip, dirty, raced>>
    BY DEF RecvRest
  <1>2. /\ at'[p] = "idle"
        /\ \A q \in Proc : q # p => /\ at'[q] = at[q] /\ got'[q] = got[q]
                                    /\ fits'[q] = fits[q] /\ missed'[q] = missed[q]
    BY <1>1 DEF TypeOK
  <1>3. got'[p] = IF fits[p] THEN rx.n ELSE 0
    BY <1>1 DEF TypeOK
  <1>4. TypeOK'
    <2>1. 0 \in Number /\ rx.n \in Number
      BY BoundAssumption DEF TypeOK, Number, Answer, NoAnswer
    <2>. QED BY <1>1, <2>1 DEF TypeOK
  <1>5. \A q \in Proc : Active(q)' => Active(q) /\ q # p
    BY <1>1, <1>2 DEF Active
  <1>6. Numbers' /\ OnlyAsker' /\ OnlySent'
    BY <1>1, <1>2, <1>5 DEF Numbers, OnlyAsker, OnlySent
  <1>7. OneRuns' /\ Unsent' /\ Filling' /\ FramesWhole'
    BY <1>1, <1>2 DEF OneRuns, Unsent, Filling, FramesWhole, WholeFrame
  <1>8. OnlyAnswer' /\ Missed'
    BY <1>1, <1>2, <1>5 DEF OnlyAnswer, Missed
  <1>9. OwnAnswer'
    <2>1. Active(p)
      BY <1>1 DEF Active
    <2>. QED BY <1>1, <1>2, <1>3, <2>1 DEF OwnAnswer, OnlyAnswer
  <1>. QED BY <1>4, <1>6, <1>7, <1>8, <1>9

\* HwSend keeps it: the answer to the frame has the number of its command.
LEMMA SendKeeps ==
  ASSUME IInv, HwSend
  PROVE  IInv'
  <1>. USE DEF IInv
  <1>1. /\ txen /\ txen' = FALSE
        /\ UNCHANGED <<at, req, n, fits, ncmd, rxen, tx, rx, got, dirty, missed, raced>>
    BY DEF HwSend, host, ghost
  <1>2. \A q \in Proc : Active(q)' <=> Active(q)
    BY <1>1 DEF Active
  <1>3. OneRuns' /\ Filling' /\ FramesWhole' /\ OnlyAsker' /\ OnlySent' /\ Missed' /\ OwnAnswer'
    BY <1>1, <1>2 DEF OneRuns, Filling, FramesWhole, OnlyAsker, OnlySent, Missed, OwnAnswer
  <1>4. CASE UNCHANGED chip
    BY <1>1, <1>2, <1>3, <1>4, ZenonT(40) DEF TypeOK, Numbers, Unsent, OnlyAnswer
  <1>5. ASSUME NEW q \in Proc, Len(chip) < MaxQueue, tx.len # 0, n[q] = tx.len,
               chip' = Append(chip, [kind |-> "ack", id |-> req[q], n |-> n[q]])
        PROVE  IInv'
    <2>. DEFINE m == [kind |-> "ack", id |-> req[q], n |-> n[q]]
    <2>0. m \in Message /\ m.kind = "ack" /\ m.id = req[q] /\ m.n = n[q]
      BY DEF TypeOK, Message, Answer
    <2>. HIDE DEF m
    <2>1. /\ chip' \in Seq(Message) /\ Len(chip') <= MaxQueue
          /\ \A k \in DOMAIN chip' : chip'[k] = m \/ \E j \in DOMAIN chip : chip'[k] = chip[j]
      BY <1>5, <2>0, AppendQueue DEF m
    <2>2. TypeOK'
      BY <1>1, <2>1 DEF TypeOK, Message
    <2>3. Numbers'
      BY <1>1, <1>2, <1>5, <2>0, <2>1 DEF Numbers
    <2>4. Unsent'
      BY <1>1, <1>5, <2>0, <2>1 DEF Unsent
    <2>5. OnlyAnswer'
      <3>1. \A p \in Proc : (Active(p) /\ ~dirty[p] /\ req[p] = req[q]) => n[p] = n[q]
        BY <1>1, <1>5 DEF OnlySent
      <3>. QED BY <1>1, <1>2, <2>0, <2>1, <3>1 DEF OnlyAnswer
    <2>. QED BY <1>3, <2>2, <2>3, <2>4, <2>5
  <1>. QED BY <1>4, <1>5 DEF HwSend, ChipSends

\* Notify keeps it.
LEMMA NotifyKeeps ==
  ASSUME IInv, Notify
  PROVE  IInv'
  <1>. USE DEF IInv
  <1>1. UNCHANGED <<at, req, n, fits, ncmd, tx, txen, rxen, rx, got, dirty, missed, raced>>
    BY DEF Notify, host, ghost
  <1>2. \A q \in Proc : Active(q)' <=> Active(q)
    BY <1>1 DEF Active
  <1>3. /\ OneRuns' /\ Filling' /\ FramesWhole' /\ OnlyAsker' /\ OnlySent' /\ Missed'
        /\ OwnAnswer'
    BY <1>1, <1>2 DEF OneRuns, Filling, FramesWhole, WholeFrame, OnlyAsker, OnlySent,
                      Missed, OwnAnswer
  <1>4. Notification \in Message /\ Notification.kind # "ack"
    BY DEF Message, Notification
  <1>5. /\ chip' \in Seq(Message) /\ Len(chip') <= MaxQueue
        /\ \A k \in DOMAIN chip' :
              chip'[k] = Notification \/ \E j \in DOMAIN chip : chip'[k] = chip[j]
    BY <1>4, AppendQueue DEF Notify, ChipSends
  <1>6. TypeOK'
    BY <1>1, <1>5 DEF TypeOK, Message
  <1>7. Numbers' /\ Unsent' /\ OnlyAnswer'
    BY <1>1, <1>2, <1>4, <1>5 DEF Numbers, Unsent, OnlyAnswer
  <1>. QED BY <1>3, <1>6, <1>7

\* What the handler does to tx_buf: it is left alone, or holds an
\* acknowledgement, and a process that was filling it is raced.
LEMMA AcknowledgeBuffer ==
  ASSUME IInv, Acknowledge
  PROVE  /\ tx' \in [first : Number, rest : Number, len : Number]
         /\ txen' \in BOOLEAN /\ raced' \in BOOLEAN
         /\ raced => raced'
         /\ tx'.len = tx.len \/ tx'.len = 0
         /\ \/ UNCHANGED <<tx, txen, raced>>
            \/ /\ tx'.len = 0 /\ tx'.first = 0 /\ tx'.rest = tx.rest
               /\ raced' \/ \A p \in Proc : at[p] # "fire"
  <1>0. 0 \in Number
    BY BoundAssumption DEF Number
  <1>1. CASE UNCHANGED <<tx, txen, raced>>
    BY <1>1 DEF IInv, TypeOK
  <1>2. CASE /\ tx' = [tx EXCEPT !.first = 0, !.len = 0]
             /\ txen' = TRUE
             /\ raced' = (raced \/ \E p \in Proc : at[p] = "fire")
    <2>1. /\ tx' \in [first : Number, rest : Number, len : Number]
          /\ tx'.len = 0 /\ tx'.first = 0 /\ tx'.rest = tx.rest
      BY <1>0, <1>2 DEF IInv, TypeOK
    <2>2. txen' \in BOOLEAN /\ raced' \in BOOLEAN
      BY <1>2, Zenon
    <2>3. (raced => raced') /\ (raced' \/ \A p \in Proc : at[p] # "fire")
      BY <1>2, Zenon
    <2>. QED BY <2>1, <2>2, <2>3
  <1>. QED BY <1>1, <1>2 DEF Acknowledge

\* The parts that depend on tx_buf only.
LEMMA AcknowledgeKeeps ==
  ASSUME IInv, Acknowledge, UNCHANGED <<req, n>>, \A p \in Proc : dirty[p] => dirty'[p],
         \A p \in Proc : at'[p] = at[p] \/ (at[p] = "asleep" /\ at'[p] = "woken")
  PROVE  OneRuns' /\ Filling' /\ FramesWhole' /\ OnlyAsker' /\ OnlySent'
  <1>. USE DEF IInv
  <1>1. \A p \in Proc : (at[p] \in {"fire", "sleep", "copy"} <=> at'[p] \in {"fire", "sleep", "copy"})
                       /\ (at'[p] = "fire" <=> at[p] = "fire") /\ (Active(p)' <=> Active(p))
    BY DEF Active
  <1>2. OneRuns' /\ OnlyAsker'
    BY <1>1 DEF OneRuns, OnlyAsker
  <1>3. CASE UNCHANGED <<tx, txen, raced>>
    BY <1>1, <1>2, <1>3 DEF Filling, FramesWhole, WholeFrame, OnlySent
  <1>4. CASE /\ tx'.len = 0 /\ tx'.first = 0
             /\ raced' \/ \A p \in Proc : at[p] # "fire"
    BY <1>1, <1>2, <1>4 DEF Filling, FramesWhole, WholeFrame, OnlySent
  <1>. QED BY <1>3, <1>4, AcknowledgeBuffer

\* IntrAck keeps it: all sleepers are woken, those about to sleep have missed
\* their answer.
LEMMA IntrAckKeeps ==
  ASSUME IInv, IntrAck
  PROVE  IInv'
  <1>. USE DEF IInv
  <1>1. /\ chip # << >> /\ Head(chip).kind = "ack" /\ Acknowledge /\ rx' = Head(chip)
        /\ at' = [p \in Proc |-> IF at[p] = "asleep" THEN "woken" ELSE at[p]]
        /\ missed' = [p \in Proc |-> missed[p] \/ (at[p] = "sleep" /\ n[p] = rx'.n)]
        /\ dirty' = [p \in Proc |-> dirty[p] \/ (at[p] = "copy" /\ fits[p] /\ n[p] # rx'.n)]
        /\ UNCHANGED <<req, n, fits, ncmd, rxen, got>>
    BY DEF IntrAck, WakeUp
  <1>2. \A p \in Proc : at'[p] = IF at[p] = "asleep" THEN "woken" ELSE at[p]
    BY <1>1
  <1>3. \A p \in Proc : Active(p)' <=> Active(p)
    BY <1>2 DEF Active
  <1>3a. \A p \in Proc : /\ dirty[p] => dirty'[p]
                         /\ (at[p] = "copy" /\ fits[p] /\ n[p] # rx'.n) => dirty'[p]
    BY <1>1, Zenon
  <1>4. /\ chip' \in Seq(Message) /\ Len(chip') <= MaxQueue
        /\ \A k \in DOMAIN chip' : \E j \in DOMAIN chip : chip'[k] = chip[j]
    BY <1>1, AcknowledgeQueue
  <1>5. PICK h \in DOMAIN chip : rx' = chip[h]
    BY <1>1, HeadQueue
  <1>6. rx' \in Answer /\ rx'.kind = "ack"
    BY <1>1, HeadQueue, AckIsAnswer
  <1>7. /\ tx' \in [first : Number, rest : Number, len : Number]
        /\ txen' \in BOOLEAN /\ raced' \in BOOLEAN
        /\ tx'.len = tx.len \/ tx'.len = 0
    BY <1>1, AcknowledgeBuffer
  <1>8. TypeOK'
    <2>1. at' \in [Proc -> {"idle", "fire", "sleep", "asleep", "woken", "copy"}]
      BY <1>1 DEF TypeOK
    <2>2. missed' \in [Proc -> BOOLEAN]
      <3>1. \A p \in Proc : (missed[p] \/ (at[p] = "sleep" /\ n[p] = rx'.n)) \in BOOLEAN
        BY Zenon
      <3>. QED BY <1>1, <3>1, Zenon
    <2>3. dirty' \in [Proc -> BOOLEAN]
      <3>1. \A p \in Proc :
               (dirty[p] \/ (at[p] = "copy" /\ fits[p] /\ n[p] # rx'.n)) \in BOOLEAN
        BY Zenon
      <3>. QED BY <1>1, <3>1, Zenon
    <2>. QED BY <1>1, <1>4, <1>6, <1>7, <2>1, <2>2, <2>3 DEF TypeOK, Message
  <1>9. Numbers'
    <2>1. ncmd \in Nat
      BY DEF TypeOK, Number
    <2>. QED BY <1>1, <1>3, <1>4, <1>5, <1>6, <1>7, <2>1 DEF Numbers
  <1>10. OneRuns' /\ Filling' /\ FramesWhole' /\ OnlyAsker' /\ OnlySent'
    BY <1>1, <1>2, <1>3a, AcknowledgeKeeps
  <1>11. Unsent'
    <2>1. \A p \in Proc : Active(p) => n[p] # 0
      BY DEF Numbers
    <2>. QED BY <1>1, <1>2, <1>4, <1>5, <1>6, <1>7, <2>1 DEF Unsent, Active
  <1>12. OnlyAnswer'
    BY <1>1, <1>2, <1>3, <1>3a, <1>4, <1>5, <1>6 DEF OnlyAnswer
  <1>13. Missed'
    <2>1. \A p \in Proc : (at[p] = "sleep" /\ n[p] = rx'.n) => missed'[p]
      BY <1>1, Zenon
    <2>. QED BY <1>1, <1>2, <2>1 DEF Missed
  <1>14. OwnAnswer'
    BY <1>1, <1>2, <1>3a DEF OwnAnswer
  <1>. QED BY <1>8, <1>9, <1>10, <1>11, <1>12, <1>13, <1>14

\* IntrNfc keeps it.
LEMMA IntrNfcKeeps ==
  ASSUME IInv, IntrNfc
  PROVE  IInv'
  <1>. USE DEF IInv
  <1>1. /\ chip # << >> /\ Acknowledge
        /\ UNCHANGED <<at, req, n, fits, ncmd, rxen, rx, got, dirty, missed>>
    BY DEF IntrNfc, host, ghost
  <1>2. \A p \in Proc : Active(p)' <=> Active(p)
    BY <1>1 DEF Active
  <1>3. /\ chip' \in Seq(Message) /\ Len(chip') <= MaxQueue
        /\ \A k \in DOMAIN chip' : \E j \in DOMAIN chip : chip'[k] = chip[j]
    BY <1>1, AcknowledgeQueue
  <1>4. /\ tx' \in [first : Number, rest : Number, len : Number]
        /\ txen' \in BOOLEAN /\ raced' \in BOOLEAN
        /\ tx'.len = tx.len \/ tx'.len = 0
    BY <1>1, AcknowledgeBuffer
  <1>5. TypeOK'
    BY <1>1, <1>3, <1>4 DEF TypeOK, Message
  <1>6. Numbers'
    <2>1. ncmd \in Nat
      BY DEF TypeOK, Number
    <2>. QED BY <1>1, <1>2, <1>3, <1>4, <2>1 DEF Numbers
  <1>7. OneRuns' /\ Filling' /\ FramesWhole' /\ OnlyAsker' /\ OnlySent'
    BY <1>1, AcknowledgeKeeps
  <1>8. Unsent'
    BY <1>1, <1>3, <1>4 DEF Unsent, Numbers, Active
  <1>9. OnlyAnswer' /\ Missed' /\ OwnAnswer'
    BY <1>1, <1>2, <1>3 DEF OnlyAnswer, Missed, OwnAnswer
  <1>. QED BY <1>5, <1>6, <1>7, <1>8, <1>9

\* IntrOversize keeps it.
LEMMA IntrOversizeKeeps ==
  ASSUME IInv, IntrOversize
  PROVE  IInv'
  <1>. USE DEF IInv
  <1>1. /\ rxen' = FALSE /\ chip' = << >>
        /\ UNCHANGED <<at, req, n, fits, ncmd, txen, tx, rx, got, dirty, missed, raced>>
    BY DEF IntrOversize, host, ghost
  <1>2. \A p \in Proc : Active(p)' <=> Active(p)
    BY <1>1 DEF Active
  <1>3. chip' \in Seq(Message) /\ Len(chip') <= MaxQueue /\ DOMAIN chip' = {}
    BY <1>1, BoundAssumption
  <1>4. TypeOK'
    BY <1>1, <1>3 DEF TypeOK, Message
  <1>5. Numbers' /\ Unsent' /\ OnlyAnswer'
    BY <1>1, <1>2, <1>3 DEF Numbers, Unsent, OnlyAnswer
  <1>6. OneRuns' /\ Filling' /\ FramesWhole'
    BY <1>1 DEF OneRuns, Filling, FramesWhole, WholeFrame
  <1>7. OnlyAsker' /\ OnlySent' /\ Missed' /\ OwnAnswer'
    BY <1>1, <1>2 DEF OnlyAsker, OnlySent, Missed, OwnAnswer
  <1>. QED BY <1>4, <1>5, <1>6, <1>7

-----------------------------------------------------------------------------
\* IInv is an invariant.
THEOREM Inductive == Spec => []IInv
  <1>1. IInv /\ [Next]_vars => IInv'
    <2>. SUFFICES ASSUME IInv, [Next]_vars PROVE IInv'
      OBVIOUS
    <2>1. CASE UNCHANGED vars
      <3>1. UNCHANGED <<at, req, n, fits, ncmd, txen, rxen, tx, rx, chip,
                        got, dirty, missed, raced>>
        BY <2>1 DEF vars, host, ghost
      <3>. QED BY <3>1 DEF IInv, TypeOK, Numbers, OneRuns, Unsent, Filling, FramesWhole,
                 WholeFrame, OnlyAsker, OnlySent, OnlyAnswer, Missed, OwnAnswer, Active
    <2>2. CASE \E p \in Proc : CpuStep(p)
      BY <2>2, FireKeeps, SleepKeeps, TimeoutKeeps, RecvHeadKeeps, RecvRestKeeps DEF CpuStep
    <2>3. CASE \E p \in Proc : Signal(p)
      BY <2>3, SignalKeeps
    <2>4. CASE \E p \in Proc, i \in Id : sg17_sci_xmit(p, i)
      BY <2>4, XmitKeeps
    <2>5. CASE HwSend \/ Notify \/ IntrAck \/ IntrNfc \/ IntrOversize
      BY <2>5, SendKeeps, NotifyKeeps, IntrAckKeeps, IntrNfcKeeps, IntrOversizeKeeps
    <2>. QED BY <2>1, <2>2, <2>3, <2>4, <2>5 DEF Next
  <1>. QED BY InitHolds, <1>1, PTL DEF Spec

\* Every variable keeps its type; in particular no answer but one of the chip
\* is ever in rx_msg (sg17sci.c 173-178).
THEOREM TypeCorrect == Spec => []TypeOK
  <1>1. IInv => TypeOK
    BY DEF IInv
  <1>. QED BY Inductive, <1>1, PTL

\* A command that succeeds has its own answer and the whole of it, although an
\* interrupt may come in the middle of the copy, or it is one of the named
\* exceptions (sdfe4_lib.c 273-285, sg17sci.c 209-227, 253-257).
THEOREM AnswersMatch == Spec => []OwnAnswer
  <1>1. IInv => OwnAnswer
    BY DEF IInv
  <1>. QED BY Inductive, <1>1, PTL

\* Nobody sleeps on an answer that has come, unless it came before the sleep
\* (sg17sci.c 177, 253).
THEOREM AnswersWake == Spec => []WokenByAnswer
  <1>1. IInv => WokenByAnswer
    BY DEF IInv, Missed, WokenByAnswer
  <1>. QED BY Inductive, <1>1, PTL

\* The hardware sends whole frames, unless the interrupt came while tx_buf was
\* being filled (sg17sci.c 229-247).
THEOREM WholeFrames == Spec => []FramesWhole
  <1>1. IInv => FramesWhole
    BY DEF IInv
  <1>. QED BY Inductive, <1>1, PTL

-----------------------------------------------------------------------------
(* The monitor of a channel: what its place says about the settings, the   *)
(* carrier and the notifications.                                          *)

Event == Mode \cup {"conn"}

\* The rate of the settings is the user's, unless something else was written
\* over it.
RateIsAsked == cfg.rate = asked \/ excused

\* From the time the rate is read until need_reconf is cleared, the chip has
\* or gets what was asked for.
SetUpIsAsked ==
    /\ (mon.do = "caplist" /\ applied /\ (mon.for = "reconf" \/ ~cfg.need_reconf))
           => (caplist = asked \/ excused)
    /\ (mon \in {Do("sdi", "reconf"), Do("start", "reconf")} /\ applied)
           => (offer = asked \/ excused)

\* The carrier is down from the reset of a channel to its start ...
CarrierOff == mon.do \in {"reset", "setup", "caplist", "sdi", "start"} => ~link

\* ... and up when the flag that brought it up is cleared.
CarrierOn == mon = Do("write", "sdi_dpll_sync") => link

\* The last notification on the way says where the chip is.
LastSaid ==
    nfc # << >> => \/ nfc[Len(nfc)] = mode
                   \/ mode = "act" /\ nfc[Len(nfc)] = "conn"

\* A chip that trains has not yet said that its line works ...
NoSyncSaid == mode \in {"act", "data"} => \A k \in DOMAIN nfc : nfc[k] # "sync"

\* ... and, if no flag was left from before its start, the driver does not
\* think that it has.
NoSyncYet ==
    (mode \in {"act", "data"} /\ ~stale) =>
        "sdi_dpll_sync" \notin chan.flags /\ mon.do # "load" /\ ~link

\* The handler only adds to the flags that the monitor has read.
WordRead == mon.do = "write" => word.flags \subseteq chan.flags

\* The failure of the line is on its way to the monitor.
FallSaid ==
    nfc # << >> \/ (chan.state = "init" /\ "state_change" \in chan.flags)

\* A chip that is in its initial state is never forgotten: the notification is
\* on the way or its flag is set, or the monitor is on its way to starting the
\* chip, unless the notification was wiped out or a command lost.  This is the
\* safety part of Restarts (sdfe4_lib.c 635, 976-996, 1017).
RestartDue ==
    (mode = "init" /\ ~unseen /\ ~lost)
        => FallSaid \/ mon.do \in {"reset", "setup", "caplist", "sdi", "start"}

\* A line that has failed never keeps its carrier, or a flag that will bring it
\* up, without the failure being on its way to the monitor, unless the
\* notification was wiped out: the safety part of CarrierFalls
\* (sdfe4_lib.c 984-996).
FallDue ==
    (mode = "init" /\ ~unseen /\ (link \/ mon.do = "load" \/ "sdi_dpll_sync" \in chan.flags))
        => FallSaid

\* A line that works without a carrier is never forgotten: the notification is
\* on the way or its flag is set, or the monitor is about to try to start the
\* chip, unless the notification was wiped out or a command lost: the safety
\* part of CarrierRises (sdfe4_lib.c 1014-1023).
RiseDue ==
    (mode = "sync" /\ ~link /\ ~unseen /\ ~lost)
        => \/ nfc # << >> \/ "sdi_dpll_sync" \in chan.flags
           \/ mon.do \in {"reset", "setup", "caplist", "sdi", "start"}

LinkInv ==
    /\ LinkTypeOK
    /\ RateIsAsked /\ SetUpIsAsked /\ AppliedIsSetUp
    /\ CarrierOff /\ CarrierOn /\ LastSaid /\ NoSyncSaid /\ NoSyncYet /\ RateIsAgreed
    /\ WordRead /\ RestartDue /\ FallDue /\ RiseDue

\* One more notification.
LEMMA SaidMore ==
  ASSUME LinkTypeOK, Len(nfc) < MaxNfc, NEW m \in Event, nfc' = Append(nfc, m)
  PROVE  /\ nfc' \in Seq(Event) /\ Len(nfc') <= MaxNfc /\ nfc' # << >>
         /\ nfc'[Len(nfc')] = m
         /\ \A k \in DOMAIN nfc' : nfc'[k] = m \/ (k \in DOMAIN nfc /\ nfc'[k] = nfc[k])
  <1>1. nfc \in Seq(Event) /\ MaxNfc \in Nat
    BY LinkAssumption DEF LinkTypeOK, Event
  <1>2. nfc' \in Seq(Event) /\ Len(nfc') = Len(nfc) + 1
    BY <1>1
  <1>3. \A k \in 1 .. Len(nfc) + 1 : nfc'[k] = IF k = Len(nfc) + 1 THEN m ELSE nfc[k]
    BY <1>1
  <1>. QED BY <1>1, <1>2, <1>3

\* One notification less.
LEMMA SaidLess ==
  ASSUME LinkTypeOK, nfc # << >>, nfc' = Tail(nfc)
  PROVE  /\ nfc' \in Seq(Event) /\ Len(nfc') <= MaxNfc
         /\ Head(nfc) \in Event /\ 1 \in DOMAIN nfc /\ Head(nfc) = nfc[1]
         /\ nfc' # << >> => nfc'[Len(nfc')] = nfc[Len(nfc)]
         /\ nfc' = << >> => Head(nfc) = nfc[Len(nfc)]
         /\ \A k \in DOMAIN nfc' : k + 1 \in DOMAIN nfc /\ nfc'[k] = nfc[k + 1]
  <1>1. nfc \in Seq(Event) /\ MaxNfc \in Nat /\ Len(nfc) <= MaxNfc
    BY LinkAssumption DEF LinkTypeOK, Event
  <1>2. Len(nfc) \in Nat /\ Len(nfc) # 0
    BY <1>1
  <1>3. nfc' \in Seq(Event) /\ Len(nfc') = Len(nfc) - 1
    BY <1>1, <1>2
  <1>4. \A k \in 1 .. Len(nfc) - 1 : nfc'[k] = nfc[k + 1]
    BY <1>1, <1>2
  <1>5. nfc' = << >> <=> Len(nfc') = 0
    BY <1>3, EmptySeq, Zenon
  <1>6. Head(nfc) = nfc[1] /\ nfc[1] \in Event
    BY <1>1, <1>2
  <1>. QED BY <1>1, <1>2, <1>3, <1>4, <1>5, <1>6

\* The first state.
LEMMA LinkInitHolds == LinkInit => LinkInv
  <1>. SUFFICES ASSUME LinkInit PROVE LinkInv
    OBVIOUS
  <1>1. nfc = << >> \/ nfc = <<"init">>
    BY DEF LinkInit
  <1>2. nfc \in Seq(Event) /\ Len(nfc) <= MaxNfc /\ (nfc # << >> => nfc[Len(nfc)] = "init")
    <2>1. CASE nfc = << >>
      BY <2>1, LinkAssumption
    <2>2. CASE nfc = <<"init">>
      <3>1. "init" \in Event
        BY DEF Event, Mode
      <3>. QED BY <2>2, <3>1, LinkAssumption
    <2>. QED BY <1>1, <2>1, <2>2
  <1>3. LinkTypeOK
    <2>1. MaxRate \in Rate
      BY LinkAssumption DEF Rate
    <2>2. Look \in Place /\ [state |-> "init", flags |-> {}] \in Chan
      BY DEF Look, Place, Chan, Mode, Flag
    <2>3. cfg \in [rate : Rate, need_reconf : BOOLEAN]
      BY <2>1 DEF LinkInit
    <2>4. link \in BOOLEAN /\ unseen \in BOOLEAN /\ lost \in BOOLEAN /\ stale \in BOOLEAN
          /\ applied \in BOOLEAN /\ excused \in BOOLEAN
      BY Zenon DEF LinkInit
    <2>. QED BY <1>2, <2>1, <2>2, <2>3, <2>4 DEF LinkInit, LinkTypeOK, Event, Mode
  <1>4. unseen \/ nfc # << >>
    BY DEF LinkInit
  <1>5. RestartDue
    BY <1>4 DEF RestartDue, FallSaid
  <1>. QED BY <1>2, <1>3, <1>5 DEF LinkInit, LinkInv, RateIsAsked, SetUpIsAsked, AppliedIsSetUp,
         CarrierOff, CarrierOn, LastSaid, NoSyncSaid, NoSyncYet, RateIsAgreed, WordRead, FallDue,
         RiseDue, Look, Do

-----------------------------------------------------------------------------
(* The chip, and the interrupt handler.                                    *)

\* The two ends agree on another rate only while the carrier is down, or after
\* a start with an old flag.
LEMMA TrainKeeps ==
  ASSUME LinkInv, Train
  PROVE  LinkInv'
  <1>0. PICK m \in {"data", "sync"} : mode' = m /\ nfc' = Append(nfc, m)
    BY DEF Train, Enters
  <1>1. m \in Event /\ Len(nfc) < MaxNfc /\ mode \in {"act", "data"}
    BY DEF Train, Event, Mode
  <1>2. /\ nfc' \in Seq(Event) /\ Len(nfc') <= MaxNfc /\ nfc' # << >>
        /\ nfc'[Len(nfc')] = mode'
        /\ \A k \in DOMAIN nfc' : nfc'[k] = m \/ (k \in DOMAIN nfc /\ nfc'[k] = nfc[k])
    BY <1>0, <1>1, SaidMore DEF LinkInv
  <1>3. LinkTypeOK'
    BY <1>0, <1>2, LinkAssumption DEF LinkInv, Train, LinkTypeOK, Event, Mode, Rate, user
  <1>4. NoSyncSaid'
    BY <1>0, <1>1, <1>2 DEF LinkInv, NoSyncSaid
  <1>5. NoSyncYet' /\ RateIsAgreed'
    BY <1>0, <1>1 DEF LinkInv, Train, NoSyncYet, RateIsAgreed
  <1>6. RateIsAsked' /\ SetUpIsAsked' /\ AppliedIsSetUp' /\ CarrierOff' /\ CarrierOn' /\ WordRead'
    BY DEF LinkInv, Train, RateIsAsked, SetUpIsAsked, AppliedIsSetUp, CarrierOff, CarrierOn,
       WordRead, user
  <1>7. LastSaid' /\ RestartDue' /\ FallDue' /\ RiseDue'
    BY <1>0, <1>2 DEF LastSaid, RestartDue, FallDue, RiseDue, FallSaid
  <1>. QED BY <1>3, <1>4, <1>5, <1>6, <1>7 DEF LinkInv

\* A failure is announced.
LEMMA FallKeeps ==
  ASSUME LinkInv, Fall
  PROVE  LinkInv'
  <1>1. mode' = "init" /\ "init" \in Event
    BY DEF Fall, Enters, Event, Mode
  <1>2. nfc' \in Seq(Event) /\ Len(nfc') <= MaxNfc /\ nfc' # << >> /\ nfc'[Len(nfc')] = mode'
    BY <1>1, SaidMore DEF LinkInv, Fall, Enters
  <1>3. LinkTypeOK'
    BY <1>1, <1>2 DEF LinkInv, Fall, LinkTypeOK, Event, Mode, user
  <1>4. NoSyncSaid' /\ NoSyncYet' /\ RateIsAgreed' /\ LastSaid' /\ RestartDue' /\ FallDue'
        /\ RiseDue'
    BY <1>1, <1>2 DEF NoSyncSaid, NoSyncYet, RateIsAgreed, LastSaid, RestartDue, FallDue,
       RiseDue, FallSaid
  <1>5. RateIsAsked' /\ SetUpIsAsked' /\ AppliedIsSetUp' /\ CarrierOff' /\ CarrierOn' /\ WordRead'
    BY DEF LinkInv, Fall, RateIsAsked, SetUpIsAsked, AppliedIsSetUp, CarrierOff, CarrierOn,
       WordRead, user
  <1>. QED BY <1>3, <1>4, <1>5 DEF LinkInv

\* A remark about the activation says nothing about the line.
LEMMA ConditionKeeps ==
  ASSUME LinkInv, Condition
  PROVE  LinkInv'
  <1>1. mode = "act" /\ mode' = "act" /\ "conn" \in Event
    BY DEF Condition, Event
  <1>2. /\ nfc' \in Seq(Event) /\ Len(nfc') <= MaxNfc /\ nfc' # << >>
        /\ nfc'[Len(nfc')] = "conn"
        /\ \A k \in DOMAIN nfc' : nfc'[k] = "conn" \/ (k \in DOMAIN nfc /\ nfc'[k] = nfc[k])
    BY <1>1, SaidMore DEF LinkInv, Condition
  <1>3. LinkTypeOK'
    BY <1>2 DEF LinkInv, Condition, LinkTypeOK, Event, user
  <1>4. NoSyncSaid'
    BY <1>1, <1>2 DEF LinkInv, NoSyncSaid
  <1>5. LastSaid' /\ RestartDue' /\ FallDue' /\ RiseDue'
    BY <1>1, <1>2 DEF LastSaid, RestartDue, FallDue, RiseDue, FallSaid
  <1>6. RateIsAsked' /\ SetUpIsAsked' /\ AppliedIsSetUp' /\ CarrierOff' /\ CarrierOn' /\ WordRead'
    BY DEF LinkInv, Condition, RateIsAsked, SetUpIsAsked, AppliedIsSetUp, CarrierOff,
       CarrierOn, WordRead, user
  <1>7. NoSyncYet' /\ RateIsAgreed'
    BY DEF LinkInv, Condition, NoSyncYet, RateIsAgreed
  <1>. QED BY <1>3, <1>4, <1>5, <1>6, <1>7 DEF LinkInv

\* The handler keeps what it is told: the last notification leaves the flag
\* that stands for it.
LEMMA NfcKeeps ==
  ASSUME LinkInv, sdfe4_pamdsl_nfc
  PROVE  LinkInv'
  <1>0. nfc # << >> /\ nfc' = Tail(nfc)
    BY DEF sdfe4_pamdsl_nfc
  <1>1. /\ nfc' \in Seq(Event) /\ Len(nfc') <= MaxNfc
        /\ Head(nfc) \in Event /\ 1 \in DOMAIN nfc /\ Head(nfc) = nfc[1]
        /\ nfc' # << >> => nfc'[Len(nfc')] = nfc[Len(nfc)]
        /\ nfc' = << >> => Head(nfc) = nfc[Len(nfc)]
        /\ \A k \in DOMAIN nfc' : k + 1 \in DOMAIN nfc /\ nfc'[k] = nfc[k + 1]
    BY <1>0, SaidLess DEF LinkInv
  <1>2. chan \in Chan
    BY DEF LinkInv, LinkTypeOK
  <1>3. /\ chan' \in Chan /\ chan.flags \subseteq chan'.flags
        /\ "sdi_dpll_sync" \in chan'.flags <=> "sdi_dpll_sync" \in chan.flags \/ Head(nfc) = "sync"
        /\ Head(nfc) = "init" => chan'.state = "init" /\ "state_change" \in chan'.flags
    <2>1. CASE Head(nfc) = "conn"
      BY <1>2, <2>1 DEF sdfe4_pamdsl_nfc, Chan, Flag
    <2>2. CASE Head(nfc) = "sync"
      BY <1>2, <2>2 DEF sdfe4_pamdsl_nfc, Chan, Flag
    <2>3. CASE Head(nfc) \in Mode \ {"sync"}
      <3>1. chan' = [state |-> Head(nfc), flags |-> chan.flags \cup {"state_change"}]
        BY <2>3 DEF sdfe4_pamdsl_nfc, Mode
      <3>. QED BY <1>2, <2>3, <3>1 DEF Chan, Flag, Mode
    <2>. QED BY <1>1, <2>1, <2>2, <2>3 DEF Event
  <1>4. LinkTypeOK'
    BY <1>1, <1>3 DEF LinkInv, sdfe4_pamdsl_nfc, LinkTypeOK, Event, user
  <1>5. LastSaid'
    BY <1>0, <1>1 DEF LinkInv, LastSaid, sdfe4_pamdsl_nfc
  <1>6. NoSyncSaid'
    BY <1>0, <1>1 DEF LinkInv, NoSyncSaid, sdfe4_pamdsl_nfc
  <1>7. NoSyncYet'
    <2>1. mode \in {"act", "data"} => Head(nfc) # "sync"
      BY <1>1 DEF LinkInv, NoSyncSaid
    <2>. QED BY <1>3, <2>1 DEF LinkInv, NoSyncYet, sdfe4_pamdsl_nfc
  <1>8. RestartDue' /\ FallDue'
    <2>1. mode' = "init" => FallSaid'
      <3>1. (mode = "init" /\ nfc' = << >>) => Head(nfc) = "init"
        BY <1>0, <1>1 DEF LinkInv, LastSaid
      <3>. QED BY <1>3, <3>1 DEF sdfe4_pamdsl_nfc, FallSaid
    <2>. QED BY <2>1 DEF RestartDue, FallDue
  <1>9. RiseDue'
    <2>1. (mode = "sync" /\ nfc' = << >>) => Head(nfc) = "sync"
      BY <1>0, <1>1 DEF LinkInv, LastSaid
    <2>. QED BY <1>3, <2>1 DEF sdfe4_pamdsl_nfc, RiseDue
  <1>10. WordRead'
    BY <1>3 DEF LinkInv, WordRead, sdfe4_pamdsl_nfc
  <1>11. RateIsAsked' /\ SetUpIsAsked' /\ AppliedIsSetUp' /\ CarrierOff' /\ CarrierOn'
         /\ RateIsAgreed'
    BY DEF LinkInv, sdfe4_pamdsl_nfc, RateIsAsked, SetUpIsAsked, AppliedIsSetUp, CarrierOff,
       CarrierOn,
       RateIsAgreed, user
  <1>. QED BY <1>4, <1>5, <1>6, <1>7, <1>8, <1>9, <1>10, <1>11 DEF LinkInv

-----------------------------------------------------------------------------
(* The monitor.                                                            *)

\* Where a round goes on from each of its tests.
LEMMA Goes ==
  ASSUME NEW c \in Chan
  PROVE  /\ FromReconf \in Place /\ FromSync(c) \in Place /\ FromConn(c) \in Place
         /\ FromReconf.do \in {"look", "disable"}
         /\ FromSync(c).do \in {"look", "disable", "load"}
         /\ FromConn(c).do \in {"look", "disable", "load", "write"}
         /\ FromSync(c).do = "load" => "sdi_dpll_sync" \in c.flags
         /\ FromConn(c).do = "load" => "sdi_dpll_sync" \in c.flags
         /\ FromConn(c).do = "write" => FromConn(c).for = "conn_state_change"
  <1>1. FromReconf \in Place /\ FromReconf.do \in {"look", "disable"}
    BY DEF FromReconf, Place, Look, Do
  <1>2. /\ FromSync(c) \in Place /\ FromSync(c).do \in {"look", "disable", "load"}
        /\ FromSync(c).do = "load" => "sdi_dpll_sync" \in c.flags
    BY <1>1 DEF FromSync, Place, Do
  <1>. QED BY <1>1, <1>2 DEF FromConn, Place, Do, Flag

\* A step of the monitor between two tests leaves the chip, the settings and
\* the user alone.
LEMMA MonitorMoves ==
  ASSUME LinkInv, UNCHANGED <<dsl, cfg, RATE, caplist, lost, stale, user>>,
         mon' \in Place, chan' \in Chan, word' \in Chan, link' \in BOOLEAN, unseen' \in BOOLEAN,
         link' => link, mon'.do \notin {"caplist", "sdi", "start"},
         "sdi_dpll_sync" \in chan'.flags => "sdi_dpll_sync" \in chan.flags,
         mon'.do = "load" => "sdi_dpll_sync" \in chan'.flags
  PROVE  /\ LinkTypeOK' /\ RateIsAsked' /\ SetUpIsAsked' /\ AppliedIsSetUp'
         /\ LastSaid' /\ NoSyncSaid' /\ NoSyncYet' /\ RateIsAgreed'
  <1>1. LinkTypeOK'
    BY DEF LinkInv, LinkTypeOK, dsl, user
  <1>2. RateIsAsked' /\ SetUpIsAsked' /\ AppliedIsSetUp'
    BY DEF LinkInv, RateIsAsked, SetUpIsAsked, AppliedIsSetUp, Do, Place, dsl, user
  <1>3. LastSaid' /\ NoSyncSaid'
    BY DEF LinkInv, LastSaid, NoSyncSaid, dsl
  <1>4. NoSyncYet' /\ RateIsAgreed'
    BY DEF LinkInv, NoSyncYet, RateIsAgreed, dsl
  <1>. QED BY <1>1, <1>2, <1>3, <1>4

\* The beginning of a round.
LEMMA LookKeeps ==
  ASSUME LinkInv, LookState
  PROVE  LinkInv'
  <1>0. chan \in Chan /\ word \in Chan /\ link \in BOOLEAN /\ unseen \in BOOLEAN /\ chan' = chan
        /\ mon = Look /\ NoWord \in Chan /\ unseen' = unseen /\ lost' = lost /\ mode' = mode
        /\ nfc' = nfc
    BY DEF LinkInv, LinkTypeOK, LookState, NoWord, Chan, Mode, dsl
  <1>1. word' \in Chan /\ (mon'.do = "write" => word' = chan)
    BY <1>0 DEF LookState, Reads
  <1>2. /\ mon' \in Place /\ mon'.do \in {"look", "disable", "load", "write", "reset"}
        /\ mon'.do = "load" => "sdi_dpll_sync" \in chan.flags
        /\ mon'.do = "write" => mon'.for # "sdi_dpll_sync"
        /\ mon'.do = "reset" => ~link'
        /\ link' = link \/ (link' = FALSE /\ mon'.do = "reset")
        /\ link' # link => "state_change" \in chan.flags /\ chan.state = "init"
    <2>1. CASE "state_change" \notin chan.flags
      BY <1>0, <2>1, Goes DEF LookState
    <2>2. CASE "state_change" \in chan.flags /\ chan.state = "init"
      BY <1>0, <2>2 DEF LookState, Do, Place
    <2>3. CASE "state_change" \in chan.flags /\ chan.state # "init"
      BY <1>0, <2>3 DEF LookState, Do, Place, Flag
    <2>. QED BY <2>1, <2>2, <2>3
  <1>3. link' \in BOOLEAN /\ (link' => link)
    <2>1. CASE link' = link
      BY <1>0, <2>1, Zenon
    <2>2. CASE link' = FALSE
      BY <2>2, Zenon
    <2>. QED BY <1>2, <2>1, <2>2
  <1>4. /\ LinkTypeOK' /\ RateIsAsked' /\ SetUpIsAsked' /\ AppliedIsSetUp'
        /\ LastSaid' /\ NoSyncSaid' /\ NoSyncYet' /\ RateIsAgreed'
    BY <1>0, <1>1, <1>2, <1>3, MonitorMoves DEF LookState
  <1>5. CarrierOff' /\ CarrierOn' /\ WordRead'
    BY <1>0, <1>1, <1>2 DEF CarrierOff, CarrierOn, WordRead, Do
  <1>6. RestartDue'
    BY <1>0 DEF LinkInv, RestartDue, FallSaid, Look
  <1>7. FallDue'
    BY <1>0, <1>2, <1>3 DEF LinkInv, FallDue, FallSaid
  <1>8. RiseDue'
    BY <1>0, <1>2 DEF LinkInv, RiseDue, Look
  <1>. QED BY <1>4, <1>5, <1>6, <1>7, <1>8 DEF LinkInv

\* What the read-modify-write of the flags loses is remembered as unseen.
LEMMA ClearKeeps ==
  ASSUME LinkInv, ClearFlag
  PROVE  LinkInv'
  <1>0. /\ chan \in Chan /\ word \in Chan /\ mon \in Place /\ NoWord \in Chan
        /\ link \in BOOLEAN /\ unseen \in BOOLEAN /\ word.flags \subseteq chan.flags
        /\ link' = link /\ lost' = lost /\ mode' = mode /\ nfc' = nfc /\ mon.do = "write"
    BY DEF LinkInv, LinkTypeOK, ClearFlag, NoWord, Chan, Mode, dsl, WordRead
  <1>1. chan' \in Chan /\ chan'.flags = word.flags \ {mon.for} /\ chan'.state = word.state
    BY <1>0 DEF ClearFlag, Chan
  <1>2. word' \in Chan /\ (mon'.do = "write" => word' = chan')
    BY <1>0, <1>1 DEF ClearFlag, Reads
  <1>3. /\ mon' \in Place /\ mon'.do \in {"look", "disable", "load", "write"}
        /\ mon'.do = "load" => "sdi_dpll_sync" \in chan'.flags
        /\ mon'.do = "write" => mon'.for # "sdi_dpll_sync"
    <2>1. CASE mon.for = "state_change"
      BY <1>1, <2>1, Goes DEF ClearFlag
    <2>2. CASE mon.for = "conn_state_change"
      BY <1>1, <2>2, Goes DEF ClearFlag
    <2>3. CASE mon.for \notin {"state_change", "conn_state_change"}
      BY <1>1, <2>3, Goes DEF ClearFlag
    <2>. QED BY <2>1, <2>2, <2>3
  <1>4. unseen' \in BOOLEAN /\ (~unseen' => ~unseen /\ ~Wiped(chan'))
    BY <1>0 DEF ClearFlag
  <1>5. /\ LinkTypeOK' /\ RateIsAsked' /\ SetUpIsAsked' /\ AppliedIsSetUp'
        /\ LastSaid' /\ NoSyncSaid' /\ NoSyncYet' /\ RateIsAgreed'
    BY <1>0, <1>1, <1>2, <1>3, <1>4, MonitorMoves DEF ClearFlag
  <1>6. CarrierOff' /\ CarrierOn' /\ WordRead'
    BY <1>2, <1>3 DEF CarrierOff, CarrierOn, WordRead, Do
  <1>7. (~unseen' /\ FallSaid) => FallSaid'
    BY <1>0, <1>1, <1>4 DEF FallSaid, Wiped
  <1>8. RestartDue'
    BY <1>0, <1>4, <1>7 DEF LinkInv, RestartDue
  <1>9. FallDue'
    BY <1>0, <1>1, <1>3, <1>4, <1>7 DEF LinkInv, FallDue
  <1>10. RiseDue'
    <2>1. mon.for = "sdi_dpll_sync" => link
      BY <1>0 DEF LinkInv, CarrierOn, Do, Place
    <2>. QED BY <1>0, <1>1, <1>4, <2>1 DEF LinkInv, RiseDue, Wiped
  <1>. QED BY <1>5, <1>6, <1>8, <1>9, <1>10 DEF LinkInv

\* The carrier comes up with the rate the chip has just told.
LEMMA UpKeeps ==
  ASSUME LinkInv, LinkUp
  PROVE  LinkInv'
  <1>0. /\ mon.do = "load" /\ nfc = << >> /\ mode' = mode /\ nfc' = nfc /\ offer' = offer
        /\ agreed' = agreed /\ chan' = chan /\ unseen' = unseen /\ stale' = stale /\ link' = TRUE
        /\ asked' = asked /\ caplist' = caplist /\ applied' = applied /\ RATE' = cfg'.rate
        /\ mon' = [do |-> "write", for |-> "sdi_dpll_sync"] /\ word' = chan
    BY DEF LinkUp, Answered, Reads, dsl, Do
  <1>1. /\ mode \in Mode /\ offer \in Rate /\ agreed \in Rate /\ nfc \in Seq(Mode \cup {"conn"})
        /\ Len(nfc) <= MaxNfc /\ chan \in Chan /\ cfg \in [rate : Rate, need_reconf : BOOLEAN]
        /\ asked \in Rate /\ caplist \in Rate /\ mon' \in Place
    BY <1>0 DEF LinkInv, LinkTypeOK, Place, Flag
  <1>2. cfg' \in [rate : Rate, need_reconf : BOOLEAN] /\ cfg'.need_reconf = cfg.need_reconf
        /\ (excused => excused') /\ (cfg'.rate = asked \/ excused')
        /\ (cfg'.rate = agreed \/ lost')
    <2>1. CASE cfg' = [cfg EXCEPT !.rate = agreed] /\ excused' = (excused \/ agreed # asked)
      BY <1>1, <2>1
    <2>2. CASE lost' = TRUE /\ cfg' = cfg /\ excused' = excused
      BY <1>1, <2>2 DEF LinkInv, RateIsAsked
    <2>. QED BY <2>1, <2>2 DEF LinkUp
  <1>3. unseen' \in BOOLEAN /\ stale' \in BOOLEAN /\ applied' \in BOOLEAN /\ link' \in BOOLEAN
        /\ lost' \in BOOLEAN /\ excused' \in BOOLEAN
    BY <1>0, Zenon DEF LinkInv, LinkTypeOK, LinkUp
  <1>4. LinkTypeOK'
    BY <1>0, <1>1, <1>2, <1>3 DEF LinkTypeOK
  <1>5. RateIsAsked' /\ SetUpIsAsked' /\ AppliedIsSetUp'
    BY <1>0, <1>2 DEF LinkInv, RateIsAsked, SetUpIsAsked, AppliedIsSetUp, Do
  <1>6. CarrierOff' /\ CarrierOn' /\ WordRead' /\ LastSaid' /\ NoSyncSaid'
    BY <1>0 DEF LinkInv, CarrierOff, CarrierOn, WordRead, LastSaid, NoSyncSaid
  <1>7. NoSyncYet' /\ RateIsAgreed'
    BY <1>0, <1>2 DEF LinkInv, NoSyncYet, RateIsAgreed
  <1>8. FallDue' /\ RestartDue' /\ RiseDue'
    BY <1>0 DEF LinkInv, FallDue, FallSaid, RestartDue, RiseDue
  <1>. QED BY <1>4, <1>5, <1>6, <1>7, <1>8 DEF LinkInv

\* The channel is stopped before it is set up again.
LEMMA DisableKeeps ==
  ASSUME LinkInv, Disable
  PROVE  LinkInv'
  <1>0. /\ nfc = << >> /\ offer' = offer /\ link' = FALSE /\ chan' = chan /\ unseen' = unseen
        /\ stale' = stale /\ agreed' = agreed
        /\ mon' = [do |-> "reset", for |-> "reconf"] /\ word' = word
    BY DEF Disable, Answered, Do
  <1>1. /\ mode' \in {mode, "init"} /\ (mode' # "init" => lost')
        /\ nfc' = nfc \/ (mode' = "init" /\ nfc' = Append(nfc, "init"))
    BY DEF Disable, Enters
  <1>2. /\ nfc' \in Seq(Event) /\ Len(nfc') <= MaxNfc
        /\ nfc' # << >> => nfc'[Len(nfc')] = mode' /\ mode' = "init"
    <2>1. CASE nfc' = nfc
      BY <1>0, <2>1 DEF LinkInv, LinkTypeOK, Event
    <2>2. CASE mode' = "init" /\ nfc' = Append(nfc, "init")
      <3>1. Len(nfc) < MaxNfc /\ "init" \in Event
        BY <1>0, LinkAssumption DEF Event, Mode
      <3>. QED BY <2>2, <3>1, SaidMore DEF LinkInv
    <2>. QED BY <1>1, <2>1, <2>2
  <1>3. mode' \in Mode /\ mon' \in Place
    BY <1>0, <1>1 DEF LinkInv, LinkTypeOK, Mode, Place
  <1>4. lost' \in BOOLEAN /\ link' \in BOOLEAN
    BY Zenon DEF LinkInv, LinkTypeOK, Disable
  <1>5. LinkTypeOK'
    BY <1>2, <1>3, <1>4 DEF LinkInv, LinkTypeOK, Disable, Event, user
  <1>6. RateIsAsked' /\ SetUpIsAsked' /\ AppliedIsSetUp'
    BY <1>0 DEF LinkInv, RateIsAsked, SetUpIsAsked, AppliedIsSetUp, Disable, Do, user
  <1>7. CarrierOff' /\ CarrierOn' /\ WordRead' /\ RateIsAgreed' /\ RestartDue' /\ RiseDue'
    BY <1>0 DEF CarrierOff, CarrierOn, WordRead, RateIsAgreed, RestartDue, RiseDue, Do
  <1>8. LastSaid' /\ NoSyncSaid'
    BY <1>2 DEF LastSaid, NoSyncSaid
  <1>9. NoSyncYet'
    BY <1>0, <1>1 DEF LinkInv, NoSyncYet
  <1>10. FallDue'
    <2>1. CASE mode = "init"
      BY <1>0, <1>1, <2>1 DEF LinkInv, FallDue, FallSaid
    <2>2. CASE mode # "init" /\ mode' = "init"
      <3>1. nfc' = Append(nfc, "init")
        BY <2>2 DEF Disable, Enters
      <3>2. nfc' # << >>
        BY <1>0, <3>1
      <3>. QED BY <3>2 DEF FallDue, FallSaid
    <2>3. CASE mode' # "init"
      BY <2>3 DEF FallDue
    <2>. QED BY <2>1, <2>2, <2>3
  <1>. QED BY <1>5, <1>6, <1>7, <1>8, <1>9, <1>10 DEF LinkInv

\* The flags go, and with them what the driver knew from before.
LEMMA ResetKeeps ==
  ASSUME LinkInv, sdfe4_reset_hwdev_chan
  PROVE  LinkInv'
  <1>0. /\ mon \in Place /\ mon.do = "reset" /\ ~link /\ mode' = mode /\ nfc' = nfc
        /\ offer' = offer /\ link' = link /\ chan' = [state |-> "init", flags |-> {}]
        /\ mon' = [do |-> "setup", for |-> mon.for] /\ word' = word /\ cfg' = cfg
        /\ asked' = asked /\ applied' = applied /\ excused' = excused /\ caplist' = caplist
    BY DEF LinkInv, LinkTypeOK, CarrierOff, sdfe4_reset_hwdev_chan, Do, dsl, user
  <1>1. chan' \in Chan /\ mon' \in Place
    BY <1>0 DEF Chan, Mode, Place
  <1>2. unseen' \in BOOLEAN /\ stale' \in BOOLEAN
    BY Zenon DEF LinkInv, LinkTypeOK, sdfe4_reset_hwdev_chan
  <1>3. LinkTypeOK'
    BY <1>1, <1>2 DEF LinkInv, LinkTypeOK, sdfe4_reset_hwdev_chan, dsl, user
  <1>4. RateIsAsked' /\ SetUpIsAsked' /\ AppliedIsSetUp'
    BY <1>0 DEF LinkInv, RateIsAsked, SetUpIsAsked, AppliedIsSetUp, Do
  <1>5. LastSaid' /\ NoSyncSaid'
    BY <1>0 DEF LinkInv, LastSaid, NoSyncSaid
  <1>6. CarrierOff' /\ CarrierOn' /\ WordRead' /\ NoSyncYet' /\ RateIsAgreed'
        /\ RestartDue' /\ FallDue' /\ RiseDue'
    BY <1>0 DEF CarrierOff, CarrierOn, WordRead, NoSyncYet, RateIsAgreed, RestartDue, FallDue,
       RiseDue, Do
  <1>. QED BY <1>3, <1>4, <1>5, <1>6 DEF LinkInv

\* The list has the rate of the settings, or the failure is noted.
LEMMA SetupModeKeeps ==
  ASSUME LinkInv, SetupMode
  PROVE  LinkInv'
  <1>0. /\ mon \in Place /\ mon.do = "setup" /\ ~link /\ mode' = mode /\ nfc' = nfc
        /\ link' = link /\ chan' = chan /\ word' = word /\ cfg' = cfg /\ asked' = asked
        /\ applied' = applied /\ unseen' = unseen /\ lost' = lost /\ stale' = stale
    BY DEF LinkInv, LinkTypeOK, CarrierOff, SetupMode, Answered, dsl, user
  <1>1. /\ offer' = offer /\ caplist' \in Rate /\ mon' \in Place /\ (excused => excused')
        /\ \/ mon' = [do |-> "caplist", for |-> mon.for] /\ caplist' = cfg.rate
           \/ mon' = [do |-> "start", for |-> mon.for] /\ excused'
    BY <1>0 DEF LinkInv, LinkTypeOK, SetupMode, Place, Do, dsl, user
  <1>2. excused' \in BOOLEAN
    BY Zenon DEF LinkInv, LinkTypeOK, SetupMode, user
  <1>3. LinkTypeOK'
    BY <1>0, <1>1, <1>2 DEF LinkInv, LinkTypeOK, SetupMode, dsl
  <1>4. RateIsAsked' /\ SetUpIsAsked' /\ AppliedIsSetUp'
    BY <1>0, <1>1 DEF LinkInv, RateIsAsked, SetUpIsAsked, AppliedIsSetUp, Place, Do
  <1>5. LastSaid' /\ NoSyncSaid'
    BY <1>0 DEF LinkInv, LastSaid, NoSyncSaid
  <1>6. CarrierOff' /\ CarrierOn' /\ WordRead' /\ NoSyncYet' /\ RateIsAgreed'
        /\ RestartDue' /\ FallDue' /\ RiseDue'
    BY <1>0, <1>1 DEF LinkInv, CarrierOff, CarrierOn, WordRead, NoSyncYet, RateIsAgreed,
       RestartDue, FallDue, FallSaid, RiseDue, Do
  <1>. QED BY <1>3, <1>4, <1>5, <1>6 DEF LinkInv

\* The chip gets the rate of the list, or the failure is noted.
LEMMA CaplistKeeps ==
  ASSUME LinkInv, SetupCaplist
  PROVE  LinkInv'
  <1>0. /\ mon \in Place /\ mon.do = "caplist" /\ ~link /\ mode' = mode /\ nfc' = nfc
        /\ link' = link /\ chan' = chan /\ word' = word /\ cfg' = cfg /\ asked' = asked
        /\ applied' = applied /\ unseen' = unseen /\ lost' = lost /\ stale' = stale
    BY DEF LinkInv, LinkTypeOK, CarrierOff, SetupCaplist, Answered, dsl, user
  <1>1. /\ offer' \in Rate /\ caplist' = caplist /\ mon' \in Place /\ (excused => excused')
        /\ mon'.do \in {"sdi", "start"} /\ mon'.for = mon.for
        /\ offer' = caplist \/ excused'
    BY <1>0 DEF LinkInv, LinkTypeOK, SetupCaplist, Place, Do, dsl, user
  <1>2. excused' \in BOOLEAN
    BY Zenon DEF LinkInv, LinkTypeOK, SetupCaplist, user
  <1>3. LinkTypeOK'
    BY <1>0, <1>1, <1>2 DEF LinkInv, LinkTypeOK, SetupCaplist, dsl
  <1>4. RateIsAsked' /\ SetUpIsAsked' /\ AppliedIsSetUp'
    BY <1>0, <1>1 DEF LinkInv, RateIsAsked, SetUpIsAsked, AppliedIsSetUp, Place, Do
  <1>5. LastSaid' /\ NoSyncSaid'
    BY <1>0 DEF LinkInv, LastSaid, NoSyncSaid
  <1>6. CarrierOff' /\ CarrierOn' /\ WordRead' /\ NoSyncYet' /\ RateIsAgreed'
        /\ RestartDue' /\ FallDue' /\ RiseDue'
    BY <1>0, <1>1 DEF LinkInv, CarrierOff, CarrierOn, WordRead, NoSyncYet, RateIsAgreed,
       RestartDue, FallDue, FallSaid, RiseDue, Do
  <1>. QED BY <1>3, <1>4, <1>5, <1>6 DEF LinkInv

\* The other commands leave the rate alone.
LEMMA SdiKeeps ==
  ASSUME LinkInv, SetupSdi
  PROVE  LinkInv'
  <1>0. /\ mon \in Place /\ mon.do = "sdi" /\ ~link /\ mode' = mode /\ nfc' = nfc
        /\ link' = link /\ chan' = chan /\ word' = word /\ cfg' = cfg /\ asked' = asked
        /\ applied' = applied /\ unseen' = unseen /\ lost' = lost /\ stale' = stale
    BY DEF LinkInv, LinkTypeOK, CarrierOff, SetupSdi, Answered, dsl, user
  <1>1. /\ offer' = offer /\ caplist' = caplist /\ excused' = excused
        /\ mon' \in Place /\ mon' = [do |-> "start", for |-> mon.for]
    BY <1>0 DEF LinkInv, LinkTypeOK, SetupSdi, Place, Do, dsl, user
  <1>2. excused' \in BOOLEAN
    BY Zenon DEF LinkInv, LinkTypeOK, SetupSdi, user
  <1>3. LinkTypeOK'
    BY <1>0, <1>1, <1>2 DEF LinkInv, LinkTypeOK, SetupSdi, dsl
  <1>4. RateIsAsked' /\ SetUpIsAsked' /\ AppliedIsSetUp'
    BY <1>0, <1>1 DEF LinkInv, RateIsAsked, SetUpIsAsked, AppliedIsSetUp, Place, Do
  <1>5. LastSaid' /\ NoSyncSaid'
    BY <1>0 DEF LinkInv, LastSaid, NoSyncSaid
  <1>6. CarrierOff' /\ CarrierOn' /\ WordRead' /\ NoSyncYet' /\ RateIsAgreed'
        /\ RestartDue' /\ FallDue' /\ RiseDue'
    BY <1>0, <1>1 DEF LinkInv, CarrierOff, CarrierOn, WordRead, NoSyncYet, RateIsAgreed,
       RestartDue, FallDue, FallSaid, RiseDue, Do
  <1>. QED BY <1>3, <1>4, <1>5, <1>6 DEF LinkInv

\* The chip starts with the carrier down and knows nothing of a working line.
LEMMA StartKeeps ==
  ASSUME LinkInv, sdfe4_start_channel
  PROVE  LinkInv'
  <1>0. /\ mon \in Place /\ mon.do = "start" /\ ~link /\ link' = link /\ nfc = << >>
        /\ chan' = chan /\ mon' = [do |-> "look", for |-> "init"] /\ offer' = offer
        /\ agreed' = agreed /\ asked' = asked /\ applied' = applied /\ excused' = excused
    BY DEF LinkInv, LinkTypeOK, CarrierOff, sdfe4_start_channel, Answered, Look, user
  <1>1. \/ /\ mode' = "act" /\ nfc' = Append(nfc, "act") /\ lost' = FALSE /\ unseen' = FALSE
           /\ stale' = ("sdi_dpll_sync" \in chan.flags)
        \/ lost' = TRUE /\ mode' = mode /\ nfc' = nfc /\ unseen' = unseen /\ stale' = stale
    BY DEF sdfe4_start_channel, Enters
  <1>2. /\ nfc' \in Seq(Event) /\ Len(nfc') <= MaxNfc
        /\ nfc' # << >> => nfc'[Len(nfc')] = mode' /\ mode' = "act"
        /\ \A k \in DOMAIN nfc' : nfc'[k] = "act"
    <2>1. CASE nfc' = nfc
      BY <1>0, <2>1 DEF LinkInv, LinkTypeOK, Event
    <2>2. CASE mode' = "act" /\ nfc' = Append(nfc, "act")
      <3>1. Len(nfc) < MaxNfc /\ "act" \in Event
        BY <1>0, LinkAssumption DEF Event, Mode
      <3>. QED BY <1>0, <2>2, <3>1, SaidMore DEF LinkInv
    <2>. QED BY <1>1, <2>1, <2>2
  <1>3. cfg' \in [rate : Rate, need_reconf : BOOLEAN] /\ cfg'.rate = cfg.rate
        /\ cfg'.need_reconf = (cfg.need_reconf /\ mon.for # "reconf")
    BY DEF LinkInv, LinkTypeOK, sdfe4_start_channel
  <1>4. lost' \in BOOLEAN /\ unseen' \in BOOLEAN /\ stale' \in BOOLEAN
    <2>1. lost \in BOOLEAN /\ unseen \in BOOLEAN /\ stale \in BOOLEAN
      BY DEF LinkInv, LinkTypeOK
    <2>2. CASE lost' = FALSE /\ unseen' = FALSE /\ stale' = ("sdi_dpll_sync" \in chan.flags)
      <3>1. stale' = TRUE \/ stale' = FALSE
        BY <2>2
      <3>. QED BY <2>2, <3>1
    <2>3. CASE lost' = TRUE /\ unseen' = unseen /\ stale' = stale
      BY <2>1, <2>3, Zenon
    <2>. QED BY <1>1, <2>2, <2>3
  <1>5. mon' \in Place /\ mode' \in Mode
    BY <1>0, <1>1 DEF LinkInv, LinkTypeOK, Place, Mode
  <1>6. LinkTypeOK'
    BY <1>2, <1>3, <1>4, <1>5 DEF LinkInv, LinkTypeOK, sdfe4_start_channel, Event, user
  <1>7. RateIsAsked' /\ SetUpIsAsked' /\ AppliedIsSetUp'
    BY <1>0, <1>3 DEF LinkInv, RateIsAsked, SetUpIsAsked, AppliedIsSetUp, Place, Do
  <1>8. LastSaid' /\ NoSyncSaid'
    BY <1>2 DEF LastSaid, NoSyncSaid
  <1>9. CarrierOff' /\ CarrierOn' /\ WordRead' /\ RateIsAgreed'
    BY <1>0 DEF CarrierOff, CarrierOn, WordRead, RateIsAgreed, Do
  <1>10. NoSyncYet'
    BY <1>0, <1>1 DEF LinkInv, NoSyncYet
  <1>11. RestartDue' /\ FallDue' /\ RiseDue'
    BY <1>0, <1>1 DEF LinkInv, RestartDue, FallDue, FallSaid, RiseDue
  <1>. QED BY <1>6, <1>7, <1>8, <1>9, <1>10, <1>11 DEF LinkInv

-----------------------------------------------------------------------------
(* The user.                                                               *)

\* A rate that is stored is not applied yet.
LEMMA StoreRateKeeps ==
  ASSUME LinkInv, store_rate
  PROVE  LinkInv'
  <1>1. PICK r \in Rate : cfg' = [cfg EXCEPT !.rate = r] /\ asked' = r
    BY DEF store_rate
  <1>2. applied' = FALSE /\ excused' = FALSE /\ cfg' \in [rate : Rate, need_reconf : BOOLEAN]
        /\ cfg'.rate = r
    BY <1>1 DEF LinkInv, LinkTypeOK, store_rate
  <1>3. LinkTypeOK'
    BY <1>1, <1>2 DEF LinkInv, LinkTypeOK, store_rate, dsl
  <1>4. RateIsAsked' /\ SetUpIsAsked' /\ AppliedIsSetUp'
    BY <1>1, <1>2 DEF RateIsAsked, SetUpIsAsked, AppliedIsSetUp
  <1>5. CarrierOff' /\ CarrierOn' /\ WordRead' /\ LastSaid' /\ NoSyncSaid' /\ NoSyncYet'
        /\ RateIsAgreed'
    BY DEF LinkInv, store_rate, CarrierOff, CarrierOn, WordRead, LastSaid, NoSyncSaid, NoSyncYet,
       RateIsAgreed, dsl
  <1>6. RestartDue' /\ FallDue' /\ RiseDue'
    BY DEF LinkInv, store_rate, RestartDue, FallDue, FallSaid, RiseDue, dsl
  <1>. QED BY <1>3, <1>4, <1>5, <1>6 DEF LinkInv

\* Settings applied under the monitor's start of the chip are excused.
LEMMA ApplyKeeps ==
  ASSUME LinkInv, store_apply_cfg
  PROVE  LinkInv'
  <1>1. cfg' \in [rate : Rate, need_reconf : BOOLEAN] /\ cfg'.rate = cfg.rate
        /\ cfg'.need_reconf = TRUE /\ asked' = asked
    BY DEF LinkInv, LinkTypeOK, store_apply_cfg
  <1>2. applied' \in BOOLEAN /\ excused' \in BOOLEAN
    BY Zenon DEF LinkInv, LinkTypeOK, store_apply_cfg
  <1>3. LinkTypeOK'
    BY <1>1, <1>2 DEF LinkInv, LinkTypeOK, store_apply_cfg, dsl
  <1>4. RateIsAsked' /\ SetUpIsAsked' /\ AppliedIsSetUp'
    <2>1. (mon.do = "caplist" /\ mon.for = "reconf") => TooLate
      BY DEF LinkInv, LinkTypeOK, Place, TooLate, Do
    <2>2. mon \in {Do("sdi", "reconf"), Do("start", "reconf")} => TooLate
      BY DEF TooLate
    <2>. QED
      BY <1>1, <2>1, <2>2 DEF LinkInv, RateIsAsked, SetUpIsAsked, AppliedIsSetUp, store_apply_cfg
  <1>5. CarrierOff' /\ CarrierOn' /\ WordRead' /\ LastSaid' /\ NoSyncSaid' /\ NoSyncYet'
        /\ RateIsAgreed'
    BY DEF LinkInv, store_apply_cfg, CarrierOff, CarrierOn, WordRead, LastSaid, NoSyncSaid,
       NoSyncYet,
       RateIsAgreed, dsl
  <1>6. RestartDue' /\ FallDue' /\ RiseDue'
    BY DEF LinkInv, store_apply_cfg, RestartDue, FallDue, FallSaid, RiseDue, dsl
  <1>. QED BY <1>3, <1>4, <1>5, <1>6 DEF LinkInv

\* The invariant of the monitor holds in every state.
THEOREM LinkInductive == LinkSpec => []LinkInv
  <1>1. LinkInv /\ [LinkNext]_linkVars => LinkInv'
    <2>. SUFFICES ASSUME LinkInv, [LinkNext]_linkVars PROVE LinkInv'
      OBVIOUS
    <2>1. CASE UNCHANGED linkVars
      BY <2>1 DEF LinkInv, linkVars, dsl, user, LinkTypeOK, RateIsAsked, SetUpIsAsked,
         AppliedIsSetUp,
         CarrierOff, CarrierOn, LastSaid, NoSyncSaid, NoSyncYet, RateIsAgreed, WordRead,
         RestartDue, FallDue, FallSaid, RiseDue
    <2>2. CASE Train \/ Fall \/ Condition \/ sdfe4_pamdsl_nfc
      BY <2>2, TrainKeeps, FallKeeps, ConditionKeeps, NfcKeeps
    <2>3. CASE Monitor
      BY <2>3, LookKeeps, ClearKeeps, UpKeeps, DisableKeeps, ResetKeeps,
         SetupModeKeeps, CaplistKeeps, SdiKeeps, StartKeeps DEF Monitor
    <2>4. CASE store_rate \/ store_apply_cfg
      BY <2>4, StoreRateKeeps, ApplyKeeps
    <2>. QED BY <2>1, <2>2, <2>3, <2>4 DEF LinkNext
  <1>. QED BY LinkInitHolds, <1>1, PTL DEF LinkSpec

\* Every variable keeps its type; in particular the state of a channel is
\* always a mode of the chip (sdfe4_lib.c 330-386).
THEOREM LinkTypeCorrect == LinkSpec => []LinkTypeOK
  <1>1. LinkInv => LinkTypeOK
    BY DEF LinkInv
  <1>. QED BY LinkInductive, <1>1, PTL

\* Settings that were applied are what the chip was set up with, or are one of
\* the named exceptions (sdfe4_lib.c 712-813, 929, 1020-1030, sg17sysfs.c 156, 220).
THEOREM SettingsReachChip == LinkSpec => []AppliedIsSetUp
  <1>1. LinkInv => AppliedIsSetUp
    BY DEF LinkInv
  <1>. QED BY LinkInductive, <1>1, PTL

\* The register of the line rate is right while the line works, or the chip did
\* not answer, or an old flag brought the carrier up (sdfe4_lib.c 986-989,
\* 1014-1018, sg17main.c 284).
THEOREM RegisterHasRate == LinkSpec => []RateIsAgreed
  <1>1. LinkInv => RateIsAgreed
    BY DEF LinkInv
  <1>. QED BY LinkInductive, <1>1, PTL

\* What the line does is never forgotten: the restart, the fall and the rise of
\* the carrier are due as long as the liveness properties Restarts, CarrierFalls
\* and CarrierRises still ask for them (sdfe4_lib.c 976-1023).
THEOREM LineIsFollowed == LinkSpec => [](RestartDue /\ FallDue /\ RiseDue)
  <1>1. LinkInv => RestartDue /\ FallDue /\ RiseDue
    BY DEF LinkInv
  <1>. QED BY LinkInductive, <1>1, PTL

=============================================================================
