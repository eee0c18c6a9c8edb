--------------------------- MODULE HydraTxProofs ---------------------------
(***************************************************************************)
(* Theorems of HydraTx, for any number of streams, messages and flushes,   *)
(* and a chip that may abort.                                              *)
(***************************************************************************)
EXTENDS HydraTx, SequenceTheorems, TLAPS

-----------------------------------------------------------------------------
(* The inductive invariant.                                                *)

Working == {"xmit", "fill", "start", "requeue"}

\* hydraxmit() works on a message of an open stream, for a caller it returns to.
PlaceInv ==
  /\ pc \in Working => mp \in Msgs /\ cur \in Streams /\ caller \in {"put", "intr"}
  /\ pc = "scan" => caller = "intr"

Waiting(s) == wq[s] # <<>>
Woken      == WakeupDue \/ aborted

\* A queue with messages has a wakeup due, unless transmit_interrupt() has yet to
\* come to it; hydraxmit() refuses a message only with a wakeup due.
WakeInv ==
  /\ pc \in {"idle", "ptx", "txe"} => \A s \in Streams : Waiting(s) => Woken
  /\ pc \in {"xmit", "fill", "start"} /\ caller = "put" =>
       \A s \in Streams : Waiting(s) => Woken
  /\ pc \in {"scan", "xmit", "fill", "start"} /\ caller = "intr" =>
       \A s \in Streams : s < cur /\ Waiting(s) => Woken
  /\ pc = "requeue" => Woken

\* The frames started that are no longer in the chip.
Ended == Len(started) - (IF txp THEN 1 ELSE 0)

\* The frames sent are those started at the places f.
Places(f, w, t, n) ==
  /\ f \in [1 .. Len(w) -> 1 .. n]
  /\ \A i \in 1 .. Len(w) : w[i] = t[f[i]]
  /\ \A i, j \in 1 .. Len(w) : i < j => f[i] < f[j]

\* The transmit pages are filled only while no transmission is in progress, and
\* the frame in them is sent at most once.
WireInv ==
  /\ txp => started # <<>> /\ txbuf = Last(started)
  /\ pc \in {"fill", "start"} => ~txp
  /\ pc = "start" => txbuf = mp
  /\ \E f : Places(f, wire, started, Ended)

TxInv == TypeOK /\ PlaceInv /\ WakeInv /\ WireInv

\* The queues are empty and the chip is idle at first.
LEMMA TxInit == Init => TxInv
<1> SUFFICES ASSUME Init PROVE TxInv
  OBVIOUS
<1>1. TypeOK /\ PlaceInv
  <2>1. \A S : <<>> \in Seq(S)
    BY EmptySeq
  <2>2. wq \in [Streams -> Seq(Msgs)]
    BY <2>1 DEF Init
  <2>3. puts \in [Streams -> 0 .. MaxPut] /\ flushed \in [Streams -> SUBSET Msgs]
    BY TxAssumption DEF Init
  <2>4. wire \in Seq(Msgs) /\ started \in Seq(Msgs)
    BY <2>1 DEF Init
  <2>5. cur \in 0 .. NStreams /\ flushes \in 0 .. MaxFlush
    BY TxAssumption DEF Init
  <2>6. TypeOK
    BY <2>2, <2>3, <2>4, <2>5 DEF Init, TypeOK
  <2> QED
    BY <2>6 DEF Init, PlaceInv, Working
<1>2. WakeInv
  BY DEF Init, WakeInv, Waiting
<1>3. Places([i \in 1 .. 0 |-> 0], wire, started, Ended)
  BY DEF Init, Places, Ended
<1>4. WireInv
  BY <1>3 DEF Init, WireInv
<1> QED
  BY <1>1, <1>2, <1>4 DEF TxInv

-----------------------------------------------------------------------------
(* The steps.                                                              *)

\* The chip ends a transmission.
LEMMA ChipStep ==
  ASSUME TxInv, TxDone \/ TxAbort
  PROVE  TxInv'
<1> USE DEF TxInv
<1>1. txp /\ ~txp' /\ UNCHANGED <<txbuf, cpuVars, puts, started, flushed, flushes>>
  BY DEF TxDone, TxAbort
<1>2. started # <<>> /\ txbuf = Last(started)
  BY <1>1 DEF WireInv
<1>3. Len(started) \in Nat \ {0} /\ txbuf \in Msgs /\ txbuf = started[Len(started)]
  BY <1>2, EmptySeq DEF TypeOK, Last
<1>4. TypeOK'
  <2>1. wire' \in Seq(Msgs)
    <3>1. wire' = wire \/ wire' = Append(wire, txbuf)
      BY DEF TxDone, TxAbort
    <3>2. wire \in Seq(Msgs)
      BY DEF TypeOK
    <3> QED
      BY <1>3, <3>1, <3>2, AppendProperties
  <2> QED
    BY <1>1, <2>1 DEF TxDone, TxAbort, TypeOK, cpuVars
<1>5. PlaceInv'
  BY <1>1 DEF PlaceInv, Msgs, cpuVars
<1>6. Woken'
  BY DEF TxDone, TxAbort, Woken, WakeupDue
<1>7. WakeInv'
  BY <1>6 DEF WakeInv
<1>8. PICK f : Places(f, wire, started, Len(started) - 1)
  BY <1>1, <1>3 DEF WireInv, Ended
<1>9. Ended' = Len(started)
  BY <1>1, <1>3 DEF Ended
<1>10. \E g : Places(g, wire', started, Len(started))
  <2>1. CASE TxAbort
    <3>1. Places(f, wire, started, Len(started))
      BY <1>3, <1>8 DEF Places
    <3> QED
      BY <2>1, <3>1 DEF TxAbort
  <2>2. CASE TxDone
    <3> DEFINE n == Len(wire)
               g == [i \in 1 .. n + 1 |-> IF i = n + 1 THEN Len(started) ELSE f[i]]
    <3>1. n \in Nat /\ Len(wire') = n + 1 /\ wire'[n + 1] = started[Len(started)]
          /\ \A i \in 1 .. n : wire'[i] = wire[i]
      BY <1>3, <2>2, AppendProperties, LenProperties DEF TxDone, TypeOK
    <3>2. \A i \in 1 .. n : f[i] \in 1 .. Len(started) - 1
      BY <1>8 DEF Places
    <3>3. g \in [1 .. n + 1 -> 1 .. Len(started)]
      BY <1>3, <3>1, <3>2
    <3>4. \A i \in 1 .. n + 1 : wire'[i] = started[g[i]]
      BY <1>8, <3>1 DEF Places
    <3>5. ASSUME NEW i \in 1 .. n + 1, NEW j \in 1 .. n + 1, i < j
          PROVE  g[i] < g[j]
      <4>1. i \in 1 .. n /\ g[i] = f[i]
        BY <3>1, <3>5
      <4>2. CASE j = n + 1
        <5>1. g[j] = Len(started) /\ f[i] \in 1 .. Len(started) - 1
          BY <3>1, <3>2, <4>1, <4>2
        <5> QED
          BY <1>3, <4>1, <5>1
      <4>3. CASE j # n + 1
        <5>1. j \in 1 .. n /\ g[j] = f[j]
          BY <3>1, <4>3
        <5>2. f[i] < f[j]
          BY <1>8, <3>5, <4>1, <5>1 DEF Places
        <5> QED
          BY <4>1, <5>1, <5>2
      <4> QED
        BY <4>2, <4>3
    <3>6. Places(g, wire', started, Len(started))
      BY <3>1, <3>3, <3>4, <3>5 DEF Places
    <3> QED
      BY <3>6
  <2> QED
    BY <2>1, <2>2
<1>11. WireInv'
  BY <1>1, <1>9, <1>10 DEF WireInv, cpuVars
<1> QED
  BY <1>4, <1>5, <1>7, <1>11

\* putq() and putbq(): a message put on a queue at either end.
LEMMA QueueKept ==
  ASSUME TypeOK, NEW s \in Streams, NEW m \in Msgs
  PROVE  /\ [wq EXCEPT ![s] = Append(@, m)] \in [Streams -> Seq(Msgs)]
         /\ [wq EXCEPT ![s] = <<m>> \o @] \in [Streams -> Seq(Msgs)]
<1>1. wq \in [Streams -> Seq(Msgs)] /\ wq[s] \in Seq(Msgs)
  BY DEF TypeOK
<1>2. Append(wq[s], m) \in Seq(Msgs) /\ <<m>> \o wq[s] \in Seq(Msgs)
  BY <1>1, AppendProperties, ConcatProperties
<1> QED
  BY <1>1, <1>2

\* hydrawput(): the queues it leaves alone or lengthens had their wakeup.
LEMMA UserStep ==
  ASSUME TxInv, User
  PROVE  TxInv'
<1> USE DEF TxInv
<1>1. ASSUME NEW s \in Streams, PutUnitdata(s) PROVE TxInv'
  <2>1. pc = "idle" /\ UNCHANGED <<chipVars, status, started, flushed, flushes, aborted>>
    BY <1>1 DEF PutUnitdata
  <2>2. Msg(s, puts[s] + 1) \in Msgs /\ puts' \in [Streams -> 0 .. MaxPut]
    BY <1>1, TxAssumption DEF PutUnitdata, Msg, Msgs, TypeOK
  <2>3. \/ /\ wq[s] # <<>> /\ wq' = [wq EXCEPT ![s] = Append(@, Msg(s, puts[s] + 1))]
           /\ UNCHANGED <<pc, caller, cur, mp>>
        \/ /\ pc' = "xmit" /\ caller' = "put" /\ cur' = s /\ mp' = Msg(s, puts[s] + 1)
           /\ wq' = wq
    BY <1>1 DEF PutUnitdata
  <2>4. wq' \in [Streams -> Seq(Msgs)]
    <3>1. [wq EXCEPT ![s] = Append(@, Msg(s, puts[s] + 1))] \in [Streams -> Seq(Msgs)]
      BY <2>2, QueueKept
    <3>2. wq \in [Streams -> Seq(Msgs)]
      BY DEF TypeOK
    <3> QED
      BY <2>3, <3>1, <3>2
  <2>5. TypeOK' /\ PlaceInv'
    <3>1. s \in 0 .. NStreams
      BY TxAssumption DEF Streams
    <3> QED
      BY <2>1, <2>2, <2>3, <2>4, <3>1 DEF TypeOK, PlaceInv, Working, chipVars
  <2>6. \A r \in Streams : Waiting(r)' => Waiting(r)
    BY <2>3 DEF Waiting, TypeOK
  <2>7. WakeInv'
    BY <2>1, <2>3, <2>6 DEF WakeInv, Woken, WakeupDue, Waiting, chipVars
  <2>8. WireInv'
    BY <2>1, <2>3 DEF WireInv, Ended, chipVars
  <2> QED
    BY <2>5, <2>7, <2>8
<1>2. ASSUME NEW s \in Streams, PutFlush(s) PROVE TxInv'
  <2>1. UNCHANGED <<chipVars, pc, caller, cur, mp, status, puts, started, aborted>>
        /\ pc = "idle" /\ wq' = [wq EXCEPT ![s] = <<>>]
    BY <1>2 DEF PutFlush
  <2>2. TypeOK' /\ PlaceInv'
    <3>1. wq' \in [Streams -> Seq(Msgs)]
      <4>1. <<>> \in Seq(Msgs)
        BY EmptySeq
      <4> QED
        BY <2>1, <4>1 DEF TypeOK
    <3>2. ToSet(wq[s]) \in SUBSET Msgs
      <4>1. wq[s] \in Seq(Msgs)
        BY DEF TypeOK
      <4> QED
        BY <4>1, ElementOfSeq, LenProperties DEF ToSet
    <3>3. flushed' \in [Streams -> SUBSET Msgs]
      BY <1>2, <3>2 DEF PutFlush, TypeOK
    <3>4. flushes' \in 0 .. MaxFlush
      BY <1>2, TxAssumption DEF PutFlush, TypeOK
    <3> QED
      BY <2>1, <3>1, <3>3, <3>4 DEF TypeOK, PlaceInv, chipVars
  <2>3. \A r \in Streams : Waiting(r)' => Waiting(r)
    BY <2>1 DEF Waiting, TypeOK
  <2>4. WakeInv' /\ WireInv'
    BY <2>1, <2>3 DEF WakeInv, Woken, WakeupDue, Waiting, WireInv, Ended, chipVars
  <2> QED
    BY <2>2, <2>4
<1> QED
  BY <1>1, <1>2 DEF User

\* hydraxmit() and what its callers do when it returns.
LEMMA XmitStep ==
  ASSUME TxInv, Xmit
  PROVE  TxInv'
<1> USE DEF TxInv
<1>1. ASSUME XmitBusy \/ XmitFree PROVE TxInv'
  <2>1. /\ UNCHANGED <<chipVars, wq, caller, cur, mp, status, histVars>>
        /\ pc = "xmit" /\ pc' \in {"requeue", "fill"}
    BY <1>1 DEF XmitBusy, XmitFree
  <2>2. (pc' = "requeue" => txp) /\ (pc' = "fill" => ~txp)
    BY <1>1 DEF XmitBusy, XmitFree
  <2>3. TypeOK' /\ PlaceInv'
    BY <2>1 DEF TypeOK, PlaceInv, Working, chipVars, histVars
  <2>4. WakeInv'
    BY <2>1, <2>2 DEF WakeInv, Woken, WakeupDue, Waiting, PlaceInv, Working, chipVars, histVars
  <2>5. WireInv'
    BY <2>1, <2>2 DEF WireInv, Ended, chipVars, histVars
  <2> QED
    BY <2>3, <2>4, <2>5
<1>2. ASSUME XmitFill PROVE TxInv'
  <2>1. UNCHANGED <<txp, isr, wire, wq, caller, cur, mp, status, histVars>>
        /\ pc = "fill" /\ pc' = "start" /\ txbuf' = mp
    BY <1>2 DEF XmitFill
  <2>2. TypeOK' /\ PlaceInv'
    BY <2>1 DEF TypeOK, PlaceInv, Working, histVars
  <2>3. WakeInv'
    BY <2>1 DEF WakeInv, Woken, WakeupDue, Waiting, histVars
  <2>4. WireInv'
    BY <2>1 DEF WireInv, Ended, histVars
  <2> QED
    BY <2>2, <2>3, <2>4
<1>3. ASSUME XmitStart PROVE TxInv'
  <2>1. UNCHANGED <<isr, txbuf, wire, wq, status, puts, flushed, flushes, aborted>>
        /\ pc = "start" /\ txp' = TRUE /\ started' = Append(started, mp) /\ mp' = NoMsg
    BY <1>3 DEF XmitStart
  <2>2. \/ pc' = "idle" /\ caller' = "none" /\ cur' = 0
        \/ pc' = "scan" /\ caller = "intr" /\ caller' = "intr" /\ cur' = cur + 1
    BY <1>3 DEF XmitStart, ReturnTo
  <2>3. mp \in Msgs /\ cur \in Streams /\ txbuf = mp /\ ~txp
    BY <2>1 DEF PlaceInv, Working, WireInv
  <2>4. started \in Seq(Msgs)
    BY DEF TypeOK
  <2>5. /\ Len(started) \in Nat /\ started' \in Seq(Msgs)
        /\ Len(started') = Len(started) + 1 /\ started'[Len(started')] = mp
        /\ \A i \in 1 .. Len(started) : started'[i] = started[i]
    BY <2>1, <2>3, <2>4, AppendProperties, LenProperties
  <2>6. TypeOK' /\ PlaceInv'
    <3>1. cur' \in 0 .. NStreams
      BY <2>2, <2>3, TxAssumption DEF Streams
    <3> QED
      BY <2>1, <2>2, <2>3, <2>5, <3>1 DEF TypeOK, PlaceInv, Working
  <2>7. WakeInv'
    BY <2>1, <2>2 DEF WakeInv, Woken, WakeupDue
  <2>8. started' # <<>> /\ txbuf' = Last(started')
    BY <2>1, <2>3, <2>5, EmptySeq DEF Last
  <2>9. PICK f : Places(f, wire, started, Len(started))
    BY <2>3, <2>5 DEF WireInv, Ended
  <2>10. \A i \in 1 .. Len(wire) : f[i] \in 1 .. Len(started)
    BY <2>9 DEF Places
  <2>11. Places(f, wire', started', Len(started))
    BY <2>1, <2>5, <2>9, <2>10 DEF Places
  <2>12. Ended' = Len(started)
    BY <2>1, <2>5 DEF Ended
  <2>13. WireInv'
    BY <2>1, <2>2, <2>8, <2>11, <2>12 DEF WireInv
  <2> QED
    BY <2>6, <2>7, <2>13
<1>4. ASSUME PutQ \/ PutBackQ PROVE TxInv'
  <2>1. UNCHANGED <<chipVars, status, histVars>> /\ pc = "requeue" /\ mp' = NoMsg
        /\ pc' \in {"idle", "txe"} /\ caller' = "none" /\ cur' = 0
    BY <1>4 DEF PutQ, PutBackQ, ReturnTo
  <2>2. mp \in Msgs /\ cur \in Streams
    BY <2>1 DEF PlaceInv, Working
  <2>3. wq' = [wq EXCEPT ![cur] = Append(@, mp)] \/ wq' = [wq EXCEPT ![cur] = <<mp>> \o @]
    BY <1>4 DEF PutQ, PutBackQ
  <2>4. wq' \in [Streams -> Seq(Msgs)]
    <3>1. [wq EXCEPT ![cur] = Append(@, mp)] \in [Streams -> Seq(Msgs)]
      BY <2>2, QueueKept
    <3>2. [wq EXCEPT ![cur] = <<mp>> \o @] \in [Streams -> Seq(Msgs)]
      BY <2>2, QueueKept
    <3> QED
      BY <2>3, <3>1, <3>2
  <2>5. TypeOK' /\ PlaceInv'
    BY <2>1, <2>4, TxAssumption DEF TypeOK, PlaceInv, Working, chipVars, histVars
  <2>6. WakeInv'
    BY <2>1 DEF WakeInv, Woken, WakeupDue, chipVars, histVars
  <2>7. WireInv'
    BY <2>1 DEF WireInv, Ended, chipVars, histVars
  <2> QED
    BY <2>5, <2>6, <2>7
<1> QED
  BY <1>1, <1>2, <1>3, <1>4 DEF Xmit

\* hydraintr(): PTX is acknowledged before the scan, which passes over empty queues.
LEMMA IntrStep ==
  ASSUME TxInv, Intr
  PROVE  TxInv'
<1> USE DEF TxInv
<1>1. ASSUME IntrRead \/ IntrNoPtx PROVE TxInv'
  <2>1. UNCHANGED <<chipVars, wq, caller, cur, mp, histVars>>
        /\ pc \in {"idle", "ptx"} /\ pc' \in {"ptx", "txe"} /\ status' \in {isr, status}
    BY <1>1 DEF IntrRead, IntrNoPtx
  <2> QED
    BY <2>1 DEF TypeOK, PlaceInv, Working, WakeInv, Woken, WakeupDue, Waiting, WireInv,
       Ended, chipVars, histVars
<1>2. ASSUME IntrPtx PROVE TxInv'
  <2>1. UNCHANGED <<txp, txbuf, wire, wq, mp, status, histVars>> /\ pc' = "scan"
        /\ isr' = isr \ {"PTX"} /\ caller' = "intr" /\ cur' = 0
    BY <1>2 DEF IntrPtx
  <2>2. TypeOK' /\ PlaceInv'
    BY <2>1, TxAssumption DEF TypeOK, PlaceInv, Working, histVars
  <2>3. WakeInv'
    BY <2>1 DEF WakeInv, Streams
  <2>4. WireInv'
    BY <2>1 DEF WireInv, Ended, histVars
  <2> QED
    BY <2>2, <2>3, <2>4
<1>3. ASSUME IntrTxe PROVE TxInv'
  <2>1. UNCHANGED <<txp, txbuf, wire, wq, caller, cur, mp, histVars>> /\ pc = "txe"
        /\ pc' = "idle" /\ isr' = isr \ (status \cap {"TXE"}) /\ status' = {}
    BY <1>3 DEF IntrTxe
  <2>2. TypeOK' /\ PlaceInv'
    BY <2>1 DEF TypeOK, PlaceInv, Working, histVars
  <2>3. WakeInv'
    BY <2>1 DEF WakeInv, Woken, WakeupDue, Waiting, histVars
  <2>4. WireInv'
    BY <2>1 DEF WireInv, Ended, histVars
  <2> QED
    BY <2>2, <2>3, <2>4
<1>4. ASSUME ScanNext PROVE TxInv'
  <2>1. pc = "scan" /\ cur \in Streams /\ UNCHANGED <<chipVars, caller, status, histVars>>
        /\ caller = "intr"
    BY <1>4 DEF ScanNext, PlaceInv
  <2>2. CASE wq[cur] = <<>>
    <3>1. cur' = cur + 1 /\ UNCHANGED <<wq, pc, mp>>
      BY <1>4, <2>2 DEF ScanNext
    <3>2. cur' \in 0 .. NStreams
      BY <2>1, <3>1, TxAssumption DEF Streams
    <3>3. TypeOK' /\ PlaceInv'
      BY <2>1, <3>1, <3>2 DEF TypeOK, PlaceInv, Working, chipVars, histVars
    <3>4. \A s \in Streams : s < cur' /\ Waiting(s) => s < cur
      BY <2>1, <2>2, <3>1, TxAssumption DEF Streams, Waiting
    <3>5. WakeInv' /\ WireInv'
      BY <2>1, <3>1, <3>4 DEF WakeInv, Woken, WakeupDue, Waiting, WireInv, Ended,
         chipVars, histVars
    <3> QED
      BY <3>3, <3>5
  <2>3. CASE wq[cur] # <<>>
    <3>1. mp' = Head(wq[cur]) /\ wq' = [wq EXCEPT ![cur] = Tail(@)] /\ pc' = "xmit" /\ cur' = cur
      BY <1>4, <2>3 DEF ScanNext
    <3>2. mp' \in Msgs /\ wq' \in [Streams -> Seq(Msgs)]
      <4>1. wq[cur] \in Seq(Msgs)
        BY <2>1 DEF TypeOK
      <4>2. Head(wq[cur]) \in Msgs /\ Tail(wq[cur]) \in Seq(Msgs)
        BY <2>3, <4>1, HeadTailProperties
      <4> QED
        BY <3>1, <4>2 DEF TypeOK
    <3>3. TypeOK' /\ PlaceInv'
      BY <2>1, <3>1, <3>2 DEF TypeOK, PlaceInv, Working, chipVars, histVars
    <3>4. \A s \in Streams : s < cur => wq'[s] = wq[s]
      BY <2>1, <3>1, TxAssumption DEF Streams, TypeOK
    <3>5. WakeInv'
      BY <2>1, <3>1, <3>4 DEF WakeInv, Woken, WakeupDue, Waiting, chipVars, histVars
    <3>6. WireInv'
      BY <2>1, <3>1 DEF WireInv, Ended, chipVars, histVars
    <3> QED
      BY <3>3, <3>5, <3>6
  <2> QED
    BY <2>2, <2>3
<1>5. ASSUME ScanEnd PROVE TxInv'
  <2>1. pc = "scan" /\ cur \notin Streams /\ UNCHANGED <<chipVars, wq, mp, status, histVars>>
        /\ pc' = "txe" /\ caller' = "none" /\ cur' = 0 /\ caller = "intr"
    BY <1>5 DEF ScanEnd, ReturnTo, PlaceInv
  <2>2. \A s \in Streams : s < cur
    BY <2>1, TxAssumption DEF Streams, TypeOK
  <2>3. TypeOK' /\ PlaceInv'
    BY <2>1, TxAssumption DEF TypeOK, PlaceInv, Working, chipVars, histVars
  <2>4. WakeInv'
    BY <2>1, <2>2 DEF WakeInv, Woken, WakeupDue, Waiting, chipVars, histVars
  <2>5. WireInv'
    BY <2>1 DEF WireInv, Ended, chipVars, histVars
  <2> QED
    BY <2>3, <2>4, <2>5
<1> QED
  BY <1>1, <1>2, <1>3, <1>4, <1>5 DEF Intr

\* Every step keeps the invariant.
LEMMA TxStep == TxInv /\ [Next]_vars => TxInv'
<1> SUFFICES ASSUME TxInv, [Next]_vars PROVE TxInv'
  OBVIOUS
<1>1. ASSUME Done \/ UNCHANGED vars PROVE TxInv'
  <2>1. UNCHANGED <<chipVars, cpuVars, histVars>>
    BY <1>1 DEF Done, vars
  <2> QED
    BY <2>1 DEF TxInv, TypeOK, PlaceInv, WakeInv, Woken, WakeupDue, Waiting, WireInv,
       Ended, chipVars, cpuVars, histVars
<1> QED
  BY <1>1, ChipStep, UserStep, XmitStep, IntrStep DEF Next

LEMMA TxAlways == Spec => []TxInv
BY TxInit, TxStep, PTL DEF Spec

-----------------------------------------------------------------------------
(* The theorems.                                                           *)

\* The queues, the message hydraxmit() works on and the transmit pages hold
\* messages of open streams, whatever is put, flushed or aborted.
THEOREM TypeCorrect == Spec => []TypeOK
<1>1. TxInv => TypeOK
  BY DEF TxInv
<1> QED
  BY <1>1, TxAlways, PTL

\* Between calls a message waits on a queue only while a PTX is due that will have
\* transmit_interrupt() scan it, for any number of streams.
THEOREM WakeupKept == Spec => []QueueHasWakeup
<1>1. TxInv => QueueHasWakeup
  BY DEF TxInv, WakeInv, Waiting, Woken, QueueHasWakeup
<1> QED
  BY <1>1, TxAlways, PTL

\* hydraxmit() never fills the transmit pages under a transmission, and what goes
\* out are frames it started, each at most once and in that order.
THEOREM WireKept == Spec => []WireMatchesStarted
<1>1. ASSUME TxInv PROVE WireMatchesStarted
  <2>1. PICK f : Places(f, wire, started, Ended)
    BY <1>1 DEF TxInv, WireInv
  <2>2. Ended \in Int /\ Ended =< Len(started)
    BY <1>1, LenProperties DEF TxInv, TypeOK, Ended
  <2>3. f \in [1 .. Len(wire) -> 1 .. Len(started)]
    BY <1>1, <2>1, <2>2, LenProperties DEF TxInv, TypeOK, Places
  <2>4. txp => started # <<>> /\ txbuf = Last(started)
    BY <1>1 DEF TxInv, WireInv
  <2> QED
    BY <2>1, <2>3, <2>4 DEF Places, WireMatchesStarted
<1> QED
  BY <1>1, TxAlways, PTL

-----------------------------------------------------------------------------
(* The order of a stream's messages.                                       *)

\* hydraxmit() holds a message of the stream it works for only while it works,
\* and hydraproto() calls it only when nothing waits on that stream.
HoldInv ==
  /\ pc \in Working => mp.stream = cur
  /\ pc \notin Working => mp = NoMsg
  /\ pc \in Working /\ caller = "put" => wq[cur] = <<>>

\* The messages of stream s among t come in the order put, all before the n-th.
Rising(s, t) ==
  \A i, j \in 1 .. Len(t) :
    i < j /\ t[i].stream = s /\ t[j].stream = s => t[i].nth < t[j].nth
Below(s, t, n) == \A i \in 1 .. Len(t) : t[i].stream = s => t[i].nth < n

\* t are the frames started, m is the message held and q the queue of stream s.
InOrder(s, t, m, q) ==
  /\ \A j \in 1 .. Len(q) : q[j].stream = s /\ Below(s, t, q[j].nth)
  /\ m.stream = s => Below(s, t, m.nth) /\ \A j \in 1 .. Len(q) : m.nth < q[j].nth
  /\ Rising(s, t) /\ Rising(s, q)

\* Of the p messages put on stream s those in F were flushed.
Live(m, p, F) == m.nth <= p /\ m \notin F
Place(n, s, t, m, q) ==
  \/ m = Msg(s, n)
  \/ \E i \in 1 .. Len(t) : t[i] = Msg(s, n)
  \/ \E j \in 1 .. Len(q) : q[j] = Msg(s, n)
Complete(s, t, m, q, p, F) ==
  /\ \A i \in 1 .. Len(t) : t[i].stream = s => Live(t[i], p, F)
  /\ m.stream = s => Live(m, p, F)
  /\ \A j \in 1 .. Len(q) : Live(q[j], p, F)
  /\ \A f \in F : f.nth <= p
  /\ \A n \in 1 .. p : Msg(s, n) \in F \/ Place(n, s, t, m, q)

Kept(s, t, m, q, p, F) == InOrder(s, t, m, q) /\ Complete(s, t, m, q, p, F)

OrderInv ==
  /\ HoldInv
  /\ \A s \in Streams : Kept(s, started, mp, wq[s], puts[s], flushed[s])

LEMMA MsgNumbers ==
  ASSUME NEW t \in Seq(Msgs), NEW i \in 1 .. Len(t)
  PROVE  t[i] \in Msgs /\ t[i].nth \in Nat
<1>1. t[i] \in Msgs
  BY ElementOfSeq
<1> QED
  BY <1>1 DEF Msgs

\* The message held may change for one that is not of the stream either.
LEMMA OtherHeld ==
  ASSUME NEW s \in Streams, NEW t, NEW q, NEW p, NEW F, NEW m, NEW w,
         m.stream # s, w.stream # s, Kept(s, t, m, q, p, F)
  PROVE  Kept(s, t, w, q, p, F)
<1>1. InOrder(s, t, w, q)
  BY DEF Kept, InOrder
<1>2. \A n : m # Msg(s, n)
  BY DEF Msg
<1>3. \A n : Place(n, s, t, m, q) => Place(n, s, t, w, q)
  BY <1>2 DEF Place
<1>4. Complete(s, t, w, q, p, F)
  BY <1>3 DEF Kept, Complete
<1> QED
  BY <1>1, <1>4 DEF Kept

\* A message is put when none is held: it waits behind the queue.
LEMMA PutBehind ==
  ASSUME NEW s \in Streams, NEW t \in Seq(Msgs), NEW q \in Seq(Msgs), NEW p \in Nat,
         NEW F \in SUBSET Msgs, Kept(s, t, NoMsg, q, p, F)
  PROVE  Kept(s, t, NoMsg, Append(q, Msg(s, p + 1)), p + 1, F)
<1> DEFINE w == Msg(s, p + 1)
           r == Append(q, w)
<1>1. w \in Msgs /\ w.stream = s /\ w.nth = p + 1 /\ NoMsg.stream # s
  BY TxAssumption DEF Msg, Msgs, NoMsg, Streams
<1>2. /\ Len(q) \in Nat /\ Len(r) = Len(q) + 1 /\ r[Len(q) + 1] = w
      /\ \A i \in 1 .. Len(q) : r[i] = q[i]
  BY <1>1, AppendProperties, LenProperties
<1>3. \A i \in 1 .. Len(t) : t[i].nth \in Nat
  BY MsgNumbers
<1>4. \A i \in 1 .. Len(q) : q[i].nth \in Nat
  BY MsgNumbers
<1>5. \A f \in F : f.nth \in Nat
  BY DEF Msgs
<1> HIDE DEF w, r
<1>6. /\ \A i \in 1 .. Len(t) : t[i].stream = s => t[i].nth <= p /\ t[i] \notin F
      /\ \A i \in 1 .. Len(q) : q[i].nth <= p /\ q[i] \notin F
      /\ \A f \in F : f.nth <= p
  BY DEF Kept, Complete, Live
<1>7. \A j \in 1 .. Len(r) : j \in 1 .. Len(q) \/ j = Len(q) + 1
  BY <1>2
<1>8. InOrder(s, t, NoMsg, r)
  <2>1. Below(s, t, w.nth)
    BY <1>1, <1>3, <1>6 DEF Below
  <2>2. \A j \in 1 .. Len(r) : r[j].stream = s /\ Below(s, t, r[j].nth)
    BY <1>1, <1>2, <1>7, <2>1 DEF Kept, InOrder
  <2>3. ASSUME NEW i \in 1 .. Len(r), NEW j \in 1 .. Len(r), i < j
        PROVE  r[i].nth < r[j].nth
    <3>1. i \in 1 .. Len(q)
      BY <1>2, <2>3
    <3>2. CASE j = Len(q) + 1
      BY <1>1, <1>2, <1>4, <1>6, <3>1, <3>2
    <3>3. CASE j \in 1 .. Len(q)
      <4>1. q[i].stream = s /\ q[j].stream = s /\ Rising(s, q)
        BY <3>1, <3>3 DEF Kept, InOrder
      <4> QED
        BY <1>2, <2>3, <3>1, <3>3, <4>1 DEF Rising
    <3> QED
      BY <1>7, <3>2, <3>3
  <2> QED
    BY <1>1, <2>2, <2>3 DEF Kept, InOrder, Rising
<1>9. Complete(s, t, NoMsg, r, p + 1, F)
  <2>1. w \notin F
    BY <1>1, <1>5, <1>6
  <2>2. \A j \in 1 .. Len(r) : Live(r[j], p + 1, F)
    <3>1. Live(w, p + 1, F)
      BY <1>1, <2>1 DEF Live
    <3>2. \A j \in 1 .. Len(q) : Live(q[j], p + 1, F)
      BY <1>4, <1>6 DEF Live
    <3> QED
      BY <1>2, <1>7, <3>1, <3>2
  <2>3. ASSUME NEW n \in 1 .. p + 1 PROVE Msg(s, n) \in F \/ Place(n, s, t, NoMsg, r)
    <3>1. CASE n = p + 1
      <4>1. Len(q) + 1 \in 1 .. Len(r) /\ r[Len(q) + 1] = Msg(s, n)
        BY <1>2, <3>1 DEF w
      <4> QED
        BY <4>1 DEF Place
    <3>2. CASE n \in 1 .. p
      <4>1. Msg(s, n) \in F \/ Place(n, s, t, NoMsg, q)
        BY <3>2 DEF Kept, Complete
      <4>2. \A j \in 1 .. Len(q) : j \in 1 .. Len(r) /\ r[j] = q[j]
        BY <1>2
      <4> QED
        BY <4>1, <4>2 DEF Place
    <3> QED
      BY <3>1, <3>2
  <2>4. \A i \in 1 .. Len(t) : t[i].stream = s => Live(t[i], p + 1, F)
    BY <1>3, <1>6 DEF Live
  <2>5. \A f \in F : f.nth <= p + 1
    BY <1>5, <1>6
  <2> QED
    BY <1>1, <2>2, <2>3, <2>4, <2>5 DEF Complete
<1> QED
  BY <1>8, <1>9 DEF Kept, r, w

\* getq(): the first message of the queue is held instead.
LEMMA TakeFirst ==
  ASSUME NEW s \in Streams, NEW t \in Seq(Msgs), NEW q \in Seq(Msgs), NEW p \in Nat,
         NEW F \in SUBSET Msgs, Kept(s, t, NoMsg, q, p, F), q # <<>>
  PROVE  Head(q).stream = s /\ Kept(s, t, Head(q), Tail(q), p, F)
<1> DEFINE r == Tail(q)
<1>1. /\ Len(q) \in Nat \ {0} /\ Len(r) = Len(q) - 1 /\ Head(q) = q[1]
      /\ \A i \in 1 .. Len(r) : r[i] = q[i + 1]
  BY EmptySeq, HeadTailProperties, LenProperties
<1> HIDE DEF r
<1>2. 1 \in 1 .. Len(q) /\ \A i \in 1 .. Len(r) : i + 1 \in 1 .. Len(q) /\ 1 < i + 1
  BY <1>1
<1>3. \A j \in 1 .. Len(q) : q[j].stream = s /\ Below(s, t, q[j].nth) /\ Live(q[j], p, F)
  BY DEF Kept, InOrder, Complete
<1>4. Rising(s, q) /\ Rising(s, t)
  BY DEF Kept, InOrder
<1>5. InOrder(s, t, q[1], r)
  <2>1. \A j \in 1 .. Len(r) : q[1].nth < r[j].nth
    BY <1>1, <1>2, <1>3, <1>4 DEF Rising
  <2>2. Rising(s, r)
    <3> SUFFICES ASSUME NEW i \in 1 .. Len(r), NEW j \in 1 .. Len(r), i < j
                 PROVE  r[i].nth < r[j].nth
      BY DEF Rising
    <3>1. i + 1 < j + 1 /\ i + 1 \in 1 .. Len(q) /\ j + 1 \in 1 .. Len(q)
      BY <1>2
    <3> QED
      BY <1>1, <1>3, <1>4, <3>1 DEF Rising
  <2> QED
    BY <1>1, <1>2, <1>3, <1>4, <2>1, <2>2 DEF InOrder
<1>6. Complete(s, t, q[1], r, p, F)
  <2>1. ASSUME NEW n \in 1 .. p, Place(n, s, t, NoMsg, q) PROVE Place(n, s, t, q[1], r)
    <3>1. NoMsg # Msg(s, n)
      BY TxAssumption DEF NoMsg, Msg, Streams
    <3>2. ASSUME NEW j \in 1 .. Len(q), q[j] = Msg(s, n) PROVE Place(n, s, t, q[1], r)
      <4>1. CASE j = 1
        BY <3>2, <4>1 DEF Place
      <4>2. CASE j # 1
        <5>1. j - 1 \in 1 .. Len(r) /\ (j - 1) + 1 = j
          BY <1>1, <4>2
        <5>2. r[j - 1] = q[j]
          BY <1>1, <5>1
        <5> QED
          BY <3>2, <5>1, <5>2 DEF Place
      <4> QED
        BY <4>1, <4>2
    <3> QED
      BY <2>1, <3>1, <3>2 DEF Place
  <2> QED
    BY <1>1, <1>2, <1>3, <2>1 DEF Kept, Complete
<1> QED
  BY <1>1, <1>2, <1>3, <1>5, <1>6 DEF Kept, r

\* putbq(), and putq() on an empty queue: the message held goes in front.
LEMMA PutBack ==
  ASSUME NEW s \in Streams, NEW t \in Seq(Msgs), NEW q \in Seq(Msgs), NEW p \in Nat,
         NEW F \in SUBSET Msgs, NEW m \in Msgs, m.stream = s, Kept(s, t, m, q, p, F)
  PROVE  Kept(s, t, NoMsg, <<m>> \o q, p, F)
<1> DEFINE r == <<m>> \o q
<1>1. /\ Len(q) \in Nat /\ Len(r) = Len(q) + 1 /\ r[1] = m
      /\ \A i \in 1 .. Len(q) : r[i + 1] = q[i]
  <2>1. <<m>> \in Seq(Msgs) /\ Len(<<m>>) = 1 /\ <<m>>[1] = m /\ Len(q) \in Nat
    BY LenProperties
  <2>2. /\ Len(r) = 1 + Len(q)
        /\ \A i \in 1 .. 1 + Len(q) : r[i] = IF i <= 1 THEN <<m>>[i] ELSE q[i - 1]
    BY <2>1, ConcatProperties
  <2> HIDE DEF r
  <2>3. r[1] = m
    BY <2>1, <2>2
  <2>4. ASSUME NEW i \in 1 .. Len(q) PROVE r[i + 1] = q[i]
    <3>1. i + 1 \in 1 .. 1 + Len(q) /\ ~(i + 1 <= 1) /\ (i + 1) - 1 = i
      BY <2>1
    <3>2. r[i + 1] = q[(i + 1) - 1]
      BY <2>2, <3>1
    <3> QED
      BY <3>1, <3>2
  <2> QED
    BY <2>1, <2>2, <2>3, <2>4
<1> HIDE DEF r
<1>2. ASSUME NEW j \in 1 .. Len(r) PROVE j = 1 \/ (j - 1 \in 1 .. Len(q) /\ r[j] = q[j - 1])
  <2>1. j = 1 \/ (j - 1 \in 1 .. Len(q) /\ (j - 1) + 1 = j)
    BY <1>1
  <2> QED
    BY <1>1, <2>1
<1>3. NoMsg.stream # s
  BY TxAssumption DEF NoMsg, Streams
<1>4. InOrder(s, t, NoMsg, r)
  <2>1. \A j \in 1 .. Len(r) : r[j].stream = s /\ Below(s, t, r[j].nth)
    BY <1>1, <1>2 DEF Kept, InOrder
  <2>2. ASSUME NEW i \in 1 .. Len(r), NEW j \in 1 .. Len(r), i < j
        PROVE  r[i].nth < r[j].nth
    <3>1. j - 1 \in 1 .. Len(q) /\ r[j] = q[j - 1]
      <4>1. j # 1
        BY <1>1, <2>2
      <4> QED
        BY <1>2, <4>1
    <3>2. CASE i = 1
      BY <1>1, <3>1, <3>2 DEF Kept, InOrder
    <3>3. CASE i # 1
      <4>1. i - 1 \in 1 .. Len(q) /\ r[i] = q[i - 1]
        BY <1>2, <3>3
      <4>2. i - 1 < j - 1
        BY <1>1, <2>2
      <4>3. q[i - 1].stream = s /\ q[j - 1].stream = s /\ Rising(s, q)
        BY <3>1, <4>1 DEF Kept, InOrder
      <4> QED
        BY <3>1, <4>1, <4>2, <4>3 DEF Rising
    <3> QED
      BY <3>2, <3>3
  <2> QED
    BY <1>3, <2>1, <2>2 DEF Kept, InOrder, Rising
<1>5. Complete(s, t, NoMsg, r, p, F)
  <2>1. \A j \in 1 .. Len(r) : Live(r[j], p, F)
    BY <1>1, <1>2 DEF Kept, Complete
  <2>2. ASSUME NEW n \in 1 .. p, Place(n, s, t, m, q) PROVE Place(n, s, t, NoMsg, r)
    <3>1. CASE m = Msg(s, n)
      <4>1. 1 \in 1 .. Len(r)
        BY <1>1
      <4> QED
        BY <1>1, <3>1, <4>1 DEF Place
    <3>2. ASSUME NEW j \in 1 .. Len(q), q[j] = Msg(s, n) PROVE Place(n, s, t, NoMsg, r)
      <4>1. j + 1 \in 1 .. Len(r) /\ r[j + 1] = Msg(s, n)
        BY <1>1, <3>2
      <4> QED
        BY <4>1 DEF Place
    <3> QED
      BY <2>2, <3>1, <3>2 DEF Place
  <2> QED
    BY <1>3, <2>1, <2>2 DEF Kept, Complete
<1> QED
  BY <1>4, <1>5 DEF Kept, r

\* TXP is written: the message held, of this stream or another, is started.
LEMMA Start ==
  ASSUME NEW s \in Streams, NEW t \in Seq(Msgs), NEW q \in Seq(Msgs), NEW p \in Nat,
         NEW F \in SUBSET Msgs, NEW m \in Msgs, Kept(s, t, m, q, p, F)
  PROVE  Kept(s, Append(t, m), NoMsg, q, p, F)
<1> DEFINE u == Append(t, m)
<1>1. /\ Len(t) \in Nat /\ Len(u) = Len(t) + 1 /\ u[Len(t) + 1] = m
      /\ \A i \in 1 .. Len(t) : u[i] = t[i]
  BY AppendProperties, LenProperties
<1> HIDE DEF u
<1>2. \A j \in 1 .. Len(u) : j \in 1 .. Len(t) \/ j = Len(t) + 1
  BY <1>1
<1>3. NoMsg.stream # s
  BY TxAssumption DEF NoMsg, Streams
<1>4. InOrder(s, u, NoMsg, q)
  <2>1. \A j \in 1 .. Len(q) : q[j].stream = s /\ Below(s, u, q[j].nth)
    BY <1>1, <1>2 DEF Kept, InOrder, Below
  <2>2. ASSUME NEW i \in 1 .. Len(u), NEW j \in 1 .. Len(u), i < j,
               u[i].stream = s, u[j].stream = s
        PROVE  u[i].nth < u[j].nth
    <3>1. i \in 1 .. Len(t)
      BY <1>1, <2>2
    <3>2. CASE j = Len(t) + 1
      BY <1>1, <2>2, <3>1, <3>2 DEF Kept, InOrder, Below
    <3>3. CASE j \in 1 .. Len(t)
      BY <1>1, <2>2, <3>1, <3>3 DEF Kept, InOrder, Rising
    <3> QED
      BY <1>2, <3>2, <3>3
  <2> QED
    BY <1>3, <2>1, <2>2 DEF Kept, InOrder, Rising
<1>5. Complete(s, u, NoMsg, q, p, F)
  <2>1. \A i \in 1 .. Len(u) : u[i].stream = s => Live(u[i], p, F)
    BY <1>1, <1>2 DEF Kept, Complete
  <2>2. ASSUME NEW n \in 1 .. p, Place(n, s, t, m, q) PROVE Place(n, s, u, NoMsg, q)
    <3>1. \A i \in 1 .. Len(t) : i \in 1 .. Len(u)
      BY <1>1
    <3>2. Len(t) + 1 \in 1 .. Len(u)
      BY <1>1
    <3> QED
      BY <1>1, <2>2, <3>1, <3>2 DEF Place
  <2> QED
    BY <1>3, <2>1, <2>2 DEF Kept, Complete
<1> QED
  BY <1>4, <1>5 DEF Kept, u

\* M_FLUSH: the queue is emptied, the messages on it count as flushed.
LEMMA Flush ==
  ASSUME NEW s \in Streams, NEW t \in Seq(Msgs), NEW q \in Seq(Msgs), NEW p \in Nat,
         NEW F \in SUBSET Msgs, Kept(s, t, NoMsg, q, p, F)
  PROVE  Kept(s, t, NoMsg, <<>>, p, F \cup ToSet(q))
<1>1. NoMsg.stream # s
  BY TxAssumption DEF NoMsg, Streams
<1>2. ToSet(q) = {q[j] : j \in 1 .. Len(q)}
  BY LenProperties DEF ToSet
<1>3. \A i \in 1 .. Len(t) : t[i].nth \in Nat
  BY MsgNumbers
<1>4. Len(<<>>) = 0
  OBVIOUS
<1>5. InOrder(s, t, NoMsg, <<>>)
  BY <1>1, <1>4 DEF Kept, InOrder, Rising
<1>6. Complete(s, t, NoMsg, <<>>, p, F \cup ToSet(q))
  <2>1. ASSUME NEW i \in 1 .. Len(t), t[i].stream = s PROVE Live(t[i], p, F \cup ToSet(q))
    <3>1. \A j \in 1 .. Len(q) : t[i].nth < q[j].nth
      BY <2>1 DEF Kept, InOrder, Below
    <3>2. \A j \in 1 .. Len(q) : t[i] # q[j]
      BY <1>3, <3>1
    <3> QED
      BY <1>2, <2>1, <3>2 DEF Kept, Complete, Live
  <2>2. \A f \in F \cup ToSet(q) : f.nth <= p
    BY <1>2 DEF Kept, Complete, Live
  <2>3. ASSUME NEW n \in 1 .. p
        PROVE  Msg(s, n) \in F \cup ToSet(q) \/ Place(n, s, t, NoMsg, <<>>)
    BY <1>2 DEF Kept, Complete, Place
  <2>4. \A j \in 1 .. Len(<<>>) : Live(<<>>[j], p, F \cup ToSet(q))
    BY <1>4
  <2> HIDE DEF Live
  <2> QED
    BY <1>1, <2>1, <2>2, <2>3, <2>4 DEF Complete
<1> QED
  BY <1>5, <1>6 DEF Kept

LEMMA OrderInit == Init => OrderInv
<1> SUFFICES ASSUME Init PROVE OrderInv
  OBVIOUS
<1>1. HoldInv
  BY DEF Init, HoldInv, Working
<1>2. ASSUME NEW s \in Streams PROVE Kept(s, started, mp, wq[s], puts[s], flushed[s])
  <2>1. started = <<>> /\ wq[s] = <<>> /\ mp = NoMsg /\ puts[s] = 0 /\ flushed[s] = {}
    BY DEF Init
  <2>2. mp.stream # s
    BY <2>1, TxAssumption DEF NoMsg, Streams
  <2>3. Len(started) = 0 /\ Len(wq[s]) = 0
    BY <2>1
  <2>4. InOrder(s, started, mp, wq[s])
    BY <2>2, <2>3 DEF InOrder, Rising
  <2>5. Complete(s, started, mp, wq[s], puts[s], flushed[s])
    BY <2>1, <2>2, <2>3 DEF Complete
  <2> QED
    BY <2>4, <2>5 DEF Kept
<1> QED
  BY <1>1, <1>2 DEF OrderInv

\* What the stream of a queue is known to hold.
LEMMA StreamTypes ==
  ASSUME TxInv, NEW s \in Streams
  PROVE  /\ started \in Seq(Msgs) /\ wq[s] \in Seq(Msgs) /\ puts[s] \in Nat
         /\ flushed[s] \in SUBSET Msgs /\ NoMsg.stream # s
<1>1. puts[s] \in 0 .. MaxPut
  BY DEF TxInv, TypeOK
<1> QED
  BY <1>1, TxAssumption DEF TxInv, TypeOK, NoMsg, Streams

\* hydrawput() puts messages behind those of the stream, M_FLUSH drops them.
LEMMA OrderUserStep ==
  ASSUME TxInv, OrderInv, User
  PROVE  OrderInv'
<1>1. ASSUME NEW s \in Streams, PutUnitdata(s) PROVE OrderInv'
  <2> DEFINE m == Msg(s, puts[s] + 1)
  <2>1. pc = "idle" /\ mp = NoMsg /\ UNCHANGED <<started, flushed>>
        /\ puts' = [puts EXCEPT ![s] = @ + 1]
    BY <1>1 DEF PutUnitdata, OrderInv, HoldInv, Working
  <2>2. puts'[s] = puts[s] + 1 /\ \A r \in Streams : r # s => puts'[r] = puts[r]
    BY <2>1 DEF TxInv, TypeOK
  <2>3. m.stream = s /\ m \in Msgs
    <3>1. puts[s] \in Nat
      BY StreamTypes
    <3> QED
      BY <3>1 DEF Msg, Msgs
  <2>4. Kept(s, started, NoMsg, Append(wq[s], m), puts[s] + 1, flushed[s])
    <3>1. Kept(s, started, NoMsg, wq[s], puts[s], flushed[s])
      BY <2>1 DEF OrderInv
    <3> QED
      BY <3>1, StreamTypes, PutBehind
  <2>5. CASE wq[s] # <<>>
    <3>1. wq' = [wq EXCEPT ![s] = Append(@, m)] /\ UNCHANGED <<pc, caller, cur, mp>>
      BY <1>1, <2>5 DEF PutUnitdata
    <3> HIDE DEF m
    <3>2. wq'[s] = Append(wq[s], m) /\ \A r \in Streams : r # s => wq'[r] = wq[r]
      BY <3>1 DEF TxInv, TypeOK
    <3>3. HoldInv'
      BY <2>1, <3>1 DEF HoldInv, Working
    <3>4. ASSUME NEW r \in Streams PROVE Kept(r, started', mp', wq'[r], puts'[r], flushed'[r])
      <4>1. CASE r = s
        BY <2>1, <2>2, <2>4, <3>1, <3>2, <4>1
      <4>2. CASE r # s
        BY <2>1, <2>2, <3>1, <3>2, <4>2 DEF OrderInv
      <4> QED
        BY <4>1, <4>2
    <3> QED
      BY <3>3, <3>4 DEF OrderInv
  <2>6. CASE wq[s] = <<>>
    <3>1. pc' = "xmit" /\ caller' = "put" /\ cur' = s /\ mp' = m /\ wq' = wq
      BY <1>1, <2>6 DEF PutUnitdata
    <3> HIDE DEF m
    <3>2. HoldInv'
      BY <2>3, <2>6, <3>1 DEF HoldInv, Working
    <3>3. ASSUME NEW r \in Streams PROVE Kept(r, started', mp', wq'[r], puts'[r], flushed'[r])
      <4>1. CASE r = s
        <5>1. Append(wq[s], m) # <<>> /\ Append(wq[s], m) \in Seq(Msgs)
          BY <2>3, StreamTypes, AppendProperties
        <5>2. Head(Append(wq[s], m)) = m /\ Tail(Append(wq[s], m)) = <<>>
          BY <2>3, <2>6, StreamTypes, HeadTailAppend
        <5>3. puts[s] + 1 \in Nat
          BY StreamTypes
        <5>4. Kept(s, started, m, <<>>, puts[s] + 1, flushed[s])
          <6> DEFINE a == Append(wq[s], m)
                     k == puts[s] + 1
          <6>1. /\ started \in Seq(Msgs) /\ a \in Seq(Msgs) /\ a # <<>> /\ k \in Nat
                /\ flushed[s] \in SUBSET Msgs /\ Kept(s, started, NoMsg, a, k, flushed[s])
            BY <2>4, <5>1, <5>3, StreamTypes
          <6> HIDE DEF a, k
          <6>2. Kept(s, started, Head(a), Tail(a), k, flushed[s])
            BY <6>1, TakeFirst
          <6> QED
            BY <5>2, <6>2 DEF a, k
        <5> QED
          BY <2>1, <2>2, <2>6, <3>1, <4>1, <5>4
      <4>2. CASE r # s
        <5>1. Kept(r, started, mp, wq[r], puts[r], flushed[r]) /\ mp.stream # r
          BY <2>1, StreamTypes DEF OrderInv
        <5>2. Kept(r, started, m, wq[r], puts[r], flushed[r])
          BY <2>3, <4>2, <5>1, OtherHeld
        <5> QED
          BY <2>1, <2>2, <3>1, <4>2, <5>2
      <4> QED
        BY <4>1, <4>2
    <3> QED
      BY <3>2, <3>3 DEF OrderInv
  <2> QED
    BY <2>5, <2>6
<1>2. ASSUME NEW s \in Streams, PutFlush(s) PROVE OrderInv'
  <2>1. pc = "idle" /\ mp = NoMsg /\ UNCHANGED <<pc, caller, cur, mp, puts, started>>
        /\ wq' = [wq EXCEPT ![s] = <<>>] /\ flushed' = [flushed EXCEPT ![s] = @ \cup ToSet(wq[s])]
    BY <1>2 DEF PutFlush, OrderInv, HoldInv, Working
  <2>2. /\ wq'[s] = <<>> /\ flushed'[s] = flushed[s] \cup ToSet(wq[s])
        /\ \A r \in Streams : r # s => wq'[r] = wq[r] /\ flushed'[r] = flushed[r]
    BY <2>1 DEF TxInv, TypeOK
  <2>3. HoldInv'
    BY <2>1 DEF HoldInv, Working
  <2>4. Kept(s, started, NoMsg, <<>>, puts[s], flushed[s] \cup ToSet(wq[s]))
    <3>1. Kept(s, started, NoMsg, wq[s], puts[s], flushed[s])
      BY <2>1 DEF OrderInv
    <3> QED
      BY <3>1, StreamTypes, Flush
  <2>5. ASSUME NEW r \in Streams PROVE Kept(r, started', mp', wq'[r], puts'[r], flushed'[r])
    <3>1. CASE r = s
      BY <2>1, <2>2, <2>4, <3>1
    <3>2. CASE r # s
      BY <2>1, <2>2, <3>2 DEF OrderInv
    <3> QED
      BY <3>1, <3>2
  <2> QED
    BY <2>3, <2>5 DEF OrderInv
<1> QED
  BY <1>1, <1>2 DEF User

\* hydraxmit() starts the message it holds or gives it back to its queue.
LEMMA OrderXmitStep ==
  ASSUME TxInv, OrderInv, Xmit
  PROVE  OrderInv'
<1>1. CASE XmitBusy \/ XmitFree \/ XmitFill
  <2>1. UNCHANGED <<wq, caller, cur, mp, puts, started, flushed>> /\ pc \in Working /\ pc' \in Working
    BY <1>1 DEF XmitBusy, XmitFree, XmitFill, histVars, Working
  <2> QED
    BY <2>1 DEF OrderInv, HoldInv
<1>2. ASSUME pc \in Working PROVE mp \in Msgs /\ mp.stream = cur /\ cur \in Streams
  BY <1>2 DEF TxInv, PlaceInv, OrderInv, HoldInv
<1>3. CASE XmitStart
  <2>1. pc = "start" /\ pc' \notin Working /\ mp' = NoMsg /\ started' = Append(started, mp)
        /\ UNCHANGED <<wq, puts, flushed>>
    BY <1>3 DEF XmitStart, ReturnTo, Working
  <2>2. HoldInv'
    BY <2>1 DEF HoldInv
  <2>3. ASSUME NEW r \in Streams PROVE Kept(r, started', mp', wq'[r], puts'[r], flushed'[r])
    <3>1. Kept(r, started, mp, wq[r], puts[r], flushed[r])
      BY DEF OrderInv
    <3>2. Kept(r, Append(started, mp), NoMsg, wq[r], puts[r], flushed[r])
      BY <1>2, <2>1, <3>1, StreamTypes, Start DEF Working
    <3> QED
      BY <2>1, <3>2
  <2> QED
    BY <2>2, <2>3 DEF OrderInv
<1>4. CASE PutQ \/ PutBackQ
  <2>1. pc = "requeue" /\ pc' \notin Working /\ mp' = NoMsg /\ UNCHANGED <<started, puts, flushed>>
    BY <1>4 DEF PutQ, PutBackQ, ReturnTo, Working, histVars
  <2>2. mp \in Msgs /\ mp.stream = cur /\ cur \in Streams
    BY <1>2, <2>1 DEF Working
  <2>3. wq'[cur] = <<mp>> \o wq[cur] /\ \A r \in Streams : r # cur => wq'[r] = wq[r]
    <3>1. wq \in [Streams -> Seq(Msgs)]
      BY DEF TxInv, TypeOK
    <3>2. CASE PutBackQ
      BY <2>2, <3>1, <3>2 DEF PutBackQ
    <3>3. CASE PutQ
      <4>1. wq[cur] = <<>>
        BY <3>3 DEF PutQ, OrderInv, HoldInv, Working
      <4>2. Append(<<>>, mp) = <<mp>> /\ <<mp>> \o <<>> = <<mp>>
        BY <2>2
      <4>3. wq'[cur] = Append(wq[cur], mp) /\ \A r \in Streams : r # cur => wq'[r] = wq[r]
        BY <2>2, <3>1, <3>3 DEF PutQ
      <4> QED
        BY <4>1, <4>2, <4>3
    <3> QED
      BY <1>4, <3>2, <3>3
  <2>4. HoldInv'
    BY <2>1 DEF HoldInv
  <2>5. ASSUME NEW r \in Streams PROVE Kept(r, started', mp', wq'[r], puts'[r], flushed'[r])
    <3>1. Kept(r, started, mp, wq[r], puts[r], flushed[r])
      BY DEF OrderInv
    <3>2. CASE r = cur
      <4>1. Kept(r, started, NoMsg, <<mp>> \o wq[r], puts[r], flushed[r])
        BY <2>2, <3>1, <3>2, StreamTypes, PutBack
      <4> QED
        BY <2>1, <2>3, <3>2, <4>1
    <3>3. CASE r # cur
      <4>1. mp.stream # r /\ NoMsg.stream # r
        BY <2>2, <3>3, StreamTypes
      <4>2. Kept(r, started, NoMsg, wq[r], puts[r], flushed[r])
        BY <3>1, <4>1, OtherHeld
      <4> QED
        BY <2>1, <2>3, <3>3, <4>2
    <3> QED
      BY <3>2, <3>3
  <2> QED
    BY <2>4, <2>5 DEF OrderInv
<1> QED
  BY <1>1, <1>3, <1>4 DEF Xmit

\* transmit_interrupt() takes the first message of a queue.
LEMMA OrderIntrStep ==
  ASSUME TxInv, OrderInv, Intr
  PROVE  OrderInv'
<1>1. CASE IntrRead \/ IntrPtx \/ IntrNoPtx \/ IntrTxe \/ ScanEnd
  <2>1. UNCHANGED <<wq, mp, puts, started, flushed>> /\ pc \notin Working /\ pc' \notin Working
    BY <1>1 DEF IntrRead, IntrPtx, IntrNoPtx, IntrTxe, ScanEnd, ReturnTo, histVars, Working
  <2> QED
    BY <2>1 DEF OrderInv, HoldInv
<1>2. CASE ScanNext
  <2>1. pc = "scan" /\ mp = NoMsg /\ cur \in Streams /\ caller = "intr" /\ caller' = "intr"
        /\ UNCHANGED <<started, puts, flushed>>
    BY <1>2 DEF ScanNext, histVars, OrderInv, HoldInv, Working, TxInv, PlaceInv
  <2>2. CASE wq[cur] = <<>>
    <3>1. UNCHANGED <<wq, pc, mp>>
      BY <1>2, <2>2 DEF ScanNext
    <3> QED
      BY <2>1, <3>1 DEF OrderInv, HoldInv, Working
  <2>3. CASE wq[cur] # <<>>
    <3>1. mp' = Head(wq[cur]) /\ wq' = [wq EXCEPT ![cur] = Tail(@)] /\ pc' = "xmit" /\ cur' = cur
      BY <1>2, <2>3 DEF ScanNext
    <3>2. wq'[cur] = Tail(wq[cur]) /\ \A r \in Streams : r # cur => wq'[r] = wq[r]
      BY <2>1, <3>1 DEF TxInv, TypeOK
    <3>3. mp'.stream = cur /\ Kept(cur, started, mp', wq'[cur], puts[cur], flushed[cur])
      <4>1. Kept(cur, started, NoMsg, wq[cur], puts[cur], flushed[cur])
        BY <2>1 DEF OrderInv
      <4> QED
        BY <2>1, <2>3, <3>1, <3>2, <4>1, StreamTypes, TakeFirst
    <3>4. HoldInv'
      BY <2>1, <3>1, <3>3 DEF HoldInv, Working
    <3>5. ASSUME NEW r \in Streams PROVE Kept(r, started', mp', wq'[r], puts'[r], flushed'[r])
      <4>1. CASE r = cur
        BY <2>1, <3>3, <4>1
      <4>2. CASE r # cur
        <5>1. Kept(r, started, mp, wq[r], puts[r], flushed[r]) /\ mp.stream # r
          BY <2>1, StreamTypes DEF OrderInv
        <5>2. Kept(r, started, mp', wq[r], puts[r], flushed[r])
          BY <3>3, <4>2, <5>1, OtherHeld
        <5> QED
          BY <2>1, <3>2, <4>2, <5>2
      <4> QED
        BY <4>1, <4>2
    <3> QED
      BY <3>4, <3>5 DEF OrderInv
  <2> QED
    BY <2>2, <2>3
<1> QED
  BY <1>1, <1>2 DEF Intr

LEMMA OrderStep == TxInv /\ OrderInv /\ [Next]_vars => OrderInv'
<1> SUFFICES ASSUME TxInv, OrderInv, [Next]_vars PROVE OrderInv'
  OBVIOUS
<1>1. CASE TxDone \/ TxAbort \/ Done \/ UNCHANGED vars
  <2>1. UNCHANGED <<cpuVars, puts, started, flushed>>
    BY <1>1 DEF TxDone, TxAbort, Done, vars, histVars
  <2> QED
    BY <2>1 DEF OrderInv, HoldInv, cpuVars
<1> QED
  BY <1>1, OrderUserStep, OrderXmitStep, OrderIntrStep DEF Next

\* The three parts of the way, one after the other.
LEMMA WayIs ==
  ASSUME NEW t \in Seq(Msgs), NEW m \in Msgs \cup {NoMsg}, NEW q \in Seq(Msgs)
  PROVE  /\ Len(t) \in Nat /\ Len(q) \in Nat
         /\ Len(t \o <<m>> \o q) = Len(t) + 1 + Len(q)
         /\ \A i \in 1 .. Len(t) : (t \o <<m>> \o q)[i] = t[i]
         /\ (t \o <<m>> \o q)[Len(t) + 1] = m
         /\ \A i \in 1 .. Len(q) : (t \o <<m>> \o q)[Len(t) + 1 + i] = q[i]
<1> DEFINE S == Msgs \cup {NoMsg}
           u == t \o <<m>>
           v == u \o q
<1>1. t \in Seq(S) /\ q \in Seq(S) /\ <<m>> \in Seq(S) /\ Len(<<m>>) = 1 /\ <<m>>[1] = m
      /\ Len(t) \in Nat /\ Len(q) \in Nat
  BY LenProperties
<1> HIDE DEF S
<1>2. /\ u \in Seq(S) /\ Len(u) = Len(t) + 1
      /\ \A i \in 1 .. Len(t) + 1 : u[i] = IF i <= Len(t) THEN t[i] ELSE <<m>>[i - Len(t)]
  BY <1>1, ConcatProperties
<1> HIDE DEF u
<1>3. /\ Len(v) = Len(t) + 1 + Len(q)
      /\ \A i \in 1 .. Len(t) + 1 + Len(q) :
           v[i] = IF i <= Len(t) + 1 THEN u[i] ELSE q[i - (Len(t) + 1)]
  <2>1. /\ Len(v) = Len(u) + Len(q)
        /\ \A i \in 1 .. Len(u) + Len(q) : v[i] = IF i <= Len(u) THEN u[i] ELSE q[i - Len(u)]
    <3>1. u \in Seq(S) /\ q \in Seq(S)
      BY <1>1, <1>2
    <3> QED
      BY <3>1, ConcatProperties, Zenon
  <2> QED
    BY <1>2, <2>1
<1> HIDE DEF v
<1>4. ASSUME NEW i \in 1 .. Len(t) PROVE v[i] = t[i]
  <2>1. i \in 1 .. Len(t) + 1 + Len(q) /\ i \in 1 .. Len(t) + 1 /\ i <= Len(t) + 1 /\ i <= Len(t)
    BY <1>1
  <2> QED
    BY <1>2, <1>3, <2>1
<1>5. v[Len(t) + 1] = m
  <2> DEFINE i == Len(t) + 1
  <2>1. i \in 1 .. Len(t) + 1 + Len(q) /\ i \in 1 .. Len(t) + 1 /\ i <= Len(t) + 1
        /\ ~(i <= Len(t)) /\ i - Len(t) = 1
    BY <1>1
  <2> HIDE DEF i
  <2>2. v[i] = u[i] /\ u[i] = <<m>>[i - Len(t)]
    BY <1>2, <1>3, <2>1
  <2> QED
    BY <1>1, <2>1, <2>2 DEF i
<1>6. ASSUME NEW i \in 1 .. Len(q) PROVE v[Len(t) + 1 + i] = q[i]
  <2> DEFINE k == Len(t) + 1 + i
  <2>1. k \in 1 .. Len(t) + 1 + Len(q) /\ ~(k <= Len(t) + 1) /\ k - (Len(t) + 1) = i
    BY <1>1
  <2> HIDE DEF k
  <2>2. v[k] = q[k - (Len(t) + 1)]
    BY <1>3, <2>1
  <2> QED
    BY <2>1, <2>2 DEF k
<1> QED
  BY <1>1, <1>3, <1>4, <1>5, <1>6 DEF v, u

\* The messages of a stream reach the chip in the order they were put, none
\* lost and none twice, for any number of streams and messages, whichever of
\* them hydraxmit() refuses and whenever a queue is flushed.
THEOREM StreamKept == Spec => []StreamOrder
<1>1. ASSUME TxInv, OrderInv PROVE StreamOrder
  <2> SUFFICES ASSUME NEW s \in Streams
               PROVE  LET way == started \o <<mp>> \o wq[s]
                          own == {i \in 1 .. Len(way) : way[i].stream = s}
                      IN  /\ \A i, j \in own : i < j => way[i].nth < way[j].nth
                          /\ {way[i] : i \in own} =
                               {Msg(s, n) : n \in 1 .. puts[s]} \ flushed[s]
                          /\ \A i \in 1 .. Len(wq[s]) : wq[s][i].stream = s
    BY DEF StreamOrder
  <2> DEFINE t   == started
             q   == wq[s]
             way == t \o <<mp>> \o q
             own == {i \in 1 .. Len(way) : way[i].stream = s}
  <2>1. /\ t \in Seq(Msgs) /\ q \in Seq(Msgs) /\ mp \in Msgs \cup {NoMsg}
        /\ puts[s] \in Nat /\ flushed[s] \in SUBSET Msgs
    BY <1>1, StreamTypes DEF TxInv, TypeOK
  <2>2. InOrder(s, t, mp, q) /\ Complete(s, t, mp, q, puts[s], flushed[s])
    BY <1>1 DEF OrderInv, Kept
  <2> HIDE DEF t, q
  <2>3. /\ Len(t) \in Nat /\ Len(q) \in Nat
        /\ Len(way) = Len(t) + 1 + Len(q)
        /\ \A i \in 1 .. Len(t) : way[i] = t[i]
        /\ way[Len(t) + 1] = mp
        /\ \A i \in 1 .. Len(q) : way[Len(t) + 1 + i] = q[i]
    BY <2>1, WayIs
  <2> HIDE DEF way
  <2>4. \A i \in 1 .. Len(way) :
           i \in 1 .. Len(t) \/ i = Len(t) + 1
             \/ \E j \in 1 .. Len(q) : i = Len(t) + 1 + j
    <3> SUFFICES ASSUME NEW i \in 1 .. Len(way), i > Len(t) + 1
                 PROVE  \E j \in 1 .. Len(q) : i = Len(t) + 1 + j
      BY <2>3
    <3>1. i - (Len(t) + 1) \in 1 .. Len(q) /\ i = Len(t) + 1 + (i - (Len(t) + 1))
      BY <2>3
    <3> QED
      BY <3>1
  <2>5. ASSUME NEW i \in own, NEW j \in own, i < j PROVE way[i].nth < way[j].nth
    <3>1. way[i].stream = s /\ way[j].stream = s /\ i \in 1 .. Len(way) /\ j \in 1 .. Len(way)
      OBVIOUS
    <3> HIDE DEF own
    <3>2. CASE j \in 1 .. Len(t)
      <4>1. i \in 1 .. Len(t)
        BY <2>3, <2>5, <3>1, <3>2
      <4> QED
        BY <2>2, <2>3, <2>5, <3>1, <3>2, <4>1 DEF InOrder, Rising
    <3>3. CASE j = Len(t) + 1
      <4>1. i \in 1 .. Len(t)
        BY <2>3, <2>5, <3>1, <3>3
      <4> QED
        BY <2>2, <2>3, <3>1, <3>3, <4>1 DEF InOrder, Below
    <3>4. ASSUME NEW k \in 1 .. Len(q), j = Len(t) + 1 + k PROVE way[i].nth < way[j].nth
      <4>1. way[j] = q[k]
        BY <2>3, <3>4
      <4>2. CASE i \in 1 .. Len(t)
        BY <2>2, <2>3, <3>1, <4>1, <4>2 DEF InOrder, Below
      <4>3. CASE i = Len(t) + 1
        BY <2>2, <2>3, <3>1, <4>1, <4>3 DEF InOrder
      <4>4. ASSUME NEW l \in 1 .. Len(q), i = Len(t) + 1 + l PROVE way[i].nth < way[j].nth
        <5>1. l < k /\ way[i] = q[l]
          BY <2>3, <2>5, <3>4, <4>4
        <5> QED
          BY <2>2, <3>1, <4>1, <5>1 DEF InOrder, Rising
      <4> QED
        BY <2>4, <3>1, <4>2, <4>3, <4>4
    <3> QED
      BY <2>4, <3>1, <3>2, <3>3, <3>4
  <2>6. ASSUME NEW i \in own PROVE way[i] \in {Msg(s, n) : n \in 1 .. puts[s]} \ flushed[s]
    <3>1. way[i].stream = s /\ i \in 1 .. Len(way)
      OBVIOUS
    <3> HIDE DEF own
    <3>2. way[i] \in Msgs \cup {NoMsg} /\ Live(way[i], puts[s], flushed[s])
      <4>1. CASE i \in 1 .. Len(t)
        <5>1. t[i] \in Msgs
          BY <2>1, <4>1, MsgNumbers
        <5> QED
          BY <2>2, <2>3, <3>1, <4>1, <5>1 DEF Complete
      <4>2. CASE i = Len(t) + 1
        BY <2>1, <2>2, <2>3, <3>1, <4>2 DEF Complete
      <4>3. ASSUME NEW k \in 1 .. Len(q), i = Len(t) + 1 + k
            PROVE  way[i] \in Msgs \cup {NoMsg} /\ Live(way[i], puts[s], flushed[s])
        <5>1. q[k] \in Msgs
          BY <2>1, MsgNumbers
        <5> QED
          BY <2>2, <2>3, <4>3, <5>1 DEF Complete
      <4> QED
        BY <2>4, <3>1, <4>1, <4>2, <4>3
    <3>3. way[i] \in Msgs
      BY <3>1, <3>2, TxAssumption DEF NoMsg, Streams
    <3>4. way[i].nth \in 1 .. puts[s] /\ way[i] = Msg(s, way[i].nth)
      BY <2>1, <3>1, <3>2, <3>3 DEF Msgs, Msg, Live
    <3> QED
      BY <3>2, <3>4 DEF Live
  <2>7. ASSUME NEW n \in 1 .. puts[s], Msg(s, n) \notin flushed[s]
        PROVE  \E i \in own : way[i] = Msg(s, n)
    <3>1. Place(n, s, t, mp, q)
      BY <2>2, <2>7 DEF Complete
    <3>2. Msg(s, n).stream = s
      BY DEF Msg
    <3>3. ASSUME NEW i \in 1 .. Len(way), way[i] = Msg(s, n) PROVE i \in own
      BY <3>2, <3>3
    <3> HIDE DEF own
    <3>4. CASE mp = Msg(s, n)
      <4>1. Len(t) + 1 \in 1 .. Len(way)
        BY <2>3
      <4> QED
        BY <2>3, <3>3, <3>4, <4>1
    <3>5. ASSUME NEW i \in 1 .. Len(t), t[i] = Msg(s, n) PROVE \E k \in own : way[k] = Msg(s, n)
      <4>1. i \in 1 .. Len(way)
        BY <2>3
      <4> QED
        BY <2>3, <3>3, <3>5, <4>1
    <3>6. ASSUME NEW j \in 1 .. Len(q), q[j] = Msg(s, n) PROVE \E k \in own : way[k] = Msg(s, n)
      <4>1. Len(t) + 1 + j \in 1 .. Len(way)
        BY <2>3
      <4> QED
        BY <2>3, <3>3, <3>6, <4>1
    <3> QED
      BY <3>1, <3>4, <3>5, <3>6 DEF Place
  <2>8. \A i \in 1 .. Len(q) : q[i].stream = s
    BY <2>2 DEF InOrder
  <2> HIDE DEF own
  <2>9. {way[i] : i \in own} = {Msg(s, n) : n \in 1 .. puts[s]} \ flushed[s]
    BY <2>6, <2>7
  <2> QED
    BY <2>5, <2>8, <2>9 DEF own, way, t, q
<1>2. TxInv /\ OrderInv => StreamOrder
  BY <1>1
<1> QED
  BY <1>2, TxAlways, OrderInit, OrderStep, PTL DEF Spec
============================================================================
