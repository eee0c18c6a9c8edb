------------------------------ MODULE HydraTx ------------------------------
(***************************************************************************)
(* The transmit path of one Hydra board.  hydrawput() (at splhydra) hands  *)
(* a DL_UNITDATA_REQ to hydraxmit(), or leaves it on the stream's write    *)
(* queue when messages wait there already or the chip is busy (CR.TXP).    *)
(* hydraintr() drains the queues from transmit_interrupt(), which only a   *)
(* PTX reaches.  The card holds one frame at a time, at tx_start_page.     *)
(*                                                                         *)
(* CPU code is one process, as splhydra() keeps put procedures and the     *)
(* interrupt handler apart; the chip is the other and may end a            *)
(* transmission between any two register accesses.                         *)
(***************************************************************************)
EXTENDS Integers, Sequences, SequencesExt

CONSTANTS
  NStreams,    \* HYDRA_MAXDEV, all of them open
  MaxPut,      \* bound: messages put on each stream
  TxErrors,    \* whether the chip may fail to send (TXE)
  MaxFlush     \* bound: M_FLUSH messages in a behaviour

ASSUME TxAssumption ==
  /\ MaxPut \in Nat
  /\ MaxFlush \in Nat
  /\ TxErrors \in BOOLEAN
  /\ NStreams \in Nat

Streams == 0 .. NStreams - 1    \* indices in board->hydra

VARIABLES
  \* the chip
  txp,      \* CR.TXP: a transmission is in progress
  isr,      \* ISR, the transmit bits
  txbuf,    \* the frame in the card's transmit pages
  wire,     \* frames sent
  \* the driver
  wq,       \* the write queue of each stream
  pc,       \* where the CPU is
  caller,   \* what called hydraxmit(): hydraproto() or transmit_interrupt()
  cur,      \* the stream hydraxmit() works for
  mp,       \* the message it works on, if any
  status,   \* the value hydraintr() read from ISR
  \* history
  puts,     \* messages put on each stream so far
  started,  \* frames handed to the chip, in order
  flushed,  \* messages of each stream that M_FLUSH discarded
  flushes,  \* M_FLUSH messages so far
  aborted   \* whether the last transmission to end, ended with TXE

chipVars == <<txp, isr, txbuf, wire>>
cpuVars  == <<wq, pc, caller, cur, mp, status>>
histVars == <<puts, started, flushed, flushes, aborted>>
vars     == <<chipVars, cpuVars, histVars>>

Msg(s, n) == [stream |-> s, nth |-> n]
NoMsg     == [stream |-> -1, nth |-> 0]

Init ==
  /\ txp = FALSE
  /\ isr = {}
  /\ txbuf = NoMsg
  /\ wire = <<>>
  /\ wq = [s \in Streams |-> <<>>]
  /\ pc = "idle"
  /\ caller = "none"
  /\ cur = 0
  /\ mp = NoMsg
  /\ status = {}
  /\ puts = [s \in Streams |-> 0]
  /\ started = <<>>
  /\ flushed = [s \in Streams |-> {}]
  /\ flushes = 0
  /\ aborted = FALSE

-----------------------------------------------------------------------------
(* The chip (external).                                                    *)

\* The frame goes out and PTX is raised.
TxDone ==
  /\ txp
  /\ txp' = FALSE
  /\ isr' = isr \cup {"PTX"}
  /\ wire' = Append(wire, txbuf)
  /\ aborted' = FALSE
  /\ UNCHANGED <<txbuf, cpuVars, puts, started, flushed, flushes>>

\* Sixteen collisions or a FIFO underrun: the frame is given up, TXE is raised.
TxAbort ==
  /\ TxErrors
  /\ txp
  /\ txp' = FALSE
  /\ isr' = isr \cup {"TXE"}
  /\ aborted' = TRUE
  /\ UNCHANGED <<txbuf, wire, cpuVars, puts, started, flushed, flushes>>

-----------------------------------------------------------------------------
(* hydrawput() and hydraproto().                                           *)

\* DL_UNITDATA_REQ on stream s: queued behind waiting messages, else tried.
PutUnitdata(s) ==
  /\ pc = "idle"
  /\ puts[s] < MaxPut
  /\ puts' = [puts EXCEPT ![s] = @ + 1]
  /\ LET m == Msg(s, puts[s] + 1)
     IN  IF wq[s] # <<>>
         THEN /\ wq' = [wq EXCEPT ![s] = Append(@, m)]
              /\ UNCHANGED <<pc, caller, cur, mp>>
         ELSE /\ pc' = "xmit" /\ caller' = "put" /\ cur' = s /\ mp' = m
              /\ UNCHANGED wq
  /\ UNCHANGED <<chipVars, status, started, flushed, flushes, aborted>>

\* M_FLUSH with FLUSHW.
PutFlush(s) ==
  /\ pc = "idle"
  /\ flushes < MaxFlush
  /\ flushes' = flushes + 1
  /\ flushed' = [flushed EXCEPT ![s] = @ \cup ToSet(wq[s])]
  /\ wq' = [wq EXCEPT ![s] = <<>>]
  /\ UNCHANGED <<chipVars, pc, caller, cur, mp, status, puts, started,
                 aborted>>

-----------------------------------------------------------------------------
(* hydraxmit(q, mp) for the message mp of stream cur.                      *)

\* CR.TXP set: the message is refused, the caller puts it back later.
XmitBusy ==
  /\ pc = "xmit"
  /\ txp
  /\ pc' = "requeue"
  /\ UNCHANGED <<chipVars, wq, caller, cur, mp, status, histVars>>

\* Broken variant: TXP is not looked at.
XmitFreeUnchecked ==
  /\ pc = "xmit"
  /\ pc' = "fill"
  /\ UNCHANGED <<chipVars, wq, caller, cur, mp, status, histVars>>

\* CR.TXP clear: go on to fill the transmit pages.
XmitFree ==
  /\ pc = "xmit"
  /\ ~txp
  /\ pc' = "fill"
  /\ UNCHANGED <<chipVars, wq, caller, cur, mp, status, histVars>>

\* The message is copied to the card and freed.
XmitFill ==
  /\ pc = "fill"
  /\ txbuf' = mp
  /\ pc' = "start"
  /\ UNCHANGED <<txp, isr, wire, wq, caller, cur, mp, status, histVars>>

ReturnTo(p) == pc' = p /\ caller' = "none" /\ cur' = 0

\* TPSR, TBCNT and TXP are written; the caller returns, the interrupt handler
\* to its next stream.
XmitStart ==
  /\ pc = "start"
  /\ \/ caller = "put" /\ ReturnTo("idle")
     \/ caller = "intr" /\ pc' = "scan" /\ cur' = cur + 1 /\ UNCHANGED caller
  /\ txp' = TRUE
  /\ started' = Append(started, mp)
  /\ mp' = NoMsg
  /\ UNCHANGED <<isr, txbuf, wire, wq, status, puts, flushed, flushes, aborted>>

\* hydraproto() puts the refused message at the end of its queue.
PutQ ==
  /\ pc = "requeue" /\ caller = "put"
  /\ wq' = [wq EXCEPT ![cur] = Append(@, mp)]
  /\ mp' = NoMsg
  /\ ReturnTo("idle")
  /\ UNCHANGED <<chipVars, status, histVars>>

-----------------------------------------------------------------------------
(* hydraintr().                                                            *)

\* The ISR is read once, at the top.
IntrRead ==
  /\ pc = "idle"
  /\ isr # {}
  /\ status' = isr
  /\ pc' = "ptx"
  /\ UNCHANGED <<chipVars, wq, caller, cur, mp, histVars>>

\* PTX was set: it is acknowledged, then transmit_interrupt() scans the streams.
IntrPtx ==
  /\ pc = "ptx"
  /\ "PTX" \in status
  /\ isr' = isr \ {"PTX"}
  /\ pc' = "scan" /\ caller' = "intr" /\ cur' = 0
  /\ UNCHANGED <<txp, txbuf, wire, wq, mp, status, histVars>>

IntrNoPtx ==
  /\ pc = "ptx"
  /\ "PTX" \notin status
  /\ pc' = "txe"
  /\ UNCHANGED <<chipVars, wq, caller, cur, mp, status, histVars>>

\* TXE, if it was set, is acknowledged and counted, and nothing else.
IntrTxe ==
  /\ pc = "txe"
  /\ isr' = isr \ (status \cap {"TXE"})
  /\ status' = {}
  /\ pc' = "idle"
  /\ UNCHANGED <<txp, txbuf, wire, wq, caller, cur, mp, histVars>>

\* getq(wrq): an empty queue is passed over, else its first message is tried.
ScanNext ==
  /\ pc = "scan"
  /\ cur \in Streams
  /\ IF wq[cur] = <<>>
     THEN /\ cur' = cur + 1
          /\ UNCHANGED <<wq, pc, mp>>
     ELSE /\ mp' = Head(wq[cur])
          /\ wq' = [wq EXCEPT ![cur] = Tail(@)]
          /\ pc' = "xmit"
          /\ UNCHANGED cur
  /\ UNCHANGED <<chipVars, caller, status, histVars>>

ScanEnd ==
  /\ pc = "scan"
  /\ cur \notin Streams
  /\ ReturnTo("txe")
  /\ UNCHANGED <<chipVars, wq, mp, status, histVars>>

\* Broken variants: putq() for putbq(); PTX acknowledged after the scan.
PutBackAtEnd ==
  /\ pc = "requeue" /\ caller = "intr"
  /\ wq' = [wq EXCEPT ![cur] = Append(@, mp)]
  /\ mp' = NoMsg
  /\ ReturnTo("txe")
  /\ UNCHANGED <<chipVars, status, histVars>>

PutBackLateAck ==
  /\ pc = "requeue" /\ caller = "intr"
  /\ wq' = [wq EXCEPT ![cur] = <<mp>> \o @]
  /\ mp' = NoMsg
  /\ isr' = isr \ {"PTX"}
  /\ ReturnTo("txe")
  /\ UNCHANGED <<txp, txbuf, wire, status, histVars>>

\* putbq(wrq, mp) and out of the loop.
PutBackQ ==
  /\ pc = "requeue" /\ caller = "intr"
  /\ wq' = [wq EXCEPT ![cur] = <<mp>> \o @]
  /\ mp' = NoMsg
  /\ ReturnTo("txe")
  /\ UNCHANGED <<chipVars, status, histVars>>

Xmit == XmitBusy \/ XmitFree \/ XmitFill \/ XmitStart \/ PutQ \/ PutBackQ
Intr == IntrRead \/ IntrPtx \/ IntrNoPtx \/ IntrTxe \/ ScanNext \/ ScanEnd
User == \E s \in Streams : PutUnitdata(s) \/ PutFlush(s)

\* Nothing is left for the CPU or the chip to do and no message will come.
Done ==
  /\ pc = "idle" /\ isr = {} /\ ~txp
  /\ \A s \in Streams : puts[s] = MaxPut
  /\ UNCHANGED vars

Next == TxDone \/ TxAbort \/ User \/ Xmit \/ Intr \/ Done

Spec == Init /\ [][Next]_vars

\* The chip ends what it began and the CPU runs; nothing makes messages come.
FairSpec == Spec /\ WF_vars(TxDone \/ TxAbort) /\ WF_vars(Xmit \/ Intr)

-----------------------------------------------------------------------------
(* Properties.                                                             *)

Msgs == [stream : Streams, nth : Nat \ {0}]

TypeOK ==
  /\ txp \in BOOLEAN
  /\ isr \in SUBSET {"PTX", "TXE"}
  /\ txbuf \in Msgs \cup {NoMsg}
  /\ wire \in Seq(Msgs)
  /\ wq \in [Streams -> Seq(Msgs)]
  /\ pc \in {"idle", "ptx", "txe", "scan", "xmit", "fill", "start", "requeue"}
  /\ caller \in {"none", "put", "intr"}
  /\ cur \in 0 .. NStreams
  /\ mp \in Msgs \cup {NoMsg}
  /\ status \in SUBSET {"PTX", "TXE"}
  /\ puts \in [Streams -> 0 .. MaxPut]
  /\ started \in Seq(Msgs)
  /\ flushed \in [Streams -> SUBSET Msgs]
  /\ flushes \in 0 .. MaxFlush
  /\ aborted \in BOOLEAN

\* No message of a stream is lost, repeated or overtaken on its way to the
\* chip, wherever a refusal by hydraxmit() or a flush catches it: of what was
\* started, then what hydraxmit() holds, then the queue, the messages of the
\* stream are those put and not flushed, once each and in the order put.
StreamOrder ==
  \A s \in Streams :
    LET way == started \o <<mp>> \o wq[s]
        own == {i \in 1 .. Len(way) : way[i].stream = s}
    IN  /\ \A i, j \in own : i < j => way[i].nth < way[j].nth
        /\ {way[i] : i \in own} = {Msg(s, n) : n \in 1 .. puts[s]} \ flushed[s]
        /\ \A i \in 1 .. Len(wq[s]) : wq[s][i].stream = s

\* The transmit pages are never rewritten under a transmission: what goes out
\* are frames that were started, whole and in that order.
WireMatchesStarted ==
  /\ txp => started # <<>> /\ txbuf = Last(started)
  /\ \E f \in [1 .. Len(wire) -> 1 .. Len(started)] :
       /\ \A i \in 1 .. Len(wire) : wire[i] = started[f[i]]
       /\ \A i, j \in 1 .. Len(wire) : i < j => f[i] < f[j]

\* hydraxmit() refusing a message and the chip ending the transmission that
\* made it refuse can cross, but no wakeup is lost: a message waits on a queue
\* only while an interrupt that will rescan the queues is due.
WakeupDue == txp \/ "PTX" \in isr
QueueHasWakeup ==
  pc = "idle" /\ (\E s \in Streams : wq[s] # <<>>) => WakeupDue \/ aborted

\* Once the messages stop coming, every one that is not flushed reaches the
\* wire, unless the last transmission to end was aborted.
AllSent == <>[]aborted \/ <>[](\A s \in Streams : wq[s] = <<>> /\ mp = NoMsg)
============================================================================
