------------------------------ MODULE SlOutput ------------------------------
(***************************************************************************)
(* sl.c, the serial port, without the receive ring (SlInput): open and     *)
(* close, the write queue, ioctls, flow control and the transmit           *)
(* interrupt.  A data message is one numbered byte.                        *)
(*                                                                         *)
(* Each C function is an operator from the port's record to the port's     *)
(* record; they call each other as the code does, so getoblk() can be      *)
(* reached again from inside itself.  A call, an interrupt, a timeout or a *)
(* clock tick is a step.                                                   *)
(***************************************************************************)
EXTENDS Integers, Sequences, FiniteSets, SequencesExt

CONSTANTS
  HwFlow,    \* hardware_flow_control: minor 0
  Ixon,      \* IXON in t_iflag
  Ioctls,    \* the ioctls used, of "set", "setw", "setf" and "brk"
  Controls,  \* the other messages used: "flush", "break", "start", "stop", "delay"
  MaxPut,    \* bound: data messages
  MaxCtl,    \* bound: ioctls and other messages
  MaxOpens   \* bound: opens

VARIABLE sl

vars == <<sl>>

None  == 0     \* sl.output_mblk is NULL
Spent == -1    \* it is a block whose byte was sent

Init == sl =
  [st |-> {},          \* sl.tty.t_state
   rdq |-> FALSE,      \* sl.rdq is set
   t_rdqp |-> FALSE,   \* sl.tty.t_rdqp is set
   wq |-> <<>>,        \* the write queue: <<"data", number>>, <<ioctl, 0>>
   om |-> None,        \* sl.output_mblk
   cts |-> TRUE, carrier |-> FALSE, xoff |-> FALSE,
   \* the chip and the line
   tbe |-> TRUE,       \* SERDATR.TBE: a byte can be written
   req |-> FALSE,      \* INTREQ, the TBE bit
   ena |-> FALSE,      \* INTENA, the TBE bit
   ctsOn |-> TRUE, cdOn |-> TRUE, sent |-> <<>>,
   \* the kernel
   timers |-> {},      \* "delay", "restart" (sl_ttrstrt)
   proc |-> "shut",
   \* history
   put |-> 0, gone |-> {}, asked |-> 0, answered |-> 0, ctls |-> 0, opens |-> 0,
   junk |-> FALSE,     \* an ioctl was sent as characters
   stale |-> FALSE]    \* getoblk() ran without a stream

IsData(m) == m[1] = "data"

\* The bytes of the data messages of a queue.
Data(q) == LET d == SelectSeq(q, IsData) IN [i \in 1 .. Len(d) |-> d[i][2]]

-----------------------------------------------------------------------------
(* sltint() and getoblk().                                                 *)

WakeDrain(s) ==
  IF "TTIOW" \notin s.st THEN s
  ELSE [s EXCEPT !.st = @ \ {"TTIOW"},
                 !.proc = IF @ = "asleep" THEN "drain" ELSE @]

SendByte(s, n) ==
  [s EXCEPT !.sent = Append(@, n), !.om = Spent, !.tbe = FALSE,
            !.st = @ \cup {"BUSY"}]

\* The next byte: of the current block, or of the next message of the queue,
\* whatever that message is.
NextByte(s) ==
  IF s.om \in Nat \ {None} THEN SendByte(s, s.om)
  ELSE IF s.wq = <<>>
       THEN WakeDrain([s EXCEPT !.om = None, !.st = @ \ {"BUSY"}])
       ELSE LET m == Head(s.wq)
                t == [s EXCEPT !.wq = Tail(@)]
            IN  IF IsData(m) THEN SendByte(t, m[2])
                ELSE [t EXCEPT !.junk = TRUE, !.om = Spent, !.tbe = FALSE,
                               !.st = @ \cup {"BUSY"}]

SlTint(s) ==
  IF ~s.tbe \/ ~s.rdq THEN s
  ELSE IF HwFlow /\ ~s.ctsOn
  THEN [s EXCEPT !.cts = FALSE, !.st = @ \cup {"BUSY"}]
  ELSE LET a == IF HwFlow THEN WakeDrain([s EXCEPT !.st = @ \ {"BUSY"}]) ELSE s
           b == IF a.xoff THEN [a EXCEPT !.st = @ \cup {"TTSTOP"}] ELSE a
       IN  IF "TTSTOP" \in b.st THEN [b EXCEPT !.ena = FALSE] ELSE NextByte(b)

\* The chip empties its register while getoblk() spins.
Spin(s) == IF s.tbe THEN s ELSE [s EXCEPT !.tbe = TRUE, !.req = TRUE]

\* getoblk() hands a block over when sltint() has none.
TakeBlock(s) ==
  IF s.om # None THEN s ELSE [s EXCEPT !.om = Head(s.wq)[2], !.wq = Tail(@)]

KickIdle(s) == IF "BUSY" \in s.st THEN s ELSE SlTint([s EXCEPT !.ena = TRUE])

RECURSIVE GetOblk(_), Again(_, _), SlSrvIoc(_, _)

GetOblk(s) ==
  IF ~s.t_rdqp THEN [s EXCEPT !.stale = TRUE]
  ELSE IF s.wq = <<>> THEN WakeDrain([s EXCEPT !.st = @ \ {"BUSY"}])
  ELSE IF IsData(Head(s.wq)) /\ s.st \cap {"TTSTOP", "TIMEOUT"} # {} THEN s
  ELSE Again(s, IF IsData(Head(s.wq)) THEN KickIdle(TakeBlock(s))
                ELSE SlSrvIoc([s EXCEPT !.wq = Tail(@)], Head(s.wq)))

\* From one turn of its loop to the next, s before it and t after.
Again(s, t) ==
  IF "BUSY" \in t.st THEN t
  ELSE GetOblk(IF Len(t.wq) = Len(s.wq) THEN Spin(t) ELSE t)

-----------------------------------------------------------------------------
(* slproc(), slparam(), flush(), the ioctls.                               *)

IRequest(s) == [s EXCEPT !.req = TRUE, !.ena = TRUE]

Resume(s) == GetOblk(IRequest([s EXCEPT !.st = @ \ {"TTSTOP"}]))

\* slproc(T_BREAK), up to its getoblk().
StartBreak(s) == [s EXCEPT !.st = @ \cup {"TIMEOUT"}, !.timers = @ \cup {"restart"}]

\* slparam(OPEN).
SlParam(s) == IF ~Ixon /\ "TTSTOP" \in s.st THEN Resume(s) ELSE s

\* flush(), of the write side; the read side holds nothing, and flush(FREAD) is
\* only its getoblk().
FlushWrite(s) ==
  LET a == WakeDrain([s EXCEPT
             !.wq = SelectSeq(@, LAMBDA m : ~IsData(m)),
             !.gone = @ \cup ToSet(Data(s.wq)) \cup ({s.om} \ {None, Spent}),
             !.om = None,
             !.st = @ \ {"BUSY"}])
  IN  GetOblk(Resume(a))

Answer(s) == [s EXCEPT !.answered = @ + 1]

SlSrvIoc(s, m) ==
  IF m[1] = "brk" THEN GetOblk(StartBreak(Answer(s)))
  ELSE Answer(SlParam(IF m[1] = "setf" THEN GetOblk(s) ELSE s))

\* TCSETA and TCSETS wait for the byte being sent only, the others for the
\* queue too; putbq() puts either at the head of the queue.  "brk" and "setf" go
\* on with a getoblk().
SlPutIoc(s, m) ==
  IF "BUSY" \in s.st \/ (m[1] # "set" /\ s.wq # <<>>)
  THEN [s EXCEPT !.wq = <<m>> \o @, !.proc = "queued"]
  ELSE CASE m[1] = "brk"  -> [StartBreak(Answer(s)) EXCEPT !.proc = "broken"]
         [] m[1] = "setf" -> [s EXCEPT !.proc = "flushed"]
         [] OTHER         -> [Answer(SlParam(s)) EXCEPT !.proc = "queued"]

\* checkcarrier().
CheckCarrier(s) ==
  IF s.cdOn
  THEN IF s.carrier THEN s
       ELSE [s EXCEPT !.carrier = TRUE,
                      !.st = (@ \cup {"CARR_ON"}) \ {"WOPEN"},
                      !.proc = IF @ = "wopen" THEN "opening" ELSE @]
  ELSE IF ~s.carrier THEN s
  ELSE IF "ISOPEN" \notin s.st THEN [s EXCEPT !.carrier = FALSE, !.st = @ \ {"CARR_ON"}]
  ELSE [FlushWrite([s EXCEPT !.carrier = FALSE]) EXCEPT !.st = @ \ {"CARR_ON"}]

-----------------------------------------------------------------------------
(* Calls.                                                                  *)

\* slopen(), up to its sleep for the carrier.
SlOpen ==
  /\ sl.proc = "shut"
  /\ sl.opens < MaxOpens
  /\ \E ndelay \in BOOLEAN :
       LET a == CheckCarrier(SlParam([sl EXCEPT
                  !.om = None, !.cts = TRUE, !.t_rdqp = TRUE, !.carrier = FALSE,
                  !.opens = @ + 1,
                  !.gone = @ \cup ({sl.om} \ {None, Spent})]))
       IN  sl' = IF ndelay
                 THEN [a EXCEPT !.st = (@ \cup {"CARR_ON"}) \ {"WOPEN"},
                                !.proc = "opening"]
                 ELSE [a EXCEPT !.proc = "opening"]

\* The loop for the carrier, then the end of slopen().
SlOpenEnd ==
  /\ sl.proc = "opening"
  /\ sl' = IF "CARR_ON" \notin sl.st
           THEN [sl EXCEPT !.st = @ \cup {"WOPEN"}, !.proc = "wopen"]
           ELSE [sl EXCEPT !.rdq = TRUE, !.st = @ \cup {"ISOPEN"}, !.proc = "open"]

\* slclose(), once round its loop; with FNDELAY, or when a signal ends its
\* sleep, it does not drain.  What is left on the queue goes with the stream.
SlClose ==
  /\ sl.proc \in {"open", "drain"}
  /\ LET Pending(s) == s.wq # <<>> \/ "BUSY" \in s.st
         a == IF Pending(sl) THEN GetOblk(sl) ELSE sl
     IN  IF Pending(a)
         THEN sl' = [a EXCEPT !.st = @ \cup {"TTIOW"}, !.proc = "asleep"]
         ELSE sl' = [a EXCEPT !.st = {}, !.t_rdqp = FALSE, !.rdq = FALSE,
                              !.ena = FALSE, !.proc = "shut"]

SlCloseNow ==
  /\ sl.proc \in {"open", "asleep"}
  /\ sl' = [sl EXCEPT !.st = {}, !.t_rdqp = FALSE, !.rdq = FALSE, !.ena = FALSE,
                      !.proc = "shut", !.wq = <<>>,
                      !.gone = @ \cup ToSet(Data(sl.wq)),
                      !.answered = sl.asked]

\* slwput(), M_DATA and M_IOCTL: what they queue under one spltty().
PutData ==
  /\ sl.proc = "open"
  /\ sl.put < MaxPut
  /\ sl' = [sl EXCEPT !.put = @ + 1, !.wq = Append(@, <<"data", sl.put + 1>>),
                      !.proc = IF "CARR_ON" \in sl.st THEN "queued" ELSE @]

PutIoctl ==
  /\ sl.proc = "open"
  /\ sl.ctls < MaxCtl
  /\ \E m \in Ioctls :
       sl' = SlPutIoc([sl EXCEPT !.ctls = @ + 1, !.asked = @ + 1], <<m, 0>>)

\* slwput(), the other messages.
PutControl ==
  /\ sl.proc = "open"
  /\ sl.ctls < MaxCtl
  /\ \E m \in Controls :
       LET a == [sl EXCEPT !.ctls = @ + 1]
       IN  sl' = CASE m = "flush" -> FlushWrite(a)
                   [] m = "break" -> GetOblk(StartBreak(a))
                   [] m = "start" -> [Resume(a) EXCEPT !.proc = "started"]
                   [] m = "stop"  -> [a EXCEPT !.st = @ \cup {"TTSTOP"}]
                   [] m = "delay" -> [a EXCEPT !.st = @ \cup {"TIMEOUT"},
                                               !.timers = @ \cup {"delay"}]

\* The rest of slwput(), after the splx(): a getoblk() of M_START, one with which
\* an ioctl goes on, and the one for what is still queued; sltint() may come in
\* between.
PutEnd ==
  \/ /\ sl.proc = "started"
     /\ sl' = [GetOblk(sl) EXCEPT !.proc = "open"]
  \/ /\ sl.proc = "broken"
     /\ sl' = [GetOblk(sl) EXCEPT !.proc = "queued"]
  \/ /\ sl.proc = "flushed"
     /\ sl' = [Answer(SlParam(GetOblk(sl))) EXCEPT !.proc = "queued"]
  \/ /\ sl.proc = "queued"
     /\ sl' = [(IF sl.wq # <<>> THEN GetOblk(sl) ELSE sl) EXCEPT !.proc = "open"]

-----------------------------------------------------------------------------
(* Interrupts, timeouts, the clock, the line.                              *)

\* p1int: the request is dismissed, then sltint() is called.
TbeInterrupt ==
  /\ sl.req /\ sl.ena
  /\ sl' = SlTint([sl EXCEPT !.req = FALSE])

\* The byte moves on and the register is empty again (external).
RegisterEmpty == ~sl.tbe /\ sl' = [sl EXCEPT !.tbe = TRUE, !.req = TRUE]

\* delay() and sl_ttrstrt(), called as timeouts.
TimerFires ==
  \E t \in sl.timers :
    LET a == [sl EXCEPT !.timers = @ \ {t}, !.st = @ \ {"TIMEOUT"}]
    IN  sl' = IF t = "delay" THEN GetOblk(a)
              ELSE GetOblk(IRequest(SlParam(a)))

\* Broken variant: nothing starts the output again.
CtsBackOnly(s) == [s EXCEPT !.cts = TRUE]

CtsBack(s) == IRequest([s EXCEPT !.cts = TRUE])

\* slpoll(): flow control and carrier.
Flowing(s) == HwFlow /\ "ISOPEN" \in s.st

PollXoff(s) == IF Flowing(s) /\ ~s.xoff /\ "TTSTOP" \in s.st THEN Resume(s) ELSE s

PollCts(s) == IF Flowing(s) /\ ~s.cts /\ s.ctsOn THEN CtsBack(s) ELSE s

PollCarrier(s) == IF s.st \cap {"WOPEN", "ISOPEN"} # {} THEN CheckCarrier(s) ELSE s

SlPoll == sl' = PollCarrier(PollCts(PollXoff(sl))) /\ sl' # sl

\* slrint(): XON and XOFF.
XonXoff == Ixon /\ sl.rdq /\ sl' = [sl EXCEPT !.xoff = ~@]

\* The modem's lines (external).
CtsChanges == HwFlow /\ sl' = [sl EXCEPT !.ctsOn = ~@]
CdChanges  == sl' = [sl EXCEPT !.cdOn = ~@]

\* Nothing is said of what follows a getoblk() on the queue at NULL.
Next ==
  /\ ~sl.stale
  /\ \/ SlOpen \/ SlOpenEnd \/ SlClose \/ SlCloseNow
     \/ PutData \/ PutIoctl \/ PutControl \/ PutEnd
     \/ TbeInterrupt \/ RegisterEmpty \/ TimerFires \/ SlPoll
     \/ XonXoff \/ CtsChanges \/ CdChanges

Spec == Init /\ [][Next]_vars

-----------------------------------------------------------------------------
(* Properties.                                                             *)

TypeOK ==
  /\ sl.st \subseteq {"ISOPEN", "CARR_ON", "WOPEN", "BUSY", "TTIOW", "TTSTOP",
                      "TIMEOUT"}
  /\ sl.om \in -1 .. MaxPut
  /\ sl.proc \in {"shut", "opening", "wopen", "open", "queued", "started", "broken",
                 "flushed", "drain", "asleep"}
  /\ sl.timers \subseteq {"delay", "restart"}

\* No byte is lost, repeated or overtaken between the write queue and the
\* line by getoblk() and sltint() both taking messages off the queue, by CTS,
\* XOFF, breaks or delays: what was written and not flushed has been sent, is
\* the current block, or waits, in that order.
DataInOrder ==
  sl.sent \o (IF sl.om \in {None, Spent} THEN <<>> ELSE <<sl.om>>) \o Data(sl.wq)
    = SelectSeq([n \in 1 .. sl.put |-> n],
                LAMBDA n : n \notin sl.gone)

\* A process that sleeps in slclose() until the output is drained has its
\* wakeup due: TTIOW is up, and a transmit interrupt, the end of a byte, the
\* poll for CTS, a resume or a timeout is still to come.
DrainerWillWake ==
  sl.proc = "asleep" =>
    /\ "TTIOW" \in sl.st
    /\ \/ sl.ena /\ (sl.req \/ ~sl.tbe)
       \/ HwFlow /\ ~sl.cts
       \/ "TTSTOP" \in sl.st
       \/ sl.timers # {}

\* "queue these for later": an ioctl that slputioc() puts back because output
\* is in progress is served later, not taken by sltint() for a block of output.
QueuedIoctlsServed ==
  sl.asked = sl.answered + Len(SelectSeq(sl.wq, LAMBDA m : ~IsData(m)))
============================================================================
