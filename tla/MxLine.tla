------------------------------- MODULE MxLine -------------------------------
(***************************************************************************)
(* mx.c, one serial port of an IBM style card.  Its interrupt is at level  *)
(* 6, where mxintr() serves the receiver and only notes that the           *)
(* transmitter is ready; it asks for level 2, where mxtxintr() calls       *)
(* mxtint().  The clock, which stands above level 2, runs mxpoll(), and    *)
(* mxpoll() calls mxtint() too: it may come between the fetch of a byte    *)
(* into mx->ch and its write to the chip.  At level 2 the two are two      *)
(* steps; everywhere else spl6() or the clock's level keeps them together. *)
(* mxintr() in turn comes between the turns of the clock's loop over the   *)
(* ring.  mxwput() queues a message under spl6() and starts the output     *)
(* under another: what is at level 2 or above may come in between.         *)
(***************************************************************************)
EXTENDS Integers, Sequences, SequencesExt

CONSTANTS
  Controls,   \* the messages used: "set", "setw", "setf", "brk", "flush", "break", "stop",
              \* "start", "delay"
  Flags,      \* the termio flags that may be set, of "IGNBRK" and "NOFLSH"
  Glob,       \* mx->inputglobsize, the bytes of a block
  BufSize,    \* BUFsize
  LowWater,   \* LOWwater
  HighWater,  \* HIGHwater
  MaxPut,     \* bound: data messages, each of one numbered byte
  MaxCtl,     \* bound: other messages
  MaxIn,      \* bound: characters received
  MaxLine     \* bound: changes of the modem's lines

VARIABLE mx

vars == <<mx>>

None  == 0     \* mx->output_mblk is NULL, mx->ch is -1
Spent == -1    \* the block's byte was fetched
NoChar == <<0, "none">>

Init == \E iflag \in SUBSET Flags : mx =
  [iflag |-> iflag, st |-> {}, rdq |-> FALSE, t_rdqp |-> FALSE,
   wq |-> <<>>, om |-> None, ch |-> None,
   cts |-> TRUE, carrier |-> FALSE, xoff |-> FALSE,
   noted |-> FALSE,                        \* mx->interrupt & IIR_THRE, and level 2 asked for
   mid |-> FALSE,                          \* mxtint() at level 2 is between fetch and write
   ien |-> {}, thre |-> FALSE, tbe |-> TRUE, rts |-> FALSE,       \* the 8250
   rxr |-> NoChar, bi |-> FALSE,           \* its receive register; LSRBI, until LSR is read
   ctsOn |-> TRUE, cdOn |-> TRUE,                                 \* the modem
   buff |-> <<>>, brk |-> FALSE, up |-> <<>>,      \* the ring from tail to head; mx->lsr & LSRBI
   poll |-> FALSE, mp |-> <<>>,            \* mxlint() is in its loop; mx->mp
   timers |-> {}, proc |-> "shut",
   sent |-> <<>>, put |-> 0, gone |-> {}, ctls |-> 0, n |-> 0, lost |-> {}, lines |-> 0,   \* history
   nested |-> FALSE, stale |-> FALSE, ignored |-> FALSE, wild |-> FALSE]

IsData(m) == m[1] = "data"
Data(q) == LET d == SelectSeq(q, IsData) IN [i \in 1 .. Len(d) |-> d[i][2]]

-----------------------------------------------------------------------------
(* mxtint() and getoblk().                                                 *)

WakeDrain(s) ==
  IF "TTIOW" \notin s.st THEN s
  ELSE [s EXCEPT !.st = @ \ {"TTIOW"}, !.proc = IF @ = "asleep" THEN "drain" ELSE @]

\* ienable(IENTBE): the chip interrupts at once when its register is empty.
EnableTbe(s) == [s EXCEPT !.ien = @ \cup {"TBE"}, !.thre = @ \/ s.tbe]

\* The byte at the head of the block or of the queue, whatever is queued there.
FetchByte(s) ==
  IF s.om > None THEN [s EXCEPT !.ch = s.om, !.om = Spent]
  ELSE IF s.wq = <<>> THEN WakeDrain([s EXCEPT !.om = None, !.st = @ \ {"BUSY"}])
  ELSE [s EXCEPT !.wq = Tail(@), !.om = Spent,
                 !.ch = IF IsData(Head(s.wq)) THEN Head(s.wq)[2] ELSE MaxPut + 1]

\* mxtint() up to its outb(); mx->ch is None when it has returned.
TintFetch(t) ==
  LET s == [t EXCEPT !.ch = None, !.bi = FALSE]
  IN  IF ~s.tbe \/ ~s.rdq THEN s
      ELSE IF ~s.ctsOn THEN [s EXCEPT !.cts = FALSE, !.st = @ \cup {"BUSY"}]
      ELSE LET a == WakeDrain([s EXCEPT !.st = @ \ {"BUSY"}])
               b == IF a.xoff THEN [a EXCEPT !.st = @ \cup {"TTSTOP"}] ELSE a
           IN  IF "TTSTOP" \in b.st THEN [b EXCEPT !.ien = @ \ {"TBE"}] ELSE FetchByte(b)

\* outb(TXR).
TintWrite(s) ==
  IF s.ch = None THEN s
  ELSE [s EXCEPT !.sent = Append(@, s.ch), !.tbe = FALSE, !.thre = FALSE,
                 !.st = @ \cup {"BUSY"}]

\* mxtint() in one step.  What it leaves in mx->ch, its byte or the 0xff of an
\* early return, is what one that it interrupts writes.
Tint(s) ==
  LET t == TintWrite(TintFetch(s))
  IN  IF ~s.mid THEN [t EXCEPT !.ch = None]
      ELSE [t EXCEPT !.nested = TRUE, !.ch = IF @ = None THEN MaxPut + 1 ELSE @]

Spin(s) == IF s.tbe THEN s ELSE [s EXCEPT !.tbe = TRUE, !.thre = TRUE]

TakeBlock(s) == IF s.om # None THEN s ELSE [s EXCEPT !.om = Head(s.wq)[2], !.wq = Tail(@)]

KickIdle(s) == IF "BUSY" \in s.st THEN s ELSE Tint(EnableTbe(s))

RECURSIVE GetOblk(_), Again(_, _), MxSrvIoc(_, _)

\* After a close tp->t_rdqp is NULL: which queue WR() makes of that is not said.
GetOblk(s) ==
  IF ~s.t_rdqp THEN [s EXCEPT !.wild = TRUE]
  ELSE IF s.wq = <<>> THEN WakeDrain([s EXCEPT !.st = @ \ {"BUSY"}])
  ELSE IF IsData(Head(s.wq)) /\ s.st \cap {"TTSTOP", "TIMEOUT"} # {} THEN s
  ELSE Again(s, IF IsData(Head(s.wq)) THEN KickIdle(TakeBlock(s))
                ELSE MxSrvIoc([s EXCEPT !.wq = Tail(@)], Head(s.wq)))

\* From one turn of its loop to the next, s before it and t after.
Again(s, t) ==
  IF "BUSY" \in t.st THEN t
  ELSE GetOblk(IF Len(t.wq) = Len(s.wq) THEN Spin(t) ELSE t)

-----------------------------------------------------------------------------
(* mxproc(), mxparam(), flush() and the ioctls.                            *)

Kick(s) == Tint(EnableTbe(s))

Resume(s) == GetOblk(Kick([s EXCEPT !.st = @ \ {"TTSTOP"}]))

\* mxproc(T_BREAK), up to its getoblk().
StartBreak(s) == [s EXCEPT !.st = @ \cup {"TIMEOUT"}, !.timers = @ \cup {"restart"}]

\* mxparam(OPEN), with IXON set.
MxParam(s) == [s EXCEPT !.rts = TRUE]

FlushWrite(s) ==
  LET a == WakeDrain([s EXCEPT
             !.wq = SelectSeq(@, LAMBDA m : ~IsData(m)),
             !.gone = @ \cup ToSet(Data(s.wq)) \cup ({s.om} \ {None, Spent}),
             !.om = None, !.st = @ \ {"BUSY"}])
  IN  GetOblk(Resume(a))

MxSrvIoc(s, m) ==
  IF m[1] = "brk" THEN GetOblk(StartBreak(s))
  ELSE MxParam(IF m[1] = "setf" THEN GetOblk(s) ELSE s)

\* mxputioc(), up to the getoblk() with which "brk" and "setf" go on.
MxPutIoc(s, m) ==
  IF "BUSY" \in s.st \/ (m[1] # "set" /\ s.wq # <<>>)
  THEN [s EXCEPT !.wq = <<m>> \o @, !.proc = "queued"]
  ELSE CASE m[1] = "brk"  -> [StartBreak(s) EXCEPT !.proc = "broken"]
         [] m[1] = "setf" -> [s EXCEPT !.proc = "flushed"]
         [] OTHER         -> [MxParam(s) EXCEPT !.proc = "queued"]

CheckCarrier(s) ==
  IF s.cdOn = s.carrier THEN s
  ELSE IF s.cdOn
  THEN [s EXCEPT !.carrier = TRUE, !.st = (@ \cup {"CARR_ON"}) \ {"WOPEN"},
                 !.proc = IF @ = "wopen" THEN "opening" ELSE @]
  ELSE LET a == [s EXCEPT !.carrier = FALSE]
       IN  [(IF "ISOPEN" \in a.st THEN FlushWrite(a) ELSE a) EXCEPT !.st = @ \ {"CARR_ON"}]

-----------------------------------------------------------------------------
(* mxopen(), mxclose() and mxwput().                                       *)

\* Nothing above the level of a process is under way.
AtBase == ~mx.mid /\ ~mx.poll

MxOpen ==
  /\ mx.proc = "shut" /\ mx.put = 0 /\ AtBase
  /\ \E ndelay \in BOOLEAN :
       LET a == CheckCarrier(MxParam([mx EXCEPT !.om = None, !.cts = TRUE,
                                         !.t_rdqp = TRUE, !.carrier = FALSE]))
       IN  mx' = [a EXCEPT !.proc = "opening",
                           !.st = IF ndelay THEN (@ \cup {"CARR_ON"}) \ {"WOPEN"} ELSE @]

MxOpenEnd ==
  /\ mx.proc = "opening" /\ AtBase
  /\ mx' = IF "CARR_ON" \notin mx.st
           THEN [mx EXCEPT !.st = @ \cup {"WOPEN"}, !.proc = "wopen"]
           ELSE [mx EXCEPT !.rdq = TRUE, !.st = @ \cup {"ISOPEN"}, !.proc = "open",
                           !.ien = @ \cup {"RBF"}]

Pending(s) == s.wq # <<>> \/ "BUSY" \in s.st

Shut(s) == [s EXCEPT !.st = {}, !.t_rdqp = FALSE, !.rdq = FALSE, !.ien = {},
                     !.rts = FALSE, !.proc = "shut", !.wq = <<>>,
                     !.gone = @ \cup ToSet(Data(s.wq)),
                     !.stale = @ \/ s.noted]

\* mxclose(), once round its loop; FNDELAY or a signal closes at once.
MxClose ==
  /\ mx.proc \in {"open", "drain"} /\ AtBase
  /\ LET a == IF Pending(mx) THEN GetOblk(mx) ELSE mx
     IN  mx' = IF Pending(a) THEN [a EXCEPT !.st = @ \cup {"TTIOW"}, !.proc = "asleep"]
               ELSE Shut(a)

MxCloseNow == mx.proc \in {"open", "asleep"} /\ AtBase /\ mx' = Shut(mx)

PutData ==
  /\ mx.proc = "open" /\ AtBase /\ mx.put < MaxPut
  /\ mx' = [mx EXCEPT !.put = @ + 1, !.wq = Append(@, <<"data", mx.put + 1>>),
                      !.proc = IF "CARR_ON" \in mx.st THEN "queued" ELSE @]

PutOther ==
  /\ mx.proc = "open" /\ AtBase /\ mx.ctls < MaxCtl
  /\ \E m \in Controls :
       LET a == [mx EXCEPT !.ctls = @ + 1]
       IN  mx' = CASE m = "flush" -> FlushWrite(a)
                   [] m = "break" -> GetOblk(StartBreak(a))
                   [] m = "start" -> [Resume(a) EXCEPT !.proc = "started"]
                   [] m = "stop"  -> [a EXCEPT !.st = @ \cup {"TTSTOP"}]
                   [] m = "delay" -> [a EXCEPT !.st = @ \cup {"TIMEOUT"},
                                               !.timers = @ \cup {"delay"}]
                   [] OTHER       -> MxPutIoc(a, <<m, 0>>)

\* The rest of mxwput(), after the splx(): a getoblk() of M_START, one with which
\* an ioctl goes on, and the one for what is still queued.
PutEnd ==
  /\ AtBase
  /\ \/ /\ mx.proc = "started"
        /\ mx' = [GetOblk(mx) EXCEPT !.proc = "open"]
     \/ /\ mx.proc = "broken"
        /\ mx' = [GetOblk(mx) EXCEPT !.proc = "queued"]
     \/ /\ mx.proc = "flushed"
        /\ mx' = [MxParam(GetOblk(mx)) EXCEPT !.proc = "queued"]
     \/ /\ mx.proc = "queued"
        /\ mx' = [IF mx.wq # <<>> THEN GetOblk(mx) ELSE mx EXCEPT !.proc = "open"]

-----------------------------------------------------------------------------
(* Interrupts, timeouts and the clock.                                     *)

\* mxintr() adds what LSR says to mx->lsr.
ReadLsr(s) == [s EXCEPT !.brk = @ \/ s.bi, !.bi = FALSE]

\* mxintr() for the transmitter: the chip's request is noted.  The chip names a
\* character first in IIR.
MxIntrTx ==
  /\ mx.thre /\ "TBE" \in mx.ien /\ (mx.rxr = NoChar \/ "RBF" \notin mx.ien)
  /\ mx' = [ReadLsr(mx) EXCEPT !.thre = FALSE, !.noted = TRUE]

\* mxtxintr().
MxTxIntr ==
  /\ mx.noted /\ AtBase
  /\ LET a == TintFetch([mx EXCEPT !.noted = FALSE])
     IN  mx' = [a EXCEPT !.mid = a.ch # None]

MxTxIntrEnd == mx.mid /\ ~mx.poll /\ mx' = [TintWrite(mx) EXCEPT !.mid = FALSE, !.ch = None]

\* mxrint() for character i.
Rint(s, i) ==
  IF Len(s.buff) >= BufSize - 1 THEN [s EXCEPT !.ien = @ \ {"RBF"}, !.lost = @ \cup {i}]
  ELSE [s EXCEPT !.rts = @ /\ Len(s.buff) <= BufSize - LowWater, !.buff = Append(@, i)]

\* A character or a break comes in, and overruns one that was not taken.
CharArrives ==
  /\ mx.n < MaxIn /\ mx.rdq
  /\ \E kind \in {"char", "break", "xon", "xoff"} :
       mx' = [mx EXCEPT !.n = @ + 1, !.rxr = <<mx.n + 1, kind>>, !.bi = @ \/ kind = "break",
                        !.lost = IF mx.rxr = NoChar THEN @ ELSE @ \cup {mx.rxr[1]}]

\* mxintr() for the receiver.  A break is a character and a flag in mx->lsr.
MxIntrRx ==
  /\ mx.rxr # NoChar /\ "RBF" \in mx.ien
  /\ LET a == ReadLsr([mx EXCEPT !.rxr = NoChar])
     IN  mx' = IF mx.rxr[2] \in {"xon", "xoff"}
               THEN [a EXCEPT !.xoff = mx.rxr[2] = "xoff", !.lost = @ \cup {mx.rxr[1]}]
               ELSE Rint(a, mx.rxr[1])

RegisterEmpty == ~mx.tbe /\ mx' = [mx EXCEPT !.tbe = TRUE, !.thre = TRUE]

\* delay(); and mx_ttrstrt(), which is given the tty and takes it for the
\* port: what it changes is not this port.
TimerFires ==
  /\ AtBase
  /\ \E t \in mx.timers :
       LET a == [mx EXCEPT !.timers = @ \ {t}]
       IN  mx' = IF t = "delay" THEN GetOblk([a EXCEPT !.st = @ \ {"TIMEOUT"}]) ELSE a

\* The end of a turn of mxlint()'s loop.
ReceiveOn(s) ==
  [s EXCEPT !.ien = @ \cup {"RBF"}, !.rts = @ \/ Len(s.buff) < BufSize - HighWater]

\* A noted break eats the character at tail and, without NOFLSH, the output and
\* the block in hand; with IGNBRK it goes on with the loop at once.
TakeBreak(s) ==
  LET a == [s EXCEPT !.brk = FALSE, !.buff = Tail(@), !.lost = @ \cup {Head(s.buff)}]
  IN  IF "IGNBRK" \in s.iflag THEN [a EXCEPT !.ignored = @ \/ "RBF" \notin s.ien]
      ELSE IF "NOFLSH" \in s.iflag
      THEN ReceiveOn([a EXCEPT !.up = @ \o s.mp, !.mp = <<>>])
      ELSE ReceiveOn([FlushWrite(a) EXCEPT !.lost = @ \cup ToSet(s.mp), !.mp = <<>>])

\* A character goes into the block; a full one goes up first.
TakeChar(s) ==
  LET full == Len(s.mp) = Glob
      c    == Head(s.buff)
  IN  ReceiveOn([s EXCEPT !.buff = Tail(@),
                          !.up = IF full THEN @ \o s.mp ELSE @,
                          !.mp = IF full THEN <<c>> ELSE Append(@, c)])

\* mxlint(), a turn of its loop over the ring.
MxDrain ==
  /\ mx.poll /\ mx.rdq /\ mx.buff # <<>>
  /\ mx' = IF mx.brk THEN TakeBreak(mx) ELSE TakeChar(mx)

\* It ends with the ring empty, or before that when canput() or allocb() refuse.
MxDrainEnd ==
  /\ mx.poll
  /\ mx' = [mx EXCEPT !.poll = FALSE, !.up = @ \o mx.mp, !.mp = <<>>]

CtsBack(s) == Kick([s EXCEPT !.cts = TRUE])

\* mxpoll() and mxlint(), up to the loop over the ring.
PollXoff(s) == IF "ISOPEN" \in s.st /\ ~s.xoff /\ "TTSTOP" \in s.st THEN Resume(s) ELSE s

PollCts(s) == IF "ISOPEN" \in s.st /\ ~s.cts /\ s.ctsOn THEN CtsBack(s) ELSE s

PollCarrier(s) == IF s.st \cap {"WOPEN", "ISOPEN"} # {} THEN CheckCarrier(s) ELSE s

MxPoll ==
  /\ ~mx.poll
  /\ mx' = [PollCarrier(PollCts(PollXoff(mx))) EXCEPT !.poll = mx.rdq /\ mx.buff # <<>>]
  /\ mx' # mx

CtsChanges == mx.lines < MaxLine /\ mx' = [mx EXCEPT !.ctsOn = ~@, !.lines = @ + 1]
CdChanges  == mx.lines < MaxLine /\ mx' = [mx EXCEPT !.cdOn = ~@, !.lines = @ + 1]

\* Nothing is said of what follows a getoblk() on the queue at NULL.
Next ==
  /\ ~mx.wild
  /\ \/ MxOpen \/ MxOpenEnd \/ MxClose \/ MxCloseNow \/ PutData \/ PutOther \/ PutEnd
     \/ MxIntrTx \/ MxTxIntr \/ MxTxIntrEnd \/ CharArrives \/ MxIntrRx \/ RegisterEmpty
     \/ TimerFires \/ MxPoll \/ MxDrain \/ MxDrainEnd \/ CtsChanges \/ CdChanges

Spec == Init /\ [][Next]_vars

-----------------------------------------------------------------------------
(* Properties.                                                             *)

TypeOK ==
  /\ mx.st \subseteq {"ISOPEN", "CARR_ON", "WOPEN", "BUSY", "TTIOW", "TTSTOP", "TIMEOUT"}
  /\ mx.om \in -1 .. MaxPut + 1 /\ mx.ien \subseteq {"TBE", "RBF"}
  /\ Len(mx.buff) < BufSize /\ Len(mx.mp) <= Glob /\ mx.timers \subseteq {"delay", "restart"}

\* Bytes go to the chip once each and in order, and none is lost between the
\* queue, the block and mx->ch, unless the clock's mxtint() came in the middle
\* of the one at level 2 and used the same mx->ch, or a delay ended after a close.
BytesLostOnlyWhenNested ==
  mx.nested \/ mx.wild
  \/ LET Real(s) == SelectSeq(s, LAMBDA n : n <= MaxPut)
     IN  Real(mx.sent) \o (IF mx.mid THEN Real(<<mx.ch>>) ELSE <<>>)
           \o (IF mx.om > None THEN <<mx.om>> ELSE <<>>) \o Data(mx.wq)
         = SelectSeq([n \in 1 .. mx.put |-> n], LAMBDA n : n \notin mx.gone)

\* Characters go up in the order they came, and each is up, in the block, the
\* ring or the chip, or lost to an overrun, a full ring or a break; the receive
\* interrupt is off and RTS down only with something in the ring for the clock to
\* take.  That may fail once a break was ignored with the receive interrupt off,
\* as it is noted when the transmitter interrupts: mxlint() takes a character and
\* turns nothing on.
ReceivedInOrder ==
  /\ mx.up \o mx.mp \o mx.buff \o (IF mx.rxr = NoChar THEN <<>> ELSE <<mx.rxr[1]>>)
     = SelectSeq([i \in 1 .. mx.n |-> i], LAMBDA i : i \notin mx.lost)
  /\ mx.rdq /\ ~mx.ignored /\ ("RBF" \notin mx.ien \/ ~mx.rts) => mx.buff # <<>>

\* A process asleep in mxclose() has its wakeup due: an interrupt, the poll for
\* CTS, a resume or a timeout.  Three cases are left out: a break whose timeout
\* was lost, a delay that ended after a close, and a note of the transmitter that
\* outlived the close before, by which mxtxintr() starts the output with the
\* chip's interrupt off.
CloserWillWake ==
  mx.proc = "asleep" /\ ~mx.stale /\ ~mx.wild =>
    /\ "TTIOW" \in mx.st
    /\ \/ mx.noted \/ mx.mid
       \/ "TBE" \in mx.ien /\ (mx.thre \/ ~mx.tbe)
       \/ ~mx.cts \/ "TTSTOP" \in mx.st \/ "TIMEOUT" \in mx.st

\* "called at BREAK timeout expiration to restart access": output held for a
\* break or a delay has a timeout pending that releases it.
BreakEnds == "TIMEOUT" \in mx.st => mx.timers # {}
============================================================================
