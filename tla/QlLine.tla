------------------------------- MODULE QlLine -------------------------------
(***************************************************************************)
(* One line of the A2232 card.  Two processors share the card's memory:    *)
(* the 68000 runs ql.c, the card's 65C02 the program ql6502.m4.  They hold *)
(* no lock: each ring has one writer and one reader, rcondition is a       *)
(* mailbox the 65C02 fills when it is 0, and setparams, tflush and rsync   *)
(* are orders that the 65C02 takes back when it has obeyed them.           *)
(*                                                                         *)
(* ql.line is the shared memory, ql.own the 65C02's variables, the rest    *)
(* the driver's.  A step is one function of either program, or what it     *)
(* does between two stores the other may come in between: qlintr() is      *)
(* four, an order of the 65C02's two or three.  Data messages are one byte *)
(* long; IXON is set and ISTRIP is not.                                    *)
(***************************************************************************)
EXTENDS Naturals, Sequences, SequencesExt, FiniteSets

CONSTANTS
  BufSize,   \* BUFSIZE
  Kinds,     \* what may arrive: of "char", "xoff" (0x13), "xoff8" (0x93), "xon", "break"
  Calls,     \* messages used: of "set", "flush", "break", "stop", "start"
  MaxPut,    \* bound: data messages
  MaxIn,     \* bound: arrivals
  MaxCtl     \* bound: other messages, carrier changes and opens

VARIABLE ql

vars == <<ql>>

Slots == 0 .. BufSize - 1

Init == ql =
  [line |-> [rhead |-> 0, rcondition |-> "none", rsync |-> FALSE, tdisable |-> FALSE,
             thead |-> 0, ttail |-> 0, tflush |-> FALSE, setparams |-> FALSE,
             command |-> 0,                           \* numbered by its changes
             tbuf |-> [i \in Slots |-> 0], rbuf |-> [i \in Slots |-> <<"char", 0>>]],
   own  |-> [rhead |-> 0, cd |-> FALSE, changed |-> TRUE, cdhead |-> 0,
             break |-> FALSE, breakhead |-> 0, acia |-> 0,
             step |-> "scan"],    \* the order it obeys: "params", or a flush, with ttail
                                  \* stored ("tail") and with tdisable ("enable")
   st |-> {}, rtail |-> 0, carrier |-> FALSE, rsync |-> FALSE, rts |-> TRUE,
   wq |-> <<>>, t_rdqp |-> FALSE, intr |-> "idle", proc |-> "shut", timer |-> FALSE,
   spin |-> FALSE,      \* in getoblk(), which does not come out of its loop
   put |-> 0, gone |-> {}, doomed |-> 0, wire |-> <<>>, n |-> 0, up |-> <<>>, drop |-> {},
   ctl |-> 0, asked |-> 0, answered |-> 0, overrun |-> FALSE,
   unread |-> FALSE,    \* characters were skipped, before the open was complete
   left |-> {},         \* why nothing will set tdisable back
   lost |-> FALSE]      \* a condition was cleared unread

Up1(i) == (i + 1) % BufSize

RingSeq(buf, from, to) ==
  [k \in 1 .. (BufSize + to - from) % BufSize |-> buf[(from + k - 1) % BufSize]]

-----------------------------------------------------------------------------
(* The 65C02.                                                              *)

Scanning == ql.own.step = "scan"

Enable(s) == [s EXCEPT !.line.tdisable = FALSE, !.left = {}]

\* scanline, a character: nothing on the card says where the reader is.  It is
\* compared with XOFF without its eighth bit.
ScanReceive ==
  /\ Scanning /\ ql.n < MaxIn
  /\ \E k \in Kinds \ {"break"} :
       ql' = [ql EXCEPT !.n = @ + 1,
                        !.line.rbuf[ql.own.rhead] = <<k, ql.n + 1>>,
                        !.line.tdisable = @ \/ k \in {"xoff", "xoff8"},
                        !.left = IF k = "xoff8" THEN @ \cup {"masked"} ELSE @,
                        !.own.rhead = Up1(@),
                        !.overrun = @ \/ Up1(ql.own.rhead) = ql.rtail]

\* scanline, a break (framing error with a zero): its place is remembered.
ScanBreak ==
  /\ Scanning /\ "break" \in Kinds
  /\ ql.ctl < MaxCtl
  /\ ql' = [ql EXCEPT !.ctl = @ + 1, !.own.break = TRUE,
                      !.own.breakhead = ql.own.rhead]

\* scanline, the transmitter.
ScanSend ==
  /\ Scanning /\ ql.line.ttail # ql.line.thead
  /\ ~ql.line.tdisable
  /\ ql' = [ql EXCEPT !.wire = Append(@, ql.line.tbuf[ql.line.ttail]),
                      !.line.ttail = Up1(@)]

\* housekeep: the carrier.
Carrier ==
  /\ Scanning /\ ql.ctl < MaxCtl
  /\ ql' = [ql EXCEPT !.ctl = @ + 1, !.own.cd = ~@, !.own.changed = TRUE,
                      !.own.cdhead = ql.own.rhead]

\* housekeep: one condition, and the ring up to it, when the mailbox is free.
\* Nothing new shows while a condition waits.
Publish ==
  /\ Scanning
  /\ ql.line.rcondition = "none"
  /\ LET p == IF ql.own.break
              THEN [ql EXCEPT !.own.break = FALSE, !.own.cdhead = ql.own.breakhead,
                              !.line.rhead = ql.own.breakhead,
                              !.line.rcondition = "break"]
              ELSE IF ql.own.changed
              THEN [ql EXCEPT !.own.changed = FALSE, !.line.rhead = ql.own.cdhead,
                              !.line.rcondition = IF ql.own.cd THEN "up" ELSE "down"]
              ELSE IF ql.line.rsync
              THEN [ql EXCEPT !.line.rsync = FALSE, !.line.rcondition = "sync"]
              ELSE [ql EXCEPT !.line.rhead = ql.own.rhead]
     IN  p # ql /\ ql' = p

\* housekeep: the order is taken back first, then obeyed.
TakeParams ==
  /\ Scanning /\ ql.line.setparams
  /\ ql' = [ql EXCEPT !.line.setparams = FALSE, !.own.step = "params"]

SetParams ==
  /\ ql.own.step = "params"
  /\ ql' = [Enable(ql) EXCEPT !.own.step = "scan", !.own.acia = ql.line.command]

\* housekeep: a flush, when no parameters wait, is obeyed first and taken back then.
Flush ==
  \/ /\ Scanning /\ ql.line.tflush /\ ~ql.line.setparams
     /\ ql' = [ql EXCEPT !.own.step = "tail", !.line.ttail = ql.line.thead,
                  !.gone = @ \cup ToSet(RingSeq(ql.line.tbuf, ql.line.ttail, ql.line.thead))]
  \/ /\ ql.own.step = "tail"
     /\ ql' = [Enable(ql) EXCEPT !.own.step = "enable"]
  \/ /\ ql.own.step = "enable"
     /\ ql' = [ql EXCEPT !.own.step = "scan", !.line.tflush = FALSE]

Card == ScanSend \/ Publish \/ TakeParams \/ SetParams \/ Flush

-----------------------------------------------------------------------------
(* ql.c: its functions on the driver's half.                               *)

QlParam(s) == [s EXCEPT !.line.command = @ + 1, !.line.setparams = TRUE]

WakeDrain(s) ==
  IF "TTIOW" \notin s.st THEN s
  ELSE [s EXCEPT !.st = @ \ {"TTIOW"}, !.proc = IF @ = "asleep" THEN "drain" ELSE @]

Idle(s) == WakeDrain([s EXCEPT !.st = @ \ {"BUSY"}])

RECURSIVE Output(_), GetOblk(_)

\* output() past its first test: bytes into the ring, whatever the message is.
OutputLoop(s) ==
  IF s.wq = <<>> \/ s.line.tflush \/ "TIMEOUT" \in s.st
     \/ Up1(s.line.thead) = s.line.ttail
  THEN s
  ELSE LET m == Head(s.wq)
       IN  Output([s EXCEPT !.wq = Tail(@), !.st = @ \cup {"BUSY"},
                            !.line.tbuf[s.line.thead] = m[2],
                            !.line.thead = Up1(@)])

Output(s) ==
  IF ~s.t_rdqp THEN s
  ELSE OutputLoop(IF s.line.thead = s.line.ttail THEN Idle(s) ELSE s)

\* qlsrvioc() for TCSETA.
QlSrvIoc(s) == [QlParam(s) EXCEPT !.answered = @ + 1]

\* While a flush is out output() does nothing and getoblk() comes back to the message.
GetOblk(s) ==
  IF s.wq = <<>>
  THEN IF s.line.thead = s.line.ttail THEN Idle(s) ELSE s
  ELSE IF Head(s.wq)[1] = "set"
  THEN LET t == QlSrvIoc([s EXCEPT !.wq = Tail(@)])
       IN  IF "BUSY" \in t.st THEN t ELSE GetOblk(t)
  ELSE IF s.st \cap {"TTSTOP", "TIMEOUT"} # {} THEN s
  ELSE LET t == Output(s)
       IN  IF "BUSY" \in t.st THEN t ELSE [t EXCEPT !.spin = TRUE]

Suspend(s) == [s EXCEPT !.line.tdisable = TRUE, !.st = @ \cup {"TTSTOP"}]

Resume(s) == GetOblk([Enable(s) EXCEPT !.st = @ \ {"TTSTOP"}])

IsData(m) == m[1] = "data"

\* flush(FREAD|FWRITE).  If the card is about to take the last flush back, it takes
\* this one back with it.
FlushBoth(s) ==
  GetOblk(WakeDrain([s EXCEPT
    !.doomed = s.put,
    !.gone = @ \cup {m[2] : m \in {w \in ToSet(s.wq) : IsData(w)}},
    !.wq = SelectSeq(@, LAMBDA m : ~IsData(m)),
    !.st = @ \ {"BUSY", "TTSTOP"},
    !.left = IF s.own.step = "enable" THEN @ \cup {"crossed"} ELSE @,
    !.line.tdisable = TRUE, !.line.tflush = TRUE]))

\* handle_exceptions(), up to its last store.
Exceptions(s) ==
  CASE s.line.rcondition = "break" ->
         IF "ISOPEN" \in s.st THEN FlushBoth(s) ELSE s
    [] s.line.rcondition = "up" ->
         [s EXCEPT !.carrier = TRUE, !.st = (@ \cup {"CARR_ON"}) \ {"WOPEN"},
                   !.proc = IF @ = "wopen" THEN "opened" ELSE @]
    [] s.line.rcondition = "down" ->
         LET u == IF "ISOPEN" \in s.st THEN FlushBoth(s) ELSE s
         IN  [u EXCEPT !.carrier = FALSE, !.st = @ \ {"CARR_ON"}]
    [] s.line.rcondition = "sync" ->
         [s EXCEPT !.rsync = TRUE, !.proc = IF @ = "sync" THEN "synced" ELSE @]
    [] OTHER -> s

\* input(), one character of its run; with its eighth bit it is no XOFF.
InputChar(s) ==
  LET c == s.line.rbuf[s.rtail]
      t == [s EXCEPT !.rtail = Up1(@)]
  IN  CASE c[1] = "xon"  -> [Resume(t) EXCEPT !.drop = @ \cup {c[2]}]
        [] c[1] = "xoff" -> [Suspend(t) EXCEPT !.drop = @ \cup {c[2]}]
        [] OTHER         -> [t EXCEPT !.up = Append(@, c[2])]

\* input(): canput() says yes again, or no.
Admit(s) == IF s.rts THEN s ELSE [QlParam(s) EXCEPT !.rts = TRUE]

HoldOff(s) == [QlParam(s) EXCEPT !.rts = FALSE]

-----------------------------------------------------------------------------
(* qlintr(), once a clock tick.                                            *)

IntrExceptions ==
  /\ ql.intr = "idle" /\ ql.proc # "closing"
  /\ ql' = [Exceptions(ql) EXCEPT !.intr = IF ql.line.rcondition = "none"
                                           THEN "nothing" ELSE "handled"]

\* rcondition is cleared even if the card has filled it only now.
IntrCleared ==
  /\ ql.intr \in {"nothing", "handled"}
  /\ ql' = [ql EXCEPT !.intr = "input", !.line.rcondition = "none",
                      !.lost = @ \/ (ql.intr = "nothing" /\ ql.line.rcondition # "none")]

Readable == "ISOPEN" \in ql.st /\ ql.line.rhead # ql.rtail

\* The ring is read up to rhead, or canput() or allocb() say no; before the
\* open is complete it is emptied unread.
IntrInput ==
  /\ ql.intr = "input" /\ Readable
  /\ ql' = InputChar(Admit(ql))

IntrRefused ==
  /\ ql.intr = "input" /\ Readable /\ ql.ctl < MaxCtl
  /\ ql' = [HoldOff(ql) EXCEPT !.ctl = @ + 1, !.intr = "output"]

IntrInputEnd ==
  /\ ql.intr = "input"
  /\ LET skip == ql.t_rdqp /\ "WOPEN" \in ql.st /\ "ISOPEN" \notin ql.st
     IN  ql' = IF skip
               THEN [ql EXCEPT !.intr = "output", !.rtail = ql.line.rhead,
                      !.unread = @ \/ ql.rtail # ql.line.rhead,
                      !.drop = @ \cup {c[2] : c \in ToSet(RingSeq(ql.line.rbuf,
                                                 ql.rtail, ql.line.rhead))}]
               ELSE [(IF Readable THEN Admit(ql) ELSE ql) EXCEPT !.intr = "output"]

IntrOutput ==
  /\ ql.intr = "output"
  /\ ql' = [Output(ql) EXCEPT !.intr = "idle"]

-----------------------------------------------------------------------------
(* Calls and timeouts; the clock does not interrupt them but at the marks. *)

Calm == ql.intr = "idle"

\* qlopen(), to its sleep for RECEIVER_SYNC.
QlOpen ==
  /\ Calm /\ ql.proc = "shut" /\ ql.ctl < MaxCtl
  /\ ql' = [QlParam(ql) EXCEPT !.ctl = @ + 1, !.t_rdqp = TRUE, !.rts = TRUE,
                               !.rsync = FALSE, !.line.rsync = TRUE, !.proc = "sync"]

\* The rest of qlopen(): it may sleep for the carrier.
QlOpenEnd ==
  /\ Calm /\ ql.proc \in {"synced", "opened"}
  /\ \/ ql' = [ql EXCEPT !.st = (@ \cup {"CARR_ON", "ISOPEN"}) \ {"WOPEN"},
                         !.proc = "open"]
     \/ /\ ~ql.carrier /\ "CARR_ON" \notin ql.st
        /\ ql' = [ql EXCEPT !.st = @ \cup {"WOPEN"}, !.proc = "wopen"]

Shut(s) == [QlParam(s) EXCEPT !.st = {}, !.t_rdqp = FALSE, !.proc = "shut"]

Pending == ql.wq # <<>> \/ "BUSY" \in ql.st

\* qlclose(), once round its loop at spltty.
QlClose ==
  /\ Calm /\ ql.proc \in {"open", "drain"}
  /\ ql' = IF Pending THEN [GetOblk(ql) EXCEPT !.proc = "closing"] ELSE Shut(ql)

QlCloseEnd ==
  /\ ql.proc = "closing"
  /\ ql' = IF Pending THEN [ql EXCEPT !.st = @ \cup {"TTIOW"}, !.proc = "asleep"]
           ELSE Shut(ql)

\* qlwput() of data, and qlputioc() with TCSETA: the clock may come in before their
\* getoblk().
QlPutData ==
  /\ Calm /\ ql.proc = "open" /\ ql.put < MaxPut
  /\ ql' = [ql EXCEPT !.put = @ + 1, !.wq = Append(@, <<"data", ql.put + 1>>),
                      !.proc = IF "CARR_ON" \in ql.st THEN "queued" ELSE @]

QlPutIoctl ==
  /\ Calm /\ ql.proc = "open" /\ "set" \in Calls /\ ql.ctl < MaxCtl
  /\ LET a == [ql EXCEPT !.ctl = @ + 1, !.asked = @ + 1]
     IN  ql' = IF "BUSY" \in a.st
               THEN [a EXCEPT !.wq = <<<<"set", 0>>>> \o @, !.proc = "queued"]
               ELSE [QlSrvIoc(a) EXCEPT !.proc = "queued"]

\* The getoblk() of qlwput(), after M_START whether there is a message or not.
QlPutEnd ==
  /\ Calm /\ ql.proc \in {"queued", "started"}
  /\ ql' = [(IF ql.wq # <<>> \/ ql.proc = "started" THEN GetOblk(ql) ELSE ql)
            EXCEPT !.proc = "open"]

\* qlwput(), the other messages.
QlPutControl ==
  /\ Calm /\ ql.proc = "open" /\ ql.ctl < MaxCtl
  /\ \E m \in Calls \ {"set"} :
       LET a == [ql EXCEPT !.ctl = @ + 1]
       IN  ql' = CASE m = "flush" -> FlushBoth(a)
                   [] m = "break" -> [QlParam(a) EXCEPT !.st = @ \cup {"TIMEOUT"},
                                                        !.timer = TRUE]
                   [] m = "stop"  -> Suspend(a)
                   [] m = "start" -> [Resume(a) EXCEPT !.proc = "started"]

\* ql_ttrstrt().
BreakEnds ==
  /\ Calm /\ ql.timer
  /\ ql' = [QlParam(ql) EXCEPT !.timer = FALSE, !.st = @ \ {"TIMEOUT"}]

\* The card has taken the flush back.
SpinEnd ==
  /\ ql.spin /\ ~ql.line.tflush
  /\ ql' = GetOblk([ql EXCEPT !.spin = FALSE])

Driver ==
  \/ /\ ~ql.spin
     /\ \/ IntrExceptions \/ IntrCleared \/ IntrInput \/ IntrRefused \/ IntrInputEnd \/ IntrOutput
        \/ QlOpen \/ QlOpenEnd \/ QlClose \/ QlCloseEnd \/ QlPutData \/ QlPutIoctl \/ QlPutEnd
        \/ QlPutControl \/ BreakEnds
  \/ SpinEnd

Next == Card \/ ScanReceive \/ ScanBreak \/ Carrier \/ Driver

Spec == Init /\ [][Next]_vars

-----------------------------------------------------------------------------
(* Properties.                                                             *)

TypeOK ==
  /\ {ql.line.rhead, ql.line.thead, ql.line.ttail, ql.own.rhead, ql.rtail} \subseteq Slots
  /\ ql.line.rcondition \in {"none", "break", "up", "down", "sync"}
  /\ ql.st \subseteq {"ISOPEN", "CARR_ON", "WOPEN", "BUSY", "TTIOW", "TTSTOP", "TIMEOUT"}
  /\ ql.intr \in {"idle", "nothing", "handled", "input", "output"}
  /\ ql.own.step \in {"scan", "params", "tail", "enable"}

Written == SelectSeq(ql.wire, LAMBDA b : b # 0)
        \o SelectSeq(RingSeq(ql.line.tbuf, ql.line.ttail, ql.line.thead), LAMBDA b : b # 0)
        \o (LET d == SelectSeq(ql.wq, IsData) IN [i \in 1 .. Len(d) |-> d[i][2]])

\* The two processors lose, repeat and reorder no byte between them.  Above
\* all, a flush the 65C02 carries out late takes nothing that was written after
\* it was ordered.
CardSendsInOrder ==
  /\ ql.gone \subseteq 0 .. ql.doomed
  /\ Written = SelectSeq([i \in 1 .. ql.put |-> i], LAMBDA i : i \notin ql.gone)

\* Received characters reach the stream once and in order, up to where the
\* ring is overrun: the 65C02 does not know where the driver reads.
CardReceivesInOrder ==
  ~ql.overrun =>
    ql.up \o (LET r == RingSeq(ql.line.rbuf, ql.rtail, ql.own.rhead)
              IN  [i \in 1 .. Len(r) |-> r[i][2]])
      = SelectSeq([i \in 1 .. ql.n |-> i],
                  LAMBDA i : i \notin ql.drop)

\* No change of parameters is lost though the driver may order the next one
\* while the 65C02 obeys the last: with no order out, the chip has the latest.
ParamsCatchUp ==
  ~ql.line.setparams /\ ql.own.step # "params" => ql.own.acia = ql.line.command

\* The transmitter is not left disabled for good: it is so while the driver holds it
\* stopped, or a flush, new parameters or an XOFF not yet read by the driver stands
\* behind it.  Two things leave it so until the next order: an XOFF with its eighth
\* bit set, which the card obeys and the driver takes for data, and a flush taken
\* back with the last one; and an XOFF the driver has not seen.
NotLeftDisabled ==
  ql.line.tdisable /\ ~ql.overrun /\ ~ql.unread /\ ql.left = {} =>
    \/ "TTSTOP" \in ql.st \/ ql.line.tflush \/ ql.line.setparams
    \/ ql.own.step \in {"params", "tail"}
    \/ \E c \in ToSet(RingSeq(ql.line.rbuf, ql.rtail, ql.own.rhead)) : c[1] = "xoff"

\* A sender that was held off since nobody read is let go when somebody does: there
\* are characters that bring qlintr() back to canput().
HeldOffIsReleased ==
  ~ql.rts /\ "ISOPEN" \in ql.st /\ ~ql.overrun => ql.line.rhead # ql.rtail

\* A process that sleeps in qlopen() has its condition to come, unless the driver
\* cleared one that it had not read.
OpenerWillWake ==
  ~ql.lost =>
    /\ ql.proc = "sync"  => ql.line.rsync \/ ql.line.rcondition = "sync"
    /\ ql.proc = "wopen" => ~ql.own.cd \/ ql.own.changed \/ ql.line.rcondition = "up"
============================================================================
