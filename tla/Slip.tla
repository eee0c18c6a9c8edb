-------------------------------- MODULE Slip --------------------------------
(***************************************************************************)
(* slip.c: IP packets over a tty.  The DLPI half escapes a packet into one *)
(* message for the tty; the tty module's read side puts packets together   *)
(* from the bytes that come in.  Here the line leads from one to the       *)
(* other, and cuts the bytes into messages anywhere.                       *)
(***************************************************************************)
EXTENDS Naturals, Sequences, SequencesExt

CONSTANTS
  Packets,    \* the packets sent: sequences of bytes
  SlipMax,    \* SLIP_MAX
  Refuse,     \* can canput() and allocb() fail on the way up?
  MaxSent,    \* bound: packets
  MaxCtl      \* bound: opens, closes, requests and ioctls

\* The bytes that mean something to the framing; any other byte is itself.
FRAME_END              == "END"
FRAME_ESCAPE           == "ESCAPE"
TRANSPOSED_FRAME_END   == "TEND"
TRANSPOSED_FRAME_ESCAPE == "TESCAPE"

VARIABLE slip

vars == <<slip>>

Init == slip =
  [dlpiq |-> FALSE, ttyq |-> FALSE, state |-> "UNBOUND", ifflags |-> 0,
   wq |-> <<>>,                   \* the DLPI write queue
   line |-> <<>>,                 \* bytes on the line
   curblk |-> <<>>, escaped |-> FALSE,
   ipackets |-> 0, ierrors |-> 0, oerrors |-> 0,
   up |-> <<>>, sent |-> <<>>,    \* packets put up and put out
   put |-> 0, ctl |-> 0,
   merged |-> FALSE,              \* a FRAME_END came and the packet could not go up
   cut |-> FALSE]                 \* bytes of a packet were thrown away

-----------------------------------------------------------------------------
(* The DLPI half.                                                          *)

DlpiOpen ==
  /\ ~slip.dlpiq /\ slip.ctl < MaxCtl
  /\ slip' = [slip EXCEPT !.dlpiq = TRUE, !.ctl = @ + 1, !.ipackets = 0,
                          !.ierrors = 0, !.oerrors = 0, !.ifflags = 0]

DlpiClose ==
  /\ slip.dlpiq
  /\ slip' = [slip EXCEPT !.dlpiq = FALSE, !.wq = <<>>, !.ipackets = 0,
                          !.ierrors = 0, !.oerrors = 0]

Escape(b) ==
  CASE b = FRAME_ESCAPE -> <<FRAME_ESCAPE, TRANSPOSED_FRAME_ESCAPE>>
    [] b = FRAME_END    -> <<FRAME_ESCAPE, TRANSPOSED_FRAME_END>>
    [] OTHER            -> <<b>>

Encode(p) == FlattenSeq([i \in 1 .. Len(p) |-> Escape(p[i])]) \o <<FRAME_END>>

\* do_dlpiproto(), DL_UNITDATA_REQ: slipxmit() unless a packet waits already,
\* the tty is full or there is no memory.  Nothing takes a packet off the queue.
UnitData ==
  /\ slip.dlpiq /\ slip.ttyq /\ slip.put < MaxSent
  /\ \E p \in Packets, room, memory \in BOOLEAN :
       LET s == [slip EXCEPT !.put = @ + 1]
       IN  slip' = CASE slip.wq # <<>> \/ ~room -> [s EXCEPT !.wq = Append(@, p)]
                     [] ~memory -> [s EXCEPT !.oerrors = @ + 1, !.wq = Append(@, p)]
                     [] OTHER   -> [s EXCEPT !.line = @ \o Encode(p),
                                             !.sent = Append(@, p)]

\* dlpiwput(), M_FLUSH: FLUSHW; the read side holds nothing.
DlpiFlush ==
  /\ slip.dlpiq /\ slip.ctl < MaxCtl
  /\ slip' = [slip EXCEPT !.ctl = @ + 1, !.wq = <<>>]

\* do_dlpiproto(), the other requests, and do_dlpiioctl().
DlpiRequest ==
  /\ slip.dlpiq /\ slip.ctl < MaxCtl
  /\ LET s == [slip EXCEPT !.ctl = @ + 1]
     IN  \/ \E to \in {"IDLE", "UNBOUND"} : slip' = [s EXCEPT !.state = to]
         \/ \E f \in {0, 1} : slip' = [s EXCEPT !.ifflags = f]

-----------------------------------------------------------------------------
(* The tty module.                                                         *)

TtyOpen ==
  /\ ~slip.ttyq /\ slip.ctl < MaxCtl
  /\ slip' = [slip EXCEPT !.ttyq = TRUE, !.escaped = FALSE, !.ctl = @ + 1]

\* The bytes on their way are lost with the stream, curblk is freed.
TtyClose ==
  /\ slip.ttyq
  /\ slip' = [slip EXCEPT !.ttyq = FALSE, !.curblk = <<>>, !.line = <<>>,
                          !.cut = @ \/ slip.line # <<>>]

\* What canput() and allocb() say.  With the DLPI stream closed canput() is asked
\* of a queue at NULL and may say either.
Answers == IF Refuse THEN {"ok", "full", "nomem"}
           ELSE IF slip.dlpiq THEN {"ok"} ELSE {"ok", "full"}

\* A packet for a stream that is closed is lost.
FrameEnd(s, ok) ==
  IF s.curblk = <<>> THEN s
  ELSE IF ok = "full" THEN [s EXCEPT !.merged = TRUE]
  ELSE IF ok = "nomem" \/ ~s.dlpiq THEN [s EXCEPT !.curblk = <<>>, !.cut = TRUE]
  ELSE [s EXCEPT !.up = Append(@, s.curblk), !.curblk = <<>>, !.ipackets = @ + 1]

Unescape(s, c) ==
  IF ~s.escaped THEN c
  ELSE CASE c = TRANSPOSED_FRAME_ESCAPE -> FRAME_ESCAPE
         [] c = TRANSPOSED_FRAME_END    -> FRAME_END
         [] OTHER                       -> c

\* Broken variant: a byte of room is counted too many.
DataByteLate(s, c, ok) ==
  LET full == Len(s.curblk) > SlipMax
  IN  IF ok = "nomem" /\ s.curblk = <<>>
      THEN [s EXCEPT !.ierrors = @ + 1, !.cut = TRUE]
      ELSE [s EXCEPT !.curblk = IF full THEN <<c>> ELSE Append(@, c),
                     !.ierrors = IF full THEN @ + 1 ELSE @,
                     !.cut = @ \/ full]

\* "if packet is too large, drop it and start over"
DataByte(s, c, ok) ==
  LET full == Len(s.curblk) >= SlipMax
  IN  IF ok = "nomem" /\ s.curblk = <<>>
      THEN [s EXCEPT !.ierrors = @ + 1, !.cut = TRUE]
      ELSE [s EXCEPT !.curblk = IF full THEN <<c>> ELSE Append(@, c),
                     !.ierrors = IF full THEN @ + 1 ELSE @,
                     !.cut = @ \/ full]

\* Broken variant: an escape holds for all the bytes that follow.
TtyByteEscaped(s, c, ok) ==
  CASE c = FRAME_END    -> FrameEnd(s, ok)
    [] c = FRAME_ESCAPE -> [s EXCEPT !.escaped = TRUE]
    [] OTHER            -> DataByte(s, Unescape(s, c), ok)

\* ttyrput(), M_DATA, one byte; the end of a message changes nothing.
TtyByte(s, c, ok) ==
  CASE c = FRAME_END    -> FrameEnd(s, ok)
    [] c = FRAME_ESCAPE -> [s EXCEPT !.escaped = TRUE]
    [] OTHER            -> DataByte([s EXCEPT !.escaped = FALSE], Unescape(s, c), ok)

TtyRput ==
  /\ slip.ttyq /\ slip.line # <<>>
  /\ \E n \in 1 .. Len(slip.line), ok \in Answers :
       slip' = FoldLeft(LAMBDA s, c : TtyByte(s, c, ok),
                        [slip EXCEPT !.line = SubSeq(@, n + 1, Len(@))],
                        SubSeq(slip.line, 1, n))

Next == DlpiOpen \/ DlpiClose \/ UnitData \/ DlpiFlush \/ DlpiRequest
        \/ TtyOpen \/ TtyClose \/ TtyRput

Spec == Init /\ [][Next]_vars

-----------------------------------------------------------------------------
(* Properties.                                                             *)

TypeOK ==
  /\ Len(slip.curblk) =< SlipMax
  /\ slip.state \in {"IDLE", "UNBOUND"}
  /\ slip.escaped \in BOOLEAN

\* What is sent arrives, whole, unchanged and in order, however the line cuts
\* it into messages and whatever bytes it holds; unless a packet could not go
\* up (the next one is then added to it), is too large, or one of the two streams is
\* closed while it is on its way.
RoundTrip == ~slip.merged /\ ~slip.cut => IsPrefix(slip.up, slip.sent)

\* With nothing left on the line every packet sent has gone up, so ttyrput()
\* holds none back for a byte that may never come.
NothingHeldBack ==
  slip.line = <<>> /\ ~slip.merged /\ ~slip.cut =>
    slip.up = slip.sent /\ slip.curblk = <<>> /\ ~slip.escaped
============================================================================
