------------------------------ MODULE SlInput ------------------------------
(***************************************************************************)
(* The receive ring of sl.c.  slrint() runs at level 5 and fills buff[];   *)
(* slpoll() runs at clock priority, empties it into message blocks and is  *)
(* interrupted by slrint() between any two of its steps.  A full ring      *)
(* turns the receive interrupt off, a nearly full one drops RTS; only the  *)
(* loop of slpoll() turns either on again.                                 *)
(***************************************************************************)
EXTENDS Naturals, Sequences, Functions

CONSTANTS
  BufSize,    \* BUFsize
  LowWater,   \* LOWwater
  HighWater,  \* HIGHwater
  Glob,       \* sl.inputglobsize, the bytes of a block
  MaxIn,      \* bound: characters and breaks that arrive
  MaxOpens    \* bound: opens

VARIABLE ser

vars == <<ser>>

Init == \E iflag \in SUBSET {"IGNBRK", "NOFLSH"} : ser =
  [iflag |-> iflag, rdq |-> FALSE,
   head |-> 0, tail |-> 0, buff |-> [i \in 0 .. BufSize - 1 |-> 0],
   rbf |-> FALSE,        \* INTENA, the RBF bit
   rts |-> FALSE,        \* RTS on
   pc |-> "idle",        \* where slpoll() is
   mp |-> <<>>,          \* the block it fills, <<>> for NULL
   n |-> 0,              \* arrivals; they are numbered
   breaks |-> {},        \* those that are breaks
   lost |-> {},          \* those the ring had no room for
   gone |-> {},          \* those discarded: taken breaks, flushed characters
   up |-> <<>>,          \* characters sent upstream
   opens |-> 0,
   ignored |-> FALSE]    \* a break was passed over and nothing taken since

Held(s) == (BufSize + s.head - s.tail) % BufSize

-----------------------------------------------------------------------------
\* slrint() for arrival i.
SlRint(s, i) ==
  LET nbytes == Held(s)
  IN  IF nbytes >= BufSize - 1
      THEN [s EXCEPT !.rbf = FALSE, !.lost = @ \cup {i}]
      ELSE LET a == IF nbytes > BufSize - LowWater
                    THEN [s EXCEPT !.rts = FALSE] ELSE s
           IN  [a EXCEPT !.buff[s.head] = i, !.head = (@ + 1) % BufSize]

\* A character or a break comes in; with the interrupt off it is overrun.
Arrive ==
  /\ ser.n < MaxIn
  /\ \E brk \in BOOLEAN :
       LET i == ser.n + 1
           a == [ser EXCEPT !.n = i, !.breaks = IF brk THEN @ \cup {i} ELSE @]
       IN  ser' = IF a.rbf THEN SlRint(a, i) ELSE [a EXCEPT !.lost = @ \cup {i}]

\* slopen() and slclose(), what they do to the receiver; neither empties the ring.
Open ==
  /\ ~ser.rdq /\ ser.opens < MaxOpens
  /\ ser' = [ser EXCEPT !.rdq = TRUE, !.rbf = TRUE, !.rts = TRUE, !.opens = @ + 1]

Close ==
  /\ ser.rdq /\ ser.pc = "idle"
  /\ ser' = [ser EXCEPT !.rdq = FALSE, !.rbf = FALSE, !.rts = FALSE]

-----------------------------------------------------------------------------
(* slpoll(): the loop over the ring.                                       *)

SendUp(s) == [s EXCEPT !.up = @ \o s.mp, !.mp = <<>>]

PollBegin ==
  /\ ser.pc = "idle" /\ ser.rdq
  /\ ser' = [ser EXCEPT !.pc = "loop"]

\* The ring is empty, canput() says no, or allocb() fails.
PollEnd ==
  /\ ser.pc = "loop"
  /\ ser' = [SendUp(ser) EXCEPT !.pc = "idle"]

\* The break that buff[tail] holds: passed over, or it ends the block.
PollBreak ==
  /\ ser.pc = "loop" /\ ser.tail # ser.head
  /\ ser.buff[ser.tail] \in ser.breaks
  /\ LET a == [ser EXCEPT !.tail = (@ + 1) % BufSize,
                          !.gone = @ \cup {ser.buff[ser.tail]}]
     IN  ser' = IF "IGNBRK" \in ser.iflag THEN [a EXCEPT !.ignored = TRUE]
                ELSE IF "NOFLSH" \in ser.iflag
                THEN [SendUp(a) EXCEPT !.pc = "enable"]
                ELSE [a EXCEPT !.mp = <<>>, !.gone = @ \cup Range(ser.mp),
                               !.pc = "enable"]

\* The character that buff[tail] holds goes into the block, a full one first
\* being sent up.
PollChar ==
  /\ ser.pc = "loop" /\ ser.tail # ser.head
  /\ ser.buff[ser.tail] \notin ser.breaks
  /\ LET a == IF Len(ser.mp) >= Glob THEN SendUp(ser) ELSE ser
     IN  ser' = [a EXCEPT !.tail = (@ + 1) % BufSize,
                          !.mp = Append(@, ser.buff[ser.tail]), !.pc = "enable"]

\* ienable(AIESRBF), then RTS by what the ring holds now.
PollEnable ==
  /\ ser.pc = "enable"
  /\ ser' = [ser EXCEPT !.rbf = TRUE, !.ignored = FALSE, !.pc = "rts"]

\* Broken variant: RTS comes back only on an empty ring of a lower mark.
PollRtsLow ==
  /\ ser.pc = "rts"
  /\ ser' = [ser EXCEPT !.rts = @ \/ (Held(ser) > 0 /\ Held(ser) < BufSize - HighWater),
                        !.pc = "loop"]

PollRts ==
  /\ ser.pc = "rts"
  /\ ser' = [ser EXCEPT !.rts = @ \/ Held(ser) < BufSize - HighWater, !.pc = "loop"]

\* Everything has arrived and is delivered.
Done == ser.n = MaxIn /\ ser.opens = MaxOpens /\ ser.pc = "idle" /\ UNCHANGED ser

Next ==
  \/ Arrive \/ Open \/ Close
  \/ PollBegin \/ PollEnd \/ PollBreak \/ PollChar \/ PollEnable \/ PollRts
  \/ Done

Spec == Init /\ [][Next]_vars

-----------------------------------------------------------------------------
(* Properties.                                                             *)

TypeOK ==
  /\ ser.head \in 0 .. BufSize - 1 /\ ser.tail \in 0 .. BufSize - 1
  /\ ser.pc \in {"idle", "loop", "enable", "rts"}
  /\ Len(ser.mp) <= Glob

RingSeq(s) == [k \in 1 .. Held(s) |-> s.buff[(s.tail + k - 1) % BufSize]]

\* The level 5 handler and the clock share the ring without a lock: what
\* arrived and was not refused by a full ring or discarded for a break is
\* upstream, in the block or in the ring, once and in order.
InputInOrder ==
  LET path == ser.up \o ser.mp \o RingSeq(ser)
  IN  /\ \A j, k \in DOMAIN path : j < k => path[j] < path[k]
      /\ Range(path) = (1 .. ser.n) \ (ser.lost \cup ser.gone)

\* Flow control does not stop the input for good: while the port is open, the
\* interrupt is off or RTS is dropped only with something in the ring that the
\* next slpoll() will take.  Breaks passed over for IGNBRK are the exception:
\* their turn of the loop skips the two steps.
InputNotStalled ==
  ser.rdq /\ ser.pc \in {"idle", "loop"} /\ (~ser.rbf \/ ~ser.rts) =>
    Held(ser) > 0 \/ ser.ignored
============================================================================
