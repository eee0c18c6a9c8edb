----------------------------- MODULE FrameFifo -----------------------------
(***************************************************************************)
(* What the receive ring promises the streams above it: the good frames    *)
(* come out whole and in the order they went in, the bad ones are left     *)
(* out, those that wait never hold more than the ring's pages, and every   *)
(* frame that goes in is dealt with.                                       *)
(***************************************************************************)
EXTENDS Integers, Sequences

CONSTANTS
  Frames,     \* what can arrive: records with a field `good'
  Weight(_),  \* the pages a frame takes
  Capacity    \* the pages frames may hold

VARIABLES
  queue,  \* frames stored, oldest first
  hand,   \* the frame taken out and not passed on yet, if any
  out     \* frames passed on

fifoVars == <<queue, hand, out>>

\* The pages the frames of q take.
Held(q) ==
  LET first[n \in 0 .. Len(q)] == IF n = 0 THEN 0 ELSE first[n - 1] + Weight(q[n])
  IN  first[Len(q)]

FifoInit == queue = <<>> /\ hand = <<>> /\ out = <<>>

Accept(f) ==
  /\ Held(queue) + Weight(f) <= Capacity
  /\ queue' = Append(queue, f)
  /\ UNCHANGED <<hand, out>>

Take ==
  /\ queue # <<>> /\ Head(queue).good
  /\ hand = <<>>
  /\ hand' = <<Head(queue)>>
  /\ queue' = Tail(queue)
  /\ UNCHANGED out

Discard ==
  /\ queue # <<>> /\ ~Head(queue).good
  /\ hand = <<>>
  /\ queue' = Tail(queue)
  /\ UNCHANGED <<hand, out>>

Give ==
  /\ hand # <<>>
  /\ out' = out \o hand
  /\ hand' = <<>>
  /\ UNCHANGED queue

FifoNext == (\E f \in Frames : Accept(f)) \/ Take \/ Discard \/ Give

\* The safety of the queue, and with it that every frame is dealt with.
FifoSafety == FifoInit /\ [][FifoNext]_fifoVars
FifoSpec   == FifoSafety /\ WF_fifoVars(Take \/ Discard \/ Give)
============================================================================
