--------------------------- MODULE HydraRingFifo ---------------------------
(***************************************************************************)
(* HydraRing implements FrameFifo.  The queue is what is accepted and not  *)
(* yet counted as handled; a frame is in hand between the move of BNRY     *)
(* that gives its pages back and the call of toss_packet_up_stream(); and  *)
(* what comes out is read back from the bytes handed to that call.         *)
(***************************************************************************)
EXTENDS HydraRing, SequencesExt

\* The frame whose bytes d holds, or "garbled" if they are of no one frame.
FrameOf(d) ==
  IF \E f \in ToSet(accepted) : d = Image(f)
  THEN CHOOSE f \in ToSet(accepted) : d = Image(f)
  ELSE [garbled |-> d]

Fifo == INSTANCE FrameFifo WITH
  Frames   <- [frame : 1 .. MaxFrames, len : FrameLens, good : BOOLEAN],
  Weight   <- LAMBDA f : PagesOf(f.len),
  Capacity <- Size - 1,
  queue    <- SubSeq(accepted, Handled + 1, Len(accepted)),
  hand     <- IF pc = "toss"
              THEN <<FrameOf([data |-> rxbuff, size |-> PktSize])>> ELSE <<>>,
  out      <- [i \in 1 .. Len(delivered) |-> FrameOf(delivered[i])]

\* The whole receive path, from the chip's pages to the calls upstream, is a
\* FIFO bounded by the ring: nothing torn, reordered, repeated or stuck.
RingIsFifo == Fifo!FifoSpec
============================================================================
