------------------------------- MODULE Lines -------------------------------
(***************************************************************************)
(* The drivers of the lines that share nothing with a process but memory:  *)
(* the parallel port, the receive ring of the serial port, the two halves  *)
(* of the A2065 card, and the ioctls of the Hydra.  They share no state    *)
(* with each other, so each behaviour is one of one of them; what all of   *)
(* them owe their users is stated here once for all.                       *)
(***************************************************************************)
EXTENDS Integers, Sequences

CONSTANTS
  ParUsers, ParHiWat,                               \* ParPort
  SlBufSize, SlLowWater, SlHighWater, SlGlob,       \* SlInput
  RxCount, RxSizes, RxStreams, RxRaw,               \* AenRx
  AenUsers, TxCount, AenIoctls,                     \* AenBoard
  HydraStreams, HydraCalls, PageLen, StopPage, DataLen,   \* HydraIoctl
  \* their bounds
  ParBytes, ParOpens, ParTimeouts, SlArrivals, SlOpens, RxFrames, AenPuts, AenCtls,
  HydraMaxCalls, HydraBinds, HydraFaults

VARIABLES part, par, ser, rx, aen, hyi

linesVars == <<part, par, ser, rx, aen, hyi>>

Par == INSTANCE ParPort WITH
  Users <- ParUsers, HiWat <- ParHiWat, MaxBytes <- ParBytes, MaxOpens <- ParOpens,
  MaxTimeouts <- ParTimeouts

SlIn == INSTANCE SlInput WITH
  BufSize <- SlBufSize, LowWater <- SlLowWater, HighWater <- SlHighWater, Glob <- SlGlob,
  MaxIn <- SlArrivals, MaxOpens <- SlOpens

Rx == INSTANCE AenRx WITH
  Sizes <- RxSizes, Streams <- RxStreams, Raw <- RxRaw, MaxFrames <- RxFrames

Aen == INSTANCE AenBoard WITH
  NUsers <- AenUsers, Ioctls <- AenIoctls, MaxPut <- AenPuts, MaxCtl <- AenCtls

Hydra == INSTANCE HydraIoctl WITH
  Streams <- HydraStreams, Calls <- HydraCalls,
  MaxCalls <- HydraMaxCalls, MaxBinds <- HydraBinds, MaxFaults <- HydraFaults

-----------------------------------------------------------------------------
(* Assumptions on the constants.                                           *)

\* par.c: PAR_HIWAT; the bounds.
ParAssumption == ParHiWat \in Nat /\ ParBytes \in Nat /\ ParOpens \in Nat /\ ParTimeouts \in Nat

\* sl.c: BUFsize, LOWwater and HIGHwater; sl.inputglobsize.
SlAssumption ==
  /\ {SlBufSize, SlLowWater, SlHighWater, SlGlob, SlArrivals, SlOpens} \subseteq Nat
  /\ SlBufSize >= 2 /\ SlHighWater < SlBufSize /\ SlGlob >= 1

\* aen.c: RXCOUNT; a stream is its sap, and a frame for nobody has sap 0.
RxAssumption ==
  /\ RxCount \in Nat /\ RxCount >= 2 /\ RxFrames \in Nat
  /\ RxRaw \subseteq RxStreams /\ RxStreams \subseteq Nat \ {0}
  /\ RxSizes \subseteq Nat \ {0}

\* aen.c: AEN_MAXDEV and TXCOUNT.
AenAssumption ==
  /\ AenUsers \in Nat /\ TxCount \in Nat \ {0}
  /\ AenPuts \in Nat /\ AenCtls \in Nat

\* hydra.c: what is asked of it.
HydraAssumption ==
  /\ {PageLen, StopPage, DataLen, HydraMaxCalls, HydraBinds, HydraFaults} \subseteq Nat
  /\ \A c \in HydraCalls :
       /\ c.cmd \in {"flags", "number", "config", "status", "test", "other"}
       /\ c.way \in {"str", "transparent", "null"}
       /\ c.cmd = "test" /\ c.test.op \in {"read reg", "write reg"} => c.test.reg \in Nat
       /\ c.cmd = "test" /\ c.test.op \in {"read ram", "write ram"}
            => c.test.page \in Int /\ c.test.len \in Int

ASSUME LinesAssumption ==
  ParAssumption /\ SlAssumption /\ RxAssumption /\ AenAssumption /\ HydraAssumption

-----------------------------------------------------------------------------
LineParts == {"par", "slin", "rx", "aen", "hydra"}

\* The state of the drivers that a behaviour is not about.
Unused == "unused"

LinesInit ==
  /\ part \in LineParts
  /\ IF part = "par"   THEN Par!Init   ELSE par = Unused
  /\ IF part = "slin"  THEN SlIn!Init  ELSE ser = Unused
  /\ IF part = "rx"    THEN Rx!Init    ELSE rx = Unused
  /\ IF part = "aen"   THEN Aen!Init   ELSE aen = Unused
  /\ IF part = "hydra" THEN Hydra!Init ELSE hyi = Unused

LinesNext ==
  /\ part' = part
  /\ \/ part = "par"   /\ Par!Next   /\ UNCHANGED <<ser, rx, aen, hyi>>
     \/ part = "slin"  /\ SlIn!Next  /\ UNCHANGED <<par, rx, aen, hyi>>
     \/ part = "rx"    /\ Rx!Next    /\ UNCHANGED <<par, ser, aen, hyi>>
     \/ part = "aen"   /\ Aen!Next   /\ UNCHANGED <<par, ser, rx, hyi>>
     \/ part = "hydra" /\ Hydra!Next /\ UNCHANGED <<par, ser, rx, aen>>

LinesSpec == LinesInit /\ [][LinesNext]_linesVars

-----------------------------------------------------------------------------
(* Properties.                                                             *)

\* The types of the drivers' state.
PartsTypeOK ==
  /\ part = "par"   => Par!TypeOK
  /\ part = "slin"  => SlIn!TypeOK
  /\ part = "rx"    => Rx!TypeOK
  /\ part = "aen"   => Aen!TypeOK
  /\ part = "hydra" => Hydra!TypeOK

\* What is written leaves in order, and what arrives reaches the users in order
\* and whole, without loss or repetition: the bytes of the parallel port, but for
\* what a timeout, a second open or an interrupted close explains; the frames of
\* the A2065's streams, but for those flushed; the characters through the ring of
\* sl.c; the frames through the LANCE's receive descriptors, until aenintr() does not
\* come out of its loop and hands up the same buffer turn after turn.
LinesInOrder ==
  /\ part = "par"  => Par!BytesInOrder
  /\ part = "aen"  => Aen!SentInOrder
  /\ part = "slin" => SlIn!InputInOrder
  /\ part = "rx"   => Rx!WholeFrames

\* What waits is not forgotten: a process that sleeps on the parallel port has a
\* wakeup to come, output queued for the LANCE an interrupt; a sender that was
\* stopped is released again, and no received frame stays in the ring.
LinesGoOn ==
  /\ part = "par"  => Par!SleepersWillWake
  /\ part = "aen"  => Aen!QueuedOutputMoves
  /\ part = "slin" => SlIn!InputNotStalled
  /\ part = "rx"   => Rx!NoFrameStranded

\* What is asked of a driver takes effect: ioctls of aen.c and hydra.c are answered,
\* once but for AEN_SET_CONFIG, whose message goes up a second time; the latter's
\* tests run once, and without harm but for the read of a register whose index is
\* too large; and an open stream is attached to its board.
RequestsTakeEffect ==
  /\ part = "aen"   => Aen!IoctlsAnswered /\ Aen!OpenIsAttached
  /\ part = "hydra" => Hydra!DialogueEnds /\ Hydra!TestsRunOnce /\ Hydra!TestsHarmless

\* aenclose() marks the board reset before it stops the LANCE, and setup_lance()
\* starts it before it marks the board running: only between those two stores
\* can an interrupt come that aenintr() does not serve.
UnservedOnlyInWindow == [][part = "aen" => Aen!UnservedOnlyInWindow]_aen
============================================================================
