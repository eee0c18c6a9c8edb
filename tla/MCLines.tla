------------------------------ MODULE MCLines ------------------------------
(***************************************************************************)
(* The drivers of the lines on small instances: those of Lines, and the    *)
(* terminals and what else has a queue in each direction: the transmitter  *)
(* of the serial port, the A2232 and the contributed serial card, SLIP and *)
(* audio.  They share no state, so each behaviour is one of one of them.   *)
(***************************************************************************)
EXTENDS Lines

VARIABLES sl, ql, mx, slip, au

ttyVars == <<sl, ql, mx, slip, au>>

SlOut == INSTANCE SlOutput WITH
  HwFlow <- TRUE, Ixon <- TRUE, Ioctls <- {"set", "setw", "setf", "brk"},
  Controls <- {"flush", "break", "start", "stop", "delay"},
  MaxPut <- 2, MaxCtl <- 1, MaxOpens <- 1

\* Calls of the line and their orders to the card.
Ql == INSTANCE QlLine WITH
  BufSize <- 3, Kinds <- {}, Calls <- {"set", "flush", "break", "stop", "start"},
  MaxPut <- 2, MaxIn <- 0, MaxCtl <- 2

\* The same line with one flush after another.
QlFlush == INSTANCE QlLine WITH
  BufSize <- 3, Kinds <- {}, Calls <- {"flush"}, MaxPut <- 1, MaxIn <- 0, MaxCtl <- 3

\* The same line with its sender stopped by what it receives.
QlXoff == INSTANCE QlLine WITH
  BufSize <- 3, Kinds <- {"xoff", "xoff8", "xon"}, Calls <- {}, MaxPut <- 1, MaxIn <- 2, MaxCtl <- 1

\* The same line with its receive ring full.
QlFull == INSTANCE QlLine WITH
  BufSize <- 3, Kinds <- {"char", "break"}, Calls <- {"flush"},
  MaxPut <- 0, MaxIn <- 3, MaxCtl <- 2

Mx == INSTANCE MxLine WITH
  Controls <- {"set", "setw", "setf", "brk", "flush", "break", "stop", "start", "delay"},
  Flags <- {}, Glob <- 2,
  BufSize <- 3, LowWater <- 3, HighWater <- 2, MaxPut <- 2, MaxCtl <- 1, MaxIn <- 0, MaxLine <- 2

\* The same card with its receive ring full.
MxFull == INSTANCE MxLine WITH
  Controls <- {}, Flags <- {"IGNBRK", "NOFLSH"}, Glob <- 2,
  BufSize <- 3, LowWater <- 3, HighWater <- 2, MaxPut <- 1, MaxCtl <- 0, MaxIn <- 3, MaxLine <- 0

\* Packets made of the bytes that the framing has to hide, and a plain one.
Sl == INSTANCE Slip WITH
  Packets <- {<<"END">>, <<"ESCAPE", "TEND">>, <<"a", "END">>},
  SlipMax <- 2, Refuse <- TRUE, MaxSent <- 2, MaxCtl <- 3

Au == INSTANCE Audio WITH
  NClients <- 2, NChannels <- 1, BufSize <- 2, Lengths <- {1, 2}, MaxUnits <- 2

\* What is asked of the Hydra, and of the tests those that could do harm.
HydraTests ==
  {[op |-> "read reg", reg |-> 6], [op |-> "read reg", reg |-> 16],
   [op |-> "write reg", reg |-> 16, val |-> "any"], [op |-> "write reg", reg |-> 0, val |-> "STP"],
   [op |-> "write reg", reg |-> 4, val |-> "page"], [op |-> "write reg", reg |-> 6, val |-> "count"],
   [op |-> "write ram", page |-> 1, len |-> 2], [op |-> "read ram", page |-> -1, len |-> 2]}

MCHydraCalls ==
  {[cmd |-> c, way |-> "transparent", test |-> "none"] : c \in {"number", "config", "status"}}
  \cup {[cmd |-> c, way |-> "str", test |-> "none"] : c \in {"flags", "other"}}
  \cup {[cmd |-> "test", way |-> "str", test |-> t] : t \in HydraTests}
  \cup {[cmd |-> "test", way |-> w, test |-> [op |-> "tx"]] : w \in {"transparent", "null"}}

-----------------------------------------------------------------------------
QlParts == {"ql", "qlflush", "qlxoff", "qlfull"}

TtyParts == QlParts \cup {"slout", "mx", "mxfull", "slip", "au"}

TtysInit ==
  /\ part \in TtyParts
  /\ IF part = "slout" THEN SlOut!Init ELSE sl = Unused
  /\ IF part \in QlParts THEN Ql!Init ELSE ql = Unused
  /\ IF part = "mx" THEN Mx!Init ELSE IF part = "mxfull" THEN MxFull!Init ELSE mx = Unused
  /\ IF part = "slip" THEN Sl!Init ELSE slip = Unused
  /\ IF part = "au" THEN Au!Init ELSE au = Unused

TtysNext ==
  \/ part = "slout"  /\ SlOut!Next  /\ UNCHANGED <<ql, mx, slip, au>>
  \/ part = "ql"     /\ Ql!Next     /\ UNCHANGED <<sl, mx, slip, au>>
  \/ part = "qlflush" /\ QlFlush!Next /\ UNCHANGED <<sl, mx, slip, au>>
  \/ part = "qlxoff" /\ QlXoff!Next /\ UNCHANGED <<sl, mx, slip, au>>
  \/ part = "qlfull" /\ QlFull!Next /\ UNCHANGED <<sl, mx, slip, au>>
  \/ part = "mx"     /\ Mx!Next     /\ UNCHANGED <<sl, ql, slip, au>>
  \/ part = "mxfull" /\ MxFull!Next /\ UNCHANGED <<sl, ql, slip, au>>
  \/ part = "slip"   /\ Sl!Next     /\ UNCHANGED <<sl, ql, mx, au>>
  \/ part = "au"     /\ Au!Next     /\ UNCHANGED <<sl, ql, mx, slip>>

\* A behaviour is one of Lines with the terminals out of use, or the reverse.
Init ==
  \/ LinesInit /\ sl = Unused /\ ql = Unused /\ mx = Unused /\ slip = Unused /\ au = Unused
  \/ TtysInit /\ par = Unused /\ ser = Unused /\ rx = Unused /\ aen = Unused /\ hyi = Unused

Next ==
  \/ part \in LineParts /\ LinesNext /\ UNCHANGED ttyVars
  \/ part \in TtyParts /\ TtysNext /\ UNCHANGED linesVars

Spec == Init /\ [][Next]_<<linesVars, ttyVars>>

-----------------------------------------------------------------------------
\* The types of the drivers' state, their rings never over- or underrun.
LinesTypeOK ==
  /\ PartsTypeOK
  /\ part = "slout" => SlOut!TypeOK
  /\ part \in QlParts => Ql!TypeOK
  /\ part = "mx" => Mx!TypeOK
  /\ part = "mxfull" => MxFull!TypeOK
  /\ part = "slip" => Sl!TypeOK
  /\ part = "au" => Au!TypeOK

\* What users write leaves in order, and what arrives reaches them in order and
\* whole: without loss or repetition, but for the losses that a flush or a nested
\* interrupt of mxtint() explains, through the rings of mx.c and the A2232 and the
\* framing of SLIP.
TtysInOrder ==
  /\ part = "slout" => SlOut!DataInOrder
  /\ part \in QlParts => Ql!CardSendsInOrder /\ Ql!CardReceivesInOrder
  /\ part = "mx" => Mx!BytesLostOnlyWhenNested /\ Mx!ReceivedInOrder
  /\ part = "mxfull" => MxFull!BytesLostOnlyWhenNested /\ MxFull!ReceivedInOrder
  /\ part = "slip" => Sl!RoundTrip
  /\ part = "au" => Au!LoadedInOrder

\* Output that waits, and a process that sleeps until it has drained, has a wakeup
\* to come: an interrupt, a timeout or a change of the line; orders reach the A2232, which
\* stays disabled or is held off only as QlLine says, and its opener wakes; and no
\* packet of SLIP is held back.
TtysGoOn ==
  /\ part = "slout" => SlOut!DrainerWillWake
  /\ part \in QlParts =>
       /\ Ql!NotLeftDisabled /\ Ql!ParamsCatchUp
       /\ Ql!HeldOffIsReleased /\ Ql!OpenerWillWake
  /\ part = "mx" => Mx!CloserWillWake
  /\ part = "mxfull" => MxFull!CloserWillWake
  /\ part = "slip" => Sl!NothingHeldBack
  /\ part = "au" => Au!LeftOverIsFetched
============================================================================
