----------------------------- MODULE HydraRing -----------------------------
(***************************************************************************)
(* The receive path of the Hydra driver: the DP8390 writes frames into a   *)
(* ring of 256-byte pages of the card's RAM and raises PRX; hydraintr()    *)
(* acknowledges the interrupt and receive_interrupt() walks the ring from  *)
(* info->next_pkt to the CURR register, copying frames out and moving the  *)
(* BNRY register behind itself.                                            *)
(*                                                                         *)
(* The chip runs beside the CPU: it is a second process here, and every    *)
(* register access of the driver that the chip can race with is a step of  *)
(* its own.  Frame data is abstracted to a tag per page, <<frame, index>>; *)
(* page numbers, byte counts, offsets and the 4-byte ring header are those *)
(* of the code.                                                            *)
(***************************************************************************)
EXTENDS Integers, Sequences, FiniteSets

CONSTANTS
  RxStart,      \* NE8390_RX_START_PG: first page of the receive ring
  Stop,         \* NE8390_STOP_PG: first page after the ring
  MaxLoop,      \* 256 in receive_interrupt()
  FrameLens,    \* lengths, CRC included, of the frames on the wire
  MaxFrames,    \* bound: frames that arrive in a behaviour
  MaxHistory,   \* bound: where the counters and `delivered' stop growing
  Faults,       \* header faults of a failing card
  NoiseHeaders  \* what payload bytes may look like when read as a header

PageBytes         == 256
ETH_CRC_LEN       == 4
ETH_MINFRAME      == 60
MAX_BUFFER_LENGTH == 1518
HeaderBytes       == 4

Pages  == RxStart .. Stop - 1
Size   == Stop - RxStart
Header == [next : 0 .. 255, prx : BOOLEAN, size : Nat]
Tag    == [frame : Nat, index : Nat]
Blank  == [frame |-> 0, index |-> 0]    \* RAM no frame has been stored in
Zeroed == [frame |-> 0, index |-> 1]    \* what a refused read returns

FaultKinds == {"badnext", "wildnext", "badrsr", "badsize"}

ASSUME RingAssumption ==
  /\ RxStart \in Nat
  /\ Stop \in Nat
  /\ Stop <= 256
  /\ Size * PageBytes >= MAX_BUFFER_LENGTH + HeaderBytes
  /\ MaxLoop \in Nat
  /\ MaxLoop > Size
  /\ MaxFrames \in Nat
  /\ MaxHistory \in Nat \ {0}
  /\ MaxHistory >= MaxFrames
  /\ Faults \subseteq FaultKinds
  /\ NoiseHeaders \subseteq Header

\* RCR has AR and SEP clear: the chip stores no runt and no frame in error.
ASSUME FrameAssumption ==
  FrameLens \subseteq ETH_MINFRAME + ETH_CRC_LEN .. MAX_BUFFER_LENGTH

VARIABLES
  \* the chip
  curr,       \* CURR: page where the next frame will start
  bnry,       \* BNRY: last page the chip may not write
  isr,        \* ISR, the receive bits
  hdr,        \* the first four bytes of each page
  ram,        \* the rest of each page, as a tag
  nic,        \* the frame being stored
  \* the driver
  next_pkt,   \* info->next_pkt
  pc,         \* where hydraintr()/receive_interrupt() is
  status,     \* local: the ISR value read on entry
  lcurr,      \* local: the value read from CURR
  header,     \* local: the header read from the ring
  rxbuff,     \* the static receive buffer
  loop_count, \* local: iterations of the receive loop
  stats,      \* board->hydra_status, the counters of the frames handled
  \* history
  arrived,    \* frames that came over the wire
  accepted,   \* frames the chip stored, in order
  delivered   \* what toss_packet_up_stream() was given, in order

chipVars   == <<curr, bnry, isr, hdr, ram, nic>>
localVars  == <<status, lcurr, header, rxbuff, loop_count>>
driverVars == <<next_pkt, pc, localVars, stats>>
vars == <<chipVars, driverVars, arrived, accepted, delivered>>

-----------------------------------------------------------------------------
(* Ring arithmetic.                                                        *)

\* The page after p, as the chip wraps at PSTOP to PSTART.
NextPage(p) == IF p + 1 = Stop THEN RxStart ELSE p + 1

\* Broken variants, for mutation: no wrap; wrap one page early; no step back.
PrevPageNoWrap(p)    == p - 1
PrevPageEarlyWrap(p) == IF p - 1 <= RxStart THEN Stop - 1 ELSE p - 1
PrevPageSame(p)      == p

\* `bnry = next_frame - 1; if (bnry < NE8390_RX_START_PG) ...'
PrevPage(p) == IF p - 1 < RxStart THEN Stop - 1 ELSE p - 1

\* Pages from a up to, not including, b going forward round the ring.
Dist(a, b) == IF a <= b THEN b - a ELSE b - a + Size

\* Pages a frame of n bytes occupies behind its 4-byte header.
PagesOf(n) == (n + HeaderBytes + PageBytes - 1) \div PageBytes

\* hydra_ram_read_offset(): n bytes from byte offset o, as the tags of the
\* pages they lie in; whole longwords must lie below STOP_PG, else zeros.
RamRead(o, n) ==
  LET access_len == 4 * ((n + 3) \div 4)
      first == o \div PageBytes
      last  == (o + n - 1) \div PageBytes
  IN  IF n < 0 \/ o + access_len > Stop * PageBytes
      THEN <<Zeroed>>
      ELSE [i \in 1 .. (IF n = 0 THEN 0 ELSE last - first + 1) |->
              ram[first + i - 1]]

\* Broken variants: the frame does not wrap; the header is not discounted.
CopyFrameNoWrap(page, pktsize) == RamRead(page * PageBytes + HeaderBytes, pktsize)
CopyFrameLongSemi(page, pktsize) ==
  LET semi == (Stop - page) * PageBytes
  IN  IF pktsize > semi - HeaderBytes
      THEN RamRead(page * PageBytes + HeaderBytes, semi)
           \o RamRead(RxStart * PageBytes, pktsize - semi)
      ELSE RamRead(page * PageBytes + HeaderBytes, pktsize)

\* The copy of one frame into rxbuff, in two parts when it wraps.
CopyFrame(page, pktsize) ==
  LET offset == page * PageBytes + HeaderBytes
      semi   == Stop * PageBytes - offset
  IN  IF pktsize > semi
      THEN RamRead(offset, semi) \o RamRead(RxStart * PageBytes, pktsize - semi)
      ELSE RamRead(offset, pktsize)

-----------------------------------------------------------------------------
(* The chip (external: DP8390 behaviour the driver relies on).             *)

NoHeader == [next |-> 0, prx |-> FALSE, size |-> 0]
Idle     == [busy |-> FALSE, page |-> RxStart, index |-> 0, len |-> 0]
Counters == {"rx_bad_next", "rx_bad_rsr", "rx_bad_size", "packets_received"}

\* A frame of n bytes starts to arrive: its first page is stored at CURR
\* unless CURR has run into BNRY, when the ring is full and OVW is raised.
NicBegin(n) ==
  /\ ~nic.busy
  /\ arrived < MaxFrames
  /\ arrived' = arrived + 1
  /\ IF curr = bnry
     THEN /\ isr' = isr \cup {"OVW"}
          /\ UNCHANGED <<ram, nic>>
     ELSE /\ ram' = [ram EXCEPT ![curr] = [frame |-> arrived + 1, index |-> 0]]
          /\ nic' = [busy |-> TRUE, page |-> curr, index |-> 0, len |-> n]
          /\ UNCHANGED isr
  /\ UNCHANGED <<curr, bnry, hdr, driverVars, accepted, delivered>>

\* The frame continues in the next page, or is aborted if that page is BNRY.
NicPage ==
  /\ nic.busy
  /\ nic.index + 1 < PagesOf(nic.len)
  /\ IF NextPage(nic.page) = bnry
     THEN /\ isr' = isr \cup {"OVW"}
          /\ nic' = Idle
          /\ UNCHANGED <<ram, hdr>>
     ELSE /\ nic' = [busy |-> TRUE, page |-> NextPage(nic.page),
                     index |-> nic.index + 1, len |-> nic.len]
          /\ ram' = [ram EXCEPT ![NextPage(nic.page)] =
                        [frame |-> arrived, index |-> nic.index + 1]]
          /\ \E noise \in NoiseHeaders :
               hdr' = [hdr EXCEPT ![NextPage(nic.page)] = noise]
          /\ UNCHANGED isr
  /\ UNCHANGED <<curr, bnry, driverVars, arrived, accepted, delivered>>

\* The page numbers next to the ring that a header byte can hold.
OutsideRing == {RxStart - 1, Stop} \cap 0 .. 255

BadSizes == {ETH_MINFRAME + ETH_CRC_LEN - 1, MAX_BUFFER_LENGTH + ETH_CRC_LEN + 1}

\* The headers the chip, or a failing card, may leave before a frame of n bytes
\* whose successor starts at page nf.
Hdr(nf, prx, n) == [next |-> nf, prx |-> prx, size |-> n]
HeadersFor(nf, n) ==
  {Hdr(nf, TRUE, n)}
  \cup {Hdr(p, TRUE, n) : p \in IF "badnext" \in Faults THEN OutsideRing ELSE {}}
  \cup {Hdr(p, TRUE, n) : p \in IF "wildnext" \in Faults THEN Pages ELSE {}}
  \cup {Hdr(nf, prx, n) : prx \in IF "badrsr" \in Faults THEN {FALSE} ELSE {}}
  \cup {Hdr(nf, TRUE, s) : s \in IF "badsize" \in Faults THEN BadSizes ELSE {}}

\* The last page is stored: the header goes in front of the frame, CURR moves
\* past it and PRX is raised.
NicEnd ==
  /\ nic.busy
  /\ nic.index + 1 = PagesOf(nic.len)
  /\ curr' = NextPage(nic.page)
  /\ \E h \in HeadersFor(NextPage(nic.page), nic.len) :
       /\ hdr' = [hdr EXCEPT ![curr] = h]
       /\ accepted' = Append(accepted,
                        [frame |-> arrived, len |-> nic.len,
                         good |-> h.prx /\ h.size = nic.len])
  /\ isr' = isr \cup {"PRX"}
  /\ nic' = Idle
  /\ UNCHANGED <<bnry, ram, driverVars, arrived, delivered>>

\* A frame with a CRC or framing error: RXE, and nothing is stored.
NicError ==
  /\ ~nic.busy
  /\ arrived < MaxFrames
  /\ arrived' = arrived + 1
  /\ isr' = isr \cup {"RXE"}
  /\ UNCHANGED <<curr, bnry, hdr, ram, nic, driverVars, accepted, delivered>>

-----------------------------------------------------------------------------
(* The driver.                                                             *)

\* The counters are u_long in the code; here they stop at MaxHistory.  The
\* totals rx_errors, buffer_error and overflow are left out.
Count(c) ==
  stats' = [stats EXCEPT ![c] = IF @ < MaxHistory THEN @ + 1 ELSE @]

\* setup_ne2000() has programmed the ring and started the chip.
Init ==
  /\ curr = RxStart + 1
  /\ bnry = RxStart
  /\ isr = {}
  /\ hdr = [p \in Pages |-> NoHeader]
  /\ ram = [p \in Pages |-> Blank]
  /\ nic = Idle
  /\ next_pkt = RxStart + 1
  /\ pc = "idle"
  /\ status = {}
  /\ lcurr = RxStart
  /\ header = NoHeader
  /\ rxbuff = <<>>
  /\ loop_count = 0
  /\ stats = [c \in Counters |-> 0]
  /\ arrived = 0
  /\ accepted = <<>>
  /\ delivered = <<>>

\* hydraintr() reads the ISR.
IntrRead ==
  /\ pc = "idle"
  /\ isr # {}
  /\ status' = isr
  /\ pc' = "ack"
  /\ UNCHANGED <<chipVars, next_pkt, lcurr, header, rxbuff, loop_count, stats,
                 arrived, accepted, delivered>>

\* It writes back the bits it saw and receives if PRX was among them.
IntrAck ==
  /\ pc = "ack"
  /\ isr' = isr \ status
  /\ pc' = IF "PRX" \in status THEN "poll" ELSE "idle"
  /\ loop_count' = 0
  /\ status' = {}
  /\ UNCHANGED <<curr, bnry, hdr, ram, nic, next_pkt, lcurr, header, rxbuff,
                 stats, arrived, accepted, delivered>>

\* Broken variant: no limit on the loop.
RxPollNoLimit ==
  /\ pc = "poll"
  /\ lcurr' = curr
  /\ pc' = "header"
  /\ UNCHANGED <<chipVars, next_pkt, status, header, rxbuff, loop_count, stats,
                 arrived, accepted, delivered>>

\* Top of the receive loop: give up after MaxLoop frames, else read CURR.
RxPoll ==
  /\ pc = "poll"
  /\ IF loop_count + 1 > MaxLoop
     THEN /\ pc' = "idle"
          /\ loop_count' = 0
          /\ UNCHANGED lcurr
     ELSE /\ loop_count' = loop_count + 1
          /\ lcurr' = curr
          /\ pc' = "header"
  /\ UNCHANGED <<chipVars, next_pkt, status, header, rxbuff, stats,
                 arrived, accepted, delivered>>

\* Broken variant: PRX is acknowledged after the ring was found empty.
RxDrainedLateAck ==
  /\ pc = "header"
  /\ next_pkt = lcurr
  /\ isr' = isr \ {"PRX"}
  /\ pc' = "idle"
  /\ loop_count' = 0
  /\ UNCHANGED <<curr, bnry, hdr, ram, nic, next_pkt, status, lcurr, header,
                 rxbuff, stats, arrived, accepted, delivered>>

\* Nothing between next_pkt and the value read from CURR: the loop ends.
RxDrained ==
  /\ pc = "header"
  /\ next_pkt = lcurr
  /\ pc' = "idle"
  /\ loop_count' = 0
  /\ UNCHANGED <<chipVars, next_pkt, status, lcurr, header, rxbuff, stats,
                 arrived, accepted, delivered>>

\* Otherwise the header of the frame at next_pkt is read.
RxHeader ==
  /\ pc = "header"
  /\ next_pkt # lcurr
  /\ header' = hdr[next_pkt]
  /\ pc' = "check"
  /\ UNCHANGED <<chipVars, next_pkt, status, lcurr, rxbuff, loop_count, stats,
                 arrived, accepted, delivered>>

NextInRing == header.next >= RxStart /\ header.next < Stop
PktSize    == header.size - ETH_CRC_LEN
SizeOK     == PktSize >= ETH_MINFRAME /\ PktSize <= MAX_BUFFER_LENGTH

\* The header points outside the ring: restart at RX_START and stop.
RxBadNext ==
  /\ pc = "check"
  /\ ~NextInRing
  /\ Count("rx_bad_next")
  /\ next_pkt' = RxStart
  /\ bnry' = RxStart
  /\ pc' = "idle"
  /\ loop_count' = 0
  /\ header' = NoHeader
  /\ UNCHANGED <<curr, isr, hdr, ram, nic, status, lcurr, rxbuff,
                 arrived, accepted, delivered>>

\* Broken variant: BNRY goes to the page before CURR at once.
AdvanceToCurr == next_pkt' = header.next /\ bnry' = PrevPage(lcurr)

\* Step over the frame: next_pkt, then BNRY one page behind it.
Advance ==
  /\ next_pkt' = header.next
  /\ bnry' = PrevPage(header.next)

\* Broken variant: the skipped frame is not counted.
RxSkipUncounted ==
  /\ pc = "check"
  /\ NextInRing
  /\ ~(header.prx /\ SizeOK)
  /\ Advance
  /\ pc' = "poll"
  /\ header' = NoHeader
  /\ UNCHANGED <<curr, isr, hdr, ram, nic, status, lcurr, rxbuff, loop_count,
                 stats, arrived, accepted, delivered>>

\* The status byte or the length is not that of a good frame: skip it.
RxSkip ==
  /\ pc = "check"
  /\ NextInRing
  /\ ~(header.prx /\ SizeOK)
  /\ Count(IF ~header.prx THEN "rx_bad_rsr" ELSE "rx_bad_size")
  /\ Advance
  /\ pc' = "poll"
  /\ header' = NoHeader
  /\ UNCHANGED <<curr, isr, hdr, ram, nic, status, lcurr, rxbuff, loop_count,
                 arrived, accepted, delivered>>

\* The frame is copied to rxbuff.
RxCopy ==
  /\ pc = "check"
  /\ NextInRing
  /\ header.prx
  /\ SizeOK
  /\ rxbuff' = CopyFrame(next_pkt, PktSize)
  /\ pc' = "advance"
  /\ UNCHANGED <<chipVars, next_pkt, status, lcurr, header, loop_count, stats,
                 arrived, accepted, delivered>>

\* Its pages are given back to the chip.
RxAdvance ==
  /\ pc = "advance"
  /\ Count("packets_received")
  /\ Advance
  /\ pc' = "toss"
  /\ UNCHANGED <<curr, isr, hdr, ram, nic, status, lcurr, header, rxbuff,
                 loop_count, arrived, accepted, delivered>>

\* Broken variant: one frame per interrupt.
RxTossOne ==
  /\ pc = "toss"
  /\ delivered' = Append(delivered, [data |-> rxbuff, size |-> PktSize])
  /\ rxbuff' = <<>>
  /\ header' = NoHeader
  /\ pc' = "idle"
  /\ loop_count' = 0
  /\ UNCHANGED <<chipVars, next_pkt, status, lcurr, stats, arrived, accepted>>

\* toss_packet_up_stream(rxbuff, board_index, pktsize)
RxToss ==
  /\ pc = "toss"
  /\ delivered' = IF Len(delivered) < MaxHistory
                  THEN Append(delivered, [data |-> rxbuff, size |-> PktSize])
                  ELSE delivered
  /\ rxbuff' = <<>>
  /\ header' = NoHeader
  /\ pc' = "poll"
  /\ UNCHANGED <<chipVars, next_pkt, status, lcurr, loop_count, stats,
                 arrived, accepted>>

Nic == (\E n \in FrameLens : NicBegin(n)) \/ NicPage \/ NicEnd \/ NicError

Driver ==
  \/ IntrRead \/ IntrAck \/ RxPoll \/ RxDrained \/ RxHeader
  \/ RxBadNext \/ RxSkip \/ RxCopy \/ RxAdvance \/ RxToss

\* Every frame has come and the driver is back from its last interrupt.
Done ==
  /\ arrived = MaxFrames
  /\ ~nic.busy
  /\ pc = "idle"
  /\ isr = {}
  /\ UNCHANGED vars

Next == Nic \/ Driver \/ Done

Spec == Init /\ [][Next]_vars

\* INT2 is level sensitive and the handler runs to completion, so the driver's
\* steps are fair; a frame that has begun ends.  Nothing makes frames arrive.
FairSpec == Spec /\ WF_vars(Driver) /\ WF_vars(NicPage \/ NicEnd)

-----------------------------------------------------------------------------
(* Properties.                                                             *)

InLoop == pc \notin {"idle", "ack"}

NicState      == [busy : BOOLEAN, page : Pages, index : Nat, len : {0} \cup FrameLens]
AcceptedFrame == [frame : Nat, len : FrameLens, good : BOOLEAN]
TossedFrame   == [data : Seq(Tag), size : Int]

ChipTypeOK ==
  /\ curr \in Pages /\ bnry \in Pages
  /\ isr \in SUBSET {"PRX", "RXE", "OVW"}
  /\ hdr \in [Pages -> Header]
  /\ ram \in [Pages -> Tag]
  /\ nic \in NicState

DriverTypeOK ==
  /\ next_pkt \in Pages
  /\ pc \in {"idle", "ack", "poll", "header", "check", "advance", "toss"}
  /\ status \in SUBSET {"PRX", "RXE", "OVW"}
  /\ lcurr \in Pages
  /\ header \in Header
  /\ rxbuff \in Seq(Tag)
  /\ loop_count \in 0 .. MaxLoop
  /\ stats \in [Counters -> 0 .. MaxHistory]

HistoryTypeOK ==
  /\ arrived \in 0 .. MaxFrames
  /\ accepted \in Seq(AcceptedFrame)
  /\ delivered \in Seq(TossedFrame)

TypeOK == ChipTypeOK /\ DriverTypeOK /\ HistoryTypeOK

\* The pages from next_pkt up to CURR: stored frames not yet given back.
Unread == {p \in Pages : Dist(next_pkt, p) < Dist(next_pkt, curr)}

\* The chip never stores into a page of a frame the driver has yet to copy:
\* the BNRY written after each frame holds the chip off the rest.
NicSparesUnread == nic.busy => nic.page \notin Unread

\* Why.  BNRY stays one page behind next_pkt; the chip is past the frames
\* stored, short of BNRY, and numbers the pages of the frame it stores; the
\* frames stored chain from next_pkt to CURR; and the driver's copies of a
\* header and of CURR are still good when it uses them.
ChipAhead ==
  /\ bnry = PrevPage(next_pkt)
  /\ nic.busy =>
       /\ nic.index = Dist(curr, nic.page)
       /\ Dist(next_pkt, curr) + nic.index < Size - 1
       /\ \A p \in Pages : Dist(curr, p) <= nic.index => ram[p].index = Dist(curr, p)

FramesChain ==
  /\ next_pkt # curr => ram[next_pkt].index = 0
  /\ \A p \in Unread : ram[p].index = 0 =>
       LET n == hdr[p].next
       IN  /\ n \in Pages
           /\ Dist(next_pkt, p) < Dist(next_pkt, n)
           /\ Dist(next_pkt, n) <= Dist(next_pkt, curr)
           /\ n # curr => ram[n].index = 0

DriverBehind ==
  /\ pc = "header" => Dist(next_pkt, lcurr) <= Dist(next_pkt, curr)
  /\ pc \in {"check", "advance"} => next_pkt # curr /\ header = hdr[next_pkt]

RingInv == ChipAhead /\ FramesChain /\ DriverBehind

\* The image of an accepted frame that toss_packet_up_stream() should get.
Image(f) == [data |-> [i \in 1 .. PagesOf(f.len - ETH_CRC_LEN) |->
                         [frame |-> f.frame, index |-> i - 1]],
             size |-> f.len - ETH_CRC_LEN]

\* The places among the first n accepted frames that hold a good one.
GoodUpTo(n) == {k \in 1 .. n : accepted[k].good}

\* Every frame handed upstream is byte for byte one the chip stored, in the
\* order they were stored, none twice and none left out except those whose
\* header was bad: the i-th is the i-th good one.  That holds whatever the chip
\* stores meanwhile.
InOrderDelivery ==
  \A i \in 1 .. Len(delivered) :
    \E k \in GoodUpTo(Len(accepted)) :
      Cardinality(GoodUpTo(k)) = i /\ delivered[i] = Image(accepted[k])

\* A frame is in the ring, was delivered or was counted as bad: the counters
\* and the ring account for each accepted frame exactly once.
Handled == stats["rx_bad_rsr"] + stats["rx_bad_size"] + stats["packets_received"]
FrameStarts == {p \in Unread : ram[p].index = 0}
EveryFrameAccountedFor ==
  Len(accepted) = Handled + Cardinality(FrameStarts)

\* hydraintr() acknowledges PRX before it drains the ring, never after: while
\* it is idle with a frame in the ring, the interrupt is still requested.
NoLostWakeup == pc = "idle" /\ next_pkt # curr => "PRX" \in isr

\* Why.  A frame that ends raises PRX; as long as none does, each turn of the
\* loop brings next_pkt a page nearer to CURR, so the ring is empty before the
\* loop has been round it once, and MaxLoop is not reached.
WakeInv ==
  /\ pc = "idle"   => next_pkt = curr \/ "PRX" \in isr
  /\ pc = "ack"    => next_pkt = curr \/ "PRX" \in isr \cup status
  /\ pc = "header" => lcurr = curr \/ "PRX" \in isr
  /\ pc \in {"poll", "toss"} =>
       loop_count + Dist(next_pkt, curr) < Size \/ "PRX" \in isr
  /\ pc \in {"header", "check", "advance"} =>
       loop_count + Dist(next_pkt, curr) <= Size \/ "PRX" \in isr

\* With nothing to read the chip always has room: CURR meets BNRY only when
\* frames fill the ring, or after the recovery from a header outside it.
EmptyIsNotFull ==
  next_pkt = curr /\ stats["rx_bad_next"] = 0 => bnry # curr

\* The chip turns a frame away only if the frames in the ring leave it no room:
\* all pages but one are usable, and each is given back with its frame.
FreePages == Size - 1 - Dist(next_pkt, curr)
LossOnlyWhenFull ==
  [][/\ nic.busy /\ ~nic'.busy /\ curr' = curr => FreePages < PagesOf(nic.len)
     /\ ~nic.busy /\ isr' \ isr = {"OVW"} => FreePages = 0]_vars

\* Neither part of a copy, rounded up to longwords, is refused by
\* hydra_ram_read_offset() and replaced by zeros, whatever the header says.
CopyStaysInRing == \A i \in 1 .. Len(rxbuff) : rxbuff[i] # Zeroed

\* hydraintr() returns however the headers chain, cycles included.
HandlerReturns == pc # "idle" ~> pc = "idle"
============================================================================
