-------------------------- MODULE HydraRingProofs --------------------------
(***************************************************************************)
(* Theorems of HydraRing, for rings, frame lengths and loop limits of any  *)
(* size that satisfies the assumptions.                                    *)
(***************************************************************************)
EXTENDS HydraRing, SequenceTheorems, TLAPS

USE DEF PageBytes, ETH_CRC_LEN, ETH_MINFRAME, MAX_BUFFER_LENGTH, HeaderBytes

-----------------------------------------------------------------------------
(* Pages, tags and headers.                                                *)

\* The ring arithmetic of NIC and driver stays in the ring.
LEMMA PageSteps ==
  /\ RxStart \in Pages
  /\ RxStart + 1 \in Pages
  /\ \A p \in Pages : NextPage(p) \in Pages /\ PrevPage(p) \in Pages
  /\ Pages \subseteq 0 .. 255
BY RingAssumption DEF Pages, Size, NextPage, PrevPage

\* A function from 1 .. k is a sequence.
LEMMA FunctionIsSeq ==
  ASSUME NEW S, NEW k \in Nat, NEW f \in [1 .. k -> S]
  PROVE  f \in Seq(S)
BY SeqDef

\* A read of the card's RAM that starts in the ring returns tags.
LEMMA RamReadTags ==
  ASSUME ram \in [Pages -> Tag], NEW o \in Nat, NEW n \in Int,
         o >= RxStart * PageBytes
  PROVE  RamRead(o, n) \in Seq(Tag)
<1> DEFINE first == o \div PageBytes
           last  == (o + n - 1) \div PageBytes
           len   == IF n = 0 THEN 0 ELSE last - first + 1
<1>1. Zeroed \in Tag
  BY DEF Zeroed, Tag
<1>2. CASE n < 0 \/ o + 4 * ((n + 3) \div 4) > Stop * PageBytes
  BY <1>1, <1>2 DEF RamRead
<1>3. CASE ~(n < 0 \/ o + 4 * ((n + 3) \div 4) > Stop * PageBytes)
  <2>1. first \in Nat /\ first >= RxStart
    BY RingAssumption
  <2>2. n > 0 => last \in Nat /\ last < Stop /\ last >= first
    BY <1>3, RingAssumption
  <2>3. n = 0 \/ n > 0
    BY <1>3
  <2>4. len \in Nat
    BY <2>1, <2>2, <2>3
  <2>5. \A i \in 1 .. len : first + i - 1 \in Pages
    BY <2>1, <2>2, <2>3, RingAssumption DEF Pages
  <2>6. [i \in 1 .. len |-> ram[first + i - 1]] \in [1 .. len -> Tag]
    BY <2>5
  <2>7. [i \in 1 .. len |-> ram[first + i - 1]] \in Seq(Tag)
    BY <2>4, <2>6, FunctionIsSeq
  <2>8. RamRead(o, n) = [i \in 1 .. len |-> ram[first + i - 1]]
    BY <1>3 DEF RamRead
  <2> QED
    BY <2>7, <2>8
<1> QED
  BY <1>2, <1>3

\* So does the copy of a frame, whether it wraps or not.
LEMMA CopyFrameTags ==
  ASSUME ram \in [Pages -> Tag], NEW p \in Pages, NEW n \in Int
  PROVE  CopyFrame(p, n) \in Seq(Tag)
<1> DEFINE offset == p * PageBytes + HeaderBytes
           semi   == Stop * PageBytes - offset
<1>1. offset \in Nat /\ semi \in Int /\ offset >= RxStart * PageBytes
  BY RingAssumption DEF Pages
<1>2. RamRead(offset, semi) \in Seq(Tag) /\ RamRead(offset, n) \in Seq(Tag)
  BY <1>1, RamReadTags
<1>3. RamRead(RxStart * PageBytes, n - semi) \in Seq(Tag)
  <2>1. RxStart * PageBytes \in Nat /\ n - semi \in Int
    BY <1>1, RingAssumption
  <2> QED
    BY <2>1, RamReadTags
<1>4. RamRead(offset, semi) \o RamRead(RxStart * PageBytes, n - semi) \in Seq(Tag)
  BY <1>2, <1>3, ConcatProperties
<1> QED
  BY <1>2, <1>4 DEF CopyFrame

\* What the chip may write in front of a frame is a header.
LEMMA HeadersForHeader ==
  ASSUME NEW nf \in Pages, NEW n \in FrameLens, NEW h \in HeadersFor(nf, n)
  PROVE  h \in Header
<1>1. nf \in 0 .. 255 /\ n \in Nat
  BY PageSteps, FrameAssumption
<1>2. Pages \subseteq 0 .. 255 /\ OutsideRing \subseteq 0 .. 255
  BY PageSteps DEF OutsideRing
<1>3. \A p \in 0 .. 255, b \in BOOLEAN, s \in Nat : Hdr(p, b, s) \in Header
  BY DEF Hdr, Header
<1>4. BadSizes \subseteq Nat
  BY DEF BadSizes
<1>5. \E p \in 0 .. 255, b \in BOOLEAN, s \in Nat : h = Hdr(p, b, s)
  BY <1>1, <1>2, <1>4 DEF HeadersFor
<1> QED
  BY <1>3, <1>5

-----------------------------------------------------------------------------
(* Type correctness.                                                       *)

\* TypeOK with what makes it inductive: a frame being stored has a length, and
\* a header the driver steps over by has passed the test of its next page.
TypeInv ==
  /\ TypeOK
  /\ nic.busy => nic.len \in FrameLens
  /\ pc = "advance" => NextInRing

LEMMA TypeInit == Init => TypeInv
<1> SUFFICES ASSUME Init PROVE TypeInv
  OBVIOUS
<1>1. NoHeader \in Header /\ Blank \in Tag
  BY DEF NoHeader, Header, Blank, Tag
<1>2. Idle \in NicState
  BY PageSteps DEF Idle, NicState
<1>3. ChipTypeOK
  BY <1>1, <1>2, PageSteps DEF Init, ChipTypeOK
<1>4. rxbuff \in Seq(Tag) /\ HistoryTypeOK
  BY RingAssumption, EmptySeq DEF Init, HistoryTypeOK
<1>5. DriverTypeOK
  BY <1>1, <1>4, PageSteps, RingAssumption DEF Init, DriverTypeOK
<1> QED
  BY <1>3, <1>4, <1>5 DEF Init, TypeInv, TypeOK, Idle

\* A counter that is counted stays a counter.
LEMMA CountType ==
  ASSUME DriverTypeOK, NEW c \in Counters, Count(c)
  PROVE  stats' \in [Counters -> 0 .. MaxHistory]
<1>1. stats[c] \in 0 .. MaxHistory
  BY DEF DriverTypeOK
<1>2. (IF stats[c] < MaxHistory THEN stats[c] + 1 ELSE stats[c]) \in 0 .. MaxHistory
  BY <1>1, RingAssumption
<1> QED
  BY <1>2 DEF Count, DriverTypeOK

\* A step of the chip keeps its types, and gives a frame it stores a length.
LEMMA ChipTypeStep ==
  ASSUME TypeInv, Nic
  PROVE  TypeInv'
<1> USE DEF TypeInv, TypeOK, driverVars, localVars
<1>1. ASSUME DriverTypeOK, UNCHANGED driverVars PROVE DriverTypeOK'
  BY <1>1 DEF DriverTypeOK
<1>2. ASSUME UNCHANGED driverVars PROVE (pc = "advance" => NextInRing)'
  BY <1>2 DEF NextInRing
<1>3. Idle \in NicState /\ ~Idle.busy
  BY PageSteps DEF Idle, NicState
<1>4. arrived + 1 \in Nat /\ arrived \in Nat /\ nic.page \in Pages /\ nic.index \in Nat
  BY RingAssumption DEF HistoryTypeOK, ChipTypeOK, NicState
<1>5. NextPage(nic.page) \in Pages
  BY <1>4, PageSteps
<1>6. ASSUME NEW n \in FrameLens, NicBegin(n) PROVE TypeInv'
  <2>1. ram' \in [Pages -> Tag]
    BY <1>4, <1>6 DEF NicBegin, ChipTypeOK, Tag
  <2>2. [busy |-> TRUE, page |-> curr, index |-> 0, len |-> n] \in NicState
    BY DEF NicState, ChipTypeOK
  <2>3. nic' \in NicState /\ (nic'.busy => nic'.len \in FrameLens)
    <3>1. CASE curr = bnry
      BY <1>6, <3>1 DEF NicBegin, ChipTypeOK
    <3>2. CASE curr # bnry
      <4> DEFINE began == [busy |-> TRUE, page |-> curr, index |-> 0, len |-> n]
      <4>1. nic' = began /\ began.len \in FrameLens
        BY <1>6, <3>2 DEF NicBegin
      <4> QED
        BY <2>2, <4>1
    <3> QED
      BY <3>1, <3>2
  <2>4. HistoryTypeOK'
    BY <1>6, RingAssumption DEF NicBegin, HistoryTypeOK
  <2> QED
    BY <1>1, <1>2, <1>6, <2>1, <2>3, <2>4 DEF NicBegin, ChipTypeOK
<1>7. CASE NicPage
  <2>1. ram' \in [Pages -> Tag]
    <3>1. [frame |-> arrived, index |-> nic.index + 1] \in Tag
      BY <1>4 DEF Tag
    <3> QED
      BY <1>5, <1>7, <3>1 DEF NicPage, ChipTypeOK
  <2>2. hdr' \in [Pages -> Header]
    BY <1>7, RingAssumption DEF NicPage, ChipTypeOK
  <2>3. nic' \in NicState /\ (nic'.busy => nic'.len \in FrameLens)
    <3>1. nic.len \in FrameLens
      BY <1>7 DEF NicPage
    <3>2. [busy |-> TRUE, page |-> NextPage(nic.page), index |-> nic.index + 1,
           len |-> nic.len] \in NicState
      BY <1>4, <1>5, <3>1 DEF NicState
    <3> DEFINE more == [busy |-> TRUE, page |-> NextPage(nic.page),
                        index |-> nic.index + 1, len |-> nic.len]
    <3>3. nic' = Idle \/ (nic' = more /\ more.len \in FrameLens)
      BY <1>7, <3>1 DEF NicPage
    <3> QED
      BY <1>3, <3>2, <3>3
  <2> QED
    BY <1>1, <1>2, <1>7, <2>1, <2>2, <2>3 DEF NicPage, ChipTypeOK, HistoryTypeOK
<1>8. CASE NicEnd
  <2>1. PICK h \in HeadersFor(NextPage(nic.page), nic.len) :
          /\ hdr' = [hdr EXCEPT ![curr] = h]
          /\ accepted' = Append(accepted,
                           [frame |-> arrived, len |-> nic.len,
                            good |-> h.prx /\ h.size = nic.len])
    BY <1>8 DEF NicEnd
  <2>2. nic.len \in FrameLens
    BY <1>8 DEF NicEnd
  <2>3. hdr' \in [Pages -> Header]
    BY <1>5, <2>1, <2>2, HeadersForHeader DEF ChipTypeOK
  <2>4. [frame |-> arrived, len |-> nic.len, good |-> h.prx /\ h.size = nic.len]
          \in AcceptedFrame
    BY <1>4, <2>2 DEF AcceptedFrame
  <2>5. accepted' \in Seq(AcceptedFrame)
    BY <2>1, <2>4, AppendProperties DEF HistoryTypeOK
  <2> QED
    BY <1>1, <1>2, <1>3, <1>5, <1>8, <2>3, <2>5 DEF NicEnd, ChipTypeOK, HistoryTypeOK
<1>9. CASE NicError
  <2>1. HistoryTypeOK'
    BY <1>9, RingAssumption DEF NicError, HistoryTypeOK
  <2> QED
    BY <1>1, <1>2, <1>9, <2>1 DEF NicError, ChipTypeOK
<1> QED
  BY <1>6, <1>7, <1>8, <1>9 DEF Nic

\* So does a step of the driver: BNRY and next_pkt only take a page number that
\* passed the test.
LEMMA DriverTypeStep ==
  ASSUME TypeInv, Driver
  PROVE  TypeInv'
<1> USE DEF TypeInv, TypeOK, chipVars
<1>1. NoHeader \in Header
  BY DEF NoHeader, Header
<1>2. ASSUME ChipTypeOK, UNCHANGED chipVars PROVE ChipTypeOK'
  BY <1>2 DEF ChipTypeOK
<1>3. ASSUME HistoryTypeOK, UNCHANGED <<arrived, accepted, delivered>>
      PROVE  HistoryTypeOK'
  BY <1>3 DEF HistoryTypeOK
<1>4. ASSUME NextInRing, Advance PROVE next_pkt' \in Pages /\ bnry' \in Pages
  <2>1. header.next \in Pages
    <3>1. header.next \in 0 .. 255
      BY DEF DriverTypeOK, Header
    <3> QED
      BY <1>4, <3>1, RingAssumption DEF NextInRing, Pages
  <2> QED
    BY <1>4, <2>1, PageSteps DEF Advance
<1>5. CASE IntrRead
  BY <1>2, <1>3, <1>5 DEF IntrRead, ChipTypeOK, DriverTypeOK
<1>6. CASE IntrAck
  BY <1>3, <1>6, RingAssumption DEF IntrAck, ChipTypeOK, DriverTypeOK
<1>7. CASE RxPoll
  BY <1>2, <1>3, <1>7, RingAssumption DEF RxPoll, ChipTypeOK, DriverTypeOK
<1>8. CASE RxDrained
  BY <1>2, <1>3, <1>8, RingAssumption DEF RxDrained, DriverTypeOK
<1>9. CASE RxHeader
  BY <1>2, <1>3, <1>9 DEF RxHeader, ChipTypeOK, DriverTypeOK
<1>10. CASE RxBadNext
  <2>1. stats' \in [Counters -> 0 .. MaxHistory]
    BY <1>10, CountType DEF RxBadNext, Counters
  <2> QED
    BY <1>1, <1>3, <1>10, <2>1, PageSteps, RingAssumption
    DEF RxBadNext, ChipTypeOK, DriverTypeOK
<1>11. CASE RxSkip
  <2>1. stats' \in [Counters -> 0 .. MaxHistory]
    BY <1>11, CountType DEF RxSkip, Counters
  <2>2. next_pkt' \in Pages /\ bnry' \in Pages
    BY <1>4, <1>11 DEF RxSkip
  <2> QED
    BY <1>1, <1>3, <1>11, <2>1, <2>2 DEF RxSkip, ChipTypeOK, DriverTypeOK
<1>12. CASE RxCopy
  <2>1. PktSize \in Int
    BY DEF PktSize, DriverTypeOK, Header
  <2>2. rxbuff' \in Seq(Tag)
    BY <1>12, <2>1, CopyFrameTags DEF RxCopy, ChipTypeOK, DriverTypeOK
  <2>3. NextInRing'
    BY <1>12 DEF RxCopy, NextInRing
  <2> QED
    BY <1>2, <1>3, <1>12, <2>2, <2>3 DEF RxCopy, DriverTypeOK
<1>13. CASE RxAdvance
  <2>1. stats' \in [Counters -> 0 .. MaxHistory]
    BY <1>13, CountType DEF RxAdvance, Counters
  <2>2. next_pkt' \in Pages /\ bnry' \in Pages
    BY <1>4, <1>13 DEF RxAdvance
  <2> QED
    BY <1>3, <1>13, <2>1, <2>2 DEF RxAdvance, ChipTypeOK, DriverTypeOK
<1>14. CASE RxToss
  <2>1. [data |-> rxbuff, size |-> PktSize] \in TossedFrame
    BY DEF TossedFrame, PktSize, DriverTypeOK, Header
  <2>2. delivered' \in Seq(TossedFrame)
    BY <1>14, <2>1, AppendProperties DEF RxToss, HistoryTypeOK
  <2>3. <<>> \in Seq(Tag)
    OBVIOUS
  <2> QED
    BY <1>1, <1>2, <1>14, <2>2, <2>3 DEF RxToss, DriverTypeOK, HistoryTypeOK
<1> QED
  BY <1>5, <1>6, <1>7, <1>8, <1>9, <1>10, <1>11, <1>12, <1>13, <1>14 DEF Driver

LEMMA TypeStutter == TypeInv /\ UNCHANGED vars => TypeInv'
BY DEF TypeInv, TypeOK, ChipTypeOK, DriverTypeOK, HistoryTypeOK, NextInRing,
       vars, chipVars, driverVars, localVars

LEMMA TypeStep == TypeInv /\ [Next]_vars => TypeInv'
BY ChipTypeStep, DriverTypeStep, TypeStutter DEF Next, Done

\* Every variable of the receive path stays in its range, whatever the card
\* writes in the headers.
THEOREM TypeCorrect == Spec => []TypeOK
<1>1. TypeInv => TypeOK
  BY DEF TypeInv
<1> QED
  BY <1>1, TypeInit, TypeStep, PTL DEF Spec

-----------------------------------------------------------------------------
(* Distances in the ring, from next_pkt forward.                           *)

\* Distances from a page number the ring, and tell its pages apart.
LEMMA DistRange ==
  ASSUME NEW a \in Pages, NEW b \in Pages
  PROVE  Dist(a, b) \in Int /\ 0 <= Dist(a, b) /\ Dist(a, b) < Size
BY RingAssumption DEF Dist, Pages, Size

LEMMA DistZero ==
  ASSUME NEW a \in Pages, NEW b \in Pages
  PROVE  Dist(a, b) = 0 <=> a = b
BY RingAssumption DEF Dist, Pages, Size

LEMMA DistInjective ==
  ASSUME NEW a \in Pages, NEW b \in Pages, NEW c \in Pages,
         Dist(a, b) = Dist(a, c)
  PROVE  b = c
BY RingAssumption DEF Dist, Pages, Size

\* They add up along the ring, as long as the sum stays short of a round.
LEMMA DistFrom ==
  ASSUME NEW a \in Pages, NEW b \in Pages, NEW c \in Pages
  PROVE  /\ Dist(a, b) <= Dist(a, c) => Dist(b, c) = Dist(a, c) - Dist(a, b)
         /\ Dist(a, b) > Dist(a, c) => Dist(b, c) = Dist(a, c) - Dist(a, b) + Size
         /\ Dist(a, b) + Dist(b, c) < Size => Dist(a, c) = Dist(a, b) + Dist(b, c)
BY RingAssumption DEF Dist, Pages, Size

LEMMA DistNext ==
  ASSUME NEW a \in Pages, NEW b \in Pages, Dist(a, b) < Size - 1
  PROVE  Dist(a, NextPage(b)) = Dist(a, b) + 1
BY RingAssumption DEF Dist, Pages, Size, NextPage

LEMMA DistPrev ==
  ASSUME NEW a \in Pages
  PROVE  Dist(a, PrevPage(a)) = Size - 1
BY RingAssumption DEF Dist, Pages, Size, PrevPage

LEMMA SizeBound == Size \in Int /\ Size >= 6
BY RingAssumption DEF Size

-----------------------------------------------------------------------------
(* The chip stays off the unread pages, for every card whose headers chain:  *)
(* faults in the status byte or the length of a header are allowed.          *)

ChainFaults == {"badrsr", "badsize"}

LEMMA RingInit == Init => RingInv
<1> SUFFICES ASSUME Init PROVE RingInv
  OBVIOUS
<1>1. bnry = PrevPage(next_pkt)
  BY RingAssumption DEF Init, PrevPage
<1>2. curr = next_pkt /\ curr \in Pages
  BY PageSteps DEF Init
<1>3. Unread = {}
  BY <1>2, DistRange, DistZero DEF Unread
<1> QED
  BY <1>1, <1>2, <1>3 DEF Init, RingInv, ChipAhead, FramesChain, DriverBehind, Idle

\* With a healthy next field the header names the page after the frame.
LEMMA HeadersForNext ==
  ASSUME Faults \subseteq ChainFaults, NEW nf \in Pages, NEW n \in FrameLens,
         NEW h \in HeadersFor(nf, n)
  PROVE  h.next = nf
<1>1. "badnext" \notin Faults /\ "wildnext" \notin Faults
  BY DEF ChainFaults
<1>2. \E b, s : h = Hdr(nf, b, s)
  BY <1>1 DEF HeadersFor
<1> QED
  BY <1>2 DEF Hdr

\* Where the frame being stored is, and where it goes on.
LEMMA StorePlace ==
  ASSUME TypeInv, RingInv, nic.busy
  PROVE  /\ nic.page \in Pages
         /\ NextPage(nic.page) \in Pages
         /\ nic.index \in Nat
         /\ Dist(curr, NextPage(nic.page)) = nic.index + 1
         /\ Dist(next_pkt, nic.page) = Dist(next_pkt, curr) + nic.index
         /\ Dist(next_pkt, NextPage(nic.page)) = Dist(next_pkt, curr) + nic.index + 1
<1>1. next_pkt \in Pages /\ curr \in Pages /\ nic.page \in Pages /\ nic.index \in Nat
  BY DEF TypeInv, TypeOK, ChipTypeOK, DriverTypeOK, NicState
<1>2. NextPage(nic.page) \in Pages
  BY <1>1, PageSteps
<1>3. /\ nic.index = Dist(curr, nic.page)
      /\ Dist(next_pkt, curr) + nic.index < Size - 1
  BY DEF RingInv, ChipAhead
<1>4. 0 <= Dist(next_pkt, curr) /\ Dist(next_pkt, curr) \in Int /\ Size \in Int
  BY <1>1, DistRange, SizeBound
<1>5. Dist(curr, NextPage(nic.page)) = nic.index + 1
  BY <1>1, <1>3, <1>4, DistNext
<1>6. Dist(next_pkt, nic.page) = Dist(next_pkt, curr) + nic.index
  BY <1>1, <1>3, <1>4, DistFrom
<1>7. Dist(next_pkt, NextPage(nic.page)) = Dist(next_pkt, nic.page) + 1
  BY <1>1, <1>3, <1>4, <1>6, DistNext
<1> QED
  BY <1>1, <1>2, <1>5, <1>6, <1>7

\* BNRY is the one page at the full distance from next_pkt.
LEMMA BnryFarthest ==
  ASSUME TypeInv, RingInv, NEW p \in Pages
  PROVE  Dist(next_pkt, p) = Size - 1 <=> p = bnry
<1>1. next_pkt \in Pages /\ bnry \in Pages /\ bnry = PrevPage(next_pkt)
  BY DEF TypeInv, TypeOK, ChipTypeOK, DriverTypeOK, RingInv, ChipAhead
<1>2. Dist(next_pkt, bnry) = Size - 1
  BY <1>1, DistPrev
<1> QED
  BY <1>1, <1>2, DistInjective

\* A step of the chip keeps the ring in order.  A frame it begins or continues
\* takes a page past CURR; a frame it ends adds one link to the chain.
LEMMA RingChipStep ==
  ASSUME Faults \subseteq ChainFaults, TypeInv, RingInv, Nic
  PROVE  RingInv'
<1> DEFINE d(p) == Dist(next_pkt, p)
<1>1. /\ next_pkt \in Pages /\ curr \in Pages /\ bnry \in Pages
      /\ ram \in [Pages -> Tag] /\ hdr \in [Pages -> Header]
  BY DEF TypeInv, TypeOK, ChipTypeOK, DriverTypeOK
<1>2. /\ d(curr) \in Int /\ 0 <= d(curr) /\ d(curr) < Size
      /\ \A p \in Pages : d(p) \in Int /\ Dist(curr, p) \in Int /\ 0 <= Dist(curr, p)
      /\ Size \in Int
  BY <1>1, DistRange, SizeBound
<1>3. Dist(curr, curr) = 0 /\ \A p \in Pages : Dist(curr, p) <= 0 => p = curr
  BY <1>1, <1>2, DistZero
<1>4. d(next_pkt) = 0
  BY <1>1, DistZero
<1>5. ASSUME NEW q \in Pages, d(q) >= d(curr), UNCHANGED <<curr, bnry, driverVars>>,
             \A p \in Pages : p # q => ram'[p] = ram[p] /\ hdr'[p] = hdr[p]
      PROVE  FramesChain' /\ DriverBehind'
  <2>1. UNCHANGED <<curr, bnry, next_pkt, pc, lcurr, header>>
    BY <1>5 DEF driverVars, localVars
  <2>2. \A p \in Pages : d(p) < d(curr) => ram'[p] = ram[p] /\ hdr'[p] = hdr[p]
    BY <1>2, <1>5
  <2>3. next_pkt # curr => d(next_pkt) < d(curr)
    BY <1>1, <1>2, <1>4, DistZero
  <2>4. DriverBehind'
    BY <1>1, <2>1, <2>2, <2>3 DEF RingInv, DriverBehind
  <2>5. \A p \in Pages : p # curr /\ d(p) <= d(curr) => ram'[p] = ram[p]
    <3> SUFFICES ASSUME NEW p \in Pages, p # curr, d(p) <= d(curr)
                 PROVE  ram'[p] = ram[p]
      OBVIOUS
    <3>1. d(p) < d(curr)
      BY <1>1, <1>2, DistInjective
    <3> QED
      BY <2>2, <3>1
  <2>6. FramesChain'
    <3>1. (next_pkt # curr => ram[next_pkt].index = 0)'
      BY <1>1, <2>1, <2>2, <2>3 DEF RingInv, FramesChain
    <3>2. ASSUME NEW p \in Pages, d(p) < d(curr), ram'[p].index = 0
          PROVE  LET n == hdr'[p].next
                 IN  /\ n \in Pages /\ d(p) < d(n) /\ d(n) <= d(curr)
                     /\ n # curr => ram'[n].index = 0
      <4>1. hdr'[p] = hdr[p] /\ ram[p].index = 0
        BY <2>2, <3>2
      <4>2. /\ hdr[p].next \in Pages /\ d(p) < d(hdr[p].next)
            /\ d(hdr[p].next) <= d(curr)
            /\ hdr[p].next # curr => ram[hdr[p].next].index = 0
        BY <3>2, <4>1 DEF RingInv, FramesChain, Unread
      <4> QED
        BY <2>5, <4>1, <4>2
    <3> QED
      BY <2>1, <3>1, <3>2 DEF FramesChain, Unread
  <2> QED
    BY <2>4, <2>6
<1>6. ASSUME NEW n \in FrameLens, NicBegin(n) PROVE RingInv'
  <2>1. CASE curr = bnry
    BY <1>6, <2>1 DEF NicBegin, RingInv, ChipAhead, FramesChain, DriverBehind, Unread,
                      driverVars, localVars
  <2>2. CASE curr # bnry
    <3>1. d(curr) < Size - 1
      BY <1>1, <1>2, <2>2, BnryFarthest
    <3>2. /\ ram' = [ram EXCEPT ![curr] = [frame |-> arrived + 1, index |-> 0]]
          /\ nic' = [busy |-> TRUE, page |-> curr, index |-> 0, len |-> n]
          /\ UNCHANGED <<curr, bnry, hdr, driverVars>> /\ ~nic.busy
      BY <1>6, <2>2 DEF NicBegin
    <3>3. next_pkt' = next_pkt
      BY <3>2 DEF driverVars
    <3>4. FramesChain' /\ DriverBehind'
      BY <1>1, <1>2, <1>5, <3>2
    <3>5. ram'[curr].index = 0
      BY <1>1, <3>2
    <3>6. ChipAhead'
      BY <1>2, <1>3, <3>1, <3>2, <3>3, <3>5 DEF RingInv, ChipAhead
    <3> QED
      BY <3>4, <3>6 DEF RingInv
  <2> QED
    BY <2>1, <2>2
<1>7. CASE NicPage
  <2> DEFINE q == NextPage(nic.page)
  <2>1. nic.busy
    BY <1>7 DEF NicPage
  <2>2. /\ q \in Pages /\ nic.index \in Nat
        /\ Dist(curr, q) = nic.index + 1 /\ d(q) = d(curr) + nic.index + 1
    BY <2>1, StorePlace
  <2>3. CASE q = bnry
    BY <1>7, <2>3 DEF NicPage, RingInv, ChipAhead, FramesChain, DriverBehind, Unread,
                      Idle, driverVars, localVars
  <2>4. CASE q # bnry
    <3> HIDE DEF q
    <3>1. d(q) < Size - 1
      <4>1. d(q) # Size - 1
        BY <2>2, <2>4, BnryFarthest
      <4>2. d(q) < Size
        BY <1>1, <2>2, DistRange
      <4> QED
        BY <1>2, <2>2, <4>1, <4>2
    <3>2. PICK noise \in NoiseHeaders :
            /\ nic' = [busy |-> TRUE, page |-> q, index |-> nic.index + 1, len |-> nic.len]
            /\ ram' = [ram EXCEPT ![q] = [frame |-> arrived, index |-> nic.index + 1]]
            /\ hdr' = [hdr EXCEPT ![q] = noise]
            /\ UNCHANGED <<curr, bnry, driverVars>>
      BY <1>7, <2>4 DEF NicPage, q
    <3>3. next_pkt' = next_pkt
      BY <3>2 DEF driverVars
    <3>4. q # curr
      BY <1>3, <2>2
    <3>5. FramesChain' /\ DriverBehind'
      <4>1. \A p \in Pages : p # q => ram'[p] = ram[p] /\ hdr'[p] = hdr[p]
        BY <1>1, <3>2
      <4>2. d(q) >= d(curr)
        BY <1>2, <2>2
      <4> QED
        BY <1>5, <2>2, <3>2, <3>4, <4>1, <4>2
    <3>6. \A p \in Pages : Dist(curr, p) <= nic.index + 1 => ram'[p].index = Dist(curr, p)
      <4> SUFFICES ASSUME NEW p \in Pages, Dist(curr, p) <= nic.index + 1
                   PROVE  ram'[p].index = Dist(curr, p)
        OBVIOUS
      <4>1. CASE p = q
        BY <1>1, <2>2, <3>2, <4>1
      <4>2. CASE p # q
        <5>1. Dist(curr, p) # nic.index + 1
          BY <1>1, <2>2, <4>2, DistInjective
        <5>2. Dist(curr, p) <= nic.index
          BY <1>2, <2>2, <5>1
        <5>3. ram'[p] = ram[p]
          BY <1>1, <3>2, <4>2
        <5> QED
          BY <2>1, <5>2, <5>3 DEF RingInv, ChipAhead
      <4> QED
        BY <4>1, <4>2
    <3>7. ChipAhead'
      <4>1. d(curr) + (nic.index + 1) < Size - 1
        BY <1>2, <2>2, <3>1
      <4>2. /\ nic'.page = q /\ nic'.index = nic.index + 1
            /\ curr' = curr /\ bnry' = bnry
        BY <3>2
      <4> QED
        BY <2>2, <3>3, <3>6, <4>1, <4>2 DEF RingInv, ChipAhead
    <3> QED
      BY <3>5, <3>7 DEF RingInv
  <2> QED
    BY <2>3, <2>4
<1>8. CASE NicEnd
  <2> DEFINE q == NextPage(nic.page)
  <2>1. nic.busy /\ curr' = q /\ UNCHANGED <<bnry, ram, driverVars>> /\ nic' = Idle
    BY <1>8 DEF NicEnd
  <2>2. /\ q \in Pages /\ nic.index \in Nat
        /\ Dist(curr, q) = nic.index + 1 /\ d(q) = d(curr) + nic.index + 1
    BY <2>1, StorePlace
  <2>3. \A p \in Pages : Dist(curr, p) <= nic.index => ram[p].index = Dist(curr, p)
    BY <2>1 DEF RingInv, ChipAhead
  <2>4. PICK h \in HeadersFor(q, nic.len) : hdr' = [hdr EXCEPT ![curr] = h]
    BY <1>8 DEF NicEnd
  <2>5. h.next = q
    BY <2>1, <2>2, <2>4, HeadersForNext DEF TypeInv
  <2> HIDE DEF q
  <2>6. UNCHANGED <<next_pkt, pc, lcurr, header>>
    BY <2>1 DEF driverVars, localVars
  <2>7. ram[curr].index = 0
    BY <1>1, <1>3, <2>2, <2>3
  <2>8. next_pkt # q
    BY <1>2, <1>4, <2>2
  <2>9. ChipAhead'
    BY <2>1, <2>6 DEF RingInv, ChipAhead, Idle
  <2>10. DriverBehind'
    <3>1. pc = "header" => d(lcurr) <= d(q)
      <4>1. lcurr \in Pages
        BY DEF TypeInv, TypeOK, DriverTypeOK
      <4> QED
        BY <1>2, <2>2, <4>1 DEF RingInv, DriverBehind
    <3>2. next_pkt # curr => hdr'[next_pkt] = hdr[next_pkt]
      BY <1>1, <2>4
    <3> QED
      BY <2>1, <2>6, <2>8, <3>1, <3>2 DEF RingInv, DriverBehind
  <2>11. FramesChain'
    <3>1. ram[next_pkt].index = 0
      BY <2>7 DEF RingInv, FramesChain
    <3>2. ASSUME NEW p \in Pages, d(p) < d(q), ram[p].index = 0
          PROVE  LET n == hdr'[p].next
                 IN  /\ n \in Pages /\ d(p) < d(n) /\ d(n) <= d(q)
                     /\ n # q => ram[n].index = 0
      <4>1. CASE d(p) < d(curr)
        <5>1. hdr'[p] = hdr[p]
          BY <1>1, <1>2, <2>4, <4>1
        <5>2. /\ hdr[p].next \in Pages /\ d(p) < d(hdr[p].next)
              /\ d(hdr[p].next) <= d(curr)
              /\ hdr[p].next # curr => ram[hdr[p].next].index = 0
          BY <3>2, <4>1 DEF RingInv, FramesChain, Unread
        <5>3. d(hdr[p].next) <= d(q)
          BY <1>2, <2>2, <5>2
        <5> QED
          BY <2>7, <5>1, <5>2, <5>3
      <4>2. CASE d(p) >= d(curr)
        <5>1. Dist(curr, p) = d(p) - d(curr)
          BY <1>1, <4>2, DistFrom
        <5>2. Dist(curr, p) <= nic.index
          BY <1>2, <2>2, <3>2, <5>1
        <5>3. p = curr
          BY <1>3, <2>3, <3>2, <5>2
        <5>4. hdr'[p].next = q
          BY <1>1, <2>4, <2>5, <5>3
        <5> QED
          BY <1>2, <2>2, <3>2, <5>4
      <4> QED
        BY <1>2, <4>1, <4>2
    <3> QED
      BY <2>1, <2>6, <3>1, <3>2 DEF FramesChain, Unread
  <2> QED
    BY <2>9, <2>10, <2>11 DEF RingInv
<1>9. CASE NicError
  BY <1>9 DEF NicError, RingInv, ChipAhead, FramesChain, DriverBehind, Unread,
              driverVars, localVars
<1> QED
  BY <1>6, <1>7, <1>8, <1>9 DEF Nic

\* The next field of the header the driver holds leads forward, at most to CURR.
LEMMA HeaderLeadsForward ==
  ASSUME TypeInv, RingInv, pc \in {"check", "advance"}
  PROVE  /\ header.next \in Pages
         /\ 0 < Dist(next_pkt, header.next)
         /\ Dist(next_pkt, header.next) <= Dist(next_pkt, curr)
         /\ header.next # curr => ram[header.next].index = 0
<1>1. next_pkt \in Pages /\ curr \in Pages
  BY DEF TypeInv, TypeOK, ChipTypeOK, DriverTypeOK
<1>2. next_pkt # curr /\ header = hdr[next_pkt]
  BY DEF RingInv, DriverBehind
<1>3. ram[next_pkt].index = 0
  BY <1>2 DEF RingInv, FramesChain
<1>4. Dist(next_pkt, next_pkt) = 0 /\ 0 < Dist(next_pkt, curr)
  BY <1>1, <1>2, DistZero, DistRange
<1>5. next_pkt \in Unread
  BY <1>1, <1>4 DEF Unread
<1> QED
  BY <1>2, <1>3, <1>4, <1>5 DEF RingInv, FramesChain

\* Giving a frame back keeps the ring in order: the rest of the chain, seen from
\* its new start.
LEMMA RingAdvance ==
  ASSUME TypeInv, RingInv, pc \in {"check", "advance"}, Advance,
         UNCHANGED <<curr, hdr, ram, nic>>, pc' \in {"poll", "toss"}
  PROVE  /\ RingInv'
         /\ Dist(next_pkt', curr') < Dist(next_pkt, curr)
<1> DEFINE d(p) == Dist(next_pkt, p)
           n    == header.next
<1>1. /\ next_pkt \in Pages /\ curr \in Pages
      /\ \A p \in Pages : d(p) \in Int /\ 0 <= d(p) /\ d(p) < Size
      /\ Size \in Int
  BY DistRange, SizeBound DEF TypeInv, TypeOK, ChipTypeOK, DriverTypeOK
<1>2. n \in Pages /\ 0 < d(n) /\ d(n) <= d(curr) /\ (n # curr => ram[n].index = 0)
  BY HeaderLeadsForward
<1>3. next_pkt' = n /\ bnry' = PrevPage(n)
  BY DEF Advance
<1> HIDE DEF n
<1>4. Dist(n, curr) = d(curr) - d(n)
  BY <1>1, <1>2, DistFrom
<1>5. ChipAhead'
  <2>1. nic.busy => nic.index \in Nat
    BY DEF TypeInv, TypeOK, ChipTypeOK, NicState
  <2>2. nic.busy => Dist(n, curr) + nic.index < Size - 1
    BY <1>1, <1>2, <1>4, <2>1 DEF RingInv, ChipAhead
  <2> QED
    BY <1>3, <2>2 DEF RingInv, ChipAhead
<1>6. FramesChain'
  <2>1. ASSUME NEW p \in Pages, Dist(n, p) < Dist(n, curr), ram[p].index = 0
        PROVE  LET m == hdr[p].next
               IN  /\ m \in Pages /\ Dist(n, p) < Dist(n, m)
                   /\ Dist(n, m) <= Dist(n, curr)
                   /\ m # curr => ram[m].index = 0
    <3> DEFINE m == hdr[p].next
    <3>1. Dist(n, p) \in Int /\ 0 <= Dist(n, p)
      BY <1>2, DistRange
    <3>2. d(p) = d(n) + Dist(n, p)
      <4>1. d(n) + Dist(n, p) < Size
        BY <1>1, <1>2, <1>4, <2>1, <3>1
      <4> QED
        BY <1>1, <1>2, <4>1, DistFrom
    <3>3. d(p) < d(curr)
      BY <1>1, <1>2, <1>4, <2>1, <3>1, <3>2
    <3>4. m \in Pages /\ d(p) < d(m) /\ d(m) <= d(curr) /\ (m # curr => ram[m].index = 0)
      BY <2>1, <3>3 DEF RingInv, FramesChain, Unread
    <3> HIDE DEF m
    <3>5. Dist(n, m) = d(m) - d(n)
      <4>1. d(n) <= d(m)
        BY <1>1, <1>2, <3>1, <3>2, <3>4
      <4> QED
        BY <1>1, <1>2, <3>4, <4>1, DistFrom
    <3>6. Dist(n, p) < Dist(n, m) /\ Dist(n, m) <= Dist(n, curr)
      BY <1>1, <1>2, <1>4, <3>1, <3>2, <3>4, <3>5
    <3> QED
      BY <3>4, <3>6 DEF m
  <2> QED
    BY <1>2, <1>3, <2>1 DEF FramesChain, Unread
<1>7. DriverBehind'
  BY DEF DriverBehind
<1> QED
  BY <1>1, <1>2, <1>3, <1>4, <1>5, <1>6, <1>7 DEF RingInv

\* The recovery from a header outside the ring is not reached.
LEMMA ChainInRing == TypeInv /\ RingInv => ~RxBadNext
<1> SUFFICES ASSUME TypeInv, RingInv, RxBadNext PROVE FALSE
  OBVIOUS
<1>1. header.next \in Pages /\ ~NextInRing
  BY HeaderLeadsForward DEF RxBadNext
<1> QED
  BY <1>1, RingAssumption DEF NextInRing, Pages

\* A step of the driver keeps the ring in order.
LEMMA RingDriverStep ==
  ASSUME TypeInv, RingInv, Driver
  PROVE  RingInv'
<1> USE DEF RingInv, ChipAhead, FramesChain, DriverBehind, Unread
<1>1. next_pkt \in Pages /\ curr \in Pages /\ lcurr \in Pages
  BY DEF TypeInv, TypeOK, ChipTypeOK, DriverTypeOK
<1>2. CASE IntrRead
  BY <1>2 DEF IntrRead, chipVars
<1>3. CASE IntrAck
  BY <1>3 DEF IntrAck
<1>4. CASE RxPoll
  <2>1. Dist(next_pkt, curr) <= Dist(next_pkt, curr)
    BY <1>1, DistRange
  <2> QED
    BY <1>4, <2>1 DEF RxPoll, chipVars
<1>5. CASE RxDrained
  BY <1>5 DEF RxDrained, chipVars
<1>6. CASE RxHeader
  <2>1. Dist(next_pkt, lcurr) <= Dist(next_pkt, curr) /\ next_pkt # lcurr
    BY <1>6 DEF RxHeader
  <2>2. next_pkt # curr
    BY <1>1, <2>1, DistZero, DistRange
  <2> QED
    BY <1>6, <2>2 DEF RxHeader, chipVars
<1>7. ~RxBadNext
  BY ChainInRing
<1>8. CASE RxSkip
  BY <1>8, RingAdvance DEF RxSkip
<1>9. CASE RxCopy
  BY <1>9 DEF RxCopy, chipVars
<1>10. CASE RxAdvance
  BY <1>10, RingAdvance DEF RxAdvance
<1>11. CASE RxToss
  BY <1>11 DEF RxToss, chipVars
<1> QED
  BY <1>2, <1>3, <1>4, <1>5, <1>6, <1>7, <1>8, <1>9, <1>10, <1>11 DEF Driver

LEMMA RingStutter == RingInv /\ UNCHANGED vars => RingInv'
BY DEF RingInv, ChipAhead, FramesChain, DriverBehind, Unread,
       vars, chipVars, driverVars, localVars

\* Hence the ring is always in order.
LEMMA RingStep ==
  ASSUME Faults \subseteq ChainFaults
  PROVE  TypeInv /\ RingInv /\ [Next]_vars => RingInv'
BY RingChipStep, RingDriverStep, RingStutter DEF Next, Done

\* The page the chip stores into lies past every unread page.
LEMMA SparesUnread == TypeInv /\ RingInv => NicSparesUnread
<1> SUFFICES ASSUME TypeInv, RingInv, nic.busy PROVE nic.page \notin Unread
  BY DEF NicSparesUnread
<1>1. /\ nic.index \in Nat
      /\ Dist(next_pkt, nic.page) = Dist(next_pkt, curr) + nic.index
  BY StorePlace
<1>2. Dist(next_pkt, curr) \in Int
  BY DistRange DEF TypeInv, TypeOK, ChipTypeOK, DriverTypeOK
<1> QED
  BY <1>1, <1>2 DEF Unread

\* For any ring, any frames and any interleaving of chip and driver, the chip
\* never stores into a page of a frame that receive_interrupt() has yet to read.
THEOREM UnreadSafe ==
  ASSUME Faults \subseteq ChainFaults
  PROVE  Spec => []NicSparesUnread
BY TypeInit, TypeStep, RingInit, RingStep, SparesUnread, PTL DEF Spec

-----------------------------------------------------------------------------
(* No wakeup is lost.                                                      *)

LEMMA WakeInit == Init => WakeInv
BY DEF Init, WakeInv

\* The chip only adds bits to the ISR, and a frame that ends adds PRX.
LEMMA WakeChipStep ==
  ASSUME WakeInv, Nic
  PROVE  WakeInv'
<1>1. UNCHANGED <<next_pkt, pc, status, lcurr, loop_count>> /\ isr \subseteq isr'
  BY DEF Nic, NicBegin, NicPage, NicEnd, NicError, driverVars, localVars
<1>2. UNCHANGED curr \/ "PRX" \in isr'
  BY DEF Nic, NicBegin, NicPage, NicEnd, NicError
<1> QED
  BY <1>1, <1>2 DEF WakeInv

\* The driver acknowledges PRX only before it drains the ring, and gives up only
\* with PRX raised again.
LEMMA WakeDriverStep ==
  ASSUME TypeInv, RingInv, WakeInv, Driver
  PROVE  WakeInv'
<1> USE DEF WakeInv
<1>1. next_pkt \in Pages /\ curr \in Pages /\ loop_count \in 0 .. MaxLoop
  BY DEF TypeInv, TypeOK, ChipTypeOK, DriverTypeOK
<1>2. /\ Dist(next_pkt, curr) \in Int /\ 0 <= Dist(next_pkt, curr)
      /\ Dist(next_pkt, curr) < Size /\ Size \in Int /\ loop_count \in Int
      /\ MaxLoop \in Int /\ MaxLoop > Size
  BY <1>1, DistRange, SizeBound, RingAssumption
<1>3. CASE IntrRead
  BY <1>3 DEF IntrRead, chipVars
<1>4. CASE IntrAck
  <2>1. CASE "PRX" \in status
    <3>1. pc' = "poll" /\ loop_count' = 0 /\ UNCHANGED <<curr, next_pkt>>
      BY <1>4, <2>1 DEF IntrAck
    <3> QED
      BY <1>2, <3>1
  <2>2. CASE "PRX" \notin status
    BY <1>4, <2>2 DEF IntrAck
  <2> QED
    BY <2>1, <2>2
<1>5. CASE RxPoll
  <2>1. UNCHANGED <<curr, isr, next_pkt>>
    BY <1>5 DEF RxPoll, chipVars
  <2>2. loop_count + Dist(next_pkt, curr) < Size \/ "PRX" \in isr
    BY <1>5 DEF RxPoll
  <2>3. CASE loop_count + 1 > MaxLoop
    <3>1. "PRX" \in isr
      BY <1>2, <2>2, <2>3
    <3>2. pc' = "idle"
      BY <1>5, <2>3 DEF RxPoll
    <3> QED
      BY <2>1, <3>1, <3>2
  <2>4. CASE loop_count + 1 <= MaxLoop
    <3>1. pc' = "header" /\ lcurr' = curr /\ loop_count' = loop_count + 1
      BY <1>2, <1>5, <2>4 DEF RxPoll
    <3>2. loop_count' + Dist(next_pkt, curr) <= Size \/ "PRX" \in isr
      BY <1>2, <2>2, <3>1
    <3> QED
      BY <2>1, <3>1, <3>2
  <2> QED
    BY <1>2, <2>3, <2>4
<1>6. CASE RxDrained
  BY <1>6 DEF RxDrained, chipVars
<1>7. CASE RxHeader
  BY <1>7 DEF RxHeader, chipVars
<1>8. ~RxBadNext
  BY ChainInRing
<1>9. ASSUME pc \in {"check", "advance"}, Advance, pc' \in {"poll", "toss"},
             UNCHANGED <<curr, isr, hdr, ram, nic, loop_count>>
      PROVE  WakeInv'
  <2>1. Dist(next_pkt', curr') < Dist(next_pkt, curr)
    BY <1>9, RingAdvance
  <2>2. next_pkt' \in Pages
    BY <1>9, HeaderLeadsForward DEF Advance
  <2>3. Dist(next_pkt', curr') \in Int
    BY <1>1, <1>9, <2>2, DistRange
  <2>4. loop_count' + Dist(next_pkt', curr') < Size \/ "PRX" \in isr'
    BY <1>2, <1>9, <2>1, <2>3
  <2> QED
    BY <1>9, <2>4
<1>10. CASE RxSkip
  BY <1>9, <1>10 DEF RxSkip
<1>11. CASE RxCopy
  BY <1>11 DEF RxCopy, chipVars
<1>12. CASE RxAdvance
  BY <1>9, <1>12 DEF RxAdvance
<1>13. CASE RxToss
  BY <1>13 DEF RxToss, chipVars
<1> QED
  BY <1>3, <1>4, <1>5, <1>6, <1>7, <1>8, <1>10, <1>11, <1>12, <1>13 DEF Driver

LEMMA WakeStutter == WakeInv /\ UNCHANGED vars => WakeInv'
BY DEF WakeInv, vars, chipVars, driverVars, localVars

LEMMA WakeStep == TypeInv /\ RingInv /\ WakeInv /\ [Next]_vars => WakeInv'
BY WakeChipStep, WakeDriverStep, WakeStutter DEF Next, Done

\* hydraintr() never returns with a frame in the ring and no interrupt asked
\* for: not when a frame ends after CURR was read, nor when the loop gives up.
THEOREM WakeupKept ==
  ASSUME Faults \subseteq ChainFaults
  PROVE  Spec => []NoLostWakeup
<1>1. WakeInv => NoLostWakeup
  BY DEF WakeInv, NoLostWakeup
<1> QED
  BY <1>1, TypeInit, TypeStep, RingInit, RingStep, WakeInit, WakeStep, PTL DEF Spec

-----------------------------------------------------------------------------
(* Frames are lost only when the ring is full.                             *)

\* The driver leaves the chip alone, and only clears bits of the ISR.
LEMMA DriverKeepsNic == Driver => UNCHANGED nic /\ isr' \subseteq isr
BY DEF Driver, IntrRead, IntrAck, RxPoll, RxDrained, RxHeader, RxBadNext, RxSkip,
       RxCopy, RxAdvance, RxToss, chipVars

LEMMA LossStep ==
  TypeInv /\ RingInv /\ [Next]_vars =>
    [/\ nic.busy /\ ~nic'.busy /\ curr' = curr => FreePages < PagesOf(nic.len)
     /\ ~nic.busy /\ isr' \ isr = {"OVW"} => FreePages = 0]_vars
<1> SUFFICES ASSUME TypeInv, RingInv, Next
             PROVE  /\ nic.busy /\ ~nic'.busy /\ curr' = curr =>
                         FreePages < PagesOf(nic.len)
                    /\ ~nic.busy /\ isr' \ isr = {"OVW"} => FreePages = 0
  OBVIOUS
<1>1. curr \in Pages /\ Dist(next_pkt, curr) \in Int /\ Size \in Int
  BY DistRange, SizeBound DEF TypeInv, TypeOK, ChipTypeOK, DriverTypeOK
<1>2. ASSUME NEW n \in FrameLens, NicBegin(n), isr' \ isr = {"OVW"}
      PROVE  FreePages = 0
  <2>1. curr = bnry
    BY <1>2 DEF NicBegin
  <2>2. Dist(next_pkt, curr) = Size - 1
    BY <1>1, <2>1, BnryFarthest
  <2> QED
    BY <1>1, <2>2 DEF FreePages
<1>3. ASSUME NicPage, ~nic'.busy PROVE FreePages < PagesOf(nic.len)
  <2>1. nic.busy /\ NextPage(nic.page) = bnry /\ nic.index + 1 < PagesOf(nic.len)
    BY <1>3 DEF NicPage
  <2>2. /\ NextPage(nic.page) \in Pages /\ nic.index \in Nat
        /\ Dist(next_pkt, NextPage(nic.page)) = Dist(next_pkt, curr) + nic.index + 1
    BY <2>1, StorePlace
  <2>3. Dist(next_pkt, NextPage(nic.page)) = Size - 1
    BY <2>1, <2>2, BnryFarthest
  <2>4. FreePages = nic.index + 1
    BY <1>1, <2>2, <2>3 DEF FreePages
  <2> QED
    BY <2>1, <2>4
<1>4. NicEnd => nic.busy /\ curr' # curr
  <2> SUFFICES ASSUME NicEnd PROVE nic.busy /\ curr' # curr
    OBVIOUS
  <2>1. nic.busy /\ curr' = NextPage(nic.page)
    BY DEF NicEnd
  <2>2. /\ NextPage(nic.page) \in Pages /\ nic.index \in Nat
        /\ Dist(curr, NextPage(nic.page)) = nic.index + 1
    BY <2>1, StorePlace
  <2>3. Dist(curr, curr) = 0
    BY <1>1, DistZero
  <2> QED
    BY <2>1, <2>2, <2>3
<1>5. NicError => ~nic.busy /\ isr' \ isr # {"OVW"}
  BY DEF NicError
<1>6. ASSUME NEW n \in FrameLens, NicBegin(n) PROVE ~nic.busy
  BY <1>6 DEF NicBegin
<1>7. NicPage => nic.busy
  BY DEF NicPage
<1>8. Driver \/ Done => UNCHANGED nic /\ isr' \ isr # {"OVW"}
  BY DriverKeepsNic DEF Done, vars, chipVars
<1> QED
  BY <1>2, <1>3, <1>4, <1>5, <1>6, <1>7, <1>8 DEF Next, Nic

\* No frame that would fit behind the unread ones is turned away: the driver has
\* given every page back of every frame it is through with.
THEOREM LossMeansFull ==
  ASSUME Faults \subseteq ChainFaults
  PROVE  Spec => LossOnlyWhenFull
<1>1. TypeInv /\ RingInv /\ [Next]_vars =>
        [/\ nic.busy /\ ~nic'.busy /\ curr' = curr => FreePages < PagesOf(nic.len)
         /\ ~nic.busy /\ isr' \ isr = {"OVW"} => FreePages = 0]_vars
  BY LossStep
<1> QED
  BY <1>1, TypeInit, TypeStep, RingInit, RingStep, PTL DEF Spec, LossOnlyWhenFull

-----------------------------------------------------------------------------
(* What holds whatever the headers say, a failing card's included.         *)

\* BNRY follows next_pkt until the first recovery from a bad header.
BnryInv == stats["rx_bad_next"] = 0 => bnry = PrevPage(next_pkt)

LEMMA BnryInit == Init => BnryInv
BY RingAssumption DEF Init, BnryInv, PrevPage

LEMMA BnryStep == TypeInv /\ BnryInv /\ [Next]_vars => BnryInv'
<1> SUFFICES ASSUME TypeInv, BnryInv, [Next]_vars PROVE BnryInv'
  OBVIOUS
<1> USE DEF BnryInv
<1>1. stats \in [Counters -> 0 .. MaxHistory] /\ "rx_bad_next" \in Counters
  BY DEF TypeInv, TypeOK, DriverTypeOK, Counters
<1>2. CASE RxBadNext
  <2>1. stats'["rx_bad_next"] # 0
    BY <1>1, <1>2, RingAssumption DEF RxBadNext, Count
  <2> QED
    BY <2>1
<1>3. ASSUME NEW c \in Counters, c # "rx_bad_next", Count(c), Advance PROVE BnryInv'
  BY <1>3 DEF Advance
<1>4. CASE RxSkip
  BY <1>3, <1>4 DEF RxSkip, Counters
<1>5. CASE RxAdvance
  BY <1>3, <1>5 DEF RxAdvance, Counters
<1>6. CASE Nic \/ Done \/ UNCHANGED vars
  BY <1>6 DEF Nic, NicBegin, NicPage, NicEnd, NicError, Done, vars, chipVars, driverVars,
              localVars
<1>7. CASE IntrRead \/ IntrAck \/ RxPoll \/ RxDrained \/ RxHeader \/ RxCopy \/ RxToss
  BY <1>7 DEF IntrRead, IntrAck, RxPoll, RxDrained, RxHeader, RxCopy, RxToss, chipVars
<1> QED
  BY <1>2, <1>4, <1>5, <1>6, <1>7 DEF Next, Driver

\* An empty ring has room, however a failing card chains its headers inside the
\* ring; only the recovery, which puts BNRY on next_pkt itself, breaks that.
THEOREM EmptyHasRoom == Spec => []EmptyIsNotFull
<1>1. TypeInv /\ BnryInv => EmptyIsNotFull
  <2> SUFFICES ASSUME TypeInv, BnryInv, next_pkt = curr, stats["rx_bad_next"] = 0
               PROVE  bnry # curr
    BY DEF EmptyIsNotFull
  <2>1. next_pkt \in Pages /\ bnry = PrevPage(next_pkt)
    BY DEF TypeInv, TypeOK, DriverTypeOK, BnryInv
  <2> QED
    BY <2>1, RingAssumption DEF PrevPage, Pages, Size
<1> QED
  BY <1>1, TypeInit, TypeStep, BnryInit, BnryStep, PTL DEF Spec

\* The tags of a copy, and of the card's pages, with no refused read among them.
Whole(tags) == \A i \in 1 .. Len(tags) : tags[i] # Zeroed
CardWhole   == \A p \in Pages : ram[p] # Zeroed

\* A read of at least one byte that ends in the ring is not refused.
LEMMA RamReadWhole ==
  ASSUME NEW o \in Nat, NEW n \in Nat, n > 0, o >= RxStart * PageBytes,
         o + 4 * ((n + 3) \div 4) <= Stop * PageBytes,
         CardWhole
  PROVE  Whole(RamRead(o, n))
<1> DEFINE first == o \div PageBytes
           last  == (o + n - 1) \div PageBytes
           len   == last - first + 1
<1>1. first \in Nat /\ first >= RxStart /\ last \in Nat /\ last < Stop /\ last >= first
  BY RingAssumption
<1>2. RamRead(o, n) = [i \in 1 .. len |-> ram[first + i - 1]]
  BY RingAssumption DEF RamRead
<1>3. len \in Nat
  BY <1>1
<1> HIDE DEF first, last, len
<1>4. Len(RamRead(o, n)) = len
  BY <1>2, <1>3
<1>5. \A i \in 1 .. len : first + i - 1 \in Pages
  BY <1>1, RingAssumption DEF len, Pages
<1> QED
  BY <1>2, <1>4, <1>5 DEF Whole, CardWhole

\* So no part of the copy of a frame of legal length is refused.
LEMMA CopyFrameWhole ==
  ASSUME ram \in [Pages -> Tag], CardWhole,
         NEW p \in Pages, NEW n \in Nat, n > 0, n <= MAX_BUFFER_LENGTH
  PROVE  Whole(CopyFrame(p, n))
<1> DEFINE offset == p * PageBytes + HeaderBytes
           semi   == Stop * PageBytes - offset
           A      == RamRead(offset, semi)
           B      == RamRead(RxStart * PageBytes, n - semi)
<1>1. /\ offset \in Nat /\ semi \in Nat /\ semi >= 252 /\ offset >= RxStart * PageBytes
      /\ offset + 4 * ((semi + 3) \div 4) <= Stop * PageBytes
  BY RingAssumption DEF Pages
<1>2. \A m \in Nat : m <= semi => offset + 4 * ((m + 3) \div 4) <= Stop * PageBytes
  BY <1>1, RingAssumption DEF Pages
<1>3. CopyFrame(p, n) = IF n > semi THEN A \o B ELSE RamRead(offset, n)
  BY DEF CopyFrame
<1>4. n > semi => RxStart * PageBytes + 4 * ((n - semi + 3) \div 4) <= Stop * PageBytes
  BY <1>1, RingAssumption DEF Size
<1> HIDE DEF offset, semi
<1>5. CASE n <= semi
  BY <1>1, <1>2, <1>3, <1>5, RamReadWhole
<1>6. CASE n > semi
  <2>1. Whole(A)
    BY <1>1, RamReadWhole
  <2> DEFINE rest == n - semi
             base == RxStart * PageBytes
  <2>2. /\ base \in Nat /\ base >= RxStart * PageBytes
        /\ rest \in Nat /\ rest > 0 /\ rest \in Int
        /\ base + 4 * ((rest + 3) \div 4) <= Stop * PageBytes
    BY <1>1, <1>4, <1>6, RingAssumption
  <2>3. A \o B = A \o RamRead(base, rest)
    OBVIOUS
  <2> HIDE DEF rest, base
  <2>4. Whole(RamRead(base, rest))
    BY <2>2, RamReadWhole
  <2>5. A \in Seq(Tag) /\ RamRead(base, rest) \in Seq(Tag)
    <3>1. semi \in Int
      BY <1>1
    <3>2. RamRead(offset, semi) \in Seq(Tag)
      BY <1>1, <3>1, RamReadTags
    <3>3. RamRead(base, rest) \in Seq(Tag)
      BY <2>2, RamReadTags
    <3> QED
      BY <3>2, <3>3
  <2> HIDE DEF A, B
  <2>6. CopyFrame(p, n) = A \o RamRead(base, rest)
    BY <1>3, <1>6, <2>3
  <2> QED
    BY <2>1, <2>4, <2>5, <2>6, ConcatProperties DEF Whole
<1> QED
  BY <1>1, <1>5, <1>6

\* No page of the card holds what a refused read returns.
CopyInv ==
  /\ CardWhole
  /\ nic.busy => arrived > 0
  /\ CopyStaysInRing

LEMMA CopyInit == Init => CopyInv
BY DEF Init, CopyInv, CopyStaysInRing, CardWhole, Blank, Zeroed, Idle

LEMMA CopyStep == TypeInv /\ CopyInv /\ [Next]_vars => CopyInv'
<1> SUFFICES ASSUME TypeInv, CopyInv, [Next]_vars PROVE CopyInv'
  OBVIOUS
<1> USE DEF CopyInv, CopyStaysInRing, CardWhole
<1>1. /\ ram \in [Pages -> Tag] /\ curr \in Pages /\ next_pkt \in Pages
      /\ arrived \in Nat /\ header \in Header /\ nic \in NicState
  BY RingAssumption DEF TypeInv, TypeOK, ChipTypeOK, DriverTypeOK, HistoryTypeOK
<1>2. ASSUME NEW n \in FrameLens, NicBegin(n) PROVE CopyInv'
  <2>1. [frame |-> arrived + 1, index |-> 0] # Zeroed /\ arrived' > 0 /\ UNCHANGED rxbuff
    BY <1>1, <1>2 DEF NicBegin, Zeroed, driverVars, localVars
  <2> QED
    BY <1>1, <1>2, <2>1 DEF NicBegin
<1>3. CASE NicPage
  <2>1. [frame |-> arrived, index |-> nic.index + 1] # Zeroed
    BY <1>1, <1>3 DEF NicPage, Zeroed
  <2>2. UNCHANGED <<arrived, rxbuff>>
    BY <1>3 DEF NicPage, driverVars, localVars
  <2>3. nic.busy /\ \A p \in Pages : ram'[p] # Zeroed
    BY <1>1, <1>3, <2>1 DEF NicPage
  <2> QED
    BY <2>2, <2>3
<1>4. CASE NicEnd \/ NicError
  BY <1>1, <1>4 DEF NicEnd, NicError, Idle, driverVars, localVars
<1>5. CASE RxCopy
  <2>1. PktSize \in Nat /\ PktSize > 0 /\ PktSize <= MAX_BUFFER_LENGTH
    BY <1>1, <1>5 DEF RxCopy, SizeOK, PktSize, Header
  <2>2. rxbuff' = CopyFrame(next_pkt, PktSize) /\ UNCHANGED <<ram, nic, arrived>>
    BY <1>5 DEF RxCopy, chipVars
  <2>3. Whole(rxbuff')
    BY <1>1, <2>1, <2>2, CopyFrameWhole
  <2> QED
    BY <2>2, <2>3 DEF Whole
<1>6. CASE RxToss
  BY <1>6 DEF RxToss, chipVars
<1>7. CASE Done \/ UNCHANGED vars
  BY <1>7 DEF Done, vars, chipVars, driverVars, localVars
<1>8. CASE \/ IntrRead \/ IntrAck \/ RxPoll \/ RxDrained \/ RxHeader \/ RxBadNext
           \/ RxSkip \/ RxAdvance
  BY <1>8 DEF IntrRead, IntrAck, RxPoll, RxDrained, RxHeader, RxBadNext, RxSkip, RxAdvance,
              chipVars
<1> QED
  BY <1>2, <1>3, <1>4, <1>5, <1>6, <1>7, <1>8 DEF Next, Nic, Driver

\* Whatever header passes the driver's tests, neither part of the copy leaves
\* the ring, longword rounding included, in a ring of any legal size.
THEOREM CopyInRing == Spec => []CopyStaysInRing
<1>1. CopyInv => CopyStaysInRing
  BY DEF CopyInv
<1> QED
  BY <1>1, TypeInit, TypeStep, CopyInit, CopyStep, PTL DEF Spec
=============================================================================
