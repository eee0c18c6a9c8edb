------------------------ MODULE HydraRingFifoProofs ------------------------
(***************************************************************************)
(* HydraRing delivers what it accepts: the frames in the ring are whole,   *)
(* the copies made of them are whole, and the receive path as a whole is   *)
(* the FIFO of FrameFifo.  For cards whose headers chain, with faults in   *)
(* the status byte or the length of a header allowed, and for rings and    *)
(* frames of any size that satisfies the assumptions.                      *)
(***************************************************************************)
EXTENDS HydraRingFifo, HydraRingProofs, FiniteSetTheorems

USE DEF PageBytes, ETH_CRC_LEN, ETH_MINFRAME, MAX_BUFFER_LENGTH, HeaderBytes

-----------------------------------------------------------------------------
(* Where the frames stored lie in the ring.                                *)

\* at[k] is the running number of the first page of the k-th accepted frame,
\* counted over the whole behaviour; each number belongs to one frame.
PageNumbers(at) ==
  /\ at \in [1 .. Len(accepted) + 1 -> Nat]
  /\ \A k \in 1 .. Len(accepted) : at[k + 1] = at[k] + PagesOf(accepted[k].len)
  /\ \A j, k \in 1 .. Len(accepted) + 1 : j < k => at[j] < at[k]
  /\ \A x \in at[1] .. at[Len(accepted) + 1] - 1 :
       \E k \in 1 .. Len(accepted) : at[k] <= x /\ x < at[k + 1]

\* The header h of frame f: its successor starts d pages past next_pkt.
HeaderTells(h, f, d) ==
  /\ h.next \in Pages
  /\ Dist(next_pkt, h.next) = d
  /\ f.good => h.prx /\ h.size = f.len
  /\ ~f.good => ~h.prx \/ h.size \in BadSizes

\* Pages from next_pkt on to the first page of the k-th frame.
Ahead(at, k) == at[k] - at[Handled + 1]

\* The frames not handled yet fill the pages from next_pkt to CURR, in order,
\* page after page, each with its header in front.
FramesInRing(at) ==
  /\ Handled <= Len(accepted)
  /\ Ahead(at, Len(accepted) + 1) = Dist(next_pkt, curr)
  /\ \A k \in Handled + 1 .. Len(accepted), p \in Pages :
       /\ Ahead(at, k) <= Dist(next_pkt, p) /\ Dist(next_pkt, p) < Ahead(at, k + 1) =>
            ram[p] = [frame |-> accepted[k].frame,
                      index |-> Dist(next_pkt, p) - Ahead(at, k)]
       /\ Dist(next_pkt, p) = Ahead(at, k) =>
            HeaderTells(hdr[p], accepted[k], Ahead(at, k + 1))

\* The frame being stored is whole from CURR to the page the chip is at.
FrameComing ==
  nic.busy =>
    /\ nic.index < PagesOf(nic.len)
    /\ \A p \in Pages : Dist(curr, p) <= nic.index =>
         ram[p] = [frame |-> arrived, index |-> Dist(curr, p)]

\* Frames are numbered as they arrive; one being stored has the last number.
FramesNumbered ==
  /\ Len(accepted) + (IF nic.busy THEN 1 ELSE 0) <= arrived
  /\ \A k \in 1 .. Len(accepted) :
       /\ 1 <= accepted[k].frame /\ accepted[k].frame <= arrived
       /\ nic.busy => accepted[k].frame < arrived
  /\ \A j, k \in 1 .. Len(accepted) : j < k => accepted[j].frame < accepted[k].frame

StoreInv ==
  /\ \E at : PageNumbers(at) /\ FramesInRing(at)
  /\ FrameComing
  /\ FramesNumbered

-----------------------------------------------------------------------------
(* What the driver has in its buffer, and what it has passed on.           *)

Copied == [data |-> rxbuff, size |-> PktSize]

\* The frame copied is the next one to be handled, then the last one handled.
BufferInv ==
  /\ pc = "advance" =>
       /\ Handled < Len(accepted)
       /\ accepted[Handled + 1].good /\ Copied = Image(accepted[Handled + 1])
  /\ pc = "toss" =>
       /\ Handled \in 1 .. Len(accepted)
       /\ accepted[Handled].good /\ Copied = Image(accepted[Handled])

\* The good frames handled were delivered, the one in the buffer excepted.
DeliveryInv ==
  /\ Len(delivered) =
       Cardinality(GoodUpTo(IF pc = "toss" THEN Handled - 1 ELSE Handled))
  /\ InOrderDelivery

-----------------------------------------------------------------------------
(* Counting.                                                               *)

LEMMA PagesOfFrame ==
  ASSUME NEW n \in FrameLens
  PROVE  n \in Nat /\ 64 <= n /\ n <= 1518 /\ PagesOf(n) \in Nat /\ 1 <= PagesOf(n)
BY FrameAssumption DEF PagesOf

LEMMA AcceptedTypes ==
  ASSUME TypeInv
  PROVE  /\ Len(accepted) \in Nat
         /\ \A k \in 1 .. Len(accepted) :
              accepted[k] \in AcceptedFrame /\ accepted[k].len \in FrameLens
<1>1. accepted \in Seq(AcceptedFrame)
  BY DEF TypeInv, TypeOK, HistoryTypeOK
<1>2. \A f \in AcceptedFrame : f.len \in FrameLens
  BY DEF AcceptedFrame
<1> QED
  BY <1>1, <1>2

LEMMA HandledType == TypeInv => Handled \in Nat
<1> SUFFICES ASSUME TypeInv PROVE Handled \in Nat
  OBVIOUS
<1>1. /\ stats["rx_bad_rsr"] \in Nat /\ stats["rx_bad_size"] \in Nat
      /\ stats["packets_received"] \in Nat
  BY RingAssumption DEF TypeInv, TypeOK, DriverTypeOK, Counters
<1> QED
  BY <1>1 DEF Handled

HandledCounters == {"rx_bad_rsr", "rx_bad_size", "packets_received"}

\* The counters are never at their bound when another frame is counted.
LEMMA CountUp ==
  ASSUME TypeInv, FramesNumbered, Handled < Len(accepted),
         NEW c \in HandledCounters, Count(c)
  PROVE  Handled' = Handled + 1
<1>1. /\ stats \in [Counters -> 0 .. MaxHistory] /\ arrived <= MaxFrames /\ arrived \in Nat
      /\ MaxFrames <= MaxHistory /\ MaxHistory \in Nat /\ MaxFrames \in Nat
  BY RingAssumption DEF TypeInv, TypeOK, DriverTypeOK, HistoryTypeOK
<1>2. Len(accepted) \in Nat /\ Len(accepted) <= arrived
  BY <1>1, AcceptedTypes DEF FramesNumbered
<1>3. Handled < MaxHistory /\ Handled \in Nat
  BY <1>1, <1>2, HandledType
<1>4. /\ stats["rx_bad_rsr"] \in Nat /\ stats["rx_bad_size"] \in Nat
      /\ stats["packets_received"] \in Nat
  BY <1>1 DEF Counters
<1>5. stats[c] \in Nat /\ stats[c] <= Handled
  BY <1>4 DEF Handled, HandledCounters
<1>6. stats' = [stats EXCEPT ![c] = stats[c] + 1]
  <2>1. stats[c] < MaxHistory
    BY <1>1, <1>3, <1>5
  <2> QED
    BY <2>1 DEF Count
<1>7. c \in Counters /\ HandledCounters \subseteq Counters
  BY DEF HandledCounters, Counters
<1>8. /\ stats'[c] = stats[c] + 1
      /\ \A b \in HandledCounters : b # c => stats'[b] = stats[b]
  BY <1>1, <1>6, <1>7
<1>9. CASE c = "rx_bad_rsr"
  BY <1>4, <1>8, <1>9 DEF Handled, HandledCounters
<1>10. CASE c = "rx_bad_size"
  BY <1>4, <1>8, <1>10 DEF Handled, HandledCounters
<1>11. CASE c = "packets_received"
  BY <1>4, <1>8, <1>11 DEF Handled, HandledCounters
<1> QED
  BY <1>9, <1>10, <1>11 DEF HandledCounters

-----------------------------------------------------------------------------
(* The frames of the ring under the steps of chip and driver.              *)

\* What the page numbers say of the frames not handled yet.
LEMMA FrameBounds ==
  ASSUME TypeInv, NEW at, PageNumbers(at), FramesInRing(at),
         NEW k \in Handled + 1 .. Len(accepted)
  PROVE  /\ Handled \in Nat /\ k \in 1 .. Len(accepted) /\ Handled + 1 \in 1 .. Len(accepted) + 1
         /\ Len(accepted) \in Nat
         /\ Ahead(at, k) \in Nat /\ Ahead(at, k + 1) \in Nat
         /\ Ahead(at, k + 1) = Ahead(at, k) + PagesOf(accepted[k].len)
         /\ PagesOf(accepted[k].len) \in Nat /\ 1 <= PagesOf(accepted[k].len)
         /\ Ahead(at, k + 1) <= Dist(next_pkt, curr)
<1>1. Handled \in Nat /\ Len(accepted) \in Nat
  BY HandledType, AcceptedTypes
<1>2. k \in 1 .. Len(accepted) /\ Handled + 1 \in 1 .. Len(accepted) + 1
  BY <1>1
<1>3. accepted[k].len \in FrameLens
  BY <1>2, AcceptedTypes
<1>4. PagesOf(accepted[k].len) \in Nat /\ 1 <= PagesOf(accepted[k].len)
  BY <1>3, PagesOfFrame
<1> DEFINE m == Handled + 1
           n == Len(accepted) + 1
<1>5. /\ k \in 1 .. n /\ k + 1 \in 1 .. n /\ m \in 1 .. n /\ n \in 1 .. n
      /\ m <= k /\ k + 1 <= n
  BY <1>1, <1>2
<1>6. at[k] \in Nat /\ at[k + 1] \in Nat /\ at[m] \in Nat /\ at[n] \in Nat
  BY <1>5 DEF PageNumbers
<1>7. at[k + 1] = at[k] + PagesOf(accepted[k].len)
  BY <1>2 DEF PageNumbers
<1>8. at[m] <= at[k] /\ at[k + 1] <= at[n]
  <2>1. m < k => at[m] < at[k]
    BY <1>5 DEF PageNumbers
  <2>2. k + 1 < n => at[k + 1] < at[n]
    BY <1>5 DEF PageNumbers
  <2> HIDE DEF m, n
  <2>3. m = k \/ m < k
    BY <1>1, <1>2, <1>5 DEF m
  <2>4. k + 1 = n \/ k + 1 < n
    BY <1>1, <1>2, <1>5 DEF n
  <2> QED
    BY <1>6, <2>1, <2>2, <2>3, <2>4
<1>9. Dist(next_pkt, curr) = at[n] - at[m]
  BY DEF FramesInRing, Ahead
<1>10. /\ Ahead(at, k) = at[k] - at[m] /\ Ahead(at, k + 1) = at[k + 1] - at[m]
  BY DEF Ahead
<1>11. Handled + 1 \in 1 .. Len(accepted) + 1
  BY <1>2
<1> HIDE DEF m, n
<1>12. /\ Ahead(at, k) \in Nat /\ Ahead(at, k + 1) \in Nat
       /\ Ahead(at, k + 1) = Ahead(at, k) + PagesOf(accepted[k].len)
       /\ Ahead(at, k + 1) <= Dist(next_pkt, curr)
  BY <1>4, <1>6, <1>7, <1>8, <1>9, <1>10
<1> QED
  BY <1>1, <1>2, <1>4, <1>11, <1>12

\* A step that leaves the unread pages alone.
LEMMA RingKept ==
  ASSUME TypeInv, NEW at, PageNumbers(at), FramesInRing(at),
         UNCHANGED <<curr, next_pkt, stats, accepted>>,
         \A p \in Pages : Dist(next_pkt, p) < Dist(next_pkt, curr) =>
                            ram'[p] = ram[p] /\ hdr'[p] = hdr[p]
  PROVE  PageNumbers(at)' /\ FramesInRing(at)'
<1>1. PageNumbers(at)' /\ Handled' = Handled
  BY DEF PageNumbers, Handled
<1>2. \A k \in Nat : Ahead(at, k)' = Ahead(at, k)
  BY <1>1 DEF Ahead
<1>3. next_pkt \in Pages /\ curr \in Pages
  BY DEF TypeInv, TypeOK, ChipTypeOK, DriverTypeOK
<1>4. Len(accepted) + 1 \in Nat /\ Handled \in Nat
  BY AcceptedTypes, HandledType
<1>5. (Ahead(at, Len(accepted) + 1) = Dist(next_pkt, curr))'
  BY <1>2, <1>4 DEF FramesInRing
<1>6. ASSUME NEW k \in Handled + 1 .. Len(accepted), NEW p \in Pages
      PROVE /\ Ahead(at, k) <= Dist(next_pkt, p) /\ Dist(next_pkt, p) < Ahead(at, k + 1) =>
                 ram'[p] = [frame |-> accepted[k].frame,
                            index |-> Dist(next_pkt, p) - Ahead(at, k)]
            /\ Dist(next_pkt, p) = Ahead(at, k) =>
                 HeaderTells(hdr'[p], accepted[k], Ahead(at, k + 1))
  <2>1. /\ Ahead(at, k) \in Nat /\ Ahead(at, k + 1) \in Nat
        /\ Ahead(at, k) < Ahead(at, k + 1) /\ Ahead(at, k + 1) <= Dist(next_pkt, curr)
    BY FrameBounds
  <2>2. Dist(next_pkt, p) \in Int /\ Dist(next_pkt, curr) \in Int
    BY <1>3, DistRange
  <2>3. /\ Ahead(at, k) <= Dist(next_pkt, p) /\ Dist(next_pkt, p) < Ahead(at, k + 1) =>
             ram[p] = [frame |-> accepted[k].frame,
                       index |-> Dist(next_pkt, p) - Ahead(at, k)]
        /\ Dist(next_pkt, p) = Ahead(at, k) =>
             HeaderTells(hdr[p], accepted[k], Ahead(at, k + 1))
    BY DEF FramesInRing
  <2>4. Dist(next_pkt, p) < Ahead(at, k + 1) => ram'[p] = ram[p] /\ hdr'[p] = hdr[p]
    BY <2>1, <2>2
  <2> QED
    BY <2>1, <2>2, <2>3, <2>4
<1>7. \A k \in Handled + 1 .. Len(accepted) :
        Ahead(at, k)' = Ahead(at, k) /\ Ahead(at, k + 1)' = Ahead(at, k + 1)
  BY <1>2, <1>4
<1>8. \A h, f, d : HeaderTells(h, f, d)' <=> HeaderTells(h, f, d)
  BY DEF HeaderTells
<1>9. (\A k \in Handled + 1 .. Len(accepted), p \in Pages :
       /\ Ahead(at, k) <= Dist(next_pkt, p) /\ Dist(next_pkt, p) < Ahead(at, k + 1) =>
            ram[p] = [frame |-> accepted[k].frame,
                      index |-> Dist(next_pkt, p) - Ahead(at, k)]
       /\ Dist(next_pkt, p) = Ahead(at, k) =>
            HeaderTells(hdr[p], accepted[k], Ahead(at, k + 1)))'
  BY <1>1, <1>6, <1>7, <1>8
<1>10. (Handled <= Len(accepted))'
  BY <1>1 DEF FramesInRing
<1> QED
  BY <1>1, <1>5, <1>9, <1>10 DEF FramesInRing

\* The header the chip leaves says whether the frame is good.
LEMMA HeadersForGood ==
  ASSUME NEW nf \in Pages, NEW n \in FrameLens, NEW h \in HeadersFor(nf, n),
         ~(h.prx /\ h.size = n)
  PROVE  ~h.prx \/ h.size \in BadSizes
<1>1. \/ h = Hdr(nf, TRUE, n)
      \/ \E p : h = Hdr(p, TRUE, n)
      \/ h = Hdr(nf, FALSE, n)
      \/ \E s \in BadSizes : h = Hdr(nf, TRUE, s)
  BY DEF HeadersFor
<1> QED
  BY <1>1 DEF Hdr

\* The page numbers with those of one more frame.
LEMMA PagesGrow ==
  ASSUME TypeInv, NEW at, PageNumbers(at), NEW f \in AcceptedFrame,
         accepted' = Append(accepted, f)
  PROVE  \E b : /\ PageNumbers(b)'
                /\ \A k \in 1 .. Len(accepted) + 1 : b[k] = at[k]
                /\ b[Len(accepted) + 2] = at[Len(accepted) + 1] + PagesOf(f.len)
<1> DEFINE n == Len(accepted)
           w == PagesOf(f.len)
<1>0. PICK b : b = [k \in 1 .. n + 2 |-> IF k <= n + 1 THEN at[k] ELSE at[n + 1] + w]
  OBVIOUS
<1>1. n \in Nat /\ accepted \in Seq(AcceptedFrame)
  BY AcceptedTypes DEF TypeInv, TypeOK, HistoryTypeOK
<1>2. /\ Len(accepted') = n + 1 /\ accepted'[n + 1] = f
      /\ \A k \in 1 .. n : accepted'[k] = accepted[k]
  BY <1>1
<1>3. w \in Nat /\ 1 <= w
  <2>1. f.len \in FrameLens
    BY DEF AcceptedFrame
  <2> QED
    BY <2>1, PagesOfFrame
<1>4. \A k \in 1 .. n + 1 : at[k] \in Nat /\ b[k] = at[k]
  <2>1. at \in [1 .. n + 1 -> Nat]
    BY DEF PageNumbers
  <2>2. \A k \in 1 .. n + 1 : k \in 1 .. n + 2 /\ k <= n + 1
    BY <1>1
  <2> QED
    BY <1>0, <2>1, <2>2
<1>5. b[n + 2] = at[n + 1] + w
  BY <1>0, <1>1
<1>6. b \in [1 .. n + 2 -> Nat]
  <2>1. n + 1 \in 1 .. n + 1
    BY <1>1
  <2>2. at[n + 1] + w \in Nat
    BY <1>3, <1>4, <2>1
  <2> SUFFICES ASSUME NEW k \in 1 .. n + 2
               PROVE  (IF k <= n + 1 THEN at[k] ELSE at[n + 1] + w) \in Nat
    BY <1>0
  <2>3. k <= n + 1 => k \in 1 .. n + 1
    BY <1>1
  <2> HIDE DEF w
  <2> QED
    BY <1>4, <2>2, <2>3
<1>7. /\ \A k \in 1 .. n : at[k + 1] = at[k] + PagesOf(accepted[k].len)
      /\ \A j, k \in 1 .. n + 1 : j < k => at[j] < at[k]
      /\ \A x \in at[1] .. at[n + 1] - 1 : \E k \in 1 .. n : at[k] <= x /\ x < at[k + 1]
  BY DEF PageNumbers
<1> HIDE DEF w
<1>8. ASSUME NEW k \in 1 .. n + 1 PROVE b[k + 1] = b[k] + PagesOf(accepted'[k].len)
  <2>1. CASE k \in 1 .. n
    <3>1. k + 1 \in 1 .. n + 1
      BY <1>1, <2>1
    <3> QED
      BY <1>2, <1>4, <1>7, <2>1, <3>1
  <2>2. CASE k = n + 1
    BY <1>1, <1>2, <1>4, <1>5, <2>2 DEF w
  <2> QED
    BY <1>1, <2>1, <2>2
<1>9. ASSUME NEW j \in 1 .. n + 2, NEW k \in 1 .. n + 2, j < k PROVE b[j] < b[k]
  <2>1. j \in 1 .. n + 1
    BY <1>1, <1>9
  <2>2. CASE k \in 1 .. n + 1
    BY <1>4, <1>7, <1>9, <2>1, <2>2
  <2>3. CASE k = n + 2
    <3>1. j = n + 1 \/ at[j] < at[n + 1]
      BY <1>1, <1>7, <2>1
    <3>2. at[j] \in Nat /\ at[n + 1] \in Nat
      BY <1>1, <1>4, <2>1
    <3> QED
      BY <1>3, <1>4, <1>5, <2>1, <2>3, <3>1, <3>2
  <2> QED
    BY <1>1, <2>2, <2>3
<1>10. ASSUME NEW x \in b[1] .. b[n + 2] - 1
       PROVE  \E k \in 1 .. n + 1 : b[k] <= x /\ x < b[k + 1]
  <2>1. b[1] = at[1] /\ at[1] \in Nat /\ at[n + 1] \in Nat /\ b[n + 1] = at[n + 1]
    BY <1>1, <1>4
  <2>2. x \in Int /\ at[1] <= x /\ x < at[n + 1] + w
    BY <1>3, <1>5, <2>1
  <2>3. CASE x < at[n + 1]
    <3>1. PICK k \in 1 .. n : at[k] <= x /\ x < at[k + 1]
      BY <1>7, <2>1, <2>2, <2>3
    <3>2. k \in 1 .. n + 1 /\ k + 1 \in 1 .. n + 1
      BY <1>1
    <3> QED
      BY <1>4, <3>1, <3>2
  <2>4. CASE x >= at[n + 1]
    <3>1. n + 1 \in 1 .. n + 1 /\ (n + 1) + 1 = n + 2
      BY <1>1
    <3> QED
      BY <1>5, <2>1, <2>2, <2>4, <3>1
  <2> QED
    BY <2>1, <2>2, <2>3, <2>4
<1>11. PageNumbers(b)'
  <2>1. Len(accepted') + 1 = n + 2
    BY <1>1, <1>2
  <2> QED
    BY <1>2, <1>6, <1>8, <1>9, <1>10, <2>1 DEF PageNumbers
<1> QED
  BY <1>4, <1>5, <1>11 DEF w

\* A frame the chip ends is in the ring behind the others.
LEMMA RingGrows ==
  ASSUME Faults \subseteq ChainFaults, TypeInv, RingInv, FrameComing,
         NEW at, PageNumbers(at), FramesInRing(at), NicEnd
  PROVE  \E b : PageNumbers(b)' /\ FramesInRing(b)'
<1> DEFINE n == Len(accepted)
           q == NextPage(nic.page)
           d == Dist(next_pkt, curr)
           w == PagesOf(nic.len)
<1>1. /\ nic.busy /\ nic.index + 1 = w /\ curr' = q
      /\ UNCHANGED <<ram, next_pkt, stats>>
  BY DEF NicEnd, driverVars
<1>2. PICK h \in HeadersFor(q, nic.len) :
        /\ hdr' = [hdr EXCEPT ![curr] = h]
        /\ accepted' = Append(accepted, [frame |-> arrived, len |-> nic.len,
                                         good |-> h.prx /\ h.size = nic.len])
  BY DEF NicEnd
<1> DEFINE f == [frame |-> arrived, len |-> nic.len, good |-> h.prx /\ h.size = nic.len]
<1>3. /\ nic.len \in FrameLens /\ arrived \in Nat /\ curr \in Pages /\ next_pkt \in Pages
      /\ hdr \in [Pages -> Header]
  BY <1>1, RingAssumption DEF TypeInv, TypeOK, ChipTypeOK, DriverTypeOK, HistoryTypeOK
<1>4. f \in AcceptedFrame
  BY <1>3 DEF AcceptedFrame
<1>5. PICK b : /\ PageNumbers(b)'
               /\ \A k \in 1 .. n + 1 : b[k] = at[k]
               /\ b[n + 2] = at[n + 1] + PagesOf(f.len)
  BY <1>2, <1>4, PagesGrow
<1>6. n \in Nat /\ accepted \in Seq(AcceptedFrame) /\ Handled \in Nat /\ Handled <= n
  BY AcceptedTypes, HandledType DEF TypeInv, TypeOK, HistoryTypeOK, FramesInRing
<1>7. /\ Len(accepted') = n + 1 /\ accepted'[n + 1] = f
      /\ \A k \in 1 .. n : accepted'[k] = accepted[k]
  BY <1>2, <1>4, <1>6
<1>8. f.len = nic.len /\ f.frame = arrived /\ f.good = (h.prx /\ h.size = nic.len)
  OBVIOUS
<1>9. /\ q \in Pages /\ Dist(next_pkt, q) = d + nic.index + 1 /\ nic.index \in Nat
  BY <1>1, StorePlace
<1>10. h.next = q /\ (~f.good => ~h.prx \/ h.size \in BadSizes)
  BY <1>3, <1>8, <1>9, HeadersForNext, HeadersForGood
<1>11. Handled' = Handled
  BY <1>1 DEF Handled
<1>12. \A k \in 1 .. n + 1 : Ahead(b, k)' = Ahead(at, k)
  <2>1. Handled + 1 \in 1 .. n + 1
    BY <1>6
  <2> QED
    BY <1>5, <1>11, <2>1 DEF Ahead
<1>13. Ahead(at, n + 1) = d /\ d \in Int /\ 0 <= d /\ Size \in Int
  BY <1>3, DistRange, SizeBound DEF FramesInRing
<1>14. \A k : k = n + 2 => Ahead(b, k)' = d + w
  <2> DEFINE m == Handled + 1
  <2>1. at[n + 1] \in Nat /\ at[m] \in Nat /\ b[m] = at[m]
    <3>1. at \in [1 .. n + 1 -> Nat]
      BY DEF PageNumbers
    <3>2. n + 1 \in 1 .. n + 1 /\ m \in 1 .. n + 1
      BY <1>6
    <3> QED
      BY <1>5, <3>1, <3>2
  <2>2. w \in Nat
    BY <1>3, PagesOfFrame
  <2>3. \A k : Ahead(b, k)' = b[k] - at[m]
    BY <1>11, <2>1 DEF Ahead
  <2>4. d = at[n + 1] - at[m]
    BY <1>13 DEF Ahead
  <2> QED
    BY <1>5, <1>8, <2>1, <2>2, <2>3, <2>4
<1>15. Dist(next_pkt, q) = d + w
  BY <1>1, <1>9, <1>13
<1>16. \A p \in Pages : Dist(next_pkt, p) \in Int
  BY <1>3, DistRange
<1> HIDE DEF n, q, d, w, f
<1>17. \A g, e, x : HeaderTells(g, e, x)' <=> HeaderTells(g, e, x)
  BY <1>1 DEF HeaderTells
<1>18. ASSUME NEW k \in Handled + 1 .. n, NEW p \in Pages
       PROVE  /\ Ahead(at, k) <= Dist(next_pkt, p) /\ Dist(next_pkt, p) < Ahead(at, k + 1) =>
                   ram[p] = [frame |-> accepted[k].frame,
                             index |-> Dist(next_pkt, p) - Ahead(at, k)]
              /\ Dist(next_pkt, p) = Ahead(at, k) =>
                   HeaderTells(hdr'[p], accepted[k], Ahead(at, k + 1))
  <2>1. /\ Ahead(at, k) \in Nat /\ Ahead(at, k + 1) \in Nat
        /\ Ahead(at, k) < Ahead(at, k + 1) /\ Ahead(at, k + 1) <= d
    BY FrameBounds DEF n, d
  <2>2. /\ Ahead(at, k) <= Dist(next_pkt, p) /\ Dist(next_pkt, p) < Ahead(at, k + 1) =>
             ram[p] = [frame |-> accepted[k].frame,
                       index |-> Dist(next_pkt, p) - Ahead(at, k)]
        /\ Dist(next_pkt, p) = Ahead(at, k) =>
             HeaderTells(hdr[p], accepted[k], Ahead(at, k + 1))
    BY DEF FramesInRing, n
  <2>3. Dist(next_pkt, p) = Ahead(at, k) => p # curr
    BY <1>13, <2>1 DEF d
  <2>4. p # curr => hdr'[p] = hdr[p]
    BY <1>2, <1>3
  <2> QED
    BY <2>2, <2>3, <2>4
<1>19. ASSUME NEW p \in Pages
       PROVE  /\ d <= Dist(next_pkt, p) /\ Dist(next_pkt, p) < d + w =>
                   ram[p] = [frame |-> f.frame, index |-> Dist(next_pkt, p) - d]
              /\ Dist(next_pkt, p) = d => HeaderTells(hdr'[p], f, d + w)
  <2>1. ASSUME d <= Dist(next_pkt, p), Dist(next_pkt, p) < d + w
        PROVE  ram[p] = [frame |-> f.frame, index |-> Dist(next_pkt, p) - d]
    <3>1. Dist(curr, p) = Dist(next_pkt, p) - d
      BY <1>3, <2>1, DistFrom DEF d
    <3>2. Dist(curr, p) <= nic.index
      BY <1>1, <1>9, <1>13, <1>16, <2>1, <3>1
    <3>3. ram[p] = [frame |-> arrived, index |-> Dist(curr, p)]
      BY <1>1, <3>2 DEF FrameComing
    <3> QED
      BY <1>8, <3>1, <3>3
  <2>2. ASSUME Dist(next_pkt, p) = d
        PROVE  HeaderTells(hdr'[p], f, d + w)
    <3>1. p = curr
      BY <1>3, <2>2, DistInjective DEF d
    <3>2. hdr'[p] = h
      BY <1>2, <1>3, <3>1
    <3> QED
      BY <1>8, <1>9, <1>10, <1>15, <3>2 DEF HeaderTells
  <2> QED
    BY <2>1, <2>2
<1>20. ASSUME NEW k \in Handled + 1 .. n + 1, NEW p \in Pages
       PROVE  (/\ Ahead(b, k) <= Dist(next_pkt, p) /\ Dist(next_pkt, p) < Ahead(b, k + 1) =>
                    ram[p] = [frame |-> accepted[k].frame,
                              index |-> Dist(next_pkt, p) - Ahead(b, k)]
               /\ Dist(next_pkt, p) = Ahead(b, k) =>
                    HeaderTells(hdr[p], accepted[k], Ahead(b, k + 1)))'
  <2>1. CASE k = n + 1
    <3>1. Ahead(b, k)' = d /\ Ahead(b, k + 1)' = d + w
      <4>1. n + 1 \in 1 .. n + 1 /\ (n + 1) + 1 = n + 2
        BY <1>6
      <4> QED
        BY <1>12, <1>13, <1>14, <2>1, <4>1
    <3>2. accepted'[k] = f
      BY <1>7, <2>1
    <3> QED
      BY <1>1, <1>17, <1>19, <3>1, <3>2
  <2>2. CASE k # n + 1
    <3>1. k \in Handled + 1 .. n /\ k \in 1 .. n /\ k \in 1 .. n + 1 /\ k + 1 \in 1 .. n + 1
      BY <1>6, <2>2
    <3>2. Ahead(b, k)' = Ahead(at, k) /\ Ahead(b, k + 1)' = Ahead(at, k + 1)
      BY <1>12, <3>1
    <3>3. accepted'[k] = accepted[k]
      BY <1>7, <3>1
    <3> QED
      BY <1>1, <1>17, <1>18, <3>1, <3>2, <3>3
  <2> QED
    BY <2>1, <2>2
<1>21. FramesInRing(b)'
  <2>1. (Handled <= Len(accepted))'
    BY <1>6, <1>7, <1>11
  <2>2. (Ahead(b, Len(accepted) + 1) = Dist(next_pkt, curr))'
    <3>1. Len(accepted') + 1 = n + 2
      BY <1>6, <1>7
    <3> QED
      BY <1>1, <1>14, <1>15, <3>1
  <2>3. (Handled + 1 .. Len(accepted))' = Handled + 1 .. n + 1
    BY <1>7, <1>11
  <2> QED
    BY <1>20, <2>1, <2>2, <2>3 DEF FramesInRing
<1> QED
  BY <1>5, <1>21

\* The header the driver holds is that of the next frame to be handled.
LEMMA NextFrame ==
  ASSUME TypeInv, RingInv, NEW at, PageNumbers(at), FramesInRing(at),
         pc \in {"check", "advance"}
  PROVE  /\ Handled < Len(accepted)
         /\ Ahead(at, Handled + 1) = 0
         /\ HeaderTells(header, accepted[Handled + 1], Ahead(at, Handled + 2))
<1>1. next_pkt \in Pages /\ curr \in Pages /\ next_pkt # curr /\ header = hdr[next_pkt]
  BY DEF TypeInv, TypeOK, ChipTypeOK, DriverTypeOK, RingInv, DriverBehind
<1>2. Handled \in Nat /\ Len(accepted) \in Nat /\ Handled <= Len(accepted)
  BY HandledType, AcceptedTypes DEF FramesInRing
<1>3. Ahead(at, Handled + 1) = 0
  <2>1. at \in [1 .. Len(accepted) + 1 -> Nat] /\ Handled + 1 \in 1 .. Len(accepted) + 1
    BY <1>2 DEF PageNumbers
  <2>2. at[Handled + 1] \in Nat
    BY <2>1
  <2> QED
    BY <2>2 DEF Ahead
<1>4. Handled # Len(accepted)
  <2>1. Dist(next_pkt, curr) # 0
    BY <1>1, DistZero
  <2>2. Ahead(at, Len(accepted) + 1) # 0
    BY <2>1 DEF FramesInRing
  <2> QED
    BY <1>3, <2>2
<1>5. Dist(next_pkt, next_pkt) = 0
  BY <1>1, DistZero
<1>6. Handled + 1 \in Handled + 1 .. Len(accepted) /\ (Handled + 1) + 1 = Handled + 2
  BY <1>2, <1>4
<1>7. HeaderTells(hdr[next_pkt], accepted[Handled + 1], Ahead(at, (Handled + 1) + 1))
  BY <1>1, <1>3, <1>5, <1>6 DEF FramesInRing
<1> QED
  BY <1>1, <1>2, <1>3, <1>4, <1>6, <1>7

\* The frames left when one is given back, seen from the new next_pkt.
LEMMA RingShrinks ==
  ASSUME TypeInv, RingInv, NEW at, PageNumbers(at), FramesInRing(at),
         pc \in {"check", "advance"}, Advance, Handled' = Handled + 1,
         UNCHANGED <<curr, hdr, ram, accepted>>
  PROVE  PageNumbers(at)' /\ FramesInRing(at)'
<1> DEFINE H == Handled
           n == Len(accepted)
           d(p) == Dist(next_pkt, p)
           w == Ahead(at, Handled + 2)
           m == header.next
<1>1. /\ next_pkt \in Pages /\ curr \in Pages
      /\ H \in Nat /\ n \in Nat /\ Size \in Int
  BY HandledType, AcceptedTypes, SizeBound
  DEF TypeInv, TypeOK, ChipTypeOK, DriverTypeOK
<1>2. H < n /\ HeaderTells(header, accepted[H + 1], w)
  BY NextFrame
<1>3. m \in Pages /\ d(m) = w /\ next_pkt' = m
  BY <1>2 DEF HeaderTells, Advance
<1>4. d(m) <= d(curr)
  BY HeaderLeadsForward
<1>5. \A p \in Pages : d(p) \in Int /\ 0 <= d(p) /\ d(p) < Size
  BY <1>1, DistRange
<1>6. \A p \in Pages : Dist(m, p) \in Int /\ 0 <= Dist(m, p)
  BY <1>3, DistRange
<1>7. \A p \in Pages : d(p) >= w => Dist(m, p) = d(p) - w
  <2> SUFFICES ASSUME NEW p \in Pages, d(p) >= w PROVE Dist(m, p) = d(p) - w
    OBVIOUS
  <2>1. d(m) <= d(p)
    BY <1>3, <1>5
  <2> HIDE DEF m
  <2>2. Dist(m, p) = d(p) - d(m)
    BY <1>1, <1>3, <2>1, DistFrom
  <2> QED
    BY <1>3, <2>2
<1>8. \A p \in Pages : Dist(m, p) < Dist(m, curr) => d(p) = Dist(m, p) + w
  <2> SUFFICES ASSUME NEW p \in Pages, Dist(m, p) < Dist(m, curr)
               PROVE  d(p) = Dist(m, p) + w
    OBVIOUS
  <2>1. Dist(m, curr) = d(curr) - w
    BY <1>1, <1>3, <1>4, <1>7
  <2> HIDE DEF m, w
  <2>2. d(m) + Dist(m, p) < Size
    BY <1>1, <1>3, <1>5, <1>6, <2>1
  <2>3. d(p) = d(m) + Dist(m, p)
    BY <1>1, <1>3, <2>2, DistFrom
  <2> QED
    BY <1>3, <1>5, <1>6, <2>3
<1>9. PageNumbers(at)'
  BY DEF PageNumbers
<1>10. at \in [1 .. n + 1 -> Nat]
  BY DEF PageNumbers
<1>11. \A k \in 1 .. n + 1 : Ahead(at, k)' = Ahead(at, k) - w
  <2>1. H + 1 \in 1 .. n + 1 /\ H + 2 \in 1 .. n + 1 /\ (H + 1) + 1 = H + 2
    BY <1>1, <1>2
  <2>2. \A k \in 1 .. n + 1 : at[k] \in Nat /\ at[H + 1] \in Nat /\ at[H + 2] \in Nat
    BY <1>10, <2>1
  <2>3. Handled' + 1 = H + 2
    BY <1>1
  <2>4. \A k \in 1 .. n + 1 : Ahead(at, k)' = at[k] - at[H + 2]
    BY <2>3 DEF Ahead
  <2>5. \A k \in 1 .. n + 1 : Ahead(at, k) = at[k] - at[H + 1]
    BY DEF Ahead
  <2>6. w = at[H + 2] - at[H + 1]
    BY <2>1 DEF Ahead
  <2> HIDE DEF H, n, w
  <2> QED
    BY <2>2, <2>4, <2>5, <2>6
<1>12. Ahead(at, n + 1) = d(curr)
  BY DEF FramesInRing
<1>13. ASSUME NEW h, NEW f, NEW x \in Int, NEW y, x >= w, y = x - w, HeaderTells(h, f, x)
       PROVE  HeaderTells(h, f, y)'
  <2>1. h.next \in Pages /\ d(h.next) = x
    BY <1>13 DEF HeaderTells
  <2>2. Dist(m, h.next) = y
    BY <1>7, <1>13, <2>1
  <2> QED
    BY <1>3, <1>13, <2>2 DEF HeaderTells
<1> HIDE DEF H, n, w, m
<1>14. ASSUME NEW k \in H + 2 .. n, NEW p \in Pages
       PROVE  /\ Ahead(at, k) - w <= Dist(m, p) /\ Dist(m, p) < Ahead(at, k + 1) - w =>
                   ram[p] = [frame |-> accepted[k].frame,
                             index |-> Dist(m, p) - (Ahead(at, k) - w)]
              /\ \A h, f, y : /\ Dist(m, p) = Ahead(at, k) - w
                              /\ h = hdr[p] /\ f = accepted[k] /\ y = Ahead(at, k + 1) - w
                              => HeaderTells(h, f, y)'
  <2>1. k \in Handled + 1 .. Len(accepted)
    BY <1>1 DEF H, n
  <2>2. /\ Ahead(at, k) \in Nat /\ Ahead(at, k + 1) \in Nat
        /\ Ahead(at, k) < Ahead(at, k + 1) /\ Ahead(at, k + 1) <= d(curr)
    BY <2>1, FrameBounds
  <2>3. /\ Ahead(at, k) <= d(p) /\ d(p) < Ahead(at, k + 1) =>
             ram[p] = [frame |-> accepted[k].frame, index |-> d(p) - Ahead(at, k)]
        /\ d(p) = Ahead(at, k) =>
             HeaderTells(hdr[p], accepted[k], Ahead(at, k + 1))
    BY <2>1 DEF FramesInRing
  <2>4. w \in Int /\ Dist(m, curr) = d(curr) - w /\ d(curr) \in Int /\ d(p) \in Int
    BY <1>1, <1>3, <1>4, <1>5, <1>7
  <2>5. Dist(m, p) < Ahead(at, k + 1) - w => d(p) = Dist(m, p) + w
    BY <1>6, <1>8, <2>2, <2>4
  <2>6. Dist(m, p) \in Int
    BY <1>6
  <2>7. w <= Ahead(at, k + 1)
    <3>1. Handled + 1 \in Handled + 1 .. Len(accepted)
      BY <1>1, <1>2 DEF H, n
    <3>2. Ahead(at, (Handled + 1) + 1) \in Nat
      BY <3>1, FrameBounds
    <3>3. at[H + 2] <= at[k + 1] /\ at[H + 2] \in Nat /\ at[k + 1] \in Nat /\ at[H + 1] \in Nat
      <4>1. /\ H + 2 \in 1 .. n + 1 /\ k + 1 \in 1 .. n + 1 /\ H + 2 < k + 1
            /\ H + 1 \in 1 .. n + 1
        BY <1>1
      <4>2. at[H + 2] < at[k + 1]
        BY <4>1 DEF PageNumbers, n
      <4> QED
        BY <1>10, <4>1, <4>2
    <3>4. w = at[H + 2] - at[H + 1] /\ Ahead(at, k + 1) = at[k + 1] - at[H + 1]
      BY DEF w, Ahead, H
    <3> QED
      BY <3>3, <3>4
  <2>8. ASSUME Ahead(at, k) - w <= Dist(m, p), Dist(m, p) < Ahead(at, k + 1) - w
        PROVE  ram[p] = [frame |-> accepted[k].frame,
                         index |-> Dist(m, p) - (Ahead(at, k) - w)]
    <3>1. d(p) = Dist(m, p) + w
      BY <2>5, <2>8
    <3>2. Ahead(at, k) <= d(p) /\ d(p) < Ahead(at, k + 1)
      BY <2>2, <2>4, <2>6, <2>8, <3>1
    <3>3. d(p) - Ahead(at, k) = Dist(m, p) - (Ahead(at, k) - w)
      BY <2>2, <2>4, <2>6, <3>1
    <3> QED
      BY <2>3, <3>2, <3>3
  <2>9. ASSUME NEW h, NEW f, NEW y, Dist(m, p) = Ahead(at, k) - w,
               h = hdr[p], f = accepted[k], y = Ahead(at, k + 1) - w
        PROVE  HeaderTells(h, f, y)'
    <3>1. Dist(m, p) < Ahead(at, k + 1) - w
      BY <2>2, <2>4, <2>9
    <3>2. d(p) = Ahead(at, k)
      BY <2>2, <2>4, <2>5, <2>6, <2>9, <3>1
    <3>3. HeaderTells(hdr[p], accepted[k], Ahead(at, k + 1))
      BY <2>3, <3>2
    <3> QED
      BY <1>13, <2>2, <2>7, <2>9, <3>3
  <2> QED
    BY <2>8, <2>9
<1>15. ASSUME NEW k \in H + 2 .. n, NEW p \in Pages
       PROVE  (/\ Ahead(at, k) <= Dist(next_pkt, p) /\ Dist(next_pkt, p) < Ahead(at, k + 1) =>
                    ram[p] = [frame |-> accepted[k].frame,
                              index |-> Dist(next_pkt, p) - Ahead(at, k)]
               /\ Dist(next_pkt, p) = Ahead(at, k) =>
                    HeaderTells(hdr[p], accepted[k], Ahead(at, k + 1)))'
  <2>1. k \in 1 .. n + 1 /\ k + 1 \in 1 .. n + 1
    BY <1>1
  <2>2. Ahead(at, k)' = Ahead(at, k) - w /\ Ahead(at, k + 1)' = Ahead(at, k + 1) - w
    BY <1>11, <2>1
  <2> QED
    BY <1>3, <1>14, <2>2
<1>16. FramesInRing(at)'
  <2>1. (Handled <= Len(accepted))'
    BY <1>1, <1>2 DEF H, n
  <2>2. (Ahead(at, Len(accepted) + 1) = Dist(next_pkt, curr))'
    <3>1. n + 1 \in 1 .. n + 1 /\ Len(accepted') = n
      BY <1>1 DEF n
    <3>2. Dist(m, curr) = d(curr) - w
      BY <1>1, <1>3, <1>4, <1>7
    <3> QED
      BY <1>3, <1>11, <1>12, <3>1, <3>2
  <2>3. (Handled + 1 .. Len(accepted))' = H + 2 .. n
    BY <1>1 DEF H, n
  <2> QED
    BY <1>15, <2>1, <2>2, <2>3 DEF FramesInRing
<1> QED
  BY <1>9, <1>16

-----------------------------------------------------------------------------
(* The copy of a frame.                                                    *)

\* The tags of len pages from the page first on.
Tags(first, len) == [i \in 1 .. len |-> ram[first + i - 1]]

\* A read of n bytes from o that is not refused, and the pages it crosses.
ReadAllowed(o, n) == n > 0 /\ o + 4 * ((n + 3) \div 4) <= Stop * PageBytes
PagesRead(o, n)   == (o + n - 1) \div PageBytes - o \div PageBytes + 1

LEMMA RamReadIs ==
  ASSUME NEW o \in Nat, NEW n \in Nat, ReadAllowed(o, n)
  PROVE  RamRead(o, n) = Tags(o \div PageBytes, PagesRead(o, n))
<1>1. ~(n < 0 \/ o + 4 * ((n + 3) \div 4) > Stop * PageBytes) /\ n # 0
  BY RingAssumption DEF ReadAllowed
<1> QED
  BY <1>1 DEF RamRead, Tags, PagesRead

\* C is A, of a tags, and then B, of b.
InParts(A, a, B, b, C) ==
  /\ A \in [1 .. a -> Tag] /\ B \in [1 .. b -> Tag] /\ C \in [1 .. a + b -> Tag]
  /\ \A i \in 1 .. a : A[i] = C[i]
  /\ \A i \in 1 .. b : B[i] = C[a + i]

LEMMA TwoParts ==
  ASSUME NEW a \in Nat, NEW b \in Nat, NEW A, NEW B, NEW C, InParts(A, a, B, b, C)
  PROVE  A \o B = C
<1>1. A \in Seq(Tag) /\ B \in Seq(Tag) /\ C \in Seq(Tag)
  <2>1. a + b \in Nat
    OBVIOUS
  <2> QED
    BY <2>1, FunctionIsSeq DEF InParts
<1>2. Len(A) = a /\ Len(B) = b /\ Len(C) = a + b
  BY <1>1, LenProperties DEF InParts
<1>3. /\ A \o B \in Seq(Tag) /\ Len(A \o B) = a + b
      /\ \A i \in 1 .. a + b : (A \o B)[i] = IF i <= a THEN A[i] ELSE B[i - a]
  BY <1>1, <1>2, ConcatProperties
<1>4. \A i \in 1 .. a + b : (A \o B)[i] = C[i]
  <2> SUFFICES ASSUME NEW i \in 1 .. a + b PROVE (A \o B)[i] = C[i]
    OBVIOUS
  <2>1. CASE i <= a
    <3>1. i \in 1 .. a
      BY <2>1
    <3>2. A[i] = C[i]
      BY <3>1 DEF InParts
    <3> QED
      BY <1>3, <2>1, <3>2
  <2>2. CASE i > a
    <3>1. i - a \in 1 .. b /\ a + (i - a) = i
      BY <2>2
    <3>2. B[i - a] = C[i]
      BY <3>1 DEF InParts
    <3> QED
      BY <1>3, <2>2, <3>2
  <2>3. i <= a \/ i > a
    OBVIOUS
  <2> QED
    BY <2>1, <2>2, <2>3
<1> QED
  BY <1>1, <1>2, <1>3, <1>4, SeqEqual

\* The first n bytes of frame g and its header lie in the pages from p on.
FrameAt(p, g, n) ==
  \A q \in Pages : Dist(p, q) < PagesOf(n) =>
                     ram[q] = [frame |-> g, index |-> Dist(p, q)]

\* The tags of those pages.
FrameTags(g, n) == [i \in 1 .. PagesOf(n) |-> [frame |-> g, index |-> i - 1]]

\* Copying n bytes from behind the header at page p, in one part or two, gives
\* the tags of the frame whose pages start at p.
LEMMA CopyOfFrame ==
  ASSUME ram \in [Pages -> Tag], NEW p \in Pages, NEW g,
         NEW n \in Nat, n > 0, n <= MAX_BUFFER_LENGTH, FrameAt(p, g, n)
  PROVE  CopyFrame(p, n) = FrameTags(g, n)
<1> DEFINE k      == PagesOf(n)
           offset == p * PageBytes + HeaderBytes
           semi   == Stop * PageBytes - offset
           a      == Stop - p
           base   == RxStart * PageBytes
           rest   == n - semi
<1>1. /\ p \in Nat /\ Stop \in Nat /\ RxStart \in Nat /\ RxStart <= p /\ p < Stop
      /\ Size = Stop - RxStart /\ Size * 256 >= 1522
  BY RingAssumption DEF Pages, Size
<1>2. k \in Nat /\ 1 <= k /\ k <= Size
  BY <1>1 DEF PagesOf
<1>3. \A i \in 1 .. k : p + i - 1 < Stop =>
                          ram[p + i - 1] = [frame |-> g, index |-> i - 1]
  <2> SUFFICES ASSUME NEW i \in 1 .. k, p + i - 1 < Stop
               PROVE  ram[p + i - 1] = [frame |-> g, index |-> i - 1]
    OBVIOUS
  <2>1. p + i - 1 \in Pages
    BY <1>1 DEF Pages
  <2>2. Dist(p, p + i - 1) = i - 1 /\ i - 1 < k
    BY <1>1, <1>2 DEF Dist
  <2> QED
    BY <2>1, <2>2 DEF FrameAt
<1>4. \A i \in 1 .. k : i > a =>
                          ram[RxStart + (i - a) - 1] = [frame |-> g, index |-> i - 1]
  <2> SUFFICES ASSUME NEW i \in 1 .. k, i > a
               PROVE  ram[RxStart + (i - a) - 1] = [frame |-> g, index |-> i - 1]
    OBVIOUS
  <2> DEFINE q == RxStart + (i - a) - 1
  <2>1. q \in Pages /\ Dist(p, q) = i - 1 /\ i - 1 < k
    BY <1>1, <1>2 DEF Dist, Pages
  <2> HIDE DEF q
  <2>2. ram[q] = [frame |-> g, index |-> i - 1]
    BY <2>1 DEF FrameAt
  <2> QED
    BY <2>2 DEF q
<1>5. CASE n <= semi
  <2>1. offset \in Nat /\ offset + 4 * ((n + 3) \div 4) <= Stop * PageBytes
    BY <1>1, <1>5
  <2>2. /\ (offset + n - 1) \div PageBytes - offset \div PageBytes + 1 = k
        /\ offset \div PageBytes = p /\ p + k <= Stop
    BY <1>1, <1>5 DEF PagesOf
  <2> HIDE DEF k
  <2>3. RamRead(offset, n) = Tags(p, k)
    <3> HIDE DEF offset
    <3>1. ReadAllowed(offset, n) /\ PagesRead(offset, n) = k
      BY <2>1, <2>2 DEF ReadAllowed, PagesRead
    <3>2. RamRead(offset, n) = Tags(offset \div PageBytes, PagesRead(offset, n))
      BY <2>1, <3>1, RamReadIs
    <3> QED
      BY <2>2, <3>1, <3>2
  <2>4. \A i \in 1 .. k : ram[p + i - 1] = [frame |-> g, index |-> i - 1]
    BY <1>1, <1>2, <1>3, <2>2
  <2>5. RamRead(offset, n) = [i \in 1 .. k |-> [frame |-> g, index |-> i - 1]]
    <3> HIDE DEF offset
    <3> QED
      BY <2>3, <2>4 DEF Tags
  <2>6. CopyFrame(p, n) = RamRead(offset, n)
    <3>1. ~(n > semi)
      BY <1>1, <1>5
    <3> QED
      BY <3>1 DEF CopyFrame
  <2> QED
    BY <2>5, <2>6 DEF k, FrameTags
<1>6. CASE n > semi
  <2>1. /\ offset \in Nat /\ semi \in Nat /\ semi > 0 /\ base \in Nat
        /\ rest \in Nat /\ rest > 0
        /\ offset + 4 * ((semi + 3) \div 4) <= Stop * PageBytes
        /\ base + 4 * ((rest + 3) \div 4) <= Stop * PageBytes
    BY <1>1, <1>6
  <2>2. /\ (offset + semi - 1) \div PageBytes - offset \div PageBytes + 1 = a
        /\ offset \div PageBytes = p /\ a \in Nat
    BY <1>1
  <2>3. /\ (base + rest - 1) \div PageBytes - base \div PageBytes + 1 = k - a
        /\ base \div PageBytes = RxStart /\ k - a \in Nat
    BY <1>1, <1>6 DEF PagesOf
  <2>4. CopyFrame(p, n) = RamRead(offset, semi) \o RamRead(base, rest)
    BY <1>6 DEF CopyFrame
  <2> DEFINE b == k - a
             A == [i \in 1 .. a |-> ram[p + i - 1]]
             B == [i \in 1 .. b |-> ram[RxStart + i - 1]]
             C == [i \in 1 .. k |-> [frame |-> g, index |-> i - 1]]
  <2>5. RamRead(offset, semi) = A
    <3> HIDE DEF a, offset, semi, k
    <3>1. ReadAllowed(offset, semi) /\ PagesRead(offset, semi) = a
      BY <2>1, <2>2 DEF ReadAllowed, PagesRead
    <3>2. RamRead(offset, semi) = Tags(offset \div PageBytes, PagesRead(offset, semi))
      BY <2>1, <3>1, RamReadIs
    <3>3. RamRead(offset, semi) = Tags(p, a)
      BY <2>2, <3>1, <3>2
    <3> QED
      BY <3>3 DEF Tags
  <2>6. RamRead(base, rest) = B
    <3> HIDE DEF b, base, rest, k, a
    <3>1. ReadAllowed(base, rest) /\ PagesRead(base, rest) = b
      BY <2>1, <2>3 DEF ReadAllowed, PagesRead, b
    <3>2. RamRead(base, rest) = Tags(base \div PageBytes, PagesRead(base, rest))
      BY <2>1, <3>1, RamReadIs
    <3>3. RamRead(base, rest) = Tags(RxStart, b)
      BY <2>3, <3>1, <3>2
    <3> QED
      BY <3>3 DEF Tags
  <2>7. A \in [1 .. a -> Tag]
    <3>1. \A i \in 1 .. a : p + i - 1 \in Pages
      BY <1>1 DEF Pages
    <3> QED
      BY <3>1
  <2>8. B \in [1 .. b -> Tag]
    <3>1. \A i \in 1 .. b : RxStart + i - 1 \in Pages
      BY <1>1, <1>2 DEF Pages
    <3> QED
      BY <3>1
  <2>9. \A i \in 1 .. a : A[i] = C[i]
    <3>1. ASSUME NEW i \in 1 .. a PROVE A[i] = C[i]
      <4>1. i \in 1 .. k /\ p + i - 1 < Stop
        BY <1>1, <1>2, <2>2, <2>3
      <4> QED
        BY <1>3, <4>1
    <3> HIDE DEF A, C
    <3> QED
      BY <3>1
  <2>10. \A i \in 1 .. b : B[i] = C[a + i]
    <3>1. ASSUME NEW i \in 1 .. b PROVE B[i] = C[a + i]
      <4>1. a + i \in 1 .. k /\ a + i > a /\ (a + i) - a = i
        BY <1>1, <1>2, <2>2
      <4>2. ram[RxStart + i - 1] = [frame |-> g, index |-> (a + i) - 1]
        BY <1>4, <4>1
      <4> QED
        BY <4>1, <4>2
    <3> HIDE DEF B, C
    <3> QED
      BY <3>1
  <2>11. C \in [1 .. a + b -> Tag]
    <3>1. a + b = k
      BY <1>1, <1>2
    <3>2. \A i \in 1 .. k : [frame |-> g, index |-> i - 1] \in Tag
      <4> SUFFICES ASSUME NEW i \in 1 .. k PROVE [frame |-> g, index |-> i - 1] \in Tag
        OBVIOUS
      <4>1. CASE i <= a
        <5>1. i \in 1 .. a /\ p + i - 1 \in Pages /\ p + i - 1 < Stop
          BY <1>1, <4>1 DEF Pages
        <5> QED
          BY <1>3, <5>1
      <4>2. CASE i > a
        <5>1. RxStart + (i - a) - 1 \in Pages
          BY <1>1, <1>2, <4>2 DEF Pages
        <5> QED
          BY <1>4, <4>2, <5>1
      <4> QED
        BY <1>1, <4>1, <4>2
    <3> QED
      BY <3>1, <3>2
  <2>12. A \o B = C
    <3>1. a \in Nat /\ b \in Nat
      BY <2>2, <2>3
    <3> HIDE DEF A, B, C, a, b
    <3>2. InParts(A, a, B, b, C)
      BY <2>7, <2>8, <2>9, <2>10, <2>11 DEF InParts
    <3> QED
      BY <3>1, <3>2, TwoParts
  <2> HIDE DEF offset, semi, base, rest, A, B
  <2> QED
    BY <2>4, <2>5, <2>6, <2>12 DEF FrameTags
<1> QED
  BY <1>1, <1>5, <1>6

-----------------------------------------------------------------------------
(* The store, the numbers of the frames and the buffer are in order.       *)

LEMMA StoreInit == Init => StoreInv /\ BufferInv /\ DeliveryInv
<1> SUFFICES ASSUME Init PROVE StoreInv /\ BufferInv /\ DeliveryInv
  OBVIOUS
<1>1. Len(accepted) = 0 /\ Len(delivered) = 0 /\ Handled = 0 /\ arrived = 0 /\ ~nic.busy
  BY DEF Init, Handled, Counters, Idle
<1>2. PICK at : at = [k \in 1 .. 1 |-> 0]
  OBVIOUS
<1>3. PageNumbers(at)
  BY <1>1, <1>2 DEF PageNumbers
<1>4. FramesInRing(at)
  <2>1. at[Handled + 1] = 0 /\ at[Len(accepted) + 1] = 0
    BY <1>1, <1>2
  <2>2. Dist(next_pkt, curr) = 0
    BY PageSteps, DistZero DEF Init
  <2> QED
    BY <1>1, <2>1, <2>2 DEF FramesInRing, Ahead
<1>5. FrameComing /\ FramesNumbered
  BY <1>1 DEF FrameComing, FramesNumbered
<1>6. BufferInv
  BY DEF Init, BufferInv
<1>7. DeliveryInv
  <2>1. GoodUpTo(0) = {}
    BY DEF GoodUpTo
  <2>2. Cardinality(GoodUpTo(0)) = 0
    BY <2>1, FS_EmptySet
  <2>3. InOrderDelivery
    BY <1>1 DEF InOrderDelivery
  <2> QED
    BY <1>1, <2>2, <2>3 DEF DeliveryInv, Init
<1> QED
  BY <1>3, <1>4, <1>5, <1>6, <1>7 DEF StoreInv

\* The chip numbers frames and pages as it stores them.
LEMMA NumbersChipStep ==
  ASSUME TypeInv, RingInv, FrameComing, FramesNumbered, Nic
  PROVE  FrameComing' /\ FramesNumbered'
<1>1. /\ ram \in [Pages -> Tag] /\ curr \in Pages /\ arrived \in Nat
      /\ Len(accepted) \in Nat /\ accepted \in Seq(AcceptedFrame)
  BY AcceptedTypes, RingAssumption
  DEF TypeInv, TypeOK, ChipTypeOK, DriverTypeOK, HistoryTypeOK
<1>2. ASSUME arrived' = arrived + 1, ~nic.busy, UNCHANGED accepted
      PROVE  FramesNumbered'
  <2>1. Len(accepted) <= arrived
    BY <1>1, <1>2 DEF FramesNumbered
  <2>2. Len(accepted) + (IF nic'.busy THEN 1 ELSE 0) <= arrived'
    BY <1>1, <1>2, <2>1
  <2>3. ASSUME NEW k \in 1 .. Len(accepted)
        PROVE  1 <= accepted[k].frame /\ accepted[k].frame < arrived'
    <3>1. 1 <= accepted[k].frame /\ accepted[k].frame <= arrived
      BY DEF FramesNumbered
    <3>2. accepted[k].frame \in Nat
      <4>1. accepted[k] \in AcceptedFrame
        BY AcceptedTypes
      <4> QED
        BY <4>1 DEF AcceptedFrame
    <3> QED
      BY <1>1, <1>2, <3>1, <3>2
  <2>4. ASSUME NEW k \in 1 .. Len(accepted)
        PROVE  accepted[k].frame <= arrived'
    <3>1. accepted[k] \in AcceptedFrame
      BY AcceptedTypes
    <3>2. accepted[k].frame \in Nat
      BY <3>1 DEF AcceptedFrame
    <3> QED
      BY <1>1, <1>2, <2>3, <3>2
  <2>5. \A j, k \in 1 .. Len(accepted) : j < k => accepted[j].frame < accepted[k].frame
    BY DEF FramesNumbered
  <2> QED
    BY <1>2, <2>2, <2>3, <2>4, <2>5 DEF FramesNumbered
<1>3. ASSUME NEW n \in FrameLens, NicBegin(n)
      PROVE  FrameComing' /\ FramesNumbered'
  <2>1. FramesNumbered'
    BY <1>2, <1>3 DEF NicBegin
  <2>2. CASE curr = bnry
    BY <1>3, <2>1, <2>2 DEF NicBegin, FrameComing
  <2>3. CASE curr # bnry
    <3>1. /\ curr' = curr /\ arrived' = arrived + 1
          /\ ram' = [ram EXCEPT ![curr] = [frame |-> arrived + 1, index |-> 0]]
          /\ nic' = [busy |-> TRUE, page |-> curr, index |-> 0, len |-> n]
      BY <1>3, <2>3 DEF NicBegin
    <3>2. \A p \in Pages : Dist(curr, p) <= 0 =>
                             ram'[p] = [frame |-> arrived', index |-> Dist(curr, p)]
      <4> SUFFICES ASSUME NEW p \in Pages, Dist(curr, p) <= 0
                   PROVE  ram'[p] = [frame |-> arrived', index |-> Dist(curr, p)]
        OBVIOUS
      <4>1. Dist(curr, p) = 0
        BY <1>1, DistRange
      <4>2. p = curr
        BY <1>1, <4>1, DistZero
      <4> QED
        BY <1>1, <3>1, <4>1, <4>2
    <3>3. 0 < PagesOf(n)
      BY PagesOfFrame
    <3>4. nic'.index = 0 /\ nic'.len = n
      BY <3>1
    <3>5. FrameComing'
      BY <3>1, <3>2, <3>3, <3>4 DEF FrameComing
    <3> QED
      BY <2>1, <3>5
  <2> QED
    BY <2>1, <2>2, <2>3
<1>4. ASSUME NicPage PROVE FrameComing' /\ FramesNumbered'
  <2> DEFINE q == NextPage(nic.page)
  <2>1. /\ nic.busy /\ nic.index + 1 < PagesOf(nic.len)
        /\ UNCHANGED <<curr, arrived, accepted>>
    BY <1>4 DEF NicPage
  <2>2. q \in Pages /\ nic.index \in Nat /\ Dist(curr, q) = nic.index + 1
    BY <2>1, StorePlace
  <2>3. FramesNumbered'
    BY <1>1, <2>1 DEF FramesNumbered, AcceptedFrame
  <2>4. CASE q = bnry
    BY <1>4, <2>3, <2>4 DEF NicPage, FrameComing, Idle
  <2>5. CASE q # bnry
    <3>1. /\ nic' = [busy |-> TRUE, page |-> q, index |-> nic.index + 1, len |-> nic.len]
          /\ ram' = [ram EXCEPT ![q] = [frame |-> arrived, index |-> nic.index + 1]]
      BY <1>4, <2>5 DEF NicPage
    <3> HIDE DEF q
    <3>2. \A p \in Pages : Dist(curr, p) <= nic.index + 1 =>
                             ram'[p] = [frame |-> arrived, index |-> Dist(curr, p)]
      <4> SUFFICES ASSUME NEW p \in Pages, Dist(curr, p) <= nic.index + 1
                   PROVE  ram'[p] = [frame |-> arrived, index |-> Dist(curr, p)]
        OBVIOUS
      <4>1. CASE p = q
        BY <1>1, <2>2, <3>1, <4>1
      <4>2. CASE p # q
        <5>1. Dist(curr, p) # nic.index + 1
          BY <1>1, <2>2, <4>2, DistInjective
        <5>2. Dist(curr, p) <= nic.index
          <6>1. Dist(curr, p) \in Int
            BY <1>1, DistRange
          <6> QED
            BY <2>2, <5>1, <6>1
        <5> QED
          BY <1>1, <2>1, <3>1, <4>2, <5>2 DEF FrameComing
      <4> QED
        BY <4>1, <4>2
    <3>3. nic'.index = nic.index + 1 /\ nic'.len = nic.len
      BY <3>1
    <3>4. FrameComing'
      BY <2>1, <3>2, <3>3 DEF FrameComing
    <3> QED
      BY <2>3, <3>4
  <2> QED
    BY <2>4, <2>5
<1>5. ASSUME NicEnd PROVE FrameComing' /\ FramesNumbered'
  <2> DEFINE n == Len(accepted)
  <2>1. PICK g : accepted' = Append(accepted, [frame |-> arrived, len |-> nic.len, good |-> g])
                 /\ g \in BOOLEAN
    <3>1. PICK h \in HeadersFor(NextPage(nic.page), nic.len) :
            accepted' = Append(accepted, [frame |-> arrived, len |-> nic.len,
                                          good |-> h.prx /\ h.size = nic.len])
      BY <1>5 DEF NicEnd
    <3>2. (h.prx /\ h.size = nic.len) \in BOOLEAN
      OBVIOUS
    <3> QED
      BY <3>1, <3>2
  <2> DEFINE f == [frame |-> arrived, len |-> nic.len, good |-> g]
  <2>2. nic.busy /\ nic' = Idle /\ arrived' = arrived
    BY <1>5 DEF NicEnd
  <2>3. f \in AcceptedFrame /\ f.frame = arrived
    BY <1>1, <2>1, <2>2 DEF TypeInv, AcceptedFrame
  <2>4. /\ Len(accepted') = n + 1 /\ accepted'[n + 1] = f
        /\ \A k \in 1 .. n : accepted'[k] = accepted[k]
    BY <1>1, <2>1, <2>3
  <2> HIDE DEF f
  <2>5. /\ n + 1 <= arrived
        /\ \A k \in 1 .. n : 1 <= accepted[k].frame /\ accepted[k].frame < arrived
        /\ \A j, k \in 1 .. n : j < k => accepted[j].frame < accepted[k].frame
    BY <2>2 DEF FramesNumbered
  <2>6. ~nic'.busy
    BY <2>2 DEF Idle
  <2>7. \A k \in 1 .. n + 1 : 1 <= accepted'[k].frame /\ accepted'[k].frame <= arrived
    <3> SUFFICES ASSUME NEW k \in 1 .. n + 1
                 PROVE  1 <= accepted'[k].frame /\ accepted'[k].frame <= arrived
      OBVIOUS
    <3>1. CASE k = n + 1
      BY <1>1, <2>3, <2>4, <2>5, <3>1
    <3>2. CASE k # n + 1
      <4>1. k \in 1 .. n
        BY <1>1, <3>2
      <4>2. accepted[k].frame \in Nat
        <5>1. accepted[k] \in AcceptedFrame
          BY <1>1, <4>1
        <5> QED
          BY <5>1 DEF AcceptedFrame
      <4> QED
        BY <1>1, <2>4, <2>5, <4>1, <4>2
    <3> QED
      BY <3>1, <3>2
  <2>8. \A j, k \in 1 .. n + 1 : j < k => accepted'[j].frame < accepted'[k].frame
    <3> SUFFICES ASSUME NEW j \in 1 .. n + 1, NEW k \in 1 .. n + 1, j < k
                 PROVE  accepted'[j].frame < accepted'[k].frame
      OBVIOUS
    <3>1. j \in 1 .. n
      BY <1>1
    <3>2. CASE k = n + 1
      BY <2>3, <2>4, <2>5, <3>1, <3>2
    <3>3. CASE k # n + 1
      <4>1. k \in 1 .. n
        BY <1>1, <3>3
      <4> QED
        BY <2>4, <2>5, <3>1, <4>1
    <3> QED
      BY <3>2, <3>3
  <2>9. FramesNumbered'
    <3> HIDE DEF n
    <3>1. Len(accepted') = n + 1
      BY <2>4
    <3>2. Len(accepted') + (IF nic'.busy THEN 1 ELSE 0) <= arrived
      BY <1>1, <2>5, <2>6, <3>1 DEF n
    <3> QED
      BY <2>2, <2>6, <2>7, <2>8, <3>1, <3>2 DEF FramesNumbered
  <2> QED
    BY <2>6, <2>9 DEF FrameComing
<1>6. ASSUME NicError PROVE FrameComing' /\ FramesNumbered'
  BY <1>2, <1>6 DEF NicError, FrameComing
<1> QED
  BY <1>3, <1>4, <1>5, <1>6 DEF Nic

\* A step of the chip keeps the frames of the ring.
LEMMA StoreChipStep ==
  ASSUME Faults \subseteq ChainFaults, TypeInv, RingInv, StoreInv, Nic
  PROVE  StoreInv'
<1>1. FrameComing' /\ FramesNumbered'
  BY NumbersChipStep DEF StoreInv
<1>2. PICK at : PageNumbers(at) /\ FramesInRing(at)
  BY DEF StoreInv
<1>3. /\ next_pkt \in Pages /\ curr \in Pages
      /\ ram \in [Pages -> Tag] /\ hdr \in [Pages -> Header]
  BY DEF TypeInv, TypeOK, ChipTypeOK, DriverTypeOK
<1>4. \A p \in Pages : Dist(next_pkt, p) \in Int
  BY <1>3, DistRange
<1>5. CASE NicEnd
  BY <1>1, <1>2, <1>5, RingGrows DEF StoreInv
<1>6. ASSUME ~NicEnd
      PROVE  /\ UNCHANGED <<curr, next_pkt, stats, accepted>>
             /\ \A p \in Pages : Dist(next_pkt, p) < Dist(next_pkt, curr) =>
                                   ram'[p] = ram[p] /\ hdr'[p] = hdr[p]
  <2>1. ASSUME NEW n \in FrameLens, NicBegin(n)
        PROVE  \A p \in Pages : p # curr => ram'[p] = ram[p] /\ hdr'[p] = hdr[p]
    BY <1>3, <2>1 DEF NicBegin
  <2>2. ASSUME NicPage
        PROVE  \A p \in Pages : Dist(next_pkt, p) < Dist(next_pkt, curr) =>
                                  ram'[p] = ram[p] /\ hdr'[p] = hdr[p]
    <3>1. /\ NextPage(nic.page) \in Pages /\ nic.index \in Nat
          /\ Dist(next_pkt, NextPage(nic.page)) = Dist(next_pkt, curr) + nic.index + 1
      BY <2>2, StorePlace DEF NicPage
    <3>2. \A p \in Pages : p # NextPage(nic.page) => ram'[p] = ram[p] /\ hdr'[p] = hdr[p]
      BY <1>3, <2>2 DEF NicPage
    <3> HIDE DEF NicPage
    <3> QED
      BY <1>3, <1>4, <3>1, <3>2
  <2>3. NicError => UNCHANGED <<ram, hdr>>
    BY DEF NicError
  <2>4. UNCHANGED <<curr, next_pkt, stats, accepted>>
    BY <1>6 DEF Nic, NicBegin, NicPage, NicError, driverVars
  <2> QED
    BY <1>3, <1>4, <1>6, <2>1, <2>2, <2>3, <2>4 DEF Nic
<1>7. CASE ~NicEnd
  <2>1. PageNumbers(at)' /\ FramesInRing(at)'
    BY <1>2, <1>6, <1>7, RingKept
  <2> QED
    BY <1>1, <2>1 DEF StoreInv
<1> QED
  BY <1>5, <1>7

\* The driver touches neither the card's frames nor what is known of them.
LEMMA DriverKeepsFrames == Driver => UNCHANGED <<curr, hdr, ram, nic, arrived, accepted>>
BY DEF Driver, IntrRead, IntrAck, RxPoll, RxDrained, RxHeader, RxBadNext, RxSkip,
       RxCopy, RxAdvance, RxToss, chipVars

\* Each step over a frame counts it.
LEMMA AdvanceCounts ==
  ASSUME TypeInv, RingInv, StoreInv, RxSkip \/ RxAdvance
  PROVE  /\ Handled < Len(accepted)
         /\ Handled' = Handled + 1
<1>1. PICK at : PageNumbers(at) /\ FramesInRing(at)
  BY DEF StoreInv
<1>2. pc \in {"check", "advance"}
  BY DEF RxSkip, RxAdvance
<1>3. Handled < Len(accepted)
  BY <1>1, <1>2, NextFrame
<1>4. \E c \in HandledCounters : Count(c)
  BY DEF RxSkip, RxAdvance, HandledCounters
<1> QED
  BY <1>3, <1>4, CountUp DEF StoreInv

\* A step of the driver keeps the frames of the ring.
LEMMA StoreDriverStep ==
  ASSUME TypeInv, RingInv, StoreInv, Driver
  PROVE  StoreInv'
<1>1. PICK at : PageNumbers(at) /\ FramesInRing(at)
  BY DEF StoreInv
<1>2. UNCHANGED <<curr, hdr, ram, nic, arrived, accepted>>
  BY DriverKeepsFrames
<1>3. FrameComing' /\ FramesNumbered'
  BY <1>2 DEF StoreInv, FrameComing, FramesNumbered
<1>4. CASE RxSkip \/ RxAdvance
  <2>1. Advance /\ pc \in {"check", "advance"}
    BY <1>4 DEF RxSkip, RxAdvance
  <2>2. Handled' = Handled + 1
    BY <1>4, AdvanceCounts
  <2>3. PageNumbers(at)' /\ FramesInRing(at)'
    BY <1>1, <1>2, <2>1, <2>2, RingShrinks
  <2> QED
    BY <1>3, <2>3 DEF StoreInv
<1>5. ~RxBadNext
  BY ChainInRing
<1>6. CASE ~(RxSkip \/ RxAdvance)
  <2>1. UNCHANGED <<next_pkt, stats>>
    BY <1>5, <1>6 DEF Driver, IntrRead, IntrAck, RxPoll, RxDrained, RxHeader, RxCopy, RxToss
  <2>2. PageNumbers(at)' /\ FramesInRing(at)'
    BY <1>1, <1>2, <2>1, RingKept
  <2> QED
    BY <1>3, <2>2 DEF StoreInv
<1> QED
  BY <1>4, <1>6

LEMMA StoreStutter == TypeInv /\ StoreInv /\ UNCHANGED vars => StoreInv'
<1> SUFFICES ASSUME TypeInv, StoreInv, UNCHANGED vars PROVE StoreInv'
  OBVIOUS
<1> USE DEF vars, chipVars, driverVars
<1>1. PICK at : PageNumbers(at) /\ FramesInRing(at)
  BY DEF StoreInv
<1>2. PageNumbers(at)' /\ FramesInRing(at)'
  BY <1>1, RingKept
<1>3. FrameComing' /\ FramesNumbered'
  BY DEF StoreInv, FrameComing, FramesNumbered
<1> QED
  BY <1>2, <1>3 DEF StoreInv

LEMMA StoreStep ==
  ASSUME Faults \subseteq ChainFaults
  PROVE  TypeInv /\ RingInv /\ StoreInv /\ [Next]_vars => StoreInv'
BY StoreChipStep, StoreDriverStep, StoreStutter DEF Next, Done

\* The driver takes a frame for good exactly when the chip stored it as good.
LEMMA GoodIsAccepted ==
  ASSUME TypeInv, RingInv, StoreInv, pc = "check"
  PROVE  /\ Handled < Len(accepted) /\ Handled + 1 \in 1 .. Len(accepted)
         /\ accepted[Handled + 1].good <=> header.prx /\ SizeOK
         /\ accepted[Handled + 1].good => header.size = accepted[Handled + 1].len
<1>1. PICK at : PageNumbers(at) /\ FramesInRing(at)
  BY DEF StoreInv
<1>2. /\ Handled < Len(accepted)
      /\ HeaderTells(header, accepted[Handled + 1], Ahead(at, Handled + 2))
  BY <1>1, NextFrame
<1> DEFINE f == accepted[Handled + 1]
<1>3. Handled + 1 \in 1 .. Len(accepted)
  BY <1>2, HandledType, AcceptedTypes
<1>4. f \in AcceptedFrame /\ f.len \in FrameLens
  BY <1>3, AcceptedTypes
<1>5. f.good \in BOOLEAN
  BY <1>4 DEF AcceptedFrame
<1>6. f.len \in Nat /\ 64 <= f.len /\ f.len <= 1518
  BY <1>4, PagesOfFrame
<1>7. /\ f.good => header.prx /\ header.size = f.len
      /\ ~f.good => ~header.prx \/ header.size \in BadSizes
  BY <1>2 DEF HeaderTells
<1> HIDE DEF f
<1>8. f.good => SizeOK
  BY <1>6, <1>7 DEF SizeOK, PktSize
<1>9. header.size \in BadSizes => ~SizeOK
  BY DEF BadSizes, SizeOK, PktSize
<1>10. f.good <=> header.prx /\ SizeOK
  BY <1>5, <1>7, <1>8, <1>9
<1> QED
  BY <1>2, <1>3, <1>7, <1>10 DEF f

\* The copy of the next frame is the image of the one accepted.
LEMMA CopyIsImage ==
  ASSUME TypeInv, RingInv, StoreInv, RxCopy
  PROVE  /\ accepted[Handled + 1].good
         /\ [data |-> rxbuff', size |-> PktSize] = Image(accepted[Handled + 1])
<1>1. PICK at : PageNumbers(at) /\ FramesInRing(at)
  BY DEF StoreInv
<1> DEFINE f == accepted[Handled + 1]
           n == f.len - ETH_CRC_LEN
<1>2. pc = "check" /\ header.prx /\ SizeOK /\ rxbuff' = CopyFrame(next_pkt, PktSize)
  BY DEF RxCopy
<1>3. /\ Handled < Len(accepted) /\ Handled + 1 \in 1 .. Len(accepted)
      /\ f.good /\ header.size = f.len
  BY <1>2, GoodIsAccepted
<1>4. PktSize = n
  BY <1>3 DEF PktSize
<1>5. f.len \in FrameLens
  BY <1>3, AcceptedTypes
<1>6. /\ n \in Nat /\ n > 0 /\ n <= MAX_BUFFER_LENGTH
      /\ PagesOf(n) \in Nat /\ PagesOf(n) <= PagesOf(f.len)
  <2>1. f.len \in Nat /\ 64 <= f.len /\ f.len <= 1518
    BY <1>5, PagesOfFrame
  <2> HIDE DEF f
  <2> QED
    BY <2>1 DEF PagesOf
<1>7. next_pkt \in Pages /\ ram \in [Pages -> Tag]
  BY DEF TypeInv, TypeOK, ChipTypeOK, DriverTypeOK
<1>8. Ahead(at, Handled + 1) = 0
  BY <1>1, <1>2, NextFrame
<1>9. FrameAt(next_pkt, f.frame, n)
  <2> SUFFICES ASSUME NEW q \in Pages, Dist(next_pkt, q) < PagesOf(n)
               PROVE  ram[q] = [frame |-> f.frame, index |-> Dist(next_pkt, q)]
    BY DEF FrameAt
  <2> DEFINE k == Handled + 1
             d == Dist(next_pkt, q)
  <2>1. d \in Int /\ 0 <= d
    BY <1>7, DistRange
  <2>2. k \in Handled + 1 .. Len(accepted)
    BY <1>3, HandledType, AcceptedTypes
  <2>3. Ahead(at, k + 1) = Ahead(at, k) + PagesOf(f.len) /\ PagesOf(f.len) \in Nat
    BY <1>1, <2>2, FrameBounds
  <2>4. Ahead(at, k) = 0
    BY <1>8
  <2>5. Ahead(at, k) <= d /\ d < Ahead(at, k + 1) =>
          ram[q] = [frame |-> f.frame, index |-> d - Ahead(at, k)]
    BY <1>1, <2>2 DEF FramesInRing
  <2> HIDE DEF n, d, k, f
  <2>6. Ahead(at, k) <= d /\ d < Ahead(at, k + 1) /\ d - Ahead(at, k) = d
    BY <1>6, <2>1, <2>3, <2>4 DEF d
  <2>7. ram[q] = [frame |-> f.frame, index |-> d]
    BY <2>5, <2>6
  <2> QED
    BY <2>7 DEF d
<1>10. CopyFrame(next_pkt, n) = FrameTags(f.frame, n)
  <2> HIDE DEF n, f
  <2> QED
    BY <1>6, <1>7, <1>9, CopyOfFrame
<1>11. Image(f) = [data |-> FrameTags(f.frame, n), size |-> n]
  BY DEF Image, FrameTags
<1> HIDE DEF n
<1> QED
  BY <1>2, <1>3, <1>4, <1>10, <1>11

-----------------------------------------------------------------------------
(* The buffer holds the image of the frame in hand.                        *)

\* The chip only adds to the frames accepted.
LEMMA AcceptedGrows ==
  ASSUME TypeInv, Nic
  PROVE  /\ UNCHANGED <<pc, stats, rxbuff, header, delivered>>
         /\ Len(accepted') \in Nat /\ Len(accepted) <= Len(accepted')
         /\ \A k \in 1 .. Len(accepted) : accepted'[k] = accepted[k]
<1>1. UNCHANGED <<pc, stats, rxbuff, header, delivered>>
  BY DEF Nic, NicBegin, NicPage, NicEnd, NicError, driverVars, localVars
<1>2. accepted \in Seq(AcceptedFrame) /\ Len(accepted) \in Nat
  BY AcceptedTypes DEF TypeInv, TypeOK, HistoryTypeOK
<1>3. CASE UNCHANGED accepted
  BY <1>1, <1>2, <1>3
<1>4. CASE NicEnd
  <2>1. PICK f : accepted' = Append(accepted, f)
    BY <1>4 DEF NicEnd
  <2>2. accepted' \in Seq(AcceptedFrame)
    BY ChipTypeStep DEF TypeInv, TypeOK, HistoryTypeOK
  <2>3. Len(accepted') = Len(accepted) + 1 /\ \A k \in 1 .. Len(accepted) : accepted'[k] = accepted[k]
    BY <1>2, <2>1
  <2> QED
    BY <1>1, <1>2, <2>3
<1> QED
  BY <1>3, <1>4 DEF Nic, NicBegin, NicPage, NicError

LEMMA BufferStep ==
  ASSUME TypeInv, RingInv, StoreInv, BufferInv, [Next]_vars
  PROVE  BufferInv'
<1>1. Handled \in Nat /\ Len(accepted) \in Nat
  BY HandledType, AcceptedTypes
<1>2. CASE Nic
  <2>1. /\ UNCHANGED <<pc, stats, rxbuff, header>>
        /\ Len(accepted') \in Nat /\ Len(accepted) <= Len(accepted')
        /\ \A k \in 1 .. Len(accepted) : accepted'[k] = accepted[k]
    BY <1>2, AcceptedGrows
  <2>2. Handled' = Handled /\ Copied' = Copied
    BY <2>1 DEF Handled, Copied, PktSize
  <2>3. \A k \in 1 .. Len(accepted) : Image(accepted[k])' = Image(accepted[k])
    BY <2>1 DEF Image
  <2>4. pc = "advance" =>
          /\ Handled < Len(accepted') /\ Handled + 1 \in 1 .. Len(accepted)
          /\ accepted[Handled + 1].good /\ Copied = Image(accepted[Handled + 1])
    BY <1>1, <2>1 DEF BufferInv
  <2>5. pc = "toss" =>
          /\ Handled \in 1 .. Len(accepted') /\ Handled \in 1 .. Len(accepted)
          /\ accepted[Handled].good /\ Copied = Image(accepted[Handled])
    BY <1>1, <2>1 DEF BufferInv
  <2>6. (pc = "advance" =>
          /\ Handled < Len(accepted)
          /\ accepted[Handled + 1].good /\ Copied = Image(accepted[Handled + 1]))'
    BY <2>1, <2>2, <2>3, <2>4
  <2>7. (pc = "toss" =>
          /\ Handled \in 1 .. Len(accepted)
          /\ accepted[Handled].good /\ Copied = Image(accepted[Handled]))'
    BY <2>1, <2>2, <2>3, <2>5
  <2> QED
    BY <2>6, <2>7 DEF BufferInv
<1>3. CASE RxCopy
  <2>1. /\ accepted[Handled + 1].good
        /\ [data |-> rxbuff', size |-> PktSize] = Image(accepted[Handled + 1])
    BY <1>3, CopyIsImage
  <2>2. Handled < Len(accepted)
    BY <1>3, GoodIsAccepted DEF RxCopy
  <2>3. pc' = "advance" /\ UNCHANGED <<stats, header, accepted>>
    BY <1>3 DEF RxCopy
  <2>4. Handled' = Handled /\ Copied' = [data |-> rxbuff', size |-> PktSize]
    BY <2>3 DEF Handled, Copied, PktSize
  <2>5. Image(accepted[Handled + 1])' = Image(accepted[Handled + 1])
    BY <2>3, <2>4 DEF Image
  <2> QED
    BY <2>1, <2>2, <2>3, <2>4, <2>5 DEF BufferInv
<1>4. CASE RxAdvance
  <2>1. Handled < Len(accepted) /\ Handled' = Handled + 1
    BY <1>4, AdvanceCounts
  <2>2. /\ pc = "advance" /\ pc' = "toss"
        /\ UNCHANGED <<header, rxbuff, accepted>>
    BY <1>4 DEF RxAdvance
  <2>3. Copied' = Copied /\ Copied = Image(accepted[Handled + 1]) /\ accepted[Handled + 1].good
    BY <2>2 DEF BufferInv, Copied, PktSize
  <2>4. Image(accepted[Handled])' = Image(accepted[Handled + 1])
    BY <2>1, <2>2 DEF Image
  <2>5. Handled' \in 1 .. Len(accepted')
    BY <1>1, <2>1, <2>2
  <2> QED
    BY <2>1, <2>2, <2>3, <2>4, <2>5 DEF BufferInv
<1>5. CASE \/ IntrRead \/ IntrAck \/ RxPoll \/ RxDrained \/ RxHeader \/ RxBadNext
           \/ RxSkip \/ RxToss
  <2>1. pc' \notin {"advance", "toss"}
    BY <1>5 DEF IntrRead, IntrAck, RxPoll, RxDrained, RxHeader, RxBadNext, RxSkip, RxToss
  <2> QED
    BY <2>1 DEF BufferInv
<1>6. CASE UNCHANGED vars
  BY <1>6 DEF BufferInv, Copied, Image, PktSize, Handled, vars, driverVars, localVars
<1> QED
  BY <1>2, <1>3, <1>4, <1>5, <1>6 DEF Next, Driver, Done

-----------------------------------------------------------------------------
(* What is delivered.                                                      *)

\* The good frames up to the m-th are finitely many, and counted one by one.
LEMMA GoodCount ==
  ASSUME NEW m \in Nat
  PROVE  /\ IsFiniteSet(GoodUpTo(m))
         /\ Cardinality(GoodUpTo(m)) \in Nat /\ Cardinality(GoodUpTo(m)) <= m
         /\ GoodUpTo(m + 1) =
              IF accepted[m + 1].good THEN GoodUpTo(m) \cup {m + 1} ELSE GoodUpTo(m)
         /\ Cardinality(GoodUpTo(m + 1)) =
              Cardinality(GoodUpTo(m)) + (IF accepted[m + 1].good THEN 1 ELSE 0)
<1>1. IsFiniteSet(1 .. m) /\ Cardinality(1 .. m) = m
  BY FS_Interval
<1>2. GoodUpTo(m) \in SUBSET (1 .. m)
  BY DEF GoodUpTo
<1>3. IsFiniteSet(GoodUpTo(m)) /\ Cardinality(GoodUpTo(m)) <= m
  BY <1>1, <1>2, FS_Subset
<1>4. Cardinality(GoodUpTo(m)) \in Nat
  BY <1>3, FS_CardinalityType
<1>5. GoodUpTo(m + 1) =
        IF accepted[m + 1].good THEN GoodUpTo(m) \cup {m + 1} ELSE GoodUpTo(m)
  <2>1. 1 .. m + 1 = 1 .. m \cup {m + 1}
    OBVIOUS
  <2> QED
    BY <2>1 DEF GoodUpTo
<1>6. m + 1 \notin GoodUpTo(m)
  BY <1>2
<1>7. Cardinality(GoodUpTo(m) \cup {m + 1}) = Cardinality(GoodUpTo(m)) + 1
  BY <1>3, <1>6, FS_AddElement
<1> QED
  BY <1>3, <1>4, <1>5, <1>7

\* Frames accepted later do not change which the earlier good ones are.
LEMMA GoodKept ==
  ASSUME \A k \in 1 .. Len(accepted) : accepted'[k] = accepted[k],
         NEW m \in 0 .. Len(accepted)
  PROVE  GoodUpTo(m)' = GoodUpTo(m)
<1>1. \A k \in 1 .. m : k \in 1 .. Len(accepted)
  OBVIOUS
<1> QED
  BY <1>1 DEF GoodUpTo

\* What was delivered in order stays so.
LEMMA OrderKept ==
  ASSUME TypeInv, InOrderDelivery, Len(accepted') \in Nat, Len(accepted) <= Len(accepted'),
         \A k \in 1 .. Len(accepted) : accepted'[k] = accepted[k],
         NEW i \in 1 .. Len(delivered)
  PROVE  \E k \in 1 .. Len(accepted') :
           /\ accepted'[k].good /\ Cardinality(GoodUpTo(k)') = i
           /\ delivered[i] = Image(accepted[k])'
<1>1. PICK k \in GoodUpTo(Len(accepted)) :
        Cardinality(GoodUpTo(k)) = i /\ delivered[i] = Image(accepted[k])
  BY DEF InOrderDelivery
<1>2. Len(accepted) \in Nat /\ k \in 1 .. Len(accepted) /\ accepted[k].good
  BY AcceptedTypes DEF GoodUpTo
<1>3. GoodUpTo(k)' = GoodUpTo(k)
  BY <1>2, GoodKept
<1>4. k \in 1 .. Len(accepted') /\ accepted'[k].good
  BY <1>2
<1>5. Image(accepted[k])' = Image(accepted[k])
  BY <1>2 DEF Image
<1> QED
  BY <1>1, <1>3, <1>4, <1>5

LEMMA DeliveryStep ==
  ASSUME TypeInv, RingInv, StoreInv, BufferInv, DeliveryInv, [Next]_vars
  PROVE  DeliveryInv'
<1> DEFINE bound == IF pc = "toss" THEN Handled - 1 ELSE Handled
<1>1. /\ Handled \in Nat /\ Len(accepted) \in Nat /\ Handled <= Len(accepted)
      /\ delivered \in Seq(TossedFrame) /\ Len(delivered) \in Nat
  BY HandledType, AcceptedTypes
  DEF TypeInv, TypeOK, HistoryTypeOK, StoreInv, FramesInRing
<1>2. bound \in 0 .. Len(accepted)
  BY <1>1 DEF BufferInv
<1>3. Len(delivered) = Cardinality(GoodUpTo(bound)) /\ InOrderDelivery
  BY DEF DeliveryInv
<1>4. ASSUME UNCHANGED delivered,
             Len(accepted') \in Nat, Len(accepted) <= Len(accepted'),
             \A k \in 1 .. Len(accepted) : accepted'[k] = accepted[k]
      PROVE  InOrderDelivery'
  <2>1. \A i \in 1 .. Len(delivered) :
          \E k \in 1 .. Len(accepted') :
           /\ accepted'[k].good /\ Cardinality(GoodUpTo(k)') = i
           /\ delivered[i] = Image(accepted[k])'
    BY <1>3, <1>4, OrderKept
  <2> QED
    BY <1>4, <2>1 DEF InOrderDelivery, GoodUpTo
<1>5. ASSUME UNCHANGED <<pc, stats, delivered>>,
             Len(accepted') \in Nat, Len(accepted) <= Len(accepted'),
             \A k \in 1 .. Len(accepted) : accepted'[k] = accepted[k]
      PROVE  DeliveryInv'
  <2>1. bound' = bound
    BY <1>5 DEF Handled
  <2>2. \A m \in 0 .. Len(accepted) : GoodUpTo(m)' = GoodUpTo(m)
    BY <1>5, GoodKept
  <2> HIDE DEF bound
  <2>3. (Len(delivered) = Cardinality(GoodUpTo(bound)))'
    BY <1>2, <1>3, <1>5, <2>1, <2>2
  <2> QED
    BY <1>4, <1>5, <2>3 DEF DeliveryInv, bound
<1>6. CASE Nic
  BY <1>5, <1>6, AcceptedGrows
<1>7. ASSUME UNCHANGED <<delivered, accepted>>,
             (IF pc' = "toss" THEN Handled' - 1 ELSE Handled') \in Nat,
             Cardinality(GoodUpTo(IF pc' = "toss" THEN Handled' - 1 ELSE Handled')) =
               Cardinality(GoodUpTo(bound))
      PROVE  DeliveryInv'
  <2>1. InOrderDelivery'
    BY <1>1, <1>4, <1>7
  <2>2. \A m : GoodUpTo(m)' = GoodUpTo(m)
    BY <1>7 DEF GoodUpTo
  <2>3. Len(delivered') = Cardinality(GoodUpTo(bound'))
    BY <1>3, <1>7
  <2>4. GoodUpTo(bound)' = GoodUpTo(bound')
    BY <1>7 DEF GoodUpTo
  <2> QED
    BY <2>1, <2>3, <2>4 DEF DeliveryInv
<1>8. CASE RxSkip
  <2>1. /\ pc = "check" /\ pc' = "poll" /\ ~(header.prx /\ SizeOK)
        /\ UNCHANGED <<delivered, accepted>>
    BY <1>8 DEF RxSkip
  <2>2. Handled' = Handled + 1 /\ ~accepted[Handled + 1].good
    BY <1>8, <2>1, AdvanceCounts, GoodIsAccepted
  <2>3. Cardinality(GoodUpTo(Handled + 1)) = Cardinality(GoodUpTo(Handled))
    BY <1>1, <2>2, GoodCount
  <2> QED
    BY <1>1, <1>7, <2>1, <2>2, <2>3
<1>9. CASE RxAdvance
  <2>1. /\ pc = "advance" /\ pc' = "toss" /\ UNCHANGED <<delivered, accepted>>
    BY <1>9 DEF RxAdvance
  <2>2. Handled' - 1 = Handled
    BY <1>1, <1>9, AdvanceCounts
  <2> QED
    BY <1>1, <1>7, <2>1, <2>2
<1>10. CASE RxToss
  <2>1. /\ pc = "toss" /\ pc' = "poll" /\ UNCHANGED <<stats, accepted>>
        /\ delivered' = IF Len(delivered) < MaxHistory
                        THEN Append(delivered, Copied) ELSE delivered
    BY <1>10 DEF RxToss, Copied
  <2>2. /\ Handled \in 1 .. Len(accepted)
        /\ accepted[Handled].good /\ Copied = Image(accepted[Handled])
    BY <2>1 DEF BufferInv
  <2> DEFINE m == Handled - 1
  <2>3. m \in Nat /\ m + 1 = Handled
    BY <2>2
  <2>4. /\ Len(delivered) <= m
        /\ Cardinality(GoodUpTo(Handled)) = Len(delivered) + 1
    <3>1. Len(delivered) = Cardinality(GoodUpTo(m))
      BY <1>3, <2>1
    <3> HIDE DEF m
    <3> QED
      BY <2>2, <2>3, <3>1, GoodCount
  <2>5. Len(delivered) < MaxHistory
    <3>1. Len(accepted) <= MaxHistory
      <4>1. Len(accepted) <= arrived /\ arrived \in 0 .. MaxFrames
        BY <1>1, RingAssumption
        DEF StoreInv, FramesNumbered, TypeInv, TypeOK, HistoryTypeOK
      <4> QED
        BY <1>1, <4>1, RingAssumption
    <3> QED
      BY <1>1, <2>2, <2>4, <3>1, RingAssumption
  <2>6. delivered' = Append(delivered, Copied)
    BY <2>1, <2>5
  <2>7. /\ Len(delivered') = Len(delivered) + 1
        /\ delivered'[Len(delivered) + 1] = Copied
        /\ \A i \in 1 .. Len(delivered) : delivered'[i] = delivered[i]
    BY <1>1, <2>6
  <2>8. \A m_1 : GoodUpTo(m_1)' = GoodUpTo(m_1)
    BY <2>1 DEF GoodUpTo
  <2>9. Handled' = Handled
    BY <2>1 DEF Handled
  <2>10. InOrderDelivery'
    <3>1. ASSUME NEW i \in 1 .. Len(delivered) + 1
          PROVE  \E k \in GoodUpTo(Len(accepted)) :
                   Cardinality(GoodUpTo(k)) = i /\ delivered'[i] = Image(accepted[k])
      <4>1. CASE i = Len(delivered) + 1
        <5>1. Handled \in GoodUpTo(Len(accepted))
          BY <2>2 DEF GoodUpTo
        <5> QED
          BY <2>2, <2>4, <2>7, <4>1, <5>1
      <4>2. CASE i # Len(delivered) + 1
        <5>1. i \in 1 .. Len(delivered)
          BY <1>1, <4>2
        <5> QED
          BY <1>3, <2>7, <5>1 DEF InOrderDelivery
      <4> QED
        BY <4>1, <4>2
    <3>2. \A i \in 1 .. Len(delivered') :
            \E k \in GoodUpTo(Len(accepted)) :
              Cardinality(GoodUpTo(k)) = i /\ delivered'[i] = Image(accepted[k])
      BY <2>7, <3>1
    <3>3. \A k : Image(accepted[k])' = Image(accepted[k])
      BY <2>1 DEF Image
    <3>4. GoodUpTo(Len(accepted))' = GoodUpTo(Len(accepted))
      BY <2>1 DEF GoodUpTo
    <3> QED
      BY <2>8, <3>2, <3>3, <3>4 DEF InOrderDelivery
  <2>11. GoodUpTo(Handled)' = GoodUpTo(Handled)
    BY <2>1, <2>9 DEF GoodUpTo
  <2>12. (Len(delivered) = Cardinality(GoodUpTo(Handled)))'
    BY <2>4, <2>7, <2>11
  <2> QED
    BY <2>1, <2>10, <2>12 DEF DeliveryInv
<1>11. CASE \/ IntrRead \/ IntrAck \/ RxPoll \/ RxDrained \/ RxHeader \/ RxCopy \/ Done
            \/ UNCHANGED vars
  <2>1. /\ UNCHANGED <<stats, delivered, accepted>>
        /\ pc' = "toss" <=> pc = "toss"
    BY <1>11 DEF IntrRead, IntrAck, RxPoll, RxDrained, RxHeader, RxCopy, Done, vars,
                 driverVars
  <2>2. Handled' = Handled
    BY <2>1 DEF Handled
  <2> QED
    BY <1>2, <1>7, <2>1, <2>2
<1>12. ~RxBadNext
  BY ChainInRing
<1> QED
  BY <1>6, <1>8, <1>9, <1>10, <1>11, <1>12 DEF Next, Driver

\* The state of the whole receive path.
PathInv == TypeInv /\ RingInv /\ StoreInv /\ BufferInv /\ DeliveryInv

LEMMA PathInit == Init => PathInv
BY TypeInit, RingInit, StoreInit DEF PathInv

LEMMA PathStep ==
  ASSUME Faults \subseteq ChainFaults
  PROVE  PathInv /\ [Next]_vars => PathInv'
BY TypeStep, RingStep, StoreStep, BufferStep, DeliveryStep DEF PathInv

\* Whatever the chip stores meanwhile, wherever the ring wraps and whichever
\* headers are bad, toss_packet_up_stream() is given the good frames, whole, in
\* the order in which they were stored, each once.
THEOREM DeliveredInOrder ==
  ASSUME Faults \subseteq ChainFaults
  PROVE  Spec => []InOrderDelivery
<1>1. PathInv => InOrderDelivery
  BY DEF PathInv, DeliveryInv
<1> QED
  BY <1>1, PathInit, PathStep, PTL DEF Spec

-----------------------------------------------------------------------------
(* Every frame is accounted for.                                           *)

\* Each distance short of a round has its page.
LEMMA PageAhead ==
  ASSUME NEW p \in Pages, NEW x \in Nat, x < Size
  PROVE  \E q \in Pages : Dist(p, q) = x
<1> DEFINE q == IF p + x < Stop THEN p + x ELSE p + x - Size
<1>1. q \in Pages /\ Dist(p, q) = x
  BY RingAssumption DEF Pages, Dist, Size
<1> QED
  BY <1>1

\* Each unread page belongs to one of the frames not handled yet.
LEMMA UnreadInFrame ==
  ASSUME TypeInv, NEW at, PageNumbers(at), FramesInRing(at), NEW p \in Unread
  PROVE  \E k \in Handled + 1 .. Len(accepted) :
           Ahead(at, k) <= Dist(next_pkt, p) /\ Dist(next_pkt, p) < Ahead(at, k + 1)
<1> DEFINE n == Len(accepted)
           m == Handled + 1
           x == Dist(next_pkt, p)
<1>1. /\ p \in Pages /\ next_pkt \in Pages /\ curr \in Pages
      /\ x < Dist(next_pkt, curr)
  BY DEF Unread, TypeInv, TypeOK, ChipTypeOK, DriverTypeOK
<1>2. x \in Nat /\ Dist(next_pkt, curr) \in Int
  BY <1>1, DistRange
<1>3. n \in Nat /\ Handled \in Nat /\ Handled <= n
  BY AcceptedTypes, HandledType DEF FramesInRing
<1>4. at \in [1 .. n + 1 -> Nat] /\ \A j, k \in 1 .. n + 1 : j < k => at[j] < at[k]
  BY DEF PageNumbers
<1>5. at[m] \in Nat /\ at[1] \in Nat /\ at[n + 1] \in Nat /\ at[1] <= at[m]
  <2>1. m \in 1 .. n + 1 /\ 1 \in 1 .. n + 1 /\ n + 1 \in 1 .. n + 1 /\ (m = 1 \/ 1 < m)
    BY <1>3
  <2>2. at[m] \in Nat /\ at[1] \in Nat /\ at[n + 1] \in Nat
    BY <1>4, <2>1
  <2> QED
    BY <1>4, <2>1, <2>2
<1>6. Dist(next_pkt, curr) = at[n + 1] - at[m]
  BY DEF FramesInRing, Ahead
<1> HIDE DEF x
<1>7. at[m] + x \in at[1] .. at[n + 1] - 1
  BY <1>1, <1>2, <1>5, <1>6
<1>8. PICK k \in 1 .. n : at[k] <= at[m] + x /\ at[m] + x < at[k + 1]
  BY <1>7 DEF PageNumbers
<1>9. k + 1 \in 1 .. n + 1 /\ k \in 1 .. n + 1 /\ m \in 1 .. n + 1
  BY <1>3
<1>10. at[k] \in Nat /\ at[k + 1] \in Nat
  BY <1>4, <1>9
<1>11. m <= k
  <2> SUFFICES ASSUME k < m PROVE FALSE
    BY <1>3
  <2>1. k + 1 = m \/ k + 1 < m
    BY <1>3
  <2>2. at[k + 1] <= at[m]
    BY <1>4, <1>5, <1>9, <1>10, <2>1
  <2> QED
    BY <1>2, <1>5, <1>8, <1>10, <2>2
<1>12. k \in m .. n
  BY <1>3, <1>11
<1>13. at[k] - at[m] <= x /\ x < at[k + 1] - at[m]
  BY <1>2, <1>5, <1>8, <1>10
<1> QED
  BY <1>12, <1>13 DEF Ahead, x

\* The first pages of the frames not handled yet are the frame starts.
LEMMA StartsCounted == TypeInv /\ StoreInv => EveryFrameAccountedFor
<1> SUFFICES ASSUME TypeInv, StoreInv PROVE EveryFrameAccountedFor
  OBVIOUS
<1> DEFINE S == Handled + 1 .. Len(accepted)
<1>1. PICK at : PageNumbers(at) /\ FramesInRing(at)
  BY DEF StoreInv
<1>2. /\ next_pkt \in Pages /\ curr \in Pages
      /\ Handled \in Nat /\ Len(accepted) \in Nat /\ Handled <= Len(accepted)
  BY <1>1, AcceptedTypes, HandledType
  DEF FramesInRing, TypeInv, TypeOK, ChipTypeOK, DriverTypeOK
<1>3. Dist(next_pkt, curr) \in Int /\ Dist(next_pkt, curr) < Size /\ Size \in Int
  BY <1>2, DistRange, SizeBound
<1>4. ASSUME NEW k \in S
      PROVE  /\ Ahead(at, k) \in Nat /\ Ahead(at, k + 1) \in Nat
             /\ Ahead(at, k) < Ahead(at, k + 1) /\ Ahead(at, k + 1) <= Dist(next_pkt, curr)
  BY <1>1, FrameBounds
<1> DEFINE f == [k \in S |-> CHOOSE p \in Pages : Dist(next_pkt, p) = Ahead(at, k)]
<1>5. ASSUME NEW k \in S PROVE f[k] \in Pages /\ Dist(next_pkt, f[k]) = Ahead(at, k)
  <2>1. Ahead(at, k) \in Nat /\ Ahead(at, k) < Size
    BY <1>3, <1>4
  <2>2. \E p \in Pages : Dist(next_pkt, p) = Ahead(at, k)
    BY <1>2, <2>1, PageAhead
  <2> QED
    BY <2>2
<1>6. f = [k \in S |-> f[k]]
  OBVIOUS
<1> HIDE DEF f, S
<1>7. ASSUME NEW k \in S PROVE f[k] \in FrameStarts
  <2>1. f[k] \in Unread
    BY <1>3, <1>4, <1>5 DEF Unread
  <2>2. ram[f[k]] = [frame |-> accepted[k].frame, index |-> Ahead(at, k) - Ahead(at, k)]
    BY <1>1, <1>4, <1>5 DEF FramesInRing, S
  <2>3. ram[f[k]].index = 0
    BY <1>4, <2>2
  <2> QED
    BY <2>1, <2>3 DEF FrameStarts
<1>8. ASSUME NEW j \in S, NEW k \in S, f[j] = f[k] PROVE j = k
  <2>1. Ahead(at, j) = Ahead(at, k)
    BY <1>5, <1>8
  <2>2. j \in 1 .. Len(accepted) + 1 /\ k \in 1 .. Len(accepted) + 1 /\ j \in Int /\ k \in Int
    BY <1>2 DEF S
  <2>3. Handled + 1 \in 1 .. Len(accepted) + 1
    BY <1>2
  <2>4. at[j] \in Nat /\ at[k] \in Nat /\ at[Handled + 1] \in Nat
    BY <1>1, <2>2, <2>3 DEF PageNumbers
  <2>5. at[j] = at[k]
    BY <2>1, <2>4 DEF Ahead
  <2>6. ~(j < k) /\ ~(k < j)
    BY <1>1, <2>2, <2>4, <2>5 DEF PageNumbers
  <2> QED
    BY <2>2, <2>6
<1>9. ASSUME NEW p \in FrameStarts PROVE \E k \in S : f[k] = p
  <2>1. p \in Unread /\ p \in Pages /\ ram[p].index = 0
    BY DEF FrameStarts, Unread
  <2>2. PICK k \in S :
          Ahead(at, k) <= Dist(next_pkt, p) /\ Dist(next_pkt, p) < Ahead(at, k + 1)
    BY <1>1, <2>1, UnreadInFrame DEF S
  <2>3. ram[p] = [frame |-> accepted[k].frame, index |-> Dist(next_pkt, p) - Ahead(at, k)]
    BY <1>1, <2>1, <2>2 DEF FramesInRing, S
  <2>4. Dist(next_pkt, p) \in Int
    BY <1>2, <2>1, DistRange
  <2>5. Dist(next_pkt, p) = Ahead(at, k)
    BY <1>4, <2>1, <2>3, <2>4
  <2>6. f[k] = p
    BY <1>2, <1>5, <2>1, <2>5, DistInjective
  <2> QED
    BY <2>6
<1>10. f \in Bijection(S, FrameStarts)
  <2>1. f \in [S -> FrameStarts]
    BY <1>6, <1>7
  <2> QED
    BY <1>8, <1>9, <2>1 DEF Bijection, Injection, IsInjective, Surjection
<1>11. IsFiniteSet(S) /\ Cardinality(S) = Len(accepted) - Handled
  <2>1. Handled + 1 \in Int /\ Len(accepted) \in Int
    BY <1>2
  <2>2. /\ IsFiniteSet(S)
        /\ Cardinality(S) = IF Handled + 1 > Len(accepted) THEN 0
                            ELSE Len(accepted) - (Handled + 1) + 1
    BY <2>1, FS_Interval DEF S
  <2> QED
    BY <1>2, <2>2
<1>12. Cardinality(FrameStarts) = Len(accepted) - Handled
  BY <1>10, <1>11, FS_Bijection DEF ExistsBijection
<1> QED
  BY <1>2, <1>12 DEF EveryFrameAccountedFor

\* The counters and the ring account for each frame the chip stored exactly
\* once: none is skipped uncounted, and none is counted and left in the ring.
THEOREM AllAccountedFor ==
  ASSUME Faults \subseteq ChainFaults
  PROVE  Spec => []EveryFrameAccountedFor
<1>1. PathInv => EveryFrameAccountedFor
  BY StartsCounted DEF PathInv
<1> QED
  BY <1>1, PathInit, PathStep, PTL DEF Spec

-----------------------------------------------------------------------------
(* The receive path is a FIFO.                                             *)

\* Numbers are well founded, hence induction over a set of them.
LEMMA LeastNat ==
  ASSUME NEW T \in SUBSET Nat, T # {}
  PROVE  \E m \in T : \A k \in T : m <= k
<1> DEFINE I(m) == 0 .. m
           F    == {I(m) : m \in T}
<1>1. IsWellFoundedOn(StrictSubsetOrdering(Nat), FiniteSubsetsOf(Nat))
  BY FS_StrictSubsetOrderingWellFounded
<1>2. F \subseteq FiniteSubsetsOf(Nat) /\ F # {}
  <2>1. \A m \in T : IsFiniteSet(0 .. m) /\ 0 .. m \in SUBSET Nat
    BY FS_Interval
  <2> QED
    BY <2>1 DEF FiniteSubsetsOf
<1>3. \E x \in F : \A y \in F : <<y, x>> \notin StrictSubsetOrdering(Nat)
  <2> HIDE DEF F
  <2> QED
    BY <1>1, <1>2, WFMin
<1>4. PICK m \in T : \A k \in T : <<I(k), I(m)>> \notin StrictSubsetOrdering(Nat)
  BY <1>3
<1>5. ASSUME NEW k \in T, k < m PROVE FALSE
  <2>1. I(k) \in SUBSET Nat /\ I(m) \in SUBSET Nat /\ I(k) \subseteq I(m) /\ I(k) # I(m)
    <3>1. m \in I(m) /\ m \notin I(k)
      BY <1>5
    <3> QED
      BY <1>5, <3>1
  <2>2. <<I(k), I(m)>> \in StrictSubsetOrdering(Nat)
    <3> HIDE DEF I
    <3> QED
      BY <2>1 DEF StrictSubsetOrdering
  <2> QED
    BY <1>4, <2>2
<1> QED
  BY <1>5

LEMMA SetInduction ==
  ASSUME NEW T \in SUBSET Nat, 0 \in T, \A n \in Nat : n \in T => n + 1 \in T
  PROVE  T = Nat
<1> SUFFICES ASSUME T # Nat PROVE FALSE
  OBVIOUS
<1>1. PICK m \in Nat \ T : \A k \in Nat \ T : m <= k
  BY LeastNat
<1>2. m # 0 /\ m - 1 \in Nat /\ m - 1 \in T
  BY <1>1
<1> QED
  BY <1>1, <1>2

\* The pages a queue holds, given the sums of the pages of its first frames.
LEMMA HeldIsSum ==
  ASSUME NEW q, NEW n \in Nat, Len(q) = n, NEW s \in [0 .. n -> Nat], s[0] = 0,
         \A i \in 1 .. n : s[i] = s[i - 1] + PagesOf(q[i].len)
  PROVE  Fifo!Held(q) = s[n]
<1> DEFINE Sum(g)  == [i \in 0 .. Len(q) |-> IF i = 0 THEN 0 ELSE g[i - 1] + PagesOf(q[i].len)]
           first == CHOOSE g : g = Sum(g)
<1>1. Fifo!Held(q) = first[Len(q)]
  BY DEF Fifo!Held
<1>2. s = Sum(s)
  <2>1. \A i \in 0 .. n : s[i] = IF i = 0 THEN 0 ELSE s[i - 1] + PagesOf(q[i].len)
    OBVIOUS
  <2> QED
    BY <2>1
<1> HIDE DEF Sum
<1>3. first = Sum(first)
  BY <1>2
<1>4. \A i \in 0 .. n : first[i] = IF i = 0 THEN 0 ELSE first[i - 1] + PagesOf(q[i].len)
  <2> HIDE DEF first
  <2>1. \A i \in 0 .. n : Sum(first)[i] = IF i = 0 THEN 0 ELSE first[i - 1] + PagesOf(q[i].len)
    BY DEF Sum
  <2> QED
    BY <1>3, <2>1
<1> HIDE DEF first
<1> DEFINE T == {i \in Nat : i <= n => first[i] = s[i]}
<1>5. 0 \in T
  BY <1>4
<1>6. ASSUME NEW i \in Nat, i \in T PROVE i + 1 \in T
  <2> SUFFICES ASSUME i + 1 <= n PROVE first[i + 1] = s[i + 1]
    OBVIOUS
  <2>1. i + 1 \in 1 .. n /\ i + 1 \in 0 .. n /\ i + 1 # 0 /\ (i + 1) - 1 = i /\ i <= n
    OBVIOUS
  <2>2. first[i] = s[i]
    BY <1>6, <2>1
  <2>3. first[i + 1] = first[i] + PagesOf(q[i + 1].len)
    BY <1>4, <2>1
  <2>4. s[i + 1] = s[i] + PagesOf(q[i + 1].len)
    BY <2>1
  <2> QED
    BY <2>2, <2>3, <2>4
<1>7. T = Nat
  <2> HIDE DEF T
  <2>1. T \in SUBSET Nat
    BY DEF T
  <2> QED
    BY <1>5, <1>6, <2>1, SetInduction
<1>8. first[n] = s[n]
  <2>1. n \in T
    <3> HIDE DEF T
    <3> QED
      BY <1>7
  <2> QED
    BY <2>1
<1> QED
  BY <1>1, <1>8

Waiting == SubSeq(accepted, Handled + 1, Len(accepted))

\* The frames waiting hold the pages from next_pkt to CURR.
LEMMA WaitingHeld ==
  ASSUME TypeInv, NEW at, PageNumbers(at), FramesInRing(at)
  PROVE  Fifo!Held(Waiting) = Dist(next_pkt, curr)
<1> DEFINE n == Len(accepted) - Handled
           m == Handled + 1
           s == [i \in 0 .. n |-> at[m + i] - at[m]]
<1>1. /\ Handled \in Nat /\ Len(accepted) \in Nat /\ Handled <= Len(accepted) /\ n \in Nat
      /\ accepted \in Seq(AcceptedFrame)
  BY AcceptedTypes, HandledType DEF FramesInRing, TypeInv, TypeOK, HistoryTypeOK
<1>2. /\ Len(Waiting) = n
      /\ \A i \in 1 .. n : Waiting[i] = accepted[m + i - 1]
  BY <1>1, SubSeqProperties DEF Waiting
<1>3. /\ at \in [1 .. Len(accepted) + 1 -> Nat]
      /\ \A k \in 1 .. Len(accepted) : at[k + 1] = at[k] + PagesOf(accepted[k].len)
      /\ \A j, k \in 1 .. Len(accepted) + 1 : j < k => at[j] < at[k]
  BY DEF PageNumbers
<1>4. ASSUME NEW i \in 0 .. n PROVE at[m + i] \in Nat /\ at[m] \in Nat /\ at[m + i] - at[m] \in Nat
  <2>1. m + i \in 1 .. Len(accepted) + 1 /\ m \in 1 .. Len(accepted) + 1
    BY <1>1
  <2>2. at[m + i] \in Nat /\ at[m] \in Nat
    BY <1>3, <2>1
  <2>3. m = m + i \/ m < m + i
    BY <1>1
  <2>4. at[m] <= at[m + i]
    BY <1>3, <2>1, <2>2, <2>3
  <2> QED
    BY <2>2, <2>4
<1>5. s \in [0 .. n -> Nat] /\ s[0] = 0
  <2>1. s \in [0 .. n -> Nat]
    BY <1>4
  <2>2. m + 0 = m /\ 0 \in 0 .. n
    BY <1>1
  <2>3. at[m] \in Nat
    BY <1>4, <2>2
  <2>4. s[0] = at[m + 0] - at[m]
    BY <2>2
  <2> HIDE DEF s, m
  <2>5. s[0] = 0
    BY <2>2, <2>3, <2>4
  <2> QED
    BY <2>1, <2>5
<1>6. ASSUME NEW i \in 1 .. n PROVE s[i] = s[i - 1] + PagesOf(Waiting[i].len)
  <2>1. i - 1 \in 0 .. n /\ i \in 0 .. n /\ m + i - 1 \in 1 .. Len(accepted)
    BY <1>1
  <2>2. at[(m + i - 1) + 1] = at[m + i - 1] + PagesOf(accepted[m + i - 1].len)
    BY <1>3, <2>1
  <2>3. (m + i - 1) + 1 = m + i /\ m + (i - 1) = m + i - 1
    BY <1>1
  <2>4. s[i] = at[m + i] - at[m] /\ s[i - 1] = at[m + (i - 1)] - at[m]
    BY <2>1
  <2>5. accepted[m + i - 1].len \in FrameLens
    BY <2>1, AcceptedTypes
  <2>6. PagesOf(accepted[m + i - 1].len) \in Nat
    BY <2>5, PagesOfFrame
  <2>7. Waiting[i] = accepted[m + i - 1]
    BY <1>2
  <2>8. at[m + i] \in Nat /\ at[m] \in Nat /\ at[m + (i - 1)] \in Nat
    BY <1>4, <2>1
  <2> HIDE DEF s, m
  <2> QED
    BY <2>2, <2>3, <2>4, <2>6, <2>7, <2>8
<1>7. s[n] = at[Len(accepted) + 1] - at[m]
  BY <1>1
<1>8. Dist(next_pkt, curr) = at[Len(accepted) + 1] - at[m]
  BY DEF FramesInRing, Ahead
<1> HIDE DEF n, s
<1>9. Fifo!Held(Waiting) = s[n]
  BY <1>1, <1>2, <1>5, <1>6, HeldIsSum
<1> QED
  BY <1>7, <1>8, <1>9 DEF s, n

\* The frame whose image it is can be told from the bytes: no two frames the
\* chip stored have the same number.
FramesKnown == \A k \in 1 .. Len(accepted) : FrameOf(Image(accepted[k])) = accepted[k]

LEMMA ImagesDiffer == TypeInv /\ FramesNumbered => FramesKnown
<1> SUFFICES ASSUME TypeInv, FramesNumbered, NEW k \in 1 .. Len(accepted)
             PROVE  FrameOf(Image(accepted[k])) = accepted[k]
  BY DEF FramesKnown
<1> DEFINE d == Image(accepted[k])
<1>1. accepted \in Seq(AcceptedFrame) /\ Len(accepted) \in Nat
  BY AcceptedTypes DEF TypeInv, TypeOK, HistoryTypeOK
<1>2. accepted[k] \in ToSet(accepted) /\ \A f \in ToSet(accepted) : \E j \in 1 .. Len(accepted) : f = accepted[j]
  BY <1>1 DEF ToSet
<1>3. ASSUME NEW j \in 1 .. Len(accepted) PROVE Image(accepted[j]).data[1].frame = accepted[j].frame
  <2>1. accepted[j].len \in FrameLens
    BY AcceptedTypes
  <2>2. 1 \in 1 .. PagesOf(accepted[j].len - ETH_CRC_LEN)
    <3>1. ASSUME NEW l \in Nat, 64 <= l PROVE PagesOf(l - ETH_CRC_LEN) \in Nat /\ 1 <= PagesOf(l - ETH_CRC_LEN)
      BY <3>1 DEF PagesOf
    <3> QED
      BY <2>1, <3>1, PagesOfFrame
  <2>3. Image(accepted[j]).data =
          [i \in 1 .. PagesOf(accepted[j].len - ETH_CRC_LEN) |->
             [frame |-> accepted[j].frame, index |-> i - 1]]
    BY DEF Image
  <2> QED
    BY <2>2, <2>3
<1>4. ASSUME NEW f \in ToSet(accepted), d = Image(f) PROVE f = accepted[k]
  <2>1. PICK j \in 1 .. Len(accepted) : f = accepted[j]
    BY <1>2
  <2>2. accepted[j].frame = accepted[k].frame
    BY <1>3, <1>4, <2>1
  <2>3. accepted[j] \in AcceptedFrame /\ accepted[k] \in AcceptedFrame
    BY <1>1
  <2>4. accepted[j].frame \in Nat /\ accepted[k].frame \in Nat
    BY <2>3 DEF AcceptedFrame
  <2>5. ~(j < k) /\ ~(k < j)
    BY <2>2, <2>4 DEF FramesNumbered
  <2>6. j = k
    BY <1>1, <2>5
  <2> QED
    BY <2>1, <2>6
<1> HIDE DEF d
<1>5. d = Image(accepted[k])
  BY DEF d
<1>6. (CHOOSE f \in ToSet(accepted) : d = Image(f)) = accepted[k]
  BY <1>2, <1>4, <1>5
<1>7. \E f \in ToSet(accepted) : d = Image(f)
  BY <1>2, <1>5
<1>8. FrameOf(d) = accepted[k]
  BY <1>6, <1>7 DEF FrameOf
<1> QED
  BY <1>8 DEF d

\* The frame in hand and the frames passed on.
InHand == IF pc = "toss" THEN <<FrameOf([data |-> rxbuff, size |-> PktSize])>> ELSE <<>>
Passed == [i \in 1 .. Len(delivered) |-> FrameOf(delivered[i])]

LEMMA FifoStart == Init => Fifo!FifoInit
<1> SUFFICES ASSUME Init PROVE Fifo!FifoInit
  OBVIOUS
<1>1. Handled = 0 /\ accepted = <<>> /\ delivered = <<>> /\ pc # "toss"
  BY DEF Init, Handled, Counters
<1>2. Waiting = <<>> /\ InHand = <<>> /\ Passed = <<>>
  BY <1>1 DEF Waiting, InHand, Passed
<1> QED
  BY <1>2 DEF Fifo!FifoInit, Waiting, InHand, Passed

\* What is known of the frames before a step and after it.
LEMMA HandIs ==
  ASSUME TypeInv, BufferInv, FramesKnown
  PROVE  InHand = IF pc = "toss" THEN <<accepted[Handled]>> ELSE <<>>
BY DEF InHand, BufferInv, Copied, FramesKnown

\* The frames passed on are accepted frames.
LEMMA PassedIs ==
  ASSUME TypeInv, InOrderDelivery, FramesKnown, NEW i \in 1 .. Len(delivered)
  PROVE  \E k \in 1 .. Len(accepted) :
           /\ delivered[i] = Image(accepted[k]) /\ Passed[i] = accepted[k]
<1>1. PICK k \in GoodUpTo(Len(accepted)) : delivered[i] = Image(accepted[k])
  BY DEF InOrderDelivery
<1>2. k \in 1 .. Len(accepted)
  BY DEF GoodUpTo
<1>3. FrameOf(delivered[i]) = accepted[k]
  BY <1>1, <1>2 DEF FramesKnown
<1> QED
  BY <1>1, <1>2, <1>3 DEF Passed

\* Reading them back does not depend on the frames accepted later.
LEMMA PassedKept ==
  ASSUME TypeInv, InOrderDelivery, FramesKnown, FramesKnown',
         Len(accepted') \in Nat, Len(accepted) <= Len(accepted'),
         \A k \in 1 .. Len(accepted) : accepted'[k] = accepted[k]
  PROVE  \A i \in 1 .. Len(delivered) : \A d : d = delivered[i] => FrameOf(d)' = Passed[i]
<1> SUFFICES ASSUME NEW i \in 1 .. Len(delivered), NEW d, d = delivered[i]
             PROVE  FrameOf(d)' = Passed[i]
  OBVIOUS
<1>1. PICK k \in 1 .. Len(accepted) :
        d = Image(accepted[k]) /\ Passed[i] = accepted[k]
  BY PassedIs
<1>2. Len(accepted) \in Nat
  BY AcceptedTypes
<1>3. k \in 1 .. Len(accepted') /\ accepted'[k] = accepted[k]
  BY <1>2
<1>4. Image(accepted[k])' = Image(accepted[k])
  BY <1>3 DEF Image
<1>5. (FrameOf(Image(accepted[k])) = accepted[k])'
  BY <1>3 DEF FramesKnown
<1>6. d = Image(accepted[k])'
  BY <1>1, <1>4
<1>7. FrameOf(d)' = accepted'[k]
  BY <1>5, <1>6
<1> QED
  BY <1>1, <1>3, <1>7

\* The frames waiting, one by one.
LEMMA WaitingFrames ==
  ASSUME TypeInv, StoreInv
  PROVE  /\ Handled \in Nat /\ Len(accepted) \in Nat /\ Handled <= Len(accepted)
         /\ accepted \in Seq(AcceptedFrame) /\ Waiting \in Seq(AcceptedFrame)
         /\ Len(Waiting) = Len(accepted) - Handled
         /\ \A i \in 1 .. Len(accepted) - Handled : Waiting[i] = accepted[Handled + i]
<1>1. /\ Handled \in Nat /\ Len(accepted) \in Nat /\ Handled <= Len(accepted)
      /\ accepted \in Seq(AcceptedFrame)
  BY AcceptedTypes, HandledType DEF StoreInv, FramesInRing, TypeInv, TypeOK, HistoryTypeOK
<1>2. \A i \in Handled + 1 .. Len(accepted) : accepted[i] \in AcceptedFrame
  BY <1>1
<1>3. /\ Waiting \in Seq(AcceptedFrame)
      /\ Len(Waiting) = IF Handled + 1 <= Len(accepted) THEN Len(accepted) - (Handled + 1) + 1 ELSE 0
      /\ \A i \in 1 .. Len(accepted) - (Handled + 1) + 1 : Waiting[i] = accepted[(Handled + 1) + i - 1]
  BY <1>1, <1>2, SubSeqProperties DEF Waiting
<1>4. Len(Waiting) = Len(accepted) - Handled
  BY <1>1, <1>3
<1>5. ASSUME NEW i \in 1 .. Len(accepted) - Handled PROVE Waiting[i] = accepted[Handled + i]
  <2>1. i \in 1 .. Len(accepted) - (Handled + 1) + 1 /\ (Handled + 1) + i - 1 = Handled + i
    BY <1>1
  <2> QED
    BY <1>3, <2>1
<1> QED
  BY <1>1, <1>3, <1>4, <1>5

\* A step that leaves the frames waiting, in hand and passed on alone.
LEMMA FifoStutter ==
  ASSUME Waiting' = Waiting, InHand' = InHand, Passed' = Passed
  PROVE  [Fifo!FifoNext]_(Fifo!fifoVars)
BY DEF Fifo!fifoVars, Waiting, InHand, Passed

\* The chip's steps: a frame stored whole is accepted.
LEMMA FifoChipStep ==
  ASSUME PathInv, PathInv', FramesKnown, FramesKnown', Nic
  PROVE  [Fifo!FifoNext]_(Fifo!fifoVars)
<1>1. /\ UNCHANGED <<pc, stats, rxbuff, header, delivered>>
      /\ Len(accepted') \in Nat /\ Len(accepted) <= Len(accepted')
      /\ \A k \in 1 .. Len(accepted) : accepted'[k] = accepted[k]
  BY AcceptedGrows DEF PathInv
<1>2. Handled' = Handled
  BY <1>1 DEF Handled
<1>3. InHand' = InHand
  <2>1. CASE pc = "toss"
    <3>1. Handled \in 1 .. Len(accepted)
      BY <2>1 DEF PathInv, BufferInv
    <3>2. InHand = <<accepted[Handled]>>
      BY <2>1, HandIs DEF PathInv
    <3>3. InHand' = <<accepted'[Handled']>>
      <4>1. (TypeInv /\ BufferInv /\ FramesKnown)'
        BY DEF PathInv
      <4>2. (InHand = IF pc = "toss" THEN <<accepted[Handled]>> ELSE <<>>)'
        BY <4>1, HandIs, PTL
      <4> QED
        BY <1>1, <2>1, <4>2
    <3> QED
      BY <1>1, <1>2, <3>1, <3>2, <3>3
  <2>2. CASE pc # "toss"
    BY <1>1, <2>2 DEF InHand
  <2> QED
    BY <2>1, <2>2
<1>4. Passed' = Passed
  <2>1. \A i \in 1 .. Len(delivered) : \A d : d = delivered[i] => FrameOf(d)' = Passed[i]
    BY <1>1, PassedKept DEF PathInv, DeliveryInv
  <2>2. \A i \in 1 .. Len(delivered) : FrameOf(delivered[i])' = Passed[i]
    BY <1>1, <2>1
  <2>3. Passed = [i \in 1 .. Len(delivered) |-> Passed[i]]
    BY DEF Passed
  <2>4. Passed' = [i \in 1 .. Len(delivered) |-> FrameOf(delivered[i])']
    BY <1>1 DEF Passed
  <2> QED
    BY <2>2, <2>3, <2>4
<1>5. CASE accepted' = accepted
  <2>1. Waiting' = Waiting
    BY <1>2, <1>5 DEF Waiting
  <2> QED
    BY <1>3, <1>4, <2>1, FifoStutter
<1>6. CASE NicEnd
  <2>1. PICK h \in HeadersFor(NextPage(nic.page), nic.len) :
          accepted' = Append(accepted, [frame |-> arrived, len |-> nic.len,
                                        good |-> h.prx /\ h.size = nic.len])
    BY <1>6 DEF NicEnd
  <2> DEFINE f == [frame |-> arrived, len |-> nic.len, good |-> h.prx /\ h.size = nic.len]
  <2>2. nic.busy /\ nic.len \in FrameLens /\ nic.index + 1 = PagesOf(nic.len)
    BY <1>6 DEF NicEnd, PathInv, TypeInv
  <2>3. arrived \in 1 .. MaxFrames /\ arrived \in Nat
    BY <2>2, AcceptedTypes, RingAssumption
       DEF PathInv, StoreInv, FramesNumbered, TypeInv, TypeOK, HistoryTypeOK
  <2>4. f \in [frame : 1 .. MaxFrames, len : FrameLens, good : BOOLEAN] /\ f \in AcceptedFrame
    BY <2>2, <2>3 DEF AcceptedFrame
  <2>5. Fifo!Held(Waiting) + PagesOf(f.len) <= Size - 1
    <3>1. PICK at : PageNumbers(at) /\ FramesInRing(at)
      BY DEF PathInv, StoreInv
    <3>2. Fifo!Held(Waiting) = Dist(next_pkt, curr)
      BY <3>1, WaitingHeld DEF PathInv
    <3>3. Dist(next_pkt, NextPage(nic.page)) = Dist(next_pkt, curr) + nic.index + 1
          /\ NextPage(nic.page) \in Pages /\ nic.index \in Nat
      BY <2>2, StorePlace DEF PathInv
    <3>4. next_pkt \in Pages /\ curr \in Pages
      BY DEF PathInv, TypeInv, TypeOK, ChipTypeOK, DriverTypeOK
    <3>5. /\ Dist(next_pkt, NextPage(nic.page)) < Size
          /\ Dist(next_pkt, curr) \in Int /\ Dist(next_pkt, NextPage(nic.page)) \in Int
      BY <3>3, <3>4, DistRange
    <3> QED
      BY <2>2, <3>2, <3>3, <3>5, SizeBound
  <2>6. Waiting' = Append(Waiting, f)
    <3>1. /\ Handled \in Nat /\ Len(accepted) \in Nat /\ Handled <= Len(accepted)
          /\ accepted \in Seq(AcceptedFrame) /\ Waiting \in Seq(AcceptedFrame)
          /\ Len(Waiting) = Len(accepted) - Handled
          /\ \A i \in 1 .. Len(accepted) - Handled : Waiting[i] = accepted[Handled + i]
      BY WaitingFrames DEF PathInv
    <3>2. (/\ Waiting \in Seq(AcceptedFrame)
           /\ Len(Waiting) = Len(accepted) - Handled
           /\ \A i \in 1 .. Len(accepted) - Handled : Waiting[i] = accepted[Handled + i])'
      <4>1. (TypeInv /\ StoreInv)'
        BY DEF PathInv
      <4> QED
        BY <4>1, WaitingFrames, PTL
    <3> HIDE DEF f
    <3>3. /\ Len(accepted') = Len(accepted) + 1 /\ accepted'[Len(accepted) + 1] = f
      BY <2>1, <2>4, <3>1, AppendProperties DEF f
    <3>4. /\ Append(Waiting, f) \in Seq(AcceptedFrame)
          /\ Len(Append(Waiting, f)) = Len(accepted) - Handled + 1
          /\ \A i \in 1 .. Len(accepted) - Handled : Append(Waiting, f)[i] = accepted[Handled + i]
          /\ Append(Waiting, f)[Len(accepted) - Handled + 1] = f
      BY <2>4, <3>1, AppendProperties
    <3>5. ASSUME NEW i \in 1 .. Len(accepted) - Handled + 1 PROVE Waiting'[i] = Append(Waiting, f)[i]
      <4>1. Waiting'[i] = accepted'[Handled + i]
        BY <1>2, <3>1, <3>2, <3>3
      <4>2. CASE i = Len(accepted) - Handled + 1
        <5>1. Handled + i = Len(accepted) + 1
          BY <3>1, <4>2
        <5> QED
          BY <3>3, <3>4, <4>1, <4>2, <5>1
      <4>3. CASE i \in 1 .. Len(accepted) - Handled
        <5>1. Handled + i \in 1 .. Len(accepted)
          BY <3>1, <4>3
        <5> QED
          BY <1>1, <3>4, <4>1, <4>3, <5>1
      <4> QED
        BY <3>1, <4>2, <4>3
    <3>6. Len(Waiting') = Len(accepted) - Handled + 1
      BY <1>2, <3>1, <3>2, <3>3
    <3> QED
      BY <3>2, <3>4, <3>5, <3>6, SeqEqual
  <2> HIDE DEF f
  <2>7. Fifo!Accept(f)
    BY <1>3, <1>4, <2>5, <2>6 DEF Fifo!Accept, Waiting, InHand, Passed
  <2>8. Fifo!FifoNext
    BY <2>4, <2>7 DEF Fifo!FifoNext
  <2> QED
    BY <2>8
<1> QED
  BY <1>5, <1>6 DEF Nic, NicBegin, NicPage, NicError

\* The driver's steps: a good frame is taken when its pages are given back and
\* passed on by the call upstream, a bad one is left out.
LEMMA FifoDriverStep ==
  ASSUME PathInv, PathInv', FramesKnown, FramesKnown', Driver
  PROVE  [Fifo!FifoNext]_(Fifo!fifoVars)
<1> USE DEF PathInv
<1>1. UNCHANGED <<curr, hdr, ram, nic, arrived, accepted>>
  BY DriverKeepsFrames
<1>2. \A d : FrameOf(d)' = FrameOf(d)
  BY <1>1 DEF FrameOf, Image
<1>3. ASSUME UNCHANGED delivered PROVE Passed' = Passed
  BY <1>2, <1>3 DEF Passed
<1>4. ASSUME UNCHANGED stats PROVE Waiting' = Waiting
  BY <1>1, <1>4 DEF Waiting, Handled
<1>5. /\ Handled \in Nat /\ Len(accepted) \in Nat /\ Handled <= Len(accepted)
      /\ accepted \in Seq(AcceptedFrame)
      /\ Len(Waiting) = Len(accepted) - Handled
  BY WaitingFrames
<1>6. InHand = IF pc = "toss" THEN <<accepted[Handled]>> ELSE <<>>
  BY HandIs
<1>7. (InHand = IF pc = "toss" THEN <<accepted[Handled]>> ELSE <<>>)'
  <2>1. (TypeInv /\ BufferInv /\ FramesKnown)'
    OBVIOUS
  <2> QED
    BY <2>1, HandIs, PTL
<1>8. ASSUME RxSkip \/ RxAdvance
      PROVE  /\ Waiting # <<>> /\ Head(Waiting) = accepted[Handled + 1]
             /\ Handled' = Handled + 1
             /\ Waiting' = Tail(Waiting)
  <2>1. Handled < Len(accepted) /\ Handled' = Handled + 1
    BY <1>8, AdvanceCounts
  <2>2. Handled + 1 \in 1 .. Len(accepted) /\ Len(accepted) \in Handled + 1 .. Len(accepted)
    BY <1>5, <2>1
  <2>3. Head(Waiting) = accepted[Handled + 1] /\ Tail(Waiting) = SubSeq(accepted, (Handled + 1) + 1, Len(accepted))
    BY <1>5, <2>2, HeadTailOfSubSeq DEF Waiting
  <2>4. Waiting' = SubSeq(accepted, (Handled + 1) + 1, Len(accepted))
    BY <1>1, <2>1 DEF Waiting
  <2>5. Waiting # <<>>
    <3>1. Len(Waiting) # 0
      BY <1>5, <2>1
    <3> QED
      BY <3>1
  <2> QED
    BY <2>1, <2>3, <2>4, <2>5
<1>9. CASE RxSkip
  <2>1. pc = "check" /\ pc' # "toss" /\ UNCHANGED delivered /\ ~(header.prx /\ SizeOK)
    BY <1>9 DEF RxSkip
  <2>2. ~accepted[Handled + 1].good
    BY <2>1, GoodIsAccepted
  <2>3. InHand = <<>> /\ InHand' = <<>>
    BY <1>6, <1>7, <2>1
  <2>4. Fifo!Discard
    BY <1>3, <1>8, <1>9, <2>1, <2>2, <2>3 DEF Fifo!Discard, Waiting, InHand, Passed
  <2> QED
    BY <2>4 DEF Fifo!FifoNext
<1>10. CASE RxAdvance
  <2>1. pc = "advance" /\ pc' = "toss" /\ UNCHANGED delivered
    BY <1>10 DEF RxAdvance
  <2>2. accepted[Handled + 1].good
    BY <2>1 DEF BufferInv
  <2>3. InHand = <<>> /\ InHand' = <<accepted[Handled + 1]>>
    BY <1>1, <1>6, <1>7, <1>8, <1>10, <2>1
  <2>4. Fifo!Take
    BY <1>3, <1>8, <1>10, <2>1, <2>2, <2>3 DEF Fifo!Take, Waiting, InHand, Passed
  <2> QED
    BY <2>4 DEF Fifo!FifoNext
<1>11. CASE RxToss
  <2>1. pc = "toss" /\ pc' # "toss" /\ UNCHANGED stats
    BY <1>11 DEF RxToss
  <2>2. Len(delivered) < MaxHistory
    <3>1. Handled - 1 \in Nat /\ Handled - 1 < Len(accepted)
      BY <1>5, <2>1 DEF BufferInv
    <3>2. Len(delivered) <= Handled - 1 /\ Len(delivered) \in Nat
      BY <2>1, <3>1, GoodCount DEF DeliveryInv
    <3>3. Len(accepted) <= arrived /\ arrived \in 0 .. MaxFrames
      BY <1>5 DEF StoreInv, FramesNumbered, TypeInv, TypeOK, HistoryTypeOK
    <3> QED
      BY <1>5, <3>1, <3>2, <3>3, RingAssumption
  <2>3. delivered' = Append(delivered, Copied)
    BY <1>11, <2>2 DEF RxToss, Copied
  <2>4. delivered \in Seq(TossedFrame) /\ Copied \in TossedFrame
    <3>1. header.size \in Int /\ rxbuff \in Seq(Tag)
      BY DEF TypeInv, TypeOK, DriverTypeOK, Header
    <3> QED
      BY <3>1 DEF TypeInv, TypeOK, HistoryTypeOK, Copied, TossedFrame, PktSize
  <2>5. /\ Len(delivered') = Len(delivered) + 1 /\ Len(delivered) \in Nat
        /\ \A i \in 1 .. Len(delivered) : delivered'[i] = delivered[i]
        /\ delivered'[Len(delivered) + 1] = Copied
    BY <2>3, <2>4, AppendProperties
  <2>6. InHand = <<FrameOf(Copied)>> /\ InHand' = <<>> /\ InHand # <<>>
    BY <1>7, <2>1 DEF InHand, Copied
  <2>7. Passed' = Passed \o InHand
    <3> DEFINE S == {FrameOf(delivered'[i]) : i \in 1 .. Len(delivered) + 1}
               n == Len(delivered)
               g == FrameOf(Copied)
    <3>1. Passed = [i \in 1 .. n |-> FrameOf(delivered[i])]
      BY DEF Passed
    <3>2. Passed' = [i \in 1 .. n + 1 |-> FrameOf(delivered'[i])]
      <4>1. Passed' = [i \in 1 .. n + 1 |-> FrameOf(delivered[i])']
        BY <2>5 DEF Passed
      <4>2. \A i : FrameOf(delivered[i])' = FrameOf(delivered'[i])
        BY <1>1 DEF FrameOf, Image
      <4> QED
        BY <4>1, <4>2
    <3> HIDE DEF n, g
    <3>3. n \in Nat /\ g = FrameOf(delivered'[n + 1])
      BY <2>5 DEF n, g
    <3>4. Passed \in Seq(S) /\ Len(Passed) = n
      <4>1. \A i \in 1 .. n : Passed[i] \in S
        BY <2>5, <3>1, <3>3 DEF n
      <4> HIDE DEF S
      <4> QED
        BY <3>1, <3>3, <4>1
    <3>5. Passed' \in Seq(S) /\ Len(Passed') = n + 1
      <4>1. \A i \in 1 .. n + 1 : Passed'[i] \in S
        BY <3>2, <3>3 DEF n
      <4> HIDE DEF S
      <4> QED
        BY <3>2, <3>3, <4>1
    <3>6. g \in S
      BY <3>3 DEF n
    <3> HIDE DEF S
    <3>7. <<g>> \in Seq(S) /\ Len(<<g>>) = 1 /\ <<g>>[1] = g
      BY <3>6
    <3>8. /\ Passed \o <<g>> \in Seq(S) /\ Len(Passed \o <<g>>) = n + 1
          /\ \A i \in 1 .. n + 1 : (Passed \o <<g>>)[i] = IF i <= n THEN Passed[i] ELSE <<g>>[i - n]
      BY <3>4, <3>7, ConcatProperties
    <3>9. ASSUME NEW i \in 1 .. n + 1 PROVE Passed'[i] = (Passed \o <<g>>)[i]
      <4>1. CASE i <= n
        <5>1. delivered'[i] = delivered[i] /\ i \in 1 .. n
          BY <2>5, <3>3, <4>1 DEF n
        <5> QED
          BY <3>1, <3>2, <3>8, <4>1, <5>1
      <4>2. CASE i = n + 1
        <5>1. (Passed \o <<g>>)[i] = g
          <6>1. i - n = 1 /\ ~(i <= n)
            BY <3>3, <4>2
          <6>2. (Passed \o <<g>>)[i] = <<g>>[i - n]
            BY <3>8, <6>1
          <6> QED
            BY <3>7, <6>1, <6>2
        <5>2. Passed'[n + 1] = FrameOf(delivered'[n + 1])
          BY <3>2, <3>3
        <5>3. Passed'[i] = g
          BY <3>3, <4>2, <5>2
        <5> QED
          BY <5>1, <5>3
      <4>3. i <= n \/ i = n + 1
        BY <3>3
      <4> QED
        BY <4>1, <4>2, <4>3
    <3>10. Passed' = Passed \o <<g>>
      BY <3>5, <3>8, <3>9, SeqEqual
    <3> QED
      BY <2>6, <3>10 DEF g
  <2>8. Fifo!Give
    BY <1>4, <2>1, <2>6, <2>7 DEF Fifo!Give, Waiting, InHand, Passed
  <2> QED
    BY <2>8 DEF Fifo!FifoNext
<1>12. ASSUME UNCHANGED <<stats, delivered>>, pc # "toss", pc' # "toss"
       PROVE  [Fifo!FifoNext]_(Fifo!fifoVars)
  BY <1>3, <1>4, <1>6, <1>7, <1>12, FifoStutter
<1>13. ~RxBadNext
  BY ChainInRing
<1> QED
  BY <1>9, <1>10, <1>11, <1>12, <1>13
     DEF Driver, IntrRead, IntrAck, RxPoll, RxDrained, RxHeader, RxCopy

LEMMA FifoStep ==
  PathInv /\ PathInv' /\ FramesKnown /\ FramesKnown' /\ [Next]_vars
    => [Fifo!FifoNext]_(Fifo!fifoVars)
<1> SUFFICES ASSUME PathInv, PathInv', FramesKnown, FramesKnown', [Next]_vars
             PROVE  [Fifo!FifoNext]_(Fifo!fifoVars)
  OBVIOUS
<1>1. CASE UNCHANGED vars
  BY <1>1, FifoStutter
     DEF vars, chipVars, driverVars, localVars, Waiting, InHand, Passed, Handled, FrameOf,
         Image, PktSize
<1>2. CASE Done
  BY <1>1, <1>2 DEF Done
<1> QED
  BY <1>1, <1>2, FifoChipStep, FifoDriverStep DEF Next

\* Whatever interleaving of chip and driver, and whichever headers are damaged
\* in status or length, each step of the receive path is a step of the FIFO or
\* none at all: a frame is accepted only when its pages fit, and what is taken
\* from the head is what goes upstream.
THEOREM RingIsSafeFifo ==
  ASSUME Faults \subseteq ChainFaults
  PROVE  Spec => Fifo!FifoSafety
<1>1. Spec => []PathInv
  <2>1. Init => PathInv
    BY PathInit
  <2>2. PathInv /\ [Next]_vars => PathInv'
    BY PathStep
  <2> QED
    BY <2>1, <2>2, PTL DEF Spec
<1>2. PathInv => FramesKnown
  BY ImagesDiffer DEF PathInv, StoreInv
<1>3. Init => Fifo!FifoInit
  BY FifoStart
<1>4. PathInv /\ PathInv' /\ FramesKnown /\ FramesKnown' /\ [Next]_vars
        => [Fifo!FifoNext]_(Fifo!fifoVars)
  BY FifoStep
<1> QED
  BY <1>1, <1>2, <1>3, <1>4, PTL DEF Spec, Fifo!FifoSafety
============================================================================
