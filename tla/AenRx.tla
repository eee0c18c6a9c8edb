------------------------------- MODULE AenRx -------------------------------
(***************************************************************************)
(* aen.c, the receive side of the A2065: the LANCE stores a frame into as  *)
(* many 150 byte buffers as it needs and gives each descriptor back as it  *)
(* is filled; receive_interrupt() looks for the next one with ENP, copies  *)
(* the buffers up to there out, giving each back to the chip at once, and  *)
(* toss_packet_up_stream() hands the frame to every stream that wants it.  *)
(*                                                                         *)
(* A frame is its number; each descriptor holds the number of the frame    *)
(* whose bytes lie in its buffer, and which of its buffers that is (STP is *)
(* on the first).                                                          *)
(***************************************************************************)
EXTENDS Naturals, Sequences, FiniteSetsExt

CONSTANTS
  RxCount,    \* RXCOUNT
  Sizes,      \* the buffers a frame may need
  Streams,    \* attached streams
  Raw,        \* those with AEN_RAW_DATA
  MaxFrames   \* bound: frames on the wire

VARIABLE rx

vars == <<rx>>

Slots == 0 .. RxCount - 1

Owned == [own |-> TRUE, enp |-> FALSE, err |-> FALSE, f |-> 0, b |-> 0]

Init == rx =
  [ring |-> [i \in Slots |-> Owned],
   at |-> 0,                  \* where the LANCE stores next
   cur |-> [f |-> 0, left |-> 0],   \* the frame it stores, and the buffers it still needs
   rint |-> FALSE,            \* CSR0_RINT
   rx_buffer_index |-> 0,
   in |-> "no",               \* where aenintr() is: in receive_interrupt()'s "loop", in
                              \* its "copy", at its own "end"; "caught" for ever
   err |-> FALSE,             \* the status it has read shows CSR0_ERR
   j |-> 0,                   \* behind the last descriptor to copy
   rb |-> FALSE,              \* rb # NULL
   rxbuff |-> <<>>,           \* the frames whose bytes it has copied
   front |-> 0,               \* the sap of the frame at the front of rxbuff, which is static
   up |-> [s \in Streams |-> <<>>],
   again |-> {},              \* the streams that got rxbuff with nothing copied into it
   \* history
   frames |-> <<>>,           \* [size, bad, sap] of each frame
   unheard |-> FALSE]         \* a RINT was taken down with an old status, and none since

Up1(i) == (i + 1) % RxCount

-----------------------------------------------------------------------------
(* The LANCE (external).                                                   *)

\* A frame for the stream with sap, or for nobody (0); it is missed when the
\* first descriptor is not the chip's.
Arrive ==
  /\ rx.cur.left = 0 /\ Len(rx.frames) < MaxFrames
  /\ \E n \in Sizes, bad \in BOOLEAN, sap \in (Streams \ Raw) \cup {0} :
       LET f == Append(rx.frames, [size |-> n, bad |-> bad, sap |-> sap])
       IN  rx' = IF rx.ring[rx.at].own
                 THEN [rx EXCEPT !.frames = f, !.cur = [f |-> Len(f), left |-> n]]
                 ELSE [rx EXCEPT !.frames = f]

\* One buffer.  Without a next descriptor the frame is given up: BUFF, no ENP.
Store ==
  /\ rx.cur.left > 0
  /\ LET fr   == rx.frames[rx.cur.f]
         last == rx.cur.left = 1
         out  == ~last /\ ~rx.ring[Up1(rx.at)].own
     IN  rx' = [rx EXCEPT
           !.ring[rx.at] = [own |-> FALSE, enp |-> last, err |-> out \/ (last /\ fr.bad),
                            f |-> rx.cur.f, b |-> fr.size - rx.cur.left + 1],
           !.at = Up1(@),
           !.cur.left = IF out THEN 0 ELSE @ - 1,
           !.rint = @ \/ last \/ out]

-----------------------------------------------------------------------------
(* The driver.                                                             *)

\* aenintr(): the status is written back, which takes RINT down, then the
\* ring is looked at.
AenIntr ==
  /\ rx.rint /\ rx.in = "no"
  /\ \E err \in BOOLEAN :
       rx' = [rx EXCEPT !.rint = FALSE, !.unheard = FALSE, !.in = "loop", !.err = err]

\* The k-th descriptor from the index; those with ENP that have no descriptor of the
\* chip's before them.
D(s, k) == s.ring[(s.rx_buffer_index + k) % RxCount]

Ends(s) == {k \in 0 .. RxCount - 1 : D(s, k).enp /\ \A m \in 0 .. k : ~D(s, m).own}

\* All the ring is the driver's, and no descriptor but perhaps the last has ENP: the
\* search for ENP goes round and round, or ends with j = i.
Caught(s) == \A k \in 0 .. RxCount - 1 : ~D(s, k).own /\ (D(s, k).enp => k = RxCount - 1)

\* receive_interrupt(): the search for the next frame.
FindFrame ==
  /\ rx.in = "loop"
  /\ rx' = IF Caught(rx) THEN [rx EXCEPT !.in = "caught"]
           ELSE IF Ends(rx) = {} THEN [rx EXCEPT !.in = "end"]
           ELSE [rx EXCEPT !.in = "copy", !.rb = TRUE, !.rxbuff = <<>>,
                           !.j = (rx.rx_buffer_index + Min(Ends(rx)) + 1) % RxCount]

\* With j = i nothing is copied and nothing given back, rb is at the front of rxbuff and
\* what that still holds goes up; then the same again.
TossAgain ==
  /\ rx.in = "caught"
  /\ D(rx, RxCount - 1).enp
  /\ \E take \in SUBSET {x \in Streams : x \in Raw \/ x = rx.front} :
       rx' = [rx EXCEPT !.again = @ \cup take]

\* toss_packet_up_stream(): canput() or allocb() may say no for any stream.
TossUp(s, take) ==
  [s EXCEPT !.up = [x \in Streams |->
     IF x \in take /\ (x \in Raw \/ x = s.frames[s.rxbuff[1]].sap)
     THEN Append(@[x], s.rxbuff) ELSE @[x]]]

\* One buffer is copied, unless it or one before it has an error, and its descriptor is the chip's again.
Copied(s) ==
  LET d == s.ring[s.rx_buffer_index]
  IN  [s EXCEPT !.ring[s.rx_buffer_index] = Owned, !.rx_buffer_index = Up1(@),
                !.rb = @ /\ ~d.err, !.rxbuff = Append(@, d.f),
                !.front = IF s.rxbuff = <<>> /\ ~d.err THEN s.frames[d.f].sap ELSE @]

\* A turn of the loop from i to j; behind it the frame goes up if rb is still set.
CopyBuffer ==
  /\ rx.in = "copy"
  /\ \E take \in SUBSET Streams :
       LET s == Copied(rx)
           t == [s EXCEPT !.in = "loop"]
       IN  rx' = IF s.rx_buffer_index # s.j THEN s
                 ELSE IF s.rb THEN TossUp(t, take) ELSE t

\* The end of aenintr(), behind transmit_interrupt().  For an error the old
\* status is written once more, and takes down a RINT that has come up since.
AenIntrEnd ==
  /\ rx.in = "end"
  /\ rx' = [rx EXCEPT !.in = "no", !.rint = @ /\ ~rx.err,
                      !.unheard = rx.rint /\ rx.err]

Next == Arrive \/ Store \/ AenIntr \/ FindFrame \/ TossAgain \/ CopyBuffer \/ AenIntrEnd

Spec == Init /\ [][Next]_vars

-----------------------------------------------------------------------------
(* Properties.                                                             *)

TypeOK ==
  /\ {rx.at, rx.rx_buffer_index, rx.j} \subseteq Slots
  /\ \A i \in Slots : rx.ring[i].f \in 0 .. MaxFrames
  /\ rx.cur.left > 0 => rx.ring[rx.at].own
  /\ rx.again \subseteq Streams

\* A stream gets whole frames only, each once and in the order they arrived: never
\* a frame with an error, nor one begun with the buffers of a frame the LANCE gave
\* up half way, though nothing but the next ENP ends what receive_interrupt()
\* collects, and the LANCE fills the descriptors given back meanwhile.  It gets what
\* rxbuff still holds, a second time or put together of several frames, only while
\* receive_interrupt() goes round a ring that is all its own and has no ENP but in the
\* last descriptor: that loop never ends and no other frame follows.
WholeFrames ==
  \A s \in Streams :
    /\ \A n \in 1 .. Len(rx.up[s]) :
         LET p == rx.up[s][n]
         IN  /\ \A k \in 1 .. Len(p) : p[k] = p[1]
             /\ Len(p) = rx.frames[p[1]].size
             /\ ~rx.frames[p[1]].bad
    /\ \A n \in 1 .. Len(rx.up[s]) - 1 : rx.up[s][n][1] < rx.up[s][n + 1][1]
    /\ s \in rx.again => rx.in = "caught" /\ Caught(rx)

\* No frame is left lying in the ring: with no interrupt due or being served,
\* nothing between the driver's index and the chip's can be collected, and the
\* descriptors of neither are out of step; unless aenintr() wrote a status with an
\* error back over a RINT, until the next one.  (Frames given up half way that
\* fill the ring catch aenintr() before.)
NoFrameStranded ==
  ~rx.rint /\ ~rx.unheard /\ rx.in = "no" /\ rx.cur.left = 0 =>
    /\ Ends(rx) = {}
    /\ \A i \in Slots :
         rx.ring[i].own <=> (RxCount + i - rx.rx_buffer_index) % RxCount
                              >= (RxCount + rx.at - rx.rx_buffer_index) % RxCount
============================================================================
