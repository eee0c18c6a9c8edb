----------------------------- MODULE FloppyAmiga -----------------------------
(***************************************************************************)
(* The Amiga track format, floppy/flopf.c: a track is MFM encoded as one   *)
(* stream of bits and written over the old one; what comes back is the     *)
(* circular track from some bit on, so that the reader has to find the     *)
(* sectors at any bit alignment.  Longs are sequences of 32 bits, most     *)
(* significant first; labels are one long and sectors SecLen longs.        *)
(***************************************************************************)
EXTENDS Naturals, Sequences, SequencesExt, FiniteSetsExt

CONSTANTS
    Longs,       \* the longs a sector may hold, sequences of 32 bits
    SecLen,      \* longs in a sector (BPSEC)
    NSec,        \* sectors of a track
    Slop,        \* longs of slop (TRKSLOP)
    Overlaps,    \* bits of the slop the end of the track was written over
    Rots,        \* where a read may start
    Flips        \* bits of the track that may go bad

VARIABLE am

BPL == 32
Bits(n, w) == [i \in 1 .. w |-> (n \div 2 ^ (w - i)) % 2] \o << >>
Zero == [i \in 1 .. BPL |-> 0]
Xor(a, b) == [i \in 1 .. Len(a) |-> (a[i] + b[i]) % 2] \o << >>
Flat(ss) == FlattenSeq(ss)

\* chksum() of the even bits alone.
ChksumEven(longs) ==
    LET res == FoldSeq(Xor, Zero, longs)
    IN  [i \in 1 .. BPL |-> IF i % 2 = 0 THEN res[i] ELSE 0]

\* chksum(): the longs xored together, then each pair of bits.
Chksum(longs) ==
    LET res == FoldSeq(Xor, Zero, longs)
    IN  [i \in 1 .. BPL |-> IF i % 2 = 0 THEN (res[i - 1] + res[i]) % 2 ELSE 0]

-----------------------------------------------------------------------------
\* The odd or the even bits of a long in the data positions.
OddBits(l)  == [i \in 1 .. BPL |-> IF i % 2 = 0 THEN l[i - 1] ELSE 0]
EvenBits(l) == [i \in 1 .. BPL |-> IF i % 2 = 0 THEN l[i] ELSE 0]

\* mfm(): the clock bits of a word, given the bit before it.
Clocked(n, before) ==
    [i \in 1 .. BPL |->
       IF i % 2 = 0 THEN n[i]
       ELSE IF n[i + 1] = 0 /\ (IF i = 1 THEN before ELSE n[i - 1]) = 0 THEN 1 ELSE 0]

\* mfm(): the odd bits and then the even bits of all longs, with their clock bits.
MfmUnjoined(stream, from, stale) ==
    LET n == Len(from)
    IN  stream \o Flat([k \in 1 .. n |-> Clocked(OddBits(from[k]),
                          IF k = 1 THEN Last(stream) ELSE from[k - 1][BPL - 1])])
               \o Flat([k \in 1 .. n |-> Clocked(EvenBits(from[k]),
                          IF k = 1 /\ n > 1 THEN stale
                          ELSE IF k = 1 THEN from[1][BPL - 1] ELSE from[k - 1][BPL])])

\* mfm(): the odd words of a block, then its even words.  The clock of the first
\* even word is set when the word before it is not yet there, from whatever the
\* buffer held (stale), and corrected in the end.
Mfm(stream, from, stale) ==
    LET n == Len(from)
        whole == MfmUnjoined(stream, from, stale)
        at == Len(stream) + n * BPL + 1
    IN  IF whole[at + 1] = 0
        THEN [whole EXCEPT ![at] = 1 - whole[at - 1]] ELSE whole

\* putmagic(): the sync words, which break the rules of MFM.
Putmagic(stream) ==
    stream \o (IF Last(stream) = 1 THEN Bits(\h2AAA, 16) ELSE Bits(\hAAAA, 16))
           \o Bits(\hAAAA, 16) \o Bits(\h4489, 16) \o Bits(\h4489, 16)

\* The first long of a header.
Id(trk, sec, ord) ==
    Bits(\hFF, 8) \o Bits(trk, 8) \o Bits(sec, 8) \o Bits(ord, 8)

\* putsec(): sync, header, label, checksums and data of a sector.
Putsec(stream, trk, sec, data, stale) ==
    LET id  == Id(trk, sec, NSec - sec)
        Add(s, block) == Mfm(s, block, stale)
    IN  FoldLeft(Add, Putmagic(stream),
                 << <<id>>, <<Zero>>, <<Chksum(<<id, Zero>>)>>, <<Chksum(data)>>, data>>)

\* putslop(): MFM zeros.
Putslop == Flat([i \in 1 .. Slop |-> Bits(\hAAAA, 16) \o Bits(\hAAAA, 16)])

\* fdputaml(): slop, the sectors in order, one more word of slop.
Fdputaml(trk, data, stale) ==
    LET Add(s, sec) == Putsec(s, trk, sec, data[sec], stale)
        body == FoldLeft(Add, Putslop, [i \in 1 .. NSec |-> i - 1])
    IN  body \o (IF Last(body) = 1 THEN Bits(\h2AA8, 16) ELSE Bits(\hAAA8, 16))

MfmSec == 64 + 64 * (4 + SecLen)
TrkLen == Slop * BPL + NSec * MfmSec + 16
ReadLen == Slop * BPL + NSec * MfmSec + MfmSec

\* What a read from some bit on returns: the end of a track goes over its
\* beginning, so that it has fewer bits than were written, and it is circular.
Flread(track, overlap, rot) ==
    LET L == Len(track) - overlap
    IN  [i \in 1 .. ReadLen |-> track[overlap + 1 + ((rot + i - 1) % L)]] \o << >>

-----------------------------------------------------------------------------
Word(b, k) == FoldLeft(LAMBDA x, y : 2 * x + y, 0, SubSeq(b, 16 * k + 1, 16 * k + 16))

\* The tables of find(): the three words after a word of zeros, and the shift.
EvenTab == {
    <<\h4489, \h4489, \h0000, 0>>,  <<\hA448, \h9448, \h9000, 4>>,
    <<\hAA44, \h8944, \h8900, 8>>,  <<\hAAA4, \h4894, \h4890, 12>>,
    <<\h9122, \h5122, \h4000, 2>>,  <<\hA912, \h2512, \h2400, 6>>,
    <<\hAA91, \h2251, \h2240, 10>>, <<\hAAA9, \h1225, \h1224, 14>>}
OddTab == {
    <<\h4891, \h2891, \h2000, 3>>,  <<\h5489, \h1289, \h1200, 7>>,
    <<\h5548, \h9128, \h9120, 11>>, <<\h5554, \h8912, \h8912, 15>>,
    <<\h2244, \hA244, \h8000, 1>>,  <<\h5224, \h4A24, \h4800, 5>>,
    <<\h5522, \h44A2, \h4480, 9>>,  <<\h5552, \h244A, \h2448, 13>>}

\* The entries that fit at word e; the mask keeps the first shift bits of the third word.
Fits(ws, e) ==
    LET keep(w, s) == (w \div 2 ^ (16 - s)) * 2 ^ (16 - s)
    IN  {t \in (IF ws[e] = \hAAAA THEN EvenTab ELSE OddTab) :
           /\ ws[e + 1] = t[1] /\ ws[e + 2] = t[2]
           /\ keep(ws[e + 3], t[4]) = t[3]}

\* find(): the first place after word p with a run of MFM zeros and the sync at
\* some shift; ws[i+1] is word i.
Find(ws, p) ==
    LET at == {e \in p + 2 .. Len(ws) - 3 :
                 /\ ws[e] \in {\hAAAA, \h5555} /\ ws[e + 1] # ws[e]
                 /\ Fits(ws, e) # {}}
    IN  IF at = {} THEN [ok |-> FALSE, pos |-> 0, shift |-> 0]
        ELSE [ok |-> TRUE, pos |-> Min(at) - 2,
              shift |-> (CHOOSE t \in Fits(ws, Min(at)) : TRUE)[4]]

\* A long of the stream, shift bits after bit b.
Long(bits, b) == SubSeq(bits, b + 1, b + BPL)

\* demfm(): n longs from their odd and even words.
Demfm(bits, b, n) ==
    [k \in 1 .. n |->
       LET odd == Long(bits, b + (k - 1) * BPL)
           even == Long(bits, b + (n + k - 1) * BPL)
       IN  [i \in 1 .. BPL |-> IF i % 2 = 1 THEN odd[i + 1] ELSE even[i]]]

Byte(l, k) == FoldLeft(LAMBDA x, y : 2 * x + y, 0, SubSeq(l, 8 * k - 7, 8 * k))

\* gethdr(): enough bits left, the sync, sane values, the checksum and the track.
Gethdr(bits, b, track) ==
    LET id    == Demfm(bits, b + 64, 1)
        label == Demfm(bits, b + 128, 1)
        sane  == /\ Byte(id[1], 1) = \hFF /\ Byte(id[1], 3) < NSec
                 /\ Byte(id[1], 4) \in 1 .. NSec
    IN  [ok |-> /\ 16 * (b \div 16) + MfmSec + 16 <= Len(bits)
                /\ Tail(Long(bits, b)) = Tail(Bits(\hAAAA, 16) \o Bits(\hAAAA, 16))
                /\ Long(bits, b + BPL) = Bits(\h4489, 16) \o Bits(\h4489, 16)
                /\ sane
                /\ Demfm(bits, b + 192, 1)[1] = Chksum(<<id[1], label[1]>>)
                /\ Byte(id[1], 2) = track,
         sec |-> Byte(id[1], 3), ord |-> Byte(id[1], 4)]

\* get(): sector after sector from the first one found; after the last one
\* written (ord) the reader synchronises again.
RECURSIVE GetRest(_, _, _, _, _, _, _)
GetRest(bits, ws, b, track, sec, ord, buffer) ==
    LET hdr  == Gethdr(bits, b, track)
        data == Demfm(bits, b + 320, SecLen)
        buf  == [buffer EXCEPT ![hdr.sec] = data]
        next == IF ord = 1 THEN Find(ws, (b + MfmSec) \div 16)
                ELSE [ok |-> TRUE, pos |-> (b + MfmSec) \div 16, shift |-> b % 16]
    IN  IF ~hdr.ok \/ hdr.sec # sec \/ hdr.ord # ord THEN << >>
        ELSE IF Demfm(bits, b + 256, 1)[1] # Chksum(data) THEN << >>
        ELSE IF \A s \in DOMAIN buf : buf[s] # << >> THEN buf
        ELSE IF ord = 1 /\ ~next.ok THEN << >>
        ELSE GetRest(bits, ws, 16 * next.pos + next.shift, track,
                     (hdr.sec + 1) % NSec, IF ord = 1 THEN NSec ELSE hdr.ord - 1, buf)

Get(bits, track) ==
    LET ws == [k \in 1 .. Len(bits) \div 16 |-> Word(bits, k - 1)] \o << >>
        f  == Find(ws, 0)
        b  == 16 * f.pos + f.shift
        h  == Gethdr(bits, b, track)
    IN  IF ~f.ok \/ ~h.ok THEN << >>
        ELSE GetRest(bits, ws, b, track, h.sec, h.ord, [s \in 0 .. NSec - 1 |-> << >>])

\* chktrk(): the first sector found before a write is one of the track wanted.
Chktrk(bits, track) ==
    LET some == SubSeq(bits, 1, 2 * MfmSec + Slop * BPL)
        ws   == [k \in 1 .. Len(some) \div 16 |-> Word(some, k - 1)] \o << >>
        f    == Find(ws, 0)
    IN  f.ok /\ Gethdr(some, 16 * f.pos + f.shift, track).ok

-----------------------------------------------------------------------------
NoTrack == [trk |-> 0, data |-> << >>, bits |-> << >>, overlap |-> 0, flip |-> 0,
            read |-> FALSE, wanted |-> 0, rot |-> 0, got |-> << >>, checked |-> FALSE]

Init == am = NoTrack

\* A track is written.
Put ==
    /\ am = NoTrack
    /\ \E d \in [0 .. NSec - 1 -> [1 .. SecLen -> Longs]], o \in Overlaps, stale \in 0 .. 1 :
         am' = [am EXCEPT !.data = d, !.overlap = o, !.bits = Fdputaml(0, d, stale)]

\* A bit of the track goes bad.
Damage ==
    /\ am.bits # << >> /\ am.flip = 0 /\ ~am.read
    /\ \E k \in Flips : am' = [am EXCEPT !.flip = k, !.bits[k] = 1 - @]

\* fdgetaml() or the check of fdputaml(): one try, by a driver that believes to
\* be on track 0 or 1, from some bit on.  After a failure fllost() makes the next
\* try recalibrate.
GetTrack ==
    /\ am.bits # << >> /\ ~am.read
    /\ \E w \in 0 .. 1, r \in Rots :
         am' = [am EXCEPT !.read = TRUE, !.wanted = w, !.rot = r, !.bits = << >>,
                          !.got = Get(Flread(am.bits, am.overlap, r), w),
                          !.checked = Chktrk(Flread(am.bits, am.overlap, r), w)]

Next == Put \/ Damage \/ GetTrack

Spec == Init /\ [][Next]_am

-----------------------------------------------------------------------------
\* The types of the state.
TypeOK ==
    /\ am.read \in BOOLEAN /\ am.flip \in Flips \cup {0}
    /\ am.bits = << >> \/ Len(am.bits) = TrkLen

\* Reading back never yields wrong data: not from a track with a bad bit, not
\* from another track than the one wanted, not from any starting point; and the
\* check before a write never takes another track for the one wanted.
NeverWrongData ==
    /\ am.got # << >> => am.got = am.data /\ am.wanted = am.trk
    /\ am.checked => am.wanted = am.trk

\* An undamaged track can be read from any starting point: find() knows the sync
\* at every bit alignment, before and after the seam.
Readable ==
    am.read /\ am.flip = 0 /\ am.wanted = am.trk => am.got = am.data

\* What is written obeys the rule of MFM across all words and fields: two ones
\* are never adjacent and never more than three zeros apart.
MfmRule ==
    \A i \in 1 .. Len(am.bits) - 3 :
       am.flip = 0 => /\ am.bits[i] + am.bits[i + 1] < 2
                      /\ \E j \in i .. i + 3 : am.bits[j] = 1
=============================================================================
