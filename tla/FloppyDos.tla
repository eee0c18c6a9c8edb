------------------------------ MODULE FloppyDos ------------------------------
(***************************************************************************)
(* The MS-DOS track format, floppy/flopf.dos.c: encoding a track into a    *)
(* stream of bits, and finding and decoding its sectors again at any bit   *)
(* alignment.  Bytes are sequences of 8 bits, words of 16, most            *)
(* significant first; in a word a data bit is followed by its clock bit.   *)
(* The two densities differ in their constants.                            *)
(***************************************************************************)
EXTENDS Naturals, Sequences, SequencesExt

CONSTANTS
    Bytes,       \* the bytes a sector may hold
    SecLen,      \* bytes in a sector (BPSEC)
    NSec,        \* sectors of a track
    Sync, Gap,   \* words of zeros before a mark, and of 0x4E in a gap
    MaxItoD,     \* words to search for a data mark (MAXITOD)
    Overlaps,    \* bits at the start of the track its end was written over
    Rots,        \* where a read may start
    Flips        \* bits of the track that may go bad

VARIABLE dos

Bits(n, w) == [i \in 1 .. w |-> (n \div 2 ^ (w - i)) % 2] \o << >>
Xor(a, b) == [i \in 1 .. Len(a) |-> (a[i] + b[i]) % 2] \o << >>
Poly == Bits(\h1021, 16)

\* makecrc(): one bit of a byte.
CrcShift(res, bit) ==
    LET up == Tail(res) \o <<0>>
    IN  IF (res[1] + bit) % 2 = 1 THEN Xor(up, Poly) ELSE up

\* makecrc(): the table entry of a byte.  (Len(res) makes TLC evaluate res before
\* it goes on; a CRC always has 16 bits.)
RECURSIVE CrcTab(_, _)
CrcTab(res, byte) ==
    IF Len(res) < 16 \/ byte = << >> THEN res ELSE CrcTab(CrcShift(res, Head(byte)), Tail(byte))

\* crc(): byte by byte with the high and the low table.
RECURSIVE CrcFrom(_, _)
CrcFrom(c, bytes) ==
    IF Len(c) < 16 \/ bytes = << >> THEN c
    ELSE LET t == CrcTab(Bits(0, 16), Xor(SubSeq(c, 1, 8), Head(bytes)))
         IN  CrcFrom(Xor(SubSeq(t, 1, 8), SubSeq(c, 9, 16)) \o SubSeq(t, 9, 16), Tail(bytes))

Crc(bytes) == CrcFrom(Bits(\hFFFF, 16), bytes)

-----------------------------------------------------------------------------
\* makemfmtab(): data bits and the clock bits between them, the last clock 0.
MfmTab(ch) ==
    FlattenSeq([i \in 1 .. 8 |->
       <<ch[i], IF i < 8 /\ ch[i] = 0 /\ ch[i + 1] = 0 THEN 1 ELSE 0>>])

\* The last clock bit of the stream is set between two zeros.
Join(stream, first) ==
    IF stream[Len(stream) - 1] = 0 /\ first = 0
    THEN [stream EXCEPT ![Len(stream)] = 1] ELSE stream

\* mfm(): bytes are appended.
Mfm(stream, bytes) ==
    FoldLeft(LAMBDA s, ch : Join(s, ch[1]) \o MfmTab(ch), stream, bytes)

\* mfmrep() before it clears the clock bit of its last word.
MfmrepRaw(stream, byte, cnt) ==
    LET two == Mfm(Mfm(stream, <<byte>>), <<byte>>)
        val == SubSeq(two, Len(two) - 31, Len(two) - 16)
    IN  IF cnt = 1 THEN Mfm(stream, <<byte>>)
        ELSE SubSeq(two, 1, Len(two) - 16)
             \o FlattenSeq([i \in 1 .. cnt - 1 |-> val])

\* mfmrep(): a byte cnt times; from the second on the words are copies, the last
\* with its clock bit clear.
Mfmrep(stream, byte, cnt) ==
    LET all == MfmrepRaw(stream, byte, cnt)
    IN  [all EXCEPT ![Len(all)] = 0]

\* mfmcopy(): words that are encoded already.
Mfmcopy(stream, words) == Join(stream, words[1][1]) \o FlattenSeq(words)

IdMagic  == <<Bits(\h8912, 16), Bits(\h8912, 16), Bits(\h8912, 16), Bits(\hAAA8, 16)>>
DatMagic == <<Bits(\h8912, 16), Bits(\h8912, 16), Bits(\h8912, 16), Bits(\hAA8A, 16)>>
IndMagic == <<Bits(\hA448, 16), Bits(\hA448, 16), Bits(\hA448, 16), Bits(\hAAA4, 16)>>
Mark(b) == <<Bits(\hA1, 8), Bits(\hA1, 8), Bits(\hA1, 8), Bits(b, 8)>>
Halves(c) == <<SubSeq(c, 1, 8), SubSeq(c, 9, 16)>>

\* dosec(): the id field of a sector with its checksum.
DosecId(stream, track, sec) ==
    LET id == <<Bits(track \div 2, 8), Bits(track % 2, 8), Bits(sec, 8), Bits(2, 8)>>
        s1 == Mfmcopy(Mfmrep(stream, Bits(0, 8), Sync), IdMagic)
    IN  Mfmrep(Mfm(s1, id \o Halves(Crc(Mark(\hFE) \o id))), Bits(\h4E, 8), Gap)

\* dosec(): the data field with its checksum.
DosecData(stream, data) ==
    LET s1 == Mfmcopy(Mfmrep(stream, Bits(0, 8), Sync), DatMagic)
    IN  Mfmrep(Mfm(s1, data \o Halves(Crc(Mark(\hFB) \o data))), Bits(\h4E, 8), Gap)

\* encode(): the gap and the index mark before the sectors.
EncodeStart ==
    LET start == Mfmrep(Mfmrep(Bits(0, 16), Bits(\h4E, 8), 2 * Gap), Bits(\h4E, 8), Gap)
        index == Mfmcopy(Mfmrep(start, Bits(0, 8), Sync), IndMagic)
    IN  Mfmrep(index, Bits(\h4E, 8), Gap)

SecWords == 2 * Sync + 2 * Gap + 8 + 6 + SecLen + 2

\* What a read from some bit on returns: the circular track and a sector more.
Flread(track, overlap, rot) ==
    LET L == Len(track) - overlap
        n == 16 * ((Len(track) \div 16) + SecWords)
    IN  [i \in 1 .. n |-> track[overlap + 1 + ((rot + i - 1) % L)]] \o << >>

-----------------------------------------------------------------------------
\* ammagic[] with one entry wrong.
AmmagicTypo(skip) ==
    <<\h8912, \h4489, \h2244, \h9122, \h4891, \hA448, \h5224, \hA912,
      \h5489, \hAA44, \h5522, \hAA92, \h5548, \hAAA4, \h5552, \hAAA9>>[skip + 1]

\* ammagic[]: the first word of a mark with skip bits of MFM zeros before it.
Ammagic(skip) ==
    <<\h8912, \h4489, \h2244, \h9122, \h4891, \hA448, \h5224, \hA912,
      \h5489, \hAA44, \h5522, \hAA91, \h5548, \hAAA4, \h5552, \hAAA9>>[skip + 1]

\* Word p of a stream; a position is a word and a bit skip.
Word(bits, p) == SubSeq(bits, 16 * p + 1, 16 * p + 16)
NWords(bits) == Len(bits) \div 16
Zeros == {Bits(\hAAAA, 16), Bits(\h5555, 16), Bits(\h5554, 16)}

\* checkeq(): the pattern is next in the stream, before word lim.
Checkeq(bits, p, skip, pat, lim) ==
    /\ Len(pat) + skip <= (lim - p) * 16
    /\ SubSeq(bits, 16 * p + skip + 1, 16 * p + skip + Len(pat)) = pat

\* search(): the first word after one of zeros where the mark fits at some skip.
Search(bits, at, pat, max) ==
    LET from == at.p + (IF at.skip # 0 /\ at.p # NWords(bits) THEN 1 ELSE 0)
        lim  == IF max # 0 /\ NWords(bits) > from + max THEN from + max ELSE NWords(bits)
        zero == Zeros
        mark == [s \in 0 .. 15 |-> Bits(Ammagic(s), 16)]
        try  == {ps \in {p \in from + 1 .. lim - 1 : Word(bits, p - 1) \in zero} \X (0 .. 15) :
                   Word(bits, ps[1]) = mark[ps[2]]}
        hits == {ps \in try : Checkeq(bits, ps[1], ps[2], pat, lim)}
        first == CHOOSE x \in hits : \A y \in hits : x[1] <= y[1]
        last  == CHOOSE x \in try : \A y \in try : x[1] >= y[1]
    IN  IF hits # {} THEN [ok |-> TRUE, p |-> first[1], skip |-> first[2]]
        ELSE [ok |-> FALSE, p |-> lim, skip |-> IF try = {} THEN at.skip ELSE last[2]]

\* demfm(): n bytes without their clock bits; with a skip one word more is read.
Demfm(bits, at, n) ==
    LET base == 16 * at.p + at.skip
        need == IF at.skip = 0 THEN n ELSE n + 1
    IN  IF need > NWords(bits) - at.p THEN [ok |-> FALSE, data |-> << >>, at |-> at]
        ELSE [ok |-> TRUE, at |-> [at EXCEPT !.p = @ + need],
              data |-> [k \in 1 .. n |-> [i \in 1 .. 8 |-> bits[base + 16 * (k - 1) + 2 * i - 1]] \o << >>] \o << >>]

IdPat  == SubSeq(FlattenSeq(IdMagic), 1, 63)
DatPat == SubSeq(FlattenSeq(DatMagic), 1, 59)

\* What demfm() made of a field, and whether its checksum is right.
Field(d) == [found |-> TRUE, ok |-> d.ok /\ Crc(d.data) = Bits(0, 16), at |-> d.at,
             data |-> d.data]

\* The field of n bytes at the mark that search() found or not.
FieldAt(bits, s, n) ==
    IF s.ok THEN Field(Demfm(bits, s, n))
    ELSE [found |-> FALSE, ok |-> FALSE, at |-> s, data |-> << >>]

\* findidam(), one candidate: an id field whose checksum is right, one whose
\* checksum is wrong (the search goes on behind it), or none.
Findidam(bits, at) == FieldAt(bits, Search(bits, at, IdPat, 0), 10)

\* findddam(): the data field has to follow soon, and its checksum be right.
Findddam(bits, at) == FieldAt(bits, Search(bits, at, DatPat, MaxItoD), 4 + SecLen + 2)

Start == [ok |-> TRUE, p |-> 0, skip |-> 0]
NoData == [s \in 1 .. NSec |-> << >>]

-----------------------------------------------------------------------------
\* bits is the track on the disk, then the stream read from it.
NoTrack == [data |-> << >>, bits |-> << >>, overlap |-> 0, flip |-> 0, trk |-> 1,
            pc |-> "empty", sec |-> 1, wanted |-> 0, rot |-> 0, at |-> Start,
            got |-> NoData, checked |-> FALSE]

Init == dos = NoTrack

\* fdputmsl(), fdputmsh(), put() and encode(): what comes before the sectors.
Put ==
    /\ dos.pc = "empty"
    /\ \E d \in [1 .. NSec -> [1 .. SecLen -> Bytes]], o \in Overlaps :
         dos' = [dos EXCEPT !.data = d, !.overlap = o, !.bits = EncodeStart, !.pc = "id"]

\* encode() and dosec(): the next field.  After the last the word that mfmrep()
\* started from is dropped, and put() writes the track from the index on.
PutField ==
    \/ /\ dos.pc = "id"
       /\ dos' = [dos EXCEPT !.bits = DosecId(@, dos.trk, dos.sec), !.pc = "data"]
    \/ /\ dos.pc = "data"
       /\ LET bits == DosecData(dos.bits, dos.data[dos.sec])
              last == dos.sec = NSec
          IN  dos' = [dos EXCEPT !.bits = IF last THEN SubSeq(bits, 17, Len(bits)) ELSE bits,
                                 !.sec = @ + 1,
                                 !.pc = IF last THEN "written" ELSE "id"]

\* A bit of the track goes bad.
Damage ==
    /\ dos.pc = "written" /\ dos.flip = 0
    /\ \E k \in Flips : dos' = [dos EXCEPT !.flip = k, !.bits[k] = 1 - @]

\* gettrk() or check(): one try from some bit on, for track 1 or another.
ReadTrack ==
    /\ dos.pc = "written"
    /\ \E w \in 1 .. 2, r \in Rots :
         dos' = [dos EXCEPT !.pc = "search", !.wanted = w, !.rot = r,
                            !.bits = Flread(dos.bits, dos.overlap, r)]

\* The end of get(): every sector was found, or the try failed.
Finish(f, ok) == [f EXCEPT !.pc = IF ok THEN "got" ELSE "failed", !.bits = << >>, !.at = Start]

\* The id field is of the track wanted.
Mine(f, id) ==
    id.data[5] = Bits(f.wanted \div 2, 8) /\ id.data[6] = Bits(f.wanted % 2, 8)

\* Sector sec gets the data of its field, if that is right.
TakeData(f, sec, dat) ==
    [f EXCEPT !.at = dat.at, !.checked = TRUE,
              !.got[sec] = IF dat.ok THEN SubSeq(dat.data, 5, 4 + SecLen) ELSE @]

\* get() with the next id field.  It has to be of this track; a sector not yet
\* there gets its data.  chktrk() looks at the first id field only.
TakeId(f, id) ==
    LET secs == {s \in 1 .. NSec : Bits(s, 8) = id.data[7]}
        sec  == CHOOSE s \in secs : TRUE
    IN  IF ~id.found THEN Finish(f, \A s \in 1 .. NSec : f.got[s] # << >>)
        ELSE IF ~id.ok THEN [f EXCEPT !.at = id.at]
        ELSE IF ~Mine(f, id) \/ secs = {} THEN Finish(f, FALSE)
        ELSE IF f.got[sec] # << >> THEN [f EXCEPT !.at = id.at]
        ELSE TakeData(f, sec, Findddam(f.bits, id.at))

\* get(): the next id field is looked for.
NextSector == dos.pc = "search" /\ dos' = TakeId(dos, Findidam(dos.bits, dos.at))

Next == Put \/ PutField \/ Damage \/ ReadTrack \/ NextSector

Spec == Init /\ [][Next]_dos

-----------------------------------------------------------------------------
\* The types of the state.
TypeOK ==
    /\ dos.pc \in {"empty", "id", "data", "written", "search", "got", "failed"}
    /\ dos.flip \in Flips \cup {0} /\ dos.at.skip \in 0 .. 15

\* Reading back never yields wrong data, from a bad track, another track or any
\* starting point, and the check before a write knows its track.
NeverWrongData ==
    /\ dos.pc = "got" => dos.got = dos.data /\ dos.wanted = dos.trk
    /\ dos.checked => dos.wanted = dos.trk

\* An undamaged track can be read from any starting point: search() knows the
\* marks at every bit alignment, and what demfm() reads ahead is never needed.
Readable ==
    dos.flip = 0 /\ dos.wanted = dos.trk => dos.pc # "failed"

\* What is written obeys the rule of MFM across all fields, the copies mfmrep()
\* makes included: two ones are never adjacent and never more than three zeros
\* apart.
MfmRule ==
    dos.pc = "written" /\ dos.flip = 0 =>
      \A i \in 1 .. Len(dos.bits) - 3 : /\ dos.bits[i] + dos.bits[i + 1] < 2
                                        /\ \E j \in i .. i + 3 : dos.bits[j] = 1

\* The CRC of the standard, bit by bit: what other systems put on their disks.
RECURSIVE CrcCcitt(_, _)
CrcCcitt(c, bits) ==
    IF Len(c) < 16 \/ bits = << >> THEN c
    ELSE CrcCcitt(IF c[1] = Head(bits) THEN Tail(c) \o <<0>> ELSE Xor(Tail(c) \o <<0>>, Poly),
                  Tail(bits))

\* crc() and makecrc() compute that CRC, so disks of other systems can be read.
CrcIsStandard ==
    dos.pc = "written" => \A s \in 1 .. NSec : 
        Crc(dos.data[s]) = CrcCcitt(Bits(\hFFFF, 16), FlattenSeq(dos.data[s]))
=============================================================================
