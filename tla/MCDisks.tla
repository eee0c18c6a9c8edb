------------------------------ MODULE MCDisks ------------------------------
(***************************************************************************)
(* The storage drivers but for the SCSI disks of the A3000: the tape, the  *)
(* A2090's ST-506 disk and SCSI bus, and the floppy with its track cache,  *)
(* its drives and its two track formats; partitions of SCSI disks and the  *)
(* generic SCSI ioctl; and the way in which memory and boards are found.   *)
(* They share no state, so each behaviour is one of one of them, on a      *)
(* small instance.                                                         *)
(***************************************************************************)
EXTENDS Integers, Sequences, TLC

VARIABLES part, ct, jb, fd, fh, am, dos, sdk, gs, ac

Tape == INSTANCE CtTape WITH Users <- {"u1", "u2"}, MaxOps <- 3, MaxFaults <- 1

Boyer == INSTANCE BoyerBus WITH
  Blocks <- {1, 2, 3}, Pieces <- 2, Ntry <- 2, MaxHd <- 3, MaxSd <- 2

Cache == INSTANCE FloppyCache WITH
  Drives <- {"d0", "d1"}, NTracks <- 2, NSecs <- 2, CacheLen <- 2, MLife <- 2,
  Users <- {"u1", "u2"}, Ops <- {"read", "write", "format", "fmtread"},
  MaxLen <- 2, MaxReq <- 2, MaxServants <- 1, MaxOpens <- 0, MaxFaults <- 1

\* Opens and closes under two servants, one after the other.
CacheOpens == INSTANCE FloppyCache WITH
  Drives <- {"d0", "d1"}, NTracks <- 2, NSecs <- 1, CacheLen <- 2, MLife <- 2,
  Users <- {}, Ops <- {"write"}, MaxLen <- 1, MaxReq <- 3,
  MaxServants <- 2, MaxOpens <- 2, MaxFaults <- 0

\* The same cache with four requests to one drive.
CacheBusy == INSTANCE FloppyCache WITH
  Drives <- {"d0"}, NTracks <- 3, NSecs <- 1, CacheLen <- 2, MLife <- 2,
  Users <- {"u1"}, Ops <- {"write"}, MaxLen <- 1, MaxReq <- 4,
  MaxServants <- 1, MaxOpens <- 0, MaxFaults <- 0

Drive == INSTANCE FloppyDrive WITH
  Drives <- {"d0", "d1"}, NCyl <- 3, MaxOps <- 2, MaxOpens <- 2, MaxFaults <- 1

\* Longs with ones at both ends and in the middle; reads that start at six
\* bits spread over the track; bad bits in a header, in a label and in data.
Amiga == INSTANCE FloppyAmiga WITH
  Longs <- {[i \in 1 .. 32 |-> IF i \in {1, 31, 32} THEN 1 ELSE 0],
            [i \in 1 .. 32 |-> IF i \in {5, 6, 9} THEN 1 ELSE 0]},
  SecLen <- 2, NSec <- 2, Slop <- 3, Overlaps <- {37},
  Rots <- {107 * i : i \in 0 .. 5}, Flips <- {180, 418, 521}

\* The bytes 0 and 0xA1, the latter also that of the marks; bad bits in an id
\* field, in a gap and in data.
Dos == INSTANCE FloppyDos WITH
  Bytes <- {<<0, 0, 0, 0, 0, 0, 0, 0>>, <<1, 0, 1, 0, 0, 0, 0, 1>>},
  SecLen <- 2, NSec <- 2, Sync <- 3, Gap <- 3, MaxItoD <- 15, Overlaps <- {37},
  Rots <- {149 * i : i \in 0 .. 5}, Flips <- {441, 550, 699}

\* Two disks, one with a bad sum in its first block; a list of two partitions that
\* is not in the order of their places.
Junk == [id |-> "none", sum |-> TRUE, next |-> -1, cyl |-> 0, low |-> 0, high |-> 0]
Rdb(cyl, next) == [Junk EXCEPT !.id = "RDSK", !.cyl = cyl, !.next = next]
Pb(next, low, high) == [Junk EXCEPT !.id = "PART", !.next = next, !.low = low, !.high = high]

OneList == 0 :> Rdb(1, 1) @@ 1 :> Pb(-1, 5, 7)
Labels ==
  "d1" :> (0 :> [Rdb(1, 2) EXCEPT !.sum = FALSE] @@ 1 :> Rdb(2, 3)
           @@ 2 :> Pb(-1, 7, 8) @@ 3 :> Pb(2, 2, 3))
  @@ "d2" :> OneList
NewLabels ==
  "d1" :> (0 :> Rdb(2, 2) @@ 1 :> Junk @@ 2 :> Pb(3, 3, 4) @@ 3 :> Pb(-1, 2, 2))
  @@ "d2" :> OneList

Disk == INSTANCE SdDisk WITH
  Users <- {"u1", "u2"}, Label <- Labels, Relabel <- NewLabels,
  Parts <- {1, 2}, Tries <- 2, Page <- 2, Offs <- {1, 3}, Lens <- {3},
  MaxOpens <- 1, MaxIos <- 1, MaxFaults <- 1, MaxRelabels <- 1

Generic == INSTANCE GsIoctl WITH Users <- {"u1", "u2"}, MaxCalls <- 2, MaxFaults <- 1

\* Machines whose memory regions touch, overlap or leave a gap, in any order; with
\* a Hydra in a slot and one in memory space, listed rightly, wrongly or not, beside
\* places that look like one; and with three other cards.
Machine == [boot |-> "A2620", table |-> <<>>, memory |-> <<>>, end |-> 70, chip |-> 4,
            mirror |-> FALSE, looks |-> {}, real |-> {}]
Entry(pn, a) == [pn |-> pn, addr |-> a, size |-> 16]
Regions == {[l |-> 64, u |-> 80], [l |-> 80, u |-> 96], [l |-> 90, u |-> 112], [l |-> 128, u |-> 140]}
HydraTables ==
  {<<>>} \cup {<<Entry("hydra", a)>> : a \in {466, 96, 467, 600}}
  \cup {<<Entry("hydra", a), Entry("hydra", b)>> : a \in {467, 466}, b \in {96, 469}}

MemoryMachines ==
  {[Machine EXCEPT !.boot = "EXEC1", !.memory = <<r, s, t>>, !.end = e] :
     r, s, t \in Regions, e \in {70, 80, 100, 150, 3700}}
  \cup {[Machine EXCEPT !.chip = c, !.mirror = m, !.boot = b,
                        !.table = <<Entry("ram", 64), Entry("ram", 80)>>] :
          c \in {1, 2, 4, 8}, m \in BOOLEAN, b \in {"A2620", "EXEC0"}}
HydraMachines ==
  {[Machine EXCEPT !.real = {466, 96}, !.looks = l, !.table = t] :
     l \in {{}, {466}, {96, 98}, {470}, {96, 466, 470, 472}}, t \in HydraTables}
CardMachines ==
  {[Machine EXCEPT !.end = e, !.table = <<Entry(p[1], 466 + 2 * i), Entry(p[2], 468),
                                          Entry(p[3], 470 - 3 * i)>>] :
     e \in {70, 3700}, p \in [1 .. 3 -> {"aen", "amerstar", "a2090", "a2091"}], i \in {0, 2, 3}}

Boards == INSTANCE Autoconf WITH
  Machines <- MemoryMachines \cup HydraMachines \cup CardMachines, MaxBoards <- 3, SdCards <- 2

\* The state of the drivers that a behaviour is not about.
Unused == "unused"

Init ==
  /\ part \in {"tape", "boyer", "cache", "opens", "busy", "drive", "amiga", "dos", "disk", "generic", "boards"}
  /\ IF part = "tape" THEN Tape!Init ELSE ct = Unused
  /\ IF part = "boyer" THEN Boyer!Init ELSE jb = Unused
  /\ CASE part = "cache" -> Cache!Init
       [] part = "opens" -> CacheOpens!Init
       [] part = "busy"  -> CacheBusy!Init
       [] OTHER          -> fd = Unused
  /\ IF part = "drive" THEN Drive!Init ELSE fh = Unused
  /\ IF part = "amiga" THEN Amiga!Init ELSE am = Unused
  /\ IF part = "dos" THEN Dos!Init ELSE dos = Unused
  /\ IF part = "disk" THEN Disk!Init ELSE sdk = Unused
  /\ IF part = "generic" THEN Generic!Init ELSE gs = Unused
  /\ IF part = "boards" THEN Boards!Init ELSE ac = Unused

Next ==
  /\ part' = part
  /\ \/ part = "tape"  /\ Tape!Next  /\ UNCHANGED <<jb, fd, fh, am, dos, sdk, gs, ac>>
     \/ part = "boyer" /\ Boyer!Next /\ UNCHANGED <<ct, fd, fh, am, dos, sdk, gs, ac>>
     \/ part = "cache" /\ Cache!Next /\ UNCHANGED <<ct, jb, fh, am, dos, sdk, gs, ac>>
     \/ part = "opens" /\ CacheOpens!Next /\ UNCHANGED <<ct, jb, fh, am, dos, sdk, gs, ac>>
     \/ part = "busy"  /\ CacheBusy!Next /\ UNCHANGED <<ct, jb, fh, am, dos, sdk, gs, ac>>
     \/ part = "drive" /\ Drive!Next /\ UNCHANGED <<ct, jb, fd, am, dos, sdk, gs, ac>>
     \/ part = "amiga" /\ Amiga!Next /\ UNCHANGED <<ct, jb, fd, fh, dos, sdk, gs, ac>>
     \/ part = "dos"   /\ Dos!Next   /\ UNCHANGED <<ct, jb, fd, fh, am, sdk, gs, ac>>
     \/ part = "disk"  /\ Disk!Next  /\ UNCHANGED <<ct, jb, fd, fh, am, dos, gs, ac>>
     \/ part = "generic" /\ Generic!Next /\ UNCHANGED <<ct, jb, fd, fh, am, dos, sdk, ac>>
     \/ part = "boards" /\ Boards!Next /\ UNCHANGED <<ct, jb, fd, fh, am, dos, sdk, gs>>

Spec == Init /\ [][Next]_<<part, ct, jb, fd, fh, am, dos, sdk, gs, ac>>

-----------------------------------------------------------------------------
\* The types of the drivers' state.
DisksTypeOK ==
  /\ part = "tape" => Tape!TypeOK
  /\ part = "boyer" => Boyer!TypeOK
  /\ part = "cache" => Cache!TypeOK
  /\ part = "opens" => CacheOpens!TypeOK
  /\ part = "busy" => CacheBusy!TypeOK
  /\ part = "drive" => Drive!TypeOK
  /\ part = "amiga" => Amiga!TypeOK
  /\ part = "dos" => Dos!TypeOK
  /\ part = "disk" => Disk!TypeOK
  /\ part = "generic" => Generic!TypeOK
  /\ part = "boards" => Boards!TypeOK

\* Requests are served in the order their driver promises: hd.c's elevator,
\* a2090.c's queue of commands and getnext()'s order of the tracks.
ServedInOrder ==
  /\ part = "boyer" => Boyer!ElevatorWhole /\ Boyer!ScsiInOrder
  /\ part = "cache" => Cache!TrackOrder
  /\ part = "opens" => CacheOpens!TrackOrder
  /\ part = "busy" => CacheBusy!TrackOrder

\* No request is forgotten: the tape's queue, both users of the A2090's bus, the
\* processes that wait for the floppy's raw buffer and its cached tracks have
\* somebody who will attend to them, and so have those that wait for the buf of
\* sdpart.c, for a raw transfer or for a SCSI command of their own.
NobodyForgotten ==
  /\ part = "tape" => Tape!TapeGoesOn
  /\ part = "boyer" => Boyer!NobodyForgotten
  /\ part = "cache" => Cache!RawUsersWake /\ Cache!CachedTracksAge
  /\ part = "opens" => CacheOpens!CachedTracksAge
  /\ part = "busy" => CacheBusy!RawUsersWake /\ CacheBusy!CachedTracksAge
  /\ part = "disk" => Disk!SleepersWillWake
  /\ part = "generic" => Generic!CallerWillWake

\* Nothing that was written is lost to a cache or to a wrong place: a block holds
\* what was written last, through evictions and flushes, and a tape is written
\* at its start or where the last write ended.
WritesAreKept ==
  /\ part = "cache" => Cache!BlocksHoldLastWrite
  /\ part = "opens" => CacheOpens!BlocksHoldLastWrite
  /\ part = "busy" => CacheBusy!BlocksHoldLastWrite
  /\ part = "tape" => Tape!NoWriteInTheMiddle

\* Things are where the drivers believe: the head of a floppy, whose transfers go to
\* the track asked for unless fdopen() of another drive came in between; the
\* partitions of a disk and the blocks of a transfer in them; memory and boards.
WhereThought ==
  /\ part = "drive" =>
       Drive!HeadWhereThought /\ Drive!StraysOnlyWhenRaced /\ Drive!StoppedNotSelected
  /\ part = "disk" => Disk!PartitionsRight /\ Disk!TransfersExact
  /\ part = "boards" =>
       Boards!MemorySized /\ Boards!HydraFound /\ Boards!AenSorted /\ Boards!SdNumbered

\* A track that is read back, in either format, at any bit alignment, with a bad
\* bit or from the wrong track, never yields wrong data; nor does a SCSI command
\* whose caller has gsioctl() to himself.
NeverWrongData ==
  /\ part = "amiga" => Amiga!NeverWrongData
  /\ part = "dos" => Dos!NeverWrongData
  /\ part = "generic" => Generic!OwnOutcome

\* What is written obeys the rules of the format and of MFM, and can be read back
\* from wherever the read starts.
TracksReadable ==
  /\ part = "amiga" => Amiga!Readable /\ Amiga!MfmRule
  /\ part = "dos" => Dos!Readable /\ Dos!MfmRule /\ Dos!CrcIsStandard

============================================================================
