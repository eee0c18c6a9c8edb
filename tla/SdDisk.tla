------------------------------- MODULE SdDisk -------------------------------
(***************************************************************************)
(* Partitions of SCSI disks and raw transfers to them: sdpartition() reads *)
(* the Rigid Disk Block and the list of partitions through one buf and one *)
(* static block that all openers share (sdpart.c), and a raw read or write *)
(* goes page by page through a buffer of the kernel (physdsk.c), by way of *)
(* the queue of its disk (dd.c).  A partition's base is looked up when a   *)
(* buf is started, its length when it is queued.                           *)
(*                                                                         *)
(* A process runs until it sleeps.  A transfer is followed by the numbers  *)
(* of the blocks it moves; lengths are whole blocks.                       *)
(***************************************************************************)
EXTENDS Integers, Sequences, FiniteSets

CONSTANTS
  Users,       \* processes
  Label,       \* what each disk has in its first blocks, from 0
  Relabel,     \* what it has after somebody has partitioned it anew
  Parts,       \* partitions that are opened
  Tries,       \* how many blocks getrdb() looks at
  Page,        \* NBPP, in blocks
  Offs, Lens,  \* where transfers start, and their lengths
  MaxOpens, MaxIos,        \* bounds: opens and transfers of each process
  MaxFaults, MaxRelabels   \* bounds: failed transfers or copies, new labels

Disks == DOMAIN Label

VARIABLE sdk

vars == <<sdk>>

Nobody ==
  [pc |-> "idle", open |-> FALSE, d |-> CHOOSE d \in Disks : TRUE, p |-> 0,
   bno |-> 0, rdb |-> TRUE, pa |-> 0, sperc |-> 0,        \* of sdpartition()
   write |-> FALSE, blkno |-> 0, resid |-> 0, bcount |-> 0,  \* bp of amiga_dma_pageio()
   done |-> "no", error |-> FALSE, at |-> 0,              \* the buf it waits for; where it went
   opens |-> 0, ios |-> 0,
   moved |-> {}, part |-> [base |-> 0, len |-> 0],        \* history of a transfer
   raced |-> FALSE]                                       \* its partition was defined anew

Init == sdk =
  [label |-> Label, relabels |-> 0, faults |-> 0,
   busy |-> FALSE, block |-> Label[CHOOSE d \in Disks : TRUE][0],
   partab |-> [d \in Disks |-> [p \in Parts |-> [base |-> 0, len |-> 0]]],
   queue |-> [d \in Disks |-> <<>>],
   com |-> [d \in Disks |-> 0],               \* the first block of the command
   user |-> [u \in Users |-> Nobody]]

-----------------------------------------------------------------------------
(* dd.c: a buf is [who, p, blk, n]; p = 0 is the unmapped device.          *)

\* startio(): bn is sdblkno() now.
StartIo(s, d) ==
  IF s.queue[d] = <<>> THEN s
  ELSE LET b == Head(s.queue[d])
       IN  [s EXCEPT !.com[d] = b.blk + IF b.p = 0 THEN 0 ELSE s.partab[d][b.p].base]

SdValid(s, d, b) == b.p = 0 \/ b.blk + b.n <= s.partab[d][b.p].len

DdStrategy(s, d, b) ==
  IF ~SdValid(s, d, b) THEN [s EXCEPT !.user[b.who].done = "error"]
  ELSE LET t == [s EXCEPT !.queue[d] = Append(@, b), !.user[b.who].done = "no"]
       IN  IF s.queue[d] = <<>> THEN StartIo(t, d) ELSE t

\* The adapter is done with the first buf of a disk: ihandle().
Transfer(d) ==
  /\ sdk.queue[d] # <<>>
  /\ \E okay \in BOOLEAN :
       /\ okay \/ sdk.faults < MaxFaults
       /\ LET b == Head(sdk.queue[d])
              s == [sdk EXCEPT !.queue[d] = Tail(@),
                               !.user[b.who].done = IF okay THEN "okay" ELSE "error",
                               !.user[b.who].at = sdk.com[d],
                               !.block = IF b.p = 0 /\ okay /\ sdk.com[d] \in DOMAIN sdk.label[d]
                                         THEN sdk.label[d][sdk.com[d]] ELSE @,
                               !.faults = IF okay THEN @ ELSE @ + 1]
          IN  sdk' = StartIo(s, d)

-----------------------------------------------------------------------------
(* sdpart.c.                                                               *)

\* read() of the block bno for u, up to its sleep.
Read(s, u, bno) ==
  LET t == [s EXCEPT !.user[u].bno = bno]
  IN  IF s.busy THEN [t EXCEPT !.user[u].pc = "busy"]
      ELSE DdStrategy([t EXCEPT !.busy = TRUE, !.user[u].pc = "read"], s.user[u].d,
                      [who |-> u, p |-> 0, blk |-> bno, n |-> 1])

OpenEnds(s, u, okay) ==
  [s EXCEPT !.user[u] = [Nobody EXCEPT !.open = okay, !.d = s.user[u].d, !.p = s.user[u].p,
                                       !.opens = s.user[u].opens, !.ios = s.user[u].ios]]

\* The block of the next partition of the list, if there is one.
NextPart(s, u, a) == IF a = -1 THEN OpenEnds(s, u, FALSE) ELSE Read(s, u, a)

\* getrdb(), when a block has been read.
GetRdb(s, u) ==
  LET rdb == s.block
  IN  IF rdb.id = "RDSK" /\ rdb.sum
      THEN NextPart([s EXCEPT !.user[u].rdb = FALSE, !.user[u].sperc = rdb.cyl,
                              !.user[u].pa = 0], u, rdb.next)
      ELSE IF s.user[u].bno + 1 < Tries THEN Read(s, u, s.user[u].bno + 1)
      ELSE OpenEnds(s, u, FALSE)

\* getpb() and the rest of the loop of sdpartition().
GetPb(s, u) ==
  LET pb == s.block
      w  == s.user[u]
      t  == [s EXCEPT !.user[u].pa = @ + 1]
      new == [base |-> pb.low * w.sperc, len |-> (pb.high + 1 - pb.low) * w.sperc]
  IN  IF ~(pb.id = "PART" /\ pb.sum) THEN OpenEnds(s, u, FALSE)
      ELSE IF t.user[u].pa < w.p THEN NextPart(t, u, pb.next)
      ELSE OpenEnds([t EXCEPT !.partab[w.d][w.p] = new,
                       !.user = [v \in Users |->
                         [@[v] EXCEPT !.raced = @ \/ /\ s.user[v].d = w.d /\ s.user[v].p = w.p
                                                     /\ s.partab[w.d][w.p] # new]]], u, TRUE)

\* ddopen().
Open(u) ==
  /\ sdk.user[u].pc = "idle" /\ ~sdk.user[u].open /\ sdk.user[u].opens < MaxOpens
  /\ \E d \in Disks, p \in Parts :
       sdk' = Read([sdk EXCEPT !.user[u].d = d, !.user[u].p = p, !.user[u].rdb = TRUE,
                               !.user[u].opens = @ + 1], u, 0)

\* Whoever slept for the buf of read().
BusyEnds(u) ==
  /\ sdk.user[u].pc = "busy" /\ ~sdk.busy
  /\ sdk' = Read(sdk, u, sdk.user[u].bno)

ReadEnds(u) ==
  /\ sdk.user[u].pc = "read" /\ sdk.user[u].done # "no"
  /\ LET s == [sdk EXCEPT !.busy = FALSE]
     IN  sdk' = IF s.user[u].done = "error" THEN OpenEnds(s, u, FALSE)
                ELSE IF s.user[u].rdb THEN GetRdb(s, u) ELSE GetPb(s, u)

Close(u) ==
  /\ sdk.user[u].pc = "idle" /\ sdk.user[u].open
  /\ sdk' = OpenEnds(sdk, u, FALSE)

-----------------------------------------------------------------------------
(* physdsk.c.                                                              *)

Least(i, j) == IF i < j THEN i ELSE j

IoEnds(s, u) == [s EXCEPT !.user[u].pc = "idle", !.user[u].ios = @ + 1]

\* min(b_resid, NBPP): a count below 0 is, unsigned, a large one.
Chunk(resid) == IF resid \in 0 .. Page THEN resid ELSE Page

\* amiga_dma_pageio() from the top of its loop to its sleep; copyin() may fail.
Piece(s, u, okay) ==
  LET w  == s.user[u]
      cc == Chunk(w.resid)
  IN  IF cc = 0 THEN IoEnds(s, u)
      ELSE IF w.write /\ ~okay
      THEN IoEnds([s EXCEPT !.user[u].error = TRUE, !.faults = @ + 1], u)
      ELSE DdStrategy([s EXCEPT !.user[u].pc = "piece"], w.d,
                      [who |-> u, p |-> w.p, blk |-> w.blkno, n |-> cc])

\* ddread() and ddwrite(), which return at once at the end of the partition and clip
\* what goes past it, to a count below 0 for an offset beyond it; or a buf that comes
\* to ddstrategy() from the block device.
Io(u) ==
  /\ sdk.user[u].pc = "idle" /\ sdk.user[u].open /\ sdk.user[u].ios < MaxIos
  /\ \E raw, write, okay \in BOOLEAN, off \in Offs, len \in Lens :
       LET w == sdk.user[u]
           part == sdk.partab[w.d][w.p]
           n == Least(len, IF raw THEN part.len - off ELSE Page)
       IN  /\ part.len # 0 /\ (raw => off # part.len)
           /\ okay \/ (raw /\ write /\ sdk.faults < MaxFaults)
           /\ sdk' = Piece([sdk EXCEPT !.user[u] =
                [w EXCEPT !.write = write, !.blkno = off, !.bcount = n, !.resid = n,
                          !.error = FALSE, !.moved = {}, !.part = part, !.raced = FALSE]], u, okay)

\* A piece has been moved, in memory and on the disk.
MovedOn(w, cc) ==
  [w EXCEPT !.resid = @ - cc, !.blkno = @ + cc,
            !.moved = @ \cup {<<w.bcount - w.resid + i, w.at + i>> : i \in 0 .. cc - 1}]

\* An error counts only if nothing has been moved; copyout() may fail.
PieceEnds(u) ==
  /\ sdk.user[u].pc = "piece" /\ sdk.user[u].done # "no"
  /\ LET w  == sdk.user[u]
         cc == Chunk(w.resid)
     IN  \/ /\ w.done = "error"
            /\ sdk' = IoEnds([sdk EXCEPT !.user[u].error = w.resid = w.bcount], u)
         \/ /\ w.done = "okay"
            /\ \E okay \in BOOLEAN :
                 /\ okay \/ sdk.faults < MaxFaults
                 /\ sdk' = IF ~w.write /\ ~okay
                           THEN IoEnds([sdk EXCEPT !.user[u].error = TRUE, !.faults = @ + 1], u)
                           ELSE Piece([sdk EXCEPT !.user[u] = MovedOn(w, cc)], u, okay)

\* Somebody partitions a disk anew.
NewLabel(d) ==
  /\ sdk.relabels < MaxRelabels /\ sdk.label[d] # Relabel[d]
  /\ sdk' = [sdk EXCEPT !.label[d] = Relabel[d], !.relabels = @ + 1]

Next ==
  \/ \E u \in Users : Open(u) \/ BusyEnds(u) \/ ReadEnds(u) \/ Close(u) \/ Io(u) \/ PieceEnds(u)
  \/ \E d \in Disks : Transfer(d) \/ NewLabel(d)

Spec == Init /\ [][Next]_vars

-----------------------------------------------------------------------------
(* Properties.                                                             *)

TypeOK ==
  /\ \A u \in Users : sdk.user[u].pc \in {"idle", "busy", "read", "piece"}
  /\ \A d \in Disks : Len(sdk.queue[d]) <= Cardinality(Users)

\* The p-th partition of a label, if its blocks are what they should be.
Defined(label, p) ==
  LET rdb == CHOOSE i \in 0 .. Tries - 1 :
               /\ label[i].id = "RDSK" /\ label[i].sum
               /\ \A j \in 0 .. i - 1 : ~(label[j].id = "RDSK" /\ label[j].sum)
      At[k \in 1 .. p] == IF k = 1 THEN label[label[rdb].next] ELSE label[At[k - 1].next]
  IN  [base |-> At[p].low * label[rdb].cyl,
       len  |-> (At[p].high + 1 - At[p].low) * label[rdb].cyl]

\* However opens of several disks and partitions mingle over the one block they
\* share, a partition that was opened is that of its own disk and number.
PartitionsRight ==
  sdk.relabels = 0 =>
    \A d \in Disks, p \in Parts :
      sdk.partab[d][p].len # 0 => sdk.partab[d][p] = Defined(sdk.label[d], p)

\* A transfer moves the blocks it was asked for, one after another and none beyond
\* its partition, up to the count it returns, also when it is cut short by an error
\* or the end; unless its partition was defined anew while it was at work.
TransfersExact ==
  \A u \in Users :
    LET w == sdk.user[u]
        first == w.part.base + w.blkno - (w.bcount - w.resid)
    IN  ~w.raced =>
          /\ w.moved = {<<i, first + i>> : i \in 0 .. w.bcount - w.resid - 1}
          /\ \A x \in w.moved : x[2] \in w.part.base .. w.part.base + w.part.len - 1

\* Nobody sleeps in vain: for the shared buf while nobody uses it, or for a
\* transfer that is not queued; and the buf is in use by one opener only.
SleepersWillWake ==
  /\ sdk.busy <=> Cardinality({u \in Users : sdk.user[u].pc = "read"}) = 1
  /\ \A u \in Users :
       sdk.user[u].pc \in {"read", "piece"} /\ sdk.user[u].done = "no" =>
         \E i \in DOMAIN sdk.queue[sdk.user[u].d] : sdk.queue[sdk.user[u].d][i].who = u
============================================================================
