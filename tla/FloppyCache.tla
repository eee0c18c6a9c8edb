----------------------------- MODULE FloppyCache -----------------------------
(***************************************************************************)
(* The floppy driver of floppy/flop.c: the request queue, the servant      *)
(* process that serves it, the write-back cache of whole tracks in LRU     *)
(* order, the countdown that empties the cache of a drive and stops its    *)
(* motor, and the one static buffer raw I/O shares.  Reading and writing   *)
(* a track (dtypes[].get and .put) is external here: it sleeps, and it     *)
(* succeeds or fails.  One format per drive; a write stores its request's  *)
(* number.                                                                 *)
(***************************************************************************)
EXTENDS Naturals, Sequences, SequencesExt, FiniteSets

CONSTANTS
    Drives,      \* drives with a floppy (0 .. NDRIVES-1)
    NTracks,     \* tracks of a drive
    NSecs,       \* sectors of a track
    CacheLen,    \* TBCLEN
    MLife,       \* MLIFE
    Users,       \* processes doing raw I/O
    Ops,         \* the operations asked for
    MaxLen,      \* bound on the blocks of a request
    MaxReq,      \* bound on requests
    MaxServants, \* bound on starts of the servant
    MaxOpens,    \* bound on opens and closes of the drives
    MaxFaults    \* bound on failing gets and puts

VARIABLE fd

NODRV == "none"
NBlocks == NTracks * NSecs
Trk(b) == b \div NSecs
Tracks == 0 .. NTracks - 1
Zeroed == [s \in 0 .. NSecs - 1 |-> 0]
NoRun == [req |-> [id |-> 0], who |-> "nobody", blk |-> 0, at |-> "none"]

\* A request: a buf_t with its operation, drive, first block and count.
Requests == [op : Ops \cap {"read", "write", "format", "fmtread"}, drv : Drives,
             blk : 0 .. NBlocks, n : 1 .. MaxLen, id : 1 .. MaxReq,
             by : Users \cup {"none"}]

\* tbcinit(): every entry empty, in LRU order.
Tbcinit == [i \in 1 .. CacheLen |->
              [drv |-> NODRV, trk |-> 0, dirty |-> FALSE, data |-> Zeroed]]

\* tbc the cache, most recent first; run the request being served, by the
\* servant or by its caller; good what the disks should hold; lost the tracks
\* a failed put left behind; order the last request served of each track;
\* flushing the drive flush() is at; raw the static buf of fdphysio(): its owner,
\* B_DONE, B_WANTED and who sleeps on it.
Init ==
    fd = [queue   |-> << >>, tbc |-> Tbcinit,
          disk    |-> [d \in Drives |-> [t \in Tracks |-> Zeroed]],
          good    |-> [d \in Drives |-> [b \in 0 .. NBlocks - 1 |-> 0]],
          lost    |-> {}, order |-> [d \in Drives |-> [t \in Tracks |-> 0]],
          servant |-> "none", chkmot |-> TRUE, timer |-> FALSE, ages |-> {},
          flushing |-> "none",
          mlives  |-> [d \in Drives |-> 0], run |-> NoRun,
          raw     |-> [owner |-> "none", done |-> FALSE, wanted |-> FALSE, asleep |-> {}],
          nreq    |-> 0, nserv |-> 0, nopen |-> 0, nfault |-> 0]

-----------------------------------------------------------------------------
\* incache(): the cache holds the track.
Incache(tbc, d, t) == \E i \in 1 .. CacheLen : tbc[i].drv = d /\ tbc[i].trk = t

\* getnext() that takes the most recent request of a cached track.
GetnextNewest(q, tbc) ==
    LET hits == {i \in 1 .. Len(q) : Incache(tbc, q[i].drv, Trk(q[i].blk))}
    IN  IF hits = {} THEN 1 ELSE CHOOSE i \in hits : \A j \in hits : i >= j

\* getnext(): the first request whose track is cached, else the first one.
Getnext(q, tbc) ==
    LET hits == {i \in 1 .. Len(q) : Incache(tbc, q[i].drv, Trk(q[i].blk))}
    IN  IF hits = {} THEN 1 ELSE CHOOSE i \in hits : \A j \in hits : i <= j

\* Writing an entry back to its disk; a put that fails is ignored.
PutBack(f, e, works) ==
    IF works THEN [f EXCEPT !.disk[e.drv][e.trk] = e.data]
    ELSE [f EXCEPT !.lost = @ \cup {<<e.drv, e.trk>>}]

\* flush() at a stretch, where nothing sleeps: the drive's dirty tracks are put, all
\* its entries forgotten.  Of the puts all but those of the tracks in bad succeed.
Flush(f, d, bad) ==
    LET mine == {i \in 1 .. CacheLen : f.tbc[i].drv = d}
        due  == {f.tbc[i] : i \in {j \in mine : f.tbc[j].dirty}}
    IN  [f EXCEPT
          !.disk[d] = [t \in Tracks |->
             IF \E e \in due : e.trk = t /\ t \notin bad
             THEN (CHOOSE e \in due : e.trk = t).data ELSE @[t]],
          !.lost = @ \cup {<<d, e.trk>> : e \in {x \in due : x.trk \in bad}},
          !.tbc = [i \in 1 .. CacheLen |->
                     IF i \in mine THEN [@[i] EXCEPT !.drv = NODRV] ELSE @[i]]]

Dirty(f, d) == {e.trk : e \in {x \in Range(f.tbc) : x.drv = d /\ x.dirty}}

\* The outcomes of a flush: at most the bounded number of puts fail.
Flushes(f, d) ==
    {[Flush(f, d, bad) EXCEPT !.nfault = @ + Cardinality(bad)] :
        bad \in {b \in SUBSET Dirty(f, d) : Cardinality(b) + f.nfault <= MaxFaults}}

-----------------------------------------------------------------------------
\* iodone(): the request is finished, B_DONE wakes a raw user.  Without a
\* servant the caller flushes the drive at once and clears its life.
Iodone(f) ==
    LET d == f.run.req.drv
        g == [f EXCEPT !.raw.done = @ \/ f.run.req.by # "none", !.run = NoRun]
    IN  IF f.run.who = "caller"
        THEN {[h EXCEPT !.mlives[d] = 0] : h \in Flushes(g, d)}
        ELSE {g}

\* rundevice(): starting on a request.  A read of a formatting device fails.
Rundevice(f, r, who) ==
    LET g == [f EXCEPT !.run = [req |-> r, who |-> who, blk |-> r.blk, at |-> "find"],
                       !.order[r.drv][IF r.blk < NBlocks THEN Trk(r.blk) ELSE 0] =
                           IF r.blk < NBlocks THEN r.id ELSE @]
    IN  IF r.op = "fmtread" THEN Iodone(g) ELSE {g}

\* The kernel is not preempted while a caller serves its own request: it
\* busy-waits in fldelay().
Free == fd.run.who # "caller"

\* fdstrategy(): queued for the servant, who is woken, or served by the caller.
Fdstrategy(r) ==
    IF fd.servant # "none"
    THEN fd' = [fd EXCEPT !.queue = Append(@, r), !.nreq = r.id,
                          !.raw.owner = IF r.by # "none" THEN r.by ELSE @,
                          !.servant = IF @ = "asleep" THEN "woken" ELSE @]
    ELSE fd' \in Rundevice([fd EXCEPT !.nreq = r.id,
                              !.raw.owner = IF r.by # "none" THEN r.by ELSE @], r, "caller")

\* A request of the buffer cache.
Submit ==
    /\ Free
    /\ fd.nreq < MaxReq
    /\ \E r \in {x \in Requests : x.id = fd.nreq + 1 /\ x.by = "none"} : Fdstrategy(r)

\* fdread(), fdwrite() and fdphysio(): one sector of raw I/O through the static
\* buf, or a wait for it.
Fdphysio(u) ==
    /\ Free
    /\ u \notin fd.raw.asleep \cup {fd.raw.owner}
    /\ fd.nreq < MaxReq
    /\ IF fd.raw.owner # "none"
       THEN fd' = [fd EXCEPT !.raw.wanted = TRUE, !.raw.asleep = @ \cup {u}]
       ELSE \E r \in {x \in Requests : /\ x.id = fd.nreq + 1 /\ x.by = u /\ x.n = 1
                                       /\ x.op \in {"read", "write"}
                                       /\ x.blk < NBlocks} : Fdstrategy(r)

\* The owner of the static buf goes on: it wakes who wants the buf and frees it.
FdphysioEnds ==
    /\ Free /\ fd.raw.done
    /\ fd' = [fd EXCEPT !.raw = [owner |-> "none", done |-> FALSE, wanted |-> FALSE,
                                 asleep |-> IF @.wanted THEN {} ELSE @.asleep]]

-----------------------------------------------------------------------------
\* Move an entry to the front of the LRU order.
ToFront(tbc, i) == <<tbc[i]>> \o RemoveAt(tbc, i)

Mine(f, i) == /\ f.tbc[i].drv = f.run.req.drv
              /\ f.tbc[i].trk = Trk(f.run.blk)

\* read(), write() and format() on the entry at the front: the sector is copied,
\* the block counter goes on, and after the last block the request is done.
CopyBlock(f) ==
    LET r == f.run.req
        s == f.run.blk % NSecs
        w == r.op # "read"
        g == [f EXCEPT !.tbc[1].dirty = @ \/ w,
                       !.tbc[1].data[s] = IF w THEN r.id ELSE @,
                       !.good[r.drv][f.run.blk] = IF w THEN r.id ELSE @,
                       !.run.blk = @ + 1, !.run.at = "find"]
    IN  IF f.run.blk + 1 = r.blk + r.n THEN Iodone(g) ELSE {g}

\* The disk is past its end: the request ends early.
PastEnd ==
    /\ fd.run.at = "find" /\ fd.run.blk >= NBlocks
    /\ fd' \in Iodone(fd)

\* findtrk(), track in the cache: it becomes the most recent one.
FindHit ==
    /\ fd.run.at = "find" /\ fd.run.blk < NBlocks
    /\ \E i \in 1 .. CacheLen :
         Mine(fd, i) /\ fd' \in CopyBlock([fd EXCEPT !.tbc = ToFront(@, i)])

\* findtrk() that writes back only the tracks of the drive it is about to use.
EvictOwn(f, works) ==
    LET e == f.tbc[CacheLen]
        g == [f EXCEPT !.tbc = ToFront(@, CacheLen), !.run.at = "get"]
    IN  IF e.dirty /\ e.drv = f.run.req.drv
        THEN [PutBack(g, e, works) EXCEPT !.mlives[e.drv] = MLife]
        ELSE g

\* The entry findtrk() reuses goes to the front and, when dirty, back to disk.
Evict(f, works) ==
    LET e == f.tbc[CacheLen]
        g == [f EXCEPT !.tbc = ToFront(@, CacheLen), !.run.at = "get"]
    IN  IF e.dirty /\ e.drv # NODRV
        THEN [PutBack(g, e, works) EXCEPT !.mlives[e.drv] = MLife,
                !.nfault = IF works THEN @ ELSE @ + 1]
        ELSE g

\* findtrk(), track not in the cache, first part: the put, which sleeps.
FindMiss ==
    /\ fd.run.at = "find" /\ fd.run.blk < NBlocks
    /\ ~ \E i \in 1 .. CacheLen : Mine(fd, i)
    /\ \E works \in {TRUE} \cup {x \in {FALSE} : fd.nfault < MaxFaults} :
         fd' = Evict(fd, works)

\* The entry takes on its new track.
Fill(f, data, dirty) ==
    [f EXCEPT !.tbc[1] = [drv |-> f.run.req.drv, trk |-> Trk(f.run.blk),
                          dirty |-> dirty, data |-> data],
              !.mlives[f.run.req.drv] = MLife]

\* findtrk(), second part: the track is read, or for the first sector of a
\* track being formatted just zeroed.
FindGet ==
    /\ fd.run.at = "get"
    /\ LET r   == fd.run.req
           fmt == r.op = "format" /\ fd.run.blk % NSecs = 0
       IN  fd' \in CopyBlock(IF fmt
               THEN [Fill(fd, Zeroed, TRUE) EXCEPT
                       !.good[r.drv] = [b \in DOMAIN @ |->
                           IF Trk(b) = Trk(fd.run.blk) THEN 0 ELSE @[b]]]
               ELSE Fill(fd, fd.disk[r.drv][Trk(fd.run.blk)], FALSE))

\* findtrk(), the track cannot be read: the entry is emptied, the drive is to
\* be stopped soon, the request ends with an error.
GetFails ==
    /\ fd.run.at = "get" /\ fd.nfault < MaxFaults
    /\ ~(fd.run.req.op = "format" /\ fd.run.blk % NSecs = 0)
    /\ fd' \in Iodone([fd EXCEPT !.tbc[1].drv = NODRV,
                                 !.mlives[fd.run.req.drv] = 1,
                                 !.nfault = @ + 1])

-----------------------------------------------------------------------------
\* The servant is at the head of its loop.
AtLoop ==
    /\ fd.run = NoRun
    /\ fd.servant \in {"loop", "woken"} \/ (fd.servant = "check" /\ ~fd.chkmot)

\* slave(): the next request is taken; the check of the motors comes after it.
ServeNext ==
    /\ AtLoop /\ fd.queue # << >>
    /\ LET i == Getnext(fd.queue, fd.tbc)
       IN  fd' \in Rundevice([fd EXCEPT !.queue = RemoveAt(@, i), !.servant = "check"],
                           fd.queue[i], "servant")

\* slave(): chkmot starts a round over the drives.
CheckMotors ==
    /\ fd.run = NoRun /\ fd.chkmot
    /\ fd.servant = "check" \/ (fd.servant \in {"loop", "woken"} /\ fd.queue = << >>)
    /\ fd' = [fd EXCEPT !.chkmot = FALSE, !.ages = Drives, !.servant = "round"]

\* One drive of the round: its life runs down, at zero its flush begins.
AgeDrive ==
    /\ fd.servant = "round" /\ fd.flushing = "none"
    /\ \E d \in fd.ages :
         fd' = [fd EXCEPT !.ages = @ \ {d},
                          !.mlives[d] = IF @ = 0 THEN 0 ELSE @ - 1,
                          !.flushing = IF fd.mlives[d] = 1 THEN d ELSE @]

Flushable(f) == {i \in 1 .. CacheLen : f.tbc[i].drv = f.flushing}

\* flush() by the servant, one entry: a dirty one is put, which sleeps, and then
\* it is forgotten.
FlushEntry ==
    /\ fd.flushing # "none" /\ Flushable(fd) # {}
    /\ LET i == CHOOSE x \in Flushable(fd) : \A y \in Flushable(fd) : x <= y
           e == fd.tbc[i]
           g == [fd EXCEPT !.tbc[i].drv = NODRV]
       IN  IF e.dirty
           THEN \/ fd' = PutBack(g, e, TRUE)
                \/ /\ fd.nfault < MaxFaults
                   /\ fd' = [PutBack(g, e, FALSE) EXCEPT !.nfault = @ + 1]
           ELSE fd' = g

\* flush() has been through the cache and stops the motor, whatever fdopen() may
\* have done since the life ran out.
FlushEnds ==
    /\ fd.flushing # "none" /\ Flushable(fd) = {}
    /\ fd' = [fd EXCEPT !.flushing = "none"]

\* The round is over: the clock is to ask for the next one.
RoundEnds ==
    /\ fd.servant = "round" /\ fd.ages = {} /\ fd.flushing = "none"
    /\ fd' = [fd EXCEPT !.timer = TRUE, !.servant = "loop"]

\* Nothing to do: the servant sleeps.
ServantSleeps ==
    /\ AtLoop /\ fd.queue = << >> /\ ~fd.chkmot
    /\ fd' = [fd EXCEPT !.servant = "asleep"]

\* chkprod(): the clock asks for a round over the motors.
Chkprod ==
    /\ Free /\ fd.timer
    /\ fd' = [fd EXCEPT !.timer = FALSE, !.chkmot = TRUE,
                        !.servant = IF @ = "asleep" THEN "woken" ELSE @]

\* fdopen() of the maid device: a process becomes the servant.
BecomeServant ==
    /\ Free /\ fd.servant = "none" /\ fd.nserv < MaxServants
    /\ fd' = [fd EXCEPT !.servant = "loop", !.nserv = @ + 1]

\* A signal ends the sleeping servant, woken or not, unless a request is queued:
\* all drives are flushed at splhi, busy waiting.
RECURSIVE FlushAll(_, _)
FlushAll(fs, ds) ==
    IF ds = {} THEN fs
    ELSE LET d == CHOOSE x \in ds : TRUE
         IN  FlushAll(UNION {Flushes(f, d) : f \in fs}, ds \ {d})

ServantKilled ==
    /\ fd.servant \in {"asleep", "woken"} /\ fd.queue = << >>
    /\ fd' \in FlushAll({[fd EXCEPT !.servant = "none"]}, Drives)

\* fdopen() of a drive whose motor comes up: write protected and opened for
\* writing, or fine.
Fdopen(d) ==
    /\ Free /\ fd.nopen < MaxOpens
    /\ \E life \in {1, MLife} :
         fd' = [fd EXCEPT !.mlives[d] = life, !.nopen = @ + 1]

\* fdclose() that turns the drive off itself.
FdcloseNow(d) ==
    /\ Free /\ fd.nopen < MaxOpens /\ fd.mlives[d] # 0
    /\ fd' = [fd EXCEPT !.mlives[d] = 0, !.nopen = @ + 1]

\* fdclose(): the drive is to be stopped at the next round.
Fdclose(d) ==
    /\ Free /\ fd.nopen < MaxOpens /\ fd.mlives[d] # 0
    /\ fd' = [fd EXCEPT !.mlives[d] = 1, !.nopen = @ + 1]

Next ==
    \/ Submit
    \/ \E u \in Users : Fdphysio(u)
    \/ FdphysioEnds
    \/ PastEnd \/ FindHit \/ FindMiss \/ FindGet \/ GetFails
    \/ ServeNext \/ CheckMotors \/ AgeDrive \/ FlushEntry \/ FlushEnds \/ RoundEnds
    \/ ServantSleeps
    \/ Chkprod \/ BecomeServant \/ ServantKilled
    \/ \E d \in Drives : Fdopen(d) \/ Fdclose(d)

Spec == Init /\ [][Next]_fd

-----------------------------------------------------------------------------
\* The types of the state.
TypeOK ==
    /\ fd.queue \in Seq(Requests)
    /\ Len(fd.tbc) = CacheLen
    /\ fd.servant \in {"none", "loop", "check", "round", "asleep", "woken"}
    /\ fd.flushing \in Drives \cup {"none"}
    /\ fd.mlives \in [Drives -> 0 .. MLife]
    /\ fd.run.who \in {"nobody", "caller", "servant"}

\* What findtrk() would hand out for a block.
View(d, b) ==
    LET at == {i \in 1 .. CacheLen : fd.tbc[i].drv = d /\ fd.tbc[i].trk = Trk(b)}
    IN  IF at = {} THEN fd.disk[d][Trk(b)][b % NSecs]
        ELSE fd.tbc[CHOOSE i \in at : TRUE].data[b % NSecs]

\* Whoever reads a block, now or after any number of evictions and flushes, gets
\* what was last written to it, unless a put of its track failed: the cache and
\* the disks together never lose or age a sector.
BlocksHoldLastWrite ==
    \A d \in Drives : \A b \in 0 .. NBlocks - 1 :
       <<d, Trk(b)>> \in fd.lost \/ View(d, b) = fd.good[d][b]

\* A cached track is never forgotten: its drive is being flushed, or has a life
\* left and the countdown goes on - the servant is at its round, chkmot is set or
\* a timeout is pending - whatever opens, closes and errors of any drive, sleeps
\* of its puts and gets and ends of servants came in between; so that the track
\* will be written and the disk may be taken out.  Where a caller serves itself
\* it flushes before anybody else runs.
CachedTracksAge ==
    \A i \in 1 .. CacheLen :
       LET d == fd.tbc[i].drv
       IN  \/ d = NODRV \/ fd.run.who = "caller"
           \/ /\ fd.servant # "none"
              /\ \/ fd.flushing = d
                 \/ /\ fd.mlives[d] # 0
                    /\ fd.chkmot \/ fd.timer \/ fd.servant = "round"

\* Requests that begin on the same track are served in the order they came,
\* although getnext() takes cached tracks first.
TrackOrder ==
    \A i \in 1 .. Len(fd.queue) :
       LET r == fd.queue[i]
       IN  r.blk < NBlocks => r.id > fd.order[r.drv][Trk(r.blk)]

\* Nobody sleeps on the static buf of fdphysio() while it is free.
RawUsersWake == fd.raw.asleep # {} => fd.raw.owner # "none" /\ fd.raw.wanted
=============================================================================
