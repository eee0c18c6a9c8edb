----------------------------- MODULE FloppyDrive -----------------------------
(***************************************************************************)
(* The drives below the floppy driver, floppy/floph.c: motors, the one     *)
(* selected drive, seeking, recalibrating and the DMA of a track.  The     *)
(* servant of flop.c reads, writes and stops; fdopen() of another process  *)
(* starts a motor and looks at the write protection.  With a servant every *)
(* fldelay() sleeps, and its static `waiting' is shared, so that a delay   *)
(* may end early or late: a delay is a point where the other process may   *)
(* run, of any length.                                                     *)
(***************************************************************************)
EXTENDS Integers, FiniteSets

CONSTANTS
    Drives,      \* the drives
    NCyl,        \* cylinders of a drive; TRKPCYL = 2 tracks each
    MaxOps,      \* bound on operations of the servant
    MaxOpens,    \* bound on opens
    MaxFaults    \* bound on motors that fail to come up and failed recals

VARIABLE fh

NoDrive == "none"
Lost == -1
Tracks == 0 .. 2 * NCyl - 1
Cyl(t) == t \div 2
Side(t) == IF t = Lost THEN 1 ELSE t % 2
Procs == {"servant", "opener"}
Idle == [pc |-> "idle", op |-> "flok", drv |-> NoDrive, trk |-> 0, prb |-> NoDrive, by |-> 0]

\* on and trk are spindle[], selected the driver's idea of the selected drive;
\* line and side what port B selects; head where the heads are and up which
\* drives have come up to speed; dma where the running transfer goes on; raced
\* becomes true when a process starts on the drives while the other is at work.
Init ==
    /\ fh = [on |-> [d \in Drives |-> FALSE], trk |-> [d \in Drives |-> Lost],
             selected |-> NoDrive, line |-> NoDrive, side |-> 0,
             head |-> [d \in Drives |-> NCyl - 1], up |-> {},
             p |-> [x \in Procs |-> Idle], strays |-> FALSE, raced |-> FALSE,
             nops |-> 0, nopens |-> 0, nfault |-> 0]

-----------------------------------------------------------------------------
\* motor(drv, FALSE): a stopped drive is never left selected.
MotorOff(f, d) ==
    IF f.on[d]
    THEN [f EXCEPT !.on[d] = FALSE, !.up = @ \ {d},
                   !.line = NoDrive, !.selected = NoDrive]
    ELSE IF f.selected = d THEN [f EXCEPT !.line = NoDrive, !.selected = NoDrive]
    ELSE f

\* motor(drv, TRUE) of a stopped drive, up to the wait for DSKRDY.
MotorOn(f, d) ==
    [f EXCEPT !.on[d] = TRUE, !.selected = d, !.line = d, !.side = Side(f.trk[d])]

\* select(): the drive and the side of the track it is on.
Select(f, d) ==
    IF f.selected = d THEN f
    ELSE [f EXCEPT !.selected = d, !.line = d, !.side = Side(f.trk[d])]

\* The head of whichever drive port B selects moves one cylinder.
Pulse(f, by) ==
    IF f.line = NoDrive THEN f
    ELSE [f EXCEPT !.head[f.line] =
            IF @ + by \in 0 .. NCyl - 1 THEN @ + by ELSE @]

-----------------------------------------------------------------------------
Other(x) == IF x = "servant" THEN "opener" ELSE "servant"

\* While the servant polls for the index no other process runs.
Free(x) == x = "opener" => fh.p["servant"].pc # "index"

\* A process begins: it may now be in the other's way.
Begin(f, x, op, d, t) ==
    [f EXCEPT !.p[x] = [Idle EXCEPT !.pc = "motor", !.op = op, !.drv = d, !.trk = t],
              !.raced = @ \/ f.p[Other(x)].pc # "idle"]

Goto(f, x, pc) == [f EXCEPT !.p[x].pc = pc]
Done(f, x) == [f EXCEPT !.p[x] = Idle]

\* seek(): nothing to do on the right track, recal() on an unknown one; else
\* the side and direction are set, and the new track is noted before the steps.
\* The loops below step with a copy of port B taken here.
Seek(f) ==
    LET j == f.p["servant"]
        by == Cyl(j.trk) - Cyl(f.trk[j.drv])
    IN  IF f.trk[j.drv] = j.trk THEN Goto(f, "servant", "start")
        ELSE IF f.trk[j.drv] = Lost
        THEN [Goto(f, "servant", "recal") EXCEPT !.side = 0, !.p["servant"].prb = f.line]
        ELSE [Goto(f, "servant", IF by = 0 THEN "start" ELSE "step") EXCEPT
                !.trk[j.drv] = j.trk, !.side = Side(j.trk),
                !.p["servant"].prb = f.line, !.p["servant"].by = by]

\* After motor() came back true: fdopen() goes on to flwprot(), the servant to
\* select() and seek().
Spun(f, x) ==
    LET g == Select(f, f.p[x].drv)
    IN  IF x = "opener" THEN Done(g, x) ELSE Seek(g)

\* motor(drv, TRUE): a drive whose motor is on is taken to be ready.
Motored(f, x) ==
    LET d == f.p[x].drv
    IN  IF f.on[d] THEN Spun(f, x) ELSE Goto(MotorOn(f, d), x, "spin")

\* flread(), flwrite(), fliwrite(), flok(): motor(drv, TRUE) at their start.
Motor(x) ==
    /\ Free(x) /\ fh.p[x].pc = "motor"
    /\ fh' = Motored(fh, x)

\* motor() finds DSKRDY of the selected drive.
Ready(x) ==
    /\ Free(x) /\ fh.p[x].pc = "spin" /\ fh.line \in fh.up
    /\ fh' = Spun(fh, x)

\* motor() has napped MOTOR_MAX_NAPS times: the motor is stopped, the caller
\* told.
GiveUp(x) ==
    /\ Free(x) /\ fh.p[x].pc = "spin" /\ fh.line \notin fh.up /\ fh.nfault < MaxFaults
    /\ fh' = [Done(MotorOff(fh, fh.p[x].drv), x) EXCEPT !.nfault = @ + 1]

\* A drive comes up to speed (external).
SpinUp ==
    \E d \in Drives \ fh.up :
       fh.on[d] /\ fh' = [fh EXCEPT !.up = @ \cup {d}]

\* One step of seek(), and the delay after it.
Step ==
    LET j == fh.p["servant"]
        s == IF j.by > 0 THEN 1 ELSE -1
    IN  /\ j.pc = "step"
        /\ fh' = [Pulse([fh EXCEPT !.line = j.prb, !.side = Side(j.trk)], s) EXCEPT
                    !.p["servant"].by = @ - s,
                    !.p["servant"].pc = IF j.by = s THEN "start" ELSE "step"]

\* recal(): stepping in for a while, then out until the track 0 flag of the
\* selected drive is there.
RecalIn ==
    /\ fh.p["servant"].pc = "recal"
    /\ \E n \in 0 .. 1 :
         fh' = Goto(Pulse([fh EXCEPT !.line = fh.p["servant"].prb], n), "servant", "out")

\* recal() that takes one step out for the flag.
RecalOutOnce ==
    LET f == Pulse([fh EXCEPT !.line = fh.p["servant"].prb], -1)
    IN  /\ fh.p["servant"].pc = "out"
        /\ fh' = Seek([f EXCEPT !.trk[fh.p["servant"].drv] = 0])

\* One step out; at track 0 seek() goes on from there.
RecalOut ==
    LET f == Pulse([fh EXCEPT !.line = fh.p["servant"].prb], -1)
    IN  /\ fh.p["servant"].pc = "out"
        /\ fh' = IF f.line # NoDrive /\ f.head[f.line] = 0
                 THEN Seek([f EXCEPT !.trk[fh.p["servant"].drv] = 0])
                 ELSE f

\* recal() never sees the flag: the motor is stopped.
RecalFails ==
    /\ fh.p["servant"].pc = "out" /\ fh.nfault < MaxFaults
    /\ fh' = [Done(MotorOff(fh, fh.p["servant"].drv), "servant") EXCEPT !.nfault = @ + 1]

\* Where a transfer goes now: the selected drive, its cylinder, the side.
OnTrack(f) ==
    LET j == f.p["servant"]
    IN  /\ f.line = j.drv /\ f.head[j.drv] = Cyl(j.trk) /\ f.side = Side(j.trk)

\* flread() and flwrite(): dsklen starts the DMA, then the long delay.
StartDma ==
    /\ fh.p["servant"].pc = "start" /\ fh.p["servant"].op # "fliwrite"
    /\ fh' = Goto(fh, "servant", "dma")

\* flwrite() finds the selected disk write protected and gives up.
WriteProtected ==
    /\ fh.p["servant"].pc = "start" /\ fh.p["servant"].op = "flwrite"
    /\ fh' = Done(fh, "servant")

\* fliwrite(), on its track, polls for the index pulse at splhi, for ever if
\* need be.
WaitIndex ==
    /\ fh.p["servant"].pc = "start" /\ fh.p["servant"].op = "fliwrite"
    /\ fh' = Goto(fh, "servant", "index")

\* The index pulse of the selected drive: fliwrite() calls flwrite(), which
\* begins at motor() again.
IndexSeen ==
    /\ fh.p["servant"].pc = "index" /\ fh.line \in fh.up
    /\ fh' = Motored([Goto(fh, "servant", "motor") EXCEPT !.p["servant"].op = "flwrite"],
                     "servant")

\* AIEDBLK: the transfer is over; strays records whether it left its track.
EndDma ==
    /\ fh.p["servant"].pc = "dma"
    /\ fh' = Done([fh EXCEPT !.strays = @ \/ ~OnTrack(fh)], "servant")

-----------------------------------------------------------------------------
\* The servant reads or writes a track.
FlreadFlwrite ==
    /\ fh.p["servant"].pc = "idle" /\ fh.nops < MaxOps
    /\ \E d \in Drives, t \in Tracks, op \in {"flread", "flwrite", "fliwrite"} :
         fh' = [Begin(fh, "servant", op, d, t) EXCEPT !.nops = @ + 1]

\* The servant flushes a drive: flstop().
Flstop ==
    /\ fh.p["servant"].pc = "idle" /\ fh.nops < MaxOps
    /\ \E d \in Drives :
         fh' = [MotorOff(fh, d) EXCEPT !.nops = @ + 1,
                  !.raced = @ \/ fh.p["opener"].pc # "idle"]

\* The track read was not the one expected: fllost().
Fllost ==
    /\ fh.p["servant"].pc = "idle" /\ fh.nops < MaxOps
    /\ \E d \in Drives :
         fh' = [fh EXCEPT !.trk[d] = Lost, !.nops = @ + 1]

\* fdopen(): flok() and flwprot().
FlokFlwprot ==
    /\ Free("opener") /\ fh.p["opener"].pc = "idle" /\ fh.nopens < MaxOpens
    /\ \E d \in Drives :
         fh' = [Begin(fh, "opener", "flok", d, 0) EXCEPT !.nopens = @ + 1]

Next ==
    \/ FlreadFlwrite \/ Flstop \/ Fllost \/ FlokFlwprot
    \/ \E x \in Procs : Motor(x) \/ Ready(x) \/ GiveUp(x)
    \/ SpinUp \/ Step \/ RecalIn \/ RecalOut \/ RecalFails
    \/ StartDma \/ WriteProtected \/ WaitIndex \/ IndexSeen \/ EndDma

Spec == Init /\ [][Next]_fh

-----------------------------------------------------------------------------
\* The types of the state.
TypeOK ==
    /\ fh.on \in [Drives -> BOOLEAN]
    /\ fh.trk \in [Drives -> Tracks \cup {Lost}]
    /\ fh.head \in [Drives -> 0 .. NCyl - 1]
    /\ {fh.selected, fh.line} \subseteq Drives \cup {NoDrive}
    /\ fh.side \in 0 .. 1

\* The driver knows where the heads are: as long as no process started on the
\* drives while the other was at work, a drive that is not lost has its head on
\* the cylinder spindle[] says, after any seeks, recals, failures and stops.
HeadWhereThought ==
    fh.raced \/ fh.p["servant"].pc # "idle" \/
    \A d \in Drives : fh.trk[d] # Lost => fh.head[d] = Cyl(fh.trk[d])

\* Only such an overlap can make a transfer leave its track: alone, select(),
\* seek() and recal() put every DMA on the drive, cylinder and side asked for.
StraysOnlyWhenRaced == fh.strays => fh.raced

\* motor(): the light of a drive goes off with its motor.
StoppedNotSelected ==
    fh.raced \/ fh.selected = NoDrive \/ fh.on[fh.selected]
=============================================================================
