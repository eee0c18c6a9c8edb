------------------------------ MODULE Scsi3091 ------------------------------
(***************************************************************************)
(* Disks on the A3000's SCSI bus: dd.c keeps a queue of bufs per disk and  *)
(* one command per disk in the hands of a3091.c, which shares the bus and  *)
(* its WD33C93A among the units.  A target may disconnect in the middle of *)
(* a transfer and reselect at any time, also while the chip is selecting   *)
(* another unit.                                                           *)
(*                                                                         *)
(* ddstrategy() runs at sdspl() and a3091intr() at its level, so each is   *)
(* one step; the chip and the targets move between them.  A C function     *)
(* that works on the adapter's variables is an operator on the record hba. *)
(* A transfer is counted in chunks; command blocks are "rw" and "sense".   *)
(***************************************************************************)
EXTENDS Integers, Sequences

CONSTANTS
  Units,       \* disks on the bus
  Chunks,      \* chunks in the transfer of a buf
  MaxBufs,     \* bound: bufs that ddstrategy() is given for each disk
  MaxDetours,  \* bound: messages a target sends within a command
  Quirks       \* what else targets may do

None == "none"
QuirkKinds == {"midway", "message"}

ASSUME ScsiAssumption ==
  /\ None \notin Units
  /\ Chunks \in Nat \ {0}
  /\ MaxBufs \in [Units -> Nat]
  /\ MaxDetours \in Nat
  /\ Quirks \subseteq QuirkKinds

VARIABLES
  dd,        \* ddtab: state, and the bufs from bhead to btail
  hba,       \* the variables of a3091.c and the registers of the chip
  bus,       \* the unit connected to the chip
  tgt,       \* the targets
  mem,       \* which chunk of the disk each chunk of the first buf holds
  finished   \* history: the bufs given to iodone(), for each disk

vars == <<dd, hba, bus, tgt, mem, finished>>

\* A struct sdcom: the command and the chunks it moves.
Rw    == [cmd |-> "rw", len |-> Chunks]
Sense == [cmd |-> "sense", len |-> 1]

Target(st) == [st |-> st, cmd |-> None, len |-> 0, moved |-> 0, saved |-> 0,
               detours |-> 0, midway |-> FALSE, check |-> FALSE]
NoAddress  == [unit |-> None, cmd |-> None, pos |-> 0]
NoData     == [c \in 1 .. Chunks |-> 0]

Init ==
  /\ dd = [u \in Units |-> [state |-> "FIRST", bufs |-> <<>>]]
  /\ hba = [istate |-> "IDLE", startq |-> <<>>, cur |-> None, dma_on |-> FALSE,
            coms |-> [u \in Units |-> <<>>], tc0 |-> [u \in Units |-> 0],
            ss |-> None, with |-> None, com |-> None, tc |-> 0, sac |-> NoAddress]
  /\ bus = None
  /\ tgt = [u \in Units |-> Target("free")]
  /\ mem = [u \in Units |-> NoData]
  /\ finished = [u \in Units |-> <<>>]

-----------------------------------------------------------------------------
(* a3091.c, on a copy h of hba.                                            *)

\* TC is loaded and, unless nothing is left to move, DMA set up at the place in
\* memory where the saved count says that the transfer stands.
StartDma(h, u) ==
  LET cp == Head(h.coms[u])
      g  == [h EXCEPT !.tc = h.tc0[u]]
  IN  IF h.tc0[u] = 0 THEN g
      ELSE [g EXCEPT !.dma_on = TRUE,
                     !.sac = [unit |-> u, cmd |-> cp.cmd, pos |-> cp.len - h.tc0[u]]]

StopDma(h) == [h EXCEPT !.dma_on = FALSE, !.sac = NoAddress]

\* The chip ignores a command while an interrupt is pending.
WriteCom(h, c) == IF h.ss = None THEN [h EXCEPT !.com = c] ELSE h

\* The first unit waiting to start is selected, if the chip is idle.  The chip's
\* destination and command block are those of cur.
StartAny(h) ==
  IF h.istate # "IDLE" \/ h.startq = <<>> THEN h
  ELSE LET u  == Head(h.startq)
           cp == Head(h.coms[u])
           g  == [h EXCEPT !.startq = Tail(@), !.cur = u,
                           !.tc0[u] = cp.len, !.istate = "STARTING"]
       IN  WriteCom(StartDma(g, u), "select")

UQueue(h, u) ==
  IF h.startq # <<>> THEN [h EXCEPT !.startq = Append(@, u)]
  ELSE StartAny([h EXCEPT !.startq = <<u>>])

\* a3091queue()
Queue(h, u, cp) ==
  LET g == [h EXCEPT !.coms[u] = Append(@, cp)]
  IN  IF h.coms[u] # <<>> THEN g ELSE UQueue(g, u)

\* The first command of u is done with: its next one queues up, if any.
Dequeue(h, u) ==
  LET g == [h EXCEPT !.coms[u] = Tail(@)]
  IN  IF g.coms[u] # <<>> THEN UQueue(g, u) ELSE g

\* Broken variant: no provision for a reselection while a unit is selected.
DfaActionNoRace(istate, ss) ==
  CASE istate = "IDLE" /\ ss = "reselected"                       -> "resume"
    [] istate = "STARTING" /\ ss = "no device"                    -> "abort"
    [] istate \in {"STARTING", "RESUMING"} /\ ss = "save"         -> "save"
    [] istate \in {"STARTING", "RESUMING"} /\ ss = "disconnected" -> "idle"
    [] istate \in {"STARTING", "RESUMING"} /\ ss = "message"      -> "read"
    [] istate \in {"STARTING", "RESUMING"} /\ ss = "status"       -> "end"
    [] istate \in {"STARTING", "RESUMING", "ENDING"}
         /\ ss = "complete"                                       -> "complete"
    [] istate = "MESSAGING" /\ ss = "accept"                      -> "restore"
    [] OTHER                                                      -> "dead"

\* What a3091intr() does with the status in SS, by atab[istate][itab[ss]].
DfaAction(istate, ss) ==
  CASE istate = "IDLE" /\ ss = "reselected"                       -> "resume"
    [] istate = "STARTING" /\ ss = "no device"                    -> "abort"
    [] istate = "STARTING" /\ ss = "reselected"                   -> "requeue"
    [] istate \in {"STARTING", "RESUMING"} /\ ss = "save"         -> "save"
    [] istate \in {"STARTING", "RESUMING"} /\ ss = "disconnected" -> "idle"
    [] istate \in {"STARTING", "RESUMING"} /\ ss = "message"      -> "read"
    [] istate \in {"STARTING", "RESUMING"} /\ ss = "status"       -> "end"
    [] istate \in {"STARTING", "RESUMING", "ENDING"}
         /\ ss = "complete"                                       -> "complete"
    [] istate = "MESSAGING" /\ ss = "accept"                      -> "restore"
    [] OTHER                                                      -> "dead"

-----------------------------------------------------------------------------
(* dd.c, for one disk: d is its dd.                                        *)

\* Broken variants: REQUEST SENSE after a command that did not reach its end; its
\* own result taken for that of the buf.
IHandleSenseAlways(d, okay, good) ==
  IF d.state = "FIRST" /\ ~good
  THEN [d |-> [d EXCEPT !.state = "SENSE"], next |-> <<Sense>>, done |-> <<>>]
  ELSE [d    |-> [state |-> "FIRST", bufs |-> Tail(d.bufs)],
        next |-> IF Tail(d.bufs) # <<>> THEN <<Rw>> ELSE <<>>,
        done |-> <<[buf |-> Head(d.bufs), error |-> TRUE]>>]

IHandleNoRetry(d, okay, good) ==
  IF okay /\ d.state = "FIRST" /\ ~good
  THEN [d |-> [d EXCEPT !.state = "SENSE"], next |-> <<Sense>>, done |-> <<>>]
  ELSE [d    |-> [state |-> "FIRST", bufs |-> Tail(d.bufs)],
        next |-> IF Tail(d.bufs) # <<>> THEN <<Rw>> ELSE <<>>,
        done |-> <<[buf |-> Head(d.bufs), error |-> ~okay \/ ~good]>>]

\* ihandle(): the disk after its command ended, the commands it queues next and
\* the bufs it gives to iodone().  okay: the command got to its end; good: its
\* status is 0.
IHandle(d, okay, good) ==
  IF okay /\ d.state = "FIRST" /\ ~good
  THEN [d |-> [d EXCEPT !.state = "SENSE"], next |-> <<Sense>>, done |-> <<>>]
  ELSE IF okay /\ d.state = "SENSE" /\ good
  THEN [d |-> [d EXCEPT !.state = "RETRY"], next |-> <<Rw>>, done |-> <<>>]
  ELSE LET rest == Tail(d.bufs)
       IN  [d    |-> [state |-> IF rest # <<>> THEN "FIRST" ELSE d.state, bufs |-> rest],
            next |-> IF rest # <<>> THEN <<Rw>> ELSE <<>>,
            done |-> <<[buf |-> Head(d.bufs),
                        error |-> ~okay \/ d.state = "SENSE" \/ ~good]>>]

\* ddstrategy() for a buf of disk u that sdvalid() lets pass.
DdStrategy(u) ==
  /\ Len(finished[u]) + Len(dd[u].bufs) < MaxBufs[u]
  /\ LET b == Len(finished[u]) + Len(dd[u].bufs) + 1
     IN  IF dd[u].bufs # <<>>
         THEN /\ dd' = [dd EXCEPT ![u].bufs = Append(@, b)]
              /\ UNCHANGED hba
         ELSE /\ dd' = [dd EXCEPT ![u] = [state |-> "FIRST", bufs |-> <<b>>]]
              /\ hba' = Queue(hba, u, Rw)
  /\ UNCHANGED <<bus, tgt, mem, finished>>
-----------------------------------------------------------------------------
(* a3091intr().                                                            *)

\* Reading SS gives action a of the table; the rest works on Served.  The field
\* `with' is what SI, DR or TS holds when SS has its value.
Intr(a) == hba.ss # None /\ DfaAction(hba.istate, hba.ss) = a
Served  == [hba EXCEPT !.ss = None, !.with = None]

\* The command of the current unit ends: ihandle() runs, then another starts.
EndCommand(okay, good) ==
  LET u == hba.cur
      r == IHandle(dd[u], okay, good)
      g == Dequeue(StopDma(Served), u)
      h == IF r.next # <<>> THEN Queue(g, u, Head(r.next)) ELSE g
  IN  /\ hba' = StartAny([h EXCEPT !.istate = "IDLE"])
      /\ dd' = [dd EXCEPT ![u] = r.d]
      /\ finished' = [finished EXCEPT ![u] = @ \o r.done]
      /\ mem' = IF r.done # <<>> THEN [mem EXCEPT ![u] = NoData] ELSE mem
      /\ UNCHANGED <<bus, tgt>>

Complete == Intr("complete") /\ EndCommand(TRUE, hba.with = "good")
Abort    == Intr("abort") /\ EndCommand(FALSE, FALSE)

Adapter(h) == hba' = h /\ UNCHANGED <<dd, bus, tgt, mem, finished>>

Dead == Intr("dead") /\ Adapter([Served EXCEPT !.istate = "DEAD"])

\* Go on with the command of the unit in SI, which reselected.
ResumeUnit(h) ==
  LET u == hba.with
  IN  IF h.coms[u] = <<>> THEN [h EXCEPT !.istate = "DEAD"]
      ELSE WriteCom([StartDma(h, u) EXCEPT !.cur = u, !.istate = "RESUMING"],
                    "transfer")

Resume == Intr("resume") /\ Adapter(ResumeUnit(Served))

\* Broken variant: the unit that was being selected is forgotten.
RequeueForgets == Intr("requeue") /\ Adapter(ResumeUnit(StopDma(Served)))

\* A unit was being selected when another reselected: it queues up again.
Requeue == Intr("requeue") /\ Adapter(ResumeUnit(UQueue(StopDma(Served), hba.cur)))

\* Broken variant: the count is not saved.
SavePointersNot ==
  /\ Intr("save")
  /\ Adapter(WriteCom([Served EXCEPT !.istate = "RESUMING"], "transfer"))

\* Save Data Pointers: the count that is left is kept with the unit.
SavePointers ==
  /\ Intr("save")
  /\ Adapter(WriteCom([Served EXCEPT !.tc0[hba.cur] = hba.tc, !.istate = "RESUMING"],
                      "transfer"))

\* Broken variant: the next unit is not started.
DisconnectedNoStart ==
  /\ Intr("idle")
  /\ Adapter([StopDma(Served) EXCEPT !.istate = "IDLE"])

\* The unit will reselect: the bus is for the next one.
Disconnected ==
  /\ Intr("idle")
  /\ Adapter(StartAny([StopDma(Served) EXCEPT !.istate = "IDLE"]))

\* A message is read, and must be Restore Pointers.
ReadMessage ==
  /\ Intr("read")
  /\ Adapter(WriteCom([Served EXCEPT !.istate = IF hba.with = "restore" THEN "MESSAGING"
                                                ELSE "DEAD"], "receive"))

\* TC, though not the DMA address, goes back to where the pointers were saved.
RestorePointers ==
  /\ Intr("restore")
  /\ Adapter(WriteCom([Served EXCEPT !.tc = hba.tc0[hba.cur], !.istate = "RESUMING"],
                      "transfer"))

\* The target is at its status with chunks left to move: they are given up.
AwaitEnd ==
  /\ Intr("end")
  /\ Adapter(WriteCom([Served EXCEPT !.tc = 0, !.istate = "ENDING"], "transfer"))

A3091Intr == Complete \/ Abort \/ Dead \/ Resume \/ Requeue \/ SavePointers
             \/ Disconnected \/ ReadMessage \/ RestorePointers \/ AwaitEnd

-----------------------------------------------------------------------------
(* The chip and the targets (external).                                    *)

Raise(code, with) == [hba EXCEPT !.ss = code, !.with = with, !.com = None]

\* The unit that is selected answers, and gets the command; or none does.
Answer ==
  /\ hba.com = "select"
  /\ bus' = hba.cur
  /\ hba' = [hba EXCEPT !.com = "transfer"]
  /\ LET cdb == Head(hba.coms[hba.cur])
     IN  tgt' = [tgt EXCEPT ![hba.cur] =
                   [Target("busy") EXCEPT !.cmd = cdb.cmd, !.len = cdb.len,
                                          !.check = tgt[hba.cur].check /\ cdb = Sense]]
  /\ UNCHANGED <<dd, mem, finished>>

NoAnswer ==
  /\ hba.com = "select"
  /\ hba' = Raise("no device", None)
  /\ UNCHANGED <<dd, bus, tgt, mem, finished>>

\* A unit that disconnected comes back; a selection under way is given up.
Reselect(u) ==
  /\ tgt[u].st = "away"
  /\ bus = None /\ hba.ss = None /\ hba.com \in {None, "select"}
  /\ bus' = u
  /\ hba' = Raise("reselected", u)
  /\ tgt' = [tgt EXCEPT ![u].st = "busy", ![u].midway = FALSE]
  /\ UNCHANGED <<dd, mem, finished>>

Active(u) == bus = u /\ hba.com = "transfer" /\ tgt[u].st = "busy"

\* A chunk goes to memory, where DMA stands.
Move(u) ==
  /\ Active(u)
  /\ tgt[u].moved < tgt[u].len
  /\ hba.tc > 0 /\ hba.dma_on
  /\ hba' = [hba EXCEPT !.tc = @ - 1, !.sac.pos = @ + 1]
  /\ tgt' = [tgt EXCEPT ![u].moved = @ + 1]
  /\ mem' = IF hba.sac.cmd = "rw" /\ hba.sac.pos < Chunks
            THEN [mem EXCEPT ![hba.sac.unit][hba.sac.pos + 1] =
                    IF hba.sac.unit = u THEN tgt[u].moved + 1 ELSE 0]
            ELSE mem
  /\ UNCHANGED <<dd, bus, finished>>

\* A message interrupts the transfer.
Detour(u) ==
  /\ Active(u)
  /\ tgt[u].detours < MaxDetours
  /\ UNCHANGED <<dd, mem, finished>>

SaveMessage(u) ==
  /\ Detour(u)
  /\ hba' = Raise("save", None)
  /\ tgt' = [tgt EXCEPT ![u].saved = tgt[u].moved, ![u].detours = @ + 1]
  /\ UNCHANGED bus

\* The target goes on later from where the pointers were saved.
DisconnectMessage(u) ==
  /\ Detour(u)
  /\ hba' = Raise("disconnected", None)
  /\ tgt' = [tgt EXCEPT ![u].st = "away", ![u].moved = tgt[u].saved,
                        ![u].detours = @ + 1]
  /\ bus' = None

RestoreMessage(u) ==
  /\ Detour(u)
  /\ tgt[u].moved = tgt[u].saved \/ "midway" \in Quirks
  /\ hba' = Raise("message", "restore")
  /\ tgt' = [tgt EXCEPT ![u].moved = tgt[u].saved, ![u].detours = @ + 1,
                        ![u].midway = @ \/ tgt[u].moved # tgt[u].saved]
  /\ UNCHANGED bus

OtherMessage(u) ==
  /\ Detour(u)
  /\ "message" \in Quirks
  /\ hba' = Raise("message", "other")
  /\ tgt' = [tgt EXCEPT ![u].detours = @ + 1]
  /\ UNCHANGED bus

\* The byte of a message has been read.
AcceptMessage ==
  /\ hba.com = "receive"
  /\ hba' = Raise("accept", None)
  /\ UNCHANGED <<dd, bus, tgt, mem, finished>>

\* The target has its status ready with chunks left to move.
EarlyStatus(u) ==
  /\ Active(u)
  /\ hba.tc > 0
  /\ hba' = Raise("status", None)
  /\ tgt' = [tgt EXCEPT ![u].st = "status"]
  /\ UNCHANGED <<dd, bus, mem, finished>>

\* Status and Command Complete; a status that is not good asks for REQUEST SENSE.
Status(u, good) ==
  /\ bus = u /\ hba.com = "transfer"
  /\ tgt[u].st = "status" \/ (tgt[u].st = "busy" /\ hba.tc = 0)
  /\ good => tgt[u].moved = tgt[u].len
  /\ hba' = Raise("complete", IF good THEN "good" ELSE "check")
  /\ tgt' = [tgt EXCEPT ![u] = [Target("free") EXCEPT !.check = ~good]]
  /\ bus' = None
  /\ UNCHANGED <<dd, mem, finished>>

Chip ==
  \/ Answer \/ NoAnswer \/ AcceptMessage
  \/ \E u \in Units :
       \/ Reselect(u) \/ Move(u) \/ EarlyStatus(u)
       \/ SaveMessage(u) \/ DisconnectMessage(u) \/ RestoreMessage(u) \/ OtherMessage(u)
       \/ \E good \in BOOLEAN : Status(u, good)

Done ==
  /\ hba.ss = None
  /\ hba.istate = "DEAD" \/ \A u \in Units : Len(finished[u]) = MaxBufs[u]
  /\ UNCHANGED vars

Next == A3091Intr \/ Chip \/ (\E u \in Units : DdStrategy(u)) \/ Done

Spec == Init /\ [][Next]_vars

\* An interrupt is served and the bus moves on; nobody has to use a disk.
FairSpec == Spec /\ WF_vars(A3091Intr) /\ WF_vars(Chip)

-----------------------------------------------------------------------------
(* Properties.                                                             *)

Com == {Rw, Sense}
States == {"IDLE", "STARTING", "RESUMING", "DEAD", "MESSAGING", "ENDING"}

HbaTypeOK ==
  /\ hba.istate \in States
  /\ hba.startq \in Seq(Units) /\ hba.coms \in [Units -> Seq(Com)]
  /\ {hba.cur, hba.sac.unit} \subseteq Units \cup {None}
  /\ hba.tc0 \in [Units -> 0 .. Chunks] /\ hba.tc \in 0 .. Chunks
  /\ hba.dma_on \in BOOLEAN
  /\ hba.sac.pos \in 0 .. Chunks * (MaxDetours + 1)

TypeOK ==
  /\ HbaTypeOK
  /\ dd \in [Units -> [state : {"FIRST", "SENSE", "RETRY"}, bufs : Seq(Nat)]]
  /\ bus \in Units \cup {None}
  /\ \A u \in Units : /\ tgt[u].st \in {"free", "busy", "status", "away"}
                      /\ tgt[u].saved \in 0 .. tgt[u].moved
                      /\ tgt[u].moved \in 0 .. tgt[u].len
  /\ mem \in [Units -> [1 .. Chunks -> 0 .. Chunks]]
  /\ finished \in [Units -> Seq([buf : Nat, error : BOOLEAN])]

\* Each disk with work is waiting to start, or has the bus, or is away and will
\* reselect: exactly one of the three, whoever wins the bus when.  What is
\* pending at the chip may be ahead of a3091intr() by one step.
InStartq(u) == \E i \in 1 .. Len(hba.startq) : hba.startq[i] = u
HasBus(u)   == hba.cur = u /\ hba.istate # "IDLE"
Away(u)     == tgt[u].st = "away" \/ (bus = u /\ hba.ss = "reselected")

UnitInOnePlace ==
  hba.istate # "DEAD" =>
    \A u \in Units :
      /\ \A i, j \in 1 .. Len(hba.startq) :
           hba.startq[i] = u /\ hba.startq[j] = u => i = j
      /\ (hba.coms[u] # <<>>) = (InStartq(u) \/ HasBus(u) \/ Away(u))
      /\ ~(InStartq(u) /\ (HasBus(u) \/ Away(u)))
      /\ HasBus(u) /\ Away(u) => hba.ss = "disconnected"

\* Whenever the CPU leaves the adapter idle no disk waits to start: only
\* startany() starts one, and no later event is sure to call it.
NoneWaitsWhenIdle == hba.istate = "IDLE" => hba.startq = <<>>

\* The automaton has an action for every order in which targets that follow the
\* protocol of its comment disconnect, reselect, save pointers and end.
NeverDead == hba.istate # "DEAD"

\* When a target is about to move a chunk, the chip expects as many as it has
\* left, and DMA stands at its place in the buffer of that unit's command: after
\* any disconnection, with the pointers saved or not.  The exception is a target
\* that restores its pointers with chunks moved since: TC goes back and DMA not.
DmaInStep ==
  \A u \in Units :
    Active(u) /\ ~tgt[u].midway =>
      /\ hba.tc = tgt[u].len - tgt[u].moved
      /\ hba.tc > 0 =>
           /\ hba.dma_on
           /\ hba.sac = [unit |-> u, cmd |-> tgt[u].cmd, pos |-> tgt[u].moved]

\* REQUEST SENSE reaches the target before anything else does that would drop
\* what it has to report, also if other disks have used the bus since.
SenseFindsCheck ==
  [][\A u \in Units :
       bus # u /\ bus' = u /\ tgt[u].st = "free" /\ tgt'[u].cmd = "sense"
         => tgt[u].check]_vars
=============================================================================
