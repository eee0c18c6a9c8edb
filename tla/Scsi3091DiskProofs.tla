------------------------- MODULE Scsi3091DiskProofs -------------------------
(***************************************************************************)
(* What the stack of Scsi3091 does with the commands and their data, for   *)
(* any number of disks, requests and chunks: the automaton has an action   *)
(* for every interrupt, DMA stands where the target does, and dd.c ends    *)
(* requests as DiskQueue says.                                             *)
(***************************************************************************)
EXTENDS Scsi3091Disk, Scsi3091Proofs

-----------------------------------------------------------------------------
(* The inductive invariant.                                                *)

\* The disk and its commands: the adapter has one for each disk with bufs, for
\* its first buf or for the sense of it.
Outcomes == [buf : Nat, error : BOOLEAN]
DdTypes  == [state : {"FIRST", "SENSE", "RETRY"}, bufs : Seq(Nat)]
ComOf(d) == IF d.state = "SENSE" THEN Sense ELSE Rw

WorkInv ==
  /\ dd \in [Units -> DdTypes] /\ finished \in [Units -> Seq(Outcomes)]
  /\ \A u \in Units : /\ dd[u].bufs = <<>> <=> hba.coms[u] = <<>>
                      /\ hba.coms[u] # <<>> => hba.coms[u] = <<ComOf(dd[u])>>

\* How a target may interrupt its transfer.
Interruptions == {"save", "disconnected", "message", "status", "complete"}

\* What the automaton, the chip's command and its status may be together.
Talk(h) ==
  \/ h.istate = "IDLE" /\ h.com = None /\ h.ss \in {None, "reselected"}
  \/ h.istate = "STARTING" /\ h.com \in {"select", "transfer"} /\ h.ss = None
  \/ /\ h.istate = "STARTING" /\ h.com = None
     /\ h.ss \in {"no device", "reselected"} \cup Interruptions
  \/ h.istate = "RESUMING" /\ h.com = "transfer" /\ h.ss = None
  \/ h.istate = "RESUMING" /\ h.com = None /\ h.ss \in Interruptions
  \/ h.istate = "MESSAGING" /\ h.com = "receive" /\ h.ss = None
  \/ h.istate = "MESSAGING" /\ h.com = None /\ h.ss = "accept"
  \/ h.istate = "ENDING" /\ h.com = "transfer" /\ h.ss = None
  \/ h.istate = "ENDING" /\ h.com = None /\ h.ss = "complete"

Selecting(h) == h.com = "select" \/ h.ss = "no device"

\* Which target the bus belongs to and what that target is at.
Where(h, t, b) ==
  /\ \A u \in Units : /\ t[u].st \in {"free", "away", "busy", "status"}
                      /\ t[u].st \in {"busy", "status"} => b = u
  /\ b # None => h.ss = "reselected" \/ (h.istate # "IDLE" /\ b = h.cur)
  /\ Selecting(h) \/ h.ss \in {"complete", "disconnected"} => b = None
  /\ h.istate # "IDLE" /\ (Selecting(h) \/ h.ss \in {"complete", "reselected"})
       => t[h.cur].st = "free"
  /\ h.ss = "reselected" => t[b].st = "busy"
  /\ h.com = "transfer" => t[h.cur].st = IF h.istate = "ENDING" THEN "status" ELSE "busy"
  /\ h.com = "receive" \/ h.ss \in {"save", "message", "accept"} => t[h.cur].st = "busy"
  /\ h.ss = "status" => t[h.cur].st = "status"

\* The target stands where its pointers were saved.
AtSaved(h, t, b, u) ==
  \/ t[u].st = "away"
  \/ b = u /\ \/ h.ss \in {"reselected", "save"} \/ h.istate = "MESSAGING"
              \/ h.ss = "message" /\ h.with = "restore"

\* TC and DMA stand where the target x of u does.
InStep(h, x, u) ==
  /\ h.tc = x.len - x.moved
  /\ h.tc > 0 => h.dma_on /\ h.sac = [unit |-> u, cmd |-> x.cmd, pos |-> x.moved]

Numbers(x) == /\ x.moved \in Nat /\ x.saved \in Nat /\ x.len \in Nat
              /\ x.saved <= x.moved /\ x.moved <= x.len

\* A target carries out the unit's first command; the count kept with the unit is
\* what was left when the pointers were saved, but for a save the chip is ahead with.
CountOf(h, t, b, u) ==
  t[u].st # "free" =>
    /\ t[u].cmd = Head(h.coms[u]).cmd /\ t[u].len = Head(h.coms[u]).len
    /\ Numbers(t[u])
    /\ t[u].st # "status" /\ ~(b = u /\ h.ss = "save") => h.tc0[u] = t[u].len - t[u].saved
    /\ t[u].st # "status" /\ AtSaved(h, t, b, u) => t[u].moved = t[u].saved
    /\ t[u].st = "busy" /\ (h.com = "transfer" \/ h.ss = "save") => h.tc = t[u].len - t[u].moved
    /\ t[u].st = "busy" /\ h.ss # "reselected" /\ ~t[u].midway => InStep(h, t[u], u)

Counts(h, t, b) == \A u \in Units : CountOf(h, t, b, u)

\* TC and DMA are set up for the unit that is selected.
Ready(h) ==
  h.com = "select" =>
    /\ h.tc0[h.cur] = Head(h.coms[h.cur]).len /\ h.tc = h.tc0[h.cur] /\ h.dma_on
    /\ h.sac = [unit |-> h.cur, cmd |-> Head(h.coms[h.cur]).cmd, pos |-> 0]

\* A target that is to be asked for its sense has some to report.
Checks(h, t) ==
  /\ \A u \in Units :
       h.coms[u] = <<Sense>> /\ t[u].st = "free"
         /\ ~(h.cur = u /\ h.istate # "IDLE" /\ h.ss = "complete") => t[u].check
  /\ h.ss = "complete" /\ h.with # "good" => t[h.cur].check

BusInv(h, t, b) ==
  Talk(h) /\ Where(h, t, b) /\ Counts(h, t, b) /\ Ready(h) /\ Checks(h, t)

IsCounts(h) == h.tc0 = [u \in Units |-> h.tc0[u]]

StackInv ==
  /\ ScsiInv /\ WorkInv /\ IsCounts(hba)
  /\ hba.istate = "DEAD" => hba.com \in {None, "receive"}
  /\ hba.istate # "DEAD" => BusInv(hba, tgt, bus)

\* For targets that send no message but those the automaton expects.
MessageInv == hba.istate # "DEAD" /\ (hba.ss = "message" => hba.with = "restore")

\* For targets that restore their pointers only where they were saved: what has
\* been moved of the first buf is in its place.
DataInv ==
  /\ \A u \in Units : ~tgt[u].midway
  /\ mem \in [Units -> [1 .. Chunks -> Nat]]
  /\ \A u \in Units : tgt[u].st # "free" /\ tgt[u].cmd = "rw" =>
        \A c \in 1 .. tgt[u].moved : mem[u][c] = c
  /\ \A u \in Units : dd[u].bufs = <<>> => mem[u] = NoData
  /\ hba.ss = "complete" /\ hba.with = "good" /\ hba.istate # "DEAD" /\ hba.coms[hba.cur] = <<Rw>>
       => \A c \in 1 .. Chunks : mem[hba.cur][c] = c

-----------------------------------------------------------------------------
(* What the functions of a3091.c do to all the fields.                     *)

Keeps(g, h, changed) == IsHba(g) /\ \A f \in Fields \ changed : g[f] = h[f]

LEMMA StopDmaKeeps ==
  ASSUME NEW h, IsHba(h)
  PROVE  Keeps(StopDma(h), h, {"dma_on", "sac"})
BY DEF IsHba, StopDma, Fields, Keeps

LEMMA StartDmaKeeps ==
  ASSUME NEW h, NEW u, IsHba(h)
  PROVE  /\ Keeps(StartDma(h, u), h, {"tc", "dma_on", "sac"})
         /\ StartDma(h, u).tc = h.tc0[u]
         /\ h.tc0[u] # 0 =>
              /\ StartDma(h, u).dma_on
              /\ StartDma(h, u).sac = [unit |-> u, cmd |-> Head(h.coms[u]).cmd,
                                       pos |-> Head(h.coms[u]).len - h.tc0[u]]
<1> DEFINE g == [h EXCEPT !.tc = h.tc0[u]]
           a == [unit |-> u, cmd |-> Head(h.coms[u]).cmd, pos |-> Head(h.coms[u]).len - h.tc0[u]]
           k == [g EXCEPT !.dma_on = TRUE, !.sac = a]
<1>1. Keeps(g, h, {"tc"}) /\ g.tc = h.tc0[u]
  BY DEF IsHba, Fields, Keeps
<1>2. Keeps(k, g, {"dma_on", "sac"}) /\ k.dma_on = TRUE /\ k.sac = a
  <2>1. IsHba(g)
    BY <1>1 DEF Keeps
  <2> HIDE DEF g, a
  <2> QED
    BY <2>1 DEF IsHba, Fields, Keeps
<1>3. StartDma(h, u) = IF h.tc0[u] = 0 THEN g ELSE k
  BY DEF StartDma
<1> HIDE DEF g, a, k
<1>4. Keeps(k, h, {"tc", "dma_on", "sac"}) /\ k.tc = h.tc0[u]
  BY <1>1, <1>2 DEF Keeps, Fields
<1>5. Keeps(g, h, {"tc", "dma_on", "sac"})
  BY <1>1 DEF Keeps
<1> QED
  BY <1>1, <1>2, <1>3, <1>4, <1>5 DEF a

LEMMA WriteComKeeps ==
  ASSUME NEW h, NEW c, IsHba(h)
  PROVE  /\ Keeps(WriteCom(h, c), h, {"com"})
         /\ WriteCom(h, c).com = IF h.ss = None THEN c ELSE h.com
BY DEF IsHba, WriteCom, Fields, Keeps

LEMMA StoreKeeps ==
  ASSUME NEW h, NEW x, IsHba(h)
  PROVE  /\ Keeps([h EXCEPT !.istate = x], h, {"istate"}) /\ [h EXCEPT !.istate = x].istate = x
         /\ Keeps([h EXCEPT !.startq = x], h, {"startq"}) /\ [h EXCEPT !.startq = x].startq = x
         /\ Keeps([h EXCEPT !.coms = x], h, {"coms"}) /\ [h EXCEPT !.coms = x].coms = x
BY DEF IsHba, Fields, Keeps

LEMMA StartAnyKeeps ==
  ASSUME NEW h, IsHba(h), h.istate = "IDLE", h.startq # <<>>, IsCounts(h),
         Head(h.startq) \in Units
  PROVE  LET k == StartAny(h)
             u == Head(h.startq)
         IN  /\ Keeps(k, h, {"istate", "startq", "cur", "com", "tc0", "tc", "dma_on", "sac"})
             /\ k.istate = "STARTING" /\ k.startq = Tail(h.startq) /\ k.cur = u
             /\ k.com = IF h.ss = None THEN "select" ELSE h.com
             /\ IsCounts(k)
             /\ \A v \in Units : k.tc0[v] = IF v = u THEN Head(h.coms[u]).len ELSE h.tc0[v]
             /\ k.tc = Head(h.coms[u]).len
             /\ Head(h.coms[u]).len \in Nat \ {0} =>
                  /\ k.dma_on
                  /\ k.sac = [unit |-> u, cmd |-> Head(h.coms[u]).cmd, pos |-> 0]
<1> DEFINE u == Head(h.startq)
           n == Head(h.coms[u]).len
           g == [h EXCEPT !.startq = Tail(@), !.cur = u, !.tc0[u] = n, !.istate = "STARTING"]
           k == StartDma(g, u)
           w == WriteCom(k, "select")
<1>1. StartAny(h) = w
  BY DEF StartAny
<1>2. /\ Keeps(g, h, {"istate", "startq", "cur", "tc0"})
      /\ g.istate = "STARTING" /\ g.startq = Tail(h.startq) /\ g.cur = u
      /\ g.tc0 = [h.tc0 EXCEPT ![u] = n]
  <2> HIDE DEF u, n
  <2> QED
    BY DEF IsHba, Fields, Keeps
<1> HIDE DEF g
<1>3. IsCounts(g) /\ \A v \in Units : g.tc0[v] = IF v = u THEN n ELSE h.tc0[v]
  <2> HIDE DEF u, n
  <2> QED
    BY <1>2 DEF IsCounts
<1>4. /\ Keeps(k, g, {"tc", "dma_on", "sac"}) /\ k.tc = g.tc0[u]
      /\ g.tc0[u] # 0 =>
           /\ k.dma_on
           /\ k.sac = [unit |-> u, cmd |-> Head(g.coms[u]).cmd, pos |-> Head(g.coms[u]).len - g.tc0[u]]
  <2>1. IsHba(g)
    BY <1>2 DEF Keeps
  <2> HIDE DEF u, n
  <2> QED
    BY <2>1, StartDmaKeeps
<1> HIDE DEF k
<1>5. Keeps(w, k, {"com"}) /\ w.com = IF k.ss = None THEN "select" ELSE k.com
  BY <1>4, WriteComKeeps DEF Keeps
<1> HIDE DEF w
<1>6. /\ Keeps(w, h, {"istate", "startq", "cur", "com", "tc0", "tc", "dma_on", "sac"})
      /\ w.istate = "STARTING" /\ w.startq = Tail(h.startq) /\ w.cur = u
      /\ w.com = IF h.ss = None THEN "select" ELSE h.com
      /\ w.tc0 = g.tc0 /\ w.tc = g.tc0[u] /\ w.dma_on = k.dma_on /\ w.sac = k.sac
      /\ g.coms = h.coms
  <2> HIDE DEF u, n
  <2> QED
    BY <1>2, <1>4, <1>5 DEF Keeps, Fields
<1>7. g.tc0[u] = n
  BY <1>3
<1>8. n \in Nat \ {0} => w.dma_on /\ w.sac = [unit |-> u, cmd |-> Head(h.coms[u]).cmd, pos |-> 0]
  <2> SUFFICES ASSUME n \in Nat \ {0} PROVE w.dma_on /\ w.sac = [unit |-> u, cmd |-> Head(h.coms[u]).cmd, pos |-> 0]
    OBVIOUS
  <2>1. n - n = 0 /\ n # 0
    OBVIOUS
  <2>2. k.dma_on /\ k.sac = [unit |-> u, cmd |-> Head(h.coms[u]).cmd, pos |-> n - n]
    <3>1. Head(g.coms[u]).len = n /\ Head(g.coms[u]).cmd = Head(h.coms[u]).cmd
      BY <1>6
    <3> HIDE DEF u
    <3> QED
      BY <1>4, <1>7, <2>1, <3>1
  <2> QED
    BY <1>6, <2>1, <2>2
<1>9. IsCounts(w)
  BY <1>3, <1>6 DEF IsCounts
<1> HIDE DEF u, n
<1>10. /\ \A v \in Units : w.tc0[v] = IF v = u THEN n ELSE h.tc0[v]
       /\ w.tc = n
  BY <1>3, <1>6, <1>7
<1> QED
  BY <1>1, <1>6, <1>8, <1>9, <1>10 DEF u, n

\* uqueue() while a unit is being served.
LEMMA UQueueKeeps ==
  ASSUME NEW h, NEW u \in Units, IsHba(h), h.startq \in Seq(Units), h.istate # "IDLE"
  PROVE  Keeps(UQueue(h, u), h, {"startq"})
<1> DEFINE g == [h EXCEPT !.startq = Append(@, u)]
           k == [h EXCEPT !.startq = <<u>>]
<1>1. Keeps(g, h, {"startq"})
  BY DEF IsHba, Fields, Keeps
<1>2. Keeps(k, h, {"startq"})
  BY StoreKeeps
<1>3. StartAny(k) = k
  BY <1>2 DEF StartAny, Keeps, Fields
<1>4. UQueue(h, u) = IF h.startq # <<>> THEN g ELSE StartAny(k)
  BY DEF UQueue
<1> HIDE DEF g, k
<1> QED
  BY <1>1, <1>2, <1>3, <1>4

LEMMA ServedKeeps ==
  ASSUME IsHba(hba)
  PROVE  /\ Keeps(Served, hba, {"ss", "with"}) /\ Served.ss = None
         /\ Keeps(StopDma(Served), hba, {"ss", "with", "dma_on", "sac"})
         /\ StopDma(Served).ss = None
<1>1. Keeps(Served, hba, {"ss", "with"}) /\ Served.ss = None
  BY DEF IsHba, Fields, Served, Keeps
<1>2. Keeps(StopDma(Served), Served, {"dma_on", "sac"})
  BY <1>1, StopDmaKeeps DEF Keeps
<1> QED
  BY <1>1, <1>2 DEF Keeps, Fields

LEMMA RaiseKeeps ==
  ASSUME IsHba(hba), NEW c, NEW w
  PROVE  /\ Keeps(Raise(c, w), hba, {"ss", "with", "com"})
         /\ Raise(c, w).ss = c /\ Raise(c, w).with = w /\ Raise(c, w).com = None
BY DEF IsHba, Fields, Keeps, Raise

\* resume(), for a unit with a command.
LEMMA ResumeKeeps ==
  ASSUME NEW h, IsHba(h), h.ss = None, h.coms[hba.with] # <<>>
  PROVE  LET k == ResumeUnit(h)
             u == hba.with
         IN  /\ Keeps(k, h, {"istate", "cur", "com", "tc", "dma_on", "sac"})
             /\ k.istate = "RESUMING" /\ k.cur = u /\ k.com = "transfer"
             /\ k.tc = h.tc0[u]
             /\ h.tc0[u] # 0 =>
                  /\ k.dma_on
                  /\ k.sac = [unit |-> u, cmd |-> Head(h.coms[u]).cmd,
                              pos |-> Head(h.coms[u]).len - h.tc0[u]]
<1> DEFINE u == hba.with
           d == StartDma(h, u)
           g == [d EXCEPT !.cur = u, !.istate = "RESUMING"]
           w == WriteCom(g, "transfer")
<1>1. ResumeUnit(h) = w
  BY DEF ResumeUnit
<1>2. /\ Keeps(d, h, {"tc", "dma_on", "sac"}) /\ d.tc = h.tc0[u]
      /\ h.tc0[u] # 0 =>
           /\ d.dma_on
           /\ d.sac = [unit |-> u, cmd |-> Head(h.coms[u]).cmd, pos |-> Head(h.coms[u]).len - h.tc0[u]]
  BY StartDmaKeeps
<1> HIDE DEF d, u
<1>3. Keeps(g, d, {"istate", "cur"}) /\ g.istate = "RESUMING" /\ g.cur = u
  BY <1>2 DEF IsHba, Fields, Keeps
<1> HIDE DEF g
<1>4. Keeps(w, g, {"com"}) /\ w.com = IF g.ss = None THEN "transfer" ELSE g.com
  BY <1>3, WriteComKeeps DEF Keeps
<1> HIDE DEF w
<1>5. /\ Keeps(w, h, {"istate", "cur", "com", "tc", "dma_on", "sac"})
      /\ w.istate = "RESUMING" /\ w.cur = u /\ w.com = "transfer"
      /\ w.tc = d.tc /\ w.dma_on = d.dma_on /\ w.sac = d.sac
  BY <1>2, <1>3, <1>4 DEF Keeps, Fields
<1> QED
  BY <1>1, <1>2, <1>5 DEF u

-----------------------------------------------------------------------------
(* The first unit that waits gets the bus.                                 *)

LEMMA FirstCom ==
  ASSUME NEW c \in [Units -> Seq(Com)], NEW u \in Units, c[u] # <<>>
  PROVE  Head(c[u]) \in Com /\ Head(c[u]).len \in Nat \ {0}
<1>1. Head(c[u]) \in Com
  BY HeadTailProperties
<1>2. Rw.len \in Nat \ {0} /\ Sense.len \in Nat \ {0}
  BY ScsiAssumption DEF Rw, Sense
<1> QED
  BY <1>1, <1>2 DEF Com

\* A unit without a command, or waiting to start, is free; so is one that is
\* neither served, nor away, nor reselecting.
LEMMA FreeUnless ==
  ASSUME NEW h, NEW t, NEW b, OnePlace(h, t, b), Where(h, t, b), NEW u \in Units,
         ~Has(h, u), h.coms[u] = <<>> \/ In(u, h.startq)
  PROVE  t[u].st = "free"
<1>1. ~Gone(h, t, b, u)
  BY DEF OnePlace
<1>2. u # None
  BY ScsiAssumption
<1> QED
  BY <1>1, <1>2 DEF Where, Gone, Has

\* startany() leaves the commands and the status.
LEMMA StartAnyLeaves ==
  ASSUME NEW h, IsHba(h), h.istate = "IDLE"
  PROVE  StartAny(h).coms = h.coms /\ StartAny(h).ss = h.ss /\ StartAny(h).with = h.with
<1>1. CASE h.startq = <<>>
  BY <1>1 DEF StartAny
<1>2. CASE h.startq # <<>>
  BY <1>2, StartAnyFields DEF Same, Places
<1> QED
  BY <1>1, <1>2

LEMMA StartAnyBus ==
  ASSUME NEW h, NEW t, NEW b, Shape(h, t, b), Placed(h, t, b), h.istate = "IDLE",
         BusInv(h, t, b), IsCounts(h)
  PROVE  BusInv(StartAny(h), t, b) /\ IsCounts(StartAny(h)) /\ StartAny(h).istate # "DEAD"
<1>1. CASE h.startq = <<>>
  BY <1>1 DEF StartAny
<1>2. CASE h.startq # <<>>
  <2> DEFINE k == StartAny(h)
             u == Head(h.startq)
             n == Head(h.coms[u]).len
  <2>1. IsHba(h) /\ h.startq \in Seq(Units) /\ h.coms \in [Units -> Seq(Com)] /\ OnePlace(h, t, b)
    BY DEF Shape, Placed
  <2>2. u \in Units /\ In(u, h.startq)
    BY <1>2, <2>1, TailUnits DEF OnePlace
  <2>3. h.coms[u] # <<>> /\ ~Gone(h, t, b, u)
    BY <2>1, <2>2 DEF OnePlace
  <2>4. n \in Nat \ {0}
    BY <2>1, <2>2, <2>3, FirstCom
  <2>5. /\ Keeps(k, h, {"istate", "startq", "cur", "com", "tc0", "tc", "dma_on", "sac"})
        /\ k.istate = "STARTING" /\ k.cur = u
        /\ k.com = IF h.ss = None THEN "select" ELSE h.com
        /\ IsCounts(k)
        /\ \A v \in Units : k.tc0[v] = IF v = u THEN n ELSE h.tc0[v]
        /\ k.tc = n /\ k.dma_on
        /\ k.sac = [unit |-> u, cmd |-> Head(h.coms[u]).cmd, pos |-> 0]
    BY <1>2, <2>1, <2>2, <2>4, StartAnyKeeps
  <2> HIDE DEF k
  <2>6. k.coms = h.coms /\ k.ss = h.ss /\ k.with = h.with
    BY <2>5 DEF Keeps, Fields
  <2>7. Talk(h) /\ Where(h, t, b) /\ Counts(h, t, b) /\ Checks(h, t)
    BY DEF BusInv
  <2>8. h.ss \in {None, "reselected"} /\ h.com = None /\ (h.ss = None => b = None)
    BY <2>7 DEF Talk, Where, None
  <2>9. t[u].st = "free"
    BY <2>1, <2>2, <2>7, FreeUnless DEF Has
  <2> HIDE DEF u, n
  <2>10. Talk(k)
    BY <2>5, <2>6, <2>8 DEF Talk
  <2>11. Where(k, t, b)
    BY <2>5, <2>6, <2>7, <2>8, <2>9 DEF Where, Selecting, None
  <2>12. Counts(k, t, b)
    <3> SUFFICES ASSUME NEW v \in Units, t[v].st # "free" PROVE CountOf(k, t, b, v)
      BY DEF Counts, CountOf
    <3>1. v # u /\ k.tc0[v] = h.tc0[v] /\ CountOf(h, t, b, v)
      BY <2>5, <2>7, <2>9 DEF Counts
    <3>2. t[v].st = "busy" => h.ss = "reselected"
      BY <2>7, <2>8, ScsiAssumption DEF Where
    <3> QED
      BY <2>5, <2>6, <2>8, <3>1, <3>2 DEF CountOf, AtSaved, None
  <2>13. Ready(k)
    BY <2>2, <2>5, <2>6 DEF Ready, n
  <2>14. Checks(k, t)
    BY <2>5, <2>6, <2>7, <2>8 DEF Checks, None
  <2> QED
    BY <2>5, <2>10, <2>11, <2>12, <2>13, <2>14 DEF BusInv, k
<1> QED
  BY <1>1, <1>2

-----------------------------------------------------------------------------
(* a3091intr().                                                            *)

\* What a step that leaves the commands alone has to show.
Continues ==
  /\ hba'.coms = hba.coms /\ IsCounts(hba')
  /\ hba'.istate = "DEAD" => hba'.com \in {None, "receive"}
  /\ hba'.istate # "DEAD" => BusInv(hba', tgt', bus')

\* The state in which an interrupt is taken.
LEMMA Interrupted ==
  ASSUME StackInv, hba.istate # "DEAD"
  PROVE  /\ IsHba(hba) /\ hba.startq \in Seq(Units) /\ hba.coms \in [Units -> Seq(Com)]
         /\ hba.cur \in Units \cup {None}
         /\ OnePlace(hba, tgt, bus) /\ Registers(hba, tgt, bus) /\ IsCounts(hba)
         /\ Talk(hba) /\ Where(hba, tgt, bus) /\ Counts(hba, tgt, bus) /\ Ready(hba)
         /\ Checks(hba, tgt)
BY DEF StackInv, ScsiInv, Shape, Placed, BusInv

\* atab[][] has an action for every status that can come up.
LEMMA TableComplete ==
  ASSUME StackInv, hba.istate # "DEAD", hba.ss # None
  PROVE  DfaAction(hba.istate, hba.ss) # "dead"
<1>1. Talk(hba)
  BY Interrupted
<1> QED
  BY <1>1 DEF Talk, DfaAction, Interruptions, None

LEMMA DeadBus ==
  ASSUME StackInv, Dead
  PROVE  Continues /\ hba.istate = "DEAD"
<1> DEFINE g == [Served EXCEPT !.istate = "DEAD"]
<1>1. hba.istate = "DEAD" /\ hba' = g /\ UNCHANGED <<tgt, bus>>
  BY TableComplete DEF Dead, Intr, Adapter
<1>2. IsHba(hba) /\ IsCounts(hba) /\ hba.com \in {None, "receive"}
  BY <1>1 DEF StackInv, ScsiInv, Shape
<1>3. Keeps(Served, hba, {"ss", "with"})
  BY <1>2, ServedKeeps
<1>4. Keeps(g, Served, {"istate"}) /\ g.istate = "DEAD"
  <2>1. IsHba(Served)
    BY <1>3 DEF Keeps
  <2> QED
    BY <2>1, StoreKeeps
<1> HIDE DEF g
<1>5. g.coms = hba.coms /\ g.tc0 = hba.tc0 /\ g.com = hba.com
  BY <1>3, <1>4 DEF Keeps, Fields
<1> QED
  BY <1>1, <1>2, <1>4, <1>5 DEF Continues, IsCounts

\* The unit that reselected goes on from where its pointers were saved.
LEMMA ResumedBus ==
  ASSUME StackInv, hba.istate \in {"IDLE", "STARTING"}, hba.ss = "reselected",
         UNCHANGED <<tgt, bus>>, NEW g, hba' = ResumeUnit(g), IsHba(g), g.ss = None,
         g.coms = hba.coms, g.tc0 = hba.tc0
  PROVE  Continues /\ hba'.istate # "DEAD" /\ hba'.ss = None
<1> DEFINE u == hba.with
<1>1. /\ OnePlace(hba, tgt, bus) /\ Where(hba, tgt, bus) /\ Counts(hba, tgt, bus)
      /\ Checks(hba, tgt) /\ IsCounts(hba)
  BY Interrupted
<1>2. u = bus /\ bus \in Units
  BY Interrupted DEF Registers
<1>3. hba.coms[u] # <<>> /\ tgt[u].st = "busy"
  BY <1>1, <1>2 DEF OnePlace, Gone, Where
<1>4. /\ Keeps(hba', g, {"istate", "cur", "com", "tc", "dma_on", "sac"})
      /\ hba'.istate = "RESUMING" /\ hba'.cur = u /\ hba'.com = "transfer"
      /\ hba'.tc = g.tc0[u]
      /\ g.tc0[u] # 0 =>
           /\ hba'.dma_on
           /\ hba'.sac = [unit |-> u, cmd |-> Head(g.coms[u]).cmd,
                          pos |-> Head(g.coms[u]).len - g.tc0[u]]
  BY <1>3, ResumeKeeps
<1>5. hba'.coms = hba.coms /\ hba'.tc0 = hba.tc0 /\ hba'.ss = None
  BY <1>4 DEF Keeps, Fields
<1> HIDE DEF u
<1>6. Talk(hba')
  BY <1>4, <1>5 DEF Talk
<1>7. Where(hba', tgt, bus)
  BY <1>1, <1>2, <1>3, <1>4, <1>5 DEF Where, Selecting, None
<1>8. Counts(hba', tgt, bus)
  <2> SUFFICES ASSUME NEW v \in Units, tgt[v].st # "free" PROVE CountOf(hba', tgt, bus, v)
    BY DEF Counts, CountOf
  <2>1. CountOf(hba, tgt, bus, v)
    BY <1>1 DEF Counts
  <2>2. CASE v = u
    <3>1. /\ tgt[u].cmd = Head(hba.coms[u]).cmd /\ tgt[u].len = Head(hba.coms[u]).len
          /\ Numbers(tgt[u]) /\ hba.tc0[u] = tgt[u].len - tgt[u].saved
          /\ tgt[u].moved = tgt[u].saved
      BY <1>2, <1>3, <2>1, <2>2 DEF CountOf, AtSaved
    <3>2. hba'.tc = tgt[u].len - tgt[u].moved
      BY <1>4, <3>1
    <3>3. hba'.tc > 0 => hba'.dma_on /\ hba'.sac = [unit |-> u, cmd |-> tgt[u].cmd, pos |-> tgt[u].moved]
      <4>1. tgt[u].len - (tgt[u].len - tgt[u].moved) = tgt[u].moved
        BY <3>1 DEF Numbers
      <4> QED
        BY <1>4, <3>1, <3>2, <4>1
    <3> QED
      BY <1>4, <1>5, <2>2, <3>1, <3>2, <3>3 DEF CountOf, InStep, None
  <2>3. CASE v # u
    <3>1. tgt[v].st = "away"
      BY <1>1, <1>2, <2>3 DEF Where
    <3> QED
      BY <1>4, <1>5, <2>1, <3>1, <1>2, <2>3 DEF CountOf, AtSaved, None
  <2> QED
    BY <2>2, <2>3
<1>9. Ready(hba')
  BY <1>4 DEF Ready
<1>10. Checks(hba', tgt)
  BY <1>1, <1>4, <1>5 DEF Checks, None
<1>11. IsCounts(hba')
  BY <1>1, <1>5 DEF IsCounts
<1> QED
  BY <1>4, <1>5, <1>6, <1>7, <1>8, <1>9, <1>10, <1>11 DEF Continues, BusInv

LEMMA ResumeBus ==
  ASSUME StackInv, Resume \/ Requeue
  PROVE  Continues /\ hba'.istate # "DEAD" /\ hba'.ss = None
<1>1. IsHba(hba) /\ hba.startq \in Seq(Units) /\ hba.coms \in [Units -> Seq(Com)]
  BY DEF StackInv, ScsiInv, Shape
<1>2. CASE Resume
  <2>1. hba.istate = "IDLE" /\ hba.ss = "reselected"
    <3>1. DfaAction(hba.istate, hba.ss) = "resume"
      BY <1>2 DEF Resume, Intr
    <3> QED
      BY <3>1 DEF DfaAction
  <2>2. hba' = ResumeUnit(Served) /\ UNCHANGED <<tgt, bus>>
    BY <1>2 DEF Resume, Adapter
  <2>3. IsHba(Served) /\ Served.ss = None /\ Served.coms = hba.coms /\ Served.tc0 = hba.tc0
    BY <1>1, ServedKeeps DEF Keeps, Fields
  <2> QED
    BY <2>1, <2>2, <2>3, ResumedBus
<1>3. CASE Requeue
  <2> DEFINE s == StopDma(Served)
             g == UQueue(s, hba.cur)
  <2>1. hba.istate = "STARTING" /\ hba.ss = "reselected"
    <3>1. DfaAction(hba.istate, hba.ss) = "requeue"
      BY <1>3 DEF Requeue, Intr
    <3> QED
      BY <3>1 DEF DfaAction
  <2>2. hba' = ResumeUnit(g) /\ UNCHANGED <<tgt, bus>>
    BY <1>3 DEF Requeue, Adapter
  <2>3. /\ IsHba(s) /\ s.ss = None /\ s.coms = hba.coms /\ s.tc0 = hba.tc0 /\ s.istate = hba.istate
        /\ s.startq = hba.startq
    BY <1>1, ServedKeeps DEF Keeps, Fields
  <2>4. hba.cur \in Units
    BY <2>1, Interrupted DEF Registers
  <2> HIDE DEF s
  <2>5. Keeps(g, s, {"startq"})
    BY <1>1, <2>1, <2>3, <2>4, UQueueKeeps
  <2> HIDE DEF g
  <2>6. IsHba(g) /\ g.ss = None /\ g.coms = hba.coms /\ g.tc0 = hba.tc0
    BY <2>3, <2>5 DEF Keeps, Fields
  <2> QED
    BY <2>1, <2>2, <2>6, ResumedBus
<1> QED
  BY <1>2, <1>3

\* The interrupts after which the unit being served goes on.
LEMMA ServedUnit ==
  ASSUME StackInv, hba.istate # "DEAD", hba.ss \in {"save", "message", "status", "accept"}
  PROVE  /\ hba.cur \in Units /\ bus = hba.cur /\ hba.com = None /\ hba.istate # "IDLE"
         /\ tgt[bus].st = IF hba.ss = "status" THEN "status" ELSE "busy"
         /\ \A v \in Units : v # hba.cur => tgt[v].st \in {"free", "away"}
         /\ hba.ss # None
<1>1. Where(hba, tgt, bus) /\ Registers(hba, tgt, bus)
  BY Interrupted
<1> QED
  BY <1>1 DEF Where, Registers, None

\* Another unit's target is not disturbed while that of the current unit goes on.
LEMMA OthersCount ==
  ASSUME NEW h, NEW g, NEW t, NEW x, NEW b, NEW d, NEW v \in Units, CountOf(h, t, b, v),
         x[v] = t[v], t[v].st \in {"free", "away"}, g.coms[v] = h.coms[v], g.tc0[v] = h.tc0[v],
         d # v, b # v
  PROVE  CountOf(g, x, d, v)
BY DEF CountOf, AtSaved

LEMMA SaveBus ==
  ASSUME StackInv, SavePointers
  PROVE  Continues /\ hba'.istate # "DEAD" /\ hba'.ss = None
<1> DEFINE u == hba.cur
           s == Served
           g == [s EXCEPT !.tc0[u] = hba.tc, !.istate = "RESUMING"]
<1>1. hba.istate \in {"STARTING", "RESUMING"} /\ hba.ss = "save"
  <2>1. DfaAction(hba.istate, hba.ss) = "save"
    BY DEF SavePointers, Intr
  <2> QED
    BY <2>1 DEF DfaAction
<1>2. hba' = WriteCom(g, "transfer") /\ UNCHANGED <<tgt, bus>>
  BY DEF SavePointers, Adapter
<1>3. /\ IsHba(hba) /\ IsCounts(hba) /\ Where(hba, tgt, bus) /\ Counts(hba, tgt, bus)
      /\ Checks(hba, tgt)
  BY <1>1, Interrupted
<1>4. /\ u \in Units /\ bus = u /\ tgt[u].st = "busy"
      /\ \A v \in Units : v # u => tgt[v].st \in {"free", "away"}
  BY <1>1, ServedUnit
<1>5. Keeps(s, hba, {"ss", "with"}) /\ s.ss = None
  BY <1>3, ServedKeeps
<1> HIDE DEF s, u
<1>6. Keeps(g, s, {"tc0", "istate"}) /\ g.istate = "RESUMING" /\ g.tc0 = [s.tc0 EXCEPT ![u] = hba.tc]
  BY <1>5 DEF IsHba, Fields, Keeps
<1> HIDE DEF g
<1>7. Keeps(hba', g, {"com"}) /\ hba'.com = IF g.ss = None THEN "transfer" ELSE g.com
  BY <1>2, <1>6, WriteComKeeps DEF Keeps
<1>8. /\ hba'.istate = "RESUMING" /\ hba'.ss = None /\ hba'.com = "transfer"
      /\ hba'.cur = u /\ hba'.coms = hba.coms /\ hba'.tc = hba.tc /\ hba'.dma_on = hba.dma_on
      /\ hba'.sac = hba.sac /\ hba'.tc0 = [hba.tc0 EXCEPT ![u] = hba.tc]
  BY <1>5, <1>6, <1>7 DEF Keeps, Fields, u
<1>9. IsCounts(hba') /\ \A v \in Units : hba'.tc0[v] = IF v = u THEN hba.tc ELSE hba.tc0[v]
  BY <1>3, <1>4, <1>8 DEF IsCounts
<1>10. Talk(hba') /\ Ready(hba')
  BY <1>8 DEF Talk, Ready
<1>11. Where(hba', tgt, bus)
  BY <1>3, <1>4, <1>8 DEF Where, Selecting, None
<1>12. Counts(hba', tgt, bus)
  <2> SUFFICES ASSUME NEW v \in Units PROVE CountOf(hba', tgt, bus, v)
    BY DEF Counts
  <2>1. CountOf(hba, tgt, bus, v)
    BY <1>3 DEF Counts
  <2>2. CASE v # u
    BY <1>4, <1>8, <1>9, <2>1, <2>2, OthersCount
  <2>3. CASE v = u
    BY <1>1, <1>4, <1>8, <1>9, <2>1, <2>3 DEF CountOf, AtSaved, InStep, None
  <2> QED
    BY <2>2, <2>3
<1>13. Checks(hba', tgt)
  BY <1>1, <1>3, <1>8 DEF Checks, None
<1> QED
  BY <1>2, <1>8, <1>9, <1>10, <1>11, <1>12, <1>13 DEF Continues, BusInv

LEMMA ReadBus ==
  ASSUME StackInv, ReadMessage
  PROVE  Continues /\ (hba.with = "restore" => hba'.istate # "DEAD") /\ hba'.ss = None
<1> DEFINE u == hba.cur
           s == Served
           n == IF hba.with = "restore" THEN "MESSAGING" ELSE "DEAD"
           g == [s EXCEPT !.istate = n]
<1>1. hba.istate \in {"STARTING", "RESUMING"} /\ hba.ss = "message"
  <2>1. DfaAction(hba.istate, hba.ss) = "read"
    BY DEF ReadMessage, Intr
  <2> QED
    BY <2>1 DEF DfaAction
<1>2. hba' = WriteCom(g, "receive") /\ UNCHANGED <<tgt, bus>>
  BY DEF ReadMessage, Adapter
<1>3. /\ IsHba(hba) /\ IsCounts(hba) /\ Where(hba, tgt, bus) /\ Counts(hba, tgt, bus)
      /\ Checks(hba, tgt)
  BY <1>1, Interrupted
<1>4. /\ u \in Units /\ bus = u /\ tgt[u].st = "busy"
      /\ \A v \in Units : v # u => tgt[v].st \in {"free", "away"}
  BY <1>1, ServedUnit
<1>5. Keeps(s, hba, {"ss", "with"}) /\ s.ss = None
  BY <1>3, ServedKeeps
<1> HIDE DEF s, u
<1>6. Keeps(g, s, {"istate"}) /\ g.istate = n
  <2>1. IsHba(s)
    BY <1>5 DEF Keeps
  <2> HIDE DEF n
  <2> QED
    BY <2>1, StoreKeeps
<1> HIDE DEF g
<1>7. Keeps(hba', g, {"com"}) /\ hba'.com = IF g.ss = None THEN "receive" ELSE g.com
  BY <1>2, <1>6, WriteComKeeps DEF Keeps
<1>8. /\ hba'.istate = n /\ hba'.ss = None /\ hba'.com = "receive"
      /\ hba'.cur = u /\ hba'.coms = hba.coms /\ hba'.tc = hba.tc /\ hba'.dma_on = hba.dma_on
      /\ hba'.sac = hba.sac /\ hba'.tc0 = hba.tc0
  <2> HIDE DEF n
  <2> QED
    BY <1>5, <1>6, <1>7 DEF Keeps, Fields, u
<1>9. IsCounts(hba')
  BY <1>3, <1>8 DEF IsCounts
<1>10. ASSUME hba.with = "restore" PROVE BusInv(hba', tgt, bus)
  <2>1. hba'.istate = "MESSAGING"
    BY <1>8, <1>10
  <2>2. Talk(hba') /\ Ready(hba')
    BY <1>8, <2>1 DEF Talk, Ready
  <2>3. Where(hba', tgt, bus)
    BY <1>3, <1>4, <1>8, <2>1 DEF Where, Selecting, None
  <2>4. Counts(hba', tgt, bus)
    <3> SUFFICES ASSUME NEW v \in Units PROVE CountOf(hba', tgt, bus, v)
      BY DEF Counts
    <3>1. CountOf(hba, tgt, bus, v)
      BY <1>3 DEF Counts
    <3>2. CASE v # u
      BY <1>4, <1>8, <3>1, <3>2, OthersCount
    <3>3. CASE v = u
      BY <1>1, <1>4, <1>8, <1>10, <2>1, <3>1, <3>3 DEF CountOf, AtSaved, InStep, None
    <3> QED
      BY <3>2, <3>3
  <2>5. Checks(hba', tgt)
    BY <1>1, <1>3, <1>8 DEF Checks, None
  <2> QED
    BY <2>2, <2>3, <2>4, <2>5 DEF BusInv
<1> QED
  BY <1>2, <1>8, <1>9, <1>10 DEF Continues

\* TC is loaded with the count that was saved; or given up, at the status.
LEMMA ReloadBus ==
  ASSUME StackInv, RestorePointers \/ AwaitEnd
  PROVE  Continues /\ hba'.istate # "DEAD" /\ hba'.ss = None
<1> DEFINE u == hba.cur
           s == Served
<1>1. \/ /\ hba.istate = "MESSAGING" /\ hba.ss = "accept"
         /\ hba' = WriteCom([s EXCEPT !.tc = hba.tc0[u], !.istate = "RESUMING"], "transfer")
      \/ /\ hba.istate \in {"STARTING", "RESUMING"} /\ hba.ss = "status"
         /\ hba' = WriteCom([s EXCEPT !.tc = 0, !.istate = "ENDING"], "transfer")
  <2>1. CASE RestorePointers
    <3>1. DfaAction(hba.istate, hba.ss) = "restore"
      BY <2>1 DEF RestorePointers, Intr
    <3>2. hba.istate = "MESSAGING" /\ hba.ss = "accept"
      BY <3>1 DEF DfaAction
    <3> QED
      BY <2>1, <3>2 DEF RestorePointers, Adapter
  <2>2. CASE AwaitEnd
    <3>1. DfaAction(hba.istate, hba.ss) = "end"
      BY <2>2 DEF AwaitEnd, Intr
    <3>2. hba.istate \in {"STARTING", "RESUMING"} /\ hba.ss = "status"
      BY <3>1 DEF DfaAction
    <3> QED
      BY <2>2, <3>2 DEF AwaitEnd, Adapter
  <2> QED
    BY <2>1, <2>2
<1>2. UNCHANGED <<tgt, bus>>
  BY DEF RestorePointers, AwaitEnd, Adapter
<1>3. /\ IsHba(hba) /\ IsCounts(hba) /\ Where(hba, tgt, bus) /\ Counts(hba, tgt, bus)
      /\ Checks(hba, tgt)
  BY <1>1, Interrupted
<1>4. /\ u \in Units /\ bus = u /\ tgt[u].st = IF hba.ss = "status" THEN "status" ELSE "busy"
      /\ \A v \in Units : v # u => tgt[v].st \in {"free", "away"}
  BY <1>1, ServedUnit
<1>5. Keeps(s, hba, {"ss", "with"}) /\ s.ss = None
  BY <1>3, ServedKeeps
<1> HIDE DEF s, u
<1>6. PICK n, x : /\ hba' = WriteCom([s EXCEPT !.tc = n, !.istate = x], "transfer")
                  /\ \/ /\ hba.istate = "MESSAGING" /\ hba.ss = "accept"
                        /\ n = hba.tc0[u] /\ x = "RESUMING"
                     \/ /\ hba.istate \in {"STARTING", "RESUMING"} /\ hba.ss = "status"
                        /\ n = 0 /\ x = "ENDING"
  BY <1>1
<1> DEFINE g == [s EXCEPT !.tc = n, !.istate = x]
<1>7. Keeps(g, s, {"tc", "istate"}) /\ g.istate = x /\ g.tc = n
  BY <1>5 DEF IsHba, Fields, Keeps
<1> HIDE DEF g
<1>8. Keeps(hba', g, {"com"}) /\ hba'.com = IF g.ss = None THEN "transfer" ELSE g.com
  <2>1. IsHba(g)
    BY <1>7 DEF Keeps
  <2>2. hba' = WriteCom(g, "transfer")
    BY <1>6 DEF g
  <2> QED
    BY <2>1, <2>2, WriteComKeeps
<1>9. /\ hba'.istate = x /\ hba'.ss = None /\ hba'.com = "transfer" /\ hba'.tc = n
      /\ hba'.cur = u /\ hba'.coms = hba.coms /\ hba'.dma_on = hba.dma_on
      /\ hba'.sac = hba.sac /\ hba'.tc0 = hba.tc0
  BY <1>5, <1>7, <1>8 DEF Keeps, Fields, u
<1>10. IsCounts(hba') /\ hba'.istate # "DEAD"
  BY <1>3, <1>6, <1>9 DEF IsCounts
<1>11. Talk(hba') /\ Ready(hba')
  BY <1>6, <1>9 DEF Talk, Ready
<1>12. Where(hba', tgt, bus)
  BY <1>3, <1>4, <1>6, <1>9 DEF Where, Selecting, None
<1>13. Counts(hba', tgt, bus)
  <2> SUFFICES ASSUME NEW v \in Units PROVE CountOf(hba', tgt, bus, v)
    BY DEF Counts
  <2>1. CountOf(hba, tgt, bus, v)
    BY <1>3 DEF Counts
  <2>2. CASE v # u
    BY <1>4, <1>9, <2>1, <2>2, OthersCount
  <2>3. CASE v = u
    BY <1>4, <1>6, <1>9, <2>1, <2>3 DEF CountOf, AtSaved, InStep, None
  <2> QED
    BY <2>2, <2>3
<1>14. Checks(hba', tgt)
  BY <1>3, <1>6, <1>9 DEF Checks, None
<1> QED
  BY <1>2, <1>9, <1>10, <1>11, <1>12, <1>13, <1>14 DEF Continues, BusInv

\* A unit has gone: the next one starts.
LEMMA DisconnectedBus ==
  ASSUME StackInv, Disconnected
  PROVE  Continues /\ hba'.istate # "DEAD" /\ hba'.ss = None
<1> DEFINE s == StopDma(Served)
           k == [s EXCEPT !.istate = "IDLE"]
<1>1. hba' = StartAny(k) /\ UNCHANGED <<tgt, bus>>
  BY DEF Disconnected, Adapter
<1>2. hba.istate \in {"STARTING", "RESUMING"} /\ hba.ss = "disconnected"
  <2>1. DfaAction(hba.istate, hba.ss) = "idle"
    BY DEF Disconnected, Intr
  <2> QED
    BY <2>1 DEF DfaAction
<1>3. /\ IsHba(hba) /\ IsCounts(hba) /\ Where(hba, tgt, bus) /\ Counts(hba, tgt, bus)
      /\ Checks(hba, tgt) /\ OnePlace(hba, tgt, bus) /\ Registers(hba, tgt, bus)
  BY <1>2, Interrupted
<1>4. Keeps(s, hba, {"ss", "with", "dma_on", "sac"}) /\ s.ss = None
  BY <1>3, ServedKeeps
<1> HIDE DEF s
<1>5. Keeps(k, s, {"istate"}) /\ k.istate = "IDLE"
  <2>1. IsHba(s)
    BY <1>4 DEF Keeps
  <2> QED
    BY <2>1, StoreKeeps
<1> HIDE DEF k
<1>6. /\ IsHba(k) /\ k.istate = "IDLE" /\ k.ss = None /\ k.com = hba.com /\ k.cur = hba.cur
      /\ k.coms = hba.coms /\ k.tc0 = hba.tc0 /\ k.startq = hba.startq /\ k.tc = hba.tc
  BY <1>4, <1>5 DEF Keeps, Fields
<1>7. hba.com = None /\ tgt[hba.cur].st = "away" /\ hba.cur \in Units /\ bus = None
  BY <1>2, <1>3 DEF Registers, Where, None
<1>8. \A v \in Units : tgt[v].st \in {"free", "away"} /\ bus # v
  BY <1>3, <1>7, ScsiAssumption DEF Where
<1>9. Talk(k) /\ Ready(k) /\ Where(k, tgt, bus)
  BY <1>3, <1>6, <1>7, <1>8 DEF Talk, Ready, Where, Selecting, None
<1>10. Counts(k, tgt, bus)
  BY <1>3, <1>6, <1>8, OthersCount DEF Counts
<1>11. Checks(k, tgt)
  BY <1>2, <1>3, <1>6 DEF Checks, None
<1>12. Shape(k, tgt, bus)
  BY <1>6 DEF Shape, StackInv, ScsiInv
<1>13. Placed(k, tgt, bus)
  <2>1. OnePlace(k, tgt, bus)
    BY <1>2, <1>3, <1>6, <1>7 DEF OnePlace, Has, Gone, None
  <2>2. Registers(k, tgt, bus)
    BY <1>6, <1>7 DEF Registers, None
  <2> QED
    BY <2>1, <2>2 DEF Placed
<1>14. IsCounts(k)
  BY <1>3, <1>6 DEF IsCounts
<1>15. BusInv(hba', tgt, bus) /\ IsCounts(hba') /\ hba'.istate # "DEAD"
  BY <1>1, <1>6, <1>9, <1>10, <1>11, <1>12, <1>13, <1>14, StartAnyBus DEF BusInv
<1>16. hba'.coms = k.coms /\ hba'.ss = k.ss
  BY <1>1, <1>6, StartAnyLeaves
<1> QED
  BY <1>1, <1>6, <1>15, <1>16 DEF Continues

-----------------------------------------------------------------------------
(* Commands that end and begin.                                            *)

LEMMA DequeueKeeps ==
  ASSUME NEW h, NEW u \in Units, IsHba(h), h.startq \in Seq(Units), h.istate # "IDLE",
         h.coms \in [Units -> Seq(Com)], Tail(h.coms[u]) = <<>>
  PROVE  Keeps(Dequeue(h, u), h, {"coms"}) /\ Dequeue(h, u).coms = [h.coms EXCEPT ![u] = <<>>]
<1> DEFINE g == [h EXCEPT !.coms[u] = Tail(@)]
<1>1. Keeps(g, h, {"coms"}) /\ g.coms = [h.coms EXCEPT ![u] = Tail(@)]
  BY DEF IsHba, Fields, Keeps
<1>2. Dequeue(h, u) = IF g.coms[u] # <<>> THEN UQueue(g, u) ELSE g
  BY DEF Dequeue
<1> HIDE DEF g
<1>3. g.coms = [h.coms EXCEPT ![u] = <<>>] /\ g.coms[u] = <<>>
  BY <1>1
<1> QED
  BY <1>1, <1>2, <1>3

LEMMA QueueKeeps ==
  ASSUME NEW h, NEW u \in Units, NEW cp, IsHba(h), h.startq \in Seq(Units),
         h.istate # "IDLE", h.coms[u] = <<>>
  PROVE  /\ Keeps(Queue(h, u, cp), h, {"coms", "startq"})
         /\ Queue(h, u, cp).coms = Queued(h, u, cp)
<1> DEFINE g == [h EXCEPT !.coms[u] = Append(@, cp)]
<1>1. Keeps(g, h, {"coms"}) /\ g.coms = Queued(h, u, cp)
  BY DEF IsHba, Fields, Keeps, Queued
<1>2. Queue(h, u, cp) = UQueue(g, u)
  BY DEF Queue
<1> HIDE DEF g
<1>3. IsHba(g) /\ g.startq = h.startq /\ g.istate = h.istate
  BY <1>1 DEF Keeps, Fields
<1>4. Keeps(UQueue(g, u), g, {"startq"})
  BY <1>3, UQueueKeeps
<1> QED
  BY <1>1, <1>2, <1>4 DEF Keeps, Fields

LEMMA OneCom ==
  ASSUME NEW c \in Com
  PROVE  /\ Head(<<c>>) = c /\ Tail(<<c>>) = <<>> /\ Append(<<>>, c) = <<c>> /\ <<c>> # <<>>
         /\ Rw \in Com /\ Sense \in Com
BY DEF Com

LEMMA OneOutcome == <<>> \in Seq(Outcomes) /\ \A o \in Outcomes : <<o>> \in Seq(Outcomes)
<1>1. <<>> \in Seq(Outcomes)
  OBVIOUS
<1>2. ASSUME NEW o \in Outcomes PROVE <<o>> \in Seq(Outcomes)
  OBVIOUS
<1> QED
  BY <1>1, <1>2

LEMMA ComOfType ==
  ASSUME NEW d
  PROVE  ComOf(d) \in Com
BY DEF ComOf, Com

\* ihandle(): the disk and the command it queues next go together, and REQUEST
\* SENSE comes only of a command that ended with a status that is not good.
Handles(r, d, okay, good) ==
  /\ r.d \in DdTypes
  /\ \/ r.done = <<>> /\ r.d.bufs = d.bufs
     \/ \E e \in BOOLEAN :
          /\ r.done = <<[buf |-> Head(d.bufs), error |-> e]>> /\ r.d.bufs = Tail(d.bufs)
          /\ ~e => okay /\ good /\ d.state # "SENSE"
  /\ r.d.bufs = <<>> <=> r.next = <<>>
  /\ r.next # <<>> => r.next = <<ComOf(r.d)>>
  /\ r.next = <<Sense>> => okay /\ ~good

LEMMA HandleWork ==
  ASSUME NEW d \in DdTypes, d.bufs # <<>>, NEW okay, NEW good
  PROVE  Handles(IHandle(d, okay, good), d, okay, good)
<1> DEFINE r == IHandle(d, okay, good)
           rest == Tail(d.bufs)
<1>1. <<Rw>> # <<>> /\ <<Sense>> # <<>> /\ <<Rw>> # <<Sense>>
  BY DEF Rw, Sense
<1>2. rest \in Seq(Nat)
  BY HeadTailProperties DEF DdTypes
<1>3. d = [state |-> d.state, bufs |-> d.bufs] /\ d.state \in {"FIRST", "SENSE", "RETRY"} /\ d.bufs \in Seq(Nat)
  BY DEF DdTypes
<1>4. CASE okay /\ d.state = "FIRST" /\ ~good
  <2>1. r = [d |-> [d EXCEPT !.state = "SENSE"], next |-> <<Sense>>, done |-> <<>>]
    BY <1>4 DEF IHandle
  <2>2. r.d = [state |-> "SENSE", bufs |-> d.bufs] /\ r.next = <<Sense>> /\ r.done = <<>>
    BY <1>3, <2>1
  <2> HIDE DEF r
  <2>3. r.d \in DdTypes /\ r.d.bufs # <<>> /\ r.d.bufs = d.bufs /\ ComOf(r.d) = Sense
    BY <1>3, <2>2 DEF DdTypes, ComOf
  <2>4. Handles(r, d, okay, good)
    BY <1>1, <1>4, <2>2, <2>3 DEF Handles
  <2> QED
    BY <2>4 DEF r
<1>5. CASE ~(okay /\ d.state = "FIRST" /\ ~good) /\ okay /\ d.state = "SENSE" /\ good
  <2>1. r = [d |-> [d EXCEPT !.state = "RETRY"], next |-> <<Rw>>, done |-> <<>>]
    BY <1>5 DEF IHandle
  <2>2. r.d = [state |-> "RETRY", bufs |-> d.bufs] /\ r.next = <<Rw>> /\ r.done = <<>>
    BY <1>3, <2>1
  <2> HIDE DEF r
  <2>3. r.d \in DdTypes /\ r.d.bufs # <<>> /\ r.d.bufs = d.bufs /\ ComOf(r.d) = Rw
    BY <1>3, <2>2 DEF DdTypes, ComOf
  <2>4. Handles(r, d, okay, good)
    BY <1>1, <2>2, <2>3 DEF Handles
  <2> QED
    BY <2>4 DEF r
<1>6. CASE ~(okay /\ d.state = "FIRST" /\ ~good) /\ ~(okay /\ d.state = "SENSE" /\ good)
  <2> DEFINE st == IF rest # <<>> THEN "FIRST" ELSE d.state
             e == ~okay \/ d.state = "SENSE" \/ ~good
  <2>1. /\ r.d = [state |-> st, bufs |-> rest] /\ r.next = IF rest # <<>> THEN <<Rw>> ELSE <<>>
        /\ r.done = <<[buf |-> Head(d.bufs), error |-> e]>>
    BY <1>6 DEF IHandle
  <2>0. e \in BOOLEAN /\ (~e => okay /\ good /\ d.state # "SENSE")
    OBVIOUS
  <2>2. st \in {"FIRST", "SENSE", "RETRY"} /\ (rest # <<>> => st = "FIRST")
    BY <1>3
  <2> HIDE DEF st, rest, r, e
  <2>3. r.d \in DdTypes /\ r.d.bufs = rest /\ (rest # <<>> => ComOf(r.d) = Rw)
    BY <1>2, <2>1, <2>2 DEF DdTypes, ComOf
  <2>4. Handles(r, d, okay, good)
    BY <1>1, <2>0, <2>1, <2>3 DEF Handles, rest
  <2> QED
    BY <2>4 DEF r
<1> QED
  BY <1>4, <1>5, <1>6

\* The adapter k has given up the command of u for the commands next.
EndedAs(k, u, next) ==
  /\ Keeps(k, hba, {"istate", "ss", "with", "dma_on", "sac", "coms", "startq"})
  /\ k.coms[u] = next
  /\ \A v \in Units : v # u => k.coms[v] = hba.coms[v]

LEMMA EndedKeeps ==
  ASSUME StackInv, NEW okay, NEW good,
         hba.istate \notin {"IDLE", "DEAD"}, hba.ss \in {"complete", "no device"}
  PROVE  /\ hba.cur \in Units /\ dd[hba.cur] \in DdTypes /\ dd[hba.cur].bufs # <<>>
         /\ hba.coms[hba.cur] = <<ComOf(dd[hba.cur])>>
         /\ EndedAs(Ended(okay, good), hba.cur, IHandle(dd[hba.cur], okay, good).next)
<1> DEFINE u == hba.cur
           s == StopDma(Served)
           r == IHandle(dd[u], okay, good)
           g == Dequeue(s, u)
           nx == IF r.next # <<>> THEN Queue(g, u, Head(r.next)) ELSE g
           k == [nx EXCEPT !.istate = "IDLE"]
<1>1. Ended(okay, good) = k
  BY DEF Ended
<1>2. /\ IsHba(hba) /\ hba.startq \in Seq(Units) /\ hba.coms \in [Units -> Seq(Com)]
      /\ OnePlace(hba, tgt, bus) /\ u \in Units /\ WorkInv
  BY Interrupted DEF Registers, StackInv
<1>3. hba.coms[u] # <<>>
  BY <1>2 DEF OnePlace, Has
<1>4. dd[u] \in DdTypes /\ dd[u].bufs # <<>> /\ hba.coms[u] = <<ComOf(dd[u])>>
  BY <1>2, <1>3 DEF WorkInv
<1>5. r.next = <<>> \/ \E c \in Com : r.next = <<c>>
  <2>1. Handles(r, dd[u], okay, good)
    BY <1>4, HandleWork
  <2> HIDE DEF r
  <2> QED
    BY <2>1, ComOfType DEF Handles
<1>6. Keeps(s, hba, {"ss", "with", "dma_on", "sac"})
  BY <1>2, ServedKeeps
<1> HIDE DEF u, s, r
<1>7. Tail(hba.coms[u]) = <<>>
  BY <1>4, ComOfType, OneCom
<1>8. IsHba(s) /\ s.startq = hba.startq /\ s.istate = hba.istate /\ s.coms = hba.coms
  BY <1>6 DEF Keeps, Fields
<1>9. Keeps(g, s, {"coms"}) /\ g.coms = [s.coms EXCEPT ![u] = <<>>]
  BY <1>2, <1>7, <1>8, DequeueKeeps
<1> HIDE DEF g
<1>10. /\ IsHba(g) /\ g.startq = hba.startq /\ g.istate = hba.istate
       /\ g.coms[u] = <<>> /\ \A v \in Units : v # u => g.coms[v] = hba.coms[v]
       /\ g.coms = [hba.coms EXCEPT ![u] = <<>>]
  BY <1>2, <1>8, <1>9 DEF Keeps, Fields
<1>11. /\ Keeps(nx, g, {"coms", "startq"}) /\ nx.coms[u] = r.next
       /\ \A v \in Units : v # u => nx.coms[v] = hba.coms[v]
  <2>1. CASE r.next = <<>>
    BY <1>10, <2>1 DEF Keeps
  <2>2. CASE r.next # <<>>
    <3>1. PICK c \in Com : r.next = <<c>> /\ Head(r.next) = c
      BY <1>5, <2>2, OneCom
    <3>2. nx = Queue(g, u, c)
      BY <2>2, <3>1
    <3> HIDE DEF nx
    <3>3. Keeps(nx, g, {"coms", "startq"}) /\ nx.coms = Queued(g, u, c)
      BY <1>2, <1>10, <3>2, QueueKeeps
    <3>4. Append(<<>>, c) = <<c>>
      BY OneCom
    <3> QED
      BY <1>2, <1>10, <3>1, <3>3, <3>4 DEF Queued
  <2> QED
    BY <2>1, <2>2
<1> HIDE DEF nx
<1>12. Keeps(k, nx, {"istate"})
  <2>1. IsHba(nx)
    BY <1>11 DEF Keeps
  <2> QED
    BY <2>1, StoreKeeps
<1> HIDE DEF k
<1>13. /\ Keeps(k, hba, {"istate", "ss", "with", "dma_on", "sac", "coms", "startq"})
       /\ k.coms = nx.coms
  BY <1>6, <1>9, <1>11, <1>12 DEF Keeps, Fields
<1> QED
  BY <1>1, <1>2, <1>3, <1>4, <1>11, <1>13 DEF u, r, EndedAs

\* The step of a command's end.
LEMMA EndBus ==
  ASSUME StackInv, NEW okay, NEW good, EndCommand(okay, good),
         hba.istate \notin {"IDLE", "DEAD"}, hba.ss \in {"complete", "no device"},
         okay => hba.ss = "complete" /\ good = (hba.with = "good")
  PROVE  /\ WorkInv' /\ IsCounts(hba') /\ BusInv(hba', tgt', bus') /\ hba'.istate # "DEAD"
         /\ hba'.ss = None
<1> DEFINE k == Ended(okay, good)
           u == hba.cur
           r == IHandle(dd[u], okay, good)
<1>1. /\ hba' = StartAny(k) /\ bus' = bus /\ tgt' = tgt /\ dd' = [dd EXCEPT ![u] = r.d]
      /\ finished' = [finished EXCEPT ![u] = @ \o r.done]
  BY DEF EndCommand, Ended
<1>2. /\ Shape(k, tgt, bus) /\ Placed(k, tgt, bus)
      /\ k.istate = "IDLE" /\ k.ss = None /\ k.com = None
  BY EndIdle DEF StackInv
<1>3. /\ u \in Units /\ dd[u] \in DdTypes /\ dd[u].bufs # <<>>
      /\ Keeps(k, hba, {"istate", "ss", "with", "dma_on", "sac", "coms", "startq"})
      /\ k.coms[u] = r.next
      /\ \A v \in Units : v # u => k.coms[v] = hba.coms[v]
  <2>1. u \in Units /\ dd[u] \in DdTypes /\ dd[u].bufs # <<>> /\ EndedAs(k, u, r.next)
    BY EndedKeeps
  <2> HIDE DEF k, u, r
  <2> QED
    BY <2>1 DEF EndedAs
<1> HIDE DEF k
<1>4. k.tc0 = hba.tc0 /\ k.cur = u /\ IsHba(k)
  BY <1>3 DEF Keeps, Fields
<1>5. /\ r.d \in DdTypes
      /\ r.d.bufs = <<>> <=> r.next = <<>>
      /\ r.next # <<>> => r.next = <<ComOf(r.d)>>
      /\ r.next = <<Sense>> => okay /\ ~good
      /\ r.done \in Seq(Outcomes)
  <2>1. Handles(r, dd[u], okay, good)
    BY <1>3, HandleWork
  <2>2. Head(dd[u].bufs) \in Nat
    BY <1>3, HeadTailProperties DEF DdTypes
  <2> HIDE DEF r
  <2>3. r.done \in Seq(Outcomes)
    <3>1. r.done = <<>> \/ \E o \in Outcomes : r.done = <<o>>
      BY <2>1, <2>2 DEF Handles, Outcomes
    <3> QED
      BY <3>1, OneOutcome
  <2> QED
    BY <2>1, <2>3 DEF Handles
<1>6. /\ IsCounts(hba) /\ Where(hba, tgt, bus) /\ Counts(hba, tgt, bus) /\ Checks(hba, tgt)
  BY Interrupted
<1>7. tgt[u].st = "free" /\ bus = None /\ \A v \in Units : tgt[v].st \in {"free", "away"} /\ bus # v
  BY <1>6, ScsiAssumption DEF Where, Selecting
<1> HIDE DEF r, u
<1>8. Talk(k) /\ Ready(k) /\ Where(k, tgt, bus)
  BY <1>2, <1>7 DEF Talk, Ready, Where, Selecting, None
<1>9. Counts(k, tgt, bus)
  <2> SUFFICES ASSUME NEW v \in Units, tgt[v].st # "free" PROVE CountOf(k, tgt, bus, v)
    BY DEF Counts, CountOf
  <2>1. v # u /\ CountOf(hba, tgt, bus, v)
    BY <1>6, <1>7 DEF Counts
  <2> QED
    BY <1>3, <1>4, <1>7, <2>1, OthersCount
<1>10. Checks(k, tgt)
  <2>1. ASSUME NEW v \in Units, k.coms[v] = <<Sense>>, tgt[v].st = "free" PROVE tgt[v].check
    <3>1. CASE v = u
      <4>1. okay /\ ~good
        BY <1>3, <1>5, <2>1, <3>1
      <4> QED
        BY <1>6, <3>1, <4>1 DEF Checks, u
    <3>2. CASE v # u
      BY <1>3, <1>6, <2>1, <3>2 DEF Checks, u
    <3> QED
      BY <3>1, <3>2
  <2> QED
    BY <1>2, <2>1 DEF Checks, None
<1>11. IsCounts(k)
  BY <1>4, <1>6 DEF IsCounts
<1>12. BusInv(hba', tgt, bus) /\ IsCounts(hba') /\ hba'.istate # "DEAD"
  BY <1>1, <1>2, <1>8, <1>9, <1>10, <1>11, StartAnyBus DEF BusInv
<1>13. WorkInv'
  <2>1. hba'.coms = k.coms
    BY <1>1, <1>2, <1>4, StartAnyLeaves
  <2>2. WorkInv /\ dd \in [Units -> DdTypes]
    BY DEF StackInv, WorkInv
  <2>3. dd' \in [Units -> DdTypes] /\ dd'[u] = r.d /\ \A v \in Units : v # u => dd'[v] = dd[v]
    BY <1>1, <1>3, <1>5, <2>2
  <2>5. finished' \in [Units -> Seq(Outcomes)]
    <3>1. finished \in [Units -> Seq(Outcomes)]
      BY <2>2 DEF WorkInv
    <3>2. finished[u] \o r.done \in Seq(Outcomes)
      BY <1>3, <1>5, <3>1, ConcatProperties
    <3> QED
      BY <1>1, <3>1, <3>2
  <2>4. ASSUME NEW v \in Units
        PROVE  /\ dd'[v].bufs = <<>> <=> hba'.coms[v] = <<>>
               /\ hba'.coms[v] # <<>> => hba'.coms[v] = <<ComOf(dd'[v])>>
    <3>1. CASE v = u
      BY <1>3, <1>5, <2>1, <2>3, <3>1
    <3>2. CASE v # u
      BY <1>3, <2>1, <2>2, <2>3, <3>2 DEF WorkInv
    <3> QED
      BY <3>1, <3>2
  <2> QED
    BY <2>3, <2>4, <2>5 DEF WorkInv, ComOf
<1>14. hba'.ss = None
  BY <1>1, <1>2, <1>4, StartAnyLeaves
<1> QED
  BY <1>1, <1>12, <1>13, <1>14

\* A command for a unit that had none: nothing else changes.
LEMMA QueuedBus ==
  ASSUME StackInv, hba.istate # "DEAD", NEW u \in Units, hba.coms[u] = <<>>, NEW k,
         Keeps(k, hba, {"coms", "startq"}), k.coms = Queued(hba, u, Rw)
  PROVE  BusInv(k, tgt, bus) /\ IsCounts(k)
<1>1. /\ OnePlace(hba, tgt, bus) /\ Registers(hba, tgt, bus) /\ IsCounts(hba)
      /\ Talk(hba) /\ Where(hba, tgt, bus) /\ Counts(hba, tgt, bus) /\ Ready(hba)
      /\ Checks(hba, tgt) /\ hba.coms \in [Units -> Seq(Com)]
  BY Interrupted
<1>2. /\ k.istate = hba.istate /\ k.cur = hba.cur /\ k.dma_on = hba.dma_on /\ k.tc0 = hba.tc0
      /\ k.ss = hba.ss /\ k.with = hba.with /\ k.com = hba.com /\ k.tc = hba.tc /\ k.sac = hba.sac
  BY DEF Keeps, Fields
<1>3. k.coms[u] = <<Rw>> /\ \A v \in Units : v # u => k.coms[v] = hba.coms[v]
  <2>1. Append(<<>>, Rw) = <<Rw>>
    BY OneCom DEF Com
  <2> QED
    BY <1>1, <2>1 DEF Queued
<1>4. ~Has(hba, u) /\ tgt[u].st = "free"
  BY <1>1, FreeUnless DEF OnePlace
<1>5. Talk(k)
  BY <1>1, <1>2 DEF Talk
<1>6. Where(k, tgt, bus)
  BY <1>1, <1>2 DEF Where, Selecting
<1>7. Counts(k, tgt, bus)
  <2> SUFFICES ASSUME NEW v \in Units, tgt[v].st # "free" PROVE CountOf(k, tgt, bus, v)
    BY DEF Counts, CountOf
  <2>1. v # u /\ CountOf(hba, tgt, bus, v)
    BY <1>1, <1>4 DEF Counts
  <2> QED
    BY <1>2, <1>3, <2>1 DEF CountOf, AtSaved, InStep
<1>8. Ready(k)
  <2> SUFFICES ASSUME hba.com = "select" PROVE Ready(k)
    BY <1>2 DEF Ready
  <2>1. hba.cur \in Units /\ hba.cur # u
    BY <1>1, <1>4 DEF Registers, Has
  <2> QED
    BY <1>1, <1>2, <1>3, <2>1 DEF Ready
<1>9. Checks(k, tgt)
  <2>1. <<Rw>> # <<Sense>>
    BY DEF Rw, Sense
  <2> QED
    BY <1>1, <1>2, <1>3, <2>1 DEF Checks
<1> QED
  BY <1>1, <1>2, <1>5, <1>6, <1>7, <1>8, <1>9 DEF BusInv, IsCounts

LEMMA QueueBus ==
  ASSUME StackInv, NEW u \in Units, hba.coms[u] = <<>>, hba' = Queue(hba, u, Rw),
         UNCHANGED <<tgt, bus>>
  PROVE  /\ hba'.coms = Queued(hba, u, Rw) /\ IsCounts(hba')
         /\ hba'.istate = "DEAD" => hba.istate = "DEAD"
         /\ hba'.ss = hba.ss /\ hba'.with = hba.with
         /\ hba'.istate = "DEAD" => hba'.com \in {None, "receive"}
         /\ hba'.istate # "DEAD" => BusInv(hba', tgt, bus)
         /\ hba.istate # "IDLE" => hba'.cur = hba.cur /\ hba'.istate = hba.istate
<1>1. /\ IsHba(hba) /\ hba.startq \in Seq(Units) /\ IsCounts(hba)
      /\ hba.istate = "DEAD" => hba.com \in {None, "receive"}
  BY DEF StackInv, ScsiInv, Shape
<1>2. CASE hba.istate # "IDLE"
  <2>1. Keeps(hba', hba, {"coms", "startq"}) /\ hba'.coms = Queued(hba, u, Rw)
    BY <1>1, <1>2, QueueKeeps
  <2>2. /\ hba'.istate = hba.istate /\ hba'.com = hba.com /\ hba'.tc0 = hba.tc0 /\ hba'.ss = hba.ss
        /\ hba'.with = hba.with /\ hba'.cur = hba.cur
    BY <2>1 DEF Keeps, Fields
  <2>3. hba.istate # "DEAD" => BusInv(hba', tgt, bus)
    BY <2>1, QueuedBus
  <2> QED
    BY <1>1, <2>1, <2>2, <2>3 DEF IsCounts
<1>3. CASE hba.istate = "IDLE"
  <2> DEFINE g == [hba EXCEPT !.coms[u] = Append(@, Rw)]
             k == [g EXCEPT !.startq = <<u>>]
  <2>1. k = Waiting(u)
    BY DEF Waiting
  <2>2. Keeps(g, hba, {"coms"}) /\ g.coms = Queued(hba, u, Rw)
    BY <1>1 DEF IsHba, Fields, Keeps, Queued
  <2> HIDE DEF g
  <2>3. Keeps(k, g, {"startq"})
    <3>1. IsHba(g)
      BY <2>2 DEF Keeps
    <3> QED
      BY <3>1, StoreKeeps
  <2> HIDE DEF k
  <2>4. /\ hba' = StartAny(k) /\ Shape(k, tgt, bus) /\ Placed(k, tgt, bus) /\ k.istate = "IDLE"
    BY <1>3, <2>1, QueueIdle DEF StackInv
  <2>5. /\ Keeps(k, hba, {"coms", "startq"}) /\ k.coms = Queued(hba, u, Rw) /\ IsHba(k)
        /\ k.ss = hba.ss /\ k.with = hba.with
    BY <2>2, <2>3 DEF Keeps, Fields
  <2>6. BusInv(k, tgt, bus) /\ IsCounts(k)
    BY <1>3, <2>5, QueuedBus
  <2>7. BusInv(hba', tgt, bus) /\ IsCounts(hba') /\ hba'.istate # "DEAD"
    BY <2>4, <2>6, StartAnyBus
  <2>8. hba'.coms = k.coms /\ hba'.ss = k.ss /\ hba'.with = k.with
    BY <2>4, <2>5, StartAnyLeaves
  <2> QED
    BY <1>3, <2>5, <2>7, <2>8
<1> QED
  BY <1>2, <1>3

LEMMA StrategyBus ==
  ASSUME StackInv, NEW u \in Units, DdStrategy(u)
  PROVE  /\ WorkInv' /\ IsCounts(hba')
         /\ hba'.istate = "DEAD" => hba'.com \in {None, "receive"}
         /\ hba'.istate # "DEAD" => BusInv(hba', tgt', bus')
         /\ hba'.istate = "DEAD" => hba.istate = "DEAD"
         /\ hba'.ss = hba.ss /\ hba'.with = hba.with
         /\ hba.istate # "IDLE" => hba'.cur = hba.cur /\ hba'.istate = hba.istate
         /\ \A v \in Units : hba.coms[v] # <<>> => hba'.coms[v] = hba.coms[v]
<1> DEFINE b == Len(finished[u]) + Len(dd[u].bufs) + 1
<1>1. UNCHANGED <<tgt, bus, finished>>
  BY DEF DdStrategy
<1>2. /\ dd \in [Units -> DdTypes] /\ finished \in [Units -> Seq(Outcomes)] /\ WorkInv
      /\ hba.coms \in [Units -> Seq(Com)]
  BY DEF StackInv, WorkInv, ScsiInv, Shape
<1>3. b \in Nat /\ dd[u].bufs \in Seq(Nat)
  BY <1>2, LenProperties DEF DdTypes
<1>4. CASE dd[u].bufs # <<>>
  <2>1. dd' = [dd EXCEPT ![u].bufs = Append(@, b)] /\ hba' = hba
    BY <1>4 DEF DdStrategy
  <2> HIDE DEF b
  <2>2. Append(dd[u].bufs, b) \in Seq(Nat) /\ Append(dd[u].bufs, b) # <<>>
    BY <1>3, AppendProperties
  <2>3. /\ dd' \in [Units -> DdTypes] /\ dd'[u].bufs # <<>> /\ dd'[u].state = dd[u].state
        /\ \A v \in Units : v # u => dd'[v] = dd[v]
    BY <1>2, <2>1, <2>2 DEF DdTypes
  <2>4. WorkInv'
    BY <1>1, <1>2, <1>4, <2>1, <2>3 DEF WorkInv, ComOf
  <2> QED
    BY <1>1, <2>1, <2>4 DEF StackInv
<1>5. CASE dd[u].bufs = <<>>
  <2>1. dd' = [dd EXCEPT ![u] = [state |-> "FIRST", bufs |-> <<b>>]] /\ hba' = Queue(hba, u, Rw)
    BY <1>5 DEF DdStrategy
  <2> HIDE DEF b
  <2>2. hba.coms[u] = <<>>
    BY <1>2, <1>5 DEF WorkInv
  <2>3. [state |-> "FIRST", bufs |-> <<b>>] \in DdTypes /\ <<b>> # <<>>
    BY <1>3 DEF DdTypes
  <2>4. /\ dd' \in [Units -> DdTypes] /\ dd'[u].bufs # <<>> /\ ComOf(dd'[u]) = Rw
        /\ \A v \in Units : v # u => dd'[v] = dd[v]
    BY <1>2, <2>1, <2>3 DEF ComOf
  <2>5. /\ hba'.coms = Queued(hba, u, Rw) /\ IsCounts(hba')
        /\ hba'.istate = "DEAD" => hba.istate = "DEAD"
        /\ hba'.ss = hba.ss /\ hba'.with = hba.with
        /\ hba'.istate = "DEAD" => hba'.com \in {None, "receive"}
        /\ hba'.istate # "DEAD" => BusInv(hba', tgt, bus)
        /\ hba.istate # "IDLE" => hba'.cur = hba.cur /\ hba'.istate = hba.istate
    BY <1>1, <2>1, <2>2, QueueBus
  <2>6. hba'.coms[u] = <<Rw>> /\ \A v \in Units : v # u => hba'.coms[v] = hba.coms[v]
    <3>1. Append(<<>>, Rw) = <<Rw>>
      BY OneCom DEF Com
    <3> QED
      BY <1>2, <2>2, <2>5, <3>1 DEF Queued
  <2>7. WorkInv'
    <3>1. <<Rw>> # <<>>
      OBVIOUS
    <3> QED
      BY <1>1, <1>2, <2>4, <2>6, <3>1 DEF WorkInv, ComOf
  <2> QED
    BY <1>1, <2>2, <2>5, <2>6, <2>7
<1> QED
  BY <1>4, <1>5

-----------------------------------------------------------------------------
(* The chip and the targets.                                               *)

\* The adapter with a status pending.
Raised(code, with) ==
  /\ Keeps(hba', hba, {"ss", "with", "com"})
  /\ hba'.ss = code /\ hba'.with = with /\ hba'.com = None
  /\ hba'.istate = hba.istate /\ hba'.cur = hba.cur /\ hba'.dma_on = hba.dma_on
  /\ hba'.coms = hba.coms /\ hba'.tc0 = hba.tc0 /\ hba'.tc = hba.tc /\ hba'.sac = hba.sac

LEMMA RaisedAll ==
  ASSUME StackInv, NEW code, NEW w, hba' = Raise(code, w)
  PROVE  Raised(code, w)
<1>1. IsHba(hba)
  BY DEF StackInv, ScsiInv, Shape
<1>2. /\ Keeps(hba', hba, {"ss", "with", "com"}) /\ hba'.ss = code /\ hba'.with = w /\ hba'.com = None
  BY <1>1, RaiseKeeps
<1> QED
  BY <1>2 DEF Raised, Keeps, Fields

\* Only the target of u changes, and of it only the fields in changed.
Turns(u, changed) ==
  /\ \A v \in Units : v # u => tgt'[v] = tgt[v]
  /\ \A f \in TgtFields \ changed : tgt'[u][f] = tgt[u][f]

\* The unit connected to a chip that transfers is the one being served.
LEMMA ActiveUnit ==
  ASSUME StackInv, NEW u \in Units, bus = u, hba.com = "transfer"
  PROVE  /\ hba.istate \in {"STARTING", "RESUMING", "ENDING"} /\ hba.ss = None /\ hba.cur = u
         /\ IsTgts(tgt) /\ IsCounts(hba) /\ IsHba(hba) /\ u # None
         /\ tgt[u].st = IF hba.istate = "ENDING" THEN "status" ELSE "busy"
         /\ \A v \in Units : v # u => tgt[v].st \in {"free", "away"}
         /\ Where(hba, tgt, bus) /\ Counts(hba, tgt, bus) /\ Checks(hba, tgt)
<1>1. hba.istate # "DEAD"
  BY DEF StackInv, None
<1>2. /\ Registers(hba, tgt, bus) /\ Talk(hba) /\ Where(hba, tgt, bus) /\ Counts(hba, tgt, bus)
      /\ Checks(hba, tgt) /\ IsCounts(hba) /\ IsHba(hba)
  BY <1>1, Interrupted
<1>3. IsTgts(tgt)
  BY DEF StackInv, ScsiInv, Shape, IsTgts
<1>4. u # None
  BY ScsiAssumption
<1> QED
  BY <1>2, <1>3, <1>4 DEF Registers, Talk, Where, None

LEMMA MoveBus ==
  ASSUME StackInv, NEW u \in Units, Move(u)
  PROVE  Continues /\ hba'.istate # "DEAD"
<1>1. /\ bus = u /\ hba.com = "transfer" /\ tgt[u].st = "busy" /\ bus' = bus
      /\ tgt[u].moved < tgt[u].len /\ hba.tc > 0
      /\ hba' = [hba EXCEPT !.tc = @ - 1, !.sac.pos = @ + 1]
      /\ tgt' = [tgt EXCEPT ![u].moved = @ + 1]
  BY DEF Move, Active
<1>2. /\ hba.istate \in {"STARTING", "RESUMING"} /\ hba.ss = None /\ hba.cur = u
      /\ IsTgts(tgt) /\ IsCounts(hba) /\ IsHba(hba) /\ u # None
      /\ \A v \in Units : v # u => tgt[v].st \in {"free", "away"}
      /\ Where(hba, tgt, bus) /\ Counts(hba, tgt, bus) /\ Checks(hba, tgt)
  BY <1>1, ActiveUnit
<1>3. /\ hba'.istate = hba.istate /\ hba'.ss = None /\ hba'.com = "transfer" /\ hba'.cur = u
      /\ hba'.coms = hba.coms /\ hba'.dma_on = hba.dma_on /\ hba'.tc0 = hba.tc0
      /\ hba'.tc = hba.tc - 1 /\ hba'.sac = [hba.sac EXCEPT !.pos = @ + 1]
  BY <1>1, <1>2 DEF IsHba, Fields
<1>4. /\ Turns(u, {"moved"}) /\ tgt'[u].moved = tgt[u].moved + 1
  BY <1>1, <1>2 DEF Turns, IsTgts, TgtFields
<1>5. /\ tgt'[u].st = "busy" /\ tgt'[u].cmd = tgt[u].cmd /\ tgt'[u].len = tgt[u].len
      /\ tgt'[u].saved = tgt[u].saved /\ tgt'[u].midway = tgt[u].midway
      /\ tgt'[u].check = tgt[u].check
      /\ \A v \in Units : v # u => tgt'[v] = tgt[v]
  BY <1>1, <1>4 DEF Turns, TgtFields
<1>6. Talk(hba') /\ Ready(hba')
  BY <1>2, <1>3 DEF Talk, Ready
<1>7. Where(hba', tgt', bus')
  BY <1>1, <1>2, <1>3, <1>5 DEF Where, Selecting, None
<1>8. Counts(hba', tgt', bus')
  <2> SUFFICES ASSUME NEW v \in Units PROVE CountOf(hba', tgt', bus, v)
    BY <1>1 DEF Counts
  <2>1. CountOf(hba, tgt, bus, v)
    BY <1>2 DEF Counts
  <2>2. CASE v # u
    <3>1. /\ tgt'[v] = tgt[v] /\ tgt[v].st \in {"free", "away"} /\ bus # v
          /\ hba'.coms[v] = hba.coms[v] /\ hba'.tc0[v] = hba.tc0[v]
      BY <1>1, <1>2, <1>3, <1>5, <2>2
    <3> QED
      BY <2>1, <3>1, OthersCount
  <2>3. CASE v = u
    <3>1. Numbers(tgt'[u])
      BY <1>1, <1>4, <1>5, <2>1, <2>3 DEF CountOf, Numbers
    <3>2. hba'.tc = tgt'[u].len - tgt'[u].moved
      BY <1>1, <1>3, <1>4, <1>5, <2>1, <2>3 DEF CountOf, Numbers
    <3>3. ~tgt'[u].midway => InStep(hba', tgt'[u], u)
      <4> SUFFICES ASSUME ~tgt[u].midway PROVE InStep(hba', tgt'[u], u)
        BY <1>5
      <4>1. hba.dma_on /\ hba.sac = [unit |-> u, cmd |-> tgt[u].cmd, pos |-> tgt[u].moved]
        BY <1>1, <1>2, <2>1, <2>3 DEF CountOf, InStep, None
      <4>2. hba'.sac = [unit |-> u, cmd |-> tgt[u].cmd, pos |-> tgt[u].moved + 1]
        BY <1>3, <4>1
      <4> QED
        BY <1>3, <1>4, <1>5, <3>2, <4>1, <4>2 DEF InStep
    <3>4. ~AtSaved(hba', tgt', bus, u) /\ hba'.ss # "save"
      BY <1>2, <1>3, <1>5 DEF AtSaved, None
    <3> QED
      BY <1>1, <1>2, <1>3, <1>5, <2>1, <2>3, <3>1, <3>2, <3>3, <3>4 DEF CountOf, None
  <2> QED
    BY <2>2, <2>3
<1>9. Checks(hba', tgt')
  BY <1>2, <1>3, <1>5 DEF Checks, None
<1>10. IsCounts(hba')
  BY <1>2, <1>3 DEF IsCounts
<1> QED
  BY <1>2, <1>3, <1>6, <1>7, <1>8, <1>9, <1>10 DEF Continues, BusInv

\* The messages that leave the target on the bus, and a status ahead of time.
LEMMA MessageBus ==
  ASSUME StackInv, NEW u \in Units,
         SaveMessage(u) \/ RestoreMessage(u) \/ OtherMessage(u) \/ EarlyStatus(u)
  PROVE  /\ Continues /\ hba'.istate = hba.istate /\ hba'.istate # "DEAD"
         /\ hba'.ss = "message" /\ hba'.with # "restore" => OtherMessage(u)
<1>1. bus = u /\ hba.com = "transfer" /\ tgt[u].st = "busy" /\ bus' = bus
  BY DEF SaveMessage, RestoreMessage, OtherMessage, EarlyStatus, Detour, Active
<1>2. /\ hba.istate \in {"STARTING", "RESUMING"} /\ hba.ss = None /\ hba.cur = u
      /\ IsTgts(tgt) /\ IsCounts(hba) /\ IsHba(hba) /\ u # None
      /\ \A v \in Units : v # u => tgt[v].st \in {"free", "away"}
      /\ Where(hba, tgt, bus) /\ Counts(hba, tgt, bus) /\ Checks(hba, tgt)
  BY <1>1, ActiveUnit
<1>3. /\ \/ /\ Raised("save", None) /\ tgt'[u].saved = tgt[u].moved
            /\ Turns(u, {"saved", "detours"})
         \/ /\ Raised("message", "restore") /\ tgt'[u].moved = tgt[u].saved
            /\ (~tgt'[u].midway => ~tgt[u].midway /\ tgt[u].moved = tgt[u].saved)
            /\ Turns(u, {"moved", "detours", "midway"})
         \/ /\ Raised("message", "other") /\ Turns(u, {"detours"}) /\ OtherMessage(u)
         \/ /\ Raised("status", None) /\ tgt'[u].st = "status" /\ Turns(u, {"st"})
  <2>1. CASE SaveMessage(u)
    <3>1. Raised("save", None)
      BY <2>1, RaisedAll DEF SaveMessage
    <3>2. tgt'[u].saved = tgt[u].moved /\ Turns(u, {"saved", "detours"})
      BY <1>2, <2>1 DEF SaveMessage, Turns, IsTgts, TgtFields
    <3> QED
      BY <3>1, <3>2
  <2>2. CASE RestoreMessage(u)
    <3>1. Raised("message", "restore")
      BY <2>2, RaisedAll DEF RestoreMessage
    <3> DEFINE m == tgt[u].midway \/ tgt[u].moved # tgt[u].saved
    <3>2. tgt' = [tgt EXCEPT ![u].moved = tgt[u].saved, ![u].detours = @ + 1, ![u].midway = m]
      BY <2>2 DEF RestoreMessage
    <3>3. ~m => ~tgt[u].midway /\ tgt[u].moved = tgt[u].saved
      OBVIOUS
    <3> HIDE DEF m
    <3>4. /\ tgt'[u].moved = tgt[u].saved /\ tgt'[u].midway = m
          /\ Turns(u, {"moved", "detours", "midway"})
      BY <1>2, <3>2 DEF Turns, IsTgts, TgtFields
    <3> QED
      BY <3>1, <3>3, <3>4
  <2>3. CASE OtherMessage(u)
    <3>1. Raised("message", "other")
      BY <2>3, RaisedAll DEF OtherMessage
    <3>2. Turns(u, {"detours"})
      BY <1>2, <2>3 DEF OtherMessage, Turns, IsTgts, TgtFields
    <3> QED
      BY <2>3, <3>1, <3>2
  <2>4. CASE EarlyStatus(u)
    <3>1. Raised("status", None)
      BY <2>4, RaisedAll DEF EarlyStatus
    <3>2. tgt'[u].st = "status" /\ Turns(u, {"st"})
      BY <1>2, <2>4 DEF EarlyStatus, Turns, IsTgts, TgtFields
    <3> QED
      BY <3>1, <3>2
  <2> QED
    BY <2>1, <2>2, <2>3, <2>4
<1>4. /\ hba'.istate = hba.istate /\ hba'.com = None /\ hba'.cur = u
      /\ hba'.coms = hba.coms /\ hba'.dma_on = hba.dma_on /\ hba'.tc0 = hba.tc0
      /\ hba'.tc = hba.tc /\ hba'.sac = hba.sac
      /\ hba'.ss \in {"save", "message", "status"}
  BY <1>2, <1>3 DEF Raised
<1>5. /\ tgt'[u].st = IF hba'.ss = "status" THEN "status" ELSE "busy"
      /\ tgt'[u].cmd = tgt[u].cmd /\ tgt'[u].len = tgt[u].len
      /\ tgt'[u].check = tgt[u].check
      /\ \A v \in Units : v # u => tgt'[v] = tgt[v]
  BY <1>1, <1>3 DEF Turns, TgtFields, Raised
<1>6. \/ /\ hba'.ss = "save" /\ tgt'[u].saved = tgt[u].moved
         /\ tgt'[u].moved = tgt[u].moved /\ tgt'[u].midway = tgt[u].midway
      \/ /\ hba'.ss = "message" /\ hba'.with = "restore"
         /\ tgt'[u].moved = tgt[u].saved /\ tgt'[u].saved = tgt[u].saved
         /\ (~tgt'[u].midway => ~tgt[u].midway /\ tgt[u].moved = tgt[u].saved)
      \/ /\ hba'.ss = "message" /\ hba'.with = "other" /\ tgt'[u].saved = tgt[u].saved
         /\ tgt'[u].moved = tgt[u].moved /\ tgt'[u].midway = tgt[u].midway
      \/ /\ hba'.ss = "status" /\ tgt'[u].saved = tgt[u].saved
         /\ tgt'[u].moved = tgt[u].moved
  BY <1>3 DEF Turns, TgtFields, Raised
<1>7. Talk(hba') /\ Ready(hba')
  BY <1>2, <1>4 DEF Talk, Ready, Interruptions, None
<1>8. Where(hba', tgt', bus')
  BY <1>1, <1>2, <1>4, <1>5 DEF Where, Selecting, None
<1>9. Counts(hba', tgt', bus')
  <2> SUFFICES ASSUME NEW v \in Units PROVE CountOf(hba', tgt', bus, v)
    BY <1>1 DEF Counts
  <2>1. CountOf(hba, tgt, bus, v)
    BY <1>2 DEF Counts
  <2>2. CASE v # u
    BY <1>1, <1>2, <1>4, <1>5, <2>1, <2>2, OthersCount
  <2>3. CASE v = u
    BY <1>1, <1>2, <1>4, <1>5, <1>6, <2>1, <2>3 DEF CountOf, AtSaved, InStep, Numbers, None
  <2> QED
    BY <2>2, <2>3
<1>10. Checks(hba', tgt')
  BY <1>1, <1>2, <1>4, <1>5 DEF Checks, None
<1>11. IsCounts(hba')
  BY <1>2, <1>4 DEF IsCounts
<1>12. Continues
  BY <1>2, <1>4, <1>7, <1>8, <1>9, <1>10, <1>11 DEF Continues, BusInv
<1>13. hba'.ss = "message" /\ hba'.with # "restore" => OtherMessage(u)
  <2> HIDE DEF OtherMessage
  <2> QED
    BY <1>3 DEF Raised
<1> QED
  BY <1>2, <1>4, <1>12, <1>13

LEMMA DisconnectBus ==
  ASSUME StackInv, NEW u \in Units, DisconnectMessage(u)
  PROVE  Continues /\ hba'.istate # "DEAD"
<1>1. /\ bus = u /\ hba.com = "transfer" /\ tgt[u].st = "busy" /\ bus' = None
      /\ hba' = Raise("disconnected", None)
      /\ tgt' = [tgt EXCEPT ![u].st = "away", ![u].moved = tgt[u].saved, ![u].detours = @ + 1]
  BY DEF DisconnectMessage, Detour, Active
<1>2. /\ hba.istate \in {"STARTING", "RESUMING"} /\ hba.ss = None /\ hba.cur = u
      /\ IsTgts(tgt) /\ IsCounts(hba) /\ IsHba(hba) /\ u # None
      /\ \A v \in Units : v # u => tgt[v].st \in {"free", "away"}
      /\ Where(hba, tgt, bus) /\ Counts(hba, tgt, bus) /\ Checks(hba, tgt)
  BY <1>1, ActiveUnit
<1>3. Raised("disconnected", None)
  BY <1>1, RaisedAll
<1>4. Turns(u, {"st", "moved", "detours"}) /\ tgt'[u].st = "away" /\ tgt'[u].moved = tgt[u].saved
  BY <1>1, <1>2 DEF Turns, IsTgts, TgtFields
<1>5. /\ tgt'[u].cmd = tgt[u].cmd /\ tgt'[u].len = tgt[u].len /\ tgt'[u].saved = tgt[u].saved
      /\ \A v \in Units : v # u => tgt'[v] = tgt[v]
  BY <1>4 DEF Turns, TgtFields
<1>6. /\ hba'.istate = hba.istate /\ hba'.com = None /\ hba'.cur = u /\ hba'.ss = "disconnected"
      /\ hba'.coms = hba.coms /\ hba'.tc0 = hba.tc0
  BY <1>2, <1>3 DEF Raised
<1>7. Talk(hba') /\ Ready(hba')
  BY <1>2, <1>6 DEF Talk, Ready, Interruptions, None
<1>8. Where(hba', tgt', None)
  BY <1>2, <1>4, <1>5, <1>6 DEF Where, Selecting, None
<1>9. Counts(hba', tgt', None)
  <2> SUFFICES ASSUME NEW v \in Units PROVE CountOf(hba', tgt', None, v)
    BY DEF Counts
  <2>1. CountOf(hba, tgt, bus, v) /\ v # None
    BY <1>2, ScsiAssumption DEF Counts
  <2>2. CASE v # u
    <3>1. /\ tgt'[v] = tgt[v] /\ tgt[v].st \in {"free", "away"} /\ bus # v
          /\ hba'.coms[v] = hba.coms[v] /\ hba'.tc0[v] = hba.tc0[v]
      BY <1>1, <1>2, <1>5, <1>6, <2>2
    <3> QED
      BY <2>1, <3>1, OthersCount
  <2>3. CASE v = u
    BY <1>1, <1>2, <1>4, <1>5, <1>6, <2>1, <2>3 DEF CountOf, Numbers, None
  <2> QED
    BY <2>2, <2>3
<1>10. Checks(hba', tgt')
  BY <1>2, <1>4, <1>5, <1>6 DEF Checks, None
<1>11. IsCounts(hba')
  BY <1>2, <1>6 DEF IsCounts
<1> QED
  BY <1>1, <1>2, <1>6, <1>7, <1>8, <1>9, <1>10, <1>11 DEF Continues, BusInv

LEMMA StatusBus ==
  ASSUME StackInv, NEW u \in Units, NEW good \in BOOLEAN, Status(u, good)
  PROVE  Continues /\ hba'.istate # "DEAD"
<1> DEFINE new == [Target("free") EXCEPT !.check = ~good]
           w == IF good THEN "good" ELSE "check"
<1>1. /\ bus = u /\ hba.com = "transfer" /\ bus' = None
      /\ hba' = Raise("complete", w) /\ tgt' = [tgt EXCEPT ![u] = new]
  BY DEF Status
<1>2. /\ hba.istate \in {"STARTING", "RESUMING", "ENDING"} /\ hba.ss = None /\ hba.cur = u
      /\ IsTgts(tgt) /\ IsCounts(hba) /\ IsHba(hba) /\ u # None
      /\ \A v \in Units : v # u => tgt[v].st \in {"free", "away"}
      /\ Where(hba, tgt, bus) /\ Counts(hba, tgt, bus) /\ Checks(hba, tgt)
  BY <1>1, ActiveUnit
<1>3. new.st = "free" /\ (w # "good" => new.check)
  BY DEF Target
<1>4. Raised("complete", w)
  BY <1>1, RaisedAll
<1> HIDE DEF new, w
<1>5. tgt'[u] = new /\ \A v \in Units : v # u => tgt'[v] = tgt[v]
  BY <1>1, <1>2 DEF IsTgts
<1>6. /\ hba'.istate = hba.istate /\ hba'.com = None /\ hba'.cur = u /\ hba'.ss = "complete"
      /\ hba'.coms = hba.coms /\ hba'.tc0 = hba.tc0 /\ hba'.with = w
  BY <1>2, <1>4 DEF Raised
<1>7. Talk(hba') /\ Ready(hba')
  BY <1>2, <1>6 DEF Talk, Ready, Interruptions, None
<1>8. Where(hba', tgt', None)
  BY <1>2, <1>3, <1>5, <1>6 DEF Where, Selecting, None
<1>9. Counts(hba', tgt', None)
  <2> SUFFICES ASSUME NEW v \in Units PROVE CountOf(hba', tgt', None, v)
    BY DEF Counts
  <2>1. CountOf(hba, tgt, bus, v) /\ v # None
    BY <1>2, ScsiAssumption DEF Counts
  <2>2. CASE v # u
    <3>1. /\ tgt'[v] = tgt[v] /\ tgt[v].st \in {"free", "away"} /\ bus # v
          /\ hba'.coms[v] = hba.coms[v] /\ hba'.tc0[v] = hba.tc0[v]
      BY <1>1, <1>2, <1>5, <1>6, <2>2
    <3> QED
      BY <2>1, <3>1, OthersCount
  <2>3. CASE v = u
    BY <1>3, <1>5, <2>3 DEF CountOf
  <2> QED
    BY <2>2, <2>3
<1>10. Checks(hba', tgt')
  BY <1>2, <1>3, <1>5, <1>6 DEF Checks, None
<1>11. IsCounts(hba')
  BY <1>2, <1>6 DEF IsCounts
<1> QED
  BY <1>1, <1>2, <1>6, <1>7, <1>8, <1>9, <1>10, <1>11 DEF Continues, BusInv

\* A selection is under way: no target is on the bus and the unit's is free.
LEMMA SelectedUnit ==
  ASSUME StackInv, hba.com = "select"
  PROVE  /\ hba.istate = "STARTING" /\ hba.ss = None /\ hba.cur \in Units
         /\ bus = None /\ tgt[hba.cur].st = "free" /\ hba.coms[hba.cur] # <<>>
         /\ \A v \in Units : tgt[v].st \in {"free", "away"} /\ bus # v
         /\ IsTgts(tgt) /\ IsCounts(hba) /\ IsHba(hba) /\ hba.coms \in [Units -> Seq(Com)]
         /\ Where(hba, tgt, bus) /\ Counts(hba, tgt, bus) /\ Checks(hba, tgt) /\ Ready(hba)
<1>1. hba.istate # "DEAD"
  BY DEF StackInv, None
<1>2. /\ Registers(hba, tgt, bus) /\ Talk(hba) /\ Where(hba, tgt, bus) /\ Counts(hba, tgt, bus)
      /\ Checks(hba, tgt) /\ IsCounts(hba) /\ IsHba(hba) /\ Ready(hba) /\ OnePlace(hba, tgt, bus)
      /\ hba.coms \in [Units -> Seq(Com)]
  BY <1>1, Interrupted
<1>3. IsTgts(tgt)
  BY DEF StackInv, ScsiInv, Shape, IsTgts
<1>4. hba.istate = "STARTING" /\ hba.ss = None
  BY <1>2 DEF Talk, None
<1>5. hba.cur \in Units /\ bus = None /\ tgt[hba.cur].st = "free"
  BY <1>2, <1>4 DEF Registers, Where, Selecting
<1>6. hba.coms[hba.cur] # <<>>
  BY <1>2, <1>4, <1>5 DEF OnePlace, Has
<1>7. \A v \in Units : tgt[v].st \in {"free", "away"} /\ bus # v
  BY <1>2, <1>5, ScsiAssumption DEF Where
<1> QED
  BY <1>2, <1>3, <1>4, <1>5, <1>6, <1>7

LEMMA AnswerBus ==
  ASSUME StackInv, Answer
  PROVE  Continues /\ hba'.istate # "DEAD"
<1> DEFINE u == hba.cur
           cdb == Head(hba.coms[u])
           new == [Target("busy") EXCEPT !.cmd = cdb.cmd, !.len = cdb.len,
                                         !.check = tgt[u].check /\ cdb = Sense]
<1>1. bus' = u /\ hba.com = "select" /\ tgt' = [tgt EXCEPT ![u] = new]
      /\ hba' = [hba EXCEPT !.com = "transfer"]
  BY DEF Answer
<1>2. /\ hba.istate = "STARTING" /\ hba.ss = None /\ u \in Units
      /\ bus = None /\ tgt[u].st = "free" /\ hba.coms[u] # <<>>
      /\ \A v \in Units : tgt[v].st \in {"free", "away"} /\ bus # v
      /\ IsTgts(tgt) /\ IsCounts(hba) /\ IsHba(hba) /\ hba.coms \in [Units -> Seq(Com)]
      /\ Where(hba, tgt, bus) /\ Counts(hba, tgt, bus) /\ Checks(hba, tgt) /\ Ready(hba)
  BY <1>1, SelectedUnit
<1>3. cdb.len \in Nat \ {0}
  BY <1>2, FirstCom
<1>4. /\ hba'.istate = "STARTING" /\ hba'.com = "transfer" /\ hba'.cur = u /\ hba'.ss = None
      /\ hba'.coms = hba.coms /\ hba'.tc0 = hba.tc0 /\ hba'.tc = hba.tc
      /\ hba'.dma_on = hba.dma_on /\ hba'.sac = hba.sac
  BY <1>1, <1>2 DEF IsHba, Fields
<1>5. hba.tc0[u] = cdb.len /\ hba.tc = cdb.len /\ hba.dma_on
      /\ hba.sac = [unit |-> u, cmd |-> cdb.cmd, pos |-> 0]
  BY <1>1, <1>2 DEF Ready
<1>6. /\ new.st = "busy" /\ new.cmd = cdb.cmd /\ new.len = cdb.len /\ new.moved = 0
      /\ new.saved = 0
  <2> HIDE DEF u, cdb
  <2> QED
    BY DEF Target
<1> HIDE DEF new
<1>7. tgt'[u] = new /\ \A v \in Units : v # u => tgt'[v] = tgt[v]
  BY <1>1, <1>2 DEF IsTgts
<1>8. u # None
  BY <1>2, ScsiAssumption
<1> HIDE DEF u
<1>9. Talk(hba') /\ Ready(hba')
  BY <1>4 DEF Talk, Ready
<1>10. Where(hba', tgt', u)
  BY <1>2, <1>4, <1>6, <1>7 DEF Where, Selecting, None
<1>11. Counts(hba', tgt', u)
  <2> SUFFICES ASSUME NEW v \in Units PROVE CountOf(hba', tgt', u, v)
    BY DEF Counts
  <2>1. CountOf(hba, tgt, bus, v)
    BY <1>2 DEF Counts
  <2>2. CASE v # u
    <3>1. /\ tgt'[v] = tgt[v] /\ tgt[v].st \in {"free", "away"} /\ bus # v
          /\ hba'.coms[v] = hba.coms[v] /\ hba'.tc0[v] = hba.tc0[v]
      BY <1>1, <1>2, <1>4, <1>7, <2>2
    <3> QED
      BY <2>1, <2>2, <3>1, OthersCount
  <2>3. CASE v = u
    <3> HIDE DEF cdb
    <3>1. Numbers(new) /\ cdb.len - 0 = cdb.len
      BY <1>3, <1>6 DEF Numbers
    <3>2. InStep(hba', new, u)
      BY <1>3, <1>4, <1>5, <1>6, <3>1 DEF InStep
    <3> QED
      BY <1>3, <1>4, <1>5, <1>6, <1>7, <2>3, <3>1, <3>2 DEF CountOf, cdb, None
  <2> QED
    BY <2>2, <2>3
<1>12. Checks(hba', tgt')
  BY <1>2, <1>4, <1>6, <1>7 DEF Checks, None
<1>13. IsCounts(hba')
  BY <1>2, <1>4 DEF IsCounts
<1> QED
  BY <1>1, <1>4, <1>9, <1>10, <1>11, <1>12, <1>13 DEF Continues, BusInv, u

LEMMA NoAnswerBus ==
  ASSUME StackInv, NoAnswer
  PROVE  Continues /\ hba'.istate # "DEAD"
<1>1. hba.com = "select" /\ UNCHANGED <<tgt, bus>> /\ hba' = Raise("no device", None)
  BY DEF NoAnswer
<1>2. /\ hba.istate = "STARTING" /\ hba.ss = None /\ hba.cur \in Units
      /\ bus = None /\ tgt[hba.cur].st = "free"
      /\ \A v \in Units : tgt[v].st \in {"free", "away"} /\ bus # v
      /\ IsCounts(hba) /\ Where(hba, tgt, bus) /\ Counts(hba, tgt, bus) /\ Checks(hba, tgt)
  BY <1>1, SelectedUnit
<1>3. Raised("no device", None)
  BY <1>1, RaisedAll
<1>4. /\ hba'.istate = "STARTING" /\ hba'.com = None /\ hba'.cur = hba.cur /\ hba'.ss = "no device"
      /\ hba'.coms = hba.coms /\ hba'.tc0 = hba.tc0
  BY <1>2, <1>3 DEF Raised
<1>5. Talk(hba') /\ Ready(hba')
  BY <1>4 DEF Talk, Ready, None
<1>6. Where(hba', tgt, bus)
  BY <1>2, <1>4 DEF Where, Selecting, None
<1>7. Counts(hba', tgt, bus)
  BY <1>2, <1>4, OthersCount DEF Counts
<1>8. Checks(hba', tgt)
  BY <1>2, <1>4 DEF Checks, None
<1>9. IsCounts(hba')
  BY <1>2, <1>4 DEF IsCounts
<1> QED
  BY <1>1, <1>4, <1>5, <1>6, <1>7, <1>8, <1>9 DEF Continues, BusInv

LEMMA AcceptBus ==
  ASSUME StackInv, AcceptMessage
  PROVE  Continues /\ hba'.istate = hba.istate /\ hba'.ss = "accept"
<1>1. hba.com = "receive" /\ UNCHANGED <<tgt, bus>> /\ hba' = Raise("accept", None)
  BY DEF AcceptMessage
<1>2. Raised("accept", None) /\ IsCounts(hba)
  BY <1>1, RaisedAll DEF StackInv
<1>3. /\ hba'.istate = hba.istate /\ hba'.com = None /\ hba'.cur = hba.cur /\ hba'.ss = "accept"
      /\ hba'.coms = hba.coms /\ hba'.tc0 = hba.tc0 /\ hba'.tc = hba.tc /\ hba'.dma_on = hba.dma_on
      /\ hba'.sac = hba.sac
  BY <1>2 DEF Raised
<1>4. ASSUME hba.istate # "DEAD" PROVE BusInv(hba', tgt, bus)
  <2>1. /\ Registers(hba, tgt, bus) /\ Talk(hba) /\ Where(hba, tgt, bus)
        /\ Counts(hba, tgt, bus) /\ Checks(hba, tgt)
    BY <1>4, Interrupted
  <2>2. hba.istate = "MESSAGING" /\ hba.ss = None /\ bus = hba.cur
    BY <1>1, <2>1 DEF Talk, Registers, None
  <2>3. Talk(hba') /\ Ready(hba')
    BY <1>3, <2>2 DEF Talk, Ready, None
  <2>4. Where(hba', tgt, bus)
    BY <1>1, <1>3, <2>1, <2>2 DEF Where, Selecting, None
  <2>5. Counts(hba', tgt, bus)
    <3> SUFFICES ASSUME NEW v \in Units PROVE CountOf(hba', tgt, bus, v)
      BY DEF Counts
    <3>1. CountOf(hba, tgt, bus, v)
      BY <2>1 DEF Counts
    <3> QED
      BY <1>1, <1>3, <2>2, <3>1 DEF CountOf, AtSaved, InStep, None
  <2>6. Checks(hba', tgt)
    BY <1>3, <2>1, <2>2 DEF Checks, None
  <2> QED
    BY <2>3, <2>4, <2>5, <2>6 DEF BusInv
<1> QED
  BY <1>1, <1>2, <1>3, <1>4 DEF Continues, IsCounts

LEMMA ReselectBus ==
  ASSUME StackInv, NEW u \in Units, Reselect(u)
  PROVE  Continues /\ hba'.istate = hba.istate /\ hba'.ss = "reselected"
<1>1. /\ tgt[u].st = "away" /\ bus = None /\ hba.ss = None /\ hba.com \in {None, "select"}
      /\ bus' = u /\ hba' = Raise("reselected", u)
      /\ tgt' = [tgt EXCEPT ![u].st = "busy", ![u].midway = FALSE]
  BY DEF Reselect
<1>2. Raised("reselected", u) /\ IsCounts(hba) /\ IsTgts(tgt)
  BY <1>1, RaisedAll DEF StackInv, ScsiInv, Shape, IsTgts
<1>3. /\ hba'.istate = hba.istate /\ hba'.com = None /\ hba'.cur = hba.cur /\ hba'.ss = "reselected"
      /\ hba'.coms = hba.coms /\ hba'.tc0 = hba.tc0
  BY <1>2 DEF Raised
<1>4. ASSUME hba.istate # "DEAD" PROVE BusInv(hba', tgt', u)
  <2>1. /\ Registers(hba, tgt, bus) /\ Talk(hba) /\ Where(hba, tgt, bus)
        /\ Counts(hba, tgt, bus) /\ Checks(hba, tgt)
    BY <1>4, Interrupted
  <2>2. \/ hba.istate = "IDLE" /\ hba.com = None
        \/ /\ hba.istate = "STARTING" /\ hba.com = "select" /\ tgt[hba.cur].st = "free"
           /\ hba.cur \in Units /\ hba.cur # u
    <3>1. CASE hba.com = "select"
      BY <1>1, <3>1, SelectedUnit
    <3>2. CASE hba.com = None
      BY <1>1, <1>4, <2>1, <3>2 DEF Talk, Interruptions, None
    <3> QED
      BY <1>1, <3>1, <3>2
  <2>3. Turns(u, {"st", "midway"}) /\ tgt'[u].st = "busy"
    BY <1>1, <1>2 DEF Turns, IsTgts, TgtFields
  <2>4. /\ tgt'[u].cmd = tgt[u].cmd /\ tgt'[u].len = tgt[u].len /\ tgt'[u].saved = tgt[u].saved
        /\ tgt'[u].moved = tgt[u].moved /\ tgt'[u].st = "busy"
        /\ \A v \in Units : v # u => tgt'[v] = tgt[v]
    BY <2>3 DEF Turns, TgtFields
  <2>5. u # None /\ \A v \in Units : tgt[v].st \in {"free", "away"} /\ bus # v
    BY <1>1, <2>1, ScsiAssumption DEF Where
  <2>6. Talk(hba') /\ Ready(hba')
    BY <1>3, <2>2 DEF Talk, Ready, None
  <2>7. Where(hba', tgt', u)
    <3>1. \A v \in Units : /\ tgt'[v].st \in {"free", "away", "busy", "status"}
                           /\ tgt'[v].st \in {"busy", "status"} => u = v
      BY <2>4, <2>5
    <3>2. hba.istate # "IDLE" => tgt'[hba.cur].st = "free"
      BY <2>2, <2>4
    <3> QED
      BY <1>3, <2>4, <3>1, <3>2 DEF Where, Selecting, None
  <2>8. Counts(hba', tgt', u)
    <3> SUFFICES ASSUME NEW v \in Units PROVE CountOf(hba', tgt', u, v)
      BY DEF Counts
    <3>1. CountOf(hba, tgt, bus, v)
      BY <2>1 DEF Counts
    <3>2. CASE v # u
      <4>1. /\ tgt'[v] = tgt[v] /\ tgt[v].st \in {"free", "away"} /\ bus # v
            /\ hba'.coms[v] = hba.coms[v] /\ hba'.tc0[v] = hba.tc0[v]
        BY <1>3, <2>4, <2>5, <3>2
      <4> QED
        BY <3>1, <3>2, <4>1, OthersCount
    <3>3. CASE v = u
      BY <1>1, <1>3, <2>4, <3>1, <3>3 DEF CountOf, AtSaved, Numbers, None
    <3> QED
      BY <3>2, <3>3
  <2>9. Checks(hba', tgt')
    BY <1>1, <1>3, <2>1, <2>4 DEF Checks, None
  <2> QED
    BY <2>6, <2>7, <2>8, <2>9 DEF BusInv
<1>5. IsCounts(hba')
  BY <1>2, <1>3 DEF IsCounts
<1> QED
  BY <1>1, <1>3, <1>4, <1>5 DEF Continues

-----------------------------------------------------------------------------
(* Every step keeps the invariant.                                         *)

LEMMA ContinuesInv ==
  ASSUME StackInv, Continues, ScsiInv', UNCHANGED <<dd, finished>>
  PROVE  StackInv'
<1>1. WorkInv'
  BY DEF StackInv, WorkInv, Continues
<1> QED
  BY <1>1 DEF StackInv, Continues

LEMMA IntrBus ==
  ASSUME StackInv, ScsiInv', A3091Intr
  PROVE  /\ StackInv'
         /\ hba'.istate = "DEAD" => hba.istate = "DEAD" \/ (ReadMessage /\ hba.with # "restore")
         /\ hba.istate # "DEAD" => hba'.ss = None
<1>1. ASSUME Complete \/ Abort
      PROVE  StackInv' /\ hba'.istate # "DEAD" /\ hba'.ss = None
  <2>1. \E okay, good : /\ EndCommand(okay, good) /\ hba.istate \notin {"IDLE", "DEAD"}
                        /\ hba.ss \in {"complete", "no device"}
                        /\ okay => hba.ss = "complete" /\ good = (hba.with = "good")
    <3>1. CASE Complete
      <4>1. DfaAction(hba.istate, hba.ss) = "complete" /\ EndCommand(TRUE, hba.with = "good")
        BY <3>1 DEF Complete, Intr
      <4>2. hba.istate \notin {"IDLE", "DEAD"} /\ hba.ss = "complete"
        BY <4>1 DEF DfaAction
      <4> QED
        BY <4>1, <4>2
    <3>2. CASE Abort
      <4>1. DfaAction(hba.istate, hba.ss) = "abort" /\ EndCommand(FALSE, FALSE)
        BY <3>2 DEF Abort, Intr
      <4>2. hba.istate \notin {"IDLE", "DEAD"} /\ hba.ss = "no device"
        BY <4>1 DEF DfaAction
      <4> QED
        BY <4>1, <4>2
    <3> QED
      BY <1>1, <3>1, <3>2
  <2>2. /\ WorkInv' /\ IsCounts(hba') /\ BusInv(hba', tgt', bus') /\ hba'.istate # "DEAD"
        /\ hba'.ss = None
    BY <2>1, EndBus
  <2> QED
    BY <2>2 DEF StackInv
<1>3. ASSUME Dead PROVE StackInv' /\ hba.istate = "DEAD"
  <2>1. Continues /\ hba.istate = "DEAD" /\ UNCHANGED <<dd, finished>>
    BY <1>3, DeadBus DEF Dead, Adapter
  <2> QED
    BY <2>1, ContinuesInv
<1>4. ASSUME Resume \/ Requeue \/ SavePointers \/ Disconnected \/ RestorePointers \/ AwaitEnd
      PROVE  StackInv' /\ hba'.istate # "DEAD" /\ hba'.ss = None
  <2>1. Continues /\ hba'.istate # "DEAD" /\ hba'.ss = None
    BY <1>4, ResumeBus, SaveBus, DisconnectedBus, ReloadBus
  <2>2. UNCHANGED <<dd, finished>>
    BY <1>4 DEF Resume, Requeue, SavePointers, Disconnected, RestorePointers, AwaitEnd, Adapter
  <2> QED
    BY <2>1, <2>2, ContinuesInv
<1>5. ASSUME ReadMessage
      PROVE  StackInv' /\ (hba.with = "restore" => hba'.istate # "DEAD") /\ hba'.ss = None
  <2>1. /\ Continues /\ (hba.with = "restore" => hba'.istate # "DEAD") /\ hba'.ss = None
        /\ UNCHANGED <<dd, finished>>
    BY <1>5, ReadBus DEF ReadMessage, Adapter
  <2> QED
    BY <2>1, ContinuesInv
<1> QED
  BY <1>1, <1>3, <1>4, <1>5 DEF A3091Intr

LEMMA ChipBus ==
  ASSUME StackInv, ScsiInv', Chip
  PROVE  /\ StackInv' /\ UNCHANGED <<dd, finished>>
         /\ hba'.istate = "DEAD" => hba.istate = "DEAD"
<1>1. UNCHANGED <<dd, finished>>
  BY DEF Chip, Answer, NoAnswer, AcceptMessage, Reselect, Move, EarlyStatus, Detour, SaveMessage,
         DisconnectMessage, RestoreMessage, OtherMessage, Status
<1>2. Continues /\ (hba'.istate = "DEAD" => hba.istate = "DEAD")
  <2>1. CASE Answer \/ NoAnswer \/ AcceptMessage
    BY <2>1, AnswerBus, NoAnswerBus, AcceptBus
  <2>2. ASSUME NEW u \in Units, Reselect(u) \/ Move(u) \/ EarlyStatus(u) \/ SaveMessage(u)
                 \/ DisconnectMessage(u) \/ RestoreMessage(u) \/ OtherMessage(u)
                 \/ \E good \in BOOLEAN : Status(u, good)
        PROVE  Continues /\ (hba'.istate = "DEAD" => hba.istate = "DEAD")
    BY <2>2, ReselectBus, MoveBus, MessageBus, DisconnectBus, StatusBus
  <2> QED
    BY <2>1, <2>2 DEF Chip
<1> QED
  BY <1>1, <1>2, ContinuesInv

LEMMA StackStep ==
  ASSUME StackInv, [Next]_vars
  PROVE  StackInv'
<1>1. ScsiInv'
  BY ScsiStep DEF StackInv
<1>2. ASSUME NEW u \in Units, DdStrategy(u) PROVE StackInv'
  BY <1>1, <1>2, StrategyBus DEF StackInv
<1>3. ASSUME UNCHANGED vars PROVE StackInv'
  BY <1>1, <1>3 DEF vars, StackInv, WorkInv
<1> QED
  BY <1>1, <1>2, <1>3, IntrBus, ChipBus DEF Next, Done

LEMMA StackInit ==
  ASSUME Init
  PROVE  StackInv
<1>1. ScsiInv
  BY ScsiInit
<1>2. WorkInv
  <2>1. <<>> \in Seq(Nat) /\ <<>> \in Seq(Outcomes)
    OBVIOUS
  <2>2. dd \in [Units -> DdTypes] /\ finished \in [Units -> Seq(Outcomes)]
    BY <2>1 DEF Init, DdTypes
  <2> QED
    BY <2>2 DEF Init, WorkInv
<1>3. IsCounts(hba) /\ hba.istate = "IDLE" /\ hba.com = None
  BY DEF Init, IsCounts
<1>4. BusInv(hba, tgt, bus)
  BY DEF Init, BusInv, Talk, Where, Selecting, Counts, CountOf, Ready, Checks, Target, None
<1> QED
  BY <1>1, <1>2, <1>3, <1>4 DEF StackInv

LEMMA StackAlways == Spec => []StackInv
<1>1. Init => StackInv
  BY StackInit
<1>2. StackInv /\ [Next]_vars => StackInv'
  BY StackStep
<1> QED
  BY <1>1, <1>2, PTL DEF Spec

\* Whatever targets do with the bus, when one is about to move a chunk TC is what
\* it has left and DMA points at the place of that chunk in its own buffer; but
\* for a target that restored its pointers with chunks moved since the save.
THEOREM DmaKept == Spec => []DmaInStep
<1>1. StackInv => DmaInStep
  <2> SUFFICES ASSUME StackInv, NEW u \in Units, Active(u), ~tgt[u].midway
               PROVE  /\ hba.tc = tgt[u].len - tgt[u].moved
                      /\ hba.tc > 0 =>
                           /\ hba.dma_on
                           /\ hba.sac = [unit |-> u, cmd |-> tgt[u].cmd, pos |-> tgt[u].moved]
    BY DEF DmaInStep
  <2>1. bus = u /\ hba.com = "transfer" /\ tgt[u].st = "busy"
    BY DEF Active
  <2>2. hba.ss = None /\ Counts(hba, tgt, bus)
    BY <2>1, ActiveUnit
  <2>3. CountOf(hba, tgt, bus, u)
    BY <2>2 DEF Counts
  <2> QED
    BY <2>1, <2>2, <2>3 DEF CountOf, InStep, None
<1> QED
  BY <1>1, StackAlways, PTL

\* A REQUEST SENSE that reaches its target finds there what it asks for: no other
\* command of ddstrategy() or ihandle() has come in between.
THEOREM SenseKept == Spec => SenseFindsCheck
<1>1. ASSUME StackInv, [Next]_vars
      PROVE  [\A u \in Units :
                bus # u /\ bus' = u /\ tgt[u].st = "free" /\ tgt'[u].cmd = "sense"
                  => tgt[u].check]_vars
  <2> SUFFICES ASSUME Next, NEW u \in Units, bus # u, bus' = u, tgt[u].st = "free",
                      tgt'[u].cmd = "sense"
               PROVE  tgt[u].check
    BY <1>1
  <2>1. u # None
    BY ScsiAssumption
  <2>2. Answer
    <3>1. Chip
      BY DEF Next, A3091Intr, Complete, Abort, EndCommand, Dead, Resume, Requeue, SavePointers,
             Disconnected, ReadMessage, RestorePointers, AwaitEnd, Adapter, DdStrategy, Done, vars
    <3> QED
      BY <2>1, <3>1 DEF Chip, NoAnswer, AcceptMessage, Reselect, Move, EarlyStatus, Detour,
             SaveMessage, DisconnectMessage, RestoreMessage, OtherMessage, Status
  <2> DEFINE cdb == Head(hba.coms[u])
             c == tgt[u].check /\ cdb = Sense
  <2>3. hba.com = "select" /\ hba.cur = u /\ StackInv
    BY <1>1, <2>2 DEF Answer
  <2>4. /\ hba.ss = None /\ hba.coms[u] # <<>> /\ IsTgts(tgt) /\ Checks(hba, tgt)
    BY <2>3, SelectedUnit
  <2>5. tgt'[u].cmd = cdb.cmd
    <3>1. tgt' = [tgt EXCEPT ![u] = [Target("busy") EXCEPT !.cmd = cdb.cmd, !.len = cdb.len,
                                                           !.check = c]]
      BY <2>2, <2>3 DEF Answer
    <3> HIDE DEF cdb, c
    <3> QED
      BY <2>4, <3>1 DEF IsTgts, Target
  <2>6. hba.coms[u] = <<ComOf(dd[u])>>
    BY <2>3, <2>4 DEF StackInv, WorkInv
  <2>7. ComOf(dd[u]) = Sense
    <3>1. cdb = ComOf(dd[u])
      BY <2>6, ComOfType, OneCom
    <3> QED
      BY <2>5, <3>1 DEF ComOf, Rw
  <2> QED
    BY <2>4, <2>6, <2>7 DEF Checks, None
<1> QED
  BY <1>1, StackAlways, PTL DEF Spec, SenseFindsCheck

-----------------------------------------------------------------------------
(* Targets that send no other message.                                     *)

LEMMA MessageStep ==
  ASSUME "message" \notin Quirks, StackInv, MessageInv, [Next]_vars
  PROVE  MessageInv'
<1>1. ScsiInv'
  BY ScsiStep DEF StackInv
<1>2. hba.istate # "DEAD" /\ (hba.ss = "message" => hba.with = "restore")
  BY DEF MessageInv
<1>3. ASSUME A3091Intr PROVE MessageInv'
  <2>1. /\ hba'.istate = "DEAD" => ReadMessage /\ hba.with # "restore"
        /\ hba'.ss = None
    BY <1>1, <1>2, <1>3, IntrBus
  <2>2. ASSUME ReadMessage PROVE hba.ss = "message"
    <3>1. DfaAction(hba.istate, hba.ss) = "read"
      BY <2>2 DEF ReadMessage, Intr
    <3> QED
      BY <3>1 DEF DfaAction
  <2> QED
    BY <1>2, <2>1, <2>2 DEF MessageInv, None
<1>4. ASSUME Chip PROVE MessageInv'
  <2>1. hba'.istate # "DEAD"
    BY <1>1, <1>2, <1>4, ChipBus
  <2>2. ~\E u \in Units : OtherMessage(u)
    BY DEF OtherMessage
  <2>3. ASSUME NEW u \in Units, SaveMessage(u) \/ RestoreMessage(u) \/ EarlyStatus(u)
        PROVE  hba'.ss = "message" => hba'.with = "restore"
    BY <2>2, <2>3, MessageBus
  <2>4. ASSUME NEW u \in Units, Move(u) PROVE hba'.ss = hba.ss /\ hba'.with = hba.with
    BY <2>4 DEF Move, StackInv, ScsiInv, Shape, IsHba, Fields
  <2>5. ASSUME NEW c, NEW w, hba' = Raise(c, w), c # "message" PROVE hba'.ss # "message"
    BY <2>5, RaisedAll DEF Raised
  <2>6. ASSUME NEW u \in Units, DisconnectMessage(u) \/ Reselect(u) \/ \E good \in BOOLEAN : Status(u, good)
        PROVE  hba'.ss # "message"
    <3>1. \E c \in {"disconnected", "reselected", "complete"} : \E w : hba' = Raise(c, w)
      BY <2>6 DEF DisconnectMessage, Reselect, Status
    <3> QED
      BY <2>5, <3>1
  <2>7. ASSUME NoAnswer \/ AcceptMessage PROVE hba'.ss # "message"
    <3>1. \E c \in {"no device", "accept"} : hba' = Raise(c, None)
      BY <2>7 DEF NoAnswer, AcceptMessage
    <3> QED
      BY <2>5, <3>1
  <2>8. ASSUME Answer PROVE hba'.ss = hba.ss /\ hba'.with = hba.with
    BY <2>8 DEF Answer, StackInv, ScsiInv, Shape, IsHba, Fields
  <2>9. hba'.ss = "message" => hba'.with = "restore"
    BY <1>2, <1>4, <2>2, <2>3, <2>4, <2>6, <2>7, <2>8 DEF Chip
  <2> QED
    BY <2>1, <2>9 DEF MessageInv
<1>5. ASSUME NEW u \in Units, DdStrategy(u) PROVE MessageInv'
  BY <1>2, <1>5, StrategyBus DEF MessageInv
<1>6. ASSUME UNCHANGED vars PROVE MessageInv'
  BY <1>6 DEF vars, MessageInv
<1> QED
  BY <1>3, <1>4, <1>5, <1>6 DEF Next, Done

\* The automaton of a3091intr() has an action for whatever comes: with targets
\* that send the messages of its comment it never gives up, in any order of
\* selections, reselections, disconnections, saves, restores and ends.
THEOREM AlwaysAlive ==
  ASSUME "message" \notin Quirks
  PROVE  Spec => []NeverDead
<1>1. Init => MessageInv
  BY DEF Init, MessageInv, None
<1>2. StackInv /\ MessageInv /\ [Next]_vars => MessageInv'
  BY MessageStep
<1>3. MessageInv => NeverDead
  BY DEF MessageInv, NeverDead
<1> QED
  BY <1>1, <1>2, <1>3, StackAlways, PTL DEF Spec

-----------------------------------------------------------------------------
(* Targets that restore their pointers only where they were saved.         *)

\* What has been moved of the buf of u is in its place.
InPlace(t, m, u) ==
  t[u].st # "free" /\ t[u].cmd = "rw" => \A c \in 1 .. t[u].moved : m[u][c] = c

\* The target of u has moved no more than before.
Shrinks(u) ==
  /\ ~tgt'[u].midway
  /\ tgt'[u].st # "free" =>
       \/ tgt'[u].moved = 0
       \/ /\ tgt[u].st # "free" /\ tgt'[u].cmd = tgt[u].cmd
          /\ \/ tgt'[u].moved = tgt[u].moved
             \/ Numbers(tgt[u]) /\ tgt'[u].moved = tgt[u].saved

LEMMA ShrinksInPlace ==
  ASSUME NEW u \in Units, InPlace(tgt, mem, u), Shrinks(u)
  PROVE  InPlace(tgt', mem, u)
BY DEF InPlace, Shrinks, Numbers

\* A command's end leaves no target on the bus, and no data of a buf that ended.
LEMMA EndData ==
  ASSUME StackInv, DataInv, NEW okay, NEW good, EndCommand(okay, good),
         hba.istate \notin {"IDLE", "DEAD"}, hba.ss \in {"complete", "no device"},
         okay => hba.ss = "complete" /\ good = (hba.with = "good")
  PROVE  DataInv'
<1> DEFINE u == hba.cur
           r == IHandle(dd[u], okay, good)
<1>1. /\ tgt' = tgt /\ dd' = [dd EXCEPT ![u] = r.d]
      /\ mem' = IF r.done # <<>> THEN [mem EXCEPT ![u] = NoData] ELSE mem
  BY DEF EndCommand
<1>2. u \in Units /\ dd[u] \in DdTypes /\ dd[u].bufs # <<>>
  BY EndedKeeps
<1>3. tgt[u].st = "free"
  BY Interrupted DEF Where, Selecting
<1>4. r.done = <<>> => r.d.bufs # <<>>
  <2>1. Handles(r, dd[u], okay, good)
    BY <1>2, HandleWork
  <2>2. \A o : <<o>> # <<>>
    OBVIOUS
  <2> HIDE DEF r
  <2> QED
    BY <1>2, <2>1, <2>2 DEF Handles
<1>5. hba'.ss = None
  BY EndBus
<1>6. NoData \in [1 .. Chunks -> Nat]
  BY DEF NoData
<1>7. dd \in [Units -> DdTypes] /\ mem \in [Units -> [1 .. Chunks -> Nat]]
  BY DEF StackInv, WorkInv, DataInv
<1> HIDE DEF r, u
<1>8. /\ mem' \in [Units -> [1 .. Chunks -> Nat]]
      /\ mem'[u] = IF r.done # <<>> THEN NoData ELSE mem[u]
      /\ \A v \in Units : v # u => mem'[v] = mem[v]
  BY <1>1, <1>2, <1>6, <1>7
<1>9. dd'[u] = r.d /\ \A v \in Units : v # u => dd'[v] = dd[v]
  BY <1>1, <1>2, <1>7
<1>10. \A v \in Units : dd'[v].bufs = <<>> => mem'[v] = NoData
  BY <1>4, <1>8, <1>9 DEF DataInv
<1>11. \A v \in Units : tgt'[v].st # "free" /\ tgt'[v].cmd = "rw" =>
         \A c \in 1 .. tgt'[v].moved : mem'[v][c] = c
  BY <1>1, <1>3, <1>8 DEF DataInv
<1>12. \A v \in Units : ~tgt'[v].midway
  BY <1>1 DEF DataInv
<1> QED
  BY <1>5, <1>8, <1>10, <1>11, <1>12 DEF DataInv, None

\* The chunk goes to its place in the buf of the unit on the bus.
LEMMA MovePlace ==
  ASSUME StackInv, DataInv, NEW u \in Units, Move(u)
  PROVE  /\ tgt[u].moved \in Nat /\ hba.coms[u] # <<>> /\ tgt[u].len <= Chunks
         /\ tgt[u].moved < tgt[u].len /\ tgt[u].len \in Nat
         /\ mem' = IF tgt[u].cmd = "rw" THEN [mem EXCEPT ![u][tgt[u].moved + 1] = tgt[u].moved + 1]
                                        ELSE mem
<1>1. /\ bus = u /\ hba.com = "transfer" /\ tgt[u].st = "busy"
      /\ tgt[u].moved < tgt[u].len /\ hba.tc > 0 /\ ~tgt[u].midway
      /\ mem' = IF hba.sac.cmd = "rw" /\ hba.sac.pos < Chunks
                THEN [mem EXCEPT ![hba.sac.unit][hba.sac.pos + 1] =
                        IF hba.sac.unit = u THEN tgt[u].moved + 1 ELSE 0]
                ELSE mem
  BY DEF Move, Active, DataInv
<1>2. hba.ss = None /\ hba.cur = u /\ hba.istate \notin {"IDLE", "DEAD"} /\ Counts(hba, tgt, bus)
  BY <1>1, ActiveUnit
<1>3. /\ tgt[u].cmd = Head(hba.coms[u]).cmd /\ tgt[u].len = Head(hba.coms[u]).len
      /\ Numbers(tgt[u]) /\ hba.sac = [unit |-> u, cmd |-> tgt[u].cmd, pos |-> tgt[u].moved]
  <2>1. CountOf(hba, tgt, bus, u)
    BY <1>2 DEF Counts
  <2> QED
    BY <1>1, <1>2, <2>1 DEF CountOf, InStep, None
<1>4. OnePlace(hba, tgt, bus) /\ hba.coms \in [Units -> Seq(Com)]
  BY <1>2, Interrupted
<1>5. hba.coms[u] # <<>>
  BY <1>2, <1>4 DEF OnePlace, Has
<1>6. Head(hba.coms[u]) \in Com
  BY <1>4, <1>5, FirstCom
<1>7. tgt[u].len <= Chunks
  BY <1>3, <1>6, ScsiAssumption DEF Com, Rw, Sense
<1>8. hba.sac.unit = u /\ hba.sac.cmd = tgt[u].cmd /\ hba.sac.pos = tgt[u].moved
  BY <1>3
<1>9. tgt[u].moved < Chunks
  BY <1>1, <1>3, <1>7, ScsiAssumption DEF Numbers
<1> QED
  BY <1>1, <1>3, <1>5, <1>7, <1>8, <1>9 DEF Numbers

LEMMA MoveData ==
  ASSUME StackInv, DataInv, NEW u \in Units, Move(u)
  PROVE  DataInv'
<1> DEFINE n == tgt[u].moved
<1>1. /\ n \in Nat /\ hba.coms[u] # <<>> /\ tgt[u].len <= Chunks /\ tgt[u].len \in Nat
      /\ n < tgt[u].len
      /\ mem' = IF tgt[u].cmd = "rw" THEN [mem EXCEPT ![u][n + 1] = n + 1] ELSE mem
  BY MovePlace
<1>2. /\ tgt' = [tgt EXCEPT ![u].moved = @ + 1] /\ dd' = dd
      /\ hba' = [hba EXCEPT !.tc = @ - 1, !.sac.pos = @ + 1]
      /\ bus = u /\ hba.com = "transfer" /\ tgt[u].st = "busy"
  BY DEF Move, Active
<1>3. hba.ss = None /\ IsHba(hba) /\ IsTgts(tgt)
  BY <1>2, ActiveUnit
<1>4. hba'.ss = None
  BY <1>2, <1>3 DEF IsHba, Fields
<1>5. /\ Turns(u, {"moved"}) /\ tgt'[u].moved = n + 1
  BY <1>2, <1>3 DEF Turns, IsTgts, TgtFields
<1>6. /\ tgt'[u].cmd = tgt[u].cmd /\ tgt'[u].midway = tgt[u].midway
      /\ \A v \in Units : v # u => tgt'[v] = tgt[v]
  BY <1>5 DEF Turns, TgtFields
<1> HIDE DEF n
<1>7. n + 1 \in 1 .. Chunks /\ mem \in [Units -> [1 .. Chunks -> Nat]]
  BY <1>1, ScsiAssumption DEF DataInv
<1>8. /\ mem' \in [Units -> [1 .. Chunks -> Nat]]
      /\ \A v \in Units : v # u => mem'[v] = mem[v]
      /\ tgt[u].cmd = "rw" => \A c \in 1 .. Chunks : mem'[u][c] = IF c = n + 1 THEN n + 1 ELSE mem[u][c]
      /\ tgt[u].cmd # "rw" => mem' = mem
  <2> DEFINE row == [mem[u] EXCEPT ![n + 1] = n + 1]
  <2>1. /\ row \in [1 .. Chunks -> Nat]
        /\ \A c \in 1 .. Chunks : row[c] = IF c = n + 1 THEN n + 1 ELSE mem[u][c]
    <3>1. mem[u] \in [1 .. Chunks -> Nat] /\ n + 1 \in Nat
      BY <1>1, <1>7
    <3> QED
      BY <1>7, <3>1
  <2>2. mem' = IF tgt[u].cmd = "rw" THEN [mem EXCEPT ![u] = row] ELSE mem
    BY <1>1
  <2> HIDE DEF row
  <2> QED
    BY <1>7, <2>1, <2>2
<1>9. dd[u].bufs # <<>>
  BY <1>1 DEF StackInv, WorkInv
<1>10. \A v \in Units : dd'[v].bufs = <<>> => mem'[v] = NoData
  BY <1>2, <1>8, <1>9 DEF DataInv
<1>11. ASSUME NEW v \in Units, tgt'[v].st # "free", tgt'[v].cmd = "rw", NEW c \in 1 .. tgt'[v].moved
       PROVE  mem'[v][c] = c
  <2>1. CASE v # u
    BY <1>6, <1>8, <1>11, <2>1 DEF DataInv
  <2>2. CASE v = u
    <3>1. c \in 1 .. n \/ c = n + 1
      BY <1>1, <1>5, <1>11, <2>2
    <3>2. c \in 1 .. Chunks
      BY <1>1, <1>5, <1>11, <2>2, ScsiAssumption
    <3>3. c \in 1 .. n => mem[u][c] = c
      BY <1>2, <1>6, <1>11, <2>2 DEF DataInv, n
    <3> QED
      BY <1>6, <1>8, <1>11, <2>2, <3>1, <3>2, <3>3
  <2> QED
    BY <2>1, <2>2
<1>12. \A v \in Units : ~tgt'[v].midway
  BY <1>6 DEF DataInv
<1> QED
  BY <1>4, <1>8, <1>10, <1>11, <1>12 DEF DataInv, None

\* The other steps of the chip and the targets.
LEMMA ChipShrinks ==
  ASSUME "midway" \notin Quirks, StackInv, DataInv, Chip, ~\E u \in Units : Move(u)
  PROVE  mem' = mem /\ \A v \in Units : Shrinks(v)
<1>1. mem' = mem
  BY DEF Chip, Answer, NoAnswer, AcceptMessage, Reselect, EarlyStatus, Detour, SaveMessage,
         DisconnectMessage, RestoreMessage, OtherMessage, Status
<1>2. IsTgts(tgt) /\ \A v \in Units : ~tgt[v].midway
  BY DEF StackInv, ScsiInv, Shape, IsTgts, DataInv
<1>3. ASSUME NEW v \in Units, tgt'[v] = tgt[v] PROVE Shrinks(v)
  BY <1>2, <1>3 DEF Shrinks
<1>4. ASSUME NEW u \in Units, \A v \in Units : v # u => tgt'[v] = tgt[v], Shrinks(u)
      PROVE  \A v \in Units : Shrinks(v)
  BY <1>3, <1>4
<1>5. ASSUME NEW u \in Units, Active(u) PROVE Numbers(tgt[u]) /\ tgt[u].st = "busy"
  <2>1. bus = u /\ hba.com = "transfer" /\ tgt[u].st = "busy"
    BY <1>5 DEF Active
  <2>2. Counts(hba, tgt, bus)
    BY <2>1, ActiveUnit
  <2> QED
    BY <2>1, <2>2 DEF Counts, CountOf
<1>6. CASE NoAnswer \/ AcceptMessage
  BY <1>3, <1>6 DEF NoAnswer, AcceptMessage
<1>7. CASE Answer
  <2> DEFINE u == hba.cur
             cdb == Head(hba.coms[u])
             c == tgt[u].check /\ cdb = Sense
             new == [Target("busy") EXCEPT !.cmd = cdb.cmd, !.len = cdb.len, !.check = c]
  <2>1. hba.com = "select" /\ tgt' = [tgt EXCEPT ![u] = new]
    BY <1>7 DEF Answer
  <2>2. u \in Units
    BY <2>1, SelectedUnit
  <2> HIDE DEF u, cdb, c
  <2>3. new.moved = 0 /\ ~new.midway
    BY DEF Target
  <2> HIDE DEF new
  <2>4. tgt'[u] = new /\ \A v \in Units : v # u => tgt'[v] = tgt[v]
    BY <1>2, <2>1, <2>2 DEF IsTgts
  <2> QED
    BY <1>1, <1>4, <2>2, <2>3, <2>4 DEF Shrinks
<1>8. ASSUME NEW u \in Units, Reselect(u) \/ EarlyStatus(u) \/ SaveMessage(u)
                \/ DisconnectMessage(u) \/ RestoreMessage(u) \/ OtherMessage(u)
                \/ \E good \in BOOLEAN : Status(u, good)
      PROVE  \A v \in Units : Shrinks(v)
  <2>1. CASE Reselect(u)
    <3>1. tgt[u].st = "away" /\ tgt' = [tgt EXCEPT ![u].st = "busy", ![u].midway = FALSE]
      BY <2>1 DEF Reselect
    <3>2. Turns(u, {"st", "midway"}) /\ tgt'[u].midway = FALSE
      BY <1>2, <3>1 DEF Turns, IsTgts, TgtFields
    <3>3. tgt'[u].cmd = tgt[u].cmd /\ tgt'[u].moved = tgt[u].moved
      BY <3>2 DEF Turns, TgtFields
    <3> QED
      BY <1>4, <3>1, <3>2, <3>3 DEF Turns, Shrinks
  <2>2. CASE EarlyStatus(u)
    <3>1. Active(u) /\ tgt' = [tgt EXCEPT ![u].st = "status"]
      BY <2>2 DEF EarlyStatus
    <3>2. Turns(u, {"st"})
      BY <1>2, <3>1 DEF Turns, IsTgts, TgtFields
    <3>3. tgt'[u].cmd = tgt[u].cmd /\ tgt'[u].moved = tgt[u].moved /\ tgt'[u].midway = tgt[u].midway
      BY <3>2 DEF Turns, TgtFields
    <3> QED
      BY <1>2, <1>4, <1>5, <3>1, <3>2, <3>3 DEF Turns, Shrinks
  <2>3. CASE SaveMessage(u) \/ OtherMessage(u)
    <3>1. /\ Active(u)
          /\ \/ tgt' = [tgt EXCEPT ![u].saved = tgt[u].moved, ![u].detours = @ + 1]
             \/ tgt' = [tgt EXCEPT ![u].detours = @ + 1]
      BY <2>3 DEF SaveMessage, OtherMessage, Detour
    <3>2. Turns(u, {"saved", "detours"})
      BY <1>2, <3>1 DEF Turns, IsTgts, TgtFields
    <3>3. tgt'[u].cmd = tgt[u].cmd /\ tgt'[u].moved = tgt[u].moved /\ tgt'[u].midway = tgt[u].midway
      BY <3>2 DEF Turns, TgtFields
    <3> QED
      BY <1>2, <1>4, <1>5, <3>1, <3>2, <3>3 DEF Turns, Shrinks
  <2>4. CASE DisconnectMessage(u)
    <3>1. /\ Active(u)
          /\ tgt' = [tgt EXCEPT ![u].st = "away", ![u].moved = tgt[u].saved, ![u].detours = @ + 1]
      BY <2>4 DEF DisconnectMessage, Detour
    <3>2. Turns(u, {"st", "moved", "detours"}) /\ tgt'[u].moved = tgt[u].saved
      BY <1>2, <3>1 DEF Turns, IsTgts, TgtFields
    <3>3. tgt'[u].cmd = tgt[u].cmd /\ tgt'[u].midway = tgt[u].midway
      BY <3>2 DEF Turns, TgtFields
    <3> QED
      BY <1>2, <1>4, <1>5, <3>1, <3>2, <3>3 DEF Turns, Shrinks
  <2>5. CASE RestoreMessage(u)
    <3> DEFINE m == tgt[u].midway \/ tgt[u].moved # tgt[u].saved
    <3>1. /\ Active(u) /\ tgt[u].moved = tgt[u].saved
          /\ tgt' = [tgt EXCEPT ![u].moved = tgt[u].saved, ![u].detours = @ + 1, ![u].midway = m]
      BY <2>5 DEF RestoreMessage, Detour
    <3>2. ~m
      BY <1>2, <3>1
    <3> HIDE DEF m
    <3>3. Turns(u, {"moved", "detours", "midway"}) /\ tgt'[u].moved = tgt[u].saved /\ tgt'[u].midway = m
      BY <1>2, <3>1 DEF Turns, IsTgts, TgtFields
    <3>4. tgt'[u].cmd = tgt[u].cmd
      BY <3>3 DEF Turns, TgtFields
    <3> QED
      BY <1>4, <1>5, <3>1, <3>2, <3>3, <3>4 DEF Turns, Shrinks
  <2>6. CASE \E good \in BOOLEAN : Status(u, good)
    <3>1. PICK good \in BOOLEAN : tgt' = [tgt EXCEPT ![u] = [Target("free") EXCEPT !.check = ~good]]
      BY <2>6 DEF Status
    <3> DEFINE new == [Target("free") EXCEPT !.check = ~good]
    <3>2. new.st = "free" /\ ~new.midway
      BY DEF Target
    <3> HIDE DEF new
    <3>3. tgt'[u] = new /\ \A v \in Units : v # u => tgt'[v] = tgt[v]
      BY <1>2, <3>1 DEF IsTgts, new
    <3> QED
      BY <1>4, <3>2, <3>3 DEF Shrinks
  <2> QED
    BY <1>8, <2>1, <2>2, <2>3, <2>4, <2>5, <2>6
<1> QED
  BY <1>1, <1>6, <1>7, <1>8 DEF Chip

\* A good status comes when the whole buf is in its place.
LEMMA GoodStatus ==
  ASSUME StackInv, DataInv, NEW u \in Units, Status(u, TRUE), hba.coms[u] = <<Rw>>
  PROVE  \A c \in 1 .. Chunks : mem[u][c] = c
<1>1. bus = u /\ hba.com = "transfer" /\ tgt[u].st # "free" /\ tgt[u].moved = tgt[u].len
  BY DEF Status
<1>2. CountOf(hba, tgt, bus, u)
  BY <1>1, ActiveUnit DEF Counts
<1>3. Head(<<Rw>>) = Rw
  BY OneCom DEF Com
<1>4. tgt[u].cmd = "rw" /\ tgt[u].moved = Chunks
  BY <1>1, <1>2, <1>3 DEF CountOf, Rw
<1> QED
  BY <1>1, <1>4 DEF DataInv

LEMMA ChipData ==
  ASSUME "midway" \notin Quirks, StackInv, DataInv, Chip, ~\E u \in Units : Move(u), ScsiInv'
  PROVE  DataInv'
<1>1. mem' = mem /\ dd' = dd /\ \A v \in Units : Shrinks(v)
  BY ChipShrinks, ChipBus
<1>2. \A v \in Units : InPlace(tgt', mem, v)
  <2> SUFFICES ASSUME NEW v \in Units PROVE InPlace(tgt', mem, v)
    OBVIOUS
  <2>1. InPlace(tgt, mem, v)
    BY DEF DataInv, InPlace
  <2> QED
    BY <1>1, <2>1, ShrinksInPlace
<1>3. \A v \in Units : ~tgt'[v].midway
  BY <1>1 DEF Shrinks
<1>4. ASSUME hba'.ss = "complete", hba'.with = "good", hba'.istate # "DEAD", hba'.coms[hba'.cur] = <<Rw>>
      PROVE  \A c \in 1 .. Chunks : mem[hba'.cur][c] = c
  <2>1. PICK u \in Units : Status(u, TRUE) /\ hba' = Raise("complete", "good")
    <3>1. ASSUME NEW c, NEW w, hba' = Raise(c, w) PROVE c = "complete" /\ w = "good"
      BY <1>4, <3>1, RaisedAll DEF Raised
    <3>2. ASSUME Answer PROVE FALSE
      <4>1. hba.ss = None /\ IsHba(hba)
        BY <3>2, SelectedUnit DEF Answer
      <4> QED
        BY <1>4, <3>2, <4>1 DEF Answer, IsHba, Fields, None
    <3>3. ASSUME NoAnswer \/ AcceptMessage PROVE FALSE
      <4>1. \E c \in {"no device", "accept"} : hba' = Raise(c, None)
        BY <3>3 DEF NoAnswer, AcceptMessage
      <4> QED
        BY <3>1, <4>1
    <3>4. ASSUME NEW u \in Units, Reselect(u) \/ EarlyStatus(u) \/ SaveMessage(u)
                \/ DisconnectMessage(u) \/ RestoreMessage(u) \/ OtherMessage(u)
          PROVE  FALSE
      <4>1. \E c \in {"reselected", "status", "save", "disconnected", "message"} : \E w : hba' = Raise(c, w)
        BY <3>4 DEF Reselect, EarlyStatus, SaveMessage, DisconnectMessage, RestoreMessage, OtherMessage
      <4> QED
        BY <3>1, <4>1
    <3>5. \E u \in Units : \E good \in BOOLEAN : Status(u, good)
      BY <3>2, <3>3, <3>4 DEF Chip
    <3>6. PICK u \in Units, good \in BOOLEAN : Status(u, good)
      BY <3>5
    <3>7. hba' = Raise("complete", IF good THEN "good" ELSE "check")
      BY <3>6 DEF Status
    <3>8. good = TRUE
      BY <3>1, <3>7
    <3> QED
      BY <3>6, <3>7, <3>8
  <2>2. Raised("complete", "good")
    BY <2>1, RaisedAll
  <2>3. hba.cur = u
    BY <2>1, ActiveUnit DEF Status
  <2>4. hba'.cur = u /\ hba'.coms = hba.coms
    BY <2>2, <2>3 DEF Raised
  <2> QED
    BY <1>4, <2>1, <2>4, GoodStatus
<1> QED
  BY <1>1, <1>2, <1>3, <1>4 DEF DataInv, InPlace

\* What a3091intr() does but end a command leaves the disks and the data alone.
LEMMA IntrData ==
  ASSUME StackInv, DataInv, A3091Intr, ~(Complete \/ Abort), ScsiInv'
  PROVE  DataInv' /\ UNCHANGED <<dd, mem, finished>>
<1>1. UNCHANGED <<dd, tgt, mem, finished>>
  <2>1. \E h : Adapter(h)
    BY DEF A3091Intr, Dead, Resume, Requeue, SavePointers, Disconnected, ReadMessage,
           RestorePointers, AwaitEnd
  <2> QED
    BY <2>1 DEF Adapter
<1>2. hba'.ss = None \/ hba'.istate = "DEAD"
  <2>1. CASE hba.istate # "DEAD"
    BY <2>1, IntrBus
  <2>2. CASE hba.istate = "DEAD"
    <3>1. \A ss : DfaAction("DEAD", ss) = "dead"
      BY DEF DfaAction
    <3>2. Dead
      BY <2>2, <3>1 DEF A3091Intr, Complete, Abort, Resume, Requeue, SavePointers, Disconnected,
                        ReadMessage, RestorePointers, AwaitEnd, Intr
    <3>3. hba' = [Served EXCEPT !.istate = "DEAD"] /\ IsHba(hba)
      BY <3>2 DEF Dead, Adapter, StackInv, ScsiInv, Shape
    <3>4. IsHba(Served)
      BY <3>3, ServedKeeps DEF Keeps
    <3> QED
      BY <3>3, <3>4, StoreKeeps
  <2> QED
    BY <2>1, <2>2
<1> QED
  BY <1>1, <1>2 DEF DataInv, None

\* The ends of a command, as the lemmas on EndCommand take them.
LEMMA EndsAt ==
  ASSUME StackInv, Complete \/ Abort
  PROVE  \E okay, good \in BOOLEAN :
           /\ EndCommand(okay, good)
           /\ hba.istate \notin {"IDLE", "DEAD"} /\ hba.ss \in {"complete", "no device"}
           /\ okay => hba.ss = "complete" /\ good = (hba.with = "good")
<1>1. CASE Complete
  <2>1. DfaAction(hba.istate, hba.ss) = "complete" /\ EndCommand(TRUE, hba.with = "good")
    BY <1>1 DEF Complete, Intr
  <2>2. hba.istate \notin {"IDLE", "DEAD"} /\ hba.ss = "complete"
    BY <2>1 DEF DfaAction
  <2> QED
    BY <2>1, <2>2
<1>2. CASE Abort
  <2>1. DfaAction(hba.istate, hba.ss) = "abort" /\ EndCommand(FALSE, FALSE)
    BY <1>2 DEF Abort, Intr
  <2>2. hba.istate \notin {"IDLE", "DEAD"} /\ hba.ss = "no device"
    BY <2>1 DEF DfaAction
  <2> QED
    BY <2>1, <2>2
<1> QED
  BY <1>1, <1>2

\* A request that is made touches no command under way.
LEMMA StrategyData ==
  ASSUME StackInv, DataInv, NEW u \in Units, DdStrategy(u)
  PROVE  DataInv'
<1>1. UNCHANGED <<tgt, mem>>
  BY DEF DdStrategy
<1>2. \A v \in Units : dd'[v].bufs = <<>> => dd[v].bufs = <<>>
  <2>1. WorkInv' /\ \A v \in Units : hba.coms[v] # <<>> => hba'.coms[v] = hba.coms[v]
    BY StrategyBus
  <2> QED
    BY <2>1 DEF StackInv, WorkInv
<1>3. ASSUME hba'.ss = "complete", hba'.with = "good", hba'.istate # "DEAD",
             hba'.coms[hba'.cur] = <<Rw>>
      PROVE  \A c \in 1 .. Chunks : mem[hba'.cur][c] = c
  <2>1. hba.ss = "complete" /\ hba.with = "good" /\ hba.istate # "DEAD"
    <3>1. hba'.ss = hba.ss /\ hba'.with = hba.with
          /\ (hba.istate # "IDLE" => hba'.istate = hba.istate)
      BY StrategyBus
    <3> QED
      BY <1>3, <3>1
  <2>2. hba.istate # "IDLE"
    BY <2>1, Interrupted DEF Talk, None, Interruptions
  <2>3. hba'.cur = hba.cur /\ hba.cur \in Units /\ hba.coms[hba.cur] # <<>>
    <3>1. hba'.cur = hba.cur
      BY <2>2, StrategyBus
    <3>2. hba.cur \in Units /\ OnePlace(hba, tgt, bus)
      BY <2>1, <2>2, Interrupted DEF Registers
    <3> QED
      BY <2>1, <2>2, <3>1, <3>2 DEF OnePlace, Has
  <2>4. hba'.coms[hba.cur] = hba.coms[hba.cur]
    BY <2>3, StrategyBus
  <2> QED
    BY <1>3, <2>1, <2>3, <2>4 DEF DataInv
<1> QED
  BY <1>1, <1>2, <1>3 DEF DataInv

LEMMA DataStep ==
  ASSUME "midway" \notin Quirks, StackInv, DataInv, [Next]_vars
  PROVE  DataInv'
<1>1. ScsiInv'
  BY ScsiStep DEF StackInv
<1>2. ASSUME Complete \/ Abort PROVE DataInv'
  BY <1>2, EndsAt, EndData
<1>3. ASSUME A3091Intr, ~(Complete \/ Abort) PROVE DataInv'
  BY <1>1, <1>3, IntrData
<1>4. ASSUME Chip PROVE DataInv'
  BY <1>1, <1>4, MoveData, ChipData
<1>5. ASSUME NEW u \in Units, DdStrategy(u) PROVE DataInv'
  BY <1>5, StrategyData
<1>6. ASSUME UNCHANGED vars PROVE DataInv'
  BY <1>6 DEF vars, DataInv
<1> QED
  BY <1>2, <1>3, <1>4, <1>5, <1>6 DEF Next, Done

LEMMA DataInit ==
  ASSUME Init
  PROVE  DataInv
BY DEF Init, DataInv, Target, NoData, None

-----------------------------------------------------------------------------
(* The stack implements DiskQueue.                                         *)

\* DiskQueue's variables.
Bufs     == [u \in Units |-> dd[u].bufs]
AllThere == [u \in Units |-> \A c \in 1 .. Chunks : mem[u][c] = c]
QueueStep == [Disk!QueueNext]_(Disk!queueVars)

LEMMA QueueVars == Disk!queueVars = <<Bufs, AllThere, finished>>
BY DEF Disk!queueVars, Bufs, AllThere

\* A step that leaves the queues and the data alone.
LEMMA Stutters ==
  ASSUME UNCHANGED <<dd, mem, finished>>
  PROVE  QueueStep
<1>1. UNCHANGED <<Bufs, AllThere, finished>>
  BY DEF Bufs, AllThere
<1> QED
  BY <1>1, QueueVars DEF QueueStep, Disk!queueVars, Bufs, AllThere

\* DdStrategy is DiskQueue's Submit.
LEMMA StrategySubmits ==
  ASSUME StackInv, NEW u \in Units, DdStrategy(u)
  PROVE  QueueStep
<1> DEFINE b == Len(finished[u]) + Len(dd[u].bufs) + 1
<1>1. /\ Len(finished[u]) + Len(dd[u].bufs) < MaxBufs[u]
      /\ UNCHANGED <<mem, finished>>
      /\ \/ dd' = [dd EXCEPT ![u].bufs = Append(@, b)]
         \/ dd[u].bufs = <<>> /\ dd' = [dd EXCEPT ![u] = [state |-> "FIRST", bufs |-> <<b>>]]
  BY DEF DdStrategy
<1>2. dd \in [Units -> DdTypes] /\ b \in Nat
  <2>1. dd \in [Units -> DdTypes] /\ finished \in [Units -> Seq(Outcomes)]
    BY DEF StackInv, WorkInv
  <2>2. dd[u].bufs \in Seq(Nat) /\ finished[u] \in Seq(Outcomes)
    BY <2>1 DEF DdTypes
  <2>3. Len(dd[u].bufs) \in Nat /\ Len(finished[u]) \in Nat
    BY <2>2
  <2> QED
    BY <2>1, <2>3
<1> HIDE DEF b
<1>3. /\ dd'[u].bufs = Append(dd[u].bufs, b)
      /\ \A v \in Units : v # u => dd'[v] = dd[v]
  <2>1. CASE dd' = [dd EXCEPT ![u].bufs = Append(@, b)]
    <3>1. dd[u] \in DdTypes
      BY <1>2
    <3> DEFINE d == [dd[u] EXCEPT !.bufs = Append(@, b)]
    <3>2. d.bufs = Append(dd[u].bufs, b)
      BY <3>1 DEF DdTypes
    <3>3. dd' = [dd EXCEPT ![u] = d]
      BY <2>1
    <3> HIDE DEF d
    <3> QED
      BY <1>2, <3>2, <3>3
  <2>2. CASE dd[u].bufs = <<>> /\ dd' = [dd EXCEPT ![u] = [state |-> "FIRST", bufs |-> <<b>>]]
    <3>1. Append(<<>>, b) = <<b>>
      BY <1>2
    <3> QED
      BY <1>2, <2>2, <3>1
  <2> QED
    BY <1>1, <2>1, <2>2
<1>4. Bufs' = [Bufs EXCEPT ![u] = Append(@, b)]
  BY <1>3 DEF Bufs
<1>5. UNCHANGED <<AllThere, finished>>
  BY <1>1 DEF AllThere
<1>6. Bufs[u] = dd[u].bufs
  BY DEF Bufs
<1>7. Disk!Submit(u)
  BY <1>1, <1>4, <1>5, <1>6 DEF Disk!Submit, Bufs, AllThere, b
<1> QED
  BY <1>7 DEF QueueStep, Disk!QueueNext

\* A chunk that is moved may be the last one that was missing, and drops none.
LEMMA MoveTransfers ==
  ASSUME StackInv, DataInv, NEW u \in Units, Move(u)
  PROVE  QueueStep
<1> DEFINE n == tgt[u].moved
<1>1. /\ n \in Nat /\ hba.coms[u] # <<>> /\ tgt[u].len <= Chunks /\ tgt[u].len \in Nat
      /\ n < tgt[u].len
      /\ mem' = IF tgt[u].cmd = "rw" THEN [mem EXCEPT ![u][n + 1] = n + 1] ELSE mem
  BY MovePlace
<1>2. dd' = dd /\ finished' = finished
  BY DEF Move
<1>3. n + 1 \in 1 .. Chunks /\ mem \in [Units -> [1 .. Chunks -> Nat]]
  BY <1>1, ScsiAssumption DEF DataInv
<1> HIDE DEF n
<1>4. /\ \A v \in Units : v # u => mem'[v] = mem[v]
      /\ \A c \in 1 .. Chunks : mem[u][c] = c => mem'[u][c] = c
  <2> DEFINE row == [mem[u] EXCEPT ![n + 1] = n + 1]
  <2>1. \A c \in 1 .. Chunks : row[c] = IF c = n + 1 THEN n + 1 ELSE mem[u][c]
    BY <1>3
  <2>2. mem' = IF tgt[u].cmd = "rw" THEN [mem EXCEPT ![u] = row] ELSE mem
    BY <1>1
  <2> HIDE DEF row
  <2> QED
    BY <1>3, <2>1, <2>2
<1>5. \A v \in Units : v # u => AllThere'[v] = AllThere[v]
  BY <1>4 DEF AllThere
<1>6. AllThere[u] => AllThere'[u]
  BY <1>4 DEF AllThere
<1>7. Bufs' = Bufs /\ Bufs[u] # <<>>
  BY <1>1, <1>2 DEF Bufs, StackInv, WorkInv
<1>8. CASE AllThere'[u] = AllThere[u]
  <2>1. AllThere' = AllThere
    BY <1>5, <1>8 DEF AllThere
  <2> QED
    BY <1>2, <1>7, <2>1 DEF QueueStep, Disk!queueVars, Bufs, AllThere
<1>9. CASE AllThere'[u] # AllThere[u]
  <2>1. AllThere'[u] = TRUE
    BY <1>6, <1>9 DEF AllThere
  <2>2. AllThere' = [AllThere EXCEPT ![u] = TRUE]
    BY <1>5, <2>1 DEF AllThere
  <2>3. Disk!Transfer(u)
    BY <1>2, <1>7, <2>2 DEF Disk!Transfer, Bufs, AllThere
  <2> QED
    BY <2>3 DEF QueueStep, Disk!QueueNext
<1> QED
  BY <1>8, <1>9

LEMMA LastOutcome ==
  ASSUME NEW s \in Seq(Outcomes)
  PROVE  s \o <<>> = s /\ \A o \in Outcomes : s \o <<o>> = Append(s, o)
OBVIOUS

LEMMA FirstBuf ==
  ASSUME NEW d \in DdTypes, d.bufs # <<>>
  PROVE  Head(d.bufs) \in Nat
<1>1. d.bufs \in Seq(Nat)
  BY DEF DdTypes
<1> QED
  BY <1>1

LEMMA NoDataThere == \E c \in 1 .. Chunks : NoData[c] # c
<1>1. 1 \in 1 .. Chunks
  BY ScsiAssumption
<1> QED
  BY <1>1 DEF NoData

LEMMA EndsIsStep ==
  ASSUME NEW u \in Units, Disk!End(u)
  PROVE  QueueStep
BY DEF QueueStep, Disk!QueueNext

\* ihandle() ends the first buf, without an error only when all its data is there;
\* or none, while it asks for the sense of it or tries it again.
LEMMA CommandEnds ==
  ASSUME StackInv, DataInv, NEW okay \in BOOLEAN, NEW good \in BOOLEAN, EndCommand(okay, good),
         hba.istate \notin {"IDLE", "DEAD"}, hba.ss \in {"complete", "no device"},
         okay => hba.ss = "complete" /\ good = (hba.with = "good")
  PROVE  QueueStep
<1>0. PICK u \in Units : u = hba.cur
  BY EndedKeeps
<1> DEFINE r == IHandle(dd[u], okay, good)
<1>1. /\ dd' = [dd EXCEPT ![u] = r.d]
      /\ finished' = [finished EXCEPT ![u] = @ \o r.done]
      /\ mem' = IF r.done # <<>> THEN [mem EXCEPT ![u] = NoData] ELSE mem
  BY <1>0 DEF EndCommand
<1>2. u \in Units /\ dd[u] \in DdTypes /\ dd[u].bufs # <<>> /\ hba.coms[u] = <<ComOf(dd[u])>>
  BY <1>0, EndedKeeps
<1>3. Handles(r, dd[u], okay, good)
  BY <1>2, HandleWork
<1>4. /\ dd \in [Units -> DdTypes] /\ finished \in [Units -> Seq(Outcomes)]
      /\ mem \in [Units -> [1 .. Chunks -> Nat]]
  BY DEF StackInv, WorkInv, DataInv
<1>5. okay /\ good /\ dd[u].state # "SENSE" => \A c \in 1 .. Chunks : mem[u][c] = c
  BY <1>0, <1>2 DEF ComOf, DataInv
<1> HIDE DEF r
<1>6. dd'[u] = r.d /\ \A v \in Units : v # u => dd'[v] = dd[v]
  BY <1>1, <1>2, <1>4
<1>7. finished[u] \in Seq(Outcomes)
  BY <1>2, <1>4
<1>8. CASE r.done = <<>> /\ r.d.bufs = dd[u].bufs
  <2>1. mem' = mem
    BY <1>1, <1>8
  <2>2. finished' = finished
    <3>1. finished[u] \o r.done = finished[u]
      BY <1>7, <1>8, LastOutcome
    <3> QED
      BY <1>1, <1>4, <3>1
  <2>3. Bufs' = Bufs
    BY <1>6, <1>8 DEF Bufs
  <2> QED
    BY <2>1, <2>2, <2>3 DEF QueueStep, Disk!queueVars, Bufs, AllThere
<1>9. CASE \E e \in BOOLEAN :
             /\ r.done = <<[buf |-> Head(dd[u].bufs), error |-> e]>> /\ r.d.bufs = Tail(dd[u].bufs)
             /\ ~e => okay /\ good /\ dd[u].state # "SENSE"
  <2>1. PICK e \in BOOLEAN :
             /\ r.done = <<[buf |-> Head(dd[u].bufs), error |-> e]>> /\ r.d.bufs = Tail(dd[u].bufs)
             /\ ~e => okay /\ good /\ dd[u].state # "SENSE"
    BY <1>9
  <2> DEFINE o == [buf |-> Head(dd[u].bufs), error |-> e]
  <2>2. o \in Outcomes
    <3>1. Head(dd[u].bufs) \in Nat
      BY <1>2, FirstBuf
    <3> QED
      BY <2>1, <3>1 DEF Outcomes
  <2>3. r.done = <<o>> /\ <<o>> # <<>>
    BY <2>1
  <2>4. finished' = [finished EXCEPT ![u] = Append(@, o)]
    <3> HIDE DEF o
    <3>1. finished[u] \o r.done = Append(finished[u], o)
      BY <1>7, <2>2, <2>3, LastOutcome
    <3> QED
      BY <1>1, <3>1
  <2>5. Bufs' = [Bufs EXCEPT ![u] = Tail(@)] /\ Bufs[u] = dd[u].bufs
    BY <1>2, <1>6, <2>1 DEF Bufs
  <2>6. AllThere' = [AllThere EXCEPT ![u] = FALSE]
    <3>1. mem' = [mem EXCEPT ![u] = NoData]
      BY <1>1, <2>3
    <3>2. mem'[u] = NoData /\ \A v \in Units : v # u => mem'[v] = mem[v]
      BY <1>2, <1>4, <3>1
    <3>3. AllThere'[u] = FALSE
      BY <1>2, <3>2, NoDataThere DEF AllThere
    <3> QED
      BY <3>2, <3>3 DEF AllThere
  <2>7. ~e => AllThere[u]
    BY <1>2, <1>5, <2>1 DEF AllThere
  <2>8. Disk!End(u)
    <3>1. Bufs[u] # <<>>
      BY <1>2, <2>5
    <3>2. finished' = [finished EXCEPT ![u] = Append(@, [buf |-> Head(Bufs[u]), error |-> e])]
      BY <2>4, <2>5
    <3> QED
      BY <2>1, <2>5, <2>6, <2>7, <3>1, <3>2 DEF Disk!End, Bufs, AllThere
  <2> QED
    BY <1>2, <2>8, EndsIsStep
<1> QED
  BY <1>3, <1>8, <1>9 DEF Handles

LEMMA StackStepsQueue ==
  ASSUME "midway" \notin Quirks, StackInv, DataInv, [Next]_vars
  PROVE  QueueStep
<1>1. ScsiInv'
  BY ScsiStep DEF StackInv
<1>2. ASSUME Complete \/ Abort PROVE QueueStep
  BY <1>2, EndsAt, CommandEnds
<1>3. ASSUME A3091Intr, ~(Complete \/ Abort) PROVE QueueStep
  BY <1>1, <1>3, IntrData, Stutters
<1>4. ASSUME Chip, ~\E u \in Units : Move(u) PROVE QueueStep
  BY <1>1, <1>4, ChipShrinks, ChipBus, Stutters
<1>5. ASSUME NEW u \in Units, DdStrategy(u) PROVE QueueStep
  BY <1>5, StrategySubmits
<1>6. ASSUME UNCHANGED vars PROVE QueueStep
  BY <1>6, Stutters DEF vars
<1> QED
  BY <1>2, <1>3, <1>4, <1>5, <1>6, MoveTransfers DEF Next, Done

LEMMA QueueStarts ==
  ASSUME Init
  PROVE  Disk!QueueInit
<1>1. Bufs = [u \in Units |-> <<>>] /\ finished = [u \in Units |-> <<>>]
  BY DEF Init, Bufs
<1>2. AllThere = [u \in Units |-> FALSE]
  BY NoDataThere DEF Init, AllThere
<1> QED
  BY <1>1, <1>2 DEF Disk!QueueInit, Bufs, AllThere

\* dd.c on a3091.c keeps DiskQueue's promise, for any number of disks, requests,
\* chunks and messages: requests end once each, in the order they came, and one
\* that ends without an error has all its data.  Targets may send any message, but
\* restore their pointers only where they were saved; that every request ends is
\* left to the runs.
THEOREM StackIsSafeQueue ==
  ASSUME "midway" \notin Quirks
  PROVE  Spec => Disk!QueueSafety
<1>1. Init => DataInv /\ Disk!QueueInit
  BY DataInit, QueueStarts
<1>2. StackInv /\ DataInv /\ [Next]_vars => DataInv'
  BY DataStep
<1>3. StackInv /\ DataInv /\ [Next]_vars => [Disk!QueueNext]_(Disk!queueVars)
  BY StackStepsQueue DEF QueueStep
<1> QED
  BY <1>1, <1>2, <1>3, StackAlways, PTL DEF Spec, Disk!QueueSafety
=============================================================================
