------------------------- MODULE FloppyDriveProofs -------------------------
(***************************************************************************)
(* What FloppyDrive keeps, for any number of drives and cylinders: as long *)
(* as no process starts on the drives while the other is at work, the      *)
(* driver knows where each head is, every transfer stays on its track, and *)
(* no stopped drive stays selected.                                        *)
(***************************************************************************)
EXTENDS FloppyDrive, TLAPS

\* A drive has cylinders.
Cylinders == NCyl \in Nat \ {0} /\ NoDrive \notin Drives

-----------------------------------------------------------------------------
(* The inductive invariant.                                                *)

Places == {"idle", "motor", "spin", "recal", "out", "step", "start", "index", "dma"}
Operations == {"flok", "flread", "flwrite", "fliwrite"}
MaybeDrive == Drives \cup {NoDrive}

Jobs == [pc : Places, op : Operations, drv : MaybeDrive, trk : Tracks,
         prb : MaybeDrive, by : Int]

States ==
  [on : [Drives -> BOOLEAN], trk : [Drives -> Tracks \cup {Lost}],
   selected : MaybeDrive, line : MaybeDrive, side : 0 .. 1,
   head : [Drives -> 0 .. NCyl - 1], up : SUBSET Drives,
   p : [Procs -> Jobs], strays : BOOLEAN, raced : BOOLEAN,
   nops : Nat, nopens : Nat, nfault : Nat]

\* A process at work has a drive; only the servant seeks.
Typed(f) ==
  /\ f \in States
  /\ \A x \in Procs : f.p[x].pc # "idle" => f.p[x].drv \in Drives
  /\ f.p["opener"].pc \in {"idle", "motor", "spin"}

\* The side of the selected drive is that of its track, if it is known.
SideRight(f) ==
  f.selected # NoDrive /\ f.trk[f.selected] # Lost => f.side = Side(f.trk[f.selected])

HeadRight(f, d) == f.trk[d] # Lost => f.head[d] = Cyl(f.trk[d])

\* Where the servant is with its drive.
Seeking(f) ==
  LET j == f.p["servant"]
  IN  /\ j.pc \in {"recal", "out", "step", "start", "index", "dma"} =>
           /\ f.selected = j.drv
           /\ f.trk[j.drv] = IF j.pc \in {"recal", "out"} THEN Lost ELSE j.trk
      /\ j.pc \in {"recal", "out", "step"} => j.prb = j.drv
      /\ j.pc \in {"recal", "out"} => f.side = 0
      /\ j.pc = "step" => j.by # 0 /\ f.head[j.drv] + j.by = Cyl(j.trk)

\* What holds while the two processes keep out of each other's way.
Calm(f) ==
  /\ \E x \in Procs : f.p[x].pc = "idle"
  /\ f.line = f.selected
  /\ f.selected # NoDrive => f.on[f.selected]
  /\ \A x \in Procs : f.p[x].pc = "spin" => f.selected = f.p[x].drv
  /\ SideRight(f)
  /\ \A d \in Drives : HeadRight(f, d) \/ (f.p["servant"].pc = "step" /\ f.p["servant"].drv = d)
  /\ Seeking(f)
  /\ ~f.strays

DriveInv(f) == Typed(f) /\ (~f.raced => Calm(f))

-----------------------------------------------------------------------------
(* What the functions of floph.c do to the fields.                         *)

Names == {"on", "trk", "selected", "line", "side", "head", "up", "p", "strays", "raced",
          "nops", "nopens", "nfault"}

Keeps(g, f, changed) == g \in States /\ \A k \in Names \ changed : g[k] = f[k]

LEMMA TrackPlace ==
  ASSUME Cylinders, NEW t \in Tracks
  PROVE  /\ Cyl(t) \in 0 .. NCyl - 1 /\ Side(t) \in 0 .. 1 /\ t # Lost /\ t \in Int
         /\ 0 \in Tracks /\ Side(0) = 0 /\ Cyl(0) = 0
BY DEF Cylinders, Tracks, Cyl, Side, Lost

LEMMA SideType ==
  ASSUME Cylinders, NEW t \in Tracks \cup {Lost}
  PROVE  Side(t) \in 0 .. 1
BY DEF Cylinders, Tracks, Side, Lost

LEMMA MotorOffIs ==
  ASSUME NEW f \in States, NEW d \in Drives
  PROVE  LET g    == MotorOff(f, d)
             stop == f.on[d] \/ f.selected = d
         IN  /\ Keeps(g, f, {"on", "up", "line", "selected"})
             /\ g.on[d] = FALSE /\ \A e \in Drives : e # d => g.on[e] = f.on[e]
             /\ g.selected = IF stop THEN NoDrive ELSE f.selected
             /\ g.line = IF stop THEN NoDrive ELSE f.line
<1>1. CASE f.on[d]
  BY <1>1 DEF MotorOff, States, Keeps, Names, MaybeDrive
<1>2. CASE ~f.on[d] /\ f.selected = d
  BY <1>2 DEF MotorOff, States, Keeps, Names, MaybeDrive
<1>3. CASE ~f.on[d] /\ f.selected # d
  BY <1>3 DEF MotorOff, States, Keeps, Names
<1> QED
  BY <1>1, <1>2, <1>3

LEMMA MotorOnIs ==
  ASSUME Cylinders, NEW f \in States, NEW d \in Drives
  PROVE  LET g == MotorOn(f, d)
         IN  /\ Keeps(g, f, {"on", "selected", "line", "side"})
             /\ g.on[d] = TRUE /\ \A e \in Drives : e # d => g.on[e] = f.on[e]
             /\ g.selected = d /\ g.line = d /\ g.side = Side(f.trk[d])
<1>1. Side(f.trk[d]) \in 0 .. 1
  <2>1. f.trk[d] \in Tracks \cup {Lost}
    BY DEF States
  <2> QED
    BY <2>1, SideType
<1> DEFINE s == Side(f.trk[d])
<1> HIDE DEF s
<1> QED
  BY <1>1 DEF MotorOn, States, Keeps, Names, MaybeDrive, s

LEMMA SelectIs ==
  ASSUME Cylinders, NEW f \in States, NEW d \in Drives
  PROVE  LET g == Select(f, d)
         IN  /\ Keeps(g, f, {"selected", "line", "side"})
             /\ g.selected = d
             /\ f.selected = d => g = f
             /\ f.selected # d => g.line = d /\ g.side = Side(f.trk[d])
<1>1. Side(f.trk[d]) \in 0 .. 1
  <2>1. f.trk[d] \in Tracks \cup {Lost}
    BY DEF States
  <2> QED
    BY <2>1, SideType
<1> DEFINE s == Side(f.trk[d])
<1> HIDE DEF s
<1> QED
  BY <1>1 DEF Select, States, Keeps, Names, MaybeDrive, s

LEMMA PulseIs ==
  ASSUME NEW f \in States, NEW by \in Int
  PROVE  LET g == Pulse(f, by)
         IN  /\ Keeps(g, f, {"head"})
             /\ \A d \in Drives : d # f.line => g.head[d] = f.head[d]
             /\ f.line # NoDrive =>
                  g.head[f.line] = IF f.head[f.line] + by \in 0 .. NCyl - 1
                                   THEN f.head[f.line] + by ELSE f.head[f.line]
<1>1. CASE f.line = NoDrive
  BY <1>1 DEF Pulse, Keeps, Names
<1>2. CASE f.line # NoDrive
  <2> DEFINE h == IF f.head[f.line] + by \in 0 .. NCyl - 1 THEN f.head[f.line] + by ELSE f.head[f.line]
             hs == [f.head EXCEPT ![f.line] = h]
  <2>1. f.line \in Drives /\ f.head \in [Drives -> 0 .. NCyl - 1] /\ h \in 0 .. NCyl - 1
    BY <1>2 DEF States, MaybeDrive
  <2>2. Pulse(f, by) = [f EXCEPT !.head = hs]
    BY <1>2 DEF Pulse
  <2> HIDE DEF h
  <2>3. /\ hs \in [Drives -> 0 .. NCyl - 1] /\ hs[f.line] = h
        /\ \A d \in Drives : d # f.line => hs[d] = f.head[d]
    BY <2>1
  <2> HIDE DEF hs
  <2>4. Keeps([f EXCEPT !.head = hs], f, {"head"}) /\ [f EXCEPT !.head = hs].head = hs
    BY <2>3 DEF Keeps, Names, States
  <2> QED
    BY <1>2, <2>2, <2>3, <2>4 DEF h
<1> QED
  BY <1>1, <1>2

\* The job of process x becomes j.
PutJob(f, x, j) == [f EXCEPT !.p = [@ EXCEPT ![x] = j]]

LEMMA PutJobIs ==
  ASSUME NEW f \in States, NEW x \in Procs, NEW j \in Jobs
  PROVE  LET g == PutJob(f, x, j)
         IN  /\ Keeps(g, f, {"p"}) /\ g.p[x] = j
             /\ \A y \in Procs : y # x => g.p[y] = f.p[y]
<1> DEFINE q == [f.p EXCEPT ![x] = j]
<1>1. q \in [Procs -> Jobs] /\ q[x] = j /\ \A y \in Procs : y # x => q[y] = f.p[y]
  BY DEF States
<1>2. PutJob(f, x, j) = [f EXCEPT !.p = q]
  BY DEF PutJob
<1> HIDE DEF q
<1>3. Keeps([f EXCEPT !.p = q], f, {"p"}) /\ [f EXCEPT !.p = q].p = q
  BY <1>1 DEF Keeps, Names, States
<1> QED
  BY <1>1, <1>2, <1>3

LEMMA JobOf ==
  ASSUME NEW f \in States, NEW x \in Procs
  PROVE  f.p[x] \in Jobs
BY DEF States

LEMMA GotoIs ==
  ASSUME NEW f \in States, NEW x \in Procs, NEW pc \in Places
  PROVE  LET g == Goto(f, x, pc)
         IN  /\ Keeps(g, f, {"p"})
             /\ g.p[x].pc = pc /\ g.p[x].drv = f.p[x].drv /\ g.p[x].trk = f.p[x].trk
             /\ g.p[x].prb = f.p[x].prb /\ g.p[x].by = f.p[x].by
             /\ \A y \in Procs : y # x => g.p[y] = f.p[y]
<1> DEFINE j == [f.p[x] EXCEPT !.pc = pc]
<1>1. /\ j \in Jobs /\ j.pc = pc /\ j.drv = f.p[x].drv /\ j.trk = f.p[x].trk
      /\ j.prb = f.p[x].prb /\ j.by = f.p[x].by
  BY JobOf DEF Jobs
<1>2. Goto(f, x, pc) = PutJob(f, x, j)
  BY DEF Goto, PutJob
<1> HIDE DEF j
<1> QED
  BY <1>1, <1>2, PutJobIs

LEMMA IdleJob ==
  ASSUME Cylinders
  PROVE  Idle \in Jobs /\ Idle.pc = "idle"
BY TrackPlace DEF Idle, Jobs, Places, Operations, MaybeDrive, Cylinders, Tracks

LEMMA DoneIs ==
  ASSUME Cylinders, NEW f \in States, NEW x \in Procs
  PROVE  LET g == Done(f, x)
         IN  /\ Keeps(g, f, {"p"}) /\ g.p[x].pc = "idle"
             /\ \A y \in Procs : y # x => g.p[y] = f.p[y]
<1>1. Done(f, x) = PutJob(f, x, Idle)
  BY DEF Done, PutJob
<1> QED
  BY <1>1, IdleJob, PutJobIs

LEMMA StoreJob ==
  ASSUME NEW f \in States, NEW l \in MaybeDrive, NEW n \in Int
  PROVE  LET g == [f EXCEPT !.p["servant"].prb = l]
             h == [f EXCEPT !.p["servant"].by = n]
             j == f.p["servant"]
         IN  /\ g = PutJob(f, "servant", [j EXCEPT !.prb = l])
             /\ h = PutJob(f, "servant", [j EXCEPT !.by = n])
             /\ [j EXCEPT !.prb = l] \in Jobs /\ [j EXCEPT !.by = n] \in Jobs
<1>1. f.p["servant"] \in Jobs
  BY JobOf DEF Procs
<1> QED
  BY <1>1 DEF PutJob, Jobs

\* What seek() leads to.
Sought(g, f) ==
  LET j  == f.p["servant"]
      k  == g.p["servant"]
      by == Cyl(j.trk) - Cyl(f.trk[j.drv])
  IN  /\ g.p["opener"] = f.p["opener"] /\ k.drv = j.drv /\ k.trk = j.trk
      /\ \/ f.trk[j.drv] = j.trk /\ Keeps(g, f, {"p"}) /\ k.pc = "start"
         \/ /\ f.trk[j.drv] = Lost /\ Keeps(g, f, {"p", "side"})
            /\ k.pc = "recal" /\ k.prb = f.line /\ g.side = 0
         \/ /\ f.trk[j.drv] \notin {j.trk, Lost} /\ Keeps(g, f, {"p", "side", "trk"})
            /\ k.pc = (IF by = 0 THEN "start" ELSE "step") /\ k.prb = f.line /\ k.by = by
            /\ g.side = Side(j.trk) /\ g.trk[j.drv] = j.trk
            /\ \A d \in Drives : d # j.drv => g.trk[d] = f.trk[d]

LEMMA SeekIs ==
  ASSUME Cylinders, NEW f \in States, f.p["servant"].drv \in Drives
  PROVE  Sought(Seek(f), f)
<1> DEFINE j  == f.p["servant"]
           by == Cyl(j.trk) - Cyl(f.trk[j.drv])
<1>1. /\ j \in Jobs /\ j.drv \in Drives /\ j.trk \in Tracks /\ f.line \in MaybeDrive
      /\ f.trk \in [Drives -> Tracks \cup {Lost}] /\ "servant" \in Procs /\ "opener" \in Procs
  BY DEF States, Jobs, Procs
<1>2. Side(j.trk) \in 0 .. 1
  BY <1>1, SideType
<1>3. CASE f.trk[j.drv] = j.trk
  <2>1. Seek(f) = Goto(f, "servant", "start")
    BY <1>3 DEF Seek
  <2>2. "start" \in Places
    BY DEF Places
  <2> QED
    BY <1>1, <1>3, <2>1, <2>2, GotoIs DEF Sought
<1>4. CASE f.trk[j.drv] # j.trk /\ f.trk[j.drv] = Lost
  <2> DEFINE g == Goto(f, "servant", "recal")
             h == [g EXCEPT !.side = 0]
             r == [h EXCEPT !.p["servant"].prb = f.line]
             k == [h.p["servant"] EXCEPT !.prb = f.line]
  <2>1. /\ Keeps(g, f, {"p"}) /\ g.p["opener"] = f.p["opener"] /\ g.p["servant"].pc = "recal"
        /\ g.p["servant"].drv = j.drv /\ g.p["servant"].trk = j.trk
    BY <1>1, GotoIs DEF Places
  <2>2. Seek(f) = [g EXCEPT !.side = 0, !.p["servant"].prb = f.line]
    BY <1>4 DEF Seek
  <2> HIDE DEF g
  <2>3. g \in States
    BY <2>1 DEF Keeps
  <2>4. Seek(f) = r
    BY <2>2, <2>3 DEF States
  <2>5. Keeps(h, g, {"side"}) /\ h.side = 0
    BY <2>3 DEF States, Keeps, Names
  <2> HIDE DEF h
  <2>6. h \in States /\ h.p = g.p
    BY <2>5 DEF Keeps, Names
  <2>7. r = PutJob(h, "servant", k) /\ k \in Jobs
    <3>1. 0 \in Int
      OBVIOUS
    <3> QED
      BY <1>1, <2>6, <3>1, StoreJob
  <2>8. k.pc = "recal" /\ k.drv = j.drv /\ k.trk = j.trk /\ k.prb = f.line
    <3>1. h.p["servant"] \in Jobs
      BY <1>1, <2>6, JobOf
    <3> QED
      BY <2>1, <2>6, <3>1 DEF Jobs
  <2> HIDE DEF k, r
  <2>9. Keeps(r, h, {"p"}) /\ r.p["servant"] = k /\ r.p["opener"] = f.p["opener"]
    BY <1>1, <2>1, <2>6, <2>7, PutJobIs
  <2>10. Keeps(r, f, {"p", "side"}) /\ r.side = 0
    BY <2>1, <2>5, <2>9 DEF Keeps, Names
  <2> QED
    BY <1>4, <2>4, <2>8, <2>9, <2>10 DEF Sought
<1>5. CASE f.trk[j.drv] # j.trk /\ f.trk[j.drv] # Lost
  <2> DEFINE pc == IF by = 0 THEN "start" ELSE "step"
             g == Goto(f, "servant", pc)
             s == Side(j.trk)
             ts == [g.trk EXCEPT ![j.drv] = j.trk]
             h == [g EXCEPT !.trk = ts, !.side = s]
             m == [h EXCEPT !.p["servant"].prb = f.line]
             r == [m EXCEPT !.p["servant"].by = by]
             k == [h.p["servant"] EXCEPT !.prb = f.line]
             l == [m.p["servant"] EXCEPT !.by = by]
  <2>1. by \in Int
    <3>1. f.trk[j.drv] \in Tracks
      BY <1>1, <1>5
    <3> QED
      BY <1>1, <3>1, TrackPlace
  <2>2. Seek(f) = [g EXCEPT !.trk[j.drv] = j.trk, !.side = s,
                            !.p["servant"].prb = f.line, !.p["servant"].by = by]
    BY <1>5 DEF Seek
  <2> HIDE DEF by
  <2>3. /\ Keeps(g, f, {"p"}) /\ g.p["opener"] = f.p["opener"] /\ g.p["servant"].pc = pc
        /\ g.p["servant"].drv = j.drv /\ g.p["servant"].trk = j.trk
    <3>1. pc \in Places
      BY DEF Places
    <3> HIDE DEF pc
    <3> QED
      BY <1>1, <3>1, GotoIs
  <2> HIDE DEF pc, g, s
  <2>4. g \in States /\ g.trk = f.trk
    BY <2>3 DEF Keeps, Names
  <2>5. Seek(f) = r
    BY <2>2, <2>4 DEF States
  <2>6. ts \in [Drives -> Tracks \cup {Lost}] /\ ts[j.drv] = j.trk
        /\ \A d \in Drives : d # j.drv => ts[d] = f.trk[d]
    BY <1>1, <2>4
  <2> HIDE DEF ts
  <2>7. Keeps(h, g, {"side", "trk"}) /\ h.side = s /\ h.trk = ts
    BY <1>2, <2>4, <2>6 DEF States, Keeps, Names, s
  <2> HIDE DEF h
  <2>8. h \in States /\ h.p = g.p
    BY <2>7 DEF Keeps, Names
  <2>9. m = PutJob(h, "servant", k) /\ k \in Jobs
    BY <1>1, <2>1, <2>8, StoreJob
  <2>10. k.pc = pc /\ k.drv = j.drv /\ k.trk = j.trk /\ k.prb = f.line
    <3>1. h.p["servant"] \in Jobs
      BY <1>1, <2>8, JobOf
    <3> QED
      BY <2>3, <2>8, <3>1 DEF Jobs
  <2> HIDE DEF k, m
  <2>11. Keeps(m, h, {"p"}) /\ m.p["servant"] = k /\ m.p["opener"] = f.p["opener"]
    BY <1>1, <2>3, <2>8, <2>9, PutJobIs
  <2>12. m \in States
    BY <2>11 DEF Keeps
  <2>13. r = PutJob(m, "servant", l) /\ l \in Jobs
    BY <1>1, <2>1, <2>12, StoreJob
  <2>14. l.pc = pc /\ l.drv = j.drv /\ l.trk = j.trk /\ l.prb = f.line /\ l.by = by
    BY <2>9, <2>10, <2>11 DEF Jobs
  <2> HIDE DEF l, r
  <2>15. Keeps(r, m, {"p"}) /\ r.p["servant"] = l /\ r.p["opener"] = f.p["opener"]
    BY <1>1, <2>11, <2>12, <2>13, PutJobIs
  <2>16. Keeps(r, f, {"p", "side", "trk"}) /\ r.side = s /\ r.trk = ts
    BY <2>3, <2>7, <2>11, <2>15 DEF Keeps, Names
  <2> QED
    BY <1>5, <2>5, <2>6, <2>14, <2>15, <2>16 DEF Sought, by, s, pc
<1> QED
  BY <1>3, <1>4, <1>5

-----------------------------------------------------------------------------
(* The servant seeks.                                                      *)

OpenerTyped(f) ==
  /\ f.p["opener"].pc \in {"idle", "motor", "spin"}
  /\ f.p["opener"].pc # "idle" => f.p["opener"].drv \in Drives

\* The servant is at a drive that is running and selected, its head on its track.
AtDrive(f) ==
  /\ f.p["opener"].pc = "idle"
  /\ f.line = f.selected /\ f.selected = f.p["servant"].drv /\ f.on[f.selected]
  /\ SideRight(f) /\ \A d \in Drives : HeadRight(f, d)
  /\ ~f.strays

MaySeek(f) ==
  /\ f \in States /\ f.p["servant"].drv \in Drives /\ OpenerTyped(f)
  /\ ~f.raced => AtDrive(f)

LEMMA ProcsTwo ==
  /\ "servant" \in Procs /\ "opener" \in Procs /\ "servant" # "opener"
  /\ \A x \in Procs : x = "servant" \/ x = "opener"
BY DEF Procs

LEMMA SeekTyped ==
  ASSUME Cylinders, NEW f, MaySeek(f)
  PROVE  Typed(Seek(f)) /\ Seek(f).raced = f.raced
<1> DEFINE g == Seek(f)
<1>1. Sought(g, f)
  BY SeekIs DEF MaySeek
<1> HIDE DEF g
<1>2. g \in States /\ g.raced = f.raced
  BY <1>1 DEF Sought, Keeps, Names
<1>3. g.p["servant"].drv \in Drives /\ g.p["opener"] = f.p["opener"]
  BY <1>1 DEF Sought, MaySeek
<1>4. Typed(g)
  BY <1>2, <1>3, ProcsTwo DEF Typed, MaySeek, OpenerTyped
<1> QED
  BY <1>2, <1>4 DEF g

LEMMA SeekCalm ==
  ASSUME Cylinders, NEW f, MaySeek(f), ~f.raced
  PROVE  Calm(Seek(f))
<1> DEFINE g == Seek(f)
           j == f.p["servant"]
           k == g.p["servant"]
<1>1. Sought(g, f)
  BY SeekIs DEF MaySeek
<1>2. /\ f \in States /\ j.drv \in Drives /\ j.trk \in Tracks /\ AtDrive(f)
      /\ NoDrive \notin Drives
  BY JobOf, ProcsTwo DEF MaySeek, Jobs, Cylinders
<1>3. j.trk # Lost /\ Cyl(j.trk) \in Int
  BY <1>2, TrackPlace
<1> HIDE DEF g
<1>4. /\ g.p["opener"].pc = "idle" /\ k.drv = j.drv /\ k.trk = j.trk
      /\ k.pc \in {"start", "recal", "step"}
  BY <1>1, <1>2 DEF Sought, AtDrive
<1>5. /\ g.line = f.line /\ g.selected = f.selected /\ g.on = f.on /\ g.head = f.head
      /\ g.strays = f.strays
  BY <1>1 DEF Sought, Keeps, Names
<1>6. /\ \E x \in Procs : g.p[x].pc = "idle"
      /\ g.line = g.selected /\ (g.selected # NoDrive => g.on[g.selected]) /\ ~g.strays
      /\ \A x \in Procs : g.p[x].pc # "spin"
  BY <1>2, <1>4, <1>5, ProcsTwo DEF AtDrive
<1>7. ASSUME f.trk[j.drv] = j.trk, Keeps(g, f, {"p"}), k.pc = "start"
      PROVE  Calm(g)
  <2>1. g.trk = f.trk /\ g.side = f.side
    BY <1>7 DEF Keeps, Names
  <2> QED
    BY <1>2, <1>3, <1>4, <1>5, <1>6, <1>7, <2>1
       DEF Calm, AtDrive, SideRight, HeadRight, Seeking
<1>8. ASSUME f.trk[j.drv] = Lost, Keeps(g, f, {"p", "side"}),
             k.pc = "recal", k.prb = f.line, g.side = 0
      PROVE  Calm(g)
  <2>1. g.trk = f.trk
    BY <1>8 DEF Keeps, Names
  <2> QED
    BY <1>2, <1>3, <1>4, <1>5, <1>6, <1>8, <2>1
       DEF Calm, AtDrive, SideRight, HeadRight, Seeking
<1>9. ASSUME f.trk[j.drv] \notin {j.trk, Lost},
             k.pc = (IF Cyl(j.trk) - Cyl(f.trk[j.drv]) = 0 THEN "start" ELSE "step"),
             k.prb = f.line, k.by = Cyl(j.trk) - Cyl(f.trk[j.drv]),
             g.side = Side(j.trk), g.trk[j.drv] = j.trk,
             \A d \in Drives : d # j.drv => g.trk[d] = f.trk[d]
      PROVE  Calm(g)
  <2>1. f.trk[j.drv] \in Tracks
    BY <1>2, <1>9 DEF States
  <2>2. Cyl(f.trk[j.drv]) \in Int /\ f.head[j.drv] = Cyl(f.trk[j.drv])
    BY <1>2, <2>1, TrackPlace DEF AtDrive, HeadRight
  <2>3. SideRight(g)
    BY <1>2, <1>5, <1>9 DEF SideRight, AtDrive
  <2>4. ASSUME NEW d \in Drives
        PROVE  HeadRight(g, d) \/ (k.pc = "step" /\ k.drv = d)
    <3>1. CASE d # j.drv
      BY <1>2, <1>5, <1>9, <3>1 DEF HeadRight, AtDrive
    <3>2. CASE d = j.drv /\ Cyl(j.trk) - Cyl(f.trk[j.drv]) = 0
      BY <1>3, <1>5, <1>9, <2>2, <3>2 DEF HeadRight
    <3>3. CASE d = j.drv /\ Cyl(j.trk) - Cyl(f.trk[j.drv]) # 0
      BY <1>4, <1>9, <3>3
    <3> QED
      BY <3>1, <3>2, <3>3
  <2>5. Seeking(g)
    BY <1>2, <1>3, <1>4, <1>5, <1>9, <2>2 DEF Seeking, AtDrive
  <2> QED
    BY <1>6, <2>3, <2>4, <2>5 DEF Calm
<1>10. Calm(g)
  BY <1>1, <1>7, <1>8, <1>9 DEF Sought
<1> QED
  BY <1>10 DEF g

LEMMA SeekInv ==
  ASSUME Cylinders, NEW f, MaySeek(f)
  PROVE  DriveInv(Seek(f))
BY SeekTyped, SeekCalm DEF DriveInv

-----------------------------------------------------------------------------
(* The actions.                                                            *)

\* The motor of the drive of process x runs.
Running(f, x) == /\ Typed(f) /\ f.p[x].pc \in {"motor", "spin"}
                 /\ ~f.raced => Calm(f) /\ f.on[f.p[x].drv]

LEMMA SpunInv ==
  ASSUME Cylinders, NEW f, NEW x \in Procs, Running(f, x)
  PROVE  DriveInv(Spun(f, x))
<1> DEFINE d == f.p[x].drv
           g == Select(f, d)
<1>1. /\ f \in States /\ d \in Drives /\ f.p[x].pc \in {"motor", "spin"}
      /\ Typed(f) /\ (~f.raced => Calm(f) /\ f.on[d]) /\ NoDrive \notin Drives
  BY DEF Running, Typed, Cylinders
<1> HIDE DEF d
<1>2. /\ Keeps(g, f, {"selected", "line", "side"}) /\ g.selected = d
      /\ f.selected = d => g = f
      /\ f.selected # d => g.line = d /\ g.side = Side(f.trk[d])
  BY <1>1, SelectIs
<1> HIDE DEF g
<1>3. /\ g \in States /\ g.on = f.on /\ g.trk = f.trk /\ g.head = f.head /\ g.p = f.p
      /\ g.strays = f.strays /\ g.raced = f.raced
  BY <1>2 DEF Keeps, Names
<1>4. ~f.raced => g.line = g.selected /\ SideRight(g)
  <2> SUFFICES ASSUME ~f.raced PROVE g.line = g.selected /\ SideRight(g)
    OBVIOUS
  <2>1. Calm(f)
    BY <1>1
  <2>2. CASE f.selected = d
    BY <1>2, <2>1, <2>2 DEF Calm
  <2>3. CASE f.selected # d
    BY <1>2, <1>3, <2>3 DEF SideRight
  <2> QED
    BY <2>2, <2>3
<1>5. CASE x = "servant"
  <2>1. MaySeek(g)
    <3>1. OpenerTyped(g) /\ g.p["servant"].drv \in Drives /\ d = g.p["servant"].drv
      BY <1>1, <1>3, <1>5, ProcsTwo DEF Typed, OpenerTyped, d
    <3>2. ASSUME ~g.raced PROVE AtDrive(g)
      <4>1. Calm(f) /\ f.on[d]
        BY <1>1, <1>3, <3>2
      <4>2. f.p["opener"].pc = "idle" /\ \A e \in Drives : HeadRight(f, e)
        BY <1>1, <1>5, <4>1, ProcsTwo DEF Calm
      <4>3. \A e \in Drives : HeadRight(g, e)
        BY <1>3, <4>2 DEF HeadRight
      <4>4. ~g.strays
        BY <1>3, <4>1 DEF Calm
      <4> QED
        BY <1>2, <1>3, <1>4, <3>1, <3>2, <4>1, <4>2, <4>3, <4>4 DEF AtDrive
    <3> QED
      BY <1>3, <3>1, <3>2 DEF MaySeek
  <2>2. Spun(f, x) = Seek(g)
    BY <1>5 DEF Spun, g, d
  <2> QED
    BY <2>1, <2>2, SeekInv
<1>6. CASE x = "opener"
  <2> DEFINE h == Done(g, x)
  <2>1. Spun(f, x) = h
    BY <1>6 DEF Spun, g, d
  <2>2. /\ Keeps(h, g, {"p"}) /\ h.p["opener"].pc = "idle" /\ h.p["servant"] = f.p["servant"]
    BY <1>3, <1>6, DoneIs, ProcsTwo
  <2> HIDE DEF h
  <2>3. /\ h \in States /\ h.on = g.on /\ h.trk = g.trk /\ h.head = g.head /\ h.line = g.line
        /\ h.selected = g.selected /\ h.side = g.side /\ h.strays = g.strays /\ h.raced = g.raced
    BY <2>2 DEF Keeps, Names
  <2>4. Typed(h)
    BY <1>1, <2>2, <2>3, ProcsTwo DEF Typed
  <2>5. ASSUME ~h.raced PROVE Calm(h)
    <3>1. Calm(f) /\ f.on[d] /\ g.line = g.selected /\ SideRight(g)
      BY <1>1, <1>3, <1>4, <2>3, <2>5
    <3>2. f.p["servant"].pc = "idle"
      BY <1>1, <1>6, <3>1, ProcsTwo DEF Calm
    <3>3. \A e \in Drives : HeadRight(h, e)
      BY <1>3, <2>3, <3>1, <3>2 DEF Calm, HeadRight
    <3>4. SideRight(h)
      BY <2>3, <3>1 DEF SideRight
    <3>5. ~h.strays
      BY <1>3, <2>3, <3>1 DEF Calm
    <3> QED
      BY <1>2, <1>3, <2>2, <2>3, <3>1, <3>2, <3>3, <3>4, <3>5, ProcsTwo DEF Calm, Seeking
  <2> QED
    BY <2>1, <2>4, <2>5 DEF DriveInv
<1> QED
  BY <1>5, <1>6, ProcsTwo

LEMMA MotoredInv ==
  ASSUME Cylinders, NEW f, DriveInv(f), NEW x \in Procs, f.p[x].pc = "motor"
  PROVE  DriveInv(Motored(f, x))
<1> DEFINE d == f.p[x].drv
           g == MotorOn(f, d)
           h == Goto(g, x, "spin")
<1>1. /\ f \in States /\ d \in Drives /\ f.p[x].pc = "motor" /\ Typed(f)
      /\ (~f.raced => Calm(f)) /\ NoDrive \notin Drives
  BY DEF DriveInv, Typed, Cylinders
<1>2. CASE f.on[d]
  <2>1. Running(f, x)
    BY <1>1, <1>2 DEF Running
  <2> QED
    BY <1>2, <2>1, SpunInv DEF Motored
<1>3. CASE ~f.on[d]
  <2>1. Motored(f, x) = h
    BY <1>3 DEF Motored
  <2> HIDE DEF d
  <2>2. /\ Keeps(g, f, {"on", "selected", "line", "side"})
        /\ g.on[d] = TRUE /\ g.selected = d /\ g.line = d /\ g.side = Side(f.trk[d])
    BY <1>1, MotorOnIs
  <2> HIDE DEF g
  <2>3. /\ g \in States /\ g.trk = f.trk /\ g.head = f.head /\ g.p = f.p
        /\ g.strays = f.strays /\ g.raced = f.raced
    BY <2>2 DEF Keeps, Names
  <2>4. /\ Keeps(h, g, {"p"}) /\ h.p[x].pc = "spin" /\ h.p[x].drv = d
        /\ \A y \in Procs : y # x => h.p[y] = f.p[y]
    BY <2>3, GotoIs DEF Places, d
  <2> HIDE DEF h
  <2>5. /\ h \in States /\ h.on = g.on /\ h.trk = g.trk /\ h.head = g.head /\ h.line = g.line
        /\ h.selected = g.selected /\ h.side = g.side /\ h.strays = g.strays /\ h.raced = g.raced
    BY <2>4 DEF Keeps, Names
  <2>6. Typed(h)
    BY <1>1, <2>4, <2>5, ProcsTwo DEF Typed
  <2>7. ASSUME ~h.raced PROVE Calm(h)
    <3>1. Calm(f)
      BY <1>1, <2>3, <2>5, <2>7
    <3>2. \A y \in Procs : y # x => f.p[y].pc = "idle"
      BY <1>1, <3>1, ProcsTwo DEF Calm
    <3>3. \A e \in Drives : HeadRight(h, e)
      <4>1. f.p["servant"].pc # "step"
        BY <1>1, <3>2, ProcsTwo
      <4> QED
        BY <2>3, <2>5, <3>1, <4>1 DEF Calm, HeadRight
    <3>4. SideRight(h)
      BY <2>2, <2>3, <2>5 DEF SideRight
    <3>5. ~h.strays
      BY <2>3, <2>5, <3>1 DEF Calm
    <3>6. Seeking(h)
      BY <2>4, <3>2, ProcsTwo DEF Seeking
    <3>7. \E y \in Procs : h.p[y].pc = "idle"
      BY <2>4, <3>2, ProcsTwo
    <3>8. \A y \in Procs : h.p[y].pc = "spin" => h.selected = h.p[y].drv
      BY <2>2, <2>4, <2>5, <3>2
    <3> QED
      BY <2>2, <2>5, <3>3, <3>4, <3>5, <3>6, <3>7, <3>8 DEF Calm
  <2> QED
    BY <2>1, <2>6, <2>7 DEF DriveInv
<1> QED
  BY <1>2, <1>3

LEMMA MotorInv ==
  ASSUME Cylinders, DriveInv(fh), NEW x \in Procs, Motor(x)
  PROVE  DriveInv(fh')
BY MotoredInv DEF Motor

LEMMA ReadyInv ==
  ASSUME Cylinders, DriveInv(fh), NEW x \in Procs, Ready(x)
  PROVE  DriveInv(fh')
<1>1. /\ Typed(fh) /\ fh.p[x].pc = "spin" /\ (~fh.raced => Calm(fh)) /\ fh' = Spun(fh, x)
      /\ fh.p[x].drv \in Drives /\ NoDrive \notin Drives
  BY DEF Ready, DriveInv, Typed, Cylinders
<1>2. ~fh.raced => fh.on[fh.p[x].drv]
  BY <1>1 DEF Calm
<1>3. Running(fh, x)
  BY <1>1, <1>2 DEF Running
<1> QED
  BY <1>1, <1>3, SpunInv

\* Nobody is at work.
LEMMA RestCalm ==
  ASSUME NEW g, \A x \in Procs : g.p[x].pc = "idle",
         g.line = g.selected, g.selected # NoDrive => g.on[g.selected],
         SideRight(g), \A d \in Drives : HeadRight(g, d), ~g.strays
  PROVE  Calm(g)
BY ProcsTwo DEF Calm, Seeking

\* The invariant does not speak of these.
LEMMA UnspokenInv ==
  ASSUME NEW f, NEW g, DriveInv(f), Keeps(g, f, {"up", "nops", "nopens", "nfault"})
  PROVE  DriveInv(g)
<1>1. /\ g \in States /\ g.on = f.on /\ g.trk = f.trk /\ g.head = f.head /\ g.line = f.line
      /\ g.selected = f.selected /\ g.side = f.side /\ g.strays = f.strays /\ g.raced = f.raced
      /\ g.p = f.p
  BY DEF Keeps, Names
<1> QED
  BY <1>1 DEF DriveInv, Typed, Calm, SideRight, HeadRight, Seeking

LEMMA CountIs ==
  ASSUME NEW f \in States
  PROVE  /\ Keeps([f EXCEPT !.nops = @ + 1], f, {"nops"})
         /\ Keeps([f EXCEPT !.nopens = @ + 1], f, {"nopens"})
         /\ Keeps([f EXCEPT !.nfault = @ + 1], f, {"nfault"})
         /\ \A b \in BOOLEAN : /\ Keeps([f EXCEPT !.raced = b], f, {"raced"})
                               /\ [f EXCEPT !.raced = b].raced = b
                               /\ Keeps([f EXCEPT !.strays = b], f, {"strays"})
                               /\ [f EXCEPT !.strays = b].strays = b
         /\ \A u \in SUBSET Drives : Keeps([f EXCEPT !.up = u], f, {"up"})
<1>1. f.nops + 1 \in Nat /\ f.nopens + 1 \in Nat /\ f.nfault + 1 \in Nat
  BY DEF States
<1>2. Keeps([f EXCEPT !.nops = @ + 1], f, {"nops"})
  BY <1>1 DEF States, Keeps, Names
<1>3. Keeps([f EXCEPT !.nopens = @ + 1], f, {"nopens"})
  BY <1>1 DEF States, Keeps, Names
<1>4. Keeps([f EXCEPT !.nfault = @ + 1], f, {"nfault"})
  BY <1>1 DEF States, Keeps, Names
<1>5. ASSUME NEW b \in BOOLEAN
      PROVE  Keeps([f EXCEPT !.raced = b], f, {"raced"}) /\ [f EXCEPT !.raced = b].raced = b
  BY DEF States, Keeps, Names
<1>6. ASSUME NEW b \in BOOLEAN
      PROVE  Keeps([f EXCEPT !.strays = b], f, {"strays"}) /\ [f EXCEPT !.strays = b].strays = b
  BY DEF States, Keeps, Names
<1>7. ASSUME NEW u \in SUBSET Drives PROVE Keeps([f EXCEPT !.up = u], f, {"up"})
  BY DEF States, Keeps, Names
<1> QED
  BY <1>2, <1>3, <1>4, <1>5, <1>6, <1>7

\* The motor of the drive at work is stopped, and its process told.
LEMMA GivenUpInv ==
  ASSUME Cylinders, DriveInv(fh), NEW x \in Procs, fh.p[x].pc \in {"spin", "out"}
  PROVE  DriveInv(Done(MotorOff(fh, fh.p[x].drv), x))
<1> DEFINE d == fh.p[x].drv
           g == MotorOff(fh, d)
           h == Done(g, x)
<1>1. /\ fh \in States /\ d \in Drives /\ Typed(fh) /\ (~fh.raced => Calm(fh))
  BY DEF DriveInv, Typed
<1> HIDE DEF d
<1>2. LET stop == fh.on[d] \/ fh.selected = d
      IN  /\ Keeps(g, fh, {"on", "up", "line", "selected"})
          /\ \A e \in Drives : e # d => g.on[e] = fh.on[e]
          /\ g.selected = IF stop THEN NoDrive ELSE fh.selected
          /\ g.line = IF stop THEN NoDrive ELSE fh.line
  BY <1>1, MotorOffIs
<1> HIDE DEF g
<1>3. /\ g \in States /\ g.trk = fh.trk /\ g.head = fh.head /\ g.p = fh.p /\ g.side = fh.side
      /\ g.strays = fh.strays /\ g.raced = fh.raced
  BY <1>2 DEF Keeps, Names
<1>4. /\ Keeps(h, g, {"p"}) /\ h.p[x].pc = "idle"
      /\ \A y \in Procs : y # x => h.p[y] = fh.p[y]
  BY <1>3, DoneIs
<1> HIDE DEF h
<1>5. /\ h \in States /\ h.on = g.on /\ h.trk = g.trk /\ h.head = g.head /\ h.line = g.line
      /\ h.selected = g.selected /\ h.side = g.side /\ h.strays = g.strays /\ h.raced = g.raced
  BY <1>4 DEF Keeps, Names
<1>6. Typed(h)
  BY <1>1, <1>4, <1>5, ProcsTwo DEF Typed
<1>7. ASSUME ~h.raced PROVE Calm(h)
  <2>1. Calm(fh)
    BY <1>1, <1>3, <1>5, <1>7
  <2>2. \A y \in Procs : h.p[y].pc = "idle"
    BY <1>4, <2>1, ProcsTwo DEF Calm
  <2>3. \A e \in Drives : HeadRight(h, e)
    <3>1. fh.p["servant"].pc # "step"
      BY <1>4, <2>2, ProcsTwo
    <3> QED
      BY <1>3, <1>5, <2>1, <3>1 DEF Calm, HeadRight
  <2>4. h.line = h.selected /\ (h.selected # NoDrive => h.selected = fh.selected /\ h.selected # d)
    BY <1>2, <1>5, <2>1 DEF Calm
  <2>5. h.selected # NoDrive => h.on[h.selected]
    <3>1. h.selected \in Drives \cup {NoDrive}
      BY <1>5 DEF States, MaybeDrive
    <3> QED
      BY <1>2, <1>5, <2>1, <2>4, <3>1 DEF Calm
  <2>6. SideRight(h)
    BY <1>3, <1>5, <2>1, <2>4 DEF Calm, SideRight
  <2>7. ~h.strays
    BY <1>3, <1>5, <2>1 DEF Calm
  <2> QED
    BY <2>2, <2>3, <2>4, <2>5, <2>6, <2>7, RestCalm
<1>8. DriveInv(h)
  BY <1>6, <1>7 DEF DriveInv
<1> QED
  BY <1>8 DEF h, g, d

LEMMA GiveUpInv ==
  ASSUME Cylinders, DriveInv(fh), NEW x \in Procs, GiveUp(x) \/ (RecalFails /\ x = "servant")
  PROVE  DriveInv(fh')
<1> DEFINE h == Done(MotorOff(fh, fh.p[x].drv), x)
<1>1. fh' = [h EXCEPT !.nfault = @ + 1] /\ fh.p[x].pc \in {"spin", "out"}
  BY DEF GiveUp, RecalFails
<1>2. DriveInv(h)
  BY <1>1, GivenUpInv
<1> HIDE DEF h
<1>3. Keeps([h EXCEPT !.nfault = @ + 1], h, {"nfault"})
  BY <1>2, CountIs DEF DriveInv, Typed
<1>4. Keeps(fh', h, {"up", "nops", "nopens", "nfault"})
  BY <1>1, <1>3 DEF Keeps, Names
<1> QED
  BY <1>2, <1>4, UnspokenInv

LEMMA SpinUpInv ==
  ASSUME DriveInv(fh), SpinUp
  PROVE  DriveInv(fh')
<1>1. PICK d \in Drives : fh' = [fh EXCEPT !.up = @ \cup {d}]
  BY DEF SpinUp
<1>2. fh.up \cup {d} \in SUBSET Drives /\ fh \in States
  BY DEF DriveInv, Typed, States
<1>3. Keeps(fh', fh, {"up"})
  BY <1>1, <1>2, CountIs
<1>4. Keeps(fh', fh, {"up", "nops", "nopens", "nfault"})
  BY <1>3 DEF Keeps, Names
<1> QED
  BY <1>4, UnspokenInv

\* The servant at work: its job, and what is calm with it.
LEMMA AtWork ==
  ASSUME Cylinders, DriveInv(fh), fh.p["servant"].pc \in {"recal", "out", "step", "start", "index", "dma"}
  PROVE  /\ fh \in States /\ fh.p["servant"] \in Jobs /\ fh.p["servant"].drv \in Drives
         /\ fh.p["servant"].trk \in Tracks /\ fh.p["servant"].prb \in MaybeDrive
         /\ fh.p["servant"].by \in Int /\ OpenerTyped(fh) /\ NoDrive \notin Drives
         /\ "servant" \in Procs
         /\ ~fh.raced => Calm(fh) /\ fh.p["opener"].pc = "idle"
<1>1. Typed(fh) /\ (~fh.raced => Calm(fh))
  BY DEF DriveInv
<1>2. fh \in States /\ "servant" \in Procs /\ OpenerTyped(fh)
  BY <1>1, ProcsTwo DEF Typed, OpenerTyped
<1>3. fh.p["servant"] \in Jobs
  BY <1>2, JobOf
<1>4. ~fh.raced => fh.p["opener"].pc = "idle"
  BY <1>1, ProcsTwo DEF Calm
<1> QED
  BY <1>1, <1>2, <1>3, <1>4 DEF Jobs, Typed, Cylinders

\* A pulse of recal(), with the copy of port B it took.
LEMMA RecalPulse ==
  ASSUME NEW f \in States, NEW l \in MaybeDrive, NEW by \in Int
  PROVE  LET g == Pulse([f EXCEPT !.line = l], by)
         IN  /\ Keeps(g, f, {"line", "head"}) /\ g.line = l
             /\ \A d \in Drives : d # l => g.head[d] = f.head[d]
<1> DEFINE e == [f EXCEPT !.line = l]
           g == Pulse(e, by)
<1>1. Keeps(e, f, {"line"}) /\ e.line = l
  BY DEF States, Keeps, Names
<1> HIDE DEF e
<1>2. e \in States /\ e.head = f.head
  BY <1>1 DEF Keeps, Names
<1>3. Keeps(g, e, {"head"}) /\ \A d \in Drives : d # e.line => g.head[d] = e.head[d]
  BY <1>2, PulseIs
<1> HIDE DEF g
<1>4. Keeps(g, f, {"line", "head"}) /\ g.line = l
  BY <1>1, <1>3 DEF Keeps, Names
<1>5. \A d \in Drives : d # l => g.head[d] = f.head[d]
  BY <1>1, <1>2, <1>3
<1> QED
  BY <1>4, <1>5 DEF g, e

\* The servant goes on with a recal().
LEMMA RecalGoesOn ==
  ASSUME Cylinders, DriveInv(fh), fh.p["servant"].pc \in {"recal", "out"}, NEW g,
         Keeps(g, fh, {"line", "head", "p"}), g.line = fh.p["servant"].prb,
         \A d \in Drives : d # g.line => g.head[d] = fh.head[d],
         g.p["opener"] = fh.p["opener"], g.p["servant"].pc = "out",
         g.p["servant"].drv = fh.p["servant"].drv, g.p["servant"].trk = fh.p["servant"].trk,
         g.p["servant"].prb = fh.p["servant"].prb
  PROVE  DriveInv(g)
<1>1. /\ g \in States /\ g.on = fh.on /\ g.trk = fh.trk /\ g.selected = fh.selected
      /\ g.side = fh.side /\ g.strays = fh.strays /\ g.raced = fh.raced
  BY DEF Keeps, Names
<1>2. /\ fh.p["servant"].drv \in Drives /\ OpenerTyped(fh) /\ NoDrive \notin Drives
      /\ ~fh.raced => Calm(fh) /\ fh.p["opener"].pc = "idle"
  BY AtWork
<1>3. Typed(g)
  BY <1>1, <1>2, ProcsTwo DEF Typed, OpenerTyped
<1>4. ASSUME ~g.raced PROVE Calm(g)
  <2>1. Calm(fh) /\ fh.p["opener"].pc = "idle"
    BY <1>1, <1>2, <1>4
  <2>2. /\ fh.selected = fh.p["servant"].drv /\ fh.trk[fh.p["servant"].drv] = Lost
        /\ fh.p["servant"].prb = fh.p["servant"].drv /\ fh.side = 0
    BY <2>1 DEF Calm, Seeking
  <2>3. \A d \in Drives : HeadRight(g, d)
    BY <1>1, <2>1, <2>2 DEF Calm, HeadRight
  <2>4. SideRight(g) /\ Seeking(g)
    BY <1>1, <2>2 DEF SideRight, Seeking
  <2> QED
    BY <1>1, <2>1, <2>2, <2>3, <2>4, ProcsTwo DEF Calm
<1> QED
  BY <1>3, <1>4 DEF DriveInv

LEMMA RecalInInv ==
  ASSUME Cylinders, DriveInv(fh), RecalIn
  PROVE  DriveInv(fh')
<1>1. PICK n \in 0 .. 1 :
        fh' = Goto(Pulse([fh EXCEPT !.line = fh.p["servant"].prb], n), "servant", "out")
  BY DEF RecalIn
<1> DEFINE l == fh.p["servant"].prb
           g == Pulse([fh EXCEPT !.line = l], n)
<1>2. fh.p["servant"].pc = "recal"
  BY DEF RecalIn
<1>3. fh \in States /\ l \in MaybeDrive /\ "servant" \in Procs /\ n \in Int /\ "out" \in Places
  BY <1>2, AtWork DEF Places
<1> HIDE DEF l
<1>4. /\ Keeps(g, fh, {"line", "head"}) /\ g.line = l
      /\ \A d \in Drives : d # l => g.head[d] = fh.head[d]
  BY <1>3, RecalPulse
<1>5. fh' = Goto(g, "servant", "out")
  BY <1>1 DEF l
<1> HIDE DEF g
<1>6. g \in States /\ g.p = fh.p
  BY <1>4 DEF Keeps, Names
<1> DEFINE h == Goto(g, "servant", "out")
<1>7. /\ Keeps(h, g, {"p"}) /\ h.p["opener"] = fh.p["opener"] /\ h.p["servant"].pc = "out"
      /\ h.p["servant"].drv = fh.p["servant"].drv /\ h.p["servant"].trk = fh.p["servant"].trk
      /\ h.p["servant"].prb = fh.p["servant"].prb
  BY <1>3, <1>6, GotoIs, ProcsTwo
<1> HIDE DEF h
<1>8. Keeps(h, fh, {"line", "head", "p"}) /\ h.line = l /\ h.head = g.head
  BY <1>4, <1>7 DEF Keeps, Names
<1>9. DriveInv(h)
  BY <1>2, <1>4, <1>7, <1>8, RecalGoesOn DEF l
<1> QED
  BY <1>5, <1>9 DEF h

LEMMA RecalOutInv ==
  ASSUME Cylinders, DriveInv(fh), RecalOut
  PROVE  DriveInv(fh')
<1> DEFINE l == fh.p["servant"].prb
           d == fh.p["servant"].drv
           g == Pulse([fh EXCEPT !.line = l], -1)
           h == [g EXCEPT !.trk[d] = 0]
<1>1. /\ fh.p["servant"].pc = "out"
      /\ fh' = IF g.line # NoDrive /\ g.head[g.line] = 0 THEN Seek(h) ELSE g
  BY DEF RecalOut
<1>2. /\ fh \in States /\ l \in MaybeDrive /\ d \in Drives /\ "servant" \in Procs /\ -1 \in Int
      /\ OpenerTyped(fh) /\ NoDrive \notin Drives
      /\ ~fh.raced => Calm(fh) /\ fh.p["opener"].pc = "idle"
  BY <1>1, AtWork
<1>3. ~fh.raced => fh.selected = d /\ fh.trk[d] = Lost /\ l = d /\ fh.side = 0
  BY <1>1, <1>2 DEF Calm, Seeking
<1> HIDE DEF l, d
<1>4. /\ Keeps(g, fh, {"line", "head"}) /\ g.line = l
      /\ \A e \in Drives : e # l => g.head[e] = fh.head[e]
  BY <1>2, RecalPulse
<1> HIDE DEF g
<1>5. /\ g \in States /\ g.p = fh.p /\ g.on = fh.on /\ g.trk = fh.trk /\ g.selected = fh.selected
      /\ g.side = fh.side /\ g.strays = fh.strays /\ g.raced = fh.raced
  BY <1>4 DEF Keeps, Names
<1>6. CASE ~(g.line # NoDrive /\ g.head[g.line] = 0)
  <2>1. Keeps(g, fh, {"line", "head", "p"})
    BY <1>4 DEF Keeps, Names
  <2>2. DriveInv(g)
    BY <1>1, <1>4, <1>5, <2>1, RecalGoesOn DEF l
  <2> QED
    BY <1>1, <1>6, <2>2
<1>7. CASE g.line # NoDrive /\ g.head[g.line] = 0
  <2> DEFINE ts == [g.trk EXCEPT ![d] = 0]
  <2>1. 0 \in Tracks /\ Side(0) = 0 /\ Cyl(0) = 0
    <3>1. fh.p["servant"].trk \in Tracks
      BY <1>1, AtWork
    <3> QED
      BY <3>1, TrackPlace
  <2>2. /\ ts \in [Drives -> Tracks \cup {Lost}] /\ ts[d] = 0
        /\ \A e \in Drives : e # d => ts[e] = fh.trk[e]
    BY <1>2, <1>5, <2>1 DEF States
  <2>3. h = [g EXCEPT !.trk = ts]
    OBVIOUS
  <2> HIDE DEF ts, h
  <2>4. Keeps(h, g, {"trk"}) /\ h.trk = ts
    BY <1>5, <2>2, <2>3 DEF States, Keeps, Names
  <2>5. /\ h \in States /\ h.p = fh.p /\ h.on = fh.on /\ h.selected = fh.selected
        /\ h.side = fh.side /\ h.strays = fh.strays /\ h.raced = fh.raced
        /\ h.head = g.head /\ h.line = l
    BY <1>4, <1>5, <2>4 DEF Keeps, Names
  <2>6. ASSUME ~h.raced PROVE AtDrive(h)
    <3>1. /\ Calm(fh) /\ fh.p["opener"].pc = "idle"
          /\ fh.selected = d /\ fh.trk[d] = Lost /\ l = d /\ fh.side = 0
      BY <1>2, <1>3, <2>5, <2>6
    <3>2. h.selected = h.p["servant"].drv /\ h.line = h.selected
      BY <2>5, <3>1 DEF d
    <3>3. h.on[h.selected] /\ ~h.strays
      BY <1>2, <2>5, <3>1 DEF Calm
    <3>4. SideRight(h)
      BY <2>1, <2>2, <2>4, <2>5, <3>1 DEF SideRight
    <3>5. \A e \in Drives : HeadRight(h, e)
      <4>1. HeadRight(h, d)
        BY <1>4, <1>7, <2>1, <2>2, <2>4, <2>5, <3>1 DEF HeadRight
      <4>2. \A e \in Drives : e # d => HeadRight(h, e)
        BY <1>1, <1>4, <2>2, <2>4, <2>5, <3>1 DEF HeadRight, Calm
      <4> QED
        BY <4>1, <4>2
    <3> QED
      BY <2>5, <3>1, <3>2, <3>3, <3>4, <3>5 DEF AtDrive
  <2>7. MaySeek(h)
    BY <1>2, <2>5, <2>6 DEF MaySeek, OpenerTyped, d
  <2> QED
    BY <1>1, <1>7, <2>7, SeekInv
<1> QED
  BY <1>6, <1>7

\* The fields of Step's result.
LEMMA StepIs ==
  ASSUME Cylinders, DriveInv(fh), Step
  PROVE  LET j == fh.p["servant"]
             s == IF j.by > 0 THEN 1 ELSE -1
         IN  /\ Keeps(fh', fh, {"line", "side", "head", "p"})
             /\ fh'.line = j.prb /\ fh'.side = Side(j.trk)
             /\ \A d \in Drives : d # j.prb => fh'.head[d] = fh.head[d]
             /\ j.prb # NoDrive /\ fh.head[j.prb] + s \in 0 .. NCyl - 1
                  => fh'.head[j.prb] = fh.head[j.prb] + s
             /\ fh'.p["opener"] = fh.p["opener"]
             /\ fh'.p["servant"].drv = j.drv /\ fh'.p["servant"].trk = j.trk
             /\ fh'.p["servant"].prb = j.prb /\ fh'.p["servant"].by = j.by - s
             /\ fh'.p["servant"].pc = IF j.by = s THEN "start" ELSE "step"
<1> DEFINE j == fh.p["servant"]
           s == IF j.by > 0 THEN 1 ELSE -1
           z == Side(j.trk)
           e == [fh EXCEPT !.line = j.prb, !.side = z]
           g == Pulse(e, s)
           pc == IF j.by = s THEN "start" ELSE "step"
           m == [g EXCEPT !.p["servant"].by = j.by - s]
           r == Goto(m, "servant", pc)
           k == [j EXCEPT !.by = j.by - s]
<1>1. /\ fh \in States /\ j \in Jobs /\ j.trk \in Tracks /\ j.prb \in MaybeDrive
      /\ j.by \in Int /\ "servant" \in Procs
  BY AtWork DEF Step
<1>2. fh' = [g EXCEPT !.p["servant"].by = @ - s, !.p["servant"].pc = pc]
  BY DEF Step
<1>3. s \in Int /\ z \in 0 .. 1 /\ pc \in Places
  BY <1>1, SideType DEF Places
<1>4. j.by - s \in Int
  BY <1>1, <1>3
<1> HIDE DEF s, z, pc
<1>5. Keeps(e, fh, {"line", "side"}) /\ e.line = j.prb /\ e.side = z
  <2> HIDE DEF j
  <2> QED
    BY <1>1, <1>3 DEF States, Keeps, Names
<1> HIDE DEF e
<1>6. e \in States /\ e.head = fh.head /\ e.p = fh.p
  BY <1>5 DEF Keeps, Names
<1>7. /\ Keeps(g, e, {"head"})
      /\ \A d \in Drives : d # e.line => g.head[d] = e.head[d]
      /\ e.line # NoDrive =>
           g.head[e.line] = IF e.head[e.line] + s \in 0 .. NCyl - 1
                            THEN e.head[e.line] + s ELSE e.head[e.line]
  BY <1>3, <1>6, PulseIs
<1> HIDE DEF g
<1>8. g \in States /\ g.p = fh.p
  BY <1>6, <1>7 DEF Keeps, Names
<1>9. fh' = r
  <2>1. g.p["servant"].by - s = j.by - s
    BY <1>8
  <2> QED
    BY <1>2, <1>8, <2>1 DEF Goto, States
<1>10. m = PutJob(g, "servant", k) /\ k \in Jobs
  BY <1>1, <1>4, <1>8, StoreJob
<1>11. k.drv = j.drv /\ k.trk = j.trk /\ k.prb = j.prb /\ k.by = j.by - s
  BY <1>1 DEF Jobs
<1> HIDE DEF k, m
<1>12. Keeps(m, g, {"p"}) /\ m.p["servant"] = k /\ m.p["opener"] = fh.p["opener"]
  BY <1>1, <1>8, <1>10, PutJobIs, ProcsTwo
<1>13. m \in States
  BY <1>12 DEF Keeps
<1>14. /\ Keeps(r, m, {"p"}) /\ r.p["opener"] = fh.p["opener"]
       /\ r.p["servant"].drv = j.drv /\ r.p["servant"].trk = j.trk
       /\ r.p["servant"].prb = j.prb /\ r.p["servant"].by = j.by - s /\ r.p["servant"].pc = pc
  BY <1>1, <1>3, <1>11, <1>12, <1>13, GotoIs, ProcsTwo
<1> HIDE DEF r
<1>15. /\ Keeps(r, fh, {"line", "side", "head", "p"}) /\ r.line = e.line /\ r.side = e.side
       /\ r.head = g.head
  BY <1>5, <1>7, <1>12, <1>14 DEF Keeps, Names
<1> HIDE DEF j
<1>16. /\ \A d \in Drives : d # j.prb => r.head[d] = fh.head[d]
       /\ j.prb # NoDrive /\ fh.head[j.prb] + s \in 0 .. NCyl - 1
            => r.head[j.prb] = fh.head[j.prb] + s
  BY <1>5, <1>6, <1>7, <1>15
<1> QED
  BY <1>5, <1>9, <1>14, <1>15, <1>16 DEF j, s, z, pc

\* A step of seek() takes the head a cylinder nearer to the track it notes.
LEMMA StepInv ==
  ASSUME Cylinders, DriveInv(fh), Step
  PROVE  DriveInv(fh')
<1> DEFINE j == fh.p["servant"]
           k == fh'.p["servant"]
           s == IF j.by > 0 THEN 1 ELSE -1
<1>1. /\ fh \in States /\ j.drv \in Drives /\ j.trk \in Tracks /\ j.by \in Int /\ j.pc = "step"
      /\ OpenerTyped(fh) /\ NoDrive \notin Drives
      /\ ~fh.raced => Calm(fh) /\ fh.p["opener"].pc = "idle"
  BY AtWork DEF Step
<1>2. /\ Keeps(fh', fh, {"line", "side", "head", "p"})
      /\ fh'.line = j.prb /\ fh'.side = Side(j.trk)
      /\ \A d \in Drives : d # j.prb => fh'.head[d] = fh.head[d]
      /\ j.prb # NoDrive /\ fh.head[j.prb] + s \in 0 .. NCyl - 1
           => fh'.head[j.prb] = fh.head[j.prb] + s
      /\ fh'.p["opener"] = fh.p["opener"]
      /\ k.drv = j.drv /\ k.trk = j.trk /\ k.prb = j.prb /\ k.by = j.by - s
      /\ k.pc = IF j.by = s THEN "start" ELSE "step"
  BY StepIs
<1>3. /\ fh' \in States /\ fh'.on = fh.on /\ fh'.trk = fh.trk /\ fh'.selected = fh.selected
      /\ fh'.strays = fh.strays /\ fh'.raced = fh.raced
  BY <1>2 DEF Keeps, Names
<1>4. Typed(fh')
  BY <1>1, <1>2, <1>3, ProcsTwo DEF Typed, OpenerTyped
<1>5. ASSUME ~fh'.raced PROVE Calm(fh')
  <2>1. Calm(fh) /\ fh.p["opener"].pc = "idle"
    BY <1>1, <1>3, <1>5
  <2>2. /\ fh.selected = j.drv /\ fh.trk[j.drv] = j.trk /\ j.prb = j.drv
        /\ j.by # 0 /\ fh.head[j.drv] + j.by = Cyl(j.trk)
    BY <1>1, <2>1 DEF Calm, Seeking
  <2>3. Cyl(j.trk) \in 0 .. NCyl - 1 /\ fh.head[j.drv] \in 0 .. NCyl - 1 /\ NCyl \in Nat
    BY <1>1, TrackPlace DEF States, Cylinders
  <2>4. fh.head[j.drv] + s \in 0 .. NCyl - 1 /\ s \in Int
    BY <1>1, <2>2, <2>3
  <2>5. fh'.head[j.drv] = fh.head[j.drv] + s
    BY <1>1, <1>2, <2>2, <2>4
  <2>6. fh'.head[j.drv] + (j.by - s) = Cyl(j.trk) /\ (j.by # s => j.by - s # 0)
    BY <1>1, <2>2, <2>3, <2>4, <2>5
  <2> HIDE DEF s
  <2>7. SideRight(fh')
    BY <1>2, <1>3, <2>2 DEF SideRight
  <2>8. ASSUME NEW d \in Drives
        PROVE  HeadRight(fh', d) \/ (k.pc = "step" /\ k.drv = d)
    <3>1. CASE d # j.drv
      BY <1>1, <1>2, <1>3, <2>1, <2>2, <3>1 DEF Calm, HeadRight
    <3>2. CASE d = j.drv /\ j.by = s
      <4>1. j.by - s = 0 /\ fh'.head[j.drv] = Cyl(j.trk)
        BY <1>1, <2>3, <2>4, <2>5, <2>6, <3>2
      <4> QED
        BY <1>3, <2>2, <3>2, <4>1 DEF HeadRight
    <3>3. CASE d = j.drv /\ j.by # s
      BY <1>2, <3>3
    <3> QED
      BY <3>1, <3>2, <3>3
  <2>9. Seeking(fh')
    BY <1>2, <1>3, <2>2, <2>6 DEF Seeking
  <2>10. /\ \E x \in Procs : fh'.p[x].pc = "idle"
         /\ \A x \in Procs : fh'.p[x].pc # "spin"
    BY <1>2, <2>1, ProcsTwo
  <2> QED
    BY <1>1, <1>2, <1>3, <2>1, <2>2, <2>7, <2>8, <2>9, <2>10 DEF Calm
<1> QED
  BY <1>4, <1>5 DEF DriveInv

\* On its track the servant starts a transfer or waits for the index.
LEMMA AtTrackInv ==
  ASSUME Cylinders, DriveInv(fh), fh.p["servant"].pc = "start", NEW pc \in {"dma", "index"}
  PROVE  DriveInv(Goto(fh, "servant", pc))
<1> DEFINE g == Goto(fh, "servant", pc)
<1>1. fh.p["servant"].pc = "start" /\ pc \in Places
  BY DEF Places
<1>2. /\ fh \in States /\ fh.p["servant"].drv \in Drives /\ OpenerTyped(fh)
      /\ ~fh.raced => Calm(fh) /\ fh.p["opener"].pc = "idle"
  BY <1>1, AtWork
<1>3. /\ Keeps(g, fh, {"p"}) /\ g.p["opener"] = fh.p["opener"] /\ g.p["servant"].pc = pc
      /\ g.p["servant"].drv = fh.p["servant"].drv /\ g.p["servant"].trk = fh.p["servant"].trk
  BY <1>1, <1>2, GotoIs, ProcsTwo
<1> HIDE DEF g
<1>4. /\ g \in States /\ g.on = fh.on /\ g.trk = fh.trk /\ g.selected = fh.selected
      /\ g.line = fh.line /\ g.side = fh.side /\ g.head = fh.head
      /\ g.strays = fh.strays /\ g.raced = fh.raced
  BY <1>3 DEF Keeps, Names
<1>5. Typed(g)
  BY <1>2, <1>3, <1>4, ProcsTwo DEF Typed, OpenerTyped
<1>6. ASSUME ~g.raced PROVE Calm(g)
  <2>1. Calm(fh) /\ fh.p["opener"].pc = "idle"
    BY <1>2, <1>4, <1>6
  <2>2. \A d \in Drives : HeadRight(g, d)
    BY <1>1, <1>4, <2>1 DEF Calm, HeadRight
  <2>3. SideRight(g) /\ Seeking(g)
    BY <1>1, <1>3, <1>4, <2>1 DEF Calm, SideRight, Seeking
  <2>4. /\ \E x \in Procs : g.p[x].pc = "idle"
        /\ \A x \in Procs : g.p[x].pc # "spin"
    BY <1>3, <2>1, ProcsTwo
  <2> QED
    BY <1>4, <2>1, <2>2, <2>3, <2>4 DEF Calm
<1> QED
  BY <1>5, <1>6 DEF DriveInv, g

LEMMA StartDmaInv ==
  ASSUME Cylinders, DriveInv(fh), StartDma \/ WaitIndex
  PROVE  DriveInv(fh')
BY AtTrackInv DEF StartDma, WaitIndex

\* flwrite() that gives up leaves the drive on its track.
LEMMA WriteProtectedInv ==
  ASSUME Cylinders, DriveInv(fh), WriteProtected
  PROVE  DriveInv(fh')
<1>1. fh.p["servant"].pc = "start" /\ fh' = Done(fh, "servant")
  BY DEF WriteProtected
<1>2. /\ fh \in States /\ OpenerTyped(fh)
      /\ ~fh.raced => Calm(fh) /\ fh.p["opener"].pc = "idle"
  BY <1>1, AtWork
<1>3. Keeps(fh', fh, {"p"}) /\ fh'.p["opener"] = fh.p["opener"] /\ fh'.p["servant"].pc = "idle"
  BY <1>1, <1>2, DoneIs, ProcsTwo
<1>4. /\ fh' \in States /\ fh'.on = fh.on /\ fh'.trk = fh.trk /\ fh'.selected = fh.selected
      /\ fh'.line = fh.line /\ fh'.side = fh.side /\ fh'.head = fh.head
      /\ fh'.strays = fh.strays /\ fh'.raced = fh.raced
  BY <1>3 DEF Keeps, Names
<1>5. Typed(fh')
  BY <1>2, <1>3, <1>4, ProcsTwo DEF Typed, OpenerTyped
<1>6. ASSUME ~fh'.raced PROVE Calm(fh')
  <2>1. Calm(fh) /\ fh.p["opener"].pc = "idle"
    BY <1>2, <1>4, <1>6
  <2>2. \A d \in Drives : HeadRight(fh', d)
    BY <1>1, <1>4, <2>1 DEF Calm, HeadRight
  <2>3. SideRight(fh')
    BY <1>4, <2>1 DEF Calm, SideRight
  <2>4. \A x \in Procs : fh'.p[x].pc = "idle"
    BY <1>3, <2>1, ProcsTwo
  <2>5. /\ fh'.line = fh'.selected /\ ~fh'.strays
        /\ fh'.selected # NoDrive => fh'.on[fh'.selected]
    BY <1>4, <2>1 DEF Calm
  <2> QED
    BY <2>2, <2>3, <2>4, <2>5, RestCalm
<1> QED
  BY <1>5, <1>6 DEF DriveInv

\* After the index fliwrite() begins again as flwrite(), on its track.
LEMMA IndexSeenInv ==
  ASSUME Cylinders, DriveInv(fh), IndexSeen
  PROVE  DriveInv(fh')
<1> DEFINE m == Goto(fh, "servant", "motor")
           k == [m.p["servant"] EXCEPT !.op = "flwrite"]
           g == PutJob(m, "servant", k)
<1>1. fh.p["servant"].pc = "index"
  BY DEF IndexSeen
<1>2. /\ fh \in States /\ fh.p["servant"].drv \in Drives /\ OpenerTyped(fh)
      /\ ~fh.raced => Calm(fh) /\ fh.p["opener"].pc = "idle"
  BY <1>1, AtWork
<1>3. fh' = Motored(g, "servant")
  BY DEF IndexSeen, PutJob
<1>4. /\ Keeps(m, fh, {"p"}) /\ m.p["opener"] = fh.p["opener"]
      /\ m.p["servant"].pc = "motor" /\ m.p["servant"].drv = fh.p["servant"].drv
  BY <1>2, GotoIs, ProcsTwo DEF Places
<1> HIDE DEF m
<1>5. m \in States /\ m.p["servant"] \in Jobs
  BY <1>4, JobOf, ProcsTwo DEF Keeps
<1>6. k \in Jobs /\ k.pc = "motor" /\ k.drv = fh.p["servant"].drv
  BY <1>4, <1>5 DEF Jobs, Operations
<1> HIDE DEF k
<1>7. Keeps(g, m, {"p"}) /\ g.p["servant"] = k /\ g.p["opener"] = fh.p["opener"]
  BY <1>4, <1>5, <1>6, PutJobIs, ProcsTwo
<1> HIDE DEF g
<1>8. /\ g \in States /\ g.on = fh.on /\ g.trk = fh.trk /\ g.selected = fh.selected
      /\ g.line = fh.line /\ g.side = fh.side /\ g.head = fh.head
      /\ g.strays = fh.strays /\ g.raced = fh.raced
  BY <1>4, <1>7 DEF Keeps, Names
<1>9. Typed(g)
  BY <1>2, <1>6, <1>7, <1>8, ProcsTwo DEF Typed, OpenerTyped
<1>10. ASSUME ~g.raced PROVE Calm(g)
  <2>1. Calm(fh) /\ fh.p["opener"].pc = "idle"
    BY <1>2, <1>8, <1>10
  <2>2. \A d \in Drives : HeadRight(g, d)
    BY <1>1, <1>8, <2>1 DEF Calm, HeadRight
  <2>3. SideRight(g) /\ Seeking(g)
    BY <1>1, <1>6, <1>7, <1>8, <2>1 DEF Calm, SideRight, Seeking
  <2>4. /\ \E x \in Procs : g.p[x].pc = "idle"
        /\ \A x \in Procs : g.p[x].pc # "spin"
    BY <1>6, <1>7, <2>1, ProcsTwo
  <2>5. /\ g.line = g.selected /\ ~g.strays
        /\ g.selected # NoDrive => g.on[g.selected]
    BY <1>8, <2>1 DEF Calm
  <2> QED
    BY <2>2, <2>3, <2>4, <2>5 DEF Calm
<1>11. DriveInv(g)
  BY <1>9, <1>10 DEF DriveInv
<1> QED
  BY <1>3, <1>6, <1>7, <1>11, MotoredInv, ProcsTwo

\* A transfer that ends is on its track, if nobody came between.
LEMMA EndDmaInv ==
  ASSUME Cylinders, DriveInv(fh), EndDma
  PROVE  DriveInv(fh')
<1> DEFINE b == fh.strays \/ ~OnTrack(fh)
           g == [fh EXCEPT !.strays = b]
<1>1. fh.p["servant"].pc = "dma" /\ fh' = Done(g, "servant")
  BY DEF EndDma
<1>2. /\ fh \in States /\ fh.p["servant"].drv \in Drives /\ fh.p["servant"].trk \in Tracks
      /\ OpenerTyped(fh) /\ NoDrive \notin Drives
      /\ ~fh.raced => Calm(fh) /\ fh.p["opener"].pc = "idle"
  BY <1>1, AtWork
<1>3. b \in BOOLEAN
  BY <1>2 DEF States, OnTrack
<1>4. ~fh.raced => ~b
  <2> SUFFICES ASSUME ~fh.raced PROVE ~b
    OBVIOUS
  <2>1. Calm(fh)
    BY <1>2
  <2>2. /\ fh.selected = fh.p["servant"].drv /\ fh.line = fh.selected
        /\ fh.trk[fh.p["servant"].drv] = fh.p["servant"].trk /\ ~fh.strays
    BY <1>1, <2>1 DEF Calm, Seeking
  <2>3. fh.p["servant"].trk # Lost
    BY <1>2, TrackPlace
  <2>4. HeadRight(fh, fh.p["servant"].drv) /\ SideRight(fh)
    BY <1>1, <1>2, <2>1 DEF Calm
  <2> QED
    BY <1>2, <2>2, <2>3, <2>4 DEF OnTrack, HeadRight, SideRight
<1> HIDE DEF b
<1>5. Keeps(g, fh, {"strays"}) /\ g.strays = b
  BY <1>2, <1>3, CountIs
<1> HIDE DEF g
<1>6. g \in States /\ g.p = fh.p
  BY <1>5 DEF Keeps, Names
<1>7. Keeps(fh', g, {"p"}) /\ fh'.p["opener"] = fh.p["opener"] /\ fh'.p["servant"].pc = "idle"
  BY <1>1, <1>6, DoneIs, ProcsTwo
<1>8. /\ fh' \in States /\ fh'.on = fh.on /\ fh'.trk = fh.trk /\ fh'.selected = fh.selected
      /\ fh'.line = fh.line /\ fh'.side = fh.side /\ fh'.head = fh.head
      /\ fh'.strays = b /\ fh'.raced = fh.raced
  BY <1>5, <1>7 DEF Keeps, Names
<1>9. Typed(fh')
  BY <1>2, <1>7, <1>8, ProcsTwo DEF Typed, OpenerTyped
<1>10. ASSUME ~fh'.raced PROVE Calm(fh')
  <2>1. Calm(fh) /\ fh.p["opener"].pc = "idle" /\ ~b
    BY <1>2, <1>4, <1>8, <1>10
  <2>2. \A d \in Drives : HeadRight(fh', d)
    BY <1>1, <1>8, <2>1 DEF Calm, HeadRight
  <2>3. SideRight(fh')
    BY <1>8, <2>1 DEF Calm, SideRight
  <2>4. \A x \in Procs : fh'.p[x].pc = "idle"
    BY <1>7, <2>1, ProcsTwo
  <2>5. fh'.line = fh'.selected /\ (fh'.selected # NoDrive => fh'.on[fh'.selected])
    BY <1>8, <2>1 DEF Calm
  <2> QED
    BY <1>8, <2>1, <2>2, <2>3, <2>4, <2>5, RestCalm
<1> QED
  BY <1>9, <1>10 DEF DriveInv

-----------------------------------------------------------------------------
(* Operations begin.                                                       *)

LEMMA BeginIs ==
  ASSUME Cylinders, NEW f \in States, NEW x \in Procs, NEW op \in Operations,
         NEW d \in Drives, NEW t \in Tracks
  PROVE  LET g == Begin(f, x, op, d, t)
         IN  /\ Keeps(g, f, {"p", "raced"}) /\ g.p[x].pc = "motor" /\ g.p[x].drv = d
             /\ \A y \in Procs : y # x => g.p[y] = f.p[y]
             /\ g.raced = (f.raced \/ f.p[Other(x)].pc # "idle")
<1> DEFINE j == [Idle EXCEPT !.pc = "motor", !.op = op, !.drv = d, !.trk = t]
           b == f.raced \/ f.p[Other(x)].pc # "idle"
           g == PutJob(f, x, j)
           r == [g EXCEPT !.raced = b]
<1>1. j \in Jobs /\ j.pc = "motor" /\ j.drv = d
  BY IdleJob DEF Jobs, Places, MaybeDrive
<1>2. b \in BOOLEAN
  BY DEF States
<1>3. Begin(f, x, op, d, t) = r
  BY DEF Begin, PutJob, States
<1> HIDE DEF j, b
<1>4. /\ Keeps(g, f, {"p"}) /\ g.p[x] = j
      /\ \A y \in Procs : y # x => g.p[y] = f.p[y]
  BY <1>1, PutJobIs
<1> HIDE DEF g
<1>5. g \in States
  BY <1>4 DEF Keeps
<1>6. Keeps(r, g, {"raced"}) /\ r.raced = b
  BY <1>2, <1>5, CountIs
<1> HIDE DEF r
<1>7. Keeps(r, f, {"p", "raced"}) /\ r.p = g.p
  BY <1>4, <1>6 DEF Keeps, Names
<1> QED
  BY <1>1, <1>3, <1>4, <1>6, <1>7 DEF b

\* A process begins: what the drives are does not change, and while nobody is
\* in its way both were at rest.
LEMMA BeginInv ==
  ASSUME Cylinders, DriveInv(fh), NEW x \in Procs, fh.p[x].pc = "idle",
         NEW op \in Operations, NEW d \in Drives, NEW t \in Tracks
  PROVE  DriveInv(Begin(fh, x, op, d, t))
<1> DEFINE g == Begin(fh, x, op, d, t)
<1>1. fh \in States /\ Typed(fh) /\ (~fh.raced => Calm(fh))
  BY DEF DriveInv, Typed
<1>2. /\ Keeps(g, fh, {"p", "raced"}) /\ g.p[x].pc = "motor" /\ g.p[x].drv = d
      /\ \A y \in Procs : y # x => g.p[y] = fh.p[y]
      /\ g.raced = (fh.raced \/ fh.p[Other(x)].pc # "idle")
  BY <1>1, BeginIs
<1> HIDE DEF g
<1>3. /\ g \in States /\ g.on = fh.on /\ g.trk = fh.trk /\ g.selected = fh.selected
      /\ g.line = fh.line /\ g.side = fh.side /\ g.head = fh.head /\ g.strays = fh.strays
  BY <1>2 DEF Keeps, Names
<1>4. Other(x) \in Procs /\ Other(x) # x /\ \A y \in Procs : y = x \/ y = Other(x)
  BY DEF Procs, Other
<1>5. Typed(g)
  BY <1>1, <1>2, <1>3, ProcsTwo DEF Typed
<1>6. ASSUME ~g.raced PROVE Calm(g)
  <2>1. Calm(fh) /\ fh.p[Other(x)].pc = "idle"
    BY <1>1, <1>2, <1>6
  <2>2. g.p[Other(x)].pc = "idle" /\ \A y \in Procs : g.p[y].pc \in {"idle", "motor"}
    BY <1>2, <1>4, <2>1
  <2>3. fh.p["servant"].pc = "idle"
    BY <1>4, <2>1, ProcsTwo
  <2>4. \A e \in Drives : HeadRight(g, e)
    BY <1>3, <2>1, <2>3 DEF Calm, HeadRight
  <2>5. SideRight(g) /\ Seeking(g)
    BY <1>3, <2>1, <2>2, ProcsTwo DEF Calm, SideRight, Seeking
  <2> QED
    BY <1>3, <1>4, <2>1, <2>2, <2>4, <2>5 DEF Calm
<1> QED
  BY <1>5, <1>6 DEF DriveInv, g

LEMMA ReadInv ==
  ASSUME Cylinders, DriveInv(fh), FlreadFlwrite
  PROVE  DriveInv(fh')
<1>1. PICK d \in Drives, t \in Tracks, op \in {"flread", "flwrite", "fliwrite"} :
        fh' = [Begin(fh, "servant", op, d, t) EXCEPT !.nops = @ + 1]
  BY DEF FlreadFlwrite
<1> DEFINE g == Begin(fh, "servant", op, d, t)
<1>2. DriveInv(g)
  BY BeginInv, ProcsTwo DEF FlreadFlwrite, Operations
<1> HIDE DEF g
<1>3. Keeps(fh', g, {"nops"})
  BY <1>1, <1>2, CountIs DEF DriveInv, Typed, g
<1>4. Keeps(fh', g, {"up", "nops", "nopens", "nfault"})
  BY <1>3 DEF Keeps, Names
<1> QED
  BY <1>2, <1>4, UnspokenInv

LEMMA OpenInv ==
  ASSUME Cylinders, DriveInv(fh), FlokFlwprot
  PROVE  DriveInv(fh')
<1>1. PICK d \in Drives : fh' = [Begin(fh, "opener", "flok", d, 0) EXCEPT !.nopens = @ + 1]
  BY DEF FlokFlwprot
<1> DEFINE g == Begin(fh, "opener", "flok", d, 0)
<1>2. DriveInv(g)
  <2>1. 0 \in Tracks
    BY DEF Cylinders, Tracks
  <2> QED
    BY <2>1, BeginInv, ProcsTwo DEF FlokFlwprot, Operations
<1> HIDE DEF g
<1>3. Keeps(fh', g, {"nopens"})
  BY <1>1, <1>2, CountIs DEF DriveInv, Typed, g
<1>4. Keeps(fh', g, {"up", "nops", "nopens", "nfault"})
  BY <1>3 DEF Keeps, Names
<1> QED
  BY <1>2, <1>4, UnspokenInv

\* flstop(): no stopped drive stays selected.
LEMMA StopInv ==
  ASSUME Cylinders, DriveInv(fh), Flstop
  PROVE  DriveInv(fh')
<1>1. PICK d \in Drives :
        fh' = [MotorOff(fh, d) EXCEPT !.nops = @ + 1,
                 !.raced = @ \/ fh.p["opener"].pc # "idle"]
  BY DEF Flstop
<1> DEFINE g == MotorOff(fh, d)
           b == g.raced \/ fh.p["opener"].pc # "idle"
           h == [g EXCEPT !.nops = @ + 1]
           r == [h EXCEPT !.raced = b]
<1>2. /\ fh \in States /\ Typed(fh) /\ (~fh.raced => Calm(fh)) /\ fh.p["servant"].pc = "idle"
  BY DEF DriveInv, Typed, Flstop
<1>3. LET stop == fh.on[d] \/ fh.selected = d
      IN  /\ Keeps(g, fh, {"on", "up", "line", "selected"})
          /\ \A e \in Drives : e # d => g.on[e] = fh.on[e]
          /\ g.selected = IF stop THEN NoDrive ELSE fh.selected
          /\ g.line = IF stop THEN NoDrive ELSE fh.line
  BY <1>2, MotorOffIs
<1> HIDE DEF g
<1>4. g \in States
  BY <1>3 DEF Keeps
<1>5. fh' = r /\ b \in BOOLEAN
  BY <1>1, <1>4 DEF g, States
<1>6. Keeps(h, g, {"nops"})
  BY <1>4, CountIs
<1> HIDE DEF h, b
<1>7. Keeps(r, h, {"raced"}) /\ r.raced = b
  <2>1. h \in States
    BY <1>6 DEF Keeps
  <2> QED
    BY <1>5, <2>1, CountIs
<1> HIDE DEF r
<1>8. /\ r \in States /\ r.on = g.on /\ r.selected = g.selected /\ r.line = g.line
      /\ r.trk = fh.trk /\ r.side = fh.side /\ r.head = fh.head
      /\ r.strays = fh.strays /\ r.p = fh.p /\ g.raced = fh.raced
  BY <1>3, <1>6, <1>7 DEF Keeps, Names
<1>9. Typed(r)
  BY <1>2, <1>8 DEF Typed
<1>10. ASSUME ~r.raced PROVE Calm(r)
  <2>1. Calm(fh) /\ fh.p["opener"].pc = "idle"
    BY <1>2, <1>7, <1>8, <1>10 DEF b
  <2>2. \A x \in Procs : r.p[x].pc = "idle"
    BY <1>2, <1>8, <2>1, ProcsTwo
  <2>3. r.line = r.selected /\ SideRight(r)
    BY <1>3, <1>8, <2>1 DEF Calm, SideRight
  <2>4. r.selected # NoDrive => r.on[r.selected]
    BY <1>2, <1>3, <1>8, <2>1 DEF Calm, States, MaybeDrive
  <2>5. (\A e \in Drives : HeadRight(r, e)) /\ ~r.strays
    BY <1>2, <1>8, <2>1 DEF Calm, HeadRight
  <2> QED
    BY <2>2, <2>3, <2>4, <2>5, RestCalm
<1> QED
  BY <1>5, <1>9, <1>10 DEF DriveInv

\* fllost(): nothing is known of the drive any more.
LEMMA LostInv ==
  ASSUME Cylinders, DriveInv(fh), Fllost
  PROVE  DriveInv(fh')
<1>1. PICK d \in Drives : fh' = [fh EXCEPT !.trk[d] = Lost, !.nops = @ + 1]
  BY DEF Fllost
<1> DEFINE ts == [fh.trk EXCEPT ![d] = Lost]
           g  == [fh EXCEPT !.trk = ts]
           r  == [g EXCEPT !.nops = @ + 1]
<1>2. /\ fh \in States /\ Typed(fh) /\ (~fh.raced => Calm(fh)) /\ fh.p["servant"].pc = "idle"
      /\ fh.trk \in [Drives -> Tracks \cup {Lost}]
  BY DEF DriveInv, Typed, Fllost, States
<1>3. fh' = r
  BY <1>1, <1>2 DEF States
<1>4. /\ ts \in [Drives -> Tracks \cup {Lost}] /\ ts[d] = Lost
      /\ \A e \in Drives : e # d => ts[e] = fh.trk[e]
  BY <1>2
<1> HIDE DEF ts
<1>5. Keeps(g, fh, {"trk"}) /\ g.trk = ts
  BY <1>2, <1>4 DEF Keeps, Names, States
<1> HIDE DEF g
<1>6. Keeps(r, g, {"nops"})
  BY <1>5, CountIs DEF Keeps
<1> HIDE DEF r
<1>7. /\ r \in States /\ r.on = fh.on /\ r.selected = fh.selected /\ r.line = fh.line
      /\ r.trk = ts /\ r.side = fh.side /\ r.head = fh.head
      /\ r.strays = fh.strays /\ r.p = fh.p /\ r.raced = fh.raced
  BY <1>5, <1>6 DEF Keeps, Names
<1>8. Typed(r)
  BY <1>2, <1>7 DEF Typed
<1>9. ASSUME ~r.raced PROVE Calm(r)
  <2>1. Calm(fh)
    BY <1>2, <1>7, <1>9
  <2>2. \A e \in Drives : HeadRight(r, e)
    BY <1>2, <1>4, <1>7, <2>1 DEF Calm, HeadRight
  <2>3. SideRight(r)
    BY <1>2, <1>4, <1>7, <2>1 DEF Calm, SideRight, States, MaybeDrive
  <2>4. Seeking(r)
    BY <1>2, <1>7 DEF Seeking
  <2> QED
    BY <1>7, <2>1, <2>2, <2>3, <2>4 DEF Calm
<1> QED
  BY <1>3, <1>8, <1>9 DEF DriveInv

-----------------------------------------------------------------------------
(* The specification.                                                      *)

LEMMA DriveInit ==
  ASSUME Cylinders, Init
  PROVE  DriveInv(fh)
<1>1. /\ \A x \in Procs : fh.p[x] = Idle
      /\ fh.line = NoDrive /\ fh.selected = NoDrive /\ ~fh.strays
      /\ \A d \in Drives : fh.trk[d] = Lost
  BY DEF Init
<1>2. fh \in States
  <2>1. [x \in Procs |-> Idle] \in [Procs -> Jobs]
    BY IdleJob
  <2>2. [d \in Drives |-> Lost] \in [Drives -> Tracks \cup {Lost}]
    OBVIOUS
  <2>3. [d \in Drives |-> NCyl - 1] \in [Drives -> 0 .. NCyl - 1]
    BY DEF Cylinders
  <2> QED
    BY <2>1, <2>2, <2>3 DEF Init, States, MaybeDrive
<1>3. Typed(fh)
  BY <1>1, <1>2, IdleJob, ProcsTwo DEF Typed
<1>4. Calm(fh)
  BY <1>1, IdleJob, RestCalm DEF SideRight, HeadRight
<1> QED
  BY <1>3, <1>4 DEF DriveInv

LEMMA DriveStep ==
  ASSUME Cylinders, DriveInv(fh), [Next]_fh
  PROVE  DriveInv(fh')
<1>1. CASE UNCHANGED fh
  BY <1>1
<1>2. CASE FlreadFlwrite
  BY <1>2, ReadInv
<1>3. CASE Flstop
  BY <1>3, StopInv
<1>4. CASE Fllost
  BY <1>4, LostInv
<1>5. CASE FlokFlwprot
  BY <1>5, OpenInv
<1>6. ASSUME NEW x \in Procs, Motor(x) \/ Ready(x) \/ GiveUp(x)
      PROVE  DriveInv(fh')
  BY <1>6, MotorInv, ReadyInv, GiveUpInv
<1>7. CASE SpinUp
  BY <1>7, SpinUpInv
<1>8. CASE Step
  BY <1>8, StepInv
<1>9. CASE RecalIn
  BY <1>9, RecalInInv
<1>10. CASE RecalOut
  BY <1>10, RecalOutInv
<1>11. CASE RecalFails
  BY <1>11, GiveUpInv, ProcsTwo
<1>12. CASE StartDma \/ WaitIndex
  BY <1>12, StartDmaInv
<1>13. CASE WriteProtected
  BY <1>13, WriteProtectedInv
<1>14. CASE IndexSeen
  BY <1>14, IndexSeenInv
<1>15. CASE EndDma
  BY <1>15, EndDmaInv
<1> QED
  BY <1>1, <1>2, <1>3, <1>4, <1>5, <1>6, <1>7, <1>8, <1>9, <1>10, <1>11, <1>12, <1>13,
     <1>14, <1>15 DEF Next

LEMMA DriveAlways ==
  ASSUME Cylinders
  PROVE  Spec => []DriveInv(fh)
<1>1. Init => DriveInv(fh)
  BY DriveInit
<1>2. DriveInv(fh) /\ [Next]_fh => DriveInv(fh)'
  BY DriveStep
<1> QED
  BY <1>1, <1>2, PTL DEF Spec

\* The drives of floph.c keep their types.
THEOREM TypeCorrect ==
  ASSUME Cylinders
  PROVE  Spec => []TypeOK
<1>1. DriveInv(fh) => TypeOK
  BY DEF DriveInv, Typed, States, TypeOK, MaybeDrive
<1> QED
  BY <1>1, DriveAlways, PTL

\* motor(), seek(), recal(), flstop() and fllost(): the head of a drive is on
\* the cylinder spindle[] notes for it whenever the servant is at rest, as long
\* as no process began while the other was at work.
THEOREM HeadKnown ==
  ASSUME Cylinders
  PROVE  Spec => []HeadWhereThought
<1>1. DriveInv(fh) => HeadWhereThought
  BY DEF DriveInv, Calm, HeadRight, HeadWhereThought
<1> QED
  BY <1>1, DriveAlways, PTL

\* flread() and flwrite(): as long as no process began while the other was at
\* work, every DMA ended on the drive, cylinder and side that was asked for.
THEOREM AloneOnTrack ==
  ASSUME Cylinders
  PROVE  Spec => []StraysOnlyWhenRaced
<1>1. DriveInv(fh) => StraysOnlyWhenRaced
  BY DEF DriveInv, Calm, StraysOnlyWhenRaced
<1> QED
  BY <1>1, DriveAlways, PTL

\* motor(): the drive the driver thinks selected is running, in the same way.
THEOREM SelectedRuns ==
  ASSUME Cylinders
  PROVE  Spec => []StoppedNotSelected
<1>1. DriveInv(fh) => StoppedNotSelected
  BY DEF DriveInv, Calm, StoppedNotSelected
<1> QED
  BY <1>1, DriveAlways, PTL
=============================================================================
