--------------------------- MODULE Scsi3091Proofs ---------------------------
(***************************************************************************)
(* Theorems of Scsi3091, for any number of disks, requests and messages.   *)
(***************************************************************************)
EXTENDS Scsi3091, SequenceTheorems, TLAPS

-----------------------------------------------------------------------------
(* The inductive invariant.                                                *)

Fields == {"istate", "startq", "cur", "dma_on", "coms", "tc0", "ss", "with", "com",
           "tc", "sac"}
IsHba(h) == h = [f \in Fields |-> h[f]]

\* The fields that say where each unit is; DMA and the counts do not.
Places == {"istate", "startq", "cur", "coms", "ss", "with", "com"}

Same(g, h, changed) == IsHba(g) /\ \A f \in Places \ changed : g[f] = h[f]

TgtFields == {"st", "cmd", "len", "moved", "saved", "detours", "midway", "check"}

Shape(h, t, b) ==
  /\ IsHba(h)
  /\ h.startq \in Seq(Units) /\ h.coms \in [Units -> Seq(Com)]
  /\ h.cur \in Units \cup {None} /\ b \in Units \cup {None}
  /\ t = [u \in Units |-> t[u]]
  /\ \A u \in Units : t[u] = [f \in TgtFields |-> t[u][f]]

\* UnitInOnePlace, of an adapter h, targets t and bus b.
In(u, s)         == \E i \in 1 .. Len(s) : s[i] = u
Distinct(s)      == \A i, j \in 1 .. Len(s) : s[i] = s[j] => i = j
Has(h, u)        == h.cur = u /\ h.istate # "IDLE"
Gone(h, t, b, u) == t[u].st = "away" \/ (b = u /\ h.ss = "reselected")

OnePlace(h, t, b) ==
  /\ Distinct(h.startq)
  /\ \A u \in Units :
       /\ (h.coms[u] # <<>>) = (In(u, h.startq) \/ Has(h, u) \/ Gone(h, t, b, u))
       /\ ~(In(u, h.startq) /\ (Has(h, u) \/ Gone(h, t, b, u)))
       /\ Has(h, u) /\ Gone(h, t, b, u) => h.ss = "disconnected"

\* What the registers of the chip say of the current unit: no command is under way
\* while an interrupt is pending; a transfer, a message or a status is of the unit
\* that has the bus; a unit that reselected has it and is not the one away.
Registers(h, t, b) ==
  /\ h.istate # "IDLE" => h.cur \in Units
  /\ h.ss # None => h.com = None
  /\ h.com = "select" => h.istate # "IDLE"
  /\ h.com \in {"transfer", "receive"} \/ h.ss \in {"save", "message", "status", "accept"}
       => b = h.cur /\ h.istate # "IDLE"
  /\ h.ss = "reselected" => h.with = b /\ b \in Units /\ t[b].st # "away"
  /\ h.ss = "disconnected" => h.istate # "IDLE" /\ t[h.cur].st = "away"

Placed(h, t, b) == OnePlace(h, t, b) /\ Registers(h, t, b)

ScsiInv ==
  /\ Shape(hba, tgt, bus)
  /\ hba.istate # "DEAD" => Placed(hba, tgt, bus) /\ NoneWaitsWhenIdle

-----------------------------------------------------------------------------
(* What the functions of a3091.c do to those fields.                       *)

LEMMA StopDmaFields ==
  ASSUME NEW h, IsHba(h)
  PROVE  Same(StopDma(h), h, {})
BY DEF IsHba, StopDma, Fields, Same, Places

LEMMA StartDmaFields ==
  ASSUME NEW h, NEW u, IsHba(h)
  PROVE  Same(StartDma(h, u), h, {})
<1> DEFINE g == [h EXCEPT !.tc = h.tc0[u]]
           a == [unit |-> u, cmd |-> Head(h.coms[u]).cmd, pos |-> Head(h.coms[u]).len - h.tc0[u]]
           k == [g EXCEPT !.dma_on = TRUE, !.sac = a]
<1>1. Same(g, h, {})
  BY DEF IsHba, Fields, Same, Places
<1>2. Same(k, g, {})
  <2>1. IsHba(g)
    BY <1>1 DEF Same
  <2> HIDE DEF g, a
  <2> QED
    BY <2>1 DEF IsHba, Fields, Same, Places
<1>3. StartDma(h, u) = g \/ StartDma(h, u) = k
  BY DEF StartDma
<1> HIDE DEF g, a, k
<1> QED
  BY <1>1, <1>2, <1>3 DEF Same

LEMMA WriteComFields ==
  ASSUME NEW h, NEW c, IsHba(h)
  PROVE  /\ Same(WriteCom(h, c), h, {"com"})
         /\ WriteCom(h, c).com = IF h.ss = None THEN c ELSE h.com
BY DEF IsHba, WriteCom, Fields, Same, Places

\* Storing into one of the fields.
LEMMA StoreFields ==
  ASSUME NEW h, NEW x, IsHba(h)
  PROVE  /\ Same([h EXCEPT !.istate = x], h, {"istate"}) /\ [h EXCEPT !.istate = x].istate = x
         /\ Same([h EXCEPT !.startq = x], h, {"startq"}) /\ [h EXCEPT !.startq = x].startq = x
         /\ Same([h EXCEPT !.coms = x], h, {"coms"}) /\ [h EXCEPT !.coms = x].coms = x
         /\ Same([h EXCEPT !.tc = x], h, {})
         /\ Same([h EXCEPT !.tc0 = x], h, {})
BY DEF IsHba, Fields, Same, Places

LEMMA StartAnyFields ==
  ASSUME NEW h, IsHba(h), h.istate = "IDLE", h.startq # <<>>
  PROVE  /\ Same(StartAny(h), h, {"istate", "startq", "cur", "com"})
         /\ StartAny(h).istate = "STARTING"
         /\ StartAny(h).startq = Tail(h.startq)
         /\ StartAny(h).cur = Head(h.startq)
         /\ StartAny(h).com = IF h.ss = None THEN "select" ELSE h.com
<1> DEFINE u == Head(h.startq)
           n == Head(h.coms[u]).len
           g == [h EXCEPT !.startq = Tail(@), !.cur = u, !.tc0[u] = n, !.istate = "STARTING"]
           k == StartDma(g, u)
<1>1. StartAny(h) = WriteCom(k, "select")
  BY DEF StartAny
<1>2. /\ Same(g, h, {"istate", "startq", "cur"})
      /\ g.istate = "STARTING" /\ g.startq = Tail(h.startq) /\ g.cur = u
  <2> HIDE DEF u, n
  <2> QED
    BY DEF IsHba, Fields, Same, Places
<1> HIDE DEF g
<1>3. Same(k, g, {})
  BY <1>2, StartDmaFields DEF Same
<1> HIDE DEF k
<1>4. /\ Same(WriteCom(k, "select"), k, {"com"})
      /\ WriteCom(k, "select").com = IF k.ss = None THEN "select" ELSE k.com
  BY <1>3, WriteComFields DEF Same
<1> QED
  BY <1>1, <1>2, <1>3, <1>4 DEF Same, Places

\* uqueue() while a unit is being served.
LEMMA UQueueFields ==
  ASSUME NEW h, NEW u \in Units, IsHba(h), h.startq \in Seq(Units), h.istate # "IDLE"
  PROVE  Same(UQueue(h, u), h, {"startq"}) /\ UQueue(h, u).startq = Append(h.startq, u)
<1> DEFINE g == [h EXCEPT !.startq = Append(@, u)]
           k == [h EXCEPT !.startq = <<u>>]
<1>1. Same(g, h, {"startq"}) /\ g.startq = Append(h.startq, u)
  BY DEF IsHba, Fields, Same, Places
<1>2. Same(k, h, {"startq"}) /\ k.startq = <<u>>
  BY StoreFields
<1>3. StartAny(k) = k
  BY <1>2 DEF StartAny, Same, Places
<1>4. h.startq = <<>> => Append(h.startq, u) = <<u>>
  OBVIOUS
<1>5. UQueue(h, u) = IF h.startq # <<>> THEN g ELSE StartAny(k)
  BY DEF UQueue
<1> HIDE DEF g, k
<1> QED
  BY <1>1, <1>2, <1>3, <1>4, <1>5

-----------------------------------------------------------------------------
(* The queue of units that wait to start.                                  *)

LEMMA AppendUnit ==
  ASSUME NEW s \in Seq(Units), NEW u \in Units
  PROVE  /\ Append(s, u) \in Seq(Units)
         /\ \A x \in Units : In(x, Append(s, u)) <=> In(x, s) \/ x = u
         /\ Distinct(s) /\ ~In(u, s) => Distinct(Append(s, u))
<1>1. /\ Append(s, u) \in Seq(Units) /\ Len(s) \in Nat /\ Len(Append(s, u)) = Len(s) + 1
      /\ Append(s, u)[Len(s) + 1] = u
      /\ \A i \in 1 .. Len(s) : Append(s, u)[i] = s[i]
  BY AppendProperties, LenProperties
<1>2. \A x \in Units : In(x, Append(s, u)) <=> In(x, s) \/ x = u
  BY <1>1 DEF In
<1>3. ASSUME Distinct(s), ~In(u, s) PROVE Distinct(Append(s, u))
  BY <1>1, <1>3 DEF Distinct, In
<1> QED
  BY <1>1, <1>2, <1>3

LEMMA TailUnits ==
  ASSUME NEW s \in Seq(Units), s # <<>>, Distinct(s)
  PROVE  /\ Tail(s) \in Seq(Units) /\ Head(s) \in Units /\ In(Head(s), s)
         /\ \A x \in Units : In(x, Tail(s)) <=> In(x, s) /\ x # Head(s)
         /\ Distinct(Tail(s))
<1>1. /\ Tail(s) \in Seq(Units) /\ Head(s) \in Units /\ Head(s) = s[1]
      /\ Len(s) \in Nat \ {0} /\ Len(Tail(s)) = Len(s) - 1
      /\ \A i \in 1 .. Len(s) - 1 : Tail(s)[i] = s[i + 1]
  BY HeadTailProperties, LenProperties, EmptySeq
<1>2. In(Head(s), s)
  BY <1>1 DEF In
<1>3. ASSUME NEW x \in Units, In(x, s), x # Head(s) PROVE In(x, Tail(s))
  <2>1. PICK i \in 1 .. Len(s) : s[i] = x
    BY <1>3 DEF In
  <2>2. i - 1 \in 1 .. Len(s) - 1 /\ Tail(s)[i - 1] = x
    BY <1>1, <1>3, <2>1
  <2> QED
    BY <1>1, <2>2 DEF In
<1>4. ASSUME NEW x \in Units, In(x, Tail(s)) PROVE In(x, s) /\ x # Head(s)
  <2>1. PICK i \in 1 .. Len(s) - 1 : s[i + 1] = x
    BY <1>1, <1>4 DEF In
  <2>2. i + 1 \in 1 .. Len(s) /\ i + 1 # 1 /\ 1 \in 1 .. Len(s)
    BY <1>1
  <2> QED
    BY <1>1, <2>1, <2>2 DEF In, Distinct
<1>5. Distinct(Tail(s))
  <2> SUFFICES ASSUME NEW i \in 1 .. Len(s) - 1, NEW j \in 1 .. Len(s) - 1, s[i + 1] = s[j + 1]
               PROVE  i = j
    BY <1>1 DEF Distinct
  <2>1. i + 1 \in 1 .. Len(s) /\ j + 1 \in 1 .. Len(s)
    BY <1>1
  <2> QED
    BY <1>1, <2>1 DEF Distinct
<1> QED
  BY <1>1, <1>2, <1>3, <1>4, <1>5

\* startany() on an idle adapter: the first unit that waits gets the bus.
LEMMA StartAnyPlaced ==
  ASSUME NEW h, NEW t, NEW b, Shape(h, t, b), Placed(h, t, b), h.istate = "IDLE"
  PROVE  /\ Shape(StartAny(h), t, b) /\ Placed(StartAny(h), t, b)
         /\ StartAny(h).istate = "IDLE" => StartAny(h).startq = <<>>
<1>1. CASE h.startq = <<>>
  <2>1. StartAny(h) = h
    BY <1>1 DEF StartAny
  <2> QED
    BY <1>1, <2>1
<1>2. CASE h.startq # <<>>
  <2> DEFINE k == StartAny(h)
             w == Head(h.startq)
  <2>1. /\ IsHba(k) /\ k.coms = h.coms /\ k.ss = h.ss /\ k.with = h.with
        /\ k.istate = "STARTING" /\ k.startq = Tail(h.startq) /\ k.cur = w
        /\ k.com = IF h.ss = None THEN "select" ELSE h.com
    <3>1. IsHba(h)
      BY DEF Shape
    <3>2. /\ Same(k, h, {"istate", "startq", "cur", "com"})
          /\ k.istate = "STARTING" /\ k.startq = Tail(h.startq) /\ k.cur = w
          /\ k.com = IF h.ss = None THEN "select" ELSE h.com
      BY <1>2, <3>1, StartAnyFields
    <3> HIDE DEF k, w
    <3> QED
      BY <3>2 DEF Same, Places
  <2>2. /\ k.startq \in Seq(Units) /\ w \in Units /\ In(w, h.startq)
        /\ \A x \in Units : In(x, k.startq) <=> In(x, h.startq) /\ x # w
        /\ Distinct(k.startq)
    <3>1. h.startq \in Seq(Units) /\ Distinct(h.startq)
      BY DEF Shape, Placed, OnePlace
    <3> QED
      BY <1>2, <2>1, <3>1, TailUnits
  <2> HIDE DEF k, w
  <2>3. Shape(k, t, b)
    BY <2>1, <2>2 DEF Shape
  <2>4. OnePlace(k, t, b)
    BY <2>1, <2>2 DEF Placed, OnePlace, Has, Gone
  <2>5. Registers(k, t, b)
    BY <2>1, <2>2 DEF Placed, Registers
  <2> QED
    BY <2>1, <2>3, <2>4, <2>5 DEF k, Placed
<1> QED
  BY <1>1, <1>2
-----------------------------------------------------------------------------
(* Commands that begin and end.                                            *)

\* The first command of the unit being served is taken off: with another to come
\* the unit waits to start again.
LEMMA DequeueFields ==
  ASSUME NEW h, NEW u \in Units, IsHba(h), h.startq \in Seq(Units), h.istate # "IDLE",
         h.coms \in [Units -> Seq(Com)], h.coms[u] # <<>>
  PROVE  /\ Same(Dequeue(h, u), h, {"coms", "startq"})
         /\ Dequeue(h, u).coms \in [Units -> Seq(Com)]
         /\ \A v \in Units : v # u => Dequeue(h, u).coms[v] = h.coms[v]
         /\ Dequeue(h, u).startq = IF Dequeue(h, u).coms[u] # <<>> THEN Append(h.startq, u)
                                                                ELSE h.startq
<1> DEFINE c == [h.coms EXCEPT ![u] = Tail(@)]
           g == [h EXCEPT !.coms[u] = Tail(@)]
<1>1. Tail(h.coms[u]) \in Seq(Com)
  BY HeadTailProperties
<1>2. c \in [Units -> Seq(Com)] /\ \A v \in Units : v # u => c[v] = h.coms[v]
  BY <1>1
<1>3. Same(g, h, {"coms"}) /\ g.coms = c
  BY DEF IsHba, Fields, Same, Places
<1>4. Dequeue(h, u) = IF g.coms[u] # <<>> THEN UQueue(g, u) ELSE g
  BY DEF Dequeue
<1> HIDE DEF c, g
<1>5. IsHba(g) /\ g.startq = h.startq /\ g.istate = h.istate
  BY <1>3 DEF Same, Places
<1>6. Same(UQueue(g, u), g, {"startq"}) /\ UQueue(g, u).startq = Append(g.startq, u)
  BY <1>5, UQueueFields
<1>7. CASE g.coms[u] # <<>>
  BY <1>2, <1>3, <1>4, <1>5, <1>6, <1>7 DEF Same, Places
<1>8. CASE g.coms[u] = <<>>
  BY <1>2, <1>3, <1>4, <1>5, <1>8 DEF Same, Places
<1> QED
  BY <1>7, <1>8

Queued(h, u, cp) == [h.coms EXCEPT ![u] = Append(@, cp)]

\* A command for a unit, while some unit is being served: the unit waits to start
\* unless another command of its own is ahead.
LEMMA QueueFields ==
  ASSUME NEW h, NEW u \in Units, NEW cp \in Com, IsHba(h), h.startq \in Seq(Units),
         h.istate # "IDLE", h.coms \in [Units -> Seq(Com)]
  PROVE  /\ Same(Queue(h, u, cp), h, {"coms", "startq"})
         /\ Queue(h, u, cp).coms = Queued(h, u, cp)
         /\ Queue(h, u, cp).startq = IF h.coms[u] # <<>> THEN h.startq ELSE Append(h.startq, u)
<1> DEFINE g == [h EXCEPT !.coms[u] = Append(@, cp)]
<1>3. Same(g, h, {"coms"}) /\ g.coms = Queued(h, u, cp)
  BY DEF IsHba, Fields, Same, Places, Queued
<1>4. Queue(h, u, cp) = IF h.coms[u] # <<>> THEN g ELSE UQueue(g, u)
  BY DEF Queue
<1> HIDE DEF g
<1>5. IsHba(g) /\ g.startq = h.startq /\ g.istate = h.istate
  BY <1>3 DEF Same, Places
<1>6. Same(UQueue(g, u), g, {"startq"}) /\ UQueue(g, u).startq = Append(g.startq, u)
  BY <1>5, UQueueFields
<1>7. CASE h.coms[u] # <<>>
  BY <1>3, <1>4, <1>5, <1>7 DEF Same, Places
<1>8. CASE h.coms[u] = <<>>
  BY <1>3, <1>4, <1>5, <1>6, <1>8 DEF Same, Places
<1> QED
  BY <1>7, <1>8

\* a3091intr() takes the status out of SS.
LEMMA ServedFields ==
  ASSUME IsHba(hba)
  PROVE  /\ Same(Served, hba, {"ss", "with"}) /\ Served.ss = None
         /\ Same(StopDma(Served), hba, {"ss", "with"}) /\ StopDma(Served).ss = None
<1>1. Same(Served, hba, {"ss", "with"}) /\ Served.ss = None
  BY DEF IsHba, Fields, Served, Same, Places
<1>2. Same(StopDma(Served), Served, {})
  BY <1>1, StopDmaFields DEF Same
<1> QED
  BY <1>1, <1>2 DEF Same, Places

\* What ihandle() queues next.
LEMMA HandleNext ==
  ASSUME NEW d, NEW okay, NEW good, IHandle(d, okay, good).next # <<>>
  PROVE  Head(IHandle(d, okay, good).next) \in Com
BY DEF IHandle, Com

\* The adapter at the end of a command, before startany().
Ended(okay, good) ==
  LET u == hba.cur
      r == IHandle(dd[u], okay, good)
      g == Dequeue(StopDma(Served), u)
      h == IF r.next # <<>> THEN Queue(g, u, Head(r.next)) ELSE g
  IN  [h EXCEPT !.istate = "IDLE"]

\* The command of the unit being served ends: the unit waits again or has none.
LEMMA EndIdle ==
  ASSUME ScsiInv, NEW okay, NEW good,
         hba.istate \notin {"IDLE", "DEAD"}, hba.ss \in {"complete", "no device"}
  PROVE  LET k == Ended(okay, good)
         IN  /\ Shape(k, tgt, bus) /\ Placed(k, tgt, bus)
             /\ k.istate = "IDLE" /\ k.ss = None /\ k.com = None
<1> DEFINE u == hba.cur
           s == StopDma(Served)
           r == IHandle(dd[u], okay, good)
           g == Dequeue(s, u)
           nx == IF r.next # <<>> THEN Queue(g, u, Head(r.next)) ELSE g
           k == [nx EXCEPT !.istate = "IDLE"]
<1>0. Ended(okay, good) = k
  BY DEF Ended
<1>1. Shape(hba, tgt, bus) /\ OnePlace(hba, tgt, bus) /\ Registers(hba, tgt, bus)
  BY DEF ScsiInv, Placed
<1>2. IsHba(s) /\ s.ss = None /\ s.startq = hba.startq /\ s.istate = hba.istate
      /\ s.cur = hba.cur /\ s.coms = hba.coms /\ s.com = hba.com
  BY <1>1, ServedFields DEF Shape, Same, Places
<1>3. u \in Units /\ hba.com = None /\ None # "no device" /\ None # "complete"
  BY <1>1 DEF Registers, None
<1>4. hba.coms[u] # <<>> /\ ~In(u, hba.startq) /\ ~Gone(hba, tgt, bus, u)
  BY <1>1, <1>3 DEF OnePlace, Has
<1> HIDE DEF u, s
<1>5. /\ Same(g, s, {"coms", "startq"}) /\ g.coms \in [Units -> Seq(Com)]
      /\ \A v \in Units : v # u => g.coms[v] = hba.coms[v]
      /\ g.startq = IF g.coms[u] # <<>> THEN Append(hba.startq, u) ELSE hba.startq
  <2>1. /\ s.startq \in Seq(Units) /\ s.istate # "IDLE" /\ s.coms \in [Units -> Seq(Com)]
        /\ s.coms[u] # <<>>
    BY <1>1, <1>2, <1>4 DEF Shape
  <2>2. /\ Same(g, s, {"coms", "startq"}) /\ g.coms \in [Units -> Seq(Com)]
        /\ \A v \in Units : v # u => g.coms[v] = s.coms[v]
        /\ g.startq = IF g.coms[u] # <<>> THEN Append(s.startq, u) ELSE s.startq
    BY <1>2, <1>3, <2>1, DequeueFields
  <2> HIDE DEF g
  <2> QED
    BY <1>2, <2>2
<1> HIDE DEF g
<1>6. Append(hba.startq, u) \in Seq(Units)
  BY <1>1, <1>3, AppendUnit DEF Shape
<1>7. /\ Same(nx, g, {"coms", "startq"}) /\ nx.coms \in [Units -> Seq(Com)]
      /\ \A v \in Units : v # u => nx.coms[v] = hba.coms[v]
      /\ nx.startq = IF nx.coms[u] # <<>> THEN Append(hba.startq, u) ELSE hba.startq
  <2>1. CASE r.next = <<>>
    BY <1>5, <2>1 DEF Same
  <2>2. CASE r.next # <<>>
    <3>1. Head(r.next) \in Com
      BY <2>2, HandleNext
    <3>2. IsHba(g) /\ g.istate # "IDLE" /\ g.startq \in Seq(Units)
      BY <1>1, <1>2, <1>5, <1>6 DEF Same, Places, Shape
    <3> HIDE DEF r
    <3>3. PICK c0 \in Com : nx = Queue(g, u, c0)
      BY <2>2, <3>1
    <3> HIDE DEF nx
    <3>4. g.coms \in [Units -> Seq(Com)]
      BY <1>5
    <3>5. u \in Units
      BY <1>3
    <3>6. /\ Same(nx, g, {"coms", "startq"})
          /\ nx.coms = Queued(g, u, c0)
          /\ nx.startq = IF g.coms[u] # <<>> THEN g.startq ELSE Append(g.startq, u)
      <4>1. Same(nx, g, {"coms", "startq"})
        BY <3>2, <3>3, <3>4, <3>5, QueueFields
      <4>2. nx.coms = Queued(g, u, c0)
        BY <3>2, <3>3, <3>4, <3>5, QueueFields
      <4>3. nx.startq = IF g.coms[u] # <<>> THEN g.startq ELSE Append(g.startq, u)
        BY <3>2, <3>3, <3>4, <3>5, QueueFields
      <4> QED
        BY <4>1, <4>2, <4>3
    <3>7. Append(g.coms[u], c0) \in Seq(Com) /\ Append(g.coms[u], c0) # <<>>
      <4>1. g.coms[u] \in Seq(Com)
        BY <3>4, <3>5
      <4>2. Append(g.coms[u], c0) \in Seq(Com)
        BY <4>1, AppendProperties
      <4>3. Append(g.coms[u], c0) # <<>>
        BY <4>1, AppendProperties
      <4> QED
        BY <4>2, <4>3
    <3>8. /\ nx.coms \in [Units -> Seq(Com)] /\ nx.coms[u] # <<>>
          /\ \A v \in Units : v # u => nx.coms[v] = g.coms[v]
      BY <3>4, <3>5, <3>6, <3>7 DEF Queued
    <3> QED
      BY <1>5, <3>6, <3>8
  <2> QED
    BY <2>1, <2>2
<1> HIDE DEF nx
<1>8. Same(k, nx, {"istate"}) /\ k.istate = "IDLE"
  <2>1. IsHba(nx)
    BY <1>7 DEF Same
  <2> QED
    BY <2>1, StoreFields
<1> HIDE DEF k
<1>9. /\ IsHba(k) /\ k.istate = "IDLE" /\ k.ss = None /\ k.com = None /\ k.cur = hba.cur
      /\ k.coms = nx.coms /\ k.startq = nx.startq
  BY <1>2, <1>3, <1>5, <1>7, <1>8 DEF Same, Places
<1>10. Shape(k, tgt, bus)
  BY <1>1, <1>6, <1>7, <1>9 DEF Shape
<1>11. /\ Distinct(k.startq)
       /\ \A x \in Units : In(x, k.startq) <=> In(x, hba.startq) \/ (x = u /\ k.coms[u] # <<>>)
  <2>1. hba.startq \in Seq(Units) /\ Distinct(hba.startq)
    BY <1>1 DEF Shape, OnePlace
  <2>2. /\ \A x \in Units : In(x, Append(hba.startq, u)) <=> In(x, hba.startq) \/ x = u
        /\ Distinct(Append(hba.startq, u))
    BY <1>3, <1>4, <2>1, AppendUnit
  <2>3. k.startq = IF k.coms[u] # <<>> THEN Append(hba.startq, u) ELSE hba.startq
    BY <1>7, <1>9
  <2> QED
    BY <2>1, <2>2, <2>3
<1>12. OnePlace(k, tgt, bus)
  BY <1>1, <1>3, <1>4, <1>7, <1>9, <1>11 DEF OnePlace, Has, Gone, u, None
<1>13. Registers(k, tgt, bus)
  BY <1>9 DEF Registers, None
<1> QED
  BY <1>0, <1>9, <1>10, <1>12, <1>13 DEF Placed

LEMMA EndPlaced ==
  ASSUME ScsiInv, NEW okay, NEW good, EndCommand(okay, good),
         hba.istate \notin {"IDLE", "DEAD"}, hba.ss \in {"complete", "no device"}
  PROVE  ScsiInv'
<1> DEFINE k == Ended(okay, good)
<1>1. hba' = StartAny(k) /\ bus' = bus /\ tgt' = tgt
  BY DEF EndCommand, Ended
<1>2. Shape(k, tgt, bus) /\ Placed(k, tgt, bus) /\ k.istate = "IDLE"
  BY EndIdle
<1> HIDE DEF k
<1>3. /\ Shape(StartAny(k), tgt, bus) /\ Placed(StartAny(k), tgt, bus)
      /\ StartAny(k).istate = "IDLE" => StartAny(k).startq = <<>>
  BY <1>2, StartAnyPlaced
<1> QED
  BY <1>1, <1>3 DEF ScsiInv, NoneWaitsWhenIdle
-----------------------------------------------------------------------------
(* a3091intr().                                                            *)

\* The unit that reselected goes on, unless it has no command.
LEMMA ResumeFields ==
  ASSUME NEW h, IsHba(h), h.ss = None
  PROVE  \/ Same(ResumeUnit(h), h, {"istate"}) /\ ResumeUnit(h).istate = "DEAD"
         \/ /\ Same(ResumeUnit(h), h, {"istate", "cur", "com"})
            /\ ResumeUnit(h).istate = "RESUMING" /\ ResumeUnit(h).cur = hba.with
            /\ ResumeUnit(h).com = "transfer"
<1> DEFINE u == hba.with
           d == StartDma(h, u)
           g == [d EXCEPT !.cur = u, !.istate = "RESUMING"]
<1>1. CASE h.coms[u] = <<>>
  BY <1>1, StoreFields DEF ResumeUnit
<1>2. CASE h.coms[u] # <<>>
  <2>1. ResumeUnit(h) = WriteCom(g, "transfer")
    BY <1>2 DEF ResumeUnit
  <2>2. Same(d, h, {})
    BY StartDmaFields
  <2> HIDE DEF d, u
  <2>3. Same(g, d, {"istate", "cur"}) /\ g.istate = "RESUMING" /\ g.cur = u
    BY <2>2 DEF IsHba, Fields, Same, Places
  <2> HIDE DEF g
  <2>4. /\ Same(WriteCom(g, "transfer"), g, {"com"})
        /\ WriteCom(g, "transfer").com = IF g.ss = None THEN "transfer" ELSE g.com
    BY <2>3, WriteComFields DEF Same
  <2> QED
    BY <2>1, <2>2, <2>3, <2>4 DEF Same, Places, u
<1> QED
  BY <1>1, <1>2

\* The adapter gives up.
LEMMA DeadPlaced ==
  ASSUME ScsiInv, UNCHANGED <<tgt, bus>>, Same(hba', hba, {"istate", "ss", "with", "com"}),
         hba'.istate = "DEAD"
  PROVE  ScsiInv'
BY DEF ScsiInv, Shape, Same, Places

LEMMA ResumeStep ==
  ASSUME ScsiInv, Resume
  PROVE  ScsiInv'
<1>1. hba.istate = "IDLE" /\ hba.ss = "reselected" /\ hba' = ResumeUnit(Served)
      /\ UNCHANGED <<tgt, bus>>
  <2>1. DfaAction(hba.istate, hba.ss) = "resume"
    BY DEF Resume, Intr
  <2>2. hba.istate = "IDLE" /\ hba.ss = "reselected"
    BY <2>1 DEF DfaAction
  <2>3. hba' = ResumeUnit(Served) /\ UNCHANGED <<tgt, bus>>
    BY DEF Resume, Adapter
  <2> QED
    BY <2>2, <2>3
<1>2. Shape(hba, tgt, bus) /\ OnePlace(hba, tgt, bus) /\ Registers(hba, tgt, bus)
  BY <1>1 DEF ScsiInv, Placed
<1>3. Same(Served, hba, {"ss", "with"}) /\ Served.ss = None /\ IsHba(Served)
  BY <1>2, ServedFields DEF Shape, Same
<1>4. \/ Same(hba', Served, {"istate"}) /\ hba'.istate = "DEAD"
      \/ /\ Same(hba', Served, {"istate", "cur", "com"}) /\ hba'.istate = "RESUMING"
         /\ hba'.cur = hba.with /\ hba'.com = "transfer"
  BY <1>1, <1>3, ResumeFields
<1>5. CASE hba'.istate = "DEAD"
  BY <1>1, <1>2, <1>3, <1>4, <1>5 DEF ScsiInv, Shape, Same, Places
<1>6. CASE hba'.istate # "DEAD"
  <2>1. /\ IsHba(hba') /\ hba'.startq = hba.startq /\ hba'.coms = hba.coms /\ hba'.ss = None
        /\ hba'.istate = "RESUMING" /\ hba'.cur = hba.with /\ hba'.com = "transfer"
    BY <1>3, <1>4, <1>6 DEF Same, Places
  <2>2. hba.with = bus /\ bus \in Units /\ tgt[bus].st # "away"
    BY <1>1, <1>2 DEF Registers
  <2>3. Shape(hba', tgt, bus)
    BY <1>2, <2>1, <2>2 DEF Shape
  <2>4. OnePlace(hba', tgt, bus)
    BY <1>1, <1>2, <2>1, <2>2 DEF OnePlace, Has, Gone, None
  <2>5. Registers(hba', tgt, bus)
    BY <2>1, <2>2 DEF Registers, None
  <2> QED
    BY <1>1, <2>1, <2>3, <2>4, <2>5 DEF ScsiInv, Placed, NoneWaitsWhenIdle
<1> QED
  BY <1>5, <1>6

LEMMA RequeueStep ==
  ASSUME ScsiInv, Requeue
  PROVE  ScsiInv'
<1> DEFINE v == hba.cur
           s == StopDma(Served)
           g == UQueue(s, v)
<1>1. hba.istate = "STARTING" /\ hba.ss = "reselected" /\ hba' = ResumeUnit(g)
      /\ UNCHANGED <<tgt, bus>>
  BY DEF Requeue, Intr, Adapter, DfaAction
<1>2. Shape(hba, tgt, bus) /\ OnePlace(hba, tgt, bus) /\ Registers(hba, tgt, bus)
  BY <1>1 DEF ScsiInv, Placed
<1>3. /\ IsHba(s) /\ s.ss = None /\ s.startq = hba.startq /\ s.istate = "STARTING"
      /\ s.coms = hba.coms /\ s.com = hba.com
  BY <1>1, <1>2, ServedFields DEF Shape, Same, Places
<1>4. v \in Units /\ hba.with = bus /\ bus \in Units /\ tgt[bus].st # "away"
  BY <1>1, <1>2 DEF Registers
<1>5. Has(hba, v) /\ ~Gone(hba, tgt, bus, v) /\ ~In(v, hba.startq) /\ bus # v
  BY <1>1, <1>2, <1>4 DEF OnePlace, Has, Gone
<1> HIDE DEF s, v
<1>6. Same(g, s, {"startq"}) /\ g.startq = Append(s.startq, v)
  <2>1. s.startq \in Seq(Units) /\ s.istate # "IDLE"
    BY <1>2, <1>3 DEF Shape
  <2> QED
    BY <1>3, <1>4, <2>1, UQueueFields
<1> HIDE DEF g
<1>7. /\ Append(hba.startq, v) \in Seq(Units)
      /\ \A x \in Units : In(x, Append(hba.startq, v)) <=> In(x, hba.startq) \/ x = v
      /\ Distinct(Append(hba.startq, v))
  <2>1. hba.startq \in Seq(Units) /\ Distinct(hba.startq)
    BY <1>2 DEF Shape, OnePlace
  <2> QED
    BY <1>4, <1>5, <2>1, AppendUnit
<1>8. /\ IsHba(g) /\ g.ss = None /\ g.startq = Append(hba.startq, v) /\ g.coms = hba.coms
      /\ g.cur = s.cur /\ s.cur = hba.cur
  BY <1>2, <1>3, <1>6, ServedFields DEF Same, Places, s, Shape
<1>9. \/ Same(hba', g, {"istate"}) /\ hba'.istate = "DEAD"
      \/ /\ Same(hba', g, {"istate", "cur", "com"}) /\ hba'.istate = "RESUMING"
         /\ hba'.cur = hba.with /\ hba'.com = "transfer"
  BY <1>1, <1>8, ResumeFields
<1>10. CASE hba'.istate = "DEAD"
  <2>1. IsHba(hba') /\ hba'.startq = g.startq /\ hba'.coms = g.coms /\ hba'.cur = g.cur
    BY <1>9, <1>10 DEF Same, Places
  <2> QED
    BY <1>1, <1>2, <1>7, <1>8, <1>10, <2>1 DEF ScsiInv, Shape
<1>11. CASE hba'.istate # "DEAD"
  <2>1. /\ IsHba(hba') /\ hba'.startq = Append(hba.startq, v) /\ hba'.coms = hba.coms
        /\ hba'.ss = None /\ hba'.istate = "RESUMING" /\ hba'.cur = bus /\ hba'.com = "transfer"
    BY <1>4, <1>8, <1>9, <1>11 DEF Same, Places
  <2>2. Shape(hba', tgt, bus)
    BY <1>2, <1>7, <2>1 DEF Shape
  <2>3. OnePlace(hba', tgt, bus)
    BY <1>1, <1>2, <1>4, <1>5, <1>7, <2>1 DEF OnePlace, Has, Gone, None, v
  <2>4. Registers(hba', tgt, bus)
    BY <1>4, <2>1 DEF Registers, None
  <2> QED
    BY <1>1, <2>1, <2>2, <2>3, <2>4 DEF ScsiInv, Placed, NoneWaitsWhenIdle
<1> QED
  BY <1>10, <1>11
\* The actions that go on with the unit being served.
LEMMA GoesOn ==
  ASSUME ScsiInv, hba.istate \notin {"IDLE", "DEAD"}, UNCHANGED <<tgt, bus>>,
         hba.ss \in {"save", "message", "status", "accept"},
         IsHba(hba'), hba'.startq = hba.startq, hba'.coms = hba.coms, hba'.cur = hba.cur,
         hba'.ss = None, hba'.istate # "IDLE"
  PROVE  ScsiInv'
<1>1. Shape(hba, tgt, bus) /\ OnePlace(hba, tgt, bus) /\ Registers(hba, tgt, bus)
  BY DEF ScsiInv, Placed
<1>2. bus = hba.cur /\ hba.cur \in Units
  BY <1>1 DEF Registers
<1>3. Shape(hba', tgt, bus)
  BY <1>1 DEF Shape
<1>4. OnePlace(hba', tgt, bus)
  BY <1>1, <1>2 DEF OnePlace, Has, Gone, None
<1>5. Registers(hba', tgt, bus)
  BY <1>2 DEF Registers, None
<1> QED
  BY <1>3, <1>4, <1>5 DEF ScsiInv, Placed, NoneWaitsWhenIdle

\* The adapter with another state, TC or saved count, and no status pending.
Going(h) ==
  /\ IsHba(h) /\ h.startq = hba.startq /\ h.coms = hba.coms /\ h.cur = hba.cur
  /\ h.ss = None /\ h.istate # "IDLE"

LEMMA GoFields ==
  ASSUME NEW h, NEW c, Going(h)
  PROVE  Going(WriteCom(h, c))
<1>1. /\ Same(WriteCom(h, c), h, {"com"})
  BY WriteComFields DEF Going
<1> HIDE DEF Going
<1> QED
  BY <1>1 DEF Same, Places, Going

LEMMA SaveStep ==
  ASSUME ScsiInv, SavePointers \/ ReadMessage \/ RestorePointers \/ AwaitEnd
  PROVE  ScsiInv'
<1>1. UNCHANGED <<tgt, bus>>
  BY DEF SavePointers, ReadMessage, RestorePointers, AwaitEnd, Adapter
<1>2. DfaAction(hba.istate, hba.ss) \in {"save", "read", "restore", "end"}
  BY DEF SavePointers, ReadMessage, RestorePointers, AwaitEnd, Intr
<1>3. /\ hba.istate \notin {"IDLE", "DEAD"}
      /\ hba.ss \in {"save", "message", "status", "accept"}
  BY <1>2 DEF DfaAction
<1>4. Same(Served, hba, {"ss", "with"}) /\ Served.ss = None
  BY ServedFields DEF ScsiInv, Shape
<1>5. ASSUME NEW n, NEW x, x # "IDLE"
      PROVE  /\ Going([Served EXCEPT !.istate = x])
             /\ Going([Served EXCEPT !.tc = n, !.istate = x])
             /\ Going([Served EXCEPT !.tc0[hba.cur] = n, !.istate = x])
  <2> DEFINE s == Served
  <2>1. Same(s, hba, {"ss", "with"}) /\ s.ss = None
    BY <1>4
  <2> HIDE DEF s
  <2>2. /\ Going([s EXCEPT !.istate = x])
        /\ Going([s EXCEPT !.tc = n, !.istate = x])
        /\ Going([s EXCEPT !.tc0[hba.cur] = n, !.istate = x])
    BY <1>5, <2>1 DEF Going, IsHba, Fields, Same, Places
  <2> QED
    BY <2>2 DEF s
<1>6. \E h, c : Going(h) /\ hba' = WriteCom(h, c)
  <2>1. CASE SavePointers
    BY <1>5, <2>1 DEF SavePointers, Adapter
  <2>2. CASE ReadMessage
    <3>1. \E x \in {"MESSAGING", "DEAD"} : hba' = WriteCom([Served EXCEPT !.istate = x], "receive")
      BY <2>2 DEF ReadMessage, Adapter
    <3> QED
      BY <1>5, <3>1
  <2>3. CASE RestorePointers
    BY <1>5, <2>3 DEF RestorePointers, Adapter
  <2>4. CASE AwaitEnd
    BY <1>5, <2>4 DEF AwaitEnd, Adapter
  <2> QED
    BY <2>1, <2>2, <2>3, <2>4
<1>7. Going(hba')
  BY <1>6, GoFields
<1> QED
  BY <1>1, <1>3, <1>7, GoesOn DEF Going

LEMMA DeadStep ==
  ASSUME ScsiInv, Dead
  PROVE  ScsiInv'
<1> DEFINE g == [Served EXCEPT !.istate = "DEAD"]
<1>1. hba' = g /\ UNCHANGED <<tgt, bus>>
  BY DEF Dead, Adapter
<1>2. Same(Served, hba, {"ss", "with"})
  BY ServedFields DEF ScsiInv, Shape
<1>3. Same(g, Served, {"istate"}) /\ g.istate = "DEAD"
  <2>1. IsHba(Served)
    BY <1>2 DEF Same
  <2> QED
    BY <2>1, StoreFields
<1> HIDE DEF g
<1>4. Same(hba', hba, {"istate", "ss", "with", "com"}) /\ hba'.istate = "DEAD"
  BY <1>1, <1>2, <1>3 DEF Same, Places
<1> QED
  BY <1>1, <1>4, DeadPlaced

\* The unit being served gives up the bus, to come back later.
LEMMA DisconnectedStep ==
  ASSUME ScsiInv, Disconnected
  PROVE  ScsiInv'
<1> DEFINE s == StopDma(Served)
           k == [s EXCEPT !.istate = "IDLE"]
<1>1. hba' = StartAny(k) /\ UNCHANGED <<tgt, bus>>
  BY DEF Disconnected, Adapter
<1>2. hba.istate \notin {"IDLE", "DEAD"} /\ hba.ss = "disconnected"
  <2>1. DfaAction(hba.istate, hba.ss) = "idle"
    BY DEF Disconnected, Intr
  <2> QED
    BY <2>1 DEF DfaAction
<1>3. Shape(hba, tgt, bus) /\ OnePlace(hba, tgt, bus) /\ Registers(hba, tgt, bus)
  BY <1>2 DEF ScsiInv, Placed
<1>4. Same(s, hba, {"ss", "with"}) /\ s.ss = None
  BY <1>3, ServedFields DEF Shape
<1> HIDE DEF s
<1>5. Same(k, s, {"istate"}) /\ k.istate = "IDLE"
  <2>1. IsHba(s)
    BY <1>4 DEF Same
  <2> QED
    BY <2>1, StoreFields
<1> HIDE DEF k
<1>6. /\ IsHba(k) /\ k.startq = hba.startq /\ k.coms = hba.coms /\ k.cur = hba.cur
      /\ k.ss = None /\ k.com = hba.com /\ k.istate = "IDLE"
  BY <1>4, <1>5 DEF Same, Places
<1>7. hba.com = None /\ tgt[hba.cur].st = "away" /\ hba.cur \in Units
  BY <1>2, <1>3 DEF Registers, None
<1>8. Shape(k, tgt, bus)
  BY <1>3, <1>6 DEF Shape
<1>9. OnePlace(k, tgt, bus)
  BY <1>2, <1>3, <1>6, <1>7 DEF OnePlace, Has, Gone, None
<1>10. Registers(k, tgt, bus)
  BY <1>6, <1>7 DEF Registers, None
<1>11. /\ Shape(StartAny(k), tgt, bus) /\ Placed(StartAny(k), tgt, bus)
       /\ StartAny(k).istate = "IDLE" => StartAny(k).startq = <<>>
  BY <1>6, <1>8, <1>9, <1>10, StartAnyPlaced DEF Placed
<1> QED
  BY <1>1, <1>11 DEF ScsiInv, NoneWaitsWhenIdle

LEMMA IntrStep ==
  ASSUME ScsiInv, A3091Intr
  PROVE  ScsiInv'
<1>1. ASSUME Complete PROVE ScsiInv'
  <2>1. DfaAction(hba.istate, hba.ss) = "complete" /\ EndCommand(TRUE, hba.with = "good")
    BY <1>1 DEF Complete, Intr
  <2>2. hba.istate \notin {"IDLE", "DEAD"} /\ hba.ss \in {"complete", "no device"}
    BY <2>1 DEF DfaAction
  <2> QED
    BY <2>1, <2>2, EndPlaced
<1>2. ASSUME Abort PROVE ScsiInv'
  <2>1. DfaAction(hba.istate, hba.ss) = "abort" /\ EndCommand(FALSE, FALSE)
    BY <1>2 DEF Abort, Intr
  <2>2. hba.istate \notin {"IDLE", "DEAD"} /\ hba.ss \in {"complete", "no device"}
    BY <2>1 DEF DfaAction
  <2> QED
    BY <2>1, <2>2, EndPlaced
<1> QED
  BY <1>1, <1>2, DeadStep, ResumeStep, RequeueStep, SaveStep, DisconnectedStep DEF A3091Intr
-----------------------------------------------------------------------------
(* The chip and the targets.                                               *)

IsTgts(t) ==
  /\ t = [u \in Units |-> t[u]]
  /\ \A u \in Units : t[u] = [f \in TgtFields |-> t[u][f]]

\* Only the target of u changes, to the state st.
Moves(u, st) == /\ IsTgts(tgt') /\ tgt'[u].st = st
                /\ \A v \in Units : v # u => tgt'[v] = tgt[v]

LEMMA RaiseFields ==
  ASSUME IsHba(hba), NEW c, NEW w
  PROVE  /\ Same(Raise(c, w), hba, {"ss", "with", "com"})
         /\ Raise(c, w).ss = c /\ Raise(c, w).with = w /\ Raise(c, w).com = None
BY DEF IsHba, Fields, Same, Places, Raise

\* The target that has the bus goes on, or interrupts the transfer.
LEMMA ActiveStep ==
  ASSUME ScsiInv, NEW u \in Units,
         Move(u) \/ SaveMessage(u) \/ RestoreMessage(u) \/ OtherMessage(u) \/ EarlyStatus(u)
  PROVE  ScsiInv'
<1>1. Shape(hba, tgt, bus) /\ IsTgts(tgt)
  BY DEF ScsiInv, Shape, IsTgts
<1>2. bus' = bus /\ bus = u /\ hba.com = "transfer" /\ tgt[u].st = "busy"
  BY DEF Move, SaveMessage, RestoreMessage, OtherMessage, EarlyStatus, Detour, Active
<1>3. \E st \in {"busy", "status"} : Moves(u, st)
  <2>1. CASE Move(u)
    BY <1>1, <1>2, <2>1 DEF Move, Moves, IsTgts, TgtFields
  <2>2. CASE SaveMessage(u)
    BY <1>1, <1>2, <2>2 DEF SaveMessage, Moves, IsTgts, TgtFields
  <2>3. CASE RestoreMessage(u)
    BY <1>1, <1>2, <2>3 DEF RestoreMessage, Moves, IsTgts, TgtFields
  <2>4. CASE OtherMessage(u)
    BY <1>1, <1>2, <2>4 DEF OtherMessage, Moves, IsTgts, TgtFields
  <2>5. CASE EarlyStatus(u)
    BY <1>1, <1>2, <2>5 DEF EarlyStatus, Moves, IsTgts, TgtFields
  <2> QED
    BY <2>1, <2>2, <2>3, <2>4, <2>5
<1>4. \/ Same(hba', hba, {})
      \/ /\ Same(hba', hba, {"ss", "with", "com"}) /\ hba'.com = None
         /\ hba'.ss \in {"save", "message", "status"}
  <2>1. CASE Move(u)
    BY <1>1, <2>1 DEF Move, Shape, IsHba, Fields, Same, Places
  <2>2. CASE ~Move(u)
    <3>1. \E c \in {"save", "message", "status"} : \E w : hba' = Raise(c, w)
      BY <2>2 DEF SaveMessage, RestoreMessage, OtherMessage, EarlyStatus
    <3> QED
      BY <1>1, <3>1, RaiseFields DEF Shape
  <2> QED
    BY <2>1, <2>2
<1>5. Shape(hba', tgt', bus)
  BY <1>1, <1>3, <1>4 DEF Shape, Same, Places, Moves, IsTgts
<1>6. ASSUME hba.istate # "DEAD" PROVE Placed(hba', tgt', bus) /\ NoneWaitsWhenIdle'
  <2>1. OnePlace(hba, tgt, bus) /\ Registers(hba, tgt, bus) /\ NoneWaitsWhenIdle
    BY <1>6 DEF ScsiInv, Placed
  <2>2. hba.ss = None /\ hba.cur = u /\ hba.istate # "IDLE"
    BY <1>2, <2>1 DEF Registers, None
  <2>3. /\ hba'.istate = hba.istate /\ hba'.startq = hba.startq /\ hba'.cur = hba.cur
        /\ hba'.coms = hba.coms
        /\ \/ hba'.ss = hba.ss /\ hba'.com = hba.com
           \/ hba'.com = None /\ hba'.ss \in {"save", "message", "status"}
    BY <1>4 DEF Same, Places
  <2>4. \A v \in Units : tgt'[v].st = "away" <=> tgt[v].st = "away"
    BY <1>2, <1>3 DEF Moves
  <2>5. OnePlace(hba', tgt', bus)
    BY <2>1, <2>2, <2>3, <2>4 DEF OnePlace, Has, Gone, None
  <2>6. Registers(hba', tgt', bus)
    BY <1>2, <2>1, <2>2, <2>3 DEF Registers, None
  <2> QED
    BY <2>1, <2>2, <2>3, <2>5, <2>6 DEF Placed, NoneWaitsWhenIdle
<1> QED
  BY <1>2, <1>4, <1>5, <1>6 DEF ScsiInv, Same, Places

\* A target leaves the bus, or comes back to it.
LEMMA DisconnectStep ==
  ASSUME ScsiInv, NEW u \in Units, DisconnectMessage(u)
  PROVE  ScsiInv'
<1>1. Shape(hba, tgt, bus) /\ IsTgts(tgt)
  BY DEF ScsiInv, Shape, IsTgts
<1>2. bus' = None /\ bus = u /\ hba.com = "transfer" /\ hba' = Raise("disconnected", None)
  BY DEF DisconnectMessage, Detour, Active
<1>3. Moves(u, "away")
  BY <1>1 DEF DisconnectMessage, Moves, IsTgts, TgtFields
<1>4. Same(hba', hba, {"ss", "with", "com"}) /\ hba'.com = None /\ hba'.ss = "disconnected"
  BY <1>1, <1>2, RaiseFields DEF Shape
<1>5. Shape(hba', tgt', None)
  BY <1>1, <1>3, <1>4 DEF Shape, Same, Places, Moves, IsTgts
<1>6. ASSUME hba.istate # "DEAD" PROVE Placed(hba', tgt', None) /\ NoneWaitsWhenIdle'
  <2>1. OnePlace(hba, tgt, bus) /\ Registers(hba, tgt, bus) /\ NoneWaitsWhenIdle
    BY <1>6 DEF ScsiInv, Placed
  <2>2. hba.ss = None /\ hba.cur = u /\ hba.istate # "IDLE"
    BY <1>2, <2>1 DEF Registers, None
  <2>3. /\ hba'.istate = hba.istate /\ hba'.startq = hba.startq /\ hba'.cur = hba.cur
        /\ hba'.coms = hba.coms /\ hba'.com = None /\ hba'.ss = "disconnected"
    BY <1>4 DEF Same, Places
  <2>4. OnePlace(hba', tgt', None)
    BY <1>3, <2>1, <2>2, <2>3 DEF OnePlace, Has, Gone, None, Moves
  <2>5. Registers(hba', tgt', None)
    BY <1>3, <2>2, <2>3 DEF Registers, None, Moves
  <2> QED
    BY <2>1, <2>3, <2>4, <2>5 DEF Placed, NoneWaitsWhenIdle
<1> QED
  BY <1>2, <1>4, <1>5, <1>6 DEF ScsiInv, Same, Places

LEMMA ReselectStep ==
  ASSUME ScsiInv, NEW u \in Units, Reselect(u)
  PROVE  ScsiInv'
<1>1. Shape(hba, tgt, bus) /\ IsTgts(tgt)
  BY DEF ScsiInv, Shape, IsTgts
<1>2. bus' = u /\ bus = None /\ tgt[u].st = "away" /\ hba.ss = None /\ hba' = Raise("reselected", u)
  BY DEF Reselect
<1>3. Moves(u, "busy")
  BY <1>1 DEF Reselect, Moves, IsTgts, TgtFields
<1>4. /\ Same(hba', hba, {"ss", "with", "com"}) /\ hba'.com = None /\ hba'.ss = "reselected"
      /\ hba'.with = u
  BY <1>1, <1>2, RaiseFields DEF Shape
<1>5. Shape(hba', tgt', u)
  BY <1>1, <1>3, <1>4 DEF Shape, Same, Places, Moves, IsTgts
<1>6. ASSUME hba.istate # "DEAD" PROVE Placed(hba', tgt', u) /\ NoneWaitsWhenIdle'
  <2>1. OnePlace(hba, tgt, bus) /\ Registers(hba, tgt, bus) /\ NoneWaitsWhenIdle
    BY <1>6 DEF ScsiInv, Placed
  <2>2. /\ hba'.istate = hba.istate /\ hba'.startq = hba.startq /\ hba'.cur = hba.cur
        /\ hba'.coms = hba.coms
    BY <1>4 DEF Same, Places
  <2>3. \A v \in Units : Gone(hba', tgt', u, v) <=> Gone(hba, tgt, bus, v)
    BY <1>2, <1>3, <1>4 DEF Gone, Moves, None
  <2>4. OnePlace(hba', tgt', u)
    <3>1. \A v \in Units : ~(Has(hba, v) /\ Gone(hba, tgt, bus, v))
      BY <1>2, <2>1 DEF OnePlace, None
    <3>2. \A v \in Units : Has(hba', v) <=> Has(hba, v)
      BY <2>2 DEF Has
    <3> QED
      BY <2>1, <2>2, <2>3, <3>1, <3>2 DEF OnePlace
  <2>5. Registers(hba', tgt', u)
    BY <1>3, <1>4, <2>1, <2>2 DEF Registers, None, Moves
  <2> QED
    BY <2>1, <2>2, <2>4, <2>5 DEF Placed, NoneWaitsWhenIdle
<1> QED
  BY <1>2, <1>4, <1>5, <1>6 DEF ScsiInv, Same, Places

LEMMA StatusStep ==
  ASSUME ScsiInv, NEW u \in Units, NEW good \in BOOLEAN, Status(u, good)
  PROVE  ScsiInv'
<1>1. Shape(hba, tgt, bus) /\ IsTgts(tgt)
  BY DEF ScsiInv, Shape, IsTgts
<1>2. /\ bus' = None /\ bus = u /\ hba.com = "transfer" /\ tgt[u].st # "away"
      /\ \E w : hba' = Raise("complete", w)
  BY DEF Status
<1>3. Moves(u, "free")
  <2> DEFINE new == [Target("free") EXCEPT !.check = ~good]
  <2>1. tgt' = [tgt EXCEPT ![u] = new]
    BY DEF Status
  <2>2. new = [f \in TgtFields |-> new[f]] /\ new.st = "free"
    BY DEF Target, TgtFields
  <2> HIDE DEF new
  <2>3. /\ tgt' = [v \in Units |-> tgt'[v]]
        /\ \A v \in Units : tgt'[v] = IF v = u THEN new ELSE tgt[v]
    BY <1>1, <2>1 DEF IsTgts
  <2>4. IsTgts(tgt')
    BY <1>1, <2>2, <2>3 DEF IsTgts
  <2> QED
    BY <2>2, <2>3, <2>4 DEF Moves
<1>4. Same(hba', hba, {"ss", "with", "com"}) /\ hba'.com = None /\ hba'.ss = "complete"
  BY <1>1, <1>2, RaiseFields DEF Shape
<1>5. Shape(hba', tgt', None)
  BY <1>1, <1>3, <1>4 DEF Shape, Same, Places, Moves, IsTgts
<1>6. ASSUME hba.istate # "DEAD" PROVE Placed(hba', tgt', None) /\ NoneWaitsWhenIdle'
  <2>1. OnePlace(hba, tgt, bus) /\ Registers(hba, tgt, bus) /\ NoneWaitsWhenIdle
    BY <1>6 DEF ScsiInv, Placed
  <2>2. hba.ss = None /\ hba.cur = u /\ hba.istate # "IDLE"
    BY <1>2, <2>1 DEF Registers, None
  <2>3. /\ hba'.istate = hba.istate /\ hba'.startq = hba.startq /\ hba'.cur = hba.cur
        /\ hba'.coms = hba.coms /\ hba'.com = None /\ hba'.ss = "complete"
    BY <1>4 DEF Same, Places
  <2>4. OnePlace(hba', tgt', None)
    BY <1>2, <1>3, <2>1, <2>2, <2>3 DEF OnePlace, Has, Gone, None, Moves
  <2>5. Registers(hba', tgt', None)
    BY <2>1, <2>2, <2>3 DEF Registers, None
  <2> QED
    BY <2>1, <2>3, <2>4, <2>5 DEF Placed, NoneWaitsWhenIdle
<1> QED
  BY <1>2, <1>4, <1>5, <1>6 DEF ScsiInv, Same, Places

\* The unit that is selected answers.
LEMMA AnswerStep ==
  ASSUME ScsiInv, Answer
  PROVE  ScsiInv'
<1> DEFINE u == hba.cur
           cdb == Head(hba.coms[u])
           new == [Target("busy") EXCEPT !.cmd = cdb.cmd, !.len = cdb.len,
                                         !.check = tgt[u].check /\ cdb = Sense]
<1>1. Shape(hba, tgt, bus) /\ IsTgts(tgt) /\ u \in Units \cup {None}
  BY DEF ScsiInv, Shape, IsTgts
<1>2. bus' = u /\ hba.com = "select" /\ tgt' = [tgt EXCEPT ![u] = new]
  BY DEF Answer
<1>3. new = [f \in TgtFields |-> new[f]] /\ new.st = "busy"
  <2> HIDE DEF u, cdb
  <2> QED
    BY DEF Target, TgtFields
<1>4. Same(hba', hba, {"com"}) /\ hba'.com = "transfer"
  BY <1>1 DEF Answer, Shape, IsHba, Fields, Same, Places
<1> HIDE DEF new
<1>5. IsTgts(tgt') /\ \A v \in Units : tgt'[v] = IF v = u THEN new ELSE tgt[v]
  BY <1>1, <1>2, <1>3 DEF IsTgts
<1>6. Shape(hba', tgt', u)
  BY <1>1, <1>4, <1>5 DEF Shape, Same, Places, IsTgts
<1>7. ASSUME hba.istate # "DEAD" PROVE Placed(hba', tgt', u) /\ NoneWaitsWhenIdle'
  <2>1. OnePlace(hba, tgt, bus) /\ Registers(hba, tgt, bus) /\ NoneWaitsWhenIdle
    BY <1>7 DEF ScsiInv, Placed
  <2>2. hba.ss = None /\ hba.istate # "IDLE" /\ u \in Units
    BY <1>2, <2>1 DEF Registers, None
  <2>3. /\ hba'.istate = hba.istate /\ hba'.startq = hba.startq /\ hba'.cur = u
        /\ hba'.coms = hba.coms /\ hba'.ss = None /\ hba'.com = "transfer"
    BY <1>4, <2>2 DEF Same, Places
  <2>4. tgt[u].st # "away"
    BY <2>1, <2>2 DEF OnePlace, Has, Gone, None
  <2>5. \A v \in Units : Gone(hba', tgt', u, v) <=> Gone(hba, tgt, bus, v)
    BY <1>3, <1>5, <2>2, <2>3, <2>4 DEF Gone, None
  <2>6. OnePlace(hba', tgt', u)
    <3>1. \A v \in Units : Has(hba', v) <=> Has(hba, v)
      BY <2>3 DEF Has
    <3>2. hba'.ss = hba.ss
      BY <2>2, <2>3
    <3> QED
      BY <2>1, <2>3, <2>5, <3>1, <3>2 DEF OnePlace
  <2>7. Registers(hba', tgt', u)
    BY <2>2, <2>3 DEF Registers, None
  <2> QED
    BY <2>1, <2>3, <2>6, <2>7 DEF Placed, NoneWaitsWhenIdle
<1> QED
  BY <1>2, <1>4, <1>6, <1>7 DEF ScsiInv, Same, Places

\* No unit answers; or the byte of a message has been read.
LEMMA CommandStep ==
  ASSUME ScsiInv, NoAnswer \/ AcceptMessage
  PROVE  ScsiInv'
<1>1. Shape(hba, tgt, bus)
  BY DEF ScsiInv
<1>2. /\ UNCHANGED <<tgt, bus>>
      /\ \/ hba.com = "select" /\ hba' = Raise("no device", None)
         \/ hba.com = "receive" /\ hba' = Raise("accept", None)
  BY DEF NoAnswer, AcceptMessage
<1>3. /\ Same(hba', hba, {"ss", "with", "com"}) /\ hba'.com = None
      /\ \/ hba.com = "select" /\ hba'.ss = "no device"
         \/ hba.com = "receive" /\ hba'.ss = "accept"
  <2>1. IsHba(hba)
    BY <1>1 DEF Shape
  <2>2. CASE hba.com = "select" /\ hba' = Raise("no device", None)
    BY <2>1, <2>2, RaiseFields
  <2>3. CASE hba.com = "receive" /\ hba' = Raise("accept", None)
    BY <2>1, <2>3, RaiseFields
  <2> QED
    BY <1>2, <2>2, <2>3
<1>4. Shape(hba', tgt, bus)
  BY <1>1, <1>3 DEF Shape, Same, Places
<1>5. ASSUME hba.istate # "DEAD" PROVE Placed(hba', tgt, bus) /\ NoneWaitsWhenIdle'
  <2>1. OnePlace(hba, tgt, bus) /\ Registers(hba, tgt, bus) /\ NoneWaitsWhenIdle
    BY <1>5 DEF ScsiInv, Placed
  <2>2. /\ hba.ss = None /\ hba.istate # "IDLE" /\ hba.cur \in Units
        /\ hba'.ss = "accept" => bus = hba.cur
    BY <1>3, <2>1 DEF Registers, None
  <2>3. /\ hba'.istate = hba.istate /\ hba'.startq = hba.startq /\ hba'.cur = hba.cur
        /\ hba'.coms = hba.coms /\ hba'.com = None /\ hba'.ss \in {"no device", "accept"}
    BY <1>3 DEF Same, Places
  <2>4. OnePlace(hba', tgt, bus)
    BY <2>1, <2>2, <2>3 DEF OnePlace, Has, Gone, None
  <2>5. Registers(hba', tgt, bus)
    BY <2>2, <2>3 DEF Registers, None
  <2> QED
    BY <2>1, <2>3, <2>4, <2>5 DEF Placed, NoneWaitsWhenIdle
<1> QED
  BY <1>2, <1>3, <1>4, <1>5 DEF ScsiInv, Same, Places

LEMMA ChipStep ==
  ASSUME ScsiInv, Chip
  PROVE  ScsiInv'
BY ActiveStep, DisconnectStep, ReselectStep, StatusStep, AnswerStep, CommandStep DEF Chip

-----------------------------------------------------------------------------
(* dd.c gives the adapter a command; the theorems.                         *)

\* The unit alone waits to start, with its first command.
Waiting(u) == [[hba EXCEPT !.coms[u] = Append(@, Rw)] EXCEPT !.startq = <<u>>]

LEMMA QueuedComs ==
  ASSUME ScsiInv, NEW u \in Units
  PROVE  /\ Queued(hba, u, Rw) \in [Units -> Seq(Com)] /\ Queued(hba, u, Rw)[u] # <<>>
         /\ \A v \in Units : v # u => Queued(hba, u, Rw)[v] = hba.coms[v]
<1>1. hba.coms \in [Units -> Seq(Com)] /\ Rw \in Com
  BY DEF ScsiInv, Shape, Com
<1>2. Append(hba.coms[u], Rw) \in Seq(Com) /\ Append(hba.coms[u], Rw) # <<>>
  BY <1>1
<1> QED
  BY <1>1, <1>2 DEF Queued

LEMMA QueueIdle ==
  ASSUME ScsiInv, NEW u \in Units, hba.istate = "IDLE", hba.coms[u] = <<>>
  PROVE  LET k == Waiting(u)
         IN  /\ Queue(hba, u, Rw) = StartAny(k)
             /\ Shape(k, tgt, bus) /\ Placed(k, tgt, bus) /\ k.istate = "IDLE"
<1> DEFINE c == Queued(hba, u, Rw)
           g == [hba EXCEPT !.coms[u] = Append(@, Rw)]
           k == [g EXCEPT !.startq = <<u>>]
<1>1. Shape(hba, tgt, bus) /\ OnePlace(hba, tgt, bus) /\ Registers(hba, tgt, bus) /\ hba.startq = <<>>
  BY DEF ScsiInv, Placed, NoneWaitsWhenIdle
<1>2. c \in [Units -> Seq(Com)] /\ c[u] # <<>> /\ \A v \in Units : v # u => c[v] = hba.coms[v]
  BY QueuedComs
<1>3. Same(g, hba, {"coms"}) /\ g.coms = c
  BY <1>1 DEF Shape, IsHba, Fields, Same, Places, Queued
<1>4. Queue(hba, u, Rw) = UQueue(g, u)
  BY DEF Queue
<1> HIDE DEF c, g
<1>5. /\ IsHba(g) /\ g.istate = "IDLE" /\ g.startq = <<>> /\ g.cur = hba.cur /\ g.ss = hba.ss
      /\ g.with = hba.with /\ g.com = hba.com
  BY <1>1, <1>3 DEF Same, Places
<1>6. UQueue(g, u) = StartAny(k)
  BY <1>5 DEF UQueue
<1>7. Same(k, g, {"startq"}) /\ k.startq = <<u>>
  BY <1>5, StoreFields
<1>8. k = Waiting(u)
  BY DEF Waiting, g
<1> HIDE DEF k
<1>9. /\ IsHba(k) /\ k.istate = "IDLE" /\ k.cur = hba.cur /\ k.ss = hba.ss /\ k.coms = c
      /\ k.with = hba.with /\ k.com = hba.com
  BY <1>3, <1>5, <1>7 DEF Same, Places
<1>10. /\ <<u>> \in Seq(Units) /\ Distinct(<<u>>)
       /\ \A x \in Units : In(x, <<u>>) <=> x = u
       /\ \A x \in Units : ~In(x, <<>>)
  BY DEF In, Distinct
<1>11. Shape(k, tgt, bus)
  BY <1>1, <1>2, <1>7, <1>9, <1>10 DEF Shape
<1>12. ~Gone(hba, tgt, bus, u)
  BY <1>1 DEF OnePlace
<1>13. OnePlace(k, tgt, bus)
  BY <1>1, <1>2, <1>7, <1>9, <1>10, <1>12 DEF OnePlace, Has, Gone
<1>14. Registers(k, tgt, bus)
  BY <1>1, <1>9 DEF Registers
<1> QED
  BY <1>4, <1>6, <1>8, <1>9, <1>11, <1>13, <1>14 DEF Placed

\* The unit had no command and was in none of the places: now it waits.
LEMMA QueuePlaced ==
  ASSUME ScsiInv, NEW u \in Units, hba' = Queue(hba, u, Rw), UNCHANGED <<tgt, bus>>
  PROVE  ScsiInv'
<1> DEFINE c == Queued(hba, u, Rw)
           g == [hba EXCEPT !.coms[u] = Append(@, Rw)]
<1>1. Shape(hba, tgt, bus)
  BY DEF ScsiInv
<1>2. c \in [Units -> Seq(Com)] /\ c[u] # <<>> /\ \A v \in Units : v # u => c[v] = hba.coms[v]
  BY QueuedComs
<1>3. CASE hba.istate # "IDLE"
  <2>1. /\ Same(hba', hba, {"coms", "startq"}) /\ hba'.coms = c
        /\ hba'.startq = IF hba.coms[u] # <<>> THEN hba.startq ELSE Append(hba.startq, u)
    BY <1>1, <1>3, QueueFields DEF Shape, Com
  <2> HIDE DEF c
  <2>2. /\ IsHba(hba') /\ hba'.istate = hba.istate /\ hba'.cur = hba.cur /\ hba'.ss = hba.ss
        /\ hba'.with = hba.with /\ hba'.com = hba.com
    BY <2>1 DEF Same, Places
  <2>3. /\ Append(hba.startq, u) \in Seq(Units)
        /\ \A x \in Units : In(x, Append(hba.startq, u)) <=> In(x, hba.startq) \/ x = u
        /\ Distinct(hba.startq) /\ ~In(u, hba.startq) => Distinct(Append(hba.startq, u))
    BY <1>1, AppendUnit DEF Shape
  <2>4. Shape(hba', tgt, bus)
    BY <1>1, <1>2, <2>1, <2>2, <2>3 DEF Shape
  <2>5. ASSUME hba.istate # "DEAD" PROVE Placed(hba', tgt, bus) /\ NoneWaitsWhenIdle'
    <3>1. OnePlace(hba, tgt, bus) /\ Registers(hba, tgt, bus)
      BY <2>5 DEF ScsiInv, Placed
    <3>2. Registers(hba', tgt, bus)
      BY <2>2, <3>1 DEF Registers
    <3>3. CASE hba.coms[u] # <<>>
      BY <1>2, <1>3, <2>1, <2>2, <3>1, <3>2, <3>3 DEF OnePlace, Has, Gone, Placed, NoneWaitsWhenIdle
    <3>4. CASE hba.coms[u] = <<>>
      <4>1. ~In(u, hba.startq) /\ ~Has(hba, u) /\ ~Gone(hba, tgt, bus, u)
        BY <3>1, <3>4 DEF OnePlace
      <4>2. OnePlace(hba', tgt, bus)
        BY <1>2, <2>1, <2>2, <2>3, <3>1, <3>4, <4>1 DEF OnePlace, Has, Gone
      <4> QED
        BY <1>3, <2>2, <3>2, <4>2 DEF Placed, NoneWaitsWhenIdle
    <3> QED
      BY <3>3, <3>4
  <2> QED
    BY <2>2, <2>4, <2>5 DEF ScsiInv
<1>4. CASE hba.istate = "IDLE"
  <2>1. OnePlace(hba, tgt, bus) /\ Registers(hba, tgt, bus) /\ hba.startq = <<>>
    BY <1>4 DEF ScsiInv, Placed, NoneWaitsWhenIdle
  <2>2. Same(g, hba, {"coms"}) /\ g.coms = c
    BY <1>1 DEF Shape, IsHba, Fields, Same, Places, Queued
  <2>3. hba.coms[u] # <<>> => hba' = g
    BY DEF Queue
  <2> HIDE DEF c, g
  <2>4. /\ IsHba(g) /\ g.istate = "IDLE" /\ g.startq = <<>> /\ g.cur = hba.cur /\ g.ss = hba.ss
        /\ g.with = hba.with /\ g.com = hba.com
    BY <1>4, <2>1, <2>2 DEF Same, Places
  <2>7. CASE hba.coms[u] # <<>>
    <3>1. Shape(g, tgt, bus)
      BY <1>1, <1>2, <2>2, <2>4 DEF Shape
    <3>2. OnePlace(g, tgt, bus) /\ Registers(g, tgt, bus)
      BY <1>2, <1>4, <2>1, <2>2, <2>4, <2>7 DEF OnePlace, Registers, Has, Gone
    <3> QED
      BY <2>3, <2>4, <2>7, <3>1, <3>2 DEF ScsiInv, Placed, NoneWaitsWhenIdle
  <2>8. CASE hba.coms[u] = <<>>
    <3> DEFINE k == Waiting(u)
    <3>1. hba' = StartAny(k) /\ Shape(k, tgt, bus) /\ Placed(k, tgt, bus) /\ k.istate = "IDLE"
      BY <1>4, <2>8, QueueIdle
    <3> HIDE DEF k
    <3>2. /\ Shape(StartAny(k), tgt, bus) /\ Placed(StartAny(k), tgt, bus)
          /\ StartAny(k).istate = "IDLE" => StartAny(k).startq = <<>>
      BY <3>1, StartAnyPlaced
    <3> QED
      BY <3>1, <3>2 DEF ScsiInv, NoneWaitsWhenIdle
  <2> QED
    BY <2>7, <2>8
<1> QED
  BY <1>3, <1>4

LEMMA ScsiInit ==
  ASSUME Init
  PROVE  ScsiInv
<1>1. Shape(hba, tgt, bus)
  <2>1. IsHba(hba)
    BY DEF Init, IsHba, Fields
  <2>2. <<>> \in Seq(Com) /\ <<>> \in Seq(Units)
    OBVIOUS
  <2>3. tgt = [u \in Units |-> tgt[u]] /\ \A u \in Units : tgt[u] = [f \in TgtFields |-> tgt[u][f]]
    BY DEF Init, Target, TgtFields
  <2> QED
    BY <2>1, <2>2, <2>3 DEF Init, Shape
<1>2. OnePlace(hba, tgt, bus)
  BY DEF Init, OnePlace, Distinct, In, Has, Gone, Target, None
<1>3. Registers(hba, tgt, bus)
  BY DEF Init, Registers, None
<1> QED
  BY <1>1, <1>2, <1>3 DEF Init, ScsiInv, Placed, NoneWaitsWhenIdle

LEMMA ScsiStep ==
  ASSUME ScsiInv, [Next]_vars
  PROVE  ScsiInv'
<1>1. ASSUME NEW u \in Units, DdStrategy(u) PROVE ScsiInv'
  <2>1. UNCHANGED <<tgt, bus>> /\ (hba' = hba \/ hba' = Queue(hba, u, Rw))
    BY <1>1 DEF DdStrategy
  <2>2. CASE hba' = hba
    BY <2>1, <2>2 DEF ScsiInv, Shape, NoneWaitsWhenIdle
  <2> QED
    BY <2>1, <2>2, QueuePlaced
<1>2. ASSUME UNCHANGED vars PROVE ScsiInv'
  BY <1>2 DEF vars, ScsiInv, NoneWaitsWhenIdle
<1> QED
  BY <1>1, <1>2, IntrStep, ChipStep DEF Next, Done

LEMMA ScsiAlways == Spec => []ScsiInv
<1>1. Init => ScsiInv
  BY ScsiInit
<1>2. ScsiInv /\ [Next]_vars => ScsiInv'
  BY ScsiStep
<1> QED
  BY <1>1, <1>2, PTL DEF Spec

\* Until the automaton of a3091intr() fails, every disk with a command waits in
\* the queue of uqueue(), or is the one whose command the chip carries out, or has
\* disconnected: in exactly one of the three, and a disk without one in none.
THEOREM OnePlaceKept == Spec => []UnitInOnePlace
<1>1. ScsiInv => UnitInOnePlace
  <2> SUFFICES ASSUME ScsiInv, hba.istate # "DEAD"
               PROVE  \A u \in Units :
                        /\ \A i, j \in 1 .. Len(hba.startq) :
                             hba.startq[i] = u /\ hba.startq[j] = u => i = j
                        /\ (hba.coms[u] # <<>>) = (InStartq(u) \/ HasBus(u) \/ Away(u))
                        /\ ~(InStartq(u) /\ (HasBus(u) \/ Away(u)))
                        /\ HasBus(u) /\ Away(u) => hba.ss = "disconnected"
    BY DEF UnitInOnePlace
  <2>1. OnePlace(hba, tgt, bus)
    BY DEF ScsiInv, Placed
  <2>2. \A u \in Units : /\ InStartq(u) <=> In(u, hba.startq)
                         /\ HasBus(u) <=> Has(hba, u)
                         /\ Away(u) <=> Gone(hba, tgt, bus, u)
    BY DEF InStartq, In, HasBus, Has, Away, Gone
  <2> QED
    BY <2>1, <2>2 DEF OnePlace, Distinct
<1> QED
  BY <1>1, ScsiAlways, PTL

\* Whatever order selections, reselections and ends come in, startany() has been
\* called for the next disk whenever the adapter is left idle.
THEOREM NoneWaits == Spec => []NoneWaitsWhenIdle
<1>1. ScsiInv => NoneWaitsWhenIdle
  BY DEF ScsiInv, NoneWaitsWhenIdle
<1> QED
  BY <1>1, ScsiAlways, PTL
=============================================================================
