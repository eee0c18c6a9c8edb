------------------------------ MODULE BoyerBus ------------------------------
(***************************************************************************)
(* The A2090 board: jb.c lends it to the ST-506 driver (hd.c) and to the   *)
(* SCSI driver (a2090.c) in turn.  Whoever finds it lent to the other      *)
(* leaves its start function in jbfunc, for jbpass() to call.              *)
(* hd.c serves its queue as an elevator and tries a buf NTRY times.        *)
(* All of it runs at spl2() or at interrupt level 2, except that jbinit()  *)
(* sleeps in delay() with jbaddr already set.                              *)
(***************************************************************************)
EXTENDS Naturals, Sequences, FiniteSets, SequencesExt

CONSTANTS
  Blocks,   \* block numbers
  Pieces,   \* the most transfers of MAXTRAN blocks a buf takes
  Ntry,     \* NTRY
  MaxHd,    \* bound: bufs for hd.c
  MaxSd     \* bound: commands for a2090.c

VARIABLE jb

vars == <<jb>>

Init == jb =
  [init |-> "none", addr |-> FALSE, comp |-> FALSE,   \* jbinit(); jbaddr, jbcomp are set
   busy |-> FALSE, scsi |-> FALSE, func |-> "none",
   hq |-> <<>>, acts |-> 0,        \* hdctab: av_forw order, and the place of acts; 0 is the head
   dirn |-> TRUE, active |-> FALSE, errcnt |-> 0,
   sq |-> <<>>, sbusy |-> FALSE,   \* info: head to tail, busy
   n |-> 0, sn |-> 0, sdone |-> <<>>, failed |-> {}, tries |-> <<>>,   \* history
   early |-> FALSE]                \* a start function ran before jbcomp was set

-----------------------------------------------------------------------------
(* jbpass(), hdstart() and start().                                        *)

RECURSIVE JbPass(_)

\* hdstart(), or start() of a2090.c.
StartFunc(t, scsi) ==
  LET s == [t EXCEPT !.early = @ \/ ~t.comp]
  IN  CASE ~scsi /\ (s.active \/ s.acts = 0) -> JbPass(s)
        [] ~scsi                             -> [s EXCEPT !.active = TRUE]
        [] scsi /\ s.sbusy                   -> s
        [] scsi /\ s.sq = <<>>               -> JbPass(s)
        [] OTHER                             -> [s EXCEPT !.sbusy = TRUE]

JbPass(s) ==
  IF s.func = "none" THEN [s EXCEPT !.busy = FALSE]
  ELSE [StartFunc([s EXCEPT !.scsi = ~@], s.func = "sd") EXCEPT !.func = "none"]

\* jbcall(), once the board's address is known.
JbCall(s, scsi) ==
  IF s.busy /\ scsi # s.scsi THEN [s EXCEPT !.func = IF scsi THEN "sd" ELSE "hd"]
  ELSE StartFunc([s EXCEPT !.busy = TRUE, !.scsi = scsi], scsi)

\* jbinit() up to its first delay().
JbInit(s, scsi) == [s EXCEPT !.addr = TRUE, !.init = IF scsi THEN "sd" ELSE "hd"]

-----------------------------------------------------------------------------
(* hd.c.                                                                   *)

\* hdinsq(): before the first buf whose block is not higher.
HdInsq(s, id, b) ==
  LET p == CHOOSE i \in 1 .. Len(s.hq) + 1 :
             /\ \A j \in 1 .. i - 1 : b < s.hq[j][2]
             /\ i <= Len(s.hq) => ~(b < s.hq[i][2])
  IN  [s EXCEPT !.hq = InsertAt(@, p, <<id, b>>), !.errcnt = 0,
                !.acts = IF @ = 0 THEN p ELSE IF @ >= p THEN @ + 1 ELSE @]

\* Broken variant: the end of the list is not noticed.
HdRemqPast(s) ==
  LET q == RemoveAt(s.hq, s.acts)
  IN  [s EXCEPT !.hq = q, !.acts = IF s.dirn THEN @ ELSE @ - 1]

\* hdremq(): the next buf in the direction of travel, or the other way.
HdRemq(s) ==
  LET q   == RemoveAt(s.hq, s.acts)
      fwd == IF s.acts <= Len(q) THEN s.acts ELSE 0
      bck == s.acts - 1
      on  == IF s.dirn THEN fwd ELSE bck
      off == IF s.dirn THEN bck ELSE fwd
  IN  [s EXCEPT !.hq = q, !.acts = IF on # 0 THEN on ELSE off,
                !.dirn = IF on # 0 THEN @ ELSE ~@]

HdStrategy ==
  /\ jb.n < MaxHd /\ ~jb.early
  /\ \E b \in Blocks, pieces \in 1 .. Pieces :
       LET s == HdInsq([jb EXCEPT !.n = @ + 1,
                          !.tries = Append(@, [left |-> pieces, bad |-> 0])], jb.n + 1, b)
       IN  jb' = IF s.active THEN s
                 ELSE IF ~s.addr THEN JbInit(s, FALSE) ELSE JbCall(s, FALSE)

\* hdintr(): a piece is done, or failed; then hdstart().
HdIntr ==
  /\ jb.active /\ ~jb.scsi /\ ~jb.early
  /\ \E okay \in BOOLEAN :
       LET id   == jb.hq[jb.acts][1]
           idle == [jb EXCEPT !.active = FALSE]
           good == [idle EXCEPT !.tries[id].left = @ - 1]
           bad  == [idle EXCEPT !.tries[id].bad = @ + 1, !.errcnt = @ + 1]
       IN  jb' = StartFunc(
                   CASE okay /\ good.tries[id].left = 0 -> HdRemq(good)
                     [] okay                            -> good
                     [] bad.errcnt < Ntry               -> bad
                     [] OTHER -> HdRemq([bad EXCEPT !.failed = @ \cup {id}]), FALSE)

-----------------------------------------------------------------------------
(* a2090.c.                                                                *)

A2090Queue ==
  /\ jb.sn < MaxSd /\ ~jb.early
  /\ LET s == [jb EXCEPT !.sn = @ + 1, !.sq = Append(@, jb.sn + 1)]
     IN  jb' = IF ~s.addr THEN JbInit(s, TRUE) ELSE JbCall(s, TRUE)

\* a2090intr(): the command ended or timed out (0x85, 0x42), or its DMA did not
\* and it is tried again; other statuses leave it running.
A2090Intr ==
  /\ jb.sbusy /\ jb.scsi /\ ~jb.early
  /\ \E retry \in BOOLEAN :
       jb' = StartFunc(IF retry THEN [jb EXCEPT !.sbusy = FALSE]
                       ELSE [jb EXCEPT !.sq = Tail(@), !.sbusy = FALSE,
                                       !.sdone = Append(@, Head(jb.sq))], TRUE)

-----------------------------------------------------------------------------
\* jbinit() after its delays: the board answers, or jbcall() returns 0 and
\* leaves jbaddr set.
JbInitEnd ==
  /\ jb.init \in {"hd", "sd"} /\ ~jb.early
  /\ \E okay \in BOOLEAN :
       jb' = IF okay THEN JbCall([jb EXCEPT !.comp = TRUE, !.scsi = TRUE, !.init = "ok"],
                                 jb.init = "sd")
             ELSE [jb EXCEPT !.init = "failed"]

Next == HdStrategy \/ HdIntr \/ A2090Queue \/ A2090Intr \/ JbInitEnd

Spec == Init /\ [][Next]_vars

-----------------------------------------------------------------------------
(* Properties.                                                             *)

TypeOK ==
  /\ jb.acts \in 0 .. Len(jb.hq) /\ jb.errcnt \in 0 .. Ntry + MaxHd
  /\ jb.func \in {"none", "hd", "sd"} /\ jb.init \in {"none", "hd", "sd", "ok", "failed"}

\* Nobody is forgotten: with the board up, queued bufs and queued commands have
\* their driver at work or its start function left with jb.c, the board works
\* for one of the two at a time, in its mode, and is busy as long as it does;
\* a start function is left only with a board whose owner will pass it on.
NobodyForgotten ==
  jb.init = "ok" /\ ~jb.early =>
    /\ jb.hq # <<>> => jb.active \/ jb.func = "hd"
    /\ jb.sq # <<>> => jb.sbusy \/ jb.func = "sd"
    /\ ~(jb.active /\ jb.sbusy)
    /\ jb.active => jb.busy /\ ~jb.scsi
    /\ jb.sbusy  => jb.busy /\ jb.scsi
    /\ jb.busy   => jb.active \/ jb.sbusy
    /\ jb.func # "none" => jb.busy

\* The elevator holds together: the queue stays in block order, acts is in it
\* whenever it is not empty, and every buf is in it once or done with.
ElevatorWhole ==
  /\ \A i, j \in 1 .. Len(jb.hq) : i < j => jb.hq[i][2] >= jb.hq[j][2]
  /\ jb.hq # <<>> => jb.acts # 0
  /\ \A id \in 1 .. jb.n :
       Cardinality({i \in 1 .. Len(jb.hq) : jb.hq[i][1] = id})
         = IF id \in jb.failed \/ jb.tries[id].left = 0 THEN 0 ELSE 1

\* SCSI commands end in the order they were queued, also when one is retried.
ScsiInOrder == jb.sdone \o jb.sq = [i \in 1 .. jb.sn |-> i]
============================================================================
