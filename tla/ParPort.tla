------------------------------ MODULE ParPort ------------------------------
(***************************************************************************)
(* par.c: the parallel port, output only.  A byte is written to the data   *)
(* lines and acknowledged by an interrupt (FLG); a timeout looks after the *)
(* byte that is not.  Writers and the last close sleep on par_outq.        *)
(*                                                                         *)
(* All of it runs at level 2: the calls raise to splpar(), parintr() is a  *)
(* level 2 handler and so is the clock that runs the timeouts (cl.c), so a *)
(* C function runs to its end or to its sleep().  uwritec() may sleep for  *)
(* a page, so parwrite() takes a step per byte.                            *)
(*                                                                         *)
(* The port is one record: what the C file holds in static variables, with *)
(* the callout table, the printer and the callers beside it.               *)
(***************************************************************************)
EXTENDS Naturals, Sequences, FiniteSets, FiniteSetsExt

CONSTANTS
  Users,       \* processes that may have the port open
  HiWat,       \* PAR_HIWAT
  MaxBytes,    \* bound: bytes accepted
  MaxOpens,    \* bound: opens
  MaxTimeouts  \* bound: bytes that are not acknowledged in time

VARIABLE par

vars == <<par>>

Init == par =
  [flags   |-> {},      \* parflags
   outq    |-> <<>>,    \* par_outq
   cur     |-> 0,       \* currentbyte
   id      |-> 0,       \* timeout_id
   timers  |-> {},      \* the callout table: <<id, function>>
   ready   |-> TRUE,    \* no control line that control_bits asks for is off
   owed    |-> 0,       \* acknowledgements the printer still owes
   port    |-> <<>>,    \* the bytes put on the data lines
   user    |-> [u \in Users |-> "shut"],
   acc     |-> 0,       \* bytes accepted; they are numbered in that order
   opens   |-> 0,
   late    |-> 0,       \* bytes that timed out
   reset   |-> FALSE]   \* paropen() cleared the flags of a busy port

-----------------------------------------------------------------------------
(* The functions of par.c on that record.                                  *)

NewId(p) == Min(1 .. Cardinality(p.timers) + 2 \
                  ({t[1] : t \in p.timers} \cup {p.id}))

Timeout(p, f) == [p EXCEPT !.timers = @ \cup {<<NewId(p), f>>}, !.id = NewId(p)]

Untimeout(p) == [p EXCEPT !.timers = {t \in @ : t[1] # p.id}]

ParStart(p, ch) ==
  LET q == [p EXCEPT !.cur = ch, !.flags = @ \cup {"OUTPEND"}]
  IN  IF ~p.ready
      THEN Timeout([q EXCEPT !.flags = @ \cup {"OUTSTOP"}], "parstart")
      ELSE Timeout([q EXCEPT !.flags = @ \ {"OUTSTOP"},
                             !.port = Append(@, ch), !.owed = @ + 1],
                   "partimeout")

Sleeping == {"outslp", "sync", "flush"}

\* wakeup(&par_outq) behind its test: every sleeper looks at its condition again.
WakeUp(p) ==
  IF p.flags \cap {"FLUSHING", "OUTSLP"} = {} THEN p
  ELSE [p EXCEPT !.flags = @ \ {"FLUSHING", "OUTSLP"},
                 !.user = [u \in Users |->
                             CASE @[u] = "outslp" -> "write"
                               [] @[u] = "sync"   -> "fsync"
                               [] @[u] = "flush"  -> "close"
                               [] OTHER           -> @[u]]]

-----------------------------------------------------------------------------
(* Calls.                                                                  *)

\* paropen(): nothing asks whether the port is open already.
ParOpen(u) ==
  /\ par.user[u] = "shut"
  /\ par.opens < MaxOpens
  /\ par' = [par EXCEPT !.flags = {"OUTPUT"},
                        !.user[u] = "open",
                        !.opens = @ + 1,
                        !.reset = @ \/ "OUTPEND" \in par.flags]

PutByte(p, ch) ==
  IF "OUTPEND" \in p.flags THEN [p EXCEPT !.outq = Append(@, ch)]
                           ELSE ParStart(p, ch)

\* parwrite(), one turn of its loop: the byte is refused for an error, waits
\* for room, or is sent or queued.
ParWrite(u) ==
  /\ par.user[u] \in {"open", "write"}
  /\ par.acc < MaxBytes
  /\ "OUTPUT" \in par.flags
  /\ IF "OUTERR" \in par.flags
     THEN par' = [par EXCEPT !.flags = @ \ {"OUTERR"}, !.user[u] = "open"]
     ELSE IF Len(par.outq) > HiWat
     THEN par' = [par EXCEPT !.flags = @ \cup {"OUTSLP"}, !.user[u] = "outslp"]
     ELSE \E next \in {"write", "fsync", "open"} :
            par' = [PutByte([par EXCEPT !.acc = @ + 1], par.acc + 1)
                      EXCEPT !.user[u] = next]

\* The end of a parwrite() with FSYNC.
ParWriteSync(u) ==
  /\ par.user[u] = "fsync"
  /\ IF "OUTERR" \in par.flags
     THEN par' = [par EXCEPT !.flags = @ \ {"OUTERR"}, !.user[u] = "open"]
     ELSE IF "OUTPEND" \in par.flags
     THEN par' = [par EXCEPT !.flags = @ \cup {"FLUSHING"}, !.user[u] = "sync"]
     ELSE par' = [par EXCEPT !.user[u] = "open"]

\* parclose(), for the last user only.
ParClose(u) ==
  /\ \/ par.user[u] = "close"
     \/ par.user[u] = "open" /\ \A v \in Users \ {u} : par.user[v] = "shut"
  /\ IF "OUTPEND" \in par.flags
     THEN par' = [par EXCEPT !.flags = @ \cup {"FLUSHING"}, !.user[u] = "flush"]
     ELSE par' = [par EXCEPT !.flags = {}, !.user[u] = "shut"]

\* Any other close(2) does not reach the driver.
CloseOther(u) ==
  /\ par.user[u] = "open"
  /\ \E v \in Users \ {u} : par.user[v] # "shut"
  /\ par' = [par EXCEPT !.user[u] = "shut"]

\* A signal: a writer's sleep() does not return, a closer's gives the output up.
Signal(u) ==
  /\ par.user[u] \in Sleeping
  /\ par' = IF par.user[u] = "flush"
            THEN [Untimeout(par) EXCEPT !.flags = @ \ {"OUTPEND"}, !.outq = <<>>,
                                        !.user[u] = "close",
                                        !.reset = TRUE]
            ELSE [par EXCEPT !.user[u] = "open"]

-----------------------------------------------------------------------------
(* Interrupts, timeouts and the printer.                                   *)

ParIntr(p) ==
  IF "OUTPEND" \notin p.flags THEN p
  ELSE LET q == Untimeout(p)
       IN  IF q.outq # <<>>
           THEN ParStart([q EXCEPT !.outq = Tail(@)], Head(q.outq))
           ELSE WakeUp([q EXCEPT !.flags = @ \ {"OUTPEND"}])

\* The printer acknowledges a byte it was given (external).
Acknowledge ==
  /\ par.owed > 0
  /\ par' = ParIntr([par EXCEPT !.owed = @ - 1])

\* partimeout() or parstart() is called out of the callout table.
TimerFires ==
  \E t \in par.timers :
    LET p == [par EXCEPT !.timers = @ \ {t}]
    IN  IF t[2] = "parstart" THEN par' = ParStart(p, p.cur)
        ELSE /\ par.late < MaxTimeouts
             /\ LET q == [p EXCEPT !.late = @ + 1]
                IN  par' = ParStart(IF q.ready
                                    THEN WakeUp([q EXCEPT !.flags = @ \cup {"OUTERR"}])
                                    ELSE q, q.cur)

\* BUSY, POUT or SEL changes, or PIOCSETCTL changes the lines looked at.
LinesChange == par' = [par EXCEPT !.ready = ~@]

Next ==
  \/ \E u \in Users : \/ ParOpen(u) \/ ParWrite(u) \/ ParWriteSync(u)
                      \/ ParClose(u) \/ CloseOther(u) \/ Signal(u)
  \/ Acknowledge \/ TimerFires \/ LinesChange

Spec == Init /\ [][Next]_vars

-----------------------------------------------------------------------------
(* Properties.                                                             *)

TypeOK ==
  /\ par.flags \subseteq {"OUTPUT", "OUTSLP", "FLUSHING", "OUTPEND", "OUTSTOP",
                          "OUTERR"}
  /\ \A i \in 1 .. Len(par.outq) : par.outq[i] \in 1 .. MaxBytes
  /\ \A t \in par.timers : t[2] \in {"parstart", "partimeout"}
  /\ par.user \in [Users -> Sleeping \cup {"shut", "open", "write", "fsync", "close"}]

\* Every byte accepted by parwrite() is on its way to the printer or there,
\* once and in order: strobed, the current byte waiting for the lines, or
\* queued.  A byte can be lost only after a timeout (a late acknowledgement
\* then answers the wrong byte), a second open or an interrupted close.
BytesInOrder ==
  par.late = 0 /\ ~par.reset =>
    par.port \o (IF "OUTSTOP" \in par.flags /\ "OUTPEND" \in par.flags
                 THEN <<par.cur>> ELSE <<>>) \o par.outq
      = [i \in 1 .. par.acc |-> i]

\* Nobody sleeps on par_outq with nothing on its way that would wake him: a
\* byte is pending and a timeout stands behind it, unless an open cleared the
\* flags under the sleeper.
SleepersWillWake ==
  ~par.reset /\ (\E u \in Users : par.user[u] \in Sleeping) =>
    /\ "OUTPEND" \in par.flags
    /\ \E t \in par.timers : t[1] = par.id
    /\ \A u \in Users : par.user[u] \in Sleeping =>
         par.flags \cap {"OUTSLP", "FLUSHING"} # {}
============================================================================
