------------------------------- MODULE CtTape -------------------------------
(***************************************************************************)
(* ct.c: the SCSI tape.  machine() is a state machine over the request at  *)
(* the head of the queue and the result of the SCSI command before; it     *)
(* runs at sdspl() when a request comes to an empty queue and when a       *)
(* command ends.  command() queues the one special request that opens and  *)
(* closes share, and sleeps for it.                                        *)
(***************************************************************************)
EXTENDS Naturals, Sequences, FiniteSets

CONSTANTS
  Users,       \* processes
  MaxOps,      \* bound: opens, reads and writes
  MaxFaults    \* bound: commands that do not end with status 0

VARIABLE ct

vars == <<ct>>

Special == <<"special", 0>>      \* &special.buf

Init == ct =
  [state |-> "NORMAL_IDLE", open |-> FALSE,
   q |-> <<>>,                              \* bhead: Special, <<"r", n>>, <<"w", n>>
   com |-> "none",                          \* the SCSI command that runs
   okay |-> TRUE, status |-> 0,
   key |-> 0, some |-> FALSE,               \* sense key; is part of the data moved?
   locked |-> FALSE, active |-> FALSE, scom |-> "none", serr |-> FALSE,
   user |-> [u \in Users |-> [at |-> "shut", mode |-> "r", bom |-> FALSE, todo |-> <<>>]],
   pos |-> "bom",                           \* the tape: "bom", "data", "eod"
   n |-> 0, ended |-> <<>>, queued |-> <<>>, faults |-> 0,   \* history
   shared |-> FALSE, overwrote |-> FALSE]

-----------------------------------------------------------------------------
(* start(), dispose() and machine().                                       *)

Start(t, com, st) == [t EXCEPT !.com = com, !.state = st]

Dispose(t, st, err) ==
  LET bp == Head(t.q)
      d  == [t EXCEPT !.q = Tail(@), !.state = st]
  IN  IF bp = Special THEN [d EXCEPT !.active = FALSE, !.serr = err]
      ELSE [d EXCEPT !.ended = Append(@, bp[2])]

\* The state in which a special command runs when it is started from an idle
\* state, or "none".
SpecialState(st, com) ==
  CASE com = "REWIND" -> "DOOM_SPECIAL"
    [] st = "NORMAL_IDLE" /\ com \in {"INIT", "GETSENSE", "WEOF"} -> "NORMAL_SPECIAL"
    [] st = "NORMAL_IDLE" /\ com = "APPEND"          -> "EOD_SPECIAL"
    [] st = "NORMAL_IDLE" /\ com = "SEOF"            -> "NORMAL_SEOF"
    [] st = "EOD_IDLE"  /\ com \in {"GETSENSE", "WEOF"} -> "EOD_SPECIAL"
    [] st = "EOM_IDLE"  /\ com = "GETSENSE"          -> "EOM_SPECIAL"
    [] st = "EOF_IDLE"  /\ com = "GETSENSE"          -> "EOF_SPECIAL"
    [] st = "DOOM_IDLE" /\ com = "GETSENSE"          -> "DOOM_SPECIAL"
    [] OTHER -> "none"

\* Where a running state goes when its command ends well, and where when the
\* unit has sense to report.
After == [NORMAL_READ |-> "NORMAL_IDLE", NORMAL_SPECIAL |-> "NORMAL_IDLE",
          NORMAL_SEOF |-> "EOF_IDLE", EOD_WRITE |-> "EOD_IDLE",
          EOD_SPECIAL |-> "EOD_IDLE", EOM_SPECIAL |-> "EOM_IDLE",
          EOF_SPECIAL |-> "EOF_IDLE", DOOM_SPECIAL |-> "DOOM_IDLE"]

SenseState(st) ==
  CASE st = "NORMAL_READ" -> "NORMAL_READ_GETSENSE"
    [] st = "NORMAL_SEOF" -> "NORMAL_SEOF_GETSENSE"
    [] st = "EOD_WRITE"   -> "EOD_WRITE_GETSENSE"
    [] OTHER              -> "DOOM_MISC_GETSENSE"

Idles == {"NORMAL_IDLE", "EOD_IDLE", "EOM_IDLE", "EOF_IDLE", "DOOM_IDLE"}

RECURSIVE Machine(_)

\* An idle state looks at the request.
MachineIdle(t) ==
  LET bp == Head(t.q)
      to == SpecialState(t.state, t.scom)
      Done(err) == Machine(Dispose(t, t.state, err))
  IN  IF bp = Special
      THEN CASE to # "none" -> Start(t, t.scom, to)
             [] t.state = "EOF_IDLE" /\ t.scom = "CLOSE" ->
                  Machine(Dispose(t, "NORMAL_IDLE", FALSE))
             [] OTHER -> Done(t.state = "DOOM_IDLE")
      ELSE CASE t.state = "NORMAL_IDLE" ->
                  Start(t, "IO", IF bp[1] = "r" THEN "NORMAL_READ" ELSE "EOD_WRITE")
             [] t.state = "EOD_IDLE" /\ bp[1] = "w" -> Start(t, "IO", "EOD_WRITE")
             [] OTHER -> Done(TRUE)

\* A running state looks at how the command ended.
MachineRan(t) ==
  CASE t.okay /\ t.status = 0 -> Machine(Dispose(t, After[t.state], FALSE))
    [] t.okay /\ t.status = 2 -> Start(t, "GETSENSE", SenseState(t.state))
    [] OTHER                  -> Machine([t EXCEPT !.state = "DOOM_MISC_GETSENSE"])

\* The request is answered if part of it was done; if not, the new state
\* answers it.
Sensed(t, st) ==
  Machine(IF t.some THEN Dispose(t, st, FALSE) ELSE [t EXCEPT !.state = st])

MachineSense(t) ==
  LET doom == [t EXCEPT !.state = "DOOM_MISC_GETSENSE"]
  IN  IF ~t.okay \/ t.status # 0 THEN Machine(doom)
      ELSE CASE t.state = "NORMAL_READ_GETSENSE" ->
                  (CASE t.key = 0 -> Sensed(t, "EOF_IDLE")
                     [] t.key = 8 -> Sensed(t, "EOD_IDLE")
                     [] t.key = 3 -> Sensed(t, "BAD_READ_1")
                     [] OTHER     -> Machine([t EXCEPT !.state = "DOOM_IDLE"]))
             [] t.state = "EOD_WRITE_GETSENSE" ->
                  IF t.key \in {0, 13} THEN Sensed(t, "EOM_IDLE")
                  ELSE Machine([t EXCEPT !.state = "DOOM_IDLE"])
             [] t.state = "NORMAL_SEOF_GETSENSE" ->
                  IF t.key = 8 THEN Machine(Dispose(t, "EOD_IDLE", FALSE)) ELSE Machine(doom)

\* After a bad block two reads fail, a third is given zeroes.
MachineBad(t) ==
  Machine(IF Head(t.q) = Special THEN [t EXCEPT !.state = "NORMAL_IDLE"]
          ELSE Dispose(t, CASE t.state = "BAD_READ_1" -> "BAD_READ_2"
                            [] t.state = "BAD_READ_2" -> "BAD_READ_NULS"
                            [] OTHER                  -> "NORMAL_IDLE", TRUE))

Machine(t) ==
  IF t.q = <<>> THEN t
  ELSE CASE t.state \in Idles        -> MachineIdle(t)
         [] t.state \in DOMAIN After -> MachineRan(t)
         [] t.state \in {"BAD_READ_1", "BAD_READ_2", "BAD_READ_NULS"} -> MachineBad(t)
         [] t.state = "DOOM_MISC_GETSENSE" -> Machine(Dispose(t, "DOOM_IDLE", TRUE))
         [] OTHER -> MachineSense(t)

\* queue(): the machine is started for the first request only.
Queue(t, bp) ==
  LET a == [t EXCEPT !.q = Append(@, bp)]
  IN  IF t.q = <<>> THEN Machine(a) ELSE a

-----------------------------------------------------------------------------
(* The unit (external) ends a command, and ihandle() runs the machine.     *)

Moves(t) ==
  CASE t.com = "REWIND" -> {"bom"}
    [] t.com = "APPEND" -> {"eod"}
    [] t.com = "SEOF"   -> {"data", "eod"}
    [] t.com = "WEOF"   -> {"eod"}
    [] t.com = "IO" /\ t.state = "EOD_WRITE"   -> {"eod"}
    [] t.com = "IO" /\ t.state = "NORMAL_READ" -> {"data", "eod"}
    [] OTHER -> {t.pos}

Overwrites(t) == t.com \in {"IO", "WEOF"} /\ t.state # "NORMAL_READ" /\ t.pos = "data"

Ihandle ==
  /\ ct.com # "none"
  /\ \E okay \in BOOLEAN, status \in {0, 2, 8}, key \in {0, 3, 8, 13, 5},
        some \in BOOLEAN, pos \in Moves(ct) :
       LET bad == ~okay \/ status # 0
       IN  /\ bad => ct.faults < MaxFaults
           /\ ct.com # "GETSENSE" => key = ct.key /\ some = ct.some
           /\ ct.com = "GETSENSE" /\ key = 8 => ct.pos = "eod"    \* blank check
           /\ ct' = [Machine([ct EXCEPT
                 !.com = "none", !.okay = okay, !.status = status, !.key = key,
                 !.some = some, !.pos = IF okay THEN pos ELSE @,
                 !.faults = IF bad THEN @ + 1 ELSE @,
                 !.overwrote = @ \/ Overwrites(ct)])
               EXCEPT !.okay = TRUE, !.status = 0, !.key = 0, !.some = FALSE]  \* not read again

-----------------------------------------------------------------------------
(* command(), ctopen(), ctclose(), ctread() and ctwrite().                 *)

\* command(): it waits for the lock, queues the request and sleeps.
Command(u) ==
  /\ ct.user[u].todo # <<>> /\ ct.user[u].at \in {"opening", "closing"}
  /\ ~ct.locked
  /\ ct' = Queue([ct EXCEPT !.locked = TRUE, !.active = TRUE, !.serr = FALSE,
                            !.scom = Head(ct.user[u].todo),
                            !.user[u].at = IF @ = "opening" THEN "asleep" ELSE "casleep"],
                 Special)

\* ctopen() up to its first command.
CtOpen(u) ==
  /\ ct.user[u].at = "shut" /\ ~ct.open /\ ct.n < MaxOps
  /\ \E mode \in {"r", "w", "a"} :
       ct' = [ct EXCEPT !.n = @ + 1,
                        !.shared = @ \/ \E v \in Users : ct.user[v].at # "shut",
                        !.user[u] = [at |-> "opening", mode |-> mode, bom |-> FALSE,
                                     todo |-> <<"GETSENSE">>]]

Fail(t, u) == [t EXCEPT !.user[u] = [@ EXCEPT !.at = "shut", !.bom = FALSE, !.todo = <<>>]]

\* The end of ctopen(): a writer must be at the beginning or at the end.
Opened(t, u) ==
  IF t.user[u].mode # "r" /\ ~t.user[u].bom /\ t.state # "EOD_IDLE" THEN Fail(t, u)
  ELSE [t EXCEPT !.open = TRUE, !.user[u].at = "open"]

\* command() returns in ctopen(), which goes on: INIT at the beginning of the
\* tape, APPEND when asked for.  cni: there is no cartridge.
OpenGoesOn(u) ==
  /\ ct.user[u].at = "asleep" /\ ~ct.active
  /\ \E cni \in BOOLEAN :
       LET com == Head(ct.user[u].todo)
           bom == IF com = "GETSENSE" THEN ct.pos = "bom" ELSE ct.user[u].bom   \* sense9
           t   == [ct EXCEPT !.locked = FALSE, !.user[u].at = "opening", !.user[u].bom = bom]
           Go(s, c) == [s EXCEPT !.user[u].todo = <<c>>]
           append   == ct.user[u].mode = "a"
       IN  /\ cni => com = "GETSENSE"
           /\ ct' = CASE ct.serr \/ cni -> Fail(t, u)
                      [] com = "GETSENSE" /\ bom ->
                           Go([t EXCEPT !.state = "NORMAL_IDLE"], "INIT")
                      [] com \in {"GETSENSE", "INIT"} /\ append -> Go(t, "APPEND")
                      [] OTHER -> Opened(t, u)

\* ctclose(), with or without rewind.
CtClose(u) ==
  /\ ct.user[u].at = "open"
  /\ \E rewind \in BOOLEAN :
       ct' = [ct EXCEPT !.user[u].at = "closing",
                !.user[u].todo = (IF ct.user[u].mode # "r" THEN <<"WEOF">>
                                  ELSE IF rewind THEN <<>> ELSE <<"SEOF">>)
                                 \o (IF rewind THEN <<"REWIND">> ELSE <<>>) \o <<"CLOSE">>]

CloseGoesOn(u) ==
  /\ ct.user[u].at = "casleep" /\ ~ct.active
  /\ LET t == [ct EXCEPT !.locked = FALSE, !.user[u].todo = Tail(@),
                         !.user[u].at = "closing"]
     IN  ct' = IF t.user[u].todo # <<>> THEN t
               ELSE Fail([t EXCEPT !.open = FALSE], u)

\* ctread() and ctwrite(): strategy() queues, the process waits for iodone().
CtIo(u) ==
  /\ ct.user[u].at = "open" /\ ct.n < MaxOps
  /\ LET n == ct.n + 1
         w == ct.user[u].mode # "r"
     IN  ct' = Queue([ct EXCEPT !.n = n, !.queued = Append(@, n),
                                !.user[u].at = "io", !.user[u].todo = <<n>>],
                     <<IF w THEN "w" ELSE "r", n>>)

IoDone(u) ==
  /\ ct.user[u].at = "io"
  /\ \E i \in 1 .. Len(ct.ended) : ct.ended[i] = ct.user[u].todo[1]
  /\ ct' = [ct EXCEPT !.user[u].at = "open", !.user[u].todo = <<>>]

Next ==
  \/ Ihandle
  \/ \E u \in Users : CtOpen(u) \/ Command(u) \/ OpenGoesOn(u) \/ CtClose(u)
                      \/ CloseGoesOn(u) \/ CtIo(u) \/ IoDone(u)

Spec == Init /\ [][Next]_vars

-----------------------------------------------------------------------------
(* Properties.                                                             *)

TypeOK ==
  /\ ct.state \in Idles \cup DOMAIN After \cup
       {"NORMAL_READ_GETSENSE", "NORMAL_SEOF_GETSENSE", "EOD_WRITE_GETSENSE",
        "DOOM_MISC_GETSENSE", "BAD_READ_1", "BAD_READ_2", "BAD_READ_NULS"}
  /\ ct.pos \in {"bom", "data", "eod"}
  /\ \A u \in Users : ct.user[u].at \in
       {"shut", "opening", "asleep", "open", "io", "closing", "casleep"}

\* The machine never stops with a request at its head, and never runs a
\* command for none; requests end in the order they came, none twice.
TapeGoesOn ==
  /\ ct.q # <<>> <=> ct.com # "none"
  /\ ct.active <=> \E i \in 1 .. Len(ct.q) : ct.q[i] = Special
  /\ \A i \in 1 .. Len(ct.ended) : ct.ended[i] = ct.queued[i]

\* What is on the tape is not written over in the middle: a write or a file
\* mark goes where the data ends or where the tape begins.  (Two opens that
\* both pass the test of dp->open before either sets it share the tape.)
NoWriteInTheMiddle == ct.overwrote => ct.shared
============================================================================
