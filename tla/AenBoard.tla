------------------------------ MODULE AenBoard ------------------------------
(***************************************************************************)
(* aen.c, all but the receive ring (AenRx): open and close, the            *)
(* initialisation that sleeps for the LANCE, the transmit ring, DLPI       *)
(* requests and ioctls.  One board, a stream for each user.                *)
(*                                                                         *)
(* aenwput() runs at splaen(), so it is a step.  aenopen() and aenclose()  *)
(* are not protected: between the two stores that set board_state and stop *)
(* the chip an interrupt may come, but no other process: the kernel is not *)
(* preempted.  Nor does a process run before an interrupt is over; but the *)
(* LANCE goes on sending meanwhile, so that its loop takes a step a stream.*)
(***************************************************************************)
EXTENDS Naturals, Sequences, Functions

CONSTANTS
  NUsers,     \* streams; they are numbered as their slots are
  TxCount,    \* TXCOUNT
  Ioctls,     \* of "clear", "get", "set", "flags", "other"
  MaxPut,     \* bound: frames sent
  MaxCtl      \* bound: opens, ioctls and binds

Users == 1 .. NUsers

VARIABLE aen

vars == <<aen>>

Init == aen =
  [board_state |-> "RESET",
   chip |-> "stop",                      \* "init", "ready", "on"
   csr |-> {},                           \* IDON, TINT
   tx |-> [i \in 0 .. TxCount - 1 |-> 0],  \* the frame of an OWN descriptor, or 0
   txi |-> 0,                            \* tx_buffer_index
   at |-> 0,                             \* the chip's descriptor
   intr |-> 0,                           \* the slot transmit_interrupt() is at, 0 if none
   err |-> FALSE,                        \* the status aenintr() has read shows CSR0_ERR
   q |-> {},                             \* slots whose q is set
   state |-> [u \in Users |-> "UNBOUND"],
   wq |-> [u \in Users |-> <<>>],
   user |-> [u \in Users |-> "shut"],
   ioc |-> [u \in Users |-> "none"],     \* the step of the ioctl of each stream
   \* history
   put |-> <<>>,                         \* who sent each frame
   sent |-> <<>>, gone |-> {}, ctl |-> 0,
   answers |-> [u \in Users |-> 1],      \* to the last ioctl of each stream
   storm |-> FALSE,                      \* an interrupt nobody took
   unstarted |-> FALSE,                  \* output may be queued that no interrupt will take
   wiped |-> FALSE]                      \* aen_initialize() ran with streams open

-----------------------------------------------------------------------------
(* setup_lance() and the transmit ring.                                    *)

\* setup_lance() from the stop of the chip to its sleep.
SetupLance(s) ==
  [s EXCEPT !.board_state = "IN_INIT_CODE", !.chip = "init", !.csr = {},
            !.gone = @ \cup ({s.tx[i] : i \in DOMAIN s.tx} \ {0}),
            !.tx = [i \in DOMAIN s.tx |-> 0], !.txi = 0, !.at = 0,
            !.unstarted = @ \/ \E u \in Users : s.wq[u] # <<>>]

\* aenxmit(), when the descriptor is free.
AenXmit(s, f) ==
  [s EXCEPT !.tx[s.txi] = f, !.txi = (@ + 1) % TxCount]

-----------------------------------------------------------------------------
(* aenintr().                                                              *)

\* initialize_and_go(): whoever waits for the LANCE is woken.
InitializeAndGo(s) ==
  IF "IDON" \notin aen.csr THEN s
  ELSE [s EXCEPT !.board_state = "RUNNING",
                 !.user = [u \in Users |-> CASE @[u] = "sleep"  -> "woken"
                                             [] @[u] = "csleep" -> "cwoken"
                                             [] OTHER           -> @[u]]]

\* The status is read and written back, which takes down what it shows.
AenIntr ==
  /\ aen.intr = 0 /\ aen.csr # {}
  /\ LET s == [aen EXCEPT !.csr = {}]
     IN  CASE aen.board_state = "RUNNING" ->
                IF "TINT" \notin aen.csr THEN aen' = s
                ELSE \E err \in BOOLEAN :
                       aen' = [s EXCEPT !.intr = 1, !.err = err, !.unstarted = FALSE]
           [] aen.board_state = "IN_INIT_CODE" -> aen' = InitializeAndGo(s)
           [] OTHER -> aen' = [aen EXCEPT !.storm = TRUE]

\* Broken variant: the message is not put back.
TransmitNextDropped ==
  /\ aen.intr \in Users
  /\ LET u == aen.intr
         t == [aen EXCEPT !.wq[u] = Tail(@)]
     IN  aen' = IF u \notin aen.q \/ aen.wq[u] = <<>> THEN [aen EXCEPT !.intr = u + 1]
                ELSE IF aen.tx[aen.txi] # 0 THEN [t EXCEPT !.intr = NUsers + 1]
                ELSE [AenXmit(t, Head(aen.wq[u])) EXCEPT !.intr = u + 1]

\* transmit_interrupt(), a turn of its loop: a message of each stream, until the
\* ring is full; the message that finds it so is put back.
TransmitNext ==
  /\ aen.intr \in Users
  /\ LET u == aen.intr
     IN  aen' = IF u \notin aen.q \/ aen.wq[u] = <<>> THEN [aen EXCEPT !.intr = u + 1]
                ELSE IF aen.tx[aen.txi] # 0 THEN [aen EXCEPT !.intr = NUsers + 1]
                ELSE [AenXmit([aen EXCEPT !.wq[u] = Tail(@)], Head(aen.wq[u]))
                        EXCEPT !.intr = u + 1]

\* The end of aenintr().  For an error the old status is written once more,
\* and takes down a TINT that has come up since.
AenIntrEnd ==
  /\ aen.intr = NUsers + 1
  /\ aen' = [aen EXCEPT !.intr = 0, !.csr = IF aen.err THEN @ \ {"TINT"} ELSE @,
                        !.unstarted = @ \/ (aen.err /\ "TINT" \in aen.csr)]

\* The LANCE (external).
LanceInit == aen.chip = "init" /\ aen' = [aen EXCEPT !.chip = "ready", !.csr = {"IDON"}]

LanceSend ==
  /\ aen.chip = "on" /\ aen.tx[aen.at] # 0
  /\ aen' = [aen EXCEPT !.sent = Append(@, aen.tx[aen.at]), !.tx[aen.at] = 0,
                        !.at = (@ + 1) % TxCount, !.csr = @ \cup {"TINT"}]

-----------------------------------------------------------------------------
(* aenopen() and aenclose().                                               *)

Attach(s, u) == [s EXCEPT !.q = @ \cup {u}, !.user[u] = "open"]

\* aen_initialize() empties every slot, whoever has it; board_state is reset.
AenOpen(u) ==
  /\ aen.user[u] = "shut" /\ aen.ctl < MaxCtl
  /\ LET s == [aen EXCEPT !.ctl = @ + 1]
     IN  aen' = IF aen.board_state = "RUNNING" THEN Attach(s, u)
                ELSE [s EXCEPT !.q = {}, !.state = [v \in Users |-> "UNBOUND"],
                               !.wiped = @ \/ aen.q # {},
                               !.board_state = "RESET", !.user[u] = "reset"]

AenOpenSetup(u) ==
  /\ aen.user[u] = "reset"
  /\ aen' = [SetupLance(aen) EXCEPT !.user[u] = "sleep"]

\* Awake again: another opener may have started all over, or closed.
AenOpenWoken(u) ==
  /\ aen.user[u] = "woken"
  /\ aen' = CASE aen.board_state = "IN_INIT_CODE" -> [aen EXCEPT !.user[u] = "sleep"]
              [] aen.board_state = "RESET"        -> [aen EXCEPT !.user[u] = "shut"]
              [] OTHER -> Attach([aen EXCEPT !.chip = IF @ = "ready" THEN "on" ELSE @], u)

\* Broken variant: any close resets the board.
AenCloseAny(u) ==
  /\ aen.user[u] = "open" /\ aen.ioc[u] = "none"
  /\ aen' = [aen EXCEPT !.q = @ \ {u}, !.gone = @ \cup Range(aen.wq[u]),
                        !.wq[u] = <<>>, !.board_state = "RESET", !.user[u] = "shut"]

\* aenclose(): the last one resets the board, then stops the chip.  The
\* messages on the queue are freed with the stream.
AenClose(u) ==
  /\ aen.user[u] = "open" /\ aen.ioc[u] = "none"
  /\ LET s == [aen EXCEPT !.q = @ \ {u}, !.gone = @ \cup Range(aen.wq[u]),
                          !.wq[u] = <<>>]
     IN  aen' = IF s.q = {} THEN [s EXCEPT !.board_state = "RESET", !.user[u] = "halt"]
                ELSE [s EXCEPT !.user[u] = "shut"]

AenCloseHalt(u) ==
  /\ aen.user[u] = "halt"
  /\ aen' = [aen EXCEPT !.chip = "stop", !.csr = {}, !.user[u] = "shut"]

-----------------------------------------------------------------------------
(* aenwput().                                                              *)

\* DL_UNITDATA_REQ.
UnitData(u) ==
  /\ aen.user[u] = "open" /\ Len(aen.put) < MaxPut
  /\ LET f == Len(aen.put) + 1
         s == [aen EXCEPT !.put = Append(@, u)]
     IN  aen' = IF aen.wq[u] # <<>> \/ aen.tx[aen.txi] # 0
                THEN [s EXCEPT !.wq[u] = Append(@, f)]
                ELSE AenXmit(s, f)

\* DL_BIND_REQ and DL_UNBIND_REQ; without memory for the acknowledgement a
\* bind is done and not acknowledged, an unbind not done.
Proto(u) ==
  /\ aen.user[u] = "open" /\ aen.ctl < MaxCtl
  /\ \E to \in {"IDLE", "UNBOUND"}, memory \in BOOLEAN :
       aen' = [aen EXCEPT !.ctl = @ + 1,
                 !.state[u] = IF to = "IDLE" \/ memory THEN to ELSE @]

\* M_FLUSH.
Flush(u) ==
  /\ aen.user[u] = "open" /\ aen.wq[u] # <<>>
  /\ aen' = [aen EXCEPT !.gone = @ \cup Range(aen.wq[u]), !.wq[u] = <<>>]

Answer(s, u) == [s EXCEPT !.answers[u] = @ + 1, !.ioc[u] = "none"]

\* A transparent "get" is sent up as M_COPYOUT and answered when that is done.
CopyOut(s, u) == [s EXCEPT !.ioc[u] = "copyout"]

\* AEN_SET_CONFIG with its argument: the answer goes up, and once more at the
\* end of aenioctl(); setup_lance() sleeps first when an address changes.
SetConfig(s, u) ==
  {Answer(Answer(s, u), u),
   [SetupLance(s) EXCEPT !.user[u] = "csleep", !.ioc[u] = "set"]}

\* aenioctl(), M_IOCTL.
AenIoctl(u) ==
  /\ aen.user[u] = "open" /\ aen.ioc[u] = "none" /\ aen.ctl < MaxCtl
  /\ \E c \in Ioctls, transparent, memory \in BOOLEAN :
       LET s == [aen EXCEPT !.ctl = @ + 1, !.answers[u] = 0]
       IN  CASE c = "get" /\ transparent /\ memory -> aen' = CopyOut(s, u)
             [] c = "set" /\ transparent -> aen' = [s EXCEPT !.ioc[u] = "copyin"]
             [] c = "set" /\ ~transparent -> aen' \in SetConfig(s, u)
             [] OTHER -> aen' = Answer(s, u)

\* aenioctl(), M_IOCDATA: after a copyout, or a copy that failed (which the
\* stream head answers itself), the ioctl is over.
AenIocData(u) ==
  /\ aen.user[u] = "open"
  /\ \/ aen.ioc[u] \in {"copyout", "copyin"} /\ aen' = [aen EXCEPT !.ioc[u] = "none", !.answers[u] = @ + 1]
     \/ aen.ioc[u] = "copyout" /\ aen' = Answer(aen, u)
     \/ aen.ioc[u] = "copyin" /\ aen' \in SetConfig(aen, u)

\* setup_lance() after its sleep, and the rest of AEN_SET_CONFIG.
SetConfigWoken(u) ==
  /\ aen.user[u] = "cwoken"
  /\ aen' = IF aen.board_state = "IN_INIT_CODE"
            THEN [aen EXCEPT !.user[u] = "csleep"]
            ELSE LET s == Answer(Answer([aen EXCEPT !.user[u] = "open"], u), u)
                 IN  IF aen.board_state = "RUNNING" /\ aen.chip = "ready"
                     THEN [s EXCEPT !.chip = "on"] ELSE s

Next ==
  \/ AenIntr \/ TransmitNext \/ AenIntrEnd \/ LanceInit \/ LanceSend
  \/ \E u \in Users :
       /\ aen.intr = 0
       /\ \A v \in Users \ {u} : aen.user[v] \notin {"reset", "halt"}
       /\ \/ AenOpen(u) \/ AenOpenSetup(u) \/ AenOpenWoken(u)
          \/ AenClose(u) \/ AenCloseHalt(u)
          \/ UnitData(u) \/ Proto(u) \/ Flush(u)
          \/ AenIoctl(u) \/ AenIocData(u) \/ SetConfigWoken(u)

Spec == Init /\ [][Next]_vars

-----------------------------------------------------------------------------
(* Properties.                                                             *)

TypeOK ==
  /\ aen.board_state \in {"RESET", "IN_INIT_CODE", "RUNNING"}
  /\ aen.chip \in {"stop", "init", "ready", "on"}
  /\ aen.csr \subseteq {"IDON", "TINT"}
  /\ aen.intr \in 0 .. NUsers + 1
  /\ \A u \in Users :
       /\ aen.user[u] \in {"shut", "reset", "sleep", "woken", "open", "halt",
                           "csleep", "cwoken"}
       /\ aen.ioc[u] \in {"none", "copyin", "copyout", "set"}

\* What a stream sends leaves the board once and in order, unless it is
\* flushed, or the board is set up again under it: in its frames on the wire, in
\* the ring from the chip's descriptor on and on the queue, the first of which
\* was the first to be sent, none is missing and none comes twice.
SentInOrder ==
  LET Ring == [k \in 1 .. TxCount |-> aen.tx[(aen.at + k - 1) % TxCount]]
  IN  \A u \in Users :
        LET path == aen.sent \o Ring \o aen.wq[u]
            mine == {k \in DOMAIN path : path[k] # 0 /\ aen.put[path[k]] = u}
        IN  /\ \A j, k \in mine : j < k => path[j] < path[k]
            /\ {path[k] : k \in mine} = {f \in DOMAIN aen.put : aen.put[f] = u} \ aen.gone

\* A message on a queue is not forgotten: aenwsrv() does nothing, so only a
\* transmit interrupt takes it off, and one is due.  (None need be after
\* AEN_SET_CONFIG with output queued, whose setup_lance() empties the ring, nor
\* after aenintr() wrote back a status with an error: until the next one.)
QueuedOutputMoves ==
  aen.intr = 0 /\ ~aen.unstarted /\ (\E u \in aen.q : aen.wq[u] # <<>>) =>
    "TINT" \in aen.csr \/ \E i \in DOMAIN aen.tx : aen.tx[i] # 0

\* A stream that is open stays attached, unless another open finds the board
\* in the initialisation of an AEN_SET_CONFIG; and while one is attached and
\* nobody waits for the LANCE, the board runs.
OpenIsAttached ==
  ~aen.wiped =>
    /\ \A u \in Users : aen.user[u] = "open" => u \in aen.q
    /\ aen.q # {} /\ (\A u \in Users : aen.user[u] \in {"shut", "open"})
         => aen.board_state = "RUNNING" /\ aen.chip = "on"

\* In every step, an interrupt nobody serves comes only while aenclose() or setup_lance() is
\* between its two stores.
UnservedOnlyInWindow ==
  aen'.storm # aen.storm => \E u \in Users : aen.user[u] \in {"halt", "reset"}

\* Every ioctl is answered, through M_COPYIN and M_COPYOUT too: once, but for
\* AEN_SET_CONFIG, whose message goes up a second time.
IoctlsAnswered ==
  \A u \in Users : aen.ioc[u] \in {"copyin", "copyout", "set"} <=> aen.answers[u] = 0
============================================================================
