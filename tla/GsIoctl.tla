------------------------------ MODULE GsIoctl ------------------------------
(***************************************************************************)
(* gsioctl() of scsi.c: a process gives a SCSI command of its own to an    *)
(* adapter, by way of one static command, buffer and flag `done' for all   *)
(* callers.  copyin() and copyout() may sleep for a page, and the caller   *)
(* sleeps until ihandle(), which may run before it does.                   *)
(***************************************************************************)
EXTENDS Naturals, Sequences

CONSTANTS
  Users,
  MaxCalls,    \* bound: calls of each
  MaxFaults    \* bound: failed copies

None == "none"

VARIABLE gs

vars == <<gs>>

Init == gs =
  [pc |-> [u \in Users |-> "idle"],
   sdcom |-> None, result |-> None,   \* whose command it is, and whose outcome it holds
   iobuf |-> None,                    \* whose data
   done |-> FALSE,
   queue |-> <<>>,                    \* commands in the hands of the adapter: whose it took
   reading |-> [u \in Users |-> FALSE],
   out |-> [u \in Users |-> None],    \* history: whose outcome u got, and whose data
   data |-> [u \in Users |-> None],
   shared |-> [u \in Users |-> FALSE],  \* another call overlapped, or had left its command
   calls |-> [u \in Users |-> 0], faults |-> 0]

Inside(s) == {u \in Users : s.pc[u] # "idle"}

End(s, u) == [s EXCEPT !.pc[u] = "idle"]

\* The command is copied in, and checked.
GsIoctl(u) ==
  /\ gs.pc[u] = "idle" /\ gs.calls[u] < MaxCalls
  /\ \E reading, okay \in BOOLEAN :
       LET s == [gs EXCEPT !.calls[u] = @ + 1, !.reading[u] = reading, !.sdcom = u,
                           !.out[u] = None, !.data[u] = None,
                           !.shared = [v \in Users |->
                              IF v = u THEN Inside(gs) # {} \/ gs.queue # <<>> ELSE @[v] \/ v \in Inside(gs)]]
       IN  gs' = IF okay THEN [s EXCEPT !.pc[u] = "data"] ELSE End(s, u)

\* The data to write is copied in; the command is queued.
Queue(u) ==
  /\ gs.pc[u] = "data"
  /\ \E okay \in BOOLEAN :
       /\ okay \/ (~gs.reading[u] /\ gs.faults < MaxFaults)
       /\ gs' = IF ~okay THEN End([gs EXCEPT !.faults = @ + 1], u)
                ELSE [gs EXCEPT !.iobuf = IF gs.reading[u] THEN @ ELSE u, !.done = FALSE,
                                !.queue = Append(@, gs.sdcom), !.pc[u] = "sleep"]

\* ihandle()
IHandle(s) == [s EXCEPT !.done = TRUE]

\* The adapter executes a command on the data of iobuf and calls ihandle().
Execute ==
  /\ gs.queue # <<>>
  /\ gs' = IHandle([gs EXCEPT !.queue = Tail(@), !.result = Head(gs.queue),
                              !.iobuf = IF gs.reading[Head(gs.queue)] THEN Head(gs.queue) ELSE @])

\* Awake: the data read and then the command are copied out.
CopyOut(u) ==
  /\ gs.pc[u] = "sleep" /\ gs.done
  /\ \E okay \in BOOLEAN :
       /\ okay \/ gs.faults < MaxFaults
       /\ gs' = IF ~okay THEN End([gs EXCEPT !.faults = @ + 1], u)
                ELSE [gs EXCEPT !.data[u] = IF gs.reading[u] THEN gs.iobuf ELSE @, !.pc[u] = "out"]

CopyOutCommand(u) ==
  /\ gs.pc[u] = "out"
  /\ gs' = End([gs EXCEPT !.out[u] = gs.result], u)

Next == Execute \/ \E u \in Users : GsIoctl(u) \/ Queue(u) \/ CopyOut(u) \/ CopyOutCommand(u)

Spec == Init /\ [][Next]_vars

-----------------------------------------------------------------------------
(* Properties.                                                             *)

TypeOK ==
  /\ gs.pc \in [Users -> {"idle", "data", "sleep", "out"}]
  /\ gs.sdcom \in Users \cup {None} /\ gs.result \in Users \cup {None}

\* A caller whom no other overlaps gets the outcome of its own command and, if it
\* reads, its own data; the static command makes no promise beyond that.
OwnOutcome ==
  \A u \in Users :
    ~gs.shared[u] =>
      /\ gs.out[u] \in {None, u}
      /\ gs.data[u] \in {None, u}

\* Such a caller, when it sleeps, has its command at the adapter, or `done' is set.
CallerWillWake ==
  \A u \in Users : gs.pc[u] = "sleep" /\ ~gs.shared[u] => gs.done \/ gs.queue # <<>>
============================================================================
