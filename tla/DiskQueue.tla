----------------------------- MODULE DiskQueue -----------------------------
(***************************************************************************)
(* What a disk driver promises a file system: the requests of each disk    *)
(* end once each, in the order they came, all of them; one ends without an *)
(* error only when all its data has been moved.                            *)
(***************************************************************************)
EXTENDS Integers, Sequences

CONSTANTS Disks, MaxRequests

VARIABLES
  waiting,  \* requests of each disk, oldest first
  whole,    \* all the data of the oldest one has been moved
  ended     \* requests that ended, with their outcome

queueVars == <<waiting, whole, ended>>

QueueInit ==
  /\ waiting = [u \in Disks |-> <<>>]
  /\ whole = [u \in Disks |-> FALSE]
  /\ ended = [u \in Disks |-> <<>>]

Submit(u) ==
  /\ Len(ended[u]) + Len(waiting[u]) < MaxRequests[u]
  /\ waiting' = [waiting EXCEPT ![u] =
                   Append(@, Len(ended[u]) + Len(waiting[u]) + 1)]
  /\ UNCHANGED <<whole, ended>>

Transfer(u) ==
  /\ waiting[u] # <<>>
  /\ whole' = [whole EXCEPT ![u] = TRUE]
  /\ UNCHANGED <<waiting, ended>>

End(u) ==
  /\ waiting[u] # <<>>
  /\ \E error \in BOOLEAN :
       /\ ~error => whole[u]
       /\ ended' = [ended EXCEPT ![u] =
                      Append(@, [buf |-> Head(waiting[u]), error |-> error])]
  /\ waiting' = [waiting EXCEPT ![u] = Tail(@)]
  /\ whole' = [whole EXCEPT ![u] = FALSE]

QueueNext == \E u \in Disks : Submit(u) \/ Transfer(u) \/ End(u)

QueueSafety == QueueInit /\ [][QueueNext]_queueVars

QueueSpec == QueueSafety /\ \A u \in Disks : WF_queueVars(End(u))
============================================================================
