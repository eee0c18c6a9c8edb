---------------------------- MODULE Scsi3091Disk ----------------------------
(* Scsi3091 as an implementation of DiskQueue.                             *)
EXTENDS Scsi3091

\* The requests of a disk are its bufs from bhead to btail; their data is whole
\* when each chunk of the buffer holds the disk's.
Disk == INSTANCE DiskQueue WITH
  Disks       <- Units,
  MaxRequests <- MaxBufs,
  waiting     <- [u \in Units |-> dd[u].bufs],
  whole       <- [u \in Units |-> \A c \in 1 .. Chunks : mem[u][c] = c],
  ended       <- finished

\* The stack of dd.c and a3091.c keeps DiskQueue's promise while the targets
\* disconnect, reselect against a selection, and fail commands.
RequestsEndInOrder == Disk!QueueSpec
=============================================================================
