---------------------------- MODULE MCScsi3091 ----------------------------
(* Two disks, one with two requests, of two chunks.                        *)
EXTENDS Scsi3091Disk

TwoDisks    == {"u0", "u1"}
TwoAndOne   == [u \in TwoDisks |-> IF u = "u0" THEN 2 ELSE 1]
WellBehaved == {}
Odd         == {"midway", "message"}
============================================================================
