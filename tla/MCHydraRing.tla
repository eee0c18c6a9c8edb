---------------------------- MODULE MCHydraRing ----------------------------
(* Rings of six and seven pages; frames of one to six. *)
EXTENDS HydraRingFifo

\* One, two and three pages; the last four bytes of the 254, its CRC, are
\* alone in the second page.
MCFrameLens == {64, 254, 700}
MCLongLens  == {64, 1518}
MCTwoLens   == {64, 700}

NoFaults   == {}
BadFrames  == {"badrsr", "badsize"}
BadChains  == {"badnext", "wildnext"}

\* Payload that reads as a frame of its own, one page before its place.
MCNoise == {[next |-> RxStart, prx |-> TRUE, size |-> 64]}
============================================================================
