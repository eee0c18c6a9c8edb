---------------------------- MODULE MCHydraBoard ----------------------------
(* Two streams: one keeps the board up while the other changes hands.  Frames *)
(* carry the type that streams bind, or 0, the sap of an unbound stream.      *)
EXTENDS HydraBoard
MCSaps  == {"ip"}
MCDests == {"us", "other"}
============================================================================
