----------------------------- MODULE MCHydraTx -----------------------------
(* Three streams, enough for one to be passed over while another is served,  *)
(* and a chip that may abort.                                                *)
EXTENDS HydraTx
============================================================================
