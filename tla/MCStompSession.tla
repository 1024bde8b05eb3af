--------------------------- MODULE MCStompSession ---------------------------
(* Instances of StompSession for TLC.                                       *)
EXTENDS StompSession
=============================================================================
