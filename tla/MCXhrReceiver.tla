---------------------------- MODULE MCXhrReceiver ----------------------------
(* Instances of XhrReceiver for TLC.                                        *)
EXTENDS XhrReceiver
=============================================================================
