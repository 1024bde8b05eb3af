--------------------------- MODULE MCSockJsClient ---------------------------
(* Instances of SockJsClient for TLC.                                       *)
EXTENDS SockJsClient
=============================================================================
