--------------------------- MODULE MCHandleTable ---------------------------
(* Instances of HandleTable for TLC.                                       *)
EXTENDS HandleTable

MCSockets == 1 .. 6
=============================================================================
