---------------------------- MODULE MCPduStream ----------------------------
(* An instance of PduStream for TLC: bytes have 4 values, so that 4 bytes  *)
(* of data need a carry in the length, and are the most a PDU may carry.   *)
EXTENDS PduStream

SomePayloads == {<<>>, <<2>>, <<3, 0>>, <<3, 2, 1, 0, 1>>}
=============================================================================
