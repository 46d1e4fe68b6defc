---------------------------- MODULE MCPollLoop -----------------------------
(* Instance of PollLoop for TLC.                                           *)
EXTENDS PollLoop

MCSockets == {1, 2, 5, 6}
=============================================================================
