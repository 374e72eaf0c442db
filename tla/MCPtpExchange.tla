--------------------------- MODULE MCPtpExchange ----------------------------
(***************************************************************************)
(* Sequence ids of 2 bits and a clock of 3 bits, of which the upper one is *)
(* counted by the monitor: every counter wraps many times.                 *)
(***************************************************************************)
EXTENDS PtpExchange

=============================================================================
