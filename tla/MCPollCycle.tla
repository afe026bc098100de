---------------------------- MODULE MCPollCycle -----------------------------
(* Small instances of PollCycle for TLC. *)
EXTENDS PollCycle

CONSTANTS sn, d1, d2, d3

MCStatic == <<sn>>
MCThree == <<d1, d2, d3>>
=============================================================================
