------------------------------ MODULE MCToolCall ------------------------------
(* A small instance of ToolCall for TLC.                                     *)
EXTENDS ToolCall, TLC

CONSTANTS k1, k2

Slots == Permutations({k1, k2})
=============================================================================
