--------------------------- MODULE MCCapsuleManager ---------------------------
(* Small instances of CapsuleManager for TLC. *)
EXTENDS CapsuleManager
CONSTANTS k1, k2
=============================================================================
