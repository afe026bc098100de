----------------------------- MODULE MCPairing ------------------------------
(* Small instances of Pairing for TLC. *)
EXTENDS Pairing, TLC

KeySymmetry == Permutations(Keys)
=============================================================================
