----------------------------- MODULE MCCircuit -----------------------------
(* Circuit with a few callers, for TLC. *)
EXTENDS Circuit
============================================================================
