------------------------------ MODULE MCStream ------------------------------
(* Stream with two targets, for TLC. *)
EXTENDS Stream, TLC

TwoNative == <<"native", "native">>
============================================================================
