----------------------------- MODULE MCToolLoop -----------------------------
(* ToolLoop for TLC. *)
EXTENDS ToolLoop

AllPairs == {"openai", "anthropic"} \X {"openai", "anthropic"}
SameDialect == {<<"openai", "openai">>}
============================================================================
