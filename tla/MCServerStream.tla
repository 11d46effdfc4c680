--------------------------- MODULE MCServerStream ---------------------------
(* ServerStream with three targets, for TLC. *)
EXTENDS ServerStream

NativeBufferedNative == <<"native", "buffered", "native">>
============================================================================
