--------------------------- MODULE MCAsyncStore ---------------------------
(* AsyncStore with a few threads and a short queue, for TLC. *)
EXTENDS AsyncStore
============================================================================
