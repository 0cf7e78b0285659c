--------------------------- MODULE MCCommandStream ---------------------------
(* CommandStream on small instances. *)
EXTENDS CommandStream
==============================================================================
