--------------------------- MODULE MCPrefetchStream ---------------------------
(* PrefetchStream over a file of five training rows. *)
EXTENDS PrefetchStream
=============================================================================
