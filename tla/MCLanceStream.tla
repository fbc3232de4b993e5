--------------------------- MODULE MCLanceStream ---------------------------
(***************************************************************************)
(* LanceStream for TLC: its constants are numbers and one model value, so  *)
(* the configurations give them directly.                                  *)
(***************************************************************************)
EXTENDS LanceStream
=============================================================================
