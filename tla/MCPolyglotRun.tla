--------------------------- MODULE MCPolyglotRun ---------------------------
(***************************************************************************)
(* PolyglotRun with three runs over one evidence directory: the second may *)
(* meet what the first left, and the third what both did.                  *)
(***************************************************************************)
EXTENDS PolyglotRun
=============================================================================
