----------------------- MODULE MCDownstreamReference -----------------------
(***************************************************************************)
(* DownstreamReference with two writers.  Three tokens let a token be      *)
(* superseded twice; three calls let one writer repeat its write around    *)
(* another's.                                                              *)
(***************************************************************************)
EXTENDS DownstreamReference
=============================================================================
