-------------------------- MODULE MCNodeLifecycle --------------------------
(***************************************************************************)
(* NodeLifecycle with two members and as many ports: a stranger can take   *)
(* one while it is free.  Three starts let a member be started again.      *)
(***************************************************************************)
EXTENDS NodeLifecycle
=============================================================================
