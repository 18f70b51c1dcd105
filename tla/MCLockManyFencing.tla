------------------------- MODULE MCLockManyFencing -------------------------
(***************************************************************************)
(* LockManyFencing at the bounds of formal/fm.toml: two locks, two         *)
(* clients, two payload values, four ticks, three fences, a lease of two   *)
(* ticks.  One caller and one payload more than the model knows, because a *)
(* replayed document may carry them.                                       *)
(***************************************************************************)
EXTENDS LockManyFencing

MCValues == 1..2
MCPayloads == 1..3
=============================================================================
