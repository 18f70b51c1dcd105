----------------------------- MODULE MCLintGate -----------------------------
(***************************************************************************)
(* LintGate over a file in JavaScript, Rust or Gleam, in a repository that *)
(* may hold Dart, too; require-send reads Dart as Rust without annotations *)
(* and tail expressions, so no file of it is needed.                       *)
(* Two chains and two names let a chain overwrite or clear the other's     *)
(* mark; three frames let one be stored from an inner scope, and a block   *)
(* stand within a function.                                                *)
(***************************************************************************)
EXTENDS LintGate

Symmetry == Permutations(Names)
=============================================================================
