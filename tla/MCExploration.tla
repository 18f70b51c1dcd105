--------------------------- MODULE MCExploration ---------------------------
(***************************************************************************)
(* Exploration of every graph of three states and two actions.  Two calls  *)
(* may lead to one state, a state may be two calls away from Start, or not *)
(* be reachable at all.                                                    *)
(***************************************************************************)
EXTENDS Exploration, TLC

Symmetry == Permutations(States \ {Start}) \cup Permutations(Actions)
=============================================================================
