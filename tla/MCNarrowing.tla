---------------------------- MODULE MCNarrowing -----------------------------
(***************************************************************************)
(* Narrowing with two variables and two values, nothing telling one value  *)
(* or one variable from another, three blocks and two copies: a copy of a  *)
(* copy, a copy for each variable, a guard clause in a branch.             *)
(***************************************************************************)
EXTENDS Narrowing, TLC

Symmetry == Permutations(Names) \cup Permutations(Values)
=============================================================================
