----------------------------- MODULE MCTryCatch -----------------------------
(***************************************************************************)
(* TryCatch with four executions of try at a time, three slots and eight   *)
(* nested constructs: calls inside tries inside loops inside calls, a try  *)
(* more than there are slots, and early exits that cross several tries.    *)
(* Nothing tells one execution of a try from another.                      *)
(***************************************************************************)
EXTENDS TryCatch, TLC

CONSTANTS t1, t2, t3, t4

MCTries == {t1, t2, t3, t4}
Symmetry == Permutations(MCTries)
=============================================================================
