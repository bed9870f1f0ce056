----------------------------- MODULE MCRuntime -----------------------------
(* A small instance of Runtime: two arrays of up to three slots and two   *)
(* objects of two fields, with blocks that start at one slot so that      *)
(* every length from one on meets a full block.  Arrays and objects share *)
(* no memory, so behaviours that use both kinds are cut.                  *)
EXTENDS Runtime

MCValues == {0, 7}

OneKind == vecs = <<>> \/ objs = <<>>
=============================================================================
