------------------------------ MODULE MCLinker ------------------------------
(***************************************************************************)
(* Linker on three files, with any paths leading to them: some to none,    *)
(* several to the same; one change to the files at any moment.  Nothing    *)
(* tells one file or one id from another, nor a path that is not the       *)
(* entry's.                                                                *)
(***************************************************************************)
EXTENDS Linker, TLC

Symmetric ==
    Permutations(Files) \cup Permutations(Ids) \cup Permutations(Paths \ {EntryPath})
=============================================================================
