--------------------------- MODULE MCNameChecks -----------------------------
EXTENDS NameChecks, TLC

CONSTANTS x, y

MCWords == {x, y}

\* Ordinary names; one that the pass may mint too would be <<x, 1>>.
PlainNames == {<<x>>, <<y>>}

\* Nothing tells one word from another.
Symmetry == Permutations(MCWords)

AllKinds == {"block", "catch", "for", "forOf", "function", "exportFunction", "arrow",
             "exportLet"}
=============================================================================
