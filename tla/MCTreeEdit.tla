----------------------------- MODULE MCTreeEdit -----------------------------
EXTENDS TreeEdit

CONSTANTS doc, a, b

Symmetry == Permutations({a, b})
=============================================================================
