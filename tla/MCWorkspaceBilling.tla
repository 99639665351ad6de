------------------------- MODULE MCWorkspaceBilling -------------------------
EXTENDS WorkspaceBilling, TLC

CONSTANTS s1, s2, h1, h2

Symmetry == Permutations({s1, s2}) \cup Permutations({h1, h2})
=============================================================================
