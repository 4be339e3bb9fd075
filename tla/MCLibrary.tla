----------------------------- MODULE MCLibrary -----------------------------
EXTENDS Library, TLC

CONSTANTS m1, m2, m3, b1, r1, r2

MCReleaseOf == (m1 :> r1) @@ (m2 :> r1) @@ (m3 :> r2)

MCSymmetry == Permutations({m1, m2})
=============================================================================
