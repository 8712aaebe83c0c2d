------------------------- MODULE MCProjectLifecycle -------------------------
EXTENDS ProjectLifecycle, TLC

CONSTANTS i1, i2, p1, p2

MCSymmetry == Permutations(Instances)
=============================================================================
