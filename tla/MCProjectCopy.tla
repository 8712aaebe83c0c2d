---------------------------- MODULE MCProjectCopy ----------------------------
\* Three instances that nothing tells apart.
EXTENDS ProjectCopy, TLC

CONSTANTS i1, i2, i3

MCSymmetry == Permutations({i1, i2, i3})
=============================================================================
