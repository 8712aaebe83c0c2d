------------------------- MODULE MCSamplingAnalysis -------------------------
\* Two instances that nothing tells apart.
EXTENDS SamplingAnalysis, TLC

CONSTANTS i1, i2

MCSymmetry == Permutations({i1, i2})
=============================================================================
