---------------------------- MODULE MCPipelineRun ----------------------------
EXTENDS PipelineRun, TLC

CONSTANTS i1, i2

MCSymmetry == Permutations(Instances)
=============================================================================
