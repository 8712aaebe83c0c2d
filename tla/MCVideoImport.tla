---------------------------- MODULE MCVideoImport ----------------------------
EXTENDS VideoImport, TLC
=============================================================================
