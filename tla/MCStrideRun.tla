---------------------------- MODULE MCStrideRun ----------------------------
\* StrideRun for TLC.
EXTENDS StrideRun, TLC

Procs == Permutations(P)
=============================================================================
