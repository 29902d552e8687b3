---------------------------- MODULE MCVideoCache ----------------------------
\* Small instances of VideoCache for TLC.
EXTENDS VideoCache, TLC

Symmetry == Permutations(Req) \cup Permutations(Type)
=============================================================================
