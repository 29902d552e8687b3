--------------------------- MODULE MCLayeredPages ---------------------------
\* Small instances of LayeredPages for TLC.
EXTENDS LayeredPagesRefinement, TLC

Symmetry == Permutations(Req)
=============================================================================
