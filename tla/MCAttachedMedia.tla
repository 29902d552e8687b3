-------------------------- MODULE MCAttachedMedia --------------------------
\* Small instances of AttachedMedia for TLC.
EXTENDS AttachedMedia, TLC

Symmetry == Permutations(Editor) \cup Permutations(Item)
            \cup Permutations(Image) \cup Permutations(Slug)
=============================================================================
