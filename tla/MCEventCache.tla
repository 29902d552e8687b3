---------------------------- MODULE MCEventCache ----------------------------
\* Small instances of EventCache for TLC.
EXTENDS EventCache, TLC

CONSTANTS p1, p2, p3

\* Two posters of one width and a third of another.
MCPosters == {p1, p2, p3}
MCWidth   == [p \in MCPosters |-> IF p = p3 THEN 2 ELSE 1]

Symmetry == Permutations(Editor) \cup Permutations({p1, p2})
=============================================================================
