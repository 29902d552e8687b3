----------------------------- MODULE MCSiteFeeds -----------------------------
\* Small instances of SiteFeeds for TLC.
EXTENDS SiteFeeds, TLC

Symmetry == Permutations(Visitor)
=============================================================================
