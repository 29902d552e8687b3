--------------------------- MODULE MCYoutubeQuota ---------------------------
\* Small instances of YoutubeQuota for TLC.
EXTENDS YoutubeQuota, TLC

Symmetry == Permutations(Req) \cup Permutations(Video)
=============================================================================
