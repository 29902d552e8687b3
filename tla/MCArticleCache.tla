--------------------------- MODULE MCArticleCache ---------------------------
\* Small instances of ArticleCache for TLC.
EXTENDS ArticleCacheRefinement, TLC

\* Requests are interchangeable in the runs that check no temporal property.
Symmetry == Permutations(Req)
=============================================================================
