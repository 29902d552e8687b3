----------------------- MODULE ArticleCacheRefinement -----------------------
(***************************************************************************)
(* ArticleCache implements AcknowledgedReads.  A request for a page is not *)
(* a caller of the repository but of the page key, for which nothing is    *)
(* promised: it shows as idle.                                             *)
(***************************************************************************)
EXTENDS ArticleCache

AbsPhase(r) ==
  IF pc[r] \in WritePcs THEN "saving"
  ELSE IF target[r] # None THEN "idle"
  ELSE IF pc[r] \in ReadPcs THEN "reading"
  ELSE IF pc[r] = "done" /\ memo[r] # None THEN "answered"
  ELSE "idle"

AbsLow(r) == IF AbsPhase(r) \in {"reading", "answered"} THEN began[r] ELSE 0

AbsSeen(r) == IF AbsPhase(r) \in {"saving", "answered"} THEN got[r] ELSE None

Promise == INSTANCE AcknowledgedReads WITH
  published <- db,
  phase <- [r \in Req |-> AbsPhase(r)],
  low <- [r \in Req |-> AbsLow(r)],
  seen <- [r \in Req |-> AbsSeen(r)]

\* The cached repository keeps the promise of AcknowledgedReads: version(),
\* remember() and flushCache() between them hide the cache from the callers of
\* index() as long as no millisecond is drawn twice.
KeepsPromise == Promise!Spec
=============================================================================
