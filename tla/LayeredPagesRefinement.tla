----------------------- MODULE LayeredPagesRefinement -----------------------
(***************************************************************************)
(* LayeredPages implements AgedPage: the page shows its own copy as long   *)
(* as that is kept.  What a page shows that fills its copy is the copy.    *)
(***************************************************************************)
EXTENDS LayeredPages

Shown ==
  IF Kept(front) THEN [asOf |-> front.asOf, saw |-> front.saw, failed |-> front.failed]
                 ELSE None

Page == INSTANCE AgedPage WITH Age <- Front + Stale + Slow, Delay <- Front + Span,
                               versioned <- Versioned, shown <- Shown

\* The page's copy, the list below it and the refresh behind the answer show a
\* reader what AgedPage allows, however the requests, saves and failures
\* interleave (FrontEndController 77-273, ArticleRepository 302-519).
ShowsAnAgedPage == Page!Spec
=============================================================================
