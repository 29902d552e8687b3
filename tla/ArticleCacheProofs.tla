------------------------- MODULE ArticleCacheProofs -------------------------
(***************************************************************************)
(* Proofs about ArticleCache for any requests, any pages and any bounds.   *)
(*                                                                         *)
(* IInv is inductive.  Its four groups of conjuncts (types and locals,     *)
(* stamps, freshness, pages) are shown to survive a step one after the     *)
(* other, each with one leaf per action; the properties follow from it.    *)
(* When no millisecond is drawn twice, ArticleCache implements             *)
(* AcknowledgedReads: every step of the cached repository is a step of the *)
(* promise or a stutter.                                                   *)
(***************************************************************************)
EXTENDS ArticleCacheRefinement, TLAPS

USE ArticleCacheAssumption

\* The types, together with the locals each location has set.
LEMMA TypedStep ==
  ASSUME Typed, [Next]_vars
  PROVE  Typed'
<1> USE DEF Pcs, ReadPcs, WritePcs, shared, request, history,
      Typed, TypeOK, LocalsOK, Stamp
<1>1. ASSUME NEW r \in Req, ReadIndex(r) PROVE Typed'
  BY <1>1 DEF ReadIndex, Goto, Writing
<1>2. ASSUME NEW r \in Req, NEW p \in Pages, ReadPage(r, p) PROVE Typed'
  BY <1>2 DEF ReadPage, Writing
<1>3. ASSUME NEW r \in Req, VersionHit(r) PROVE Typed'
  BY <1>3 DEF VersionHit, Goto
<1>4. ASSUME NEW r \in Req, VersionMiss(r) PROVE Typed'
  BY <1>4 DEF VersionMiss, Goto
<1>5. ASSUME NEW r \in Req, SampleVersion(r) PROVE Typed'
  BY <1>5 DEF SampleVersion, DrawStamp, Goto
<1>6. ASSUME NEW r \in Req, StoreVersion(r) PROVE Typed'
  BY <1>6 DEF StoreVersion, PutVersion, Goto
<1>7. ASSUME NEW r \in Req, IndexHit(r) PROVE Typed'
  BY <1>7 DEF IndexHit, AfterList, Goto
<1>8. ASSUME NEW r \in Req, IndexMiss(r) PROVE Typed'
  BY <1>8 DEF IndexMiss, Goto
<1>9. ASSUME NEW r \in Req, Query(r) PROVE Typed'
  BY <1>9 DEF Query, Goto
<1>10. ASSUME NEW r \in Req, StoreIndex(r) PROVE Typed'
  BY <1>10 DEF StoreIndex, AfterList, Goto
<1>11. ASSUME NEW r \in Req, StorePage(r) PROVE Typed'
  BY <1>11 DEF StorePage, Goto
<1>12. ASSUME NEW r \in Req, Write(r) PROVE Typed'
  BY <1>12 DEF Write, Goto
<1>13. ASSUME NEW r \in Req, WriteNothing(r) PROVE Typed'
  BY <1>13 DEF WriteNothing, Goto
<1>14. ASSUME NEW r \in Req, ClearArticleCache(r) PROVE Typed'
  BY <1>14 DEF ClearArticleCache, Goto
<1>15. ASSUME NEW r \in Req, SampleFlush(r) PROVE Typed'
  BY <1>15 DEF SampleFlush, DrawStamp, Goto
<1>16. ASSUME NEW r \in Req, StoreFlush(r) PROVE Typed'
  BY <1>16 DEF StoreFlush, PutVersion, Goto
<1>17. ASSUME NEW r \in Req, Leave(r) PROVE Typed'
  BY <1>17 DEF Leave
<1>18. ASSUME NEW v \in Stamp, ExpireIndex(v) PROVE Typed'
  BY <1>18 DEF ExpireIndex
<1>19. ASSUME NEW p \in Pages, ExpirePage(p) PROVE Typed'
  BY <1>19 DEF ExpirePage
<1>20. ASSUME ClearAll PROVE Typed'
  BY <1>20 DEF ClearAll
<1>21. ASSUME Tick PROVE Typed'
  BY <1>21 DEF Tick
<1>22. CASE UNCHANGED vars
  BY <1>22 DEF vars
<1> QED
  BY <1>1, <1>2, <1>3, <1>4, <1>5, <1>6, <1>7, <1>8, <1>9, <1>10, <1>11,
     <1>12, <1>13, <1>14, <1>15, <1>16, <1>17, <1>18, <1>19, <1>20, <1>21, <1>22
  DEF Next, Read, Save, Respond, Die, Expire

\* What is stored is bounded by the table, and a pending stamp stays private.
LEMMA StampsStep ==
  ASSUME IInv, [Next]_vars
  PROVE  StampsInv'
<1> USE DEF Pcs, ReadPcs, WritePcs, shared, request, history, IInv,
      StampsInv, Bounded, StampsDrawn, PendingStampsUnused, Typed, TypeOK, LocalsOK, Stamp
<1>1. ASSUME NEW r \in Req, ReadIndex(r) PROVE StampsInv'
  BY <1>1 DEF ReadIndex, Goto, Writing
<1>2. ASSUME NEW r \in Req, NEW p \in Pages, ReadPage(r, p) PROVE StampsInv'
  BY <1>2 DEF ReadPage, Writing
<1>3. ASSUME NEW r \in Req, VersionHit(r) PROVE StampsInv'
  BY <1>3 DEF VersionHit, Goto
<1>4. ASSUME NEW r \in Req, VersionMiss(r) PROVE StampsInv'
  BY <1>4 DEF VersionMiss, Goto
<1>5. ASSUME NEW r \in Req, SampleVersion(r) PROVE StampsInv'
  BY <1>5 DEF SampleVersion, DrawStamp, Goto
<1>6. ASSUME NEW r \in Req, StoreVersion(r) PROVE StampsInv'
  BY <1>6 DEF StoreVersion, PutVersion, Goto
<1>7. ASSUME NEW r \in Req, IndexHit(r) PROVE StampsInv'
  BY <1>7 DEF IndexHit, AfterList, Goto
<1>8. ASSUME NEW r \in Req, IndexMiss(r) PROVE StampsInv'
  BY <1>8 DEF IndexMiss, Goto
<1>9. ASSUME NEW r \in Req, Query(r) PROVE StampsInv'
  BY <1>9 DEF Query, Goto
<1>10. ASSUME NEW r \in Req, StoreIndex(r) PROVE StampsInv'
  BY <1>10 DEF StoreIndex, AfterList, Goto
<1>11. ASSUME NEW r \in Req, StorePage(r) PROVE StampsInv'
  BY <1>11 DEF StorePage, Goto
<1>12. ASSUME NEW r \in Req, Write(r) PROVE StampsInv'
  BY <1>12 DEF Write, Goto
<1>13. ASSUME NEW r \in Req, WriteNothing(r) PROVE StampsInv'
  BY <1>13 DEF WriteNothing, Goto
<1>14. ASSUME NEW r \in Req, ClearArticleCache(r) PROVE StampsInv'
  BY <1>14 DEF ClearArticleCache, Goto
<1>15. ASSUME NEW r \in Req, SampleFlush(r) PROVE StampsInv'
  BY <1>15 DEF SampleFlush, DrawStamp, Goto
<1>16. ASSUME NEW r \in Req, StoreFlush(r) PROVE StampsInv'
  BY <1>16 DEF StoreFlush, PutVersion, Goto
<1>17. ASSUME NEW r \in Req, Leave(r) PROVE StampsInv'
  BY <1>17 DEF Leave
<1>18. ASSUME NEW v \in Stamp, ExpireIndex(v) PROVE StampsInv'
  BY <1>18 DEF ExpireIndex
<1>19. ASSUME NEW p \in Pages, ExpirePage(p) PROVE StampsInv'
  BY <1>19 DEF ExpirePage
<1>20. ASSUME ClearAll PROVE StampsInv'
  BY <1>20 DEF ClearAll
<1>21. ASSUME Tick PROVE StampsInv'
  BY <1>21 DEF Tick
<1>22. CASE UNCHANGED vars
  BY <1>22 DEF vars
<1> QED
  BY <1>1, <1>2, <1>3, <1>4, <1>5, <1>6, <1>7, <1>8, <1>9, <1>10, <1>11,
     <1>12, <1>13, <1>14, <1>15, <1>16, <1>17, <1>18, <1>19, <1>20, <1>21, <1>22
  DEF Next, Read, Save, Respond, Die, Expire

\* Freshness of the version in force, of every memoised version and of
\* every answer.
LEMMA FreshStep ==
  ASSUME IInv, [Next]_vars
  PROVE  FreshInv'
<1> USE DEF Pcs, ReadPcs, WritePcs, shared, request, history, IInv,
      FreshInv, CurrentVersionFresh, MemoFresh, AtLeast, ReadsAcknowledgedWrites,
      StampsInv, Bounded, StampsDrawn, PendingStampsUnused, Typed, TypeOK, LocalsOK, Stamp
<1>1. ASSUME NEW r \in Req, ReadIndex(r) PROVE FreshInv'
  BY <1>1 DEF ReadIndex, Goto, Writing
<1>2. ASSUME NEW r \in Req, NEW p \in Pages, ReadPage(r, p) PROVE FreshInv'
  BY <1>2 DEF ReadPage, Writing
<1>3. ASSUME NEW r \in Req, VersionHit(r) PROVE FreshInv'
  BY <1>3 DEF VersionHit, Goto
<1>4. ASSUME NEW r \in Req, VersionMiss(r) PROVE FreshInv'
  BY <1>4 DEF VersionMiss, Goto
<1>5. ASSUME NEW r \in Req, SampleVersion(r) PROVE FreshInv'
  BY <1>5 DEF SampleVersion, DrawStamp, Goto
<1>6. ASSUME NEW r \in Req, StoreVersion(r) PROVE FreshInv'
  BY <1>6 DEF StoreVersion, PutVersion, Goto
<1>7. ASSUME NEW r \in Req, IndexHit(r) PROVE FreshInv'
  BY <1>7 DEF IndexHit, AfterList, Goto
<1>8. ASSUME NEW r \in Req, IndexMiss(r) PROVE FreshInv'
  BY <1>8 DEF IndexMiss, Goto
<1>9. ASSUME NEW r \in Req, Query(r) PROVE FreshInv'
  BY <1>9 DEF Query, Goto
<1>10. ASSUME NEW r \in Req, StoreIndex(r) PROVE FreshInv'
  BY <1>10 DEF StoreIndex, AfterList, Goto
<1>11. ASSUME NEW r \in Req, StorePage(r) PROVE FreshInv'
  BY <1>11 DEF StorePage, Goto
<1>12. ASSUME NEW r \in Req, Write(r) PROVE FreshInv'
  BY <1>12 DEF Write, Goto
<1>13. ASSUME NEW r \in Req, WriteNothing(r) PROVE FreshInv'
  BY <1>13 DEF WriteNothing, Goto
<1>14. ASSUME NEW r \in Req, ClearArticleCache(r) PROVE FreshInv'
  BY <1>14 DEF ClearArticleCache, Goto
<1>15. ASSUME NEW r \in Req, SampleFlush(r) PROVE FreshInv'
  BY <1>15 DEF SampleFlush, DrawStamp, Goto
<1>16. ASSUME NEW r \in Req, StoreFlush(r) PROVE FreshInv'
  BY <1>16 DEF StoreFlush, PutVersion, Goto
<1>17. ASSUME NEW r \in Req, Leave(r) PROVE FreshInv'
  BY <1>17 DEF Leave
<1>18. ASSUME NEW v \in Stamp, ExpireIndex(v) PROVE FreshInv'
  BY <1>18 DEF ExpireIndex
<1>19. ASSUME NEW p \in Pages, ExpirePage(p) PROVE FreshInv'
  BY <1>19 DEF ExpirePage
<1>20. ASSUME ClearAll PROVE FreshInv'
  BY <1>20 DEF ClearAll
<1>21. ASSUME Tick PROVE FreshInv'
  BY <1>21 DEF Tick
<1>22. CASE UNCHANGED vars
  BY <1>22 DEF vars
<1> QED
  BY <1>1, <1>2, <1>3, <1>4, <1>5, <1>6, <1>7, <1>8, <1>9, <1>10, <1>11,
     <1>12, <1>13, <1>14, <1>15, <1>16, <1>17, <1>18, <1>19, <1>20, <1>21, <1>22
  DEF Next, Read, Save, Respond, Die, Expire

\* The copies kept under page keys.
LEMMA PagesStep ==
  ASSUME IInv, [Next]_vars
  PROVE  PagesInv'
<1> USE DEF Pcs, ReadPcs, WritePcs, shared, request, history, IInv,
      PagesInv, UndisturbedReaders, PagesOfSavers, StalePageRaced, Writing,
      FreshInv, ReadsAcknowledgedWrites, StampsInv, Bounded, Typed, TypeOK, LocalsOK, Stamp
<1>1. ASSUME NEW r \in Req, ReadIndex(r) PROVE PagesInv'
  BY <1>1 DEF ReadIndex, Goto, Writing
<1>2. ASSUME NEW r \in Req, NEW p \in Pages, ReadPage(r, p) PROVE PagesInv'
  <2>1. CASE page[p] # None
    <3>1. /\ pc' = [pc EXCEPT ![r] = "done"]
          /\ got' = [got EXCEPT ![r] = page[p]]
          /\ began' = [began EXCEPT ![r] = acked]
          /\ UNCHANGED <<page, acked, overlap, reused, raced>>
      BY <1>2, <2>1 DEF ReadPage
    <3>2. UndisturbedReaders'
      BY <1>2, <3>1 DEF ReadPage
    <3>3. PagesOfSavers' /\ StalePageRaced'
      BY <1>2, <3>1 DEF ReadPage
    <3> QED BY <3>2, <3>3
  <2>2. CASE page[p] = None
    <3>1. UndisturbedReaders'
      BY <1>2, <2>2 DEF ReadPage
    <3>2. PagesOfSavers' /\ StalePageRaced'
      BY <1>2, <2>2 DEF ReadPage
    <3> QED BY <3>1, <3>2
  <2> QED BY <2>1, <2>2
<1>3. ASSUME NEW r \in Req, VersionHit(r) PROVE PagesInv'
  BY <1>3 DEF VersionHit, Goto
<1>4. ASSUME NEW r \in Req, VersionMiss(r) PROVE PagesInv'
  BY <1>4 DEF VersionMiss, Goto
<1>5. ASSUME NEW r \in Req, SampleVersion(r) PROVE PagesInv'
  BY <1>5 DEF SampleVersion, DrawStamp, Goto
<1>6. ASSUME NEW r \in Req, StoreVersion(r) PROVE PagesInv'
  BY <1>6 DEF StoreVersion, PutVersion, Goto
<1>7. ASSUME NEW r \in Req, IndexHit(r) PROVE PagesInv'
  BY <1>7 DEF IndexHit, AfterList, Goto
<1>8. ASSUME NEW r \in Req, IndexMiss(r) PROVE PagesInv'
  BY <1>8 DEF IndexMiss, Goto
<1>9. ASSUME NEW r \in Req, Query(r) PROVE PagesInv'
  BY <1>9 DEF Query, Goto
<1>10. ASSUME NEW r \in Req, StoreIndex(r) PROVE PagesInv'
  BY <1>10 DEF StoreIndex, AfterList, Goto
<1>11. ASSUME NEW r \in Req, StorePage(r) PROVE PagesInv'
  BY <1>11 DEF StorePage, Goto
<1>12. ASSUME NEW r \in Req, Write(r) PROVE PagesInv'
  BY <1>12 DEF Write, Goto
<1>13. ASSUME NEW r \in Req, WriteNothing(r) PROVE PagesInv'
  BY <1>13 DEF WriteNothing, Goto
<1>14. ASSUME NEW r \in Req, ClearArticleCache(r) PROVE PagesInv'
  BY <1>14 DEF ClearArticleCache, Goto
<1>15. ASSUME NEW r \in Req, SampleFlush(r) PROVE PagesInv'
  BY <1>15 DEF SampleFlush, DrawStamp, Goto
<1>16. ASSUME NEW r \in Req, StoreFlush(r) PROVE PagesInv'
  BY <1>16 DEF StoreFlush, PutVersion, Goto
<1>17. ASSUME NEW r \in Req, Leave(r) PROVE PagesInv'
  BY <1>17 DEF Leave
<1>18. ASSUME NEW v \in Stamp, ExpireIndex(v) PROVE PagesInv'
  BY <1>18 DEF ExpireIndex
<1>19. ASSUME NEW p \in Pages, ExpirePage(p) PROVE PagesInv'
  BY <1>19 DEF ExpirePage
<1>20. ASSUME ClearAll PROVE PagesInv'
  BY <1>20 DEF ClearAll
<1>21. ASSUME Tick PROVE PagesInv'
  BY <1>21 DEF Tick
<1>22. CASE UNCHANGED vars
  BY <1>22 DEF vars
<1> QED
  BY <1>1, <1>2, <1>3, <1>4, <1>5, <1>6, <1>7, <1>8, <1>9, <1>10, <1>11,
     <1>12, <1>13, <1>14, <1>15, <1>16, <1>17, <1>18, <1>19, <1>20, <1>21, <1>22
  DEF Next, Read, Save, Respond, Die, Expire
-----------------------------------------------------------------------------
\* The initial state satisfies the inductive invariant.
LEMMA InitIInv == Init => IInv
  BY DEF Init, IInv, Typed, StampsInv, FreshInv, PagesInv, TypeOK, LocalsOK,
         Bounded, StampsDrawn, PendingStampsUnused, CurrentVersionFresh, AtLeast,
         MemoFresh, ReadsAcknowledgedWrites, UndisturbedReaders, PagesOfSavers,
         StalePageRaced, Stamp, Pcs, ReadPcs, WritePcs, Writing

\* IInv holds in every reachable state.
THEOREM Inductive == Spec => []IInv
<1>1. ASSUME IInv, [Next]_vars PROVE IInv'
  <2>1. Typed' BY <1>1, TypedStep DEF IInv
  <2>2. StampsInv' /\ FreshInv' /\ PagesInv'
    BY <1>1, StampsStep, FreshStep, PagesStep
  <2> QED BY <2>1, <2>2 DEF IInv
<1> QED
  BY InitIInv, <1>1, PTL DEF Spec

\* The variables keep their types.
THEOREM TypeCorrect == Spec => []TypeOK
<1>1. IInv => TypeOK
  BY DEF IInv, Typed
<1> QED
  BY Inductive, <1>1, PTL

\* The version in force never leads to a list older than an acknowledged write,
\* unless its millisecond was drawn twice.
THEOREM VersionAlwaysFresh == Spec => []VersionFresh
<1>1. IInv => VersionFresh
  BY DEF IInv, FreshInv, CurrentVersionFresh, AtLeast, VersionFresh
<1> QED
  BY Inductive, <1>1, PTL

\* An answer reflects every write acknowledged before its request began.
THEOREM AnswersReflectAcknowledgedWrites == Spec => []ReadsAcknowledgedWrites
<1>1. IInv => ReadsAcknowledgedWrites
  BY DEF IInv, FreshInv
<1> QED
  BY Inductive, <1>1, PTL

\* A page key that clearArticleCache names is stale only after a race.
THEOREM ForgottenPagesStaleOnlyByRace == Spec => []StalePageRaced
<1>1. IInv => StalePageRaced
  BY DEF IInv, PagesInv
<1> QED
  BY Inductive, <1>1, PTL

-----------------------------------------------------------------------------
(* Healing: the part of PagesHeal that does not depend on fairness.        *)

\* A request that is not at "store", or at "storePage", after a step holds no old
\* list there.
LEMMA NewHolders ==
  ASSUME Typed, [Next]_vars, db' = db
  PROVE  /\ StaleQueries' \subseteq StaleQueries
         /\ StaleQueries = {} /\ StaleLists = {} => StaleFills' \subseteq StaleFills
<1> USE DEF Pcs, ReadPcs, WritePcs, shared, request, history, StaleQueries, StaleLists,
      StaleFills, Typed, TypeOK, LocalsOK, Stamp
<1> DEFINE Q == /\ StaleQueries' \subseteq StaleQueries
                /\ StaleQueries = {} /\ StaleLists = {} => StaleFills' \subseteq StaleFills
<1>1. ASSUME NEW r \in Req, ReadIndex(r) PROVE Q
  BY <1>1 DEF ReadIndex, Goto
<1>2. ASSUME NEW r \in Req, NEW p \in Pages, ReadPage(r, p) PROVE Q
  BY <1>2 DEF ReadPage
<1>3. ASSUME NEW r \in Req, VersionHit(r) PROVE Q
  BY <1>3 DEF VersionHit, Goto
<1>4. ASSUME NEW r \in Req, VersionMiss(r) PROVE Q
  BY <1>4 DEF VersionMiss, Goto
<1>5. ASSUME NEW r \in Req, SampleVersion(r) PROVE Q
  BY <1>5 DEF SampleVersion, DrawStamp, Goto
<1>6. ASSUME NEW r \in Req, StoreVersion(r) PROVE Q
  BY <1>6 DEF StoreVersion, PutVersion, Goto
<1>7. ASSUME NEW r \in Req, IndexHit(r) PROVE Q
  BY <1>7 DEF IndexHit, AfterList, Goto
<1>8. ASSUME NEW r \in Req, IndexMiss(r) PROVE Q
  BY <1>8 DEF IndexMiss, Goto
<1>9. ASSUME NEW r \in Req, Query(r) PROVE Q
  BY <1>9 DEF Query, Goto
<1>10. ASSUME NEW r \in Req, StoreIndex(r) PROVE Q
  BY <1>10 DEF StoreIndex, AfterList, Goto
<1>11. ASSUME NEW r \in Req, StorePage(r) PROVE Q
  BY <1>11 DEF StorePage, Goto
<1>12. ASSUME NEW r \in Req, Write(r) PROVE Q
  BY <1>12 DEF Write, Goto
<1>13. ASSUME NEW r \in Req, WriteNothing(r) PROVE Q
  BY <1>13 DEF WriteNothing, Goto
<1>14. ASSUME NEW r \in Req, Save(r) PROVE Q
  BY <1>14 DEF Save, ClearArticleCache, SampleFlush, DrawStamp, StoreFlush, PutVersion, Goto
<1>15. ASSUME NEW r \in Req, Leave(r) PROVE Q
  BY <1>15 DEF Leave
<1>16. CASE Expire \/ ClearAll \/ Tick \/ UNCHANGED vars
  <2>1. UNCHANGED <<request, db>>
    BY <1>16 DEF Expire, ExpireIndex, ExpirePage, ClearAll, Tick, vars
  <2> QED
    BY <2>1
<1> QED
  BY <1>1, <1>2, <1>3, <1>4, <1>5, <1>6, <1>7, <1>8, <1>9, <1>10, <1>11,
     <1>12, <1>13, <1>14, <1>15, <1>16
  DEF Next, Read, Respond, Die

\* What is stored is what a request held.
LEMMA NewCopies ==
  ASSUME Typed, [Next]_vars, db' = db
  PROVE  /\ StaleQueries = {} => StaleLists' \subseteq StaleLists
         /\ StaleFills = {} => StalePages' \subseteq StalePages
<1> USE DEF Pcs, ReadPcs, WritePcs, shared, request, history, StaleQueries, StaleLists,
      StaleFills, StalePages, Typed, TypeOK, LocalsOK, Stamp
<1>1. CASE \E r \in Req : StoreIndex(r)
  BY <1>1 DEF StoreIndex, Goto
<1>2. CASE \E r \in Req : StorePage(r)
  BY <1>2 DEF StorePage, Goto
<1>3. CASE \E r \in Req : ClearArticleCache(r)
  BY <1>3 DEF ClearArticleCache
<1>4. CASE Expire \/ ClearAll
  BY <1>4 DEF Expire, ExpireIndex, ExpirePage, ClearAll
<1>5. CASE UNCHANGED <<entry, page>>
  BY <1>5
<1>6. \/ UNCHANGED <<entry, page>> \/ Expire \/ ClearAll
      \/ \E r \in Req : StoreIndex(r) \/ StorePage(r) \/ ClearArticleCache(r)
  BY DEF Next, Read, Save, Respond, Die, ReadIndex, ReadPage, VersionHit, VersionMiss,
         SampleVersion, StoreVersion, IndexHit, IndexMiss, Query, Write, WriteNothing,
         SampleFlush, StoreFlush, Leave, Tick, vars
<1> QED
  BY <1>1, <1>2, <1>3, <1>4, <1>5, <1>6

\* While the table does not change, no request, no list and no page comes to hold
\* an old one, each once what it is filled from is healed.
THEOREM HealingIsKept == Spec => HealingKept
<1>1. IInv /\ [Next]_vars =>
        [db' = db =>
           /\ StaleQueries' \subseteq StaleQueries
           /\ StaleQueries = {} => StaleLists' \subseteq StaleLists
           /\ StaleQueries = {} /\ StaleLists = {} => StaleFills' \subseteq StaleFills
           /\ StaleFills = {} => StalePages' \subseteq StalePages]_vars
  BY NewHolders, NewCopies DEF IInv
<1> QED
  BY <1>1, Inductive, PTL DEF Spec, HealingKept

\* So what is healed stays so until the next write.
THEOREM HealedUntilNextWrite == Spec => [](Healed /\ [][db' = db]_vars => []Healed)
<1>1. ASSUME Typed, [Next]_vars, [db' = db]_vars, Healed
      PROVE  Healed'
  <2>1. db' = db
    BY <1>1 DEF vars, shared
  <2> QED
    BY <1>1, <2>1, NewHolders, NewCopies DEF Healed
<1>2. IInv /\ [Next]_vars /\ [db' = db]_vars /\ Healed => Healed'
  BY <1>1 DEF IInv
<1> QED
  BY <1>2, Inductive, PTL DEF Spec

\* A step of a request that holds an old list, and the end of the time to live of
\* a list or a page that does, heal what they are about.
THEOREM StepsAreHealing == Spec => StepsHeal
<1> DEFINE H == /\ \A r \in Req : Read(r) =>
                    /\ r \in StaleQueries => r \notin StaleQueries'
                    /\ r \in StaleFills => r \notin StaleFills'
                /\ \A v \in Stamp : ExpireIndex(v) => v \notin StaleLists'
                /\ \A p \in Pages : ExpirePage(p) => p \notin StalePages'
<1>1. ASSUME Typed PROVE H
  <2> USE DEF Typed, TypeOK, LocalsOK, Pcs, ReadPcs, WritePcs
  <2>1. ASSUME NEW r \in Req, Read(r)
        PROVE  /\ r \in StaleQueries => r \notin StaleQueries'
               /\ r \in StaleFills => r \notin StaleFills'
    BY <1>1, <2>1 DEF Read, Goto, AfterList, VersionHit, VersionMiss, SampleVersion,
       StoreVersion, IndexHit, IndexMiss, Query, StoreIndex, StorePage, StaleQueries,
       StaleFills
  <2>2. ASSUME NEW v \in Stamp, ExpireIndex(v) PROVE v \notin StaleLists'
    BY <1>1, <2>2 DEF ExpireIndex, StaleLists
  <2>3. ASSUME NEW p \in Pages, ExpirePage(p) PROVE p \notin StalePages'
    BY <1>1, <2>3 DEF ExpirePage, StalePages
  <2> QED
    BY <2>1, <2>2, <2>3
<1>2. IInv /\ [Next]_vars => [H]_vars
  BY <1>1 DEF IInv
<1> QED
  BY <1>2, Inductive, PTL DEF Spec, StepsHeal

-----------------------------------------------------------------------------
(* Refinement.                                                             *)

\* No stamp is in reused while every draw is of a new millisecond.
NothingReused == DistinctStamps => reused = {}

\* No step reuses a millisecond.
LEMMA NothingReusedStep ==
  ASSUME NothingReused, [Next]_vars
  PROVE  NothingReused'
BY DEF NothingReused, Next, Read, Save, Respond, Die, Expire, ReadIndex, ReadPage,
       VersionHit, VersionMiss, SampleVersion, StoreVersion, IndexHit, IndexMiss,
       Query, StoreIndex, StorePage, Write, WriteNothing, ClearArticleCache,
       SampleFlush, StoreFlush, DrawStamp, Leave, ExpireIndex, ExpirePage, ClearAll,
       Tick, vars, shared, request, history

\* Only a request that reads, or has its answer, has a page to fill.
TargetsOfReaders ==
  \A r \in Req : pc[r] = "idle" \/ pc[r] \in WritePcs => target[r] = None

\* Every step keeps pages to readers.
LEMMA TargetsStep ==
  ASSUME TypeOK, TargetsOfReaders, [Next]_vars
  PROVE  TargetsOfReaders'
<1> USE DEF TargetsOfReaders, TypeOK, Pcs, ReadPcs, WritePcs, shared, request, history
<1>1. ASSUME NEW r \in Req, ReadIndex(r) PROVE TargetsOfReaders'
  BY <1>1 DEF ReadIndex, Goto
<1>2. ASSUME NEW r \in Req, NEW p \in Pages, ReadPage(r, p) PROVE TargetsOfReaders'
  BY <1>2 DEF ReadPage
<1>3. ASSUME NEW r \in Req, Read(r) PROVE TargetsOfReaders'
  BY <1>3 DEF Read, Goto, AfterList, VersionHit, VersionMiss, SampleVersion, StoreVersion,
              IndexHit, IndexMiss, Query, StoreIndex, StorePage
<1>4. ASSUME NEW r \in Req, Save(r) \/ Write(r) \/ WriteNothing(r) PROVE TargetsOfReaders'
  BY <1>4 DEF Save, Write, WriteNothing, Goto, ClearArticleCache, SampleFlush, StoreFlush
<1>5. ASSUME NEW r \in Req, Leave(r) PROVE TargetsOfReaders'
  BY <1>5 DEF Leave
<1>6. CASE Expire \/ ClearAll \/ Tick \/ UNCHANGED vars
  BY <1>6 DEF Expire, ExpireIndex, ExpirePage, ClearAll, Tick, vars
<1> QED
  BY <1>1, <1>2, <1>3, <1>4, <1>5, <1>6 DEF Next, Respond, Die

Facts == IInv /\ NothingReused /\ TargetsOfReaders

\* The three variables of the promise that are computed from those of the cache.
Phase == [r \in Req |-> AbsPhase(r)]
Low   == [r \in Req |-> AbsLow(r)]
Seen  == [r \in Req |-> AbsSeen(r)]

\* A step that leaves what the promise sees of every request alone stutters.
LEMMA Stutters ==
  ASSUME db' = db, acked' = acked,
         \A r \in Req : /\ AbsPhase(r)' = AbsPhase(r)
                        /\ AbsLow(r)' = AbsLow(r) /\ AbsSeen(r)' = AbsSeen(r)
  PROVE  UNCHANGED Promise!vars
<1>1. Phase' = Phase /\ Low' = Low /\ Seen' = Seen
  BY DEF Phase, Low, Seen
<1> QED
  BY <1>1 DEF Promise!vars, Phase, Low, Seen

\* What the step of one request does to the variables of the promise.
LEMMA OneRequest ==
  ASSUME NEW r \in Req, NEW ph, NEW lo, NEW se,
         AbsPhase(r)' = ph, AbsLow(r)' = lo, AbsSeen(r)' = se,
         \A q \in Req \ {r} : /\ AbsPhase(q)' = AbsPhase(q)
                              /\ AbsLow(q)' = AbsLow(q) /\ AbsSeen(q)' = AbsSeen(q)
  PROVE  /\ Phase[r] = AbsPhase(r) /\ Phase' = [Phase EXCEPT ![r] = ph]
         /\ Low' = [Low EXCEPT ![r] = lo] /\ (lo = AbsLow(r) => Low' = Low)
         /\ Seen[r] = AbsSeen(r) /\ Low[r] = AbsLow(r)
         /\ Seen' = [Seen EXCEPT ![r] = se] /\ (se = AbsSeen(r) => Seen' = Seen)
<1>1. Phase' = [Phase EXCEPT ![r] = ph] /\ Phase[r] = AbsPhase(r)
  BY DEF Phase
<1>2. Low' = [Low EXCEPT ![r] = lo] /\ Low[r] = AbsLow(r) /\ (lo = AbsLow(r) => Low' = Low)
  BY DEF Low
<1>3. Seen' = [Seen EXCEPT ![r] = se] /\ Seen[r] = AbsSeen(r)
      /\ (se = AbsSeen(r) => Seen' = Seen)
  BY DEF Seen
<1> QED
  BY <1>1, <1>2, <1>3

\* Every step of the cached repository is a step of the promise or a stutter.
LEMMA RefinesStep ==
  ASSUME Facts, DistinctStamps, [Next]_vars
  PROVE  [Promise!Next]_(Promise!vars)
<1> USE ArticleCacheAssumption
    DEF Pcs, ReadPcs, WritePcs, shared, request, history, Facts, IInv, NothingReused,
      TargetsOfReaders, Typed, TypeOK, LocalsOK, Stamp, AbsPhase, AbsLow, AbsSeen
<1>1. ASSUME NEW r \in Req, VersionHit(r) PROVE UNCHANGED Promise!vars
  BY <1>1, Stutters DEF VersionHit, Goto
<1>2. ASSUME NEW r \in Req, VersionMiss(r) PROVE UNCHANGED Promise!vars
  BY <1>2, Stutters DEF VersionMiss, Goto
<1>3. ASSUME NEW r \in Req, SampleVersion(r) PROVE UNCHANGED Promise!vars
  BY <1>3, Stutters DEF SampleVersion, DrawStamp, Goto
<1>4. ASSUME NEW r \in Req, StoreVersion(r) PROVE UNCHANGED Promise!vars
  BY <1>4, Stutters DEF StoreVersion, PutVersion, Goto
<1>5. ASSUME NEW r \in Req, IndexMiss(r) PROVE UNCHANGED Promise!vars
  BY <1>5, Stutters DEF IndexMiss, Goto
<1>6. ASSUME NEW r \in Req, Query(r) PROVE UNCHANGED Promise!vars
  BY <1>6, Stutters DEF Query, Goto
<1>7. ASSUME NEW r \in Req, StorePage(r) PROVE UNCHANGED Promise!vars
  BY <1>7, Stutters DEF StorePage, Goto
<1>8. ASSUME NEW r \in Req, ClearArticleCache(r) PROVE UNCHANGED Promise!vars
  BY <1>8, Stutters DEF ClearArticleCache, Goto
<1>9. ASSUME NEW r \in Req, SampleFlush(r) PROVE UNCHANGED Promise!vars
  BY <1>9, Stutters DEF SampleFlush, DrawStamp, Goto
<1>10. ASSUME NEW r \in Req, NEW p \in Pages, ReadPage(r, p) PROVE UNCHANGED Promise!vars
  <2>1. pc[r] = "idle" /\ memo[r] = None /\ target' = [target EXCEPT ![r] = p] /\ p # None
        /\ UNCHANGED <<db, acked, memo>> /\ (\A q \in Req \ {r} : began'[q] = began[q])
    BY <1>10 DEF ReadPage
  <2>2. \E there \in {"done", "version"} : pc' = [pc EXCEPT ![r] = there]
    BY <1>10 DEF ReadPage
  <2>3. \A q \in Req \ {r} : got'[q] = got[q]
    BY <1>10 DEF ReadPage
  <2>4. target[r] # None => AbsPhase(r) = "idle"
    BY <2>1
  <2>5. ASSUME NEW q \in Req
        PROVE  AbsPhase(q)' = AbsPhase(q) /\ AbsLow(q)' = AbsLow(q)
               /\ AbsSeen(q)' = AbsSeen(q)
    BY <2>1, <2>2, <2>3
  <2> QED
    BY <2>1, <2>5, Stutters
<1>11. CASE \/ \E v \in Stamp : ExpireIndex(v)
            \/ \E p \in Pages : ExpirePage(p)
            \/ ClearAll \/ Tick \/ UNCHANGED vars
  <2>1. db' = db /\ UNCHANGED <<request, history>>
    BY <1>11 DEF ExpireIndex, ExpirePage, ClearAll, Tick, vars
  <2> QED
    BY <2>1, Stutters
<1>13. ASSUME NEW r \in Req, ReadIndex(r) PROVE Promise!Ask(r)
  <2>1. pc[r] = "idle" /\ target[r] = None /\ memo[r] = None /\ got[r] = None
    BY <1>13 DEF ReadIndex, Goto
  <2>2. /\ pc' = [pc EXCEPT ![r] = "version"] /\ began' = [began EXCEPT ![r] = acked]
        /\ UNCHANGED <<db, acked, target, memo, got>>
    BY <1>13 DEF ReadIndex, Goto
  <2>3. AbsPhase(r) = "idle" /\ AbsLow(r) = 0 /\ AbsSeen(r) = None
    BY <2>1
  <2>4. AbsPhase(r)' = "reading" /\ AbsLow(r)' = acked /\ AbsSeen(r)' = None
    BY <2>1, <2>2
  <2>5. \A q \in Req \ {r} : /\ AbsPhase(q)' = AbsPhase(q)
                             /\ AbsLow(q)' = AbsLow(q) /\ AbsSeen(q)' = AbsSeen(q)
    BY <2>2
  <2> HIDE DEF AbsPhase, AbsLow, AbsSeen
  <2>6. /\ Phase[r] = "idle" /\ Phase' = [Phase EXCEPT ![r] = "reading"]
        /\ Low' = [Low EXCEPT ![r] = acked] /\ Seen' = Seen
    BY <2>3, <2>4, <2>5, OneRequest
  <2> QED
    BY <2>2, <2>6 DEF Promise!Ask, Promise!Move, Phase, Low, Seen
\* IndexHit and StoreIndex: the request has its list.
<1>14. ASSUME NEW r \in Req, pc[r] \in {"lookup", "store"}, target[r] = None,
              pc' = [pc EXCEPT ![r] = "done"], memo[r] # None, memo' = memo,
              UNCHANGED <<db, acked, target, began>>,
              \A q \in Req \ {r} : got'[q] = got[q],
              got'[r] \in began[r] .. db
       PROVE  Promise!Answer(r)
  <2>1. AbsPhase(r) = "reading" /\ AbsLow(r) = began[r] /\ AbsSeen(r) = None
    BY <1>14
  <2>2. AbsPhase(r)' = "answered" /\ AbsLow(r)' = began[r] /\ AbsSeen(r)' = got'[r]
    BY <1>14
  <2>3. \A q \in Req \ {r} : /\ AbsPhase(q)' = AbsPhase(q)
                             /\ AbsLow(q)' = AbsLow(q) /\ AbsSeen(q)' = AbsSeen(q)
    BY <1>14
  <2> HIDE DEF AbsPhase, AbsLow, AbsSeen
  <2>4. /\ Phase[r] = "reading" /\ Phase' = [Phase EXCEPT ![r] = "answered"]
        /\ Low[r] = began[r] /\ Low' = Low /\ Seen' = [Seen EXCEPT ![r] = got'[r]]
    BY <2>1, <2>2, <2>3, OneRequest
  <2> QED
    BY <1>14, <2>4 DEF Promise!Answer, Promise!Move, Phase, Low, Seen
<1>15. ASSUME NEW r \in Req, IndexHit(r), target[r] # None PROVE UNCHANGED Promise!vars
  BY <1>15, Stutters DEF IndexHit, Goto, AfterList
<1>16. ASSUME NEW r \in Req, StoreIndex(r), target[r] # None PROVE UNCHANGED Promise!vars
  BY <1>16, Stutters DEF StoreIndex, Goto, AfterList
<1>17. ASSUME NEW r \in Req, IndexHit(r), target[r] = None PROVE Promise!Answer(r)
  <2>1. memo[r] # None /\ memo[r] \in Stamp /\ memo[r] \notin reused
    BY <1>17 DEF IndexHit, Goto
  <2>2. entry[memo[r]] \in began[r] .. db
    BY <1>17, <2>1 DEF IndexHit, FreshInv, MemoFresh, AtLeast, StampsInv, Bounded
  <2> QED
    BY <1>14, <1>17, <2>1, <2>2 DEF IndexHit, Goto, AfterList
<1>18. ASSUME NEW r \in Req, StoreIndex(r), target[r] = None PROVE Promise!Answer(r)
  <2>1. memo[r] # None /\ memo[r] \in Stamp /\ memo[r] \notin reused /\ got[r] # None
    BY <1>18 DEF StoreIndex, Goto
  <2>2. got[r] \in began[r] .. db
    BY <1>18, <2>1 DEF StoreIndex, Goto, FreshInv, MemoFresh, AtLeast, StampsInv, Bounded
  <2> QED
    BY <1>14, <1>18, <2>1, <2>2 DEF StoreIndex, Goto, AfterList
<1>19. ASSUME NEW r \in Req, Write(r) PROVE Promise!Save(r)
  <2>1. /\ pc[r] = "idle" /\ target[r] = None /\ memo[r] = None
        /\ pc' = [pc EXCEPT ![r] = "forget"] /\ got' = [got EXCEPT ![r] = db + 1]
        /\ db < MaxWrites /\ db' = db + 1
        /\ UNCHANGED <<acked, target, memo, began>>
    BY <1>19 DEF Write, Goto
  <2>2. AbsPhase(r) = "idle" /\ AbsLow(r) = 0
        /\ AbsPhase(r)' = "saving" /\ AbsLow(r)' = 0 /\ AbsSeen(r)' = db + 1
    BY <2>1
  <2>3. \A q \in Req \ {r} : /\ AbsPhase(q)' = AbsPhase(q)
                             /\ AbsLow(q)' = AbsLow(q) /\ AbsSeen(q)' = AbsSeen(q)
    BY <2>1
  <2> HIDE DEF AbsPhase, AbsLow, AbsSeen
  <2>4. /\ Phase[r] = "idle" /\ Phase' = [Phase EXCEPT ![r] = "saving"]
        /\ Low' = Low /\ Seen' = [Seen EXCEPT ![r] = db + 1]
    BY <2>2, <2>3, OneRequest
  <2> QED
    BY <2>1, <2>4 DEF Promise!Save, Promise!Move, Phase, Low, Seen
<1>20. ASSUME NEW r \in Req, WriteNothing(r) PROVE Promise!Touch(r)
  <2>1. /\ pc[r] = "idle" /\ target[r] = None /\ memo[r] = None /\ got[r] = None
        /\ pc' = [pc EXCEPT ![r] = "flush"]
        /\ UNCHANGED <<db, acked, target, memo, got, began>>
    BY <1>20 DEF WriteNothing, Goto
  <2>2. AbsPhase(r) = "idle" /\ AbsLow(r) = 0 /\ AbsSeen(r) = None
        /\ AbsPhase(r)' = "saving" /\ AbsLow(r)' = 0 /\ AbsSeen(r)' = None
    BY <2>1
  <2>3. \A q \in Req \ {r} : /\ AbsPhase(q)' = AbsPhase(q)
                             /\ AbsLow(q)' = AbsLow(q) /\ AbsSeen(q)' = AbsSeen(q)
    BY <2>1
  <2> HIDE DEF AbsPhase, AbsLow, AbsSeen
  <2>4. /\ Phase[r] = "idle" /\ Phase' = [Phase EXCEPT ![r] = "saving"]
        /\ Low' = Low /\ Seen' = Seen
    BY <2>2, <2>3, OneRequest
  <2> QED
    BY <2>1, <2>4 DEF Promise!Touch, Promise!Move, Phase, Low, Seen
<1>21. ASSUME NEW r \in Req, StoreFlush(r) PROVE Promise!Acknowledge(r)
  <2>1. /\ pc[r] = "putFlush" /\ target[r] = None
        /\ pc' = [pc EXCEPT ![r] = "done"] /\ memo' = [memo EXCEPT ![r] = None]
        /\ acked' = IF got[r] # None /\ got[r] > acked THEN got[r] ELSE acked
        /\ UNCHANGED <<db, target, got, began>>
    BY <1>21 DEF StoreFlush, PutVersion, Goto
  <2>2. AbsPhase(r) = "saving" /\ AbsLow(r) = 0 /\ AbsSeen(r) = got[r]
        /\ AbsPhase(r)' = "idle" /\ AbsLow(r)' = 0 /\ AbsSeen(r)' = None
    BY <2>1
  <2>3. \A q \in Req \ {r} : /\ AbsPhase(q)' = AbsPhase(q)
                             /\ AbsLow(q)' = AbsLow(q) /\ AbsSeen(q)' = AbsSeen(q)
    BY <2>1
  <2> HIDE DEF AbsPhase, AbsLow, AbsSeen
  <2>4. /\ Phase[r] = "saving" /\ Phase' = [Phase EXCEPT ![r] = "idle"]
        /\ Low' = Low /\ Seen[r] = got[r] /\ Seen' = [Seen EXCEPT ![r] = None]
    BY <2>2, <2>3, OneRequest
  <2> QED
    BY <2>1, <2>4 DEF Promise!Acknowledge, Promise!Move, Phase, Low, Seen
<1>22. ASSUME NEW r \in Req, Leave(r) PROVE Promise!Leave(r) \/ UNCHANGED Promise!vars
  <2>1. /\ pc' = [pc EXCEPT ![r] = "idle"] /\ target' = [target EXCEPT ![r] = None]
        /\ memo' = [memo EXCEPT ![r] = None] /\ got' = [got EXCEPT ![r] = None]
        /\ began' = [began EXCEPT ![r] = 0] /\ UNCHANGED <<db, acked>>
    BY <1>22 DEF Leave
  <2>2. AbsPhase(r)' = "idle" /\ AbsLow(r)' = 0 /\ AbsSeen(r)' = None
    BY <2>1
  <2>3. \A q \in Req \ {r} : /\ AbsPhase(q)' = AbsPhase(q)
                             /\ AbsLow(q)' = AbsLow(q) /\ AbsSeen(q)' = AbsSeen(q)
    BY <2>1
  <2>4. CASE AbsPhase(r) = "idle"
    <3>1. AbsLow(r) = 0 /\ AbsSeen(r) = None
      BY <2>4
    <3> HIDE DEF AbsPhase, AbsLow, AbsSeen
    <3> QED
      BY <2>1, <2>2, <2>3, <2>4, <3>1, Stutters
  <2>5. CASE AbsPhase(r) # "idle"
    <3> HIDE DEF AbsPhase, AbsLow, AbsSeen
    <3>1. /\ Phase[r] # "idle" /\ Phase' = [Phase EXCEPT ![r] = "idle"]
          /\ Low' = [Low EXCEPT ![r] = 0] /\ Seen' = [Seen EXCEPT ![r] = None]
      BY <2>2, <2>3, <2>5, OneRequest
    <3> QED
      BY <2>1, <3>1 DEF Promise!Leave, Phase, Low, Seen
  <2> QED
    BY <2>4, <2>5
<1> HIDE DEF Pcs, ReadPcs, WritePcs, shared, request, history, Facts, IInv, NothingReused,
      TargetsOfReaders, Typed, TypeOK, LocalsOK, Stamp, AbsPhase, AbsLow, AbsSeen
<1> QED
  BY <1>1, <1>2, <1>3, <1>4, <1>5, <1>6, <1>7, <1>8, <1>9, <1>10, <1>11, <1>13, <1>15,
     <1>16, <1>17, <1>18, <1>19, <1>20, <1>21, <1>22
  DEF Next, Read, Save, Respond, Die, Expire, Promise!Next

\* When no two calls of now() give the same millisecond, the cache is invisible
\* to the callers of the repository.
THEOREM Implements ==
  ASSUME DistinctStamps
  PROVE  Spec => KeepsPromise
<1>1. ASSUME Init PROVE Promise!Init /\ NothingReused /\ TargetsOfReaders
  <2>1. /\ Phase = [r \in Req |-> "idle"] /\ Low = [r \in Req |-> 0]
        /\ Seen = [r \in Req |-> None]
    BY <1>1 DEF Init, Phase, Low, Seen, AbsPhase, AbsLow, AbsSeen, WritePcs, ReadPcs
  <2> QED
    BY <1>1, <2>1 DEF Init, Promise!Init, Phase, Low, Seen, NothingReused, TargetsOfReaders
<1>2. ASSUME IInv, NothingReused, TargetsOfReaders, [Next]_vars
      PROVE  NothingReused' /\ TargetsOfReaders'
  BY <1>2, NothingReusedStep, TargetsStep DEF IInv, Typed
<1>3. ASSUME IInv, NothingReused, TargetsOfReaders, [Next]_vars
      PROVE  [Promise!Next]_(Promise!vars)
  BY <1>3, RefinesStep DEF Facts
<1> QED
  BY <1>1, <1>2, <1>3, Inductive, PTL DEF Spec, KeepsPromise, Promise!Spec

=============================================================================
