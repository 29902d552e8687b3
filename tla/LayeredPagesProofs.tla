------------------------- MODULE LayeredPagesProofs -------------------------
(***************************************************************************)
(* Proofs about LayeredPages for any requests, times to live, and bounds.  *)
(*                                                                         *)
(* AgeInv is inductive: the expiry of every copy bounds both the age of    *)
(* what it holds and how long after a save it may still miss that save.    *)
(* Each of its conjuncts is carried over a step by a lemma with one leaf   *)
(* per action.  With it every copy is the list of one moment, and the two  *)
(* layers implement AgedPage.                                              *)
(***************************************************************************)
EXTENDS LayeredPagesRefinement, TLAPS

USE LayeredPagesAssumption

\* A fill puts a list with all its fields.
LEMMA FillTyped ==
  ASSUME TypeOK, NEW r \in Req, Fill(r)
  PROVE  back' \in [0 .. MaxSaves -> [asOf : Nat, saw : Nat, created : Nat, exp : Nat]
                                     \cup {None}]
<1> DEFINE list == IF kind = "flexible"
                     THEN [asOf |-> asOf[r], saw |-> saw[r],
                           created |-> clock, exp |-> clock + Stale]
                     ELSE [asOf |-> asOf[r], saw |-> saw[r],
                           created |-> 0, exp |-> due[r]]
<1>1. list \in [asOf : Nat, saw : Nat, created : Nat, exp : Nat]
  BY DEF TypeOK
<1>2. back' = [back EXCEPT ![ver[r]] = list]
  BY DEF Fill, FillUnder
<1> HIDE DEF list
<1> QED
  BY <1>1, <1>2 DEF TypeOK

\* The types: a clock, versions within the bound, copies with their fields.
LEMMA TypeStep ==
  ASSUME AgeInv, [Next]_vars
  PROVE  TypeOK'
<1> USE DEF Pcs, Kinds, store, request, TypeOK, AgeInv, RequestInv, RequestOK
<1>1. ASSUME NEW r \in Req, AskFront(r) PROVE TypeOK'
  BY <1>1 DEF AskFront, Goto
<1>2. ASSUME NEW r \in Req, ReadVersion(r) PROVE TypeOK'
  BY <1>2 DEF ReadVersion, Version, LookUnder, Goto, Versioned
<1>3. ASSUME NEW r \in Req, BackHit(r) PROVE TypeOK'
  BY <1>3 DEF BackHit, MustRefresh, Kept, Goto
<1>4. ASSUME NEW r \in Req, BackMiss(r) PROVE TypeOK'
  BY <1>4 DEF BackMiss, Goto
<1>5. ASSUME NEW r \in Req, Query(r) PROVE TypeOK'
  BY <1>5 DEF Query, Run, Goto
<1>6. ASSUME NEW r \in Req, StoreBack(r) PROVE TypeOK'
  BY <1>6, FillTyped DEF StoreBack, Goto
<1>7. ASSUME NEW r \in Req, StoreFront(r) PROVE TypeOK'
  BY <1>7 DEF StoreFront, StoreCopy, Forget, ForgetList, Goto
<1>8. ASSUME NEW r \in Req, StoreFrontStale(r) PROVE TypeOK'
  BY <1>8 DEF StoreFrontStale, StoreCopy, ForgetList, Goto
<1>9. ASSUME NEW r \in Req, Requery(r) PROVE TypeOK'
  BY <1>9 DEF Requery, Run, Goto
<1>10. ASSUME NEW r \in Req, StoreAgain(r) PROVE TypeOK'
  BY <1>10, FillTyped DEF StoreAgain, Forget, ForgetList, Goto
<1>11. ASSUME NEW r \in Req, Drop(r) PROVE TypeOK'
  BY <1>11 DEF Drop, Forget, ForgetList
<1>12. ASSUME Save PROVE TypeOK'
  BY <1>12 DEF Save
<1>13. ASSUME ClearAll PROVE TypeOK'
  BY <1>13 DEF ClearAll
<1>14. ASSUME Tick PROVE TypeOK'
  BY <1>14 DEF Tick, Unexpired
<1>16. ASSUME NEW r \in Req, Fail(r) PROVE TypeOK'
  BY <1>16 DEF Fail
<1>17. ASSUME NEW r \in Req, ReadEarly(r) PROVE TypeOK'
  BY <1>17 DEF ReadEarly, Goto
<1>15. CASE UNCHANGED vars
  BY <1>15 DEF vars
<1> QED
  BY <1>1, <1>2, <1>3, <1>4, <1>5, <1>6, <1>7, <1>8, <1>9, <1>10, <1>11,
     <1>12, <1>13, <1>14, <1>15, <1>16, <1>17
  DEF Next

\* A list of the repository expires Stale + Slow after its query at the latest, and
\* has seen every save its version counts.
LEMMA BackStep ==
  ASSUME AgeInv, [Next]_vars
  PROVE  BackInv'
<1> USE DEF Pcs, store, request, TypeOK, AgeInv, BackInv, MemoInv, MemoOK, RequestInv,
           RequestOK, Age
<1>1. ASSUME NEW r \in Req, AskFront(r) PROVE BackInv'
  BY <1>1 DEF AskFront, Goto
<1>2. ASSUME NEW r \in Req, ReadVersion(r) PROVE BackInv'
  BY <1>2 DEF ReadVersion, Version, LookUnder, Goto
<1>3. ASSUME NEW r \in Req, BackHit(r) PROVE BackInv'
  BY <1>3 DEF BackHit, MustRefresh, Kept, Goto
<1>4. ASSUME NEW r \in Req, BackMiss(r) PROVE BackInv'
  BY <1>4 DEF BackMiss, Goto
<1>5. ASSUME NEW r \in Req, Query(r) PROVE BackInv'
  BY <1>5 DEF Query, Run, Goto
<1>6. ASSUME NEW r \in Req, StoreBack(r) PROVE BackInv'
  <2> SUFFICES ASSUME NEW v \in 0 .. MaxSaves, back'[v] # None
               PROVE  /\ back'[v].exp <= back'[v].asOf + Stale + Slow
                      /\ v <= back'[v].saw
    BY <1>6 DEF StoreBack
  <2>1. CASE v # ver[r]
    BY <1>6, <2>1 DEF StoreBack, Fill, FillUnder
  <2>2. CASE v = ver[r]
    BY <1>6, <2>2 DEF StoreBack, Fill, FillUnder, Goto
  <2> QED
    BY <2>1, <2>2
<1>7. ASSUME NEW r \in Req, StoreFront(r) PROVE BackInv'
  BY <1>7 DEF StoreFront, StoreCopy, Forget, ForgetList, Goto
<1>8. ASSUME NEW r \in Req, StoreFrontStale(r) PROVE BackInv'
  BY <1>8 DEF StoreFrontStale, StoreCopy, ForgetList, Goto
<1>9. ASSUME NEW r \in Req, Requery(r) PROVE BackInv'
  BY <1>9 DEF Requery, Run, Goto
<1>10. ASSUME NEW r \in Req, StoreAgain(r) PROVE BackInv'
  <2> SUFFICES ASSUME NEW v \in 0 .. MaxSaves, back'[v] # None
               PROVE  /\ back'[v].exp <= back'[v].asOf + Stale + Slow
                      /\ v <= back'[v].saw
    BY <1>10 DEF StoreAgain
  <2>1. CASE v # ver[r]
    BY <1>10, <2>1 DEF StoreAgain, Fill, FillUnder
  <2>2. CASE v = ver[r]
    BY <1>10, <2>2 DEF StoreAgain, Fill, FillUnder, Goto
  <2> QED
    BY <2>1, <2>2
<1>11. ASSUME NEW r \in Req, Drop(r) PROVE BackInv'
  BY <1>11 DEF Drop, Forget, ForgetList
<1>12. ASSUME Save PROVE BackInv'
  BY <1>12 DEF Save
<1>13. ASSUME ClearAll PROVE BackInv'
  BY <1>13 DEF ClearAll
<1>14. ASSUME Tick PROVE BackInv'
  BY <1>14 DEF Tick, Unexpired
<1>16. ASSUME NEW r \in Req, Fail(r) PROVE BackInv'
  BY <1>16 DEF Fail
<1>17. ASSUME NEW r \in Req, ReadEarly(r) PROVE BackInv'
  BY <1>17 DEF ReadEarly, Goto
<1>15. CASE UNCHANGED vars
  BY <1>15 DEF vars
<1> QED
  BY <1>1, <1>2, <1>3, <1>4, <1>5, <1>6, <1>7, <1>8, <1>9, <1>10, <1>11,
     <1>12, <1>13, <1>14, <1>15, <1>16, <1>17
  DEF Next

\* A save dates itself and no other.
LEMMA SaveStep ==
  ASSUME TypeOK, Save
  PROVE  /\ saves' = saves + 1 /\ savedAt'[saves + 1] = clock
         /\ \A n \in 1 .. saves : savedAt'[n] = savedAt[n]
         /\ \A n \in 1 .. saves' :
              (n \in 1 .. saves /\ savedAt'[n] = savedAt[n]) \/ savedAt'[n] = clock
<1>1. /\ saves \in Nat /\ savedAt \in [1 .. MaxSaves -> Nat]
      /\ saves < MaxSaves /\ MaxSaves \in Nat
  BY DEF TypeOK, Save
<1>2. saves' = saves + 1 /\ savedAt' = [savedAt EXCEPT ![saves + 1] = clock]
  BY DEF Save
<1>3. /\ savedAt'[saves + 1] = clock
      /\ \A n \in 1 .. saves : savedAt'[n] = savedAt[n]
  BY <1>1, <1>2
<1> QED
  BY <1>1, <1>2, <1>3

\* The version a request goes by was in force when it read it, and every save since
\* then is one its page's copy may miss for Front + Span only.
LEMMA MemoStep ==
  ASSUME AgeInv, [Next]_vars
  PROVE  MemoInv'
<1> USE DEF Pcs, store, request, TypeOK, AgeInv, MemoInv, MemoOK, RequestInv, RequestOK,
            Covers, Versioned
<1>1. ASSUME NEW r \in Req, AskFront(r) PROVE MemoInv'
  <2>1. \A q \in Req \ {r} : MemoOK(q)'
    BY <1>1 DEF AskFront
  <2>2. MemoOK(r)'
    BY <1>1 DEF AskFront
  <2> QED
    BY <2>1, <2>2
<1>2. ASSUME NEW r \in Req, ReadVersion(r) PROVE MemoInv'
  <2>1. \A q \in Req \ {r} : MemoOK(q)'
    BY <1>2 DEF ReadVersion, Version, LookUnder, Goto
  <2>2. MemoOK(r)'
    BY <1>2 DEF ReadVersion, Version, LookUnder, Goto
  <2> QED
    BY <2>1, <2>2
<1>3. ASSUME NEW r \in Req, BackHit(r) PROVE MemoInv'
  BY <1>3 DEF BackHit, MustRefresh, Kept, Goto
<1>4. ASSUME NEW r \in Req, BackMiss(r) PROVE MemoInv'
  BY <1>4 DEF BackMiss, Goto
<1>5. ASSUME NEW r \in Req, Query(r) PROVE MemoInv'
  BY <1>5 DEF Query, Run, Goto
<1>6. ASSUME NEW r \in Req, StoreBack(r) PROVE MemoInv'
  BY <1>6 DEF StoreBack, Fill, FillUnder, Goto
<1>7. ASSUME NEW r \in Req, StoreFront(r) PROVE MemoInv'
  BY <1>7 DEF StoreFront, StoreCopy, Forget, ForgetList, Goto
<1>8. ASSUME NEW r \in Req, StoreFrontStale(r) PROVE MemoInv'
  BY <1>8 DEF StoreFrontStale, StoreCopy, ForgetList, Goto
<1>9. ASSUME NEW r \in Req, Requery(r) PROVE MemoInv'
  BY <1>9 DEF Requery, Run, Goto
<1>10. ASSUME NEW r \in Req, StoreAgain(r) PROVE MemoInv'
  BY <1>10 DEF StoreAgain, Fill, FillUnder, Forget, ForgetList, Goto
<1>11. ASSUME NEW r \in Req, Drop(r) PROVE MemoInv'
  BY <1>11 DEF Drop, Forget, ForgetList
<1>12. ASSUME Save PROVE MemoInv'
  <2> SUFFICES ASSUME NEW q \in Req PROVE MemoOK(q)'
    OBVIOUS
  <2>1. \A n \in 1 .. saves' :
          (n \in 1 .. saves /\ savedAt'[n] = savedAt[n]) \/ savedAt'[n] = clock
    BY <1>12, SaveStep
  <2>2. /\ UNCHANGED <<kind, clock, pc, fexp, ver, readAt>>
        /\ saves' = saves + 1
    BY <1>12 DEF Save
  <2>3. /\ MemoOK(q) /\ clock \in Nat /\ fexp[q] \in Nat /\ saves \in Nat
        /\ readAt[q] \in Nat /\ \A n \in 1 .. saves : savedAt[n] \in Nat
        /\ fexp[q] <= clock + Front + Span
    OBVIOUS
  <2> HIDE DEF TypeOK, AgeInv, BackInv, MemoInv, RequestInv, RequestOK
  <2>4. ver[q] \in Nat /\ Covers(q, ver[q]) => Covers(q, ver[q])'
    BY <2>1, <2>2, <2>3
  <2>6. ver[q] # None => ver[q] \in Nat
    BY DEF TypeOK, AgeInv
  <2>5. ver[q] # None /\ pc[q] = "begun" =>
          /\ readAt[q] <= clock
          /\ (\A n \in 1 .. saves : n <= ver[q] \/ readAt[q] <= savedAt[n])
             => \A n \in 1 .. saves' : n <= ver[q] \/ readAt[q] <= savedAt'[n]
    BY <2>1, <2>2, <2>3
  <2> HIDE DEF Covers, MemoOK, Versioned
  <2>7. SUFFICES ASSUME ver[q] # None PROVE MemoOK(q)'
    BY <2>2 DEF MemoOK
  <2>8. ver'[q] <= saves'
    BY <2>2, <2>3, <2>6, <2>7 DEF MemoOK
  <2>9. pc'[q] = "begun" =>
          /\ clock' \in readAt'[q] .. readAt'[q] + Span
          /\ \A n \in 1 .. saves' : n <= ver'[q] \/ readAt'[q] <= savedAt'[n]
    BY <2>2, <2>3, <2>5, <2>7 DEF MemoOK
  <2>10. Versioned' /\ pc'[q] \in {"version", "lookup", "query", "putBack"}
           => Covers(q, ver[q])'
    BY <2>2, <2>3, <2>4, <2>6, <2>7 DEF MemoOK, Versioned
  <2> QED
    BY <2>8, <2>9, <2>10 DEF MemoOK
<1>13. ASSUME ClearAll PROVE MemoInv'
  BY <1>13 DEF ClearAll
<1>14. ASSUME Tick PROVE MemoInv'
  <2>1. /\ clock' = clock + 1 /\ UNCHANGED <<kind, saves, savedAt, request>>
        /\ \A r \in Req : pc[r] = "begun" => clock < readAt[r] + Span
    BY <1>14 DEF Tick
  <2> QED
    BY <2>1
<1>16. ASSUME NEW r \in Req, Fail(r) PROVE MemoInv'
  BY <1>16 DEF Fail
<1>17. ASSUME NEW r \in Req, ReadEarly(r) PROVE MemoInv'
  BY <1>17 DEF ReadEarly, Goto
<1>15. CASE UNCHANGED vars
  BY <1>15 DEF vars
<1> QED
  BY <1>1, <1>2, <1>3, <1>4, <1>5, <1>6, <1>7, <1>8, <1>9, <1>10, <1>11,
     <1>12, <1>13, <1>14, <1>15, <1>16, <1>17
  DEF Next

\* What a request is about to store obeys both bounds.
LEMMA RequestStep ==
  ASSUME AgeInv, [Next]_vars
  PROVE  RequestInv'
<1> USE DEF Pcs, store, request, TypeOK, AgeInv, BackInv, MemoInv, MemoOK, RequestInv,
           RequestOK, Covers, Versioned, Age
<1>1. ASSUME NEW r \in Req, AskFront(r) PROVE RequestInv'
  <2>1. \A q \in Req \ {r} : RequestOK(q)'
    BY <1>1 DEF AskFront, Goto
  <2>2. RequestOK(r)'
    BY <1>1 DEF AskFront, Goto
  <2> QED
    BY <2>1, <2>2
<1>2. ASSUME NEW r \in Req, ReadVersion(r) PROVE RequestInv'
  <2>1. \A q \in Req \ {r} : RequestOK(q)'
    BY <1>2 DEF ReadVersion, Version, LookUnder, Goto
  <2>2. RequestOK(r)'
    BY <1>2 DEF ReadVersion, Version, LookUnder, Goto
  <2> QED
    BY <2>1, <2>2
<1>3. ASSUME NEW r \in Req, BackHit(r) PROVE RequestInv'
  <2> DEFINE copy == back[ver[r]]
  <2>1. ver[r] \in 0 .. MaxSaves /\ copy # None /\ clock < copy.exp
    BY <1>3 DEF BackHit, Kept
  <2>2. /\ copy.asOf \in Nat /\ copy.saw \in Nat /\ copy.exp \in Nat
        /\ copy.exp <= copy.asOf + Stale + Slow
        /\ ver[r] <= copy.saw
    BY <2>1
  <2>3. \A q \in Req \ {r} : RequestOK(q)'
    BY <1>3 DEF BackHit, Goto
  <2>4. /\ asOf'[r] = copy.asOf /\ saw'[r] = copy.saw /\ due'[r] = 0
        /\ pc'[r] \in {"putStale", "putFront"}
        /\ UNCHANGED <<kind, clock, saves, savedAt, fexp, ver, failed>>
    BY <1>3 DEF BackHit, Goto
  <2>5. /\ ~failed[r] /\ ver[r] # None /\ fexp[r] <= clock + Front
        /\ Versioned => Covers(r, ver[r])
        /\ clock \in Nat /\ saves \in Nat /\ fexp[r] \in Nat
    BY <1>3 DEF BackHit
  <2>6. Versioned => Covers(r, copy.saw)
    <3> SUFFICES ASSUME Versioned, NEW n \in 1 .. saves
                 PROVE  n <= copy.saw \/ fexp[r] <= savedAt[n] + Front + Span
      OBVIOUS
    <3> HIDE DEF copy
    <3>1. n <= ver[r] \/ fexp[r] <= savedAt[n] + Front + Span
      BY <2>5
    <3> QED
      BY <2>1, <2>2, <2>5, <3>1
  <2> HIDE DEF copy
  <2>7. Versioned' => Covers(r, saw[r])'
    BY <2>4, <2>6
  <2> HIDE DEF Covers, Versioned, TypeOK, AgeInv, BackInv, RequestInv, MemoInv
  <2>8. fexp'[r] <= asOf'[r] + (Front + Stale + Slow)
    BY <2>1, <2>2, <2>4, <2>5
  <2>9. /\ fexp'[r] <= clock' + Front /\ due'[r] <= clock' + Stale
        /\ ver'[r] # None /\ ~failed'[r]
    BY <2>4, <2>5
  <2>10. RequestOK(r)'
    BY <2>4, <2>7, <2>8, <2>9
  <2> QED
    BY <2>3, <2>10 DEF RequestInv
<1>4. ASSUME NEW r \in Req, BackMiss(r) PROVE RequestInv'
  BY <1>4 DEF BackMiss, Goto
<1>5. ASSUME NEW r \in Req, Query(r) PROVE RequestInv'
  BY <1>5 DEF Query, Run, Goto
<1>6. ASSUME NEW r \in Req, StoreBack(r) PROVE RequestInv'
  <2>1. \A q \in Req \ {r} : RequestOK(q)'
    BY <1>6 DEF StoreBack, Fill, FillUnder, Goto
  <2>2. RequestOK(r)'
    BY <1>6 DEF StoreBack, Fill, FillUnder, Goto
  <2> QED
    BY <2>1, <2>2
<1>7. ASSUME NEW r \in Req, StoreFront(r) PROVE RequestInv'
  <2>1. \A q \in Req \ {r} : RequestOK(q)'
    BY <1>7 DEF StoreFront, StoreCopy, Forget, ForgetList, Goto
  <2>2. RequestOK(r)'
    BY <1>7 DEF StoreFront, StoreCopy, Forget, ForgetList, Goto
  <2> QED
    BY <2>1, <2>2
<1>8. ASSUME NEW r \in Req, StoreFrontStale(r) PROVE RequestInv'
  <2>1. \A q \in Req \ {r} : RequestOK(q)'
    BY <1>8 DEF StoreFrontStale, StoreCopy, ForgetList, Goto
  <2>2. RequestOK(r)'
    BY <1>8 DEF StoreFrontStale, StoreCopy, ForgetList, Goto
  <2> QED
    BY <2>1, <2>2
<1>9. ASSUME NEW r \in Req, Requery(r) PROVE RequestInv'
  BY <1>9 DEF Requery, Run, Goto
<1>10. ASSUME NEW r \in Req, StoreAgain(r) PROVE RequestInv'
  <2>1. \A q \in Req \ {r} : RequestOK(q)'
    BY <1>10 DEF StoreAgain, Fill, FillUnder, Forget, ForgetList, Goto
  <2>2. RequestOK(r)'
    BY <1>10 DEF StoreAgain, Fill, FillUnder, Forget, ForgetList, Goto
  <2> QED
    BY <2>1, <2>2
<1>11. ASSUME NEW r \in Req, Drop(r) PROVE RequestInv'
  <2>1. \A q \in Req \ {r} : RequestOK(q)'
    BY <1>11 DEF Drop, Forget, ForgetList
  <2>2. RequestOK(r)'
    BY <1>11 DEF Drop, Forget, ForgetList
  <2> QED
    BY <2>1, <2>2
<1>12. ASSUME Save PROVE RequestInv'
  <2> SUFFICES ASSUME NEW q \in Req PROVE RequestOK(q)'
    OBVIOUS
  <2>1. \A n \in 1 .. saves' :
          (n \in 1 .. saves /\ savedAt'[n] = savedAt[n]) \/ savedAt'[n] = clock
    BY <1>12, SaveStep
  <2>2. /\ UNCHANGED <<kind, clock, pc, fexp, ver, due, asOf, saw, failed>>
        /\ saves' = saves + 1
    BY <1>12 DEF Save
  <2>3. RequestOK(q) /\ clock \in Nat /\ fexp[q] \in Nat /\ saves \in Nat
        /\ \A n \in 1 .. saves : savedAt[n] \in Nat
    OBVIOUS
  <2>4. fexp[q] <= clock + Front + Span
    BY <2>3
  <2> HIDE DEF TypeOK, AgeInv, BackInv, RequestInv, MemoInv, RequestOK
  <2>5. Covers(q, saw[q]) => Covers(q, saw[q])'
    BY <2>1, <2>2, <2>3, <2>4
  <2> HIDE DEF Covers
  <2> USE DEF RequestOK
  <2> QED
    BY <2>2, <2>3, <2>5
<1>13. ASSUME ClearAll PROVE RequestInv'
  BY <1>13 DEF ClearAll
<1>14. ASSUME Tick PROVE RequestInv'
  BY <1>14 DEF Tick, Unexpired
<1>16. ASSUME NEW r \in Req, Fail(r) PROVE RequestInv'
  BY <1>16 DEF Fail
<1>17. ASSUME NEW r \in Req, ReadEarly(r) PROVE RequestInv'
  BY <1>17 DEF ReadEarly, Goto
<1>15. CASE UNCHANGED vars
  BY <1>15 DEF vars
<1> QED
  BY <1>1, <1>2, <1>3, <1>4, <1>5, <1>6, <1>7, <1>8, <1>9, <1>10, <1>11,
     <1>12, <1>13, <1>14, <1>15, <1>16, <1>17
  DEF Next

\* So does the copy of the page.
LEMMA FrontStep ==
  ASSUME AgeInv, [Next]_vars
  PROVE  FrontInv'
<1> USE DEF Pcs, store, request, TypeOK, AgeInv, MemoInv, MemoOK, RequestInv, RequestOK,
           FrontInv, Covers, Versioned, Age
<1>1. ASSUME NEW r \in Req, AskFront(r) PROVE FrontInv'
  BY <1>1 DEF AskFront, Goto
<1>2. ASSUME NEW r \in Req, ReadVersion(r) PROVE FrontInv'
  BY <1>2 DEF ReadVersion, Version, LookUnder, Goto
<1>3. ASSUME NEW r \in Req, BackHit(r) PROVE FrontInv'
  BY <1>3 DEF BackHit, MustRefresh, Kept, Goto
<1>4. ASSUME NEW r \in Req, BackMiss(r) PROVE FrontInv'
  BY <1>4 DEF BackMiss, Goto
<1>5. ASSUME NEW r \in Req, Query(r) PROVE FrontInv'
  BY <1>5 DEF Query, Run, Goto
<1>6. ASSUME NEW r \in Req, StoreBack(r) PROVE FrontInv'
  BY <1>6 DEF StoreBack, Fill, FillUnder, Goto
<1>7. ASSUME NEW r \in Req, StoreFront(r) PROVE FrontInv'
  BY <1>7 DEF StoreFront, StoreCopy, Forget, ForgetList, Goto
<1>8. ASSUME NEW r \in Req, StoreFrontStale(r) PROVE FrontInv'
  BY <1>8 DEF StoreFrontStale, StoreCopy, ForgetList, Goto
<1>9. ASSUME NEW r \in Req, Requery(r) PROVE FrontInv'
  BY <1>9 DEF Requery, Run, Goto
<1>10. ASSUME NEW r \in Req, StoreAgain(r) PROVE FrontInv'
  BY <1>10 DEF StoreAgain, Fill, FillUnder, Forget, ForgetList, Goto
<1>11. ASSUME NEW r \in Req, Drop(r) PROVE FrontInv'
  BY <1>11 DEF Drop, Forget, ForgetList
<1>12. ASSUME Save PROVE FrontInv'
  BY <1>12 DEF Save
<1>13. ASSUME ClearAll PROVE FrontInv'
  BY <1>13 DEF ClearAll
<1>14. ASSUME Tick PROVE FrontInv'
  BY <1>14 DEF Tick, Unexpired
<1>16. ASSUME NEW r \in Req, Fail(r) PROVE FrontInv'
  BY <1>16 DEF Fail
<1>17. ASSUME NEW r \in Req, ReadEarly(r) PROVE FrontInv'
  BY <1>17 DEF ReadEarly, Goto
<1>15. CASE UNCHANGED vars
  BY <1>15 DEF vars
<1> QED
  BY <1>1, <1>2, <1>3, <1>4, <1>5, <1>6, <1>7, <1>8, <1>9, <1>10, <1>11,
     <1>12, <1>13, <1>14, <1>15, <1>16, <1>17
  DEF Next

-----------------------------------------------------------------------------
\* The strengthened invariant holds of every behaviour.
THEOREM AgeInvariant == Spec => []AgeInv
<1>1. Init => AgeInv
  BY DEF Init, AgeInv, TypeOK, BackInv, MemoInv, MemoOK, RequestInv, RequestOK, FrontInv,
         Pcs, Kinds
<1>2. AgeInv /\ [Next]_vars => AgeInv'
  <2> SUFFICES ASSUME AgeInv, [Next]_vars PROVE AgeInv'
    OBVIOUS
  <2>1. TypeOK'
    BY TypeStep DEF AgeInv
  <2>2. BackInv' /\ MemoInv' /\ RequestInv' /\ FrontInv'
    BY BackStep, MemoStep, RequestStep, FrontStep
  <2> QED
    BY <2>1, <2>2 DEF AgeInv
<1> QED
  BY <1>1, <1>2, PTL DEF Spec

\* Every variable keeps its type (the state of FrontEndController's and
\* ArticleRepository's copies and of the requests between them).
THEOREM TypeCorrect == Spec => []TypeOK
<1>1. AgeInv => TypeOK
  BY DEF AgeInv
<1> QED
  BY <1>1, AgeInvariant, PTL

\* The times to live of the two layers add up and no further: what a page shows
\* from FrontEndController's copy is less than Front + Stale + Slow old.
THEOREM PagesAge == Spec => []AgeBounded
<1>1. AgeInv => AgeBounded
  BY DEF AgeInv, TypeOK, FrontInv, AgeBounded, Age, Kept
<1> QED
  BY <1>1, AgeInvariant, PTL

-----------------------------------------------------------------------------
(* A page is the list of one moment.                                       *)

\* The saves of a step are those there were, or one more made now.
LEMMA SavesStep ==
  ASSUME TypeOK, [Next]_vars
  PROVE  /\ clock \in Nat /\ clock' \in Nat /\ clock <= clock'
         /\ saves \in Nat /\ saves' \in Nat
         /\ \A n \in 1 .. saves : savedAt[n] \in Nat
         /\ \/ saves' = saves /\ savedAt' = savedAt
            \/ /\ saves' = saves + 1 /\ savedAt'[saves + 1] = clock
               /\ \A n \in 1 .. saves : savedAt'[n] = savedAt[n]
<1>0. /\ clock \in Nat /\ saves \in Nat /\ savedAt \in [1 .. MaxSaves -> Nat]
      /\ saves <= MaxSaves /\ MaxSaves \in Nat
  BY DEF TypeOK
<1>1. CASE Save
  BY <1>0, <1>1, SaveStep DEF Save
<1>2. CASE Tick
  BY <1>0, <1>2 DEF Tick
<1>3. CASE UNCHANGED <<clock, saves, savedAt>>
  BY <1>0, <1>3
<1> QED
  BY <1>1, <1>2, <1>3
     DEF Next, vars, ReadEarly, AskFront, ReadVersion, LookUnder, BackHit, BackMiss, Query, Run, Fail,
         StoreBack, StoreFront, StoreFrontStale, StoreCopy, Requery, StoreAgain,
         Drop, ClearAll

\* What was the list of its moment remains so: later saves are not in it.
LEMMA SnapshotKept ==
  ASSUME TypeOK, [Next]_vars, NEW at \in Nat, NEW upTo \in Nat, Snapshot(at, upTo)
  PROVE  Snapshot(at, upTo)'
<1>1. /\ clock \in Nat /\ clock' \in Nat /\ clock <= clock'
      /\ saves \in Nat /\ saves' \in Nat
      /\ \A n \in 1 .. saves : savedAt[n] \in Nat
  BY SavesStep
<1>2. CASE saves' = saves /\ savedAt' = savedAt
  BY <1>1, <1>2 DEF Snapshot
<1>3. CASE /\ saves' = saves + 1 /\ savedAt'[saves + 1] = clock
           /\ \A n \in 1 .. saves : savedAt'[n] = savedAt[n]
  <2> SUFFICES ASSUME NEW n \in 1 .. saves'
               PROVE  IF n <= upTo THEN savedAt'[n] <= at ELSE at <= savedAt'[n]
    BY <1>1, <1>3 DEF Snapshot
  <2>1. CASE n \in 1 .. saves
    BY <1>3, <2>1 DEF Snapshot
  <2>2. CASE n = saves + 1
    BY <1>1, <1>3, <2>2 DEF Snapshot
  <2> QED
    BY <1>1, <1>3, <2>1, <2>2
<1> QED
  BY <1>2, <1>3, SavesStep

\* What a request holds is what it held, what a list of the repository gave it, or
\* what the database gives now.
LEMMA HeldFrom ==
  ASSUME AgeInv, [Next]_vars, NEW r \in Req,
         pc'[r] \in {"putBack", "putFront", "putStale", "putAgain"}
  PROVE  \/ /\ asOf'[r] = asOf[r] /\ saw'[r] = saw[r]
            /\ pc[r] \in {"putBack", "putFront", "putStale", "putAgain"}
         \/ \E v \in 0 .. MaxSaves : /\ back[v] # None
                                     /\ asOf'[r] = back[v].asOf /\ saw'[r] = back[v].saw
         \/ asOf'[r] = clock /\ saw'[r] = saves /\ clock' = clock /\ saves' = saves
                             /\ savedAt' = savedAt
<1> DEFINE Held == /\ asOf'[r] = asOf[r] /\ saw'[r] = saw[r]
                   /\ pc[r] \in {"putBack", "putFront", "putStale", "putAgain"}
           Given == \E v \in 0 .. MaxSaves :
                      /\ back[v] # None
                      /\ asOf'[r] = back[v].asOf /\ saw'[r] = back[v].saw
           Asked == /\ asOf'[r] = clock /\ saw'[r] = saves
                    /\ clock' = clock /\ saves' = saves /\ savedAt' = savedAt
<1> SUFFICES Held \/ Given \/ Asked
  OBVIOUS
<1> USE DEF TypeOK, AgeInv, Goto
<1>1. ASSUME NEW q \in Req, ReadEarly(q) \/ AskFront(q) \/ ReadVersion(q) \/ BackMiss(q)
      PROVE  Held
  BY <1>1 DEF ReadEarly, AskFront, ReadVersion, Version, LookUnder, BackMiss
<1>2. ASSUME NEW q \in Req, BackHit(q) PROVE Held \/ Given
  <2>1. CASE q = r
    <3>1. /\ ver[r] \in 0 .. MaxSaves /\ back[ver[r]] # None
          /\ asOf'[r] = back[ver[r]].asOf /\ saw'[r] = back[ver[r]].saw
      BY <1>2, <2>1 DEF BackHit, Kept, AgeInv, RequestInv, RequestOK
    <3> QED
      BY <3>1
  <2>2. CASE q # r
    BY <1>2, <2>2 DEF BackHit
  <2> QED
    BY <2>1, <2>2
<1>3. ASSUME NEW q \in Req, Query(q) \/ Requery(q) PROVE Held \/ Asked
  BY <1>3 DEF Query, Requery, Run
<1>4. ASSUME NEW q \in Req, Fail(q) PROVE Held \/ Asked
  BY <1>4 DEF Fail
<1>5. ASSUME NEW q \in Req, StoreBack(q) PROVE Held
  BY <1>5 DEF StoreBack
<1>6. ASSUME NEW q \in Req, StoreFront(q) \/ StoreFrontStale(q) PROVE Held
  BY <1>6 DEF StoreFront, StoreFrontStale, Forget, ForgetList
<1>7. ASSUME NEW q \in Req, StoreAgain(q) \/ Drop(q) PROVE Held
  BY <1>7 DEF StoreAgain, Drop, Forget, ForgetList
<1>8. CASE UNCHANGED request
  BY <1>8 DEF request
<1> HIDE DEF Held, Given, Asked
<1>9. CASE Save \/ ClearAll \/ Tick \/ UNCHANGED vars
  BY <1>8, <1>9 DEF Save, ClearAll, Tick, vars
<1> QED
  BY <1>1, <1>2, <1>3, <1>4, <1>5, <1>6, <1>7, <1>9 DEF Next

\* A list of the repository was there, or is what a request held.
LEMMA BackFrom ==
  ASSUME AgeInv, [Next]_vars, NEW v \in 0 .. MaxSaves, back'[v] # None
  PROVE  \/ back'[v] = back[v]
         \/ \E r \in Req : /\ pc[r] \in {"putBack", "putAgain"}
                           /\ back'[v].asOf = asOf[r] /\ back'[v].saw = saw[r]
<1>1. ASSUME NEW r \in Req, Fill(r), back'[v] # back[v]
      PROVE  back'[v].asOf = asOf[r] /\ back'[v].saw = saw[r]
  BY <1>1 DEF Fill, FillUnder, TypeOK, AgeInv
<1>2. ASSUME NEW r \in Req, StoreBack(r) \/ StoreAgain(r)
      PROVE  Fill(r) /\ pc[r] \in {"putBack", "putAgain"}
  BY <1>2 DEF StoreBack, StoreAgain, Goto
<1>3. CASE ClearAll \/ Tick
  BY <1>3 DEF ClearAll, Tick, Unexpired
<1>4. CASE back' = back
  BY <1>4
<1> QED
  BY <1>1, <1>2, <1>3, <1>4
     DEF Next, vars, store, ReadEarly, AskFront, ReadVersion, LookUnder, BackHit, BackMiss,
         Query, Run, Fail, StoreFront, StoreFrontStale, StoreCopy, Requery, Drop, Save

\* The page's copy was there, or is what a request held.
LEMMA FrontFrom ==
  ASSUME TypeOK, [Next]_vars, front' # None
  PROVE  \/ front' = front
         \/ \E r \in Req : /\ pc[r] \in {"putFront", "putStale"}
                           /\ front'.asOf = asOf[r] /\ front'.saw = saw[r]
                           /\ UNCHANGED <<clock, saves, savedAt>>
<1>1. ASSUME NEW r \in Req, StoreFront(r) \/ StoreFrontStale(r)
      PROVE  /\ pc[r] \in {"putFront", "putStale"}
             /\ front'.asOf = asOf[r] /\ front'.saw = saw[r]
             /\ UNCHANGED <<clock, saves, savedAt>>
  BY <1>1 DEF StoreFront, StoreFrontStale, StoreCopy, Goto
<1>2. CASE ClearAll \/ Tick
  BY <1>2 DEF ClearAll, Tick, Unexpired
<1>3. CASE front' = front
  BY <1>3
<1> QED
  BY <1>1, <1>2, <1>3
     DEF Next, vars, store, ReadEarly, AskFront, ReadVersion, LookUnder, BackHit, BackMiss,
         Query, Run, Fail, StoreBack, StoreAgain, Requery, Drop, Save

\* Every copy stays the list of one moment.
LEMMA SnapshotStep ==
  ASSUME AgeInv, SnapshotInv, [Next]_vars
  PROVE  SnapshotInv'
<1>0. TypeOK /\ TypeOK'
  BY TypeStep DEF AgeInv
<1>1. \A n \in 1 .. saves' : savedAt'[n] <= clock'
  BY <1>0, SavesStep DEF SnapshotInv
<1>2. ASSUME NEW v \in 0 .. MaxSaves, back'[v] # None
      PROVE  Snapshot(back[v].asOf, back[v].saw)'
  <2>1. PICK at \in Nat, upTo \in Nat :
          back'[v].asOf = at /\ back'[v].saw = upTo /\ Snapshot(at, upTo)
    <3>1. CASE back'[v] = back[v]
      BY <1>2, <3>1, <1>0 DEF SnapshotInv, TypeOK
    <3>2. ASSUME NEW r \in Req, pc[r] \in {"putBack", "putAgain"},
                 back'[v].asOf = asOf[r], back'[v].saw = saw[r]
          PROVE  /\ asOf[r] \in Nat /\ saw[r] \in Nat /\ Snapshot(asOf[r], saw[r])
                 /\ back'[v].asOf = asOf[r] /\ back'[v].saw = saw[r]
      BY <3>2, <1>0 DEF SnapshotInv, TypeOK
    <3> QED
      BY <1>2, <3>1, <3>2, <1>0, BackFrom
  <2>2. Snapshot(at, upTo)'
    BY <2>1, <1>0, SnapshotKept
  <2> QED
    BY <2>1, <2>2
<1>3. ASSUME NEW r \in Req, pc'[r] \in {"putBack", "putFront", "putStale", "putAgain"}
      PROVE  Snapshot(asOf[r], saw[r])'
  <2>1. ASSUME NEW at \in Nat, NEW upTo \in Nat, Snapshot(at, upTo),
               asOf'[r] = at, saw'[r] = upTo
        PROVE  Snapshot(asOf[r], saw[r])'
    <3>1. Snapshot(at, upTo)'
      BY <2>1, <1>0, SnapshotKept
    <3> QED
      BY <2>1, <3>1
  <2>2. CASE /\ asOf'[r] = asOf[r] /\ saw'[r] = saw[r]
             /\ pc[r] \in {"putBack", "putFront", "putStale", "putAgain"}
    <3>1. asOf[r] \in Nat /\ saw[r] \in Nat /\ Snapshot(asOf[r], saw[r])
      BY <2>2, <1>0 DEF SnapshotInv, TypeOK
    <3> QED
      BY <2>1, <2>2, <3>1
  <2>3. ASSUME NEW v \in 0 .. MaxSaves, back[v] # None,
               asOf'[r] = back[v].asOf, saw'[r] = back[v].saw
        PROVE  Snapshot(asOf[r], saw[r])'
    <3>1. back[v].asOf \in Nat /\ back[v].saw \in Nat
          /\ Snapshot(back[v].asOf, back[v].saw)
      BY <2>3, <1>0 DEF SnapshotInv, TypeOK
    <3> QED
      BY <2>1, <2>3, <3>1
  <2>4. CASE asOf'[r] = clock /\ saw'[r] = saves /\ clock' = clock /\ saves' = saves
             /\ savedAt' = savedAt
    <3>1. clock \in Nat /\ saves \in Nat /\ Snapshot(clock, saves)
      BY <1>0 DEF SnapshotInv, TypeOK, Snapshot
    <3> QED
      BY <2>1, <2>4, <3>1
  <2> QED
    BY <1>3, <2>2, <2>3, <2>4, <1>0, HeldFrom
<1>4. ASSUME front' # None
      PROVE  Snapshot(front.asOf, front.saw)'
  <2>1. PICK at \in Nat, upTo \in Nat :
          front'.asOf = at /\ front'.saw = upTo /\ Snapshot(at, upTo)
    <3>1. CASE front' = front
      BY <1>4, <3>1, <1>0 DEF SnapshotInv, TypeOK
    <3>2. ASSUME NEW r \in Req, pc[r] \in {"putFront", "putStale"},
                 front'.asOf = asOf[r], front'.saw = saw[r]
          PROVE  /\ asOf[r] \in Nat /\ saw[r] \in Nat /\ Snapshot(asOf[r], saw[r])
                 /\ front'.asOf = asOf[r] /\ front'.saw = saw[r]
      BY <3>2, <1>0 DEF SnapshotInv, TypeOK
    <3> QED
      BY <1>4, <3>1, <3>2, <1>0, FrontFrom
  <2>2. Snapshot(at, upTo)'
    BY <2>1, <1>0, SnapshotKept
  <2> QED
    BY <2>1, <2>2
<1> QED
  BY <1>1, <1>2, <1>3, <1>4 DEF SnapshotInv

\* Every copy, of the list or of the page, is the list of one moment, whichever
\* copies it went through (FrontEndController 77-273, ArticleRepository 302-519).
THEOREM CopiesAreSnapshots == Spec => []SnapshotInv
<1>1. Init => SnapshotInv
  BY DEF Init, SnapshotInv
<1>2. AgeInv /\ SnapshotInv /\ [Next]_vars => SnapshotInv'
  BY SnapshotStep
<1> QED
  BY <1>1, <1>2, AgeInvariant, PTL DEF Spec

\* What the two parts of the invariant say together of a save the page may miss.
LEMMA SavesInTime ==
  ASSUME IInv
  PROVE  SavesSeenInTime
<1> SUFFICES ASSUME Kept(front), NEW n \in 1 .. saves, savedAt[n] + Delay <= clock
             PROVE  n <= front.saw
  BY DEF SavesSeenInTime
<1>1. /\ clock \in Nat /\ saves \in 0 .. MaxSaves /\ savedAt[n] \in Nat
      /\ front.asOf \in Nat /\ front.saw \in Nat /\ front.exp \in Nat
      /\ front # None /\ clock < front.exp
  BY DEF IInv, AgeInv, TypeOK, Kept
<1>2. CASE Versioned
  BY <1>1, <1>2 DEF IInv, AgeInv, FrontInv, Delay
<1>3. CASE ~Versioned
  <2>1. clock < front.asOf + Age
    BY <1>1 DEF IInv, AgeInv, FrontInv, Age
  <2>2. Snapshot(front.asOf, front.saw)
    BY <1>1 DEF IInv, SnapshotInv
  <2> QED
    BY <1>1, <1>3, <2>1, <2>2 DEF Snapshot, Delay, Age
<1> QED
  BY <1>2, <1>3

\* A save is on the page in time: Front + Span after it for a list under a version,
\* however the requests that began before it interleave with it and whatever version
\* they had memoised; when both copies have gone for a list without one
\* (FrontEndController 77-221, ArticleRepository 42-59, 302-505).
THEOREM SavesSeen == Spec => []SavesSeenInTime
<1> QED
  BY SavesInTime, AgeInvariant, CopiesAreSnapshots, PTL DEF IInv
-----------------------------------------------------------------------------
(* The layers implement AgedPage.                                          *)

\* What a page shows is what AgedPage lets it show now.
ShownFits ==
  /\ Kept(front) => /\ Shown \in [asOf : 0 .. clock, saw : 0 .. saves, failed : BOOLEAN]
                    /\ Page!Snapshot(Shown) /\ Page!MayShow(Shown, clock)
  /\ ~Kept(front) => Shown = None

\* The list a page shows from a copy that is kept.
LEMMA ShownKept ==
  ASSUME IInv, Kept(front)
  PROVE  /\ Shown \in [asOf : 0 .. clock, saw : 0 .. saves, failed : BOOLEAN]
         /\ Page!Snapshot(Shown) /\ Page!MayShow(Shown, clock)
<1>1. /\ front # None /\ clock \in Nat /\ saves \in Nat /\ clock < front.exp
      /\ front.asOf \in Nat /\ front.saw \in Nat /\ front.failed \in BOOLEAN
      /\ front.exp \in Nat /\ \A n \in 1 .. saves : savedAt[n] \in Nat
  BY DEF IInv, AgeInv, TypeOK, Kept
<1>2. Snapshot(front.asOf, front.saw)
  BY <1>1 DEF IInv, SnapshotInv
<1>3. Shown = [asOf |-> front.asOf, saw |-> front.saw, failed |-> front.failed]
  BY DEF Shown
<1>4. front.asOf \in 0 .. clock /\ front.saw \in 0 .. saves
  BY <1>1, <1>2 DEF Snapshot
<1>5. Shown \in [asOf : 0 .. clock, saw : 0 .. saves, failed : BOOLEAN]
  BY <1>1, <1>3, <1>4
<1>6. Page!Snapshot(Shown)
  BY <1>2, <1>3 DEF Page!Snapshot, Snapshot
<1>7. /\ front.exp <= front.asOf + Front + Stale + Slow
      /\ front.failed => front.exp <= front.asOf + Front
  BY <1>1 DEF IInv, AgeInv, FrontInv, Age
<1>8. Page!MayShow(Shown, clock)
  <2>1. clock - front.asOf < IF front.failed THEN Front ELSE Front + Stale + Slow
    BY <1>1, <1>7
  <2>2. SavesSeenInTime
    BY SavesInTime
  <2>3. \A n \in 1 .. saves :
          savedAt[n] + (IF Versioned THEN Front + Span ELSE Front + Stale + Slow) <= clock
          => n <= front.saw
    BY <2>2 DEF SavesSeenInTime, Delay, Age
  <2> QED
    BY <1>3, <2>1, <2>3 DEF Page!MayShow
<1> QED
  BY <1>5, <1>6, <1>8

\* The first state shows nothing.
LEMMA RefinesInit == Init => Page!Init
BY DEF Init, Kinds, Versioned, Page!Init, Shown, Kept

\* What the page shows is what it showed unless time passes, the copy is dropped
\* or a request stores one.
LEMMA PageStep ==
  ASSUME TypeOK, [Next]_vars
  PROVE  /\ UNCHANGED kind
         /\ \/ Tick \/ (UNCHANGED <<clock, front>> /\ Save)
            \/ UNCHANGED <<clock, saves, savedAt>>
BY DEF Next, vars, store, ReadEarly, AskFront, ReadVersion, LookUnder, BackHit, BackMiss,
       Query, Run, Fail, StoreBack, StoreAgain, StoreFront, StoreFrontStale, StoreCopy,
       Requery, Drop, Save, ClearAll, Tick

\* Every step of the layers is a step of the page or none.
LEMMA RefinesStep ==
  ASSUME TypeOK, ShownFits', [Next]_vars
  PROVE  [Page!Next]_(Page!vars)
<1>1. /\ Kept(front)' => /\ Page!Snapshot(Shown)' /\ Page!MayShow(Shown, clock)'
                         /\ Shown' \in [asOf : 0 .. clock', saw : 0 .. saves',
                                        failed : BOOLEAN]
      /\ ~Kept(front)' => Shown' = None
  BY DEF ShownFits
<1>5. UNCHANGED Versioned
  BY PageStep DEF Versioned
<1>2. CASE UNCHANGED <<clock, saves, savedAt>>
  <2>1. CASE Kept(front)'
    BY <1>1, <1>2, <1>5, <2>1 DEF Page!Next, Page!Show, Page!Snapshot, Page!MayShow
  <2>2. CASE ~Kept(front)'
    BY <1>1, <1>2, <1>5, <2>2 DEF Page!Next, Page!Vanish
  <2> QED
    BY <2>1, <2>2
<1>3. CASE UNCHANGED <<clock, front>> /\ Save
  <2>1. Shown' = Shown
    BY <1>3 DEF Shown, Kept
  <2> QED
    BY <1>3, <1>5, <2>1 DEF Save, Page!Next, Page!Save
<1>4. CASE Tick
  <2>1. /\ clock < MaxTime /\ clock' = clock + 1 /\ front' \in {front, None}
        /\ UNCHANGED <<saves, savedAt>> /\ clock \in Nat
    BY <1>4 DEF Tick, Unexpired, TypeOK
  <2>2. Kept(front)' => Shown' = Shown
    BY <2>1 DEF Kept, Shown, TypeOK
  <2>3. Kept(front)' => Page!MayShow(Shown', clock + 1)
    BY <1>1, <1>5, <2>1 DEF Page!MayShow
  <2>4. Shown' \in {Shown, None} /\ (Shown' # None => Page!MayShow(Shown', clock + 1))
    BY <1>1, <2>2, <2>3
  <2> QED
    BY <1>5, <2>1, <2>4 DEF Page!Next, Page!Tick, Page!MayShow
<1> QED
  BY <1>2, <1>3, <1>4, PageStep

\* The two layers, the refresh behind the answer and the failures in between show a
\* reader what AgedPage allows: the list of one moment, young enough, with every
\* save older than the page's own time to live.
THEOREM Implements == Spec => ShowsAnAgedPage
<1>1. Spec => []IInv
  BY AgeInvariant, CopiesAreSnapshots, PTL DEF IInv
<1>2. IInv => TypeOK /\ ShownFits
  BY ShownKept DEF IInv, AgeInv, ShownFits, Shown
<1>3. TypeOK /\ ShownFits' /\ [Next]_vars => [Page!Next]_(Page!vars)
  BY RefinesStep
<1> QED
  BY <1>1, <1>2, <1>3, RefinesInit, PTL DEF Spec, ShowsAnAgedPage, Page!Spec
=============================================================================
