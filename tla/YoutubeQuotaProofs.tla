------------------------- MODULE YoutubeQuotaProofs -------------------------
(***************************************************************************)
(* For any request processes, videos, quota and bounds: what a day costs   *)
(* in refused calls, and that a kept answer is not lost from sight.        *)
(***************************************************************************)
EXTENDS YoutubeQuota, FiniteSetTheorems, TLAPS

USE YoutubeQuotaAssumption

-----------------------------------------------------------------------------
(* Types.                                                                  *)

\* The variables have their types at first.
LEMMA InitTyped == Init => TypeOK
<1>1. /\ 0 \in 0 .. Quota /\ 0 \in 0 .. MaxDays /\ 0 \in 0 .. MaxClears
      /\ 0 \in 0 .. MaxErrors /\ 0 \in 0 .. MaxDeaths
  OBVIOUS
<1> SUFFICES ASSUME Init PROVE TypeOK
  OBVIOUS
<1>2. /\ used \in 0 .. Quota /\ days \in 0 .. MaxDays /\ clears \in 0 .. MaxClears
      /\ errors \in 0 .. MaxErrors /\ deaths \in 0 .. MaxDeaths
      /\ wasted \in Nat /\ lost \in Nat /\ late \subseteq Req /\ carried \in BOOLEAN
  BY <1>1 DEF Init
<1>3. /\ fresh \in [Video -> BOOLEAN] /\ rescue \in [Video -> BOOLEAN]
      /\ failed \in [Video -> BOOLEAN] /\ blocked \in BOOLEAN
      /\ hadCopy \in [Req -> BOOLEAN]
  BY DEF Init
<1>4. /\ pc \in [Req -> Pcs] /\ vid \in [Req -> Video \cup {None}]
      /\ reply \in [Req -> Replies \cup {None}] /\ answer \in [Req -> Answers \cup {None}]
      /\ \A r \in Req : pc[r] = "done" => answer[r] # None
  BY DEF Init, Pcs
<1> QED
  BY <1>2, <1>3, <1>4, Zenon DEF TypeOK

\* A request that ends has the types.
LEMMA ResetTyped ==
  ASSUME TypeOK, NEW r \in Req, Reset(r)
  PROVE  /\ pc' \in [Req -> Pcs] /\ vid' \in [Req -> Video \cup {None}]
         /\ reply' \in [Req -> Replies \cup {None}]
         /\ answer' \in [Req -> Answers \cup {None}]
         /\ hadCopy' \in [Req -> BOOLEAN]
         /\ \A q \in Req : pc'[q] = "done" => answer'[q] # None
BY DEF Reset, TypeOK, Pcs

\* Every step keeps the types.
LEMMA NextTyped == TypeOK /\ [Next]_vars => TypeOK'
<1> SUFFICES ASSUME TypeOK, [Next]_vars PROVE TypeOK'
  OBVIOUS
<1> USE DEF TypeOK, Pcs, Replies, Answers, Goto, cache, world, request, history, calls,
            carry
<1>1. ASSUME NEW r \in Req, NEW v \in Video, Visit(r, v) PROVE TypeOK'
  BY <1>1 DEF Visit
<1>2. ASSUME NEW r \in Req, CheckPause(r) PROVE TypeOK'
  BY <1>2 DEF CheckPause
<1>3. ASSUME NEW r \in Req, CallApi(r) PROVE TypeOK'
  BY <1>3 DEF CallApi, Refuse
<1>4. ASSUME NEW r \in Req, PutFresh(r) PROVE TypeOK'
  BY <1>4 DEF PutFresh
<1>5. ASSUME NEW r \in Req, PutRescue(r) PROVE TypeOK'
  BY <1>5 DEF PutRescue
<1>6. ASSUME NEW r \in Req, PutPause(r) PROVE TypeOK'
  BY <1>6 DEF PutPause
<1>7. ASSUME NEW r \in Req, Fallback(r) PROVE TypeOK'
  BY <1>7 DEF Fallback
<1>8. ASSUME NEW r \in Req, Respond(r) PROVE TypeOK'
  BY <1>8, ResetTyped DEF Respond
<1>9. ASSUME NEW r \in Req, Die(r) PROVE TypeOK'
  BY <1>9, ResetTyped DEF Die
<1>10. ASSUME NEW v \in Video, ExpireFresh(v) \/ ExpireFailed(v) PROVE TypeOK'
  BY <1>10 DEF ExpireFresh, ExpireFailed
<1>11. CASE Midnight
  <2>1. days' \in 0 .. MaxDays /\ used' \in 0 .. Quota /\ late' \subseteq Req
    BY <1>11 DEF Midnight, Refused
  <2> QED
    BY <1>11, <2>1 DEF Midnight
<1>12. CASE ClearAll
  <2>1. clears' \in 0 .. MaxClears
    BY <1>12 DEF ClearAll
  <2> QED
    BY <1>12, <2>1 DEF ClearAll
<1>13. CASE UNCHANGED vars
  BY <1>13 DEF vars
<1> QED
  BY <1>1, <1>2, <1>3, <1>4, <1>5, <1>6, <1>7, <1>8, <1>9, <1>10, <1>11, <1>12, <1>13
     DEF Next, Step

-----------------------------------------------------------------------------
(* Copies.                                                                 *)

\* A copy a request may count on stays, and is what it falls back on.
LEMMA NextCopies ==
  TypeOK /\ AboutAVideo /\ CopyKept /\ [Next]_vars => AboutAVideo' /\ CopyKept'
<1> SUFFICES ASSUME TypeOK, AboutAVideo, CopyKept, [Next]_vars PROVE AboutAVideo' /\ CopyKept'
  OBVIOUS
<1> USE DEF TypeOK, AboutAVideo, CopyKept, Goto, cache, world, request, history, calls,
            carry
<1>1. ASSUME NEW r \in Req, NEW v \in Video, Visit(r, v) PROVE AboutAVideo' /\ CopyKept'
  BY <1>1 DEF Visit
<1>2. ASSUME NEW r \in Req, CheckPause(r) \/ Fallback(r) PROVE AboutAVideo' /\ CopyKept'
  BY <1>2 DEF CheckPause, Fallback
<1>3. ASSUME NEW r \in Req, CallApi(r) PROVE AboutAVideo' /\ CopyKept'
  BY <1>3 DEF CallApi, Refuse
<1>4. ASSUME NEW r \in Req, PutFresh(r) \/ PutPause(r) PROVE AboutAVideo' /\ CopyKept'
  BY <1>4 DEF PutFresh, PutPause
<1>5. ASSUME NEW r \in Req, PutRescue(r) PROVE AboutAVideo' /\ CopyKept'
  BY <1>5 DEF PutRescue
<1>6. ASSUME NEW r \in Req, Respond(r) \/ Die(r) PROVE AboutAVideo' /\ CopyKept'
  BY <1>6 DEF Respond, Die, Reset
<1>7. ASSUME NEW v \in Video, ExpireFresh(v) \/ ExpireFailed(v) PROVE AboutAVideo' /\ CopyKept'
  BY <1>7 DEF ExpireFresh, ExpireFailed
<1>8. CASE Midnight \/ UNCHANGED vars
  BY <1>8 DEF Midnight, vars
<1>9. CASE ClearAll
  BY <1>9 DEF ClearAll
<1> QED
  BY <1>1, <1>2, <1>3, <1>4, <1>5, <1>6, <1>7, <1>8, <1>9 DEF Next, Step

-----------------------------------------------------------------------------
(* Refusals.                                                               *)

\* What a cache:clear more is worth.
LEMMA Products ==
  ASSUME NEW n \in Nat, NEW c \in Nat
  PROVE  n * c \in Nat /\ n * (1 + c) = n * c + n /\ n * (c + 1) = n * c + n
OBVIOUS

\* No more requests call or were refused than there are.
LEMMA Counted ==
  ASSUME NEW C, NEW R, C \subseteq Req, R \subseteq Req, C \cap R = {}
  PROVE  /\ IsFiniteSet(C) /\ IsFiniteSet(R)
         /\ Cardinality(Req) \in Nat /\ Cardinality(C) \in Nat /\ Cardinality(R) \in Nat
         /\ Cardinality(C) + Cardinality(R) <= Cardinality(Req)
<1>1. IsFiniteSet(C) /\ IsFiniteSet(R)
  BY FS_Subset
<1>2. Cardinality(C \cup R) = Cardinality(C) + Cardinality(R) - Cardinality(C \cap R)
  BY <1>1, FS_Union
<1>3. Cardinality(C \cap R) = 0
  BY FS_EmptySet
<1>4. Cardinality(C \cup R) <= Cardinality(Req)
  BY FS_Subset
<1>5. Cardinality(Req) \in Nat /\ Cardinality(C) \in Nat /\ Cardinality(R) \in Nat
  BY <1>1, FS_CardinalityType
<1> QED
  BY <1>1, <1>2, <1>3, <1>4, <1>5

\* Refused calls stay held by a request, recorded or lost.
LEMMA NextRefusals == TypeOK /\ RefusalsHeld /\ [Next]_vars => RefusalsHeld'
<1> SUFFICES ASSUME TypeOK, RefusalsHeld, [Next]_vars PROVE RefusalsHeld'
  OBVIOUS
<1> USE DEF Goto, cache, world, request, history, calls, carry
<1>0. TypeOK'
  BY NextTyped
<1>1. /\ IsFiniteSet(Calling) /\ IsFiniteSet(Refused)
      /\ Cardinality(Req) \in Nat /\ Cardinality(Calling) \in Nat
      /\ Cardinality(Refused) \in Nat
      /\ Cardinality(Calling) + Cardinality(Refused) <= Cardinality(Req)
  <2>1. Calling \subseteq Req /\ Refused \subseteq Req /\ Calling \cap Refused = {}
    BY DEF Calling, Refused
  <2> QED
    BY <2>1, Counted
<1>2. Cardinality(Calling') \in Nat /\ Cardinality(Refused') \in Nat
  <2>1. Calling' \subseteq Req /\ Refused' \subseteq Req /\ Calling' \cap Refused' = {}
    BY DEF Calling, Refused
  <2> QED
    BY <2>1, Counted
<1>3. /\ wasted \in Nat /\ lost \in Nat /\ clears \in Nat /\ wasted' \in Nat
      /\ lost' \in Nat /\ clears' \in Nat /\ blocked \in BOOLEAN /\ blocked' \in BOOLEAN
  BY <1>0 DEF TypeOK
<1>4. /\ Cardinality(Req) * clears \in Nat
      /\ Cardinality(Req) * (1 + clears) = Cardinality(Req) * clears + Cardinality(Req)
      /\ Cardinality(Req) * (clears + 1) = Cardinality(Req) * clears + Cardinality(Req)
  BY <1>1, <1>3, Products
<1>5. ASSUME blocked' <=> blocked, wasted' = wasted, lost' = lost, clears' = clears,
             Refused' = Refused, blocked => Calling' \subseteq Calling
      PROVE  RefusalsHeld'
  <2>1. blocked => Cardinality(Calling') <= Cardinality(Calling)
    BY <1>1, <1>5, FS_Subset
  <2> QED
    BY <1>1, <1>2, <1>3, <1>4, <1>5, <2>1 DEF RefusalsHeld
<1>6. ASSUME NEW r \in Req, NEW v \in Video, Visit(r, v) PROVE RefusalsHeld'
  <2>1. Refused' = Refused /\ Calling' = Calling
    BY <1>6 DEF Visit, Calling, Refused, TypeOK
  <2> QED
    BY <1>5, <1>6, <2>1 DEF Visit
<1>7. ASSUME NEW r \in Req, CheckPause(r) PROVE RefusalsHeld'
  <2>1. Refused' = Refused /\ (blocked => Calling' = Calling)
    BY <1>7 DEF CheckPause, Paused, Calling, Refused, TypeOK
  <2> QED
    BY <1>5, <1>7, <2>1 DEF CheckPause
<1>8. ASSUME NEW r \in Req, CallApi(r) PROVE RefusalsHeld'
  <2>1. r \in Calling /\ r \notin Refused
    BY <1>8 DEF CallApi, Refuse, Calling, Refused
  <2>2. Calling' = Calling \ {r} /\ UNCHANGED <<blocked, clears, lost>>
    BY <1>8 DEF CallApi, Refuse, Calling, TypeOK
  <2>3. \/ Refused' = Refused /\ UNCHANGED wasted
        \/ Refused' = Refused \cup {r} /\ wasted' = wasted + 1
    BY <1>8 DEF CallApi, Refuse, Refused, TypeOK
  <2>4. CASE Refused' = Refused /\ UNCHANGED wasted
    BY <1>5, <2>2, <2>4
  <2>5. CASE Refused' = Refused \cup {r} /\ wasted' = wasted + 1
    <3>1. /\ Cardinality(Refused \cup {r}) = Cardinality(Refused) + 1
          /\ Cardinality(Calling \ {r}) = Cardinality(Calling) - 1
      BY <1>1, <2>1, FS_AddElement, FS_RemoveElement
    <3> QED
      BY <1>1, <1>3, <1>4, <2>2, <2>5, <3>1 DEF RefusalsHeld
  <2> QED
    BY <2>3, <2>4, <2>5
<1>9. ASSUME NEW r \in Req, PutFresh(r) \/ PutRescue(r) \/ Fallback(r) \/ Respond(r)
      PROVE  RefusalsHeld'
  <2>1. Refused' = Refused /\ Calling' = Calling
    BY <1>9 DEF PutFresh, PutRescue, Fallback, Respond, Reset, Calling, Refused, TypeOK
  <2> QED
    BY <1>5, <1>9, <2>1 DEF PutFresh, PutRescue, Fallback, Respond
<1>10. ASSUME NEW r \in Req, PutPause(r) PROVE RefusalsHeld'
  <2>1. Calling' = Calling /\ UNCHANGED <<clears, wasted, lost>>
    BY <1>10 DEF PutPause, Calling, TypeOK
  <2>2. CASE reply[r] = "refused"
    <3>1. blocked'
      BY <1>10, <2>2 DEF PutPause
    <3> QED
      BY <1>1, <1>3, <1>4, <2>1, <3>1 DEF RefusalsHeld
  <2>3. CASE reply[r] # "refused"
    <3>1. Refused' = Refused /\ (blocked' <=> blocked)
      BY <1>10, <2>3 DEF PutPause, Refused, TypeOK
    <3> QED
      BY <1>5, <2>1, <3>1
  <2> QED
    BY <2>2, <2>3
<1>11. ASSUME NEW r \in Req, Die(r) PROVE RefusalsHeld'
  <2>1. Calling' \subseteq Calling /\ UNCHANGED <<blocked, clears, wasted>>
    BY <1>11 DEF Die, Reset, Calling, TypeOK
  <2>2. CASE r \in Refused
    <3>1. Refused' = Refused \ {r} /\ lost' = lost + 1
      BY <1>11, <2>2 DEF Die, Reset, Refused, TypeOK
    <3>2. /\ Cardinality(Refused \ {r}) = Cardinality(Refused) - 1
          /\ Cardinality(Calling') <= Cardinality(Calling)
      BY <1>1, <2>1, <2>2, FS_RemoveElement, FS_Subset
    <3> QED
      BY <1>1, <1>2, <1>3, <1>4, <2>1, <3>1, <3>2 DEF RefusalsHeld
  <2>3. CASE r \notin Refused
    <3>1. Refused' = Refused /\ lost' = lost
      BY <1>11, <2>3 DEF Die, Reset, Refused, TypeOK
    <3> QED
      BY <1>5, <2>1, <3>1
  <2> QED
    BY <2>2, <2>3
<1>12. ASSUME NEW v \in Video, ExpireFresh(v) \/ ExpireFailed(v) PROVE RefusalsHeld'
  BY <1>5, <1>12 DEF ExpireFresh, ExpireFailed, Calling, Refused
<1>13. CASE Midnight
  BY <1>2, <1>3, <1>4, <1>13 DEF Midnight, RefusalsHeld
<1>14. CASE ClearAll
  <2>1. /\ Calling' = Calling /\ Refused' = Refused /\ UNCHANGED <<wasted, lost>>
        /\ clears' = clears + 1 /\ ~blocked'
    BY <1>14 DEF ClearAll, Calling, Refused
  <2> QED
    BY <1>1, <1>3, <1>4, <2>1 DEF RefusalsHeld
<1>15. CASE UNCHANGED vars
  BY <1>5, <1>15 DEF vars, Calling, Refused
<1> QED
  BY <1>6, <1>7, <1>8, <1>9, <1>10, <1>11, <1>12, <1>13, <1>14, <1>15 DEF Next, Step

-----------------------------------------------------------------------------
(* The pause.                                                              *)

\* Refusals stay those of today, or are known as late; so does the pause they open.
LEMMA NextPause ==
  TypeOK /\ RefusalsDated /\ PauseEarned /\ [Next]_vars => RefusalsDated' /\ PauseEarned'
<1> SUFFICES ASSUME TypeOK, RefusalsDated, PauseEarned, [Next]_vars
             PROVE  RefusalsDated' /\ PauseEarned'
  OBVIOUS
<1> USE DEF Goto, cache, world, request, history, calls, carry
<1>1. ASSUME Refused' = Refused, UNCHANGED <<wasted, late, carried>>, blocked' => blocked
      PROVE  RefusalsDated' /\ PauseEarned'
  BY <1>1 DEF RefusalsDated, PauseEarned
<1>2. ASSUME NEW r \in Req, NEW v \in Video, Visit(r, v) PROVE Refused' = Refused
  BY <1>2 DEF Visit, Refused, TypeOK
<1>3. ASSUME NEW r \in Req,
             CheckPause(r) \/ PutFresh(r) \/ PutRescue(r) \/ Fallback(r) \/ Respond(r)
      PROVE  Refused' = Refused
  BY <1>3 DEF CheckPause, PutFresh, PutRescue, Fallback, Respond, Reset, Refused, TypeOK
<1>4. ASSUME NEW r \in Req, CallApi(r) PROVE RefusalsDated' /\ PauseEarned'
  <2>1. r \notin Refused /\ r \notin late
    BY <1>4 DEF CallApi, Refuse, Refused, RefusalsDated
  <2>2. UNCHANGED <<late, carried, blocked>>
    BY <1>4 DEF CallApi, Refuse
  <2>3. \/ Refused' = Refused /\ wasted' = wasted
        \/ Refused' = Refused \cup {r} /\ wasted' = wasted + 1
    BY <1>4 DEF CallApi, Refuse, Refused, TypeOK
  <2>4. CASE Refused' = Refused /\ wasted' = wasted
    BY <2>2, <2>4 DEF RefusalsDated, PauseEarned
  <2>5. CASE Refused' = Refused \cup {r} /\ wasted' = wasted + 1
    <3>1. wasted' > 0
      BY <2>5 DEF TypeOK
    <3> QED
      BY <2>1, <2>2, <2>5, <3>1 DEF RefusalsDated, PauseEarned
  <2> QED
    BY <2>3, <2>4, <2>5
<1>5. ASSUME NEW r \in Req, PutPause(r) PROVE RefusalsDated' /\ PauseEarned'
  <2>1. /\ Refused' = Refused \ {r} /\ late' = late \ {r} /\ wasted' = wasted
        /\ carried' = (carried \/ r \in late)
        /\ blocked' = (blocked \/ reply[r] = "refused")
        /\ reply[r] = "refused" => r \in Refused
    BY <1>5 DEF PutPause, Refused, TypeOK
  <2>2. blocked' => wasted > 0 \/ carried \/ r \in late
    BY <2>1 DEF RefusalsDated, PauseEarned
  <2> QED
    BY <2>1, <2>2 DEF RefusalsDated, PauseEarned
<1>6. ASSUME NEW r \in Req, Die(r) PROVE RefusalsDated' /\ PauseEarned'
  <2>1. /\ Refused' = Refused \ {r} /\ late' = late \ {r}
        /\ UNCHANGED <<wasted, carried, blocked>>
    BY <1>6 DEF Die, Reset, Refused, TypeOK
  <2> QED
    BY <2>1 DEF RefusalsDated, PauseEarned
<1>7. ASSUME NEW v \in Video, ExpireFresh(v) \/ ExpireFailed(v)
      PROVE  RefusalsDated' /\ PauseEarned'
  BY <1>1, <1>7 DEF ExpireFresh, ExpireFailed, Refused
<1>8. CASE Midnight
  BY <1>8 DEF Midnight, Refused, RefusalsDated, PauseEarned
<1>9. CASE ClearAll
  BY <1>1, <1>9 DEF ClearAll, Refused
<1>10. CASE UNCHANGED vars
  BY <1>1, <1>10 DEF vars, Refused
<1>11. ASSUME NEW r \in Req, NEW v \in Video, Visit(r, v)
       PROVE  RefusalsDated' /\ PauseEarned'
  BY <1>1, <1>2, <1>11 DEF Visit
<1>12. ASSUME NEW r \in Req,
              CheckPause(r) \/ PutFresh(r) \/ PutRescue(r) \/ Fallback(r) \/ Respond(r)
       PROVE  RefusalsDated' /\ PauseEarned'
  BY <1>1, <1>3, <1>12 DEF CheckPause, PutFresh, PutRescue, Fallback, Respond
<1> QED
  BY <1>4, <1>5, <1>6, <1>7, <1>8, <1>9, <1>10, <1>11, <1>12 DEF Next, Step

-----------------------------------------------------------------------------
(* The theorems.                                                           *)

\* No call is refused and no copy counted on before the first visit.
LEMMA InitHolds == Init => IInv
<1> SUFFICES ASSUME Init PROVE IInv
  OBVIOUS
<1>1. TypeOK
  BY InitTyped
<1>2. AboutAVideo /\ CopyKept
  BY DEF Init, AboutAVideo, CopyKept
<1>3. Calling = {} /\ Refused = {}
  BY DEF Init, Calling, Refused
<1>4. Cardinality(Refused) = 0 /\ Cardinality(Req) \in Nat
  BY <1>3, FS_EmptySet, FS_CardinalityType
<1>5. Cardinality(Req) * 0 = 0
  BY <1>4
<1>6. RefusalsHeld
  BY <1>4, <1>5 DEF Init, RefusalsHeld
<1>7. RefusalsDated /\ PauseEarned
  BY <1>3 DEF Init, RefusalsDated, PauseEarned
<1> QED
  BY <1>1, <1>2, <1>6, <1>7 DEF IInv

\* The invariant holds.
LEMMA Invariance == Spec => []IInv
<1>1. IInv /\ [Next]_vars => IInv'
  BY NextTyped, NextCopies, NextRefusals, NextPause DEF IInv
<1> QED
  BY <1>1, InitHolds, PTL DEF Spec

\* Every variable of getYoutubeApi and of its cache has its type.
THEOREM TypeCorrect == Spec => []TypeOK
<1>1. IInv => TypeOK
  BY DEF IInv
<1> QED
  BY <1>1, Invariance, PTL

\* Once a refusal is recorded no request begins a call: a day costs at most one
\* refused call per process, for each time the record was cleared, and one per
\* process killed with a refusal in its hands (Helper.php 470-498).
THEOREM FewWastedCalls == Spec => []WastedCallsBounded
<1>1. TypeOK /\ RefusalsHeld => WastedCallsBounded
  <2> SUFFICES ASSUME TypeOK, RefusalsHeld PROVE WastedCallsBounded
    OBVIOUS
  <2>1. Calling \subseteq Req /\ Refused \subseteq Req /\ Calling \cap Refused = {}
    BY DEF Calling, Refused
  <2>2. /\ Cardinality(Req) \in Nat /\ Cardinality(Calling) \in Nat
        /\ Cardinality(Refused) \in Nat
        /\ Cardinality(Calling) + Cardinality(Refused) <= Cardinality(Req)
    BY <2>1, Counted
  <2>3. wasted \in Nat /\ lost \in Nat /\ clears \in Nat
    BY DEF TypeOK
  <2>4. /\ Cardinality(Req) * clears \in Nat
        /\ Cardinality(Req) * (1 + clears) = Cardinality(Req) * clears + Cardinality(Req)
    BY <2>2, <2>3, Products
  <2> QED
    BY <2>2, <2>3, <2>4 DEF RefusalsHeld, WastedCallsBounded
<1>2. IInv => WastedCallsBounded
  BY <1>1 DEF IInv
<1> QED
  BY <1>2, Invariance, PTL

\* All videos are silenced together only on a day on which a call was answered 403,
\* or after a 403 of the day before was recorded past midnight (Helper.php 489-498).
THEOREM PauseIsEarned == Spec => []PauseEarned
<1>1. IInv => PauseEarned
  BY DEF IInv
<1> QED
  BY <1>1, Invariance, PTL

\* A visitor is never shown an empty answer while the rescue copy that was
\* there when the page was asked for is still there (Helper.php 455-501).
THEOREM CopyServes == Spec => []NeverEmptyAgain
<1>1. IInv => NeverEmptyAgain
  BY DEF IInv, CopyKept, NeverEmptyAgain
<1> QED
  BY <1>1, Invariance, PTL
=============================================================================
