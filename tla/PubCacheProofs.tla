--------------------------- MODULE PubCacheProofs ---------------------------
(***************************************************************************)
(* For any ads, requests, times to live and bounds: the lists of ads name  *)
(* what they are for, gain an ad and lose it within a day of its save, of  *)
(* its end and of its deletion, and the iframes within two days of theirs. *)
(***************************************************************************)
EXTENDS PubCache, TLAPS

USE PubCacheAssumption

\* A multiple of a day and one day more.
LEMMA NextMultiple ==
  ASSUME NEW a \in Nat, NEW d \in Nat \ {0}, a % d = 0
  PROVE  (a + d) % d = 0
<1> DEFINE q == a \div d
           p == (a + d) \div d
           r == (a + d) % d
<1>1. q \in Int /\ p \in Int /\ r \in Int /\ 0 <= r /\ r < d
  OBVIOUS
<1>2. a = d * q /\ a + d = d * p + r
  OBVIOUS
<1> HIDE DEF q, p, r
<1>3. d * (1 + q - p) = r
  BY <1>1, <1>2
<1>4. ASSUME NEW k \in Int, 0 <= d * k, d * k < d PROVE k = 0
  <2>1. CASE k >= 1
    <3>1. d * k = d + d * (k - 1) /\ d * (k - 1) >= 0
      BY <2>1
    <3> QED
      BY <1>4, <3>1
  <2>2. CASE k <= -1
    <3>1. d * k = d * (k + 1) - d /\ d * (k + 1) <= 0
      BY <2>2
    <3> QED
      BY <1>4, <3>1
  <2> QED
    BY <2>1, <2>2
<1>5. 1 + q - p = 0
  BY <1>1, <1>3, <1>4
<1> QED
  BY <1>1, <1>3, <1>5 DEF r

\* What ends within a day of a time ends within a day of a later one.
LEMMA DayAfter ==
  ASSUME NEW end \in Nat, NEW now \in Nat, NEW later \in Nat,
         end <= now + Day, now <= later
  PROVE  end <= later + Day
OBVIOUS

\* What a list is queried for is what it is for, except the iframe.
LEMMA SelectedMeant ==
  ASSUME NEW w \in Wants, NEW ad \in Ads, NEW now \in Nat
  PROVE  /\ w.key \in Keys
         /\ w.key # "pub-iframe-infomaniak" =>
              (Selected(w, ad, now) <=> MeantFor(w, ad) /\ ad.end >= now)
<1>1. ad.dim \in Nat /\ ad.dim # None
  OBVIOUS
<1>2. CASE w.key \in {"pub-list-cache", "pub-iframe-infomaniak"}
  BY <1>2 DEF Keys, Selected, MeantFor
<1>3. CASE w.key \in {"Pub-728", "Pub-300"}
  BY <1>3 DEF Keys, Selected, MeantFor
<1> QED
  BY <1>2, <1>3 DEF Wants

\* A list is asked for by its own format, or under Pub-300 by one that is not sold.
LEMMA WantsOwn ==
  ASSUME NEW w \in Wants
  PROVE  w = Own[w.key] \/ (w.key = "Pub-300" /\ w.dim = None)
<1>1. CASE w \in [key : {"pub-list-cache", "pub-iframe-infomaniak"}, dim : {None}]
  <2>1. w = [key |-> w.key, dim |-> None]
        /\ w.key \in {"pub-list-cache", "pub-iframe-infomaniak"}
    BY <1>1
  <2>2. Own[w.key] = [key |-> w.key, dim |-> None]
    BY <2>1 DEF Own, Keys
  <2> QED
    BY <2>1, <2>2
<1>2. ASSUME NEW f \in Dimensions,
             w = [key |-> IF f = 728 THEN "Pub-728" ELSE "Pub-300", dim |-> FkDimension(f)]
      PROVE  w = Own[w.key] \/ (w.key = "Pub-300" /\ w.dim = None)
  <2>1. CASE f = 728
    <3>1. w = [key |-> "Pub-728", dim |-> 1]
      BY <1>2, <2>1 DEF FkDimension
    <3>2. Own["Pub-728"] = [key |-> "Pub-728", dim |-> 1]
      BY DEF Own, Keys
    <3> QED
      BY <3>1, <3>2
  <2>2. CASE f = 300
    <3>1. w = [key |-> "Pub-300", dim |-> 2]
      BY <1>2, <2>2 DEF FkDimension
    <3>2. Own["Pub-300"] = [key |-> "Pub-300", dim |-> 2]
      BY DEF Own, Keys
    <3> QED
      BY <3>1, <3>2
  <2>3. CASE f # 728 /\ f # 300
    BY <1>2, <2>3 DEF FkDimension
  <2> QED
    BY <2>1, <2>2, <2>3
<1> QED
  BY <1>1, <1>2 DEF Wants

-----------------------------------------------------------------------------
(* Types.                                                                  *)

\* The variables have their types at first.
LEMMA InitTyped == Init => TypeOK
BY DEF Init, TypeOK, Keys

\* Every step keeps the types.
LEMMA NextTyped == TypeOK /\ [Next]_vars => TypeOK'
<1> SUFFICES ASSUME TypeOK, [Next]_vars PROVE TypeOK'
  OBVIOUS
<1> USE DEF TypeOK, store, command, editors, request, history
<1>1. ASSUME NEW r \in Req, NEW w \in Wants, Ask(r, w) PROVE TypeOK'
  BY <1>1 DEF Ask
<1>2. ASSUME NEW r \in Req, Query(r) PROVE TypeOK'
  <2>1. got' \in [Req -> SUBSET Ads]
    BY <1>2 DEF Query, Rows
  <2> QED
    BY <1>2, <2>1 DEF Query
<1>3. ASSUME NEW r \in Req, Put(r) PROVE TypeOK'
  <2>1. want[r] \in Wants /\ want[r].key \in Keys
    BY <1>3 DEF Put, Finish, Wants, Keys
  <2>2. Entry(r, exp[r]) \in [ads : SUBSET Ads, exp : 0 .. MaxTime + Day,
                               by : Wants, raced : BOOLEAN]
    BY <2>1 DEF Entry
  <2>3. cache' \in [Keys -> [ads : SUBSET Ads, exp : 0 .. MaxTime + Day,
                             by : Wants, raced : BOOLEAN] \cup {None}]
    BY <1>3, <2>1, <2>2 DEF Put, Finish
  <2> QED
    BY <1>3, <2>3 DEF Put, Finish
<1>4. ASSUME NEW i \in Pub, NEW ad \in Ads \cup {None}, Save(i, ad) PROVE TypeOK'
  <2>1. removedAt' \in [Ads -> 0 .. MaxTime]
    BY <1>4 DEF Save, Removals
  <2> QED
    BY <1>4, <2>1 DEF Save
<1>5. ASSUME NEW n \in saving, ForgetKeys(n) PROVE TypeOK'
  BY <1>5 DEF ForgetKeys
<1>6. CASE ClearCache
  BY <1>6 DEF ClearCache
<1>7. CASE PurgePubs
  <2>1. removedAt' \in [Ads -> 0 .. MaxTime]
    BY <1>7 DEF PurgePubs, Removals
  <2> QED
    BY <1>7, <2>1 DEF PurgePubs
<1>8. CASE Tick
  <2>1. cache' \in [Keys -> [ads : SUBSET Ads, exp : 0 .. MaxTime + Day,
                             by : Wants, raced : BOOLEAN] \cup {None}]
    BY <1>8 DEF Tick, Unexpired
  <2> QED
    BY <1>8, <2>1 DEF Tick
<1>9. CASE UNCHANGED vars
  BY <1>9 DEF vars
<1> QED
  BY <1>1, <1>2, <1>3, <1>4, <1>5, <1>6, <1>7, <1>8, <1>9 DEF Next

-----------------------------------------------------------------------------
(* The night and the table.                                                *)

\* The command keeps its hours.
LEMMA NextNights == TypeOK /\ NightsKept /\ [Next]_vars => NightsKept'
<1> SUFFICES ASSUME TypeOK, NightsKept, [Next]_vars PROVE NightsKept'
  OBVIOUS
<1>1. clock \in Nat /\ lastRun \in Nat
  BY DEF TypeOK
<1>2. CASE ClearCache
  BY <1>1, <1>2 DEF ClearCache, Due, NightsKept
<1>3. CASE PurgePubs
  BY <1>3 DEF PurgePubs, NightsKept
<1>4. CASE Tick
  <2>1. clock # lastRun + Day
    <3>1. (lastRun + Day) % Day = 0
      BY <1>1, NextMultiple DEF NightsKept
    <3> QED
      BY <1>1, <1>4, <3>1 DEF Tick, Due
  <2>2. clock' = clock + 1 /\ nightly = "waiting" /\ UNCHANGED command
    BY <1>4 DEF Tick
  <2> QED
    BY <1>1, <2>1, <2>2 DEF NightsKept, command
<1>5. CASE UNCHANGED <<clock, command>>
  BY <1>5 DEF NightsKept, command
<1> QED
  BY <1>2, <1>3, <1>4, <1>5
     DEF Next, vars, store, command, Ask, Query, Put, Finish, Save, ForgetKeys

\* What a step does to the rows and to the times of their saves.
LEMMA RowsStep ==
  ASSUME TypeOK, [Next]_vars
  PROVE  /\ Rows \subseteq Ads /\ Rows' \subseteq Ads
         /\ clock \in Nat /\ clock' \in Nat /\ clock <= clock'
         /\ savedAt \in [Ads -> 0 .. MaxTime] /\ savedAt' \in [Ads -> 0 .. MaxTime]
         /\ \A ad \in Ads : savedAt[ad] <= savedAt'[ad] \/ savedAt'[ad] = clock
         /\ \A ad \in Rows' : ad \in Rows \/ savedAt'[ad] = clock
         /\ \A ad \in Rows : ad \in Rows' \/ saving' # {} \/ ad.end < clock'
         /\ nightly = "purge" /\ nightly' = "waiting" =>
              \A ad \in Rows' : clock <= ad.end
<1> USE DEF TypeOK, Rows
<1>1. ASSUME NEW i \in Pub, NEW ad \in Ads \cup {None}, Save(i, ad)
      PROVE  /\ clock' = clock /\ nightly' = nightly /\ saving' # {}
             /\ savedAt' \in [Ads -> 0 .. MaxTime] /\ Rows' \subseteq Ads
             /\ \A x \in Ads : savedAt'[x] = savedAt[x] \/ savedAt'[x] = clock
             /\ \A x \in Rows' : x \in Rows \/ savedAt'[x] = clock
  BY <1>1 DEF Save, command
<1>2. CASE PurgePubs
  BY <1>2 DEF PurgePubs, Expired, history
<1>3. CASE Tick
  BY <1>3 DEF Tick, command, history
<1>4. CASE ClearCache
  BY <1>4 DEF ClearCache, history
<1>5. CASE UNCHANGED <<pubs, clock, nightly, savedAt>>
  BY <1>5
<1>6. CASE \E i \in Pub, ad \in Ads \cup {None} : Save(i, ad)
  <2>1. /\ clock' = clock /\ nightly' = nightly /\ saving' # {}
        /\ savedAt' \in [Ads -> 0 .. MaxTime] /\ Rows' \subseteq Ads
        /\ \A x \in Ads : savedAt'[x] = savedAt[x] \/ savedAt'[x] = clock
        /\ \A x \in Rows' : x \in Rows \/ savedAt'[x] = clock
    BY <1>1, <1>6
  <2> QED
    BY <2>1
<1> QED
  BY <1>2, <1>3, <1>4, <1>5, <1>6
     DEF Next, vars, store, command, history, Ask, Query, Put, Finish, ForgetKeys

\* What is no longer in the table has left it now, or was gone already.
LEMMA GoneStep ==
  ASSUME TypeOK, [Next]_vars, NEW ad \in Ads, ad \notin Rows'
  PROVE  /\ ad \in Rows => removedAt'[ad] = clock
         /\ ad \notin Rows => removedAt'[ad] = removedAt[ad]
<1>1. CASE removedAt' = Removals
  BY <1>1 DEF Removals
<1>2. CASE UNCHANGED <<pubs, removedAt>>
  BY <1>2 DEF Rows
<1> QED
  BY <1>1, <1>2
     DEF Next, vars, store, history, Ask, Query, Put, Finish, Save, ForgetKeys,
         ClearCache, PurgePubs, Tick

\* No row that has ended outlives its purge.
LEMMA NextPurged ==
  TypeOK /\ NightsKept /\ RowsPurged /\ [Next]_vars => RowsPurged'
<1> SUFFICES ASSUME TypeOK, NightsKept, RowsPurged, [Next]_vars, NEW ad \in Rows'
             PROVE  LET since == IF nightly' = "purge" THEN lastRun' - Day ELSE lastRun'
                    IN  since <= ad.end \/ since <= savedAt'[ad]
  BY DEF RowsPurged
<1>1. /\ ad \in Ads /\ ad.end \in Nat /\ lastRun \in Nat /\ clock \in Nat
      /\ savedAt[ad] \in Nat /\ savedAt'[ad] \in Nat
      /\ savedAt[ad] <= savedAt'[ad] \/ savedAt'[ad] = clock
      /\ ad \in Rows \/ savedAt'[ad] = clock
  BY RowsStep DEF TypeOK
<1>2. lastRun <= clock /\ clock <= lastRun + Day
  BY DEF NightsKept
<1>3. ad \in Rows =>
        LET since == IF nightly = "purge" THEN lastRun - Day ELSE lastRun
        IN  since <= ad.end \/ since <= savedAt[ad]
  BY DEF RowsPurged
<1>4. CASE UNCHANGED <<nightly, lastRun>>
  BY <1>1, <1>2, <1>3, <1>4
<1>5. CASE ClearCache
  BY <1>1, <1>2, <1>3, <1>5 DEF ClearCache
<1>6. CASE PurgePubs
  <2>1. clock <= ad.end /\ nightly' = "waiting" /\ lastRun' = lastRun
    BY <1>6, RowsStep DEF PurgePubs
  <2> QED
    BY <1>1, <1>2, <2>1
<1> QED
  BY <1>4, <1>5, <1>6
     DEF Next, vars, command, Ask, Query, Put, Finish, Save, ForgetKeys, Tick

-----------------------------------------------------------------------------
(* The lists.                                                              *)

\* A list that may be shown until the time end stays so whatever happens.
LEMMA GoodKept ==
  ASSUME TypeOK, [Next]_vars, NEW w \in Wants, NEW ads \in SUBSET Ads, NEW end \in Nat,
         end <= clock + Day, GoodUntil(w, ads, end)
  PROVE  GoodUntil(w, ads, end)'
<1>1. /\ \A ad \in Ads : ad.end \in Nat /\ savedAt[ad] \in Nat /\ savedAt'[ad] \in Nat
      /\ clock \in Nat /\ clock' \in Nat /\ clock <= clock' /\ Rows' \subseteq Ads
      /\ \A ad \in Ads : savedAt[ad] <= savedAt'[ad] \/ savedAt'[ad] = clock
      /\ \A ad \in Rows' : ad \in Rows \/ savedAt'[ad] = clock
  BY RowsStep
<1>2. CASE w.key = "pub-iframe-infomaniak"
  <2>1. ASSUME NEW ad \in ads
        PROVE  end <= ad.end + 2 * Day \/ end <= savedAt'[ad] + 2 * Day
    <3>1. end <= ad.end + 2 * Day \/ end <= savedAt[ad] + 2 * Day
      BY <1>2 DEF GoodUntil
    <3> QED
      BY <1>1, <3>1
  <2> QED
    BY <1>2, <2>1 DEF GoodUntil
<1>3. CASE w.key # "pub-iframe-infomaniak"
  <2>1. ASSUME NEW ad \in Rows', MeantFor(w, ad), ad.end >= clock'
        PROVE  ad \in ads \/ end <= savedAt'[ad] + Day
    <3>1. ad \in Rows => ad \in ads \/ end <= savedAt[ad] + Day
      BY <1>1, <1>3, <2>1 DEF GoodUntil
    <3> QED
      BY <1>1, <3>1
  <2>2. \A ad \in ads : end <= ad.end + Day /\ MeantFor(w, ad)
    BY <1>3 DEF GoodUntil
  <2> HIDE DEF MeantFor
  <2> QED
    BY <1>3, <2>1, <2>2 DEF GoodUntil
<1> QED
  BY <1>2, <1>3

\* An entry was there before, or is what a request put.
LEMMA EntryFrom ==
  ASSUME TypeOK, [Next]_vars, NEW k \in Keys, cache'[k] # None
  PROVE  \/ /\ cache'[k] = cache[k]
            /\ \A n \in saving : ForgetKeys(n) => k = "Pub-728"
         \/ \E r \in Req : /\ Put(r) /\ want[r].key = k
                           /\ cache'[k] = Entry(r, exp[r])
<1>1. ASSUME NEW r \in Req, Put(r), cache'[k] # cache[k]
      PROVE  want[r].key = k /\ cache'[k] = Entry(r, exp[r])
  <2>1. want[r].key = k
    BY <1>1 DEF Put, TypeOK
  <2> QED
    BY <1>1, <2>1 DEF Put, TypeOK
<1>2. ASSUME NEW n \in saving, ForgetKeys(n)
      PROVE  k = "Pub-728" /\ cache'[k] = cache[k]
  BY <1>2 DEF ForgetKeys, ForgottenKeys, Keys
<1>3. CASE ClearCache
  BY <1>3 DEF ClearCache
<1>4. CASE UNCHANGED cache
  BY <1>2, <1>4
<1>5. ASSUME NEW r \in Req, Put(r), cache'[k] = cache[k]
      PROVE  \A n \in saving : ForgetKeys(n) => k = "Pub-728"
  BY <1>2
<1>6. CASE Tick
  <2>1. cache'[k] = cache[k]
    BY <1>6 DEF Tick, Unexpired
  <2> QED
    BY <1>2, <2>1
<1> QED
  BY <1>1, <1>2, <1>3, <1>4, <1>5, <1>6
     DEF Next, vars, store, history, Ask, Query, Save, PurgePubs

\* A request asks, queries, or is left as it was.
LEMMA RequestStep ==
  ASSUME TypeOK, [Next]_vars, NEW r \in Req, pc'[r] # "idle"
  PROVE  \/ /\ pc'[r] = "query" /\ exp'[r] = clock + Day
            /\ want'[r] \in Wants /\ saving' = saving
            /\ overlap'[r] \/ saving = {}
         \/ /\ Query(r) /\ pc[r] = "query" /\ pc'[r] = "put" /\ want'[r] = want[r]
            /\ exp'[r] = exp[r] /\ (overlap'[r] <=> overlap[r]) /\ saving' = saving
         \/ /\ pc'[r] = pc[r] /\ want'[r] = want[r] /\ got'[r] = got[r]
            /\ exp'[r] = exp[r]
            /\ overlap'[r] \/ ((overlap'[r] <=> overlap[r]) /\ saving' \subseteq saving)
<1> DEFINE Asked == /\ pc'[r] = "query" /\ exp'[r] = clock + Day
                    /\ want'[r] \in Wants /\ saving' = saving
                    /\ overlap'[r] \/ saving = {}
           Queried == /\ Query(r) /\ pc[r] = "query" /\ pc'[r] = "put"
                      /\ want'[r] = want[r] /\ exp'[r] = exp[r]
                      /\ (overlap'[r] <=> overlap[r]) /\ saving' = saving
           Left == /\ pc'[r] = pc[r] /\ want'[r] = want[r] /\ got'[r] = got[r]
                   /\ exp'[r] = exp[r]
                   /\ \/ overlap'[r]
                      \/ (overlap'[r] <=> overlap[r]) /\ saving' \subseteq saving
<1> SUFFICES Asked \/ Queried \/ Left
  OBVIOUS
<1> USE DEF TypeOK
<1>1. ASSUME NEW q \in Req, NEW w \in Wants, Ask(q, w)
      PROVE  Left \/ Asked
  <2>1. saving' = saving /\ got' = got
    BY <1>1 DEF Ask, editors
  <2>2. CASE q = r
    <3>1. /\ pc'[r] = "query" /\ exp'[r] = clock + Day /\ want'[r] = w
          /\ overlap'[r] = (saving # {})
      BY <1>1, <2>2 DEF Ask
    <3> QED
      BY <2>1, <3>1
  <2>3. CASE q # r
    BY <1>1, <2>1, <2>3 DEF Ask
  <2> QED
    BY <2>2, <2>3
<1>2. ASSUME NEW q \in Req, Query(q), q # r
      PROVE  Left
  BY <1>2 DEF Query, editors, history
<1>3. ASSUME Query(r) PROVE Queried
  BY <1>3 DEF Query, editors, history
<1>4. ASSUME NEW q \in Req, Put(q) PROVE Left
  <2>1. q # r /\ saving' = saving
    BY <1>4 DEF Put, Finish, editors
  <2>2. pc'[r] = pc[r] /\ want'[r] = want[r] /\ got'[r] = got[r] /\ exp'[r] = exp[r]
    BY <1>4, <2>1 DEF Put, Finish
  <2>3. overlap'[r] <=> overlap[r]
    BY <1>4, <2>1 DEF Put, Finish
  <2> QED
    BY <2>1, <2>2, <2>3
<1>5. ASSUME NEW i \in Pub, NEW ad \in Ads \cup {None}, Save(i, ad) PROVE Left
  <2>1. pc'[r] = pc[r] /\ UNCHANGED <<want, got, exp>>
    BY <1>5 DEF Save, request
  <2>2. overlap'[r]
    BY <1>5, <2>1 DEF Save
  <2> QED
    BY <2>1, <2>2
<1>6. CASE UNCHANGED <<request, overlap>> /\ saving' \subseteq saving
  BY <1>6 DEF request
<1>7. Next \/ UNCHANGED vars
  OBVIOUS
<1> HIDE DEF TypeOK, Asked, Queried, Left
<1>8. ASSUME ~(UNCHANGED <<request, overlap>> /\ saving' \subseteq saving)
      PROVE  \/ \E q \in Req : \/ \E w \in Wants : Ask(q, w)
                               \/ Query(q) \/ Put(q)
             \/ \E i \in Pub, ad \in Ads \cup {None} : Save(i, ad)
  BY <1>7, <1>8 DEF Next, vars, store, editors, history, request, ForgetKeys,
                    ClearCache, PurgePubs, Tick
<1>9. CASE UNCHANGED <<request, overlap>> /\ saving' \subseteq saving
  BY <1>6, <1>9 DEF Left
<1>10. CASE \E q \in Req : \E w \in Wants : Ask(q, w)
  BY <1>1, <1>10
<1>11. CASE \E q \in Req : Query(q)
  BY <1>2, <1>3, <1>11
<1>12. CASE \E q \in Req : Put(q)
  BY <1>4, <1>12
<1>13. CASE \E i \in Pub, ad \in Ads \cup {None} : Save(i, ad)
  BY <1>5, <1>13
<1> QED
  BY <1>8, <1>9, <1>10, <1>11, <1>12, <1>13

\* What a query gives is good until the expiry fixed before it.
LEMMA QueriedGood ==
  ASSUME TypeOK, NightsKept, RowsPurged, ListsGood, NEW r \in Req, Query(r)
  PROVE  GoodUntil(want[r], got[r], exp[r])'
<1> DEFINE k == want[r].key
           rows == {ad \in Rows : Selected(want[r], ad, clock)}
<1>1. /\ want[r] \in Wants /\ exp[r] \in Nat /\ clock \in Nat /\ Rows \subseteq Ads
      /\ exp[r] <= clock + Day /\ lastRun \in Nat
      /\ \A ad \in Ads : ad.end \in Nat /\ savedAt[ad] \in Nat
      /\ \A ad \in Ads : ad.kind \in Kinds
  BY DEF TypeOK, Query, ListsGood, Rows
<1>2. UNCHANGED <<pubs, clock, savedAt, want, exp>> /\ Rows' = Rows
  BY DEF Query, store, history, Rows
<1>3. /\ got'[r] \subseteq rows
      /\ k # "pub-iframe-infomaniak" => got'[r] = rows
  BY DEF Query, TypeOK
<1>4. CASE k = "pub-iframe-infomaniak"
  <2>1. ASSUME NEW ad \in Rows
        PROVE  exp[r] <= ad.end + 2 * Day \/ exp[r] <= savedAt[ad] + 2 * Day
    <3>1. /\ clock <= lastRun + Day /\ (nightly = "purge" => clock = lastRun)
          /\ LET since == IF nightly = "purge" THEN lastRun - Day ELSE lastRun
             IN  since <= ad.end \/ since <= savedAt[ad]
      BY DEF NightsKept, RowsPurged
    <3> QED
      BY <1>1, <3>1
  <2> QED
    BY <1>2, <1>3, <1>4, <2>1 DEF GoodUntil
<1>5. CASE k # "pub-iframe-infomaniak"
  <2>1. \A ad \in Rows : ad \in rows <=> MeantFor(want[r], ad) /\ ad.end >= clock
    BY <1>1, <1>5, SelectedMeant
  <2>2. \A ad \in got'[r] : exp[r] <= ad.end + Day /\ MeantFor(want[r], ad)
    BY <1>1, <1>3, <2>1
  <2>3. \A ad \in Rows : MeantFor(want[r], ad) /\ ad.end >= clock => ad \in got'[r]
    BY <1>3, <1>5, <2>1
  <2> HIDE DEF MeantFor, rows
  <2> QED
    BY <1>2, <1>5, <2>2, <2>3 DEF GoodUntil
<1> QED
  BY <1>4, <1>5

\* Every list stays good until it expires.
LEMMA NextGood ==
  TypeOK /\ NightsKept /\ RowsPurged /\ ListsGood /\ [Next]_vars => ListsGood'
<1> SUFFICES ASSUME TypeOK, NightsKept, RowsPurged, ListsGood, [Next]_vars
             PROVE  ListsGood'
  OBVIOUS
<1>0. clock \in Nat /\ clock' \in Nat /\ clock <= clock'
  BY RowsStep
<1>1. ASSUME NEW k \in Keys, cache'[k] # None
      PROVE  /\ cache'[k].by.key = k /\ cache'[k].exp <= clock' + Day
             /\ GoodUntil(cache[k].by, cache[k].ads, cache[k].exp)'
  <2>1. PICK w \in Wants, ads \in SUBSET Ads, end \in Nat :
          /\ cache'[k].by = w /\ cache'[k].ads = ads /\ cache'[k].exp = end
          /\ w.key = k /\ end <= clock + Day /\ GoodUntil(w, ads, end)
    <3>1. CASE cache'[k] = cache[k]
      BY <1>1, <3>1 DEF ListsGood, TypeOK
    <3>2. ASSUME NEW r \in Req, Put(r), want[r].key = k, cache'[k] = Entry(r, exp[r])
          PROVE  /\ cache'[k].by = want[r] /\ cache'[k].ads = got[r]
                 /\ cache'[k].exp = exp[r] /\ want[r] \in Wants
                 /\ got[r] \in SUBSET Ads /\ exp[r] \in Nat
                 /\ exp[r] <= clock + Day /\ GoodUntil(want[r], got[r], exp[r])
      BY <3>2 DEF ListsGood, TypeOK, Put, Finish, Entry
    <3> QED
      BY <1>1, <3>1, <3>2, EntryFrom
  <2>2. GoodUntil(w, ads, end)'
    BY <2>1, GoodKept
  <2>3. GoodUntil(cache[k].by, cache[k].ads, cache[k].exp)'
    BY <2>1, <2>2
  <2>4. end <= clock' + Day
    <3>1. end \in Nat /\ end <= clock + Day
      BY <2>1
    <3>2. clock \in Nat /\ clock' \in Nat /\ clock <= clock'
      BY <1>0
    <3> QED
      BY <3>1, <3>2, DayAfter, Zenon
  <2> QED
    BY <2>1, <2>3, <2>4
<1>2. ASSUME NEW r \in Req, pc'[r] # "idle"
      PROVE  /\ exp'[r] <= clock' + Day
             /\ pc'[r] = "put" => GoodUntil(want[r], got[r], exp[r])'
  <2> DEFINE G == /\ exp'[r] <= clock' + Day
                  /\ pc'[r] = "put" => GoodUntil(want[r], got[r], exp[r])'
  <2>1. CASE pc'[r] = "query" /\ exp'[r] = clock + Day
    <3>1. exp'[r] <= clock' + Day
      BY <1>0, <2>1
    <3> QED
      BY <2>1, <3>1
  <2>2. CASE Query(r) /\ pc[r] = "query" /\ want'[r] = want[r] /\ exp'[r] = exp[r]
    <3>1. exp'[r] <= clock' + Day
      BY <1>0, <2>2 DEF ListsGood, TypeOK
    <3> QED
      BY <2>2, <3>1, QueriedGood DEF Query
  <2>3. CASE pc'[r] = pc[r] /\ want'[r] = want[r] /\ got'[r] = got[r] /\ exp'[r] = exp[r]
    <3>1. exp[r] <= clock + Day /\ exp[r] \in Nat
      BY <1>2, <2>3 DEF ListsGood, TypeOK
    <3>2. CASE pc[r] = "put"
      <4>1. PICK w \in Wants, ads \in SUBSET Ads, end \in Nat :
              /\ w = want[r] /\ ads = got[r] /\ end = exp[r]
              /\ GoodUntil(w, ads, end) /\ end <= clock + Day
        BY <3>1, <3>2 DEF ListsGood, TypeOK
      <4>2. GoodUntil(w, ads, end)'
        BY <4>1, GoodKept
      <4> QED
        BY <1>0, <2>3, <3>1, <4>1, <4>2
    <3> QED
      BY <1>0, <2>3, <3>1, <3>2
  <2> HIDE DEF G
  <2>4. G
    <3>1. \/ pc'[r] = "query" /\ exp'[r] = clock + Day
          \/ Query(r) /\ pc[r] = "query" /\ want'[r] = want[r] /\ exp'[r] = exp[r]
          \/ /\ pc'[r] = pc[r] /\ want'[r] = want[r] /\ got'[r] = got[r]
             /\ exp'[r] = exp[r]
      BY <1>2, RequestStep
    <3> QED
      BY <2>1, <2>2, <2>3, <3>1 DEF G
  <2> QED
    BY <2>4 DEF G
<1> QED
  BY <1>1, <1>2 DEF ListsGood

-----------------------------------------------------------------------------
(* The rows that leave the table.                                          *)

\* Rows that a list may show until the time end may be shown so long whatever
\* happens to the table.
LEMMA GoneKept ==
  ASSUME TypeOK, [Next]_vars, NEW ads \in SUBSET Ads, NEW end \in Nat,
         end <= clock + Day, GoneBy(ads, end)
  PROVE  GoneBy(ads, end)'
<1> SUFFICES ASSUME NEW ad \in ads, ad \notin Rows'
             PROVE  end <= removedAt'[ad] + Day
  BY DEF GoneBy
<1>1. CASE ad \in Rows
  BY <1>1, GoneStep
<1>2. CASE ad \notin Rows
  <2>1. end <= removedAt[ad] + Day
    BY <1>2 DEF GoneBy
  <2>2. removedAt'[ad] = removedAt[ad]
    BY <1>2, GoneStep
  <2> QED
    BY <2>1, <2>2
<1> QED
  BY <1>1, <1>2

\* Every list is free of what left the table a day before it expires.
LEMMA NextGone ==
  TypeOK /\ ListsGood /\ ListsGone /\ [Next]_vars => ListsGone'
<1> SUFFICES ASSUME TypeOK, ListsGood, ListsGone, [Next]_vars PROVE ListsGone'
  OBVIOUS
<1>1. ASSUME NEW k \in Keys, cache'[k] # None
      PROVE  GoneBy(cache[k].ads, cache[k].exp)'
  <2>1. PICK ads \in SUBSET Ads, end \in Nat :
          /\ cache'[k].ads = ads /\ cache'[k].exp = end
          /\ end <= clock + Day /\ GoneBy(ads, end)
    <3>1. CASE cache'[k] = cache[k]
      BY <1>1, <3>1 DEF ListsGood, ListsGone, TypeOK
    <3>2. ASSUME NEW r \in Req, Put(r), want[r].key = k,
                 cache'[k] = Entry(r, exp[r])
          PROVE  /\ cache'[k].ads = got[r] /\ cache'[k].exp = exp[r]
                 /\ got[r] \in SUBSET Ads /\ exp[r] \in Nat
                 /\ exp[r] <= clock + Day /\ GoneBy(got[r], exp[r])
      BY <3>2 DEF ListsGood, ListsGone, TypeOK, Put, Finish, Entry
    <3> QED
      BY <1>1, <3>1, <3>2, EntryFrom
  <2>2. GoneBy(ads, end)'
    BY <2>1, GoneKept
  <2> QED
    BY <2>1, <2>2
<1>2. ASSUME NEW r \in Req, pc'[r] = "put"
      PROVE  GoneBy(got[r], exp[r])'
  <2>1. CASE Query(r)
    <3>1. got'[r] \subseteq Rows /\ Rows' = Rows
      BY <2>1 DEF Query, TypeOK, store, Rows
    <3> QED
      BY <3>1 DEF GoneBy
  <2>2. CASE pc'[r] = pc[r] /\ got'[r] = got[r] /\ exp'[r] = exp[r]
    <3>1. PICK ads \in SUBSET Ads, end \in Nat :
            /\ ads = got[r] /\ end = exp[r]
            /\ end <= clock + Day /\ GoneBy(ads, end)
      BY <1>2, <2>2 DEF ListsGood, ListsGone, TypeOK
    <3>2. GoneBy(ads, end)'
      BY <3>1, GoneKept
    <3> QED
      BY <2>2, <3>1, <3>2
  <2> QED
    BY <1>2, <2>1, <2>2, RequestStep
<1> QED
  BY <1>1, <1>2 DEF ListsGone

-----------------------------------------------------------------------------
(* Fills that met no save.                                                 *)

\* The rows a fill read and no save touched are there, or have ended.
LEMMA NextUndisturbed ==
  TypeOK /\ Undisturbed /\ [Next]_vars => Undisturbed'
<1> SUFFICES ASSUME TypeOK, Undisturbed, [Next]_vars PROVE Undisturbed'
  OBVIOUS
<1>0. \A ad \in Ads : ad.end \in Nat
  OBVIOUS
<1>1. ASSUME NEW ads \in SUBSET Ads, saving' = {},
             \A ad \in ads : ad \in Rows \/ ad.end < clock
      PROVE  \A ad \in ads : ad \in Rows' \/ ad.end < clock'
  BY <1>0, <1>1, RowsStep
<1>2. ASSUME NEW r \in Req, pc'[r] # "idle", ~overlap'[r]
      PROVE  /\ saving' = {}
             /\ pc'[r] = "put" => \A ad \in got'[r] : ad \in Rows' \/ ad.end < clock'
  <2>1. CASE pc'[r] = "query" /\ saving' = saving /\ saving = {}
    BY <2>1
  <2>2. CASE Query(r) /\ pc[r] = "query" /\ saving' = saving /\ ~overlap[r]
    <3>1. saving = {}
      BY <2>2 DEF Undisturbed
    <3>2. got'[r] \subseteq Rows /\ Rows' = Rows
      BY <2>2 DEF Query, TypeOK, store, Rows
    <3> QED
      BY <2>2, <3>1, <3>2
  <2>3. CASE /\ pc'[r] = pc[r] /\ got'[r] = got[r] /\ saving' \subseteq saving
             /\ ~overlap[r]
    <3>1. saving' = {} /\ got[r] \in SUBSET Ads
      BY <1>2, <2>3 DEF Undisturbed, TypeOK
    <3>2. CASE pc[r] = "put"
      <4>1. \A ad \in got[r] : ad \in Rows \/ ad.end < clock
        BY <1>2, <2>3, <3>2 DEF Undisturbed
      <4> QED
        BY <1>1, <2>3, <3>1, <4>1
    <3> QED
      BY <2>3, <3>1, <3>2
  <2> QED
    BY <1>2, <2>1, <2>2, <2>3, RequestStep
<1>3. ASSUME NEW k \in Keys \ {"Pub-728"}, cache'[k] # None, saving' = {}, ~cache'[k].raced
      PROVE  \A ad \in cache'[k].ads : ad \in Rows' \/ ad.end < clock'
  <2>1. CASE /\ cache'[k] = cache[k]
             /\ \A n \in saving : ~ForgetKeys(n)
    <3>1. saving = {}
      BY <1>3, <2>1
         DEF Next, vars, editors, Ask, Query, Put, Finish, Save, ClearCache, PurgePubs, Tick, TypeOK
    <3>2. cache[k].ads \in SUBSET Ads /\ \A ad \in cache[k].ads : ad \in Rows \/ ad.end < clock
      BY <1>3, <2>1, <3>1 DEF Undisturbed, TypeOK
    <3> QED
      BY <1>1, <1>3, <2>1, <3>2
  <2>2. ASSUME NEW r \in Req, Put(r), cache'[k] = Entry(r, exp[r])
        PROVE  \A ad \in cache'[k].ads : ad \in Rows' \/ ad.end < clock'
    <3>1. /\ got[r] \in SUBSET Ads /\ cache'[k].ads = got[r]
          /\ cache'[k].raced = overlap[r]
      BY <2>2 DEF TypeOK, Entry
    <3>2. \A ad \in got[r] : ad \in Rows \/ ad.end < clock
      BY <1>3, <2>2, <3>1 DEF Undisturbed, Put, Finish
    <3> QED
      BY <1>1, <1>3, <3>1, <3>2
  <2> QED
    BY <1>3, <2>1, <2>2, EntryFrom
<1> QED
  BY <1>2, <1>3 DEF Undisturbed

-----------------------------------------------------------------------------
(* The theorems.                                                           *)

\* The first state has no list and no row.
LEMMA InitHolds == Init => IInv
<1> SUFFICES ASSUME Init PROVE IInv
  OBVIOUS
<1>1. TypeOK
  BY InitTyped
<1>2. NightsKept
  BY DEF Init, NightsKept
<1>3. RowsPurged /\ ListsGood /\ ListsGone /\ Undisturbed
  BY DEF Init, RowsPurged, Rows, ListsGood, ListsGone, Undisturbed, Keys
<1> QED
  BY <1>1, <1>2, <1>3 DEF IInv

\* The inductive invariant holds in every reachable state.
LEMMA Invariance == Spec => []IInv
<1>1. IInv /\ [Next]_vars => IInv'
  <2> SUFFICES ASSUME IInv, [Next]_vars PROVE IInv'
    OBVIOUS
  <2>1. TypeOK'
    BY NextTyped DEF IInv
  <2>2. NightsKept'
    BY NextNights DEF IInv
  <2>3. RowsPurged'
    BY NextPurged DEF IInv
  <2>4. ListsGood'
    BY NextGood DEF IInv
  <2>5. ListsGone'
    BY NextGone DEF IInv
  <2>6. Undisturbed'
    BY NextUndisturbed DEF IInv
  <2> QED
    BY <2>1, <2>2, <2>3, <2>4, <2>5, <2>6 DEF IInv
<1> QED
  BY InitHolds, <1>1, PTL DEF Spec

\* Every variable keeps its type: in particular no list is stored for longer
\* than a day, although its expiry is fixed before its query (PubRepository
\* 103-159).
THEOREM TypeCorrect == Spec => []TypeOK
<1>1. IInv => TypeOK
  BY DEF IInv
<1> QED
  BY <1>1, Invariance, PTL

\* A dated list never shows an ad more than a day after its end (PubRepository
\* 103-137).
THEOREM DatedAdsLeave == Spec => []DatedAdsBounded
<1>1. IInv => DatedAdsBounded
  <2> SUFFICES ASSUME IInv, NEW k \in Keys \ {"pub-iframe-infomaniak"},
                      NEW ad \in Served(k)
               PROVE  clock < ad.end + Day
    BY DEF DatedAdsBounded
  <2>1. /\ cache[k] # None /\ clock < cache[k].exp /\ ad \in cache[k].ads
        /\ cache[k].exp \in Nat /\ clock \in Nat /\ ad.end \in Nat
    BY DEF Served, Present, IInv, TypeOK
  <2>2. cache[k].exp <= ad.end + Day
    BY <2>1 DEF IInv, ListsGood, GoodUntil
  <2> QED
    BY <2>1, <2>2
<1> QED
  BY <1>1, Invariance, PTL

\* The iframes, queried without a date, leave their list within two days of
\* their end or of their last save (PubRepository 152-159, ClearAllCache 29-39).
THEOREM IframesLeave == Spec => []IframesBounded
<1>1. IInv => IframesBounded
  <2> DEFINE k == "pub-iframe-infomaniak"
  <2> SUFFICES ASSUME IInv, NEW ad \in Served(k)
               PROVE  clock <= ad.end + 2 * Day \/ clock <= savedAt[ad] + 2 * Day
    BY DEF IframesBounded
  <2>1. /\ k \in Keys /\ cache[k] # None /\ clock < cache[k].exp
        /\ ad \in cache[k].ads /\ cache[k].exp \in Nat /\ clock \in Nat
        /\ ad.end \in Nat /\ savedAt[ad] \in Nat
    BY DEF Served, Present, IInv, TypeOK, Keys
  <2>2. cache[k].exp <= ad.end + 2 * Day \/ cache[k].exp <= savedAt[ad] + 2 * Day
    BY <2>1 DEF IInv, ListsGood, GoodUntil
  <2> QED
    BY <2>1, <2>2
<1> QED
  BY <1>1, Invariance, PTL

\* The key of a format holds only ads of that format (PubRepository 123-137).
THEOREM FormatsKept == Spec => []FormatsApart
<1>1. IInv => FormatsApart
  <2> SUFFICES ASSUME IInv, NEW k \in {"Pub-728", "Pub-300"}, NEW ad \in Served(k)
               PROVE  ad.dim = Own[k].dim
    BY DEF FormatsApart, Own, Keys
  <2>1. k \in Keys /\ cache[k] # None /\ ad \in cache[k].ads
    BY DEF Served, Present, Keys
  <2>2. /\ cache[k].by \in Wants /\ cache[k].by.key = k
        /\ ad \in Ads /\ GoodUntil(cache[k].by, cache[k].ads, cache[k].exp)
    BY <2>1 DEF IInv, TypeOK, ListsGood
  <2>3. ad.dim = cache[k].by.dim /\ ad.dim \in Nat
    BY <2>1, <2>2 DEF GoodUntil, MeantFor
  <2>4. cache[k].by = Own[k] \/ cache[k].by.dim = None
    BY <2>2, WantsOwn
  <2> QED
    BY <2>3, <2>4
<1> QED
  BY <1>1, Invariance, PTL

\* A running ad is in every list it is meant for at the latest a day after it was
\* saved, although no event forgets the list of the leaderboards, or the list is the
\* empty one that Pub-300 holds for a format that is not sold (PubRepository 103-147,
\* Pub.php 26-52).
THEOREM AdsAppear == Spec => []AdsShownWithinADay
<1>1. IInv => AdsShownWithinADay
  <2> SUFFICES ASSUME IInv, NEW k \in Keys, Present(k)
               PROVE  \/ k = "Pub-300" /\ cache[k].by.dim = None /\ cache[k].ads = {}
                      \/ \A ad \in Rows : MeantFor(Own[k], ad) /\ ad.end >= clock =>
                           ad \in cache[k].ads \/ clock < savedAt[ad] + Day
    BY DEF AdsShownWithinADay
  <2>1. /\ cache[k] # None /\ clock < cache[k].exp /\ cache[k].exp \in Nat
        /\ clock \in Nat /\ cache[k].by \in Wants /\ cache[k].by.key = k
        /\ cache[k].ads \subseteq Ads
        /\ GoodUntil(cache[k].by, cache[k].ads, cache[k].exp)
    BY DEF Present, IInv, TypeOK, ListsGood
  <2>2. CASE cache[k].by = Own[k]
    <3> SUFFICES ASSUME NEW ad \in Rows, MeantFor(cache[k].by, ad), ad.end >= clock
                 PROVE  ad \in cache[k].ads \/ clock < savedAt[ad] + Day
      BY <2>2
    <3>1. ad \in Ads /\ savedAt[ad] \in Nat
      BY DEF IInv, TypeOK, Rows
    <3>2. k # "pub-iframe-infomaniak"
      BY <2>1 DEF MeantFor
    <3>3. ad \in cache[k].ads \/ cache[k].exp <= savedAt[ad] + Day
      BY <2>1, <3>2 DEF GoodUntil
    <3> QED
      BY <2>1, <3>1, <3>3
  <2>3. CASE k = "Pub-300" /\ cache[k].by.dim = None
    <3>1. ASSUME NEW ad \in cache[k].ads PROVE FALSE
      <4>1. ad.dim \in Nat /\ ad.dim = None
        BY <2>1, <2>3 DEF GoodUntil, MeantFor
      <4> QED
        BY <4>1
    <3> QED
      BY <2>3, <3>1
  <2> QED
    BY <2>1, <2>2, <2>3, WantsOwn
<1> QED
  BY <1>1, Invariance, PTL

\* No list shows a row a day after it left the table, although the list of the
\* leaderboards is forgotten by no event, the purge fires none, and a fill may
\* have read the row before it went (PubRepository 103-159, Pub.php 26-52,
\* ClearAllCache 29-39).
THEOREM GoneAdsLeave == Spec => []GoneWithinADay
<1>1. IInv => GoneWithinADay
  <2> SUFFICES ASSUME IInv, NEW k \in Keys, NEW ad \in Served(k), ad \notin Rows
               PROVE  clock < removedAt[ad] + Day
    BY DEF GoneWithinADay
  <2>1. /\ cache[k] # None /\ clock < cache[k].exp /\ ad \in cache[k].ads
        /\ cache[k].exp \in Nat /\ clock \in Nat /\ removedAt[ad] \in Nat
    BY DEF Served, Present, IInv, TypeOK
  <2>2. cache[k].exp <= removedAt[ad] + Day
    BY <2>1 DEF IInv, ListsGone, GoneBy
  <2> QED
    BY <2>1, <2>2
<1> QED
  BY <1>1, Invariance, PTL

\* Outside a save, a list the events forget shows an ad that is no longer in
\* the table only if it has ended or its fill met a save (Pub.php 26-52).
THEOREM StaleOnlyByRace == Spec => []StaleAdsRaced
<1>1. IInv => StaleAdsRaced
  BY DEF IInv, Undisturbed, StaleAdsRaced, Served, Present
<1> QED
  BY <1>1, Invariance, PTL
=============================================================================
