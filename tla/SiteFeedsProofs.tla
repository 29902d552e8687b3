--------------------------- MODULE SiteFeedsProofs ---------------------------
(***************************************************************************)
(* For any visitors, lists and steps of the feeds: the types of SiteFeeds, *)
(* what the end of a feed leaves out, that no page shows an item twice,    *)
(* when a click misses its list and what a walk through an author's pages  *)
(* gives.                                                                  *)
(***************************************************************************)
EXTENDS SiteFeeds, SequenceTheorems, TLAPS

USE SiteFeedsAssumption, NoneIsNoList

\* A part of a list: its type, its length and its items.
LEMMA SliceFacts ==
  ASSUME NEW list \in Lists, NEW start \in Nat, NEW n \in Nat
  PROVE  /\ Slice(list, start, n) \in Lists
         /\ Len(Slice(list, start, n))
              = Greatest(0, Least(start + n, Len(list)) - start)
         /\ \A i \in 1 .. Len(Slice(list, start, n)) :
              i + start \in 1 .. Len(list) /\ Slice(list, start, n)[i] = list[i + start]
<1> DEFINE end == Least(start + n, Len(list))
           part == SubSeq(list, start + 1, end)
<1>1. Len(list) \in Nat /\ end \in Nat /\ end <= Len(list) /\ start + 1 \in Int
  BY DEF Lists, Least
<1>2. \A i \in start + 1 .. end : list[i] \in Nat
  BY <1>1 DEF Lists
<1> HIDE DEF end
<1>3. /\ part \in Seq(Nat)
      /\ Len(part) = IF start + 1 <= end THEN end - (start + 1) + 1 ELSE 0
      /\ \A i \in 1 .. end - (start + 1) + 1 : part[i] = list[start + 1 + i - 1]
  BY <1>1, <1>2, SubSeqProperties
<1> HIDE DEF part
<1>4. Len(part) = Greatest(0, end - start)
  BY <1>1, <1>3 DEF Greatest
<1>5. ASSUME NEW i \in 1 .. Len(part)
      PROVE  i + start \in 1 .. Len(list) /\ part[i] = list[i + start]
  <2>1. i \in 1 .. end - (start + 1) + 1
    BY <1>1, <1>3
  <2> QED
    BY <1>1, <1>3, <2>1
<1> QED
  BY <1>3, <1>4, <1>5 DEF Slice, Lists, part, end

\* Without its i-th item a list keeps the others, in their order.
LEMMA DeleteFacts ==
  ASSUME NEW list \in Lists, NEW i \in 1 .. Len(list)
  PROVE  LET rest == SubSeq(list, 1, i - 1) \o SubSeq(list, i + 1, Len(list))
         IN  /\ rest \in Lists /\ Len(rest) = Len(list) - 1
             /\ \A j \in 1 .. Len(rest) : rest[j] = list[IF j < i THEN j ELSE j + 1]
<1> DEFINE a == SubSeq(list, 1, i - 1)
           b == SubSeq(list, i + 1, Len(list))
<1>1. Len(list) \in Nat /\ i \in Int /\ i - 1 \in Int /\ i + 1 \in Int
  BY DEF Lists
<1>2. /\ a \in Seq(Nat) /\ Len(a) = i - 1
      /\ \A j \in 1 .. i - 1 : a[j] = list[j]
  <2>1. \A j \in 1 .. i - 1 : list[j] \in Nat
    BY <1>1 DEF Lists
  <2>2. /\ a \in Seq(Nat)
        /\ Len(a) = IF 1 <= i - 1 THEN i - 1 - 1 + 1 ELSE 0
        /\ \A j \in 1 .. i - 1 - 1 + 1 : a[j] = list[1 + j - 1]
    BY <1>1, <2>1, SubSeqProperties
  <2> QED
    BY <1>1, <2>2
<1>3. /\ b \in Seq(Nat) /\ Len(b) = Len(list) - i
      /\ \A j \in 1 .. Len(list) - i : b[j] = list[i + j]
  <2>1. \A j \in i + 1 .. Len(list) : list[j] \in Nat
    BY <1>1 DEF Lists
  <2>2. /\ b \in Seq(Nat)
        /\ Len(b) = IF i + 1 <= Len(list) THEN Len(list) - (i + 1) + 1 ELSE 0
        /\ \A j \in 1 .. Len(list) - (i + 1) + 1 : b[j] = list[i + 1 + j - 1]
    BY <1>1, <2>1, SubSeqProperties
  <2>3. Len(b) = Len(list) - i
    BY <1>1, <2>2
  <2>4. ASSUME NEW j \in 1 .. Len(list) - i PROVE b[j] = list[i + j]
    <3>1. j \in 1 .. Len(list) - (i + 1) + 1 /\ i + 1 + j - 1 = i + j
      BY <1>1
    <3> QED
      BY <2>2, <3>1
  <2> QED
    BY <2>2, <2>3, <2>4
<1> HIDE DEF a, b
<1> DEFINE rest == a \o b
<1>4. /\ a \o b \in Seq(Nat) /\ Len(a \o b) = Len(a) + Len(b)
      /\ \A j \in 1 .. Len(a) + Len(b) :
           (a \o b)[j] = IF j <= Len(a) THEN a[j] ELSE b[j - Len(a)]
  BY <1>2, <1>3, ConcatProperties
<1>5. ASSUME NEW j \in 1 .. Len(list) - 1
      PROVE  (a \o b)[j] = list[IF j < i THEN j ELSE j + 1]
  <2>1. CASE j < i
    BY <1>1, <1>2, <1>3, <1>4, <2>1
  <2>2. CASE ~(j < i)
    <3>1. /\ j - (i - 1) \in 1 .. Len(list) - i /\ i + (j - (i - 1)) = j + 1
          /\ j \in 1 .. Len(a) + Len(b) /\ ~(j <= Len(a))
      BY <1>1, <1>2, <1>3, <2>2
    <3>2. (a \o b)[j] = b[j - (i - 1)]
      BY <1>2, <1>4, <3>1
    <3>3. b[j - (i - 1)] = list[i + (j - (i - 1))]
      BY <1>3, <3>1
    <3> QED
      BY <2>2, <3>1, <3>2, <3>3
  <2> QED
    BY <2>1, <2>2
<1>6. Len(a \o b) = Len(list) - 1 /\ a \o b \in Lists
  BY <1>1, <1>2, <1>3, <1>4 DEF Lists
<1> HIDE DEF rest
<1>7. /\ rest \in Lists /\ Len(rest) = Len(list) - 1
      /\ \A j \in 1 .. Len(rest) : rest[j] = list[IF j < i THEN j ELSE j + 1]
  BY <1>5, <1>6 DEF rest
<1> QED
  BY <1>7 DEF rest, a, b

-----------------------------------------------------------------------------
(* Types.                                                                  *)

\* The variables have their types at first.
LEMMA InitTyped == Init => TypeOK
<1> SUFFICES ASSUME Init PROVE TypeOK
  OBVIOUS
<1>1. table \in Lists /\ last \in Nat
  BY DEF Init, Newest, Lists
<1> QED
  BY <1>1 DEF Init, TypeOK, Lists

Feeds == {"video", "section", "home"}

\* What a page shows of a list.
LEMMA FeedFacts ==
  ASSUME NEW k \in Feeds, NEW list \in Lists, NEW n \in Nat
  PROVE  /\ Feed(k, list, n) \in Lists
         /\ Len(Feed(k, list, n)) = Greatest(0, Least(Skip(k) + n, Len(list)) - Skip(k))
         /\ \A i \in 1 .. Len(Feed(k, list, n)) :
              /\ i + Skip(k) \in 1 .. Len(list)
              /\ Feed(k, list, n)[i] = list[i + Skip(k)]
         /\ Skip(k) \in Nat /\ Above(k) \in Nat
         /\ HasMore(k, list, n) \in BOOLEAN
<1>1. Skip(k) \in Nat /\ Above(k) \in Nat
  BY DEF Feeds, Skip, Above
<1>2. HasMore(k, list, n) \in BOOLEAN
  BY DEF HasMore
<1> HIDE DEF Skip, Above
<1> QED
  BY <1>1, <1>2, SliceFacts DEF Feed

\* Every action keeps the types.
LEMMA ShowTyped ==
  ASSUME TypeOK, NEW v \in Visitor, NEW k \in Feeds, NEW list \in Lists, NEW n \in Nat,
         Show(v, k, list, n)
  PROVE  /\ perPage' \in [Visitor -> Nat] /\ feed' \in [Visitor -> Lists]
         /\ more' \in [Visitor -> BOOLEAN] /\ from' \in [Visitor -> Lists]
BY FeedFacts DEF Show, TypeOK

\* The page number, the size and the offset that getArticleByUser computes are
\* natural numbers, so that no division is by zero and no offset is negative.
LEMMA PageFacts ==
  ASSUME NEW asked \in Int, NEW n \in Int
  PROVE  /\ PerPage(asked) \in Nat \ {0}
         /\ Page(n, PerPage(asked)) \in Nat
         /\ (Page(n, PerPage(asked)) - 1) * PerPage(asked) \in Nat
<1> DEFINE size == PerPage(asked)
           pages == Ceil(MaxArticles, size)
           p == Page(n, size)
<1>1. size \in Nat \ {0}
  BY DEF PerPage, Greatest, Least
<1> HIDE DEF size
<1>2. pages \in Int /\ pages >= 1
  <2>1. ASSUME NEW a \in Nat \ {0}, NEW b \in Nat \ {0}
        PROVE  (a + b - 1) \div b \in Int /\ (a + b - 1) \div b >= 1
    OBVIOUS
  <2> QED
    BY <1>1, <2>1 DEF Ceil
<1> HIDE DEF pages
<1>3. p \in Int /\ p >= 1
  BY <1>2 DEF Page, Greatest, Least, pages
<1> HIDE DEF p
<1>4. (p - 1) * size \in Nat
  <2>1. ASSUME NEW a \in Nat, NEW b \in Nat PROVE a * b \in Nat
    OBVIOUS
  <2> QED
    BY <1>1, <1>3, <2>1
<1> QED
  BY <1>1, <1>3, <1>4 DEF size, p

\* A page of the author's list.
LEMMA AskTyped ==
  ASSUME TypeOK, NEW v \in Visitor, NEW n \in Int, NEW asked \in Int,
         NEW got \in Lists, Ask(v, n, asked, got)
  PROVE  /\ perPage' \in [Visitor -> Nat] /\ at' \in [Visitor -> Nat]
         /\ feed' \in [Visitor -> Lists] /\ more' \in [Visitor -> BOOLEAN]
<1> DEFINE size   == PerPage(asked)
           p      == Page(n, size)
           offset == (p - 1) * size
           part   == Slice(table, offset, Limit(offset, size))
           pages  == Greatest(1, Ceil(Least(Len(table), MaxArticles), size))
<1>1. size \in Nat /\ p \in Nat /\ offset \in Nat
  BY PageFacts
<1>2. /\ perPage' = [perPage EXCEPT ![v] = size]
      /\ at' = [at EXCEPT ![v] = p]
      /\ feed' = [feed EXCEPT ![v] = got \o part]
      /\ more' = [more EXCEPT ![v] = p < pages]
  BY DEF Ask
<1>3. (p < pages) \in BOOLEAN
  OBVIOUS
<1> HIDE DEF size, p, offset, pages
<1>4. Limit(offset, size) \in Nat
  BY <1>1 DEF Limit, Greatest, Least
<1>5. part \in Lists
  BY <1>1, <1>4, SliceFacts DEF TypeOK
<1> HIDE DEF part
<1>6. got \o part \in Lists
  BY <1>5, ConcatProperties DEF Lists
<1> QED
  BY <1>1, <1>2, <1>3, <1>6 DEF TypeOK

\* The list a page finds in the cache.
LEMMA FoundTyped ==
  TypeOK => /\ ListOf(feeds) \in Lists /\ ListOf(home) \in Lists
            /\ \A v \in Visitor : KeptList(key[v]) \in Lists
<1>1. <<>> \in Lists
  BY DEF Lists
<1> QED
  BY <1>1 DEF TypeOK, ListOf, KeptList, Alive, Kept

\* The home page fills the cache when it finds nothing there, and tells the other
\* ones whose list it replaces.
LEMMA HomeTyped ==
  ASSUME TypeOK, NEW v \in Visitor, NEW n \in Nat, ShowHome(v, n)
  PROVE  /\ home' \in Kept /\ hero' \in [Visitor -> Nat \cup {None}]
         /\ stray' \in [Visitor -> BOOLEAN]
         /\ \E list \in Lists :
              /\ Show(v, "home", list, n)
              /\ list = IF Alive(home) THEN home.list ELSE table
              /\ home'.list = list
              /\ hero' = [hero EXCEPT ![v] = Hero(v, list)]
              /\ \A w \in Visitor :
                   stray'[w] = (stray[w] \/ (page[w] = "home" /\ ~Alive(home) /\ from[w] # list))
<1> DEFINE list == IF Alive(home) THEN home.list ELSE table
<1>1. list \in Lists
  BY DEF TypeOK, Alive, Kept
<1>2. Show(v, "home", list, n)
  BY DEF ShowHome
<1>3. /\ home' = IF Alive(home) THEN home ELSE [list |-> table, exp |-> clock + Ttl]
      /\ hero' = [hero EXCEPT ![v] = Hero(v, list)]
      /\ stray' = [w \in Visitor |->
                     stray[w] \/ (page[w] = "home" /\ ~Alive(home) /\ from[w] # table)]
  BY DEF ShowHome
<1>4. home' \in Kept /\ home'.list = list
  BY <1>3 DEF TypeOK, Alive, Kept
<1>5. list # <<>> => list[1] \in Nat
  BY <1>1, EmptySeq, ElementOfSeq DEF Lists
<1>6. Hero(v, list) \in Nat \cup {None}
  BY <1>5 DEF Hero, TypeOK
<1>7. /\ stray' \in [Visitor -> BOOLEAN]
      /\ \A w \in Visitor :
           stray'[w] = (stray[w] \/ (page[w] = "home" /\ ~Alive(home) /\ from[w] # list))
  BY <1>3 DEF TypeOK
<1> HIDE DEF list
<1> QED
  BY <1>1, <1>2, <1>3, <1>4, <1>6, <1>7 DEF TypeOK, list

\* Every step keeps the types.
LEMMA NextTyped == TypeOK /\ [Next]_vars => TypeOK'
<1> SUFFICES ASSUME TypeOK, [Next]_vars PROVE TypeOK'
  OBVIOUS
<1> USE DEF TypeOK, store, shown, history, Mount
<1>0. <<>> \in Lists
  BY DEF Lists
<1>1. ASSUME NEW v \in Visitor, OpenVideos(v) PROVE TypeOK'
  <2>1. Show(v, "video", given, First) /\ given \in Lists
    BY <1>1 DEF OpenVideos
  <2>2. /\ perPage' \in [Visitor -> Nat] /\ feed' \in [Visitor -> Lists]
        /\ more' \in [Visitor -> BOOLEAN] /\ from' \in [Visitor -> Lists]
    BY <2>1, ShowTyped DEF Feeds
  <2>3. feeds' \in Kept
    BY <1>1 DEF OpenVideos, Kept
  <2> HIDE DEF Lists, Kept
  <2> QED
    BY <1>1, <2>2, <2>3 DEF OpenVideos
<1>2. ASSUME NEW v \in Visitor, OpenSection(v) PROVE TypeOK'
  <2>1. Show(v, "section", given, First) /\ given \in Lists
    BY <1>2 DEF OpenSection
  <2>2. /\ perPage' \in [Visitor -> Nat] /\ feed' \in [Visitor -> Lists]
        /\ more' \in [Visitor -> BOOLEAN] /\ from' \in [Visitor -> Lists]
    BY <2>1, ShowTyped DEF Feeds
  <2>3. kept' \subseteq Kept
    BY <1>2 DEF OpenSection, Keep, Kept
  <2>4. given[1] \in Nat
    BY <1>2, EmptySeq, ElementOfSeq DEF OpenSection, Lists
  <2> HIDE DEF Lists, Kept
  <2> QED
    BY <1>2, <2>2, <2>3, <2>4 DEF OpenSection
<1>3. ASSUME NEW v \in Visitor, OpenHome(v) PROVE TypeOK'
  <2>1. ShowHome(v, First)
    BY <1>3 DEF OpenHome
  <2>2. /\ perPage' \in [Visitor -> Nat] /\ feed' \in [Visitor -> Lists]
        /\ more' \in [Visitor -> BOOLEAN] /\ from' \in [Visitor -> Lists]
        /\ home' \in Kept /\ hero' \in [Visitor -> Nat \cup {None}]
        /\ stray' \in [Visitor -> BOOLEAN]
    BY <2>1, HomeTyped, ShowTyped DEF Feeds
  <2> HIDE DEF Lists, Kept
  <2> QED
    BY <1>3, <2>2 DEF OpenHome
<1>4. ASSUME NEW v \in Visitor, MoreVideos(v) PROVE TypeOK'
  <2>1. ListOf(feeds) \in Lists /\ perPage[v] + More \in Nat
    BY FoundTyped
  <2>2. /\ perPage' \in [Visitor -> Nat] /\ feed' \in [Visitor -> Lists]
        /\ more' \in [Visitor -> BOOLEAN] /\ from' \in [Visitor -> Lists]
    BY <1>4, <2>1, ShowTyped DEF MoreVideos, Feeds
  <2>3. missed' \in [Visitor -> BOOLEAN] /\ stray' \in [Visitor -> BOOLEAN]
    BY <1>4 DEF MoreVideos
  <2> HIDE DEF Lists, Kept
  <2> QED
    BY <1>4, <2>2, <2>3 DEF MoreVideos
<1>5. ASSUME NEW v \in Visitor, MoreSection(v) PROVE TypeOK'
  <2>1. KeptList(key[v]) \in Lists /\ perPage[v] + More \in Nat
    BY FoundTyped
  <2>2. /\ perPage' \in [Visitor -> Nat] /\ feed' \in [Visitor -> Lists]
        /\ more' \in [Visitor -> BOOLEAN] /\ from' \in [Visitor -> Lists]
    BY <1>5, <2>1, ShowTyped DEF MoreSection, Feeds
  <2>3. missed' \in [Visitor -> BOOLEAN]
    BY <1>5 DEF MoreSection
  <2> HIDE DEF Lists, Kept
  <2> QED
    BY <1>5, <2>2, <2>3 DEF MoreSection
<1>6. ASSUME NEW v \in Visitor, MoreHome(v) PROVE TypeOK'
  <2>1. ShowHome(v, perPage[v] + More) /\ perPage[v] + More \in Nat
    BY <1>6 DEF MoreHome
  <2>2. /\ perPage' \in [Visitor -> Nat] /\ feed' \in [Visitor -> Lists]
        /\ more' \in [Visitor -> BOOLEAN] /\ from' \in [Visitor -> Lists]
        /\ home' \in Kept /\ hero' \in [Visitor -> Nat \cup {None}]
        /\ stray' \in [Visitor -> BOOLEAN]
    BY <2>1, HomeTyped, ShowTyped DEF Feeds
  <2> HIDE DEF Lists, Kept
  <2> QED
    BY <1>6, <2>2 DEF MoreHome
<1>7. ASSUME NEW v \in Visitor, SelectVideo(v) PROVE TypeOK'
  <2>1. missed' \in [Visitor -> BOOLEAN]
    BY <1>7 DEF SelectVideo, Has
  <2> HIDE DEF Lists, Kept
  <2> QED
    BY <1>7, <2>1 DEF SelectVideo
<1>8. ASSUME NEW v \in Visitor, NEW asked \in Asked, StartWalk(v, asked) PROVE TypeOK'
  <2>1. PICK n \in {-1, 1} : Ask(v, n, asked, <<>>)
    BY <1>8 DEF StartWalk
  <2>2. /\ perPage' \in [Visitor -> Nat] /\ at' \in [Visitor -> Nat]
        /\ feed' \in [Visitor -> Lists] /\ more' \in [Visitor -> BOOLEAN]
    BY <1>0, <2>1, AskTyped
  <2> HIDE DEF Lists, Kept
  <2> QED
    BY <1>8, <2>2 DEF StartWalk
<1>9. ASSUME NEW v \in Visitor, NextPage(v) PROVE TypeOK'
  <2>1. at[v] + 1 \in Int /\ perPage[v] \in Int /\ feed[v] \in Lists
    OBVIOUS
  <2>2. /\ perPage' \in [Visitor -> Nat] /\ at' \in [Visitor -> Nat]
        /\ feed' \in [Visitor -> Lists] /\ more' \in [Visitor -> BOOLEAN]
    BY <1>9, <2>1, AskTyped DEF NextPage
  <2> HIDE DEF Lists, Kept
  <2> QED
    BY <1>9, <2>2 DEF NextPage
<1>10. ASSUME NEW v \in Visitor, Leave(v) PROVE TypeOK'
  <2> HIDE DEF Lists, Kept
  <2> QED
    BY <1>0, <1>10 DEF Leave
<1>11. ASSUME Publish PROVE TypeOK'
  <2>1. table' \in Lists
    <3>1. <<last + 1>> \in Lists
      BY DEF Lists
    <3> QED
      BY <1>11, <3>1, ConcatProperties DEF Publish, Lists
  <2> HIDE DEF Lists, Kept
  <2> QED
    BY <1>11, <2>1 DEF Publish, Save
<1>12. ASSUME NEW i \in 1 .. Len(table), Delete(i) PROVE TypeOK'
  <2>1. table' \in Lists
    BY <1>12, DeleteFacts DEF Delete
  <2> HIDE DEF Lists, Kept
  <2> QED
    BY <1>12, <2>1 DEF Delete, Save
<1>13. ASSUME Refresh \/ ClearCache \/ Tick PROVE TypeOK'
  <2> HIDE DEF Lists, Kept
  <2>1. CASE Refresh
    BY <2>1 DEF Refresh
  <2>2. CASE ClearCache
    <3>1. stray' \in [Visitor -> BOOLEAN]
      BY <2>2 DEF ClearCache
    <3> QED
      BY <2>2, <3>1 DEF ClearCache
  <2>3. CASE Tick
    BY <2>3 DEF Tick
  <2> QED
    BY <1>13, <2>1, <2>2, <2>3
<1>14. CASE UNCHANGED vars
  <2> HIDE DEF Lists, Kept
  <2> QED
    BY <1>14 DEF vars
<1> QED
  BY <1>1, <1>2, <1>3, <1>4, <1>5, <1>6, <1>7, <1>8, <1>9, <1>10, <1>11, <1>12,
     <1>13, <1>14 DEF Next

-----------------------------------------------------------------------------
(* Every list names an item once.                                          *)

\* New ids only grow, so that a list stays below the last one.
LEMMA DistinctGrows ==
  ASSUME NEW list \in Lists, NEW m \in Nat, NEW n \in Nat, m <= n, Distinct(list, m)
  PROVE  Distinct(list, n)
<1>1. \A i \in 1 .. Len(list) : list[i] \in Nat
  BY DEF Lists
<1> QED
  BY <1>1 DEF Distinct

\* The empty list, the table at first, the table of a new item and the table
\* without a deleted item are distinct.
LEMMA DistinctTables ==
  ASSUME NEW list \in Lists, NEW n \in Nat
  PROVE  /\ Distinct(<<>>, n) /\ Distinct(Newest(n), n)
         /\ Distinct(list, n) => Distinct(<<n + 1>> \o list, n + 1)
         /\ Distinct(list, n) => \A i \in 1 .. Len(list) :
              Distinct(SubSeq(list, 1, i - 1) \o SubSeq(list, i + 1, Len(list)), n)
<1>1. Distinct(<<>>, n)
  BY DEF Distinct
<1>2. Distinct(Newest(n), n)
  BY DEF Distinct, Newest
<1>3. ASSUME Distinct(list, n) PROVE Distinct(<<n + 1>> \o list, n + 1)
  <2> DEFINE longer == <<n + 1>> \o list
  <2>1. Len(list) \in Nat /\ \A i \in 1 .. Len(list) : list[i] \in Nat
    BY DEF Lists
  <2>2. /\ Len(longer) = 1 + Len(list)
        /\ \A i \in 1 .. 1 + Len(list) :
             longer[i] = IF i <= 1 THEN n + 1 ELSE list[i - 1]
    <3>1. <<n + 1>> \in Seq(Nat) /\ Len(<<n + 1>>) = 1 /\ <<n + 1>>[1] = n + 1
      OBVIOUS
    <3>2. list \in Seq(Nat)
      BY DEF Lists
    <3> HIDE DEF longer
    <3>3. /\ Len(longer) = 1 + Len(list)
          /\ \A i \in 1 .. 1 + Len(list) :
               longer[i] = IF i <= 1 THEN <<n + 1>>[i] ELSE list[i - 1]
      BY <3>1, <3>2, ConcatProperties DEF longer
    <3> QED
      BY <3>1, <3>3
  <2> HIDE DEF longer
  <2>3. ASSUME NEW i \in 1 .. Len(longer) PROVE longer[i] <= n + 1
    BY <1>3, <2>1, <2>2 DEF Distinct
  <2>4. ASSUME NEW i \in 1 .. Len(longer), NEW j \in 1 .. Len(longer),
               longer[i] = longer[j]
        PROVE  i = j
    <3>1. \A k \in 1 .. Len(list) : list[k] <= n
      BY <1>3 DEF Distinct
    <3>2. (i <= 1) <=> (j <= 1)
      BY <2>1, <2>2, <2>4, <3>1
    <3>3. CASE i > 1
      <4>1. i - 1 \in 1 .. Len(list) /\ j - 1 \in 1 .. Len(list)
        BY <2>1, <2>2, <3>2, <3>3
      <4>2. list[i - 1] = list[j - 1]
        BY <2>1, <2>2, <2>4, <3>2, <3>3
      <4>3. i - 1 = j - 1
        BY <1>3, <4>1, <4>2 DEF Distinct
      <4> QED
        BY <2>1, <2>2, <4>3
    <3> QED
      BY <2>1, <2>2, <3>2, <3>3
  <2>5. Distinct(longer, n + 1)
    BY <2>3, <2>4 DEF Distinct
  <2> QED
    BY <2>5 DEF longer
<1>4. ASSUME Distinct(list, n), NEW d \in 1 .. Len(list)
      PROVE  Distinct(SubSeq(list, 1, d - 1) \o SubSeq(list, d + 1, Len(list)), n)
  <2> DEFINE rest == SubSeq(list, 1, d - 1) \o SubSeq(list, d + 1, Len(list))
             was(j) == IF j < d THEN j ELSE j + 1
  <2>1. /\ Len(rest) = Len(list) - 1
        /\ \A j \in 1 .. Len(rest) : rest[j] = list[was(j)]
    BY DeleteFacts
  <2>2. Len(list) \in Nat
    BY DEF Lists
  <2> HIDE DEF rest
  <2>3. \A j \in 1 .. Len(rest) : was(j) \in 1 .. Len(list)
    BY <2>1, <2>2
  <2>4. \A i, j \in 1 .. Len(rest) : was(i) = was(j) => i = j
    BY <2>1, <2>2
  <2> HIDE DEF was
  <2>5. Distinct(rest, n)
    BY <1>4, <2>1, <2>3, <2>4 DEF Distinct
  <2> QED
    BY <2>5 DEF rest
<1> QED
  BY <1>1, <1>2, <1>3, <1>4

\* Every step of the feeds keeps the lists distinct.
LEMMA NextDistinct == TypeOK /\ ListsDistinct /\ [Next]_vars => ListsDistinct'
<1> SUFFICES ASSUME TypeOK, ListsDistinct, [Next]_vars PROVE ListsDistinct'
  OBVIOUS
<1> USE DEF ListsDistinct
<1>0. /\ last \in Nat /\ table \in Lists /\ given \in Lists
      /\ from \in [Visitor -> Lists] /\ key \in [Visitor -> Lists]
      /\ feeds \in Kept \cup {None} /\ home \in Kept \cup {None} /\ kept \subseteq Kept
  BY DEF TypeOK
<1>e. Distinct(<<>>, last)
  BY <1>0, DistinctTables
<1> USE DEF store, shown, history, Mount
<1>1. ASSUME NEW v \in Visitor, OpenVideos(v) PROVE ListsDistinct'
  <2>1. from' = [from EXCEPT ![v] = given]
    BY <1>1 DEF OpenVideos, Show
  <2> QED
    BY <1>0, <1>1, <2>1 DEF OpenVideos
<1>2. ASSUME NEW v \in Visitor, OpenSection(v) PROVE ListsDistinct'
  <2>1. from' = [from EXCEPT ![v] = given] /\ key' = [key EXCEPT ![v] = given]
    BY <1>2 DEF OpenSection, Show
  <2>2. \A e \in kept' : e \in kept \/ e.list = given
    BY <1>2 DEF OpenSection, Keep
  <2> QED
    BY <1>0, <1>2, <2>1, <2>2 DEF OpenSection
<1>3. ASSUME NEW v \in Visitor, OpenHome(v) \/ MoreHome(v) PROVE ListsDistinct'
  <2>1. PICK n \in Nat : ShowHome(v, n)
    BY <1>3 DEF OpenHome, MoreHome, TypeOK
  <2>2. PICK list \in Lists :
          /\ Show(v, "home", list, n)
          /\ list = IF Alive(home) THEN home.list ELSE table
          /\ home'.list = list
    BY <2>1, HomeTyped
  <2>3. Distinct(list, last)
    BY <2>2 DEF Alive
  <2>4. from' = [from EXCEPT ![v] = list]
    BY <2>2 DEF Show
  <2>5. UNCHANGED <<table, last, given, feeds, kept, key>>
    BY <1>3 DEF OpenHome, MoreHome
  <2> QED
    BY <1>0, <2>2, <2>3, <2>4, <2>5
<1>4. ASSUME NEW v \in Visitor, MoreVideos(v) PROVE ListsDistinct'
  <2>1. Distinct(ListOf(feeds), last)
    BY <1>e DEF ListOf, Alive
  <2>2. from' = from \/ from' = [from EXCEPT ![v] = ListOf(feeds)]
    BY <1>4 DEF MoreVideos, Show
  <2> QED
    BY <1>0, <1>4, <2>1, <2>2 DEF MoreVideos
<1>5. ASSUME NEW v \in Visitor, MoreSection(v) PROVE ListsDistinct'
  <2>1. Distinct(KeptList(key[v]), last)
    BY <1>e DEF KeptList
  <2>2. from' = [from EXCEPT ![v] = KeptList(key[v])]
    BY <1>5 DEF MoreSection, Show
  <2> QED
    BY <1>0, <1>5, <2>1, <2>2 DEF MoreSection
<1>6. ASSUME NEW v \in Visitor, Leave(v) PROVE ListsDistinct'
  BY <1>0, <1>e, <1>6 DEF Leave
<1>7. ASSUME Publish \/ \E i \in 1 .. Len(table) : Delete(i) PROVE ListsDistinct'
  <2>1. /\ last' \in Nat /\ last <= last' /\ Distinct(table', last')
        /\ UNCHANGED <<given, feeds, kept, home, from, key>>
    <3>1. CASE Publish
      <4>1. last' = last + 1 /\ table' = <<last + 1>> \o table
        BY <3>1 DEF Publish
      <4>2. Distinct(table', last')
        BY <1>0, <4>1, DistinctTables
      <4> QED
        BY <1>0, <3>1, <4>1, <4>2 DEF Publish, Save
    <3>2. ASSUME NEW i \in 1 .. Len(table), Delete(i)
          PROVE  /\ last' = last /\ Distinct(table', last')
                 /\ UNCHANGED <<given, feeds, kept, home, from, key>>
      <4>1. last' = last
            /\ table' = SubSeq(table, 1, i - 1) \o SubSeq(table, i + 1, Len(table))
        BY <3>2 DEF Delete
      <4>2. Distinct(table', last')
        BY <1>0, <4>1, DistinctTables
      <4> QED
        BY <3>2, <4>1, <4>2 DEF Delete, Save
    <3> QED
      BY <1>0, <1>7, <3>1, <3>2
  <2>2. \A list \in Lists : Distinct(list, last) => Distinct(list, last')
    BY <1>0, <2>1, DistinctGrows
  <2> QED
    BY <1>0, <2>1, <2>2 DEF Kept
<1>8. ASSUME NEW v \in Visitor, SelectVideo(v) \/ NextPage(v) \/ \E a \in Asked : StartWalk(v, a)
      PROVE  ListsDistinct'
  BY <1>8 DEF SelectVideo, NextPage, StartWalk
<1>9. ASSUME Refresh \/ ClearCache \/ Tick PROVE ListsDistinct'
  BY <1>9 DEF Refresh, ClearCache, Tick
<1>10. CASE UNCHANGED vars
  BY <1>10 DEF vars
<1> QED
  BY <1>1, <1>2, <1>3, <1>4, <1>5, <1>6, <1>7, <1>8, <1>9, <1>10 DEF Next
-----------------------------------------------------------------------------
(* What a page shows is cut from its list.                                 *)

\* The page of one visitor is as its component made it.
PageCut(v) ==
  /\ page[v] \in Feeds =>
       /\ feed[v] = Feed(page[v], from[v], perPage[v])
       /\ more[v] = HasMore(page[v], from[v], perPage[v])
       /\ perPage[v] > 0
  /\ page[v] = "none" => feed[v] = <<>> /\ more[v]
  /\ page[v] \in {"none", "video"} => hero[v] = None
  /\ page[v] = "section" =>
       key[v] # <<>> /\ hero[v] = key[v][1] /\ from[v] \in {key[v], <<>>}

\* The invariant, visitor by visitor.
LEMMA PageByPage == CutFromList <=> \A v \in Visitor : PageCut(v)
BY DEF CutFromList, PageCut, Feeds

\* A visitor no step touches keeps a page cut from its list.
LEMMA OthersCut ==
  ASSUME TypeOK, NEW v \in Visitor, PageCut(v),
         page'[v] = page[v], feed'[v] = feed[v], more'[v] = more[v],
         from'[v] = from[v], perPage'[v] = perPage[v], hero'[v] = hero[v],
         key'[v] = key[v]
  PROVE  PageCut(v)'
BY DEF PageCut

\* A page that has just been shown is cut from its list.
LEMMA ShownCut ==
  ASSUME TypeOK, NEW v \in Visitor, NEW k \in Feeds, NEW list \in Lists,
         NEW n \in Nat \ {0}, Show(v, k, list, n), page'[v] = k,
         k = "video" => hero'[v] = None,
         k = "section" => /\ key'[v] # <<>> /\ hero'[v] = key'[v][1]
                          /\ list \in {key'[v], <<>>}
  PROVE  PageCut(v)'
<1>1. /\ feed'[v] = Feed(k, list, n) /\ more'[v] = HasMore(k, list, n)
      /\ from'[v] = list /\ perPage'[v] = n
  BY DEF Show, TypeOK
<1> QED
  BY <1>1 DEF PageCut, Feeds

\* Showing v a list leaves the other visitors alone.
LEMMA ShowOthers ==
  ASSUME TypeOK, NEW v \in Visitor, NEW k, NEW list, NEW n, Show(v, k, list, n),
         NEW w \in Visitor \ {v}
  PROVE  /\ feed'[w] = feed[w] /\ more'[w] = more[w] /\ from'[w] = from[w]
         /\ perPage'[w] = perPage[w]
BY DEF Show, TypeOK

\* Every step of the feeds keeps every page cut from its list.
LEMMA NextCut == TypeOK /\ CutFromList /\ [Next]_vars => CutFromList'
<1> SUFFICES ASSUME TypeOK, \A v \in Visitor : PageCut(v), [Next]_vars
             PROVE  \A v \in Visitor : PageCut(v)'
  BY DEF CutFromList, PageCut, Feeds
<1>0. First \in Nat \ {0} /\ given \in Lists
  BY DEF TypeOK
<1>1. ASSUME NEW v \in Visitor, OpenVideos(v), NEW w \in Visitor PROVE PageCut(w)'
  <2>1. /\ Show(v, "video", given, First) /\ page' = [page EXCEPT ![v] = "video"]
        /\ page[v] = "none" /\ UNCHANGED <<hero, key>>
    BY <1>1 DEF OpenVideos, Mount
  <2>2. CASE w = v
    <3>1. hero'[v] = None /\ page'[v] = "video"
      BY <2>1 DEF PageCut, TypeOK
    <3> QED
      BY <1>0, <2>1, <2>2, <3>1, ShownCut DEF Feeds
  <2>3. CASE w # v
    BY <2>1, <2>3, ShowOthers, OthersCut DEF TypeOK
  <2> QED
    BY <2>2, <2>3
<1>2. ASSUME NEW v \in Visitor, OpenSection(v), NEW w \in Visitor PROVE PageCut(w)'
  <2>1. /\ Show(v, "section", given, First) /\ page' = [page EXCEPT ![v] = "section"]
        /\ given # <<>> /\ key' = [key EXCEPT ![v] = given]
        /\ hero' = [hero EXCEPT ![v] = given[1]]
    BY <1>2 DEF OpenSection, Mount
  <2>2. CASE w = v
    <3>1. hero'[v] = given[1] /\ page'[v] = "section" /\ key'[v] = given
      BY <2>1 DEF TypeOK
    <3> QED
      BY <1>0, <2>1, <2>2, <3>1, ShownCut DEF Feeds
  <2>3. CASE w # v
    BY <2>1, <2>3, ShowOthers, OthersCut DEF TypeOK
  <2> QED
    BY <2>2, <2>3
<1>3. ASSUME NEW v \in Visitor, OpenHome(v) \/ MoreHome(v), NEW w \in Visitor
      PROVE  PageCut(w)'
  <2>1. PICK n \in Nat \ {0} : ShowHome(v, n)
    BY <1>3 DEF OpenHome, MoreHome, TypeOK
  <2>2. PICK list \in Lists :
          Show(v, "home", list, n) /\ hero' = [hero EXCEPT ![v] = Hero(v, list)]
    BY <2>1, HomeTyped
  <2>3. /\ page' = [page EXCEPT ![v] = "home"] /\ key' = key
    BY <1>3 DEF OpenHome, MoreHome, Mount, TypeOK
  <2>4. CASE w = v
    <3>1. page'[v] = "home"
      BY <2>3 DEF TypeOK
    <3> QED
      BY <2>2, <2>4, <3>1, ShownCut DEF Feeds
  <2>5. CASE w # v
    BY <2>2, <2>3, <2>5, ShowOthers, OthersCut DEF TypeOK
  <2> QED
    BY <2>4, <2>5
<1>4. ASSUME NEW v \in Visitor, MoreVideos(v), NEW w \in Visitor PROVE PageCut(w)'
  <2>1. page[v] = "video" /\ UNCHANGED <<page, hero, key>>
    BY <1>4 DEF MoreVideos, shown
  <2>2. CASE UNCHANGED <<perPage, feed, more, from>>
    BY <2>1, <2>2, OthersCut
  <2>3. CASE Show(v, "video", ListOf(feeds), perPage[v] + More)
    <3>1. ListOf(feeds) \in Lists /\ perPage[v] + More \in Nat \ {0}
      BY FoundTyped DEF TypeOK
    <3>2. hero[v] = None
      BY <2>1 DEF PageCut
    <3>3. CASE w = v
      BY <2>1, <2>3, <3>1, <3>2, <3>3, ShownCut DEF Feeds
    <3>4. CASE w # v
      BY <2>1, <2>3, <3>4, ShowOthers, OthersCut
    <3> QED
      BY <3>3, <3>4
  <2> QED
    BY <1>4, <2>2, <2>3 DEF MoreVideos
<1>5. ASSUME NEW v \in Visitor, MoreSection(v), NEW w \in Visitor PROVE PageCut(w)'
  <2>1. /\ page[v] = "section" /\ UNCHANGED <<page, hero, key>>
        /\ Show(v, "section", KeptList(key[v]), perPage[v] + More)
    BY <1>5 DEF MoreSection
  <2>2. /\ KeptList(key[v]) \in Lists /\ perPage[v] + More \in Nat \ {0}
        /\ KeptList(key[v]) \in {key[v], <<>>}
    BY FoundTyped DEF TypeOK, KeptList
  <2>3. key[v] # <<>> /\ hero[v] = key[v][1]
    BY <2>1 DEF PageCut
  <2>4. CASE w = v
    BY <2>1, <2>2, <2>3, <2>4, ShownCut DEF Feeds
  <2>5. CASE w # v
    BY <2>1, <2>5, ShowOthers, OthersCut
  <2> QED
    BY <2>4, <2>5
<1>6. ASSUME NEW v \in Visitor, NextPage(v) \/ \E a \in Asked : StartWalk(v, a),
             NEW w \in Visitor
      PROVE  PageCut(w)'
  <2>1. PICK n, asked, got : Ask(v, n, asked, got)
    BY <1>6 DEF NextPage, StartWalk
  <2>2. page'[v] = "walk" /\ UNCHANGED <<hero, key, from>>
    BY <1>6 DEF NextPage, StartWalk, Mount, TypeOK, history
  <2>3. CASE w = v
    BY <2>2, <2>3 DEF PageCut, Feeds
  <2>4. CASE w # v
    <3>1. page'[w] = page[w]
      BY <1>6, <2>4 DEF NextPage, StartWalk, Mount, TypeOK
    <3>2. feed'[w] = feed[w] /\ more'[w] = more[w] /\ perPage'[w] = perPage[w]
      BY <2>1, <2>4 DEF Ask, TypeOK
    <3> QED
      BY <2>2, <3>1, <3>2, OthersCut
  <2> QED
    BY <2>3, <2>4
<1>7. ASSUME NEW v \in Visitor, Leave(v), NEW w \in Visitor PROVE PageCut(w)'
  <2>1. CASE w = v
    <3>1. page'[v] = "none" /\ feed'[v] = <<>> /\ more'[v] /\ hero'[v] = None
      BY <1>7 DEF Leave, TypeOK
    <3> QED
      BY <2>1, <3>1 DEF PageCut, Feeds
  <2>2. CASE w # v
    BY <1>7, <2>2, OthersCut DEF Leave, TypeOK
  <2> QED
    BY <2>1, <2>2
<1>8. ASSUME \/ Publish \/ (\E i \in 1 .. Len(table) : Delete(i))
             \/ Refresh \/ ClearCache \/ Tick \/ UNCHANGED vars
             \/ \E v \in Visitor : SelectVideo(v),
             NEW w \in Visitor
      PROVE  PageCut(w)'
  <2>1. UNCHANGED <<page, feed, more, from, perPage, hero, key>>
    BY <1>8 DEF Publish, Delete, Save, Refresh, ClearCache, Tick, SelectVideo, vars,
                shown, history, store
  <2> QED
    BY <2>1, OthersCut
<1> QED
  BY <1>1, <1>2, <1>3, <1>4, <1>5, <1>6, <1>7, <1>8 DEF Next

-----------------------------------------------------------------------------
(* The item above the list of a home page.                                 *)

\* The item above the list of one home page, until its list is replaced.
FirstAbove(v) ==
  page[v] = "home" =>
    \/ stray[v]
    \/ /\ hero[v] = IF from[v] = <<>> THEN None ELSE from[v][1]
       /\ Alive(home) => home.list = from[v]

\* A home page keeps it when neither the page nor the cache gets a new list.
LEMMA OthersAbove ==
  ASSUME NEW v \in Visitor, FirstAbove(v), page'[v] = page[v], from'[v] = from[v],
         hero'[v] = hero[v], stray[v] => stray'[v],
         stray'[v] \/ (Alive(home)' => Alive(home) /\ home' = home)
  PROVE  FirstAbove(v)'
BY DEF FirstAbove

\* Every step keeps the first item above the list, until the list is replaced.
LEMMA NextHero == TypeOK /\ CutFromList /\ HeroFromList /\ [Next]_vars => HeroFromList'
<1> SUFFICES ASSUME TypeOK, TypeOK', CutFromList, \A v \in Visitor : FirstAbove(v),
                    [Next]_vars, NEW w \in Visitor
             PROVE  FirstAbove(w)'
  BY NextTyped DEF HeroFromList, FirstAbove
<1>0. /\ page \in [Visitor -> {"none", "video", "section", "home", "walk"}]
      /\ hero \in [Visitor -> Nat \cup {None}] /\ from \in [Visitor -> Lists]
      /\ clock \in Nat /\ stray \in [Visitor -> BOOLEAN] /\ home \in Kept \cup {None}
      /\ clock' \in Nat /\ home' \in Kept \cup {None}
  BY DEF TypeOK
\* Steps that fill no list of the home page.
<1>1. ASSUME page'[w] = page[w], from'[w] = from[w], hero'[w] = hero[w],
             stray[w] => stray'[w], UNCHANGED <<home, clock>>
      PROVE  FirstAbove(w)'
  BY <1>1, OthersAbove DEF Alive
<1>2. ASSUME NEW v \in Visitor, OpenHome(v) \/ MoreHome(v) PROVE FirstAbove(w)'
  <2>1. PICK n \in Nat : ShowHome(v, n)
    BY <1>2 DEF OpenHome, MoreHome, TypeOK
  <2>2. PICK list \in Lists :
          /\ Show(v, "home", list, n)
          /\ list = IF Alive(home) THEN home.list ELSE table
          /\ home'.list = list
          /\ hero' = [hero EXCEPT ![v] = Hero(v, list)]
          /\ \A u \in Visitor :
               stray'[u] = (stray[u] \/ (page[u] = "home" /\ ~Alive(home) /\ from[u] # list))
    BY <2>1, HomeTyped
  <2>3. /\ from' = [from EXCEPT ![v] = list] /\ page' = [page EXCEPT ![v] = "home"]
        /\ clock' = clock /\ (Alive(home) => home' = home)
    BY <1>0, <1>2, <2>1, <2>2 DEF OpenHome, MoreHome, Mount, Show, ShowHome
  <2>4. CASE w # v
    <3>1. page'[w] = page[w] /\ from'[w] = from[w] /\ hero'[w] = hero[w]
      BY <1>0, <2>2, <2>3, <2>4
    <3>2. stray'[w] = (stray[w] \/ (page[w] = "home" /\ ~Alive(home) /\ from[w] # list))
      BY <2>2
    <3> QED
      BY <2>2, <2>3, <3>1, <3>2 DEF FirstAbove
  <2>5. CASE w = v
    <3>1. /\ from'[w] = list /\ hero'[w] = Hero(w, list)
          /\ stray'[w] = (stray[w] \/ (page[w] = "home" /\ ~Alive(home) /\ from[w] # list))
      BY <1>0, <2>2, <2>3, <2>5
    <3>2. stray'[w] \/ hero[w] \in {None, IF list = <<>> THEN None ELSE list[1]}
      <4>1. CASE OpenHome(v)
        BY <2>5, <4>1 DEF OpenHome, Mount, CutFromList
      <4>2. CASE MoreHome(v)
        <5>1. page[w] = "home"
          BY <2>5, <4>2 DEF MoreHome
        <5> QED
          BY <2>2, <3>1, <5>1 DEF FirstAbove
      <4> QED
        BY <1>2, <4>1, <4>2
    <3> QED
      BY <2>2, <3>1, <3>2 DEF FirstAbove, Hero
  <2> QED
    BY <2>4, <2>5
<1>3. ASSUME NEW v \in Visitor,
             \/ OpenVideos(v) \/ OpenSection(v) \/ MoreVideos(v) \/ MoreSection(v)
             \/ SelectVideo(v) \/ (\E a \in Asked : StartWalk(v, a)) \/ NextPage(v) \/ Leave(v)
      PROVE  FirstAbove(w)'
  <2>1. UNCHANGED <<home, clock>>
    BY <1>3 DEF OpenVideos, OpenSection, MoreVideos, MoreSection, SelectVideo, StartWalk,
                NextPage, Leave, store
  <2>2. CASE w = v
    <3>1. page'[w] = page[w] \/ page'[w] # "home"
      BY <1>0, <1>3, <2>2 DEF OpenVideos, OpenSection, MoreVideos, MoreSection, SelectVideo,
           StartWalk, NextPage, Leave, Mount, shown
    <3>2. page[w] # "home" \/ SelectVideo(v) \/ Leave(v)
      BY <1>3, <2>2 DEF OpenVideos, OpenSection, MoreVideos, MoreSection, StartWalk,
           NextPage, Mount
    <3>3. SelectVideo(v) => page[v] = "video"
      BY DEF SelectVideo
    <3>4. Leave(v) => page'[v] = "none"
      BY <1>0 DEF Leave
    <3> QED
      BY <2>2, <3>1, <3>2, <3>3, <3>4 DEF FirstAbove
  <2>3. CASE w # v
    <3>1. page'[w] = page[w]
      BY <1>0, <1>3, <2>3 DEF OpenVideos, OpenSection, MoreVideos, MoreSection, SelectVideo,
           StartWalk, NextPage, Leave, Mount, shown
    <3>2. hero'[w] = hero[w] /\ from'[w] = from[w]
      BY <1>0, <1>3, <2>3 DEF OpenVideos, OpenSection, MoreVideos, MoreSection, SelectVideo,
           StartWalk, NextPage, Leave, shown, history, Show
    <3>3. page[w] = "home" /\ stray[w] => stray'[w]
      BY <1>0, <1>3, <2>3 DEF OpenVideos, OpenSection, MoreVideos, MoreSection, SelectVideo,
           StartWalk, NextPage, Leave, history
    <3> QED
      BY <2>1, <3>1, <3>2, <3>3 DEF FirstAbove, Alive
  <2> QED
    BY <2>2, <2>3
<1>4. ASSUME Publish \/ (\E i \in 1 .. Len(table) : Delete(i)) \/ Refresh
             \/ UNCHANGED vars
      PROVE  FirstAbove(w)'
  <2>1. UNCHANGED <<home, clock, page, from, hero>>
    BY <1>4 DEF Publish, Delete, Save, Refresh, vars, store, shown, history
  <2>2. stray[w] => stray'[w]
    BY <1>0, <1>4 DEF Publish, Delete, Save, Refresh, vars, history
  <2> QED
    BY <1>1, <2>1, <2>2
<1>5. CASE ClearCache
  <2>1. UNCHANGED <<page, from, hero>> /\ home' = None /\ (stray[w] => stray'[w])
    BY <1>0, <1>5 DEF ClearCache, shown
  <2> QED
    BY <2>1, OthersAbove DEF Alive
<1>6. CASE Tick
  <2>1. UNCHANGED <<page, from, hero, stray, home>> /\ clock' = clock + 1
    BY <1>6 DEF Tick, shown, history
  <2>2. Alive(home)' => Alive(home)
    BY <1>0, <2>1 DEF Alive, Kept
  <2> QED
    BY <2>1, <2>2, OthersAbove
<1> QED
  BY <1>2, <1>3, <1>4, <1>5, <1>6 DEF Next

-----------------------------------------------------------------------------
(* The list of an open page is at hand.                                    *)

\* The list of one visitor is at hand, or was missed for a reason.
AtHand(v) ==
  /\ since[v] <= clock
  /\ page[v] = "video" =>
       /\ feeds # None => since[v] + Ttl <= feeds.exp
       /\ stray[v] \/ (feeds # None /\ feeds.list = from[v])
  /\ page[v] = "section" =>
       stray[v] \/ \E e \in kept : e.list = key[v] /\ since[v] + Ttl <= e.exp
  /\ missed[v] => stray[v] \/ clock >= since[v] + Ttl

\* The invariant, visitor by visitor.
LEMMA HandByHand ==
  ListsAtHand /\ MissedOnlyIfLost <=>
    (feeds # None => feeds.list # <<>>) /\ \A v \in Visitor : AtHand(v)
BY DEF ListsAtHand, MissedOnlyIfLost, AtHand

\* What is at hand of a visitor whose page no step touches stays so while the
\* lists do, though it may become stray.
LEMMA OthersAtHand ==
  ASSUME TypeOK, NEW v \in Visitor, AtHand(v),
         clock' \in Nat, clock <= clock',
         page'[v] = page[v], from'[v] = from[v], key'[v] = key[v],
         since'[v] = since[v], missed'[v] = missed[v], stray[v] => stray'[v],
         page[v] = "video" =>
           UNCHANGED feeds \/ /\ feeds' # None => since[v] + Ttl <= feeds'.exp
                              /\ stray'[v] \/ (feeds' # None /\ feeds'.list = from[v]),
         page[v] = "section" =>
           stray'[v] \/ \A e \in kept : e \in kept' \/
             \E f \in kept' : f.list = e.list /\ since[v] + Ttl <= f.exp
  PROVE  AtHand(v)'
<1> clock \in Nat /\ since[v] \in Nat
  BY DEF TypeOK
<1>1. page[v] = "section" =>
        stray'[v] \/ \E f \in kept' : f.list = key[v] /\ since[v] + Ttl <= f.exp
  BY DEF AtHand
<1>2. page[v] = "video" =>
        /\ feeds' # None => since[v] + Ttl <= feeds'.exp
        /\ stray'[v] \/ (feeds' # None /\ feeds'.list = from[v])
  BY DEF AtHand
<1>3. missed[v] => stray'[v] \/ clock' >= since[v] + Ttl
  BY DEF AtHand
<1>4. since[v] <= clock'
  BY DEF AtHand
<1> QED
  BY <1>1, <1>2, <1>3, <1>4 DEF AtHand

\* Every step keeps the lists at hand.
LEMMA NextAtHand ==
  TypeOK /\ CutFromList /\ ListsAtHand /\ MissedOnlyIfLost /\ [Next]_vars
    => ListsAtHand' /\ MissedOnlyIfLost'
<1> SUFFICES ASSUME TypeOK, TypeOK', feeds # None => feeds.list # <<>>,
                    \A v \in Visitor : PageCut(v) /\ AtHand(v), [Next]_vars
             PROVE  /\ feeds' # None => feeds'.list # <<>>
                    /\ \A v \in Visitor : AtHand(v)'
  <2>1. TypeOK /\ [Next]_vars => TypeOK'
    BY NextTyped
  <2>2. ListsAtHand' /\ MissedOnlyIfLost' <=>
          (feeds' # None => feeds'.list # <<>>) /\ \A v \in Visitor : AtHand(v)'
    BY DEF ListsAtHand, MissedOnlyIfLost, AtHand
  <2> QED
    BY <2>1, <2>2, HandByHand, PageByPage
<1>0. /\ clock \in Nat /\ feeds \in Kept \cup {None} /\ kept \subseteq Kept
      /\ given \in Lists /\ key \in [Visitor -> Lists]
      /\ page \in [Visitor -> {"none", "video", "section", "home", "walk"}]
      /\ since \in [Visitor -> 0 .. MaxTime]
      /\ stray \in [Visitor -> BOOLEAN] /\ missed \in [Visitor -> BOOLEAN]
      /\ from \in [Visitor -> Lists]
  BY DEF TypeOK
<1>1. ASSUME NEW v \in Visitor, OpenVideos(v)
      PROVE  feeds'.list # <<>> /\ \A w \in Visitor : AtHand(w)'
  <2>1. /\ given # <<>> /\ feeds' = [list |-> given, exp |-> clock + Ttl]
        /\ page' = [page EXCEPT ![v] = "video"]
        /\ since' = [since EXCEPT ![v] = clock]
        /\ missed' = [missed EXCEPT ![v] = FALSE]
        /\ from' = [from EXCEPT ![v] = given]
        /\ stray' = [w \in Visitor |->
                       w # v /\ (stray[w] \/ (page[w] = "video" /\ from[w] # given))]
        /\ UNCHANGED <<kept, clock, key>>
    BY <1>1 DEF OpenVideos, Mount, Show
  <2>2. feeds' \in Kept /\ feeds' # None /\ feeds'.list = given /\ feeds'.exp = clock + Ttl
    BY <1>0, <2>1 DEF Kept
  <2>3. AtHand(v)'
    BY <1>0, <2>1, <2>2 DEF AtHand
  <2>4. ASSUME NEW w \in Visitor, w # v PROVE AtHand(w)'
    <3>1. since[w] + Ttl <= clock + Ttl
      BY <1>0 DEF AtHand
    <3>2. /\ page'[w] = page[w] /\ from'[w] = from[w] /\ key'[w] = key[w]
          /\ since'[w] = since[w] /\ missed'[w] = missed[w] /\ (stray[w] => stray'[w])
      BY <1>0, <2>1, <2>4
    <3>3. page[w] = "video" => stray'[w] \/ feeds'.list = from[w]
      BY <1>0, <2>1, <2>2, <2>4
    <3> QED
      BY <1>0, <2>1, <2>2, <3>1, <3>2, <3>3 DEF AtHand
  <2> QED
    BY <2>1, <2>2, <2>3, <2>4
<1>2. ASSUME NEW v \in Visitor, OpenSection(v) PROVE \A w \in Visitor : AtHand(w)'
  <2>1. /\ kept' = Keep(given)
        /\ page' = [page EXCEPT ![v] = "section"]
        /\ since' = [since EXCEPT ![v] = clock]
        /\ missed' = [missed EXCEPT ![v] = FALSE]
        /\ from' = [from EXCEPT ![v] = given]
        /\ key' = [key EXCEPT ![v] = given]
        /\ stray' = [stray EXCEPT ![v] = FALSE]
        /\ UNCHANGED <<feeds, clock>>
    BY <1>2 DEF OpenSection, Mount, Show
  <2> DEFINE new == [list |-> given, exp |-> clock + Ttl]
  <2>2. /\ new \in kept' /\ new.list = given /\ new.exp = clock + Ttl
        /\ \A e \in kept : e \in kept' \/ e.list = given
    BY <2>1 DEF Keep
  <2> HIDE DEF new
  <2>3. AtHand(v)'
    BY <1>0, <2>1, <2>2 DEF AtHand
  <2>4. ASSUME NEW w \in Visitor, w # v PROVE AtHand(w)'
    <3>1. since[w] + Ttl <= clock + Ttl
      BY <1>0 DEF AtHand
    <3>2. /\ page'[w] = page[w] /\ from'[w] = from[w] /\ key'[w] = key[w]
          /\ since'[w] = since[w] /\ missed'[w] = missed[w] /\ stray'[w] = stray[w]
      BY <1>0, <2>1, <2>4
    <3>3. \A e \in kept : e \in kept' \/
            \E f \in kept' : f.list = e.list /\ since[w] + Ttl <= f.exp
      BY <2>2, <3>1
    <3>4. page[w] = "section" /\ ~stray[w] =>
            \E f \in kept' : f.list = key[w] /\ since[w] + Ttl <= f.exp
      BY <1>0, <3>3 DEF AtHand
    <3> QED
      BY <1>0, <2>1, <3>2, <3>4 DEF AtHand
  <2> QED
    BY <2>3, <2>4
<1>3. ASSUME NEW v \in Visitor, OpenHome(v) \/ MoreHome(v), NEW w \in Visitor
      PROVE  AtHand(w)'
  <2>1. UNCHANGED <<feeds, kept, clock, key, since>>
    BY <1>3 DEF OpenHome, MoreHome
  <2>2. page'[v] = "home"
    BY <1>0, <1>3 DEF OpenHome, MoreHome, Mount
  <2>3. ~missed'[v] \/ UNCHANGED missed
    BY <1>0, <1>3 DEF OpenHome, MoreHome, Mount
  <2>4. /\ stray[w] => stray'[w]
        /\ page[w] \in {"video", "section"} => stray'[w] = stray[w]
    BY <1>0, <1>3 DEF OpenHome, MoreHome, ShowHome
  <2>5. CASE w = v
    BY <1>0, <2>1, <2>2, <2>3, <2>4, <2>5 DEF AtHand
  <2>6. CASE w # v
    <3>1. from'[w] = from[w]
      BY <1>0, <1>3, <2>6 DEF OpenHome, MoreHome, ShowHome, Show
    <3>2. page'[w] = page[w] /\ missed'[w] = missed[w]
      BY <1>0, <1>3, <2>6 DEF OpenHome, MoreHome, Mount
    <3> QED
      BY <1>0, <2>1, <2>4, <3>1, <3>2, OthersAtHand
  <2> QED
    BY <2>5, <2>6
<1>4. ASSUME NEW v \in Visitor, MoreVideos(v), NEW w \in Visitor PROVE AtHand(w)'
  <2>1. page[v] = "video" /\ UNCHANGED <<feeds, kept, clock, page, key, since>>
    BY <1>4 DEF MoreVideos, store
  <2>2. CASE w = v
    <3>1. CASE ListOf(feeds) = <<>>
      <4>1. /\ UNCHANGED <<from, stray>>
            /\ missed' = [missed EXCEPT ![v] = TRUE]
        BY <1>4, <3>1 DEF MoreVideos
      <4>2. feeds # None => ~(clock < feeds.exp)
        BY <3>1 DEF ListOf, Alive
      <4>3. stray[v] \/ clock >= since[v] + Ttl
        <5>1. CASE feeds # None
          <6>1. feeds.exp \in Nat
            BY <1>0, <5>1 DEF Kept
          <6> QED
            BY <1>0, <2>1, <4>2, <5>1, <6>1 DEF AtHand
        <5> QED
          BY <2>1, <5>1 DEF AtHand
      <4> QED
        BY <1>0, <2>1, <2>2, <4>1, <4>3 DEF AtHand
    <3>2. CASE ListOf(feeds) # <<>>
      <4>1. /\ missed' = [missed EXCEPT ![v] = FALSE]
            /\ from' = [from EXCEPT ![v] = ListOf(feeds)]
        BY <1>4, <3>2 DEF MoreVideos, Show
      <4>2. feeds # None /\ ListOf(feeds) = feeds.list
        BY <3>2 DEF ListOf, Alive
      <4> QED
        BY <1>0, <2>1, <2>2, <4>1, <4>2 DEF AtHand
    <3> QED
      BY <3>1, <3>2
  <2>3. CASE w # v
    <3>1. from'[w] = from[w] /\ missed'[w] = missed[w] /\ stray'[w] = stray[w]
      BY <1>0, <1>4, <2>3 DEF MoreVideos, Show
    <3> QED
      BY <1>0, <2>1, <3>1, OthersAtHand
  <2> QED
    BY <2>2, <2>3
<1>5. ASSUME NEW v \in Visitor, MoreSection(v), NEW w \in Visitor PROVE AtHand(w)'
  <2>1. /\ page[v] = "section"
        /\ UNCHANGED <<feeds, kept, clock, page, key, since, stray>>
        /\ missed' = [missed EXCEPT ![v] = KeptList(key[v]) = <<>>]
    BY <1>5 DEF MoreSection, store
  <2>2. CASE w = v
    <3>1. key[v] # <<>>
      BY <2>1 DEF PageCut
    <3>2. ASSUME KeptList(key[v]) = <<>>, ~stray[v]
          PROVE  clock >= since[v] + Ttl
      <4>1. PICK e \in kept : e.list = key[v] /\ since[v] + Ttl <= e.exp
        BY <2>1, <3>2 DEF AtHand
      <4>2. ~(clock < e.exp) /\ e.exp \in Nat
        BY <1>0, <3>1, <3>2, <4>1 DEF KeptList, Kept
      <4> QED
        BY <1>0, <4>1, <4>2
    <3> QED
      BY <1>0, <2>1, <2>2, <3>2 DEF AtHand
  <2>3. CASE w # v
    <3>1. from'[w] = from[w] /\ missed'[w] = missed[w]
      BY <1>0, <1>5, <2>3 DEF MoreSection, Show
    <3> QED
      BY <1>0, <2>1, <3>1, OthersAtHand
  <2> QED
    BY <2>2, <2>3
<1>6. ASSUME NEW v \in Visitor, SelectVideo(v), NEW w \in Visitor PROVE AtHand(w)'
  <2>1. page[v] = "video"
        /\ UNCHANGED <<feeds, kept, clock, page, key, since, stray, from>>
    BY <1>6 DEF SelectVideo, store, shown
  <2>2. PICK i \in 1 .. Len(feed[v]) :
          missed' = [missed EXCEPT ![v] = ~Has(ListOf(feeds), feed[v][i])]
    BY <1>6 DEF SelectVideo
  <2>3. CASE w = v
    <3>1. ASSUME ~stray[v], clock < since[v] + Ttl
          PROVE  Has(ListOf(feeds), feed[v][i])
      <4>1. feeds # None /\ feeds.list = from[v] /\ since[v] + Ttl <= feeds.exp
        BY <2>1, <3>1 DEF AtHand
      <4>2. ListOf(feeds) = from[v]
        <5>1. feeds.exp \in Nat
          BY <1>0, <4>1 DEF Kept
        <5> QED
          BY <1>0, <3>1, <4>1, <5>1 DEF ListOf, Alive
      <4>3. i + Skip("video") \in 1 .. Len(from[v])
            /\ feed[v][i] = from[v][i + Skip("video")]
        <5>1. /\ from[v] \in Lists /\ perPage[v] \in Nat /\ "video" \in Feeds
              /\ feed[v] = Feed("video", from[v], perPage[v])
          BY <2>1 DEF PageCut, Feeds, TypeOK
        <5> QED
          BY <5>1, FeedFacts
      <4> QED
        BY <4>2, <4>3 DEF Has
    <3> QED
      BY <1>0, <2>1, <2>2, <2>3, <3>1 DEF AtHand
  <2>4. CASE w # v
    BY <1>0, <2>1, <2>2, <2>4, OthersAtHand
  <2> QED
    BY <2>3, <2>4
<1>7. ASSUME NEW v \in Visitor, NextPage(v) \/ \E a \in Asked : StartWalk(v, a),
             NEW w \in Visitor
      PROVE  AtHand(w)'
  <2>1. UNCHANGED <<feeds, kept, clock, key, since, from>>
    BY <1>7 DEF NextPage, StartWalk, store, history
  <2>2. page'[v] = "walk" /\ (~missed'[v] \/ UNCHANGED <<missed, stray>>)
    BY <1>0, <1>7 DEF NextPage, StartWalk, Mount, history
  <2>3. CASE w = v
    BY <1>0, <2>1, <2>2, <2>3 DEF AtHand
  <2>4. CASE w # v
    <3>1. page'[w] = page[w] /\ missed'[w] = missed[w] /\ stray'[w] = stray[w]
      BY <1>0, <1>7, <2>4 DEF NextPage, StartWalk, Mount, history
    <3> QED
      BY <1>0, <2>1, <3>1, OthersAtHand
  <2> QED
    BY <2>3, <2>4
<1>8. ASSUME NEW v \in Visitor, Leave(v), NEW w \in Visitor PROVE AtHand(w)'
  <2>1. UNCHANGED <<feeds, kept, clock>>
    BY <1>8 DEF Leave, store
  <2>2. CASE w = v
    <3>1. page'[v] = "none" /\ since'[v] = 0 /\ ~missed'[v]
      BY <1>0, <1>8 DEF Leave
    <3> QED
      BY <1>0, <2>1, <2>2, <3>1 DEF AtHand
  <2>3. CASE w # v
    <3>1. /\ page'[w] = page[w] /\ missed'[w] = missed[w] /\ stray'[w] = stray[w]
          /\ from'[w] = from[w] /\ key'[w] = key[w] /\ since'[w] = since[w]
      BY <1>0, <1>8, <2>3 DEF Leave
    <3> QED
      BY <1>0, <2>1, <3>1, OthersAtHand
  <2> QED
    BY <2>2, <2>3
<1>9. ASSUME Publish \/ (\E i \in 1 .. Len(table) : Delete(i)) \/ Refresh \/ Tick
             \/ UNCHANGED vars,
             NEW w \in Visitor
      PROVE  AtHand(w)'
  <2>1. UNCHANGED <<feeds, kept, page, key, since, from, missed>>
    BY <1>9 DEF Publish, Delete, Save, Refresh, Tick, vars, store, shown, history
  <2>2. clock' = clock \/ clock' = clock + 1
    BY <1>9 DEF Publish, Delete, Save, Refresh, Tick, vars, store
  <2>3. stray[w] => stray'[w]
    BY <1>0, <1>9 DEF Publish, Delete, Save, Refresh, Tick, vars, history
  <2> QED
    BY <1>0, <2>1, <2>2, <2>3, OthersAtHand
<1>10. ASSUME ClearCache, NEW w \in Visitor PROVE feeds' = None /\ AtHand(w)'
  <2>1. /\ feeds' = None /\ UNCHANGED <<clock, page, key, since, from, missed>>
        /\ (stray[w] => stray'[w])
        /\ (page[w] \in {"video", "section"} => stray'[w])
    BY <1>0, <1>10 DEF ClearCache, shown
  <2> QED
    BY <1>0, <2>1 DEF AtHand
<1>11. \/ UNCHANGED feeds \/ feeds' = None \/ \E v \in Visitor : OpenVideos(v)
  BY DEF Next, vars, OpenSection, OpenHome, MoreVideos, MoreSection, MoreHome,
         SelectVideo, StartWalk, NextPage, Leave, Publish, Delete, Save, Refresh,
         ClearCache, Tick, store
<1>12. feeds' # None => feeds'.list # <<>>
  BY <1>1, <1>11
<1>13. \A w \in Visitor : AtHand(w)'
  BY <1>1, <1>2, <1>3, <1>4, <1>5, <1>6, <1>7, <1>8, <1>9, <1>10 DEF Next
<1> QED
  BY <1>12, <1>13

-----------------------------------------------------------------------------
(* A walk through an author's pages.                                       *)

\* What a walk has got: its pages up to the last one asked.
Walked(v) ==
  LET size  == perPage[v]
      total == Least(Len(table), MaxArticles)
  IN  /\ size \in 1 .. MaxArticles /\ at[v] > 0
      /\ stray[v] \/ /\ feed[v] = SubSeq(table, 1, Least(at[v] * size, total))
                     /\ more[v] = (at[v] < Greatest(1, Ceil(total, size)))

\* A quotient rounded up: its product with the divisor is the least that is
\* not below the dividend, and a number below it has a product below the dividend.
LEMMA CeilFacts ==
  ASSUME NEW a \in Nat, NEW b \in Nat \ {0}
  PROVE  /\ Ceil(a, b) \in Nat
         /\ \A p \in Nat : p >= Ceil(a, b) => p * b >= a
         /\ \A p \in Nat : p < Ceil(a, b) => p * b < a
<1> DEFINE c == (a + b - 1) \div b
           d == (a + b - 1) % b
<1>1. c \in Nat /\ d \in 0 .. b - 1 /\ a + b - 1 = b * c + d
  OBVIOUS
<1> HIDE DEF c, d
<1>2. ASSUME NEW p \in Nat, p >= c PROVE p * b >= a
  <2>1. p * b >= c * b
    BY <1>1, <1>2
  <2> QED
    BY <1>1, <2>1
<1>3. ASSUME NEW p \in Nat, p < c PROVE p * b < a
  <2>1. p + 1 <= c
    BY <1>1, <1>3
  <2>2. (p + 1) * b <= c * b
    BY <1>1, <2>1
  <2>3. (p + 1) * b = p * b + b
    OBVIOUS
  <2> QED
    BY <1>1, <2>2, <2>3
<1> QED
  BY <1>1, <1>2, <1>3 DEF Ceil, c

\* The part of a list up to m and the part from m to n are the part up to n.
LEMMA PartsJoin ==
  ASSUME NEW list \in Lists, NEW m \in Nat, NEW n \in Nat, m <= n, n <= Len(list)
  PROVE  SubSeq(list, 1, m) \o SubSeq(list, m + 1, n) = SubSeq(list, 1, n)
<1> DEFINE a == SubSeq(list, 1, m)
           b == SubSeq(list, m + 1, n)
           c == SubSeq(list, 1, n)
<1>0. Len(list) \in Nat /\ \A i \in 1 .. Len(list) : list[i] \in Nat
  BY DEF Lists
<1>1. /\ a \in Seq(Nat) /\ Len(a) = m /\ \A i \in 1 .. m : a[i] = list[i]
  <2>1. \A j \in 1 .. m : list[j] \in Nat
    BY <1>0
  <2>2. /\ a \in Seq(Nat)
        /\ Len(a) = IF 1 <= m THEN m - 1 + 1 ELSE 0
        /\ \A j \in 1 .. m - 1 + 1 : a[j] = list[1 + j - 1]
    BY <1>0, <2>1, SubSeqProperties
  <2> QED
    BY <2>2
<1>2. /\ b \in Seq(Nat) /\ Len(b) = n - m
      /\ \A i \in 1 .. n - m : b[i] = list[m + i]
  <2>1. \A j \in m + 1 .. n : list[j] \in Nat
    BY <1>0
  <2>2. /\ b \in Seq(Nat)
        /\ Len(b) = IF m + 1 <= n THEN n - (m + 1) + 1 ELSE 0
        /\ \A j \in 1 .. n - (m + 1) + 1 : b[j] = list[m + 1 + j - 1]
    BY <1>0, <2>1, SubSeqProperties
  <2>3. \A i \in 1 .. n - m : i \in 1 .. n - (m + 1) + 1 /\ m + 1 + i - 1 = m + i
    OBVIOUS
  <2>4. Len(b) = n - m
    BY <2>2
  <2>5. ASSUME NEW i \in 1 .. n - m PROVE b[i] = list[m + i]
    <3>1. b[i] = list[m + 1 + i - 1]
      BY <2>2, <2>3
    <3> QED
      BY <2>3, <3>1
  <2> QED
    BY <2>2, <2>4, <2>5
<1>3. /\ c \in Seq(Nat) /\ Len(c) = n /\ \A i \in 1 .. n : c[i] = list[i]
  <2>1. \A j \in 1 .. n : list[j] \in Nat
    BY <1>0
  <2>2. /\ c \in Seq(Nat)
        /\ Len(c) = IF 1 <= n THEN n - 1 + 1 ELSE 0
        /\ \A j \in 1 .. n - 1 + 1 : c[j] = list[1 + j - 1]
    BY <1>0, <2>1, SubSeqProperties
  <2> QED
    BY <2>2
<1> HIDE DEF a, b, c
<1>4. /\ a \o b \in Seq(Nat) /\ Len(a \o b) = Len(a) + Len(b)
      /\ \A j \in 1 .. Len(a) + Len(b) :
           (a \o b)[j] = IF j <= Len(a) THEN a[j] ELSE b[j - Len(a)]
  BY <1>1, <1>2, ConcatProperties
<1>5. Len(a \o b) = Len(c)
  BY <1>1, <1>2, <1>3, <1>4
<1>6. ASSUME NEW j \in 1 .. Len(c) PROVE (a \o b)[j] = c[j]
  <2>0. j \in 1 .. Len(a) + Len(b) /\ j \in 1 .. n
    BY <1>1, <1>2, <1>3
  <2>1. CASE j <= m
    <3>1. (a \o b)[j] = a[j]
      BY <1>1, <1>4, <2>0, <2>1
    <3> QED
      BY <1>1, <1>3, <2>0, <2>1, <3>1
  <2>2. CASE ~(j <= m)
    <3>1. j - m \in 1 .. n - m /\ m + (j - m) = j
      BY <1>3, <2>2
    <3>2. b[j - m] = list[j]
      BY <1>2, <3>1
    <3>3. (a \o b)[j] = b[j - m]
      BY <1>1, <1>4, <2>0, <2>2
    <3> QED
      BY <1>3, <2>0, <3>2, <3>3
  <2> QED
    BY <2>1, <2>2
<1>7. a \o b = c
  BY <1>3, <1>4, <1>5, <1>6, SeqEqual
<1> QED
  BY <1>7 DEF a, b, c

\* The sizes of pages: a size asked again is the same.
LEMMA SizeFacts ==
  ASSUME NEW asked \in Int
  PROVE  /\ PerPage(asked) \in 1 .. MaxArticles
         /\ asked \in 1 .. MaxArticles => PerPage(asked) = asked
BY DEF PerPage, Greatest, Least

\* The next page of a list adds the part of it that comes next.
LEMMA PageAdds ==
  ASSUME NEW list \in Lists, NEW size \in 1 .. MaxArticles, NEW p \in Nat,
         LET total == Least(Len(list), MaxArticles)
         IN  p = 0 \/ p < Greatest(1, Ceil(total, size))
  PROVE  LET total == Least(Len(list), MaxArticles)
         IN  /\ Page(p + 1, size) = p + 1
             /\ SubSeq(list, 1, Least(p * size, total))
                  \o Slice(list, p * size, Limit(p * size, size))
                = SubSeq(list, 1, Least((p + 1) * size, total))
<1> DEFINE len   == Len(list)
           total == Least(len, MaxArticles)
           off   == p * size
           next  == (p + 1) * size
<1>0. len \in Nat /\ total \in Nat /\ total <= len /\ total <= MaxArticles
  BY DEF Lists, Least
<1>a. p = 0 \/ p < Greatest(1, Ceil(total, size))
  OBVIOUS
<1> HIDE DEF total
<1>b. /\ Ceil(total, size) \in Nat
      /\ \A q \in Nat : q < Ceil(total, size) => q * size < total
  BY <1>0, CeilFacts
<1>1. off \in Nat /\ next = off + size
  OBVIOUS
<1>2. Ceil(MaxArticles, size) \in Nat /\ Ceil(MaxArticles, size) >= p + 1
  <2>1. Ceil(MaxArticles, size) \in Nat
    BY CeilFacts
  <2>2. Ceil(MaxArticles, size) >= 1
    <3>1. 0 * size >= MaxArticles => FALSE
      OBVIOUS
    <3> QED
      BY <2>1, <3>1, CeilFacts
  <2>3. CASE p < Ceil(total, size)
    <3>1. p * size < total
      BY <1>b, <2>3
    <3>2. ~(p * size >= MaxArticles)
      BY <1>0, <1>1, <3>1
    <3>3. ~(p >= Ceil(MaxArticles, size))
      BY <3>2, CeilFacts
    <3> QED
      BY <2>1, <3>3
  <2> QED
    BY <1>a, <1>b, <2>1, <2>2, <2>3 DEF Greatest
<1>3. Page(p + 1, size) = p + 1
  BY <1>2 DEF Page, Greatest, Least
<1>4. off < total \/ p = 0
  <2>1. p < Ceil(total, size) => off < total
    BY <1>b
  <2> QED
    BY <1>a, <1>b, <2>1 DEF Greatest
<1>5. off <= total
  <2>1. p = 0 => off = 0
    OBVIOUS
  <2> QED
    BY <1>0, <1>1, <1>4, <2>1
<1> HIDE DEF off, next, len
<1>6. Least(off, total) = off
  BY <1>0, <1>1, <1>5 DEF Least
<1>7. Least(off + Limit(off, size), len) = Least(next, total)
  BY <1>0, <1>1, <1>5 DEF Least, Limit, Greatest, total
<1>8. Least(next, total) \in Nat /\ off <= Least(next, total) /\ Least(next, total) <= len
  BY <1>0, <1>1, <1>5 DEF Least
<1>9. Slice(list, off, Limit(off, size)) = SubSeq(list, off + 1, Least(next, total))
  BY <1>7 DEF Slice, len
<1>10. SubSeq(list, 1, off) \o SubSeq(list, off + 1, Least(next, total))
         = SubSeq(list, 1, Least(next, total))
  BY <1>1, <1>8, PartsJoin DEF len
<1> QED
  BY <1>3, <1>6, <1>9, <1>10 DEF off, next, total, len

\* A visitor who asks for the page after the p pages got so far has walked one
\* page more.
LEMMA AskWalks ==
  ASSUME TypeOK, TypeOK', NEW v \in Visitor, NEW n \in Int, NEW asked \in Int,
         NEW p \in Nat, NEW got \in Lists, Ask(v, n, asked, got), UNCHANGED table,
         Page(n, PerPage(asked)) = p + 1,
         stray'[v] \/
           LET total == Least(Len(table), MaxArticles)
           IN  /\ p = 0 \/ p < Greatest(1, Ceil(total, PerPage(asked)))
               /\ got = SubSeq(table, 1, Least(p * PerPage(asked), total))
  PROVE  Walked(v)'
<1> DEFINE size  == PerPage(asked)
           total == Least(Len(table), MaxArticles)
           pages == Greatest(1, Ceil(total, size))
           part  == Slice(table, p * size, Limit(p * size, size))
<1>1. size \in 1 .. MaxArticles /\ table \in Lists
  BY SizeFacts DEF TypeOK
<1>2. /\ perPage'[v] = size /\ at'[v] = p + 1
      /\ feed'[v] = got \o part /\ more'[v] = (p + 1 < pages)
  <2> DEFINE q == Page(n, size)
  <2>1. /\ perPage' = [perPage EXCEPT ![v] = size]
        /\ at' = [at EXCEPT ![v] = q]
        /\ feed' = [feed EXCEPT ![v] =
                     got \o Slice(table, (q - 1) * size, Limit((q - 1) * size, size))]
        /\ more' = [more EXCEPT ![v] = q < pages]
    BY DEF Ask
  <2>2. q = p + 1 /\ q - 1 = p
    OBVIOUS
  <2> HIDE DEF q, size, pages
  <2>3. /\ perPage'[v] = size /\ at'[v] = q
        /\ feed'[v] = got \o Slice(table, (q - 1) * size, Limit((q - 1) * size, size))
        /\ more'[v] = (q < pages)
    BY <2>1 DEF TypeOK
  <2> QED
    BY <2>2, <2>3
<1> HIDE DEF part
<1>3. ASSUME ~stray'[v]
      PROVE  feed'[v] = SubSeq(table, 1, Least((p + 1) * size, total))
  <2>1. /\ p = 0 \/ p < pages
        /\ got = SubSeq(table, 1, Least(p * size, total))
    BY <1>3
  <2>2. SubSeq(table, 1, Least(p * size, total)) \o part
          = SubSeq(table, 1, Least((p + 1) * size, total))
    BY <1>1, <2>1, PageAdds DEF part
  <2> QED
    BY <1>2, <2>1, <2>2
<1> HIDE DEF size, part
<1>4. at'[v] > 0 /\ perPage'[v] \in 1 .. MaxArticles
  BY <1>1, <1>2
<1>5. stray'[v] \/ /\ feed'[v] = SubSeq(table, 1, Least(at'[v] * perPage'[v], total))
                   /\ more'[v] = (at'[v] < Greatest(1, Ceil(total, perPage'[v])))
  BY <1>2, <1>3
<1> QED
  BY <1>4, <1>5 DEF Walked

\* Every step keeps the walks that no save disturbs in order.
LEMMA NextWalks == TypeOK /\ WalksInOrder /\ [Next]_vars => WalksInOrder'
<1> SUFFICES ASSUME TypeOK, TypeOK', \A v \in Visitor : page[v] = "walk" => Walked(v),
                    [Next]_vars, NEW w \in Visitor, page'[w] = "walk"
             PROVE  Walked(w)'
  BY NextTyped DEF WalksInOrder, Walked
<1>0. /\ page \in [Visitor -> {"none", "video", "section", "home", "walk"}]
      /\ stray \in [Visitor -> BOOLEAN] /\ perPage \in [Visitor -> Nat]
      /\ feed \in [Visitor -> Lists] /\ more \in [Visitor -> BOOLEAN]
      /\ at \in [Visitor -> Nat]
  BY DEF TypeOK
<1>1. ASSUME NEW a \in Asked, StartWalk(w, a) PROVE Walked(w)'
  <2>1. PICK n \in {-1, 1} : Ask(w, n, a, <<>>)
    BY <1>1 DEF StartWalk
  <2>2. PerPage(a) \in 1 .. MaxArticles
    BY SizeFacts
  <2>3. Page(n, PerPage(a)) = 0 + 1
    <3>1. Ceil(MaxArticles, PerPage(a)) \in Nat
      BY <2>2, CeilFacts
    <3>2. ~(0 >= Ceil(MaxArticles, PerPage(a)))
      <4>1. 0 * PerPage(a) = 0
        BY <2>2
      <4> QED
        BY <2>2, <4>1, CeilFacts
    <3> QED
      BY <3>1, <3>2 DEF Page, Greatest, Least
  <2>p. PICK p \in Nat : p = 0
    OBVIOUS
  <2>4. <<>> = SubSeq(table, 1, Least(p * PerPage(a), Least(Len(table), MaxArticles)))
    <3>1. Least(p * PerPage(a), Least(Len(table), MaxArticles)) = 0
      <4>1. p * PerPage(a) = 0
        BY <2>p, <2>2
      <4>2. Len(table) \in Nat
        BY DEF TypeOK, Lists
      <4> QED
        BY <4>1, <4>2 DEF Least
    <3>2. SubSeq(table, 1, 0) = <<>>
      BY DEF TypeOK, Lists
    <3> QED
      BY <3>1, <3>2
  <2>5. <<>> \in Lists /\ UNCHANGED table
    BY <1>1 DEF StartWalk, store, Lists
  <2>6. Page(n, PerPage(a)) = p + 1
    BY <2>p, <2>3
  <2>7. n \in Int /\ a \in Int
    <3>1. n \in Int
      BY SMT
    <3>2. a \in Int
      BY SiteFeedsAssumption, Zenon
    <3> QED
      BY <3>1, <3>2, Zenon
  <2> QED
    BY <2>p, <2>1, <2>4, <2>5, <2>6, <2>7, AskWalks
<1>2. ASSUME NextPage(w) PROVE Walked(w)'
  <2> DEFINE size  == perPage[w]
             total == Least(Len(table), MaxArticles)
  <2>1. /\ page[w] = "walk" /\ more[w]
        /\ Ask(w, at[w] + 1, size, feed[w]) /\ UNCHANGED <<table, stray>>
    BY <1>2 DEF NextPage, store, history
  <2>2. /\ size \in 1 .. MaxArticles /\ at[w] \in Nat /\ at[w] > 0
        /\ PerPage(size) = size
    BY <1>0, <2>1, SizeFacts DEF Walked
  <2>3. total \in Nat /\ table \in Lists /\ feed[w] \in Lists
    BY <1>0 DEF TypeOK, Lists, Least
  <2>4. CASE stray[w]
    <3>1. /\ perPage'[w] = size /\ at'[w] = Page(at[w] + 1, size)
      BY <1>0, <2>1, <2>2 DEF Ask
    <3>2. Page(at[w] + 1, size) > 0
      <4>1. Ceil(MaxArticles, size) \in Nat
        BY <2>2, CeilFacts
      <4>2. ~(0 >= Ceil(MaxArticles, size))
        <5>1. 0 * size = 0
          BY <2>2
        <5> QED
          BY <2>2, <5>1, CeilFacts
      <4> QED
        BY <2>2, <4>1, <4>2 DEF Page, Greatest, Least
    <3> QED
      BY <2>1, <2>2, <2>4, <3>1, <3>2 DEF Walked
  <2>5. CASE ~stray[w]
    <3>1. /\ feed[w] = SubSeq(table, 1, Least(at[w] * size, total))
          /\ at[w] < Greatest(1, Ceil(total, size))
      BY <2>1, <2>5 DEF Walked
    <3>2. Page(at[w] + 1, size) = at[w] + 1
      BY <2>2, <2>3, <3>1, PageAdds
    <3>3. /\ Page(at[w] + 1, PerPage(size)) = at[w] + 1
          /\ at[w] < Greatest(1, Ceil(total, PerPage(size)))
          /\ feed[w] = SubSeq(table, 1, Least(at[w] * PerPage(size), total))
      BY <2>2, <3>1, <3>2
    <3>4. at[w] + 1 \in Int /\ size \in Int
      BY <2>2
    <3> QED
      BY <2>1, <2>2, <2>3, <3>3, <3>4, AskWalks
  <2> QED
    BY <2>4, <2>5
<1>3. ASSUME Publish \/ \E i \in 1 .. Len(table) : Delete(i) PROVE Walked(w)'
  <2>1. UNCHANGED <<perPage, at>> /\ page[w] = "walk" /\ stray'[w]
    BY <1>0, <1>3 DEF Publish, Delete, Save, shown
  <2> QED
    BY <2>1 DEF Walked
<1>4. ASSUME page'[w] = page[w], perPage'[w] = perPage[w], at'[w] = at[w],
             feed'[w] = feed[w], more'[w] = more[w], page[w] = "walk" /\ stray[w] => stray'[w],
             UNCHANGED table
      PROVE  Walked(w)'
  BY <1>0, <1>4 DEF Walked
<1>5. ASSUME NEW v \in Visitor,
             \/ OpenVideos(v) \/ OpenSection(v) \/ OpenHome(v) \/ MoreVideos(v)
             \/ MoreSection(v) \/ MoreHome(v) \/ SelectVideo(v) \/ Leave(v)
             \/ v # w /\ ((\E a \in Asked : StartWalk(v, a)) \/ NextPage(v))
      PROVE  Walked(w)'
  <2>1. v # w
    BY <1>0, <1>5 DEF OpenVideos, OpenSection, OpenHome, MoreVideos, MoreSection,
                      MoreHome, SelectVideo, Leave, Mount, shown
  <2>2. page'[w] = page[w] /\ UNCHANGED table
    BY <1>0, <1>5, <2>1 DEF OpenVideos, OpenSection, OpenHome, MoreVideos, MoreSection,
                      MoreHome, SelectVideo, Leave, StartWalk, NextPage, Mount, store, shown
  <2>3. \/ UNCHANGED <<perPage, feed, more>>
        \/ \E k, list, n : Show(v, k, list, n)
        \/ \E n, asked, got : Ask(v, n, asked, got)
        \/ Leave(v)
    BY <1>5 DEF OpenVideos, OpenSection, OpenHome, ShowHome, MoreVideos, MoreSection,
                MoreHome, SelectVideo, StartWalk, NextPage, shown
  <2>4. perPage'[w] = perPage[w] /\ feed'[w] = feed[w] /\ more'[w] = more[w]
    BY <1>0, <2>1, <2>3 DEF Show, Ask, Leave
  <2>5. at'[w] = at[w]
    BY <1>0, <1>5, <2>1 DEF OpenVideos, OpenSection, OpenHome, MoreVideos, MoreSection,
                      MoreHome, SelectVideo, Leave, StartWalk, NextPage, Ask, shown
  <2>6. page[w] = "walk" /\ stray[w] => stray'[w]
    BY <1>0, <1>5, <2>1 DEF OpenVideos, OpenSection, OpenHome, ShowHome, MoreVideos, MoreSection,
                      MoreHome, SelectVideo, Leave, StartWalk, NextPage, history
  <2> QED
    BY <1>4, <2>2, <2>4, <2>5, <2>6
<1>6. ASSUME Refresh \/ ClearCache \/ Tick \/ UNCHANGED vars PROVE Walked(w)'
  <2>1. UNCHANGED <<table, shown>> /\ (stray[w] => stray'[w])
    BY <1>0, <1>6 DEF Refresh, ClearCache, Tick, vars, store, history
  <2> QED
    BY <1>4, <2>1 DEF shown
<1> QED
  BY <1>1, <1>2, <1>3, <1>5, <1>6 DEF Next

-----------------------------------------------------------------------------
(* The theorems.                                                           *)

\* The invariant holds at first.
LEMMA InitHolds == Init => IInv
<1> SUFFICES ASSUME Init PROVE IInv
  OBVIOUS
<1>1. last \in Nat /\ table = Newest(last) /\ given = table
  BY DEF Init
<1>2. Distinct(table, last) /\ Distinct(<<>>, last)
  <2>1. <<>> \in Lists
    BY DEF Lists
  <2> QED
    BY <1>1, <2>1, DistinctTables
<1>3. ListsDistinct
  BY <1>1, <1>2 DEF Init, ListsDistinct
<1>4. CutFromList /\ HeroFromList
  BY DEF Init, CutFromList, HeroFromList
<1>5. ListsAtHand /\ WalksInOrder /\ MissedOnlyIfLost
  BY DEF Init, ListsAtHand, WalksInOrder, MissedOnlyIfLost
<1> QED
  BY <1>3, <1>4, <1>5, InitTyped DEF IInv

\* The inductive invariant of the feeds.
LEMMA Invariance == Spec => []IInv
<1>1. IInv /\ [Next]_vars => IInv'
  BY NextTyped, NextDistinct, NextCut, NextHero, NextAtHand, NextWalks DEF IInv
<1> QED
  BY <1>1, InitHolds, PTL DEF Spec

\* Every variable has its type: no page number and no offset of the author's
\* list is negative and none is computed by a division by zero
\* (ArticleRepository 189-223).
THEOREM TypeCorrect == Spec => []TypeOK
<1>1. IInv => TypeOK
  BY DEF IInv
<1> QED
  BY <1>1, Invariance, PTL

\* No page shows an item twice, nor the item above its list, however often its
\* list is replaced between two clicks, but for the one that a home page keeps above
\* a list that has been replaced (⚡news 86-95, 116-118).
THEOREM ShownOnce == Spec => []NoItemTwice
<1>1. IInv => NoItemTwice
  <2> SUFFICES ASSUME IInv, NEW v \in Visitor, page[v] # "walk",
                      NEW i \in 1 .. Len(feed[v])
               PROVE  /\ feed[v][i] = hero[v] => page[v] = "home" /\ stray[v]
                      /\ \A j \in 1 .. i - 1 : feed[v][i] # feed[v][j]
    BY DEF NoItemTwice
  <2> DEFINE k == page[v]
  <2>1. /\ from[v] \in Lists /\ perPage[v] \in Nat /\ PageCut(v)
        /\ Distinct(from[v], last) /\ k \in Feeds \cup {"none"}
    BY PageByPage DEF IInv, TypeOK, ListsDistinct, Feeds
  <2>2. k \in Feeds
    <3>1. k = "none" => Len(feed[v]) = 0
      BY <2>1 DEF PageCut
    <3> QED
      BY <2>1, <3>1
  <2>3. /\ Skip(k) \in Nat
        /\ \A j \in 1 .. Len(feed[v]) :
             j + Skip(k) \in 1 .. Len(from[v]) /\ feed[v][j] = from[v][j + Skip(k)]
    BY <2>1, <2>2, FeedFacts DEF PageCut
  <2>4. Len(feed[v]) \in Nat /\ Len(from[v]) \in Nat
    BY <2>1 DEF IInv, TypeOK, Lists
  <2>5. ASSUME NEW j \in 1 .. i - 1 PROVE feed[v][i] # feed[v][j]
    <3>1. j \in 1 .. Len(feed[v]) /\ j + Skip(k) # i + Skip(k)
      BY <2>3, <2>4
    <3> QED
      BY <2>1, <2>3, <3>1 DEF Distinct
  <2>6. ASSUME ~(page[v] = "home" /\ stray[v]) PROVE feed[v][i] # hero[v]
    <3>1. feed[v][i] \in Nat
      <4> HIDE DEF k
      <4> DEFINE place == i + Skip(k)
      <4>1. place \in 1 .. Len(from[v]) /\ feed[v][i] = from[v][place]
        BY <2>3
      <4> HIDE DEF place
      <4>2. from[v] \in Seq(Nat)
        BY <2>1 DEF Lists
      <4>3. from[v][place] \in Nat
        BY <4>1, <4>2
      <4> QED
        BY <4>1, <4>3
    <3>2. CASE hero[v] = from[v][1] /\ k # "video"
      <4>1. Skip(k) > 0 /\ i + Skip(k) # 1 /\ 1 \in 1 .. Len(from[v])
        <5>1. k \in {"section", "home"}
          BY <2>2, <3>2 DEF Feeds
        <5>2. Skip(k) > 0
          BY <5>1 DEF Skip
        <5> HIDE DEF k
        <5>3. i \in Nat /\ i > 0 /\ i + Skip(k) \in 1 .. Len(from[v])
          BY <2>3, <2>4
        <5> QED
          BY <2>3, <2>4, <5>2, <5>3
      <4> QED
        BY <2>1, <2>3, <3>2, <4>1 DEF Distinct
    <3>3. CASE hero[v] = None
      BY <3>1, <3>3
    <3>4. from[v] # <<>>
      BY <2>3, <2>4
    <3>5. k = "home" => hero[v] = from[v][1]
      BY <2>6, <3>4 DEF IInv, HeroFromList
    <3> QED
      BY <2>1, <2>2, <3>2, <3>3, <3>4, <3>5 DEF PageCut, Feeds
  <2> QED
    BY <2>5, <2>6
<1> QED
  BY <1>1, Invariance, PTL

\* A click finds its list for ten minutes, unless the cache was cleared or, for
\* videos, another list took its key (⚡video-list 35-60, 76-81, ⚡author 30-40).
THEOREM MissesExplained == Spec => []MissedOnlyIfLost
<1>1. IInv => MissedOnlyIfLost
  BY DEF IInv
<1> QED
  BY <1>1, Invariance, PTL

\* A walk through an author's pages that no save disturbs ends with the first
\* hundred articles, each once and in order, for every per_page
\* (ArticleRepository 189-223).
THEOREM WalksEnd == Spec => []WalkComplete
<1>1. IInv => WalkComplete
  <2> SUFFICES ASSUME IInv, NEW v \in Visitor, page[v] = "walk", ~more[v], ~stray[v]
               PROVE  feed[v] = SubSeq(table, 1, Least(Len(table), MaxArticles))
    BY DEF WalkComplete
  <2> DEFINE size  == perPage[v]
             total == Least(Len(table), MaxArticles)
  <2>1. /\ size \in 1 .. MaxArticles /\ at[v] \in Nat /\ at[v] > 0
        /\ feed[v] = SubSeq(table, 1, Least(at[v] * size, total))
        /\ ~(at[v] < Greatest(1, Ceil(total, size)))
    BY DEF IInv, TypeOK, WalksInOrder
  <2>2. total \in Nat
    BY DEF IInv, TypeOK, Lists, Least
  <2> HIDE DEF size, total
  <2>3. Ceil(total, size) \in Nat
        /\ \A q \in Nat : q >= Ceil(total, size) => q * size >= total
    BY <2>1, <2>2, CeilFacts
  <2>4. at[v] * size >= total /\ at[v] * size \in Nat
    BY <2>1, <2>3 DEF Greatest
  <2>5. Least(at[v] * size, total) = total
    BY <2>2, <2>4 DEF Least
  <2> QED
    BY <2>1, <2>5 DEF total
<1> QED
  BY <1>1, Invariance, PTL

\* More of a list whose button was there is longer, and begins with what was shown.
LEMMA MoreFacts ==
  ASSUME NEW k \in Feeds, NEW list \in Lists, NEW n \in Nat \ {0}, NEW m \in Nat,
         n < m, HasMore(k, list, n)
  PROVE  /\ Len(Feed(k, list, m)) > Len(Feed(k, list, n))
         /\ SubSeq(Feed(k, list, m), 1, Len(Feed(k, list, n))) = Feed(k, list, n)
<1> DEFINE a == Feed(k, list, n)
           b == Feed(k, list, m)
<1>1. /\ a \in Seq(Nat) /\ b \in Seq(Nat)
      /\ Len(a) = Greatest(0, Least(Skip(k) + n, Len(list)) - Skip(k))
      /\ Len(b) = Greatest(0, Least(Skip(k) + m, Len(list)) - Skip(k))
      /\ \A i \in 1 .. Len(a) : a[i] = list[i + Skip(k)]
      /\ \A i \in 1 .. Len(b) : b[i] = list[i + Skip(k)]
  BY FeedFacts DEF Lists
<1>2. Skip(k) \in Nat /\ n < Len(list) - Skip(k) /\ Len(list) \in Nat
  BY DEF HasMore, Skip, Above, Feeds, Lists
<1>3. Len(b) > Len(a) /\ Len(a) \in Nat /\ Len(b) \in Nat
  BY <1>1, <1>2 DEF Greatest, Least
<1> HIDE DEF a, b
<1> DEFINE c == SubSeq(b, 1, Len(a))
<1>4. /\ c \in Seq(Nat) /\ Len(c) = Len(a) /\ \A i \in 1 .. Len(a) : c[i] = b[i]
  <2>1. \A i \in 1 .. Len(a) : b[i] \in Nat
    BY <1>1, <1>3
  <2>2. /\ c \in Seq(Nat)
        /\ Len(c) = IF 1 <= Len(a) THEN Len(a) - 1 + 1 ELSE 0
        /\ \A i \in 1 .. Len(a) - 1 + 1 : c[i] = b[1 + i - 1]
    BY <1>3, <2>1, SubSeqProperties
  <2> HIDE DEF c
  <2>3. \A i \in 1 .. Len(a) : i \in 1 .. Len(a) - 1 + 1 /\ 1 + i - 1 = i
    BY <1>3
  <2>4. Len(c) = Len(a)
    BY <1>3, <2>2
  <2>5. ASSUME NEW i \in 1 .. Len(a) PROVE c[i] = b[i]
    <3>1. c[i] = b[1 + i - 1]
      BY <2>2, <2>3
    <3> QED
      BY <2>3, <3>1
  <2> QED
    BY <2>2, <2>4, <2>5
<1> HIDE DEF c
<1>5. ASSUME NEW i \in 1 .. Len(a) PROVE c[i] = a[i]
  BY <1>1, <1>3, <1>4
<1>6. c = a
  BY <1>1, <1>4, <1>5, SeqEqual
<1> QED
  BY <1>3, <1>6 DEF a, b, c

\* A click on the button that finds the same list adds to what is shown and
\* moves nothing of it (⚡video-list 76-81, ⚡author 41-46, ⚡news 87-101).
THEOREM ClicksAdd == Spec => ButtonAdds
<1> DEFINE Adds ==
      \A v \in Visitor :
        page[v] \in {"video", "section", "home"} /\ perPage'[v] > perPage[v]
        /\ from'[v] = from[v] /\ from[v] # <<>> =>
          /\ Len(feed'[v]) > Len(feed[v])
          /\ SubSeq(feed'[v], 1, Len(feed[v])) = feed[v]
<1>1. IInv /\ IInv' /\ [Next]_vars => [Adds]_vars
  <2> SUFFICES ASSUME IInv, IInv', Next, NEW v \in Visitor,
                      page[v] \in Feeds, perPage'[v] > perPage[v],
                      from'[v] = from[v], from[v] # <<>>
               PROVE  /\ Len(feed'[v]) > Len(feed[v])
                      /\ SubSeq(feed'[v], 1, Len(feed[v])) = feed[v]
    BY DEF Feeds
  <2>0. /\ perPage \in [Visitor -> Nat] /\ page[v] \in Feeds /\ PageCut(v)
        /\ perPage'[v] \in Nat /\ from[v] \in Lists
        /\ from \in [Visitor -> Lists] /\ perPage[v] \in Nat \ {0}
        /\ page \in [Visitor -> {"none", "video", "section", "home", "walk"}]
    BY PageByPage DEF IInv, TypeOK, PageCut
  <2>1. MoreVideos(v) \/ MoreSection(v) \/ MoreHome(v)
    <3>1. ~UNCHANGED perPage
      BY <2>0
    <3>2. ASSUME NEW w \in Visitor, w # v,
                 \/ \E k, list, n : Show(w, k, list, n)
                 \/ \E n, asked, got : Ask(w, n, asked, got)
                 \/ Leave(w)
          PROVE  FALSE
      <4>1. perPage'[v] = perPage[v]
        BY <2>0, <3>2 DEF Show, Ask, Leave
      <4> QED
        BY <2>0, <4>1
    <3>3. ~Leave(v)
      BY <2>0 DEF Leave
    <3>4. ~Mount(v, "video") /\ ~Mount(v, "section") /\ ~Mount(v, "home")
          /\ ~Mount(v, "walk") /\ ~NextPage(v)
      BY <2>0 DEF Mount, NextPage, Feeds
    <3>5. PICK w \in Visitor :
            \/ OpenVideos(w) \/ OpenSection(w) \/ OpenHome(w) \/ MoreVideos(w)
            \/ MoreSection(w) \/ MoreHome(w) \/ NextPage(w) \/ Leave(w)
            \/ \E a \in Asked : StartWalk(w, a)
      BY <3>1 DEF Next, SelectVideo, Publish, Delete, Save, Refresh, ClearCache, Tick, shown
    <3>6. \/ \E k, list, n : Show(w, k, list, n)
          \/ \E n, asked, got : Ask(w, n, asked, got)
          \/ Leave(w)
      BY <3>1, <3>5 DEF OpenVideos, OpenSection, OpenHome, ShowHome, MoreVideos,
                        MoreSection, MoreHome, NextPage, StartWalk
    <3>7. w = v
      BY <3>2, <3>6
    <3> QED
      BY <3>3, <3>4, <3>5, <3>7 DEF OpenVideos, OpenSection, OpenHome, StartWalk
  <2>2. more[v] /\ page'[v] = page[v]
    BY <2>1 DEF MoreVideos, MoreSection, MoreHome
  <2>3. PageCut(v)'
    BY DEF IInv, CutFromList, PageCut, Feeds
  <2>4. /\ feed[v] = Feed(page[v], from[v], perPage[v])
        /\ HasMore(page[v], from[v], perPage[v])
        /\ feed'[v] = Feed(page[v], from[v], perPage'[v])
    BY <2>0, <2>2, <2>3 DEF PageCut
  <2> QED
    BY <2>0, <2>4, MoreFacts
<1> QED
  BY <1>1, Invariance, PTL DEF ButtonAdds, Spec
=============================================================================
