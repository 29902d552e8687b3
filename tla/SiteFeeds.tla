------------------------------ MODULE SiteFeeds ------------------------------
(***************************************************************************)
(* Lists that are shown a part at a time: the Livewire components          *)
(* ⚡video-list, ⚡author, ⚡rubrique-article and ⚡news, which keep a list in  *)
(* the cache and show more of it at every click, and the paginated list of *)
(* an author, ArticleRepository::getArticleByUser.                         *)
(*                                                                         *)
(* A click carries the snapshot of one visitor's component; what it shows  *)
(* is cut from a list that another visitor may have replaced, that the     *)
(* cache may have lost, or that the editors have changed.  The browser     *)
(* sends the clicks on a component one after the other, and a click is one *)
(* read of the cache.  One table stands for the articles and for the       *)
(* videos: nothing here relates the two.                                   *)
(***************************************************************************)
EXTENDS Integers, Sequences

CONSTANTS
  Visitor,
  First, More,  \* perPage at first (10), and what a click adds (6)
  SectionSkip,  \* items of its list a section or author page skips (6)
  HomeAbove,    \* items the home page leaves out when it counts the rest (9)
  MaxArticles,  \* items an author's pages give (100)
  Asked,        \* values of the parameter per_page
  Ttl,          \* clock units in ten minutes
  Sizes,        \* lengths of the table at first
  MaxEdits, MaxTime,  \* bounds on the saves of editors and on the clock
  None

ASSUME SiteFeedsAssumption ==
  /\ First \in Nat \ {0} /\ More \in Nat \ {0}
  /\ SectionSkip \in Nat \ {0} /\ HomeAbove \in Nat \ {0}
  /\ MaxArticles \in Nat \ {0} /\ Asked \subseteq Int
  /\ Ttl \in Nat \ {0} /\ Sizes \subseteq Nat
  /\ MaxEdits \in Nat /\ MaxTime \in Nat /\ None \notin Nat

Lists == Seq(Nat)

VARIABLES
  table,    \* ids of the published items, newest first
  last,     \* the last id given
  edits,    \* number of saves
  given,    \* the list the controller's page cache gives to mount
  feeds,    \* key 'video-feed-...': [list, exp], or None
  kept,     \* keys named by their content: the lists and their expiries
  home,     \* key 'home.articles': [list, exp], or None
  clock,    \* now()
  page,     \* the page v looks at
  perPage, feed, more, \* the component's perPage, list shown, hasMore
  hero,     \* the item above the list
  key,      \* the list a section page was given, which names its key
  at,       \* the page of a walk through an author's list
  from,     \* history: the list feed was cut from
  since,    \* history: when v had its list put in the cache
  stray,    \* history: the list of v was cleared or replaced since it was shown
  missed    \* history: the last click of v did not find its list

store   == <<table, last, edits, given, feeds, kept, home, clock>>
shown   == <<page, perPage, feed, more, hero, key, at>>
history == <<from, since, stray, missed>>
vars    == <<store, shown, history>>

Kept == [list : Lists, exp : Nat]

ASSUME NoneIsNoList == None \notin Kept

TypeOK ==
  /\ table \in Lists /\ last \in Nat /\ edits \in 0 .. MaxEdits /\ given \in Lists
  /\ feeds \in Kept \cup {None} /\ home \in Kept \cup {None} /\ kept \subseteq Kept
  /\ clock \in 0 .. MaxTime
  /\ page \in [Visitor -> {"none", "video", "section", "home", "walk"}]
  /\ perPage \in [Visitor -> Nat] /\ feed \in [Visitor -> Lists]
  /\ more \in [Visitor -> BOOLEAN]
  /\ hero \in [Visitor -> Nat \cup {None}]
  /\ key \in [Visitor -> Lists] /\ at \in [Visitor -> Nat]
  /\ from \in [Visitor -> Lists] /\ since \in [Visitor -> 0 .. MaxTime]
  /\ stray \in [Visitor -> BOOLEAN] /\ missed \in [Visitor -> BOOLEAN]

Newest(n) == [i \in 1 .. n |-> n + 1 - i]

Init ==
  /\ last \in Sizes /\ table = Newest(last) /\ edits = 0
  /\ given = table
  /\ feeds = None /\ kept = {} /\ home = None
  /\ clock = 0
  /\ page = [v \in Visitor |-> "none"]
  /\ perPage = [v \in Visitor |-> First]
  /\ feed = [v \in Visitor |-> <<>>]
  /\ more = [v \in Visitor |-> TRUE]
  /\ hero = [v \in Visitor |-> None]
  /\ key = [v \in Visitor |-> <<>>]
  /\ at = [v \in Visitor |-> 0]
  /\ from = [v \in Visitor |-> <<>>]
  /\ since = [v \in Visitor |-> 0]
  /\ stray = [v \in Visitor |-> FALSE]
  /\ missed = [v \in Visitor |-> FALSE]

Least(a, b)    == IF a < b THEN a ELSE b
Greatest(a, b) == IF a < b THEN b ELSE a

-----------------------------------------------------------------------------
(* Components.                                                             *)

\* array_slice, Collection::slice and take.
Slice(list, start, n) == SubSeq(list, start + 1, Least(start + n, Len(list)))

\* Items before the list of a page, and items not counted for hasMore.
Skip(k)  == CASE k = "video" -> 0 [] k = "section" -> SectionSkip [] k = "home" -> 1
Above(k) == CASE k = "video" -> 0 [] k = "section" -> SectionSkip [] k = "home" -> HomeAbove

\* Mutation: the button stays for an empty rest.
HasMoreOrEqual(k, list, n) == n <= Len(list) - Above(k)

HasMore(k, list, n) == n < Len(list) - Above(k)

\* Mutation: the list starts at its first item.
FeedWhole(k, list, n) == Slice(list, 0, n)

Feed(k, list, n) == Slice(list, Skip(k), n)

\* updateFeed: v, on a page k, is shown the first n items of list.
Show(v, k, list, n) ==
  /\ perPage' = [perPage EXCEPT ![v] = n]
  /\ feed' = [feed EXCEPT ![v] = Feed(k, list, n)]
  /\ more' = [more EXCEPT ![v] = HasMore(k, list, n)]
  /\ from' = [from EXCEPT ![v] = list]

\* mount starts v on a page k.
Mount(v, k) ==
  /\ page[v] = "none"
  /\ page' = [page EXCEPT ![v] = k]
  /\ missed' = [missed EXCEPT ![v] = FALSE]

\* Cache::get($key, []).
Alive(entry) == entry # None /\ clock < entry.exp
ListOf(entry) == IF Alive(entry) THEN entry.list ELSE <<>>
KeptList(list) == IF \E e \in kept : e.list = list /\ clock < e.exp THEN list ELSE <<>>

\* ⚡video-list: the key is named by the type of the videos, so that every
\* visitor of the type shares it.  Mounted on an empty list the page fails, as
\* the template reads its first video.
OpenVideos(v) ==
  /\ Mount(v, "video")
  /\ given # <<>>
  /\ feeds' = [list |-> given, exp |-> clock + Ttl]
  /\ since' = [since EXCEPT ![v] = clock]
  /\ Show(v, "video", given, First)
  /\ stray' = [w \in Visitor |->
                 w # v /\ (stray[w] \/ (page[w] = "video" /\ from[w] # given))]
  /\ UNCHANGED <<table, last, edits, given, kept, home, clock, hero, key, at>>

\* Mutation: Cache::add, which keeps a list that is there with its expiry.
KeepOnce(list) ==
  IF \E e \in kept : e.list = list /\ clock < e.exp THEN kept
  ELSE {e \in kept : e.list # list} \cup {[list |-> list, exp |-> clock + Ttl]}

\* Mutation: Cache::put without its ten minutes.
KeepForever(list) == {e \in kept : e.list # list} \cup {[list |-> list, exp |-> None]}

\* Cache::put under a key named by the ids of the list.
Keep(list) == {e \in kept : e.list # list} \cup {[list |-> list, exp |-> clock + Ttl]}

\* ⚡author, ⚡rubrique-article; the controller gives the first item as the hero.
OpenSection(v) ==
  /\ Mount(v, "section")
  /\ given # <<>>
  /\ kept' = Keep(given)
  /\ since' = [since EXCEPT ![v] = clock]
  /\ key' = [key EXCEPT ![v] = given]
  /\ hero' = [hero EXCEPT ![v] = given[1]]
  /\ Show(v, "section", given, First)
  /\ stray' = [stray EXCEPT ![v] = FALSE]
  /\ UNCHANGED <<table, last, edits, given, feeds, home, clock, at>>

\* The item above the list of the home page is a component of its own, nested in
\* ⚡news without a reactive property: it keeps the item it was first given, for as
\* long as there is one to render.
Hero(v, list) ==
  IF list = <<>> THEN None ELSE IF hero[v] = None THEN list[1] ELSE hero[v]

\* ⚡news: Cache::remember at every rendering, of the page or of a click.
ShowHome(v, n) ==
  LET list == IF Alive(home) THEN home.list ELSE table
  IN  /\ home' = IF Alive(home) THEN home ELSE [list |-> table, exp |-> clock + Ttl]
      /\ Show(v, "home", list, n)
      /\ hero' = [hero EXCEPT ![v] = Hero(v, list)]
      /\ stray' = [w \in Visitor |->
                     stray[w] \/ (page[w] = "home" /\ ~Alive(home) /\ from[w] # table)]

OpenHome(v) ==
  /\ Mount(v, "home")
  /\ ShowHome(v, First)
  /\ UNCHANGED <<table, last, edits, given, feeds, kept, clock, key, at, since>>

\* loadMore of ⚡video-list: without its list the template fails, and the
\* browser keeps the component as it was.
MoreVideos(v) ==
  /\ page[v] = "video" /\ more[v]
  /\ LET list == ListOf(feeds)
     IN  IF list = <<>>
         THEN /\ missed' = [missed EXCEPT ![v] = TRUE]
              /\ UNCHANGED <<perPage, feed, more, from, stray>>
         ELSE /\ missed' = [missed EXCEPT ![v] = FALSE]
              /\ Show(v, "video", list, perPage[v] + More)
              /\ stray' = [stray EXCEPT ![v] = FALSE]
  /\ UNCHANGED <<store, page, hero, key, at, since>>

\* loadMore of ⚡author and ⚡rubrique-article: without its list the feed is empty.
MoreSection(v) ==
  /\ page[v] = "section" /\ more[v]
  /\ LET list == KeptList(key[v])
     IN  /\ missed' = [missed EXCEPT ![v] = list = <<>>]
         /\ Show(v, "section", list, perPage[v] + More)
  /\ UNCHANGED <<store, page, hero, key, at, since, stray>>

MoreHome(v) ==
  /\ page[v] = "home" /\ more[v]
  /\ ShowHome(v, perPage[v] + More)
  /\ UNCHANGED <<table, last, edits, given, feeds, kept, clock, page, key, at,
                 since, missed>>

Has(list, x) == \E i \in 1 .. Len(list) : list[i] = x

\* selectVideo: a click on a video shown opens it, or closes the window.
SelectVideo(v) ==
  /\ page[v] = "video"
  /\ \E i \in 1 .. Len(feed[v]) :
       missed' = [missed EXCEPT ![v] = ~Has(ListOf(feeds), feed[v][i])]
  /\ UNCHANGED <<store, shown, from, since, stray>>

-----------------------------------------------------------------------------
(* The author's list, page by page.                                        *)

Ceil(a, b) == (a + b - 1) \div b

PerPage(asked) == Greatest(1, Least(asked, MaxArticles))

Page(n, size) == Least(Greatest(n, 1), Ceil(MaxArticles, size))

\* Mutation: the last page is not cut.
LimitWhole(offset, size) == size

Limit(offset, size) == Greatest(0, Least(size, MaxArticles - offset))

\* v adds a page to what it has.  The page is kept under the version in force,
\* which every save replaces: what remember() finds is what the query would
\* give (ArticleCache has the races between the two).
Ask(v, n, asked, got) ==
  LET size   == PerPage(asked)
      p      == Page(n, size)
      offset == (p - 1) * size
      pages  == Greatest(1, Ceil(Least(Len(table), MaxArticles), size))
  IN  /\ perPage' = [perPage EXCEPT ![v] = size]
      /\ at' = [at EXCEPT ![v] = p]
      /\ feed' = [feed EXCEPT ![v] = got \o Slice(table, offset, Limit(offset, size))]
      /\ more' = [more EXCEPT ![v] = p < pages]

\* The first request of a walk; any page number is accepted, and -1 is clamped.
StartWalk(v, asked) ==
  /\ Mount(v, "walk")
  /\ \E n \in {-1, 1} : Ask(v, n, asked, <<>>)
  /\ stray' = [stray EXCEPT ![v] = FALSE]
  /\ UNCHANGED <<store, hero, key, from, since>>

\* The next page, until current_page is last_page.
NextPage(v) ==
  /\ page[v] = "walk" /\ more[v]
  /\ Ask(v, at[v] + 1, perPage[v], feed[v])
  /\ UNCHANGED <<store, page, hero, key, history>>

-----------------------------------------------------------------------------
(* Around the visitors.                                                    *)

Leave(v) ==
  /\ page[v] # "none"
  /\ page' = [page EXCEPT ![v] = "none"]
  /\ perPage' = [perPage EXCEPT ![v] = First]
  /\ feed' = [feed EXCEPT ![v] = <<>>]
  /\ more' = [more EXCEPT ![v] = TRUE]
  /\ hero' = [hero EXCEPT ![v] = None]
  /\ key' = [key EXCEPT ![v] = <<>>]
  /\ at' = [at EXCEPT ![v] = 0]
  /\ from' = [from EXCEPT ![v] = <<>>]
  /\ since' = [since EXCEPT ![v] = 0]
  /\ stray' = [stray EXCEPT ![v] = FALSE]
  /\ missed' = [missed EXCEPT ![v] = FALSE]
  /\ UNCHANGED store

\* A save draws a new version of the author's pages and forgets none of the
\* lists the components keep, nor 'home.articles'.
Save ==
  /\ edits < MaxEdits
  /\ edits' = edits + 1
  /\ stray' = [v \in Visitor |-> stray[v] \/ page[v] = "walk"]
  /\ UNCHANGED <<given, feeds, kept, home, clock, shown, from, since, missed>>

Publish ==
  /\ last' = last + 1
  /\ table' = <<last + 1>> \o table
  /\ Save

\* An editor deletes the i-th item.
Delete(i) ==
  /\ table' = SubSeq(table, 1, i - 1) \o SubSeq(table, i + 1, Len(table))
  /\ last' = last
  /\ Save

\* The controller's page cache expires and is filled again.
Refresh ==
  /\ given # table
  /\ given' = table
  /\ UNCHANGED <<table, last, edits, feeds, kept, home, clock, shown, history>>

\* cache:clear.
ClearCache ==
  /\ feeds' = None /\ kept' = {} /\ home' = None
  /\ given' = table
  /\ stray' = [v \in Visitor |-> stray[v] \/ page[v] \in {"video", "section"}]
  /\ UNCHANGED <<table, last, edits, clock, shown, from, since, missed>>

Tick ==
  /\ clock < MaxTime
  /\ clock' = clock + 1
  /\ UNCHANGED <<table, last, edits, given, feeds, kept, home, shown, history>>

Next ==
  \/ \E v \in Visitor :
       \/ OpenVideos(v) \/ OpenSection(v) \/ OpenHome(v)
       \/ MoreVideos(v) \/ MoreSection(v) \/ MoreHome(v) \/ SelectVideo(v)
       \/ (\E asked \in Asked : StartWalk(v, asked)) \/ NextPage(v)
       \/ Leave(v)
  \/ Publish \/ (\E i \in 1 .. Len(table) : Delete(i)) \/ Refresh \/ ClearCache \/ Tick

Spec == Init /\ [][Next]_vars

-----------------------------------------------------------------------------
(* Properties.                                                             *)

\* No page shows an item twice, however often its list is replaced between the
\* clicks, but for the item above the list of the home page, and only if
\* 'home.articles' has been filled with another list since the page was opened:
\* "sans doublon" holds until then (⚡news 86-95, 116-118).
NoItemTwice ==
  \A v \in Visitor : page[v] # "walk" =>
    \A i \in 1 .. Len(feed[v]) :
      /\ feed[v][i] = hero[v] => page[v] = "home" /\ stray[v]
      /\ \A j \in 1 .. i - 1 : feed[v][i] # feed[v][j]

\* A click on the button, or on a video shown, finds its list for ten minutes
\* after the page was opened, unless the cache is cleared or, for videos, a
\* visitor of the same type was given another list since (⚡video-list 35-60,
\* 76-81, ⚡author 30-40).
MissedOnlyIfLost ==
  \A v \in Visitor : missed[v] => stray[v] \/ clock >= since[v] + Ttl

\* A click on the button that finds the same list adds to what is shown.
ButtonAdds ==
  [][\A v \in Visitor :
       page[v] \in {"video", "section", "home"} /\ perPage'[v] > perPage[v]
       /\ from'[v] = from[v] /\ from[v] # <<>> =>
         /\ Len(feed'[v]) > Len(feed[v])
         /\ SubSeq(feed'[v], 1, Len(feed[v])) = feed[v]]_vars

\* A walk through an author's pages that no save disturbs gives each of the
\* first hundred articles once and in order, whatever per_page asks
\* (ArticleRepository 189-223).
WalkComplete ==
  \A v \in Visitor : page[v] = "walk" /\ ~more[v] /\ ~stray[v] =>
    feed[v] = SubSeq(table, 1, Least(Len(table), MaxArticles))

-----------------------------------------------------------------------------
(* The inductive invariant of SiteFeedsProofs.                             *)

Distinct(list, n) ==
  /\ \A i \in 1 .. Len(list) : list[i] <= n
  /\ \A i, j \in 1 .. Len(list) : list[i] = list[j] => i = j

\* Every list, wherever it is kept, names an item once.
ListsDistinct ==
  /\ Distinct(table, last) /\ Distinct(given, last)
  /\ feeds # None => Distinct(feeds.list, last)
  /\ home # None => Distinct(home.list, last)
  /\ \A e \in kept : Distinct(e.list, last)
  /\ \A v \in Visitor : Distinct(from[v], last) /\ Distinct(key[v], last)

\* What a component shows is cut from the list it was last given.
CutFromList ==
  \A v \in Visitor :
    /\ page[v] \in {"video", "section", "home"} =>
         /\ feed[v] = Feed(page[v], from[v], perPage[v])
         /\ more[v] = HasMore(page[v], from[v], perPage[v])
         /\ perPage[v] > 0
    /\ page[v] = "none" => feed[v] = <<>> /\ more[v]
    /\ page[v] \in {"none", "video"} => hero[v] = None
    /\ page[v] = "section" =>
         key[v] # <<>> /\ hero[v] = key[v][1] /\ from[v] \in {key[v], <<>>}

\* Until its list is replaced, a home page has the first item of it above the
\* rest, and the cache has no other list.
HeroFromList ==
  \A v \in Visitor : page[v] = "home" =>
    \/ stray[v]
    \/ /\ hero[v] = IF from[v] = <<>> THEN None ELSE from[v][1]
       /\ Alive(home) => home.list = from[v]

\* The list of an open page is at hand for ten minutes after it was opened,
\* unless it was cleared or replaced.
ListsAtHand ==
  /\ feeds # None => feeds.list # <<>>
  /\ \A v \in Visitor :
       /\ since[v] <= clock
       /\ page[v] = "video" =>
            /\ feeds # None => since[v] + Ttl <= feeds.exp
            /\ stray[v] \/ (feeds # None /\ feeds.list = from[v])
       /\ page[v] = "section" =>
            stray[v] \/ \E e \in kept : e.list = key[v] /\ since[v] + Ttl <= e.exp

\* What a walk that no save disturbs has got so far: the pages up to the last one
\* asked, and nothing of the others.
WalksInOrder ==
  \A v \in Visitor : page[v] = "walk" =>
    LET size  == perPage[v]
        total == Least(Len(table), MaxArticles)
    IN  /\ size \in 1 .. MaxArticles /\ at[v] > 0
        /\ stray[v] \/ /\ feed[v] = SubSeq(table, 1, Least(at[v] * size, total))
                       /\ more[v] = (at[v] < Greatest(1, Ceil(total, size)))

\* Invariant under every step, and strong enough to be so.
IInv ==
  /\ TypeOK /\ ListsDistinct /\ CutFromList /\ HeroFromList /\ ListsAtHand
  /\ WalksInOrder /\ MissedOnlyIfLost
=============================================================================
