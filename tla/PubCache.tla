------------------------------ MODULE PubCache ------------------------------
(***************************************************************************)
(* The advertisements: app/Repositories/PubRepository.php, the model       *)
(* events of app/Models/Pub.php and the nightly app:clear-all-cache        *)
(* (app/Console/Commands/ClearAllCache.php, scheduled by                   *)
(* routes/console.php).                                                    *)
(*                                                                         *)
(* Time matters here: an ad has an end date, a cached list lives one day   *)
(* from the call that stores it, the command runs once a day.  The clock   *)
(* counts fractions of a day.  Visitors, editors and the command           *)
(* interleave between any two of their database and cache calls.           *)
(***************************************************************************)
EXTENDS Integers

CONSTANTS
  Req,        \* visitors' requests
  Pub,        \* ids of ads
  Ads,        \* the rows editors may save: [dim, kind, end]
  Dimensions, \* the formats visitors ask for: 728, 300 and any other
  Day,        \* clock units in a day
  MaxTime,    \* bound on the clock
  MaxSaves,   \* bound on the saves
  None

Kinds == {"image", "infomaniak", "iframe"}

ASSUME PubCacheAssumption ==
  /\ Day \in Nat \ {0} /\ MaxTime \in Nat /\ MaxSaves \in Nat
  /\ Ads \subseteq [dim : Nat, kind : Kinds, end : Nat]
  /\ Dimensions \subseteq Int
  /\ None \notin Ads \cup Nat

VARIABLES
  pubs,     \* pubs[i]: the row of ad i, or None
  cache,    \* cache[k]: the list and its expiry [ads, exp], or None; its fields by and
            \* raced are history: what the request that stored it had asked for,
            \* and its overlap
  clock,    \* now()
  nightly,  \* the command: "waiting", or "purge" between its two statements
  lastRun,  \* the time of its last start
  saves,    \* number of saves begun
  saving,   \* rows whose save (row before, row after) has not run its event yet
  pc, want, got, exp,  \* visitors: key, formats' list, expiry asked for
  overlap,  \* history: overlap[r]: a save was in progress while r was filling
  savedAt,  \* history: the time an ad was last saved with these values
  removedAt \* history: the time the last row of an ad left the table

store   == <<pubs, cache, clock>>
command == <<nightly, lastRun>>
editors == <<saves, saving>>
request == <<pc, want, got, exp>>
history == <<overlap, savedAt, removedAt>>
vars    == <<store, command, editors, request, history>>

Keys == {"Pub-728", "Pub-300", "pub-list-cache", "pub-iframe-infomaniak"}

\* Mutation: the two rows of the map are swapped.
FkDimensionSwapped(format) ==
  IF format = 728 THEN 2 ELSE IF format = 300 THEN 1 ELSE None

\* Helper::getPubDimension: the foreign key of a format, None for any other.
FkDimension(format) == IF format = 728 THEN 1 ELSE IF format = 300 THEN 2 ELSE None

\* The lists visitors ask for: one of the four keys, and what is queried for it.
\* The route pubcached/{dimension} takes any number, and every one but 728 has the
\* key Pub-300; no ad has the foreign key None of a format that is not sold.
Wants == [key : {"pub-list-cache", "pub-iframe-infomaniak"}, dim : {None}]
         \cup {[key |-> IF f = 728 THEN "Pub-728" ELSE "Pub-300",
                dim |-> FkDimension(f)] : f \in Dimensions}

TypeOK ==
  /\ pubs \in [Pub -> Ads \cup {None}]
  /\ cache \in [Keys -> [ads : SUBSET Ads, exp : 0 .. MaxTime + Day,
                         by : Wants, raced : BOOLEAN] \cup {None}]
  /\ clock \in 0 .. MaxTime
  /\ nightly \in {"waiting", "purge"}
  /\ lastRun \in 0 .. MaxTime
  /\ saves \in 0 .. MaxSaves
  /\ saving \subseteq 1 .. MaxSaves
  /\ pc \in [Req -> {"idle", "query", "put"}]
  /\ want \in [Req -> Wants \cup {None}]
  /\ \A r \in Req : pc[r] # "idle" => want[r] \in Wants
  /\ exp \in [Req -> 0 .. MaxTime + Day]
  /\ got \in [Req -> SUBSET Ads]
  /\ overlap \in [Req -> BOOLEAN]
  /\ savedAt \in [Ads -> 0 .. MaxTime] /\ removedAt \in [Ads -> 0 .. MaxTime]

Init ==
  /\ pubs = [i \in Pub |-> None]
  /\ cache = [k \in Keys |-> None]
  /\ clock = 0
  /\ nightly = "waiting" /\ lastRun = 0
  /\ saves = 0 /\ saving = {}
  /\ pc = [r \in Req |-> "idle"]
  /\ want = [r \in Req |-> None]
  /\ got = [r \in Req |-> {}]
  /\ exp = [r \in Req |-> 0]
  /\ overlap = [r \in Req |-> FALSE]
  /\ savedAt = [ad \in Ads |-> 0] /\ removedAt = [ad \in Ads |-> 0]

-----------------------------------------------------------------------------
\* Mutation: the lists of a format keep the ads that have ended.
SelectedUndated(w, ad, now) ==
  CASE w.key = "pub-list-cache" -> ad.end >= now
    [] w.key = "pub-iframe-infomaniak" -> ad.kind = "infomaniak"
    [] OTHER -> ad.kind = "image" /\ ad.dim = w.dim

\* The where clauses of index, getCachedPub and getInfomaniakPub.
Selected(w, ad, now) ==
  CASE w.key = "pub-list-cache" -> ad.end >= now
    [] w.key = "pub-iframe-infomaniak" -> ad.kind = "infomaniak"
    [] OTHER -> ad.kind = "image" /\ ad.end >= now /\ ad.dim = w.dim

Rows == {pubs[i] : i \in Pub} \ {None}

Present(k) == cache[k] # None /\ clock < cache[k].exp

\* Cache::remember: a hit ends the request, a miss fixes the expiry (the
\* argument now()->addDay() is evaluated before the query).
Ask(r, w) ==
  /\ pc[r] = "idle"
  /\ ~Present(w.key)
  /\ pc' = [pc EXCEPT ![r] = "query"]
  /\ want' = [want EXCEPT ![r] = w]
  /\ exp' = [exp EXCEPT ![r] = clock + Day]
  /\ overlap' = [overlap EXCEPT ![r] = saving # {}]
  /\ UNCHANGED <<store, command, editors, got, savedAt, removedAt>>

\* getInfomaniakPub takes the first row, the other lists take them all.
Query(r) ==
  /\ pc[r] = "query"
  /\ pc' = [pc EXCEPT ![r] = "put"]
  /\ LET rows == {ad \in Rows : Selected(want[r], ad, clock)}
     IN  IF want[r].key # "pub-iframe-infomaniak" \/ rows = {}
         THEN got' = [got EXCEPT ![r] = rows]
         ELSE \E ad \in rows : got' = [got EXCEPT ![r] = {ad}]
  /\ UNCHANGED <<store, command, editors, want, exp, history>>

\* The entry a request stores under the key it asked for.
Entry(r, end) == [ads |-> got[r], exp |-> end, by |-> want[r], raced |-> overlap[r]]

Finish(r) ==
  /\ pc[r] = "put"
  /\ pc' = [pc EXCEPT ![r] = "idle"]
  /\ want' = [want EXCEPT ![r] = None]
  /\ got' = [got EXCEPT ![r] = {}]
  /\ exp' = [exp EXCEPT ![r] = 0]
  /\ overlap' = [overlap EXCEPT ![r] = FALSE]
  /\ UNCHANGED <<pubs, clock, command, editors, savedAt, removedAt>>

\* Mutation: the time the list ends is taken for a number of units to live.
PutRelative(r) ==
  /\ Finish(r)
  /\ cache' = [cache EXCEPT ![want[r].key] = Entry(r, clock + exp[r])]

\* Mutation: the day is counted from the put.
PutFromNow(r) ==
  /\ Finish(r)
  /\ cache' = [cache EXCEPT ![want[r].key] = Entry(r, clock + Day)]

\* put() with a time already past forgets the key; the null of first() reads
\* as a miss; an empty list of a format is a value like any other.
Put(r) ==
  /\ Finish(r)
  /\ LET null == want[r].key = "pub-iframe-infomaniak" /\ got[r] = {}
     IN  cache' = [cache EXCEPT ![want[r].key] = IF exp[r] <= clock \/ null THEN None
                                                 ELSE Entry(r, exp[r])]

-----------------------------------------------------------------------------
\* The times of removal once the rows are those of pubs'.
Removals == [ad \in Ads |-> IF ad \in Rows \ Rows' THEN clock ELSE removedAt[ad]]

\* create, update and delete commit the row ...
Save(i, ad) ==
  /\ saves < MaxSaves
  /\ pubs[i] # ad
  /\ pubs' = [pubs EXCEPT ![i] = ad]
  /\ saves' = saves + 1
  /\ saving' = saving \cup {saves + 1}
  /\ overlap' = [r \in Req |-> overlap[r] \/ pc[r] # "idle"]
  /\ savedAt' = IF ad = None THEN savedAt ELSE [savedAt EXCEPT ![ad] = clock]
  /\ removedAt' = Removals
  /\ UNCHANGED <<cache, clock, command, request>>

\* Mutation: the iframe of Infomaniak is left out of the list.
ForgottenKeysShort == {"Pub-300", "pub-list-cache"}

\* The keys the model events forget.  fkdimension is a foreign key (1 or 2) and
\* is compared with 728, so that "Pub-728" is never among them.
ForgottenKeys == {"Pub-300", "pub-list-cache", "pub-iframe-infomaniak"}

\* ... and the event of the model forgets the keys.
ForgetKeys(n) ==
  /\ n \in saving
  /\ cache' = [k \in Keys |-> IF k \in ForgottenKeys THEN None ELSE cache[k]]
  /\ saving' = saving \ {n}
  /\ UNCHANGED <<pubs, clock, command, saves, request, history>>

-----------------------------------------------------------------------------
Due == clock % Day = 0 /\ clock # lastRun

\* app:clear-all-cache first clears the cache ...
ClearCache ==
  /\ nightly = "waiting"
  /\ Due
  /\ nightly' = "purge"
  /\ lastRun' = clock
  /\ cache' = [k \in Keys |-> None]
  /\ UNCHANGED <<pubs, clock, editors, request, history>>

\* Mutation: nothing has expired as long as it is the day it ends.
ExpiredYesterday(ad) == ad # None /\ ad.end + Day < clock

Expired(ad) == ad # None /\ ad.end < clock

\* ... then deletes the ads that have ended, with a query that fires no event.
PurgePubs ==
  /\ nightly = "purge"
  /\ nightly' = "waiting"
  /\ pubs' = [i \in Pub |-> IF Expired(pubs[i]) THEN None ELSE pubs[i]]
  /\ removedAt' = Removals
  /\ UNCHANGED <<cache, clock, lastRun, editors, request, overlap, savedAt>>

\* The lists whose day is over are no longer there.
Unexpired == [k \in Keys |-> IF cache[k] # None /\ cache[k].exp <= clock' THEN None
                             ELSE cache[k]]

\* The scheduler starts the command in its minute, and it ends within it.
Tick ==
  /\ clock < MaxTime
  /\ ~Due /\ nightly = "waiting"
  /\ clock' = clock + 1
  /\ cache' = Unexpired
  /\ UNCHANGED <<pubs, command, editors, request, history>>

Next ==
  \/ \E r \in Req : \/ \E w \in Wants : Ask(r, w)
                    \/ Query(r) \/ Put(r)
  \/ \E i \in Pub, ad \in Ads \cup {None} : Save(i, ad)
  \/ \E n \in saving : ForgetKeys(n)
  \/ ClearCache \/ PurgePubs \/ Tick

Spec == Init /\ [][Next]_vars

-----------------------------------------------------------------------------
Served(k) == IF Present(k) THEN cache[k].ads ELSE {}

\* A dated list never shows an ad more than a day after its end, however the
\* fill, the purge and the saves interleave (PubRepository 103-137).
DatedAdsBounded ==
  \A k \in Keys \ {"pub-iframe-infomaniak"} :
    \A ad \in Served(k) : clock < ad.end + Day

\* The iframes are queried without a date: one that has ended (or was saved
\* with an end already past, which PubRequest allows) stays until the next
\* purge, and a list refilled between cache:clear and the purge keeps it for a
\* day more - never longer (PubRepository 152-159, ClearAllCache 29-39).
IframesBounded ==
  \A ad \in Served("pub-iframe-infomaniak") :
    \/ clock <= ad.end + 2 * Day
    \/ clock <= savedAt[ad] + 2 * Day

\* After a save, a key other than Pub-728 is either absent or free of rows that
\* are no longer in the table, unless its fill overlapped a save; an ad the
\* purge deleted may remain, but it has ended (Pub.php 26-52).
StaleAdsRaced ==
  saving = {} =>
    \A k \in Keys \ {"Pub-728"} : \A ad \in Served(k) :
      ad \in Rows \/ ad.end < clock \/ cache[k].raced

\* The ads that a list is for: a dated list those of its format, or all.
MeantFor(w, ad) ==
  CASE w.key = "pub-list-cache" -> TRUE
    [] w.key = "pub-iframe-infomaniak" -> FALSE
    [] OTHER -> ad.kind = "image" /\ ad.dim = w.dim

\* The list a key is named after.
Own == [k \in Keys |->
          [key |-> k, dim |-> IF k = "Pub-728" THEN 1 ELSE IF k = "Pub-300" THEN 2 ELSE None]]

\* A running ad is in every list it is meant for at the latest a day after it was
\* saved, although the events forget no list of the leaderboards, and although
\* fills that began before the save store what they read after it.  One visitor can
\* prevent it: a list of Pub-300 filled for a format that is not sold has no ad, and
\* is what the visitors of 300 are given while it lasts.  Nothing else does, and no
\* such list is ever under another key (PubRepository 103-147, Pub.php 26-52).
AdsShownWithinADay ==
  \A k \in Keys : Present(k) =>
    \/ k = "Pub-300" /\ cache[k].by.dim = None /\ cache[k].ads = {}
    \/ \A ad \in Rows : MeantFor(Own[k], ad) /\ ad.end >= clock =>
         ad \in cache[k].ads \/ clock < savedAt[ad] + Day

\* The key of a format holds only ads of that format, and the other one of the
\* other, whatever format was asked for before (PubRepository 123-137).
FormatsApart ==
  /\ \A ad \in Served("Pub-728") : ad.dim = 1
  /\ \A ad \in Served("Pub-300") : ad.dim = 2

\* "Publicité supprimée avec succès !" (components/admin/pub/index.blade.php):
\* a row no longer in the table is served by no list at all, unless the list
\* was filled across a save or the ad has ended.
DeletedAdsGone ==
  saving = {} =>
    \A k \in Keys : \A ad \in Served(k) :
      ad \in Rows \/ ad.end < clock \/ cache[k].raced

\* ... but for a day at the longest: no list, forgotten by the events or not,
\* filled across the deletion or not, shows a row a day after it left the table,
\* by a deletion, an update or the purge (PubRepository 103-159, Pub.php 26-52,
\* ClearAllCache 29-39).
GoneWithinADay ==
  \A k \in Keys : \A ad \in Served(k) :
    ad \in Rows \/ clock < removedAt[ad] + Day

-----------------------------------------------------------------------------
(* The inductive invariant of PubCacheProofs.                              *)

\* The command has run within the day, and on its hour.
NightsKept ==
  /\ lastRun % Day = 0
  /\ lastRun <= clock /\ clock <= lastRun + Day
  /\ nightly = "purge" => clock = lastRun

\* Since the last purge a row has been saved or has not ended; until the purge
\* of a night, since the one before.
RowsPurged ==
  \A ad \in Rows :
    LET since == IF nightly = "purge" THEN lastRun - Day ELSE lastRun
    IN  since <= ad.end \/ since <= savedAt[ad]

\* What a list may hold if it is shown until the time end.
GoodUntil(w, ads, end) ==
  IF w.key = "pub-iframe-infomaniak"
  THEN \A ad \in ads : end <= ad.end + 2 * Day \/ end <= savedAt[ad] + 2 * Day
  ELSE /\ \A ad \in ads : end <= ad.end + Day /\ MeantFor(w, ad)
       /\ \A ad \in Rows : MeantFor(w, ad) /\ ad.end >= clock =>
            ad \in ads \/ end <= savedAt[ad] + Day

ListsGood ==
  /\ \A k \in Keys : cache[k] # None =>
       /\ cache[k].by.key = k
       /\ cache[k].exp <= clock + Day
       /\ GoodUntil(cache[k].by, cache[k].ads, cache[k].exp)
  /\ \A r \in Req : pc[r] # "idle" =>
       /\ exp[r] <= clock + Day
       /\ pc[r] = "put" => GoodUntil(want[r], got[r], exp[r])

\* The rows shown until the time end are in the table or left it less than a
\* day before that time.
GoneBy(ads, end) ==
  \A ad \in ads : ad \in Rows \/ end <= removedAt[ad] + Day

ListsGone ==
  /\ \A k \in Keys : cache[k] # None => GoneBy(cache[k].ads, cache[k].exp)
  /\ \A r \in Req : pc[r] = "put" => GoneBy(got[r], exp[r])

\* A fill that overlapped no save reads what is there.
Undisturbed ==
  /\ \A r \in Req : pc[r] # "idle" /\ ~overlap[r] =>
       /\ saving = {}
       /\ pc[r] = "put" => \A ad \in got[r] : ad \in Rows \/ ad.end < clock
  /\ saving = {} =>
       \A k \in Keys \ {"Pub-728"} : cache[k] # None /\ ~cache[k].raced =>
         \A ad \in cache[k].ads : ad \in Rows \/ ad.end < clock

\* Invariant under every step, and strong enough to be so.
IInv == TypeOK /\ NightsKept /\ RowsPurged /\ ListsGood /\ ListsGone /\ Undisturbed
=============================================================================
