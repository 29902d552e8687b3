# Camer.be: a TLA+ verification of the site's caches and attached media

This directory models the parts of camerlar12 (the Laravel application behind
the news site camer.be) in which requests share state: the caches that every
page is assembled from, the model events and the nightly command that empty
them, the feeds that visitors click through, and the pictures attached to
articles, ads and events. TLC checks the models on small instances; each of
them is also proved about with TLAPS, for any number of requests and any bounds.

All paths below are relative to `src/`.

## 1. Inventory

The program is a PHP application. A **request** is one PHP process: it makes
its database and cache calls one at a time, keeps nothing in memory afterwards,
and interleaves with every other request at any call. There are no
transactions around a handler and no locks but the one `Cache::flexible` takes
for its refresh. The shared state is the database, the cache store and the
media library's tables. Besides visitors and editors there is one more actor:
`app:clear-all-cache`, which the scheduler starts at 00:25 (`routes/console.php`).

| component | state | operations | what is hard | what makes it correct |
|---|---|---|---|---|
| article repository (`app/Repositories/ArticleRepository.php`, `app/Models/Article.php`) | table `articles`; key `art:version`; lists under `art:v<version>:...`; pages copied under keys of their own | read a list, create/update/delete (write, model event, flush) | the version is the millisecond, it is memoised for a request, and the event runs before the flush | a list read after an acknowledged save has it; a page the event forgets is stale only by a race; copies heal |
| page lists (`FrontEndController`) | keys `front.*` over lists that are themselves remembered or flexible, most under the version, a few under none | show a page | the times to live of the layers add up; a stale list is refreshed behind the answer; a request reads the version once, before its page copies' expiries are fixed | the age of what is shown is bounded; saves are seen in bounded time |
| videos (`VideoRepository`, `app/Models/Video.php`) | table; a list per type, a newest video per type | show, create, update, delete | has-then-get; no event on update; the key is chosen by the type the row has now | a list has exactly the newest hundred videos of its type, until one moves; a list is empty only by a race |
| ads (`PubRepository`, `app/Models/Pub.php`) | table; four lists kept a day | show, save, delete, nightly purge | the clock, the purge that fires no event, the key chosen by the dimension, which a public route takes from anyone | an ad leaves the lists with its deletion, or soon after its end; it is on them within a day; the formats do not mix |
| YouTube lookups (`Helper::getYoutubeApi`) | fresh copy (7 days), rescue copy (for ever), failure and quota marks | look up | a daily quota, failures, concurrent misses | few refused calls; never empty once answered; recovery |
| attached media (`ArticleController`, `PubController`, `EvenementController`) | the row and its collection in spatie/media-library | store, update, destroy | four statements per request, deaths between them, the name under which the old media is sought; the nightly delete, which removes no media | after the last edit the media are those of the row's picture; they do not pile up; those of a row an editor deletes go with it |
| nightly command (`ClearAllCache.php`) | - | cache:clear, then the purges | its two steps interleave with fills | see the ads |
| events (`EvenementRepository`, `Repository`, `Evenement.php`) | table; one list kept a day | show one at random, create/update/delete statement by statement, nightly purge | `random()` of an empty list; the purge fires no event; an update reads the row twice and writes the columns that differ | a wrong list lasts less than a day; what an update says of a column stays until another names it, but for the two places where a write beside it is lost |
| feeds of the site (`video-list`, `author`, `rubrique-article`, `news` components) | a list in the cache for ten minutes (the home page's own time to live), what is shown and counted in the browser | mount, load more, select a video | the list leaves the cache, or is replaced by another visitor's, between the clicks; what is counted is not what is shown; the item above the home page's list is a component that keeps what it was given | no item twice; a click adds and moves nothing |
| pagination of the author's list (`getArticleByUser`) | - | page, page size, a cap of 100 | the last page; sizes of the caller | a walk gives each of the first hundred once |
| partial updates of the other repositories (ads, videos, subsections) | tables | read the row, fill the gaps, write the columns | lost updates | as the events' |
| reference data (countries, sections, subsections, ad types, dimensions) | tables; lists kept a day | read, save | two repositories fill `sousrubrique-cache` with two shapes | not modelled: the races are those of videos and ads, the shapes are columns |
| user accounts (`UserRepository`, `UserController`) | table | create and mail, first login, update | a mail that fails after the row is written | not modelled: nothing is shared between two statements |
| sessions, JWT | library | login, logout | - | not modelled: the library's |
| RSS, sitemaps, Schema.org data, dashboard, statistics, mail, redirections, views | - | read and render | - | not modelled: no state of their own |
| `google-cloud-sdk/` | - | - | - | not modelled: a vendored tool the application does not call |

Interactions: controllers call services, which delegate in one line to the
repositories; a write fires Eloquent's `created`/`updated`/`deleted` events
inside the request, which forget cache keys; the query builder's mass delete of
the nightly command fires none; `cache:clear` empties everything, the version
and the rescue copies included.

`PROJECT.json` lists every hazard at its line, with the properties that cover
it or the reason none does.

## 2. Modules

Reading order, which is also the order of the plan:

1. `ArticleCache` - the versioned list cache; `AcknowledgedReads` - what its
   callers are promised, without a cache; `ArticleCacheRefinement` - the mapping
   between the two; `ArticleCacheProofs` - invariants and refinement.
2. `LayeredPages` - two cache layers and the clock; `AgedPage` - what the reader
   of a page is promised; `LayeredPagesRefinement` - the mapping between the two;
   `LayeredPagesProofs` - invariants and refinement.
3. `YoutubeQuota` - an external service with a quota; `YoutubeQuotaProofs`.
4. `PubCache` - day-long lists, editors' saves and the nightly purge;
   `PubCacheProofs`.
5. `EventCache` - the events' list and the statements of an update;
   `EventCacheProofs`.
6. `AttachedMedia` - rows and their media; `AttachedMediaProofs`.
7. `VideoCache` - lists by type, has-then-get; `VideoCacheProofs`.
8. `SiteFeeds` - lists shown a part at a time; `SiteFeedsProofs`.

Each has an `MC...` module that adds the symmetry (and the rows of `PubCache`).
Each also holds, beside an action, the faulty variants marked *Mutation*: a run
in which a variant replaces the action must violate the property listed with it
in `PROJECT.json`. They are never part of `Next`.

### ArticleCache

The table is its *generation*: the number of writes it has seen; a cached list
is the generation its query read. The keys under one version live the same
life, so one entry per version (`entry[v]`) stands for all of them. `page[p]`
is a key filled from the list without a version (`articles_json`, `rss`,
`home.articles`); `Forgotten` are those `clearArticleCache` names.

| action | code |
|---|---|
| `ReadIndex`, `ReadPage` | a request for a list or for a page (`index`, `AmpController::index`) |
| `VersionHit`, `VersionMiss`, `SampleVersion`, `StoreVersion` | `version()`: a get, and on a miss `now()` and a put |
| `IndexHit`, `IndexMiss`, `Query`, `StoreIndex` | `remember()` |
| `StorePage` | the page's own `Cache::remember` |
| `Write`, `WriteNothing` | the statement; an update that changes nothing fires no event but flushes |
| `ClearArticleCache` | the model event, before |
| `SampleFlush`, `StoreFlush` | `flushCache()` |
| `Leave` | the answer, or the death of the request at any step |
| `ExpireIndex`, `ExpirePage`, `ClearAll`, `Tick` | times to live, `cache:clear`, the millisecond |

`DistinctStamps = TRUE` excludes two calls of `now()` in one millisecond; with
`FALSE` they happen, and the history `reused` names the stamps concerned. `Healed`
says that no query, list, fill or page holds anything but the table.

### LayeredPages

A list is reduced to when it was queried (`asOf`) and how many saves it had seen
(`saw`). `front` is the page's copy, `back[v]` the repository's list under the
version `v`, either *remembered* (it expires `Stale` after it was asked for) or
*flexible* (fresh for `Fresh`, then served and refreshed behind the answer,
gone `Stale` after it was put). A save and its flush are one step here; their
interleavings are `ArticleCache`'s. The version is memoised for a request
(`$versionCache ??=`): `ver[r]` is read by the first list that needs it, which may be
one shown before the page's copy is asked for (`ReadEarly`: `display()` reads the
article at line 163, and the expiries of its copies are fixed at 169 and 179), and
`ReadVersion` takes what is memoised. `Span` bounds the time between the two.
Two kinds of list have a key without a version (`back[0]`), which no save forgets:
*plain* ones (`cache_one_*`, `getTopNews`) and the *guarded* video of a page, where
whatever fails below the page's copy leaves an empty list in it (`Fail`). `Slow`
bounds the time between a query and the put of its result: without such a bound no age
can be promised. `AgedPage` has neither requests nor layers: a page shows nothing, or
the list of one moment (`Snapshot`) that is young enough and has the saves it must
have (`MayShow`). It is mapped to the page's copy while that is kept.

### YoutubeQuota

One boolean per cache entry: `fresh[v]`, `rescue[v]`, `failed[v]`, `blocked`. A
request reads the fresh copy, looks at the marks (`CheckPause`), calls (`CallApi`: an
answer, a body that is not JSON, a 403 - for the quota, or for a key, a referrer or a
rate, which the code does not tell apart -, another error), stores two copies one
after the other (`PutFresh`, `PutRescue`) or a mark (`PutPause`) and falls back on the
rescue copy. `Midnight` gives a new quota (Los Angeles time) and lifts the mark;
`ClearAll` is the nightly command. The history `late` holds the requests that carry a
refusal over midnight, and `carried` tells that one of them has recorded it since.

### PubCache

`clock` counts fractions of a day. A save commits (`Save`) and its event runs
later (`ForgetKeys`): the keys it forgets are those the code forgets, which
does not include `Pub-728` because the event compares a foreign key with 728.
The command first empties the cache (`ClearCache`), then deletes what has ended
(`PurgePubs`). Visitors may ask for any format (`pubs/pubcached/{dimension}` takes any
integer): all but 728 have the key `Pub-300`, and one that is not sold has no foreign
key and stores an empty list there, `by` being the format a list was filled for. The
histories `savedAt` and `removedAt` date the last save of a row's
values and the moment it left the table.

### AttachedMedia

One module for the three controllers; `ByName` and `Lookup` say under which
name the media is added by store and sought by update (`"id"` for ads and
events, `"slug"` for articles). A request writes its row, picks the media,
deletes it, adds the new one; a destroy deletes the media and then the row. The nightly
command deletes ads and events by a query (`Purge`), without the deleting event that
would remove their media. No page shows a media: `getFeaturedImage` returns null unless
the relation is loaded, which nothing does, and the pages show the picture of the row's
own column. `picture` is that column, and the properties compare the media with it. The
collection of a row is a set of media with distinct keys, and `first()` is the one
with the least key. `overlaps` counts the requests on a row that began while
another one was on it, `crossed` tells a delete that was met by another request,
`broken` a request that died.

### VideoCache

`list[t]` is the day's list of a type, the newest `Limit` (100) of its videos as a set,
`one[t]` the newest of them. `moved[t]` holds the videos that updates have moved into or
out of the type since the list was stored, and starts anew with every fill; `due[r]` tells that
a sample has a right to a video. The model
event of an edit runs in a step of its own (`RunEvent`), which forgets the list of the
type the edited row has; an update has no event.

### EventCache

| action | code |
|---|---|
| `ShowCached`, `Ask`, `Query`, `Put` | `getCachedEvenements`: a hit, or the three parts of a miss; `random()` of what was stored (`Outcome`) |
| `Create` | `Repository::create`; the row is inserted and its event is due |
| `Update`, `Find`, `Write` | `EvenementRepository::update` reads the row and fills in what the request leaves out; `Repository::update` reads it again and writes the columns that differ (`Dirty`) |
| `Destroy`, `Delete` | `findById`, then the statement |
| `Forget`, `Finish` | the model event; the answer |
| `Die` | the request ends between any two of these |
| `ClearCache`, `PurgeEvents` | the two statements of the nightly command |
| `Tick` | the clock, in fractions of a day |

`meant[e]` is the row as the requests that named its columns left it: what the
table would be if an update were one statement. It takes every column a request names,
also one that the UPDATE leaves out because the second read had that value already, and
the width with the poster it is computed from, although the two are written one without
the other. `crossed` names the events of which a write fell where an update of them loses it
(`Exposed`): before the update's second read, or between it and its UPDATE if the
request names a column that it found as it wants it.

### SiteFeeds

One visitor looks at one page at a time; `from[v]` is the list that what he sees
was cut from. `OpenVideos`, `OpenSection` and `OpenHome` are the `mount` of
`video-list`, of `author` and `rubrique-article` (the same code under two names)
and of `news`; `MoreVideos`, `MoreSection`, `MoreHome` their `loadMore`;
`SelectVideo` a click on a video. The key of a video page is named by the type
and shared by all its visitors (`feeds`), that of a section page by the ids of
the list (`kept`). `Publish` is a new list given to `mount`, `Save` and `Delete`
are edits of the table, `Refresh`, `ClearCache` and `Tick` the rest of the world. `hero[v]`
is the item above the list: on the home page a nested Livewire component without a
reactive property (`⚡featured-article`), which keeps what it was first given while the
clicks renew the list beneath it. `stray[v]` tells that the list of `v` was
cleared or replaced since it was shown.
`StartWalk` and `NextPage` follow `getArticleByUser` from page to page, with
`PerPage`, `Page` and `Limit` its arithmetic.

## 3. Runs

| run | bounds | shows |
|---|---|---|
| `article_races` | 2 requests, 2 writes, 2 milliseconds, 1 page, stamps may collide | `StalePageRaced`, `VersionFresh`, `ReadsAcknowledgedWrites` |
| `article_heals` | 2 requests, 1 write, 1 page, 2 distinct milliseconds, fairness | the repository implements `AcknowledgedReads` (`KeepsPromise`); pages heal once writing stops (`PagesHeal`), one kind of copy after the other (`HealingKept`) |
| `page_age` | 2 requests, times to live 1, 1 and 2, a slow query and a memoised version of 1 more, 1 save, 4 units, the four kinds of list | `AgeBounded`, `SavesSeenInTime`; the layers implement `AgedPage` (`ShowsAnAgedPage`) |
| `youtube_serves` | 2 processes, 2 videos, quota 1, one midnight, one `cache:clear`, one error (of any kind, a 403 included), one death, fairness | `WastedCallsBounded`, `NeverEmptyAgain`, `PauseEarned`, `Recovers` |
| `pub_lists` | 1 visitor, 1 id, 3 rows, the formats 728, 300 and 600, 2 saves, two days and a half | `StaleAdsRaced`, `FormatsApart`, `DatedAdsBounded`, `IframesBounded`, `AdsShownWithinADay`, `GoneWithinADay` |
| `pub_deleted` | as above, one day | *violation*: a deleted leaderboard is still served |
| `media_by_id` | 3 editors, 5 requests, 1 row, 2 pictures, the nightly delete | `MediaMatchRow`, `MediaBounded`, `NoOrphans` |
| `media_by_slug` | 2 editors, 3 requests, 1 row, 3 pictures, 2 slugs | *violation*: after an update the article has no media named by its slug |
| `video_lists` | 2 visitors, 2 videos, 2 types, lists of 1, 3 edits | `ListsComplete`, `EmptyOnlyByRace` |
| `events` | 1 visitor, 2 editors, 1 event, 2 dates, 3 posters of 2 widths, 3 saves, a day and a half | `ListWrongOnlyByRace`, `WrongForLessThanADay`, `PassedBounded`, `ColumnsKept` |
| `no_events` | as above | *violation*: a page without an event to come fails |
| `feeds` | 2 visitors, 2 items at first and 2 a click, 2 skipped, 3 counted apart, walks up to 5 articles in pages of 0, 3 and 9, lists of 1 or 6, 1 edit, ten minutes | `NoItemTwice`, `MissedOnlyIfLost`, `WalkComplete`, `ButtonAdds` |

The invariants `IInv` of the proofs are not listed with the runs: section 4 proves
them, and what they are for is what the runs check. To look at a change of a module
before its proof, name its `IInv` under `INVARIANTS`.

**Why the bounds suffice.** Every race of these caches is between one fill and one
write: the fill reads the table, the write passes, the fill stores. Two requests with
two writes contain each of them, a second write after the first one was stored
included; a third process only repeats a role (media, where overlaps are counted, has
three). A stamp collides as soon as there are two draws and one value. `page_age`
needs `Front + Stale + Slow` = 4 units, the first age at which the bound could be
broken; a version read before a save and a copy asked for after it fit in half of
them. `pub_lists` needs two days for an iframe to outlive one purge and be caught by
the next, and half a day more. `PubCache` and `EventCache` have one visitor because
two fills of a key differ only in which is stored last, and the saves run beside it;
`events` needs two editors, as a column is lost by two overlapping updates, three
saves for a row to be made and then updated twice, and two posters of one width, so
that one column of a poster is written without the other. `video_lists` needs more
videos than a list takes, and a third edit for a video to be made, moved and deleted.
`feeds` needs two visitors because the key of the videos is shared, a list long enough
for a home page to have a button left after which an item is published and the list
filled again, a shorter one, and pages that the cap of articles cuts. The theorems of
section 4 do not depend on any of these bounds.

**Deadlock** is checked in `article_races`, `article_heals`, `youtube_serves`,
`video_lists` and `pub_deleted`. In the others the bound on the clock, the saves
or the requests is reached and nothing remains to be done.

**Fairness.** `article_heals`: a request that is not killed runs to its end
(weak fairness of each request's own steps; PHP-FPM does not suspend one), and an
entry with a time to live expires. Nobody is obliged to visit or to save.
`youtube_serves`: in addition visitors come back (strong fairness of a visit to
each video, because a process may be busy whenever one arrives) and the
half-hour mark of a failure expires. `Recovers` makes no claim for the day whose
quota is used up or that a 403 has given away.

## 4. Proofs

Every theorem is about `Spec` of its module, for any sets of requests, rows, keys and
values and any bounds, from the assumptions the module names: that bounds are natural
numbers, that `None` is no value, and for `YoutubeQuota` that the processes are
finitely many. None of the properties is inductive; for each module an `IInv` is, at
the end of the module it is about. It is carried over a step one group of conjuncts at
a time, with one leaf per action.

`ArticleCacheProofs` proves `TypeOK`, `VersionFresh`,
`ReadsAcknowledgedWrites`, `StalePageRaced` and the action property `HealingKept`. `IInv`
adds:

* `Bounded`: nothing cached is newer than the table;
* `StampsDrawn`, `PendingStampsUnused`: a version that was drawn once and is
  not stored yet is known to nobody else - the reason a flush starts with no
  entry under its version;
* `CurrentVersionFresh`, `MemoFresh`: under a version drawn once there is, and
  a fill in flight will put there, nothing older than what was acknowledged when
  the version was stored or read (`AtLeast` speaks of the entry and of the fills
  about to store one, which is what makes it inductive);
* `UndisturbedReaders`, `PagesOfSavers`: a reader that overlapped no write began
  after all that is acknowledged, and between the model event and the flush a
  forgotten page can only come back from a disturbed reader - which is what
  the order event-then-flush costs, and what `StalePageRaced` states.

Its theorem `Implements` is the refinement: with `DistinctStamps`, `Spec`
implies `KeepsPromise`. Initial states map to initial states, and each action to
one action of `AcknowledgedReads` or to a stutter: `ReadIndex` is a read that
begins, the end of `remember()` its answer, the statement of a save its
publication, the end of the flush its acknowledgement. The answer's step needs
`IInv`, which says that the list found is not older than the read.

Three theorems are the safety half of `PagesHeal`, for colliding milliseconds too.
`HealingIsKept`: while the table does not change, old lists are gone from the
queries, then from the versions, then from the fills of pages, then from the pages,
and none comes back to a stage whose sources are rid of them, although a request may
still read, fill or clear under any version. It rests on two lemmas on who can come
to hold what (`NewHolders`, `NewCopies`) and on the `LocalsOK` of `IInv`.
`HealedUntilNextWrite`: once nothing is old, nothing is until the next write.
`StepsAreHealing`: each step that the fairness promises takes what it is about out of
its stage. That those steps are enabled and therefore taken is left to the run.

`LayeredPagesProofs` proves `TypeOK`, `AgeBounded`, `SavesSeenInTime` and the
refinement for any times to live. `AgeInv` says that *the expiry of a copy* bounds its
age (`exp <= asOf + ...`), for the repository's list, for what a request is about to
store and for the page's copy; and that for every save `n`, each of them, of a list
under a version, either has seen `n` or ends at most `Front + Span` after it
(`Covers`). The second part rests on the fact that `Cache::remember` computes the
expiry before it runs its callback: a request that read its version before the save
asked for its copy at most `Span` after that read (`MemoOK`), and the deadline of the
copy counts from there. Under a key without a version nothing but the age bounds what
is missed. The mutation `StoreFrontLate`, which computes it after, breaks it.
`SnapshotInv` says that every copy is the list of one moment; it is carried over a
step by saying where each copy comes from (`HeldFrom`, `BackFrom`, `FrontFrom`). With
both, `Implements` maps a step that stores the page's copy to `Show` (or to `Vanish`,
if it is stored too late to be kept), `cache:clear` to `Vanish`, the save and the
clock to their own, and all others to a stutter.

`YoutubeQuotaProofs` proves `TypeOK`, `WastedCallsBounded`, `NeverEmptyAgain` and
`PauseEarned`. Of the refused calls of a day, those nobody has recorded are in the
hands of a request or lost with one (`RefusalsHeld`, while the mark is not set); once
it is, the requests already past the pause are all that can add to them. The two sets
of requests are disjoint, so that their sizes add up to the number of processes at
most, and each `cache:clear` starts this account again. A refusal in a request's hands
is one of today's refused calls or is known as late (`RefusalsDated`), which is what
the pause it opens inherits.

`PubCacheProofs` proves all seven invariants of `pub_lists`, for any set of integers
as the formats visitors ask for. `ListsGood` bounds what a list may hold by *when it
ends*, for the keys and for the fills on their way; `NightsKept` and `RowsPurged` say
that a row in the table has been saved or had not ended at the purge before, which is
what bounds the iframe, whose query has no date; `ListsGone` dates the rows of a list
by the moment they left the table, which bounds what the first finding below costs to
a day; `Undisturbed` is the reason a fill that met no save names no row that is gone.

`EventCacheProofs` proves `TypeOK`, `WrongForLessThanADay`, `PassedBounded`,
`ListWrongOnlyByRace` and `ColumnsKept`. `ListsGood` is as for the ads; `ListsWhole`
says that a list no save met is that of the table while no event is due, also the
one a request has yet to put. `OnlyNamed` is the heart of the last property: unless a write
crossed it, an update is about to write none but columns its request names, and those it
leaves out hold in the row what it wants of them. That the width stays the poster's
(`EditorsTyped`, `MeantTyped`) follows.

`AttachedMediaProofs` proves `TypeOK` and `NoOrphans` whatever the media are named by,
and `MediaBounded` and `MediaMatchRow` for those named by the id of their row, as those of
ads and events are (`ById`), the nightly delete at any step included. For articles it proves
the other side of the second finding, `UpdatesStay`: where updates look for the slug, what an
update added is removed by no later one. `Room` counts the media there will be:
those there are and one for each request that may still add one, less one if some
request will first delete a media that is still there - the credit that keeps
`MediaBounded` true in the middle of updates that overlap or die. `AloneToDelete` and
`OneAfterTheOther` follow a delete and a sequence of requests that nothing crosses.

`VideoCacheProofs` proves `TypeOK`, `ListsComplete` and `EmptyOnlyByRace`. A list
that no edit is about to forget is the newest `Limit` videos of its type while none has moved
since it was filled (`ListsWhole`), and so is what a fill that met no edit is about to store
(`FillsWhole`).

`SiteFeedsProofs` proves `TypeOK`, `NoItemTwice`, `MissedOnlyIfLost`, `WalkComplete`
and the action property `ButtonAdds` for lists of any length. `CutFromList` ties what
a component shows, and its button, to the list it was last given; `ListsDistinct` says
that every list, wherever it is kept, names an item once; `HeroFromList`, that a home
page whose list was not replaced has its first item above it. `ListsAtHand` follows
the expiry of a list against the time its visitor opened the page. `WalksInOrder` says
that an undisturbed walk has the part of the table up to its last page; the arithmetic
of the pages rests on `CeilFacts` (a rounded-up quotient) and `PartsJoin` (two
adjoining parts of a list make one).

Only model-checked: what holds under fairness (`PagesHeal`, `Recovers`). TLAPS has no
rule for `ENABLED`, without which a weakly fair step cannot be shown to be taken;
of `PagesHeal` everything else is proved. `MediaBounded` and `MediaMatchRow` are false of
the media of articles.

## 5. Findings

Each is the counterexample of a run marked *violation*.

* `app/Models/Pub.php:45` (and 29, 37): the events compare the foreign key of the
  dimension with 728 and never forget `Pub-728`.
* `app/Http/Controllers/api/V1/ArticleController.php:148`: the media of an article is
  added by an update under its id, while the update looks for it under the slug (132),
  as `store` names it (67) and a comment of `ArticleResource` (55) has it. No later
  update finds it, and each adds one more. Readers do not see it, as the pages show
  the picture of the row; files and rows pile up.
* `app/Repositories/EvenementRepository.php:84`: `random()` of the empty
  collection throws, after that collection was stored for a day, although
  `PubRepository.php:180` knows that it does.

Met while modelling, and without a run of their own:

* `app/Helpers/Helper.php:486`: the rescue copy "sans expiration" is emptied
  every night by `app:clear-all-cache`; `NeverEmptyAgain` excuses it.
* `app/Helpers/Helper.php:497`: the end of the pause is computed when the refusal is
  recorded, so a refusal received just before midnight and recorded just after it
  gives away the new day; `PauseEarned` excuses it (`carried`).
* `app/Helpers/Helper.php:492`: any 403 is taken for a used-up quota, so a refused key or
  referrer silences every video until midnight.
* `app/Repositories/PubRepository.php:128`: a visit to `pubs/pubcached/{dimension}`
  with a format that is not sold stores an empty list under `Pub-300`, which visitors
  of 300 are given for up to a day; `AdsShownWithinADay` names it as the only
  exception.
* `app/Console/Commands/ClearAllCache.php:39` and 43: the nightly deletes fire no deleting
  event, so the media of the ads and events they delete stay for good.
* `app/Repositories/EvenementRepository.php:60` and `Repository.php:57`: of two
  overlapping updates of one event, one can put back a column that it does not name,
  when the other writes it between its two reads, or lose one that it names, when the
  other writes it between the second read and the UPDATE that leaves it out;
  `crossed` tells these from the rest.
* `app/Models/Video.php:34`: there is no `updated` event, and `deleted` forgets the
  list of the present type only, so that a video that was retyped and then deleted
  stays on the list of its first type until it is next filled; `ListsComplete` names these
  videos (`moved`).
* `components/⚡author.blade.php`, `⚡rubrique-article.blade.php`: the feed starts at
  the seventh item of the list and the item above it is the first, so items two to
  six are not in the component. On the home page the feed starts at the second item while
  the button counts from the tenth ("9 articles déjà affichés", `⚡news` 89), so it goes
  with up to eight items left. This is arithmetic of the constants, and no property
  repeats it.
* `components/⚡news.blade.php:117`: after `home.articles` was filled again with a new first
  article, a click cuts the feed from the new list while the component above keeps the old
  first article: the new one is shown nowhere and the old one twice. `NoItemTwice` has it
  as its only exception.
* `components/⚡video-list.blade.php:35`: the key is shared by all visitors of a
  type, so a click may show the list another visitor was given.
* `app/Console/Commands/ClearAllCache.php:43`: a date without an hour is stored as
  its midnight, so the events of a day are purged 25 minutes into it.

## 6. What the models leave out

The content of rows beyond what a property tells apart; queries (order, limits,
joins) other than their conditions on type, dimension and date and the hundred newest
videos; rendering,
validation, authentication; the cache driver's own failures (a put that fails
raises, which is the death of the request). Hit counters. The one-hour copy a
browser keeps of an AMP page (`CacheResponse`), which adds to the bound of
`AgeBounded`. The conversions of a
picture by the media library.

Not modelled at all, with the reason in `PROJECT.json`: the reference data (the
races of their day-long lists are those of `VideoCache` and `PubCache`), user
accounts and sessions (one statement or one library call per request), the
administrators' forms, redirections, RSS, sitemaps, Schema.org data, statistics
and mail (they read and render, or send once). `google-cloud-sdk/`, which is by far
most of the files and lines of the repository, is a vendored Python tool that no
code of the application imports or starts: nothing of it is part of the system.

## 7. Plan

What is left, in the order of its worth:

1. The sidebar of the home page, which is read again after a click by components
   that keep what they were first given, as a page of `SiteFeeds`.
2. `sousrubrique-cache` with its two writers, if rows get columns.
