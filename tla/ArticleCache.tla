---------------------------- MODULE ArticleCache ----------------------------
(***************************************************************************)
(* The versioned article cache of app/Repositories/ArticleRepository.php,  *)
(* the model events of app/Models/Article.php and the pages that keep a    *)
(* copy of the list under a key of their own (AmpController, RssController, *)
(* the home feed component).                                               *)
(*                                                                         *)
(* A request (one PHP process) makes its database and cache calls one at a *)
(* time, and the calls of different requests interleave.  The content of   *)
(* the articles table is abstracted to the number of writes it has seen    *)
(* (its generation): a cached list is the generation its query read.       *)
(*                                                                         *)
(* A versioned entry is stored under "art:v<stamp>:index", where <stamp>   *)
(* is the millisecond clock kept under "art:version".  Every other key     *)
(* given to remember (per user, slug or rubric) lives the same life, so    *)
(* one entry per stamp is modelled.                                        *)
(***************************************************************************)
EXTENDS Integers

CONSTANTS
  Req,             \* PHP request processes
  Pages,           \* unversioned keys filled from getArticles() or index()
  Forgotten,       \* the keys of Pages that clearArticleCache forgets
  DistinctStamps,  \* TRUE: no two calls of now() give the same millisecond
  MaxWrites,       \* bound on the writes to the articles table
  MaxTime,         \* bound on the clock
  None             \* an absent cache entry, an unset variable

ASSUME ArticleCacheAssumption ==
  /\ Forgotten \subseteq Pages
  /\ DistinctStamps \in BOOLEAN
  /\ MaxWrites \in Nat
  /\ MaxTime \in Nat
  /\ None \notin Nat \cup Pages
  /\ None \notin Pages

VARIABLES
  db,       \* generation of the articles table
  clock,    \* now()->getTimestampMs()
  ver,      \* the entry "art:version", or None
  entry,    \* entry[v]: the list stored under "art:v<v>:index", or None
  page,     \* page[p]: the list stored under the key p, or None
  pc,       \* pc[r]: the next call request r makes
  target,   \* target[r]: the page r is filling, None when it wants the list
  memo,     \* memo[r]: $versionCache of the repository instance of r
  stamp,    \* stamp[r]: the clock value r is about to store
  got,      \* got[r]: the generation r read, or (a writer) produced
  acked,    \* history: newest generation whose write has returned
  sampled,  \* history: the stamps drawn so far
  reused,   \* history: the stamps drawn more than once
  began,    \* history: began[r] = acked when r began
  overlap,  \* history: overlap[r]: a write was in progress while r was reading
  raced     \* history: raced[p] = overlap of the request that stored page p

shared  == <<db, clock, ver, entry, page>>
request == <<pc, target, memo, stamp, got>>
history == <<acked, sampled, reused, began, overlap, raced>>
vars    == <<shared, request, history>>

Stamp == 0 .. MaxTime

ReadPcs  == {"version", "stamp", "putVersion", "lookup", "query",
             "store", "storePage"}
WritePcs == {"forget", "flush", "putFlush"}
Pcs      == {"idle", "done"} \cup ReadPcs \cup WritePcs

TypeOK ==
  /\ db \in Nat
  /\ clock \in Stamp
  /\ ver \in Stamp \cup {None}
  /\ entry \in [Stamp -> Nat \cup {None}]
  /\ page \in [Pages -> Nat \cup {None}]
  /\ pc \in [Req -> Pcs]
  /\ target \in [Req -> Pages \cup {None}]
  /\ memo \in [Req -> Stamp \cup {None}]
  /\ stamp \in [Req -> Stamp \cup {None}]
  /\ got \in [Req -> Nat \cup {None}]
  /\ acked \in Nat
  /\ sampled \in SUBSET Stamp
  /\ reused \in SUBSET Stamp
  /\ began \in [Req -> Nat]
  /\ overlap \in [Req -> BOOLEAN]
  /\ raced \in [Pages -> BOOLEAN]

Init ==
  /\ db = 0
  /\ clock = 0
  /\ ver = None
  /\ entry = [v \in Stamp |-> None]
  /\ page = [p \in Pages |-> None]
  /\ pc = [r \in Req |-> "idle"]
  /\ target = [r \in Req |-> None]
  /\ memo = [r \in Req |-> None]
  /\ stamp = [r \in Req |-> None]
  /\ got = [r \in Req |-> None]
  /\ acked = 0
  /\ sampled = {}
  /\ reused = {}
  /\ began = [r \in Req |-> 0]
  /\ overlap = [r \in Req |-> FALSE]
  /\ raced = [p \in Pages |-> FALSE]

Goto(r, here, there) ==
  /\ pc[r] = here
  /\ pc' = [pc EXCEPT ![r] = there]

Writing == \E r \in Req : pc[r] \in WritePcs

-----------------------------------------------------------------------------
(***************************************************************************)
(* Reading.  A request for the list starts at version(); a request for a   *)
(* page looks its own key up first and fills it from the list.             *)
(***************************************************************************)

\* index(), getArticles(), getNewsForRss(), laUne(), getFlashArticles().
ReadIndex(r) ==
  /\ Goto(r, "idle", "version")
  /\ began' = [began EXCEPT ![r] = acked]
  /\ overlap' = [overlap EXCEPT ![r] = Writing]
  /\ UNCHANGED <<shared, target, memo, stamp, got,
                 acked, sampled, reused, raced>>

\* Cache::remember('articles_json', ...), 'rss', 'home.articles': a page in
\* the cache is served as it is, a page that is not sends for the list.
ReadPage(r, p) ==
  /\ pc[r] = "idle"
  /\ target' = [target EXCEPT ![r] = p]
  /\ began' = [began EXCEPT ![r] = acked]
  /\ \/ /\ page[p] # None
        /\ pc' = [pc EXCEPT ![r] = "done"]
        /\ got' = [got EXCEPT ![r] = page[p]]
        /\ UNCHANGED overlap
     \/ /\ page[p] = None
        /\ pc' = [pc EXCEPT ![r] = "version"]
        /\ overlap' = [overlap EXCEPT ![r] = Writing]
        /\ UNCHANGED got
  /\ UNCHANGED <<shared, memo, stamp, acked, sampled, reused, raced>>

\* version(): Cache::rememberForever finds the stamp.
VersionHit(r) ==
  /\ Goto(r, "version", "lookup")
  /\ ver # None
  /\ memo' = [memo EXCEPT ![r] = ver]
  /\ UNCHANGED <<shared, target, stamp, got, history>>

VersionMiss(r) ==
  /\ Goto(r, "version", "stamp")
  /\ ver = None
  /\ UNCHANGED <<shared, target, memo, stamp, got, history>>

\* now()->getTimestampMs(), drawn by version() and by flushCache().
DrawStamp(r) ==
  /\ DistinctStamps => clock \notin sampled
  /\ stamp' = [stamp EXCEPT ![r] = clock]
  /\ sampled' = sampled \cup {clock}
  /\ reused' = IF clock \in sampled THEN reused \cup {clock} ELSE reused

\* Mutation: the version is counted up instead of drawn from the clock.
PutVersionCounted(r) ==
  /\ ver' = IF ver = None THEN 0 ELSE ver + 1
  /\ stamp' = [stamp EXCEPT ![r] = None]

\* Mutation: Cache::add, which keeps a version that is already there.
PutVersionAdd(r) ==
  /\ ver' = IF ver = None THEN stamp[r] ELSE ver
  /\ stamp' = [stamp EXCEPT ![r] = None]

\* Cache::forever(VERSION_KEY, ...) with the stamp drawn before.
PutVersion(r) ==
  /\ ver' = stamp[r]
  /\ stamp' = [stamp EXCEPT ![r] = None]

SampleVersion(r) ==
  /\ Goto(r, "stamp", "putVersion")
  /\ DrawStamp(r)
  /\ UNCHANGED <<shared, target, memo, got, acked, began, overlap, raced>>

StoreVersion(r) ==
  /\ Goto(r, "putVersion", "lookup")
  /\ PutVersion(r)
  /\ memo' = [memo EXCEPT ![r] = stamp[r]]
  /\ UNCHANGED <<db, clock, entry, page, target, got,
                 acked, sampled, reused, began, overlap, raced>>

\* Where a request goes once it holds the list.
AfterList(r) == IF target[r] = None THEN "done" ELSE "storePage"

IndexHit(r) ==
  /\ Goto(r, "lookup", AfterList(r))
  /\ entry[memo[r]] # None
  /\ got' = [got EXCEPT ![r] = entry[memo[r]]]
  /\ UNCHANGED <<shared, target, memo, stamp, history>>

IndexMiss(r) ==
  /\ Goto(r, "lookup", "query")
  /\ entry[memo[r]] = None
  /\ UNCHANGED <<shared, target, memo, stamp, got, history>>

\* Mutation: the query is sent to a replica that lags behind by one write.
QueryReplica(r) ==
  /\ Goto(r, "query", "store")
  /\ got' = [got EXCEPT ![r] = IF db = 0 THEN 0 ELSE db - 1]
  /\ UNCHANGED <<shared, target, memo, stamp, history>>

\* published()->limit(100)->get()
Query(r) ==
  /\ Goto(r, "query", "store")
  /\ got' = [got EXCEPT ![r] = db]
  /\ UNCHANGED <<shared, target, memo, stamp, history>>

\* Mutation: the version is looked up again when the list is stored.
StoreIndexLate(r) ==
  /\ Goto(r, "store", AfterList(r))
  /\ entry' = IF ver = None THEN entry ELSE [entry EXCEPT ![ver] = got[r]]
  /\ UNCHANGED <<db, clock, ver, page, target, memo, stamp, got, history>>

StoreIndex(r) ==
  /\ Goto(r, "store", AfterList(r))
  /\ entry' = [entry EXCEPT ![memo[r]] = got[r]]
  /\ UNCHANGED <<db, clock, ver, page, target, memo, stamp, got, history>>

StorePage(r) ==
  /\ Goto(r, "storePage", "done")
  /\ page' = [page EXCEPT ![target[r]] = got[r]]
  /\ raced' = [raced EXCEPT ![target[r]] = overlap[r]]
  /\ UNCHANGED <<db, clock, ver, entry, target, memo, stamp, got,
                 acked, sampled, reused, began, overlap>>

-----------------------------------------------------------------------------
(***************************************************************************)
(* Writing: create, update and delete commit the row, the model event runs *)
(* clearArticleCache, and only then does the repository flush the version. *)
(***************************************************************************)

\* The row is written; every reader in progress now overlaps a write.
Write(r) ==
  /\ Goto(r, "idle", "forget")
  /\ db < MaxWrites
  /\ db' = db + 1
  /\ got' = [got EXCEPT ![r] = db + 1]
  /\ overlap' = [q \in Req |-> overlap[q] \/ pc[q] \in ReadPcs]
  /\ UNCHANGED <<clock, ver, entry, page, target, memo, stamp,
                 acked, sampled, reused, began, raced>>

\* update() with values the row already has: no UPDATE statement, no
\* "updated" event, but the flush all the same.
WriteNothing(r) ==
  /\ Goto(r, "idle", "flush")
  /\ overlap' = [q \in Req |-> overlap[q] \/ pc[q] \in ReadPcs]
  /\ UNCHANGED <<shared, target, memo, stamp, got,
                 acked, sampled, reused, began, raced>>

\* Mutation: the keys are misspelt, as 'cahe_amp_index_' is.
ClearArticleCacheMisspelt(r) ==
  /\ Goto(r, "forget", "flush")
  /\ UNCHANGED <<shared, target, memo, stamp, got, history>>

\* Article::clearArticleCache, from created, updated and deleted.
ClearArticleCache(r) ==
  /\ Goto(r, "forget", "flush")
  /\ page' = [p \in Pages |-> IF p \in Forgotten THEN None ELSE page[p]]
  /\ UNCHANGED <<db, clock, ver, entry, target, memo, stamp, got, history>>

SampleFlush(r) ==
  /\ Goto(r, "flush", "putFlush")
  /\ DrawStamp(r)
  /\ UNCHANGED <<shared, target, memo, got, acked, began, overlap, raced>>

\* Mutation: the write returns without a flush.
StoreFlushSkipped(r) ==
  /\ Goto(r, "putFlush", "done")
  /\ stamp' = [stamp EXCEPT ![r] = None]
  /\ acked' = IF got[r] # None /\ got[r] > acked THEN got[r] ELSE acked
  /\ UNCHANGED <<shared, target, memo, got,
                 sampled, reused, began, overlap, raced>>

\* Cache::forever; $versionCache = null; the write returns to the editor.
StoreFlush(r) ==
  /\ Goto(r, "putFlush", "done")
  /\ PutVersion(r)
  /\ memo' = [memo EXCEPT ![r] = None]
  /\ acked' = IF got[r] # None /\ got[r] > acked THEN got[r] ELSE acked
  /\ UNCHANGED <<db, clock, entry, page, target, got,
                 sampled, reused, began, overlap, raced>>

-----------------------------------------------------------------------------
(***************************************************************************)
(* Around the requests: the end of a request and its death, expiry, the    *)
(* scheduled cache:clear, the passing of time.                             *)
(***************************************************************************)

Leave(r) ==
  /\ pc' = [pc EXCEPT ![r] = "idle"]
  /\ target' = [target EXCEPT ![r] = None]
  /\ memo' = [memo EXCEPT ![r] = None]
  /\ stamp' = [stamp EXCEPT ![r] = None]
  /\ got' = [got EXCEPT ![r] = None]
  /\ began' = [began EXCEPT ![r] = 0]
  /\ overlap' = [overlap EXCEPT ![r] = FALSE]
  /\ UNCHANGED <<shared, acked, sampled, reused, raced>>

\* The response is sent and the process forgets the request.
Respond(r) == pc[r] = "done" /\ Leave(r)

\* max_execution_time, a lost cache connection, a killed worker.
Die(r) == pc[r] \notin {"idle", "done"} /\ Leave(r)

\* Mutation: the list is stored with rememberForever.
ExpireIndexNever(v) == FALSE /\ UNCHANGED vars

ExpireIndex(v) ==
  /\ entry[v] # None
  /\ entry' = [entry EXCEPT ![v] = None]
  /\ UNCHANGED <<db, clock, ver, page, request, history>>

ExpirePage(p) ==
  /\ page[p] # None
  /\ page' = [page EXCEPT ![p] = None]
  /\ UNCHANGED <<db, clock, ver, entry, request, history>>

\* cache:clear of app:clear-all-cache, daily at 00:25.
ClearAll ==
  /\ ver' = None
  /\ entry' = [v \in Stamp |-> None]
  /\ page' = [p \in Pages |-> None]
  /\ UNCHANGED <<db, clock, request, history>>

Tick ==
  /\ clock < MaxTime
  /\ clock' = clock + 1
  /\ UNCHANGED <<db, ver, entry, page, request, history>>

Read(r) ==
  \/ VersionHit(r) \/ VersionMiss(r) \/ SampleVersion(r) \/ StoreVersion(r)
  \/ IndexHit(r) \/ IndexMiss(r) \/ Query(r) \/ StoreIndex(r) \/ StorePage(r)

Save(r) == ClearArticleCache(r) \/ SampleFlush(r) \/ StoreFlush(r)

Expire == \/ \E v \in Stamp : ExpireIndex(v)
          \/ \E p \in Pages : ExpirePage(p)

Next ==
  \/ \E r \in Req : \/ ReadIndex(r)
                    \/ \E p \in Pages : ReadPage(r, p)
                    \/ Write(r) \/ WriteNothing(r)
                    \/ Read(r) \/ Save(r) \/ Respond(r) \/ Die(r)
  \/ Expire \/ ClearAll \/ Tick

Spec == Init /\ [][Next]_vars

\* A request that is not killed runs to its end, and a stored value does not
\* outlive its time to live.  Nothing obliges anybody to visit or to write.
Fairness ==
  /\ \A r \in Req : WF_vars(Read(r) \/ Save(r) \/ Respond(r))
  /\ \A v \in Stamp : WF_vars(ExpireIndex(v))
  /\ \A p \in Pages : WF_vars(ExpirePage(p))

FairSpec == Spec /\ Fairness

-----------------------------------------------------------------------------
(***************************************************************************)
(* Properties.                                                             *)
(***************************************************************************)

\* Whatever the order in which visitors and editors store "art:version", and
\* whenever the nightly clear removes it, the version in force never leads to
\* a list older than a write already acknowledged to its editor - provided its
\* millisecond was drawn once only (flushCache and version, 47-59).
VersionFresh ==
  ver # None /\ ver \notin reused /\ entry[ver] # None => entry[ver] >= acked

\* A request that consults the list after an editor's save has returned gets
\* that save, also when it kept its version in $versionCache while other
\* editors flushed, and when it goes on to store what it got under a page key
\* (versionCache, 36 and 55; remember, 44).
ReadsAcknowledgedWrites ==
  \A r \in Req :
    pc[r] \in {"storePage", "done"} /\ memo[r] # None /\ memo[r] \notin reused
    => got[r] >= began[r]

\* clearArticleCache is enough for the keys it names, except when a request
\* was filling one of them during a save: a page older than an acknowledged
\* write was stored by a request that overlapped a write (Article.php 45-62
\* runs before the flush of ArticleRepository.php 101, 112 and 166).
StalePageRaced ==
  \A p \in Forgotten :
    page[p] # None /\ page[p] < acked /\ reused = {} => raced[p]

\* Once the editors stop writing, every page heals: the raced copies, those
\* of keys nobody forgets and those left by a save that died before its flush
\* all expire, and only the present table can refill them.
PagesHeal == <>[](\A p \in Pages : page[p] \in {None, db})

\* Who or what still holds an old table: a request about to store the list it
\* queried, a stored list, a request about to store a page, a stored page.
StaleQueries == {r \in Req : pc[r] = "store" /\ got[r] # db}
StaleLists   == {v \in Stamp : entry[v] \notin {None, db}}
StaleFills   == {r \in Req : pc[r] = "storePage" /\ got[r] # db}
StalePages   == {p \in Pages : page[p] \notin {None, db}}

Healed == StaleQueries = {} /\ StaleLists = {} /\ StaleFills = {} /\ StalePages = {}

\* Healing goes one way, each copy after its source: while the table does not
\* change nobody comes to hold an old list, then none is stored again, then no
\* page is filled from one, then no page grows old - whichever of the versions
\* old and new the requests read, reuse or clear meanwhile (remember and version
\* of ArticleRepository, 42-59; the page keys filled from it).
HealingKept ==
  [][db' = db =>
       /\ StaleQueries' \subseteq StaleQueries
       /\ StaleQueries = {} => StaleLists' \subseteq StaleLists
       /\ StaleQueries = {} /\ StaleLists = {} => StaleFills' \subseteq StaleFills
       /\ StaleFills = {} => StalePages' \subseteq StalePages]_vars

\* Every step the fairness promises takes what it is about out of its stage.
StepsHeal ==
  [][/\ \A r \in Req : Read(r) =>
          /\ r \in StaleQueries => r \notin StaleQueries'
          /\ r \in StaleFills => r \notin StaleFills'
     /\ \A v \in Stamp : ExpireIndex(v) => v \notin StaleLists'
     /\ \A p \in Pages : ExpirePage(p) => p \notin StalePages']_vars

-----------------------------------------------------------------------------
(***************************************************************************)
(* The inductive invariant behind the three safety properties.             *)
(***************************************************************************)

\* Which locals are set where.
LocalsOK ==
  \A r \in Req :
    /\ stamp[r] # None <=> pc[r] \in {"putVersion", "putFlush"}
    /\ pc[r] \in {"lookup", "query", "store", "storePage"} => memo[r] # None
    /\ memo[r] # None => pc[r] \in {"lookup", "query", "store", "storePage", "done"}
    /\ pc[r] \in {"store", "storePage", "forget"} => got[r] # None
    /\ pc[r] = "done" /\ memo[r] # None => got[r] # None
    /\ pc[r] = "storePage" => target[r] # None
    /\ pc[r] = "idle" => got[r] = None

\* Nothing is newer than the table, nothing acknowledged is newer either.
Bounded ==
  /\ acked <= db
  /\ \A r \in Req : began[r] <= acked /\ (got[r] # None => got[r] <= db)
  /\ \A v \in Stamp : entry[v] # None => entry[v] <= db
  /\ \A p \in Pages : page[p] # None => page[p] <= db

\* Every stamp in use was drawn.
StampsDrawn ==
  /\ ver # None => ver \in sampled
  /\ \A r \in Req : /\ memo[r] # None => memo[r] \in sampled
                    /\ stamp[r] # None => stamp[r] \in sampled
  /\ \A v \in Stamp : entry[v] # None => v \in sampled

\* A stamp drawn once and not stored yet is known to nobody else.
PendingStampsUnused ==
  \A r \in Req :
    stamp[r] # None /\ stamp[r] \notin reused =>
      /\ ver # stamp[r]
      /\ entry[stamp[r]] = None
      /\ \A q \in Req : /\ memo[q] # stamp[r]
                        /\ q # r => stamp[q] # stamp[r]

\* v can lead a request to nothing older than n.
AtLeast(v, n) ==
  /\ entry[v] # None => entry[v] >= n
  /\ \A q \in Req : pc[q] = "store" /\ memo[q] = v => got[q] >= n

CurrentVersionFresh == ver # None /\ ver \notin reused => AtLeast(ver, acked)

MemoFresh ==
  \A r \in Req : memo[r] # None /\ memo[r] \notin reused
                => AtLeast(memo[r], began[r])

\* A reader that overlaps no write began after all that is acknowledged.
UndisturbedReaders ==
  \A r \in Req : pc[r] \in ReadPcs /\ ~overlap[r] => ~Writing /\ began[r] = acked

\* Between the forget and the flush only a disturbed reader stores a page.
PagesOfSavers ==
  \A r \in Req : pc[r] \in {"flush", "putFlush"} /\ got[r] # None =>
    \A p \in Forgotten : page[p] # None => raced[p]

Typed     == TypeOK /\ LocalsOK
StampsInv == Bounded /\ StampsDrawn /\ PendingStampsUnused
FreshInv  == CurrentVersionFresh /\ MemoFresh /\ ReadsAcknowledgedWrites
PagesInv  == UndisturbedReaders /\ PagesOfSavers /\ StalePageRaced

\* Invariant under every step, and strong enough to be so.
IInv == Typed /\ StampsInv /\ FreshInv /\ PagesInv
=============================================================================
