---------------------------- MODULE LayeredPages ----------------------------
(***************************************************************************)
(* A page list kept twice: FrontEndController remembers for Front units    *)
(* what a repository list, itself cached for Stale units, answers.  The    *)
(* repository list is remembered (getRubriqueArticles, getOneVideo) or     *)
(* flexible (getSameRubrique, getMostReadRubriqueByCountry, ...): fresh    *)
(* for Fresh units, then served stale and refreshed after the response.    *)
(* Its key carries the version that every save draws anew (ArticleCache    *)
(* models that protocol in detail; here a save and its flush are one step).*)
(* A request reads the version once, at the first list that needs it, and  *)
(* asks for all its lists under it.  The blocks of a section               *)
(* (getOneRubriqueArticles), the archives (getTopNews) and the video of a  *)
(* page (getOneVideo) are remembered under a key without a version, which  *)
(* no save forgets.  The video's is guarded: whatever fails below the      *)
(* page's copy, the page keeps an empty list in its place.                 *)
(*                                                                         *)
(* What a list is is abstracted to when it was queried and which saves it  *)
(* had seen.  Hit counts and the dates of publication change a list with   *)
(* time only, without a save.                                              *)
(***************************************************************************)
EXTENDS Integers

CONSTANTS
  Req,       \* PHP request processes
  Front,     \* time to live of the page's copy
  Fresh,     \* a flexible list is fresh so long,
  Stale,     \* and the list of the repository lives so long
  Slow,      \* a query and the put of its result are at most so far apart,
  Span,      \* and so are the version's read and the question for a later copy
  MaxTime,   \* bound on the clock
  MaxSaves,  \* bound on the saves
  None

ASSUME LayeredPagesAssumption ==
  /\ Front \in Nat /\ Fresh \in Nat /\ Stale \in Nat /\ Slow \in Nat
  /\ Span \in Nat
  /\ MaxTime \in Nat /\ MaxSaves \in Nat
  /\ None \notin Nat
  /\ None \notin [asOf : Nat, saw : Nat, failed : BOOLEAN, exp : Nat]
  /\ None \notin [asOf : Nat, saw : Nat, created : Nat, exp : Nat]

VARIABLES
  kind,    \* the list: "remember" or "flexible" under a version; "plain" without
           \* one, as the "guarded" one of the video
  clock,
  saves,   \* the number of saves, which is also the version in force
  front,   \* the page's copy [asOf, saw, failed, exp], or None
  back,    \* back[v]: the list under version v [asOf, saw, created, exp], or None;
           \* back[0] is that of the key without a version
  pc, fexp, due, asOf, saw, \* the requests
  ver,     \* ver[r]: the version r has memoised, or None
  readAt,  \* readAt[r]: when it read it, until it asks for the copy
  failed,  \* failed[r]: the list of r is the empty one, for something has failed
  savedAt  \* history: savedAt[n]: the time of the n-th save

store   == <<front, back>>
request == <<pc, fexp, ver, readAt, due, asOf, saw, failed>>
vars    == <<kind, clock, saves, store, request, savedAt>>

Pcs == {"idle", "begun", "version", "lookup", "query", "putBack", "putFront", "putStale",
        "refresh", "putAgain"}

Kinds == {"remember", "flexible", "plain", "guarded"}

\* The key of the repository's list carries the version.
Versioned == kind \in {"remember", "flexible"}

TypeOK ==
  /\ kind \in Kinds
  /\ clock \in Nat /\ saves \in 0 .. MaxSaves
  /\ front \in [asOf : Nat, saw : Nat, failed : BOOLEAN, exp : Nat] \cup {None}
  /\ back \in [0 .. MaxSaves -> [asOf : Nat, saw : Nat, created : Nat, exp : Nat]
                                \cup {None}]
  /\ pc \in [Req -> Pcs]
  /\ fexp \in [Req -> Nat] /\ due \in [Req -> Nat]
  /\ ver \in [Req -> 0 .. MaxSaves \cup {None}] /\ readAt \in [Req -> Nat]
  /\ asOf \in [Req -> Nat] /\ saw \in [Req -> Nat]
  /\ failed \in [Req -> BOOLEAN]
  /\ savedAt \in [1 .. MaxSaves -> Nat]

Init ==
  /\ kind \in Kinds
  /\ clock = 0 /\ saves = 0
  /\ front = None /\ back = [v \in 0 .. MaxSaves |-> None]
  /\ pc = [r \in Req |-> "idle"]
  /\ fexp = [r \in Req |-> 0] /\ due = [r \in Req |-> 0]
  /\ ver = [r \in Req |-> None] /\ readAt = [r \in Req |-> 0]
  /\ asOf = [r \in Req |-> 0] /\ saw = [r \in Req |-> 0]
  /\ failed = [r \in Req |-> FALSE]
  /\ savedAt = [n \in 1 .. MaxSaves |-> 0]

Goto(r, here, there) ==
  /\ pc[r] = here
  /\ pc' = [pc EXCEPT ![r] = there]

Kept(copy) == copy # None /\ clock < copy.exp

\* A copy whose time has come is none.
Unexpired(copy, now) == IF copy # None /\ copy.exp <= now THEN None ELSE copy

\* A request that has answered needs no list any more, one that ends nothing.
ForgetList(r) ==
  /\ fexp' = [fexp EXCEPT ![r] = 0] /\ due' = [due EXCEPT ![r] = 0]
  /\ asOf' = [asOf EXCEPT ![r] = 0] /\ saw' = [saw EXCEPT ![r] = 0]
  /\ failed' = [failed EXCEPT ![r] = FALSE]

Forget(r) ==
  /\ ForgetList(r)
  /\ ver' = [ver EXCEPT ![r] = None] /\ readAt' = [readAt EXCEPT ![r] = 0]

-----------------------------------------------------------------------------
\* A list the request shows before this one reads the version, which is memoised: the
\* article itself (display), the list above on the page, a block of another page's copy.
ReadEarly(r) ==
  /\ Versioned
  /\ Goto(r, "idle", "begun")
  /\ ver' = [ver EXCEPT ![r] = saves] /\ readAt' = [readAt EXCEPT ![r] = clock]
  /\ UNCHANGED <<kind, clock, saves, store, fexp, due, asOf, saw, failed, savedAt>>

\* Cache::remember('front....', now()->add...(), ...): a hit is the answer; a miss
\* has fixed the expiry before anything is queried.
AskFront(r) ==
  /\ ~Kept(front)
  /\ pc[r] \in {"idle", "begun"}
  /\ pc' = [pc EXCEPT ![r] = "version"]
  /\ fexp' = [fexp EXCEPT ![r] = clock + Front]
  /\ readAt' = [readAt EXCEPT ![r] = 0]
  /\ UNCHANGED <<kind, clock, saves, store, ver, due, asOf, saw, failed, savedAt>>

\* The list is asked for under the version v; one that is remembered has its expiry
\* computed first.
LookUnder(r, v) ==
  /\ Goto(r, "version", "lookup")
  /\ ver' = [ver EXCEPT ![r] = v]
  /\ due' = [due EXCEPT ![r] = IF kind # "flexible" THEN clock + Stale ELSE 0]
  /\ UNCHANGED <<kind, clock, saves, store, fexp, readAt, asOf, saw, failed, savedAt>>

\* Mutation: the save does not change the version its lists are kept under.
ReadVersionOld(r) == LookUnder(r, 0)

\* version(): the version in force, unless the request has read one before.
Version(r) == IF ver[r] = None THEN saves ELSE ver[r]

ReadVersion(r) == LookUnder(r, IF Versioned THEN Version(r) ELSE 0)

\* A flexible list that is no longer fresh is refreshed after the answer.
MustRefresh(copy) == kind = "flexible" /\ copy.created + Fresh <= clock

\* The list is there and is shown, fresh or not.
BackHit(r) ==
  /\ pc[r] = "lookup"
  /\ Kept(back[ver[r]])
  /\ pc' = [pc EXCEPT ![r] = IF MustRefresh(back[ver[r]]) THEN "putStale"
                                                        ELSE "putFront"]
  /\ asOf' = [asOf EXCEPT ![r] = back[ver[r]].asOf]
  /\ saw' = [saw EXCEPT ![r] = back[ver[r]].saw]
  /\ due' = [due EXCEPT ![r] = 0]
  /\ UNCHANGED <<kind, clock, saves, store, fexp, ver, readAt, failed, savedAt>>

BackMiss(r) ==
  /\ Goto(r, "lookup", "query")
  /\ ~Kept(back[ver[r]])
  /\ UNCHANGED <<kind, clock, saves, store, fexp, ver, readAt, due, asOf, saw, failed,
                 savedAt>>

Run(r, here, there) ==
  /\ Goto(r, here, there)
  /\ asOf' = [asOf EXCEPT ![r] = clock]
  /\ saw' = [saw EXCEPT ![r] = saves]
  /\ UNCHANGED <<kind, clock, saves, store, fexp, ver, readAt, due, failed, savedAt>>

Query(r) == Run(r, "query", "putBack")

\* Anything below the page's copy throws, the read of a cache, the query or a put:
\* the empty list is what the page stores.
Fail(r) ==
  /\ kind = "guarded"
  /\ pc[r] \in {"version", "lookup", "query", "putBack"}
  /\ pc' = [pc EXCEPT ![r] = "putFront"]
  /\ asOf' = [asOf EXCEPT ![r] = clock] /\ saw' = [saw EXCEPT ![r] = saves]
  /\ failed' = [failed EXCEPT ![r] = TRUE]
  /\ due' = [due EXCEPT ![r] = 0]
  /\ UNCHANGED <<kind, clock, saves, store, fexp, ver, readAt, savedAt>>

\* flexible counts the time to live from the put and notes it, remember from the
\* question.
FillUnder(v, r) ==
  back' = [back EXCEPT ![v] =
             IF kind = "flexible"
               THEN [asOf |-> asOf[r], saw |-> saw[r],
                     created |-> clock, exp |-> clock + Stale]
               ELSE [asOf |-> asOf[r], saw |-> saw[r],
                     created |-> 0, exp |-> due[r]]]

\* Mutation: the key is made with the version of the moment of the put.
FillNewest(r) == FillUnder(saves, r)

Fill(r) == FillUnder(ver[r], r)

StoreBack(r) ==
  /\ Goto(r, "putBack", "putFront")
  /\ Fill(r)
  /\ due' = [due EXCEPT ![r] = 0]
  /\ UNCHANGED <<kind, clock, saves, front, fexp, ver, readAt, asOf, saw, failed,
                 savedAt>>

\* The page's copy is stored and the page answered.
StoreCopy(r, exp) ==
  /\ front' = [asOf |-> asOf[r], saw |-> saw[r], failed |-> failed[r], exp |-> exp]
  /\ UNCHANGED <<kind, clock, saves, back, savedAt>>

\* Mutation: the copy lives from the moment it is stored.
StoreFrontLate(r) ==
  /\ Goto(r, "putFront", "idle")
  /\ StoreCopy(r, clock + Front)
  /\ Forget(r)

StoreFront(r) ==
  /\ Goto(r, "putFront", "idle")
  /\ StoreCopy(r, fexp[r])
  /\ Forget(r)

\* As StoreFront, and the refresh of the list that was shown waits behind it.
StoreFrontStale(r) ==
  /\ Goto(r, "putStale", "refresh")
  /\ StoreCopy(r, fexp[r])
  /\ ForgetList(r)
  /\ UNCHANGED <<ver, readAt>>

\* The deferred refresh, under the key of the version read before the answer. (It
\* takes a lock and gives up when the list was refreshed meanwhile: Drop.)
Requery(r) == Run(r, "refresh", "putAgain")

StoreAgain(r) ==
  /\ Goto(r, "putAgain", "idle")
  /\ Fill(r)
  /\ Forget(r)
  /\ UNCHANGED <<kind, clock, saves, front, savedAt>>

\* The request is killed or its query fails, unguarded, or its refresh finds the lock taken
\* or the list refreshed by another one.
Drop(r) ==
  /\ pc[r] # "idle"
  /\ pc' = [pc EXCEPT ![r] = "idle"]
  /\ Forget(r)
  /\ UNCHANGED <<kind, clock, saves, store, savedAt>>

-----------------------------------------------------------------------------
\* A save commits and draws a new version; no front key is forgotten, nor is a key
\* without a version (a video's save draws none, but its newest-video key is as deaf).
Save ==
  /\ saves < MaxSaves
  /\ saves' = saves + 1
  /\ savedAt' = [savedAt EXCEPT ![saves + 1] = clock]
  /\ UNCHANGED <<kind, clock, store, request>>

\* cache:clear
ClearAll ==
  /\ front' = None
  /\ back' = [v \in 0 .. MaxSaves |-> None]
  /\ UNCHANGED <<kind, clock, saves, request, savedAt>>

\* Time passes and takes what has expired; a request does not dwell on a result, nor
\* on a version, for ever.
Tick ==
  /\ clock < MaxTime
  /\ \A r \in Req : pc[r] = "begun" => clock < readAt[r] + Span
  /\ \A r \in Req : pc[r] \in {"putBack", "putAgain"} => clock < asOf[r] + Slow
  /\ clock' = clock + 1
  /\ front' = Unexpired(front, clock + 1)
  /\ back' = [v \in 0 .. MaxSaves |-> Unexpired(back[v], clock + 1)]
  /\ UNCHANGED <<kind, saves, request, savedAt>>

Next ==
  \/ \E r \in Req : \/ ReadEarly(r) \/ AskFront(r) \/ ReadVersion(r)
                    \/ BackHit(r) \/ BackMiss(r)
                    \/ Query(r) \/ Fail(r) \/ StoreBack(r)
                    \/ StoreFront(r) \/ StoreFrontStale(r)
                    \/ Requery(r) \/ StoreAgain(r) \/ Drop(r)
  \/ Save \/ ClearAll \/ Tick

Spec == Init /\ [][Next]_vars

-----------------------------------------------------------------------------
\* So old a list can be, and so old a save that it misses.
Age == Front + Stale + Slow
Delay == IF Versioned THEN Front + Span ELSE Age

\* What a page shows, from its copy, is less than Front + Stale + Slow old: the
\* times to live of the two layers add up, however the requests interleave.  The
\* empty list of a failure adds nothing: it is gone Front after what failed
\* (FrontEndController 77-132, 169-221; ArticleRepository 324-421, 475-504).
AgeBounded ==
  Kept(front) => clock - front.asOf < IF front.failed THEN Front ELSE Age

\* A save is on the page Front after it was made, whatever the age of the list
\* under the version before, but for the requests that had read the version before
\* the save and asked for the page's copy after it (FrontEndController 163 and 169,
\* 205 and 213): those give it Span more.  Under a key without a version it may be
\* missed for as long as both copies live (ArticleRepository 302-318, 493-505).
SavesSeenInTime ==
  Kept(front) =>
    \A n \in 1 .. saves : savedAt[n] + Delay <= clock => n <= front.saw

-----------------------------------------------------------------------------
\* The inductive invariant: each copy's expiry bounds its age ...
BackInv ==
  \A v \in 0 .. MaxSaves :
    back[v] # None => /\ back[v].exp <= back[v].asOf + Stale + Slow
                      /\ v <= back[v].saw

\* ... the save n is in what the request r is about to store, or what it stores
\* ends Front + Span after that save at the latest ...
Covers(r, upTo) ==
  \A n \in 1 .. saves : n <= upTo \/ fexp[r] <= savedAt[n] + Front + Span

\* ... since the version it has memoised was in force Span ago ...
MemoOK(r) ==
  ver[r] # None =>
    /\ ver[r] <= saves
    /\ pc[r] = "begun" =>
         /\ clock \in readAt[r] .. readAt[r] + Span
         /\ \A n \in 1 .. saves : n <= ver[r] \/ readAt[r] <= savedAt[n]
    /\ Versioned /\ pc[r] \in {"version", "lookup", "query", "putBack"} =>
         Covers(r, ver[r])

RequestOK(r) ==
  /\ fexp[r] <= clock + Front /\ due[r] <= clock + Stale
  /\ pc[r] = "idle" => ver[r] = None
  /\ pc[r] \in {"begun", "lookup", "query", "putBack", "putStale", "refresh",
                "putAgain"} => ver[r] # None
  /\ pc[r] \in {"putBack", "putAgain"} =>
       /\ clock <= asOf[r] + Slow
       /\ due[r] <= asOf[r] + Stale
       /\ ver[r] <= saw[r]
  /\ pc[r] \in {"putBack", "putFront", "putStale"} => fexp[r] <= asOf[r] + Age
  /\ Versioned /\ pc[r] \in {"putFront", "putStale"} => Covers(r, saw[r])
  /\ failed[r] => pc[r] = "putFront" /\ fexp[r] <= asOf[r] + Front

MemoInv == \A r \in Req : MemoOK(r)

RequestInv == \A r \in Req : RequestOK(r)

\* ... and so it is for the page's copy.
FrontInv ==
  front # None =>
    /\ front.exp <= clock + Front
    /\ front.exp <= front.asOf + Age
    /\ front.failed => front.exp <= front.asOf + Front
    /\ Versioned =>
         \A n \in 1 .. saves : n <= front.saw \/ front.exp <= savedAt[n] + Front + Span

AgeInv == TypeOK /\ BackInv /\ MemoInv /\ RequestInv /\ FrontInv

\* The list queried at the time at, with the saves up to upTo, is the list of that
\* time: it has the saves made before and none made after.
Snapshot(at, upTo) ==
  /\ at <= clock /\ upTo <= saves
  /\ \A n \in 1 .. saves : IF n <= upTo THEN savedAt[n] <= at ELSE at <= savedAt[n]

\* No save is in the future, and every copy, and what every request is about to store, is such a list.
SnapshotInv ==
  /\ \A n \in 1 .. saves : savedAt[n] <= clock
  /\ \A v \in 0 .. MaxSaves : back[v] # None => Snapshot(back[v].asOf, back[v].saw)
  /\ \A r \in Req : pc[r] \in {"putBack", "putFront", "putStale", "putAgain"} =>
       Snapshot(asOf[r], saw[r])
  /\ front # None => Snapshot(front.asOf, front.saw)

\* Invariant under every step, and enough for a step of the page.
IInv == AgeInv /\ SnapshotInv
=============================================================================
