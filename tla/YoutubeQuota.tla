---------------------------- MODULE YoutubeQuota ----------------------------
(***************************************************************************)
(* Helper::getYoutubeApi (app/Helpers/Helper.php): the answers of the      *)
(* YouTube API, kept in the cache with a rescue copy, behind a pause that  *)
(* opens on a 403, whatever its reason (until midnight in Los Angeles), or *)
(* on another failure (30 minutes, per video).  Requests make their cache  *)
(* and API calls one at a time and interleave.                             *)
(***************************************************************************)
EXTENDS Integers, FiniteSets

CONSTANTS
  Req,           \* PHP request processes
  Video,         \* YouTube identifiers
  Quota,         \* calls the API grants in a (Pacific) day
  MaxDays,       \* bound on the midnights
  MaxClears,     \* bound on the runs of app:clear-all-cache
  MaxErrors,     \* bound on the failures and 403 of the API for another reason than the quota
  MaxDeaths,     \* bound on the requests killed
  None

Replies == {"ok", "null", "refused", "error"}
Answers == {"fresh", "rescue", "empty", "null"}

ASSUME YoutubeQuotaAssumption ==
  /\ Quota \in Nat
  /\ MaxClears \in Nat
  /\ MaxDays \in Nat /\ MaxErrors \in Nat /\ MaxDeaths \in Nat
  /\ IsFiniteSet(Req)
  /\ None \notin Video \cup Replies \cup Answers

VARIABLES
  fresh,    \* fresh[v]: "yt_<v>" holds an answer
  rescue,   \* rescue[v]: "yt_<v>_stale" holds an answer
  failed,   \* failed[v]: "yt_<v>_failed" is set
  blocked,  \* "yt_quota_blocked" is set
  used,     \* calls granted by the API since midnight
  days, clears, errors, deaths,
  pc, vid, reply, answer,  \* the requests
  hadCopy,  \* history: v had a rescue copy when r began, and neither a cache:clear
            \* nor a body that is not JSON has taken it since
  wasted,   \* history: calls answered 403 since midnight
  lost,     \* history: requests that died holding such a refusal, since midnight
  late,     \* history: the requests that hold a refusal of the day before
  carried   \* history: such a refusal has been recorded since midnight

cache   == <<fresh, rescue, failed, blocked>>
world   == <<used, days, clears, errors, deaths>>
request == <<pc, vid, reply, answer>>
calls   == <<wasted, lost>>
carry   == <<late, carried>>
history == <<hadCopy, calls, carry>>
vars    == <<cache, world, request, history>>

Pcs     == {"idle", "pause", "call", "put", "putRescue", "putPause",
            "fallback", "done"}

TypeOK ==
  /\ fresh \in [Video -> BOOLEAN] /\ rescue \in [Video -> BOOLEAN]
  /\ failed \in [Video -> BOOLEAN] /\ blocked \in BOOLEAN
  /\ used \in 0 .. Quota
  /\ days \in 0 .. MaxDays /\ clears \in 0 .. MaxClears
  /\ errors \in 0 .. MaxErrors
  /\ deaths \in 0 .. MaxDeaths
  /\ pc \in [Req -> Pcs]
  /\ vid \in [Req -> Video \cup {None}]
  /\ reply \in [Req -> Replies \cup {None}]
  /\ answer \in [Req -> Answers \cup {None}]
  /\ \A r \in Req : pc[r] = "done" => answer[r] # None
  /\ hadCopy \in [Req -> BOOLEAN]
  /\ wasted \in Nat /\ lost \in Nat
  /\ late \subseteq Req /\ carried \in BOOLEAN

Init ==
  /\ fresh = [v \in Video |-> FALSE] /\ rescue = [v \in Video |-> FALSE]
  /\ failed = [v \in Video |-> FALSE] /\ blocked = FALSE
  /\ used = 0 /\ days = 0 /\ clears = 0 /\ errors = 0 /\ deaths = 0
  /\ pc = [r \in Req |-> "idle"]
  /\ vid = [r \in Req |-> None]
  /\ reply = [r \in Req |-> None]
  /\ answer = [r \in Req |-> None]
  /\ hadCopy = [r \in Req |-> FALSE]
  /\ wasted = 0 /\ lost = 0
  /\ late = {} /\ carried = FALSE

Goto(r, here, there) ==
  /\ pc[r] = here
  /\ pc' = [pc EXCEPT ![r] = there]

-----------------------------------------------------------------------------
\* A page shows the video: Cache::get("yt_<v>") answers at once or not at all.
Visit(r, v) ==
  /\ Goto(r, "idle", IF fresh[v] THEN "done" ELSE "pause")
  /\ vid' = [vid EXCEPT ![r] = v]
  /\ answer' = [answer EXCEPT ![r] = IF fresh[v] THEN "fresh" ELSE None]
  /\ hadCopy' = [hadCopy EXCEPT ![r] = rescue[v]]
  /\ UNCHANGED <<cache, world, reply, calls, carry>>

\* Mutation: the pause for a 403 is not looked at.
PausedByFailureOnly(v) == failed[v]

Paused(v) == blocked \/ failed[v]

CheckPause(r) ==
  /\ Goto(r, "pause", IF Paused(vid[r]) THEN "fallback" ELSE "call")
  /\ UNCHANGED <<cache, world, vid, reply, answer, history>>

\* A 403: the quota is used up, or the key, the referrer or the rate is not allowed.
Refuse(r) ==
  /\ reply' = [reply EXCEPT ![r] = "refused"]
  /\ wasted' = wasted + 1

\* Http::timeout(5)->get(...)->throw()->json().
CallApi(r) ==
  /\ UNCHANGED <<cache, days, clears, deaths, vid, answer, hadCopy, lost, carry>>
  /\ \/ /\ Goto(r, "call", "put")
        /\ used < Quota
        /\ \E a \in {"ok", "null"} : reply' = [reply EXCEPT ![r] = a]
        /\ used' = used + 1
        /\ UNCHANGED <<errors, wasted>>
     \/ /\ Goto(r, "call", "putPause")
        /\ used = Quota
        /\ Refuse(r)
        /\ UNCHANGED <<used, errors>>
     \/ /\ Goto(r, "call", "putPause")
        /\ errors < MaxErrors
        /\ errors' = errors + 1
        /\ \/ Refuse(r)
           \/ reply' = [reply EXCEPT ![r] = "error"] /\ UNCHANGED wasted
        /\ UNCHANGED used

\* Cache::put("yt_<v>", $data, 7 days).  null in the cache reads as absent.
PutFresh(r) ==
  /\ Goto(r, "put", "putRescue")
  /\ fresh' = [fresh EXCEPT ![vid[r]] = reply[r] = "ok"]
  /\ UNCHANGED <<rescue, failed, blocked, world, vid, reply, answer, history>>

\* Cache::forever("yt_<v>_stale", $data), then return $data.
PutRescue(r) ==
  /\ Goto(r, "putRescue", "done")
  /\ rescue' = [rescue EXCEPT ![vid[r]] = reply[r] = "ok"]
  /\ answer' = [answer EXCEPT ![r] = IF reply[r] = "ok" THEN "fresh" ELSE "null"]
  /\ hadCopy' = [q \in Req |-> hadCopy[q] /\ (reply[r] = "ok" \/ vid[q] # vid[r])]
  /\ reply' = [reply EXCEPT ![r] = None]
  /\ UNCHANGED <<fresh, failed, blocked, world, vid, calls, carry>>

\* The catch: a 403 opens the pause for every video, anything else for this one.
PutPause(r) ==
  /\ Goto(r, "putPause", "fallback")
  /\ blocked' = (blocked \/ reply[r] = "refused")
  /\ failed' = [failed EXCEPT ![vid[r]] = @ \/ reply[r] = "error"]
  /\ reply' = [reply EXCEPT ![r] = None]
  /\ carried' = (carried \/ r \in late)
  /\ late' = late \ {r}
  /\ UNCHANGED <<fresh, rescue, world, vid, answer, hadCopy, calls>>

\* Mutation: the default of Cache::get is left out.
FallbackNoDefault(r) ==
  /\ Goto(r, "fallback", "done")
  /\ answer' = [answer EXCEPT ![r] = IF rescue[vid[r]] THEN "rescue" ELSE None]
  /\ UNCHANGED <<cache, world, vid, reply, history>>

\* Cache::get("yt_<v>_stale", ['items' => []])
Fallback(r) ==
  /\ Goto(r, "fallback", "done")
  /\ answer' = [answer EXCEPT ![r] = IF rescue[vid[r]] THEN "rescue" ELSE "empty"]
  /\ UNCHANGED <<cache, world, vid, reply, history>>

Reset(r) ==
  /\ pc' = [pc EXCEPT ![r] = "idle"]
  /\ vid' = [vid EXCEPT ![r] = None]
  /\ reply' = [reply EXCEPT ![r] = None]
  /\ answer' = [answer EXCEPT ![r] = None]
  /\ hadCopy' = [hadCopy EXCEPT ![r] = FALSE]

Respond(r) ==
  /\ pc[r] = "done"
  /\ Reset(r)
  /\ UNCHANGED <<cache, world, calls, carry>>

\* A request is killed; a refusal it has not recorded is lost.
Die(r) ==
  /\ pc[r] \notin {"idle", "done"}
  /\ deaths < MaxDeaths
  /\ deaths' = deaths + 1
  /\ Reset(r)
  /\ lost' = IF pc[r] = "putPause" /\ reply[r] = "refused" THEN lost + 1 ELSE lost
  /\ late' = late \ {r}
  /\ UNCHANGED <<cache, used, days, clears, errors, wasted, carried>>

-----------------------------------------------------------------------------
\* Mutation: the rescue copy gets the same time to live as the answer.
ExpireFreshAndRescue(v) ==
  /\ fresh[v]
  /\ fresh' = [fresh EXCEPT ![v] = FALSE]
  /\ rescue' = [rescue EXCEPT ![v] = FALSE]
  /\ UNCHANGED <<failed, blocked, world, request, history>>

\* Seven days have passed.
ExpireFresh(v) ==
  /\ fresh[v]
  /\ fresh' = [fresh EXCEPT ![v] = FALSE]
  /\ UNCHANGED <<rescue, failed, blocked, world, request, history>>

\* Mutation: the mark of a failure has no time to live.
ExpireFailedNever(v) == FALSE /\ UNCHANGED vars

\* Thirty minutes have passed.
ExpireFailed(v) ==
  /\ failed[v]
  /\ failed' = [failed EXCEPT ![v] = FALSE]
  /\ UNCHANGED <<fresh, rescue, blocked, world, request, history>>

Refused == {r \in Req : pc[r] = "putPause" /\ reply[r] = "refused"}

\* Mutation: the pause ends a day after the midnight it should end at.
MidnightAfterNext ==
  /\ days < MaxDays
  /\ days' = days + 1
  /\ used' = 0
  /\ wasted' = 0
  /\ lost' = 0
  /\ late' = Refused
  /\ carried' = FALSE
  /\ UNCHANGED <<cache, clears, errors, deaths, request, hadCopy>>

\* Midnight in Los Angeles: the API grants a new quota, and the pause, whose
\* time to live ends at that moment, ends with it.
Midnight ==
  /\ days < MaxDays
  /\ days' = days + 1
  /\ used' = 0
  /\ blocked' = FALSE
  /\ wasted' = 0
  /\ lost' = 0
  /\ late' = Refused
  /\ carried' = FALSE
  /\ UNCHANGED <<fresh, rescue, failed, clears, errors, deaths, request, hadCopy>>

\* cache:clear of app:clear-all-cache.
ClearAll ==
  /\ clears < MaxClears
  /\ clears' = clears + 1
  /\ fresh' = [v \in Video |-> FALSE]
  /\ rescue' = [v \in Video |-> FALSE]
  /\ failed' = [v \in Video |-> FALSE]
  /\ blocked' = FALSE
  /\ hadCopy' = [r \in Req |-> FALSE]
  /\ UNCHANGED <<used, days, errors, deaths, request, calls, carry>>

Step(r) == \/ CheckPause(r) \/ CallApi(r) \/ PutFresh(r) \/ PutRescue(r)
           \/ PutPause(r) \/ Fallback(r) \/ Respond(r)

Next ==
  \/ \E r \in Req : \/ \E v \in Video : Visit(r, v)
                    \/ Step(r) \/ Die(r)
  \/ \E v \in Video : ExpireFresh(v) \/ ExpireFailed(v)
  \/ Midnight \/ ClearAll

Spec == Init /\ [][Next]_vars

\* Visitors keep coming, requests run to their end, marks expire.
Fairness ==
  /\ \A r \in Req : WF_vars(Step(r))
  /\ \A v \in Video : /\ SF_vars(\E r \in Req : Visit(r, v))
                      /\ WF_vars(ExpireFailed(v))

FairSpec == Spec /\ Fairness

-----------------------------------------------------------------------------
\* However many videos and visitors there are, a day costs at most one refused
\* call per request process: once one of them has recorded the 403 the others
\* can only finish the call they had already begun (Helper.php 470-498).
\* A process killed between the refusal and its record costs one call more, and
\* a cache:clear, which forgets the record, as many calls again.
WastedCallsBounded == wasted <= Cardinality(Req) * (1 + clears) + lost

\* No visitor is shown an empty answer for a video that had a rescue copy when
\* the page was asked for, also when other requests fail meanwhile, unless a
\* cache:clear or a body that is not JSON has taken the copy in between.
NeverEmptyAgain ==
  \A r \in Req : pc[r] = "done" /\ hadCopy[r] => answer[r] \in {"fresh", "rescue"}

\* Every video is silenced together only on a day on which the API has answered a
\* call 403, for its quota or for another reason the code does not look at, unless a
\* 403 received before midnight was recorded after it: the end of the pause is
\* computed when the 403 is recorded, and the whole new day is then given away
\* with its quota (Helper.php 492-498).
PauseEarned == blocked => wasted > 0 \/ carried

\* A failure does not silence a video for good: as long as visitors ask for it,
\* it has a fresh answer again and again, or the day's quota or a 403 stands in the way.
Recovers == \A v \in Video : []<>(fresh[v] \/ used = Quota \/ blocked)

-----------------------------------------------------------------------------
(* The inductive invariant of YoutubeQuotaProofs.                          *)

\* A request that has begun is about a video.
AboutAVideo == \A r \in Req : pc[r] # "idle" => vid[r] \in Video

\* A copy a request may count on is there.
CopyKept ==
  \A r \in Req : hadCopy[r] =>
    /\ pc[r] # "idle" /\ rescue[vid[r]]
    /\ pc[r] = "done" => answer[r] \in {"fresh", "rescue"}

Calling == {r \in Req : pc[r] = "call"}
\* Until a refusal is recorded, each one is in the hands of a request; from then
\* on, a request that has passed the pause can bring one more.
RefusalsHeld ==
  /\ ~blocked => wasted <= Cardinality(Refused) + Cardinality(Req) * clears + lost
  /\ blocked => wasted + Cardinality(Calling) <= Cardinality(Req) * (1 + clears) + lost

\* A refusal in a request's hands is one of today, or of the day before.
RefusalsDated ==
  /\ late \subseteq Refused
  /\ \A r \in Refused : wasted > 0 \/ r \in late

\* Invariant under every step, and strong enough to be so.
IInv == /\ TypeOK /\ AboutAVideo /\ CopyKept
        /\ RefusalsHeld /\ RefusalsDated /\ PauseEarned
=============================================================================
