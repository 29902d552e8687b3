----------------------------- MODULE VideoCache -----------------------------
(***************************************************************************)
(* The video lists: app/Repositories/VideoRepository.php and the model     *)
(* events of app/Models/Video.php.  A list is kept a day under a key per   *)
(* type; getVideoWeek, getCamerVideo and getRandomVideo test the key, fill *)
(* it if it is absent and read it again.  Creating and deleting a video    *)
(* forgets the list of its type; an update fires no event.                 *)
(***************************************************************************)
EXTENDS Naturals, FiniteSets

CONSTANTS
  Req,      \* visitors' requests
  Video,    \* ids of videos, the greater the newer
  Type,     \* "Camer" and "Sopie"
  Limit,    \* how many videos a list takes: 100
  MaxEdits, \* bound on the edits
  None

ASSUME VideoCacheAssumption ==
  /\ Video \subseteq Nat /\ Limit \in Nat \ {0} /\ MaxEdits \in Nat
  /\ None \notin Type \cup Video /\ \A vs \in SUBSET Video : vs # None

VARIABLES
  video,   \* video[v]: the type of the row v (its other columns are left out), or None
  last,    \* the last id that was given
  list,    \* list[t]: what "Video<t>" holds, a set of ids, or None
  one,     \* one[t]: what "OneVideo<t>" holds: an id, or None
  edits,   \* number of edits begun
  event,   \* edits whose model event has not run: event[n] = the type, or None
  pc, kind, want, got,     \* the requests
  answer,  \* answer[r]: what r, which asked for a sample, has read last; the others
           \* answer what the cache held, or what they stored
  overlap, \* history: overlap[r]: an edit was in progress while r was filling a list
  raced,   \* history: raced[t] = overlap of the request that stored list[t]
  moved,   \* history: moved[t]: the videos that updates have moved into or out of
           \* type t since list[t] was stored, if it is there
  due      \* history: due[r]: r, which asks for a sample, began outside any edit;
           \* there has been a video of its type ever since; and the list of that
           \* type has not left the cache since, nor was the one r read filled
           \* across an edit or before a move

table   == <<video, last>>
store   == <<table, list, one>>
editors == <<edits, event>>
request == <<pc, kind, want, got, answer>>
history == <<overlap, raced, moved, due>>
vars    == <<store, editors, request, history>>

Kinds == {"all", "sample", "one"}

\* orderByDesc('idvideo')->take(n)
Newest(vs, n) == {v \in vs : Cardinality({w \in vs : w > v}) < n}

Videos(t) == Newest({v \in Video : video[v] = t}, Limit)

TypeOK ==
  /\ video \in [Video -> Type \cup {None}] /\ last \in Nat
  /\ list \in [Type -> {None} \cup SUBSET Video] /\ one \in [Type -> Video \cup {None}]
  /\ edits \in 0 .. MaxEdits
  /\ event \in [1 .. MaxEdits -> Type \cup {None}]
  /\ pc \in [Req -> {"idle", "has", "ask", "query", "put", "get", "done"}]
  /\ kind \in [Req -> Kinds \cup {None}] /\ want \in [Req -> Type \cup {None}]
  /\ \A r \in Req : pc[r] # "idle" => kind[r] \in Kinds /\ want[r] \in Type
  /\ got \in [Req -> SUBSET Video] /\ answer \in [Req -> SUBSET Video]
  /\ overlap \in [Req -> BOOLEAN] /\ raced \in [Type -> BOOLEAN]
  /\ moved \in [Type -> SUBSET Video]
  /\ due \in [Req -> BOOLEAN]

Init ==
  /\ video = [v \in Video |-> None]
  /\ last = 0
  /\ list = [t \in Type |-> None] /\ one = [t \in Type |-> None]
  /\ edits = 0 /\ event = [n \in 1 .. MaxEdits |-> None]
  /\ pc = [r \in Req |-> "idle"]
  /\ kind = [r \in Req |-> None] /\ want = [r \in Req |-> None]
  /\ got = [r \in Req |-> {}] /\ answer = [r \in Req |-> {}]
  /\ overlap = [r \in Req |-> FALSE] /\ raced = [t \in Type |-> FALSE]
  /\ moved = [t \in Type |-> {}]
  /\ due = [r \in Req |-> FALSE]

-----------------------------------------------------------------------------
Editing == \E n \in 1 .. MaxEdits : event[n] # None

Goto(r, here, there) ==
  /\ pc[r] = here
  /\ pc' = [pc EXCEPT ![r] = there]

\* findAll ("all"), getVideoWeek and its kind ("sample"), getOneVideo ("one").
Visit(r, k, t) ==
  /\ Goto(r, "idle", IF k = "sample" THEN "has" ELSE "ask")
  /\ kind' = [kind EXCEPT ![r] = k]
  /\ want' = [want EXCEPT ![r] = t]
  /\ due' = [due EXCEPT ![r] = k = "sample" /\ Videos(t) # {} /\ ~Editing]
  /\ UNCHANGED <<store, editors, got, answer, overlap, raced, moved>>

\* Mutation: the test is the wrong way round.
HasNot(r) ==
  /\ Goto(r, "has", IF list[want[r]] = None THEN "get" ELSE "ask")
  /\ UNCHANGED <<store, editors, kind, want, got, answer, history>>

\* Cache::has
Has(r) ==
  /\ Goto(r, "has", IF list[want[r]] # None THEN "get" ELSE "ask")
  /\ UNCHANGED <<store, editors, kind, want, got, answer, history>>

Cached(r) == IF kind[r] = "one"
             THEN IF one[want[r]] = None THEN None ELSE {one[want[r]]}
             ELSE list[want[r]]

\* Cache::remember: a hit answers (or goes on to the second read), a miss fills.
Ask(r) ==
  LET hit == Cached(r) # None
  IN  /\ Goto(r, "ask", IF ~hit THEN "query"
                        ELSE IF kind[r] = "sample" THEN "get" ELSE "done")
      /\ overlap' = [overlap EXCEPT ![r] = ~hit /\ Editing /\ kind[r] # "one"]
      /\ UNCHANGED <<store, editors, kind, want, got, answer, raced, moved, due>>

\* first() is the newest video; the order of the lists themselves is left out.
Query(r) ==
  /\ Goto(r, "query", "put")
  /\ got' = [got EXCEPT ![r] = IF kind[r] = "one" THEN Newest(Videos(want[r]), 1)
                                                ELSE Videos(want[r])]
  /\ UNCHANGED <<store, editors, kind, want, answer, history>>

\* Mutation: (int) of first()'s id, so that no video is the number 0, which is kept.
FirstNumber(vs) == IF vs = {} THEN 0 ELSE CHOOSE v \in vs : TRUE

First(vs) == IF vs = {} THEN None ELSE CHOOSE v \in vs : TRUE

\* The null of first() reads as a miss; an empty list does not.
Put(r) ==
  /\ Goto(r, "put", IF kind[r] = "sample" THEN "get" ELSE "done")
  /\ IF kind[r] = "one"
     THEN /\ one' = [one EXCEPT ![want[r]] = First(got[r])]
          /\ UNCHANGED <<list, raced, moved>>
     ELSE /\ list' = [list EXCEPT ![want[r]] = got[r]]
          /\ raced' = [raced EXCEPT ![want[r]] = overlap[r]]
          /\ moved' = [moved EXCEPT ![want[r]] = {}]
          /\ UNCHANGED one
  /\ got' = [got EXCEPT ![r] = {}]
  /\ overlap' = [overlap EXCEPT ![r] = FALSE]
  /\ UNCHANGED <<table, editors, kind, want, answer, due>>

\* The second read: collect(null) is an empty list.
Get(r) ==
  /\ Goto(r, "get", "done")
  /\ answer' = [answer EXCEPT ![r] = IF list[want[r]] = None THEN {} ELSE list[want[r]]]
  /\ due' = [due EXCEPT ![r] = @ /\ ~raced[want[r]] /\ moved[want[r]] = {}]
  /\ UNCHANGED <<store, editors, kind, want, got, overlap, raced, moved>>

Respond(r) ==
  /\ Goto(r, "done", "idle")
  /\ kind' = [kind EXCEPT ![r] = None]
  /\ want' = [want EXCEPT ![r] = None]
  /\ answer' = [answer EXCEPT ![r] = {}]
  /\ due' = [due EXCEPT ![r] = FALSE]
  /\ UNCHANGED <<store, editors, got, overlap, raced, moved>>

-----------------------------------------------------------------------------
\* What every change of the table does to the history.
Witness ==
  /\ overlap' = [r \in Req |->
       overlap[r] \/ (pc[r] \in {"query", "put"} /\ kind[r] # "one")]
  /\ due' = [r \in Req |-> due[r] /\ Videos(want[r])' # {}]
  /\ UNCHANGED raced

Edit(v, type, forgets) ==
  /\ edits < MaxEdits
  /\ edits' = edits + 1
  /\ video' = [video EXCEPT ![v] = type]
  /\ event' = [event EXCEPT ![edits + 1] = forgets]
  /\ UNCHANGED <<list, one, request>>
  /\ Witness

\* An id is given once, and is greater than those before it.
Create(v, type) ==
  /\ v = last + 1
  /\ last' = v
  /\ Edit(v, type, type)
  /\ UNCHANGED moved

\* No event: Video registers none for an update.
Update(v, type) ==
  /\ video[v] # None
  /\ Edit(v, type, None)
  /\ moved' = [t \in Type |->
       IF list[t] # None /\ video[v] # type /\ t \in {video[v], type}
       THEN moved[t] \cup {v} ELSE moved[t]]
  /\ UNCHANGED last

Delete(v) ==
  /\ video[v] # None
  /\ Edit(v, None, video[v])
  /\ UNCHANGED <<last, moved>>

\* Mutation: whatever the type, the list of one type is forgotten.
ForgetsOneType(t) == {CHOOSE u \in Type : TRUE}

Forgets(t) == {t}

\* The lists of the types ts leave the cache.
Forget(ts) ==
  /\ list' = [t \in Type |-> IF t \in ts THEN None ELSE list[t]]
  /\ raced' = [t \in Type |-> t \notin ts /\ raced[t]]
  /\ moved' = [t \in Type |-> IF t \in ts THEN {} ELSE moved[t]]
  /\ due' = [r \in Req |-> due[r] /\ want[r] \notin ts]

\* The created or the deleted event forgets the list of the type.
RunEvent(n) ==
  /\ event[n] # None
  /\ Forget(Forgets(event[n]))
  /\ event' = [event EXCEPT ![n] = None]
  /\ UNCHANGED <<table, one, edits, request, overlap>>

-----------------------------------------------------------------------------
\* A day has passed.
ExpireList(t) ==
  /\ list[t] # None
  /\ Forget({t})
  /\ UNCHANGED <<table, one, editors, request, overlap>>

ExpireOne(t) ==
  /\ one[t] # None
  /\ one' = [one EXCEPT ![t] = None]
  /\ UNCHANGED <<table, list, editors, request, history>>

Next ==
  \/ \E r \in Req :
       \/ \E k \in Kinds, t \in Type : Visit(r, k, t)
       \/ Has(r) \/ Ask(r) \/ Query(r) \/ Put(r) \/ Get(r) \/ Respond(r)
  \/ \E v \in Video : \/ \E t \in Type : Create(v, t) \/ Update(v, t)
                      \/ Delete(v)
  \/ \E n \in 1 .. MaxEdits : RunEvent(n)
  \/ \E t \in Type : ExpireList(t) \/ ExpireOne(t)

Spec == Init /\ [][Next]_vars

-----------------------------------------------------------------------------
\* With no edit in progress a list is exactly the newest videos of its type, unless
\* it was filled across an edit or a video has moved into or out of its type since.
\* Even then, a video on it that is not of its type - deleted ones included, for the
\* event of their deletion forgets the list of the type they had at the end - is one
\* that moved, and only until the list is next filled (Video.php 20-45;
\* VideoRepository 76-86, 129-142).
ListsComplete ==
  ~Editing =>
    \A t \in Type : list[t] # None /\ ~raced[t] =>
      /\ moved[t] = {} => list[t] = Videos(t)
      /\ \A v \in list[t] : video[v] = t \/ v \in moved[t]

\* getVideoWeek shows an empty list, though no edit was in progress when it began
\* and there has been a video of its type since, only if the list left the cache
\* meanwhile (between its two reads), was filled across an edit, or before an update
\* moved a video to this type or from it (VideoRepository 91-123).
EmptyOnlyByRace ==
  \A r \in Req :
    pc[r] = "done" /\ kind[r] = "sample" /\ due[r] => answer[r] # {}

-----------------------------------------------------------------------------
(* The inductive invariant of VideoCacheProofs.                            *)

\* vs is what a list of type t should be, the videos that moved since apart.
Complete(vs, t, m) ==
  /\ m = {} => vs = Videos(t)
  /\ \A v \in vs : video[v] = t \/ v \in m

\* An edit that will forget the list of t.
Pending(t) == \E n \in 1 .. MaxEdits : event[n] = t

\* What is yet to come: the events of edits, the rows of ids.
Ahead ==
  /\ \A n \in 1 .. MaxEdits : n > edits => event[n] = None
  /\ \A v \in Video : v > last => video[v] = None

\* A list that no edit is about to forget is complete, ...
ListsWhole ==
  \A t \in Type :
    list[t] # None /\ ~raced[t] /\ ~Pending(t) => Complete(list[t], t, moved[t])

\* ... and so is what a fill that met no edit is about to store.
FillsWhole ==
  \A r \in Req : pc[r] \in {"query", "put"} /\ kind[r] # "one" /\ ~overlap[r] =>
    /\ ~Editing
    /\ pc[r] = "put" => Complete(got[r], want[r], {})

\* A sample that is due some videos finds a list that has some.
SamplesServed ==
  \A r \in Req : pc[r] # "idle" /\ due[r] =>
    /\ Videos(want[r]) # {}
    /\ list[want[r]] = {} => raced[want[r]] \/ moved[want[r]] # {}
    /\ pc[r] = "get" => list[want[r]] # None

\* Invariant under every step, and strong enough to be so.
IInv ==
  TypeOK /\ Ahead /\ ListsWhole /\ FillsWhole /\ SamplesServed /\ EmptyOnlyByRace
=============================================================================
