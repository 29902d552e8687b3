----------------------------- MODULE EventCache -----------------------------
(***************************************************************************)
(* The events of the site: app/Repositories/EvenementRepository.php over   *)
(* Repository.php, the model events of app/Models/Evenement.php and the    *)
(* purge of app/Console/Commands/ClearAllCache.php.                        *)
(*                                                                         *)
(* Every page shows one event drawn at random from a list that is cached   *)
(* for a day.  An update reads the row, fills in what the request leaves   *)
(* out, reads the row again and writes the columns that differ; there is   *)
(* no transaction, so that requests interleave between any two of these    *)
(* statements.  The width of the poster is a column of its own, computed   *)
(* from the poster; its height is to it as its width is, and is left out.  *)
(* The clock counts fractions of a day.                                    *)
(***************************************************************************)
EXTENDS Integers

CONSTANTS
  Req,      \* requests of visitors
  Editor,   \* requests of editors
  Event,    \* ids of events; an id is given once
  Dates,    \* the values of eventdate
  Posters,  \* the values of affiche
  Width,    \* Width[p]: extractWidth of the poster p
  Day,      \* clock units in a day
  MaxTime,  \* bound on the clock
  MaxSaves, \* bound on the requests of editors
  None

ASSUME EventCacheAssumption ==
  /\ Day \in Nat \ {0} /\ MaxTime \in Nat /\ MaxSaves \in Nat
  /\ Dates \subseteq Nat
  /\ None \notin Event \cup Dates \cup Posters

Row    == [date : Dates, poster : Posters, width : {Width[p] : p \in Posters}]
Inputs == [date : Dates \cup {None}, poster : Posters \cup {None}]

ASSUME NoneIsNoRow == None \notin Row

\* The columns of an event on date d with poster p.
Made(d, p) == [date |-> d, poster |-> p, width |-> Width[p]]

VARIABLES
  row,      \* row[e], or None when it is not in the table
  born,     \* the ids given so far
  entry,    \* key 'evenement': [rows, exp], or None
  clock,    \* now()
  nightly,  \* the command: "waiting", or "purge" between its two statements
  lastRun,  \* the time of its last start
  saves,    \* number of requests of editors begun
  pc, got, exp,  \* visitors: rows of the query, expiry asked for
  answer,   \* what the last visit of r showed: "none", "event" or "error"
  epc, item,     \* editors: step, event
  asked, filled, read, \* columns of the request, columns to write, row read last
  overlap,  \* history: overlap[r]: a row was saved while r filled
  raced,    \* history: overlap of the request that stored the entry
  broken,   \* history: a request died between its statement and its event
  meant,    \* history: meant[e]: the columns as the requests that named them left them
  crossed,  \* history: a write of e fell where an update of e loses it
  changed   \* history: changed[e]: the time row[e] was last saved

store   == <<row, born, entry, clock>>
command == <<nightly, lastRun>>
visitor == <<pc, got, exp, answer>>
editor  == <<saves, epc, item, asked, filled, read>>
history == <<overlap, raced, broken, meant, crossed, changed>>
vars    == <<store, command, visitor, editor, history>>

TypeOK ==
  /\ row \in [Event -> Row \cup {None}] /\ born \subseteq Event
  /\ entry \in [rows : SUBSET (Event \X Row), exp : 0 .. MaxTime + Day] \cup {None}
  /\ clock \in 0 .. MaxTime
  /\ nightly \in {"waiting", "purge"} /\ lastRun \in 0 .. MaxTime
  /\ saves \in 0 .. MaxSaves
  /\ pc \in [Req -> {"idle", "query", "put"}]
  /\ got \in [Req -> SUBSET (Event \X Row)]
  /\ exp \in [Req -> 0 .. MaxTime + Day]
  /\ answer \in [Req -> {"none", "event", "error"}]
  /\ epc \in [Editor -> {"idle", "find", "write", "delete", "event"}]
  /\ item \in [Editor -> Event \cup {None}]
  /\ asked \in [Editor -> Inputs]
  /\ filled \in [Editor -> Row \cup {None}]
  /\ read \in [Editor -> Row \cup {None}]
  /\ overlap \in [Req -> BOOLEAN] /\ raced \in BOOLEAN /\ broken \in BOOLEAN
  /\ meant \in [Event -> Row \cup {None}] /\ crossed \in [Event -> BOOLEAN]
  /\ changed \in [Event -> 0 .. MaxTime]

Nothing == [date |-> None, poster |-> None]

Init ==
  /\ row = [e \in Event |-> None] /\ born = {}
  /\ entry = None
  /\ clock = 0
  /\ nightly = "waiting" /\ lastRun = 0
  /\ saves = 0
  /\ pc = [r \in Req |-> "idle"]
  /\ got = [r \in Req |-> {}]
  /\ exp = [r \in Req |-> 0]
  /\ answer = [r \in Req |-> "none"]
  /\ epc = [w \in Editor |-> "idle"]
  /\ item = [w \in Editor |-> None]
  /\ asked = [w \in Editor |-> Nothing]
  /\ filled = [w \in Editor |-> None]
  /\ read = [w \in Editor |-> None]
  /\ overlap = [r \in Req |-> FALSE]
  /\ raced = FALSE /\ broken = FALSE
  /\ meant = [e \in Event |-> None]
  /\ crossed = [e \in Event |-> FALSE]
  /\ changed = [e \in Event |-> 0]

-----------------------------------------------------------------------------
(* Visitors: getCachedEvenements.                                          *)

Present == entry # None /\ clock < entry.exp

\* random() of an empty collection throws, and the page with it.
Outcome(rows) == IF rows = {} THEN "error" ELSE "event"

\* A hit.
ShowCached(r) ==
  /\ pc[r] = "idle"
  /\ Present
  /\ answer' = [answer EXCEPT ![r] = Outcome(entry.rows)]
  /\ UNCHANGED <<store, command, pc, got, exp, editor, history>>

\* A miss: the expiry, an argument of remember, is fixed before the query.
Ask(r) ==
  /\ pc[r] = "idle"
  /\ ~Present
  /\ pc' = [pc EXCEPT ![r] = "query"]
  /\ exp' = [exp EXCEPT ![r] = clock + Day]
  /\ UNCHANGED <<store, command, got, answer, editor, history>>

\* The events to come.
Coming == {<<e, row[e]>> : e \in {e \in Event : row[e] # None /\ row[e].date >= clock}}

\* Mutation: the list is not limited to the events to come.
QueryAll(r) ==
  /\ pc[r] = "query"
  /\ pc' = [pc EXCEPT ![r] = "put"]
  /\ got' = [got EXCEPT ![r] = {<<e, row[e]>> : e \in {e \in Event : row[e] # None}}]
  /\ UNCHANGED <<store, command, exp, answer, editor, history>>

Query(r) ==
  /\ pc[r] = "query"
  /\ pc' = [pc EXCEPT ![r] = "put"]
  /\ got' = [got EXCEPT ![r] = Coming]
  /\ UNCHANGED <<store, command, exp, answer, editor, history>>

\* Mutation: the lifetime is counted from the put.
PutRelative(r) ==
  /\ pc[r] = "put"
  /\ entry' = [rows |-> got[r], exp |-> clock + Day]
  /\ raced' = overlap[r]
  /\ answer' = [answer EXCEPT ![r] = Outcome(got[r])]
  /\ pc' = [pc EXCEPT ![r] = "idle"]
  /\ got' = [got EXCEPT ![r] = {}]
  /\ exp' = [exp EXCEPT ![r] = 0]
  /\ overlap' = [overlap EXCEPT ![r] = FALSE]
  /\ UNCHANGED <<row, born, clock, command, editor, broken, meant, crossed, changed>>

\* The list is stored, the empty one too, before random() looks at it; a put
\* whose expiry has passed forgets the key.
Put(r) ==
  /\ pc[r] = "put"
  /\ entry' = IF exp[r] <= clock THEN None ELSE [rows |-> got[r], exp |-> exp[r]]
  /\ raced' = overlap[r]
  /\ answer' = [answer EXCEPT ![r] = Outcome(got[r])]
  /\ pc' = [pc EXCEPT ![r] = "idle"]
  /\ got' = [got EXCEPT ![r] = {}]
  /\ exp' = [exp EXCEPT ![r] = 0]
  /\ overlap' = [overlap EXCEPT ![r] = FALSE]
  /\ UNCHANGED <<row, born, clock, command, editor, broken, meant, crossed, changed>>

-----------------------------------------------------------------------------
(* Editors.                                                                *)

\* The request of w on e begins at step next.
Begin(w, e, next) ==
  /\ epc[w] = "idle"
  /\ saves < MaxSaves
  /\ saves' = saves + 1
  /\ epc' = [epc EXCEPT ![w] = next]
  /\ item' = [item EXCEPT ![w] = e]
  /\ UNCHANGED <<entry, clock, command, visitor>>

\* Every fill under way overlaps a change of the table.
Disturb == overlap' = [r \in Req |-> overlap[r] \/ pc[r] # "idle"]

\* create: the INSERT; the created event runs next.
Create(w, e, date, poster) ==
  /\ Begin(w, e, "event")
  /\ e \notin born
  /\ born' = born \cup {e}
  /\ row' = [row EXCEPT ![e] = Made(date, poster)]
  /\ meant' = [meant EXCEPT ![e] = Made(date, poster)]
  /\ changed' = [changed EXCEPT ![e] = clock]
  /\ Disturb
  /\ UNCHANGED <<asked, filled, read, raced, broken, crossed>>

Columns == {"date", "poster", "width"}

\* The columns a request names: the width goes with the poster.
Named(input) ==
  {c \in Columns : IF c = "date" THEN input.date # None ELSE input.poster # None}

\* The row with the columns cols of a and the other ones of b.
Merge(cols, a, b) ==
  [date   |-> IF "date" \in cols THEN a.date ELSE b.date,
   poster |-> IF "poster" \in cols THEN a.poster ELSE b.poster,
   width  |-> IF "width" \in cols THEN a.width ELSE b.width]

\* Mutation: what the request leaves out stays empty.
FillNothing(input, old) ==
  [date |-> input.date, poster |-> input.poster, width |-> old.width]

\* What the request names, the rest from the row, and the width of the poster.
Fill(input, old) ==
  Made(IF input.date # None THEN input.date ELSE old.date,
       IF input.poster # None THEN input.poster ELSE old.poster)

\* update: findById, then the columns the request leaves out are filled in.
Update(w, e, input) ==
  /\ Begin(w, e, "find")
  /\ row[e] # None
  /\ asked' = [asked EXCEPT ![w] = input]
  /\ filled' = [filled EXCEPT ![w] = Fill(input, row[e])]
  /\ UNCHANGED <<row, born, read, history>>

\* destroy: findById.
Destroy(w, e) ==
  /\ Begin(w, e, "delete")
  /\ row[e] # None
  /\ UNCHANGED <<row, born, asked, filled, read, history>>

\* The request of w ends.
Finish(w) ==
  /\ epc' = [epc EXCEPT ![w] = "idle"]
  /\ item' = [item EXCEPT ![w] = None]
  /\ asked' = [asked EXCEPT ![w] = Nothing]
  /\ filled' = [filled EXCEPT ![w] = None]
  /\ read' = [read EXCEPT ![w] = None]
  /\ UNCHANGED saves

\* Repository::update reads the row once more; findOrFail throws if it is gone.
Find(w) ==
  /\ epc[w] = "find"
  /\ IF row[item[w]] = None
     THEN Finish(w)
     ELSE /\ epc' = [epc EXCEPT ![w] = "write"]
          /\ read' = [read EXCEPT ![w] = row[item[w]]]
          /\ UNCHANGED <<saves, item, asked, filled>>
  /\ UNCHANGED <<store, command, visitor, history>>

\* Mutation: every column is dirty.
DirtyAll(w) == Columns

\* Eloquent writes the columns that differ from the row as it was read.
Dirty(w) == {c \in Columns : filled[w][c] # read[w][c]}

\* Another update of e has yet to read the row again, or will not write a column
\* that its request names, as it has found it so.
Exposed(w, e) ==
  \E v \in Editor \ {w} :
    /\ item[v] = e
    /\ epc[v] = "find" \/ (epc[v] = "write" /\ Named(asked[v]) \ Dirty(v) # {})

\* An UPDATE of no column is not sent and fires no event; one of a row that has
\* been deleted changes nothing and fires it.  The request has had its say on
\* every column it names, those it does not write too.
Write(w) ==
  /\ epc[w] = "write"
  /\ LET e == item[w]
     IN  IF row[e] = None
         THEN UNCHANGED <<row, history>>
         ELSE /\ meant' = [meant EXCEPT ![e] = Merge(Named(asked[w]), filled[w], @)]
              /\ UNCHANGED <<raced, broken>>
              /\ IF Dirty(w) = {}
                 THEN UNCHANGED <<row, changed, crossed, overlap>>
                 ELSE /\ row' = [row EXCEPT ![e] = Merge(Dirty(w), filled[w], @)]
                      /\ changed' = [changed EXCEPT ![e] = clock]
                      /\ crossed' = [crossed EXCEPT ![e] = @ \/ Exposed(w, e)]
                      /\ Disturb
  /\ IF Dirty(w) = {}
     THEN Finish(w)
     ELSE /\ epc' = [epc EXCEPT ![w] = "event"]
          /\ UNCHANGED <<saves, item, asked, filled, read>>
  /\ UNCHANGED <<born, entry, clock, command, visitor>>

\* Repository::delete reads the row again and deletes it; findOrFail throws if
\* it is gone.
Delete(w) ==
  /\ epc[w] = "delete"
  /\ IF row[item[w]] = None
     THEN Finish(w) /\ UNCHANGED <<row, history>>
     ELSE /\ epc' = [epc EXCEPT ![w] = "event"]
          /\ row' = [row EXCEPT ![item[w]] = None]
          /\ changed' = [changed EXCEPT ![item[w]] = clock]
          /\ Disturb
          /\ UNCHANGED <<saves, item, asked, filled, read, raced, broken, meant, crossed>>
  /\ UNCHANGED <<born, entry, clock, command, visitor>>

\* Mutation: the update has no event (as for the videos).
ForgetCreated(w) ==
  /\ epc[w] = "event"
  /\ entry' = IF filled[w] = None THEN None ELSE entry
  /\ Finish(w)
  /\ UNCHANGED <<row, born, clock, command, visitor, history>>

\* created, updated, deleted.
Forget(w) ==
  /\ epc[w] = "event"
  /\ entry' = None
  /\ Finish(w)
  /\ UNCHANGED <<row, born, clock, command, visitor, history>>

\* The process dies.
Die(w) ==
  /\ epc[w] # "idle"
  /\ broken' = (broken \/ epc[w] = "event")
  /\ Finish(w)
  /\ UNCHANGED <<store, command, visitor, overlap, raced, meant, crossed, changed>>

-----------------------------------------------------------------------------
(* The night.                                                              *)

Due == clock % Day = 0 /\ clock # lastRun

ClearCache ==
  /\ nightly = "waiting"
  /\ Due
  /\ nightly' = "purge"
  /\ lastRun' = clock
  /\ entry' = None
  /\ UNCHANGED <<row, born, clock, visitor, editor, history>>

\* A DELETE by query, which fires no event.
PurgeEvents ==
  /\ nightly = "purge"
  /\ nightly' = "waiting"
  /\ row' = [e \in Event |->
               IF row[e] # None /\ row[e].date < clock THEN None ELSE row[e]]
  /\ UNCHANGED <<born, entry, clock, lastRun, visitor, editor, history>>

\* The command starts in its minute and ends within it.
Tick ==
  /\ clock < MaxTime
  /\ ~Due /\ nightly = "waiting"
  /\ clock' = clock + 1
  /\ UNCHANGED <<row, born, entry, command, visitor, editor, history>>

Next ==
  \/ \E r \in Req : ShowCached(r) \/ Ask(r) \/ Query(r) \/ Put(r)
  \/ \E w \in Editor, e \in Event :
       \/ \E date \in Dates, poster \in Posters : Create(w, e, date, poster)
       \/ \E input \in Inputs \ {Nothing} : Update(w, e, input)
       \/ Destroy(w, e)
  \/ \E w \in Editor : Find(w) \/ Write(w) \/ Delete(w) \/ Forget(w) \/ Die(w)
  \/ ClearCache \/ PurgeEvents \/ Tick

Spec == Init /\ [][Next]_vars

-----------------------------------------------------------------------------
Served == IF Present THEN entry.rows ELSE {}

\* What a list says of e is what the table says: an event to come is listed as
\* it is, and a listed event is the row or has passed.
Tells(rows, e) ==
  /\ \A x \in rows : x[1] = e => x[2] = row[e] \/ x[2].date < clock
  /\ row[e] # None /\ row[e].date >= clock => <<e, row[e]>> \in rows

EventDue == \E w \in Editor : epc[w] = "event"

\* Once the events of the saves have run, the list is that of the table unless
\* it was filled across a save or a request died before its event: the purge
\* and the passing of time, which forget nothing, do not make it wrong
\* (Evenement.php 24-35, EvenementRepository 79-85).
ListWrongOnlyByRace ==
  Present /\ ~EventDue /\ ~raced /\ ~broken => \A e \in Event : Tells(entry.rows, e)

\* However fills, saves, deaths and the purge interleave, a list that is wrong
\* about an event is gone within a day of its last save: an empty list, with
\* which every page fails, does not outlive a new event by more
\* (EvenementRepository 81-84).
WrongForLessThanADay ==
  Present => \A e \in Event : Tells(entry.rows, e) \/ clock < changed[e] + Day

\* A passed event is shown for less than a day after its time, although its
\* purge forgets nothing (EvenementRepository 81-83, ClearAllCache 43).
PassedBounded == \A x \in Served : clock < x[2].date + Day

\* A column holds what the last request that named it gave, and the width is that
\* of the poster, unless a write fell before the second read of an update, or
\* between it and the UPDATE of a request that names a column it found as it wants
\* it: overlaps of any other two statements lose nothing (EvenementRepository
\* 60-65, Repository 57-62).
ColumnsKept ==
  \A e \in Event : row[e] # None => row[e] = meant[e] \/ crossed[e]

\* "random() lève une exception sur une collection vide" (PubRepository 180):
\* no page fails for want of an event.
NoPageFails == \A r \in Req : answer[r] # "error"

-----------------------------------------------------------------------------
(* The inductive invariant of EventCacheProofs.                            *)

\* A list that may be shown until exp: wrong about an event for less than a day
\* after its save, and naming no event that will have passed by a day.
GoodUntil(rows, end) ==
  /\ \A e \in Event : Tells(rows, e) \/ end <= changed[e] + Day
  /\ \A x \in rows : end <= x[2].date + Day

ListsGood ==
  /\ entry # None => entry.exp <= clock + Day /\ GoodUntil(entry.rows, entry.exp)
  /\ \A r \in Req :
       /\ pc[r] # "idle" => exp[r] <= clock + Day
       /\ pc[r] = "put" => GoodUntil(got[r], exp[r])

\* Between the saves and their events, a list that no save met is that of the
\* table, and so is what a fill that no save met is about to store.
ListsWhole ==
  /\ entry # None /\ ~raced /\ ~broken /\ ~EventDue => \A e \in Event : Tells(entry.rows, e)
  /\ \A r \in Req : pc[r] = "put" /\ ~overlap[r] => \A e \in Event : Tells(got[r], e)

\* What the steps of an editor know of the request.
EditorsTyped ==
  \A w \in Editor :
    /\ epc[w] # "idle" => item[w] \in Event
    /\ epc[w] \in {"find", "write"} =>
         filled[w] \in Row /\ filled[w].width = Width[filled[w].poster]
    /\ epc[w] = "write" => read[w] \in Row

\* While no write crosses it, an update changes only the columns its request
\* names, and all of them, or the row is as it was read.
OnlyNamed ==
  \A w \in Editor : item[w] \in Event =>
    \/ crossed[item[w]]
    \/ /\ \A c \in Columns \ Named(asked[w]) :
            /\ epc[w] = "find" /\ row[item[w]] # None => filled[w][c] = row[item[w]][c]
            /\ epc[w] = "write" => filled[w][c] = read[w][c]
       /\ epc[w] = "write" /\ row[item[w]] # None =>
            Named(asked[w]) \subseteq Dirty(w) \/ read[w] = row[item[w]]

\* What was meant has the width of its poster.
MeantTyped ==
  \A e \in Event : row[e] # None => meant[e] \in Row /\ meant[e].width = Width[meant[e].poster]

\* An id in the table or in the hands of an editor is never given again.
IdsGivenOnce ==
  /\ \A e \in Event : row[e] # None => e \in born
  /\ \A w \in Editor : item[w] \in Event => item[w] \in born

\* Invariant under every step, and strong enough to be so.
IInv ==
  /\ TypeOK /\ EditorsTyped /\ MeantTyped
  /\ ListsGood /\ ListsWhole
  /\ IdsGivenOnce /\ OnlyNamed /\ ColumnsKept
=============================================================================
