-------------------------- MODULE EventCacheProofs --------------------------
(***************************************************************************)
(* For any number of visitors, editors and events: the types of            *)
(* EventCache, the bounds on what its list shows, and which overlaps of    *)
(* two updates lose no column.                                             *)
(***************************************************************************)
EXTENDS EventCache, TLAPS

\* Merging two rows makes a row.
LEMMA MergeRow ==
  ASSUME NEW cols, NEW a \in Row, NEW b \in Row
  PROVE  Merge(cols, a, b) \in Row
BY DEF Merge, Row

\* A row with the width of its poster.
Fits(a) == a \in Row /\ a.width = Width[a.poster]

\* What a request creates fits.
LEMMA MadeFits ==
  ASSUME NEW d \in Dates, NEW p \in Posters
  PROVE  Fits(Made(d, p))
BY DEF Fits, Made, Row

\* Filling the columns of a request in from a row makes a row that fits.
LEMMA FillFits ==
  ASSUME NEW input \in Inputs, NEW b \in Row
  PROVE  Fits(Fill(input, b))
<1>1. ASSUME NEW x \in Dates \cup {None}, NEW d \in Dates
      PROVE  (IF x # None THEN x ELSE d) \in Dates
  OBVIOUS
<1>2. ASSUME NEW x \in Posters \cup {None}, NEW p \in Posters
      PROVE  (IF x # None THEN x ELSE p) \in Posters
  OBVIOUS
<1> QED
  BY <1>1, <1>2, MadeFits DEF Fill, Row, Inputs

\* Merging rows that fit by the columns that a request names makes one.
LEMMA NamedFits ==
  ASSUME NEW input, NEW a, NEW b, Fits(a), Fits(b)
  PROVE  Fits(Merge(Named(input), a, b))
BY DEF Fits, Merge, Named, Columns, Row

\* The types and what the steps of editors know are kept by every step.
Typed == TypeOK /\ EditorsTyped /\ MeantTyped

\* A request that names no column.
LEMMA NothingTyped == Nothing \in Inputs
BY DEF Nothing, Inputs

\* The variables have their types at first.
LEMMA InitTyped == Init => Typed
<1> SUFFICES ASSUME Init PROVE Typed
  OBVIOUS
<1>1. TypeOK
  <2>1. /\ clock = 0 /\ lastRun = 0 /\ saves = 0
        /\ 0 \in 0 .. MaxTime /\ 0 \in 0 .. MaxTime + Day /\ 0 \in 0 .. MaxSaves
    BY EventCacheAssumption DEF Init
  <2>2. asked \in [Editor -> Inputs]
    BY NothingTyped DEF Init
  <2>3. exp \in [Req -> 0 .. MaxTime + Day] /\ changed \in [Event -> 0 .. MaxTime]
    BY <2>1 DEF Init
  <2> QED
    BY <2>1, <2>2, <2>3 DEF Init, TypeOK
<1>2. EditorsTyped /\ MeantTyped
  BY DEF Init, EditorsTyped, MeantTyped
<1> QED
  BY <1>1, <1>2 DEF Typed

\* Every step keeps the types.
LEMMA NextTyped == Typed /\ [Next]_vars => Typed'
<1> SUFFICES ASSUME Typed, [Next]_vars PROVE Typed'
  OBVIOUS
<1> USE EventCacheAssumption, NoneIsNoRow
    DEF Typed, TypeOK, EditorsTyped, MeantTyped, store, command, visitor, editor, history
<1>1. ASSUME NEW r \in Req, ShowCached(r) PROVE Typed'
  BY <1>1 DEF ShowCached, Outcome
<1>2. ASSUME NEW r \in Req, Ask(r) PROVE Typed'
  BY <1>2 DEF Ask, EventDue
<1>3. ASSUME NEW r \in Req, Query(r) PROVE Typed'
  <2>1. Coming \subseteq Event \X Row
    BY DEF Coming
  <2> QED
    BY <1>3, <2>1 DEF Query
<1>4. ASSUME NEW r \in Req, Put(r) PROVE Typed'
  BY <1>4 DEF Put, Outcome
<1>5. ASSUME NEW w \in Editor, NEW e \in Event, NEW date \in Dates, NEW poster \in Posters,
             Create(w, e, date, poster)
      PROVE Typed'
  BY <1>5, MadeFits DEF Create, Begin, Disturb, Fits
<1>6. ASSUME NEW w \in Editor, NEW e \in Event, NEW input \in Inputs, Update(w, e, input)
      PROVE Typed'
  <2>1. row[e] \in Row
    BY <1>6 DEF Update
  <2>2. Fits(Fill(input, row[e]))
    BY <2>1, FillFits
  <2> HIDE DEF Fill
  <2> QED
    BY <1>6, <2>2 DEF Update, Begin, Fits
<1>7. ASSUME NEW w \in Editor, NEW e \in Event, Destroy(w, e) PROVE Typed'
  BY <1>7 DEF Destroy, Begin
<1>8. ASSUME NEW w \in Editor, Finish(w),
             UNCHANGED <<row, born, clock, command, visitor, overlap, raced, meant,
                         crossed, changed>>,
             entry' \in {entry, None}, broken' \in BOOLEAN
      PROVE Typed'
  <2> QED
    BY <1>8, NothingTyped DEF Finish
<1>9. ASSUME NEW w \in Editor, Find(w) PROVE Typed'
  <2>1. CASE row[item[w]] = None
    BY <1>8, <1>9, <2>1 DEF Find
  <2>2. CASE row[item[w]] # None
    BY <1>9, <2>2 DEF Find
  <2> QED
    BY <2>1, <2>2
<1>10. ASSUME NEW w \in Editor, Write(w) PROVE Typed'
  <2> DEFINE e == item[w]
             new == Merge(Dirty(w), filled[w], row[e])
             named == Merge(Named(asked[w]), filled[w], meant[e])
  <2>1. e \in Event /\ filled[w] \in Row /\ Fits(filled[w])
    BY <1>10 DEF Write, Fits
  <2>2. ASSUME row[e] # None PROVE new \in Row /\ Fits(named)
    <3>1. row[e] \in Row /\ Fits(meant[e])
      BY <2>1, <2>2 DEF Fits
    <3> QED
      BY <2>1, <3>1, MergeRow, NamedFits
  <2>3. CASE row[e] = None
    <3>1. CASE Dirty(w) = {}
      BY <1>8, <1>10, <2>3, <3>1 DEF Write
    <3>2. CASE Dirty(w) # {}
      BY <1>10, <2>3, <3>2 DEF Write
    <3> QED
      BY <3>1, <3>2
  <2>4. CASE row[e] # None /\ Dirty(w) = {}
    <3>1. /\ meant' = [meant EXCEPT ![e] = named]
          /\ Finish(w)
          /\ UNCHANGED <<store, command, visitor, overlap, raced, broken, changed, crossed>>
      BY <1>10, <2>4 DEF Write
    <3> HIDE DEF new, named
    <3> QED
      BY <2>1, <2>2, <2>4, <3>1, NothingTyped DEF Finish, Fits
  <2>5. CASE row[e] # None /\ Dirty(w) # {}
    <3>1. /\ row' = [row EXCEPT ![e] = new]
          /\ meant' = [meant EXCEPT ![e] = named]
          /\ changed' = [changed EXCEPT ![e] = clock]
          /\ crossed' = [crossed EXCEPT ![e] = @ \/ Exposed(w, e)]
          /\ overlap' = [r \in Req |-> overlap[r] \/ pc[r] # "idle"]
          /\ epc' = [epc EXCEPT ![w] = "event"]
          /\ UNCHANGED <<saves, item, asked, filled, read, raced, broken, born, entry,
                         clock, command, visitor>>
      BY <1>10, <2>5 DEF Write, Disturb
    <3>2. Exposed(w, e) \in BOOLEAN
      BY DEF Exposed
    <3> HIDE DEF new, named
    <3> QED
      BY <2>1, <2>2, <2>5, <3>1, <3>2 DEF Fits
  <2> QED
    BY <2>3, <2>4, <2>5
<1>11. ASSUME NEW w \in Editor, Delete(w) PROVE Typed'
  <2>1. CASE row[item[w]] = None
    BY <1>8, <1>11, <2>1 DEF Delete
  <2>2. CASE row[item[w]] # None
    <3>1. /\ item[w] \in Event
          /\ row' = [row EXCEPT ![item[w]] = None]
          /\ changed' = [changed EXCEPT ![item[w]] = clock]
          /\ overlap' = [r \in Req |-> overlap[r] \/ pc[r] # "idle"]
          /\ epc' = [epc EXCEPT ![w] = "event"]
          /\ UNCHANGED <<born, entry, clock, command, visitor, saves, item, asked, filled,
                         read, raced, broken, meant, crossed>>
      BY <1>11, <2>2 DEF Delete, Disturb
    <3>2. TypeOK'
      BY <3>1
    <3>3. EditorsTyped' /\ MeantTyped'
      BY <3>1
    <3> QED
      BY <3>2, <3>3
  <2> QED
    BY <2>1, <2>2
<1>12. ASSUME NEW w \in Editor, Forget(w) PROVE Typed'
  BY <1>8, <1>12 DEF Forget
<1>13. ASSUME NEW w \in Editor, Die(w) PROVE Typed'
  BY <1>8, <1>13 DEF Die
<1>14. CASE ClearCache
  BY <1>14 DEF ClearCache
<1>15. CASE PurgeEvents
  BY <1>15 DEF PurgeEvents
<1>16. CASE Tick
  BY <1>16 DEF Tick
<1>17. CASE UNCHANGED vars
  BY <1>17 DEF vars
<1> QED
  BY <1>1, <1>2, <1>3, <1>4, <1>5, <1>6, <1>7, <1>9, <1>10, <1>11, <1>12, <1>13,
     <1>14, <1>15, <1>16, <1>17 DEF Next

-----------------------------------------------------------------------------
(* The lists.                                                              *)

\* What a step does to an event: nothing, a save now, or the purge.
Changes(e) ==
  \/ row'[e] = row[e] /\ changed'[e] = changed[e]
  \/ changed'[e] = clock /\ clock' = clock
  \/ /\ row[e] # None /\ row[e].date < clock /\ row'[e] = None
     /\ changed'[e] = changed[e] /\ clock' = clock

\* No step changes an event otherwise, and the clock never goes back.
LEMMA StepChanges ==
  Typed /\ [Next]_vars => clock' >= clock /\ \A e \in Event : Changes(e)
<1> SUFFICES ASSUME Typed, [Next]_vars
             PROVE  clock' >= clock /\ \A e \in Event : Changes(e)
  OBVIOUS
<1> USE EventCacheAssumption
    DEF Typed, TypeOK, EditorsTyped, store, command, visitor, editor, history, Changes
<1>1. ASSUME NEW r \in Req, ShowCached(r) \/ Ask(r) \/ Query(r) \/ Put(r)
      PROVE  clock' >= clock /\ \A e \in Event : Changes(e)
  BY <1>1 DEF ShowCached, Ask, Query, Put
<1>2. ASSUME NEW w \in Editor, NEW e \in Event, NEW date, NEW poster,
             Create(w, e, date, poster)
      PROVE  clock' >= clock /\ \A d \in Event : Changes(d)
  BY <1>2 DEF Create, Begin
<1>3. ASSUME NEW w \in Editor, NEW e \in Event, NEW input \in Inputs,
             Update(w, e, input) \/ Destroy(w, e)
      PROVE  clock' >= clock /\ \A d \in Event : Changes(d)
  BY <1>3 DEF Update, Destroy, Begin
<1>4. ASSUME NEW w \in Editor, Find(w) \/ Forget(w) \/ Die(w)
      PROVE  clock' >= clock /\ \A e \in Event : Changes(e)
  BY <1>4 DEF Find, Forget, Die
<1>5. ASSUME NEW w \in Editor, Write(w)
      PROVE  clock' >= clock /\ \A e \in Event : Changes(e)
  <2>1. CASE row[item[w]] = None \/ Dirty(w) = {}
    BY <1>5, <2>1 DEF Write
  <2>2. CASE row[item[w]] # None /\ Dirty(w) # {}
    <3>1. PICK new : row' = [row EXCEPT ![item[w]] = new]
      BY <1>5, <2>2 DEF Write
    <3>2. changed' = [changed EXCEPT ![item[w]] = clock] /\ clock' = clock
      BY <1>5, <2>2 DEF Write
    <3> QED
      BY <3>1, <3>2
  <2> QED
    BY <2>1, <2>2
<1>6. ASSUME NEW w \in Editor, Delete(w)
      PROVE  clock' >= clock /\ \A e \in Event : Changes(e)
  BY <1>6 DEF Delete
<1>7. CASE ClearCache \/ Tick \/ UNCHANGED vars
  BY <1>7 DEF ClearCache, Tick, vars
<1>8. CASE PurgeEvents
  BY <1>8 DEF PurgeEvents
<1> QED
  BY <1>1, <1>2, <1>3, <1>4, <1>5, <1>6, <1>7, <1>8 DEF Next

\* A list that is good until end stays so.
LEMMA GoodKept ==
  ASSUME Typed, [Next]_vars,
         NEW rows \in SUBSET (Event \X Row), NEW end \in Nat,
         GoodUntil(rows, end), end <= clock + Day
  PROVE  GoodUntil(rows, end)'
<1>1. ASSUME NEW e \in Event PROVE (Tells(rows, e) \/ end <= changed[e] + Day)'
  <2>1. Changes(e) /\ clock' >= clock
    BY StepChanges
  <2>2. Tells(rows, e) \/ end <= changed[e] + Day
    BY DEF GoodUntil
  <2>3. /\ clock \in Nat /\ clock' \in Nat
        /\ row[e] \in Row \cup {None} /\ row'[e] \in Row \cup {None}
        /\ \A b \in Row : b.date \in Nat
    <3>1. Typed /\ Typed'
      BY NextTyped
    <3>2. /\ clock \in 0 .. MaxTime /\ clock' \in 0 .. MaxTime
          /\ row[e] \in Row \cup {None} /\ row'[e] \in Row \cup {None}
      BY <3>1 DEF Typed, TypeOK
    <3>3. \A b \in Row : b.date \in Nat
      BY EventCacheAssumption DEF Row
    <3> QED
      BY <3>2, <3>3
  <2>4. \A x \in rows : x[2] \in Row
    OBVIOUS
  <2>5. CASE changed'[e] = clock
    BY <2>5
  <2>6. CASE row'[e] = row[e] /\ changed'[e] = changed[e]
    <3>1. ASSUME Tells(rows, e) PROVE Tells(rows, e)'
      BY <2>1, <2>3, <2>4, <2>6, <3>1, NoneIsNoRow DEF Tells
    <3> QED
      BY <2>2, <2>6, <3>1
  <2>7. CASE /\ row[e] # None /\ row[e].date < clock /\ row'[e] = None
             /\ changed'[e] = changed[e] /\ clock' = clock
    <3>1. ASSUME Tells(rows, e) PROVE Tells(rows, e)'
      BY <2>3, <2>4, <2>7, <3>1 DEF Tells
    <3> QED
      BY <2>2, <2>7, <3>1
  <2> QED
    BY <2>1, <2>5, <2>6, <2>7 DEF Changes
<1> QED
  BY <1>1 DEF GoodUntil

\* A list whose query is of now is good for a day.
LEMMA ComingGood ==
  ASSUME Typed, NEW end \in Nat, end <= clock + Day
  PROVE  Coming \in SUBSET (Event \X Row) /\ GoodUntil(Coming, end)
<1>1. Coming \in SUBSET (Event \X Row)
  BY DEF Typed, TypeOK, Coming
<1>2. \A e \in Event : Tells(Coming, e)
  BY DEF Coming, Tells
<1>3. \A x \in Coming : x[2] \in Row /\ x[2].date >= clock
  BY <1>1 DEF Coming
<1>4. ASSUME NEW x \in Coming PROVE end <= x[2].date + Day
  <2>1. x[2] \in Row /\ x[2].date >= clock
    BY <1>3
  <2>2. x[2].date \in Nat
    BY <2>1, EventCacheAssumption DEF Row
  <2>3. clock \in Nat /\ Day \in Nat
    BY EventCacheAssumption DEF Typed, TypeOK
  <2> QED
    BY <2>1, <2>2, <2>3
<1> QED
  BY <1>1, <1>2, <1>4 DEF GoodUntil

\* A bound counted from an earlier time holds from a later one.
LEMMA Later ==
  ASSUME NEW a \in Nat, NEW b \in Nat, NEW d \in Nat, NEW end \in Nat,
         b >= a, end <= a + d
  PROVE  end <= b + d
OBVIOUS

\* Every list, stored or in hand, stays good until its expiry.
LEMMA NextLists == Typed /\ ListsGood /\ [Next]_vars => ListsGood'
<1> SUFFICES ASSUME Typed, ListsGood, [Next]_vars PROVE ListsGood'
  OBVIOUS
<1> DEFINE Good(rows, end) == end <= clock + Day /\ GoodUntil(rows, end)
<1>1. Typed' /\ clock \in Nat /\ clock' \in Nat /\ clock' >= clock /\ Day \in Nat
  <2>1. Typed'
    BY NextTyped
  <2>2. clock \in 0 .. MaxTime /\ clock' \in 0 .. MaxTime
    BY <2>1 DEF Typed, TypeOK
  <2> QED
    BY <2>1, <2>2, StepChanges, EventCacheAssumption
<1>2. ASSUME NEW rows \in SUBSET (Event \X Row), NEW end \in Nat, Good(rows, end)
      PROVE  Good(rows, end)'
  <2>1. GoodUntil(rows, end)'
    BY <1>2, GoodKept
  <2>2. clock \in Nat /\ clock' \in Nat /\ clock' >= clock /\ end <= clock + Day
    BY <1>1, <1>2
  <2>3. end <= clock' + Day
    BY <1>1, <2>2, Later
  <2> QED
    BY <2>1, <2>3
<1>3. ASSUME entry # None
      PROVE  entry.rows \in SUBSET (Event \X Row) /\ entry.exp \in Nat
             /\ Good(entry.rows, entry.exp)
  BY <1>3, EventCacheAssumption DEF Typed, TypeOK, ListsGood
<1>4. ASSUME NEW r \in Req
      PROVE  /\ got[r] \in SUBSET (Event \X Row) /\ exp[r] \in Nat
             /\ pc[r] # "idle" => exp[r] <= clock + Day
             /\ pc[r] = "put" => Good(got[r], exp[r])
  BY EventCacheAssumption DEF Typed, TypeOK, ListsGood
<1> HIDE DEF Good
\* The entry and the lists in hand that a step leaves alone.
<1>5. ASSUME entry' = entry, entry # None
      PROVE  entry'.exp <= clock' + Day /\ Good(entry.rows, entry.exp)'
  <2>1. PICK ro \in SUBSET (Event \X Row), en \in Nat :
          ro = entry.rows /\ en = entry.exp /\ Good(ro, en)
    BY <1>3, <1>5
  <2>2. Good(ro, en)'
    BY <1>2, <2>1
  <2> QED
    BY <1>5, <2>1, <2>2 DEF Good, GoodUntil, Tells
<1>6. ASSUME NEW r \in Req, pc'[r] = pc[r], got'[r] = got[r], exp'[r] = exp[r]
      PROVE  /\ pc'[r] # "idle" => exp'[r] <= clock' + Day
             /\ pc'[r] = "put" => Good(got[r], exp[r])'
  <2>1. pc'[r] # "idle" => exp'[r] <= clock' + Day
    BY <1>1, <1>4, <1>6
  <2>2. ASSUME pc'[r] = "put" PROVE Good(got[r], exp[r])'
    <3>1. PICK ro \in SUBSET (Event \X Row), en \in Nat :
            ro = got[r] /\ en = exp[r] /\ Good(ro, en)
      BY <1>4, <1>6, <2>2
    <3>2. Good(ro, en)'
      BY <1>2, <3>1
    <3> QED
      BY <1>6, <3>1, <3>2 DEF Good, GoodUntil, Tells
  <2> QED
    BY <2>1, <2>2
<1>7. ASSUME entry' # None => entry'.exp <= clock' + Day /\ Good(entry.rows, entry.exp)',
             \A r \in Req : /\ pc'[r] # "idle" => exp'[r] <= clock' + Day
                            /\ pc'[r] = "put" => Good(got[r], exp[r])'
      PROVE  ListsGood'
  BY <1>7 DEF ListsGood, Good
<1> USE DEF store, command, visitor, editor, history
<1>8. CASE UNCHANGED <<pc, got, exp>> /\ entry' \in {entry, None}
  BY <1>5, <1>6, <1>7, <1>8
<1>9. ASSUME NEW r \in Req, Ask(r) PROVE ListsGood'
  <2>1. entry' = entry /\ got' = got /\ clock' = clock /\ pc'[r] = "query"
        /\ exp'[r] = clock + Day
        /\ \A s \in Req \ {r} : pc'[s] = pc[s] /\ got'[s] = got[s] /\ exp'[s] = exp[s]
    BY <1>9 DEF Ask, Typed, TypeOK
  <2> QED
    BY <1>1, <1>5, <1>6, <1>7, <2>1
<1>10. ASSUME NEW r \in Req, Query(r) PROVE ListsGood'
  <2>1. /\ entry' = entry /\ exp' = exp /\ clock' = clock /\ row' = row
        /\ changed' = changed /\ pc[r] = "query" /\ pc'[r] = "put" /\ got'[r] = Coming
        /\ \A s \in Req \ {r} : pc'[s] = pc[s] /\ got'[s] = got[s] /\ exp'[s] = exp[s]
    BY <1>10 DEF Query, Typed, TypeOK
  <2>2. exp[r] \in Nat /\ exp[r] <= clock + Day
    BY <1>4, <2>1
  <2>3. PICK ro \in SUBSET (Event \X Row), en \in Nat :
          ro = Coming /\ en = exp[r] /\ en <= clock + Day /\ GoodUntil(ro, en)
    BY <2>2, ComingGood
  <2>4. Good(got[r], exp[r])'
    BY <2>1, <2>3 DEF Good, GoodUntil, Tells
  <2> QED
    BY <1>1, <1>5, <1>6, <1>7, <2>1, <2>2, <2>4
<1>11. ASSUME NEW r \in Req, Put(r) PROVE ListsGood'
  <2>1. /\ clock' = clock /\ row' = row /\ changed' = changed /\ pc[r] = "put"
        /\ entry' = None \/ entry' = [rows |-> got[r], exp |-> exp[r]]
        /\ pc'[r] = "idle"
        /\ \A s \in Req \ {r} : pc'[s] = pc[s] /\ got'[s] = got[s] /\ exp'[s] = exp[s]
    BY <1>11 DEF Put, Typed, TypeOK
  <2>2. ASSUME entry' # None PROVE Good(entry.rows, entry.exp)'
    <3>1. entry'.rows = got[r] /\ entry'.exp = exp[r]
      BY <2>1, <2>2
    <3>2. PICK ro \in SUBSET (Event \X Row), en \in Nat :
            ro = got[r] /\ en = exp[r] /\ Good(ro, en)
      BY <1>4, <2>1
    <3> QED
      BY <2>1, <3>1, <3>2 DEF Good, GoodUntil, Tells
  <2>3. \A s \in Req \ {r} : /\ pc'[s] # "idle" => exp'[s] <= clock' + Day
                             /\ pc'[s] = "put" => Good(got[s], exp[s])'
    BY <1>6, <2>1
  <2>4. entry' # None => entry'.exp <= clock' + Day
    BY <2>2 DEF Good
  <2> QED
    BY <1>7, <2>1, <2>2, <2>3, <2>4
<1>12. ASSUME NEW r \in Req, ShowCached(r) PROVE ListsGood'
  BY <1>8, <1>12 DEF ShowCached
<1>13. ASSUME NEW w \in Editor, NEW e \in Event,
              \/ \E date \in Dates, poster \in Posters : Create(w, e, date, poster)
              \/ \E input \in Inputs \ {Nothing} : Update(w, e, input)
              \/ Destroy(w, e)
       PROVE  ListsGood'
  BY <1>8, <1>13 DEF Create, Update, Destroy, Begin
<1>14. ASSUME NEW w \in Editor, Find(w) \/ Write(w) \/ Delete(w) \/ Forget(w) \/ Die(w)
       PROVE  ListsGood'
  BY <1>8, <1>14 DEF Find, Write, Delete, Forget, Die
<1>15. CASE ClearCache \/ PurgeEvents \/ Tick \/ UNCHANGED vars
  BY <1>8, <1>15 DEF ClearCache, PurgeEvents, Tick, vars
<1> QED
  BY <1>9, <1>10, <1>11, <1>12, <1>13, <1>14, <1>15 DEF Next

\* What a list says of an event stays true until the event is saved: the purge
\* and the passing of time do not disturb it.
LEMMA TellsStay ==
  ASSUME Typed, [Next]_vars, NEW rows \in SUBSET (Event \X Row), NEW e \in Event,
         Tells(rows, e),
         \/ row'[e] = row[e]
         \/ row[e] # None /\ row[e].date < clock /\ row'[e] = None /\ clock' = clock
  PROVE  Tells(rows, e)'
<1>1. clock' >= clock
  BY StepChanges
<1>2. /\ clock \in Nat /\ clock' \in Nat
      /\ row[e] \in Row \cup {None} /\ row'[e] \in Row \cup {None}
      /\ \A b \in Row : b.date \in Nat
  <2>1. Typed /\ Typed'
    BY NextTyped
  <2>2. /\ clock \in 0 .. MaxTime /\ clock' \in 0 .. MaxTime
        /\ row[e] \in Row \cup {None} /\ row'[e] \in Row \cup {None}
    BY <2>1 DEF Typed, TypeOK
  <2>3. \A b \in Row : b.date \in Nat
    BY EventCacheAssumption DEF Row
  <2> QED
    BY <2>2, <2>3
<1>3. \A x \in rows : x[2] \in Row
  OBVIOUS
<1>4. CASE row'[e] = row[e]
  BY <1>1, <1>2, <1>3, <1>4, NoneIsNoRow DEF Tells
<1>5. CASE row[e] # None /\ row[e].date < clock /\ row'[e] = None /\ clock' = clock
  BY <1>2, <1>3, <1>5 DEF Tells
<1> QED
  BY <1>4, <1>5

\* A list that no save met stays that of the table until the next save's event.
LEMMA NextWhole == Typed /\ ListsWhole /\ [Next]_vars => ListsWhole'
<1> SUFFICES ASSUME Typed, ListsWhole, [Next]_vars PROVE ListsWhole'
  OBVIOUS
<1> DEFINE Whole(rows) == \A e \in Event : Tells(rows, e)
           Stored == entry # None /\ ~raced /\ ~broken /\ ~EventDue
<1>1. ASSUME NEW rows \in SUBSET (Event \X Row), Whole(rows),
             \A e \in Event :
               \/ row'[e] = row[e]
               \/ row[e] # None /\ row[e].date < clock /\ row'[e] = None /\ clock' = clock
      PROVE  Whole(rows)'
  BY <1>1, TellsStay
<1>2. /\ entry # None => entry.rows \in SUBSET (Event \X Row)
      /\ \A r \in Req : got[r] \in SUBSET (Event \X Row)
  BY DEF Typed, TypeOK
<1>3. /\ Stored => Whole(entry.rows)
      /\ \A r \in Req : pc[r] = "put" /\ ~overlap[r] => Whole(got[r])
  BY DEF ListsWhole
<1>4. ASSUME Stored' => Whole(entry.rows)',
             \A r \in Req : pc'[r] = "put" /\ ~overlap'[r] => Whole(got[r])'
      PROVE  ListsWhole'
  BY <1>4 DEF ListsWhole
\* The lists that a step leaves alone while it changes no row but by the purge.
<1> DEFINE Quiet == \A e \in Event :
             \/ row'[e] = row[e]
             \/ row[e] # None /\ row[e].date < clock /\ row'[e] = None /\ clock' = clock
<1>5. ASSUME Quiet, Stored, entry' = entry PROVE Whole(entry.rows)'
  <2>1. PICK ro \in SUBSET (Event \X Row) : ro = entry.rows /\ Whole(ro)
    BY <1>2, <1>3, <1>5
  <2>2. Whole(ro)'
    BY <1>1, <1>5, <2>1
  <2> QED
    BY <1>5, <2>1, <2>2 DEF Tells
<1>6. ASSUME Quiet, NEW r \in Req, pc[r] = "put", ~overlap[r], got'[r] = got[r]
      PROVE  Whole(got[r])'
  <2>1. PICK ro \in SUBSET (Event \X Row) : ro = got[r] /\ Whole(ro)
    BY <1>2, <1>3, <1>6
  <2>2. Whole(ro)'
    BY <1>1, <1>6, <2>1
  <2> QED
    BY <1>6, <2>1, <2>2 DEF Tells
<1> HIDE DEF Whole, Quiet
<1> USE DEF store, command, visitor, editor, history
<1>7. ASSUME Quiet, Stored' => Stored /\ entry' = entry,
             \A r \in Req : pc'[r] = "put" /\ ~overlap'[r] =>
               pc[r] = "put" /\ ~overlap[r] /\ got'[r] = got[r]
      PROVE  ListsWhole'
  BY <1>4, <1>5, <1>6, <1>7
<1>8. ASSUME EventDue', \A r \in Req : pc'[r] = "put" => overlap'[r] PROVE ListsWhole'
  BY <1>4, <1>8
<1>9. ASSUME NEW r \in Req, ShowCached(r) \/ Ask(r) PROVE ListsWhole'
  <2>1. Quiet
    BY <1>9 DEF ShowCached, Ask, Quiet
  <2> QED
    BY <1>7, <1>9, <2>1 DEF ShowCached, Ask, EventDue, Typed, TypeOK
<1>10. ASSUME NEW r \in Req, Query(r) PROVE ListsWhole'
  <2>1. /\ UNCHANGED <<entry, raced, broken, epc, row, clock, overlap>> /\ got'[r] = Coming
        /\ \A s \in Req \ {r} : pc'[s] = pc[s] /\ got'[s] = got[s]
    BY <1>10 DEF Query, Typed, TypeOK
  <2>2. Quiet
    BY <2>1 DEF Quiet
  <2>3. Stored' => Whole(entry.rows)'
    BY <1>5, <2>1, <2>2 DEF EventDue
  <2>4. PICK ro : ro = Coming /\ \A e \in Event : Tells(ro, e)
    <3>1. \A e \in Event : Tells(Coming, e)
      BY DEF Coming, Tells
    <3> QED
      BY <3>1, Zenon
  <2>5. Whole(got[r])'
    BY <2>1, <2>4 DEF Whole, Tells
  <2> QED
    BY <1>4, <1>6, <2>1, <2>2, <2>3, <2>5
<1>11. ASSUME NEW r \in Req, Put(r) PROVE ListsWhole'
  <2>1. /\ UNCHANGED <<broken, epc, row, clock>> /\ pc[r] = "put" /\ pc'[r] = "idle"
        /\ (raced' <=> overlap[r])
        /\ entry' = None \/ entry' = [rows |-> got[r], exp |-> exp[r]]
        /\ \A s \in Req \ {r} : /\ pc'[s] = pc[s] /\ got'[s] = got[s]
                                /\ overlap'[s] <=> overlap[s]
    BY <1>11 DEF Put, Typed, TypeOK
  <2>2. Quiet
    BY <2>1 DEF Quiet
  <2>3. ASSUME Stored' PROVE Whole(entry.rows)'
    <3>1. entry'.rows = got[r] /\ ~overlap[r]
      BY <2>1, <2>3
    <3>2. PICK ro : ro = got[r] /\ Whole(ro)
      BY <1>3, <2>1, <3>1
    <3> QED
      BY <2>1, <3>1, <3>2 DEF Whole, Tells
  <2> QED
    BY <1>4, <1>6, <2>1, <2>2, <2>3
<1>12. ASSUME NEW w \in Editor, NEW e \in Event, NEW date, NEW poster,
              Create(w, e, date, poster)
       PROVE  ListsWhole'
  <2>1. EventDue'
    BY <1>12 DEF Create, Begin, EventDue, Typed, TypeOK
  <2> QED
    BY <1>8, <1>12, <2>1 DEF Create, Begin, Disturb
<1>13. ASSUME NEW w \in Editor, NEW e \in Event, NEW input, Update(w, e, input) \/ Destroy(w, e)
       PROVE  ListsWhole'
  <2>1. Quiet /\ (EventDue => EventDue')
    BY <1>13 DEF Update, Destroy, Begin, Quiet, EventDue, Typed, TypeOK
  <2> QED
    BY <1>7, <1>13, <2>1 DEF Update, Destroy, Begin
<1>14. ASSUME NEW w \in Editor, Find(w) PROVE ListsWhole'
  <2>1. Quiet /\ (EventDue => EventDue')
    BY <1>14 DEF Find, Finish, Quiet, EventDue, Typed, TypeOK
  <2> QED
    BY <1>7, <1>14, <2>1 DEF Find
<1>15. ASSUME NEW w \in Editor, Write(w) PROVE ListsWhole'
  <2>1. CASE row[item[w]] = None \/ Dirty(w) = {}
    <3>1. Quiet /\ UNCHANGED <<overlap, raced, broken, entry, pc, got>>
      BY <1>15, <2>1 DEF Write, Quiet
    <3>2. EventDue => EventDue'
      BY <1>15 DEF Write, Finish, EventDue, Typed, TypeOK
    <3> QED
      BY <1>7, <3>1, <3>2
  <2>2. CASE row[item[w]] # None /\ Dirty(w) # {}
    <3>1. EventDue'
      BY <1>15, <2>2 DEF Write, EventDue, Typed, TypeOK
    <3>2. Disturb /\ UNCHANGED pc
      BY <1>15, <2>2 DEF Write
    <3> QED
      BY <1>8, <3>1, <3>2 DEF Disturb
  <2> QED
    BY <2>1, <2>2
<1>16. ASSUME NEW w \in Editor, Delete(w) PROVE ListsWhole'
  <2>1. CASE row[item[w]] = None
    <3>1. Quiet /\ UNCHANGED <<history, entry, pc, got>>
      BY <1>16, <2>1 DEF Delete, Quiet
    <3>2. EventDue => EventDue'
      BY <1>16, <2>1 DEF Delete, Finish, EventDue, Typed, TypeOK
    <3> QED
      BY <1>7, <3>1, <3>2
  <2>2. CASE row[item[w]] # None
    <3>1. EventDue'
      BY <1>16, <2>2 DEF Delete, EventDue, Typed, TypeOK
    <3>2. Disturb /\ UNCHANGED pc
      BY <1>16, <2>2 DEF Delete
    <3> QED
      BY <1>8, <3>1, <3>2 DEF Disturb
  <2> QED
    BY <2>1, <2>2
<1>17. ASSUME NEW w \in Editor, Forget(w) PROVE ListsWhole'
  <2>1. Quiet
    BY <1>17 DEF Forget, Quiet
  <2> QED
    BY <1>7, <1>17, <2>1 DEF Forget
<1>18. ASSUME NEW w \in Editor, Die(w) PROVE ListsWhole'
  <2>1. Quiet /\ (EventDue => EventDue' \/ broken')
    BY <1>18 DEF Die, Finish, Quiet, EventDue, Typed, TypeOK
  <2>2. broken => broken'
    BY <1>18 DEF Die
  <2> QED
    BY <1>7, <1>18, <2>1, <2>2 DEF Die
<1>19. CASE ClearCache \/ PurgeEvents \/ Tick \/ UNCHANGED vars
  <2>1. Quiet
    BY <1>19 DEF ClearCache, PurgeEvents, Tick, vars, Quiet, Typed, TypeOK
  <2> QED
    BY <1>7, <1>19, <2>1 DEF ClearCache, PurgeEvents, Tick, vars, EventDue
<1> QED
  BY <1>9, <1>10, <1>11, <1>12, <1>13, <1>14, <1>15, <1>16, <1>17, <1>18, <1>19 DEF Next

-----------------------------------------------------------------------------
(* The columns.                                                            *)

\* An id is given once, so that the row an update read is the row it writes.
LEMMA NextIds == Typed /\ IdsGivenOnce /\ [Next]_vars => IdsGivenOnce'
<1> SUFFICES ASSUME Typed, IdsGivenOnce, [Next]_vars PROVE IdsGivenOnce'
  OBVIOUS
<1> USE EventCacheAssumption, NoneIsNoRow
    DEF Typed, TypeOK, EditorsTyped, IdsGivenOnce, store, command, visitor, editor, history
<1>1. ASSUME NEW r \in Req, ShowCached(r) \/ Ask(r) \/ Query(r) \/ Put(r)
      PROVE  IdsGivenOnce'
  BY <1>1 DEF ShowCached, Ask, Query, Put
<1>2. ASSUME NEW w \in Editor, NEW e \in Event, NEW date \in Dates, NEW poster \in Posters,
             Create(w, e, date, poster)
      PROVE  IdsGivenOnce'
  BY <1>2 DEF Create, Begin
<1>3. ASSUME NEW w \in Editor, NEW e \in Event, NEW input \in Inputs,
             Update(w, e, input) \/ Destroy(w, e)
      PROVE  IdsGivenOnce'
  BY <1>3 DEF Update, Destroy, Begin
<1>4. ASSUME NEW w \in Editor, Find(w) \/ Forget(w) \/ Die(w)
      PROVE  IdsGivenOnce'
  <2>1. born' = born /\ row' = row
    BY <1>4 DEF Find, Forget, Die
  <2>2. \A v \in Editor : item'[v] \in Event => item'[v] = item[v]
    <3>1. item' = item \/ item' = [item EXCEPT ![w] = None]
      <4>1. CASE Find(w)
        BY <4>1 DEF Find, Finish
      <4>2. CASE Forget(w)
        BY <4>2 DEF Forget, Finish
      <4>3. CASE Die(w)
        BY <4>3 DEF Die, Finish
      <4> QED
        BY <1>4, <4>1, <4>2, <4>3
    <3> QED
      BY <3>1, EventCacheAssumption
  <2> QED
    BY <2>1, <2>2
<1>5. ASSUME NEW w \in Editor, Write(w) \/ Delete(w)
      PROVE  IdsGivenOnce'
  <2>1. born' = born
    BY <1>5 DEF Write, Delete
  <2>2. \A v \in Editor : item'[v] \in Event => item'[v] = item[v]
    <3>1. item' = item \/ item' = [item EXCEPT ![w] = None]
      <4>1. CASE Write(w)
        BY <4>1 DEF Write, Finish
      <4>2. CASE Delete(w)
        BY <4>2 DEF Delete, Finish
      <4> QED
        BY <1>5, <4>1, <4>2
    <3> QED
      BY <3>1, EventCacheAssumption
  <2>3. \A e \in Event : row'[e] # None => row[e] # None
    <3>1. CASE Write(w)
      <4>1. CASE row[item[w]] = None \/ Dirty(w) = {}
        BY <3>1, <4>1 DEF Write
      <4>2. CASE row[item[w]] # None /\ Dirty(w) # {}
        <5>1. PICK new : row' = [row EXCEPT ![item[w]] = new]
          BY <3>1, <4>2 DEF Write
        <5> QED
          BY <4>2, <5>1
      <4> QED
        BY <4>1, <4>2
    <3>2. CASE Delete(w)
      BY <3>2 DEF Delete
    <3> QED
      BY <1>5, <3>1, <3>2
  <2> QED
    BY <2>1, <2>2, <2>3
<1>6. CASE ClearCache \/ PurgeEvents \/ Tick \/ UNCHANGED vars
  BY <1>6 DEF ClearCache, PurgeEvents, Tick, vars
<1> QED
  BY <1>1, <1>2, <1>3, <1>4, <1>5, <1>6 DEF Next

\* What an update that no write crossed writes, and what it means to: the columns
\* that it names and does not write hold what it gives them already.
LEMMA SaysAll ==
  ASSUME Typed, OnlyNamed, NEW w \in Editor, epc[w] = "write",
         row[item[w]] # None, ~crossed[item[w]]
  PROVE  Merge(Dirty(w), filled[w], row[item[w]]) = Merge(Named(asked[w]), filled[w], row[item[w]])
<1>1. Dirty(w) \subseteq Named(asked[w])
  BY DEF OnlyNamed, Dirty, Typed, EditorsTyped
<1>2. ASSUME NEW c \in Named(asked[w]) \ Dirty(w) PROVE filled[w][c] = row[item[w]][c]
  <2>1. read[w] = row[item[w]]
    BY <1>2 DEF OnlyNamed, Typed, EditorsTyped
  <2> QED
    BY <1>2, <2>1 DEF Dirty, Named
<1> QED
  BY <1>1, <1>2 DEF Merge

\* Every step keeps the columns that no request names, and what the table owes them.
LEMMA NextColumns ==
  Typed /\ IdsGivenOnce /\ OnlyNamed /\ ColumnsKept /\ [Next]_vars
    => OnlyNamed' /\ ColumnsKept'
<1> SUFFICES ASSUME Typed, IdsGivenOnce, OnlyNamed, ColumnsKept, [Next]_vars
             PROVE  OnlyNamed' /\ ColumnsKept'
  OBVIOUS
<1> USE EventCacheAssumption, NoneIsNoRow
    DEF Typed, TypeOK, EditorsTyped, MeantTyped, store, command, visitor, editor, history
\* What a step that writes no column does to the editors and to the rows.
<1> DEFINE Keeps(v) == item'[v] \in Event =>
                         /\ item'[v] = item[v] /\ asked'[v] = asked[v]
                         /\ filled'[v] = filled[v] /\ read'[v] = read[v]
                         /\ epc'[v] \in {epc[v], "event"}
           Rows == \A e \in Event : /\ crossed'[e] = crossed[e] /\ meant'[e] = meant[e]
                                    /\ row'[e] \in {row[e], None}
           Only(v) == item[v] \in Event =>
                        \/ crossed[item[v]]
                        \/ /\ \A c \in Columns \ Named(asked[v]) :
                                /\ epc[v] = "find" /\ row[item[v]] # None
                                     => filled[v][c] = row[item[v]][c]
                                /\ epc[v] = "write" => filled[v][c] = read[v][c]
                           /\ epc[v] = "write" /\ row[item[v]] # None =>
                                \/ Named(asked[v]) \subseteq Dirty(v)
                                \/ read[v] = row[item[v]]
<1>a. ASSUME NEW v \in Editor, Keeps(v), item'[v] = item[v] /\ item[v] \in Event =>
               /\ row'[item[v]] \in {row[item[v]], None}
               /\ crossed'[item[v]] = crossed[item[v]]
      PROVE  Only(v)'
  <2> SUFFICES ASSUME item'[v] \in Event, ~crossed'[item'[v]] PROVE Only(v)'
    OBVIOUS
  <2>1. /\ item'[v] = item[v] /\ asked'[v] = asked[v] /\ filled'[v] = filled[v]
        /\ read'[v] = read[v] /\ epc'[v] \in {epc[v], "event"}
        /\ ~crossed[item[v]] /\ row'[item[v]] \in {row[item[v]], None}
    BY <1>a
  <2>2. Only(v)
    BY DEF OnlyNamed
  <2>3. Dirty(v)' = Dirty(v) /\ Named(asked[v])' = Named(asked[v])
    BY <2>1 DEF Dirty, Named
  <2> QED
    BY <2>1, <2>2, <2>3
<1>b. (\A v \in Editor : Only(v)') => OnlyNamed'
  BY DEF OnlyNamed
<1>1. ASSUME Rows, \A v \in Editor : Keeps(v) PROVE OnlyNamed' /\ ColumnsKept'
  <2>1. ColumnsKept'
    BY <1>1 DEF ColumnsKept
  <2>2. ASSUME NEW v \in Editor PROVE Only(v)'
    BY <1>1, <1>a
  <2> QED
    BY <1>b, <2>1, <2>2
\* An editor that ends its request, or only takes a step.
<1>2. ASSUME NEW w \in Editor, Finish(w) PROVE \A v \in Editor : Keeps(v)
  BY <1>2 DEF Finish
<1>3. ASSUME NEW w \in Editor, epc' = [epc EXCEPT ![w] = "event"],
             UNCHANGED <<item, asked, filled, read>>
      PROVE  \A v \in Editor : Keeps(v)
  BY <1>3
<1>4. ASSUME UNCHANGED editor PROVE \A v \in Editor : Keeps(v)
  BY <1>4
<1> HIDE DEF Keeps
<1>5. ASSUME UNCHANGED <<row, meant, crossed>> PROVE Rows
  BY <1>5
<1>6. ASSUME NEW r \in Req, ShowCached(r) \/ Ask(r) \/ Query(r) \/ Put(r)
      PROVE  OnlyNamed' /\ ColumnsKept'
  <2>1. UNCHANGED <<editor, row, meant, crossed>>
    BY <1>6 DEF ShowCached, Ask, Query, Put
  <2> QED
    BY <1>1, <1>4, <1>5, <2>1
<1>7. ASSUME NEW w \in Editor, Forget(w) \/ Die(w) PROVE OnlyNamed' /\ ColumnsKept'
  <2>1. UNCHANGED <<row, meant, crossed>> /\ Finish(w)
    BY <1>7 DEF Forget, Die
  <2> QED
    BY <1>1, <1>2, <1>5, <2>1
<1>8. ASSUME NEW w \in Editor, Delete(w) PROVE OnlyNamed' /\ ColumnsKept'
  <2>1. CASE row[item[w]] = None
    BY <1>1, <1>2, <1>5, <1>8, <2>1 DEF Delete
  <2>2. CASE row[item[w]] # None
    <3>1. \A v \in Editor : Keeps(v)
      BY <1>3, <1>8, <2>2 DEF Delete
    <3>2. row' = [row EXCEPT ![item[w]] = None] /\ UNCHANGED <<meant, crossed>>
      BY <1>8, <2>2 DEF Delete
    <3>3. Rows
      BY <3>2
    <3> QED
      BY <1>1, <3>1, <3>3
  <2> QED
    BY <2>1, <2>2
<1>9. CASE ClearCache \/ Tick \/ UNCHANGED vars
  <2>1. UNCHANGED <<editor, row, meant, crossed>>
    BY <1>9 DEF ClearCache, Tick, vars
  <2> QED
    BY <1>1, <1>4, <1>5, <2>1
<1>10. CASE PurgeEvents
  <2>1. UNCHANGED <<editor, meant, crossed>>
    BY <1>10 DEF PurgeEvents
  <2>2. \A e \in Event : row'[e] \in {row[e], None}
    BY <1>10 DEF PurgeEvents
  <2> QED
    BY <1>1, <1>4, <2>1, <2>2
<1>11. ASSUME NEW w \in Editor, NEW e \in Event, NEW date \in Dates, NEW poster \in Posters,
              Create(w, e, date, poster)
       PROVE  OnlyNamed' /\ ColumnsKept'
  <2> DEFINE new == Made(date, poster)
  <2>1. /\ e \notin born
        /\ row' = [row EXCEPT ![e] = new] /\ meant' = [meant EXCEPT ![e] = new]
        /\ crossed' = crossed
        /\ epc' = [epc EXCEPT ![w] = "event"] /\ item' = [item EXCEPT ![w] = e]
        /\ UNCHANGED <<asked, filled, read>>
    BY <1>11 DEF Create, Begin
  <2>2. ColumnsKept'
    BY <2>1 DEF ColumnsKept
  <2>3. Only(w)'
    BY <2>1
  <2>4. ASSUME NEW v \in Editor \ {w} PROVE Only(v)'
    <3>1. Keeps(v)
      BY <2>1 DEF Keeps
    <3>2. item[v] \in Event => row'[item[v]] = row[item[v]]
      BY <2>1 DEF IdsGivenOnce
    <3> QED
      BY <1>a, <2>1, <3>1, <3>2
  <2> QED
    BY <1>b, <2>2, <2>3, <2>4
<1>12. ASSUME NEW w \in Editor, NEW e \in Event, NEW input \in Inputs,
              Update(w, e, input) \/ Destroy(w, e)
       PROVE  OnlyNamed' /\ ColumnsKept'
  <2>1. /\ UNCHANGED <<row, meant, crossed, read>> /\ item' = [item EXCEPT ![w] = e]
        /\ \A v \in Editor \ {w} :
             epc'[v] = epc[v] /\ asked'[v] = asked[v] /\ filled'[v] = filled[v]
    BY <1>12 DEF Update, Destroy, Begin
  <2>2. ColumnsKept'
    BY <2>1 DEF ColumnsKept
  <2>3. Only(w)'
    <3>1. CASE Destroy(w, e)
      BY <3>1 DEF Destroy, Begin
    <3>2. CASE Update(w, e, input)
      <4>1. /\ item'[w] = e /\ epc'[w] = "find" /\ asked'[w] = input
            /\ filled'[w] = Fill(input, row[e]) /\ row[e] # None
        BY <3>2 DEF Update, Begin
      <4>2. ASSUME NEW c \in Columns \ Named(input), ~crossed[e]
            PROVE  filled'[w][c] = row[e][c]
        <5>1. row[e].width = Width[row[e].poster]
          BY <4>1, <4>2 DEF ColumnsKept
        <5>2. c \in {"date", "poster", "width"}
          BY DEF Columns
        <5> QED
          BY <4>1, <4>2, <5>1, <5>2 DEF Fill, Made, Named, Columns
      <4> QED
        BY <2>1, <4>1, <4>2 DEF Named
    <3> QED
      BY <1>12, <3>1, <3>2
  <2>4. ASSUME NEW v \in Editor \ {w} PROVE Only(v)'
    <3>1. Keeps(v)
      BY <2>1 DEF Keeps
    <3> QED
      BY <1>a, <2>1, <3>1
  <2> QED
    BY <1>b, <2>2, <2>3, <2>4
<1>13. ASSUME NEW w \in Editor, Find(w) PROVE OnlyNamed' /\ ColumnsKept'
  <2>1. UNCHANGED <<row, meant, crossed>>
    BY <1>13 DEF Find
  <2>2. CASE row[item[w]] = None
    BY <1>1, <1>2, <1>5, <1>13, <2>1, <2>2 DEF Find
  <2>3. CASE row[item[w]] # None
    <3>1. /\ epc[w] = "find" /\ epc' = [epc EXCEPT ![w] = "write"]
          /\ read' = [read EXCEPT ![w] = row[item[w]]]
          /\ UNCHANGED <<item, asked, filled>>
      BY <1>13, <2>3 DEF Find
    <3>2. ColumnsKept'
      BY <2>1 DEF ColumnsKept
    <3>3. Only(w)'
      <4>1. read'[w] = row'[item'[w]] /\ epc'[w] = "write"
        BY <2>1, <3>1
      <4>2. item'[w] = item[w] /\ asked'[w] = asked[w] /\ filled'[w] = filled[w]
            /\ read'[w] = row[item[w]] /\ crossed' = crossed
        BY <2>1, <3>1
      <4>3. Named(asked[w])' = Named(asked[w])
        BY <4>2 DEF Named
      <4>4. Only(w)
        BY DEF OnlyNamed
      <4> QED
        BY <2>3, <3>1, <4>1, <4>2, <4>3, <4>4
    <3>4. ASSUME NEW v \in Editor \ {w} PROVE Only(v)'
      <4>1. Keeps(v)
        BY <3>1 DEF Keeps
      <4> QED
        BY <1>a, <2>1, <4>1
    <3> QED
      BY <1>b, <3>2, <3>3, <3>4
  <2> QED
    BY <2>2, <2>3
<1>14. ASSUME NEW w \in Editor, Write(w) PROVE OnlyNamed' /\ ColumnsKept'
  <2> DEFINE e == item[w]
             new == Merge(Dirty(w), filled[w], row[e])
             named == Merge(Named(asked[w]), filled[w], meant[e])
  <2>1. epc[w] = "write" /\ e \in Event
    BY <1>14 DEF Write
  <2>2. \A v \in Editor : Keeps(v)
    <3>1. CASE Dirty(w) = {}
      BY <1>2, <1>14, <3>1 DEF Write
    <3>2. CASE Dirty(w) # {}
      BY <1>3, <1>14, <3>2 DEF Write
    <3> QED
      BY <3>1, <3>2
  <2>3. CASE row[e] = None
    <3>1. UNCHANGED <<row, meant, crossed>>
      BY <1>14, <2>3 DEF Write
    <3> QED
      BY <1>1, <1>5, <2>2, <3>1
  <2>4. ASSUME row[e] # None, ~crossed[e] PROVE row[e] = meant[e] /\ new = named
    <3>1. row[e] = meant[e]
      BY <2>1, <2>4 DEF ColumnsKept
    <3> QED
      BY <2>1, <2>4, <3>1, SaysAll
  <2>5. CASE row[e] # None /\ Dirty(w) = {}
    <3>1. /\ meant' = [meant EXCEPT ![e] = named]
          /\ UNCHANGED <<row, crossed>>
      BY <1>14, <2>5 DEF Write
    <3>2. new = row[e]
      BY <2>1, <2>5 DEF Merge, Row
    <3> HIDE DEF new, named
    <3>3. ColumnsKept'
      BY <2>1, <2>4, <2>5, <3>1, <3>2 DEF ColumnsKept
    <3>4. ASSUME NEW v \in Editor PROVE Only(v)'
      BY <1>a, <2>2, <3>1
    <3> QED
      BY <1>b, <3>3, <3>4
  <2>6. CASE row[e] # None /\ Dirty(w) # {}
    <3>1. /\ row' = [row EXCEPT ![e] = new]
          /\ meant' = [meant EXCEPT ![e] = named]
          /\ crossed' = [crossed EXCEPT ![e] = @ \/ Exposed(w, e)]
          /\ epc' = [epc EXCEPT ![w] = "event"]
          /\ UNCHANGED <<item, asked, filled, read>>
      BY <1>14, <2>6 DEF Write
    <3> HIDE DEF new, named
    <3>2. ColumnsKept'
      BY <2>1, <2>4, <2>6, <3>1 DEF ColumnsKept
    <3>3. Only(w)'
      BY <2>1, <3>1
    <3>4. ASSUME NEW v \in Editor \ {w} PROVE Only(v)'
      <4>1. CASE item[v] = e /\ Exposed(w, e)
        BY <2>1, <3>1, <4>1
      <4>2. CASE item[v] = e /\ ~Exposed(w, e)
        <5>1. /\ epc[v] # "find"
              /\ epc[v] = "write" => Named(asked[v]) \subseteq Dirty(v)
          BY <4>2 DEF Exposed
        <5>2. UNCHANGED <<item[v], asked[v], filled[v], read[v], epc[v]>>
          BY <3>1
        <5>3. Dirty(v)' = Dirty(v) /\ Named(asked[v])' = Named(asked[v])
          BY <5>2 DEF Dirty, Named
        <5>4. crossed'[e] = crossed[e]
          BY <2>1, <3>1, <4>2
        <5>5. Only(v)
          BY DEF OnlyNamed
        <5> QED
          BY <4>2, <5>1, <5>2, <5>3, <5>4, <5>5
      <4>3. CASE item[v] # e
        BY <1>a, <2>1, <2>2, <3>1, <4>3
      <4> QED
        BY <4>1, <4>2, <4>3
    <3> QED
      BY <1>b, <3>2, <3>3, <3>4
  <2> QED
    BY <2>3, <2>5, <2>6
<1> QED
  BY <1>6, <1>7, <1>8, <1>9, <1>10, <1>11, <1>12, <1>13, <1>14 DEF Next

-----------------------------------------------------------------------------
(* The theorems.                                                           *)

\* The invariant holds.
LEMMA Invariance == Spec => []IInv
<1>1. Init => IInv
  <2> SUFFICES ASSUME Init PROVE IInv
    OBVIOUS
  <2>1. Typed
    BY InitTyped
  <2>2. ListsGood /\ ListsWhole /\ IdsGivenOnce /\ OnlyNamed /\ ColumnsKept
    BY EventCacheAssumption
       DEF Init, ListsGood, ListsWhole, IdsGivenOnce, OnlyNamed, ColumnsKept
  <2> QED
    BY <2>1, <2>2 DEF IInv, Typed
<1>2. IInv /\ [Next]_vars => IInv'
  BY NextTyped, NextLists, NextWhole, NextIds, NextColumns DEF IInv, Typed
<1> QED
  BY <1>1, <1>2, PTL DEF Spec

\* Every variable stays in its type, whatever requests and deaths interleave.
THEOREM TypeCorrect == Spec => []TypeOK
<1>1. IInv => TypeOK
  BY DEF IInv
<1> QED
  BY <1>1, Invariance, PTL

\* A cached list is wrong about an event for less than a day after its last save.
THEOREM ListsHeal == Spec => []WrongForLessThanADay
<1>1. IInv => WrongForLessThanADay
  <2> SUFFICES ASSUME IInv, Present, NEW e \in Event
               PROVE  Tells(entry.rows, e) \/ clock < changed[e] + Day
    BY DEF WrongForLessThanADay
  <2>1. /\ entry.exp \in Nat /\ clock \in Nat /\ changed[e] \in Nat /\ Day \in Nat
        /\ clock < entry.exp
    BY EventCacheAssumption DEF IInv, TypeOK, Present
  <2>2. Tells(entry.rows, e) \/ entry.exp <= changed[e] + Day
    BY DEF IInv, ListsGood, GoodUntil, Present
  <2> QED
    BY <2>1, <2>2
<1> QED
  BY <1>1, Invariance, PTL

\* No event is shown a day after its time.
THEOREM PassedLeave == Spec => []PassedBounded
<1>1. IInv => PassedBounded
  <2> SUFFICES ASSUME IInv, Present, NEW x \in entry.rows
               PROVE  clock < x[2].date + Day
    BY DEF PassedBounded, Served
  <2>1. /\ entry.exp \in Nat /\ clock \in Nat /\ x[2] \in Row /\ Day \in Nat
        /\ clock < entry.exp
    BY EventCacheAssumption DEF IInv, TypeOK, Present
  <2>2. entry.exp <= x[2].date + Day
    BY DEF IInv, ListsGood, GoodUntil, Present
  <2>3. x[2].date \in Nat
    BY <2>1, EventCacheAssumption DEF Row
  <2> QED
    BY <2>1, <2>2, <2>3
<1> QED
  BY <1>1, Invariance, PTL

\* Between the saves and their events a cached list is that of the table, unless
\* it was filled across a save or a request died before its event (Evenement.php
\* 24-35, EvenementRepository 79-85).
THEOREM WrongOnlyByRace == Spec => []ListWrongOnlyByRace
<1>1. IInv => ListWrongOnlyByRace
  BY DEF IInv, ListsWhole, ListWrongOnlyByRace, Present
<1> QED
  BY <1>1, Invariance, PTL

\* Updates that overlap lose a column only by a write before the second read of
\* one of them, or before the UPDATE of one that found a column it names as it
\* wants it.
THEOREM ColumnsSurvive == Spec => []ColumnsKept
<1>1. IInv => ColumnsKept
  BY DEF IInv
<1> QED
  BY <1>1, Invariance, PTL

=============================================================================
