-------------------------- MODULE VideoCacheProofs --------------------------
(***************************************************************************)
(* For any visitors, videos, types and number of edits: outside the races  *)
(* named in the properties, a list of videos is complete and a page that   *)
(* asks for one of a type that has videos is given some.                   *)
(***************************************************************************)
EXTENDS VideoCache, TLAPS

USE VideoCacheAssumption

-----------------------------------------------------------------------------
(* Types.                                                                  *)

\* The variables have their types at first.
LEMMA InitTyped == Init => TypeOK
BY DEF Init, TypeOK

\* What an edit writes.
LEMMA EditTyped ==
  ASSUME TypeOK, NEW v \in Video, NEW type \in Type \cup {None},
         NEW forgets \in Type \cup {None}, Edit(v, type, forgets),
         moved' \in [Type -> SUBSET Video], last' \in Nat
  PROVE  TypeOK'
<1> USE DEF TypeOK, Edit, Witness, request
<1>1. edits' \in 0 .. MaxEdits /\ event' \in [1 .. MaxEdits -> Type \cup {None}]
  OBVIOUS
<1>2. overlap' \in [Req -> BOOLEAN] /\ due' \in [Req -> BOOLEAN]
  OBVIOUS
<1>3. video' \in [Video -> Type \cup {None}]
  OBVIOUS
<1> QED
  BY <1>1, <1>2, <1>3

\* The newest of some videos are some of them.
LEMMA NewestOf == ASSUME NEW t PROVE Videos(t) \subseteq Video /\ Newest(Videos(t), 1) \subseteq Video
BY DEF Videos, Newest

\* Every step keeps the types.
LEMMA NextTyped == TypeOK /\ [Next]_vars => TypeOK'
<1> SUFFICES ASSUME TypeOK, [Next]_vars PROVE TypeOK'
  OBVIOUS
<1> USE DEF TypeOK, table, store, editors, request, history
<1>1. ASSUME NEW r \in Req, NEW k \in Kinds, NEW t \in Type, Visit(r, k, t)
      PROVE  TypeOK'
  <2>1. due' \in [Req -> BOOLEAN]
    BY <1>1 DEF Visit
  <2>2. pc' \in [Req -> {"idle", "has", "ask", "query", "put", "get", "done"}]
    BY <1>1 DEF Visit, Goto
  <2>3. /\ kind' \in [Req -> Kinds \cup {None}] /\ want' \in [Req -> Type \cup {None}]
        /\ \A q \in Req : pc'[q] # "idle" => kind'[q] \in Kinds /\ want'[q] \in Type
    BY <1>1 DEF Visit, Goto
  <2> QED
    BY <1>1, <2>1, <2>2, <2>3 DEF Visit
<1>2. ASSUME NEW r \in Req, Has(r) PROVE TypeOK'
  BY <1>2 DEF Has, Goto
<1>3. ASSUME NEW r \in Req, Ask(r) PROVE TypeOK'
  <2>1. kind[r] \in Kinds /\ want[r] \in Type
    BY <1>3 DEF Ask, Goto
  <2>3. overlap' \in [Req -> BOOLEAN]
    BY <1>3 DEF Ask
  <2>4. pc' \in [Req -> {"idle", "has", "ask", "query", "put", "get", "done"}]
    BY <1>3 DEF Ask, Goto
  <2>5. \A q \in Req : pc'[q] # "idle" => pc[q] # "idle"
    BY <1>3 DEF Ask, Goto
  <2> QED
    BY <1>3, <2>3, <2>4, <2>5 DEF Ask
<1>4. ASSUME NEW r \in Req, Query(r) PROVE TypeOK'
  <2>1. got' \in [Req -> SUBSET Video]
    BY <1>4, NewestOf DEF Query
  <2> QED
    BY <1>4, <2>1 DEF Query, Goto
<1>5. ASSUME NEW r \in Req, Put(r) PROVE TypeOK'
  <2>1. kind[r] \in Kinds /\ want[r] \in Type
    BY <1>5 DEF Put, Goto
  <2>2. First(got[r]) \in Video \cup {None}
    BY DEF First
  <2>3. list' \in [Type -> {None} \cup SUBSET Video] /\ one' \in [Type -> Video \cup {None}]
    BY <1>5, <2>1, <2>2 DEF Put
  <2>4. /\ raced' \in [Type -> BOOLEAN] /\ moved' \in [Type -> SUBSET Video]
        /\ overlap' \in [Req -> BOOLEAN]
    BY <1>5, <2>1 DEF Put
  <2>5. got' \in [Req -> SUBSET Video]
    BY <1>5 DEF Put
  <2>6. pc' \in [Req -> {"idle", "has", "ask", "query", "put", "get", "done"}]
    BY <1>5 DEF Put, Goto
  <2>7. \A q \in Req : pc'[q] # "idle" => pc[q] # "idle"
    BY <1>5 DEF Put, Goto
  <2> QED
    BY <1>5, <2>3, <2>4, <2>5, <2>6, <2>7 DEF Put
<1>6. ASSUME NEW r \in Req, Get(r) PROVE TypeOK'
  <2>1. want[r] \in Type
    BY <1>6 DEF Get, Goto
  <2>2. answer' \in [Req -> SUBSET Video] /\ due' \in [Req -> BOOLEAN]
    BY <1>6, <2>1 DEF Get
  <2> QED
    BY <1>6, <2>2 DEF Get, Goto
<1>7. ASSUME NEW r \in Req, Respond(r) PROVE TypeOK'
  BY <1>7 DEF Respond, Goto
<1>8. ASSUME NEW v \in Video, NEW t \in Type, Create(v, t) PROVE TypeOK'
  BY <1>8, EditTyped DEF Create
<1>9. ASSUME NEW v \in Video, NEW t \in Type, Update(v, t) PROVE TypeOK'
  <2>1. moved' \in [Type -> SUBSET Video] /\ last' \in Nat
    BY <1>9 DEF Update
  <2> QED
    BY <1>9, <2>1, EditTyped DEF Update
<1>10. ASSUME NEW v \in Video, Delete(v) PROVE TypeOK'
  BY <1>10, EditTyped DEF Delete
<1>11. ASSUME NEW n \in 1 .. MaxEdits, RunEvent(n) PROVE TypeOK'
  <2>1. list' \in [Type -> {None} \cup SUBSET Video] /\ due' \in [Req -> BOOLEAN]
    BY <1>11 DEF RunEvent, Forget
  <2> QED
    BY <1>11, <2>1 DEF RunEvent, Forget
<1>12. ASSUME NEW t \in Type, ExpireList(t) PROVE TypeOK'
  BY <1>12 DEF ExpireList, Forget
<1>13. ASSUME NEW t \in Type, ExpireOne(t) PROVE TypeOK'
  BY <1>13 DEF ExpireOne
<1>14. CASE UNCHANGED vars
  BY <1>14 DEF vars
<1> QED
  BY <1>1, <1>2, <1>3, <1>4, <1>5, <1>6, <1>7, <1>8, <1>9, <1>10, <1>11, <1>12,
     <1>13, <1>14 DEF Next

-----------------------------------------------------------------------------
(* What steps do.                                                          *)

\* An edit is under way in the table, in the queue of events and in the history
\* of the requests that are filling.
LEMMA EditStep ==
  ASSUME TypeOK, Ahead, NEW v \in Video,
         (\E t \in Type : Create(v, t) \/ Update(v, t)) \/ Delete(v)
  PROVE  /\ UNCHANGED <<list, one, request, raced>> /\ Ahead'
         /\ \A t \in Type : Pending(t) => Pending(t)'
         /\ \A t \in Type : moved[t] \subseteq moved'[t]
         /\ \A t \in Type : ~Pending(t)' =>
              \A x \in Video : \/ video'[x] = t <=> video[x] = t
                               \/ x \in moved'[t] \/ list[t] = None
         /\ \A r \in Req : pc[r] \in {"query", "put"} /\ kind[r] # "one" => overlap'[r]
         /\ \A r \in Req : due'[r] => due[r] /\ Videos(want[r])' # {}
<1>1. PICK type \in Type \cup {None}, forgets \in Type \cup {None} :
        /\ Edit(v, type, forgets) /\ \A t \in Type : moved[t] \subseteq moved'[t]
        /\ \A t \in Type : \/ forgets = t
                           \/ type = t <=> video[v] = t
                           \/ v \in moved'[t] \/ list[t] = None
        /\ last <= last' /\ last' \in Nat /\ (v <= last' \/ type = None)
  <2>1. CASE \E t \in Type : Create(v, t)
    <3>1. PICK t \in Type : Create(v, t)
      BY <2>1
    <3>2. video[v] = None
      BY <3>1 DEF Create, Ahead, TypeOK
    <3> QED
      BY <3>1, <3>2 DEF Create, TypeOK
  <2>2. CASE \E t \in Type : Update(v, t)
    <3>1. PICK t \in Type : Update(v, t)
      BY <2>2
    <3>2. Edit(v, t, None) /\ \A u \in Type : moved[u] \subseteq moved'[u]
      BY <3>1 DEF Update, TypeOK
    <3>3. \A u \in Type : (t = u <=> video[v] = u) \/ v \in moved'[u] \/ list[u] = None
      BY <3>1 DEF Update, TypeOK
    <3>4. last <= last' /\ last' \in Nat /\ v <= last'
      BY <3>1 DEF Update, Ahead, TypeOK
    <3> QED
      BY <3>2, <3>3, <3>4
  <2>3. CASE Delete(v)
    <3>1. Edit(v, None, video[v]) /\ last' = last /\ moved' = moved
      BY <2>3 DEF Delete
    <3>2. video[v] \in Type \cup {None} /\ None \notin Type
      BY DEF TypeOK
    <3>3. \A t \in Type : video[v] = t \/ (None = t <=> video[v] = t)
      BY <3>2
    <3> USE <3>2
    <3> WITNESS None \in Type \cup {None}, video[v] \in Type \cup {None}
    <3>4. last <= last' /\ last' \in Nat
      BY <3>1 DEF TypeOK
    <3>5. \A t \in Type : moved[t] \subseteq moved'[t]
      BY <3>1
    <3> QED
      BY <3>1, <3>3, <3>4, <3>5, Zenon
  <2> QED
    BY <2>1, <2>2, <2>3
<1>2. /\ edits + 1 \in 1 .. MaxEdits /\ event[edits + 1] = None
      /\ event' = [event EXCEPT ![edits + 1] = forgets]
      /\ edits' = edits + 1 /\ edits \in Nat
      /\ event \in [1 .. MaxEdits -> Type \cup {None}]
  BY <1>1 DEF Edit, Ahead, TypeOK
<1>3. Ahead'
  <2>1. \A n \in 1 .. MaxEdits : n > edits' => event'[n] = None
    BY <1>2 DEF Ahead
  <2>2. \A x \in Video : x > last' => video'[x] = None
    BY <1>1 DEF Ahead, Edit, TypeOK
  <2> QED
    BY <2>1, <2>2 DEF Ahead
<1>4. ASSUME NEW t \in Type, Pending(t) PROVE Pending(t)'
  BY <1>2, <1>4 DEF Pending
<1>5. ASSUME NEW t \in Type, ~Pending(t)', NEW x \in Video, x \notin moved'[t],
             list[t] # None
      PROVE  video'[x] = t <=> video[x] = t
  <2>1. forgets # t
    BY <1>2, <1>5 DEF Pending
  <2> QED
    BY <1>1, <1>5, <2>1 DEF Edit, TypeOK
<1>6. ASSUME NEW r \in Req
      PROVE  /\ pc[r] \in {"query", "put"} /\ kind[r] # "one" => overlap'[r]
             /\ due'[r] => due[r] /\ Videos(want[r])' # {}
  BY <1>1 DEF Edit, Witness, request, Videos
<1> QED
  BY <1>1, <1>3, <1>4, <1>5, <1>6 DEF Edit, Witness

\* No event is due for an edit, nor a row there for an id, that is yet to come.
LEMMA NextAhead == TypeOK /\ Ahead /\ [Next]_vars => Ahead'
<1> SUFFICES ASSUME TypeOK, Ahead, [Next]_vars PROVE Ahead'
  OBVIOUS
<1>1. ASSUME NEW n \in 1 .. MaxEdits, RunEvent(n) PROVE Ahead'
  BY <1>1 DEF RunEvent, Forget, Ahead, table, TypeOK
<1>2. CASE UNCHANGED <<table, editors>>
  BY <1>2 DEF Ahead, table, editors
<1>3. CASE \E v \in Video : (\E t \in Type : Create(v, t) \/ Update(v, t)) \/ Delete(v)
  BY <1>3, EditStep
<1> QED
  BY <1>1, <1>2, <1>3
     DEF Next, vars, store, Visit, Has, Ask, Query, Put, Get, Respond, ExpireList,
         ExpireOne, Forget

\* A list that no edit is about to forget stays complete.
LEMMA NextLists ==
  TypeOK /\ Ahead /\ ListsWhole /\ FillsWhole /\ [Next]_vars => ListsWhole'
<1> SUFFICES ASSUME TypeOK, Ahead, ListsWhole, FillsWhole, [Next]_vars,
                    NEW t \in Type, list'[t] # None, ~raced'[t], ~Pending(t)'
             PROVE  Complete(list[t], t, moved[t])'
  BY DEF ListsWhole
<1>1. list[t] # None /\ ~raced[t] /\ ~Pending(t) => Complete(list[t], t, moved[t])
  BY DEF ListsWhole
<1>2. ASSUME list'[t] = list[t], raced'[t] <=> raced[t], moved'[t] = moved[t],
             UNCHANGED <<video, event>>
      PROVE  Complete(list[t], t, moved[t])'
  BY <1>1, <1>2 DEF Complete, Pending, Videos
<1>3. CASE UNCHANGED <<list, raced, video, event, moved>>
  BY <1>2, <1>3
<1>4. ASSUME NEW r \in Req, Put(r) PROVE Complete(list[t], t, moved[t])'
  <2>1. UNCHANGED <<video, event>>
    BY <1>4 DEF Put, table, editors
  <2>2. CASE kind[r] # "one" /\ t = want[r]
    <3>1. list'[t] = got[r] /\ moved'[t] = {} /\ ~overlap[r] /\ pc[r] = "put"
      BY <1>4, <2>2 DEF Put, Goto, TypeOK
    <3>2. Complete(got[r], t, {})
      BY <2>2, <3>1 DEF FillsWhole
    <3> QED
      BY <2>1, <3>1, <3>2 DEF Complete, Videos
  <2>3. CASE kind[r] = "one" \/ t # want[r]
    <3>1. list'[t] = list[t] /\ (raced'[t] <=> raced[t]) /\ moved'[t] = moved[t]
      <4>1. CASE kind[r] = "one"
        BY <1>4, <4>1 DEF Put
      <4>2. CASE kind[r] # "one" /\ t # want[r]
        <5>1. list'[t] = list[t]
          BY <1>4, <4>2 DEF Put, TypeOK
        <5>2. raced'[t] <=> raced[t]
          BY <1>4, <4>2 DEF Put, TypeOK
        <5>3. moved'[t] = moved[t]
          BY <1>4, <4>2 DEF Put, TypeOK
        <5> QED
          BY <5>1, <5>2, <5>3
      <4> QED
        BY <2>3, <4>1, <4>2
    <3> QED
      BY <1>2, <2>1, <3>1
  <2> QED
    BY <2>2, <2>3
<1>5. ASSUME NEW v \in Video, (\E u \in Type : Create(v, u) \/ Update(v, u)) \/ Delete(v)
      PROVE  Complete(list[t], t, moved[t])'
  <2>1. Complete(list[t], t, moved[t])
    BY <1>1, <1>5, EditStep
  <2>2. /\ list' = list /\ moved[t] \subseteq moved'[t]
        /\ \A x \in Video : (video'[x] = t <=> video[x] = t) \/ x \in moved'[t]
    BY <1>5, EditStep
  <2>3. moved'[t] = {} => Videos(t)' = Videos(t)
    BY <2>2 DEF Videos
  <2>4. list[t] \subseteq Video
    BY <2>2 DEF TypeOK
  <2> QED
    BY <2>1, <2>2, <2>3, <2>4 DEF Complete
<1>6. ASSUME NEW n \in 1 .. MaxEdits, RunEvent(n) PROVE Complete(list[t], t, moved[t])'
  <2>1. event[n] # t /\ list'[t] = list[t] /\ moved'[t] = moved[t] /\ (raced'[t] <=> raced[t])
        /\ UNCHANGED video
    BY <1>6 DEF RunEvent, Forget, Forgets, table, TypeOK
  <2>2. ~Pending(t)
    BY <1>6, <2>1 DEF RunEvent, Pending, TypeOK
  <2> QED
    BY <1>1, <2>1, <2>2 DEF Complete, Videos
<1>7. ASSUME NEW u \in Type, ExpireList(u) PROVE Complete(list[t], t, moved[t])'
  <2>1. list'[t] = list[t] /\ moved'[t] = moved[t] /\ (raced'[t] <=> raced[t])
        /\ UNCHANGED <<video, event>>
    BY <1>7 DEF ExpireList, Forget, table, editors, TypeOK
  <2> QED
    BY <1>2, <2>1
<1> QED
  BY <1>3, <1>4, <1>5, <1>6, <1>7
     DEF Next, vars, table, store, editors, history, Visit, Has, Ask, Query, Get, Respond,
         ExpireOne

\* A fill that met no edit is about to store a complete list.
LEMMA NextFills ==
  TypeOK /\ Ahead /\ FillsWhole /\ [Next]_vars => FillsWhole'
<1> SUFFICES ASSUME TypeOK, Ahead, FillsWhole, [Next]_vars,
                    NEW r \in Req, pc'[r] \in {"query", "put"}, kind'[r] # "one", ~overlap'[r]
             PROVE  /\ ~Editing'
                    /\ pc'[r] = "put" => Complete(got[r], want[r], {})'
  BY DEF FillsWhole
<1> DEFINE Left == /\ pc'[r] = pc[r] /\ (overlap'[r] <=> overlap[r])
                   /\ kind'[r] = kind[r] /\ want'[r] = want[r] /\ got'[r] = got[r]
                   /\ UNCHANGED video /\ (Editing' => Editing)
           Whole == /\ ~Editing'
                    /\ pc'[r] = "put" => Complete(got[r], want[r], {})'
<1>1. ASSUME Left PROVE Whole
  BY <1>1 DEF FillsWhole, Complete, Videos
<1>2. ASSUME NEW q \in Req, NEW k \in Kinds, NEW t \in Type, Visit(q, k, t) PROVE Left
  BY <1>2 DEF Visit, Goto, table, store, editors, Editing, TypeOK
<1>3. ASSUME NEW q \in Req, Has(q) PROVE Left
  BY <1>3 DEF Has, Goto, table, store, editors, history, Editing, TypeOK
<1>4. ASSUME NEW q \in Req, Ask(q), q # r PROVE Left
  BY <1>4 DEF Ask, Goto, table, store, editors, Editing, TypeOK
<1>5. ASSUME Ask(r) PROVE Whole
  <2>1. pc'[r] = "query" /\ (Editing' <=> Editing)
    BY <1>5 DEF Ask, Goto, editors, Editing, TypeOK
  <2>2. Cached(r) = None
    BY <1>5, <2>1 DEF Ask, Goto, TypeOK
  <2>3. overlap'[r] <=> Editing
    BY <1>5, <2>2 DEF Ask, editors, TypeOK
  <2> QED
    BY <2>1, <2>3
<1>6. ASSUME NEW q \in Req, Query(q), q # r PROVE Left
  BY <1>6 DEF Query, Goto, table, store, editors, history, Editing, TypeOK
<1>7. ASSUME Query(r) PROVE Whole
  <2>1. /\ pc[r] = "query" /\ (overlap'[r] <=> overlap[r]) /\ (Editing' <=> Editing)
        /\ UNCHANGED <<video, kind, want>>
    BY <1>7 DEF Query, Goto, table, store, editors, history, Editing
  <2>2. got'[r] = Videos(want[r])
    BY <1>7, <2>1 DEF Query, TypeOK
  <2>3. \A v \in Videos(want[r]) : video[v] = want[r]
    BY DEF Videos, Newest
  <2>4. Videos(want[r])' = Videos(want[r])
    BY <2>1 DEF Videos
  <2> QED
    BY <2>1, <2>2, <2>3, <2>4 DEF FillsWhole, Complete
<1>8. ASSUME NEW q \in Req, Put(q) PROVE Left
  <2>1. q # r
    BY <1>8 DEF Put, Goto, TypeOK
  <2>2. overlap'[r] <=> overlap[r]
    BY <1>8, <2>1 DEF Put, TypeOK
  <2>3. pc'[r] = pc[r] /\ got'[r] = got[r]
    BY <1>8, <2>1 DEF Put, Goto, TypeOK
  <2> QED
    BY <1>8, <2>2, <2>3 DEF Put, table, editors, Editing
<1>9. ASSUME NEW q \in Req, Get(q) PROVE Left
  BY <1>9 DEF Get, Goto, table, store, editors, Editing, TypeOK
<1>10. ASSUME NEW q \in Req, Respond(q) PROVE Left
  BY <1>10 DEF Respond, Goto, table, store, editors, Editing, TypeOK
<1>11. ASSUME NEW v \in Video, (\E t \in Type : Create(v, t) \/ Update(v, t)) \/ Delete(v)
       PROVE  FALSE
  BY <1>11, EditStep DEF request
<1>12. ASSUME NEW n \in 1 .. MaxEdits, RunEvent(n) PROVE Left
  BY <1>12 DEF RunEvent, Forget, table, request, Editing, TypeOK
<1>13. ASSUME UNCHANGED <<video, editors, request, overlap>> PROVE Left
  BY <1>13 DEF editors, request, Editing
<1> HIDE DEF Left, Whole
<1>14. Whole
  BY <1>1, <1>2, <1>3, <1>4, <1>5, <1>6, <1>7, <1>8, <1>9, <1>10, <1>11, <1>12, <1>13
     DEF Next, vars, table, store, history, ExpireList, ExpireOne, Forget
<1> QED
  BY <1>14 DEF Whole

\* A sample that is due some videos is given some.
LEMMA NextServed ==
  TypeOK /\ ListsWhole /\ FillsWhole /\ Ahead /\ SamplesServed /\ EmptyOnlyByRace
  /\ [Next]_vars => SamplesServed' /\ EmptyOnlyByRace'
<1> SUFFICES ASSUME TypeOK, ListsWhole, FillsWhole, Ahead, SamplesServed,
                    EmptyOnlyByRace, [Next]_vars, NEW r \in Req, pc'[r] # "idle", due'[r]
             PROVE  /\ Videos(want[r])' # {}
                    /\ list'[want'[r]] = {} => raced'[want'[r]] \/ moved'[want'[r]] # {}
                    /\ pc'[r] = "get" => list'[want'[r]] # None
                    /\ pc'[r] = "done" /\ kind'[r] = "sample" => answer'[r] # {}
  BY DEF SamplesServed, EmptyOnlyByRace
<1> DEFINE
      Served == /\ Videos(want[r])' # {}
                /\ list'[want'[r]] = {} => raced'[want'[r]] \/ moved'[want'[r]] # {}
                /\ pc'[r] = "get" => list'[want'[r]] # None
                /\ pc'[r] = "done" /\ kind'[r] = "sample" => answer'[r] # {}
      Kept == /\ pc[r] # "idle" /\ kind'[r] = kind[r] /\ want'[r] = want[r]
              /\ UNCHANGED video /\ due[r]
      Waits == /\ pc'[r] = "get" => pc[r] = "get"
               /\ pc'[r] = "done" /\ kind[r] = "sample" =>
                    pc[r] = "done" /\ answer'[r] = answer[r]
      SameList == /\ list'[want[r]] = list[want[r]] /\ (raced'[want[r]] <=> raced[want[r]])
                  /\ moved[want[r]] \subseteq moved'[want[r]]
<1>0. pc[r] # "idle" =>
        /\ want[r] \in Type /\ kind[r] \in Kinds
        /\ due[r] => /\ Videos(want[r]) # {}
                     /\ list[want[r]] = {} => raced[want[r]] \/ moved[want[r]] # {}
                     /\ pc[r] = "get" => list[want[r]] # None
                     /\ pc[r] = "done" /\ kind[r] = "sample" => answer[r] # {}
  BY DEF TypeOK, SamplesServed, EmptyOnlyByRace
<1>1. ASSUME Kept, Waits, SameList PROVE Served
  BY <1>0, <1>1 DEF Videos
<1>2. ASSUME NEW q \in Req, NEW k \in Kinds, NEW t \in Type, Visit(q, k, t), q # r
      PROVE  Kept /\ Waits /\ SameList
  BY <1>2 DEF Visit, Goto, table, store, TypeOK
<1>3. ASSUME NEW k \in Kinds, NEW t \in Type, Visit(r, k, t) PROVE Served
  <2>1. /\ pc'[r] \in {"has", "ask"} /\ want'[r] = t
        /\ Videos(t) # {} /\ ~Editing
        /\ UNCHANGED <<video, list, raced, moved>>
    BY <1>3 DEF Visit, Goto, table, store, TypeOK
  <2>2. ASSUME list[t] = {}, ~raced[t] PROVE moved[t] # {}
    <3>1. ~Pending(t)
      BY <1>3, <2>1 DEF Pending, Editing
    <3>2. {} # None
      OBVIOUS
    <3>3. Complete(list[t], t, moved[t])
      BY <1>3, <2>2, <3>1, <3>2 DEF ListsWhole
    <3> QED
      BY <2>1, <2>2, <3>3 DEF Complete
  <2> QED
    BY <2>1, <2>2 DEF Videos
<1>4. ASSUME NEW q \in Req, Has(q) PROVE Served
  <2>1. Kept /\ SameList
    BY <1>4 DEF Has, Goto, table, store, history, TypeOK
  <2>2. /\ pc'[r] = "get" => list[want[r]] # None \/ pc[r] = "get"
        /\ pc'[r] = "done" => pc[r] = "done" /\ answer'[r] = answer[r]
    BY <1>4 DEF Has, Goto, TypeOK
  <2> QED
    BY <1>0, <2>1, <2>2 DEF Videos
<1>5. ASSUME NEW q \in Req, Ask(q) PROVE Served
  <2>1. Kept /\ SameList
    BY <1>5 DEF Ask, Goto, table, store, TypeOK
  <2>2. CASE q # r
    <3>1. Waits
      BY <1>5, <2>2 DEF Ask, Goto, TypeOK
    <3> QED
      BY <1>1, <2>1, <3>1
  <2>3. CASE q = r
    <3>1. /\ pc'[r] = "get" => kind[r] = "sample" /\ Cached(r) # None
          /\ pc'[r] = "done" => kind[r] # "sample"
      BY <1>5, <2>3 DEF Ask, Goto, TypeOK
    <3>2. pc'[r] = "get" => list[want[r]] # None
      BY <3>1 DEF Cached
    <3> QED
      BY <1>0, <2>1, <3>1, <3>2 DEF Videos
  <2> QED
    BY <2>2, <2>3
<1>6. ASSUME NEW q \in Req, Query(q) PROVE Kept /\ Waits /\ SameList
  BY <1>6 DEF Query, Goto, table, store, history, TypeOK
<1>7. ASSUME NEW q \in Req, Put(q) PROVE Served
  <2>1. Kept
    BY <1>7 DEF Put, Goto, table, TypeOK
  <2>2. /\ pc'[r] = "get" => pc[r] = "get" \/ (q = r /\ kind[q] # "one")
        /\ pc'[r] = "done" /\ kind[r] = "sample" => pc[r] = "done" /\ answer'[r] = answer[r]
    BY <1>7 DEF Put, Goto, TypeOK
  <2>3. CASE kind[q] # "one" /\ want[q] = want[r]
    <3>1. list'[want[r]] = got[q] /\ (raced'[want[r]] <=> overlap[q]) /\ pc[q] = "put"
      BY <1>0, <1>7, <2>1, <2>3 DEF Put, Goto, TypeOK
    <3>2. got[q] # None
      BY DEF TypeOK
    <3>3. ~overlap[q] => Complete(got[q], want[r], {})
      BY <2>3, <3>1 DEF FillsWhole
    <3>4. got[q] = {} => overlap[q]
      BY <1>0, <2>1, <3>3 DEF Complete
    <3> QED
      BY <1>0, <2>1, <2>2, <3>1, <3>2, <3>4 DEF Videos
  <2>4. CASE kind[q] = "one" \/ want[q] # want[r]
    <3>1. SameList
      <4>1. CASE kind[q] = "one"
        BY <1>7, <4>1 DEF Put
      <4>2. CASE kind[q] # "one"
        <5>1. want[q] # want[r] /\ want[r] \in Type
          BY <1>0, <2>1, <2>4, <4>2
        <5>2. list'[want[r]] = list[want[r]]
          BY <1>7, <4>2, <5>1 DEF Put, TypeOK
        <5>3. raced'[want[r]] <=> raced[want[r]]
          BY <1>7, <4>2, <5>1 DEF Put, TypeOK
        <5>4. moved'[want[r]] = moved[want[r]]
          BY <1>7, <4>2, <5>1 DEF Put, TypeOK
        <5> QED
          BY <5>2, <5>3, <5>4
      <4> QED
        BY <4>1, <4>2
    <3>2. Waits
      BY <2>2, <2>4
    <3> QED
      BY <1>1, <2>1, <3>1, <3>2
  <2> QED
    BY <2>3, <2>4
<1>8. ASSUME NEW q \in Req, Get(q), q # r PROVE Kept /\ Waits /\ SameList
  BY <1>8 DEF Get, Goto, table, store, TypeOK
<1>9. ASSUME Get(r) PROVE Served
  <2>1. /\ pc[r] = "get" /\ pc'[r] = "done"
        /\ UNCHANGED <<video, list, kind, want, raced, moved>>
        /\ answer'[r] = IF list[want[r]] = None THEN {} ELSE list[want[r]]
        /\ due[r] /\ ~raced[want[r]] /\ moved[want[r]] = {}
    BY <1>9 DEF Get, Goto, table, store, TypeOK
  <2> QED
    BY <1>0, <2>1 DEF Videos
<1>10. ASSUME NEW q \in Req, Respond(q) PROVE Kept /\ Waits /\ SameList
  <2>1. q # r
    BY <1>10 DEF Respond, Goto, TypeOK
  <2> QED
    BY <1>10, <2>1 DEF Respond, Goto, table, store, TypeOK
<1>11. ASSUME NEW v \in Video, (\E t \in Type : Create(v, t) \/ Update(v, t)) \/ Delete(v)
       PROVE  Served
  <2>1. /\ UNCHANGED <<list, request, raced>>
        /\ \A t \in Type : moved[t] \subseteq moved'[t]
        /\ due[r] /\ Videos(want[r])' # {}
    BY <1>11, EditStep
  <2> QED
    BY <1>0, <2>1 DEF request
<1>12. ASSUME NEW n \in 1 .. MaxEdits, RunEvent(n) PROVE Kept /\ Waits /\ SameList
  <2>1. want[r] # event[n] /\ Kept /\ Waits
    BY <1>12 DEF RunEvent, Forget, Forgets, table, request, TypeOK
  <2> QED
    BY <1>0, <1>12, <2>1 DEF RunEvent, Forget, Forgets, TypeOK
<1>13. ASSUME NEW t \in Type, ExpireList(t) PROVE Kept /\ Waits /\ SameList
  <2>1. want[r] # t /\ Kept /\ Waits
    BY <1>13 DEF ExpireList, Forget, table, request, TypeOK
  <2> QED
    BY <1>0, <1>13, <2>1 DEF ExpireList, Forget, TypeOK
<1>14. ASSUME UNCHANGED <<video, list, request, history>> PROVE Kept /\ Waits /\ SameList
  BY <1>14 DEF request, history
<1> HIDE DEF Served, Kept, Waits, SameList
<1>15. Served
  BY <1>1, <1>2, <1>3, <1>4, <1>5, <1>6, <1>7, <1>8, <1>9, <1>10, <1>11, <1>12, <1>13,
     <1>14 DEF Next, vars, table, store, ExpireOne
<1> QED
  BY <1>15 DEF Served

-----------------------------------------------------------------------------
(* The theorems.                                                           *)

\* The inductive invariant holds in every reachable state.
LEMMA Invariance == Spec => []IInv
<1>1. Init => IInv
  <2> SUFFICES ASSUME Init PROVE IInv
    OBVIOUS
  <2>1. TypeOK
    BY InitTyped
  <2>2. Ahead /\ ListsWhole /\ FillsWhole /\ SamplesServed /\ EmptyOnlyByRace
    BY DEF Init, Ahead, ListsWhole, FillsWhole, SamplesServed, EmptyOnlyByRace
  <2> QED
    BY <2>1, <2>2 DEF IInv
<1>2. IInv /\ [Next]_vars => IInv'
  <2> SUFFICES ASSUME IInv, [Next]_vars PROVE IInv'
    OBVIOUS
  <2>1. TypeOK' /\ Ahead'
    BY NextTyped, NextAhead DEF IInv
  <2>2. ListsWhole' /\ FillsWhole'
    BY NextLists, NextFills DEF IInv
  <2>3. SamplesServed' /\ EmptyOnlyByRace'
    BY NextServed DEF IInv
  <2> QED
    BY <2>1, <2>2, <2>3 DEF IInv
<1> QED
  BY <1>1, <1>2, PTL DEF Spec

\* Every variable keeps its type: a null of the query is stored as an absent
\* key, never as a video (VideoRepository 55-142).
THEOREM TypeCorrect == Spec => []TypeOK
<1>1. IInv => TypeOK
  BY DEF IInv
<1> QED
  BY <1>1, Invariance, PTL

\* With no edit in progress a list is the newest videos of its type, unless it was
\* filled across an edit or a video has moved into or out of the type since; a video
\* that is on it and not of its type, deleted ones included, has moved since it was
\* filled (Video.php 20-45; VideoRepository 76-86, 129-142).
THEOREM ListsWithoutRaceComplete == Spec => []ListsComplete
<1>1. IInv => ListsComplete
  <2> SUFFICES ASSUME IInv, ~Editing, NEW t \in Type, list[t] # None, ~raced[t]
               PROVE  /\ moved[t] = {} => list[t] = Videos(t)
                      /\ \A v \in list[t] : video[v] = t \/ v \in moved[t]
    BY DEF ListsComplete
  <2>1. ~Pending(t)
    BY DEF Editing, Pending
  <2> QED
    BY <2>1 DEF IInv, ListsWhole, Complete
<1> QED
  BY <1>1, Invariance, PTL

\* A page that asks for some of a type that has videos is given some, unless the
\* list left the cache between its two reads, or was filled across an edit or before
\* an update moved a video to this type or from it (VideoRepository 91-123).
THEOREM SamplesHaveVideos == Spec => []EmptyOnlyByRace
<1>1. IInv => EmptyOnlyByRace
  BY DEF IInv
<1> QED
  BY <1>1, Invariance, PTL
=============================================================================
