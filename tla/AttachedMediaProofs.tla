------------------------ MODULE AttachedMediaProofs -------------------------
(***************************************************************************)
(* For any number of editors, rows, pictures and requests: a row that an   *)
(* editor deletes leaves no media.  The media named by the id of their     *)
(* row, those of ads and events, agree with the picture the row names, and *)
(* pile up by overlaps only.  Where updates look for the slug, as those of *)
(* articles do, what an update added stays.                                *)
(***************************************************************************)
EXTENDS AttachedMedia, FiniteSetTheorems, TLAPS

USE AttachedMediaAssumption

\* Media are added and looked up by the id.
ById == ByName = "id" /\ Lookup = "id"

-----------------------------------------------------------------------------
(* Counting.                                                               *)

\* The first request of a row has room for its media.
LEMMA RoomFirst == ASSUME NEW n \in Nat, NEW e PROVE Room({}, {e}, {e}, {}, n)
<1>1. IsFiniteSet({}) /\ Cardinality({}) = 0
  BY FS_EmptySet
<1>2. IsFiniteSet({e}) /\ Cardinality({e}) = 1
  BY FS_Singleton, Zenon
<1> QED
  BY <1>1, <1>2 DEF Room

\* A request that begins is one more, and one more overlap if it met others.
LEMMA RoomBegins ==
  ASSUME NEW ms, NEW on, NEW adding, NEW replacing, NEW n \in Nat, NEW e, e \notin on,
         Room(ms, on, adding, replacing, n), NEW m, m = IF on # {} THEN n + 1 ELSE n
  PROVE  /\ Room(ms, on \cup {e}, adding, replacing, m)
         /\ Room(ms, on \cup {e}, adding \cup {e}, replacing \cup {e}, m)
<1> USE DEF Room
<1>1. IsFiniteSet(adding) /\ Cardinality(ms) \in Nat /\ Cardinality(on) \in Nat
      /\ Cardinality(adding) \in Nat
  BY FS_Subset, FS_CardinalityType
<1>2. /\ IsFiniteSet(on \cup {e}) /\ Cardinality(on \cup {e}) = Cardinality(on) + 1
      /\ IsFiniteSet(adding \cup {e}) /\ Cardinality(adding \cup {e}) = Cardinality(adding) + 1
  BY <1>1, FS_AddElement
<1>3. /\ Cardinality({}) = 0 /\ IsFiniteSet({e}) /\ Cardinality({e}) = 1
      /\ {} \cup {e} = {e}
  BY FS_EmptySet, FS_Singleton
<1>4. CASE on = {}
  <2>1. adding = {} /\ replacing = {} /\ Cardinality(on) = 0 /\ Cardinality(adding) = 0
    BY <1>3, <1>4
  <2>2. Room(ms, on \cup {e}, adding, replacing, n)
    BY <1>1, <1>2, <2>1
  <2>3. Room(ms, on \cup {e}, adding \cup {e}, replacing \cup {e}, n)
    BY <1>1, <1>2, <2>1
  <2> QED
    BY <1>4, <2>2, <2>3
<1>5. CASE on # {}
  BY <1>1, <1>2, <1>5
<1> QED
  BY <1>4, <1>5

\* Fewer media leave room whichever requests will still delete.
LEMMA RoomFreed ==
  ASSUME NEW ms, NEW on, NEW adding, NEW replacing, NEW n \in Nat,
         NEW less, less \subseteq ms, less # ms \/ less = {},
         NEW later, later \subseteq adding,
         Room(ms, on, adding, replacing, n)
  PROVE  Room(less, on, adding, later, n)
<1> USE DEF Room
<1>1. /\ IsFiniteSet(adding) /\ IsFiniteSet(less)
      /\ Cardinality(ms) \in Nat /\ Cardinality(less) \in Nat
      /\ Cardinality(on) \in Nat /\ Cardinality(adding) \in Nat
      /\ Cardinality(adding) <= Cardinality(on) /\ Cardinality(less) <= Cardinality(ms)
      /\ less # ms => Cardinality(less) < Cardinality(ms)
  BY FS_Subset, FS_CardinalityType
<1>2. less = {} => Cardinality(less) = 0
  BY FS_EmptySet
<1> QED
  BY <1>1, <1>2

\* A request that has deleted adds its media, or none, or leaves.
LEMMA RoomUsed ==
  ASSUME NEW ms, NEW on, NEW adding, NEW replacing, NEW n \in Nat,
         NEW e \in adding, e \notin replacing, NEW x,
         NEW later, replacing \subseteq later, later \subseteq adding \ {e},
         Room(ms, on, adding, replacing, n)
  PROVE  /\ Room(ms, on, adding \ {e}, later, n)
         /\ Room(ms \cup {x}, on, adding \ {e}, later, n)
<1> USE DEF Room
<1>1. IsFiniteSet(adding) /\ Cardinality(ms) \in Nat /\ Cardinality(adding) \in Nat
  BY FS_Subset, FS_CardinalityType
<1>2. Cardinality(adding \ {e}) = Cardinality(adding) - 1
  BY <1>1, FS_RemoveElement
<1>3. /\ IsFiniteSet(ms \cup {x})
      /\ Cardinality(ms \cup {x}) \in {Cardinality(ms), Cardinality(ms) + 1}
  BY FS_AddElement
<1> QED
  BY <1>1, <1>2, <1>3

\* A request that leaves is one less.
LEMMA RoomLeft ==
  ASSUME NEW ms, NEW on, NEW adding, NEW replacing, NEW n \in Nat, NEW e \in on,
         Room(ms, on, adding, replacing, n)
  PROVE  Room(ms, on \ {e}, adding \ {e}, replacing \ {e}, n)
<1> USE DEF Room
<1>1. IsFiniteSet(adding) /\ Cardinality(ms) \in Nat /\ Cardinality(adding) \in Nat
      /\ Cardinality(on) \in Nat
  BY FS_Subset, FS_CardinalityType
<1>2. /\ Cardinality(on \ {e}) = Cardinality(on) - 1 /\ IsFiniteSet(on \ {e})
      /\ e \in adding => Cardinality(adding \ {e}) = Cardinality(adding) - 1
  BY <1>1, FS_RemoveElement
<1>3. e \notin adding => adding \ {e} = adding
  OBVIOUS
<1>4. e \notin replacing => replacing \ {e} = replacing
  OBVIOUS
<1>5. CASE e \in adding
  BY <1>1, <1>2, <1>5
<1>6. CASE e \notin adding
  <2>1. e \notin replacing
    BY <1>6
  <2>2. adding \subseteq on \ {e} /\ Cardinality(on \ {e}) <= 1 + n
    BY <1>1, <1>2, <1>6
  <2>3. Room(ms, on \ {e}, adding, replacing, n)
    BY <1>2, <2>2
  <2> QED
    BY <1>3, <1>4, <2>1, <2>3, <1>6
<1> QED
  BY <1>5, <1>6

-----------------------------------------------------------------------------
(* Types and names.                                                        *)

\* The variables have their types at first.
LEMMA InitTyped == Init => TypeOK
BY DEF Init, TypeOK, Pcs

\* A request that begins has the types.
LEMMA BeginTyped ==
  ASSUME TypeOK, NEW e \in Editor, NEW i \in Item, NEW img \in Image \cup {None},
         NEW s \in Slug \cup {None}, NEW named \in Slug \cup {"id"},
         NEW next \in {"add", "write", "cascade"}, next = "write" => s \in Slug,
         Begin(e, i, img, s, named, next),
         row' \in [Item -> Slug \cup {"new", "gone", "purged"}],
         picture' \in [Item -> Image \cup {None}]
  PROVE  TypeOK'
<1> USE DEF TypeOK, Begin, Pcs
<1>1. began' \in 0 .. MaxRequests
  OBVIOUS
<1>2. overlaps' \in [Item -> Nat] /\ crossed' \in [Item -> BOOLEAN]
  BY DEF Busy, Destroying
<1>3. ASSUME NEW g \in Editor
      PROVE  /\ pc'[g] = "idle" <=> item'[g] = None
             /\ pc'[g] = "write" => slug'[g] \in Slug
  <2>1. CASE g = e
    BY <2>1
  <2>2. CASE g # e
    BY <2>2
  <2> QED
    BY <2>1, <2>2
<1> QED
  BY <1>1, <1>2, <1>3

\* A request that ends has the types.
LEMMA LeaveTyped ==
  ASSUME TypeOK, NEW e \in Editor, Leave(e), broken' \in [Item -> BOOLEAN]
  PROVE  TypeOK'
<1> USE DEF TypeOK, Leave, Pcs, store, rows
<1>1. ASSUME NEW g \in Editor
      PROVE  /\ pc'[g] = "idle" <=> item'[g] = None
             /\ pc'[g] = "write" => slug'[g] \in Slug
  <2>1. CASE g = e
    BY <2>1
  <2>2. CASE g # e
    BY <2>2
  <2> QED
    BY <2>1, <2>2
<1> QED
  BY <1>1

\* Every step keeps the types.
LEMMA NextTyped == TypeOK /\ [Next]_vars => TypeOK'
<1> SUFFICES ASSUME TypeOK, [Next]_vars PROVE TypeOK'
  OBVIOUS
<1> USE DEF store, rows, request, history
<1>0. \A e \in Editor : pc[e] # "idle" => item[e] \in Item
  BY DEF TypeOK
<1>1. ASSUME NEW e \in Editor, NEW i \in Item, NEW img \in Image \cup {None}, NEW s \in Slug,
             Store(e, i, img, s)
      PROVE  TypeOK'
  BY <1>1, BeginTyped DEF Store, TypeOK
<1>2. ASSUME NEW e \in Editor, NEW i \in Item, NEW img \in Image \cup {None}, NEW s \in Slug,
             Update(e, i, img, s)
      PROVE  TypeOK'
  BY <1>2, BeginTyped DEF Update, TypeOK
<1>3. ASSUME NEW e \in Editor, NEW i \in Item, Destroy(e, i) PROVE TypeOK'
  BY <1>3, BeginTyped DEF Destroy, TypeOK
<1>4. ASSUME NEW e \in Editor, WriteRow(e) PROVE TypeOK'
  <2>1. /\ row' \in [Item -> Slug \cup {"new", "gone", "purged"}]
        /\ picture' \in [Item -> Image \cup {None}]
    BY <1>4 DEF WriteRow, Goto, Live, TypeOK
  <2> QED
    BY <1>4, <2>1 DEF WriteRow, Goto, TypeOK, Pcs
<1>5. ASSUME NEW e \in Editor, PickMedia(e) PROVE TypeOK'
  <2>1. ASSUME NEW key \in Nat, NEW next \in {"add", "drop"}, Pick(e, key, next)
        PROVE  TypeOK'
    BY <2>1 DEF Pick, Goto, TypeOK, Pcs
  <2>2. \A m \in Named(e) : m.key \in Nat
    BY <1>0, <1>5 DEF PickMedia, Named, Media, TypeOK
  <2> QED
    BY <1>5, <2>1, <2>2 DEF PickMedia
<1>6. ASSUME NEW e \in Editor, DropMedia(e) PROVE TypeOK'
  <2>1. media' \in [Item -> SUBSET Media]
    BY <1>6 DEF DropMedia, TypeOK
  <2> QED
    BY <1>6, <2>1 DEF DropMedia, Goto, TypeOK, Pcs
<1>7. ASSUME NEW e \in Editor, AddMedia(e) PROVE TypeOK'
  <2>1. media' \in [Item -> SUBSET Media] /\ keys' \in Nat
    BY <1>7 DEF AddMedia, TypeOK, Media
  <2> QED
    BY <1>7, <2>1 DEF AddMedia, Goto, TypeOK, Pcs
<1>8. ASSUME NEW e \in Editor, Cascade(e) PROVE TypeOK'
  BY <1>8 DEF Cascade, Goto, TypeOK, Pcs
<1>9. ASSUME NEW e \in Editor, DeleteRow(e) PROVE TypeOK'
  BY <1>9 DEF DeleteRow, Goto, TypeOK, Pcs
<1>10. ASSUME NEW e \in Editor, Respond(e) PROVE TypeOK'
  BY <1>10, LeaveTyped DEF Respond, TypeOK
<1>11. ASSUME NEW e \in Editor, Die(e) PROVE TypeOK'
  BY <1>11, LeaveTyped DEF Die, TypeOK
<1>12. CASE UNCHANGED vars
  BY <1>12 DEF vars, TypeOK
<1>13. ASSUME NEW i \in Item, Purge(i) PROVE TypeOK'
  BY <1>13 DEF Purge, TypeOK
<1> QED
  BY <1>1, <1>2, <1>3, <1>4, <1>5, <1>6, <1>7, <1>8, <1>9, <1>10, <1>11, <1>12, <1>13
     DEF Next, Step

\* Every media has the id of its row for a name.
LEMMA NextNamed == ASSUME ById PROVE TypeOK /\ ByTheId /\ [Next]_vars => ByTheId'
<1> SUFFICES ASSUME TypeOK, ByTheId, [Next]_vars PROVE ByTheId'
  OBVIOUS
<1> USE DEF ById, ByTheId, TypeOK, store, rows, request
<1>1. ASSUME NEW e \in Editor, NEW i \in Item, NEW img \in Image \cup {None}, NEW s,
             NEW next, Begin(e, i, img, s, "id", next)
      PROVE  ByTheId'
  BY <1>1 DEF Begin
<1>2. ASSUME NEW e \in Editor, WriteRow(e) \/ PickMedia(e) \/ DeleteRow(e) PROVE ByTheId'
  BY <1>2 DEF WriteRow, PickMedia, Pick, DeleteRow, Goto
<1>3. ASSUME NEW e \in Editor, DropMedia(e) PROVE ByTheId'
  BY <1>3 DEF DropMedia, Goto
<1>4. ASSUME NEW e \in Editor, AddMedia(e) PROVE ByTheId'
  BY <1>4 DEF AddMedia, Goto
<1>5. ASSUME NEW e \in Editor, Cascade(e) PROVE ByTheId'
  BY <1>5 DEF Cascade, Goto
<1>6. ASSUME NEW e \in Editor, Leave(e) PROVE ByTheId'
  BY <1>6 DEF Leave
<1>7. CASE UNCHANGED vars
  BY <1>7 DEF vars
<1>8. ASSUME NEW i \in Item, Purge(i) PROVE ByTheId'
  BY <1>8 DEF Purge
<1> QED
  BY <1>1, <1>2, <1>3, <1>4, <1>5, <1>6, <1>7, <1>8
     DEF Next, Step, Store, Update, Destroy, Respond, Die

-----------------------------------------------------------------------------
(* What steps do.                                                          *)

\* A step that does not touch row i, its media and the requests on it.
Same(i) ==
  /\ row'[i] = row[i] /\ media'[i] = media[i] /\ picture'[i] = picture[i]
  /\ overlaps'[i] = overlaps[i]
  /\ crossed'[i] <=> crossed[i]
  /\ broken'[i] <=> broken[i]
  /\ \A e \in Editor :
       /\ item'[e] = i <=> item[e] = i
       /\ item[e] = i => pc'[e] = pc[e] /\ picked'[e] = picked[e] /\ image'[e] = image[e]

\* A purge leaves the other rows as they are.
LEMMA PurgeElsewhere ==
  ASSUME TypeOK, NEW i \in Item, NEW j \in Item \ {i}, Purge(j) PROVE Same(i)
BY DEF Purge, Same, TypeOK, request, history

\* A step of a request leaves the other rows as they are.
LEMMA Elsewhere ==
  ASSUME TypeOK, NEW i \in Item, NEW e \in Editor,
         \/ \E j \in Item \ {i}, img \in Image \cup {None}, s \in Slug :
              Store(e, j, img, s) \/ Update(e, j, img, s)
         \/ \E j \in Item \ {i} : Destroy(e, j)
         \/ item[e] # i /\ (Step(e) \/ Die(e))
         \/ UNCHANGED vars
  PROVE  Same(i)
<1> USE DEF Same, TypeOK, store, rows, request, history
<1>1. ASSUME NEW j \in Item \ {i}, NEW img, NEW s, NEW named, NEW next,
             Begin(e, j, img, s, named, next), row'[i] = row[i], picture'[i] = picture[i]
      PROVE  Same(i)
  BY <1>1 DEF Begin
<1>2. ASSUME NEW j \in Item \ {i}, NEW img \in Image \cup {None}, NEW s \in Slug,
             Store(e, j, img, s)
      PROVE  Same(i)
  BY <1>1, <1>2 DEF Store
<1>3. ASSUME NEW j \in Item \ {i}, NEW img \in Image \cup {None}, NEW s \in Slug,
             Update(e, j, img, s)
      PROVE  Same(i)
  BY <1>1, <1>3 DEF Update
<1>4. ASSUME NEW j \in Item \ {i}, Destroy(e, j) PROVE Same(i)
  BY <1>1, <1>4 DEF Destroy
<1>5. CASE item[e] # i /\ WriteRow(e)
  BY <1>5 DEF WriteRow, Goto
<1>6. CASE item[e] # i /\ PickMedia(e)
  BY <1>6 DEF PickMedia, Pick, Goto
<1>7. CASE item[e] # i /\ DropMedia(e)
  BY <1>7 DEF DropMedia, Goto
<1>8. CASE item[e] # i /\ AddMedia(e)
  BY <1>8 DEF AddMedia, Goto
<1>9. CASE item[e] # i /\ Cascade(e)
  BY <1>9 DEF Cascade, Goto
<1>10. CASE item[e] # i /\ DeleteRow(e)
  BY <1>10 DEF DeleteRow, Goto
<1>11. CASE item[e] # i /\ (Respond(e) \/ Die(e))
  BY <1>11 DEF Respond, Die, Leave
<1>12. CASE UNCHANGED vars
  BY <1>12 DEF vars
<1> QED
  BY <1>2, <1>3, <1>4, <1>5, <1>6, <1>7, <1>8, <1>9, <1>10, <1>11, <1>12 DEF Step

\* A step is of a request on row i, or leaves it as it is.
LEMMA HereOrElsewhere ==
  ASSUME TypeOK, [Next]_vars, NEW i \in Item
  PROVE  \/ Same(i)
         \/ \E e \in Editor, img \in Image \cup {None}, s \in Slug :
              Store(e, i, img, s) \/ Update(e, i, img, s)
         \/ \E e \in Editor : Destroy(e, i)
         \/ \E e \in Editor : item[e] = i /\ (Step(e) \/ Die(e))
         \/ Purge(i)
<1>1. CASE UNCHANGED vars
  <2>1. CASE \E e \in Editor : TRUE
    BY <1>1, <2>1, Elsewhere
  <2>2. CASE Editor = {}
    BY <1>1, <2>2 DEF vars, Same, store, rows, history
  <2> QED
    BY <2>1, <2>2
<1>2. ASSUME NEW e \in Editor, NEW j \in Item, NEW img \in Image \cup {None}, NEW s \in Slug,
             Store(e, j, img, s) \/ Update(e, j, img, s), j # i
      PROVE  Same(i)
  BY <1>2, Elsewhere
<1>3. ASSUME NEW e \in Editor, NEW j \in Item, Destroy(e, j), j # i PROVE Same(i)
  BY <1>3, Elsewhere
<1>4. ASSUME NEW e \in Editor, Step(e) \/ Die(e), item[e] # i PROVE Same(i)
  BY <1>4, Elsewhere
<1>6. ASSUME NEW j \in Item, Purge(j), j # i PROVE Same(i)
  BY <1>6, PurgeElsewhere
<1>5. CASE \E e \in Editor :
             \/ \E j \in Item, img \in Image \cup {None}, s \in Slug :
                  Store(e, j, img, s) \/ Update(e, j, img, s)
             \/ \E j \in Item : Destroy(e, j)
             \/ Step(e) \/ Die(e)
  <2>1. PICK e \in Editor :
           \/ \E j \in Item, img \in Image \cup {None}, s \in Slug :
                Store(e, j, img, s) \/ Update(e, j, img, s)
           \/ \E j \in Item : Destroy(e, j)
           \/ Step(e) \/ Die(e)
    BY <1>5, Zenon
  <2>2. CASE \E j \in Item, img \in Image \cup {None}, s \in Slug :
                Store(e, j, img, s) \/ Update(e, j, img, s)
    BY <1>2, <2>2
  <2>3. CASE \E j \in Item : Destroy(e, j)
    BY <1>3, <2>3
  <2>4. CASE Step(e) \/ Die(e)
    BY <1>4, <2>4
  <2> QED
    BY <2>1, <2>2, <2>3, <2>4
<1>7. CASE \E j \in Item : Purge(j)
  BY <1>6, <1>7
<1> QED
  BY <1>1, <1>5, <1>7, Zenon DEF Next

\* A request that begins on a row.
LEMMA Begun ==
  ASSUME TypeOK, NEW e \in Editor, NEW i \in Item, NEW img, NEW s, NEW named, NEW next,
         Begin(e, i, img, s, named, next)
  PROVE  /\ e \notin On(i) /\ On(i)' = On(i) \cup {e}
         /\ pc'[e] = next /\ image'[e] = img
         /\ \A g \in On(i) : pc'[g] = pc[g] /\ picked'[g] = picked[g] /\ image'[g] = image[g]
         /\ media' = media /\ UNCHANGED broken
         /\ overlaps'[i] = IF On(i) # {} THEN overlaps[i] + 1 ELSE overlaps[i]
         /\ crossed[i] \/ Destroying(i) \/ (On(i) # {} /\ next = "cascade") <=> crossed'[i]
<1> USE DEF TypeOK, Begin
<1>1. item[e] = None
  OBVIOUS
<1>2. e \notin On(i) /\ On(i)' = On(i) \cup {e}
  BY <1>1 DEF On
<1>3. Busy(i) <=> On(i) # {}
  BY DEF Busy, On
<1>4. overlaps'[i] = IF On(i) # {} THEN overlaps[i] + 1 ELSE overlaps[i]
  BY <1>3
<1>5. crossed[i] \/ Destroying(i) \/ (On(i) # {} /\ next = "cascade") <=> crossed'[i]
  BY <1>3
<1>6. \A g \in On(i) : g \in Editor /\ g # e
  BY <1>2 DEF On
<1> QED
  BY <1>2, <1>4, <1>5, <1>6

\* A request that leaves a row.
LEMMA Left ==
  ASSUME TypeOK, NEW e \in Editor, NEW i \in Item, item[e] = i, Leave(e)
  PROVE  /\ On(i)' = On(i) \ {e}
         /\ \A g \in On(i) \ {e} : pc'[g] = pc[g] /\ picked'[g] = picked[g] /\ image'[g] = image[g]
         /\ UNCHANGED <<rows, media, overlaps, crossed>>
BY DEF Leave, On, TypeOK, store

-----------------------------------------------------------------------------
(* Room for the media.                                                     *)

\* No step makes a media there is no room for.
LEMMA NextRoom ==
  ASSUME ById PROVE TypeOK /\ ByTheId /\ RoomToAdd /\ [Next]_vars => RoomToAdd'
<1> SUFFICES ASSUME TypeOK, ByTheId, RoomToAdd, [Next]_vars, NEW i \in Item
             PROVE  RoomFor(i)'
  BY DEF RoomToAdd
<1>0. RoomFor(i) /\ overlaps[i] \in Nat
  BY DEF RoomToAdd, TypeOK
<1>1. ASSUME Same(i) PROVE RoomFor(i)'
  <2>1. On(i)' = On(i) /\ Adding(i)' = Adding(i) /\ Replacing(i)' = Replacing(i)
    BY <1>1 DEF Same, On, Adding, Replacing
  <2> QED
    BY <1>0, <1>1, <2>1 DEF RoomFor, Same
<1>2. ASSUME NEW e \in Editor, NEW img \in Image \cup {None}, NEW s \in Slug,
             Store(e, i, img, s)
      PROVE  RoomFor(i)'
  <2>1. media[i] = {} /\ On(i) = {} /\ row'[i] # "new"
    BY <1>0, <1>2 DEF Store, RoomFor, TypeOK
  <2>2. /\ On(i)' = {e} /\ pc'[e] = "add" /\ media'[i] = {}
        /\ overlaps'[i] = overlaps[i]
    BY <1>2, <2>1, Begun DEF Store
  <2>3. Adding(i)' = {e} /\ Replacing(i)' = {}
    BY <2>2 DEF Adding, Replacing
  <2>4. Room({}, {e}, {e}, {}, overlaps[i])
    BY <1>0, RoomFirst
  <2> QED
    BY <2>1, <2>2, <2>3, <2>4 DEF RoomFor
<1>3. ASSUME NEW e \in Editor, NEW img \in Image \cup {None}, NEW s \in Slug,
             Update(e, i, img, s)
      PROVE  RoomFor(i)'
  <2>1. Live(i) /\ row'[i] # "new" /\ Begin(e, i, img, s, "id", "write")
    BY <1>3 DEF Update, Live, rows, TypeOK
  <2>2. /\ e \notin On(i) /\ On(i)' = On(i) \cup {e} /\ pc'[e] = "write" /\ media' = media
        /\ \A g \in On(i) : pc'[g] = pc[g] /\ picked'[g] = picked[g]
        /\ overlaps'[i] = IF On(i) # {} THEN overlaps[i] + 1 ELSE overlaps[i]
    BY <2>1, Begun
  <2>3. Adding(i)' = Adding(i) \cup {e} /\ Replacing(i)' = Replacing(i) \cup {e}
    BY <2>2 DEF Adding, Replacing
  <2>4. Room(media[i], On(i), Adding(i), Replacing(i), overlaps[i])
    BY <1>0 DEF RoomFor
  <2>5. Room(media[i], On(i) \cup {e}, Adding(i) \cup {e}, Replacing(i) \cup {e}, overlaps'[i])
    BY <1>0, <2>2, <2>4, RoomBegins
  <2> QED
    BY <2>1, <2>2, <2>3, <2>5 DEF RoomFor
<1>4. ASSUME NEW e \in Editor, Destroy(e, i) PROVE RoomFor(i)'
  <2>1. row'[i] # "new" /\ Begin(e, i, None, None, "id", "cascade")
    BY <1>4 DEF Destroy, Live, rows, TypeOK
  <2>2. /\ e \notin On(i) /\ On(i)' = On(i) \cup {e} /\ pc'[e] = "cascade" /\ media' = media
        /\ \A g \in On(i) : pc'[g] = pc[g] /\ picked'[g] = picked[g]
        /\ overlaps'[i] = IF On(i) # {} THEN overlaps[i] + 1 ELSE overlaps[i]
    BY <2>1, Begun
  <2>3. Adding(i)' = Adding(i) /\ Replacing(i)' = Replacing(i)
    BY <2>2 DEF Adding, Replacing
  <2>4. Room(media[i], On(i), Adding(i), Replacing(i), overlaps[i])
    BY <1>0 DEF RoomFor
  <2>5. Room(media[i], On(i) \cup {e}, Adding(i), Replacing(i), overlaps'[i])
    BY <1>0, <2>2, <2>4, RoomBegins
  <2> QED
    BY <2>1, <2>2, <2>3, <2>5 DEF RoomFor
<1>5. ASSUME NEW e \in Editor, item[e] = i, WriteRow(e) PROVE RoomFor(i)'
  <2>1. /\ On(i)' = On(i) /\ Adding(i)' = Adding(i) /\ Replacing(i)' = Replacing(i)
        /\ UNCHANGED <<media, overlaps>>
    BY <1>5 DEF WriteRow, Goto, On, Adding, Replacing, history, TypeOK
  <2>2. row'[i] = "new" => row[i] = "new"
    BY <1>5 DEF WriteRow, Goto, TypeOK
  <2> QED
    BY <1>0, <2>1, <2>2 DEF RoomFor
<1>6. ASSUME NEW e \in Editor, item[e] = i, PickMedia(e) PROVE RoomFor(i)'
  <2>1. /\ On(i)' = On(i) /\ Adding(i)' = Adding(i) /\ e \in Adding(i)
        /\ UNCHANGED <<row, media, overlaps>>
    BY <1>6 DEF PickMedia, Pick, Goto, On, Adding, store, rows, history, TypeOK
  <2>2. Replacing(i)' \subseteq Adding(i)
    BY <2>1 DEF Adding, Replacing
  <2>3. CASE media[i] = {}
    <3>1. Room({}, On(i), Adding(i), Replacing(i)', overlaps[i])
      BY <1>0, <2>2, <2>3, RoomFreed DEF RoomFor
    <3> QED
      BY <1>0, <2>1, <2>3, <3>1 DEF RoomFor
  <2>4. CASE media[i] # {}
    <3>1. PICK m \in media[i] : Pick(e, m.key, "drop")
      BY <1>6, <2>4 DEF PickMedia, Named, NameSought, ById, ByTheId
    <3>2. Replacing(i)' = Replacing(i)
      BY <1>6, <3>1 DEF Pick, Goto, Replacing, On, store, rows, TypeOK
    <3> QED
      BY <1>0, <2>1, <3>2 DEF RoomFor
  <2> QED
    BY <2>3, <2>4
<1>7. ASSUME NEW e \in Editor, item[e] = i, DropMedia(e) PROVE RoomFor(i)'
  <2>1. /\ On(i)' = On(i) /\ Adding(i)' = Adding(i) /\ pc[e] = "drop" /\ pc'[e] = "add"
        /\ UNCHANGED <<row, overlaps>>
        /\ media'[i] = {m \in media[i] : m.key # picked[e]}
        /\ \A g \in Editor \ {e} : pc'[g] = pc[g] /\ picked'[g] = picked[g]
    BY <1>7 DEF DropMedia, Goto, On, Adding, rows, history, TypeOK
  <2>2. Replacing(i)' \subseteq Adding(i) /\ media'[i] \subseteq media[i]
    BY <2>1 DEF Adding, Replacing
  <2>3. CASE media'[i] = media[i]
    <3>1. e \notin Replacing(i)
      BY <2>1, <2>3 DEF Replacing
    <3>2. Replacing(i)' = Replacing(i)
      BY <2>1, <2>3, <3>1 DEF Replacing, On
    <3> QED
      BY <1>0, <2>1, <2>3, <3>2 DEF RoomFor
  <2>4. CASE media'[i] # media[i]
    <3>1. Room(media'[i], On(i), Adding(i), Replacing(i)', overlaps[i])
      BY <1>0, <2>2, <2>4, RoomFreed DEF RoomFor
    <3> QED
      BY <1>0, <2>1, <2>2, <3>1 DEF RoomFor
  <2> QED
    BY <2>3, <2>4
<1>8. ASSUME NEW e \in Editor, item[e] = i, AddMedia(e) PROVE RoomFor(i)'
  <2>1. /\ On(i)' = On(i) /\ pc[e] = "add" /\ pc'[e] = "ack" /\ e \in Adding(i)
        /\ UNCHANGED <<row, overlaps, picked>>
        /\ \A g \in Editor \ {e} : pc'[g] = pc[g]
        /\ On(i) \subseteq Editor
    BY <1>8 DEF AddMedia, Goto, On, Adding, rows, history, TypeOK
  <2>2. PICK x : media'[i] = media[i] \/ media'[i] = media[i] \cup {x}
    <3>1. media'[i] = media[i] \/
            media'[i] = media[i] \cup {[key |-> keys + 1, name |-> name[e], image |-> image[e]]}
      BY <1>8 DEF AddMedia, TypeOK
    <3> QED
      BY <3>1, Zenon
  <2>3. Adding(i)' = Adding(i) \ {e} /\ e \notin Replacing(i)
    <3>1. Adding(i)' = Adding(i) \ {e}
      BY <2>1 DEF Adding
    <3> QED
      BY <2>1, <3>1 DEF Replacing
  <2>4. Replacing(i) \subseteq Replacing(i)' /\ Replacing(i)' \subseteq Adding(i) \ {e}
    BY <2>1, <2>2 DEF Adding, Replacing, On
  <2>5. /\ Room(media[i], On(i), Adding(i) \ {e}, Replacing(i)', overlaps[i])
        /\ Room(media[i] \cup {x}, On(i), Adding(i) \ {e}, Replacing(i)', overlaps[i])
    BY <1>0, <2>1, <2>3, <2>4, RoomUsed DEF RoomFor
  <2>6. row[i] # "new"
    BY <1>0, <1>8 DEF RoomFor, On
  <2> QED
    BY <2>1, <2>2, <2>3, <2>5, <2>6 DEF RoomFor
<1>9. ASSUME NEW e \in Editor, item[e] = i, Cascade(e) PROVE RoomFor(i)'
  <2>1. /\ On(i)' = On(i) /\ Adding(i)' = Adding(i) /\ media'[i] = {}
        /\ UNCHANGED <<row, overlaps>>
    BY <1>9 DEF Cascade, Goto, On, Adding, rows, history, TypeOK
  <2>2. Replacing(i)' \subseteq Adding(i)
    BY <2>1 DEF Adding, Replacing
  <2>3. Room({}, On(i), Adding(i), Replacing(i)', overlaps[i])
    BY <1>0, <2>2, RoomFreed DEF RoomFor
  <2> QED
    BY <1>0, <2>1, <2>3 DEF RoomFor
<1>10. ASSUME NEW e \in Editor, item[e] = i, DeleteRow(e) PROVE RoomFor(i)'
  <2>1. /\ On(i)' = On(i) /\ Adding(i)' = Adding(i) /\ Replacing(i)' = Replacing(i)
        /\ UNCHANGED <<media, overlaps>> /\ row'[i] # "new"
    BY <1>10 DEF DeleteRow, Goto, On, Adding, Replacing, history, TypeOK
  <2> QED
    BY <1>0, <2>1 DEF RoomFor
<1>11. ASSUME NEW e \in Editor, item[e] = i, Leave(e) PROVE RoomFor(i)'
  <2>1. /\ On(i)' = On(i) \ {e} /\ e \in On(i)
        /\ \A g \in On(i) \ {e} : pc'[g] = pc[g] /\ picked'[g] = picked[g]
        /\ UNCHANGED <<row, media, overlaps>>
    BY <1>11, Left DEF On, rows
  <2>2. Adding(i)' = Adding(i) \ {e} /\ Replacing(i)' = Replacing(i) \ {e}
    BY <2>1 DEF Adding, Replacing
  <2>3. Room(media[i], On(i) \ {e}, Adding(i) \ {e}, Replacing(i) \ {e}, overlaps[i])
    BY <1>0, <2>1, RoomLeft DEF RoomFor
  <2> QED
    BY <1>0, <2>1, <2>2, <2>3 DEF RoomFor
<1>12. CASE Purge(i)
  <2>1. /\ On(i)' = On(i) /\ Adding(i)' = Adding(i) /\ Replacing(i)' = Replacing(i)
        /\ UNCHANGED <<media, overlaps>> /\ row'[i] # "new"
    BY <1>12 DEF Purge, On, Adding, Replacing, request, history, TypeOK
  <2> QED
    BY <1>0, <2>1 DEF RoomFor
<1> QED
  BY <1>1, <1>2, <1>3, <1>4, <1>5, <1>6, <1>7, <1>8, <1>9, <1>10, <1>11, <1>12, HereOrElsewhere
     DEF Step, Respond, Die

-----------------------------------------------------------------------------
(* Deletes.                                                                *)

\* A delete that nothing crossed is alone on its row.
LEMMA NextAlone == TypeOK /\ AloneToDelete /\ [Next]_vars => AloneToDelete'
<1> DEFINE Alone(i) == /\ Destroying(i) => \A e, g \in On(i) : e = g
                       /\ \A e \in On(i) : pc[e] = "delete" => media[i] = {}
                       /\ row[i] = "gone" => media[i] = {} /\ \A e \in On(i) : pc[e] = "ack"
<1> SUFFICES ASSUME TypeOK, AloneToDelete, [Next]_vars, NEW i \in Item, ~crossed'[i]
             PROVE  /\ Destroying(i)' => \A e, g \in On(i)' : e = g
                    /\ \A e \in On(i)' : pc'[e] = "delete" => media'[i] = {}
                    /\ row'[i] = "gone" => media'[i] = {} /\ \A e \in On(i)' : pc'[e] = "ack"
  BY DEF AloneToDelete
<1> DEFINE Then == /\ Destroying(i)' => \A e, g \in On(i)' : e = g
                   /\ \A e \in On(i)' : pc'[e] = "delete" => media'[i] = {}
                   /\ row'[i] = "gone" => media'[i] = {} /\ \A e \in On(i)' : pc'[e] = "ack"
<1>0. ~crossed[i] => Alone(i)
  BY DEF AloneToDelete
<1> HIDE DEF Alone
<1>1. ASSUME Same(i) PROVE Then
  BY <1>0, <1>1 DEF Same, Alone, On, Destroying
<1>2. ASSUME NEW e \in Editor, NEW img, NEW s, NEW named, NEW next \in {"add", "write", "cascade"},
             Begin(e, i, img, s, named, next), row[i] # "gone", row'[i] # "gone"
      PROVE  Then
  <2>1. /\ On(i)' = On(i) \cup {e} /\ pc'[e] = next /\ media' = media
        /\ \A g \in On(i) : pc'[g] = pc[g]
        /\ ~crossed[i] /\ ~Destroying(i) /\ (next = "cascade" => On(i) = {})
    BY <1>2, Begun
  <2>2. \A g \in On(i) : pc[g] \notin {"cascade", "delete"}
    BY <2>1 DEF Destroying, On
  <2>3. Destroying(i)' => next = "cascade"
    BY <2>1, <2>2 DEF Destroying, On
  <2> QED
    BY <1>2, <2>1, <2>2, <2>3
<1>3. ASSUME NEW e \in Editor, item[e] = i, WriteRow(e) PROVE Then
  <2>1. /\ On(i)' = On(i) /\ e \in On(i) /\ pc[e] = "write" /\ pc'[e] = "pick"
        /\ UNCHANGED <<media, crossed>> /\ (Destroying(i)' => Destroying(i))
        /\ \A g \in On(i) \ {e} : pc'[g] = pc[g]
    BY <1>3 DEF WriteRow, Goto, On, Destroying, history, TypeOK
  <2>2. row'[i] = "gone" => row[i] = "gone"
    BY <1>3 DEF WriteRow, Goto, TypeOK
  <2> QED
    BY <1>0, <2>1, <2>2 DEF Alone
<1>4. ASSUME NEW e \in Editor, item[e] = i, PickMedia(e) \/ DropMedia(e) PROVE Then
  <2>1. /\ On(i)' = On(i) /\ e \in On(i) /\ pc[e] \in {"pick", "drop"}
        /\ pc'[e] \in {"drop", "add"}
        /\ UNCHANGED <<row, crossed>> /\ media'[i] \subseteq media[i]
        /\ (Destroying(i)' => Destroying(i))
        /\ \A g \in On(i) \ {e} : pc'[g] = pc[g]
    BY <1>4 DEF PickMedia, Pick, DropMedia, Goto, On, Destroying, store, rows, history, TypeOK
  <2> QED
    BY <1>0, <2>1 DEF Alone
<1>5. ASSUME NEW e \in Editor, item[e] = i, AddMedia(e) PROVE Then
  <2>1. /\ On(i)' = On(i) /\ e \in On(i) /\ pc[e] = "add" /\ pc'[e] = "ack"
        /\ UNCHANGED <<row, crossed>> /\ (Destroying(i)' => Destroying(i))
        /\ \A g \in On(i) \ {e} : pc'[g] = pc[g]
    BY <1>5 DEF AddMedia, Goto, On, Destroying, rows, history, TypeOK
  <2>2. Alone(i) /\ row[i] # "gone"
    BY <1>0, <2>1 DEF Alone
  <2>3. \A g \in On(i) : pc[g] # "delete"
    BY <2>1, <2>2 DEF Alone, Destroying, On
  <2> QED
    BY <2>1, <2>2, <2>3 DEF Alone
<1>6. ASSUME NEW e \in Editor, item[e] = i, Cascade(e) PROVE Then
  <2>1. /\ On(i)' = On(i) /\ e \in On(i) /\ pc[e] = "cascade" /\ pc'[e] = "delete"
        /\ UNCHANGED <<row, crossed>> /\ media'[i] = {} /\ Destroying(i)
        /\ \A g \in On(i) \ {e} : pc'[g] = pc[g]
    BY <1>6 DEF Cascade, Goto, On, Destroying, rows, history, TypeOK
  <2> QED
    BY <1>0, <2>1 DEF Alone
<1>7. ASSUME NEW e \in Editor, item[e] = i, DeleteRow(e) PROVE Then
  <2>1. /\ On(i)' = On(i) /\ e \in On(i) /\ pc[e] = "delete" /\ pc'[e] = "ack"
        /\ UNCHANGED <<media, crossed>> /\ Destroying(i)
        /\ \A g \in On(i) \ {e} : pc'[g] = pc[g]
    BY <1>7 DEF DeleteRow, Goto, On, Destroying, history, TypeOK
  <2> QED
    BY <1>0, <2>1 DEF Alone
<1>8. ASSUME NEW e \in Editor, item[e] = i, Leave(e) PROVE Then
  <2>1. /\ On(i)' = On(i) \ {e} /\ UNCHANGED <<row, media, crossed>>
        /\ \A g \in On(i) \ {e} : pc'[g] = pc[g]
    BY <1>8, Left DEF rows
  <2>2. Destroying(i)' => Destroying(i)
    BY <2>1 DEF Destroying, On
  <2> QED
    BY <1>0, <2>1, <2>2 DEF Alone
<1>10. ASSUME NEW e \in Editor, NEW img \in Image \cup {None}, NEW s \in Slug,
              Store(e, i, img, s) \/ Update(e, i, img, s)
       PROVE  Then
  <2>1. row[i] # "gone" /\ row'[i] # "gone"
    BY <1>10 DEF Store, Update, Live, rows, TypeOK
  <2> QED
    BY <1>2, <1>10, <2>1 DEF Store, Update
<1>11. ASSUME NEW e \in Editor, Destroy(e, i) PROVE Then
  <2>1. row[i] # "gone" /\ row'[i] # "gone"
    BY <1>11 DEF Destroy, Live, rows, TypeOK
  <2> QED
    BY <1>2, <1>11, <2>1 DEF Destroy
<1>9. ASSUME Purge(i) PROVE Then
  <2>1. /\ On(i)' = On(i) /\ row'[i] = "purged" /\ UNCHANGED <<media, pc, crossed>>
    BY <1>9 DEF Purge, On, request, history, TypeOK
  <2> QED
    BY <1>0, <2>1 DEF Alone, Destroying, On
<1> HIDE DEF Then
<1>12. ASSUME NEW e \in Editor, item[e] = i, Step(e) \/ Die(e) PROVE Then
  BY <1>3, <1>4, <1>5, <1>6, <1>7, <1>8, <1>12 DEF Step, Respond, Die
<1>13. (\E e \in Editor, img \in Image \cup {None}, s \in Slug :
          Store(e, i, img, s) \/ Update(e, i, img, s)) => Then
  BY <1>10
<1>14. Then
  <2>1. CASE \E e \in Editor : Destroy(e, i)
    BY <1>11, <2>1
  <2>2. CASE \E e \in Editor : item[e] = i /\ (Step(e) \/ Die(e))
    BY <1>12, <2>2
  <2>3. \/ Same(i)
        \/ \E e \in Editor, img \in Image \cup {None}, s \in Slug :
             Store(e, i, img, s) \/ Update(e, i, img, s)
        \/ \E e \in Editor : Destroy(e, i)
        \/ \E e \in Editor : item[e] = i /\ (Step(e) \/ Die(e))
        \/ Purge(i)
    BY HereOrElsewhere, Zenon
  <2> QED
    BY <1>1, <1>9, <1>13, <2>1, <2>2, <2>3, Zenon
<1> QED
  BY <1>14 DEF Then

-----------------------------------------------------------------------------
(* Requests one after the other.                                           *)

\* Requests one after the other leave a row and its media agreed.
LEMMA NextInTurn ==
  ASSUME ById
  PROVE  TypeOK /\ ByTheId /\ RoomToAdd /\ OneAfterTheOther /\ [Next]_vars => OneAfterTheOther'
<1> DEFINE InTurn(i) ==
      /\ \A e, g \in On(i) : e = g
      /\ \A m, n \in media[i] : m = n
      /\ Live(i) /\ On(i) = {} /\ ~broken[i] => Agrees(i)
      /\ \A e \in On(i) :
           /\ pc[e] = "drop" => \A m \in media[i] : m.key = picked[e]
           /\ pc[e] = "add" => media[i] = {}
           /\ pc[e] \in {"pick", "drop", "add"} /\ Live(i) => picture[i] = image[e]
           /\ pc[e] = "ack" /\ Live(i) => Agrees(i)
<1> SUFFICES ASSUME TypeOK, ByTheId, RoomToAdd, OneAfterTheOther, [Next]_vars,
                    NEW i \in Item, overlaps'[i] = 0
             PROVE  InTurn(i)'
  BY DEF OneAfterTheOther
<1>0. overlaps[i] = 0 => InTurn(i)
  BY DEF OneAfterTheOther
<1>1. ASSUME Same(i) PROVE InTurn(i)'
  <2>1. On(i)' = On(i) /\ (Live(i)' <=> Live(i)) /\ (Agrees(i)' <=> Agrees(i))
    BY <1>1 DEF Same, On, Live, Agrees
  <2>2. \A e \in On(i) : pc'[e] = pc[e] /\ picked'[e] = picked[e] /\ image'[e] = image[e]
    BY <1>1 DEF Same, On
  <2> QED
    BY <1>0, <1>1, <2>1, <2>2 DEF Same
<1>2. ASSUME NEW e \in Editor, NEW img, NEW s, NEW named, NEW next \in {"add", "write", "cascade"},
             Begin(e, i, img, s, named, next),
             next = "add" => media[i] = {} /\ picture'[i] = img
      PROVE  InTurn(i)'
  <2>1. /\ On(i)' = {e} /\ pc'[e] = next /\ media' = media /\ overlaps[i] = 0
        /\ image'[e] = img
    BY <1>2, Begun DEF TypeOK
  <2> QED
    BY <1>0, <1>2, <2>1
<1>3. ASSUME NEW e \in Editor, NEW img \in Image \cup {None}, NEW s \in Slug,
             Store(e, i, img, s)
      PROVE  InTurn(i)'
  <2>1. media[i] = {} /\ picture'[i] = img
    BY <1>3 DEF Store, RoomToAdd, RoomFor, TypeOK
  <2> QED
    BY <1>2, <1>3, <2>1 DEF Store
<1>4. ASSUME NEW e \in Editor, NEW img \in Image \cup {None}, NEW s \in Slug,
             Update(e, i, img, s)
      PROVE  InTurn(i)'
  BY <1>2, <1>4 DEF Update
<1>5. ASSUME NEW e \in Editor, Destroy(e, i) PROVE InTurn(i)'
  BY <1>2, <1>5 DEF Destroy
<1>6. ASSUME NEW e \in Editor, item[e] = i, WriteRow(e) PROVE InTurn(i)'
  <2>1. /\ On(i)' = On(i) /\ e \in On(i) /\ pc'[e] = "pick"
        /\ UNCHANGED <<media, overlaps, image>>
    BY <1>6 DEF WriteRow, Goto, On, history, TypeOK
  <2>2. (Live(i)' <=> Live(i)) /\ (Live(i) => picture'[i] = image[e])
    BY <1>6 DEF WriteRow, Goto, Live, TypeOK
  <2> QED
    BY <1>0, <2>1, <2>2
<1>7. ASSUME NEW e \in Editor, item[e] = i, PickMedia(e) PROVE InTurn(i)'
  <2>1. /\ On(i)' = On(i) /\ e \in On(i) /\ UNCHANGED <<row, picture, media, overlaps, image>>
        /\ pc[e] = "pick" /\ pc'[e] \in {"drop", "add"} /\ (Live(i)' <=> Live(i))
    BY <1>7 DEF PickMedia, Pick, Goto, On, Live, store, rows, history, TypeOK
  <2>2. Named(e) = media[i]
    BY <1>7 DEF Named, NameSought, ById, ByTheId
  <2>3. /\ pc'[e] = "add" => media[i] = {}
        /\ pc'[e] = "drop" => \E m \in media[i] : picked'[e] = m.key
    BY <1>7, <2>2 DEF PickMedia, Pick, Goto, TypeOK
  <2> QED
    BY <1>0, <2>1, <2>3
<1>8. ASSUME NEW e \in Editor, item[e] = i, DropMedia(e) PROVE InTurn(i)'
  <2>1. /\ On(i)' = On(i) /\ e \in On(i) /\ pc[e] = "drop" /\ pc'[e] = "add"
        /\ UNCHANGED <<row, picture, overlaps, image>> /\ (Live(i)' <=> Live(i))
        /\ media'[i] = {m \in media[i] : m.key # picked[e]}
    BY <1>8 DEF DropMedia, Goto, On, Live, rows, history, TypeOK
  <2> QED
    BY <1>0, <2>1
<1>9. ASSUME NEW e \in Editor, item[e] = i, AddMedia(e) PROVE InTurn(i)'
  <2>1. /\ On(i)' = On(i) /\ e \in On(i) /\ pc[e] = "add" /\ pc'[e] = "ack"
        /\ UNCHANGED <<row, picture, overlaps, image>> /\ (Live(i)' <=> Live(i))
    BY <1>9 DEF AddMedia, Goto, On, Live, rows, history, TypeOK
  <2>2. media[i] = {} /\ (Live(i) => picture[i] = image[e]) /\ On(i) = {e}
    BY <1>0, <2>1
  <2>3. CASE image[e] = None
    <3>1. media'[i] = {} /\ (Live(i) => picture'[i] = None)
      BY <1>9, <2>1, <2>2, <2>3 DEF AddMedia
    <3> QED
      BY <2>1, <2>2, <3>1 DEF Agrees
  <2>4. CASE image[e] # None
    <3> DEFINE m == [key |-> keys + 1, name |-> name[e], image |-> image[e]]
    <3>0. m.image = image[e]
      OBVIOUS
    <3>1. media'[i] = {m}
      BY <1>9, <2>2, <2>4 DEF AddMedia, TypeOK
    <3> HIDE DEF m
    <3>2. {n.image : n \in {m}} = {image[e]}
      BY <3>0
    <3>3. Live(i) => Agrees(i)'
      BY <2>1, <2>2, <2>4, <3>1, <3>2 DEF Agrees
    <3> QED
      BY <2>1, <2>2, <3>1, <3>3
  <2> QED
    BY <2>3, <2>4
<1>10. ASSUME NEW e \in Editor, item[e] = i, Cascade(e) PROVE InTurn(i)'
  <2>1. /\ On(i)' = On(i) /\ e \in On(i) /\ pc'[e] = "delete" /\ media'[i] = {}
        /\ UNCHANGED overlaps
    BY <1>10 DEF Cascade, Goto, On, history, TypeOK
  <2> QED
    BY <1>0, <2>1
<1>11. ASSUME NEW e \in Editor, item[e] = i, DeleteRow(e) PROVE InTurn(i)'
  <2>1. /\ On(i)' = On(i) /\ e \in On(i) /\ pc'[e] = "ack" /\ ~Live(i)'
        /\ UNCHANGED <<media, overlaps>>
    BY <1>11 DEF DeleteRow, Goto, On, Live, history, TypeOK
  <2> QED
    BY <1>0, <2>1
<1>12. ASSUME NEW e \in Editor, item[e] = i, Respond(e) PROVE InTurn(i)'
  <2>1. /\ On(i)' = On(i) \ {e} /\ e \in On(i) /\ pc[e] = "ack"
        /\ UNCHANGED <<row, picture, media, overlaps>>
    BY <1>12, Left DEF Respond, On, rows, TypeOK
  <2>2. (Live(i)' <=> Live(i)) /\ (Agrees(i)' <=> Agrees(i))
    BY <2>1 DEF Live, Agrees
  <2> QED
    BY <1>0, <2>1, <2>2
<1>13. ASSUME NEW e \in Editor, item[e] = i, Die(e) PROVE InTurn(i)'
  <2>1. /\ On(i)' = On(i) \ {e} /\ e \in On(i) /\ UNCHANGED <<media, overlaps>> /\ broken'[i]
    BY <1>13, Left DEF Die, On, TypeOK
  <2> QED
    BY <1>0, <2>1
<1>14. CASE Purge(i)
  <2>1. On(i)' = On(i) /\ UNCHANGED <<media, overlaps, pc, picked>> /\ ~Live(i)'
    BY <1>14 DEF Purge, On, Live, request, history, TypeOK
  <2> QED
    BY <1>0, <2>1
<1> HIDE DEF InTurn
<1>15. ASSUME NEW e \in Editor, item[e] = i, Step(e) \/ Die(e) PROVE InTurn(i)'
  BY <1>6, <1>7, <1>8, <1>9, <1>10, <1>11, <1>12, <1>13, <1>15 DEF Step
<1> QED
  BY <1>1, <1>3, <1>4, <1>5, <1>14, <1>15, HereOrElsewhere

-----------------------------------------------------------------------------
(* The theorems.                                                           *)

\* Nothing is attached to a row before its first request.
LEMMA InitHolds == Init => IInv
<1> SUFFICES ASSUME Init PROVE IInv
  OBVIOUS
<1>1. TypeOK
  BY InitTyped
<1>2. \A i \in Item : On(i) = {} /\ media[i] = {} /\ row[i] = "new"
  BY DEF Init, On
<1>3. ByTheId
  BY DEF Init, ByTheId
<1>4. RoomToAdd
  <2>1. \A i \in Item : Adding(i) = {} /\ Replacing(i) = {} /\ overlaps[i] = 0
    BY <1>2 DEF Init, Adding, Replacing
  <2>2. Room({}, {}, {}, {}, 0)
    BY FS_EmptySet DEF Room
  <2> QED
    BY <1>2, <2>1, <2>2 DEF RoomToAdd, RoomFor
<1>5. AloneToDelete
  BY <1>2 DEF AloneToDelete, Destroying, On
<1>6. OneAfterTheOther
  BY <1>2 DEF OneAfterTheOther, Live
<1> QED
  BY <1>1, <1>3, <1>4, <1>5, <1>6 DEF IInv

\* The invariant holds for the media that are named by the id.
LEMMA Invariance == ById => (Spec => []IInv)
<1>1. Init => IInv
  BY InitHolds
<1>2. ById /\ IInv /\ [Next]_vars => IInv'
  BY NextTyped, NextNamed, NextRoom, NextAlone, NextInTurn DEF IInv
<1>3. ById => []ById
  BY DEF ById
<1> QED
  BY <1>1, <1>2, <1>3, PTL DEF Spec

\* Whatever the media are named by, every variable has its type.
THEOREM TypeCorrect == Spec => []TypeOK
<1>1. Init => TypeOK
  BY InitTyped
<1>2. TypeOK /\ [Next]_vars => TypeOK'
  BY NextTyped
<1> QED
  BY <1>1, <1>2, PTL DEF Spec

\* The requests for an ad or an event leave at most one media more than they
\* overlapped, however many of them die (PubController 109-135,
\* EvenementController).
THEOREM MediaStayFew == ById => (Spec => []MediaBounded)
<1>1. TypeOK /\ RoomToAdd => MediaBounded
  <2> SUFFICES ASSUME TypeOK, RoomToAdd, NEW i \in Item
               PROVE  Cardinality(media[i]) <= 1 + overlaps[i]
    BY DEF MediaBounded
  <2>1. /\ Room(media[i], On(i), Adding(i), Replacing(i), overlaps[i])
        /\ overlaps[i] \in Nat
    BY DEF RoomToAdd, RoomFor, TypeOK
  <2>2. /\ IsFiniteSet(Adding(i)) /\ Cardinality(media[i]) \in Nat
        /\ Cardinality(Adding(i)) \in Nat
        /\ Adding(i) # {} => Cardinality(Adding(i)) # 0
    BY <2>1, FS_Subset, FS_CardinalityType, FS_EmptySet DEF Room
  <2> QED
    BY <2>1, <2>2 DEF Room
<1>2. IInv => MediaBounded
  BY <1>1 DEF IInv
<1> QED
  BY <1>2, Invariance, PTL

\* A row that an editor deletes leaves no media behind unless another request
\* crossed the delete, be they named by the id or by the slug and whether or not the
\* nightly purge came in between (destroy of the three controllers).
THEOREM NothingLeftBehind == Spec => []NoOrphans
<1>1. Init => TypeOK /\ AloneToDelete
  BY InitHolds DEF IInv
<1>2. TypeOK /\ AloneToDelete /\ [Next]_vars => TypeOK' /\ AloneToDelete'
  BY NextTyped, NextAlone
<1>3. AloneToDelete => NoOrphans
  BY DEF AloneToDelete, NoOrphans
<1> QED
  BY <1>1, <1>2, <1>3, PTL DEF Spec

\* When the requests for an ad or an event did not overlap and the last of them
\* ended well, its media are those of the picture its row names, however many
\* requests before died at any of their steps (PubController 109-135).
THEOREM MediaAgree == ById => (Spec => []MediaMatchRow)
<1>1. ASSUME IInv, NEW i \in Item, Live(i), ~Busy(i), overlaps[i] = 0, ~broken[i]
      PROVE  Agrees(i) /\ Cardinality(media[i]) <= 1
  <2>1. On(i) = {} /\ Agrees(i) /\ \A m, n \in media[i] : m = n
    BY <1>1 DEF IInv, OneAfterTheOther, Busy, On
  <2>2. CASE media[i] = {}
    BY <2>1, <2>2, FS_EmptySet
  <2>3. CASE media[i] # {}
    <3>1. PICK m : media[i] = {m}
      BY <2>1, <2>3
    <3>2. Cardinality({m}) = 1
      BY FS_Singleton, Zenon
    <3> QED
      BY <2>1, <3>1, <3>2
  <2> QED
    BY <2>2, <2>3
<1>2. IInv => MediaMatchRow
  BY <1>1 DEF MediaMatchRow
<1> QED
  BY <1>2, Invariance, PTL

-----------------------------------------------------------------------------
(* Articles: the updates look for the slug and name by the id.             *)

\* A key is given once, and a request deletes the media it looked for.
LEMMA NextKeys == TypeOK /\ KeysGivenOnce /\ [Next]_vars => KeysGivenOnce'
<1> SUFFICES ASSUME TypeOK, KeysGivenOnce, [Next]_vars PROVE KeysGivenOnce'
  OBVIOUS
<1> USE DEF KeysGivenOnce, NameSought, TypeOK, Media, store, rows, request
<1>1. ASSUME NEW e \in Editor, NEW i \in Item, NEW img \in Image \cup {None}, NEW s,
             NEW named, NEW next, Begin(e, i, img, s, named, next),
             next \in {"add", "cascade"} \/ (next = "write" /\ s \in Slug)
      PROVE  KeysGivenOnce'
  BY <1>1 DEF Begin
<1>2. ASSUME NEW e \in Editor, WriteRow(e) \/ DeleteRow(e) PROVE KeysGivenOnce'
  BY <1>2 DEF WriteRow, DeleteRow, Goto
<1>3. ASSUME NEW e \in Editor, PickMedia(e) PROVE KeysGivenOnce'
  BY <1>3 DEF PickMedia, Pick, Goto, Named, IsFirst
<1>4. ASSUME NEW e \in Editor, DropMedia(e) PROVE KeysGivenOnce'
  BY <1>4 DEF DropMedia, Goto
<1>5. ASSUME NEW e \in Editor, AddMedia(e) PROVE KeysGivenOnce'
  BY <1>5 DEF AddMedia, Goto
<1>6. ASSUME NEW e \in Editor, Cascade(e) PROVE KeysGivenOnce'
  BY <1>6 DEF Cascade, Goto
<1>7. ASSUME NEW e \in Editor, Leave(e) PROVE KeysGivenOnce'
  BY <1>7 DEF Leave
<1>8. CASE UNCHANGED vars
  BY <1>8 DEF vars
<1>9. ASSUME NEW i \in Item, Purge(i) PROVE KeysGivenOnce'
  BY <1>9 DEF Purge
<1> QED
  BY <1>1, <1>2, <1>3, <1>4, <1>5, <1>6, <1>7, <1>8, <1>9
     DEF Next, Step, Store, Update, Destroy, Respond, Die

\* What the updates of an article add, named by the id, no later update removes:
\* it stays until a request deletes the article (ArticleController 132, 148).
THEOREM UpdatesStayForGood == Lookup = "slug" => (Spec => UpdatesStay)
<1>1. ASSUME TypeOK, KeysGivenOnce, [Next]_vars, Lookup = "slug", NEW i \in Item,
             ~Destroying(i)
      PROVE  {m \in media[i] : m.name = "id"} \subseteq media'[i]
  <2> USE DEF TypeOK, store, rows, request
  <2>1. CASE \E e \in Editor : DropMedia(e)
    <3>1. PICK e \in Editor : DropMedia(e)
      BY <2>1
    <3>2. media'[i] = IF item[e] = i THEN {m \in media[i] : m.key # picked[e]} ELSE media[i]
      BY <1>1, <3>1 DEF DropMedia, Goto
    <3>3. /\ slug[e] \in Slug /\ slug[e] # "id"
          /\ \A m \in media[item[e]] : m.key = picked[e] => m.name = slug[e]
      BY <1>1, <3>1 DEF DropMedia, Goto, KeysGivenOnce, NameSought
    <3> QED
      BY <3>2, <3>3
  <2>2. CASE \E e \in Editor : AddMedia(e)
    BY <1>1, <2>2 DEF AddMedia, Goto
  <2>3. CASE \E e \in Editor : Cascade(e)
    BY <1>1, <2>3 DEF Cascade, Goto, Destroying
  <2>4. CASE media' = media
    BY <2>4
  <2>5. \/ media' = media \/ \E e \in Editor : DropMedia(e) \/ AddMedia(e) \/ Cascade(e)
    BY <1>1 DEF Next, Step, Store, Update, Destroy, Begin, WriteRow, PickMedia, Pick,
                DeleteRow, Respond, Die, Leave, Purge, vars
  <2> QED
    BY <2>1, <2>2, <2>3, <2>4, <2>5
<1>2. Lookup = "slug" /\ TypeOK /\ KeysGivenOnce /\ [Next]_vars =>
        [\A i \in Item : ~Destroying(i) =>
           {m \in media[i] : m.name = "id"} \subseteq media'[i]]_vars
  BY <1>1
<1>3. Init => TypeOK /\ KeysGivenOnce
  BY InitTyped DEF Init, KeysGivenOnce
<1>4. TypeOK /\ KeysGivenOnce /\ [Next]_vars => TypeOK' /\ KeysGivenOnce'
  BY NextTyped, NextKeys
<1>5. Lookup = "slug" => [](Lookup = "slug")
  OBVIOUS
<1> QED
  BY <1>2, <1>3, <1>4, <1>5, PTL DEF Spec, UpdatesStay
=============================================================================
