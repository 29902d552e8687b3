--------------------------- MODULE AttachedMedia ---------------------------
(***************************************************************************)
(* The picture attached to an article, an ad or an event: store, update    *)
(* and destroy of app/Http/Controllers/api/V1/{Article,Pub,Evenement}      *)
(* Controller.php over the tables of the model and of spatie/media-library *)
(* (external).  Each request makes its statements one at a time and the    *)
(* requests of several editors interleave; a request may die (an exception *)
(* of the image library, a killed process) between any two of them.  At    *)
(* night app:clear-all-cache deletes ads and events by a query that fires  *)
(* no event of the model.                                                  *)
(***************************************************************************)
EXTENDS Naturals, FiniteSets

CONSTANTS
  Editor,      \* requests that edit
  Item,        \* rows; an id is given once
  Image,       \* pictures whose file exists on the server
  Slug,        \* slugs computed from a title
  ByName,      \* "id": store names the media by the id; "slug": by the slug
  Lookup,      \* "id" or "slug": the name update looks for
  Purged,      \* whether the nightly command deletes these rows: ads, events
  MaxRequests, \* bound on the requests
  None

ASSUME AttachedMediaAssumption ==
  /\ ByName \in {"id", "slug"} /\ Lookup \in {"id", "slug"}
  /\ Purged \in BOOLEAN /\ MaxRequests \in Nat
  /\ None \notin Image \cup Slug \cup Item
  /\ {"new", "gone", "purged", "id"} \cap Slug = {}

VARIABLES
  row,      \* row[i]: "new" before the insert, a slug, "gone" once an editor has
            \* deleted it, "purged" once the nightly command has
  picture,  \* picture[i]: the picture row i names, which is what the pages show;
            \* None if its file is not on this server
  media,    \* media[i]: the collection of i, ordered by the keys
  keys,     \* number of media rows inserted
  began,    \* number of requests begun
  pc, item, image, slug,   \* the requests, the picture and slug they bring,
  name, picked,  \* the name of the media they add, the media they delete
  overlaps, \* history: requests on i that began while another one was on i
  crossed,  \* history: a destroy of i overlapped another request on i
  broken    \* history: broken[i]: the last request on i that ended died

rows    == <<row, picture>>
store   == <<rows, media, keys>>
request == <<pc, item, image, slug, name, picked>>
history == <<overlaps, crossed, broken>>
vars    == <<store, began, request, history>>

Media == [key : Nat, name : Slug \cup {"id"}, image : Image]

Pcs == {"idle", "write", "pick", "drop", "add", "ack", "cascade", "delete"}

TypeOK ==
  /\ row \in [Item -> Slug \cup {"new", "gone", "purged"}]
  /\ picture \in [Item -> Image \cup {None}]
  /\ keys \in Nat /\ began \in 0 .. MaxRequests
  /\ media \in [Item -> SUBSET Media]
  /\ pc \in [Editor -> Pcs]
  /\ item \in [Editor -> Item \cup {None}]
  /\ \A e \in Editor : /\ pc[e] = "idle" <=> item[e] = None
                       /\ pc[e] = "write" => slug[e] \in Slug
  /\ image \in [Editor -> Image \cup {None}]
  /\ slug \in [Editor -> Slug \cup {None}]
  /\ name \in [Editor -> Slug \cup {"id"}]
  /\ picked \in [Editor -> Nat]
  /\ overlaps \in [Item -> Nat]
  /\ crossed \in [Item -> BOOLEAN] /\ broken \in [Item -> BOOLEAN]

Init ==
  /\ row = [i \in Item |-> "new"] /\ picture = [i \in Item |-> None]
  /\ media = [i \in Item |-> {}]
  /\ keys = 0 /\ began = 0
  /\ pc = [e \in Editor |-> "idle"]
  /\ item = [e \in Editor |-> None]
  /\ image = [e \in Editor |-> None]
  /\ slug = [e \in Editor |-> None]
  /\ name = [e \in Editor |-> "id"]
  /\ picked = [e \in Editor |-> 0]
  /\ overlaps = [i \in Item |-> 0]
  /\ crossed = [i \in Item |-> FALSE] /\ broken = [i \in Item |-> FALSE]

Live(i) == row[i] \in Slug
Busy(i) == \E e \in Editor : item[e] = i
Destroying(i) == \E e \in Editor : item[e] = i /\ pc[e] \in {"cascade", "delete"}

-----------------------------------------------------------------------------
\* A request on i begins; img = None when the picture has no file here.
Begin(e, i, img, s, named, next) ==
  /\ pc[e] = "idle"
  /\ began < MaxRequests
  /\ began' = began + 1
  /\ pc' = [pc EXCEPT ![e] = next]
  /\ item' = [item EXCEPT ![e] = i]
  /\ image' = [image EXCEPT ![e] = img]
  /\ slug' = [slug EXCEPT ![e] = s]
  /\ name' = [name EXCEPT ![e] = named]
  /\ overlaps' = [overlaps EXCEPT ![i] = IF Busy(i) THEN @ + 1 ELSE @]
  /\ crossed' = [crossed EXCEPT ![i] =
       @ \/ Destroying(i) \/ (Busy(i) /\ next = "cascade")]
  /\ UNCHANGED <<media, keys, picked, broken>>

\* store: the row is inserted, then its picture attached.
Store(e, i, img, s) ==
  /\ row[i] = "new"
  /\ Begin(e, i, img, s, IF ByName = "slug" THEN s ELSE "id", "add")
  /\ row' = [row EXCEPT ![i] = s]
  /\ picture' = [picture EXCEPT ![i] = img]

\* update: findOrFail.
Update(e, i, img, s) ==
  /\ Live(i)
  /\ Begin(e, i, img, s, "id", "write")
  /\ UNCHANGED rows

\* destroy: findById, and the first media of the row, already among those that
\* the model's deleting event removes.
Destroy(e, i) ==
  /\ Live(i)
  /\ Begin(e, i, None, None, "id", "cascade")
  /\ UNCHANGED rows

Goto(e, here, there) ==
  /\ pc[e] = here
  /\ pc' = [pc EXCEPT ![e] = there]
  /\ UNCHANGED <<began, item, image, slug, name, history>>

\* An UPDATE of a row deleted meanwhile changes nothing and raises nothing.
WriteRow(e) ==
  /\ Goto(e, "write", "pick")
  /\ row' = [row EXCEPT ![item[e]] = IF Live(item[e]) THEN slug[e] ELSE @]
  /\ picture' = [picture EXCEPT ![item[e]] = IF Live(item[e]) THEN image[e] ELSE @]
  /\ UNCHANGED <<media, keys, picked>>

NameSought(e) == IF Lookup = "slug" THEN slug[e] ELSE "id"

Named(e) == {m \in media[item[e]] : m.name = NameSought(e)}

\* m is the first of a collection.
IsFirst(m, ms) == m \in ms /\ \A n \in ms : m.key <= n.key

Pick(e, key, next) ==
  /\ Goto(e, "pick", next)
  /\ picked' = [picked EXCEPT ![e] = key]
  /\ UNCHANGED store

\* Mutation: the second media of that name is picked, if there is one.
PickMediaSecond(e) ==
  /\ pc[e] = "pick"
  /\ \/ Cardinality(Named(e)) < 2 /\ Pick(e, 0, "add")
     \/ \E m, n \in Named(e) : /\ IsFirst(m, Named(e)) /\ IsFirst(n, Named(e) \ {m})
                               /\ Pick(e, n.key, "drop")

\* getMedia(...)->where('name', ...)->first()
PickMedia(e) ==
  /\ pc[e] = "pick"
  /\ \/ Named(e) = {} /\ Pick(e, 0, "add")
     \/ \E m \in Named(e) : IsFirst(m, Named(e)) /\ Pick(e, m.key, "drop")

\* Mutation: the media is looked up but not deleted.
DropMediaNever(e) ==
  /\ Goto(e, "drop", "add")
  /\ picked' = [picked EXCEPT ![e] = 0]
  /\ UNCHANGED store

DropMedia(e) ==
  /\ Goto(e, "drop", "add")
  /\ media' = [media EXCEPT ![item[e]] =
                 {m \in @ : m.key # picked[e]}]
  /\ picked' = [picked EXCEPT ![e] = 0]
  /\ UNCHANGED <<rows, keys>>

\* Mutation: the existence of the file is not checked.
AddMediaUnchecked(e) ==
  /\ Goto(e, "add", "ack")
  /\ keys' = keys + 1
  /\ media' = [media EXCEPT ![item[e]] =
       @ \cup {[key |-> keys + 1, name |-> name[e], image |-> image[e]]}]
  /\ UNCHANGED <<rows, picked>>

\* addMedia(...)->toMediaCollection(), if File::exists: the row of the item is
\* not looked at again.
AddMedia(e) ==
  /\ Goto(e, "add", "ack")
  /\ IF image[e] = None THEN UNCHANGED <<media, keys>>
     ELSE /\ keys' = keys + 1
          /\ media' = [media EXCEPT ![item[e]] =
               @ \cup {[key |-> keys + 1, name |-> name[e], image |-> image[e]]}]
  /\ UNCHANGED <<rows, picked>>

\* Mutation: only the first media of the row is deleted.
CascadeFirst(e) ==
  /\ Goto(e, "cascade", "delete")
  /\ media' = [media EXCEPT ![item[e]] = {m \in @ : ~IsFirst(m, @)}]
  /\ UNCHANGED <<rows, keys, picked>>

\* The deleting event of the model removes its media ...
Cascade(e) ==
  /\ Goto(e, "cascade", "delete")
  /\ media' = [media EXCEPT ![item[e]] = {}]
  /\ UNCHANGED <<rows, keys, picked>>

\* ... then the row is deleted.
DeleteRow(e) ==
  /\ Goto(e, "delete", "ack")
  /\ row' = [row EXCEPT ![item[e]] = "gone"]
  /\ UNCHANGED <<picture, media, keys, picked>>

Leave(e) ==
  /\ pc' = [pc EXCEPT ![e] = "idle"]
  /\ item' = [item EXCEPT ![e] = None]
  /\ image' = [image EXCEPT ![e] = None]
  /\ slug' = [slug EXCEPT ![e] = None]
  /\ name' = [name EXCEPT ![e] = "id"]
  /\ picked' = [picked EXCEPT ![e] = 0]
  /\ UNCHANGED <<store, began, overlaps, crossed>>

\* "Article mis à jour", "Pub ajouté", ...
Respond(e) ==
  /\ pc[e] = "ack"
  /\ Leave(e)
  /\ broken' = [broken EXCEPT ![item[e]] = FALSE]

Die(e) ==
  /\ pc[e] \notin {"idle", "ack"}
  /\ Leave(e)
  /\ broken' = [broken EXCEPT ![item[e]] = TRUE]

\* Pub::where('endpubdate', '<', now())->delete(), and the same of the events: one
\* statement, and no deleting event that would remove the media.
Purge(i) ==
  /\ Purged
  /\ Live(i)
  /\ row' = [row EXCEPT ![i] = "purged"]
  /\ UNCHANGED <<picture, media, keys, began, request, history>>

Step(e) == \/ WriteRow(e) \/ PickMedia(e) \/ DropMedia(e) \/ AddMedia(e)
           \/ Cascade(e) \/ DeleteRow(e) \/ Respond(e)

Next ==
  \/ \E e \in Editor :
       \/ \E i \in Item :
            \/ \E img \in Image \cup {None}, s \in Slug : Store(e, i, img, s)
            \/ \E img \in Image \cup {None}, s \in Slug : Update(e, i, img, s)
            \/ Destroy(e, i)
       \/ Step(e) \/ Die(e)
  \/ \E i \in Item : Purge(i)

\* The system rests once MaxRequests requests have been made.
Spec == Init /\ [][Next]_vars

-----------------------------------------------------------------------------
\* The media of a row are those of the picture it names: one, or none if that
\* picture has no file here.
Agrees(i) == {m.image : m \in media[i]} = {picture[i]} \ {None}

\* Requests that never overlapped leave the row and its media agreed once the last
\* of them has ended well: also when the old media went before the new file was
\* found missing, and also when earlier requests died with the row written and the
\* media not yet - the next one finds what they left (PubController 109-135,
\* EvenementController 109-137).
MediaMatchRow ==
  \A i \in Item :
    Live(i) /\ ~Busy(i) /\ overlaps[i] = 0 /\ ~broken[i] =>
      Agrees(i) /\ Cardinality(media[i]) <= 1

\* Every overlap leaves at most one media too many, and a request that dies
\* none: the media of an item do not pile up otherwise (PubController 109-135).
MediaBounded == \A i \in Item : Cardinality(media[i]) <= 1 + overlaps[i]

\* A row an editor has deleted leaves no media behind, unless the delete overlapped
\* another request - also when earlier requests had overlapped or died and left
\* several media or none, and when the nightly purge comes in between.  The rows the
\* purge itself deletes keep their media (destroy of the three controllers).
NoOrphans ==
  \A i \in Item : row[i] = "gone" /\ media[i] # {} => crossed[i]

\* "//$media = $this->getMedia('article')->where('name',$this->slug)->first();"
\* (ArticleResource 55): the picture of an article is the media named by its slug.
PictureUnderSlug ==
  \A i \in Item :
    Live(i) /\ ~Busy(i) /\ overlaps[i] = 0 /\ ~broken[i] /\ picture[i] # None =>
      \E m \in media[i] : m.name = row[i] /\ m.image = picture[i]

\* The other side of the naming of articles: where update looks for the slug, it
\* never finds what an update has added, named by the id.  Until the article is
\* deleted these media stay, one more for every update, in whatever order the
\* requests come (ArticleController 125-161, usingName at 67 and 148).
UpdatesStay ==
  [][\A i \in Item : ~Destroying(i) =>
       {m \in media[i] : m.name = "id"} \subseteq media'[i]]_vars

-----------------------------------------------------------------------------
(* The inductive invariant of AttachedMediaProofs, of the media that are   *)
(* named by the id: those of ads and events.                               *)

ByTheId == \A e \in Editor : name[e] = "id" /\ \A i \in Item : \A m \in media[i] : m.name = "id"

\* The requests on i, those of them that will add a media, and those of these
\* that will delete one first, if it is still there.
On(i) == {e \in Editor : item[e] = i}
Adding(i) == {e \in On(i) : pc[e] \in {"write", "pick", "drop", "add"}}
Replacing(i) == {e \in On(i) : \/ pc[e] \in {"write", "pick"}
                               \/ pc[e] = "drop" /\ \E m \in media[i] : m.key = picked[e]}

\* With n overlaps, the requests at work are one more at most, and so are the
\* media there will be, but for one that a request will delete first.
Room(ms, on, adding, replacing, n) ==
  /\ IsFiniteSet(ms) /\ IsFiniteSet(on)
  /\ adding \subseteq on /\ replacing \subseteq adding
  /\ Cardinality(on) <= 1 + n
  /\ \/ Cardinality(ms) + Cardinality(adding) <= 1 + n
     \/ Cardinality(ms) + Cardinality(adding) <= 2 + n /\ replacing # {}

RoomFor(i) ==
  /\ row[i] = "new" => media[i] = {} /\ On(i) = {}
  /\ Room(media[i], On(i), Adding(i), Replacing(i), overlaps[i])

RoomToAdd == \A i \in Item : RoomFor(i)

\* A delete that was not crossed is alone, and leaves nothing.
AloneToDelete ==
  \A i \in Item : ~crossed[i] =>
    /\ Destroying(i) => \A e, g \in On(i) : e = g
    /\ \A e \in On(i) : pc[e] = "delete" => media[i] = {}
    /\ row[i] = "gone" => media[i] = {} /\ \A e \in On(i) : pc[e] = "ack"

\* The collection of a row on which requests came one after the other.
OneAfterTheOther ==
  \A i \in Item : overlaps[i] = 0 =>
    /\ \A e, g \in On(i) : e = g
    /\ \A m, n \in media[i] : m = n
    /\ Live(i) /\ On(i) = {} /\ ~broken[i] => Agrees(i)
    /\ \A e \in On(i) :
         /\ pc[e] = "drop" => \A m \in media[i] : m.key = picked[e]
         /\ pc[e] = "add" => media[i] = {}
         /\ pc[e] \in {"pick", "drop", "add"} /\ Live(i) => picture[i] = image[e]
         /\ pc[e] = "ack" /\ Live(i) => Agrees(i)

\* A key is given once, and the one a request is about to delete had the name it
\* looked for.
KeysGivenOnce ==
  /\ \A i \in Item : \A m, n \in media[i] : m.key <= keys /\ (m.key = n.key => m = n)
  /\ \A e \in Editor :
       /\ pc[e] \in {"write", "pick", "drop"} => slug[e] \in Slug
       /\ pc[e] = "drop" =>
            /\ picked[e] <= keys
            /\ \A m \in media[item[e]] : m.key = picked[e] => m.name = NameSought(e)

\* Invariant under every step, and strong enough to be so.
IInv == TypeOK /\ ByTheId /\ RoomToAdd /\ AloneToDelete /\ OneAfterTheOther
=============================================================================
