----------------------------- MODULE ProductMedia -----------------------------
(* The pictures of a product: links to pictures elsewhere, and pictures       *)
(* uploaded to the public bucket under a key made of the product's code and   *)
(* the hash of the bytes.  Rows are written in serializable transactions, the *)
(* bucket is outside of them; an object is deleted once no row has its key.   *)
EXTENDS Naturals, FiniteSets

CONSTANTS Requests,   \* of administrators; a row has the identity of the request that adds it
          Products,
          Folder,     \* the code of a product as it appears in a key: products may share it
          Files,      \* bodies that are uploaded
          FormatOf,   \* what the first bytes of a body say it is
          Overlap     \* may two requests be about the same key at the same time?

Formats == {"jpeg", "png", "gif", "webp"}

FolderAssumption == Folder \in [Products -> STRING]
FormatAssumption == FormatOf \in [Files -> Formats \cup {"html", "empty", "too large", "unknown"}]
OverlapAssumption == Overlap \in BOOLEAN

VARIABLES archived,   \* products
          media,      \* the rows
          objects,    \* the bucket
          late,       \* calls to the bucket that were given up and may still take effect
          request,
          faulty      \* keys a call to the bucket or the database failed on

mediaVars == <<archived, media, objects, late, request, faulty>>

NoKey == <<>>
NoRow == [product |-> "-", key |-> NoKey, primary |-> FALSE]
Keys == {Folder[p] : p \in Products} \X Files
Rows == {r \in Requests : media[r] # NoRow}
Steps == {"idle", "put", "add", "count", "delete", "done"}
NoUpload == [step |-> "idle", product |-> "-", key |-> NoKey, type |-> "-", primary |-> FALSE]

Key(p, file) == <<Folder[p], file>>
Object(key, type) == [key |-> key, type |-> type]
Stored(key) == \E o \in objects : o.key = key
Without(key) == {o \in objects : o.key # key}
With(key, type) == Without(key) \cup {Object(key, type)}
References(key) == {m \in Rows : media[m].key = key}
Workers(key) == {r \in Requests : request[r].key = key /\ request[r].step \notin {"idle", "done"}}
Free(key) == Overlap \/ (Workers(key) = {} /\ \A l \in late : l.key # key)

Continue(r, step) == request' = [request EXCEPT ![r].step = step]
Answer(r) == request' = [request EXCEPT ![r].step = "done"]

-----------------------------------------------------------------------------
(* The rows *)

Kept(rows, p) == rows

\* At most one picture of a product is its primary one.
Cleared(rows, p) ==
  [m \in Requests |-> IF rows[m] # NoRow /\ rows[m].product = p
                      THEN [rows[m] EXCEPT !.primary = FALSE] ELSE rows[m]]

Added(r, p, key, primary) ==
  [(IF primary THEN Cleared(media, p) ELSE media)
     EXCEPT ![r] = [product |-> p, key |-> key, primary |-> primary]]

AddLink(r, p, primary) ==
  /\ request[r].step = "idle"
  /\ p \notin archived
  /\ media' = Added(r, p, NoKey, primary)
  /\ Answer(r)
  /\ UNCHANGED <<archived, objects, late, faulty>>

SetPrimary(r, m) ==
  /\ request[r].step = "idle"
  /\ m \in Rows /\ media[m].product \notin archived
  /\ media' = [Cleared(media, media[m].product) EXCEPT ![m].primary = TRUE]
  /\ Answer(r)
  /\ UNCHANGED <<archived, objects, late, faulty>>

\* Of an archived product too.
RemoveMedia(r, m) ==
  LET key == media[m].key
  IN  /\ request[r].step = "idle" /\ m \in Rows
      /\ key = NoKey \/ Free(key)
      /\ media' = [media EXCEPT ![m] = NoRow]
      /\ request' = [request EXCEPT ![r] = [NoUpload EXCEPT !.step = IF key = NoKey THEN "done" ELSE "count",
                                                        !.key = key]]
      /\ UNCHANGED <<archived, objects, late, faulty>>

-----------------------------------------------------------------------------
(* Uploads *)

\* The bytes decide what a file is; what the client declares must agree with them.
TypeDeclared(file, declared) == declared
TypeOf(file, declared) ==
  IF FormatOf[file] \in Formats /\ declared = FormatOf[file] THEN FormatOf[file] ELSE "rejected"

Upload(r, p, file, declared, primary) ==
  /\ request[r].step = "idle"
  /\ p \notin archived
  /\ TypeOf(file, declared) # "rejected"
  /\ Free(Key(p, file))
  /\ request' = [request EXCEPT ![r] = [step |-> "put", product |-> p, key |-> Key(p, file),
                                        type |-> TypeOf(file, declared), primary |-> primary]]
  /\ UNCHANGED <<archived, media, objects, late, faulty>>

Put(r) ==
  /\ request[r].step = "put"
  /\ objects' = With(request[r].key, request[r].type)
  /\ Continue(r, "add")
  /\ UNCHANGED <<archived, media, late, faulty>>

\* It had no effect, or its answer was lost, or it is still under way at the deadline.
PutFails(r) ==
  LET key == request[r].key
      type == request[r].type
  IN  /\ request[r].step = "put"
      /\ \/ UNCHANGED <<objects, late>>
         \/ objects' = With(key, type) /\ UNCHANGED late
         \/ late' = late \cup {[call |-> "put", key |-> key, type |-> type]} /\ UNCHANGED objects
      /\ faulty' = faulty \cup {key}
      /\ Continue(r, "count")
      /\ UNCHANGED <<archived, media>>

AfterRefusalNothing == "done"
AfterRefusal == "count"

AddMedia(r) ==
  LET q == request[r]
  IN  /\ q.step = "add"
      /\ IF q.product \in archived
         THEN Continue(r, AfterRefusal) /\ UNCHANGED media
         ELSE Answer(r) /\ media' = Added(r, q.product, q.key, q.primary)
      /\ UNCHANGED <<archived, objects, late, faulty>>

\* The transaction fails, or it commits and the answer is lost.
AddMediaFails(r) ==
  LET q == request[r]
  IN  /\ q.step = "add"
      /\ \/ UNCHANGED media
         \/ q.product \notin archived /\ media' = Added(r, q.product, q.key, q.primary)
      /\ Continue(r, "count")
      /\ faulty' = faulty \cup {q.key}
      /\ UNCHANGED <<archived, objects, late>>

-----------------------------------------------------------------------------
(* Cleaning up an object no row refers to *)

Always(key) == TRUE
Unreferenced(key) == References(key) = {}

CountReferences(r) ==
  /\ request[r].step = "count"
  /\ Continue(r, IF Unreferenced(request[r].key) THEN "delete" ELSE "done")
  /\ UNCHANGED <<archived, media, objects, late, faulty>>

CountFails(r) ==
  /\ request[r].step = "count"
  /\ Answer(r)
  /\ faulty' = faulty \cup {request[r].key}
  /\ UNCHANGED <<archived, media, objects, late>>

DeleteObject(r) ==
  /\ request[r].step = "delete"
  /\ objects' = Without(request[r].key)
  /\ Answer(r)
  /\ UNCHANGED <<archived, media, late, faulty>>

DeleteFails(r) ==
  LET key == request[r].key
  IN  /\ request[r].step = "delete"
      /\ \/ UNCHANGED <<objects, late>>
         \/ objects' = Without(key) /\ UNCHANGED late
         \/ late' = late \cup {[call |-> "delete", key |-> key, type |-> "-"]} /\ UNCHANGED objects
      /\ faulty' = faulty \cup {key}
      /\ Answer(r)
      /\ UNCHANGED <<archived, media>>

ArrivesLate(l) ==
  /\ l \in late
  /\ late' = late \ {l}
  /\ objects' = IF l.call = "delete" THEN Without(l.key) ELSE With(l.key, l.type)
  /\ UNCHANGED <<archived, media, request, faulty>>

\* The process that serves a request is stopped.
Crash(r) ==
  /\ request[r].step \notin {"idle", "done"}
  /\ faulty' = faulty \cup {request[r].key}
  /\ Answer(r)
  /\ UNCHANGED <<archived, media, objects, late>>

Archive(p) ==
  /\ p \notin archived
  /\ archived' = archived \cup {p}
  /\ UNCHANGED <<media, objects, late, request, faulty>>

-----------------------------------------------------------------------------

MediaInit ==
  /\ archived = {} /\ objects = {} /\ late = {} /\ faulty = {}
  /\ media = [m \in Requests |-> NoRow]
  /\ request = [r \in Requests |-> NoUpload]

MediaNext ==
  \/ \E r \in Requests :
       \/ \E p \in Products, primary \in BOOLEAN :
            \/ AddLink(r, p, primary)
            \/ \E file \in Files, declared \in Formats : Upload(r, p, file, declared, primary)
       \/ \E m \in Requests : SetPrimary(r, m) \/ RemoveMedia(r, m)
       \/ Put(r) \/ PutFails(r) \/ AddMedia(r) \/ AddMediaFails(r)
       \/ CountReferences(r) \/ CountFails(r) \/ DeleteObject(r) \/ DeleteFails(r) \/ Crash(r)
  \/ \E l \in late : ArrivesLate(l)
  \/ \E p \in Products : Archive(p)

MediaSpec == MediaInit /\ [][MediaNext]_mediaVars

-----------------------------------------------------------------------------

\* Well-typed, and the index on the primary picture of a product is respected.
MediaTypeOK ==
  /\ archived \subseteq Products
  /\ \A m \in Rows : media[m].product \in Products /\ media[m].key \in Keys \cup {NoKey}
  /\ \A m, n \in Rows : media[m].product = media[n].product /\ media[m].primary /\ media[n].primary
                        => m = n
  /\ \A r \in Requests : request[r].step \in Steps
  /\ faulty \subseteq Keys

\* Whatever a client declares, an object is served as what its bytes are, and only
\* pictures get into the public bucket (detectImageFormat, uploadProductMedia).
ServedAsWhatItIs ==
  \A o \in objects : o.type = FormatOf[o.key[2]] /\ o.type \in Formats

\* A refused upload, of a product archived meanwhile say, and a removal leave nothing in the
\* bucket unless a call failed on the way (cleanupUnreferencedProductMedia).
NothingIsLeftBehind ==
  \A o \in objects : References(o.key) # {} \/ Workers(o.key) # {} \/ o.key \in faulty

\* A picture the shop shows is in the bucket, products with the same folder included, whatever
\* calls fail: an object goes only after the last row that has its key.
ShownPictureIsStored ==
  \A m \in Rows : media[m].key # NoKey => Stored(media[m].key)

\* docs/OBJECT_STORAGE.md: an object is cleaned up "only when none remain", no reference.
CleanedUpOnlyUnreferenced ==
  \A o \in objects : ~(\E n \in objects' : n.key = o.key) => References(o.key) = {}
=============================================================================
