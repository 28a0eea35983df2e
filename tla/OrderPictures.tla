---------------------------- MODULE OrderPictures ----------------------------
(***************************************************************************)
(* The picture shown beside a line of an order: of the line's product,     *)
(* looked up when the page is read.  Three pages choose it with queries of *)
(* their own.  The pictures of the product change, and so does the public  *)
(* address of the bucket.                                                  *)
(***************************************************************************)
EXTENDS Naturals, FiniteSets

CONSTANTS Pictures,     \* identities of the rows
          SortOrders,   \* given by administrators
          Domains       \* public addresses of the bucket

SortOrderAssumption == SortOrders \subseteq Nat

VARIABLES media,    \* the pictures of the product, in place of product_media
          domain    \* the one configured now

vars == <<media, domain>>

Rows == DOMAIN media

\* A link is shown as it is; an uploaded picture under its key.  The row keeps
\* the address it had when it was added.
Link(m) == [at |-> "elsewhere", name |-> m]
Address(at, m) == [at |-> at, name |-> m]
NoPicture == [at |-> "nowhere", name |-> "none"]

Resolve(m) == IF media[m].stored THEN Address(domain, m) ELSE media[m].url

-----------------------------------------------------------------------------
(* The pages.  The database is free among rows that tie.                    *)

\* mutant of Ahead: the order alone
AheadByOrder(r, s) == r.sortOrder < s.sortOrder

Ahead(r, s) == \/ r.primary /\ ~s.primary
               \/ r.primary = s.primary /\ r.sortOrder < s.sortOrder

Chosen == {m \in Rows : \A n \in Rows : ~Ahead(media[n], media[m])}

AdminPicture == IF Rows = {} THEN {NoPicture} ELSE {Resolve(m) : m \in Chosen}
AccountPicture == IF Rows = {} THEN {NoPicture} ELSE {Resolve(m) : m \in Chosen}

\* Of the public look-up: the primary picture, or none, under the address it was added with.
Primary == {m \in Rows : media[m].primary}
LookupPicture == IF Primary = {} THEN {NoPicture} ELSE {media[m].url : m \in Primary}

-----------------------------------------------------------------------------
\* mutant of Cleared: the former primary picture stays one
KeptPrimary(rows) == rows

Cleared(rows) == [m \in DOMAIN rows |-> [rows[m] EXCEPT !.primary = FALSE]]

Add(m, stored, primary, sortOrder) ==
  /\ m \notin Rows
  /\ LET others == IF primary THEN Cleared(media) ELSE media
     IN  media' = [n \in Rows \cup {m} |->
           IF n = m THEN [stored |-> stored, primary |-> primary, sortOrder |-> sortOrder,
                          url |-> IF stored THEN Address(domain, m) ELSE Link(m)]
           ELSE others[n]]
  /\ UNCHANGED domain

\* The copy of a linked picture: the row keeps the link beside its new key.
Store(m) ==
  /\ m \in Rows /\ ~media[m].stored
  /\ media' = [media EXCEPT ![m].stored = TRUE]
  /\ UNCHANGED domain

SetPrimary(m) ==
  /\ m \in Rows
  /\ media' = [Cleared(media) EXCEPT ![m].primary = TRUE]
  /\ UNCHANGED domain

Remove(m) ==
  /\ m \in Rows
  /\ media' = [n \in Rows \ {m} |-> media[n]]
  /\ UNCHANGED domain

\* The objects are moved with their keys.
Move(d) ==
  /\ d # domain
  /\ domain' = d
  /\ UNCHANGED media

Init == media = [m \in {} |-> NoPicture] /\ domain \in Domains

Next ==
  \/ \E m \in Pictures, stored, primary \in BOOLEAN, sortOrder \in SortOrders :
        Add(m, stored, primary, sortOrder)
  \/ \E m \in Pictures : Store(m) \/ SetPrimary(m) \/ Remove(m)
  \/ \E d \in Domains : Move(d)

Spec == Init /\ [][Next]_vars

-----------------------------------------------------------------------------
(* Properties *)

(***************************************************************************)
(* A product with a primary picture shows that one, at its present         *)
(* address, on the order pages of administrators and of web accounts, and  *)
(* the look-up chooses the same picture; whatever the order of the others  *)
(* (getWithTx, getWebAccountOrder, lookupStorefrontOrder).                 *)
(***************************************************************************)
PrimaryIsShown ==
  \A m \in Primary :
    /\ AdminPicture = {Resolve(m)} /\ AccountPicture = {Resolve(m)}
    /\ LookupPicture = {media[m].url}

(***************************************************************************)
(* A stored picture is shown at the address configured now on every page,  *)
(* the look-up's included (docs/OBJECT_STORAGE.md).                        *)
(***************************************************************************)
StoredIsShownFromTheBucket ==
  \A m \in Primary : media[m].stored => LookupPicture = {Address(domain, m)}
=============================================================================
