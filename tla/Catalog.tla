------------------------------ MODULE Catalog ------------------------------
(***************************************************************************)
(* Catalog maintenance: products and their variants, rental rates and      *)
(* stock, and the categories, sizes and colours they refer to.  Several    *)
(* administrators work at once: a request reads first and writes later,    *)
(* and only the constraints of the database stand between the two (tx).    *)
(* Products and variants are changed by SERIALIZABLE transactions, as if   *)
(* one after the other: what such a command reads of these rows it reads   *)
(* where it writes.  The status of a category, size or colour is written   *)
(* at READ COMMITTED, which they do not notice: they read it earlier.      *)
(***************************************************************************)
EXTENDS Naturals, FiniteSets

CONSTANTS Clients,      \* requests under way
          Products, Variants, Categories, Sizes, Colors,
          None,         \* SQL NULL, and a row that does not exist
          MaxStock      \* bound on the items added to a variant

NoneAssumption == None \notin Products \cup Variants \cup Categories \cup Sizes \cup Colors

Refs == Sizes \cup Colors

VARIABLES category,  \* categories: [active, parent], or None
          ref,       \* sizes and colours: "NONE", "ACTIVE" or "INACTIVE"
          product,   \* products: [status, archived, category], or None
          variant,   \* product_variants: [product, size, color, archived], or None
          rated,     \* variants with an active rental rate
          stock,     \* inventory items of each variant
          held,      \* variants an occupying allocation is for
          ordered,   \* variants some order line names
          tx         \* what each request has read and is about to write
vars == <<category, ref, product, variant, rated, stock, held, ordered, tx>>
masters == <<category, ref>>
rentals == <<held, ordered>>

Combination == [size : Sizes \cup {None}, color : Colors \cup {None}]
CategoryRow == [active : BOOLEAN, parent : Categories \cup {None}]
Statuses == {"ACTIVE", "INACTIVE", "ARCHIVED"}
ProductRow == [status : Statuses, archived : BOOLEAN, category : Categories]
VariantRow == [product : Products, size : Sizes \cup {None}, color : Colors \cup {None}, archived : BOOLEAN]

Existing(table) == {k \in DOMAIN table : table[k] # None}
VariantsOf(p) == {v \in Existing(variant) : variant[v].product = p}
Uses(r) == {v \in Existing(variant) : r \in {variant[v].size, variant[v].color}}
InCategory(k) == {p \in Existing(product) : product[p].category = k}
\* findFirst({archivedAt: null, status: {not: 'ARCHIVED'}})
Open(p) == product[p] # None /\ ~product[p].archived /\ product[p].status # "ARCHIVED"

-----------------------------------------------------------------------------
(* Constraints of the database *)

\* mutant of SameCombination: SQL's own comparison, where NULL equals nothing
SqlEqual(a, b) == None \notin {a.size, a.color} /\ a.size = b.size /\ a.color = b.color
\* NULLS NOT DISTINCT, and the comparison of the code
SameCombination(a, b) == a.size = b.size /\ a.color = b.color
CombinationFree(p, v, row) ==
  \A w \in VariantsOf(p) \ {v} : variant[w].archived \/ ~SameCombination(variant[w], row)

\* mutant of Restrict: ON DELETE NO CHECK
NoRestrict(referencing) == TRUE
\* ON DELETE RESTRICT: a row that others refer to is not deleted
Restrict(referencing) == referencing = {}
\* FOREIGN KEY: what a new or changed row refers to exists
Present(row) == \A r \in {row.size, row.color} \ {None} : ref[r] # "NONE"

-----------------------------------------------------------------------------
(* Checks shared by the commands *)

ActiveCategory(k) == category[k] # None /\ category[k].active
\* assertVariantReferences, assertActiveSizeColorReferences
ActiveRefs(rs) == \A r \in rs \ {None} : ref[r] = "ACTIVE"
\* mutant of Assigned: what the row refers to already is not checked
OnlyOtherRefs(row, next) == {}
\* the references an update newly assigns
Assigned(row, next) == {next.size, next.color} \ {row.size, row.color}
\* mutant of AsRead: READ COMMITTED, where the last writer wins
AnyRow(t) == TRUE
\* "could not serialize access due to concurrent update": the row is the one that was read
AsRead(t) == variant[t.variant] = t.row
\* assertProductCanArchive
CanArchive(p) == VariantsOf(p) \cap held = {}

Idle == [op |-> "none"]
Start(c, request) == tx[c] = Idle /\ tx' = [tx EXCEPT ![c] = request]
Finish(c, op) == tx[c].op = op /\ tx' = [tx EXCEPT ![c] = Idle]

Init == /\ category = [k \in Categories |-> None] /\ ref = [r \in Refs |-> "NONE"]
        /\ product = [p \in Products |-> None] /\ variant = [v \in Variants |-> None]
        /\ rated = {} /\ stock = [v \in Variants |-> 0]
        /\ held = {} /\ ordered = {} /\ tx = [c \in Clients |-> Idle]

-----------------------------------------------------------------------------
(* Categories: no transaction around the check and the write *)

\* createCategory and updateCategory look for the parent (count, findFirst) ...
CheckParent(c, op, k, parent) ==
  /\ op = "createCategory" => category[k] = None
  /\ op = "updateCategory" => parent # k
  /\ parent # None => category[parent] # None
  /\ Start(c, [op |-> op, category |-> k, parent |-> parent])
  /\ UNCHANGED <<masters, product, variant, rated, stock, rentals>>

\* ... and write the row, unless the parent or the row is gone by then.
WriteCategory(c, active) ==
  LET t == tx[c]
      fits == t.parent # None => category[t.parent] # None
  IN /\ \/ Finish(c, "createCategory") /\ category[t.category] = None
        \/ Finish(c, "updateCategory") /\ category[t.category] # None
     /\ fits
     /\ category' = [category EXCEPT ![t.category] = [active |-> active, parent |-> t.parent]]
     /\ UNCHANGED <<ref, product, variant, rated, stock, rentals>>

\* updateCategory without a parent: the status alone.
SetCategoryStatus(k) ==
  /\ category[k] # None
  /\ category' = [category EXCEPT ![k].active = ~@]
  /\ UNCHANGED <<ref, product, variant, rated, stock, rentals, tx>>

CountProducts(c, k) ==
  /\ category[k] # None /\ InCategory(k) = {}
  /\ Start(c, [op |-> "deleteCategory", category |-> k])
  /\ UNCHANGED <<masters, product, variant, rated, stock, rentals>>

\* The children lose their parent: onDelete SetNull.
DeleteCategory(c) ==
  LET k == tx[c].category
      orphan(row) == IF row # None /\ row.parent = k THEN [row EXCEPT !.parent = None] ELSE row
  IN /\ Finish(c, "deleteCategory")
     /\ Restrict(InCategory(k))
     /\ category' = [j \in Categories |-> IF j = k THEN None ELSE orphan(category[j])]
     /\ UNCHANGED <<ref, product, variant, rated, stock, rentals>>

-----------------------------------------------------------------------------
(* Sizes and colours *)

\* The code is unique: the service's look-up only words the refusal.
CreateRef(r) ==
  /\ ref[r] = "NONE" /\ ref' = [ref EXCEPT ![r] = "ACTIVE"]
  /\ UNCHANGED <<category, product, variant, rated, stock, rentals, tx>>

UpdateRefStatus(r, status) ==
  /\ ref[r] \notin {"NONE", status} /\ ref' = [ref EXCEPT ![r] = status]
  /\ UNCHANGED <<category, product, variant, rated, stock, rentals, tx>>

\* deleteSize and deleteColor first count the variants, archived ones too ...
CheckRefUse(c, r) ==
  /\ ref[r] # "NONE" /\ Uses(r) = {}
  /\ Start(c, [op |-> "deleteRef", ref |-> r])
  /\ UNCHANGED <<masters, product, variant, rated, stock, rentals>>

\* ... then delete, which the foreign key may still refuse (P2003).
DeleteRef(c) ==
  LET r == tx[c].ref IN
  /\ Finish(c, "deleteRef")
  /\ ref[r] # "NONE" /\ Restrict(Uses(r))
  /\ ref' = [ref EXCEPT ![r] = "NONE"]
  /\ UNCHANGED <<category, product, variant, rated, stock, rentals>>

-----------------------------------------------------------------------------
(* Products *)

\* createProduct, READ COMMITTED: the references are checked ...
CheckProduct(c, p, k, combos) ==
  LET refs == UNION {{m.size, m.color} : m \in combos} IN
  /\ product[p] = None /\ ActiveCategory(k)
  /\ ActiveRefs(refs)
  /\ Start(c, [op |-> "createProduct", product |-> p, category |-> k, combos |-> combos, checked |-> refs])
  /\ UNCHANGED <<masters, product, variant, rated, stock, rentals>>

\* ... and the product is inserted with its variants, their rates and items.
\* at[m] is the row of combination m.
InsertProduct(c, at, items) ==
  LET t == tx[c]
      row(m) == [product |-> t.product, size |-> m.size, color |-> m.color, archived |-> FALSE]
      new == {at[m] : m \in t.combos}
  IN /\ Finish(c, "createProduct")
     /\ product[t.product] = None /\ category[t.category] # None
     /\ \A m \in t.combos : variant[at[m]] = None /\ Present(m)
     /\ \A m, n \in t.combos : m # n => at[m] # at[n]
     /\ product' = [product EXCEPT ![t.product] =
                     [status |-> "ACTIVE", archived |-> FALSE, category |-> t.category]]
     /\ variant' = [v \in Variants |-> IF v \in new THEN row(CHOOSE m \in t.combos : at[m] = v)
                                       ELSE variant[v]]
     /\ rated' = rated \cup new
     /\ stock' = [v \in Variants |-> IF v \in new THEN items ELSE stock[v]]
     /\ UNCHANGED <<masters, rentals>>

\* mutant of MayArchive: the edit that sets the status does not ask
ArchiveFreely(p, status) == TRUE
\* updateProduct archives too, when the status says so
MayArchive(p, status) == status = "ARCHIVED" => CanArchive(p)

\* mutant of Edited: the status is set without archivedAt
EditedStatusOnly(row, status, k) == [row EXCEPT !.status = status, !.category = k]
Edited(row, status, k) == [status |-> status, category |-> k, archived |-> status = "ARCHIVED"]

\* updateProduct, with the category it has ...
UpdateProduct(p, status) ==
  /\ product[p] # None /\ ~product[p].archived
  /\ MayArchive(p, status)
  /\ product' = [product EXCEPT ![p] = Edited(@, status, product[p].category)]
  /\ UNCHANGED <<masters, variant, rated, stock, rentals, tx>>

\* ... or with another one, which is active when it is read
CheckMove(c, p, k) ==
  /\ product[p] # None /\ ~product[p].archived
  /\ k # product[p].category /\ ActiveCategory(k)
  /\ Start(c, [op |-> "moveProduct", product |-> p, row |-> product[p], category |-> k])
  /\ UNCHANGED <<masters, product, variant, rated, stock, rentals>>

MoveProduct(c, status) ==
  LET t == tx[c] IN
  /\ Finish(c, "moveProduct")
  /\ product[t.product] = t.row /\ category[t.category] # None
  /\ MayArchive(t.product, status)
  /\ product' = [product EXCEPT ![t.product] = Edited(@, status, t.category)]
  /\ UNCHANGED <<masters, variant, rated, stock, rentals>>

ArchiveProduct(p) ==
  /\ product[p] # None /\ ~product[p].archived /\ CanArchive(p)
  /\ product' = [product EXCEPT ![p].status = "ARCHIVED", ![p].archived = TRUE]
  /\ UNCHANGED <<masters, variant, rated, stock, rentals, tx>>

-----------------------------------------------------------------------------
(* Variants *)

\* addVariant checks the size and the colour ...
CheckNewVariant(c, p, m) ==
  /\ Open(p) /\ CombinationFree(p, None, m) /\ ActiveRefs({m.size, m.color})
  /\ Start(c, [op |-> "addVariant", product |-> p, combination |-> m, checked |-> {m.size, m.color}])
  /\ UNCHANGED <<masters, product, variant, rated, stock, rentals>>

\* ... and inserts the variant with its rates and items.
AddVariant(c, v, items) ==
  LET t == tx[c]
      m == t.combination
  IN /\ Finish(c, "addVariant")
     /\ Open(t.product) /\ variant[v] = None
     /\ CombinationFree(t.product, v, m) /\ Present(m)
     /\ variant' = [variant EXCEPT ![v] =
                     [product |-> t.product, size |-> m.size, color |-> m.color, archived |-> FALSE]]
     /\ rated' = rated \cup {v} /\ stock' = [stock EXCEPT ![v] = items]
     /\ UNCHANGED <<masters, product, rentals>>

\* mutant of Scoped: a product archived meanwhile is not noticed
AnyVariant(v) == variant[v] # None
\* findScopedVariant
Scoped(v) == variant[v] # None /\ Open(variant[v].product)

\* updateProductVariant checks what the update newly assigns ...
CheckUpdate(c, v, m) ==
  /\ Scoped(v) /\ ActiveRefs(Assigned(variant[v], m))
  /\ Start(c, [op |-> "updateVariant", variant |-> v, row |-> variant[v], combination |-> m,
               checked |-> Assigned(variant[v], m)])
  /\ UNCHANGED <<masters, product, variant, rated, stock, rentals>>

\* ... and changes the row.
UpdateProductVariant(c) ==
  LET t == tx[c]
      v == t.variant
  IN /\ Finish(c, "updateVariant")
     /\ Scoped(v) /\ AsRead(t) /\ Present(t.combination)
     /\ variant[v].archived \/ CombinationFree(variant[v].product, v, t.combination)
     /\ variant' = [variant EXCEPT ![v].size = t.combination.size, ![v].color = t.combination.color]
     /\ UNCHANGED <<masters, product, rated, stock, rentals>>

ArchiveVariant(v) ==
  /\ Scoped(v) /\ ~variant[v].archived
  /\ variant' = [variant EXCEPT ![v].archived = TRUE]
  /\ UNCHANGED <<masters, product, rated, stock, rentals, tx>>

\* setProductVariantArchived(false) checks what the variant refers to ...
CheckReactivation(c, v) ==
  LET refs == {variant[v].size, variant[v].color} IN
  /\ Scoped(v) /\ variant[v].archived /\ ActiveRefs(refs)
  /\ Start(c, [op |-> "reactivate", variant |-> v, row |-> variant[v], checked |-> refs])
  /\ UNCHANGED <<masters, product, variant, rated, stock, rentals>>

\* ... and shows it again.
ReactivateVariant(c) ==
  LET v == tx[c].variant IN
  /\ Finish(c, "reactivate")
  /\ Scoped(v) /\ AsRead(tx[c])
  /\ CombinationFree(variant[v].product, v, variant[v])
  /\ variant' = [variant EXCEPT ![v].archived = FALSE]
  /\ UNCHANGED <<masters, product, rated, stock, rentals>>

\* The rates go with the variant: onDelete Cascade.
DeleteProductVariant(v) ==
  /\ Scoped(v) /\ stock[v] = 0 /\ v \notin ordered
  /\ variant' = [variant EXCEPT ![v] = None] /\ rated' = rated \ {v}
  /\ UNCHANGED <<masters, product, stock, rentals, tx>>

\* upsertRentalRate and addInventoryItem read the variant ...
ReadVariant(c, op, v) ==
  /\ variant[v] # None /\ ~variant[v].archived
  /\ op = "upsertRate" => Open(variant[v].product)
  /\ op = "addItem" => stock[v] < MaxStock
  /\ Start(c, [op |-> op, variant |-> v])
  /\ UNCHANGED <<masters, product, variant, rated, stock, rentals>>

\* ... and insert a row that the foreign key ties to it.
UpsertRentalRate(c) ==
  /\ Finish(c, "upsertRate") /\ variant[tx[c].variant] # None
  /\ rated' = rated \cup {tx[c].variant}
  /\ UNCHANGED <<masters, product, variant, stock, rentals>>

AddInventoryItem(c) ==
  /\ Finish(c, "addItem") /\ variant[tx[c].variant] # None
  /\ stock' = [stock EXCEPT ![tx[c].variant] = @ + 1]
  /\ UNCHANGED <<masters, product, variant, rated, rentals>>

\* A request that a check or a constraint refuses ends without a write.
Fail(c) == /\ tx[c] # Idle /\ tx' = [tx EXCEPT ![c] = Idle]
           /\ UNCHANGED <<masters, product, variant, rated, stock, rentals>>

-----------------------------------------------------------------------------
(* Orders, which RentalOrders models: what the catalog reads of them *)

\* A booking, by a client whose earlier reads may be old: the transaction asks again.
Book(v) ==
  /\ variant[v] # None /\ ~variant[v].archived /\ stock[v] > 0
  /\ product[variant[v].product].status = "ACTIVE" /\ ~product[variant[v].product].archived
  /\ held' = held \cup {v} /\ ordered' = ordered \cup {v}
  /\ UNCHANGED <<masters, product, variant, rated, stock, tx>>

Release(v) ==
  /\ v \in held /\ held' = held \ {v}
  /\ UNCHANGED <<masters, product, variant, rated, stock, ordered, tx>>

-----------------------------------------------------------------------------
\* What takes more than one step: a request reads, and may fail or write later.
RequestNext(c) ==
  \/ \E k \in Categories, parent \in Categories \cup {None} :
        \E op \in {"createCategory", "updateCategory"} : CheckParent(c, op, k, parent)
  \/ \E active \in BOOLEAN : WriteCategory(c, active)
  \/ \E k \in Categories : CountProducts(c, k)
  \/ DeleteCategory(c)
  \/ \E r \in Refs : CheckRefUse(c, r)
  \/ DeleteRef(c)
  \/ \E p \in Products, k \in Categories, combos \in SUBSET Combination :
        Cardinality(combos) <= 2 /\ CheckProduct(c, p, k, combos)
  \/ tx[c].op = "createProduct" /\
     \E at \in [tx[c].combos -> Variants], items \in 0..1 : InsertProduct(c, at, items)
  \/ \E op \in {"upsertRate", "addItem"}, v \in Variants : ReadVariant(c, op, v)
  \/ UpsertRentalRate(c) \/ AddInventoryItem(c)
  \/ \E p \in Products, k \in Categories : CheckMove(c, p, k)
  \/ \E status \in Statuses : MoveProduct(c, status)
  \/ \E p \in Products, m \in Combination : CheckNewVariant(c, p, m)
  \/ \E v \in Variants, items \in 0..1 : AddVariant(c, v, items)
  \/ \E v \in Variants, m \in Combination : CheckUpdate(c, v, m)
  \/ \E v \in Variants : CheckReactivation(c, v)
  \/ UpdateProductVariant(c) \/ ReactivateVariant(c)
  \/ Fail(c)

MasterNext ==
  \/ \E k \in Categories : SetCategoryStatus(k)
  \/ \E r \in Refs : CreateRef(r)
  \/ \E r \in Refs, status \in {"ACTIVE", "INACTIVE"} : UpdateRefStatus(r, status)

ProductNext ==
  \/ \E p \in Products, status \in Statuses : UpdateProduct(p, status)
  \/ \E p \in Products : ArchiveProduct(p)

VariantNext ==
  \E v \in Variants : \/ ArchiveVariant(v) \/ DeleteProductVariant(v)
                      \/ Book(v) \/ Release(v)

Next == (\E c \in Clients : RequestNext(c)) \/ MasterNext \/ ProductNext \/ VariantNext
Spec == Init /\ [][Next]_vars

-----------------------------------------------------------------------------
(* Properties *)

\* Every row has the shape of its table; an archived product has the status ARCHIVED.
TypeOK ==
  /\ category \in [Categories -> CategoryRow \cup {None}]
  /\ ref \in [Refs -> {"NONE", "ACTIVE", "INACTIVE"}]
  /\ product \in [Products -> ProductRow \cup {None}]
  /\ variant \in [Variants -> VariantRow \cup {None}]
  /\ rated \subseteq Variants /\ stock \in [Variants -> 0..MaxStock + Cardinality(Clients)]
  /\ held \subseteq ordered /\ ordered \subseteq Variants
  /\ \A p \in Existing(product) : product[p].archived <=> product[p].status = "ARCHIVED"

\* No row refers to a row that is gone, although sizes, colours, categories and
\* variants are deleted after a check that other requests overtake.
ReferencesExist ==
  /\ \A v \in Existing(variant) : product[variant[v].product] # None /\ Present(variant[v])
  /\ \A p \in Existing(product) : category[product[p].category] # None
  /\ \A k \in Existing(category) : category[k].parent # None => category[category[k].parent] # None
  /\ \A v \in rated \cup ordered \cup {w \in Variants : stock[w] > 0} : variant[v] # None

\* Two unarchived variants of a product never have the same size and colour, where
\* "no size" is a size: whichever of adding, editing and reactivating comes last.
CombinationsAreUnique ==
  \A v, w \in Existing(variant) :
    v # w /\ variant[v].product = variant[w].product /\ ~variant[v].archived /\ ~variant[w].archived
      => <<variant[v].size, variant[v].color>> # <<variant[w].size, variant[w].color>>

\* No product is archived while an item of it is held or out, whichever of the
\* two ways of archiving it races the booking.
ArchivedProductsAreFree == \A v \in held : ~product[variant[v].product].archived

\* An inactive size or colour gains an unarchived variant, by a new one, an edit or a
\* reactivation, only from a request that read it as active before it was made inactive.
InactiveIsNotAssigned ==
  \A r \in Refs :
    LET shown(V, row) == {v \in V : row[v] # None /\ ~row[v].archived /\ r \in {row[v].size, row[v].color}}
        new == shown(Variants, variant') \ shown(Variants, variant)
    IN ref[r] = "INACTIVE" /\ new # {} =>
         \E c \in Clients : /\ tx[c].op \in {"createProduct", "addVariant", "updateVariant", "reactivate"}
                          /\ tx'[c] = Idle /\ r \in tx[c].checked

\* Nothing about an archived product changes any more, nor about its variants.
ArchivedIsFrozen ==
  \A p \in Existing(product) : product[p].archived =>
    /\ product'[p] = product[p]
    /\ \A v \in Variants : v \in VariantsOf(p) \/ (variant'[v] # None /\ variant'[v].product = p)
         => variant'[v] = variant[v]
=============================================================================
