-------------------------------- MODULE MCShop --------------------------------
(* What the shop offers and what customers note down of it, in one TLC run:   *)
(* the catalogue (Catalog, once with variants and once with categories), the  *)
(* pieces of a variant (Inventory, once with their history and once while     *)
(* they are added), the prices of the shop (ShopSettings), carts (Cart) and   *)
(* favorites (Favorites).  They share no state, so a behaviour runs one of    *)
(* them (`part`) and the others are off.                                      *)
EXTENDS Naturals, Sequences, TLC

CONSTANTS c1, c2,     \* two requests, clerks or browser tabs
          x1, x2,     \* two rows of whatever a component has interchangeable ones of
          Nothing     \* no row, no request

Two == {c1, c2}
Rows == {x1, x2}

VARIABLES part,
          category, ref, product, variant, rated, stock, held, ordered, tx,
          items, alloc, page, adding,
          stored, change, audit, lost,
          cart, replacement, shown, history,
          visible, present, links, request, answer

Models == INSTANCE Catalog WITH
    Clients <- Two, Products <- {"p1"}, Variants <- Rows, Categories <- {"k1"}, Sizes <- {"s1"},
    Colors <- {}, None <- Nothing, MaxStock <- 1

Tree == INSTANCE Catalog WITH
    Clients <- Two, Products <- {"p1"}, Variants <- {"v1"}, Categories <- Rows, Sizes <- {},
    Colors <- {}, None <- Nothing, MaxStock <- 1

\* One piece, two orders for it, two clerks.
Piece == INSTANCE Inventory WITH
    Clerks <- Two, Orders <- Rows, Numbers <- 1 .. 4, Chosen <- {}, FirstItems <- 1,
    MaxItems <- 1, MaxHistory <- 4, None <- Nothing

\* Pieces are added, under generated and chosen numbers, and archived.
Pieces == INSTANCE Inventory WITH
    Clerks <- Two, Orders <- {}, Numbers <- 1 .. 4, Chosen <- {4}, FirstItems <- 1,
    MaxItems <- 3, MaxHistory <- 1, None <- Nothing

Prices == [defaultRentalPrice |-> 2, additionalDayFee |-> 1, defaultCashDeposit |-> 2]

\* Changes of the policy, one at a time and overlapping.
Settings == INSTANCE ShopSettings WITH
    Requests <- Two, Amounts <- {0, 1, 4}, MaxAmount <- 3, Default <- Prices, Overlap <- FALSE,
    request <- change

Overlapping == INSTANCE ShopSettings WITH
    Requests <- Two, Amounts <- {0, 4}, MaxAmount <- 3, Default <- Prices, Overlap <- TRUE,
    request <- change

-----------------------------------------------------------------------------
(* Carts of at most two lines, two pieces of a line and three in all; one     *)
(* favorite to a page                                                         *)

Line(v, role, n) == [product |-> "p", variant |-> v, role |-> role, quantity |-> n]
Draft(pickup, return, lines) == [pickup |-> pickup, return |-> return, items |-> lines]

Carts == INSTANCE Cart WITH
    Tabs <- Two, MaxItemCount <- 2, MaxPerItem <- 2, MaxTotal <- 3, MaxVersion <- 4,
    NoCart <- Nothing, NoRequest <- Nothing, request <- replacement,
    Products <- Rows, Limit <- 1, pending <- request,
    Drafts <-
      { Draft(1, 2, << >>), Draft(1, 2, <<Line("v", "UNSET", 1)>>),
        Draft(1, 3, <<Line("v", "PAID", 2)>>),
        Draft(1, 2, <<Line("v", "UNSET", 2), Line("v", "FREE_ACCESSORY", 1)>>),
        Draft(1, 2, <<Line("v", "PAID", 2), Line("w", "PAID", 2)>>),   \* too many in all
        Draft(1, 2, <<Line("v", "UNSET", 1), Line("v", "PAID", 1)>>),  \* one line twice
        Draft(1, 2, <<Line("v", "PAID", 3)>>), Draft(1, 2, <<Line("v", "PAID", 0)>>),
        Draft(1, 2, <<Line("u", "PAID", 1), Line("v", "PAID", 1), Line("w", "PAID", 1)>>),
        Draft(2, 2, <<Line("v", "PAID", 1)>>) }

ASSUME ConstantsOK ==
    /\ Models!NoneAssumption /\ Tree!NoneAssumption
    /\ Settings!AmountsAssumption /\ Settings!DefaultAssumption /\ Settings!OverlapAssumption
    /\ Overlapping!AmountsAssumption /\ Overlapping!OverlapAssumption

-----------------------------------------------------------------------------
catalogVars == <<category, ref, product, variant, rated, stock, held, ordered, tx>>
inventoryVars == <<items, alloc, page, adding>>
settingsVars == <<stored, change, audit, lost>>
cartVars == <<cart, replacement, shown, history>>
favoriteVars == <<visible, present, links, request, answer>>
allVars == <<part, catalogVars, inventoryVars, settingsVars, cartVars, favoriteVars>>

Off == "off"

Init ==
    /\ part \in {"variants", "categories", "piece", "pieces", "settings", "overlapping",
                 "cart", "favorites"}
    /\ \/ part = "variants" /\ Models!Init
       \/ part = "categories" /\ Tree!Init
       \/ /\ part \notin {"variants", "categories"}
          /\ category = Off /\ ref = Off /\ product = Off /\ variant = Off /\ rated = Off
          /\ stock = Off /\ held = Off /\ ordered = Off /\ tx = Off
    /\ \/ part = "piece" /\ Piece!Init
       \/ part = "pieces" /\ Pieces!Init
       \/ /\ part \notin {"piece", "pieces"}
          /\ items = Off /\ alloc = Off /\ page = Off /\ adding = Off
    /\ \/ part = "settings" /\ Settings!Init
       \/ part = "overlapping" /\ Overlapping!Init
       \/ /\ part \notin {"settings", "overlapping"}
          /\ stored = Off /\ change = Off /\ audit = Off /\ lost = Off
    /\ \/ part = "cart" /\ Carts!CartInit
       \/ /\ part # "cart"
          /\ cart = Off /\ replacement = Off /\ shown = Off /\ history = Off
    /\ \/ part = "favorites" /\ Carts!FavoritesInit
       \/ /\ part # "favorites"
          /\ visible = Off /\ present = Off /\ links = Off /\ request = Off /\ answer = Off

Next ==
    /\ part' = part
    /\ \/ /\ \/ part = "variants" /\ Models!Next
             \/ part = "categories" /\ Tree!Next
          /\ UNCHANGED <<inventoryVars, settingsVars, cartVars, favoriteVars>>
       \/ /\ \/ part = "piece" /\ Piece!Next
             \/ part = "pieces" /\ Pieces!Next
          /\ UNCHANGED <<catalogVars, settingsVars, cartVars, favoriteVars>>
       \/ /\ \/ part = "settings" /\ Settings!Next
             \/ part = "overlapping" /\ Overlapping!Next
          /\ UNCHANGED <<catalogVars, inventoryVars, cartVars, favoriteVars>>
       \/ /\ part = "cart" /\ Carts!CartNext
          /\ UNCHANGED <<catalogVars, inventoryVars, settingsVars, favoriteVars>>
       \/ /\ part = "favorites" /\ Carts!FavoritesNext
          /\ UNCHANGED <<catalogVars, inventoryVars, settingsVars, cartVars>>

Spec == Init /\ [][Next]_allVars

Symmetry == Permutations(Two) \cup Permutations(Rows)

-----------------------------------------------------------------------------
(* Properties *)

\* No row of the catalogue refers to one that is gone, no two variants are the same,
\* nothing that is out is archived; the history of a piece is a chain, and the next
\* number of a new one is free (Catalog, Inventory).
OfferIsSound ==
    /\ part = "variants" => /\ Models!TypeOK
                            /\ Models!ReferencesExist
                            /\ Models!CombinationsAreUnique
                            /\ Models!ArchivedProductsAreFree
    /\ part = "categories" => Tree!TypeOK /\ Tree!ReferencesExist
    /\ part = "piece" => /\ Piece!TypeOK
                         /\ Piece!HistoryIsAChain
                         /\ Piece!MenuIsWhatIsAccepted
                         /\ Piece!RentedIsShown
    /\ part = "pieces" => Pieces!TypeOK /\ Pieces!NextNumberIsFree

\* The prices can always be used, and their log is a chain; a cart shows what was
\* saved in it, which can be booked; favorites exist (ShopSettings, Cart).
NotesAreTrue ==
    /\ part = "settings" => /\ Settings!TypeOK
                            /\ Settings!PolicyIsUsable
                            /\ Settings!AuditIsAChain
    /\ part = "overlapping" => Overlapping!PolicyIsUsable
    /\ part = "cart" => Carts!CartTypeOK /\ Carts!AnswersAreTrue /\ Carts!SavedCartIsBookable
    /\ part = "favorites" => Carts!FavoritesTypeOK

\* What no step does: assign a size or colour that the request did not read as active,
\* change an archived product, lose a setting that was left out except to a change that
\* overlaps, overwrite a cart the tab did not show, reorder favorites or list hidden ones.
ShopSteps ==
    [][/\ part = "variants" => Models!InactiveIsNotAssigned /\ Models!ArchivedIsFrozen
       /\ part = "settings" => Settings!OmittedIsRetained
       /\ part = "overlapping" => Overlapping!OnlyOverlapLoses
       /\ part = "cart" => Carts!OverwritesOnlyWhatWasShown
       /\ part = "favorites" => Carts!OrderIsKept /\ Carts!ListedIsVisible]_allVars
=============================================================================
