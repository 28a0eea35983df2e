-------------------------------- MODULE Cart --------------------------------
(***************************************************************************)
(* The saved cart of one account, and its favorites, which share no state. *)
(*                                                                         *)
(* A tab replaces the whole cart and names the version it knows; the       *)
(* server writes only over that version and then reads the row once more   *)
(* for the answer.  The favorites are used from several tabs while the     *)
(* shop hides and shows its products; a favorite outlives the time its     *)
(* product is hidden, and lists, totals and look-ups pass it over.         *)
(***************************************************************************)
EXTENDS Integers, Sequences, FiniteSets, SequencesExt

CONSTANTS Tabs,
          Drafts,        \* what a customer may try to save: [pickup, return, items]
          MaxItemCount, MaxPerItem, MaxTotal,  \* CART_MAX_*, and WEB_RENTAL_MAX_*
          MaxVersion,    \* bound on the versions written
          NoCart, NoRequest,
          Products, Limit  \* of the favorites

VARIABLES cart,     \* the row, or NoCart
          request,  \* the replacement each tab waits for
          shown,    \* the cart each tab shows, as the server last answered it
          history,  \* the drafts written, by version
          visible,  \* products storefrontProductEligibility accepts
          present,  \* products that exist
          links,    \* the favorites, newest first
          pending,  \* what each tab waits for, of the favorites
          answer    \* the last answer: [items, total]
cartVars == <<cart, request, shown, history>>
favoriteVars == <<visible, present, links, pending, answer>>
vars == <<cartVars, favoriteVars>>

\* mutant of Row: versions count from zero, as a cart that does not exist
RowFromZero(version, draft) == [version |-> version - 1, draft |-> draft]
Row(version, draft) == [version |-> version, draft |-> draft]
Writing(expected, draft) == [step |-> "write", expected |-> expected, draft |-> draft]
Reading(draft) == [step |-> "read", expected |-> 0, draft |-> draft]

CartInit == /\ cart = NoCart /\ history = << >>
            /\ request = [t \in Tabs |-> NoRequest] /\ shown = [t \in Tabs |-> NoCart]

-----------------------------------------------------------------------------
(* The draft *)

Role(item) == IF item.role = "UNSET" THEN "PAID" ELSE item.role
Total(items) == FoldLeft(LAMBDA sum, item : sum + item.quantity, 0, items)
SameLine(a, b) == a.product = b.product /\ a.variant = b.variant /\ Role(a) = Role(b)

\* mutant of DraftValid: the total is checked line by line
DraftValidByLine(draft) ==
  /\ draft.pickup < draft.return /\ Len(draft.items) <= MaxItemCount
  /\ \A i \in DOMAIN draft.items : draft.items[i].quantity \in 1..MaxPerItem
  /\ \A i, j \in DOMAIN draft.items : i # j => ~SameLine(draft.items[i], draft.items[j])
\* assertDraft
DraftValid(draft) ==
  /\ draft.pickup < draft.return /\ Len(draft.items) <= MaxItemCount
  /\ \A i \in DOMAIN draft.items : draft.items[i].quantity \in 1..MaxPerItem
  /\ \A i, j \in DOMAIN draft.items : i # j => ~SameLine(draft.items[i], draft.items[j])
  /\ Total(draft.items) <= MaxTotal

-----------------------------------------------------------------------------
(* The requests *)

Get(t) == /\ request[t] = NoRequest /\ shown' = [shown EXCEPT ![t] = cart]
          /\ UNCHANGED <<cart, request, history>>

\* PUT with the version shown, 0 for none; a refused draft changes nothing.
Replace(t, draft) ==
  /\ request[t] = NoRequest /\ DraftValid(draft)
  /\ request' = [request EXCEPT
       ![t] = Writing(IF shown[t] = NoCart THEN 0 ELSE shown[t].version, draft)]
  /\ UNCHANGED <<cart, shown, history>>

\* An answer reaches the tab or is lost on the way.
Answer(t, row) == /\ request' = [request EXCEPT ![t] = NoRequest]
                  /\ shown' \in {shown, [shown EXCEPT ![t] = row]}
Conflict(t) == /\ request' = [request EXCEPT ![t] = NoRequest]
               /\ UNCHANGED <<cart, shown, history>>

IsWriting(t) == request[t] # NoRequest /\ request[t].step = "write"

\* create, and its unique constraint
Create(t) ==
  /\ IsWriting(t) /\ request[t].expected = 0 /\ Len(history) < MaxVersion
  /\ IF cart = NoCart
     THEN /\ cart' = Row(1, request[t].draft)
          /\ history' = <<request[t].draft>> /\ Answer(t, cart')
     ELSE Conflict(t)

\* mutant of WritesOver: any later version too
WritesOverAny(expected) == cart # NoCart /\ cart.version >= expected
\* where: { version: expectedVersion }
WritesOver(expected) == cart # NoCart /\ cart.version = expected

\* updateMany, which does not return the row
Update(t) ==
  /\ IsWriting(t) /\ request[t].expected > 0 /\ Len(history) < MaxVersion
  /\ IF WritesOver(request[t].expected)
     THEN /\ cart' = Row(cart.version + 1, request[t].draft)
          /\ history' = Append(history, request[t].draft)
          /\ request' = [request EXCEPT ![t] = Reading(request[t].draft)]
          /\ UNCHANGED shown
     ELSE Conflict(t)

\* mutant of Found: the tab's own draft under the version of the row
OwnDraft(t) == Row(cart.version, request[t].draft)
\* find after the update: another tab may have written in between
Found(t) == cart
ReadBack(t) == /\ request[t] # NoRequest /\ request[t].step = "read"
               /\ Answer(t, Found(t)) /\ UNCHANGED <<cart, history>>

CartNext == \E t \in Tabs : \/ Get(t) \/ Create(t) \/ Update(t) \/ ReadBack(t)
                            \/ \E draft \in Drafts : Replace(t, draft)
CartSpec == CartInit /\ [][CartNext]_cartVars

-----------------------------------------------------------------------------
(* Properties of the cart *)

\* The row, the answers and the requests are of their kinds.
CartTypeOK ==
  LET Carts == {NoCart} \cup [version : 1..MaxVersion, draft : Drafts]
  IN /\ cart \in Carts /\ shown \in [Tabs -> Carts] /\ history \in Seq(Drafts)
     /\ \A t \in Tabs : request[t] # NoRequest =>
          request[t].step \in {"write", "read"} /\ request[t].expected \in 0..MaxVersion

\* What a tab shows under a version is what was saved under it, although the answer
\* to a replacement is read after it and may be another tab's cart.
AnswersAreTrue ==
  \A t \in Tabs : shown[t] # NoCart => shown[t].draft = history[shown[t].version]

\* A cart is only ever replaced by the request of a tab that showed exactly this cart
\* when it was sent, also after lost answers, repeated and overtaking requests.
OverwritesOnlyWhatWasShown ==
  cart' # cart => \E t \in Tabs : request'[t] # request[t] /\ shown[t] = cart

\* A saved cart with items passes what the order checks of its size and period
\* (assertWebRentalItems, parseWebRentalDateRange), without having been checked by it.
SavedCartIsBookable ==
  cart # NoCart =>
    /\ cart.draft.pickup < cart.draft.return
    /\ cart.draft.items # << >> =>
         /\ Len(cart.draft.items) \in 1..MaxItemCount /\ Total(cart.draft.items) \in 1..MaxTotal
         /\ \A i \in DOMAIN cart.draft.items : cart.draft.items[i].quantity \in 1..MaxPerItem

-----------------------------------------------------------------------------
(* The favorites *)

Set(s) == {s[i] : i \in DOMAIN s}
FavoritesInit == /\ visible = Products /\ present = Products /\ links = << >>
                 /\ pending = [t \in Tabs |-> NoRequest] /\ answer = [items |-> << >>, total |-> 0]

\* storefrontFavoriteWhere
Shown == SelectSeq(links, LAMBDA p : p \in visible)
Page(n) == SubSeq(Shown, (n - 1) * Limit + 1, IF n * Limit < Len(Shown) THEN n * Limit ELSE Len(Shown))

-----------------------------------------------------------------------------
(* The shop and its products *)

Hide(p) == /\ p \in visible /\ visible' = visible \ {p}
           /\ UNCHANGED <<present, links, pending, answer>>
Show(p) == /\ p \in present \ visible /\ visible' = visible \cup {p}
           /\ UNCHANGED <<present, links, pending, answer>>
\* No command of the shop deletes a product; the database would delete its favorites.
Delete(p) == /\ present' = present \ {p} /\ p \in present /\ visible' = visible \ {p}
             /\ links' = SelectSeq(links, LAMBDA q : q # p) /\ UNCHANGED <<pending, answer>>

-----------------------------------------------------------------------------
(* Their tabs.  Statements of one transaction read their own snapshots.    *)

Begin(t, step, p) == /\ pending[t] = NoRequest
                     /\ pending' = [pending EXCEPT ![t] = [step |-> step, product |-> p, items |-> << >>, total |-> 0]]
Step(t, step) == pending[t] # NoRequest /\ pending[t].step = step
Continue(t, step) == pending' = [pending EXCEPT ![t].step = step]
Finish(t, items, total) == /\ pending' = [pending EXCEPT ![t] = NoRequest]
                           /\ answer' = [items |-> items, total |-> total]
Refuse(t) == pending' = [pending EXCEPT ![t] = NoRequest] /\ UNCHANGED answer

\* add: the product is looked up first, outside the transaction
AddCheck(t, p) == /\ p \in visible /\ Begin(t, "store", p)
                  /\ UNCHANGED <<visible, present, links, answer>>

\* mutant of WithLink: no constraint on account and product
Doubled(p) == <<p>> \o links
\* mutant of WithLink: the favorite is moved to the front
Renewed(p) == <<p>> \o SelectSeq(links, LAMBDA q : q # p)
\* createMany with skipDuplicates
WithLink(p) == IF p \in Set(links) THEN links ELSE <<p>> \o links
AddStore(t) ==
  /\ Step(t, "store")
  /\ IF pending[t].product \in present
     THEN links' = WithLink(pending[t].product) /\ Continue(t, "count") /\ UNCHANGED answer
     ELSE links' = links /\ Refuse(t)              \* P2003
  /\ UNCHANGED <<visible, present>>

RemoveFavorite(t, p) ==
  /\ Begin(t, "count", p) /\ links' = SelectSeq(links, LAMBDA q : q # p)
  /\ UNCHANGED <<visible, present, answer>>

Counted == Len(Shown)
CountAfter(t) == /\ Step(t, "count") /\ Finish(t, << >>, Counted)
                 /\ UNCHANGED <<visible, present, links>>

\* list: the page, its total, and then the products themselves
ListIds(t, n) ==
  /\ pending[t] = NoRequest
  /\ pending' = [pending EXCEPT ![t] = [step |-> "total", product |-> NoRequest, items |-> Page(n), total |-> 0]]
  /\ UNCHANGED <<visible, present, links, answer>>
ListTotal(t) ==
  /\ Step(t, "total")
  /\ pending' = [pending EXCEPT ![t].step = "hydrate", ![t].total = Counted]
  /\ UNCHANGED <<visible, present, links, answer>>
\* mutant of Hydrated: what the page said
AsListed(items) == items
\* listStorefrontProductsByIds
Hydrated(items) == SelectSeq(items, LAMBDA p : p \in visible)
Hydrate(t) == /\ Step(t, "hydrate") /\ Finish(t, Hydrated(pending[t].items), pending[t].total)
              /\ UNCHANGED <<visible, present, links>>

\* status of some products; the summary is its total alone
StatusIds(t, some) ==
  /\ pending[t] = NoRequest
  /\ pending' = [pending EXCEPT ![t] =
       [step |-> "status", product |-> NoRequest, items |-> SelectSeq(Shown, LAMBDA p : p \in some), total |-> 0]]
  /\ UNCHANGED <<visible, present, links, answer>>
StatusTotal(t) == /\ Step(t, "status") /\ Finish(t, pending[t].items, Counted)
                  /\ UNCHANGED <<visible, present, links>>

FavoritesNext == \/ \E p \in Products : Hide(p) \/ Show(p) \/ Delete(p)
                 \/ \E t \in Tabs : \/ \E p \in Products : AddCheck(t, p) \/ RemoveFavorite(t, p)
                                    \/ AddStore(t) \/ CountAfter(t) \/ ListTotal(t) \/ Hydrate(t) \/ StatusTotal(t)
                                    \/ \E n \in 1..2 : ListIds(t, n)
                                    \/ \E some \in {Products} \cup {{p} : p \in Products} : StatusIds(t, some)
FavoritesSpec == FavoritesInit /\ [][FavoritesNext]_favoriteVars

-----------------------------------------------------------------------------
(* Properties of the favorites *)

\* Favorites are existing products, each once, whatever adds race each other.
FavoritesTypeOK == /\ visible \subseteq present /\ present \subseteq Products
                   /\ Set(links) \subseteq present /\ Len(links) = Cardinality(Set(links))
                   /\ answer.total \in 0..Cardinality(Products)

Place(p, s) == CHOOSE i \in DOMAIN s : s[i] = p
\* Adding a favorite again, hiding and showing products and removing others never
\* change the order of two favorites: PUT and DELETE are idempotent.
OrderIsKept ==
  \A p, q \in Set(links) \cap Set(links') :
    Place(p, links) < Place(q, links) => Place(p, links') < Place(q, links')

\* A list is answered without products that have meanwhile been hidden or deleted,
\* and never with more than a page.
ListedIsVisible ==
  \A t \in Tabs : Step(t, "hydrate") /\ pending'[t] = NoRequest =>
    Set(answer'.items) \subseteq visible /\ Len(answer'.items) <= Limit
=============================================================================
