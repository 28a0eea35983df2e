---------------------------- MODULE WebCheckout ----------------------------
(* Renting on the website: the availability answer, the quote, and the order *)
(* a signed-in customer creates.  An order is planned from what the service  *)
(* reads one call at a time, and written later in a SERIALIZABLE transaction *)
(* that checks the plan again; in between the administrators change prices,  *)
(* products and stock, and other checkouts take items and rewards.           *)
(* All requests are for one period of the calendar, so that an item serves   *)
(* one order; retries of one request are the subject of IdempotencyClaims.   *)
EXTENDS RentalPricing, Sequences, FiniteSets

CONSTANTS Clients,      \* checkouts under way, e.g. two tabs of one account
          Variants, Items,
          VariantOf,    \* Items -> Variants
          ProductOf,    \* Variants -> products
          DepositOf,    \* Variants -> deposit for one item, in cents
          Rewards,      \* the account's loyalty rewards
          RewardValue,  \* Rewards -> cents
          NoReward,
          Requests,     \* what customers ask for
          Defaults, Saved, ShippingFee, AllowedMethods,
          MaxItemCount, MaxPerItem, MaxTotal, \* WEB_RENTAL_MAX_*
          MaxOrders     \* bound on the orders created

RewardAssumption == NoReward \notin Rewards

VARIABLES settings,  \* the price policy in force
          listed,    \* variants the storefront offers: active, public, rentable, not archived
          allowFree, \* products.allow_free_accessory, by variant
          offRent,   \* items in maintenance, archived or rented by others
          verified,  \* the web account is enabled and its e-mail verified
          spent,     \* rewards REDEEMED, with the order
          checkout,  \* the plan of each client, or none
          orders     \* the web orders created, a sequence
vars == <<settings, listed, allowFree, offRent, verified, spent, checkout, orders>>

Policies == {EffectivePolicy(Defaults, s.price, s.fee) : s \in Saved}
NoPlan == [request |-> "none"]
NoSpending == [r \in {} |-> 0]

Init == /\ settings \in Policies /\ listed = Variants
        /\ allowFree \in [Variants -> BOOLEAN] /\ offRent = {}
        /\ verified = TRUE /\ spent = NoSpending
        /\ checkout = [c \in Clients |-> NoPlan] /\ orders = << >>

-----------------------------------------------------------------------------
(* Stock *)

Held == UNION {orders[k].items : k \in {n \in DOMAIN orders : orders[n].live}}
FreeItems(v) == {i \in Items \ (Held \cup offRent) : VariantOf[i] = v}
FirstOf(n, S) == {i \in S : Cardinality({j \in S : j <= i}) <= n}   \* slice(0, n)

-----------------------------------------------------------------------------
(* Requests: lines of [variant, product, role, quantity], the days, delivery, *)
(* collateral method ("UNSET" where the client left a field out) and reward.  *)

\* rentalBillingRole
Role(line) == IF line.role = "UNSET" THEN "PAID" ELSE line.role
Normal(lines) == [i \in DOMAIN lines |-> [role |-> Role(lines[i]), quantity |-> lines[i].quantity]]

\* assertWebRentalItems
ItemsValid(lines) ==
  /\ Len(lines) \in 1 .. MaxItemCount
  /\ \A i \in DOMAIN lines : lines[i].quantity \in 1 .. MaxPerItem
  /\ MapThenSumSet(LAMBDA i : lines[i].quantity, DOMAIN lines) <= MaxTotal
  /\ AllowanceDefined(Normal(lines))

\* evaluateWebRentalSelection: duplicate lines of a variant and a role merge.
Groups(lines) == {[variant |-> lines[i].variant, role |-> Role(lines[i])] : i \in DOMAIN lines}
Quantity(lines, g) ==
  MapThenSumSet(LAMBDA i : IF lines[i].variant = g.variant /\ Role(lines[i]) = g.role
                           THEN lines[i].quantity ELSE 0, DOMAIN lines)
Demand(lines, v) ==
  MapThenSumSet(LAMBDA i : IF lines[i].variant = v THEN lines[i].quantity ELSE 0, DOMAIN lines)
SelectionValid(lines) ==
  \A i \in DOMAIN lines :
    /\ lines[i].variant \in listed
    /\ lines[i].product \in {"UNSET", ProductOf[lines[i].variant]}
    /\ AccessoryAllowed(Role(lines[i]), allowFree[lines[i].variant])

PricedAs(lines, g) ==
  [role |-> g.role, quantity |-> Quantity(lines, g), itemPrice |-> None, whole |-> None,
   deposit |-> DepositOf[g.variant]]
LinesDefined(req) ==
  \A g \in Groups(req.lines) :
    LineDefined(req.days, PaidQuantity(Normal(req.lines)), settings, None, PricedAs(req.lines, g))
LineOf(req, g) == Line(req.days, PaidQuantity(Normal(req.lines)), settings, None, PricedAs(req.lines, g))
Shipping(req) == IF req.delivery = "shop_delivery" THEN ShippingFee ELSE 0

\* What quote and order have in common, up to the selection.
RequestAccepted(req) ==
  /\ ItemsValid(req.lines) /\ OnlineDurationAllowed(req.days, settings)
  /\ SelectionValid(req.lines) /\ LinesDefined(req)

RewardKnown(r) == r \in Rewards
RewardUsable(r) == r \in Rewards /\ r \notin DOMAIN spent

-----------------------------------------------------------------------------
(* The answers *)

\* checkAvailability
AvailableUnbooked(v, days) ==
  IF v \in listed /\ OnlineDurationAllowed(days, settings)
  THEN Cardinality({i \in Items \ offRent : VariantOf[i] = v}) ELSE 0
Available(v, days) ==
  IF v \in listed /\ OnlineDurationAllowed(days, settings) THEN Cardinality(FreeItems(v)) ELSE 0

\* calculateQuote.  A quote is refused when a request is; a group short of
\* items is reported against the demand of all groups of its variant.
GroupCovered(req, g) == Quantity(req.lines, g) <= Cardinality(FreeItems(g.variant))
Covered(req, g) == Demand(req.lines, g.variant) <= Cardinality(FreeItems(g.variant))
QuoteGiven(req) ==
  RequestAccepted(req) /\ (req.reward # NoReward => RewardUsable(req.reward))
Quote(req) ==
  LET G == Groups(req.lines)
      subtotal == SumOf([g \in G |-> LineOf(req, g).lineTotal])
      discount == IF req.reward = NoReward THEN 0
                  ELSE IF RewardValue[req.reward] < subtotal THEN RewardValue[req.reward] ELSE subtotal
  IN  [deposit |-> SumOf([g \in G |-> LineOf(req, g).depositAmount]),
       total |-> subtotal + Shipping(req) - discount,
       canCheckout |-> /\ \A g \in G : Covered(req, g)
                       /\ req.reward # NoReward => discount > 0]

-----------------------------------------------------------------------------
(* Creating an order *)

\* createOrder up to the booking: the plan takes the first free items of a
\* variant, those of one group before those of the next.
Taken(req, g) ==
  LET v == g.variant
      first == FirstOf(Quantity(req.lines, [variant |-> v, role |-> "PAID"]), FreeItems(v))
  IN  IF g.role = "PAID" THEN first ELSE FirstOf(Quantity(req.lines, g), FreeItems(v) \ first)
PlanGiven(req) ==
  /\ RequestAccepted(req)
  /\ (IF req.method = "UNSET" THEN "CASH" ELSE req.method) \in AllowedMethods
  /\ \A g \in Groups(req.lines) : Cardinality(Taken(req, g)) = Quantity(req.lines, g)
PlanOf(req) ==
  [request |-> req, shipping |-> Shipping(req),
   lines |-> [g \in Groups(req.lines) |-> LineOf(req, g)],
   items |-> [g \in Groups(req.lines) |-> Taken(req, g)]]
Plan(c, req) ==
  /\ checkout[c] = NoPlan /\ Len(orders) < MaxOrders
  /\ verified /\ PlanGiven(req)
  /\ checkout' = [checkout EXCEPT ![c] = PlanOf(req)]
  /\ UNCHANGED <<settings, listed, allowFree, offRent, verified, spent, orders>>

\* rental-booking.ts, createOrder: all that the transaction checks again.
AllItems(plan) == UNION {plan.items[g] : g \in DOMAIN plan.items}
AllocationValid(plan) ==                                  \* assertAllocationPlan
  /\ \A g \in DOMAIN plan.lines : Cardinality(plan.items[g]) = plan.lines[g].quantity
  /\ \A g, h \in DOMAIN plan.lines : g # h => plan.items[g] \cap plan.items[h] = {}
CatalogListed(plan) == \A g \in DOMAIN plan.lines : g.variant \in listed
CatalogValid(plan) ==                                     \* assertRentalCatalogLines
  \A g \in DOMAIN plan.lines : g.variant \in listed /\ AccessoryAllowed(g.role, allowFree[g.variant])
InventoryInService(plan) == AllItems(plan) \cap offRent = {}
InventoryValid(plan) == AllItems(plan) \cap (Held \cup offRent) = {}
Subtotal(plan) == SumOf([g \in DOMAIN plan.lines |-> plan.lines[g].lineTotal])
Discount(plan) ==
  LET r == plan.request.reward
  IN  IF r = NoReward THEN 0
      ELSE IF RewardValue[r] < Subtotal(plan) THEN RewardValue[r] ELSE Subtotal(plan)
BookingAccepted(plan) ==
  /\ verified
  /\ OnlineDurationAllowed(plan.request.days, settings)
  /\ plan.request.reward # NoReward => RewardUsable(plan.request.reward) /\ Subtotal(plan) > 0
  /\ AllocationValid(plan) /\ CatalogValid(plan) /\ InventoryValid(plan)
  /\ \A g \in DOMAIN plan.lines :
       LineAccepted(plan.lines[g], plan.request.days, PaidQuantity(plan.lines))
OrderOf(plan) ==
  [live |-> TRUE, lines |-> plan.lines, items |-> AllItems(plan), reward |-> plan.request.reward,
   discount |-> Discount(plan), allowFree |-> allowFree,
   deposit |-> SumOf([g \in DOMAIN plan.lines |-> plan.lines[g].depositAmount]),
   total |-> Subtotal(plan) + plan.shipping - Discount(plan)]
Book(c) ==
  LET plan == checkout[c] IN
  /\ plan # NoPlan /\ BookingAccepted(plan)
  /\ orders' = Append(orders, OrderOf(plan))
  /\ spent' = IF plan.request.reward = NoReward THEN spent
              ELSE [r \in DOMAIN spent \cup {plan.request.reward} |->
                      IF r = plan.request.reward THEN Len(orders') ELSE spent[r]]
  /\ checkout' = [checkout EXCEPT ![c] = NoPlan]
  /\ UNCHANGED <<settings, listed, allowFree, offRent, verified>>

\* Refused by the booking, or the request died.
GiveUp(c) ==
  /\ checkout[c] # NoPlan
  /\ checkout' = [checkout EXCEPT ![c] = NoPlan]
  /\ UNCHANGED <<settings, listed, allowFree, offRent, verified, spent, orders>>

\* A cancelled order gives its items back, not its reward.
CancelOrder(k) ==
  /\ orders[k].live /\ orders' = [orders EXCEPT ![k].live = FALSE]
  /\ UNCHANGED <<settings, listed, allowFree, offRent, verified, spent, checkout>>

\* What administrators do meanwhile.
ChangeSettings ==
  /\ settings' \in Policies
  /\ UNCHANGED <<listed, allowFree, offRent, verified, spent, checkout, orders>>
ChangeProduct(v) ==
  /\ \/ listed' = (listed \cup {v}) \ (listed \cap {v}) /\ UNCHANGED allowFree
     \/ allowFree' = [allowFree EXCEPT ![v] = ~@] /\ UNCHANGED listed
  /\ UNCHANGED <<settings, offRent, verified, spent, checkout, orders>>
ChangeItem(i) ==
  /\ i \notin Held
  /\ offRent' = (offRent \cup {i}) \ (offRent \cap {i})
  /\ UNCHANGED <<settings, listed, allowFree, verified, spent, checkout, orders>>
DisableAccount ==
  /\ verified /\ verified' = FALSE
  /\ UNCHANGED <<settings, listed, allowFree, offRent, spent, checkout, orders>>

\* The identity of a request that the idempotency record keeps a hash of:
\* fields left out count as their defaults, and an accessory taken along for
\* free is not the same as one paid for. (webCommandIdentity)
IdentityWithoutRoles(req) ==
  [lines |-> [i \in DOMAIN req.lines |->
                [variant |-> req.lines[i].variant, product |-> req.lines[i].product,
                 quantity |-> req.lines[i].quantity]],
   days |-> req.days, delivery |-> req.delivery, reward |-> req.reward,
   method |-> IF req.method = "UNSET" THEN "CASH" ELSE req.method]
Identity(req) ==
  [lines |-> [i \in DOMAIN req.lines |->
                [variant |-> req.lines[i].variant, product |-> req.lines[i].product,
                 quantity |-> req.lines[i].quantity,
                 free |-> req.lines[i].role = "FREE_ACCESSORY"]],
   days |-> req.days, delivery |-> req.delivery, reward |-> req.reward,
   method |-> IF req.method = "UNSET" THEN "CASH" ELSE req.method]

Next ==
  \/ \E c \in Clients : Book(c) \/ GiveUp(c) \/ \E req \in Requests : Plan(c, req)
  \/ \E k \in DOMAIN orders : CancelOrder(k)
  \/ ChangeSettings \/ DisableAccount
  \/ \E v \in Variants : ChangeProduct(v)
  \/ \E i \in Items : ChangeItem(i)

Spec == Init /\ [][Next]_vars

-----------------------------------------------------------------------------

\* In every state of shop, stock and rewards, a quote that says the customer
\* can check out is honoured at once: planning and booking accept the same
\* request, for the same total and deposit. (calculateQuote canCheckout against
\* WebRentalOrderService.createOrder and rental-booking.ts createOrder, which
\* compute all of it separately)
QuoteIsHonoured ==
  \A req \in Requests :
    QuoteGiven(req) /\ Quote(req).canCheckout /\ verified
      /\ (IF req.method = "UNSET" THEN "CASH" ELSE req.method) \in AllowedMethods =>
        /\ PlanGiven(req)
        /\ LET plan == PlanOf(req)
               order == OrderOf(plan)
               quote == Quote(req)
           IN  /\ BookingAccepted(plan)
               /\ order.total = quote.total /\ order.deposit = quote.deposit

\* An available variant can be quoted for as many units as were promised.
\* (checkAvailability against calculateQuote)
AvailableMeansRentable ==
  \A v \in Variants, days \in 1 .. MaxDays :
    LET n == Available(v, days)
        req == [lines |-> <<[variant |-> v, product |-> "UNSET", role |-> "PAID", quantity |-> n]>>,
                days |-> days, delivery |-> "pickup", method |-> "CASH", reward |-> NoReward]
    IN  n \in 1 .. MaxPerItem => QuoteGiven(req) /\ Quote(req).canCheckout

\* Every order holds as many items as it bills, of the variants it names, and
\* live orders share none, whatever was sold or withdrawn between planning and
\* booking. (assertAllocationPlan, assertInventoryRentable)
EachUnitHasItsItem ==
  \A k \in DOMAIN orders :
    /\ \A v \in Variants :
         Cardinality({i \in orders[k].items : VariantOf[i] = v}) =
           MapThenSumSet(LAMBDA g : IF g.variant = v THEN orders[k].lines[g].quantity ELSE 0,
                         DOMAIN orders[k].lines)
    /\ \A n \in DOMAIN orders :
         n # k /\ orders[n].live /\ orders[k].live => orders[n].items \cap orders[k].items = {}

\* Free accessories are entitled to when the order is written: their product
\* allows it then, and there is a paid unit for each. (assertRentalCatalogLines:
\* "so stale storefront selections cannot create a Rental allocation")
AccessoriesAreEntitled ==
  \A k \in DOMAIN orders :
    LET lines == orders[k].lines IN
    /\ \A g \in DOMAIN lines : g.role = "FREE_ACCESSORY" => orders[k].allowFree[g.variant]
    /\ UnitsOf("FREE_ACCESSORY", lines) <= UnitsOf("PAID", lines)

\* A reward lowers the price of one order, at most to nothing, even if that
\* order is cancelled later or two checkouts race for it.
\* (redeemWebAccountLoyaltyReward)
RewardSpentOnce ==
  \A k \in DOMAIN orders :
    /\ orders[k].total >= 0 /\ orders[k].discount >= 0
    /\ orders[k].reward # NoReward =>
         /\ orders[k].reward \in DOMAIN spent /\ spent[orders[k].reward] = k
         /\ orders[k].discount \in 1 .. RewardValue[orders[k].reward]

\* A request answered from the record of an earlier one is one that would have
\* been planned alike. (stableJson of webCommandIdentity)
SameIdentitySamePlan ==
  \A a, b \in Requests :
    Identity(a) = Identity(b) =>
      /\ PlanGiven(a) = PlanGiven(b)
      /\ PlanGiven(a) => [PlanOf(a) EXCEPT !.request = 0] = [PlanOf(b) EXCEPT !.request = 0]
=============================================================================
