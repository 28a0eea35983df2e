------------------------------ MODULE MCCheckout ------------------------------
(* From the shop window to the price of a return, in one TLC run: the public  *)
(* product list (Storefront) and the pictures of an order (OrderPictures), a   *)
(* customer's quote and two concurrent checkouts of one account (WebCheckout,  *)
(* twice), and an agreement from its pricing to its return (RentalAgreement).  *)
(* They share no state, so a behaviour runs one of them (`part`) and the       *)
(* others are off.                                                             *)
EXTENDS Integers, Sequences, FiniteSets, TLC

CONSTANTS c1, c2,   \* two checkouts of one account
          Unset     \* a criterion or a size not given

VARIABLES part,
          settings, phase, order, shown, returned,
          listed, allowFree, offRent, verified, spent, checkout, orders,
          shop, asked, page, seen,
          media, domain

NotGiven == -1

\* of RentalPricing, for agreements and checkouts
TicksPerDay == 2
MaxAmount == 5
MaxThreshold == 3
MaxDays == 4

Prices(price, fee, bulk, renewal, longest) ==
  [defaultRentalPrice |-> price, additionalDayFee |-> fee, bulkQuantityThreshold |-> bulk,
   standardRenewalDay |-> renewal, bulkRenewalDay |-> renewal + 1, maxOnlineRentalDays |-> longest]

-----------------------------------------------------------------------------
(* An agreement for orders of one or two lines, with and without overrides *)

Priced(role, quantity, itemPrice, whole) ==
  [role |-> role, quantity |-> quantity, itemPrice |-> itemPrice, whole |-> whole, deposit |-> 50]

Agreement == INSTANCE RentalAgreement WITH
    MaxSafe <- 2600, Defaults <- Prices(5, 1, 3, 3, 3),
    Saved <- {[price |-> NotGiven, fee |-> NotGiven], [price |-> 3, fee |-> 2],
              [price |-> 4, fee |-> NotGiven]},
    LateReturn <- [feePerItemPerDay |-> 1, newRentalChargeFromLateDay |-> 2],
    Overrides <- {70}, Horizon <- 12, Starts <- {0, 3}, RescheduleDays <- 2,
    Requests <-
      { [orderPrice |-> NotGiven, lines |-> <<Priced("PAID", 2, NotGiven, NotGiven)>>],
        [orderPrice |-> NotGiven,
         lines |-> <<Priced("PAID", 2, NotGiven, NotGiven), Priced("PAID", 1, 250, NotGiven)>>],
        [orderPrice |-> 350,
         lines |-> <<Priced("PAID", 1, NotGiven, NotGiven), Priced("FREE_ACCESSORY", 1, NotGiven, NotGiven)>>],
        [orderPrice |-> NotGiven,
         lines |-> <<Priced("PAID", 1, NotGiven, 900), Priced("PAID", 1, NotGiven, NotGiven)>>],
        [orderPrice |-> NotGiven,
         lines |-> <<Priced("PAID", 1, NotGiven, NotGiven), Priced("FREE_ACCESSORY", 2, NotGiven, NotGiven)>>] }

-----------------------------------------------------------------------------
(* Web checkouts in a shop of a dress with two items and a hat with one *)

Wish(variant, role, quantity) ==
  [variant |-> variant, product |-> "UNSET", role |-> role, quantity |-> quantity]
Ask(lines, days, delivery, method, reward) ==
  [lines |-> lines, days |-> days, delivery |-> delivery, method |-> method, reward |-> reward]

\* What competes for the dresses, the hat and the reward.
Rivals ==
  { Ask(<<Wish("dress", "PAID", 1), Wish("dress", "UNSET", 1)>>, 2, "pickup", "CASH", "none"),
    Ask(<<Wish("hat", "FREE_ACCESSORY", 1), Wish("dress", "PAID", 1)>>, 1, "pickup", "DOCUMENT", "r"),
    Ask(<<Wish("dress", "PAID", 1)>>, 2, "shop_delivery", "CASH", "r") }
\* What is quoted: also the same in another order, and what is refused.
Quoted ==
  { Ask(<<Wish("dress", "PAID", 1), Wish("dress", "UNSET", 1)>>, 2, "shop_delivery", "UNSET", "none"),
    Ask(<<Wish("dress", "UNSET", 1), Wish("dress", "UNSET", 1)>>, 2, "shop_delivery", "CASH", "none"),
    Ask(<<Wish("dress", "PAID", 1), Wish("dress", "FREE_ACCESSORY", 1)>>, 1, "pickup", "CASH", "none"),
    Ask(<<Wish("dress", "PAID", 1), Wish("dress", "PAID", 1)>>, 1, "pickup", "CASH", "none"),
    Ask(<<Wish("hat", "FREE_ACCESSORY", 1), Wish("dress", "PAID", 1)>>, 1, "pickup", "DOCUMENT", "r"),
    Ask(<<Wish("dress", "PAID", 1)>>, 2, "shop_delivery", "CASH", "r"),
    Ask(<<Wish("hat", "PAID", 1), Wish("dress", "PAID", 2)>>, 2, "pickup", "CASH", "none"),
    Ask(<<Wish("hat", "PAID", 1)>>, 3, "pickup", "CASH", "none"),
    Ask(<<[Wish("hat", "PAID", 1) EXCEPT !.product = "Dress"]>>, 1, "pickup", "CASH", "none") }

Variants == {"dress", "hat"}
Items == 1 .. 3
VariantOf == <<"dress", "dress", "hat">>
ProductOf == [v \in Variants |-> IF v = "dress" THEN "Dress" ELSE "Hat"]
DepositOf == [v \in Variants |-> IF v = "dress" THEN 300 ELSE 100]
Rewards == {"r"}
RewardValue == [r \in Rewards |-> 400]
ShippingFee == 200
AllowedMethods == {"CASH", "DOCUMENT"}
MaxItemCount == 2
MaxPerItem == 2
MaxTotal == 3
Standard == [price |-> NotGiven, fee |-> NotGiven]

\* One customer, every kind of request, a shop that rents for nothing at times.
Quotes == INSTANCE WebCheckout WITH
    MaxSafe <- 3000, NoReward <- "none", Defaults <- Prices(3, 1, 2, 2, 2),
    Clients <- {"tab"}, Requests <- Quoted, MaxOrders <- 1,
    Saved <- {Standard, [price |-> 0, fee |-> NotGiven]}

\* Two checkouts at once.
Checkouts == INSTANCE WebCheckout WITH
    MaxSafe <- 3000, NoReward <- "none", Defaults <- Prices(3, 1, 2, 2, 2),
    Clients <- {c1, c2}, Requests <- Rivals, MaxOrders <- 2, Saved <- {Standard}

-----------------------------------------------------------------------------
(* The storefront: two products, each of a plain shape with one or two        *)
(* deviations, so that every condition of the predicates decides somewhere    *)

Rate(d, x) == [days |-> d, price |-> x]
Variant(s, c, on, gone, rates) ==
  [size |-> s, color |-> c, active |-> on, archived |-> gone, rates |-> rates]
Stocks ==
  { {},
    {Variant("M", "red", TRUE, FALSE, {})},
    {Variant("M", "red", TRUE, FALSE, {Rate(1, 10)}), Variant("L", "blue", TRUE, FALSE, {Rate(1, 30)})},
    {Variant("M", "blue", TRUE, FALSE, {Rate(3, 20)}), Variant("L", "red", TRUE, FALSE, {})},
    {Variant("M", "red", TRUE, TRUE, {Rate(1, 10)}), Variant(Unset, "blue", TRUE, FALSE, {})},
    {Variant("M", "red", FALSE, FALSE, {Rate(1, 40)})},
    {Variant("L", "red", TRUE, FALSE, {Rate(1, 40)})} }
Shape(pub, rent, act, arch, free, cat, r, vs) ==
  [public |-> pub, rentable |-> rent, active |-> act, archived |-> arch, free |-> free,
   category |-> cat, rates |-> r, variants |-> vs]
Criterion(categories, sizes, colors, frees, sorts, limit) ==
  [category : categories, size : sizes, color : colors, free : frees, sort : sorts, limit : {limit}]

Window == INSTANCE Storefront WITH
    Count <- 2, None <- Unset,
    Shapes <-
      {Shape(TRUE, TRUE, TRUE, FALSE, FALSE, "dress", r, vs) :
         r \in {{}, {Rate(1, 20)}, {Rate(3, 20)}}, vs \in Stocks} \cup
      {Shape(a # 1, a # 2, a # 3, a = 4, a = 5, IF a = 6 THEN "shoes" ELSE "dress", {Rate(1, 20)}, vs) :
         a \in 1 .. 6, vs \in {s \in Stocks : Cardinality(s) = 2}},
    Criteria <-
      Criterion({Unset, "dress"}, {Unset, "M"}, {Unset, "red"}, {Unset},
                {"newest", "price_asc", "price_desc"}, 1) \cup
      Criterion({Unset}, {Unset}, {Unset}, {TRUE, FALSE}, {"name_asc", "name_desc"}, 1) \cup
      Criterion({Unset}, {Unset}, {Unset}, {Unset}, {"price_asc"}, 2)

\* Three pictures, two of which tie in order, one of them primary or none; one move.
Album == INSTANCE OrderPictures WITH
    Pictures <- {"m1", "m2", "m3"}, SortOrders <- {0, 1}, Domains <- {"old", "new"}

ASSUME ConstantsOK ==
    Agreement!PricingAssumption /\ Quotes!RewardAssumption /\ Checkouts!RewardAssumption

-----------------------------------------------------------------------------
agreementVars == <<phase, order, shown, returned>>
checkoutVars == <<listed, allowFree, offRent, verified, spent, checkout, orders>>
windowVars == <<shop, asked, page, seen>>
albumVars == <<media, domain>>
allVars == <<part, settings, agreementVars, checkoutVars, windowVars, albumVars>>

Off == "off"

Init ==
    /\ part \in {"agreement", "quotes", "checkouts", "window", "album"}
    /\ part \in {"window", "album"} => settings = Off
    /\ \/ part = "agreement" /\ Agreement!Init
       \/ /\ part # "agreement"
          /\ phase = Off /\ order = Off /\ shown = Off /\ returned = Off
    /\ \/ part = "quotes" /\ Quotes!Init
       \/ part = "checkouts" /\ Checkouts!Init
       \/ /\ part \notin {"quotes", "checkouts"}
          /\ listed = Off /\ allowFree = Off /\ offRent = Off /\ verified = Off
          /\ spent = Off /\ checkout = Off /\ orders = Off
    /\ \/ part = "window" /\ Window!Init
       \/ part # "window" /\ shop = Off /\ asked = Off /\ page = Off /\ seen = Off
    /\ \/ part = "album" /\ Album!Init
       \/ part # "album" /\ media = Off /\ domain = Off

Next ==
    /\ part' = part
    /\ \/ /\ part = "agreement" /\ Agreement!Next
          /\ UNCHANGED <<checkoutVars, windowVars, albumVars>>
       \/ /\ \/ part = "quotes" /\ Quotes!Next
             \/ part = "checkouts" /\ Checkouts!Next
          /\ UNCHANGED <<agreementVars, windowVars, albumVars>>
       \/ /\ part = "window" /\ Window!Next
          /\ UNCHANGED <<settings, agreementVars, checkoutVars, albumVars>>
       \/ /\ part = "album" /\ Album!Next
          /\ UNCHANGED <<settings, agreementVars, checkoutVars, windowVars>>

Spec == Init /\ [][Next]_allVars

Symmetry == Permutations({c1, c2})

-----------------------------------------------------------------------------
(* Properties *)

\* What a customer is told a rental costs is what the order charges, day by day, and
\* what the clerk is shown at the return is what the return is charged; what is
\* offered as available can be booked, and the same request has one identity
\* (RentalAgreement, WebCheckout).
PricesAreHonoured ==
    /\ part = "agreement" => /\ Agreement!PriceIsDayByDay
                             /\ Agreement!ReturnIsNeverBlocked
                             /\ Agreement!LateCostsTheAddedDays
                             /\ Agreement!PreviewIsCharged
    /\ part = "quotes" => /\ Quotes!QuoteIsHonoured
                          /\ Quotes!AvailableMeansRentable
                          /\ Quotes!SameIdentitySamePlan

\* Of two checkouts at once: every unit ordered has an item nobody else has, free
\* accessories have their paid pieces, and a reward is spent by one order
\* (WebCheckout).
CheckoutIsSound ==
    part = "checkouts" => /\ Checkouts!EachUnitHasItsItem
                          /\ Checkouts!AccessoriesAreEntitled
                          /\ Checkouts!RewardSpentOnce

\* The pages of the product list, its filters, its price range and the page of a
\* product agree about what the shop rents, and an order shows the primary picture
\* (Storefront, OrderPictures).
StorefrontIsTrue ==
    /\ part = "window" => /\ Window!TypeOK
                          /\ Window!ListIsComplete
                          /\ Window!OptionsLeadSomewhere
                          /\ Window!ViewsAgree
                          /\ Window!PriceRangeCovers
    /\ part = "album" => Album!PrimaryIsShown
=============================================================================
