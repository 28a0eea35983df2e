----------------------------- MODULE Storefront -----------------------------
(***************************************************************************)
(* What customers see of the catalog: lists with filters, orders and pages,*)
(* the details of a product, the filter options, carts and favorites; and  *)
(* next to them the administrators' list.  One predicate       *)
(* exists in two languages: the price-sorted list asks PostgreSQL directly *)
(* for the products of a page, and everything else asks Prisma.            *)
(***************************************************************************)
EXTENDS Integers, Sequences, FiniteSets, SequencesExt

CONSTANTS Shapes,    \* the products a shop can have
          Criteria,  \* [category, size, color, free, sort, limit], None where not given
          Count,     \* products of the shop; their numbers give age and name order
          None

VARIABLES shop,    \* Products -> Shapes
          asked,   \* the criteria a customer follows through the pages
          page,    \* pages read so far
          seen     \* their items
vars == <<shop, asked, page, seen>>

Products == 1..Count
Set(s) == {s[i] : i \in DOMAIN s}

-----------------------------------------------------------------------------
(* The predicates of the code *)

\* storefrontProductEligibility and storefrontVariantEligibility
Eligible(p) == shop[p].public /\ shop[p].rentable /\ ~shop[p].archived /\ shop[p].active
Offered(v) == v.active /\ ~v.archived
OfferedVariants(p) == {v \in shop[p].variants : Offered(v)}

Given(value, wanted) == wanted = None \/ value = wanted
\* storefrontProductBaseWhere
BaseWhere(p, f) == /\ Eligible(p)
                   /\ Given(shop[p].category, f.category) /\ Given(shop[p].free, f.free)
\* The filter of Prisma: one variant has both the size and the colour.
Where(p, f) ==
  /\ BaseWhere(p, f)
  /\ \/ f.size = None /\ f.color = None
     \/ \E v \in OfferedVariants(p) : Given(v.size, f.size) /\ Given(v.color, f.color)

\* mutant of SqlWhere: the copy of the conditions forgets the archive
SqlWithoutArchive(p, f) ==
  /\ shop[p].public /\ shop[p].rentable /\ shop[p].active
  /\ Given(shop[p].category, f.category) /\ Given(shop[p].free, f.free)
  /\ f.size = None \/ \E v \in shop[p].variants : Offered(v) /\ v.size = f.size
  /\ f.color = None \/ \E v \in shop[p].variants : Offered(v) /\ v.color = f.color
\* The filter of the SQL: a variant has the size, and a variant has the colour.
SqlWhere(p, f) ==
  /\ shop[p].public /\ shop[p].rentable /\ ~shop[p].archived /\ shop[p].active
  /\ Given(shop[p].category, f.category) /\ Given(shop[p].free, f.free)
  /\ f.size = None \/ \E v \in shop[p].variants : Offered(v) /\ v.size = f.size
  /\ f.color = None \/ \E v \in shop[p].variants : Offered(v) /\ v.color = f.color

\* ORDER BY duration_days, price LIMIT 1
Cheapest(rates) == CHOOSE r \in rates : \A s \in rates : r.days < s.days \/ (r.days = s.days /\ r.price <= s.price)
VariantRates(p) == UNION {v.rates : v \in OfferedVariants(p)}
\* COALESCE of the product's own price and the variants'; None sorts last
SortPrice(p) == IF shop[p].rates # {} THEN Cheapest(shop[p].rates).price
                ELSE IF VariantRates(p) # {} THEN Cheapest(VariantRates(p)).price ELSE None
PriceBefore(p, q, up) ==
  LET a == SortPrice(p)
      b == SortPrice(q)
  IN IF a = b THEN p < q
     ELSE b = None \/ (a # None /\ IF up THEN a < b ELSE a > b)
ByPrice(f) == f.sort \in {"price_asc", "price_desc"}
Before(p, q, f) == CASE f.sort = "newest" -> p > q
                     [] f.sort = "name_asc" -> p < q
                     [] f.sort = "name_desc" -> p > q
                     [] OTHER -> PriceBefore(p, q, f.sort = "price_asc")

-----------------------------------------------------------------------------
(* The list *)

\* mutant of Skip: pages counted from one
SkipFrom(n, limit) == n * limit
Skip(n, limit) == (n - 1) * limit
PageOf(s, n, limit) == LET skip == Skip(n, limit)
                       IN SubSeq(s, skip + 1, IF skip + limit < Len(s) THEN skip + limit ELSE Len(s))
\* The rows a query puts on page n; the SQL's ids are then read with Prisma's
\* filter, and those it does not return are dropped.
Rows(f, n) ==
  LET found == {p \in Products : IF ByPrice(f) THEN SqlWhere(p, f) ELSE Where(p, f)}
  IN PageOf(SetToSortSeq(found, LAMBDA p, q : Before(p, q, f)), n, f.limit)
Items(f, n) == SelectSeq(Rows(f, n), LAMBDA p : Where(p, f))
Total(f) == Cardinality({p \in Products : Where(p, f)})
\* mutant of TotalPages: one page too many where the last one is full
TotalPagesAndOne(f) == Total(f) \div f.limit + 1
\* paginateMeta
TotalPages(f) == (Total(f) + f.limit - 1) \div f.limit

Init == /\ shop \in [Products -> Shapes] /\ asked \in Criteria
        /\ page = 0 /\ seen = << >>

\* The customer turns the pages the answer announces.
ReadPage == /\ page < TotalPages(asked)
            /\ page' = page + 1 /\ seen' = seen \o Items(asked, page + 1)
            /\ UNCHANGED <<shop, asked>>

Next == ReadPage
Spec == Init /\ [][Next]_vars

-----------------------------------------------------------------------------
(* The other readers *)

\* extractRentalPrices: the list holds the rates of the product and of its offered
\* variants; of one duration the first row counts, and the rows come in no fixed order.
PricesFor(p, days) == {r.price : r \in {s \in shop[p].rates \cup VariantRates(p) : s.days = days}}
FirstPrices(p) == LET rates == shop[p].rates \cup VariantRates(p)
                  IN IF rates = {} THEN {} ELSE PricesFor(p, Cheapest(rates).days)

\* findStorefrontProductBySlug
DetailVariants(p) == IF Eligible(p) THEN OfferedVariants(p) ELSE {}
\* mutant of Resolved: the variant's own state decides
ResolvedByVariant(p) == {v \in shop[p].variants : Offered(v)}
\* resolveStorefrontSelections: the cart's variants
Resolved(p) == {v \in shop[p].variants : Offered(v) /\ Eligible(p)}
\* mutant of VariantOptions: the filters of the whole shop
OptionsOfShop(f) == UNION {OfferedVariants(p) : p \in {q \in Products : Eligible(q)}}
\* listStorefrontFilters: what the sizes and the colours of these variants are
VariantOptions(f) == UNION {OfferedVariants(p) : p \in {q \in Products : BaseWhere(q, f)}}
\* listStorefrontProductsByIds, for favorites
Favorites(ids) == SelectSeq(ids, Eligible)

\* mutant of ListedRates: the range of the product's own prices
OwnRates(p) == shop[p].rates
\* listProducts: the range over active rates, archived variants left out
ListedRates(p) == shop[p].rates \cup UNION {v.rates : v \in {w \in shop[p].variants : ~w.archived}}
InRange(p, price) == /\ \E r \in ListedRates(p) : r.price <= price
                     /\ \E r \in ListedRates(p) : r.price >= price

-----------------------------------------------------------------------------
(* Properties *)

\* The pages read are among those announced, and hold products of the shop.
TypeOK == page \in 0..Count /\ seen \in Seq(Products)

Read == page = TotalPages(asked)
Complete ==
  /\ Set(seen) = {p \in Products : Where(p, asked)} /\ Len(seen) = Total(asked)
  /\ \A i, j \in DOMAIN seen : i < j => Before(seen[i], seen[j], asked)

\* Whoever turns all announced pages has seen every matching product once and in
\* order, except in the price order of a size together with a colour.
ListIsComplete ==
  Read /\ ~(ByPrice(asked) /\ asked.size # None /\ asked.color # None) => Complete

\* The same of every list.
EveryListIsComplete == Read => Complete

\* A list in ascending order of price shows ascending prices, whichever of the rows
\* of one duration the database returns first.
ShownPricesAscend ==
  asked.sort = "price_asc" =>
    \A i \in 1..Len(seen) - 1 :
      LET a == FirstPrices(seen[i])
          b == FirstPrices(seen[i + 1])
      IN b # {} => \E x \in a, y \in b : x <= y

\* Every size and every colour the filters offer leads to a list with a product.
OptionsLeadSomewhere ==
  LET f == [asked EXCEPT !.size = None, !.color = None]
  IN \A v \in VariantOptions(f) :
       /\ v.size # None => Total([f EXCEPT !.size = v.size]) > 0
       /\ v.color # None => Total([f EXCEPT !.color = v.color]) > 0

\* A product is found everywhere or nowhere: in the unfiltered lists of both query
\* languages, by its address, as a favorite, and with exactly its variants in a cart.
ViewsAgree ==
  LET f == [category |-> None, size |-> None, color |-> None, free |-> None, sort |-> "newest", limit |-> 1]
  IN \A p \in Products :
       /\ Where(p, f) = SqlWhere(p, f) /\ Where(p, f) = (Favorites(<<p>>) # << >>)
       /\ Resolved(p) = DetailVariants(p)
       /\ DetailVariants(p) # {} => Where(p, f)

\* No price a customer sees lies outside the range of the administrators' product
\* list, and a product without a range shows customers no price.
PriceRangeCovers ==
  \A p \in Products : \A price \in FirstPrices(p) \cup {r.price : r \in VariantRates(p)} : InRange(p, price)
=============================================================================
