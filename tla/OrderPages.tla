------------------------------ MODULE OrderPages ------------------------------
(***************************************************************************)
(* The pages orders are read from: the shop's list and order page, the     *)
(* list and order page of a web account, and the public look-up by number  *)
(* and phone.  A list is read page by page while orders are booked and     *)
(* move on; each page takes two statements, the rows and then the total,   *)
(* and every statement sees what was committed before it.                  *)
(***************************************************************************)
EXTENDS Naturals, Sequences, FiniteSets, SequencesExt, FiniteSetsExt, Functions

CONSTANTS Orders,      \* identities of orders, compared where creation times tie
          Accounts,    \* web accounts
          Customers,
          Phones,      \* normalised
          Items,       \* identities of an order's lines, compared as the pages compare them
          Quantities,
          Limit,       \* rows of a page
          MaxClock     \* bound on the creation times

IdentityAssumption == Orders \subseteq Nat /\ Items \subseteq Nat \ {0}
LimitAssumption == Limit \in Nat \ {0}
QuantityAssumption == Quantities \subseteq Nat \ {0}

VARIABLES orders,  \* booked, or about to be
          phone,   \* of every customer, as corrected last
          clock,
          walk     \* a reader going through a list

vars == <<orders, phone, clock, walk>>

Shop == "shop"      \* the reader who is an administrator, and the owner of orders booked there
Statuses == {"OPEN", "CLOSED"}
Filters == Statuses \cup {"ANY"}
Lines == {l \in [Items -> Quantities \cup {0}] : \E i \in Items : l[i] # 0}

NoOrder == [stage |-> "none"]
Order(o) == orders[o]
Booked == {o \in Orders : orders[o].stage = "booked"}
NoWalk == [step |-> "none"]

-----------------------------------------------------------------------------
(* The queries *)

Matches(o, reader, filter) ==
  /\ reader # Shop => /\ Order(o).owner = reader
                      /\ Order(o).source = "ONLINE"
  /\ filter # "ANY" => Order(o).status = filter

Found(reader, filter) == {o \in Booked : Matches(o, reader, filter)}

\* Newest first; the identity decides between orders of the same moment.
Newer(o, p) == \/ Order(o).createdAt > Order(p).createdAt
               \/ Order(o).createdAt = Order(p).createdAt /\ o > p
Sorted(found) == SetToSortSeq(found, Newer)

\* mutant of Skipped: the page is counted from zero
SkippedWithFirst(page) == page * Limit

Skipped(page) == (page - 1) * Limit
Page(reader, filter, page) ==
  LET rows == Sorted(Found(reader, filter))
  IN  {rows[i] : i \in DOMAIN rows \cap ((Skipped(page) + 1)..(Skipped(page) + Limit))}

\* mutant of PagesOf: always one more
OnePageMore(found) == (found \div Limit) + 1

PagesOf(found) == (found + Limit - 1) \div Limit

\* Beside an order of a list: the pieces of its lines, and its first lines.
LinesOf(o) == SetToSortSeq({i \in Items : Order(o).lines[i] # 0}, <)
Preview(o) == SubSeq(LinesOf(o), 1, Min({3, Len(LinesOf(o))}))
ListedCount(o) == MapThenSumSet(LAMBDA i : Order(o).lines[i], Items)

AccountOrder(account, o) == o \in Booked /\ Matches(o, account, "ANY")

DetailCount(lines) == FoldFunction(+, 0, lines)

\* The customer's number is the one the shop has now.
IsTheirs(o, given) == phone[Order(o).customer] = given

\* mutant of Lookup: orders of the shop too
LookupAny(o, given) == o \in Booked /\ IsTheirs(o, given)

Lookup(o, given) == o \in Booked /\ Order(o).source = "ONLINE" /\ IsTheirs(o, given)

-----------------------------------------------------------------------------
(* Orders *)

\* createdAt is given when the insert is sent, the order is seen once it is committed.
Book(o, source, owner, customer, lines) ==
  /\ orders[o] = NoOrder
  /\ source = "ONLINE" <=> owner \in Accounts
  /\ orders' = [orders EXCEPT ![o] =
       [stage |-> "sent", createdAt |-> clock, source |-> source, owner |-> owner,
        customer |-> customer, lines |-> lines, status |-> "OPEN"]]
  /\ UNCHANGED <<phone, clock, walk>>

Commit(o) ==
  /\ orders[o].stage = "sent"
  /\ orders' = [orders EXCEPT ![o].stage = "booked"]
  /\ UNCHANGED <<phone, clock, walk>>

Leaves(o) == walk.step \in {"rows", "total"} /\ walk.filter = Order(o).status

Close(o) ==
  /\ o \in Booked /\ Order(o).status = "OPEN"
  /\ orders' = [orders EXCEPT ![o].status = "CLOSED"]
  /\ walk' = IF Leaves(o) /\ Matches(o, walk.reader, walk.filter)
             THEN [walk EXCEPT !.left = TRUE] ELSE walk
  /\ UNCHANGED <<phone, clock>>

CorrectPhone(c, number) ==
  /\ number \notin Range(phone)
  /\ phone' = [phone EXCEPT ![c] = number]
  /\ UNCHANGED <<orders, clock, walk>>

Tick ==
  /\ clock < MaxClock
  /\ clock' = clock + 1
  /\ UNCHANGED <<orders, phone, walk>>

-----------------------------------------------------------------------------
(* A walk through a list.  known: what matched before it began.             *)
(* left: an order that matched stopped matching meanwhile.                  *)

Start(reader, filter) ==
  /\ walk = NoWalk
  /\ walk' = [step |-> "rows", reader |-> reader, filter |-> filter, page |-> 1,
              seen |-> {}, known |-> Found(reader, filter), left |-> FALSE]
  /\ UNCHANGED <<orders, phone, clock>>

ReadRows ==
  /\ walk.step = "rows"
  /\ walk' = [walk EXCEPT !.step = "total",
                          !.seen = @ \cup Page(walk.reader, walk.filter, walk.page)]
  /\ UNCHANGED <<orders, phone, clock>>

\* The reader goes on as long as the answer says there are more pages.
ReadTotal ==
  /\ walk.step = "total"
  /\ walk' = IF walk.page < PagesOf(Cardinality(Found(walk.reader, walk.filter)))
             THEN [walk EXCEPT !.step = "rows", !.page = @ + 1]
             ELSE [walk EXCEPT !.step = "done"]
  /\ UNCHANGED <<orders, phone, clock>>

-----------------------------------------------------------------------------
Init ==
  /\ orders = [o \in Orders |-> NoOrder]
  /\ phone \in {f \in [Customers -> Phones] : IsInjective(f)}
  /\ clock = 0
  /\ walk = NoWalk

Next ==
  \/ \E o \in Orders, source \in {"ONLINE", "OFFLINE"}, owner \in Accounts \cup {Shop},
        c \in Customers, lines \in Lines : Book(o, source, owner, c, lines)
  \/ \E o \in Orders : Commit(o) \/ Close(o)
  \/ \E c \in Customers, number \in Phones : CorrectPhone(c, number)
  \/ Tick
  \/ \E reader \in Accounts \cup {Shop}, filter \in Filters : Start(reader, filter)
  \/ ReadRows \/ ReadTotal

Spec == Init /\ [][Next]_vars

-----------------------------------------------------------------------------
(* Properties *)

\* The types of the variables: orders, their customers' phones, and the reader's progress.
TypeOK ==
  /\ \A o \in Orders :
       \/ orders[o] = NoOrder
       \/ /\ orders[o].stage \in {"sent", "booked"}
          /\ orders[o].createdAt \in 0..clock
          /\ orders[o].status \in Statuses
          /\ orders[o].lines \in Lines
          /\ orders[o].owner \in Accounts <=> orders[o].source = "ONLINE"
  /\ phone \in [Customers -> Phones] /\ IsInjective(phone)
  /\ clock \in 0..MaxClock
  /\ walk # NoWalk => /\ walk.seen \subseteq Booked /\ walk.known \subseteq Booked
                      /\ walk.page \in 1..Cardinality(Orders)

(***************************************************************************)
(* A reader who goes through a list to its end has seen every order that   *)
(* was in it when they began, whatever was booked meanwhile and in         *)
(* whatever order the bookings were committed; unless the list is of one   *)
(* status and an order of it moved on, which pulls the others up a place   *)
(* (list, listWebAccountOrders, paginateMeta).                             *)
(***************************************************************************)
WalkMissesNothing ==
  walk.step = "done" /\ ~walk.left => walk.known \subseteq walk.seen

(***************************************************************************)
(* The pages, each with a query of its own, agree on an order: a web       *)
(* account can open exactly what its list shows on some page; the public   *)
(* look-up finds exactly the orders some account has, under one phone; and *)
(* the pieces counted beside it are the same in lists and on order pages.  *)
(***************************************************************************)
PagesAgree ==
  /\ \A a \in Accounts :
       UNION {Page(a, "ANY", p) : p \in 1..PagesOf(Cardinality(Found(a, "ANY")))}
         = {o \in Orders : AccountOrder(a, o)}
  /\ \A o \in Booked :
       /\ (\E a \in Accounts : AccountOrder(a, o)) <=> (\E number \in Phones : Lookup(o, number))
       /\ Cardinality({number \in Phones : Lookup(o, number)}) \leq 1
       /\ ListedCount(o) = DetailCount(Order(o).lines)
       /\ Len(Preview(o)) \leq ListedCount(o)
=============================================================================
