------------------------------ MODULE Inventory ------------------------------
(***************************************************************************)
(* The warehouse as clerks use it: adding items of a variant, the list with*)
(* its occupancy and the menu of status changes, the changes themselves,   *)
(* and the history they leave.  Orders come and go as in RentalOrders,     *)
(* which has the calendar; here an order holds one item from a start on.   *)
(***************************************************************************)
EXTENDS Integers, Sequences, FiniteSets, SequencesExt

CONSTANTS Clerks, Orders,
          Numbers,     \* the SKUs of the form "<variant code>-00n"
          Chosen,      \* SKUs clerks type themselves
          FirstItems,  \* number of items created with the variant
          MaxItems, MaxHistory,  \* bounds on items, and on the history of one
          None

VARIABLES items,   \* [sku, status, archived, history], in the order of creation
          alloc,   \* Orders -> [item, status, from], or None
          page,    \* what a clerk's page shows: [item, status], or None
          adding   \* the addition a clerk waits for: [step, sku, chosen], or None
vars == <<items, alloc, page, adding>>

Statuses == {"AVAILABLE", "CLEANING", "REPAIRING", "DAMAGED", "LOST", "RETIRED"}
Item == DOMAIN items
Skus == {items[i].sku : i \in Item}
Starts == 1..2

\* createVariantWithInventory writes no history.
Init == /\ items = [n \in 1..FirstItems |->
                      [sku |-> n, status |-> "AVAILABLE", archived |-> FALSE, history |-> << >>]]
        /\ alloc = [o \in Orders |-> None]
        /\ page = [c \in Clerks |-> None] /\ adding = [c \in Clerks |-> None]

-----------------------------------------------------------------------------
(* Occupancy and the two status policies *)

\* activeOccupyingAllocationWhere; a released allocation is None here
AllocationsOf(i) == {o \in Orders : alloc[o] # None /\ alloc[o].item = i}
\* mutant of FirstAllocation: the earliest one
EarliestAllocation(i) == CHOOSE o \in AllocationsOf(i) : \A p \in AllocationsOf(i) : alloc[o].from <= alloc[p].from
Rank(status) == CASE status = "ACTIVE" -> 1 [] status = "CONFIRMED" -> 2 [] status = "HELD" -> 3
\* orderBy status, reservedFrom; take 1
FirstAllocation(i) ==
  CHOOSE o \in AllocationsOf(i) : \A p \in AllocationsOf(i) :
    \/ Rank(alloc[o].status) < Rank(alloc[p].status)
    \/ alloc[o].status = alloc[p].status /\ alloc[o].from <= alloc[p].from
\* deriveOccupancy
Occupancy(i) == IF AllocationsOf(i) = {} THEN "FREE"
                ELSE IF alloc[FirstAllocation(i)].status = "ACTIVE" THEN "RENTED" ELSE "RESERVED"

\* mutant of Paths: an item in repair may be marked as rented by hand
PathsToRented == [s \in Statuses |-> IF s = "REPAIRING" THEN {"RENTED"} ELSE Statuses]
Paths == [AVAILABLE |-> {"CLEANING", "REPAIRING", "DAMAGED", "LOST", "RETIRED"},
          CLEANING |-> {"AVAILABLE", "REPAIRING", "DAMAGED", "RETIRED"},
          REPAIRING |-> {"AVAILABLE", "CLEANING", "DAMAGED", "RETIRED"},
          DAMAGED |-> {"REPAIRING", "RETIRED"}, LOST |-> {"AVAILABLE"}, RETIRED |-> {"AVAILABLE"}]
\* mutant of Menu: a reservation closes it entirely
MenuWhenFree(status, occupancy) == IF occupancy = "FREE" THEN Paths[status] ELSE {}
\* getAllowedOperationalTransitions
Menu(status, occupancy) ==
  CASE occupancy = "RENTED" -> {}
    [] occupancy = "RESERVED" -> IF status \in {"CLEANING", "REPAIRING"} THEN {"AVAILABLE"} ELSE {}
    [] OTHER -> Paths[status]
\* validateInventoryStatusTransition
ReasonNeeded(from, to) == \/ to \in {"DAMAGED", "LOST", "REPAIRING", "RETIRED"}
                          \/ from \in {"LOST", "RETIRED"} /\ to = "AVAILABLE"
Accepted(from, to, occupancy, reason) ==
  LET completesService == to = "AVAILABLE" /\ from \in {"CLEANING", "REPAIRING"}
  IN /\ occupancy # "RENTED" /\ (occupancy = "RESERVED" => completesService)
     /\ from # to /\ to \in Paths[from]
     /\ ReasonNeeded(from, to) => reason

-----------------------------------------------------------------------------
(* Status changes.  Each is a SERIALIZABLE transaction. *)

Entry(from, to) == [from |-> from, to |-> to]
Recorded(i, to) == Append(items[i].history, Entry(items[i].status, to))
\* mutant of Write: the history of what the clerk saw
WriteAsShown(i, to, archived, shown) ==
  items' = [items EXCEPT ![i].status = to, ![i].archived = archived,
                         ![i].history = Append(@, Entry(shown, to))]
Write(i, to, archived, shown) ==
  items' = [items EXCEPT ![i].status = to, ![i].archived = archived, ![i].history = Recorded(i, to)]
HistoryRoom(i) == Len(items[i].history) < MaxHistory

\* listInventory or findInventoryItem
Look(c, i) == /\ ~items[i].archived
              /\ page' = [page EXCEPT ![c] = [item |-> i, status |-> items[i].status]]
              /\ UNCHANGED <<items, alloc, adding>>

Expected(status, expected) == expected \in {None, status}

\* updateInventoryStatus, with the status the page shows as expectedFromStatus or none
UpdateInventoryStatus(c, to, reason, withExpected) ==
  /\ page[c] # None
  /\ LET i == page[c].item
     IN /\ ~items[i].archived /\ HistoryRoom(i)
        /\ Expected(items[i].status, IF withExpected THEN page[c].status ELSE None)
        /\ Accepted(items[i].status, to, Occupancy(i), reason)
        /\ Write(i, to, FALSE, page[c].status)
        /\ page' = [page EXCEPT ![c].status = to]
  /\ UNCHANGED <<alloc, adding>>

ArchiveInventoryItem(c) ==
  /\ page[c] # None
  /\ LET i == page[c].item
     IN /\ ~items[i].archived /\ HistoryRoom(i) /\ AllocationsOf(i) = {}
        /\ Write(i, "RETIRED", TRUE, page[c].status)
  /\ page' = [page EXCEPT ![c] = None]
  /\ UNCHANGED <<alloc, adding>>

-----------------------------------------------------------------------------
(* Adding an item: a read for the number, a read for the SKU, and the insert. *)

\* mutant of NextNumber: archived items do not count
NextUnarchived == 1 + Cardinality({i \in Item : ~items[i].archived})
NextNumber == 1 + Len(items)
CountItems(c, chosen) ==
  /\ adding[c] = None
  /\ adding' = [adding EXCEPT ![c] =
       [step |-> "check", sku |-> IF chosen = None THEN NextNumber ELSE chosen, chosen |-> chosen # None]]
  /\ UNCHANGED <<items, alloc, page>>

\* existingSku: refused, and the clerk may try again
CheckSku(c) ==
  /\ adding[c] # None /\ adding[c].step = "check"
  /\ adding' = [adding EXCEPT ![c] = IF adding[c].sku \in Skus THEN None ELSE [@ EXCEPT !.step = "insert"]]
  /\ UNCHANGED <<items, alloc, page>>

\* mutant of SkuFree: without the unique index
SkuUnchecked(sku) == TRUE
SkuFree(sku) == sku \notin Skus
\* The item and its first history row, or P2002.
InsertItem(c) ==
  /\ adding[c] # None /\ adding[c].step = "insert" /\ Len(items) < MaxItems
  /\ items' = IF SkuFree(adding[c].sku)
              THEN Append(items, [sku |-> adding[c].sku, status |-> "AVAILABLE", archived |-> FALSE,
                                  history |-> <<Entry(None, "AVAILABLE")>>])
              ELSE items
  /\ adding' = [adding EXCEPT ![c] = None]
  /\ UNCHANGED <<alloc, page>>

-----------------------------------------------------------------------------
(* Orders, as far as they touch an item *)

Free(o, i) == items[i].status = "AVAILABLE" /\ ~items[i].archived
              /\ \A p \in AllocationsOf(i) \ {o} : alloc[p].status # "ACTIVE"
Book(o, i, from, status) ==
  /\ alloc[o] = None /\ Free(o, i) /\ \A p \in AllocationsOf(i) : alloc[p].from # from
  /\ alloc' = [alloc EXCEPT ![o] = [item |-> i, status |-> status, from |-> from]]
  /\ UNCHANGED <<items, page, adding>>
Advance(o, from, to) ==
  /\ alloc[o] # None /\ alloc[o].status = from /\ Free(o, alloc[o].item)
  /\ alloc' = [alloc EXCEPT ![o].status = to]
  /\ UNCHANGED <<items, page, adding>>
CancelOrder(o) == /\ alloc[o] # None /\ alloc[o].status # "ACTIVE"
                  /\ alloc' = [alloc EXCEPT ![o] = None]
                  /\ UNCHANGED <<items, page, adding>>
\* recordRentalReturnInspection
ReturnItem(o, to) ==
  /\ alloc[o] # None /\ alloc[o].status = "ACTIVE"
  /\ HistoryRoom(alloc[o].item)
  /\ Write(alloc[o].item, to, FALSE, items[alloc[o].item].status)
  /\ alloc' = [alloc EXCEPT ![o] = None] /\ UNCHANGED <<page, adding>>

Next ==
  \/ \E c \in Clerks :
       \/ \E i \in Item : Look(c, i)
       \/ \E to \in Statuses \cup {"RESERVED", "RENTED"}, reason, expected \in BOOLEAN : UpdateInventoryStatus(c, to, reason, expected)
       \/ ArchiveInventoryItem(c) \/ CheckSku(c) \/ InsertItem(c)
       \/ \E chosen \in Chosen \cup {None} : CountItems(c, chosen)
  \/ \E o \in Orders :
       \/ \E i \in Item, from \in Starts, status \in {"HELD", "CONFIRMED"} : Book(o, i, from, status)
       \/ Advance(o, "HELD", "CONFIRMED") \/ Advance(o, "CONFIRMED", "ACTIVE") \/ CancelOrder(o)
       \/ \E to \in Statuses \ {"RETIRED"} : ReturnItem(o, to)
Spec == Init /\ [][Next]_vars

-----------------------------------------------------------------------------
(* Properties *)

\* Rows are of their kinds, and no SKU is used twice.
TypeOK ==
  /\ \A i \in Item : items[i].status \in Statuses /\ items[i].sku \in Numbers /\ items[i].archived \in BOOLEAN
  /\ \A i, j \in Item : i # j => items[i].sku # items[j].sku
  /\ \A c \in Clerks : page[c] # None => page[c].item \in Item

\* The history of an item is a chain that ends in its status, whoever changed it:
\* clerks with old pages, returns and the archive.  Only its beginning is missing for
\* items created together with their variant.
HistoryIsAChain ==
  \A i \in Item :
    LET h == items[i].history
    IN /\ h # << >> => Last(h).to = items[i].status /\ Head(h).from \in {None, "AVAILABLE"}
       /\ h = << >> => items[i].status = "AVAILABLE"
       /\ \A k \in 1..Len(h) - 1 : h[k + 1].from = h[k].to

\* The menu offers exactly the changes the command accepts with a reason: the two
\* policies, written separately, agree in every state of an item and its orders.
MenuIsWhatIsAccepted ==
  \A i \in Item :
    Menu(items[i].status, Occupancy(i)) = {to \in Statuses : Accepted(items[i].status, to, Occupancy(i), TRUE)}

\* An item is shown as rented if and only if an order has it, though the page reads
\* one of its allocations only, and not the earliest.
RentedIsShown ==
  \A i \in Item : (Occupancy(i) = "RENTED") = (\E o \in AllocationsOf(i) : alloc[o].status = "ACTIVE")

\* As long as clerks choose no SKUs themselves, the next generated number is free
\* unless another addition takes it at the same moment: no archived item blocks it.
NextNumberIsFree ==
  Skus \cap Chosen = {} /\ (\A c \in Clerks : adding[c] # None => ~adding[c].chosen) =>
    NextNumber \notin Skus
=============================================================================
