---------------------------- MODULE RentalOrders ----------------------------
(***************************************************************************)
(* Rental orders over physical inventory: booking, confirmation, hand-over,*)
(* rescheduling, cancellation, return and completion of orders, the        *)
(* warehouse commands that compete with them for the same items, and the   *)
(* delivery jobs attached to orders.                                       *)
(*                                                                         *)
(* Every rental and warehouse command runs in one SERIALIZABLE transaction *)
(* that re-reads what it decides on, so each is one action here.  The      *)
(* delivery status endpoint runs at READ COMMITTED, so its read and its    *)
(* conditional write are two actions that others may come between.         *)
(*                                                                         *)
(* The money columns the same handlers write (charges, totals, payment     *)
(* ledger, settlement) are the subject of module RentalLedger.             *)
(***************************************************************************)
EXTENDS Naturals, FiniteSets

CONSTANTS Order,       \* rental_orders rows that may come to exist
          Item,        \* inventory_items rows
          Delivery,    \* delivery_jobs rows that may come to exist
          Clerk,       \* concurrent requests to the delivery status endpoint
          MaxTime,     \* bound: the last instant of the calendar
          DayLength,   \* instants in a day; windows are priced by the day
          MaxDays,     \* policy.reschedule.maxDaysFromBooking
          NoOrder, NoDelivery

ASSUME TimeAssumption == MaxTime \in Nat /\ DayLength \in Nat \ {0} /\ MaxDays \in Nat
ASSUME NoOrderAssumption == NoOrder \notin Order /\ NoDelivery \notin Delivery

VARIABLES status,      \* rental_orders.status; "NONE" before the row exists
          window,      \* rental_orders.rental_start_at / rental_end_at
          bookedAt,    \* rental_orders.created_at
          lineStatus,  \* rental_order_items.status, one value for all lines
          alloc,       \* rental_item_allocations, at most one per order and item
          stock,       \* inventory_items
          delivery,    \* delivery_jobs
          clerk,       \* what a delivery status request has read and will write
          now          \* the clock

orderVars == <<status, window, bookedAt, lineStatus>>
vars == <<status, window, bookedAt, lineStatus, alloc, stock, delivery, clerk, now>>

-----------------------------------------------------------------------------
(* Vocabulary *)

Instant == 0 .. MaxTime
Window == {w \in [from : Instant, until : Instant] : w.from < w.until}
NoWindow == [from |-> 0, until |-> 0]

\* Every day begun counts.
RentalDays(w) == (w.until - w.from + DayLength - 1) \div DayLength

OrderStatus == {"NONE", "RESERVED", "CONFIRMED", "ACTIVE", "RETURNED", "COMPLETED", "CANCELLED"}
LineStatus == {"NONE", "RESERVED", "CONFIRMED", "ACTIVE", "RETURNED", "CANCELLED"}
AllocationStatus == {"NONE", "HELD", "CONFIRMED", "ACTIVE", "RETURNED", "CANCELLED"}
Blocking == {"HELD", "CONFIRMED", "ACTIVE"}
InventoryStatus == {"AVAILABLE", "CLEANING", "REPAIRING", "DAMAGED", "LOST", "RETIRED"}
Condition == {"NORMAL", "CLEANING_REQUIRED", "REPAIR_REQUIRED", "DAMAGED", "LOST"}
DeliveryStatus ==
    {"NONE", "PENDING", "READY", "PICKED_UP", "DELIVERING", "DELIVERED", "FAILED", "CANCELLED"}

Allocation == [status : AllocationStatus, window : Window \cup {NoWindow}, released : BOOLEAN]
NoAllocation == [status |-> "NONE", window |-> NoWindow, released |-> FALSE]

StockRow == [status : InventoryStatus, archived : BOOLEAN, listed : BOOLEAN, rentals : Nat]

DeliveryRow == [order : Order \cup {NoOrder}, status : DeliveryStatus, charged : BOOLEAN]
NoJob == [order |-> NoOrder, status |-> "NONE", charged |-> FALSE]

ClerkRow == [delivery : Delivery \cup {NoDelivery}, from : DeliveryStatus, to : DeliveryStatus]
Idle == [delivery |-> NoDelivery, from |-> "NONE", to |-> "NONE"]

\* Where each inspected condition sends an item.
InspectionToInventoryStatus ==
    [NORMAL |-> "AVAILABLE", CLEANING_REQUIRED |-> "CLEANING", REPAIR_REQUIRED |-> "REPAIRING",
     DAMAGED |-> "DAMAGED", LOST |-> "LOST"]

\* The warehouse's operational state machine.
AllowedOperational ==
    [AVAILABLE |-> {"CLEANING", "REPAIRING", "DAMAGED", "LOST", "RETIRED"},
     CLEANING  |-> {"AVAILABLE", "REPAIRING", "DAMAGED", "RETIRED"},
     REPAIRING |-> {"AVAILABLE", "CLEANING", "DAMAGED", "RETIRED"},
     DAMAGED   |-> {"REPAIRING", "RETIRED"},
     LOST      |-> {"AVAILABLE"},
     RETIRED   |-> {"AVAILABLE"}]

DeliveryTransitions ==
    [NONE       |-> {},
     PENDING    |-> {"READY", "CANCELLED"},
     READY      |-> {"PICKED_UP", "CANCELLED"},
     PICKED_UP  |-> {"DELIVERING", "DELIVERED", "FAILED"},
     DELIVERING |-> {"DELIVERED", "FAILED"},
     DELIVERED  |-> {}, FAILED |-> {}, CANCELLED |-> {}]

CanTransitionDelivery(from, to) == to \in DeliveryTransitions[from]

-----------------------------------------------------------------------------
(* Reads shared by the handlers *)

Blocks(o, i) == alloc[o][i].status \in Blocking
HeldActive(o, i) == alloc[o][i].status = "ACTIVE" /\ ~alloc[o][i].released
Occupies(o, i) == Blocks(o, i) /\ ~alloc[o][i].released

\* releasedAt IS NULL
Unreleased(o) == {i \in Item : alloc[o][i].status # "NONE" /\ ~alloc[o][i].released}
WithStatus(o, S) == {i \in Item : alloc[o][i].status \in S}
DeliveriesOf(o) == {d \in Delivery : delivery[d].order = o}

OperationallyRentable(i) ==
    stock[i].status = "AVAILABLE" /\ ~stock[i].archived /\ stock[i].listed

\* A partial exclusion predicate that forgets orders awaiting confirmation.
ExclusionWithoutHeld(o, i, w) ==
    \A p \in Order \ {o} :
        alloc[p][i].status \in {"CONFIRMED", "ACTIVE"} =>
            ~(alloc[p][i].window.from < w.until /\ w.from < alloc[p][i].window.until)

\* rental_item_no_overlap: blocking allocations of one item have disjoint
\* half-open ranges.
ExclusionHolds(o, i, w) ==
    \A p \in Order \ {o} :
        Blocks(p, i) =>
            ~(alloc[p][i].window.from < w.until /\ w.from < alloc[p][i].window.until)

\* Rentability that trusts the planned windows and ignores overdue rentals.
RentableByStockOnly(o, S) == \A i \in S : OperationallyRentable(i)

\* assertInventoryRentable: in good condition, and not out with another order.
InventoryRentable(o, S) ==
    \A i \in S :
        /\ OperationallyRentable(i)
        /\ \A p \in Order \ {o} : ~HeldActive(p, i)

-----------------------------------------------------------------------------
(* Writes shared by the handlers *)

\* updateMany over the order's allocations in one of the statuses From ...
SetAllocations(o, From, to) ==
    alloc' = [alloc EXCEPT ![o] =
        [i \in Item |->
            IF alloc[o][i].status \in From
            THEN [alloc[o][i] EXCEPT !.status = to]
            ELSE alloc[o][i]]]

\* ... and the one that also sets releasedAt.
ReleaseAllocations(o, From, to) ==
    alloc' = [alloc EXCEPT ![o] =
        [i \in Item |->
            IF alloc[o][i].status \in From
            THEN [alloc[o][i] EXCEPT !.status = to, !.released = TRUE]
            ELSE alloc[o][i]]]

\* Moves only the allocations of orders that were never confirmed.
ShiftHeldAllocations(o, w) ==
    alloc' = [alloc EXCEPT ![o] =
        [i \in Item |->
            IF alloc[o][i].status = "HELD"
            THEN [alloc[o][i] EXCEPT !.window = w]
            ELSE alloc[o][i]]]

\* reservedFrom / reservedUntil of every uncollected allocation of the order.
ShiftAllocations(o, w) ==
    alloc' = [alloc EXCEPT ![o] =
        [i \in Item |->
            IF alloc[o][i].status \in {"HELD", "CONFIRMED"}
            THEN [alloc[o][i] EXCEPT !.window = w]
            ELSE alloc[o][i]]]

\* Inspection that counts a rental only when the item comes back unharmed.
InspectCountingNormal(S, condition) ==
    stock' = [i \in Item |->
        IF i \in S
        THEN [stock[i] EXCEPT
                !.status = InspectionToInventoryStatus[condition[i]],
                !.rentals = IF condition[i] = "NORMAL" THEN @ + 1 ELSE @]
        ELSE stock[i]]

\* recordRentalReturnInspection for every inspected item.
Inspect(S, condition) ==
    stock' = [i \in Item |->
        IF i \in S
        THEN [stock[i] EXCEPT
                !.status = InspectionToInventoryStatus[condition[i]],
                !.rentals = @ + 1]
        ELSE stock[i]]

-----------------------------------------------------------------------------
(* Rental commands *)

\* createOrder: any selection of items is possible, because it was made
\* outside the transaction; what counts is what the transaction re-reads.
\* A delivery may be ordered along with it.
CreateOrder(o, S, w) ==
    /\ status[o] = "NONE"
    /\ S # {}
    /\ InventoryRentable(o, S)
    /\ \A i \in S : ExclusionHolds(o, i, w)
    /\ status' = [status EXCEPT ![o] = "RESERVED"]
    /\ window' = [window EXCEPT ![o] = w]
    /\ bookedAt' = [bookedAt EXCEPT ![o] = now]
    /\ lineStatus' = [lineStatus EXCEPT ![o] = "RESERVED"]
    /\ alloc' = [alloc EXCEPT ![o] =
                    [i \in Item |->
                        IF i \in S
                        THEN [status |-> "HELD", window |-> w, released |-> FALSE]
                        ELSE alloc[o][i]]]
    /\ \/ UNCHANGED delivery
       \/ \E d \in Delivery, fee \in BOOLEAN :
            /\ delivery[d].status = "NONE"
            /\ delivery' = [delivery EXCEPT ![d] =
                                [order |-> o, status |-> "PENDING", charged |-> fee]]
    /\ UNCHANGED <<stock, clerk, now>>

\* confirmOrder: re-reads status and rentability under the order lock.
ConfirmOrder(o) ==
    /\ status[o] = "RESERVED"
    /\ InventoryRentable(o, Unreleased(o))
    /\ status' = [status EXCEPT ![o] = "CONFIRMED"]
    /\ lineStatus' = [lineStatus EXCEPT ![o] = "CONFIRMED"]
    /\ SetAllocations(o, {"HELD"}, "CONFIRMED")
    /\ UNCHANGED <<window, bookedAt, stock, delivery, clerk, now>>

\* transition to ACTIVE: the physical hand-over.
StartOrder(o) ==
    /\ status[o] = "CONFIRMED"
    /\ InventoryRentable(o, Unreleased(o))
    /\ status' = [status EXCEPT ![o] = "ACTIVE"]
    /\ lineStatus' = [lineStatus EXCEPT ![o] = "ACTIVE"]
    /\ SetAllocations(o, {"HELD", "CONFIRMED"}, "ACTIVE")
    /\ UNCHANGED <<window, bookedAt, stock, delivery, clerk, now>>

\* An older rule, still in docs/BUSINESS_TYPES.md: confirmed orders too.
CancellableUntilStarted(o) == status[o] \in {"RESERVED", "CONFIRMED"}

Cancellable(o) == status[o] = "RESERVED"

\* transition to CANCELLED: refused once a parcel has left the shop.
CancelOrder(o) ==
    /\ Cancellable(o)
    /\ \A d \in DeliveriesOf(o) :
            \/ delivery[d].status = "CANCELLED"
            \/ CanTransitionDelivery(delivery[d].status, "CANCELLED")
    /\ status' = [status EXCEPT ![o] = "CANCELLED"]
    /\ lineStatus' = [lineStatus EXCEPT ![o] = "CANCELLED"]
    /\ ReleaseAllocations(o, {"HELD", "CONFIRMED"}, "CANCELLED")
    /\ delivery' = [d \in Delivery |->
                        IF d \in DeliveriesOf(o) /\ delivery[d].status \in {"PENDING", "READY"}
                        THEN [delivery[d] EXCEPT !.status = "CANCELLED"]
                        ELSE delivery[d]]
    /\ UNCHANGED <<window, bookedAt, stock, clerk, now>>

\* reschedule: as many priced days as before, start within MaxDays of the booking.
RescheduleOrder(o, w) ==
    /\ status[o] \in {"RESERVED", "CONFIRMED"}
    /\ RentalDays(w) = RentalDays(window[o])
    /\ bookedAt[o] <= w.from
    /\ w.from <= bookedAt[o] + MaxDays * DayLength
    /\ InventoryRentable(o, WithStatus(o, {"HELD", "CONFIRMED"}))
    /\ \A i \in WithStatus(o, {"HELD", "CONFIRMED"}) : ExclusionHolds(o, i, w)
    /\ window' = [window EXCEPT ![o] = w]
    /\ ShiftAllocations(o, w)
    /\ UNCHANGED <<status, bookedAt, lineStatus, stock, delivery, clerk, now>>

\* receiveReturn: the return date is the client's, not before the start; the
\* inspection covers exactly the items that are out with the order.
ReceiveReturn(o) ==
    LET out == {i \in Item : HeldActive(o, i)} IN
    /\ status[o] = "ACTIVE"
    /\ \E returnedAt \in Instant : returnedAt >= window[o].from
    /\ \E condition \in [out -> Condition] : Inspect(out, condition)
    /\ status' = [status EXCEPT ![o] = "RETURNED"]
    /\ lineStatus' = [lineStatus EXCEPT ![o] = "RETURNED"]
    /\ ReleaseAllocations(o, {"ACTIVE"}, "RETURNED")
    /\ UNCHANGED <<window, bookedAt, delivery, clerk, now>>

\* settleOrder, as far as the order's life is concerned.
SettleOrder(o) ==
    /\ status[o] = "RETURNED"
    /\ status' = [status EXCEPT ![o] = "COMPLETED"]
    /\ UNCHANGED <<window, bookedAt, lineStatus, alloc, stock, delivery, clerk, now>>

-----------------------------------------------------------------------------
(* Warehouse commands *)

\* The policy with the reservation check dropped.
ManualChangeUnlessRented(i, to) ==
    /\ \A o \in Order : ~HeldActive(o, i)
    /\ to \in AllowedOperational[stock[i].status]

\* validateInventoryStatusTransition: never while the item is out, and with a
\* reservation pending only to finish cleaning or repair.
ManualChangeAllowed(i, to) ==
    /\ \A o \in Order : ~HeldActive(o, i)
    /\ (\E o \in Order : Occupies(o, i)) =>
            to = "AVAILABLE" /\ stock[i].status \in {"CLEANING", "REPAIRING"}
    /\ to \in AllowedOperational[stock[i].status]

UpdateInventoryStatus(i, to) ==
    /\ ~stock[i].archived
    /\ ManualChangeAllowed(i, to)
    /\ stock' = [stock EXCEPT ![i].status = to]
    /\ UNCHANGED <<orderVars, alloc, delivery, clerk, now>>

\* An archive check that only looks at reservations, not at running rentals.
NoReservation(i) == \A o \in Order : ~(Occupies(o, i) /\ alloc[o][i].status # "ACTIVE")

Unoccupied(i) == \A o \in Order : ~Occupies(o, i)

ArchiveInventoryItem(i) ==
    /\ ~stock[i].archived
    /\ Unoccupied(i)
    /\ stock' = [stock EXCEPT ![i].status = "RETIRED", ![i].archived = TRUE]
    /\ UNCHANGED <<orderVars, alloc, delivery, clerk, now>>

\* The product or variant is taken off, or put back on, rent.  Nothing stops
\* this while its items are reserved or out.
SetListed(i) ==
    /\ stock' = [stock EXCEPT ![i].listed = ~@]
    /\ UNCHANGED <<orderVars, alloc, delivery, clerk, now>>

-----------------------------------------------------------------------------
(* Delivery jobs *)

\* create: only a job with a shipping fee looks at the state of the order.
CreateDelivery(o, d, fee) ==
    /\ status[o] # "NONE"
    /\ delivery[d].status = "NONE"
    /\ fee => status[o] \notin {"COMPLETED", "CANCELLED"}
    /\ delivery' = [delivery EXCEPT ![d] =
                        [order |-> o, status |-> "PENDING", charged |-> fee]]
    /\ UNCHANGED <<orderVars, alloc, stock, clerk, now>>

\* updateStatus reads the job and checks the transition ...
ReadDelivery(c, d, to) ==
    /\ clerk[c] = Idle
    /\ CanTransitionDelivery(delivery[d].status, to)
    /\ clerk' = [clerk EXCEPT ![c] =
                    [delivery |-> d, from |-> delivery[d].status, to |-> to]]
    /\ UNCHANGED <<orderVars, alloc, stock, delivery, now>>

\* An unconditional write of what was decided on the earlier read.
WriteUnconditionally(c) == clerk[c] # Idle

\* ... and writes only while the status is still the one it read.
StatusStillRead(c) ==
    clerk[c] # Idle /\ delivery[clerk[c].delivery].status = clerk[c].from

WriteDelivery(c) ==
    /\ StatusStillRead(c)
    /\ delivery' = [delivery EXCEPT ![clerk[c].delivery].status = clerk[c].to]
    /\ clerk' = [clerk EXCEPT ![c] = Idle]
    /\ UNCHANGED <<orderVars, alloc, stock, now>>

\* CONCURRENT_MODIFICATION: nothing is written.
LoseDelivery(c) ==
    /\ clerk[c] # Idle
    /\ ~StatusStillRead(c)
    /\ clerk' = [clerk EXCEPT ![c] = Idle]
    /\ UNCHANGED <<orderVars, alloc, stock, delivery, now>>

-----------------------------------------------------------------------------
(* Specification *)

Tick ==
    /\ now < MaxTime
    /\ now' = now + 1
    /\ UNCHANGED <<orderVars, alloc, stock, delivery, clerk>>

Init ==
    /\ status = [o \in Order |-> "NONE"]
    /\ window = [o \in Order |-> NoWindow]
    /\ bookedAt = [o \in Order |-> 0]
    /\ lineStatus = [o \in Order |-> "NONE"]
    /\ alloc = [o \in Order |-> [i \in Item |-> NoAllocation]]
    /\ stock = [i \in Item |->
            [status |-> "AVAILABLE", archived |-> FALSE, listed |-> TRUE, rentals |-> 0]]
    /\ delivery = [d \in Delivery |-> NoJob]
    /\ clerk = [c \in Clerk |-> Idle]
    /\ now = 0

RentalNext ==
    \E o \in Order :
        \/ \E S \in SUBSET Item, w \in Window : CreateOrder(o, S, w)
        \/ ConfirmOrder(o)
        \/ StartOrder(o)
        \/ CancelOrder(o)
        \/ \E w \in Window : RescheduleOrder(o, w)
        \/ ReceiveReturn(o)
        \/ SettleOrder(o)

WarehouseNext ==
    \E i \in Item :
        \/ \E to \in InventoryStatus : UpdateInventoryStatus(i, to)
        \/ ArchiveInventoryItem(i)
        \/ SetListed(i)

DeliveryNext ==
    \/ \E o \in Order, d \in Delivery, fee \in BOOLEAN : CreateDelivery(o, d, fee)
    \/ \E c \in Clerk, d \in Delivery, to \in DeliveryStatus : ReadDelivery(c, d, to)
    \/ \E c \in Clerk : WriteDelivery(c) \/ LoseDelivery(c)

Next == RentalNext \/ WarehouseNext \/ DeliveryNext \/ Tick

Spec == Init /\ [][Next]_vars

-----------------------------------------------------------------------------
(* Properties *)

\* Every column holds a value of its type.
TypeOK ==
    /\ status \in [Order -> OrderStatus]
    /\ window \in [Order -> Window \cup {NoWindow}]
    /\ bookedAt \in [Order -> Instant]
    /\ lineStatus \in [Order -> LineStatus]
    /\ alloc \in [Order -> [Item -> Allocation]]
    /\ stock \in [Item -> StockRow]
    /\ delivery \in [Delivery -> DeliveryRow]
    /\ clerk \in [Clerk -> ClerkRow]
    /\ now \in Instant

Covers(w, t) == w.from <= t /\ t < w.until
Open(o) == status[o] \in {"RESERVED", "CONFIRMED", "ACTIVE"}

(***************************************************************************)
(* No item is promised to two open orders for the same instant, whatever   *)
(* booking and rescheduling did in between (the exclusion constraint and   *)
(* the windows the handlers write, seen from the orders' own dates).       *)
(***************************************************************************)
NoDoubleBooking ==
    \A o, p \in Order, i \in Item, t \in Instant :
        /\ o # p
        /\ Open(o) /\ alloc[o][i].status # "NONE" /\ Covers(window[o], t)
        /\ Open(p) /\ alloc[p][i].status # "NONE"
        => ~Covers(window[p], t)

(***************************************************************************)
(* An item is out with at most one order, even when the planned windows    *)
(* would allow more: an overdue rental keeps its items until the return.   *)
(***************************************************************************)
OneHolder ==
    \A o, p \in Order, i \in Item : HeldActive(o, i) /\ HeldActive(p, i) => o = p

(***************************************************************************)
(* An item that is out with a customer is not moved by the warehouse: its  *)
(* operational status stays AVAILABLE and it is not archived.              *)
(***************************************************************************)
RentedItemUntouched ==
    \A o \in Order, i \in Item :
        HeldActive(o, i) => stock[i].status = "AVAILABLE" /\ ~stock[i].archived

(***************************************************************************)
(* An item that some order still counts on is never retired or archived:   *)
(* booking, warehouse commands and returns all have to see to it.          *)
(***************************************************************************)
ReservedItemNotRetired ==
    \A o \in Order, i \in Item :
        Occupies(o, i) => stock[i].status # "RETIRED" /\ ~stock[i].archived

\* Nothing happens to an item behind the back of an order that counts on it.
ItemsAreKept == OneHolder /\ RentedItemUntouched /\ ReservedItemNotRetired

\* What the allocation of an order in a given status looks like.
AllocationStatusFor ==
    [NONE |-> "NONE", RESERVED |-> "HELD", CONFIRMED |-> "CONFIRMED", ACTIVE |-> "ACTIVE",
     RETURNED |-> "RETURNED", COMPLETED |-> "RETURNED", CANCELLED |-> "CANCELLED"]

LineStatusFor ==
    [NONE |-> "NONE", RESERVED |-> "RESERVED", CONFIRMED |-> "CONFIRMED", ACTIVE |-> "ACTIVE",
     RETURNED |-> "RETURNED", COMPLETED |-> "RETURNED", CANCELLED |-> "CANCELLED"]

(***************************************************************************)
(* Three tables tell the same story: an order's lines and every one of its *)
(* allocations carry the status and the dates of the order, and exactly    *)
(* the closed ones are released.                                           *)
(***************************************************************************)
TablesAgree ==
    \A o \in Order :
        /\ lineStatus[o] = LineStatusFor[status[o]]
        /\ \A i \in Item :
            alloc[o][i].status # "NONE" =>
                /\ alloc[o][i].status = AllocationStatusFor[status[o]]
                /\ alloc[o][i].window = window[o]
                /\ alloc[o][i].released <=> ~Open(o)

\* inventory_items.total_rental_count is the number of rentals that came back.
RentalsCounted ==
    \A i \in Item :
        stock[i].rentals = Cardinality({o \in Order : alloc[o][i].status = "RETURNED"})

\* What the tables hold is of its type, and what they count and copy is the history of
\* the orders.
AllTablesAgree == TypeOK /\ TablesAgree /\ RentalsCounted

(***************************************************************************)
(* A delivery whose fee is on the bill is not under way for a cancelled    *)
(* order: not when the status endpoint races the cancellation, and not by  *)
(* creating it afterwards.  (Free deliveries are not protected.)           *)
(***************************************************************************)
CancelledOrderShipsNothingCharged ==
    \A d \in Delivery :
        /\ delivery[d].charged
        /\ status[delivery[d].order] = "CANCELLED"
        => delivery[d].status = "CANCELLED"

(***************************************************************************)
(* The only thing that makes an item some order counts on unavailable is   *)
(* its own return from another order with a bad inspection.                *)
(***************************************************************************)
OnlyReturnTakesReservedItemOut ==
    [][\A i \in Item :
            /\ \E o \in Order : Occupies(o, i)
            /\ stock[i].status = "AVAILABLE" /\ stock'[i].status # "AVAILABLE"
            => \E o \in Order : HeldActive(o, i) /\ status'[o] = "RETURNED"]_vars

(***************************************************************************)
(* A confirmed order whose item came back DAMAGED or LOST is stuck: it can *)
(* neither start nor be cancelled, and as long as it counts on the item    *)
(* the warehouse may not move the item either.                             *)
(***************************************************************************)
StrandedOrderIsStuck ==
    [][\A o \in Order, i \in Item :
            /\ status[o] = "CONFIRMED" /\ Occupies(o, i)
            /\ stock[i].status \in {"DAMAGED", "LOST"}
            => status'[o] = "CONFIRMED" /\ stock'[i].status = stock[i].status]_vars

(***************************************************************************)
(* docs/ARCHITECTURE.md says of the end of a rental: "Completing an active *)
(* rental releases its allocations and sends the item to CLEANING".  The   *)
(* code follows the inspection instead.                                    *)
(***************************************************************************)
ReleasedItemGoesToCleaning ==
    [][\A o \in Order, i \in Item :
            HeldActive(o, i) /\ status'[o] # "ACTIVE" => stock'[i].status = "CLEANING"]_vars

(***************************************************************************)
(* docs/BUSINESS_TYPES.md says of the transition list: "cancellation still *)
(* accepts RESERVED and CONFIRMED".  An order without deliveries can no    *)
(* longer be cancelled once it is confirmed.                               *)
(***************************************************************************)
CancellationAcceptsConfirmed ==
    \A o \in Order :
        status[o] = "CONFIRMED" /\ DeliveriesOf(o) = {} => ENABLED CancelOrder(o)

-----------------------------------------------------------------------------
(* What the tables keep is the promise of RentalCalendar. *)

plan == [i \in Item |-> [o \in Order |->
            IF Blocks(o, i) THEN alloc[o][i].window ELSE NoWindow]]

Holders(i) == {o \in Order : HeldActive(o, i)}
holder == [i \in Item |->
            IF Holders(i) = {} THEN NoOrder ELSE CHOOSE o \in Order : HeldActive(o, i)]

Calendar == INSTANCE RentalCalendar WITH Nobody <- NoOrder

(***************************************************************************)
(* Booking, moving, hand-over and return treat the items of an order as    *)
(* one: every step of the tables is a step of the calendar, or none.  The  *)
(* plans of one item stay disjoint, and an item is only out with an order  *)
(* that has a plan for it.                                                 *)
(***************************************************************************)
ImplementsCalendar == Calendar!Spec /\ []Calendar!CalendarConsistent
=============================================================================
