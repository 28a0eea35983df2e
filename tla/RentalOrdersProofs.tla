------------------------ MODULE RentalOrdersProofs ------------------------
(***************************************************************************)
(* Theorems about RentalOrders for any number of orders, items, deliveries *)
(* and concurrent delivery requests; and about ProductMedia, the pictures  *)
(* of the products, for any requests, products, folders and files.         *)
(***************************************************************************)
EXTENDS RentalOrders, ProductMedia, FiniteSetTheorems, TLAPS

-----------------------------------------------------------------------------
(* What the shared writes do *)

\* An order's allocations change only where the update's status filter says.
LEMMA SetAllocationsEffect ==
    ASSUME TypeOK, NEW o \in Order, NEW From, NEW to \in AllocationStatus,
           SetAllocations(o, From, to)
    PROVE  /\ alloc' \in [Order -> [Item -> Allocation]]
           /\ \A p \in Order \ {o} : alloc'[p] = alloc[p]
           /\ \A i \in Item :
                IF alloc[o][i].status \in From
                THEN /\ alloc'[o][i].status = to
                     /\ alloc'[o][i].window = alloc[o][i].window
                     /\ alloc'[o][i].released = alloc[o][i].released
                ELSE alloc'[o][i] = alloc[o][i]
<1> DEFINE new == [i \in Item |->
                    IF alloc[o][i].status \in From
                    THEN [alloc[o][i] EXCEPT !.status = to]
                    ELSE alloc[o][i]]
<1>1. alloc \in [Order -> [Item -> Allocation]]
  BY DEF TypeOK
<1>2. alloc' = [alloc EXCEPT ![o] = new]
  BY DEF SetAllocations
<1>3. new \in [Item -> Allocation]
  <2>1. ASSUME NEW i \in Item PROVE new[i] \in Allocation
    <3>1. alloc[o][i] \in Allocation
      BY <1>1
    <3> QED BY <3>1 DEF Allocation
  <2> QED BY <2>1
<1>4. alloc'[o] = new /\ \A p \in Order \ {o} : alloc'[p] = alloc[p]
  BY <1>1, <1>2
<1>5. alloc' \in [Order -> [Item -> Allocation]]
  <2> HIDE DEF new
  <2> QED BY <1>1, <1>2, <1>3
<1>6. \A i \in Item : alloc[o][i] \in Allocation
  BY <1>1
<1> QED BY <1>4, <1>5, <1>6 DEF Allocation

\* The same for the update that also releases them.
LEMMA ReleaseAllocationsEffect ==
    ASSUME TypeOK, NEW o \in Order, NEW From, NEW to \in AllocationStatus,
           ReleaseAllocations(o, From, to)
    PROVE  /\ alloc' \in [Order -> [Item -> Allocation]]
           /\ \A p \in Order \ {o} : alloc'[p] = alloc[p]
           /\ \A i \in Item :
                IF alloc[o][i].status \in From
                THEN /\ alloc'[o][i].status = to
                     /\ alloc'[o][i].window = alloc[o][i].window
                     /\ alloc'[o][i].released
                ELSE alloc'[o][i] = alloc[o][i]
<1> DEFINE new == [i \in Item |->
                    IF alloc[o][i].status \in From
                    THEN [alloc[o][i] EXCEPT !.status = to, !.released = TRUE]
                    ELSE alloc[o][i]]
<1>1. alloc \in [Order -> [Item -> Allocation]]
  BY DEF TypeOK
<1>2. alloc' = [alloc EXCEPT ![o] = new]
  BY DEF ReleaseAllocations
<1>3. new \in [Item -> Allocation]
  <2>1. ASSUME NEW i \in Item PROVE new[i] \in Allocation
    <3>1. alloc[o][i] \in Allocation
      BY <1>1
    <3> QED BY <3>1 DEF Allocation
  <2> QED BY <2>1
<1>4. alloc'[o] = new /\ \A p \in Order \ {o} : alloc'[p] = alloc[p]
  BY <1>1, <1>2
<1>5. alloc' \in [Order -> [Item -> Allocation]]
  <2> HIDE DEF new
  <2> QED BY <1>1, <1>2, <1>3
<1>6. \A i \in Item : alloc[o][i] \in Allocation
  BY <1>1
<1> QED BY <1>4, <1>5, <1>6 DEF Allocation

\* Rescheduling moves the uncollected allocations and nothing else.
LEMMA ShiftAllocationsEffect ==
    ASSUME TypeOK, NEW o \in Order, NEW w \in Window, ShiftAllocations(o, w)
    PROVE  /\ alloc' \in [Order -> [Item -> Allocation]]
           /\ \A p \in Order \ {o} : alloc'[p] = alloc[p]
           /\ \A i \in Item :
                /\ alloc'[o][i].status = alloc[o][i].status
                /\ alloc'[o][i].released = alloc[o][i].released
                /\ alloc'[o][i].window =
                    IF alloc[o][i].status \in {"HELD", "CONFIRMED"} THEN w ELSE alloc[o][i].window
<1> DEFINE new == [i \in Item |->
                    IF alloc[o][i].status \in {"HELD", "CONFIRMED"}
                    THEN [alloc[o][i] EXCEPT !.window = w]
                    ELSE alloc[o][i]]
<1>1. alloc \in [Order -> [Item -> Allocation]]
  BY DEF TypeOK
<1>2. alloc' = [alloc EXCEPT ![o] = new]
  BY DEF ShiftAllocations
<1>3. new \in [Item -> Allocation]
  <2>1. ASSUME NEW i \in Item PROVE new[i] \in Allocation
    <3>1. alloc[o][i] \in Allocation
      BY <1>1
    <3> QED BY <3>1 DEF Allocation
  <2> QED BY <2>1
<1>4. alloc'[o] = new /\ \A p \in Order \ {o} : alloc'[p] = alloc[p]
  BY <1>1, <1>2
<1>5. alloc' \in [Order -> [Item -> Allocation]]
  <2> HIDE DEF new
  <2> QED BY <1>1, <1>2, <1>3
<1>6. \A i \in Item : alloc[o][i] \in Allocation
  BY <1>1
<1> QED BY <1>4, <1>5, <1>6 DEF Allocation

\* Every inspected condition leads to a status, never to RETIRED.
LEMMA InspectEffect ==
    ASSUME TypeOK, NEW S \in SUBSET Item, NEW condition \in [S -> Condition],
           Inspect(S, condition)
    PROVE  /\ stock' \in [Item -> StockRow]
           /\ \A i \in Item : /\ i \notin S => stock'[i] = stock[i]
                              /\ stock'[i].archived = stock[i].archived
                              /\ i \in S => stock'[i].status # "RETIRED"
<1>1. stock \in [Item -> StockRow]
  BY DEF TypeOK
<1>2. \A i \in S : /\ InspectionToInventoryStatus[condition[i]] \in InventoryStatus
                   /\ InspectionToInventoryStatus[condition[i]] # "RETIRED"
  BY DEF InspectionToInventoryStatus, Condition, InventoryStatus
<1>3. ASSUME NEW i \in Item
      PROVE  /\ stock'[i] \in StockRow
             /\ i \notin S => stock'[i] = stock[i]
             /\ stock'[i].archived = stock[i].archived
             /\ i \in S => stock'[i].status # "RETIRED"
  <2>1. stock[i] \in StockRow
    BY <1>1
  <2>2. CASE i \in S
    <3> DEFINE s == InspectionToInventoryStatus[condition[i]]
    <3>1. stock'[i] = [stock[i] EXCEPT !.status = s, !.rentals = @ + 1]
      BY <2>2 DEF Inspect
    <3>2. s \in InventoryStatus /\ s # "RETIRED"
      BY <1>2, <2>2
    <3> HIDE DEF s
    <3>3. stock'[i] = [status |-> s, archived |-> stock[i].archived,
                       listed |-> stock[i].listed, rentals |-> stock[i].rentals + 1]
      BY <2>1, <3>1 DEF StockRow
    <3>4. stock'[i] \in StockRow
      BY <2>1, <3>2, <3>3 DEF StockRow
    <3> QED BY <2>2, <3>2, <3>3, <3>4
  <2>3. CASE i \notin S
    BY <2>1, <2>3 DEF Inspect
  <2> QED BY <2>2, <2>3
<1>4. stock' = [i \in Item |-> stock'[i]]
  BY DEF Inspect
<1> QED BY <1>3, <1>4

-----------------------------------------------------------------------------
(* Type correctness *)

LEMMA TypeInit == Init => TypeOK
<1> SUFFICES ASSUME Init PROVE TypeOK
  OBVIOUS
<1>1. NoWindow \in Window \cup {NoWindow} /\ NoAllocation \in Allocation
  BY DEF NoAllocation, Allocation, AllocationStatus
<1>2. NoJob \in DeliveryRow /\ Idle \in ClerkRow
  BY DEF NoJob, DeliveryRow, DeliveryStatus, Idle, ClerkRow
<1>3. 0 \in Instant
  BY TimeAssumption DEF Instant
<1>4. stock \in [Item -> StockRow]
  BY DEF Init, StockRow, InventoryStatus
<1> QED BY <1>1, <1>2, <1>3, <1>4 DEF Init, TypeOK, OrderStatus, LineStatus

LEMMA TypeStep == TypeOK /\ [Next]_vars => TypeOK'
<1> SUFFICES ASSUME TypeOK, [Next]_vars PROVE TypeOK'
  OBVIOUS
<1> USE DEF TypeOK
<1>1. ASSUME NEW o \in Order, NEW S \in SUBSET Item, NEW w \in Window, CreateOrder(o, S, w)
      PROVE  TypeOK'
  <2>1. alloc' \in [Order -> [Item -> Allocation]]
    <3> DEFINE new == [i \in Item |->
                        IF i \in S
                        THEN [status |-> "HELD", window |-> w, released |-> FALSE]
                        ELSE alloc[o][i]]
    <3>1. new \in [Item -> Allocation]
      BY DEF Allocation, AllocationStatus
    <3>2. alloc' = [alloc EXCEPT ![o] = new]
      BY <1>1 DEF CreateOrder
    <3> HIDE DEF new
    <3> QED BY <3>1, <3>2
  <2>2. delivery' \in [Delivery -> DeliveryRow]
    BY <1>1 DEF CreateOrder, DeliveryRow, DeliveryStatus
  <2>3. /\ status' \in [Order -> OrderStatus]
        /\ lineStatus' \in [Order -> LineStatus]
    BY <1>1 DEF CreateOrder, OrderStatus, LineStatus
  <2> QED BY <1>1, <2>1, <2>2, <2>3 DEF CreateOrder
<1>2. ASSUME NEW o \in Order, ConfirmOrder(o)
      PROVE  TypeOK'
  <2>1. alloc' \in [Order -> [Item -> Allocation]]
    BY <1>2, SetAllocationsEffect DEF ConfirmOrder, AllocationStatus
  <2> QED BY <1>2, <2>1 DEF ConfirmOrder, OrderStatus, LineStatus
<1>3. ASSUME NEW o \in Order, StartOrder(o)
      PROVE  TypeOK'
  <2>1. alloc' \in [Order -> [Item -> Allocation]]
    BY <1>3, SetAllocationsEffect DEF StartOrder, AllocationStatus
  <2> QED BY <1>3, <2>1 DEF StartOrder, OrderStatus, LineStatus
<1>4. ASSUME NEW o \in Order, CancelOrder(o)
      PROVE  TypeOK'
  <2>1. alloc' \in [Order -> [Item -> Allocation]]
    BY <1>4, ReleaseAllocationsEffect DEF CancelOrder, AllocationStatus
  <2>2. delivery' \in [Delivery -> DeliveryRow]
    <3>1. \A d \in Delivery : [delivery[d] EXCEPT !.status = "CANCELLED"] \in DeliveryRow
      BY DEF DeliveryRow, DeliveryStatus
    <3>2. \A d \in Delivery : delivery[d] \in DeliveryRow
      OBVIOUS
    <3> QED BY <1>4, <3>1, <3>2 DEF CancelOrder
  <2> QED BY <1>4, <2>1, <2>2 DEF CancelOrder, OrderStatus, LineStatus
<1>5. ASSUME NEW o \in Order, NEW w \in Window, RescheduleOrder(o, w)
      PROVE  TypeOK'
  <2>1. alloc' \in [Order -> [Item -> Allocation]]
    BY <1>5, ShiftAllocationsEffect DEF RescheduleOrder
  <2> QED BY <1>5, <2>1 DEF RescheduleOrder
<1>6. ASSUME NEW o \in Order, ReceiveReturn(o)
      PROVE  TypeOK'
  <2>1. alloc' \in [Order -> [Item -> Allocation]]
    BY <1>6, ReleaseAllocationsEffect DEF ReceiveReturn, AllocationStatus
  <2>2. stock' \in [Item -> StockRow]
    BY <1>6, InspectEffect DEF ReceiveReturn
  <2> QED BY <1>6, <2>1, <2>2 DEF ReceiveReturn, OrderStatus, LineStatus
<1>7. ASSUME NEW o \in Order, SettleOrder(o)
      PROVE  TypeOK'
  BY <1>7 DEF SettleOrder, OrderStatus
<1>8. ASSUME NEW i \in Item, NEW to \in InventoryStatus, UpdateInventoryStatus(i, to)
      PROVE  TypeOK'
  BY <1>8 DEF UpdateInventoryStatus, orderVars, StockRow
<1>9. ASSUME NEW i \in Item, ArchiveInventoryItem(i) \/ SetListed(i)
      PROVE  TypeOK'
  <2>1. stock[i] \in StockRow
    OBVIOUS
  <2>2. stock' \in [Item -> StockRow]
    <3>1. CASE ArchiveInventoryItem(i)
      <4> DEFINE row == [stock[i] EXCEPT !.status = "RETIRED", !.archived = TRUE]
      <4>1. row \in StockRow
        BY <2>1 DEF StockRow, InventoryStatus
      <4>2. stock' = [stock EXCEPT ![i] = row]
        BY <3>1 DEF ArchiveInventoryItem
      <4> HIDE DEF row
      <4> QED BY <4>1, <4>2
    <3>2. CASE SetListed(i)
      <4>1. [stock[i] EXCEPT !.listed = ~@] \in StockRow
        BY <2>1 DEF StockRow
      <4> QED BY <3>2, <4>1 DEF SetListed
    <3> QED BY <1>9, <3>1, <3>2
  <2> QED BY <1>9, <2>2 DEF ArchiveInventoryItem, SetListed, orderVars
<1>10. ASSUME NEW o \in Order, NEW d \in Delivery, NEW fee \in BOOLEAN,
              CreateDelivery(o, d, fee)
       PROVE  TypeOK'
  BY <1>10 DEF CreateDelivery, orderVars, DeliveryRow, DeliveryStatus
<1>11. ASSUME NEW c \in Clerk, NEW d \in Delivery, NEW to \in DeliveryStatus,
              ReadDelivery(c, d, to)
       PROVE  TypeOK'
  BY <1>11 DEF ReadDelivery, orderVars, ClerkRow, DeliveryRow
<1>12. ASSUME NEW c \in Clerk, WriteDelivery(c)
       PROVE  TypeOK'
  <2>1. Idle \in ClerkRow
    BY DEF Idle, ClerkRow, DeliveryStatus
  <2>2. clerk[c].to \in DeliveryStatus
    BY DEF ClerkRow
  <2>3. delivery' \in [Delivery -> DeliveryRow]
    BY <1>12, <2>2 DEF WriteDelivery, DeliveryRow
  <2> QED BY <1>12, <2>1, <2>3 DEF WriteDelivery, orderVars
<1>13. ASSUME NEW c \in Clerk, LoseDelivery(c)
       PROVE  TypeOK'
  <2>1. Idle \in ClerkRow
    BY DEF Idle, ClerkRow, DeliveryStatus
  <2> QED BY <1>13, <2>1 DEF LoseDelivery, orderVars
<1>14. ASSUME Tick
       PROVE  TypeOK'
  BY <1>14, TimeAssumption DEF Tick, orderVars, Instant
<1>15. CASE UNCHANGED vars
  BY <1>15 DEF vars
<1> QED BY <1>1, <1>2, <1>3, <1>4, <1>5, <1>6, <1>7, <1>8, <1>9, <1>10, <1>11, <1>12, <1>13,
           <1>14, <1>15 DEF Next, RentalNext, WarehouseNext, DeliveryNext

(***************************************************************************)
(* Whatever the interleaving of commands, every column of the tables keeps *)
(* a value of its type; in particular the condition found by an inspection *)
(* is always translated to a warehouse status before it is stored.         *)
(***************************************************************************)
THEOREM TypeCorrect == Spec => []TypeOK
  BY TypeInit, TypeStep, PTL DEF Spec

-----------------------------------------------------------------------------
(* The inductive invariant *)

\* The exclusion constraint as a fact about the stored rows.
Exclusive ==
    \A o, p \in Order, i \in Item :
        o # p /\ Blocks(o, i) /\ Blocks(p, i) =>
            ~(/\ alloc[o][i].window.from < alloc[p][i].window.until
              /\ alloc[p][i].window.from < alloc[o][i].window.until)

\* The guards only look at one table each, so no property survives a step on
\* its own: starting an order checks the item's stock row and the other
\* orders' allocations, and that the order's own allocations are unreleased
\* and blocking comes from TablesAgree.
SafetyInv ==
    /\ TablesAgree
    /\ Exclusive
    /\ OneHolder
    /\ RentedItemUntouched
    /\ ReservedItemNotRetired

IInv == TypeOK /\ SafetyInv

LEMMA SafetyInit == Init => SafetyInv
BY DEF Init, SafetyInv, TablesAgree, Exclusive, OneHolder, RentedItemUntouched,
       ReservedItemNotRetired, NoAllocation, Blocks, Blocking, HeldActive, Occupies,
       LineStatusFor

\* To keep the constraint it is enough that the one order a command writes
\* fits between the others.
LEMMA ExclusiveStep ==
    ASSUME Exclusive, NEW o \in Order,
           \A p \in Order \ {o} : alloc'[p] = alloc[p],
           \A p \in Order \ {o}, i \in Item :
                Blocks(o, i)' /\ Blocks(p, i) =>
                    ~(/\ alloc[p][i].window.from < alloc'[o][i].window.until
                      /\ alloc'[o][i].window.from < alloc[p][i].window.until)
    PROVE  Exclusive'
<1> SUFFICES ASSUME NEW p \in Order, NEW q \in Order, NEW i \in Item, p # q,
                    Blocks(p, i)', Blocks(q, i)'
             PROVE  ~(/\ alloc'[p][i].window.from < alloc'[q][i].window.until
                      /\ alloc'[q][i].window.from < alloc'[p][i].window.until)
  BY DEF Exclusive
<1>1. CASE p = o
  BY <1>1 DEF Blocks
<1>2. CASE q = o
  BY <1>2 DEF Blocks
<1>3. CASE p # o /\ q # o
  BY <1>3 DEF Blocks, Exclusive
<1> QED BY <1>1, <1>2, <1>3

LEMMA CreateOrderSafe ==
    ASSUME TypeOK, TypeOK', SafetyInv,
           NEW o \in Order, NEW S \in SUBSET Item, NEW w \in Window, CreateOrder(o, S, w)
    PROVE  SafetyInv'
<1> DEFINE new == [i \in Item |->
                    IF i \in S
                    THEN [status |-> "HELD", window |-> w, released |-> FALSE]
                    ELSE alloc[o][i]]
<1>1. alloc' = [alloc EXCEPT ![o] = new]
  BY DEF CreateOrder
<1>2. /\ \A p \in Order \ {o} : alloc'[p] = alloc[p]
      /\ \A i \in S : /\ alloc'[o][i].status = "HELD"
                      /\ alloc'[o][i].window = w
                      /\ ~alloc'[o][i].released
      /\ \A i \in Item \ S : alloc'[o][i] = alloc[o][i]
  BY <1>1 DEF TypeOK
<1>3. /\ status[o] = "NONE" /\ status'[o] = "RESERVED"
      /\ window'[o] = w /\ lineStatus'[o] = "RESERVED"
      /\ \A p \in Order \ {o} : /\ status'[p] = status[p] /\ window'[p] = window[p]
                                 /\ lineStatus'[p] = lineStatus[p]
      /\ stock' = stock
  BY DEF CreateOrder, TypeOK
<1>4. \A i \in Item : alloc[o][i].status = "NONE"
  BY <1>3 DEF SafetyInv, TablesAgree, AllocationStatusFor
<1>5. \A p \in Order \ {o}, i \in Item : /\ Blocks(p, i)' = Blocks(p, i)
                                         /\ HeldActive(p, i)' = HeldActive(p, i)
                                         /\ Occupies(p, i)' = Occupies(p, i)
  BY <1>2 DEF Blocks, HeldActive, Occupies
<1>6. \A i \in Item : ~HeldActive(o, i)' /\ (Blocks(o, i)' => i \in S)
  BY <1>2, <1>4 DEF Blocks, HeldActive, Blocking
<1>7. TablesAgree'
  BY <1>2, <1>3, <1>4 DEF SafetyInv, TablesAgree, AllocationStatusFor, LineStatusFor, Open
<1>8. Exclusive'
  <2>1. ASSUME NEW p \in Order \ {o}, NEW i \in Item, Blocks(o, i)', Blocks(p, i)
        PROVE  ~(/\ alloc[p][i].window.from < alloc'[o][i].window.until
                 /\ alloc'[o][i].window.from < alloc[p][i].window.until)
    <3>1. i \in S /\ alloc'[o][i].window = w
      BY <1>2, <1>6, <2>1
    <3>2. ExclusionHolds(o, i, w)
      BY <3>1 DEF CreateOrder
    <3> QED BY <2>1, <3>1, <3>2 DEF ExclusionHolds
  <2> QED BY <1>2, <2>1, ExclusiveStep DEF SafetyInv
<1>9. OneHolder'
  BY <1>5, <1>6 DEF SafetyInv, OneHolder
<1>10. RentedItemUntouched'
  BY <1>3, <1>5, <1>6 DEF SafetyInv, RentedItemUntouched
<1>11. ReservedItemNotRetired'
  BY <1>3, <1>5, <1>6 DEF SafetyInv, ReservedItemNotRetired, CreateOrder, InventoryRentable,
                          OperationallyRentable, Occupies
<1> QED BY <1>7, <1>8, <1>9, <1>10, <1>11 DEF SafetyInv

LEMMA ConfirmOrderSafe ==
    ASSUME TypeOK, TypeOK', SafetyInv, NEW o \in Order, ConfirmOrder(o)
    PROVE  SafetyInv'
<1>1. /\ \A p \in Order \ {o} : alloc'[p] = alloc[p]
      /\ \A i \in Item : IF alloc[o][i].status = "HELD"
                          THEN /\ alloc'[o][i].status = "CONFIRMED"
                               /\ alloc'[o][i].window = alloc[o][i].window
                               /\ alloc'[o][i].released = alloc[o][i].released
                          ELSE alloc'[o][i] = alloc[o][i]
  BY SetAllocationsEffect DEF ConfirmOrder, AllocationStatus
<1>2. /\ status[o] = "RESERVED" /\ status'[o] = "CONFIRMED"
      /\ window' = window /\ lineStatus'[o] = "CONFIRMED"
      /\ \A p \in Order \ {o} : status'[p] = status[p] /\ lineStatus'[p] = lineStatus[p]
      /\ stock' = stock
  BY DEF ConfirmOrder, TypeOK
<1>3. \A i \in Item : alloc[o][i].status \in {"NONE", "HELD"}
  BY <1>2 DEF SafetyInv, TablesAgree, AllocationStatusFor
<1>4. \A p \in Order, i \in Item : /\ Blocks(p, i)' = Blocks(p, i)
                                   /\ HeldActive(p, i)' = HeldActive(p, i)
                                   /\ Occupies(p, i)' = Occupies(p, i)
                                   /\ alloc'[p][i].window = alloc[p][i].window
  BY <1>1, <1>3 DEF Blocks, Blocking, HeldActive, Occupies
<1>5. TablesAgree'
  BY <1>1, <1>2, <1>3 DEF SafetyInv, TablesAgree, AllocationStatusFor, LineStatusFor, Open
<1>6. Exclusive'
  BY <1>4 DEF SafetyInv, Exclusive
<1>7. OneHolder' /\ RentedItemUntouched' /\ ReservedItemNotRetired'
  BY <1>2, <1>4 DEF SafetyInv, OneHolder, RentedItemUntouched, ReservedItemNotRetired
<1> QED BY <1>5, <1>6, <1>7 DEF SafetyInv

\* The check of the other orders' running rentals is what keeps an item with
\* one holder: the planned windows alone would let two orders have it.
LEMMA StartOrderSafe ==
    ASSUME TypeOK, TypeOK', SafetyInv, NEW o \in Order, StartOrder(o)
    PROVE  SafetyInv'
<1>1. /\ \A p \in Order \ {o} : alloc'[p] = alloc[p]
      /\ \A i \in Item : IF alloc[o][i].status \in {"HELD", "CONFIRMED"}
                          THEN /\ alloc'[o][i].status = "ACTIVE"
                               /\ alloc'[o][i].window = alloc[o][i].window
                               /\ alloc'[o][i].released = alloc[o][i].released
                          ELSE alloc'[o][i] = alloc[o][i]
  BY SetAllocationsEffect DEF StartOrder, AllocationStatus
<1>2. /\ status[o] = "CONFIRMED" /\ status'[o] = "ACTIVE"
      /\ window' = window /\ lineStatus'[o] = "ACTIVE"
      /\ \A p \in Order \ {o} : status'[p] = status[p] /\ lineStatus'[p] = lineStatus[p]
      /\ stock' = stock
  BY DEF StartOrder, TypeOK
<1>3. \A i \in Item : \/ alloc[o][i].status = "NONE"
                      \/ alloc[o][i].status = "CONFIRMED" /\ ~alloc[o][i].released
  BY <1>2 DEF SafetyInv, TablesAgree, AllocationStatusFor, Open
<1>4. \A p \in Order, i \in Item : /\ Blocks(p, i)' = Blocks(p, i)
                                   /\ Occupies(p, i)' = Occupies(p, i)
                                   /\ alloc'[p][i].window = alloc[p][i].window
                                   /\ p # o => HeldActive(p, i)' = HeldActive(p, i)
  BY <1>1, <1>3 DEF Blocks, Blocking, HeldActive, Occupies
<1>5. ASSUME NEW i \in Item, HeldActive(o, i)'
      PROVE  OperationallyRentable(i) /\ \A p \in Order \ {o} : ~HeldActive(p, i)
  <2>1. i \in Unreleased(o)
    BY <1>1, <1>3, <1>5 DEF HeldActive, Unreleased
  <2> QED BY <2>1 DEF StartOrder, InventoryRentable
<1>6. TablesAgree'
  BY <1>1, <1>2, <1>3 DEF SafetyInv, TablesAgree, AllocationStatusFor, LineStatusFor, Open
<1>7. Exclusive'
  BY <1>4 DEF SafetyInv, Exclusive
<1>8. OneHolder'
  BY <1>4, <1>5 DEF SafetyInv, OneHolder
<1>9. RentedItemUntouched'
  BY <1>2, <1>4, <1>5 DEF SafetyInv, RentedItemUntouched, OperationallyRentable
<1>10. ReservedItemNotRetired'
  BY <1>2, <1>4 DEF SafetyInv, ReservedItemNotRetired
<1> QED BY <1>6, <1>7, <1>8, <1>9, <1>10 DEF SafetyInv

LEMMA CancelOrderSafe ==
    ASSUME TypeOK, TypeOK', SafetyInv, NEW o \in Order, CancelOrder(o)
    PROVE  SafetyInv'
<1>1. /\ \A p \in Order \ {o} : alloc'[p] = alloc[p]
      /\ \A i \in Item : IF alloc[o][i].status \in {"HELD", "CONFIRMED"}
                          THEN /\ alloc'[o][i].status = "CANCELLED"
                               /\ alloc'[o][i].window = alloc[o][i].window
                               /\ alloc'[o][i].released
                          ELSE alloc'[o][i] = alloc[o][i]
  BY ReleaseAllocationsEffect DEF CancelOrder, AllocationStatus
<1>2. /\ status[o] = "RESERVED" /\ status'[o] = "CANCELLED"
      /\ window' = window /\ lineStatus'[o] = "CANCELLED"
      /\ \A p \in Order \ {o} : status'[p] = status[p] /\ lineStatus'[p] = lineStatus[p]
      /\ stock' = stock
  BY DEF CancelOrder, Cancellable, TypeOK
<1>3. \A i \in Item : alloc[o][i].status \in {"NONE", "HELD"}
  BY <1>2 DEF SafetyInv, TablesAgree, AllocationStatusFor
<1>4. /\ \A i \in Item : ~Blocks(o, i)' /\ ~HeldActive(o, i)' /\ ~Occupies(o, i)'
      /\ \A p \in Order \ {o}, i \in Item : /\ HeldActive(p, i)' = HeldActive(p, i)
                                            /\ Occupies(p, i)' = Occupies(p, i)
  BY <1>1, <1>3 DEF Blocks, Blocking, HeldActive, Occupies
<1>5. TablesAgree'
  BY <1>1, <1>2, <1>3 DEF SafetyInv, TablesAgree, AllocationStatusFor, LineStatusFor, Open
<1>6. Exclusive'
  BY <1>1, <1>4, ExclusiveStep DEF SafetyInv
<1>7. OneHolder' /\ RentedItemUntouched' /\ ReservedItemNotRetired'
  BY <1>2, <1>4 DEF SafetyInv, OneHolder, RentedItemUntouched, ReservedItemNotRetired
<1> QED BY <1>5, <1>6, <1>7 DEF SafetyInv

LEMMA RescheduleOrderSafe ==
    ASSUME TypeOK, TypeOK', SafetyInv,
           NEW o \in Order, NEW w \in Window, RescheduleOrder(o, w)
    PROVE  SafetyInv'
<1>1. /\ \A p \in Order \ {o} : alloc'[p] = alloc[p]
      /\ \A i \in Item :
            /\ alloc'[o][i].status = alloc[o][i].status
            /\ alloc'[o][i].released = alloc[o][i].released
            /\ alloc'[o][i].window =
                IF alloc[o][i].status \in {"HELD", "CONFIRMED"} THEN w ELSE alloc[o][i].window
  BY ShiftAllocationsEffect DEF RescheduleOrder
<1>2. /\ status[o] \in {"RESERVED", "CONFIRMED"}
      /\ status' = status /\ lineStatus' = lineStatus /\ stock' = stock
      /\ window'[o] = w /\ \A p \in Order \ {o} : window'[p] = window[p]
  BY DEF RescheduleOrder, TypeOK
<1>3. \A i \in Item : alloc[o][i].status \in {"NONE", "HELD", "CONFIRMED"}
  BY <1>2 DEF SafetyInv, TablesAgree, AllocationStatusFor
<1>4. \A p \in Order, i \in Item : /\ HeldActive(p, i)' = HeldActive(p, i)
                                   /\ Occupies(p, i)' = Occupies(p, i)
  BY <1>1 DEF Blocks, HeldActive, Occupies
<1>5. TablesAgree'
  BY <1>1, <1>2, <1>3 DEF SafetyInv, TablesAgree, Open
<1>6. Exclusive'
  <2>1. ASSUME NEW p \in Order \ {o}, NEW i \in Item, Blocks(o, i)', Blocks(p, i)
        PROVE  ~(/\ alloc[p][i].window.from < alloc'[o][i].window.until
                 /\ alloc'[o][i].window.from < alloc[p][i].window.until)
    <3>1. i \in WithStatus(o, {"HELD", "CONFIRMED"}) /\ alloc'[o][i].window = w
      BY <1>1, <1>3, <2>1 DEF Blocks, Blocking, WithStatus
    <3>2. ExclusionHolds(o, i, w)
      BY <3>1 DEF RescheduleOrder
    <3> QED BY <2>1, <3>1, <3>2 DEF ExclusionHolds
  <2> QED BY <1>1, <2>1, ExclusiveStep DEF SafetyInv
<1>7. OneHolder' /\ RentedItemUntouched' /\ ReservedItemNotRetired'
  BY <1>2, <1>4 DEF SafetyInv, OneHolder, RentedItemUntouched, ReservedItemNotRetired
<1> QED BY <1>5, <1>6, <1>7 DEF SafetyInv

\* The inspected items are the order's own, and OneHolder says nobody else's.
LEMMA ReceiveReturnSafe ==
    ASSUME TypeOK, TypeOK', SafetyInv, NEW o \in Order, ReceiveReturn(o)
    PROVE  SafetyInv'
<1> DEFINE out == {i \in Item : HeldActive(o, i)}
<1>1. /\ \A p \in Order \ {o} : alloc'[p] = alloc[p]
      /\ \A i \in Item : IF alloc[o][i].status = "ACTIVE"
                          THEN /\ alloc'[o][i].status = "RETURNED"
                               /\ alloc'[o][i].window = alloc[o][i].window
                               /\ alloc'[o][i].released
                          ELSE alloc'[o][i] = alloc[o][i]
  BY ReleaseAllocationsEffect DEF ReceiveReturn, AllocationStatus
<1>2. /\ status[o] = "ACTIVE" /\ status'[o] = "RETURNED"
      /\ window' = window /\ lineStatus'[o] = "RETURNED"
      /\ \A p \in Order \ {o} : status'[p] = status[p] /\ lineStatus'[p] = lineStatus[p]
  BY DEF ReceiveReturn, TypeOK
<1>3. \A i \in Item : alloc[o][i].status \in {"NONE", "ACTIVE"}
  BY <1>2 DEF SafetyInv, TablesAgree, AllocationStatusFor
<1>4. /\ \A i \in Item : ~Blocks(o, i)' /\ ~HeldActive(o, i)' /\ ~Occupies(o, i)'
      /\ \A p \in Order \ {o}, i \in Item : /\ HeldActive(p, i)' = HeldActive(p, i)
                                            /\ Occupies(p, i)' = Occupies(p, i)
  BY <1>1, <1>3 DEF Blocks, Blocking, HeldActive, Occupies
<1>5. \A i \in Item : /\ ~HeldActive(o, i) => stock'[i] = stock[i]
                      /\ stock'[i].archived = stock[i].archived
                      /\ stock'[i].status = "RETIRED" => stock[i].status = "RETIRED"
  <2>1. PICK condition \in [out -> Condition] : Inspect(out, condition)
    BY DEF ReceiveReturn
  <2> QED BY <2>1, InspectEffect
<1>6. TablesAgree'
  BY <1>1, <1>2, <1>3 DEF SafetyInv, TablesAgree, AllocationStatusFor, LineStatusFor, Open
<1>7. Exclusive'
  BY <1>1, <1>4, ExclusiveStep DEF SafetyInv
<1>8. OneHolder'
  BY <1>4 DEF SafetyInv, OneHolder
<1>9. RentedItemUntouched'
  BY <1>4, <1>5 DEF SafetyInv, RentedItemUntouched, OneHolder
<1>10. ReservedItemNotRetired'
  BY <1>4, <1>5 DEF SafetyInv, ReservedItemNotRetired
<1> QED BY <1>6, <1>7, <1>8, <1>9, <1>10 DEF SafetyInv

\* An item some order counts on can only be declared ready by the warehouse.
LEMMA WarehouseKeepsReserved ==
    ASSUME TypeOK, WarehouseNext, NEW o \in Order, NEW i \in Item, Occupies(o, i)
    PROVE  /\ stock'[i].archived = stock[i].archived
           /\ \/ stock'[i].status = stock[i].status
              \/ stock[i].status \in {"CLEANING", "REPAIRING"} /\ stock'[i].status = "AVAILABLE"
<1>1. PICK j \in Item : \/ \E to \in InventoryStatus : UpdateInventoryStatus(j, to)
                        \/ ArchiveInventoryItem(j)
                        \/ SetListed(j)
  BY DEF WarehouseNext
<1>2. stock \in [Item -> StockRow] /\ stock[i] \in StockRow /\ stock[j] \in StockRow
  BY DEF TypeOK
<1>3. CASE \E to \in InventoryStatus : UpdateInventoryStatus(j, to)
  <2>1. PICK to \in InventoryStatus : UpdateInventoryStatus(j, to)
    BY <1>3
  <2>2. stock' = [stock EXCEPT ![j] = [stock[j] EXCEPT !.status = to]]
    BY <2>1 DEF UpdateInventoryStatus
  <2>3. i = j => to = "AVAILABLE" /\ stock[i].status \in {"CLEANING", "REPAIRING"}
    BY <2>1 DEF UpdateInventoryStatus, ManualChangeAllowed
  <2> QED BY <1>2, <2>2, <2>3 DEF StockRow
<1>4. CASE ArchiveInventoryItem(j)
  <2>1. i # j
    BY <1>4 DEF ArchiveInventoryItem, Unoccupied
  <2> QED BY <1>2, <1>4, <2>1 DEF ArchiveInventoryItem
<1>5. CASE SetListed(j)
  <2>1. stock' = [stock EXCEPT ![j] = [stock[j] EXCEPT !.listed = ~stock[j].listed]]
    BY <1>5 DEF SetListed
  <2> QED BY <1>2, <2>1 DEF StockRow
<1> QED BY <1>1, <1>3, <1>4, <1>5

LEMMA WarehouseSafe ==
    ASSUME TypeOK, TypeOK', SafetyInv, WarehouseNext
    PROVE  SafetyInv'
<1>1. UNCHANGED <<orderVars, alloc>>
  BY DEF WarehouseNext, UpdateInventoryStatus, ArchiveInventoryItem, SetListed
<1>2. \A p \in Order, i \in Item : /\ Blocks(p, i)' = Blocks(p, i)
                                   /\ HeldActive(p, i)' = HeldActive(p, i)
                                   /\ Occupies(p, i)' = Occupies(p, i)
                                   /\ HeldActive(p, i) => Occupies(p, i)
  BY <1>1 DEF Blocks, Blocking, HeldActive, Occupies
<1>3. TablesAgree' /\ Exclusive' /\ OneHolder'
  BY <1>1, <1>2 DEF SafetyInv, TablesAgree, Exclusive, OneHolder, orderVars, Open
<1>4. \A o \in Order, i \in Item : Occupies(o, i) =>
            /\ stock'[i].archived = stock[i].archived
            /\ stock'[i].status \in {stock[i].status, "AVAILABLE"}
  BY WarehouseKeepsReserved
<1>5. RentedItemUntouched'
  BY <1>2, <1>4 DEF SafetyInv, RentedItemUntouched
<1>6. ReservedItemNotRetired'
  BY <1>2, <1>4 DEF SafetyInv, ReservedItemNotRetired
<1> QED BY <1>3, <1>5, <1>6 DEF SafetyInv

\* Settlement, deliveries and the clock leave allocations and stock alone.
LEMMA ElsewhereSafe ==
    ASSUME TypeOK, SafetyInv, UNCHANGED <<window, lineStatus, alloc, stock>>,
           \/ status' = status
           \/ \E o \in Order : SettleOrder(o)
    PROVE  SafetyInv'
<1>1. \A p \in Order, i \in Item : /\ Blocks(p, i)' = Blocks(p, i)
                                   /\ HeldActive(p, i)' = HeldActive(p, i)
                                   /\ Occupies(p, i)' = Occupies(p, i)
  BY DEF Blocks, HeldActive, Occupies
<1>2. TablesAgree'
  <2>1. CASE status' = status
    BY <2>1 DEF SafetyInv, TablesAgree, Open
  <2>2. CASE \E o \in Order : SettleOrder(o)
    BY <2>2 DEF SettleOrder, TypeOK, SafetyInv, TablesAgree, AllocationStatusFor,
                LineStatusFor, Open
  <2> QED BY <2>1, <2>2
<1>3. Exclusive' /\ OneHolder' /\ RentedItemUntouched' /\ ReservedItemNotRetired'
  BY <1>1 DEF SafetyInv, Exclusive, OneHolder, RentedItemUntouched, ReservedItemNotRetired
<1> QED BY <1>2, <1>3 DEF SafetyInv

LEMMA SafetyStep == TypeOK /\ TypeOK' /\ SafetyInv /\ [Next]_vars => SafetyInv'
<1> SUFFICES ASSUME TypeOK, TypeOK', SafetyInv, [Next]_vars PROVE SafetyInv'
  OBVIOUS
<1>1. CASE RentalNext
  <2>1. PICK o \in Order :
            \/ \E S \in SUBSET Item, w \in Window : CreateOrder(o, S, w)
            \/ ConfirmOrder(o)
            \/ StartOrder(o)
            \/ CancelOrder(o)
            \/ \E w \in Window : RescheduleOrder(o, w)
            \/ ReceiveReturn(o)
            \/ SettleOrder(o)
    BY <1>1 DEF RentalNext
  <2>2. SettleOrder(o) => UNCHANGED <<window, lineStatus, alloc, stock>>
    BY DEF SettleOrder
  <2> QED BY <2>1, <2>2, CreateOrderSafe, ConfirmOrderSafe, StartOrderSafe, CancelOrderSafe,
             RescheduleOrderSafe, ReceiveReturnSafe, ElsewhereSafe
<1>2. CASE WarehouseNext
  BY <1>2, WarehouseSafe
<1>3. CASE DeliveryNext \/ Tick \/ UNCHANGED vars
  <2>1. UNCHANGED <<status, window, lineStatus, alloc, stock>>
    BY <1>3 DEF DeliveryNext, CreateDelivery, ReadDelivery, WriteDelivery, LoseDelivery, Tick,
                orderVars, vars
  <2> QED BY <2>1, ElsewhereSafe
<1> QED BY <1>1, <1>2, <1>3 DEF Next

(***************************************************************************)
(* The inductive invariant holds for all values of the constants: whatever *)
(* commands the counter, the web shop and the warehouse interleave, orders,*)
(* lines, allocations and stock rows stay consistent with one another.     *)
(***************************************************************************)
THEOREM SafetyInvariant == Spec => []IInv
<1>1. Init => IInv
  BY TypeInit, SafetyInit DEF IInv
<1>2. IInv /\ [Next]_vars => IInv'
  BY TypeStep, SafetyStep DEF IInv
<1> QED BY <1>1, <1>2, PTL DEF Spec

(***************************************************************************)
(* For any number of orders and items, no command sequence lets two open   *)
(* orders have one item on the same day.                                   *)
(***************************************************************************)
THEOREM NeverDoubleBooked == Spec => []NoDoubleBooking
<1>1. IInv => NoDoubleBooking
  <2> SUFFICES ASSUME IInv, NEW o \in Order, NEW p \in Order, NEW i \in Item,
                      NEW t \in Instant, o # p,
                      Open(o), alloc[o][i].status # "NONE", Covers(window[o], t),
                      Open(p), alloc[p][i].status # "NONE", Covers(window[p], t)
               PROVE  FALSE
    BY DEF NoDoubleBooking
  <2>1. Blocks(o, i) /\ Blocks(p, i)
    BY DEF IInv, SafetyInv, TablesAgree, AllocationStatusFor, Open, Blocks, Blocking
  <2>2. alloc[o][i].window = window[o] /\ alloc[p][i].window = window[p]
    BY DEF IInv, SafetyInv, TablesAgree
  <2>3. ~(window[o].from < window[p].until /\ window[p].from < window[o].until)
    BY <2>1, <2>2 DEF IInv, SafetyInv, Exclusive
  <2>4. \A q \in Order : window[q].from \in Nat /\ window[q].until \in Nat
    BY TimeAssumption DEF IInv, TypeOK, Window, NoWindow, Instant
  <2> QED BY <2>3, <2>4, TimeAssumption DEF Covers, Instant
<1> QED BY <1>1, SafetyInvariant, PTL

(***************************************************************************)
(* No item is ever out with two orders, overdue rentals included.          *)
(***************************************************************************)
THEOREM NeverTwoHolders == Spec => []OneHolder
  BY SafetyInvariant, PTL DEF IInv, SafetyInv

(***************************************************************************)
(* The warehouse never moves or archives an item that is with a customer.  *)
(***************************************************************************)
THEOREM RentedItemsStay == Spec => []RentedItemUntouched
  BY SafetyInvariant, PTL DEF IInv, SafetyInv

(***************************************************************************)
(* An item some order counts on is never retired or archived.              *)
(***************************************************************************)
THEOREM ReservedItemsKept == Spec => []ReservedItemNotRetired
  BY SafetyInvariant, PTL DEF IInv, SafetyInv

(***************************************************************************)
(* Orders, lines and allocations always agree on status, dates and release.*)
(***************************************************************************)
THEOREM TablesAlwaysAgree == Spec => []TablesAgree
  BY SafetyInvariant, PTL DEF IInv, SafetyInv

\* Nothing happens to an item behind the back of an order that counts on it: it is
\* with one order at a time, is not moved while it is out, and not retired before.
THEOREM ItemsKept == Spec => []ItemsAreKept
<1>1. OneHolder /\ RentedItemUntouched /\ ReservedItemNotRetired => ItemsAreKept
  BY DEF ItemsAreKept
<1> QED BY <1>1, NeverTwoHolders, RentedItemsStay, ReservedItemsKept, PTL

\* Only a return or a warehouse command writes a stock row, and a return only
\* those of the items that are out with the order.
LEMMA StockWrites ==
    ASSUME TypeOK, [Next]_vars, NEW i \in Item, stock'[i] # stock[i]
    PROVE  \/ WarehouseNext
           \/ \E o \in Order : ReceiveReturn(o) /\ HeldActive(o, i)
<1>1. \/ WarehouseNext
      \/ \E o \in Order : ReceiveReturn(o)
  BY DEF Next, RentalNext, CreateOrder, ConfirmOrder, StartOrder, CancelOrder, RescheduleOrder,
         SettleOrder, DeliveryNext, CreateDelivery, ReadDelivery, WriteDelivery, LoseDelivery,
         Tick, vars
<1>2. ASSUME NEW o \in Order, ReceiveReturn(o)
      PROVE  HeldActive(o, i)
  <2> DEFINE out == {j \in Item : HeldActive(o, j)}
  <2>1. PICK condition \in [out -> Condition] : Inspect(out, condition)
    BY <1>2 DEF ReceiveReturn
  <2> QED BY <2>1, InspectEffect
<1> QED BY <1>1, <1>2

(***************************************************************************)
(* A step that makes a reserved item unavailable is its return from the    *)
(* order it was out with.                                                  *)
(***************************************************************************)
THEOREM ReservedItemsTakenByReturnsOnly == Spec => OnlyReturnTakesReservedItemOut
<1> DEFINE Step == \A i \in Item :
                        /\ \E o \in Order : Occupies(o, i)
                        /\ stock[i].status = "AVAILABLE" /\ stock'[i].status # "AVAILABLE"
                        => \E o \in Order : HeldActive(o, i) /\ status'[o] = "RETURNED"
<1>1. IInv /\ [Next]_vars => [Step]_vars
  <2> SUFFICES ASSUME IInv, [Next]_vars, NEW i \in Item, NEW p \in Order, Occupies(p, i),
                      stock[i].status = "AVAILABLE", stock'[i].status # "AVAILABLE"
               PROVE  \E o \in Order : HeldActive(o, i) /\ status'[o] = "RETURNED"
    OBVIOUS
  <2>1. ~WarehouseNext
    BY WarehouseKeepsReserved DEF IInv
  <2>2. PICK o \in Order : ReceiveReturn(o) /\ HeldActive(o, i)
    BY <2>1, StockWrites DEF IInv
  <2>3. status'[o] = "RETURNED"
    BY <2>2 DEF ReceiveReturn, IInv, TypeOK
  <2> QED BY <2>2, <2>3
<1> QED BY <1>1, SafetyInvariant, PTL DEF Spec, OnlyReturnTakesReservedItemOut

(***************************************************************************)
(* A confirmed order with a DAMAGED or LOST item has no way forward or     *)
(* back: no single step starts it, cancels it or changes the item.         *)
(***************************************************************************)
THEOREM StrandedOrdersStay == Spec => StrandedOrderIsStuck
<1> DEFINE Step == \A o \in Order, i \in Item :
                        /\ status[o] = "CONFIRMED" /\ Occupies(o, i)
                        /\ stock[i].status \in {"DAMAGED", "LOST"}
                        => status'[o] = "CONFIRMED" /\ stock'[i].status = stock[i].status
<1>1. IInv /\ [Next]_vars => [Step]_vars
  <2> SUFFICES ASSUME IInv, [Next]_vars, NEW o \in Order, NEW i \in Item,
                      status[o] = "CONFIRMED", Occupies(o, i),
                      stock[i].status \in {"DAMAGED", "LOST"}
               PROVE  status'[o] = "CONFIRMED" /\ stock'[i].status = stock[i].status
    OBVIOUS
  <2>1. \A p \in Order : ~HeldActive(p, i)
    BY DEF IInv, SafetyInv, RentedItemUntouched
  <2>2. stock'[i].status = stock[i].status
    BY <2>1, StockWrites, WarehouseKeepsReserved DEF IInv
  <2>3. ~StartOrder(o)
    <3>1. i \in Unreleased(o)
      BY DEF Occupies, Blocks, Blocking, Unreleased
    <3> QED BY <3>1 DEF StartOrder, InventoryRentable, OperationallyRentable
  <2>4. status'[o] = "CONFIRMED"
    <3>1. \/ status' = status
          \/ \E p \in Order \ {o}, s \in OrderStatus : status' = [status EXCEPT ![p] = s]
      BY <2>3 DEF Next, RentalNext, CreateOrder, ConfirmOrder, StartOrder, CancelOrder, Cancellable,
                  RescheduleOrder, ReceiveReturn, SettleOrder, WarehouseNext,
                  UpdateInventoryStatus, ArchiveInventoryItem, SetListed, DeliveryNext,
                  CreateDelivery, ReadDelivery, WriteDelivery, LoseDelivery, Tick, orderVars, vars,
                  OrderStatus
    <3> QED BY <3>1 DEF IInv, TypeOK
  <2> QED BY <2>2, <2>4
<1> QED BY <1>1, SafetyInvariant, PTL DEF Spec, StrandedOrderIsStuck

-----------------------------------------------------------------------------
(* Deliveries *)

\* A request in flight carries a transition that was legal for the status it
\* read; that, and not the status now, is what its late write relies on.
ClerksDecideLegally ==
    \A c \in Clerk : clerk[c] # Idle =>
        clerk[c].delivery \in Delivery /\ CanTransitionDelivery(clerk[c].from, clerk[c].to)

ChargedJobsHaveOrders ==
    \A d \in Delivery : delivery[d].charged => delivery[d].order \in Order

DeliveryInv == ClerksDecideLegally /\ ChargedJobsHaveOrders /\ CancelledOrderShipsNothingCharged

LEMMA DeliveryInit == Init => DeliveryInv
BY DEF Init, DeliveryInv, ClerksDecideLegally, ChargedJobsHaveOrders,
       CancelledOrderShipsNothingCharged, NoJob

LEMMA CancelOrderStopsDeliveries ==
    ASSUME TypeOK, DeliveryInv, NEW o \in Order, CancelOrder(o)
    PROVE  DeliveryInv'
<1>1. clerk' = clerk /\ \A p \in Order \ {o} : status'[p] = status[p]
  BY DEF CancelOrder, TypeOK
<1>2. ASSUME NEW d \in Delivery
      PROVE  /\ delivery'[d].charged = delivery[d].charged
             /\ delivery'[d].order = delivery[d].order
             /\ delivery[d].status = "CANCELLED" => delivery'[d].status = "CANCELLED"
             /\ delivery[d].order = o => delivery'[d].status = "CANCELLED"
  <2>1. delivery[d] \in DeliveryRow
    BY DEF TypeOK
  <2>2. delivery'[d] = IF d \in DeliveriesOf(o) /\ delivery[d].status \in {"PENDING", "READY"}
                       THEN [delivery[d] EXCEPT !.status = "CANCELLED"]
                       ELSE delivery[d]
    BY DEF CancelOrder
  <2>3. delivery[d].order = o =>
            delivery[d].status = "CANCELLED" \/ delivery[d].status \in {"PENDING", "READY"}
    BY <2>1 DEF CancelOrder, DeliveriesOf, CanTransitionDelivery, DeliveryTransitions,
                DeliveryRow, DeliveryStatus
  <2> QED BY <2>1, <2>2, <2>3 DEF DeliveriesOf, DeliveryRow
<1> QED BY <1>1, <1>2 DEF DeliveryInv, ClerksDecideLegally, ChargedJobsHaveOrders,
           CancelledOrderShipsNothingCharged

LEMMA WriteDeliveryKeepsCancelled ==
    ASSUME TypeOK, DeliveryInv, NEW c \in Clerk, WriteDelivery(c)
    PROVE  DeliveryInv'
<1> DEFINE job == clerk[c].delivery
<1>1. /\ job \in Delivery
      /\ delivery[job].status = clerk[c].from
      /\ CanTransitionDelivery(clerk[c].from, clerk[c].to)
  BY DEF WriteDelivery, StatusStillRead, DeliveryInv, ClerksDecideLegally
<1>2. delivery[job].status # "CANCELLED"
  BY <1>1 DEF CanTransitionDelivery, DeliveryTransitions
<1>3. \A d \in Delivery : /\ delivery'[d].charged = delivery[d].charged
                          /\ delivery'[d].order = delivery[d].order
                          /\ d # job => delivery'[d] = delivery[d]
  <2>1. delivery' = [delivery EXCEPT ![job] = [delivery[job] EXCEPT !.status = clerk[c].to]]
    BY DEF WriteDelivery
  <2>2. \A d \in Delivery : delivery[d] \in DeliveryRow
    BY DEF TypeOK
  <2> HIDE DEF job
  <2> QED BY <1>1, <2>1, <2>2 DEF TypeOK, DeliveryRow
<1>4. status' = status /\ clerk' = [clerk EXCEPT ![c] = Idle]
  BY DEF WriteDelivery, orderVars
<1>5. ClerksDecideLegally'
  BY <1>4 DEF DeliveryInv, ClerksDecideLegally, TypeOK
<1>6. ChargedJobsHaveOrders' /\ CancelledOrderShipsNothingCharged'
  <2> HIDE DEF job
  <2> QED BY <1>1, <1>2, <1>3, <1>4 DEF DeliveryInv, ChargedJobsHaveOrders,
             CancelledOrderShipsNothingCharged
<1> QED BY <1>5, <1>6 DEF DeliveryInv

LEMMA DeliveryStep == TypeOK /\ DeliveryInv /\ [Next]_vars => DeliveryInv'
<1> SUFFICES ASSUME TypeOK, DeliveryInv, [Next]_vars PROVE DeliveryInv'
  OBVIOUS
<1> USE DEF DeliveryInv, ClerksDecideLegally, ChargedJobsHaveOrders,
            CancelledOrderShipsNothingCharged
<1>1. ASSUME NEW o \in Order, NEW S \in SUBSET Item, NEW w \in Window, CreateOrder(o, S, w)
      PROVE  DeliveryInv'
  <2>1. clerk' = clerk /\ status'[o] = "RESERVED" /\ \A p \in Order \ {o} : status'[p] = status[p]
    BY <1>1 DEF CreateOrder, TypeOK
  <2>2. \A d \in Delivery : delivery'[d] = delivery[d] \/ delivery'[d].order = o
    BY <1>1 DEF CreateOrder, TypeOK
  <2> QED BY <2>1, <2>2
<1>2. ASSUME NEW o \in Order,
             \/ ConfirmOrder(o) \/ StartOrder(o) \/ ReceiveReturn(o) \/ SettleOrder(o)
             \/ \E w \in Window : RescheduleOrder(o, w)
      PROVE  DeliveryInv'
  <2>1. UNCHANGED <<delivery, clerk>>
    BY <1>2 DEF ConfirmOrder, StartOrder, ReceiveReturn, SettleOrder, RescheduleOrder
  <2>2. \A p \in Order : status'[p] = "CANCELLED" => status[p] = "CANCELLED"
    BY <1>2 DEF ConfirmOrder, StartOrder, ReceiveReturn, SettleOrder, RescheduleOrder, TypeOK
  <2> QED BY <2>1, <2>2
<1>3. ASSUME NEW o \in Order, CancelOrder(o)
      PROVE  DeliveryInv'
  BY <1>3, CancelOrderStopsDeliveries
<1>4. ASSUME NEW o \in Order, NEW d \in Delivery, NEW fee \in BOOLEAN,
             CreateDelivery(o, d, fee)
      PROVE  DeliveryInv'
  BY <1>4 DEF CreateDelivery, orderVars, TypeOK
<1>5. ASSUME NEW c \in Clerk, NEW d \in Delivery, NEW to \in DeliveryStatus,
             ReadDelivery(c, d, to)
      PROVE  DeliveryInv'
  BY <1>5 DEF ReadDelivery, orderVars, TypeOK
<1>6. ASSUME NEW c \in Clerk, WriteDelivery(c)
      PROVE  DeliveryInv'
  BY <1>6, WriteDeliveryKeepsCancelled
<1>7. ASSUME NEW c \in Clerk, LoseDelivery(c)
      PROVE  DeliveryInv'
  BY <1>7 DEF LoseDelivery, orderVars, TypeOK
<1>8. CASE WarehouseNext \/ Tick \/ UNCHANGED vars
  <2>1. UNCHANGED <<status, delivery, clerk>>
    BY <1>8 DEF WarehouseNext, UpdateInventoryStatus, ArchiveInventoryItem, SetListed, Tick,
                orderVars, vars
  <2> QED BY <2>1
<1> QED BY <1>1, <1>2, <1>3, <1>4, <1>5, <1>6, <1>7, <1>8 DEF Next, RentalNext, DeliveryNext

(***************************************************************************)
(* No delivery with a fee is ever under way for a cancelled order, for any *)
(* number of concurrent status requests.                                   *)
(***************************************************************************)
THEOREM NothingChargedShipsCancelled == Spec => []CancelledOrderShipsNothingCharged
<1>1. Init => TypeOK /\ DeliveryInv
  BY TypeInit, DeliveryInit
<1>2. TypeOK /\ DeliveryInv /\ [Next]_vars => (TypeOK /\ DeliveryInv)'
  BY TypeStep, DeliveryStep
<1>3. DeliveryInv => CancelledOrderShipsNothingCharged
  BY DEF DeliveryInv
<1> QED BY <1>1, <1>2, <1>3, PTL DEF Spec

-----------------------------------------------------------------------------
(***************************************************************************)
(* The tables of RentalOrders implement RentalCalendar: every command is a *)
(* step of the calendar or invisible to it.  And what an item's row counts *)
(* is its history.  Both rest on the invariant above.                      *)
(***************************************************************************)

-----------------------------------------------------------------------------
(* What an order in the tables has: items, and a window for each *)

BookedWindows ==
    \A o \in Order, i \in Item : Blocks(o, i) => alloc[o][i].window \in Window

OrdersHaveItems ==
    \A o \in Order : status[o] # "NONE" => \E i \in Item : alloc[o][i].status # "NONE"

CalendarInv == IInv /\ BookedWindows /\ OrdersHaveItems

\* What the six order commands do to the allocations, in one table.
Allocates(o, S, w) ==
    /\ status[o] = "NONE" /\ status'[o] = "RESERVED"
    /\ \A i \in S : alloc'[o][i] = [status |-> "HELD", window |-> w, released |-> FALSE]
    /\ \A i \in Item \ S : alloc'[o][i] = alloc[o][i]

Restates(o, from, to) ==
    /\ status[o] = from /\ status'[o] = to
    /\ \A i \in Item :
        IF alloc[o][i].status = "NONE"
        THEN alloc'[o][i] = alloc[o][i]
        ELSE /\ alloc'[o][i].status = AllocationStatusFor[to]
             /\ alloc'[o][i].window = alloc[o][i].window

Shifts(o, w) ==
    /\ status[o] \in {"RESERVED", "CONFIRMED"} /\ status'[o] = status[o]
    /\ \A i \in Item :
        /\ alloc'[o][i].status = alloc[o][i].status
        /\ alloc[o][i].status # "NONE" => alloc'[o][i].window = w

OnlyOrder(o) == \A p \in Order \ {o} : status'[p] = status[p] /\ alloc'[p] = alloc[p]

LEMMA CreateEffect ==
    ASSUME TypeOK, NEW o \in Order, NEW S \in SUBSET Item, NEW w \in Window, CreateOrder(o, S, w)
    PROVE  Allocates(o, S, w) /\ OnlyOrder(o)
<1> DEFINE new == [i \in Item |->
                    IF i \in S
                    THEN [status |-> "HELD", window |-> w, released |-> FALSE]
                    ELSE alloc[o][i]]
<1>1. alloc' = [alloc EXCEPT ![o] = new] /\ status' = [status EXCEPT ![o] = "RESERVED"]
  BY DEF CreateOrder
<1>2. alloc'[o] = new /\ \A p \in Order \ {o} : alloc'[p] = alloc[p]
  BY <1>1 DEF TypeOK
<1> QED
  BY <1>1, <1>2 DEF Allocates, OnlyOrder, CreateOrder, TypeOK

LEMMA RestateEffect ==
    ASSUME IInv, NEW o \in Order
    PROVE  /\ ConfirmOrder(o) => Restates(o, "RESERVED", "CONFIRMED") /\ OnlyOrder(o)
           /\ StartOrder(o) => Restates(o, "CONFIRMED", "ACTIVE") /\ OnlyOrder(o)
           /\ CancelOrder(o) => Restates(o, "RESERVED", "CANCELLED") /\ OnlyOrder(o)
           /\ ReceiveReturn(o) => Restates(o, "ACTIVE", "RETURNED") /\ OnlyOrder(o)
<1> USE DEF Restates, OnlyOrder, AllocationStatusFor
<1>1. \A i \in Item : alloc[o][i].status # "NONE" => alloc[o][i].status = AllocationStatusFor[status[o]]
  BY DEF IInv, SafetyInv, TablesAgree
<1>2. TypeOK
  BY DEF IInv
<1>3. ASSUME ConfirmOrder(o)
      PROVE  Restates(o, "RESERVED", "CONFIRMED") /\ OnlyOrder(o)
  <2>1. status[o] = "RESERVED" /\ status' = [status EXCEPT ![o] = "CONFIRMED"]
    BY <1>3 DEF ConfirmOrder
  <2>2. /\ \A p \in Order \ {o} : alloc'[p] = alloc[p]
        /\ \A i \in Item : IF alloc[o][i].status \in {"HELD"}
                            THEN /\ alloc'[o][i].status = "CONFIRMED"
                                 /\ alloc'[o][i].window = alloc[o][i].window
                            ELSE alloc'[o][i] = alloc[o][i]
    BY <1>2, <1>3, SetAllocationsEffect DEF ConfirmOrder, AllocationStatus
  <2> QED
    BY <1>1, <1>2, <2>1, <2>2 DEF TypeOK
<1>4. ASSUME StartOrder(o)
      PROVE  Restates(o, "CONFIRMED", "ACTIVE") /\ OnlyOrder(o)
  <2>1. status[o] = "CONFIRMED" /\ status' = [status EXCEPT ![o] = "ACTIVE"]
    BY <1>4 DEF StartOrder
  <2>2. /\ \A p \in Order \ {o} : alloc'[p] = alloc[p]
        /\ \A i \in Item : IF alloc[o][i].status \in {"HELD", "CONFIRMED"}
                            THEN /\ alloc'[o][i].status = "ACTIVE"
                                 /\ alloc'[o][i].window = alloc[o][i].window
                            ELSE alloc'[o][i] = alloc[o][i]
    BY <1>2, <1>4, SetAllocationsEffect DEF StartOrder, AllocationStatus
  <2> QED
    BY <1>1, <1>2, <2>1, <2>2 DEF TypeOK
<1>5. ASSUME CancelOrder(o)
      PROVE  Restates(o, "RESERVED", "CANCELLED") /\ OnlyOrder(o)
  <2>1. status[o] = "RESERVED" /\ status' = [status EXCEPT ![o] = "CANCELLED"]
    BY <1>5 DEF CancelOrder, Cancellable
  <2>2. /\ \A p \in Order \ {o} : alloc'[p] = alloc[p]
        /\ \A i \in Item : IF alloc[o][i].status \in {"HELD", "CONFIRMED"}
                            THEN /\ alloc'[o][i].status = "CANCELLED"
                                 /\ alloc'[o][i].window = alloc[o][i].window
                            ELSE alloc'[o][i] = alloc[o][i]
    BY <1>2, <1>5, ReleaseAllocationsEffect DEF CancelOrder, AllocationStatus
  <2> QED
    BY <1>1, <1>2, <2>1, <2>2 DEF TypeOK
<1>6. ASSUME ReceiveReturn(o)
      PROVE  Restates(o, "ACTIVE", "RETURNED") /\ OnlyOrder(o)
  <2>1. status[o] = "ACTIVE" /\ status' = [status EXCEPT ![o] = "RETURNED"]
    BY <1>6 DEF ReceiveReturn
  <2>2. /\ \A p \in Order \ {o} : alloc'[p] = alloc[p]
        /\ \A i \in Item : IF alloc[o][i].status \in {"ACTIVE"}
                            THEN /\ alloc'[o][i].status = "RETURNED"
                                 /\ alloc'[o][i].window = alloc[o][i].window
                            ELSE alloc'[o][i] = alloc[o][i]
    BY <1>2, <1>6, ReleaseAllocationsEffect DEF ReceiveReturn, AllocationStatus
  <2> QED
    BY <1>1, <1>2, <2>1, <2>2 DEF TypeOK
<1> QED
  BY <1>3, <1>4, <1>5, <1>6

LEMMA RescheduleEffect ==
    ASSUME IInv, NEW o \in Order, NEW w \in Window, RescheduleOrder(o, w)
    PROVE  Shifts(o, w) /\ OnlyOrder(o)
<1>1. \A i \in Item : alloc[o][i].status \in {"NONE", "HELD", "CONFIRMED"}
  BY DEF IInv, SafetyInv, TablesAgree, RescheduleOrder, AllocationStatusFor
<1> QED
  BY <1>1, ShiftAllocationsEffect DEF RescheduleOrder, Shifts, OnlyOrder, IInv

\* Every step is one of these, or does not touch the allocations.
LEMMA AllocationStep ==
    ASSUME IInv, [Next]_vars
    PROVE  \/ \E o \in Order :
                /\ OnlyOrder(o)
                /\ \/ \E S \in SUBSET Item, w \in Window : CreateOrder(o, S, w) /\ Allocates(o, S, w)
                   \/ ConfirmOrder(o) /\ Restates(o, "RESERVED", "CONFIRMED")
                   \/ StartOrder(o) /\ Restates(o, "CONFIRMED", "ACTIVE")
                   \/ CancelOrder(o) /\ Restates(o, "RESERVED", "CANCELLED")
                   \/ \E w \in Window : RescheduleOrder(o, w) /\ Shifts(o, w)
                   \/ ReceiveReturn(o) /\ Restates(o, "ACTIVE", "RETURNED")
           \/ (\A o \in Order : status'[o] = "NONE" <=> status[o] = "NONE") /\ alloc' = alloc
<1>1. TypeOK
  BY DEF IInv
<1>2. CASE RentalNext
  <2>1. PICK o \in Order :
            \/ \E S \in SUBSET Item, w \in Window : CreateOrder(o, S, w)
            \/ ConfirmOrder(o)
            \/ StartOrder(o)
            \/ CancelOrder(o)
            \/ \E w \in Window : RescheduleOrder(o, w)
            \/ ReceiveReturn(o)
            \/ SettleOrder(o)
    BY <1>2 DEF RentalNext
  <2>2. SettleOrder(o) => (\A p \in Order : status'[p] = "NONE" <=> status[p] = "NONE") /\ alloc' = alloc
    BY <1>1 DEF SettleOrder, TypeOK
  <2> QED
    BY <1>1, <2>1, <2>2, CreateEffect, RestateEffect, RescheduleEffect
<1>3. CASE WarehouseNext \/ DeliveryNext \/ Tick \/ UNCHANGED vars
  BY <1>3 DEF WarehouseNext, UpdateInventoryStatus, ArchiveInventoryItem, SetListed, DeliveryNext,
              CreateDelivery, ReadDelivery, WriteDelivery, LoseDelivery, Tick, orderVars, vars
<1> QED
  BY <1>2, <1>3 DEF Next

LEMMA BookedStep ==
    ASSUME CalendarInv, [Next]_vars
    PROVE  BookedWindows' /\ OrdersHaveItems'
<1> USE DEF Blocks, Blocking
<1>0. IInv
  BY DEF CalendarInv
<1>1. ASSUME NEW o \in Order, OnlyOrder(o),
             NEW S \in SUBSET Item, NEW w \in Window, CreateOrder(o, S, w), Allocates(o, S, w)
      PROVE  BookedWindows' /\ OrdersHaveItems'
  <2>1. S # {}
    BY <1>1 DEF CreateOrder
  <2> QED
    BY <1>1, <2>1 DEF CalendarInv, BookedWindows, OrdersHaveItems, OnlyOrder, Allocates
<1>2. ASSUME NEW o \in Order, OnlyOrder(o), NEW w \in Window, Shifts(o, w)
      PROVE  BookedWindows' /\ OrdersHaveItems'
  BY <1>2 DEF CalendarInv, BookedWindows, OrdersHaveItems, OnlyOrder, Shifts
<1>3. ASSUME NEW o \in Order, OnlyOrder(o),
             NEW from \in {"RESERVED", "CONFIRMED", "ACTIVE"}, NEW to \in OrderStatus \ {"NONE"},
             Restates(o, from, to)
      PROVE  BookedWindows' /\ OrdersHaveItems'
  <2>1. \A i \in Item : alloc[o][i].status # "NONE" => Blocks(o, i) /\ alloc'[o][i].status # "NONE"
    BY <1>3, <1>0 DEF IInv, SafetyInv, TablesAgree, Restates, AllocationStatusFor, OrderStatus
  <2>2. BookedWindows'
    BY <1>3, <2>1 DEF CalendarInv, BookedWindows, OnlyOrder, Restates
  <2>3. OrdersHaveItems'
    BY <1>3, <2>1 DEF CalendarInv, OrdersHaveItems, OnlyOrder, Restates
  <2> QED
    BY <2>2, <2>3
<1>4. CASE (\A o \in Order : status'[o] = "NONE" <=> status[o] = "NONE") /\ alloc' = alloc
  BY <1>4 DEF CalendarInv, BookedWindows, OrdersHaveItems
<1> QED
  BY <1>0, <1>1, <1>2, <1>3, <1>4, AllocationStep DEF OrderStatus

LEMMA CalendarInvariance == Spec => []CalendarInv
<1>1. Init => BookedWindows /\ OrdersHaveItems
  BY DEF Init, BookedWindows, OrdersHaveItems, Blocks, Blocking, NoAllocation
<1>2. IInv /\ IInv' /\ BookedWindows /\ OrdersHaveItems /\ [Next]_vars => BookedWindows' /\ OrdersHaveItems'
  BY BookedStep DEF CalendarInv
<1> QED
  BY <1>1, <1>2, SafetyInvariant, PTL DEF Spec, CalendarInv

-----------------------------------------------------------------------------
(* The rental counter of an item *)

Returned(i) == {o \in Order : alloc[o][i].status = "RETURNED"}

Counted ==
    \A i \in Item : IsFiniteSet(Returned(i)) /\ stock[i].rentals = Cardinality(Returned(i))

\* Only the inspection of a return counts a rental.
LEMMA InspectCounts ==
    ASSUME TypeOK, NEW S \in SUBSET Item, NEW condition \in [S -> Condition], Inspect(S, condition),
           NEW i \in Item
    PROVE  stock'[i].rentals = IF i \in S THEN stock[i].rentals + 1 ELSE stock[i].rentals
<1>1. stock[i] \in StockRow
  BY DEF TypeOK
<1>2. CASE i \in S
  <2> DEFINE s == InspectionToInventoryStatus[condition[i]]
  <2>1. stock'[i] = [stock[i] EXCEPT !.status = s, !.rentals = @ + 1]
    BY <1>2 DEF Inspect
  <2> HIDE DEF s
  <2> QED
    BY <1>1, <1>2, <2>1 DEF StockRow
<1>3. CASE i \notin S
  BY <1>3 DEF Inspect
<1> QED
  BY <1>2, <1>3

LEMMA RentalsKept ==
    ASSUME TypeOK, [Next]_vars, NEW i \in Item, ~\E o \in Order : ReceiveReturn(o)
    PROVE  stock'[i].rentals = stock[i].rentals
<1>1. \A j \in Item : stock[j] \in StockRow
  BY DEF TypeOK
<1>2. ASSUME NEW j \in Item, NEW to \in InventoryStatus, UpdateInventoryStatus(j, to)
      PROVE  stock'[i].rentals = stock[i].rentals
  BY <1>1, <1>2 DEF UpdateInventoryStatus, StockRow, TypeOK
<1>3. ASSUME NEW j \in Item, ArchiveInventoryItem(j)
      PROVE  stock'[i].rentals = stock[i].rentals
  BY <1>1, <1>3 DEF ArchiveInventoryItem, StockRow, TypeOK
<1>4. ASSUME NEW j \in Item, SetListed(j)
      PROVE  stock'[i].rentals = stock[i].rentals
  <2>1. stock' = [stock EXCEPT ![j] = [stock[j] EXCEPT !.listed = ~stock[j].listed]]
    BY <1>4 DEF SetListed
  <2> QED
    BY <1>1, <2>1 DEF StockRow, TypeOK
<1>5. CASE stock' = stock
  BY <1>5
<1> QED
  BY <1>2, <1>3, <1>4, <1>5
  DEF Next, RentalNext, CreateOrder, ConfirmOrder, StartOrder, CancelOrder, RescheduleOrder, SettleOrder,
      WarehouseNext, DeliveryNext, CreateDelivery, ReadDelivery, WriteDelivery, LoseDelivery, Tick, vars

LEMMA CountedStep ==
    ASSUME CalendarInv, Counted, [Next]_vars
    PROVE  Counted'
<1> SUFFICES ASSUME NEW i \in Item
             PROVE  IsFiniteSet(Returned(i)') /\ stock'[i].rentals = Cardinality(Returned(i)')
  BY DEF Counted, Returned
<1>0. IInv /\ TypeOK
  BY DEF CalendarInv, IInv
<1>1. ASSUME NEW o \in Order, ReceiveReturn(o)
      PROVE  IsFiniteSet(Returned(i)') /\ stock'[i].rentals = Cardinality(Returned(i)')
  <2> DEFINE out == {j \in Item : HeldActive(o, j)}
  <2>1. PICK condition \in [out -> Condition] : Inspect(out, condition)
    BY <1>1 DEF ReceiveReturn
  <2>2. Restates(o, "ACTIVE", "RETURNED") /\ OnlyOrder(o)
    BY <1>0, <1>1, RestateEffect
  <2>3. o \notin Returned(i) /\ (HeldActive(o, i) <=> alloc[o][i].status # "NONE")
    BY <1>0, <2>2 DEF IInv, SafetyInv, TablesAgree, AllocationStatusFor, Restates, Open, HeldActive, Returned
  <2>4. Returned(i)' = IF HeldActive(o, i) THEN Returned(i) \cup {o} ELSE Returned(i)
    BY <2>2, <2>3 DEF Restates, OnlyOrder, Returned, AllocationStatusFor
  <2>5. stock'[i].rentals = IF HeldActive(o, i) THEN stock[i].rentals + 1 ELSE stock[i].rentals
    BY <1>0, <2>1, InspectCounts
  <2>6. IsFiniteSet(Returned(i)) /\ stock[i].rentals = Cardinality(Returned(i))
    BY DEF Counted
  <2> QED
    BY <2>3, <2>4, <2>5, <2>6, FS_AddElement
<1>2. ASSUME ~\E o \in Order : ReceiveReturn(o)
      PROVE  Returned(i)' = Returned(i)
  <2> DEFINE Same == \A o \in Order : alloc'[o][i].status = "RETURNED" <=> alloc[o][i].status = "RETURNED"
  <2>1. \A o \in Order : alloc[o][i].status # "NONE" => alloc[o][i].status = AllocationStatusFor[status[o]]
    BY <1>0 DEF IInv, SafetyInv, TablesAgree
  <2>2. ASSUME NEW o \in Order, OnlyOrder(o),
               NEW S \in SUBSET Item, NEW w \in Window, Allocates(o, S, w)
        PROVE  Same
    <3>1. alloc[o][i].status # "RETURNED" /\ alloc'[o][i].status # "RETURNED"
      BY <2>1, <2>2 DEF Allocates, AllocationStatusFor
    <3> QED
      BY <2>2, <3>1 DEF OnlyOrder
  <2>3. ASSUME NEW o \in Order, OnlyOrder(o), NEW from \in {"RESERVED", "CONFIRMED"},
               NEW to \in {"CONFIRMED", "ACTIVE", "CANCELLED"}, Restates(o, from, to)
        PROVE  Same
    <3>1. alloc[o][i].status # "RETURNED" /\ alloc'[o][i].status # "RETURNED"
      BY <2>1, <2>3 DEF Restates, AllocationStatusFor
    <3> QED
      BY <2>3, <3>1 DEF OnlyOrder
  <2>4. ASSUME NEW o \in Order, OnlyOrder(o), NEW w \in Window, Shifts(o, w)
        PROVE  Same
    BY <2>4 DEF OnlyOrder, Shifts
  <2>5. Same
    <3> HIDE DEF Same
    <3>1. alloc' = alloc => Same
      BY DEF Same
    <3> QED
      BY <1>0, <1>2, <2>2, <2>3, <2>4, <3>1, AllocationStep
  <2> QED
    BY <2>5 DEF Returned
<1> QED
  BY <1>0, <1>1, <1>2, RentalsKept DEF Counted

(***************************************************************************)
(* Orders, lines and allocations always tell the same story, and an item's *)
(* total_rental_count is the number of its rentals that came back.         *)
(***************************************************************************)
THEOREM AllTablesAlwaysAgree == Spec => []AllTablesAgree
<1>1. Init => Counted
  <2> SUFFICES ASSUME Init, NEW i \in Item
               PROVE  IsFiniteSet(Returned(i)) /\ stock[i].rentals = Cardinality(Returned(i))
    BY DEF Counted
  <2>1. Returned(i) = {} /\ stock[i].rentals = 0
    BY DEF Init, Returned, NoAllocation
  <2> QED
    BY <2>1, FS_EmptySet
<1>2. CalendarInv /\ Counted /\ [Next]_vars => Counted'
  BY CountedStep
<1>3. CalendarInv /\ Counted => AllTablesAgree
  <2>1. CalendarInv => TypeOK /\ TablesAgree
    BY DEF CalendarInv, IInv, SafetyInv
  <2>2. Counted => RentalsCounted
    BY DEF RentalsCounted, Counted, Returned
  <2> QED
    BY <2>1, <2>2 DEF AllTablesAgree
<1> QED
  BY <1>1, <1>2, <1>3, CalendarInvariance, PTL DEF Spec

-----------------------------------------------------------------------------
(* The refinement mapping *)

LEMMA PlanIs ==
    /\ \A i \in Item, o \in Order :
            plan[i][o] = IF Blocks(o, i) THEN alloc[o][i].window ELSE NoWindow
    /\ \A i \in Item, o \in Order :
            plan'[i][o] = IF Blocks(o, i)' THEN alloc'[o][i].window ELSE NoWindow
BY DEF plan

\* An order's plan covers its blocking allocations, because each has a window.
LEMMA PlannedIs ==
    ASSUME CalendarInv, NEW o \in Order
    PROVE  Calendar!Planned(o) = {i \in Item : Blocks(o, i)}
<1>1. NoWindow \notin Window
  BY DEF NoWindow, Window
<1> QED
  BY <1>1, PlanIs DEF Calendar!Planned, Calendar!Unplanned, NoWindow, CalendarInv, BookedWindows

\* With at most one holder, the mapping names it.
LEMMA HolderIs ==
    ASSUME OneHolder, NEW i \in Item
    PROVE  /\ \A o \in Order : HeldActive(o, i) <=> holder[i] = o
           /\ (\A o \in Order : ~HeldActive(o, i)) <=> holder[i] = NoOrder
<1>1. CASE Holders(i) = {}
  BY <1>1, NoOrderAssumption DEF holder, Holders
<1>2. ASSUME NEW p \in Order, HeldActive(p, i)
      PROVE  holder[i] = p
  <2>1. holder[i] = CHOOSE o \in Order : HeldActive(o, i)
    BY <1>2 DEF holder, Holders
  <2> QED
    BY <1>2, <2>1 DEF OneHolder
<1> QED
  BY <1>1, <1>2, NoOrderAssumption DEF OneHolder, Holders

LEMMA HolderIsNext ==
    ASSUME OneHolder', NEW i \in Item
    PROVE  /\ \A o \in Order : HeldActive(o, i)' <=> holder'[i] = o
           /\ (\A o \in Order : ~HeldActive(o, i)') <=> holder'[i] = NoOrder
<1>1. CASE Holders(i)' = {}
  BY <1>1, NoOrderAssumption DEF holder, Holders
<1>2. ASSUME NEW p \in Order, HeldActive(p, i)'
      PROVE  holder'[i] = p
  <2>1. holder'[i] = CHOOSE o \in Order : HeldActive(o, i)'
    BY <1>2 DEF holder, Holders
  <2> QED
    BY <1>2, <2>1 DEF OneHolder
<1> QED
  BY <1>1, <1>2, NoOrderAssumption DEF OneHolder, Holders

LEMMA ReplanBy ==
    ASSUME NEW o \in Order, NEW S \in SUBSET Item, NEW w,
           \A i \in Item : \A p \in Order \ {o} : plan'[i][p] = plan[i][p],
           \A i \in Item : plan'[i][o] = IF i \in S THEN w ELSE plan[i][o]
    PROVE  Calendar!Replan(o, S, w)
<1> DEFINE new(i) == IF i \in S THEN [plan[i] EXCEPT ![o] = w] ELSE plan[i]
<1>1. ASSUME NEW i \in Item
      PROVE  plan'[i] = new(i)
  <2>1. /\ plan[i] = [p \in Order |-> plan[i][p]]
        /\ plan'[i] = [p \in Order |-> plan'[i][p]]
    BY DEF plan
  <2> QED
    BY <2>1
<1>2. plan' = [i \in Item |-> plan'[i]]
  BY DEF plan
<1>3. plan' = [i \in Item |-> new(i)]
  <2> HIDE DEF new
  <2> QED
    BY <1>1, <1>2
<1> QED
  BY <1>3 DEF Calendar!Replan

LEMMA HolderUnchanged ==
    ASSUME OneHolder, OneHolder',
           \A o \in Order, i \in Item : HeldActive(o, i)' <=> HeldActive(o, i)
    PROVE  holder' = holder
<1>1. ASSUME NEW i \in Item
      PROVE  holder'[i] = holder[i]
  BY HolderIs, HolderIsNext
<1> QED
  BY <1>1 DEF holder

\* What is free for the guards of the commands is free in the calendar.
LEMMA FreeIs ==
    ASSUME CalendarInv, NEW o \in Order, NEW S \in SUBSET Item, NEW w \in Window,
           InventoryRentable(o, S), \A i \in S : ~HeldActive(o, i),
           \A i \in S : ExclusionHolds(o, i, w)
    PROVE  Calendar!Free(o, S, w)
<1> SUFFICES ASSUME NEW i \in S
             PROVE  /\ holder[i] = NoOrder
                    /\ \A p \in Order \ {o} : ~Calendar!Overlap(plan[i][p], w)
  BY DEF Calendar!Free
<1>1. \A p \in Order : ~HeldActive(p, i)
  BY DEF InventoryRentable
<1>2. holder[i] = NoOrder
  BY <1>1, HolderIs DEF CalendarInv, IInv, SafetyInv
<1>3. ASSUME NEW p \in Order \ {o}
      PROVE  ~Calendar!Overlap(plan[i][p], w)
  <2>1. CASE Blocks(p, i)
    BY <2>1, PlanIs DEF ExclusionHolds, Calendar!Overlap
  <2>2. CASE ~Blocks(p, i)
    <3>1. plan[i][p] = NoWindow
      BY <2>2, PlanIs
    <3>2. w.from \in Nat
      BY TimeAssumption DEF Window, Instant
    <3> QED
      BY <3>1, <3>2 DEF Calendar!Overlap, NoWindow
  <2> QED
    BY <2>1, <2>2
<1> QED
  BY <1>2, <1>3

\* An order's allocations all have the status of the order.
LEMMA AllocationStatuses ==
    ASSUME CalendarInv, NEW o \in Order, NEW i \in Item, alloc[o][i].status # "NONE"
    PROVE  /\ alloc[o][i].status = AllocationStatusFor[status[o]]
           /\ alloc[o][i].released <=> ~Open(o)
           /\ Blocks(o, i) <=> Open(o)
           /\ HeldActive(o, i) <=> status[o] = "ACTIVE"
BY DEF CalendarInv, IInv, SafetyInv, TypeOK, TablesAgree, AllocationStatusFor, Open, OrderStatus, Blocks,
       Blocking, HeldActive

LEMMA OthersSame ==
    ASSUME NEW o \in Order, OnlyOrder(o)
    PROVE  \A p \in Order \ {o}, i \in Item :
                /\ Blocks(p, i)' <=> Blocks(p, i)
                /\ HeldActive(p, i)' <=> HeldActive(p, i)
                /\ plan'[i][p] = plan[i][p]
<1>1. \A p \in Order \ {o}, i \in Item : alloc'[p][i] = alloc[p][i]
  BY DEF OnlyOrder
<1> QED
  BY <1>1, PlanIs DEF Blocks, HeldActive

LEMMA CreateBooks ==
    ASSUME CalendarInv, CalendarInv', NEW o \in Order, NEW S \in SUBSET Item, NEW w \in Window,
           CreateOrder(o, S, w)
    PROVE  Calendar!Book(o, S, w)
<1>1. Allocates(o, S, w) /\ OnlyOrder(o)
  BY CreateEffect DEF CalendarInv, IInv
<1>2. \A i \in Item : alloc[o][i].status = "NONE"
  BY <1>1 DEF CalendarInv, IInv, SafetyInv, TablesAgree, AllocationStatusFor, Allocates
<1>3. \A i \in Item : /\ ~Blocks(o, i) /\ ~HeldActive(o, i) /\ ~HeldActive(o, i)'
                      /\ Blocks(o, i)' <=> i \in S
  BY <1>1, <1>2 DEF Allocates, Blocks, Blocking, HeldActive
<1>4. Calendar!Planned(o) = {}
  BY <1>3, PlannedIs
<1>5. Calendar!Free(o, S, w)
  BY <1>3, FreeIs DEF CreateOrder
<1>6. Calendar!Replan(o, S, w)
  <2>1. \A i \in Item : plan'[i][o] = IF i \in S THEN w ELSE plan[i][o]
    BY <1>1, <1>3, PlanIs DEF Allocates
  <2> QED
    BY <1>1, <2>1, OthersSame, ReplanBy
<1>7. holder' = holder
  BY <1>1, <1>3, OthersSame, HolderUnchanged DEF CalendarInv, IInv, SafetyInv
<1> QED
  BY <1>4, <1>5, <1>6, <1>7 DEF Calendar!Book, CreateOrder

LEMMA RescheduleMoves ==
    ASSUME CalendarInv, CalendarInv', NEW o \in Order, NEW w \in Window, RescheduleOrder(o, w)
    PROVE  Calendar!Move(o, w)
<1>1. Shifts(o, w) /\ OnlyOrder(o)
  BY RescheduleEffect DEF CalendarInv
<1>2. \A i \in Item : /\ ~HeldActive(o, i) /\ ~HeldActive(o, i)' /\ (Blocks(o, i)' <=> Blocks(o, i))
                      /\ Blocks(o, i) => alloc'[o][i].window = w
                      /\ Blocks(o, i) <=> alloc[o][i].status \in {"HELD", "CONFIRMED"}
  BY <1>1, AllocationStatuses DEF Shifts, Blocks, Blocking, HeldActive
<1>3. Calendar!Planned(o) = WithStatus(o, {"HELD", "CONFIRMED"})
  BY <1>2, PlannedIs DEF WithStatus
<1>4. Calendar!Free(o, Calendar!Planned(o), w)
  BY <1>2, <1>3, FreeIs DEF RescheduleOrder, WithStatus
<1>5. Calendar!Replan(o, Calendar!Planned(o), w)
  <2>1. \A i \in Item : plan'[i][o] = IF i \in Calendar!Planned(o) THEN w ELSE plan[i][o]
    BY <1>2, PlanIs, PlannedIs
  <2>2. Calendar!Planned(o) \in SUBSET Item
    BY PlannedIs
  <2> QED
    BY <1>1, <2>1, <2>2, OthersSame, ReplanBy
<1>6. holder' = holder
  BY <1>1, <1>2, OthersSame, HolderUnchanged DEF CalendarInv, IInv, SafetyInv
<1> QED
  BY <1>4, <1>5, <1>6 DEF Calendar!Move

LEMMA CancelDrops ==
    ASSUME CalendarInv, CalendarInv', NEW o \in Order, CancelOrder(o)
    PROVE  Calendar!Drop(o)
<1>1. Restates(o, "RESERVED", "CANCELLED") /\ OnlyOrder(o)
  BY RestateEffect DEF CalendarInv
<1>2. \A i \in Item : ~HeldActive(o, i) /\ ~HeldActive(o, i)' /\ ~Blocks(o, i)'
  BY <1>1, AllocationStatuses DEF Restates, Blocks, Blocking, HeldActive, AllocationStatusFor
<1>3. \A i \in Item : holder[i] # o
  BY <1>2, HolderIs DEF CalendarInv, IInv, SafetyInv
<1>4. Calendar!Replan(o, Calendar!Planned(o), Calendar!Unplanned)
  <2>1. \A i \in Item : plan'[i][o] = IF i \in Calendar!Planned(o) THEN Calendar!Unplanned ELSE plan[i][o]
    BY <1>2, PlanIs, PlannedIs DEF Calendar!Unplanned, NoWindow
  <2>2. Calendar!Planned(o) \in SUBSET Item
    BY PlannedIs
  <2> QED
    BY <1>1, <2>1, <2>2, OthersSame, ReplanBy
<1>5. holder' = holder
  BY <1>1, <1>2, OthersSame, HolderUnchanged DEF CalendarInv, IInv, SafetyInv
<1> QED
  BY <1>3, <1>4, <1>5 DEF Calendar!Drop

LEMMA StartHandsOver ==
    ASSUME CalendarInv, CalendarInv', NEW o \in Order, StartOrder(o)
    PROVE  Calendar!HandOver(o)
<1>1. Restates(o, "CONFIRMED", "ACTIVE") /\ OnlyOrder(o)
  BY RestateEffect DEF CalendarInv
<1>2. \A i \in Item : /\ ~HeldActive(o, i) /\ (Blocks(o, i)' <=> Blocks(o, i))
                      /\ Blocks(o, i) <=> alloc[o][i].status # "NONE"
                      /\ Blocks(o, i) => i \in Unreleased(o) /\ alloc'[o][i].window = alloc[o][i].window
  BY <1>1, AllocationStatuses
  DEF Restates, Blocks, Blocking, HeldActive, Unreleased, AllocationStatusFor, Open
<1>3. \A i \in Item : HeldActive(o, i)' <=> Blocks(o, i)
  <2>1. status'[o] = "ACTIVE" /\ \A i \in Item : alloc'[o][i].status # "NONE" <=> Blocks(o, i)
    BY <1>1, <1>2 DEF Restates, AllocationStatusFor
  <2>2. \A i \in Item : alloc'[o][i].status # "NONE" =>
            alloc'[o][i].status = AllocationStatusFor[status'[o]] /\ (alloc'[o][i].released <=> ~Open(o)')
    BY DEF CalendarInv, IInv, SafetyInv, TablesAgree
  <2> QED
    BY <2>1, <2>2 DEF HeldActive, AllocationStatusFor, Open
<1>4. Calendar!Planned(o) # {}
  BY <1>1, <1>2, PlannedIs DEF CalendarInv, OrdersHaveItems, Restates
<1>5. \A i \in Calendar!Planned(o) : holder[i] = NoOrder
  <2> SUFFICES ASSUME NEW i \in Item, Blocks(o, i)
               PROVE  \A p \in Order : ~HeldActive(p, i)
    BY PlannedIs, HolderIs DEF CalendarInv, IInv, SafetyInv
  <2> QED
    BY <1>2 DEF StartOrder, InventoryRentable
<1>6. holder' = [i \in Item |-> IF i \in Calendar!Planned(o) THEN o ELSE holder[i]]
  <2>1. ASSUME NEW i \in Item
        PROVE  holder'[i] = IF i \in Calendar!Planned(o) THEN o ELSE holder[i]
    <3>1. OneHolder /\ OneHolder'
      BY DEF CalendarInv, IInv, SafetyInv
    <3>2. CASE Blocks(o, i)
      BY <1>3, <3>1, <3>2, PlannedIs, HolderIsNext
    <3>3. CASE ~Blocks(o, i)
      <4>1. \A p \in Order : HeldActive(p, i)' <=> HeldActive(p, i)
        BY <1>1, <1>2, <1>3, <3>3, OthersSame
      <4> QED
        BY <3>1, <3>3, <4>1, PlannedIs, HolderIs, HolderIsNext
    <3> QED
      BY <3>2, <3>3
  <2>2. holder' = [i \in Item |-> holder'[i]]
    BY DEF holder
  <2> QED
    BY <2>1, <2>2
<1>7. plan' = plan
  <2>1. \A i \in Item, p \in Order : plan'[i][p] = plan[i][p]
    BY <1>1, <1>2, PlanIs, OthersSame
  <2> QED
    BY <2>1 DEF plan
<1> QED
  BY <1>4, <1>5, <1>6, <1>7 DEF Calendar!HandOver

LEMMA ReturnTakesBack ==
    ASSUME CalendarInv, CalendarInv', NEW o \in Order, ReceiveReturn(o)
    PROVE  Calendar!TakeBack(o)
<1>1. Restates(o, "ACTIVE", "RETURNED") /\ OnlyOrder(o)
  BY RestateEffect DEF CalendarInv
<1>2. \A i \in Item : /\ ~HeldActive(o, i)' /\ ~Blocks(o, i)'
                      /\ Blocks(o, i) <=> alloc[o][i].status # "NONE"
                      /\ Blocks(o, i) <=> HeldActive(o, i)
  BY <1>1, AllocationStatuses DEF Restates, Blocks, Blocking, HeldActive, AllocationStatusFor, Open
<1>3. OneHolder /\ OneHolder'
  BY DEF CalendarInv, IInv, SafetyInv
<1>4. Calendar!Planned(o) # {} /\ \A i \in Calendar!Planned(o) : holder[i] = o
  BY <1>1, <1>2, <1>3, PlannedIs, HolderIs DEF CalendarInv, OrdersHaveItems, Restates
<1>5. holder' = [i \in Item |-> IF holder[i] = o THEN NoOrder ELSE holder[i]]
  <2>1. ASSUME NEW i \in Item
        PROVE  holder'[i] = IF holder[i] = o THEN NoOrder ELSE holder[i]
    <3>1. CASE HeldActive(o, i)
      <4>1. \A p \in Order : ~HeldActive(p, i)'
        BY <1>1, <1>2, <1>3, <3>1, OthersSame DEF OneHolder
      <4> QED
        BY <1>3, <3>1, <4>1, HolderIs, HolderIsNext
    <3>2. CASE ~HeldActive(o, i)
      <4>1. \A p \in Order : HeldActive(p, i)' <=> HeldActive(p, i)
        BY <1>1, <1>2, <3>2, OthersSame
      <4> QED
        BY <1>3, <3>2, <4>1, HolderIs, HolderIsNext
    <3> QED
      BY <3>1, <3>2
  <2>2. holder' = [i \in Item |-> holder'[i]]
    BY DEF holder
  <2> QED
    BY <2>1, <2>2
<1>6. Calendar!Replan(o, Calendar!Planned(o), Calendar!Unplanned)
  <2>1. \A i \in Item : plan'[i][o] = IF i \in Calendar!Planned(o) THEN Calendar!Unplanned ELSE plan[i][o]
    BY <1>2, PlanIs, PlannedIs DEF Calendar!Unplanned, NoWindow
  <2>2. Calendar!Planned(o) \in SUBSET Item
    BY PlannedIs
  <2> QED
    BY <1>1, <2>1, <2>2, OthersSame, ReplanBy
<1> QED
  BY <1>4, <1>5, <1>6 DEF Calendar!TakeBack

\* Confirmation only restates a plan that is there.
LEMMA ConfirmIsInvisible ==
    ASSUME CalendarInv, CalendarInv', NEW o \in Order, ConfirmOrder(o)
    PROVE  UNCHANGED Calendar!vars
<1>1. Restates(o, "RESERVED", "CONFIRMED") /\ OnlyOrder(o)
  BY RestateEffect DEF CalendarInv
<1>2. \A i \in Item : /\ ~HeldActive(o, i) /\ ~HeldActive(o, i)' /\ (Blocks(o, i)' <=> Blocks(o, i))
                      /\ Blocks(o, i) => alloc'[o][i].window = alloc[o][i].window
  BY <1>1, AllocationStatuses DEF Restates, Blocks, Blocking, HeldActive, AllocationStatusFor
<1>3. plan' = plan
  <2>1. \A i \in Item, p \in Order : plan'[i][p] = plan[i][p]
    BY <1>1, <1>2, PlanIs, OthersSame
  <2> QED
    BY <2>1 DEF plan
<1>4. holder' = holder
  BY <1>1, <1>2, OthersSame, HolderUnchanged DEF CalendarInv, IInv, SafetyInv
<1> QED
  BY <1>3, <1>4 DEF Calendar!vars

LEMMA SameAllocations ==
    ASSUME CalendarInv, CalendarInv', alloc' = alloc
    PROVE  UNCHANGED Calendar!vars
<1>1. plan' = plan
  BY DEF plan, Blocks
<1>2. holder' = holder
  BY HolderUnchanged DEF CalendarInv, IInv, SafetyInv, HeldActive
<1> QED
  BY <1>1, <1>2 DEF Calendar!vars

LEMMA StepsFollowCalendar ==
    ASSUME CalendarInv, CalendarInv', [Next]_vars
    PROVE  [Calendar!Next]_(Calendar!vars)
<1>1. ASSUME NEW o \in Order, NEW S \in SUBSET Item, NEW w \in Window, CreateOrder(o, S, w)
      PROVE  Calendar!Next
  BY <1>1, CreateBooks DEF Calendar!Next, Calendar!Window, Window
<1>2. ASSUME NEW o \in Order, NEW w \in Window, RescheduleOrder(o, w)
      PROVE  Calendar!Next
  BY <1>2, RescheduleMoves DEF Calendar!Next, Calendar!Window, Window
<1>3. ASSUME NEW o \in Order, CancelOrder(o) \/ StartOrder(o) \/ ReceiveReturn(o)
      PROVE  Calendar!Next
  BY <1>3, CancelDrops, StartHandsOver, ReturnTakesBack DEF Calendar!Next
<1> QED
  BY <1>1, <1>2, <1>3, ConfirmIsInvisible, SameAllocations, AllocationStep DEF CalendarInv

LEMMA CalendarIsConsistent == CalendarInv => Calendar!CalendarConsistent
<1> SUFFICES ASSUME CalendarInv, NEW i \in Item
             PROVE  /\ \A o, p \in Order : o # p => ~Calendar!Overlap(plan[i][o], plan[i][p])
                    /\ holder[i] # NoOrder => plan[i][holder[i]] # NoWindow
  BY DEF Calendar!CalendarConsistent, Calendar!Unplanned, NoWindow
<1>1. ASSUME NEW o \in Order, NEW p \in Order, o # p
      PROVE  ~Calendar!Overlap(plan[i][o], plan[i][p])
  <2>1. CASE Blocks(o, i) /\ Blocks(p, i)
    BY <1>1, <2>1, PlanIs DEF Calendar!Overlap, CalendarInv, IInv, SafetyInv, Exclusive
  <2>2. CASE ~(Blocks(o, i) /\ Blocks(p, i))
    <3>1. plan[i][o] = NoWindow \/ plan[i][p] = NoWindow
      BY <2>2, PlanIs
    <3>2. plan[i][o].from \in Nat /\ plan[i][p].from \in Nat
      <4>1. \A w \in Window \cup {NoWindow} : w.from \in Nat
        BY TimeAssumption DEF Window, NoWindow, Instant
      <4>2. plan[i][o] \in Window \cup {NoWindow} /\ plan[i][p] \in Window \cup {NoWindow}
        BY PlanIs DEF CalendarInv, BookedWindows
      <4> QED
        BY <4>1, <4>2
    <3> QED
      BY <3>1, <3>2 DEF Calendar!Overlap, NoWindow
  <2> QED
    BY <2>1, <2>2
<1>2. ASSUME holder[i] # NoOrder
      PROVE  plan[i][holder[i]] # NoWindow
  <2>1. PICK o \in Order : HeldActive(o, i)
    BY <1>2, HolderIs DEF CalendarInv, IInv, SafetyInv
  <2>2. holder[i] = o
    BY <2>1, HolderIs DEF CalendarInv, IInv, SafetyInv
  <2>3. Blocks(o, i) /\ alloc[o][i].window \in Window /\ NoWindow \notin Window
    BY <2>1 DEF HeldActive, Blocks, Blocking, CalendarInv, BookedWindows, NoWindow, Window
  <2> QED
    BY <2>2, <2>3, PlanIs
<1> QED
  BY <1>1, <1>2

(***************************************************************************)
(* Booking, rescheduling, hand-over, cancellation and return treat all the *)
(* items of an order as one, and everything else the handlers write leaves *)
(* the calendar as it is.                                                  *)
(***************************************************************************)
THEOREM CalendarImplemented == Spec => ImplementsCalendar
<1>1. Init => Calendar!Init
  BY DEF Init, Calendar!Init, plan, holder, Holders, Blocks, Blocking, HeldActive, NoAllocation,
         Calendar!Unplanned, NoWindow
<1> QED
  BY <1>1, StepsFollowCalendar, CalendarIsConsistent, CalendarInvariance, PTL
  DEF Spec, ImplementsCalendar, Calendar!Spec

-----------------------------------------------------------------------------
(* The pictures of products *)

\* Columns and fields by themselves.
Names == Products \cup {"-"}
Types == Formats \cup {"-"}
MediaRows == [product : Names, key : Keys \cup {NoKey}, primary : BOOLEAN]
Uploads == [step : Steps, product : Names, key : Keys \cup {NoKey}, type : Types, primary : BOOLEAN]
LateCalls == [call : {"put", "delete"}, key : Keys, type : Types]
MediaTypes ==
  /\ archived \subseteq Products /\ faulty \subseteq Keys
  /\ media \in [Requests -> MediaRows] /\ request \in [Requests -> Uploads]
  /\ objects \subseteq [key : Keys, type : Formats] /\ late \subseteq LateCalls

Working(r) == request[r].step \in {"put", "add", "count", "delete"}
Mine(r, key) == Working(r) /\ request[r].key = key
\* What a worker is about, and that it was checked.
Checked(key, type) == type \in Formats /\ type = FormatOf[key[2]]
UploadsAgree ==
  \A r \in Requests :
    /\ Working(r) => request[r].key \in Keys
    /\ request[r].step \in {"put", "add"} =>
         request[r].product \in Products /\ Checked(request[r].key, request[r].type)
    /\ request[r].step \in {"idle", "put", "add"} => media[r] = NoRow
\* A call that was given up is on record as a fault.
LateAgrees == \A l \in late : l.key \in faulty /\ (l.call = "put" => Checked(l.key, l.type))
\* At most one primary picture of a product.
PrimaryIsOne ==
  \A m, n \in Rows : media[m].product = media[n].product /\ media[m].primary /\ media[n].primary => m = n
RowsOfProducts == \A m \in Rows : media[m].product \in Products

\* One at a time per key: a worker is alone, a call that is late is its own put, after which it
\* only cleans up; nothing refers to what is to be deleted, and what is added is stored.
Alone ==
  /\ \A r, q \in Requests : \A k \in Keys : Mine(r, k) /\ Mine(q, k) => r = q
  /\ \A r \in Requests, l \in late : Mine(r, l.key) =>
       l.call = "put" /\ request[r].step \in {"count", "delete"}
Doomed ==
  /\ \A l \in late : l.call = "delete" => References(l.key) = {}
  /\ \A r \in Requests : request[r].step = "delete" => References(request[r].key) = {}
Ready == \A r \in Requests : request[r].step = "add" => Stored(request[r].key)
SingleInv == Alone /\ Doomed /\ Ready /\ ShownPictureIsStored

-----------------------------------------------------------------------------

LEMMA MediaKeys ==
    ASSUME FolderAssumption, FormatAssumption
    PROVE  /\ NoKey \notin Keys
           /\ \A p \in Products, file \in Files : Key(p, file) \in Keys /\ Key(p, file)[2] = file
<1>1. \A k \in Keys : k = <<k[1], k[2]>>
  BY DEF Keys
<1>2. NoKey \notin Keys
  BY <1>1 DEF NoKey
<1> QED BY <1>2 DEF Keys, Key

LEMMA MediaReferences ==
    ASSUME FolderAssumption, FormatAssumption
    PROVE  /\ MediaTypes => \A k \in Keys : References(k) = {m \in Requests : media[m].key = k}
           /\ MediaTypes' => \A k \in Keys : References(k)' = {m \in Requests : media'[m].key = k}
BY MediaKeys DEF References, Rows, NoRow

\* What adding a row does.
LEMMA AddedRow ==
    ASSUME FolderAssumption, FormatAssumption, MediaTypes, PrimaryIsOne, RowsOfProducts,
           NEW r \in Requests, NEW p \in Products, NEW key \in Keys \cup {NoKey}, NEW primary \in BOOLEAN,
           media' = Added(r, p, key, primary)
    PROVE  /\ media' \in [Requests -> MediaRows] /\ media'[r].key = key
           /\ \A m \in Requests \ {r} : media'[m].key = media[m].key /\ (media[m] = NoRow => media'[m] = NoRow)
           /\ PrimaryIsOne' /\ RowsOfProducts'
<1> DEFINE fresh == [product |-> p, key |-> key, primary |-> primary]
<1>1. NoRow \in MediaRows /\ fresh \in MediaRows
  BY DEF MediaRows, NoRow, Names
<1>2. Cleared(media, p) \in [Requests -> MediaRows]
  BY DEF Cleared, MediaTypes, MediaRows
<1>3. /\ media' \in [Requests -> MediaRows] /\ media'[r] = fresh
      /\ \A m \in Requests \ {r} : media'[m] = IF primary THEN Cleared(media, p)[m] ELSE media[m]
  BY <1>1, <1>2 DEF Added, MediaTypes
<1>4. \A m \in Requests \ {r} :
         /\ media'[m].product = media[m].product /\ media'[m].key = media[m].key
         /\ media[m] = NoRow => media'[m] = NoRow
         /\ media'[m].primary => media[m].primary
         /\ primary /\ media'[m].product = p => media'[m].primary = FALSE \/ media'[m] = NoRow
  BY <1>3 DEF Cleared, MediaTypes, MediaRows
<1>5. \A m \in Rows' : m \in Requests /\ (m = r \/ m \in Rows)
  BY <1>4 DEF Rows
<1>6. RowsOfProducts'
  BY <1>3, <1>4, <1>5 DEF RowsOfProducts
<1>7. PrimaryIsOne'
  <2> SUFFICES ASSUME NEW m \in Rows', NEW n \in Rows', media'[m].product = media'[n].product,
                      media'[m].primary, media'[n].primary
               PROVE  m = n
    BY DEF PrimaryIsOne
  <2>1. CASE m # r /\ n # r
    BY <1>4, <1>5, <2>1 DEF PrimaryIsOne
  <2>2. CASE m = r \/ n = r
    BY <1>3, <1>4, <1>5, <2>2 DEF Rows
  <2> QED BY <2>1, <2>2
<1> QED BY <1>3, <1>4, <1>6, <1>7

LEMMA ChosenRow ==
    ASSUME MediaTypes, PrimaryIsOne, RowsOfProducts, NEW r \in Requests, NEW c \in Requests, SetPrimary(r, c)
    PROVE  /\ media' \in [Requests -> MediaRows]
           /\ \A m \in Requests : media'[m].key = media[m].key /\ (media[m] = NoRow => media'[m] = NoRow)
           /\ PrimaryIsOne' /\ RowsOfProducts'
<1> DEFINE p == media[c].product
<1>0. c \in Rows /\ media' = [Cleared(media, p) EXCEPT ![c].primary = TRUE]
  BY DEF SetPrimary
<1>1. Cleared(media, p) \in [Requests -> MediaRows]
  BY DEF Cleared, MediaTypes, MediaRows
<1>2. /\ media' \in [Requests -> MediaRows]
      /\ \A m \in Requests \ {c} : media'[m] = Cleared(media, p)[m]
      /\ media'[c].product = p /\ media'[c].key = media[c].key
  BY <1>0, <1>1 DEF Cleared, MediaTypes, MediaRows, Rows
<1>3. \A m \in Requests \ {c} :
         /\ media'[m].product = media[m].product /\ media'[m].key = media[m].key
         /\ media[m] = NoRow => media'[m] = NoRow
         /\ media'[m].primary => media[m].primary
         /\ media'[m].product = p => media'[m].primary = FALSE \/ media'[m] = NoRow
  BY <1>2 DEF Cleared, MediaTypes, MediaRows
<1>4. \A m \in Rows' : m \in Rows
  BY <1>0, <1>3 DEF Rows
<1>5. RowsOfProducts'
  BY <1>0, <1>2, <1>3, <1>4 DEF RowsOfProducts, Rows
<1>6. PrimaryIsOne'
  <2> SUFFICES ASSUME NEW m \in Rows', NEW n \in Rows', media'[m].product = media'[n].product,
                      media'[m].primary, media'[n].primary
               PROVE  m = n
    BY DEF PrimaryIsOne
  <2>1. CASE m # c /\ n # c
    BY <1>3, <1>4, <2>1 DEF PrimaryIsOne, Rows
  <2>2. CASE m = c \/ n = c
    BY <1>2, <1>3, <1>4, <2>2 DEF Rows
  <2> QED BY <2>1, <2>2
<1> QED BY <1>0, <1>2, <1>3, <1>5, <1>6 DEF Rows

LEMMA RemovedRow ==
    ASSUME MediaTypes, PrimaryIsOne, RowsOfProducts, NEW c \in Requests, media' = [media EXCEPT ![c] = NoRow]
    PROVE  /\ media' \in [Requests -> MediaRows]
           /\ media'[c] = NoRow /\ \A m \in Requests \ {c} : media'[m] = media[m]
           /\ PrimaryIsOne' /\ RowsOfProducts'
<1>1. NoRow \in MediaRows
  BY DEF MediaRows, NoRow, Names
<1>2. /\ media' \in [Requests -> MediaRows]
      /\ media'[c] = NoRow /\ \A m \in Requests \ {c} : media'[m] = media[m]
  BY <1>1 DEF MediaTypes
<1>3. \A m \in Rows' : m \in Rows /\ media'[m] = media[m]
  BY <1>2 DEF Rows
<1> QED BY <1>2, <1>3 DEF PrimaryIsOne, RowsOfProducts

\* What a call that takes effect does to the bucket.
LEMMA PutEffect ==
    ASSUME MediaTypes, ServedAsWhatItIs, NEW key \in Keys, NEW type, Checked(key, type),
           objects' = With(key, type)
    PROVE  /\ objects' \subseteq [key : Keys, type : Formats] /\ ServedAsWhatItIs'
           /\ \A k \in Keys : Stored(k)' <=> Stored(k) \/ k = key
<1>1. Object(key, type) \in [key : Keys, type : Formats]
  BY DEF Object, Checked
<1>2. objects' = {o \in objects : o.key # key} \cup {Object(key, type)}
  BY DEF With, Without
<1>3. objects' \subseteq [key : Keys, type : Formats]
  BY <1>1, <1>2 DEF MediaTypes
<1>4. ServedAsWhatItIs'
  <2> SUFFICES ASSUME NEW o \in objects' PROVE o.type = FormatOf[o.key[2]] /\ o.type \in Formats
    BY DEF ServedAsWhatItIs
  <2>1. CASE o \in objects
    BY <2>1 DEF ServedAsWhatItIs
  <2>2. CASE o.key = key /\ o.type = type
    BY <2>2 DEF Checked
  <2>3. o \in objects \/ o = Object(key, type)
    BY <1>2
  <2> QED BY <2>1, <2>2, <2>3 DEF Object
<1>5. ASSUME NEW k \in Keys PROVE Stored(k)' <=> Stored(k) \/ k = key
  <2>1. CASE k = key
    <3>1. Object(key, type) \in objects' /\ Object(key, type).key = key
      BY <1>2 DEF Object
    <3> QED BY <2>1, <3>1 DEF Stored
  <2>2. CASE k # key
    BY <1>2, <2>2 DEF Stored, Object
  <2> QED BY <2>1, <2>2
<1> QED BY <1>3, <1>4, <1>5

LEMMA DeleteEffect ==
    ASSUME MediaTypes, ServedAsWhatItIs, NEW key \in Keys, objects' = Without(key)
    PROVE  /\ objects' \subseteq [key : Keys, type : Formats] /\ ServedAsWhatItIs'
           /\ \A k \in Keys : Stored(k)' <=> Stored(k) /\ k # key
BY DEF MediaTypes, ServedAsWhatItIs, Without, Stored

\* What a request does to itself.
LEMMA RequestMoves ==
    ASSUME MediaTypes, NEW r \in Requests, NEW step \in Steps,
           request' = [request EXCEPT ![r].step = step]
    PROVE  /\ request' \in [Requests -> Uploads] /\ request'[r].step = step
           /\ request'[r].key = request[r].key /\ request'[r].type = request[r].type
           /\ request'[r].product = request[r].product /\ request'[r].primary = request[r].primary
           /\ \A q \in Requests \ {r} : request'[q] = request[q]
BY DEF MediaTypes, Uploads

LEMMA RequestBegins ==
    ASSUME MediaTypes, NEW r \in Requests, NEW q \in Uploads, request' = [request EXCEPT ![r] = q]
    PROVE  /\ request' \in [Requests -> Uploads] /\ request'[r] = q
           /\ \A p \in Requests \ {r} : request'[p] = request[p]
BY DEF MediaTypes

LEMMA MediaWorkers ==
    /\ MediaTypes => \A k : Workers(k) = {r \in Requests : Mine(r, k)}
    /\ MediaTypes' => \A k : Workers(k)' = {r \in Requests : Mine(r, k)'}
BY DEF MediaTypes, Uploads, Steps, Workers, Mine, Working

\* What keeps an object from being left behind.
LEMMA StillWanted ==
    ASSUME FolderAssumption, FormatAssumption, MediaTypes, MediaTypes', NothingIsLeftBehind,
           faulty \subseteq faulty', NEW r \in Requests,
           \A q \in Requests \ {r} : request'[q] = request[q],
           \A k \in Keys : Stored(k)' => Stored(k) \/ Mine(r, k)' \/ k \in faulty',
           \A k \in Keys : References(k) # {} => References(k)' # {} \/ Mine(r, k)',
           \A k \in Keys : Mine(r, k) =>
              Mine(r, k)' \/ References(k)' # {} \/ k \in faulty' \/ ~Stored(k)'
    PROVE  NothingIsLeftBehind'
<1> SUFFICES ASSUME NEW o \in objects', o.key \notin faulty', References(o.key)' = {}, ~Mine(r, o.key)'
             PROVE  \E q \in Requests : Mine(q, o.key)'
  BY MediaWorkers DEF NothingIsLeftBehind
<1> DEFINE k == o.key
<1>1. k \in Keys /\ Stored(k)'
  BY DEF MediaTypes, Stored
<1>2. Stored(k) /\ References(k) = {} /\ k \notin faulty
  BY <1>1
<1>3. PICK q \in Requests : Mine(q, k)
  BY <1>2, MediaWorkers DEF NothingIsLeftBehind, Stored
<1>4. q # r
  BY <1>1, <1>3
<1> QED BY <1>3, <1>4 DEF Mine, Working

\* What holds whether requests overlap or not.
MediaInv ==
  /\ MediaTypes /\ UploadsAgree /\ LateAgrees
  /\ PrimaryIsOne /\ RowsOfProducts /\ ServedAsWhatItIs /\ NothingIsLeftBehind

\* The steps of an upload, of its clean-up, and of the pictures by themselves.
LEMMA RowSteps ==
    ASSUME FolderAssumption, FormatAssumption, MediaInv, NEW r \in Requests, NEW p \in Products,
           NEW primary \in BOOLEAN,
           \/ AddLink(r, p, primary)
           \/ \E m \in Requests : SetPrimary(r, m)
    PROVE  MediaInv'
<1> USE DEF MediaInv
<1>0. request' = [request EXCEPT ![r].step = "done"] /\ request[r].step = "idle"
      /\ UNCHANGED <<archived, objects, late, faulty>>
  BY DEF AddLink, SetPrimary, Answer
<1>1. /\ request' \in [Requests -> Uploads] /\ request'[r].step = "done"
      /\ \A q \in Requests \ {r} : request'[q] = request[q]
  BY <1>0, RequestMoves DEF Steps
<1>2. /\ media' \in [Requests -> MediaRows] /\ PrimaryIsOne' /\ RowsOfProducts'
      /\ \A m \in Requests : (m = r => media[m] = NoRow) /\ (m # r /\ media[m] = NoRow => media'[m] = NoRow)
      /\ \A m \in Requests : media[m].key \in Keys => media'[m].key = media[m].key
  <2>1. CASE AddLink(r, p, primary)
    <3>1. media[r] = NoRow /\ NoRow.key \notin Keys
      BY <1>0, MediaKeys DEF UploadsAgree, NoRow
    <3> QED BY <2>1, <3>1, AddedRow DEF AddLink
  <2>2. CASE \E m \in Requests : SetPrimary(r, m)
    BY <1>0, <2>2, ChosenRow DEF UploadsAgree
  <2> QED BY <2>1, <2>2
<1>3. MediaTypes'
  BY <1>0, <1>1, <1>2 DEF MediaTypes
<1>4. UploadsAgree'
  BY <1>1, <1>2 DEF UploadsAgree, Working
<1>5. LateAgrees' /\ ServedAsWhatItIs'
  BY <1>0 DEF LateAgrees, ServedAsWhatItIs
<1>6. NothingIsLeftBehind'
  <2>1. \A k \in Keys : References(k) # {} => References(k)' # {}
    BY <1>2, <1>3, MediaReferences
  <2>2. \A k \in Keys : ~Mine(r, k) /\ (Stored(k)' <=> Stored(k))
    BY <1>0 DEF Mine, Working, Stored
  <2> QED BY <1>0, <1>1, <1>3, <2>1, <2>2, StillWanted
<1> QED BY <1>2, <1>3, <1>4, <1>5, <1>6

LEMMA RemoveStep ==
    ASSUME FolderAssumption, FormatAssumption, MediaInv, NEW r \in Requests, NEW m \in Requests,
           RemoveMedia(r, m)
    PROVE  MediaInv'
<1> USE DEF MediaInv
<1> PICK key : key = media[m].key
  OBVIOUS
<1> DEFINE step == IF key = NoKey THEN "done" ELSE "count"
           q == [NoUpload EXCEPT !.step = step, !.key = key]
<1>0. /\ request[r].step = "idle" /\ m \in Rows /\ media' = [media EXCEPT ![m] = NoRow]
      /\ request' = [request EXCEPT ![r] = q]
      /\ UNCHANGED <<archived, objects, late, faulty>>
  BY DEF RemoveMedia
<1>1. key \in Keys \cup {NoKey} /\ q \in Uploads /\ q.step = step /\ q.key = key
  BY DEF MediaTypes, MediaRows, NoUpload, Uploads, Steps, Names, Types
<1> HIDE DEF q
<1>2. request' \in [Requests -> Uploads] /\ request'[r] = q /\ \A s \in Requests \ {r} : request'[s] = request[s]
  BY <1>0, <1>1, RequestBegins
<1>3. /\ media' \in [Requests -> MediaRows] /\ PrimaryIsOne' /\ RowsOfProducts'
      /\ media'[m] = NoRow /\ \A n \in Requests \ {m} : media'[n] = media[n]
  BY <1>0, RemovedRow
<1>4. MediaTypes'
  BY <1>0, <1>2, <1>3 DEF MediaTypes
<1>5. UploadsAgree'
  BY <1>1, <1>2, <1>3 DEF UploadsAgree, Working
<1>6. LateAgrees' /\ ServedAsWhatItIs'
  BY <1>0 DEF LateAgrees, ServedAsWhatItIs
<1>7. NothingIsLeftBehind'
  <2>1. key \in Keys => Mine(r, key)'
    BY <1>1, <1>2, MediaKeys DEF Mine, Working
  <2>2. \A k \in Keys : References(k) # {} => References(k)' # {} \/ k = key
    BY <1>3, <1>4, MediaReferences
  <2>3. \A k \in Keys : ~Mine(r, k) /\ (Stored(k)' <=> Stored(k))
    BY <1>0 DEF Mine, Working, Stored
  <2> QED BY <1>0, <1>2, <1>4, <2>1, <2>2, <2>3, StillWanted
<1> QED BY <1>3, <1>4, <1>5, <1>6, <1>7

LEMMA UploadStep ==
    ASSUME FolderAssumption, FormatAssumption, MediaInv, NEW r \in Requests, NEW p \in Products,
           NEW file \in Files, NEW declared \in Formats, NEW primary \in BOOLEAN,
           Upload(r, p, file, declared, primary)
    PROVE  MediaInv'
<1> USE DEF MediaInv
<1> DEFINE key == Key(p, file)
           type == TypeOf(file, declared)
           q == [step |-> "put", product |-> p, key |-> key, type |-> type, primary |-> primary]
<1>0. /\ request[r].step = "idle" /\ request' = [request EXCEPT ![r] = q]
      /\ UNCHANGED <<archived, media, objects, late, faulty>>
  BY DEF Upload
<1>1. key \in Keys /\ Checked(key, type)
  <2>1. key \in Keys /\ key[2] = file
    BY MediaKeys
  <2>2. type # "rejected" /\ type = FormatOf[file] /\ type \in Formats
    BY DEF Upload, TypeOf
  <2> QED BY <2>1, <2>2 DEF Checked
<1>2. q \in Uploads
  BY <1>1 DEF Uploads, Steps, Names, Types, Checked
<1>3. request' \in [Requests -> Uploads] /\ request'[r] = q /\ \A s \in Requests \ {r} : request'[s] = request[s]
  BY <1>0, <1>2, RequestBegins
<1>4. MediaTypes'
  BY <1>0, <1>3 DEF MediaTypes
<1>5. UploadsAgree'
  <2>1. media'[r] = NoRow
    BY <1>0 DEF UploadsAgree
  <2> QED BY <1>0, <1>1, <1>3, <2>1 DEF UploadsAgree, Working
<1>6. LateAgrees' /\ ServedAsWhatItIs' /\ PrimaryIsOne' /\ RowsOfProducts'
  BY <1>0 DEF LateAgrees, ServedAsWhatItIs, PrimaryIsOne, RowsOfProducts, Rows
<1>7. NothingIsLeftBehind'
  <2>1. \A k \in Keys : References(k)' = References(k)
    BY <1>0 DEF References, Rows
  <2>2. \A k \in Keys : ~Mine(r, k) /\ (Stored(k)' <=> Stored(k))
    BY <1>0 DEF Mine, Working, Stored
  <2> QED BY <1>0, <1>3, <1>4, <2>1, <2>2, StillWanted
<1> QED BY <1>4, <1>5, <1>6, <1>7

\* A worker's step, when it leaves the rows alone.
LEMMA WorkerStep ==
    ASSUME FolderAssumption, FormatAssumption, MediaInv, NEW r \in Requests,
           \/ Put(r) \/ PutFails(r) \/ CountReferences(r) \/ CountFails(r)
           \/ DeleteObject(r) \/ DeleteFails(r) \/ Crash(r)
    PROVE  MediaInv'
<1> USE DEF MediaInv
<1> PICK key : key = request[r].key
  OBVIOUS
<1>1. /\ Working(r) /\ key \in Keys
      /\ request[r].step = "put" => Checked(key, request[r].type)
      /\ UNCHANGED <<archived, media>> /\ faulty' \in {faulty, faulty \cup {key}}
  BY DEF Put, PutFails, CountReferences, CountFails, DeleteObject, DeleteFails, Crash, MediaTypes,
         Uploads, Steps, UploadsAgree, Working
<1>2. PICK step \in {"add", "count", "delete", "done"} :
        request' = [request EXCEPT ![r].step = step] /\ (step = "add" => request[r].step = "put")
  BY DEF Put, PutFails, CountReferences, CountFails, DeleteObject, DeleteFails, Crash, Continue, Answer
<1>3. /\ request' \in [Requests -> Uploads] /\ request'[r].step = step
      /\ request'[r].key = key /\ request'[r].type = request[r].type
      /\ request'[r].product = request[r].product
      /\ \A q \in Requests \ {r} : request'[q] = request[q]
  BY <1>2, RequestMoves DEF Steps
<1>4. /\ \/ objects' = objects
         \/ request[r].step = "put" /\ objects' = With(key, request[r].type)
         \/ request[r].step = "delete" /\ objects' = Without(key)
      /\ \/ late' = late
         \/ /\ key \in faulty' /\ request[r].step = "put"
            /\ late' = late \cup {[call |-> "put", key |-> key, type |-> request[r].type]}
         \/ /\ key \in faulty' /\ late' = late \cup {[call |-> "delete", key |-> key, type |-> "-"]}
  BY DEF Put, PutFails, CountReferences, CountFails, DeleteObject, DeleteFails, Crash
<1>5. /\ objects' \subseteq [key : Keys, type : Formats] /\ ServedAsWhatItIs'
      /\ \A k \in Keys : Stored(k)' => Stored(k) \/ (k = key /\ request[r].step = "put")
  <2>1. CASE objects' = objects
    BY <2>1 DEF MediaTypes, ServedAsWhatItIs, Stored
  <2>2. CASE request[r].step = "put" /\ objects' = With(key, request[r].type)
    BY <1>1, <2>2, PutEffect
  <2>3. CASE objects' = Without(key)
    BY <1>1, <2>3, DeleteEffect
  <2> QED BY <1>4, <2>1, <2>2, <2>3
<1>6. late' \subseteq LateCalls /\ LateAgrees'
  <2>1. faulty \subseteq faulty'
    BY <1>1
  <2>2. request[r].type \in Types
    BY DEF MediaTypes, Uploads
  <2>3. CASE late' = late
    BY <2>1, <2>3 DEF LateAgrees, MediaTypes
  <2>4. CASE /\ key \in faulty' /\ request[r].step = "put"
             /\ late' = late \cup {[call |-> "put", key |-> key, type |-> request[r].type]}
    BY <1>1, <2>1, <2>2, <2>4 DEF LateAgrees, MediaTypes, LateCalls
  <2>5. CASE key \in faulty' /\ late' = late \cup {[call |-> "delete", key |-> key, type |-> "-"]}
    BY <1>1, <2>1, <2>5 DEF LateAgrees, MediaTypes, LateCalls, Types
  <2> QED BY <1>4, <2>3, <2>4, <2>5
<1>7. MediaTypes'
  BY <1>1, <1>3, <1>5, <1>6 DEF MediaTypes
<1>8. UploadsAgree'
  BY <1>1, <1>2, <1>3 DEF UploadsAgree, Working
<1>9. PrimaryIsOne' /\ RowsOfProducts'
  BY <1>1 DEF PrimaryIsOne, RowsOfProducts, Rows
<1>10. NothingIsLeftBehind'
  <2>1. \A k \in Keys : References(k)' = References(k)
    BY <1>1 DEF References, Rows
  <2>2. \A k \in Keys : Mine(r, k) => k = key
    BY DEF Mine
  <2>3. Mine(r, key)' \/ References(key) # {} \/ key \in faulty' \/ ~Stored(key)'
    <3>1. CASE step # "done"
      BY <1>2, <1>3, <3>1 DEF Mine, Working
    <3>2. CASE step = "done" /\ CountReferences(r)
      <4>1. Unreferenced(key) => request'[r].step = "delete"
        BY <3>2, RequestMoves DEF CountReferences, Continue, Steps
      <4> QED BY <1>3, <3>2, <4>1 DEF Unreferenced
    <3>3. CASE DeleteObject(r)
      <4>1. objects' = Without(key)
        BY <3>3 DEF DeleteObject
      <4> QED BY <1>1, <4>1, DeleteEffect
    <3>4. CASE PutFails(r) \/ CountFails(r) \/ DeleteFails(r) \/ Crash(r)
      BY <3>4 DEF PutFails, CountFails, DeleteFails, Crash
    <3>5. CASE Put(r)
      BY <1>3, <3>5, RequestMoves DEF Put, Continue, Mine, Working, Steps
    <3> QED BY <3>1, <3>2, <3>3, <3>4, <3>5
  <2>4. request[r].step = "put" => Mine(r, key)'\/ key \in faulty'
    <3>1. CASE step # "done"
      BY <1>2, <1>3, <3>1 DEF Mine, Working
    <3>2. CASE step = "done" /\ request[r].step = "put"
      <4>1. request'[r].step = "done"
        BY <1>3, <3>2
      <4>2. ~Put(r)
        BY <4>1, RequestMoves DEF Put, Continue, Steps
      <4> QED BY <3>2, <4>2 DEF PutFails, CountReferences, CountFails, DeleteObject, DeleteFails, Crash
    <3> QED BY <3>1, <3>2
  <2> QED BY <1>1, <1>3, <1>5, <1>7, <2>1, <2>2, <2>3, <2>4, StillWanted
<1> QED BY <1>5, <1>6, <1>7, <1>8, <1>9, <1>10

\* Its step when it adds its row, or fails to.
LEMMA AddStep ==
    ASSUME FolderAssumption, FormatAssumption, MediaInv, NEW r \in Requests,
           AddMedia(r) \/ AddMediaFails(r)
    PROVE  MediaInv'
<1> USE DEF MediaInv
<1> PICK key : key = request[r].key
  OBVIOUS
<1> PICK p : p = request[r].product
  OBVIOUS
<1>1. /\ request[r].step = "add" /\ Working(r) /\ key \in Keys /\ p \in Products /\ media[r] = NoRow
      /\ request[r].primary \in BOOLEAN
      /\ UNCHANGED <<archived, objects, late>> /\ faulty' \in {faulty, faulty \cup {key}}
  BY DEF AddMedia, AddMediaFails, UploadsAgree, Working, MediaTypes, Uploads
<1>2. PICK step \in {"count", "done"} : /\ request' = [request EXCEPT ![r].step = step]
                                        /\ step = "done" => media' = Added(r, p, key, request[r].primary)
  BY DEF AddMedia, AddMediaFails, Continue, Answer, AfterRefusal
<1>3. /\ request' \in [Requests -> Uploads] /\ request'[r].step = step /\ request'[r].key = key
      /\ \A q \in Requests \ {r} : request'[q] = request[q]
  BY <1>2, RequestMoves DEF Steps
<1>4. media' = media \/ media' = Added(r, p, key, request[r].primary)
  BY DEF AddMedia, AddMediaFails
<1>5. /\ media' \in [Requests -> MediaRows] /\ PrimaryIsOne' /\ RowsOfProducts'
      /\ \A m \in Requests \ {r} : media'[m].key = media[m].key /\ (media[m] = NoRow => media'[m] = NoRow)
      /\ media'[r].key = key \/ media'[r] = media[r]
      /\ step = "done" => media'[r].key = key
  <2>1. CASE media' = Added(r, p, key, request[r].primary)
    BY <1>1, <2>1, AddedRow
  <2>2. CASE media' = media /\ step # "done"
    BY <2>2 DEF MediaTypes, PrimaryIsOne, RowsOfProducts, Rows
  <2> QED BY <1>2, <1>4, <2>1, <2>2
<1>6. MediaTypes'
  BY <1>1, <1>3, <1>5 DEF MediaTypes
<1>7. UploadsAgree'
  BY <1>1, <1>3, <1>5 DEF UploadsAgree, Working
<1>8. LateAgrees' /\ ServedAsWhatItIs'
  BY <1>1 DEF LateAgrees, ServedAsWhatItIs
<1>9. NothingIsLeftBehind'
  <2>1. \A k \in Keys : References(k) # {} => References(k)' # {}
    BY <1>1, <1>5, <1>6, MediaReferences, MediaKeys DEF NoRow
  <2>2. \A k \in Keys : Mine(r, k) => k = key
    BY DEF Mine
  <2>3. Mine(r, key)' \/ References(key)' # {}
    BY <1>1, <1>3, <1>5, <1>6, MediaReferences DEF Mine, Working
  <2>4. \A k \in Keys : Stored(k)' <=> Stored(k)
    BY <1>1 DEF Stored
  <2> QED BY <1>1, <1>3, <1>6, <2>1, <2>2, <2>3, <2>4, StillWanted
<1> QED BY <1>5, <1>6, <1>7, <1>8, <1>9

\* Steps nobody takes for a request.
LEMMA OtherStep ==
    ASSUME FolderAssumption, FormatAssumption, MediaInv,
           (\E l \in late : ArrivesLate(l)) \/ (\E p \in Products : Archive(p)) \/ UNCHANGED mediaVars
    PROVE  MediaInv'
<1> USE DEF MediaInv
<1>1. /\ UNCHANGED <<media, request, faulty>> /\ archived' \subseteq Products /\ late' \subseteq late
      /\ objects' \subseteq [key : Keys, type : Formats] /\ ServedAsWhatItIs'
      /\ \A k \in Keys : Stored(k)' => Stored(k) \/ k \in faulty
  <2>1. CASE \E l \in late : ArrivesLate(l)
    <3>1. PICK l \in late : ArrivesLate(l)
      BY <2>1
    <3>2. l.call \in {"put", "delete"} /\ l.key \in Keys \cap faulty /\ (l.call = "put" => Checked(l.key, l.type))
      BY DEF MediaTypes, LateCalls, LateAgrees
    <3>3. /\ UNCHANGED <<archived, media, request, faulty>> /\ late' \subseteq late
          /\ objects' = IF l.call = "delete" THEN Without(l.key) ELSE With(l.key, l.type)
      BY <3>1 DEF ArrivesLate
    <3>4. /\ objects' \subseteq [key : Keys, type : Formats] /\ ServedAsWhatItIs'
          /\ \A k \in Keys : Stored(k)' => Stored(k) \/ k = l.key
      <4>1. CASE l.call = "delete"
        BY <3>2, <3>3, <4>1, DeleteEffect
      <4>2. CASE l.call = "put"
        BY <3>2, <3>3, <4>2, PutEffect
      <4> QED BY <3>2, <4>1, <4>2
    <3> QED BY <3>2, <3>3, <3>4 DEF MediaTypes
  <2>2. CASE (\E p \in Products : Archive(p)) \/ UNCHANGED mediaVars
    BY <2>2 DEF Archive, mediaVars, MediaTypes, ServedAsWhatItIs, Stored
  <2> QED BY <2>1, <2>2
<1>2. MediaTypes'
  BY <1>1 DEF MediaTypes
<1>3. UploadsAgree' /\ LateAgrees' /\ PrimaryIsOne' /\ RowsOfProducts'
  BY <1>1 DEF UploadsAgree, Working, LateAgrees, PrimaryIsOne, RowsOfProducts, Rows
<1>4. NothingIsLeftBehind'
  <2> SUFFICES ASSUME NEW o \in objects', o.key \notin faulty', References(o.key)' = {}
               PROVE  Workers(o.key)' # {}
    BY DEF NothingIsLeftBehind
  <2>1. Stored(o.key) /\ References(o.key) = {} /\ Workers(o.key)' = Workers(o.key)
    BY <1>1 DEF Stored, References, Rows, Workers, MediaTypes
  <2> QED BY <1>1, <2>1 DEF NothingIsLeftBehind, Stored
<1> QED BY <1>1, <1>2, <1>3, <1>4

LEMMA MediaStarts ==
    ASSUME FolderAssumption, FormatAssumption, MediaInit
    PROVE  MediaInv
<1>1. media \in [Requests -> MediaRows] /\ request \in [Requests -> Uploads] /\ Rows = {}
  BY DEF MediaInit, MediaRows, Uploads, NoRow, NoUpload, Names, Types, Steps, Rows
<1>2. MediaTypes /\ UploadsAgree
  BY <1>1 DEF MediaInit, MediaTypes, UploadsAgree, Working, NoUpload
<1> QED BY <1>1, <1>2 DEF MediaInit, MediaInv, LateAgrees, PrimaryIsOne, RowsOfProducts, ServedAsWhatItIs,
                         NothingIsLeftBehind

LEMMA MediaKept ==
    ASSUME FolderAssumption, FormatAssumption, MediaInv, [MediaNext]_mediaVars
    PROVE  MediaInv'
<1>1. CASE \E r \in Requests, p \in Products, primary \in BOOLEAN : AddLink(r, p, primary)
  BY <1>1, RowSteps
<1>2. CASE \E r, m \in Requests : SetPrimary(r, m)
  <2>1. PICK r \in Requests, m \in Requests : SetPrimary(r, m)
    BY <1>2
  <2>2. PICK p \in Products : p = media[m].product
    BY <2>1 DEF MediaInv, RowsOfProducts, SetPrimary
  <2> QED BY <2>1, RowSteps
<1>3. CASE \E r, m \in Requests : RemoveMedia(r, m)
  BY <1>3, RemoveStep
<1>4. CASE \E r \in Requests, p \in Products, primary \in BOOLEAN, file \in Files, declared \in Formats :
             Upload(r, p, file, declared, primary)
  BY <1>4, UploadStep
<1>5. CASE \E r \in Requests : \/ Put(r) \/ PutFails(r) \/ CountReferences(r) \/ CountFails(r)
                               \/ DeleteObject(r) \/ DeleteFails(r) \/ Crash(r)
  BY <1>5, WorkerStep
<1>6. CASE \E r \in Requests : AddMedia(r) \/ AddMediaFails(r)
  BY <1>6, AddStep
<1>7. CASE (\E l \in late : ArrivesLate(l)) \/ (\E p \in Products : Archive(p)) \/ UNCHANGED mediaVars
  BY <1>7, OtherStep
<1> QED BY <1>1, <1>2, <1>3, <1>4, <1>5, <1>6, <1>7 DEF MediaNext

\* Rows are well-typed and a product has one primary picture, an object is served as what its
\* bytes are, and nothing is left in the bucket without a fault, for any requests, overlapping
\* or not (detectImageFormat, setPrimaryProductMedia, cleanupUnreferencedProductMedia).
THEOREM BucketIsClean ==
    FolderAssumption /\ FormatAssumption =>
      (MediaSpec => [](MediaTypeOK /\ ServedAsWhatItIs /\ NothingIsLeftBehind))
<1> SUFFICES ASSUME FolderAssumption, FormatAssumption
             PROVE  MediaSpec => [](MediaTypeOK /\ ServedAsWhatItIs /\ NothingIsLeftBehind)
  OBVIOUS
<1>1. MediaInv => MediaTypeOK /\ ServedAsWhatItIs /\ NothingIsLeftBehind
  BY DEF MediaInv, MediaTypes, MediaTypeOK, PrimaryIsOne, RowsOfProducts, Rows, MediaRows, Uploads
<1>2. MediaInit => MediaInv
  BY MediaStarts
<1>3. MediaInv /\ [MediaNext]_mediaVars => MediaInv'
  BY MediaKept
<1> QED BY <1>1, <1>2, <1>3, PTL DEF MediaSpec

\* A row is shown when requests refer to its key.
LEMMA ShownRows ==
    ASSUME FolderAssumption, FormatAssumption
    PROVE  /\ MediaTypes => (ShownPictureIsStored <=> \A k \in Keys : References(k) # {} => Stored(k))
           /\ MediaTypes' => (ShownPictureIsStored' <=> \A k \in Keys : References(k)' # {} => Stored(k)')
<1>1. ASSUME MediaTypes PROVE ShownPictureIsStored <=> \A k \in Keys : References(k) # {} => Stored(k)
  BY <1>1, MediaKeys DEF ShownPictureIsStored, References, Rows, MediaTypes, MediaRows
<1>2. ASSUME MediaTypes'
      PROVE  ShownPictureIsStored' <=> \A k \in Keys : References(k)' # {} => Stored(k)'
  BY <1>2, MediaKeys DEF ShownPictureIsStored, References, Rows, MediaTypes, MediaRows
<1> QED BY <1>1, <1>2

\* A request that comes for the rows, or begins on a key that is free.
LEMMA SingleBegins ==
    ASSUME FolderAssumption, FormatAssumption, MediaInv, MediaInv', SingleInv, NEW r \in Requests,
           ~Working(r), UNCHANGED <<objects, late>>,
           \A q \in Requests \ {r} : request'[q] = request[q],
           request'[r].step \in {"put", "count", "done"},
           \A k \in Keys : References(k)' \subseteq References(k),
           \A k \in Keys : Mine(r, k)' => Workers(k) = {} /\ \A l \in late : l.key # k
    PROVE  SingleInv'
<1> USE DEF SingleInv
<1>1. \A k \in Keys, q \in Requests : q # r => (Mine(q, k)' <=> Mine(q, k)) /\ request'[q] = request[q]
  BY DEF Mine, Working
<1>2. \A k \in Keys, q \in Requests : Mine(r, k)' => ~Mine(q, k)
  BY MediaWorkers DEF MediaInv
<1>3. \A l \in late : l.key \in Keys
  BY DEF MediaInv, MediaTypes, LateCalls
<1>4. Alone'
  BY <1>1, <1>2, <1>3 DEF Alone
<1>5. \A q \in Requests : request[q].step \in {"add", "delete"} => request[q].key \in Keys
  BY DEF MediaInv, UploadsAgree, Working
<1>6. Doomed'
  BY <1>1, <1>3, <1>5 DEF Doomed
<1>7. Ready'
  BY <1>1, <1>5 DEF Ready, Stored
<1>8. ShownPictureIsStored'
  BY ShownRows DEF MediaInv, Stored
<1> QED BY <1>4, <1>6, <1>7, <1>8

LEMMA SingleWorks ==
    ASSUME FolderAssumption, FormatAssumption, MediaInv, MediaInv', SingleInv, NEW r \in Requests,
           \/ Put(r) \/ PutFails(r) \/ CountReferences(r) \/ CountFails(r)
           \/ DeleteObject(r) \/ DeleteFails(r) \/ Crash(r)
    PROVE  SingleInv'
<1> USE DEF SingleInv
<1> PICK key : key = request[r].key
  OBVIOUS
<1>1. Working(r) /\ Mine(r, key) /\ key \in Keys /\ media' = media
  BY DEF Put, PutFails, CountReferences, CountFails, DeleteObject, DeleteFails, Crash,
         MediaInv, MediaTypes, Uploads, Steps, UploadsAgree, Working, Mine
<1>2. PICK step \in Steps :
        /\ request' = [request EXCEPT ![r].step = step]
        /\ step \in {"add", "count", "delete", "done"}
        /\ step = "add" => request[r].step = "put" /\ objects' = With(key, request[r].type) /\ late' = late
        /\ step = "delete" => request[r].step = "count" /\ References(key) = {}
        /\ late' # late => \/ step = "count" /\ \E l : l.call = "put" /\ l.key = key /\ late' = late \cup {l}
                           \/ /\ step = "done" /\ request[r].step = "delete"
                              /\ \E l : l.call = "delete" /\ l.key = key /\ late' = late \cup {l}
  BY DEF Put, PutFails, CountReferences, CountFails, DeleteObject, DeleteFails, Crash, Continue,
         Answer, Unreferenced, Steps
<1>3. /\ request'[r].step = step /\ request'[r].key = key
      /\ \A q \in Requests \ {r} : request'[q] = request[q]
  BY <1>2, RequestMoves DEF MediaInv
<1>4. \A k \in Keys : Stored(k)' \/ ~Stored(k) \/ (k = key /\ request[r].step = "delete")
  <2>1. \/ objects' = objects
        \/ request[r].step = "put" /\ objects' = With(key, request[r].type)
        \/ request[r].step = "delete" /\ objects' = Without(key)
    BY DEF Put, PutFails, CountReferences, CountFails, DeleteObject, DeleteFails, Crash
  <2>2. request[r].step = "put" => Checked(key, request[r].type)
    BY DEF MediaInv, UploadsAgree
  <2> QED BY <1>1, <2>1, <2>2, PutEffect, DeleteEffect DEF MediaInv, Stored
<1>5. \A k : References(k)' = References(k)
  BY <1>1 DEF References, Rows
<1>6. \A q \in Requests : Mine(q, key) => q = r
  BY <1>1 DEF Alone
<1>7. \A q \in Requests \ {r} : \A k : Mine(q, k)' <=> Mine(q, k)
  BY <1>3 DEF Mine, Working
<1>8. \A l \in late' : \/ l \in late
                       \/ l.key = key /\ l.call = "put" /\ step = "count"
                       \/ l.key = key /\ l.call = "delete" /\ step = "done" /\ request[r].step = "delete"
  BY <1>2
<1>9. \A l \in late' : l.key \in Keys
  BY DEF MediaInv, MediaTypes, LateCalls
<1>10. Alone'
  <2>1. \A q, p \in Requests : \A k \in Keys : Mine(q, k)' /\ Mine(p, k)' => q = p
    BY <1>1, <1>3, <1>6, <1>7 DEF Alone, Mine
  <2>2. ASSUME NEW q \in Requests, NEW l \in late', Mine(q, l.key)'
        PROVE  l.call = "put" /\ request'[q].step \in {"count", "delete"}
    <3>1. CASE q # r
      BY <1>3, <1>6, <1>7, <1>8, <2>2, <3>1 DEF Alone
    <3>2. CASE q = r
      <4>1. l.key = key /\ step # "done"
        BY <1>3, <2>2, <3>2 DEF Mine, Working
      <4>2. CASE l \in late
        BY <1>1, <1>2, <1>3, <3>2, <4>1, <4>2 DEF Alone
      <4> QED BY <1>3, <1>8, <3>2, <4>1, <4>2
    <3> QED BY <3>1, <3>2
  <2> QED BY <2>1, <2>2 DEF Alone
<1>11. Doomed'
  BY <1>1, <1>2, <1>3, <1>5, <1>8 DEF Doomed
<1>12. Ready'
  <2>1. step = "add" => Stored(key)'
    BY <1>1, <1>2, PutEffect DEF MediaInv, UploadsAgree
  <2>2. ASSUME NEW q \in Requests \ {r}, request[q].step = "add"
        PROVE  Stored(request[q].key)'
    <3>1. Mine(q, request[q].key) /\ request[q].key \in Keys
      BY <2>2 DEF MediaInv, UploadsAgree, Mine, Working
    <3> QED BY <1>3, <1>4, <1>6, <2>2, <3>1 DEF Ready
  <2> QED BY <1>3, <2>1, <2>2 DEF Ready
<1>13. ShownPictureIsStored'
  BY <1>1, <1>4, <1>5, ShownRows DEF MediaInv, Doomed
<1> QED BY <1>10, <1>11, <1>12, <1>13

LEMMA SingleAdds ==
    ASSUME FolderAssumption, FormatAssumption, MediaInv, MediaInv', SingleInv, NEW r \in Requests,
           AddMedia(r) \/ AddMediaFails(r)
    PROVE  SingleInv'
<1> USE DEF SingleInv
<1> PICK key : key = request[r].key
  OBVIOUS
<1>1. /\ request[r].step = "add" /\ Mine(r, key) /\ key \in Keys /\ Stored(key)
      /\ request[r].product \in Products /\ request[r].primary \in BOOLEAN
      /\ UNCHANGED <<objects, late>>
  BY DEF AddMedia, AddMediaFails, MediaInv, MediaTypes, Uploads, UploadsAgree, Working, Mine, Ready
<1>2. PICK step \in {"count", "done"} : request' = [request EXCEPT ![r].step = step]
  BY DEF AddMedia, AddMediaFails, Continue, Answer, AfterRefusal
<1>3. /\ request'[r].step = step /\ request'[r].key = key
      /\ \A q \in Requests \ {r} : request'[q] = request[q]
  BY <1>2, RequestMoves DEF MediaInv, Steps
<1>4. \A k \in Keys : k = key \/ References(k)' \subseteq References(k)
  <2>1. CASE media' = media
    BY <2>1 DEF References, Rows
  <2>2. CASE media' = Added(r, request[r].product, key, request[r].primary)
    BY <1>1, <2>2, AddedRow, MediaReferences DEF MediaInv
  <2> QED BY <2>1, <2>2 DEF AddMedia, AddMediaFails
<1>5. \A q \in Requests : Mine(q, key) => q = r
  BY <1>1 DEF Alone
<1>6. \A q \in Requests \ {r} : \A k : Mine(q, k)' <=> Mine(q, k)
  BY <1>3 DEF Mine, Working
<1>7. \A l \in late : l.key \in Keys /\ l.key # key
  BY <1>1 DEF Alone, MediaInv, MediaTypes, LateCalls
<1>8. Alone'
  <2>1. \A q, p \in Requests : \A k \in Keys : Mine(q, k)' /\ Mine(p, k)' => q = p
    BY <1>1, <1>3, <1>5, <1>6 DEF Alone, Mine
  <2>2. \A q \in Requests, l \in late : Mine(q, l.key)' => q # r
    BY <1>3, <1>7 DEF Mine
  <2> QED BY <1>1, <1>3, <1>6, <2>1, <2>2 DEF Alone
<1>9. \A q \in Requests \ {r} : request[q].step \in {"add", "delete"} =>
        request[q].key \in Keys /\ request[q].key # key
  BY <1>5 DEF MediaInv, UploadsAgree, Mine, Working
<1>10. Doomed'
  BY <1>1, <1>3, <1>4, <1>7, <1>9 DEF Doomed
<1>11. Ready'
  BY <1>1, <1>3, <1>9 DEF Ready, Stored
<1>12. ShownPictureIsStored'
  BY <1>1, <1>4, ShownRows DEF MediaInv, Stored
<1> QED BY <1>8, <1>10, <1>11, <1>12

LEMMA SingleElse ==
    ASSUME FolderAssumption, FormatAssumption, MediaInv, MediaInv', SingleInv,
           (\E l \in late : ArrivesLate(l)) \/ (\E p \in Products : Archive(p)) \/ UNCHANGED mediaVars
    PROVE  SingleInv'
<1> USE DEF SingleInv
<1>1. /\ UNCHANGED <<media, request>> /\ late' \subseteq late
      /\ \A k \in Keys : Stored(k)' \/ ~Stored(k) \/ \E l \in late : l.call = "delete" /\ l.key = k
  <2>1. CASE \E l \in late : ArrivesLate(l)
    <3>1. PICK l \in late : ArrivesLate(l)
      BY <2>1
    <3>2. l.call \in {"put", "delete"} /\ l.key \in Keys /\ (l.call = "put" => Checked(l.key, l.type))
      BY DEF MediaInv, MediaTypes, LateCalls, LateAgrees
    <3>3. /\ UNCHANGED <<media, request>> /\ late' \subseteq late
          /\ objects' = IF l.call = "delete" THEN Without(l.key) ELSE With(l.key, l.type)
      BY <3>1 DEF ArrivesLate
    <3>4. CASE l.call = "delete"
      BY <3>2, <3>3, <3>4, DeleteEffect DEF MediaInv
    <3>5. CASE l.call = "put"
      BY <3>2, <3>3, <3>5, PutEffect DEF MediaInv
    <3> QED BY <3>2, <3>4, <3>5
  <2>2. CASE (\E p \in Products : Archive(p)) \/ UNCHANGED mediaVars
    BY <2>2 DEF Archive, mediaVars, Stored
  <2> QED BY <2>1, <2>2
<1>2. /\ \A k : References(k)' = References(k)
      /\ \A q, k : Mine(q, k)' <=> Mine(q, k)
  BY <1>1 DEF References, Rows, Mine, Working
<1>3. Alone' /\ Doomed'
  BY <1>1, <1>2 DEF Alone, Doomed
<1>4. \A q \in Requests : request[q].step = "add" => request[q].key \in Keys /\ Mine(q, request[q].key)
  BY DEF MediaInv, UploadsAgree, Mine, Working
<1>5. Ready'
  BY <1>1, <1>4 DEF Ready, Alone
<1>6. ShownPictureIsStored'
  BY <1>1, <1>2, ShownRows DEF MediaInv, Doomed
<1> QED BY <1>3, <1>5, <1>6

LEMMA SingleKept ==
    ASSUME FolderAssumption, FormatAssumption, ~Overlap, MediaInv, MediaInv', SingleInv,
           [MediaNext]_mediaVars
    PROVE  SingleInv'
<1>1. CASE \E r \in Requests, p \in Products, primary \in BOOLEAN : AddLink(r, p, primary)
  <2>1. PICK r \in Requests, p \in Products, primary \in BOOLEAN : AddLink(r, p, primary)
    BY <1>1
  <2>2. /\ ~Working(r) /\ UNCHANGED <<objects, late>> /\ media' = Added(r, p, NoKey, primary)
        /\ request' = [request EXCEPT ![r].step = "done"]
    BY <2>1 DEF AddLink, Answer, Working
  <2>3. request'[r].step = "done" /\ \A q \in Requests \ {r} : request'[q] = request[q]
    BY <2>2, RequestMoves DEF MediaInv, Steps
  <2>4. \A k \in Keys : References(k)' \subseteq References(k)
    BY <2>2, AddedRow, MediaReferences, MediaKeys DEF MediaInv
  <2> QED BY <2>2, <2>3, <2>4, SingleBegins DEF Mine, Working
<1>2. CASE \E r, m \in Requests : SetPrimary(r, m)
  <2>1. PICK r \in Requests, m \in Requests : SetPrimary(r, m)
    BY <1>2
  <2>2. /\ ~Working(r) /\ UNCHANGED <<objects, late>>
        /\ request' = [request EXCEPT ![r].step = "done"]
    BY <2>1 DEF SetPrimary, Answer, Working
  <2>3. request'[r].step = "done" /\ \A q \in Requests \ {r} : request'[q] = request[q]
    BY <2>2, RequestMoves DEF MediaInv, Steps
  <2>4. \A k \in Keys : References(k)' \subseteq References(k)
    BY <2>1, ChosenRow, MediaReferences DEF MediaInv
  <2> QED BY <2>2, <2>3, <2>4, SingleBegins DEF Mine, Working
<1>3. CASE \E r, m \in Requests : RemoveMedia(r, m)
  <2>1. PICK r \in Requests, m \in Requests : RemoveMedia(r, m)
    BY <1>3
  <2>2. PICK key : key = media[m].key
    OBVIOUS
  <2> DEFINE q == [NoUpload EXCEPT !.step = IF key = NoKey THEN "done" ELSE "count", !.key = key]
  <2>3. /\ ~Working(r) /\ UNCHANGED <<objects, late>> /\ media' = [media EXCEPT ![m] = NoRow]
        /\ request' = [request EXCEPT ![r] = q] /\ (key = NoKey \/ Free(key))
    BY <2>1, <2>2 DEF RemoveMedia, Working
  <2>4. q \in Uploads /\ q.step \in {"count", "done"} /\ q.key = key /\ (q.step = "count" => Free(key))
    BY <2>2, <2>3 DEF MediaInv, MediaTypes, MediaRows, NoUpload, Uploads, Steps, Names, Types
  <2> HIDE DEF q
  <2>5. request'[r] = q /\ \A s \in Requests \ {r} : request'[s] = request[s]
    BY <2>3, <2>4, RequestBegins DEF MediaInv
  <2>6. \A k \in Keys : References(k)' \subseteq References(k)
    BY <2>3, RemovedRow DEF MediaInv, References, Rows
  <2>7. \A k \in Keys : Mine(r, k)' => k = key /\ Free(key)
    BY <2>4, <2>5 DEF Mine, Working
  <2> QED BY <2>3, <2>4, <2>5, <2>6, <2>7, SingleBegins DEF Free
<1>4. CASE \E r \in Requests, p \in Products, primary \in BOOLEAN, file \in Files, declared \in Formats :
             Upload(r, p, file, declared, primary)
  <2>1. PICK r \in Requests, p \in Products, primary \in BOOLEAN, file \in Files, declared \in Formats :
               Upload(r, p, file, declared, primary)
    BY <1>4
  <2> DEFINE q == [step |-> "put", product |-> p, key |-> Key(p, file), type |-> TypeOf(file, declared),
                   primary |-> primary]
  <2>2. /\ ~Working(r) /\ UNCHANGED <<media, objects, late>> /\ Free(Key(p, file))
        /\ request' = [request EXCEPT ![r] = q]
    BY <2>1 DEF Upload, Working
  <2>3. request'[r] = q /\ \A s \in Requests \ {r} : request'[s] = request[s]
    BY <2>2 DEF MediaInv, MediaTypes
  <2>4. \A k \in Keys : References(k)' \subseteq References(k)
    BY <2>2 DEF References, Rows
  <2>5. \A k \in Keys : Mine(r, k)' => k = Key(p, file)
    BY <2>3 DEF Mine
  <2> QED BY <2>2, <2>3, <2>4, <2>5, SingleBegins DEF Free
<1>5. CASE \E r \in Requests : \/ Put(r) \/ PutFails(r) \/ CountReferences(r) \/ CountFails(r)
                               \/ DeleteObject(r) \/ DeleteFails(r) \/ Crash(r)
  BY <1>5, SingleWorks
<1>6. CASE \E r \in Requests : AddMedia(r) \/ AddMediaFails(r)
  BY <1>6, SingleAdds
<1>7. CASE (\E l \in late : ArrivesLate(l)) \/ (\E p \in Products : Archive(p)) \/ UNCHANGED mediaVars
  BY <1>7, SingleElse
<1> QED BY <1>1, <1>2, <1>3, <1>4, <1>5, <1>6, <1>7 DEF MediaNext

\* A picture the shop shows is in the bucket, whatever calls fail or arrive late, if requests
\* about one key do not overlap.
THEOREM ShownPicturesAreStored ==
    FolderAssumption /\ FormatAssumption /\ ~Overlap => (MediaSpec => []ShownPictureIsStored)
<1> SUFFICES ASSUME FolderAssumption, FormatAssumption, ~Overlap
             PROVE  MediaSpec => []ShownPictureIsStored
  OBVIOUS
<1>1. MediaInit => MediaInv /\ SingleInv
  <2> SUFFICES ASSUME MediaInit PROVE MediaInv /\ SingleInv
    OBVIOUS
  <2>1. MediaInv /\ Rows = {}
    BY MediaStarts DEF MediaInit, Rows
  <2>2. \A r \in Requests : ~Working(r) /\ request[r].step = "idle"
    BY DEF MediaInit, NoUpload, Working
  <2> QED BY <2>1, <2>2 DEF MediaInit, SingleInv, Alone, Doomed, Ready, ShownPictureIsStored, Mine
<1>2. MediaInv /\ SingleInv /\ [MediaNext]_mediaVars => (MediaInv /\ SingleInv)'
  BY MediaKept, SingleKept
<1>3. SingleInv => ShownPictureIsStored
  BY DEF SingleInv
<1> QED BY <1>1, <1>2, <1>3, PTL DEF MediaSpec
=============================================================================
