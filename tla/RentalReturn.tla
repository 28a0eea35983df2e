---------------------------- MODULE RentalReturn ----------------------------
(***************************************************************************)
(* The return of one order, piece by piece: every piece that is out is     *)
(* inspected once, goes back to the warehouse in the condition it is in,   *)
(* and bears its own time fee and compensation; until the settlement the   *)
(* clerk may agree another time fee for a piece, which replaces the        *)
(* charges recorded for it.  How much time costs is in RentalAgreement,    *)
(* the payments are in RentalLedger.                                       *)
(***************************************************************************)
EXTENDS Integers, Sequences, FiniteSetsExt

CONSTANTS Pieces,       \* inventory items
          Out,          \* those this order has out
          Free,         \* those of them that are free accessories
          Findings,     \* conditions the pieces may come back in: [Out -> Condition]
          Calculations, \* time fees a paid piece may come to: [late, extra]
          Agreed,       \* time fees a clerk may agree instead
          Damages,      \* charges the inspection may find: [Out -> [type, amount] or None]
          Extra         \* [type, amount, quantity] of manual charges

PiecesAssumption == Out \subseteq Pieces /\ Free \subseteq Out /\ IsFiniteSet(Out)

VARIABLES orderStatus, \* rental_orders.status, from the hand-over on
          warehouse,  \* inventory_items: current_status and total_rental_count
          inspection, \* rental_return_inspections
          chargeRows, \* rental_order_charges not voided
          chargesTotal, \* rental_orders.charges_total
          record      \* rental_returns: the sums of both time fees

returnVars == <<orderStatus, warehouse, inspection, chargeRows, chargesTotal, record>>

None == [none |-> TRUE]
Given(x) == x # None

Condition == {"NORMAL", "CLEANING_REQUIRED", "REPAIR_REQUIRED", "DAMAGED", "LOST"}

\* What the piece of a charge is that is for none.
NoPiece == "-"

\* What a request may say: conditions of the list, amounts that are not negative.
FeesAssumption ==
    /\ NoPiece \notin Pieces
    /\ Findings \subseteq [Out -> Condition]
    /\ Calculations \subseteq [late : Nat, extra : Nat] /\ Agreed \subseteq Nat
    /\ Damages \subseteq [Out -> {None} \cup [type : STRING, amount : Nat]]
    /\ Extra \subseteq [type : STRING, amount : Nat, quantity : Nat]

\* INSPECTION_TO_INVENTORY_STATUS
WarehouseStatus ==
    [NORMAL |-> "AVAILABLE", CLEANING_REQUIRED |-> "CLEANING", REPAIR_REQUIRED |-> "REPAIRING",
     DAMAGED |-> "DAMAGED", LOST |-> "LOST"]

TimeFeeSources == {"RETURN_TIME_FEE", "SETTLEMENT_TIME_FEE"}

\* "piece" is metadata.inventoryItemId, "source" metadata.source.
Charge(piece, source, type, amount) ==
    [piece |-> piece, source |-> source, type |-> type, amount |-> amount]

ChargeSum(rows) == MapThenSumSet(LAMBDA c : c.amount, rows)
TimeFee(i) == inspection[i].late + inspection[i].extra

\* Both sums of the time fees of the pieces.
TimeFeesOf(fees) == [late |-> MapThenSumSet(LAMBDA i : fees[i].late, Out),
                     extra |-> MapThenSumSet(LAMBDA i : fees[i].extra, Out)]

-----------------------------------------------------------------------------
(* The return *)

\* Only counts the pieces, and knows each of them.
CountedOnly(list) == Len(list) = Cardinality(Out) /\ \A k \in DOMAIN list : list[k] \in Out

\* assertReturnInspection
InspectionComplete(list) ==
    /\ Len(list) = Cardinality(Out)
    /\ \A k \in DOMAIN list : list[k] \in Out
    /\ \A j, k \in DOMAIN list : list[j] = list[k] => j = k

\* calculateRentalReturnFees for one piece: an agreed fee is the whole of it.
AgreedAsChange(calculated, agreed) ==
    [late |-> IF Given(agreed) THEN agreed.amount - calculated.late ELSE calculated.late,
     extra |-> calculated.extra]
FeeOf(calculated, agreed) ==
    IF Given(agreed) THEN [late |-> agreed.amount, extra |-> 0] ELSE calculated

NoFee == [late |-> 0, extra |-> 0]

AnyDamage(i) == {"CLEANING", "REPAIR", "DAMAGE", "LOST_ITEM"}
DamageTypesOf(i) ==
    IF i \in Free THEN {"REPAIR", "DAMAGE", "LOST_ITEM"}
    ELSE {"CLEANING", "REPAIR", "DAMAGE", "LOST_ITEM"}

\* A row for each of both fees, none for a fee of zero unless it was agreed.
TimeFeeRows(i, fee, agreed) ==
    {c \in {Charge(i, "RETURN_TIME_FEE", "LATE", fee.late),
            Charge(i, "RETURN_TIME_FEE", "RENTAL_EXTRA", fee.extra)} :
        c.amount > 0 \/ (c.type = "LATE" /\ Given(agreed))}

DamageRows(i, damage) ==
    IF Given(damage) THEN {Charge(i, "RETURN_INSPECTION", damage.type, damage.amount)} ELSE {}

ExtraRows(extra) ==
    IF Given(extra) /\ extra.amount > 0
    THEN {Charge(NoPiece, "RETURN_MANUAL_CHARGE", extra.type, extra.amount * extra.quantity)}
    ELSE {}

\* What is recorded of a piece that comes back.
Inspected(condition, fee) == [condition |-> condition, late |-> fee.late, extra |-> fee.extra]
BackInWarehouse(i, condition, times) ==
    [status |-> WarehouseStatus[condition], rentals |-> warehouse[i].rentals + times]

\* receiveReturn: "list" names the pieces inspected, "calculated" their time
\* fees, "agreed" the fees agreed instead, "damage" the compensation found.
Receive(list, condition, calculated, agreed, damage, extra) ==
    LET inspected == {list[k] : k \in DOMAIN list}
        fee == [i \in Out |-> IF i \in Free THEN NoFee ELSE FeeOf(calculated[i], agreed[i])]
        rows == (UNION {TimeFeeRows(i, fee[i], agreed[i]) \cup DamageRows(i, damage[i]) : i \in inspected})
                \cup ExtraRows(extra)
    IN  /\ orderStatus = "ACTIVE"
        /\ InspectionComplete(list)
        /\ \A i \in Free : ~Given(agreed[i])
        /\ \A i \in Out : Given(damage[i]) => damage[i].type \in DamageTypesOf(i)
        /\ Given(extra) => extra.type \notin {"LATE", "RENTAL_EXTRA"}
        /\ orderStatus' = "RETURNED"
        /\ warehouse' = [i \in Pieces |->
                IF i \in inspected
                THEN BackInWarehouse(i, condition[i], Cardinality({k \in DOMAIN list : list[k] = i}))
                ELSE warehouse[i]]
        /\ inspection' = [i \in Pieces |->
                IF i \in inspected THEN Inspected(condition[i], fee[i]) ELSE None]
        /\ chargeRows' = chargeRows \cup rows
        /\ chargesTotal' = chargesTotal + ChargeSum(rows)
        /\ record' = TimeFeesOf(fee)

\* addCharge, of any type; once, to bound the model.
AddChargeOnReturn(type, amount) ==
    LET row == Charge(NoPiece, "ADDED", type, amount) IN
    /\ orderStatus \in {"ACTIVE", "RETURNED"}
    /\ \A c \in chargeRows : c.source # "ADDED"
    /\ chargeRows' = chargeRows \cup {row}
    /\ chargesTotal' = chargesTotal + amount
    /\ UNCHANGED <<orderStatus, warehouse, inspection, record>>

-----------------------------------------------------------------------------
(* The settlement *)

\* Looks only for the fees of the return's late charges.
LateRowsOf(i) == {c \in chargeRows : c.piece = i /\ c.type = "LATE"}

TimeFeeRowsOf(i) == {c \in chargeRows : c.piece = i /\ c.source \in TimeFeeSources}

\* "changes" maps the pieces whose time fee is agreed anew to that fee.
FeesAreRecorded(changes) == \A i \in DOMAIN changes : ChargeSum(TimeFeeRowsOf(i)) = TimeFee(i)

Delta(changes) == MapThenSumSet(LAMBDA i : changes[i] - TimeFee(i), DOMAIN changes)

\* settleOrder, what evaluateSettlementFees and persistSettlementFeeAdjustments do.
Settle(changes) ==
    LET voided == UNION {TimeFeeRowsOf(i) : i \in DOMAIN changes}
        added == {Charge(i, "SETTLEMENT_TIME_FEE", "LATE", changes[i]) : i \in DOMAIN changes}
        settled == [i \in Pieces |->
                       IF i \in DOMAIN changes
                       THEN [inspection[i] EXCEPT !.late = changes[i], !.extra = 0] ELSE inspection[i]]
    IN  /\ orderStatus = "RETURNED"
        /\ chargesTotal + Delta(changes) >= 0
        /\ FeesAreRecorded(changes)     \* else RETURN_FEE_LEDGER_MISMATCH
        /\ orderStatus' = "COMPLETED"
        /\ chargeRows' = (chargeRows \ voided) \cup added
        /\ inspection' = settled
        /\ chargesTotal' = chargesTotal + Delta(changes)
        /\ record' = IF DOMAIN changes = {} THEN record ELSE TimeFeesOf(settled)
        /\ UNCHANGED warehouse

-----------------------------------------------------------------------------

ReturnInit ==
    /\ orderStatus = "ACTIVE"
    /\ warehouse = [i \in Pieces |-> [status |-> "AVAILABLE", rentals |-> 0]]
    /\ inspection = [i \in Pieces |-> None]
    /\ chargeRows = {} /\ chargesTotal = 0
    /\ record = NoFee

Optional(S) == {None} \cup S
Lists == UNION {[1..n -> Pieces] : n \in {Cardinality(Out) - 1, Cardinality(Out)}}

ReturnNext ==
    \/ \E list \in Lists :
          /\ InspectionComplete(list)
          /\ \E condition \in Findings,
                calculated \in [Out \ Free -> Calculations],
                agreed \in [Out -> Optional({[amount |-> a] : a \in Agreed})],
                damage \in Damages, extra \in Optional(Extra) :
                   Receive(list, condition, calculated, agreed, damage, extra)
    \/ \E type \in {"LATE", "SHIPPING"} : AddChargeOnReturn(type, 1)
    \/ \E S \in SUBSET (Out \ Free) : \E changes \in [S -> Agreed] : Settle(changes)

ReturnSpec == ReturnInit /\ [][ReturnNext]_returnVars

-----------------------------------------------------------------------------
(* Properties *)

\* Charges are rows of the order, amounts are never negative.
ReturnTypeOK ==
    /\ orderStatus \in {"ACTIVE", "RETURNED", "COMPLETED"}
    /\ \A i \in Pieces : inspection[i] = None \/ inspection[i].condition \in Condition
    /\ \A c \in chargeRows : c.piece \in Pieces \cup {NoPiece} /\ c.amount >= 0
    /\ chargesTotal >= 0

(***************************************************************************)
(* Whatever list a clerk sends, after a return each piece that was out has *)
(* been inspected and counted once and is in the warehouse as it was found,*)
(* and no other piece was touched (assertReturnInspection).                *)
(***************************************************************************)
EveryPieceIsInspectedOnce ==
    orderStatus # "ACTIVE" =>
        \A i \in Pieces :
            IF i \in Out
            THEN /\ Given(inspection[i])
                 /\ warehouse[i] = [status |-> WarehouseStatus[inspection[i].condition], rentals |-> 1]
            ELSE inspection[i] = None /\ warehouse[i].rentals = 0

(***************************************************************************)
(* The charges recorded for the time of a piece are the fee on its         *)
(* inspection record, fees agreed at the return or at the settlement and   *)
(* fees of zero included, so no agreement is refused for a mismatch; and   *)
(* the return record and the bill add up (rental-settlement-fees.ts).      *)
(***************************************************************************)
ChargesMatchInspections ==
    /\ \A i \in Pieces : Given(inspection[i]) => ChargeSum(TimeFeeRowsOf(i)) = TimeFee(i)
    /\ orderStatus # "ACTIVE" => record = TimeFeesOf(inspection)
    /\ chargesTotal = ChargeSum(chargeRows)

(***************************************************************************)
(* A free accessory is charged for loss or damage and for nothing else,    *)
(* however late it comes back (docs/RENTAL_ACCESSORIES.md).                *)
(***************************************************************************)
FreeAccessoriesCostOnlyDamage ==
    \A c \in chargeRows : c.piece \in Free => c.type \in {"REPAIR", "DAMAGE", "LOST_ITEM"}

\* Every piece is inspected once and costs what its inspection says, and free
\* accessories cost nothing but damage.
ReturnIsAccounted ==
    /\ ReturnTypeOK
    /\ EveryPieceIsInspectedOnce
    /\ ChargesMatchInspections
    /\ FreeAccessoriesCostOnlyDamage
=============================================================================
