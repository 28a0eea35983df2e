----------------------------- MODULE RentalLedger -----------------------------
(***************************************************************************)
(* The money of one rental order: its bill (charges, totals), the payment  *)
(* ledger with its rental and deposit buckets, the payment and deposit     *)
(* status derived from both, the collateral, the settlement that closes    *)
(* the books, and what the pages of the order compute from them.           *)
(*                                                                         *)
(* Orders share no money, so one is enough.  Every command runs in one     *)
(* SERIALIZABLE transaction that locks the order row and re-reads what it  *)
(* decides on, so each is one action.  Two decisions are made on an        *)
(* earlier read: a settlement on its preview, and a customer's             *)
(* cancellation on the order page; those reads are actions of their own.   *)
(*                                                                         *)
(* Amounts are small integers.  Completed payments are kept as the sums    *)
(* the code computes from them; their rows only as far as a void needs     *)
(* them.  One returned item stands for all that may bear a time fee.       *)
(* Which items the order rents is the subject of module RentalOrders.      *)
(***************************************************************************)
EXTENDS Integers

CONSTANTS Payment,     \* manually recorded payment_transactions rows
          MaxAmount,   \* bound: the largest single amount
          MaxCharges   \* bound: no charge is added to a bill that has this much

ASSUME AmountAssumption == MaxAmount \in Nat /\ MaxCharges \in Nat

VARIABLES status,          \* rental_orders.status; "NONE" before the row exists
          total,           \* rental_orders.grand_total / charges_total
          depositRequired, \* rental_orders.deposit_required
          projection,      \* rental_orders.payment_status / deposit_status
          collateral,      \* rental_confirmations and the order's collateral columns
          charges,         \* sums of the rental_order_charges rows not voided
          fee,             \* agreed time fee on the inspection record
          payments,        \* manual payment rows
          ledger,          \* sums over the completed payments, receipts included
          settlement,      \* rental_settlements row, if any
          preview,         \* what the settlement screen was last shown
          customer         \* where the customer's cancellation request stands

vars == <<status, total, depositRequired, projection, collateral, charges, fee,
          payments, ledger, settlement, preview, customer>>

-----------------------------------------------------------------------------
(* Vocabulary *)

Amount == 1 .. MaxAmount
AmountOrZero == 0 .. MaxAmount

AtLeastZero(a) == IF a > 0 THEN a ELSE 0
Smaller(a, b) == IF a < b THEN a ELSE b

OrderStatus == {"NONE", "RESERVED", "CONFIRMED", "ACTIVE", "RETURNED", "COMPLETED", "CANCELLED"}

\* What a payment is for decides its direction.  An incoming OTHER
\* counts like a rental payment.
Purpose == {"RENTAL_PAYMENT", "DEPOSIT", "DEPOSIT_REFUND", "ORDER_REFUND", "OTHER_OUT"}
NoPayment == [purpose |-> "NONE", amount |-> 0, live |-> FALSE]
PaymentRow == [purpose : Purpose, amount : Amount, live : BOOLEAN]

\* "reversals" are the order refunds paid once the order was completed.
Sum == {"rentalIn", "orderRefund", "otherOut", "depositIn", "depositOut", "reversals"}
EmptyLedger == [s \in Sum |-> 0]

SumOf ==
    [RENTAL_PAYMENT |-> "rentalIn", DEPOSIT |-> "depositIn", DEPOSIT_REFUND |-> "depositOut",
     ORDER_REFUND |-> "orderRefund", OTHER_OUT |-> "otherOut"]

Post(l, purpose, amount) == [l EXCEPT ![SumOf[purpose]] = @ + amount]

RentalOut(l) == l.orderRefund + l.otherOut
PaidRental(l) == l.rentalIn - RentalOut(l)
DepositNet(l) == l.depositIn - l.depositOut
DepositHeld(l) == AtLeastZero(DepositNet(l))
Cash(l) == PaidRental(l) + DepositNet(l)

PaymentStatus == {"UNPAID", "PARTIALLY_PAID", "PAID", "REFUNDED"}
DepositStatus ==
    {"NOT_REQUIRED", "PENDING", "PARTIALLY_HELD", "HELD", "PARTIALLY_REFUNDED", "REFUNDED"}

PaymentStatusOf(grand, l) ==
    IF l.rentalIn > 0 /\ RentalOut(l) > 0 /\ PaidRental(l) <= 0 THEN "REFUNDED"
    ELSE IF grand <= 0 \/ PaidRental(l) >= grand THEN "PAID"
    ELSE IF PaidRental(l) > 0 THEN "PARTIALLY_PAID"
    ELSE "UNPAID"

DepositStatusOf(due, l) ==
    IF due <= 0 THEN "NOT_REQUIRED"
    ELSE IF l.depositIn > 0 /\ l.depositOut > 0 /\ DepositNet(l) <= 0 THEN "REFUNDED"
    ELSE IF l.depositOut > 0 THEN "PARTIALLY_REFUNDED"
    ELSE IF DepositNet(l) >= due THEN "HELD"
    ELSE IF DepositNet(l) > 0 THEN "PARTIALLY_HELD"
    ELSE "PENDING"

NoCollateral == [method |-> "NONE", amount |-> 0, status |-> "NONE"]
CollateralRow ==
    [method : {"NONE", "CASH", "DOCUMENT"}, amount : Nat, status : {"NONE", "HELD", "RETURNED"}]

\* The deposit the order's deposit status is measured against.
DepositDue(c, required) == IF c.method = "NONE" THEN required ELSE c.amount

\* calculateOrderPaymentState
Projection(grand, due, l) ==
    [payment |-> PaymentStatusOf(grand, l), deposit |-> DepositStatusOf(due, l)]

-----------------------------------------------------------------------------
(* Fragments of the handlers *)

\* recomputeOrderPaymentState, on the values the transaction has written.
Recompute ==
    projection' = Projection(total'.grand, DepositDue(collateral', depositRequired'), ledger')

\* Every write of the order row moves updated_at, which previews are tied to.
Touch == preview' = [preview EXCEPT !.current = FALSE]

\* Only the grand total grows.
BilledOnce(amount) == total' = [total EXCEPT !.grand = @ + amount]

Billed(amount) == total' = [grand |-> total.grand + amount, charges |-> total.charges + amount]

\* A void that only looks whether the row is there.
VoidUnchecked(p) == payments[p].live

\* Both buckets stay covered without the payment.
VoidKeepsRefundsCovered(p) ==
    LET l == Post(ledger, payments[p].purpose, -payments[p].amount) IN
    DepositNet(l) >= 0 /\ PaidRental(l) >= 0

RefundCovered(purpose, amount) ==
    /\ purpose = "DEPOSIT_REFUND" => amount <= DepositNet(ledger)
    /\ purpose = "ORDER_REFUND" => amount <= PaidRental(ledger)

\* A lock that only knows cancelled orders.
UnlessCancelled(purpose) == status \notin {"NONE", "CANCELLED"}

\* assertPaymentCreationAllowed
PaymentCreationAllowed(purpose) ==
    /\ status \notin {"NONE", "CANCELLED"}
    /\ status = "COMPLETED" => purpose = "ORDER_REFUND"

\* assertChargeMutationAllowed
ChargeMutationAllowed == status \notin {"NONE", "COMPLETED", "CANCELLED"}

NoCompletedPayments == \A p \in Payment : ~payments[p].live

-----------------------------------------------------------------------------
(* Booking and confirmation *)

InitialTotal(subtotal, extra, discount) == AtLeastZero(subtotal + extra - discount)

\* createOrder; "extra" are the explicit charges and the delivery fee.
CreateOrder(subtotal, extra, discount, deposit) ==
    /\ status = "NONE"
    /\ status' = "RESERVED"
    /\ total' = [grand |-> InitialTotal(subtotal, extra, discount), charges |-> extra]
    /\ charges' = [charges EXCEPT !.other = extra]
    /\ depositRequired' = deposit
    /\ projection' = [payment |-> IF total'.grand = 0 THEN "PAID" ELSE "UNPAID",
                      deposit |-> IF deposit = 0 THEN "NOT_REQUIRED" ELSE "PENDING"]
    /\ UNCHANGED <<collateral, fee, payments, ledger, settlement, preview, customer>>

\* Collects the whole price, whatever was paid in advance.
WholePrice == total.grand

RentalReceipt == AtLeastZero(total.grand - PaidRental(ledger))

\* confirmOrder: receipts for what is missing of the price and the deposit.
ConfirmOrder(method, amount) ==
    LET deposit == IF method = "CASH" THEN amount ELSE 0 IN
    /\ status = "RESERVED"
    /\ method = "DOCUMENT" => amount = 0
    /\ DepositHeld(ledger) <= deposit
    /\ status' = "CONFIRMED"
    /\ collateral' = [method |-> method, amount |-> amount, status |-> "HELD"]
    /\ ledger' = Post(Post(ledger, "RENTAL_PAYMENT", RentalReceipt),
                      "DEPOSIT", deposit - DepositHeld(ledger))
    /\ UNCHANGED <<total, depositRequired, charges, fee, payments, settlement, customer>>
    /\ Recompute /\ Touch

\* The hand-over moves no money.
StartOrder ==
    /\ status = "CONFIRMED"
    /\ status' = "ACTIVE"
    /\ Touch
    /\ UNCHANGED <<total, depositRequired, projection, collateral, charges, fee, payments,
                   ledger, settlement, customer>>

CancelOrder ==
    /\ status = "RESERVED"
    /\ status' = "CANCELLED"
    /\ Touch
    /\ UNCHANGED <<total, depositRequired, projection, collateral, charges, fee, payments,
                   ledger, settlement, customer>>

\* The page the customer cancels from: unpaid and without a deposit.
CheckCancellable ==
    /\ customer = "idle"
    /\ status = "RESERVED"
    /\ projection.payment = "UNPAID"
    /\ projection.deposit \in {"PENDING", "NOT_REQUIRED"}
    /\ customer' = "checked"
    /\ UNCHANGED <<status, total, depositRequired, projection, collateral, charges, fee,
                   payments, ledger, settlement, preview>>

\* The cancellation that trusts that page.
AsChecked == status = "RESERVED"

StillUnpaid ==
    status = "RESERVED" /\ projection.payment = "UNPAID" /\ NoCompletedPayments

\* The transaction looks at the status, the payment status and the payments
\* again; otherwise it is refused.
CancelByCustomer ==
    /\ customer = "checked"
    /\ IF StillUnpaid
       THEN /\ status' = "CANCELLED"
            /\ customer' = "cancelled"
            /\ Touch
       ELSE /\ customer' = "idle"
            /\ UNCHANGED <<status, preview>>
    /\ UNCHANGED <<total, depositRequired, projection, collateral, charges, fee, payments,
                   ledger, settlement>>

-----------------------------------------------------------------------------
(* Charges and payments while the order lives *)

\* addCharge, and the fee of a delivery created later: they differ in the
\* kind of row they insert.
AddChargeWithoutRecompute(amount) ==
    /\ ChargeMutationAllowed
    /\ total.charges < MaxCharges
    /\ charges' = [charges EXCEPT !.other = @ + amount]
    /\ Billed(amount)
    /\ UNCHANGED <<status, depositRequired, projection, collateral, fee, payments, ledger,
                   settlement, customer>>
    /\ Touch

AddCharge(amount) ==
    /\ ChargeMutationAllowed
    /\ total.charges < MaxCharges
    /\ charges' = [charges EXCEPT !.other = @ + amount]
    /\ Billed(amount)
    /\ UNCHANGED <<status, depositRequired, collateral, fee, payments, ledger, settlement,
                   customer>>
    /\ Recompute /\ Touch

\* createPayment; paid_at is left at its default, the clock.
CreatePayment(p, purpose, amount) ==
    LET posted == Post(ledger, purpose, amount) IN
    /\ payments[p] = NoPayment
    /\ PaymentCreationAllowed(purpose)
    /\ RefundCovered(purpose, amount)
    /\ payments' = [payments EXCEPT ![p] =
                        [purpose |-> purpose, amount |-> amount, live |-> TRUE]]
    /\ ledger' = IF status = "COMPLETED"
                 THEN [posted EXCEPT !["reversals"] = @ + amount]
                 ELSE posted
    /\ UNCHANGED <<status, total, depositRequired, collateral, charges, fee, settlement,
                   customer>>
    /\ Recompute /\ Touch

\* voidPayment: never once the order has been confirmed or closed.
VoidPayment(p) ==
    /\ payments[p].live
    /\ collateral.method = "NONE"
    /\ status \notin {"COMPLETED", "CANCELLED"}
    /\ VoidKeepsRefundsCovered(p)
    /\ payments' = [payments EXCEPT ![p].live = FALSE]
    /\ ledger' = Post(ledger, payments[p].purpose, -payments[p].amount)
    /\ UNCHANGED <<status, total, depositRequired, collateral, charges, fee, settlement,
                   customer>>
    /\ Recompute /\ Touch

-----------------------------------------------------------------------------
(* Return and settlement *)

\* receiveReturn, after assessing a time fee for the item (possibly overridden)
\* and compensation or manual charges.  Without extras nothing is recomputed.
ReceiveReturn(timeFee, extra) ==
    /\ status = "ACTIVE"
    /\ status' = "RETURNED"
    /\ fee' = timeFee
    /\ charges' = [other |-> charges.other + extra, fee |-> timeFee]
    /\ Billed(timeFee + extra)
    /\ UNCHANGED <<depositRequired, collateral, payments, ledger, settlement, customer>>
    /\ IF timeFee + extra > 0 THEN Recompute ELSE UNCHANGED projection
    /\ Touch

\* evaluateSettlementFees with the item's fee agreed at "agreed".
Plan(agreed) ==
    LET grand == total.grand + agreed - fee
        remaining == AtLeastZero(grand - PaidRental(ledger))
        held == DepositHeld(ledger)
    IN  [grand |-> grand, charges |-> total.charges + agreed - fee, agreed |-> agreed,
         held |-> held, remaining |-> remaining,
         depositRefund |-> AtLeastZero(held - remaining),
         rentalRefund |-> AtLeastZero(PaidRental(ledger) - grand),
         due |-> AtLeastZero(remaining - held)]

Refund(plan) == plan.depositRefund + plan.rentalRefund

PlanRow == [grand : Nat, charges : Nat, agreed : Nat, held : Nat, remaining : Nat,
            depositRefund : Nat, rentalRefund : Nat, due : Nat]
NoPlan == [grand |-> 0, charges |-> 0, agreed |-> 0, held |-> 0, remaining |-> 0,
           depositRefund |-> 0, rentalRefund |-> 0, due |-> 0]
NoPreview == [shown |-> FALSE, current |-> FALSE, plan |-> NoPlan]

\* getSettlementPreview
PreviewSettlement(agreed) ==
    /\ status = "RETURNED"
    /\ Plan(agreed).grand >= 0 /\ Plan(agreed).charges >= 0
    /\ preview' = [shown |-> TRUE, current |-> TRUE, plan |-> Plan(agreed)]
    /\ UNCHANGED <<status, total, depositRequired, projection, collateral, charges, fee,
                   payments, ledger, settlement, customer>>

\* A token that is required but not compared.
AnyToken(agreed) == preview.shown

\* The token hashes updated_at and the figures of the preview.
TokenMatches(agreed) == preview.shown /\ preview.current /\ preview.plan = Plan(agreed)

\* The whole deposit is offset against the bill.
WholeDeposit(plan) == plan.held

AppliedDeposit(plan) == Smaller(plan.held, plan.remaining)

\* Receipts RS-F, RS-O, RS-D with RS-R, and RS-C.  RS-O is paid at the very
\* instant the order is completed.
SettlementReceipts(plan) ==
    [ledger EXCEPT
        !["depositOut"] = @ + plan.depositRefund + AppliedDeposit(plan),
        !["orderRefund"] = @ + plan.rentalRefund,
        !["rentalIn"] = @ + AppliedDeposit(plan) + plan.due,
        !["reversals"] = @ + plan.rentalRefund]

\* Adds the agreed fee to the time-fee rows it should replace.
FeeRowsKept(agreed) == IF agreed = fee THEN charges.fee ELSE charges.fee + agreed

\* Voids the item's rows and inserts one of the agreed amount.
FeeRowsAfter(agreed) == IF agreed = fee THEN charges.fee ELSE agreed

\* settleOrder.  Overriding the fee takes the token of a preview; without an
\* override (agreed = fee) the token may be left out.
SettleOrder(agreed, withToken) ==
    LET plan == Plan(agreed) IN
    /\ status = "RETURNED"
    /\ ~settlement.exists
    /\ agreed # fee => withToken
    /\ withToken => TokenMatches(agreed)
    /\ plan.grand >= 0 /\ plan.charges >= 0
    /\ agreed # fee => charges.fee = fee      \* else RETURN_FEE_LEDGER_MISMATCH
    /\ status' = "COMPLETED"
    /\ total' = [grand |-> plan.grand, charges |-> plan.charges]
    /\ charges' = [charges EXCEPT !.fee = FeeRowsAfter(agreed)]
    /\ fee' = agreed
    /\ ledger' = SettlementReceipts(plan)
    /\ settlement' = [exists |-> TRUE, refund |-> Refund(plan), due |-> plan.due,
                      charges |-> plan.charges]
    /\ collateral' = [collateral EXCEPT !.status = "RETURNED"]
    /\ UNCHANGED <<depositRequired, payments, customer>>
    /\ Recompute /\ Touch

\* returnDocumentCollateral
ReturnDocument ==
    /\ collateral.method = "DOCUMENT" /\ collateral.status = "HELD"
    /\ status \in {"RETURNED", "COMPLETED"}
    /\ collateral' = [collateral EXCEPT !.status = "RETURNED"]
    /\ Touch
    /\ UNCHANGED <<status, total, depositRequired, projection, charges, fee, payments,
                   ledger, settlement, customer>>

-----------------------------------------------------------------------------
(* Specification *)

Init ==
    /\ status = "NONE"
    /\ total = [grand |-> 0, charges |-> 0]
    /\ depositRequired = 0
    /\ projection = [payment |-> "UNPAID", deposit |-> "NOT_REQUIRED"]
    /\ collateral = NoCollateral
    /\ charges = [other |-> 0, fee |-> 0]
    /\ fee = 0
    /\ payments = [p \in Payment |-> NoPayment]
    /\ ledger = EmptyLedger
    /\ settlement = [exists |-> FALSE, refund |-> 0, due |-> 0, charges |-> 0]
    /\ preview = NoPreview
    /\ customer = "idle"

BookingNext ==
    \/ \E subtotal, extra, discount, deposit \in AmountOrZero :
            CreateOrder(subtotal, extra, discount, deposit)
    \/ \E method \in {"CASH", "DOCUMENT"}, amount \in AmountOrZero : ConfirmOrder(method, amount)
    \/ StartOrder
    \/ CancelOrder
    \/ CheckCancellable
    \/ CancelByCustomer

MoneyNext ==
    \/ \E amount \in Amount : AddCharge(amount)
    \/ \E p \in Payment, purpose \in Purpose, amount \in Amount :
            CreatePayment(p, purpose, amount)
    \/ \E p \in Payment : VoidPayment(p)

ClosingNext ==
    \/ \E timeFee, extra \in AmountOrZero : ReceiveReturn(timeFee, extra)
    \/ \E agreed \in AmountOrZero : PreviewSettlement(agreed)
    \/ \E agreed \in AmountOrZero, withToken \in BOOLEAN : SettleOrder(agreed, withToken)
    \/ ReturnDocument

Next == BookingNext \/ MoneyNext \/ ClosingNext

Spec == Init /\ [][Next]_vars

-----------------------------------------------------------------------------
(* Properties *)

\* Every column holds a value of its type; totals are never negative.
TypeOK ==
    /\ status \in OrderStatus
    /\ total \in [grand : Nat, charges : Nat]
    /\ depositRequired \in Nat
    /\ projection \in [payment : PaymentStatus, deposit : DepositStatus]
    /\ collateral \in CollateralRow
    /\ charges \in [other : Nat, fee : Nat]
    /\ fee \in Nat
    /\ payments \in [Payment -> PaymentRow \cup {NoPayment}]
    /\ ledger \in [Sum -> Int]
    /\ settlement \in [exists : BOOLEAN, refund : Nat, due : Nat, charges : Nat]
    /\ preview \in [shown : BOOLEAN, current : BOOLEAN, plan : PlanRow]
    /\ customer \in {"idle", "checked", "cancelled"}

(***************************************************************************)
(* The payment and deposit status shown with an order are those its bill   *)
(* and its payments give at that moment, whichever handler wrote last.     *)
(***************************************************************************)
ProjectionIsCurrent ==
    status # "NONE" =>
        projection = Projection(total.grand, DepositDue(collateral, depositRequired), ledger)

(***************************************************************************)
(* No customer is refunded money that was not received: not by several     *)
(* partial refunds, and not by voiding a receipt after its refund.         *)
(***************************************************************************)
RefundsCovered ==
    /\ ledger.depositOut <= ledger.depositIn
    /\ ledger.orderRefund <= ledger.rentalIn

(***************************************************************************)
(* charges_total is the sum of the charge rows in force, and the rows that *)
(* settlement replaces add up to the fee on the inspection record, so that *)
(* a fee override is never refused for a mismatch.                         *)
(***************************************************************************)
ChargesAddUp ==
    /\ total.charges = charges.other + charges.fee
    /\ charges.fee = fee

(***************************************************************************)
(* Once settled an order stays settled: no deposit is held, the customer   *)
(* has paid no more than the bill, later refunds never exceed what was     *)
(* paid, and the bill is the one on the settlement.                        *)
(***************************************************************************)
SettledStaysSettled ==
    status = "COMPLETED" =>
        /\ DepositNet(ledger) = 0
        /\ 0 <= PaidRental(ledger) /\ PaidRental(ledger) <= total.grand
        /\ total.charges = settlement.charges

(***************************************************************************)
(* A customer can only cancel an order on which no money was taken, even   *)
(* if a payment was recorded after the page was loaded.                    *)
(***************************************************************************)
SelfCancelledHoldsNothing ==
    customer = "cancelled" =>
        /\ status = "CANCELLED"
        /\ NoCompletedPayments
        /\ Cash(ledger) = 0

\* No money leaves the order that did not come in, or that a customer who cancelled
\* could claim.
MoneyIsCovered == RefundsCovered /\ SelfCancelledHoldsNothing

\* Every column is of its type, and the bill is the sum of its rows, before the
\* settlement and ever after it.
BooksAreRight == TypeOK /\ ChargesAddUp /\ SettledStaysSettled

(***************************************************************************)
(* What both totals grow by is the same, so that the rental part of the    *)
(* bill, discount included, is fixed when the order is created.            *)
(***************************************************************************)
RentalPartIsFixed ==
    [][status # "NONE" => total'.grand - total'.charges = total.grand - total.charges]_vars

(***************************************************************************)
(* Confirming collects exactly what is missing of the price and of the     *)
(* agreed deposit, counting what was paid, refunded or voided before.      *)
(***************************************************************************)
ConfirmationCollectsTheRest ==
    [][status # "CONFIRMED" /\ status' = "CONFIRMED" =>
            /\ PaidRental(ledger') =
                    IF PaidRental(ledger) > total.grand THEN PaidRental(ledger) ELSE total.grand
            /\ DepositHeld(ledger') = collateral'.amount]_vars

(***************************************************************************)
(* Settlement closes the books: the bill is paid in full, the deposit is   *)
(* gone, and the cash that changes hands is what the settlement records,   *)
(* the offset of the deposit moving none.                                  *)
(***************************************************************************)
SettlementBalances ==
    [][status # "COMPLETED" /\ status' = "COMPLETED" =>
            /\ PaidRental(ledger') = total'.grand
            /\ DepositNet(ledger') = 0
            /\ Cash(ledger') - Cash(ledger) = settlement'.due - settlement'.refund]_vars

(***************************************************************************)
(* A fee that was changed on the settlement screen is settled for the      *)
(* amounts that screen last showed, whatever was charged or paid since.    *)
(***************************************************************************)
OverrideSettlesAsShown ==
    [][status' = "COMPLETED" /\ fee' # fee =>
            /\ preview.plan.agreed = fee'
            /\ settlement'.due = preview.plan.due
            /\ settlement'.refund = Refund(preview.plan)
            /\ total'.grand = preview.plan.grand]_vars

\* The settlement neither invents nor loses money, whatever led up to it.
SettlementIsExact == RentalPartIsFixed /\ SettlementBalances /\ OverrideSettlesAsShown

-----------------------------------------------------------------------------
(* What the finance report makes of it *)

\* Recognized revenue of the order: its rental part, its charge rows and the
\* order refunds paid at or after its completion.
Revenue ==
    IF status = "COMPLETED"
    THEN (total.grand - total.charges) + charges.other + charges.fee - ledger.reversals
    ELSE 0

(***************************************************************************)
(* docs/FINANCE.md: "Deposit, ... settlement refunds and additional        *)
(* collection are NOT additional revenue/expense."  An order that was just *)
(* settled should count with its final bill.                               *)
(***************************************************************************)
SettlementRefundIsNoExpense ==
    [][status # "COMPLETED" /\ status' = "COMPLETED" => Revenue' = total'.grand]_vars

-----------------------------------------------------------------------------
(* The pages that show it: nothing of it is stored.  Every page computes   *)
(* the balance from the payments, in whole cents and apart from the        *)
(* settlement, which computes it in decimals; beside it stand the stored   *)
(* payment and deposit status.                                             *)

\* mutant of PaymentTotals: refunds count as payments
UnsignedTotals(grand, l) ==
    LET paid == l.rentalIn + RentalOut(l) IN
    [paid |-> paid, remaining |-> AtLeastZero(grand - paid),
     depositIn |-> l.depositIn, depositOut |-> l.depositOut]

\* calculateRentalPaymentTotals; for customers and administrators alike.
PaymentTotals(grand, l) ==
    [paid |-> PaidRental(l), remaining |-> AtLeastZero(grand - PaidRental(l)),
     depositIn |-> l.depositIn, depositOut |-> l.depositOut]

Totals == PaymentTotals(total.grand, ledger)

\* mutant of RefundDue: an overpaid rental is forgotten
DepositRefundDue(unpaid, available) == AtLeastZero(available - AtLeastZero(unpaid))

RefundDue(unpaid, available) ==
    AtLeastZero(available - AtLeastZero(unpaid)) + AtLeastZero(-unpaid)

AmountDue(unpaid, available) == AtLeastZero(AtLeastZero(unpaid) - available)

\* calculateRentalSettlement
Settlement(shownStatus, settled, grand, totals) ==
    LET unpaid == grand - totals.paid
        available == AtLeastZero(totals.depositIn - totals.depositOut)
        toSettle == shownStatus = "RETURNED" /\ ~settled
        refund == RefundDue(unpaid, available)
        due == AmountDue(unpaid, available)
    IN  [received |-> totals.depositIn,
         available |-> available,
         refund |-> IF toSettle THEN refund ELSE 0,
         due |-> IF toSettle THEN due ELSE IF settled THEN 0 ELSE AtLeastZero(unpaid),
         status |-> IF settled \/ shownStatus = "COMPLETED" THEN "SETTLED"
                    ELSE IF ~toSettle THEN "PENDING"
                    ELSE IF refund > 0 THEN "REFUND_DUE"
                    ELSE IF due > 0 THEN "AMOUNT_DUE"
                    ELSE "BALANCED"]

\* RentalReadPresenter.details
SettlementShown == Settlement(status, settlement.exists, total.grand, Totals)

\* The kind of settlement settleOrder records, were the order settled now.
KindOf(plan) ==
    IF Refund(plan) > 0 THEN "REFUND_DUE" ELSE IF plan.due > 0 THEN "AMOUNT_DUE" ELSE "BALANCED"

(***************************************************************************)
(* What the page of a returned order announces is what settling it at that *)
(* moment does: refund, collection and kind; and a settled order asks for  *)
(* nothing and owes nothing (rental-settlement.ts against                  *)
(* rental-settlement-fees.ts).                                             *)
(***************************************************************************)
AnnouncedIsSettled ==
    /\ status = "RETURNED" =>
          /\ SettlementShown.refund = Refund(Plan(fee))
          /\ SettlementShown.due = Plan(fee).due
          /\ SettlementShown.available = Plan(fee).held
          /\ SettlementShown.status = KindOf(Plan(fee))
    /\ status = "COMPLETED" =>
          /\ SettlementShown.status = "SETTLED"
          /\ SettlementShown.refund = 0 /\ SettlementShown.due = 0

(***************************************************************************)
(* The stored status and the balance computed for the page tell the same   *)
(* story: nothing is left to pay exactly of a paid order, or of a free one *)
(* whose payments were refunded, and a deposit is held exactly where the   *)
(* status says so.  Outgoing payments of purpose OTHER, whose cover nobody *)
(* checks, are left out.                                                   *)
(***************************************************************************)
StatusAgreesWithBalance ==
    status # "NONE" /\ PaidRental(ledger) >= 0 =>
        /\ Totals.remaining = 0 <=> \/ projection.payment = "PAID"
                                    \/ projection.payment = "REFUNDED" /\ total.grand = 0
        /\ projection.deposit \in {"HELD", "PARTIALLY_HELD"} => SettlementShown.available > 0
        /\ projection.deposit \in {"PENDING", "REFUNDED"} => SettlementShown.available = 0

\* What pages, statuses and settlement say of an order's money is one story.
ViewsAgreeWithBooks == AnnouncedIsSettled /\ StatusAgreesWithBalance
=============================================================================
