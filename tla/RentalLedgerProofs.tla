------------------------- MODULE RentalLedgerProofs -------------------------
(***************************************************************************)
(* Theorems about RentalLedger, and about the pages that show it, for any  *)
(* set of payments and any bounds on the amounts; and about the pictures   *)
(* that confirm and settle an order (EvidenceUpload), for any requests.    *)
(***************************************************************************)
EXTENDS RentalLedger, EvidenceUpload, FiniteSetTheorems, TLAPS

-----------------------------------------------------------------------------
(* What a posting does to the two buckets *)

LEMMA PostType ==
    ASSUME NEW l \in [Sum -> Int], NEW purpose \in Purpose, NEW amount \in Int
    PROVE  Post(l, purpose, amount) \in [Sum -> Int]
BY DEF Post, SumOf, Sum, Purpose

LEMMA PostRentalPayment ==
    ASSUME NEW l \in [Sum -> Int], NEW amount \in Int
    PROVE  /\ PaidRental(Post(l, "RENTAL_PAYMENT", amount)) = PaidRental(l) + amount
           /\ DepositNet(Post(l, "RENTAL_PAYMENT", amount)) = DepositNet(l)
BY DEF Post, SumOf, Sum, PaidRental, RentalOut, DepositNet

LEMMA PostDeposit ==
    ASSUME NEW l \in [Sum -> Int], NEW amount \in Int
    PROVE  /\ PaidRental(Post(l, "DEPOSIT", amount)) = PaidRental(l)
           /\ DepositNet(Post(l, "DEPOSIT", amount)) = DepositNet(l) + amount
BY DEF Post, SumOf, Sum, PaidRental, RentalOut, DepositNet

LEMMA PostDepositRefund ==
    ASSUME NEW l \in [Sum -> Int], NEW amount \in Int
    PROVE  DepositNet(Post(l, "DEPOSIT_REFUND", amount)) = DepositNet(l) - amount
BY DEF Post, SumOf, Sum, PaidRental, RentalOut, DepositNet

LEMMA PostOrderRefund ==
    ASSUME NEW l \in [Sum -> Int], NEW amount \in Int
    PROVE  /\ PaidRental(Post(l, "ORDER_REFUND", amount)) = PaidRental(l) - amount
           /\ DepositNet(Post(l, "ORDER_REFUND", amount)) = DepositNet(l)
BY DEF Post, SumOf, Sum, PaidRental, RentalOut, DepositNet

LEMMA PostOtherOut ==
    ASSUME NEW l \in [Sum -> Int], NEW amount \in Int
    PROVE  DepositNet(Post(l, "OTHER_OUT", amount)) = DepositNet(l)
BY DEF Post, SumOf, Sum, PaidRental, RentalOut, DepositNet

LEMMA BucketsType ==
    ASSUME NEW l \in [Sum -> Int]
    PROVE  /\ PaidRental(l) \in Int /\ DepositNet(l) \in Int /\ DepositHeld(l) \in Nat
           /\ l.rentalIn \in Int /\ RentalOut(l) \in Int
BY DEF Sum, PaidRental, RentalOut, DepositNet, DepositHeld, AtLeastZero

LEMMA PlanType ==
    ASSUME TypeOK, NEW agreed \in Nat,
           Plan(agreed).grand >= 0, Plan(agreed).charges >= 0
    PROVE  Plan(agreed) \in PlanRow
BY BucketsType DEF TypeOK, Plan, PlanRow, AtLeastZero

-----------------------------------------------------------------------------
(* Type correctness *)

LEMMA TypeInit == Init => TypeOK
BY DEF Init, TypeOK, OrderStatus, PaymentStatus, DepositStatus, NoCollateral, CollateralRow,
       EmptyLedger, NoPreview, NoPlan, PlanRow

LEMMA ProjectionType ==
    ASSUME NEW grand, NEW due, NEW l
    PROVE  Projection(grand, due, l) \in [payment : PaymentStatus, deposit : DepositStatus]
BY DEF Projection, PaymentStatusOf, DepositStatusOf, PaymentStatus, DepositStatus

LEMMA TypeStep == TypeOK /\ [Next]_vars => TypeOK'
<1> SUFFICES ASSUME TypeOK, [Next]_vars PROVE TypeOK'
  OBVIOUS
<1> USE DEF TypeOK
<1>a. Recompute => projection' \in [payment : PaymentStatus, deposit : DepositStatus]
  BY ProjectionType DEF Recompute
<1>b. Touch => preview' \in [shown : BOOLEAN, current : BOOLEAN, plan : PlanRow]
  BY DEF Touch
<1>c. Amount \subseteq Nat /\ AmountOrZero \subseteq Nat
  BY AmountAssumption DEF Amount, AmountOrZero
<1>1. ASSUME NEW subtotal \in AmountOrZero, NEW extra \in AmountOrZero,
             NEW discount \in AmountOrZero, NEW deposit \in AmountOrZero,
             CreateOrder(subtotal, extra, discount, deposit)
      PROVE  TypeOK'
  BY <1>1, <1>c DEF CreateOrder, InitialTotal, AtLeastZero, OrderStatus, PaymentStatus,
                    DepositStatus
<1>2. ASSUME NEW method \in {"CASH", "DOCUMENT"}, NEW amount \in AmountOrZero,
             ConfirmOrder(method, amount)
      PROVE  TypeOK'
  <2> DEFINE deposit == IF method = "CASH" THEN amount ELSE 0
             paid == Post(ledger, "RENTAL_PAYMENT", RentalReceipt)
  <2>1. RentalReceipt \in Int /\ deposit - DepositHeld(ledger) \in Int
    BY <1>c, BucketsType DEF RentalReceipt, AtLeastZero
  <2>2. paid \in [Sum -> Int]
    BY <2>1, PostType DEF Purpose
  <2>3. ledger' = Post(paid, "DEPOSIT", deposit - DepositHeld(ledger))
    BY <1>2 DEF ConfirmOrder
  <2>4. ledger' \in [Sum -> Int]
    <3> HIDE DEF paid, deposit
    <3> QED BY <2>1, <2>2, <2>3, PostType DEF Purpose
  <2>5. collateral' \in CollateralRow
    BY <1>2, <1>c DEF ConfirmOrder, CollateralRow
  <2> QED BY <1>2, <1>a, <1>b, <2>4, <2>5 DEF ConfirmOrder, OrderStatus
<1>3. CASE StartOrder
  BY <1>3, <1>b DEF StartOrder, OrderStatus
<1>4. CASE CancelOrder
  BY <1>4, <1>b DEF CancelOrder, OrderStatus
<1>5. CASE CheckCancellable
  BY <1>5 DEF CheckCancellable
<1>6. CASE CancelByCustomer
  BY <1>6, <1>b DEF CancelByCustomer, OrderStatus
<1>7. ASSUME NEW amount \in Amount, AddCharge(amount)
      PROVE  TypeOK'
  BY <1>7, <1>a, <1>b, <1>c DEF AddCharge, Billed
<1>8. ASSUME NEW p \in Payment, NEW purpose \in Purpose, NEW amount \in Amount,
             CreatePayment(p, purpose, amount)
      PROVE  TypeOK'
  <2>1. payments' \in [Payment -> PaymentRow \cup {NoPayment}]
    BY <1>8 DEF CreatePayment, PaymentRow
  <2>2. Post(ledger, purpose, amount) \in [Sum -> Int]
    BY <1>8, <1>c, PostType
  <2>3. ledger' \in [Sum -> Int]
    BY <1>8, <1>c, <2>2 DEF CreatePayment, Sum
  <2> QED BY <1>8, <1>a, <1>b, <2>1, <2>3 DEF CreatePayment
<1>9. ASSUME NEW p \in Payment, VoidPayment(p)
      PROVE  TypeOK'
  <2>1. payments[p] \in PaymentRow
    BY <1>9 DEF VoidPayment, NoPayment
  <2>2. payments' \in [Payment -> PaymentRow \cup {NoPayment}]
    <3> DEFINE row == [payments[p] EXCEPT !.live = FALSE]
    <3>1. row \in PaymentRow
      BY <2>1 DEF PaymentRow
    <3>2. payments' = [payments EXCEPT ![p] = row]
      BY <1>9 DEF VoidPayment
    <3> HIDE DEF row
    <3> QED BY <3>1, <3>2
  <2>3. payments[p].purpose \in Purpose /\ payments[p].amount \in Amount
    BY <2>1 DEF PaymentRow
  <2>c. \A amount \in Amount : -amount \in Int
    BY <1>c
  <2>4. ledger' \in [Sum -> Int]
    BY <1>9, <2>3, <2>c, PostType DEF VoidPayment
  <2> QED BY <1>9, <1>a, <1>b, <2>2, <2>4 DEF VoidPayment
<1>10. ASSUME NEW timeFee \in AmountOrZero, NEW extra \in AmountOrZero,
              ReceiveReturn(timeFee, extra)
       PROVE  TypeOK'
  BY <1>10, <1>a, <1>b, <1>c DEF ReceiveReturn, Billed, OrderStatus
<1>11. ASSUME NEW agreed \in AmountOrZero, PreviewSettlement(agreed)
       PROVE  TypeOK'
  BY <1>11, <1>c, PlanType DEF PreviewSettlement
<1>12. ASSUME NEW agreed \in AmountOrZero, NEW withToken \in BOOLEAN,
              SettleOrder(agreed, withToken)
       PROVE  TypeOK'
  <2> DEFINE plan == Plan(agreed)
  <2>1. plan \in PlanRow
    BY <1>12, <1>c, PlanType DEF SettleOrder
  <2>2. /\ total' = [grand |-> plan.grand, charges |-> plan.charges]
        /\ ledger' = SettlementReceipts(plan)
        /\ settlement' = [exists |-> TRUE, refund |-> Refund(plan), due |-> plan.due,
                          charges |-> plan.charges]
        /\ charges' = [charges EXCEPT !.fee = FeeRowsAfter(agreed)]
        /\ fee' = agreed
        /\ status' = "COMPLETED"
        /\ collateral' = [collateral EXCEPT !.status = "RETURNED"]
        /\ UNCHANGED <<depositRequired, payments, customer>>
        /\ Recompute /\ Touch
    BY <1>12 DEF SettleOrder
  <2> HIDE DEF plan
  <2>3. AppliedDeposit(plan) \in Nat
    BY <2>1 DEF AppliedDeposit, Smaller, PlanRow
  <2>4. ledger' \in [Sum -> Int]
    BY <2>1, <2>2, <2>3 DEF SettlementReceipts, Sum, PlanRow
  <2>5. settlement' \in [exists : BOOLEAN, refund : Nat, due : Nat, charges : Nat]
    BY <2>1, <2>2 DEF Refund, PlanRow
  <2>6. charges' \in [other : Nat, fee : Nat]
    BY <2>2, <1>c DEF FeeRowsAfter
  <2>7. total' \in [grand : Nat, charges : Nat]
    BY <2>1, <2>2 DEF PlanRow
  <2>8. collateral' \in CollateralRow
    BY <2>2 DEF CollateralRow
  <2> QED BY <2>2, <2>4, <2>5, <2>6, <2>7, <2>8, <1>a, <1>b, <1>c DEF OrderStatus
<1>13. CASE ReturnDocument
  BY <1>13, <1>b DEF ReturnDocument, CollateralRow
<1>14. CASE UNCHANGED vars
  BY <1>14 DEF vars
<1> QED BY <1>1, <1>2, <1>3, <1>4, <1>5, <1>6, <1>7, <1>8, <1>9, <1>10, <1>11, <1>12, <1>13,
           <1>14 DEF Next, BookingNext, MoneyNext, ClosingNext

(***************************************************************************)
(* Every column of the order's money keeps its type; no total, charge,     *)
(* settlement figure or previewed figure is ever negative.                 *)
(***************************************************************************)
THEOREM LedgerTypeCorrect == Spec => []TypeOK
BY TypeInit, TypeStep, PTL DEF Spec

-----------------------------------------------------------------------------
(* The inductive invariant *)

\* Nothing was written for an order that does not exist yet.
NothingBeforeBooking ==
    status = "NONE" =>
        /\ ledger = EmptyLedger /\ collateral = NoCollateral
        /\ charges.other = 0 /\ \A p \in Payment : payments[p] = NoPayment

\* Time fees are assessed at the return.
NoFeeBeforeReturn == status \notin {"RETURNED", "COMPLETED"} => fee = 0

DepositCovered == DepositNet(ledger) >= 0

BooksInv ==
    /\ NothingBeforeBooking
    /\ NoFeeBeforeReturn
    /\ DepositCovered
    /\ ProjectionIsCurrent
    /\ ChargesAddUp
    /\ SettledStaysSettled

LInv == TypeOK /\ BooksInv

LEMMA BooksInit == Init => BooksInv
BY DEF Init, BooksInv, NothingBeforeBooking, NoFeeBeforeReturn, DepositCovered,
       ProjectionIsCurrent, ChargesAddUp, SettledStaysSettled, EmptyLedger, NoPayment, Sum,
       DepositNet

\* What a settlement does to the buckets, from covered ones.
LEMMA SettlementEffect ==
    ASSUME TypeOK, DepositCovered, NEW agreed \in Nat,
           Plan(agreed).grand >= 0, Plan(agreed).charges >= 0
    PROVE  /\ PaidRental(SettlementReceipts(Plan(agreed))) = Plan(agreed).grand
           /\ DepositNet(SettlementReceipts(Plan(agreed))) = 0
           /\ PaidRental(ledger) + DepositNet(ledger)
                    + Plan(agreed).due - Refund(Plan(agreed)) = Plan(agreed).grand
<1> DEFINE plan == Plan(agreed)
           after == SettlementReceipts(plan)
<1>1. /\ PaidRental(ledger) \in Int /\ DepositNet(ledger) \in Nat
      /\ ledger \in [Sum -> Int]
  BY BucketsType DEF TypeOK, DepositCovered
<1>2. plan \in PlanRow
  BY PlanType
<1>3. /\ plan.held = DepositNet(ledger)
      /\ plan.remaining = AtLeastZero(plan.grand - PaidRental(ledger))
      /\ plan.depositRefund = AtLeastZero(plan.held - plan.remaining)
      /\ plan.rentalRefund = AtLeastZero(PaidRental(ledger) - plan.grand)
      /\ plan.due = AtLeastZero(plan.remaining - plan.held)
  <2>1. DepositHeld(ledger) = DepositNet(ledger)
    BY <1>1 DEF DepositHeld, AtLeastZero
  <2> QED  BY <2>1 DEF Plan
<1>4. /\ PaidRental(after) = PaidRental(ledger) + AppliedDeposit(plan) + plan.due
                                    - plan.rentalRefund
      /\ DepositNet(after) = DepositNet(ledger) - plan.depositRefund - AppliedDeposit(plan)
  <2> HIDE DEF plan
  <2>1. AppliedDeposit(plan) \in Nat
    BY <1>2 DEF AppliedDeposit, Smaller, PlanRow
  <2> QED BY <1>1, <1>2, <2>1 DEF SettlementReceipts, Sum, PaidRental, RentalOut, DepositNet,
                                  PlanRow
<1>5. plan.grand \in Nat
  BY <1>2 DEF PlanRow
<1> HIDE DEF plan, after
<1>6. /\ PaidRental(after) = plan.grand /\ DepositNet(after) = 0
      /\ PaidRental(ledger) + DepositNet(ledger) + plan.due - Refund(plan) = plan.grand
  BY <1>1, <1>3, <1>4, <1>5 DEF AppliedDeposit, Smaller, AtLeastZero, Refund
<1> QED BY <1>6 DEF plan, after

LEMMA BooksStep == LInv /\ [Next]_vars => BooksInv'
<1> SUFFICES ASSUME TypeOK, BooksInv, [Next]_vars PROVE BooksInv'
  BY DEF LInv
<1>t. TypeOK'
  BY TypeStep
<1>a. Recompute => ProjectionIsCurrent'
  BY DEF Recompute, ProjectionIsCurrent
<1>c. Amount \subseteq Nat /\ AmountOrZero \subseteq Nat
  BY AmountAssumption DEF Amount, AmountOrZero
<1>d. /\ ledger \in [Sum -> Int] /\ PaidRental(ledger) \in Int /\ DepositNet(ledger) \in Nat
      /\ total.grand \in Nat /\ total.charges \in Nat
      /\ charges.other \in Nat /\ charges.fee \in Nat /\ fee \in Nat
  BY BucketsType DEF TypeOK, BooksInv, DepositCovered
\* A command that touches none of the books.
<1>q. ASSUME UNCHANGED <<total, depositRequired, projection, charges, fee, payments, ledger,
                         settlement>>,
             DepositDue(collateral', depositRequired') = DepositDue(collateral, depositRequired),
             status = "NONE" => UNCHANGED <<status, collateral>>,
             (status' = "NONE") <=> (status = "NONE"),
             (status' \in {"RETURNED", "COMPLETED"}) <=> (status \in {"RETURNED", "COMPLETED"}),
             status' = "COMPLETED" => status = "COMPLETED"
      PROVE  BooksInv'
  <2>1. /\ total' = total /\ projection' = projection /\ charges' = charges /\ fee' = fee
        /\ payments' = payments /\ ledger' = ledger /\ settlement' = settlement
    BY <1>q
  <2>2. NothingBeforeBooking'
    BY <1>q, <2>1 DEF BooksInv, NothingBeforeBooking
  <2>3. NoFeeBeforeReturn'
    BY <1>q, <2>1 DEF BooksInv, NoFeeBeforeReturn
  <2>4. DepositCovered' /\ ChargesAddUp'
    BY <2>1 DEF BooksInv, DepositCovered, ChargesAddUp
  <2>5. ProjectionIsCurrent'
    BY <1>q, <2>1 DEF BooksInv, ProjectionIsCurrent
  <2>6. SettledStaysSettled'
    BY <1>q, <2>1 DEF BooksInv, SettledStaysSettled
  <2> QED BY <2>2, <2>3, <2>4, <2>5, <2>6 DEF BooksInv
<1>1. ASSUME NEW subtotal \in AmountOrZero, NEW extra \in AmountOrZero,
             NEW discount \in AmountOrZero, NEW deposit \in AmountOrZero,
             CreateOrder(subtotal, extra, discount, deposit)
      PROVE  BooksInv'
  <2>1. /\ status = "NONE" /\ status' = "RESERVED" /\ ledger = EmptyLedger
        /\ collateral = NoCollateral /\ fee = 0 /\ charges.other = 0 /\ charges.fee = 0
        /\ UNCHANGED <<collateral, fee, payments, ledger, settlement>>
        /\ total'.charges = extra /\ charges'.other = extra /\ charges'.fee = 0
        /\ depositRequired' = deposit
    BY <1>1 DEF CreateOrder, BooksInv, NothingBeforeBooking, NoFeeBeforeReturn, ChargesAddUp,
                TypeOK
  <2>2. /\ total'.grand \in Nat /\ deposit \in Nat /\ extra \in Nat
    BY <1>t, <1>c DEF TypeOK
  <2>3. projection' = [payment |-> IF total'.grand = 0 THEN "PAID" ELSE "UNPAID",
                       deposit |-> IF deposit = 0 THEN "NOT_REQUIRED" ELSE "PENDING"]
    BY <1>1 DEF CreateOrder
  <2>4. DepositDue(collateral', depositRequired') = deposit
    BY <2>1 DEF DepositDue, NoCollateral
  <2>5. PaymentStatusOf(total'.grand, ledger') = IF total'.grand = 0 THEN "PAID" ELSE "UNPAID"
    BY <2>1, <2>2 DEF PaymentStatusOf, EmptyLedger, Sum, PaidRental, RentalOut
  <2>6. DepositStatusOf(deposit, ledger') = IF deposit = 0 THEN "NOT_REQUIRED" ELSE "PENDING"
    BY <2>1, <2>2 DEF DepositStatusOf, EmptyLedger, Sum, DepositNet
  <2>7. ProjectionIsCurrent'
    BY <2>3, <2>4, <2>5, <2>6 DEF ProjectionIsCurrent, Projection
  <2> QED BY <2>1, <2>2, <2>7 DEF BooksInv, NothingBeforeBooking, NoFeeBeforeReturn,
                     DepositCovered, ChargesAddUp, SettledStaysSettled
<1>2. ASSUME NEW method \in {"CASH", "DOCUMENT"}, NEW amount \in AmountOrZero,
             ConfirmOrder(method, amount)
      PROVE  BooksInv'
  <2> DEFINE deposit == IF method = "CASH" THEN amount ELSE 0
             paid == Post(ledger, "RENTAL_PAYMENT", RentalReceipt)
  <2>1. /\ RentalReceipt \in Int /\ deposit \in Nat /\ deposit - DepositHeld(ledger) \in Int
        /\ DepositHeld(ledger) = DepositNet(ledger)
    BY <1>c, <1>d DEF RentalReceipt, AtLeastZero, DepositHeld
  <2>2. paid \in [Sum -> Int] /\ DepositNet(paid) = DepositNet(ledger)
    BY <1>d, <2>1, PostType, PostRentalPayment DEF Purpose
  <2>3. ledger' = Post(paid, "DEPOSIT", deposit - DepositHeld(ledger))
    BY <1>2 DEF ConfirmOrder
  <2>4. DepositNet(ledger') = DepositNet(paid) + (deposit - DepositHeld(ledger))
    <3> HIDE DEF paid, deposit
    <3> QED BY <2>1, <2>2, <2>3, PostDeposit
  <2>5. DepositCovered'
    <3> HIDE DEF paid, deposit
    <3> QED BY <1>d, <2>1, <2>2, <2>4 DEF DepositCovered
  <2>6. /\ status = "RESERVED" /\ status' = "CONFIRMED" /\ Recompute
        /\ UNCHANGED <<total, charges, fee>>
    BY <1>2 DEF ConfirmOrder
  <2> QED BY <1>a, <2>5, <2>6 DEF BooksInv, NothingBeforeBooking, NoFeeBeforeReturn,
                                  ChargesAddUp, SettledStaysSettled
<1>3. CASE StartOrder
  BY <1>3, <1>q DEF StartOrder
<1>4. CASE CancelOrder
  BY <1>4, <1>q DEF CancelOrder
<1>5. CASE CheckCancellable
  BY <1>5, <1>q DEF CheckCancellable
<1>6. CASE CancelByCustomer
  BY <1>6, <1>q DEF CancelByCustomer, StillUnpaid
<1>7. ASSUME NEW amount \in Amount, AddCharge(amount)
      PROVE  BooksInv'
  <2>1. /\ status \notin {"NONE", "COMPLETED"} /\ status' = status /\ Recompute
        /\ UNCHANGED <<fee, ledger>>
        /\ total'.charges = total.charges + amount
        /\ charges'.other = charges.other + amount /\ charges'.fee = charges.fee
        /\ amount \in Nat
    BY <1>7, <1>c DEF AddCharge, ChargeMutationAllowed, Billed, TypeOK
  <2> QED BY <1>a, <1>d, <2>1 DEF BooksInv, NothingBeforeBooking, NoFeeBeforeReturn,
                                  DepositCovered, ChargesAddUp, SettledStaysSettled
<1>8. ASSUME NEW p \in Payment, NEW purpose \in Purpose, NEW amount \in Amount,
             CreatePayment(p, purpose, amount)
      PROVE  BooksInv'
  <2> DEFINE posted == Post(ledger, purpose, amount)
  <2>1. /\ status # "NONE" /\ status' = status /\ Recompute
        /\ status = "COMPLETED" => purpose = "ORDER_REFUND"
        /\ RefundCovered(purpose, amount)
        /\ UNCHANGED <<total, charges, fee, settlement>>
        /\ ledger' = IF status = "COMPLETED"
                     THEN [posted EXCEPT !["reversals"] = @ + amount]
                     ELSE posted
    BY <1>8 DEF CreatePayment, PaymentCreationAllowed
  <2>2. posted \in [Sum -> Int] /\ amount \in Nat
    BY <1>c, <1>d, PostType
  <2>3. DepositNet(posted) \in Nat
    BY <1>c, <1>d, <2>1, PostRentalPayment, PostDeposit, PostDepositRefund, PostOrderRefund,
       PostOtherOut DEF Purpose, RefundCovered
  <2>4. /\ status = "COMPLETED" => /\ PaidRental(posted) = PaidRental(ledger) - amount
                                  /\ amount <= PaidRental(ledger)
                                  /\ DepositNet(posted) = DepositNet(ledger)
    BY <1>c, <1>d, <2>1, PostOrderRefund DEF RefundCovered
  <2>5. PaidRental(ledger') = PaidRental(posted) /\ DepositNet(ledger') = DepositNet(posted)
    <3> HIDE DEF posted
    <3> QED BY <2>1, <2>2 DEF PaidRental, RentalOut, DepositNet, Sum
  <2> HIDE DEF posted
  <2>6. SettledStaysSettled'
    BY <1>d, <2>1, <2>2, <2>4, <2>5 DEF BooksInv, SettledStaysSettled
  <2> QED BY <1>a, <1>d, <2>1, <2>3, <2>5, <2>6 DEF BooksInv, NothingBeforeBooking,
                                  NoFeeBeforeReturn, DepositCovered, ChargesAddUp
<1>9. ASSUME NEW p \in Payment, VoidPayment(p)
      PROVE  BooksInv'
  <2>1. status # "NONE"
    BY <1>9 DEF VoidPayment, BooksInv, NothingBeforeBooking, NoPayment
  <2>2. /\ status # "COMPLETED" /\ status' = status /\ Recompute
        /\ DepositNet(ledger') >= 0
        /\ UNCHANGED <<total, charges, fee>>
    BY <1>9 DEF VoidPayment, VoidKeepsRefundsCovered
  <2> QED BY <1>a, <2>1, <2>2 DEF BooksInv, NothingBeforeBooking, NoFeeBeforeReturn,
                                  DepositCovered, ChargesAddUp, SettledStaysSettled
<1>10. ASSUME NEW timeFee \in AmountOrZero, NEW extra \in AmountOrZero,
              ReceiveReturn(timeFee, extra)
       PROVE  BooksInv'
  <2>1. /\ status = "ACTIVE" /\ status' = "RETURNED" /\ fee = 0
        /\ fee' = timeFee /\ charges'.fee = timeFee /\ charges'.other = charges.other + extra
        /\ total'.grand = total.grand + (timeFee + extra)
        /\ total'.charges = total.charges + (timeFee + extra)
        /\ UNCHANGED <<depositRequired, collateral, ledger>>
        /\ timeFee \in Nat /\ extra \in Nat
    BY <1>10, <1>c DEF ReceiveReturn, Billed, BooksInv, NoFeeBeforeReturn
  <2>2. ProjectionIsCurrent'
    <3>1. CASE timeFee + extra > 0
      BY <1>10, <1>a, <3>1 DEF ReceiveReturn
    <3>2. CASE timeFee + extra = 0
      <4>1. UNCHANGED projection /\ total'.grand = total.grand
        BY <1>10, <1>d, <2>1, <3>2 DEF ReceiveReturn
      <4> QED BY <2>1, <4>1 DEF BooksInv, ProjectionIsCurrent
    <3> QED BY <2>1, <3>1, <3>2
  <2> QED BY <1>d, <2>1, <2>2 DEF BooksInv, NothingBeforeBooking, NoFeeBeforeReturn,
                                  DepositCovered, ChargesAddUp, SettledStaysSettled
<1>11. ASSUME NEW agreed \in AmountOrZero, PreviewSettlement(agreed)
       PROVE  BooksInv'
  BY <1>11, <1>q DEF PreviewSettlement
<1>12. ASSUME NEW agreed \in AmountOrZero, NEW withToken \in BOOLEAN,
              SettleOrder(agreed, withToken)
       PROVE  BooksInv'
  <2> DEFINE plan == Plan(agreed)
  <2>1. /\ status' = "COMPLETED" /\ Recompute
        /\ total'.grand = plan.grand /\ total'.charges = plan.charges
        /\ settlement'.charges = plan.charges
        /\ ledger' = SettlementReceipts(plan)
        /\ plan.grand >= 0 /\ plan.charges >= 0
        /\ fee' = agreed /\ agreed \in Nat
        /\ charges'.fee = FeeRowsAfter(agreed) /\ charges'.other = charges.other
    BY <1>12, <1>c DEF SettleOrder, TypeOK
  <2>2. PaidRental(ledger') = plan.grand /\ DepositNet(ledger') = 0
    BY <2>1, SettlementEffect DEF BooksInv
  <2>3. plan.charges = total.charges + agreed - fee /\ plan.grand \in Nat
    BY <2>1, PlanType DEF Plan, PlanRow
  <2>4. ChargesAddUp'
    BY <1>d, <2>1, <2>3 DEF BooksInv, ChargesAddUp, FeeRowsAfter
  <2> HIDE DEF plan
  <2> QED BY <1>a, <2>1, <2>2, <2>3, <2>4 DEF BooksInv, NothingBeforeBooking,
                     NoFeeBeforeReturn, DepositCovered, SettledStaysSettled
<1>13. CASE ReturnDocument
  <2>1. DepositDue(collateral', depositRequired') = DepositDue(collateral, depositRequired)
    BY <1>13 DEF ReturnDocument, DepositDue, TypeOK, CollateralRow
  <2> QED BY <1>13, <1>q, <2>1 DEF ReturnDocument
<1>14. CASE UNCHANGED vars
  BY <1>14, <1>q DEF vars
<1> QED BY <1>1, <1>2, <1>3, <1>4, <1>5, <1>6, <1>7, <1>8, <1>9, <1>10, <1>11, <1>12, <1>13,
           <1>14 DEF Next, BookingNext, MoneyNext, ClosingNext

(***************************************************************************)
(* The books stay in order under every command: the invariants of the     *)
(* order's money, with what they need to be inductive.                     *)
(***************************************************************************)
THEOREM BooksInvariant == Spec => []LInv
<1>1. Init => LInv
  BY TypeInit, BooksInit DEF LInv
<1>2. LInv /\ [Next]_vars => LInv'
  BY TypeStep, BooksStep DEF LInv
<1> QED BY <1>1, <1>2, PTL DEF Spec

\* The payment and deposit status of the order row are always those its bill
\* and its payments give.
THEOREM ProjectionCorrect == Spec => []ProjectionIsCurrent
<1>1. LInv => ProjectionIsCurrent
  BY DEF LInv, BooksInv
<1> QED BY <1>1, BooksInvariant, PTL

\* charges_total is the sum of the charge rows, and the fee rows that of the
\* inspection record.
THEOREM ChargesCorrect == Spec => []ChargesAddUp
<1>1. LInv => ChargesAddUp
  BY DEF LInv, BooksInv
<1> QED BY <1>1, BooksInvariant, PTL

\* A settled order stays settled, later refunds included.
THEOREM SettledCorrect == Spec => []SettledStaysSettled
<1>1. LInv => SettledStaysSettled
  BY DEF LInv, BooksInv
<1> QED BY <1>1, BooksInvariant, PTL

\* The bill is right at every moment of the life of an order.
THEOREM BooksRight == Spec => []BooksAreRight
<1>1. LInv => ChargesAddUp /\ SettledStaysSettled
  BY DEF LInv, BooksInv
<1>2. TypeOK /\ ChargesAddUp /\ SettledStaysSettled => BooksAreRight
  BY DEF BooksAreRight
<1> QED BY <1>1, <1>2, BooksInvariant, LedgerTypeCorrect, PTL

-----------------------------------------------------------------------------
(* What a step may never do *)

\* The commands that move the status to CONFIRMED and to COMPLETED are one each.
LEMMA WhichCommand ==
    ASSUME [Next]_vars
    PROVE  /\ status # "CONFIRMED" /\ status' = "CONFIRMED" =>
                \E method \in {"CASH", "DOCUMENT"}, amount \in AmountOrZero :
                    ConfirmOrder(method, amount)
           /\ status' = "COMPLETED" /\ (status # "COMPLETED" \/ fee' # fee) =>
                \E agreed \in AmountOrZero, withToken \in BOOLEAN : SettleOrder(agreed, withToken)
<1>1. ASSUME BookingNext, ~ \E method \in {"CASH", "DOCUMENT"}, amount \in AmountOrZero :
                                ConfirmOrder(method, amount)
      PROVE  /\ status' = "CONFIRMED" => status = "CONFIRMED"
             /\ status' # "COMPLETED" \/ (status = "COMPLETED" /\ fee' = fee)
  BY <1>1 DEF BookingNext, CreateOrder, StartOrder, CancelOrder, CheckCancellable,
              CancelByCustomer
<1>2. ASSUME NEW method \in {"CASH", "DOCUMENT"}, NEW amount \in AmountOrZero,
             ConfirmOrder(method, amount)
      PROVE  status' # "COMPLETED"
  BY <1>2 DEF ConfirmOrder
<1>3. ASSUME MoneyNext
      PROVE  status' = status /\ fee' = fee
  BY <1>3 DEF MoneyNext, AddCharge, CreatePayment, VoidPayment
<1>4. ASSUME ClosingNext,
             ~ \E agreed \in AmountOrZero, withToken \in BOOLEAN : SettleOrder(agreed, withToken)
      PROVE  /\ status' = "CONFIRMED" => status = "CONFIRMED"
             /\ status' # "COMPLETED" \/ (status = "COMPLETED" /\ fee' = fee)
  BY <1>4 DEF ClosingNext, ReceiveReturn, PreviewSettlement, ReturnDocument
<1>5. ASSUME NEW agreed \in AmountOrZero, NEW withToken \in BOOLEAN,
             SettleOrder(agreed, withToken)
      PROVE  status' # "CONFIRMED"
  BY <1>5 DEF SettleOrder
<1>6. UNCHANGED vars => status' = status /\ fee' = fee
  BY DEF vars
<1> QED BY <1>1, <1>2, <1>3, <1>4, <1>5, <1>6 DEF Next

\* Every change of the bill moves both totals by the same amount.
THEOREM RentalPartCorrect == Spec => RentalPartIsFixed
<1> DEFINE Step == status # "NONE" =>
                        total'.grand - total'.charges = total.grand - total.charges
<1>1. ASSUME LInv, [Next]_vars PROVE Step
  <2> SUFFICES ASSUME status # "NONE"
               PROVE  total'.grand - total'.charges = total.grand - total.charges
    OBVIOUS
  <2>1. /\ total \in [grand : Nat, charges : Nat] /\ fee \in Nat
        /\ Amount \subseteq Nat /\ AmountOrZero \subseteq Nat
    BY <1>1, AmountAssumption DEF LInv, TypeOK, Amount, AmountOrZero
  <2>2. \A amount \in Nat : Billed(amount) =>
            total'.grand - total'.charges = total.grand - total.charges
    BY <2>1 DEF Billed
  <2>3. ASSUME BookingNext PROVE total' = total
    BY <2>3 DEF BookingNext, CreateOrder, ConfirmOrder, StartOrder, CancelOrder,
                CheckCancellable, CancelByCustomer
  <2>4. CASE \E amount \in Amount : AddCharge(amount)
    BY <2>1, <2>2, <2>4 DEF AddCharge
  <2>5. ASSUME NEW p \in Payment, VoidPayment(p) PROVE total' = total
    BY <2>5 DEF VoidPayment
  <2>6. ASSUME NEW p \in Payment, NEW purpose \in Purpose, NEW amount \in Amount,
               CreatePayment(p, purpose, amount)
        PROVE  total' = total
    BY <2>6 DEF CreatePayment
  <2>7. ASSUME NEW timeFee \in AmountOrZero, NEW extra \in AmountOrZero,
               ReceiveReturn(timeFee, extra)
        PROVE  total'.grand - total'.charges = total.grand - total.charges
    <3>1. timeFee + extra \in Nat
      BY <2>1
    <3> QED BY <2>2, <2>7, <3>1 DEF ReceiveReturn
  <2>8. ASSUME NEW agreed \in AmountOrZero, PreviewSettlement(agreed) PROVE total' = total
    BY <2>8 DEF PreviewSettlement
  <2>9. ASSUME NEW agreed \in AmountOrZero, NEW withToken \in BOOLEAN,
               SettleOrder(agreed, withToken)
        PROVE  total'.grand - total'.charges = total.grand - total.charges
    <3>1. /\ total'.grand = Plan(agreed).grand
          /\ total'.charges = Plan(agreed).charges
      BY <2>9 DEF SettleOrder
    <3>2. /\ Plan(agreed).grand = total.grand + agreed - fee
          /\ Plan(agreed).charges = total.charges + agreed - fee
      BY DEF Plan
    <3>3. agreed \in Nat
      BY <2>1
    <3> QED BY <2>1, <3>1, <3>2, <3>3
  <2>10. ReturnDocument => total' = total
    BY DEF ReturnDocument
  <2>11. UNCHANGED vars => total' = total
    BY DEF vars
  <2> QED BY <1>1, <2>3, <2>4, <2>5, <2>6, <2>7, <2>8, <2>9, <2>10, <2>11
          DEF Next, MoneyNext, ClosingNext
<1>2. LInv /\ [Next]_vars => [Step]_vars
  BY <1>1
<1> QED BY <1>2, BooksInvariant, PTL DEF Spec, RentalPartIsFixed

\* Confirming an order collects what is missing of its price and its deposit,
\* whatever was paid, refunded or voided before.
THEOREM ConfirmationCorrect == Spec => ConfirmationCollectsTheRest
<1> DEFINE Step ==
        status # "CONFIRMED" /\ status' = "CONFIRMED" =>
            /\ PaidRental(ledger') =
                    IF PaidRental(ledger) > total.grand THEN PaidRental(ledger) ELSE total.grand
            /\ DepositHeld(ledger') = collateral'.amount
<1>1. ASSUME LInv, [Next]_vars PROVE Step
  <2> SUFFICES ASSUME NEW method \in {"CASH", "DOCUMENT"}, NEW amount \in AmountOrZero,
                      ConfirmOrder(method, amount)
               PROVE  /\ PaidRental(ledger') = IF PaidRental(ledger) > total.grand
                                               THEN PaidRental(ledger) ELSE total.grand
                      /\ DepositHeld(ledger') = collateral'.amount
    BY <1>1, WhichCommand
  <2> DEFINE deposit == IF method = "CASH" THEN amount ELSE 0
             paid == Post(ledger, "RENTAL_PAYMENT", RentalReceipt)
             rest == deposit - DepositHeld(ledger)
  <2>1. /\ ledger \in [Sum -> Int] /\ PaidRental(ledger) \in Int /\ DepositNet(ledger) \in Nat
        /\ total.grand \in Nat /\ amount \in Nat
    BY <1>1, BucketsType, AmountAssumption DEF LInv, BooksInv, TypeOK, DepositCovered, AmountOrZero
  <2>2. /\ RentalReceipt \in Int /\ rest \in Int /\ deposit \in Nat
        /\ DepositHeld(ledger) = DepositNet(ledger)
    BY <2>1 DEF RentalReceipt, AtLeastZero, DepositHeld
  <2>3. /\ ledger' = Post(paid, "DEPOSIT", rest)
        /\ collateral'.amount = amount
        /\ deposit = amount
    BY <2>1 DEF ConfirmOrder
  <2>4. /\ paid \in [Sum -> Int] /\ DepositNet(paid) = DepositNet(ledger)
        /\ PaidRental(paid) = PaidRental(ledger) + RentalReceipt
    BY <2>1, <2>2, PostType, PostRentalPayment DEF Purpose
  <2>5. /\ DepositNet(ledger') = DepositNet(paid) + rest
        /\ PaidRental(ledger') = PaidRental(paid)
    <3> HIDE DEF paid, rest
    <3> QED BY <2>2, <2>3, <2>4, PostDeposit
  <2>6. DepositHeld(ledger') = amount
    BY <2>1, <2>2, <2>3, <2>4, <2>5 DEF DepositHeld, AtLeastZero
  <2> QED BY <2>1, <2>3, <2>4, <2>5, <2>6 DEF RentalReceipt, AtLeastZero
<1>2. LInv /\ [Next]_vars => [Step]_vars
  BY <1>1
<1> QED BY <1>2, BooksInvariant, PTL DEF Spec, ConfirmationCollectsTheRest

\* Settlement closes the books: nothing is owed either way, and the cash that
\* changes hands is what it records.
THEOREM SettlementCorrect == Spec => SettlementBalances
<1> DEFINE Step ==
        status # "COMPLETED" /\ status' = "COMPLETED" =>
            /\ PaidRental(ledger') = total'.grand
            /\ DepositNet(ledger') = 0
            /\ Cash(ledger') - Cash(ledger) = settlement'.due - settlement'.refund
<1>1. ASSUME LInv, [Next]_vars PROVE Step
  <2> SUFFICES ASSUME NEW agreed \in AmountOrZero, NEW withToken \in BOOLEAN,
                      SettleOrder(agreed, withToken)
               PROVE  /\ PaidRental(ledger') = total'.grand
                      /\ DepositNet(ledger') = 0
                      /\ Cash(ledger') - Cash(ledger) = settlement'.due - settlement'.refund
    BY <1>1, WhichCommand
  <2> DEFINE plan == Plan(agreed)
  <2>1. TypeOK /\ DepositCovered /\ agreed \in Nat
    BY <1>1, AmountAssumption DEF LInv, BooksInv, AmountOrZero
  <2>2. /\ ledger' = SettlementReceipts(plan) /\ total'.grand = plan.grand
        /\ plan.grand >= 0 /\ plan.charges >= 0
        /\ settlement'.due = plan.due /\ settlement'.refund = Refund(plan)
    BY DEF SettleOrder
  <2>3. /\ PaidRental(ledger') = plan.grand /\ DepositNet(ledger') = 0
        /\ PaidRental(ledger) + DepositNet(ledger) + plan.due - Refund(plan) = plan.grand
    BY <2>1, <2>2, SettlementEffect
  <2>4. plan \in PlanRow /\ PaidRental(ledger) \in Int /\ DepositNet(ledger) \in Int
    BY <2>1, <2>2, PlanType, BucketsType DEF TypeOK
  <2> HIDE DEF plan
  <2>5. plan.grand \in Int /\ plan.due \in Int /\ Refund(plan) \in Int
    BY <2>4 DEF PlanRow, Refund
  <2> QED BY <2>2, <2>3, <2>4, <2>5 DEF Cash
<1>2. LInv /\ [Next]_vars => [Step]_vars
  BY <1>1
<1> QED BY <1>2, BooksInvariant, PTL DEF Spec, SettlementBalances

\* An overridden fee is settled for the figures of the preview whose token was
\* presented.
THEOREM OverrideCorrect == Spec => OverrideSettlesAsShown
<1> DEFINE Step ==
        status' = "COMPLETED" /\ fee' # fee =>
            /\ preview.plan.agreed = fee'
            /\ settlement'.due = preview.plan.due
            /\ settlement'.refund = Refund(preview.plan)
            /\ total'.grand = preview.plan.grand
<1>1. ASSUME [Next]_vars PROVE Step
  <2> SUFFICES ASSUME NEW agreed \in AmountOrZero, NEW withToken \in BOOLEAN,
                      SettleOrder(agreed, withToken), fee' # fee
               PROVE  /\ preview.plan.agreed = fee'
                      /\ settlement'.due = preview.plan.due
                      /\ settlement'.refund = Refund(preview.plan)
                      /\ total'.grand = preview.plan.grand
    BY <1>1, WhichCommand
  <2>1. fee' = agreed
    BY DEF SettleOrder
  <2>2. preview.plan = Plan(agreed)
    BY <2>1 DEF SettleOrder, TokenMatches
  <2>3. Plan(agreed).agreed = agreed
    BY DEF Plan
  <2>4. /\ settlement'.due = Plan(agreed).due
        /\ settlement'.refund = Refund(Plan(agreed))
        /\ total'.grand = Plan(agreed).grand
    BY DEF SettleOrder
  <2> QED BY <2>1, <2>2, <2>3, <2>4
<1>2. [Next]_vars => [Step]_vars
  BY <1>1
<1> QED BY <1>2, PTL DEF Spec, OverrideSettlesAsShown

\* Whatever was charged, paid, refunded and agreed before, the settlement moves the
\* money it records, and the books are closed by it.
THEOREM SettlementExact == Spec => SettlementIsExact
BY RentalPartCorrect, SettlementCorrect, OverrideCorrect DEF SettlementIsExact

-----------------------------------------------------------------------------
(* Sums over payment rows, without recursion: n is the sum of the amounts  *)
(* over the rows L if some additive function of the sets of rows says so.  *)

SumsTo(L, amount, n) ==
    \E f \in [SUBSET Payment -> Nat] :
        /\ f[{}] = 0
        /\ \A S \in SUBSET Payment : f[S] = f[S \cap L]
        /\ \A S \in SUBSET Payment, p \in L : p \notin S => f[S \cup {p}] = f[S] + amount[p]
        /\ f[Payment] = n

LEMMA NoRowsSumToZero ==
    ASSUME NEW amount, NEW n, SumsTo({}, amount, n)
    PROVE  n = 0
<1>1. Payment \cap {} = {}
  OBVIOUS
<1> QED
  BY <1>1 DEF SumsTo

LEMMA ZeroIsTheSumOfNoRows ==
    ASSUME NEW amount
    PROVE  SumsTo({}, amount, 0)
<1> DEFINE f == [S \in SUBSET Payment |-> 0]
<1>1. f \in [SUBSET Payment -> Nat] /\ \A S \in SUBSET Payment : f[S] = 0
  OBVIOUS
<1> HIDE DEF f
<1> QED
  BY <1>1 DEF SumsTo

LEMMA SameRowsSameSum ==
    ASSUME NEW L \in SUBSET Payment, NEW a, NEW b, NEW n, SumsTo(L, a, n), \A p \in L : b[p] = a[p]
    PROVE  SumsTo(L, b, n)
<1>1. PICK f \in [SUBSET Payment -> Nat] :
        /\ f[{}] = 0
        /\ \A S \in SUBSET Payment : f[S] = f[S \cap L]
        /\ \A S \in SUBSET Payment, p \in L : p \notin S => f[S \cup {p}] = f[S] + a[p]
        /\ f[Payment] = n
  BY DEF SumsTo
<1>2. \A S \in SUBSET Payment, p \in L : p \notin S => f[S \cup {p}] = f[S] + b[p]
  BY <1>1
<1> QED
  BY <1>1, <1>2, ZenonT(30) DEF SumsTo

LEMMA RowAdds ==
    ASSUME NEW L \in SUBSET Payment, NEW a, NEW b, NEW n, SumsTo(L, a, n),
           NEW p \in Payment \ L, b[p] \in Nat, \A q \in L : a[q] \in Nat /\ b[q] = a[q]
    PROVE  SumsTo(L \cup {p}, b, n + b[p])
<1>1. PICK f \in [SUBSET Payment -> Nat] :
        /\ f[{}] = 0
        /\ \A S \in SUBSET Payment : f[S] = f[S \cap L]
        /\ \A S \in SUBSET Payment, q \in L : q \notin S => f[S \cup {q}] = f[S] + a[q]
        /\ f[Payment] = n
  BY DEF SumsTo
<1> DEFINE g == [S \in SUBSET Payment |-> IF p \in S THEN f[S] + b[p] ELSE f[S]]
<1>2. \A S \in SUBSET Payment : g[S] = IF p \in S THEN f[S] + b[p] ELSE f[S]
  OBVIOUS
<1>3. g \in [SUBSET Payment -> Nat]
  OBVIOUS
<1> HIDE DEF g
<1>4. g[{}] = 0 /\ g[Payment] = n + b[p]
  BY <1>1, <1>2
<1>5. ASSUME NEW S \in SUBSET Payment
      PROVE  g[S] = g[S \cap (L \cup {p})]
  <2>1. (S \cap (L \cup {p})) \cap L = S \cap L
    OBVIOUS
  <2>2. f[S \cap (L \cup {p})] = f[S]
    BY <1>1, <2>1
  <2> QED
    BY <1>2, <2>2
<1>6. ASSUME NEW S \in SUBSET Payment, NEW q \in L \cup {p}, q \notin S
      PROVE  g[S \cup {q}] = g[S] + b[q]
  <2>1. S \cup {q} \in SUBSET Payment /\ f[S] \in Nat
    BY <1>1
  <2>2. CASE q = p
    <3>1. (S \cup {p}) \cap L = S \cap L
      OBVIOUS
    <3>2. f[S \cup {p}] = f[S]
      BY <1>1, <2>1, <2>2, <3>1
    <3> QED
      BY <1>2, <1>6, <2>1, <2>2, <3>2
  <2>3. CASE q # p
    <3>1. q \in L /\ f[S \cup {q}] = f[S] + b[q]
      BY <1>1, <1>6, <2>3
    <3>2. f[S \cup {q}] \in Nat
      BY <1>1, <2>1
    <3>3. CASE p \in S
      <4>1. g[S \cup {q}] = f[S \cup {q}] + b[p] /\ g[S] = f[S] + b[p]
        BY <1>2, <2>1, <3>3
      <4>2. b[q] \in Nat
        BY <3>1
      <4> QED
        BY <2>1, <3>1, <4>1, <4>2
    <3>4. CASE p \notin S
      BY <1>2, <2>1, <2>3, <3>1, <3>4
    <3> QED
      BY <3>3, <3>4
  <2> QED
    BY <2>2, <2>3
<1> QED
  BY <1>3, <1>4, <1>5, <1>6 DEF SumsTo

LEMMA RowLeaves ==
    ASSUME NEW L \in SUBSET Payment, NEW a, NEW b, NEW n, SumsTo(L, a, n),
           NEW p \in L, \A q \in L : a[q] \in Nat, \A q \in L \ {p} : b[q] = a[q]
    PROVE  SumsTo(L \ {p}, b, n - a[p]) /\ n - a[p] \in Nat
<1>1. PICK f \in [SUBSET Payment -> Nat] :
        /\ f[{}] = 0
        /\ \A S \in SUBSET Payment : f[S] = f[S \cap L]
        /\ \A S \in SUBSET Payment, q \in L : q \notin S => f[S \cup {q}] = f[S] + a[q]
        /\ f[Payment] = n
  BY DEF SumsTo
<1> DEFINE g == [S \in SUBSET Payment |-> f[S \ {p}]]
<1>2. \A S \in SUBSET Payment : g[S] = f[S \ {p}]
  OBVIOUS
<1>3. g \in [SUBSET Payment -> Nat]
  OBVIOUS
<1> HIDE DEF g
<1>4. g[{}] = 0
  BY <1>1, <1>2
<1>5. g[Payment] = n - a[p] /\ n - a[p] \in Nat
  <2>1. Payment \ {p} \in SUBSET Payment /\ (Payment \ {p}) \cup {p} = Payment /\ p \notin Payment \ {p}
    OBVIOUS
  <2>2. f[Payment] = f[Payment \ {p}] + a[p]
    BY <1>1, <2>1
  <2>3. f[Payment \ {p}] \in Nat /\ a[p] \in Nat
    BY <1>1, <2>1
  <2>4. g[Payment] = f[Payment \ {p}] /\ f[Payment] = n
    BY <1>1, <1>2
  <2> QED
    BY <2>2, <2>3, <2>4
<1>6. ASSUME NEW S \in SUBSET Payment
      PROVE  g[S] = g[S \cap (L \ {p})]
  <2>1. /\ S \ {p} \in SUBSET Payment /\ (S \cap (L \ {p})) \ {p} \in SUBSET Payment
        /\ (S \ {p}) \cap L = ((S \cap (L \ {p})) \ {p}) \cap L
    OBVIOUS
  <2>2. f[S \ {p}] = f[(S \cap (L \ {p})) \ {p}]
    BY <1>1, <2>1
  <2> QED
    BY <1>2, <2>2
<1>7. ASSUME NEW S \in SUBSET Payment, NEW q \in L \ {p}, q \notin S
      PROVE  g[S \cup {q}] = g[S] + b[q]
  <2>1. (S \cup {q}) \ {p} = (S \ {p}) \cup {q} /\ S \ {p} \in SUBSET Payment /\ S \cup {q} \in SUBSET Payment
    OBVIOUS
  <2>2. f[(S \ {p}) \cup {q}] = f[S \ {p}] + a[q]
    BY <1>1, <1>7, <2>1
  <2> QED
    BY <1>2, <2>1, <2>2
<1> QED
  BY <1>3, <1>4, <1>5, <1>6, <1>7 DEF SumsTo

-----------------------------------------------------------------------------
(* The inductive invariant *)

Bucket == {"rentalIn", "orderRefund", "otherOut", "depositIn", "depositOut"}

LiveRows(s) == {p \in Payment : payments[p].live /\ SumOf[payments[p].purpose] = s}
AmountOf == [p \in Payment |-> payments[p].amount]

\* Confirmation takes the collateral, and is the last moment of no return.
CollateralTaken == collateral.method = "NONE" <=> status \in {"NONE", "RESERVED", "CANCELLED"}

\* Until then, which is as long as payments may be voided, the sums are those of the rows.
Accounted ==
    collateral.method = "NONE" => \A s \in Bucket : SumsTo(LiveRows(s), AmountOf, ledger[s])

OtherOutIsPaid == ledger.otherOut >= 0

CoverInv == CollateralTaken /\ Accounted /\ OtherOutIsPaid /\ MoneyIsCovered

LEMMA PostIs ==
    ASSUME NEW l \in [Sum -> Int], NEW purpose \in Purpose, NEW amount, NEW s \in Sum
    PROVE  Post(l, purpose, amount)[s] = IF s = SumOf[purpose] THEN l[s] + amount ELSE l[s]
BY DEF Post, SumOf, Sum, Purpose

LEMMA SumOfIsBucket == \A purpose \in Purpose : SumOf[purpose] \in Bucket
BY DEF SumOf, Purpose, Bucket

LEMMA AmountsArePositive ==
    ASSUME TypeOK
    PROVE  \A p \in Payment : payments[p].live => payments[p] \in PaymentRow /\ AmountOf[p] \in Nat
BY AmountAssumption DEF TypeOK, PaymentRow, Amount, NoPayment, AmountOf

LEMMA CoverInit == Init => CoverInv
<1> SUFFICES ASSUME Init PROVE CoverInv
  OBVIOUS
<1>1. \A s \in Bucket : LiveRows(s) = {} /\ ledger[s] = 0
  BY DEF Init, LiveRows, NoPayment, EmptyLedger, Bucket, Sum
<1>2. Accounted
  BY <1>1, ZeroIsTheSumOfNoRows DEF Accounted
<1> QED
  BY <1>1, <1>2 DEF Init, CoverInv, CollateralTaken, OtherOutIsPaid, MoneyIsCovered, RefundsCovered,
                    SelfCancelledHoldsNothing, NoCollateral, Bucket

LEMMA CreatePaymentAccounted ==
    ASSUME TypeOK, CoverInv, NEW p \in Payment, NEW purpose \in Purpose, NEW amount \in Amount,
           CreatePayment(p, purpose, amount)
    PROVE  Accounted'
<1> SUFFICES ASSUME collateral.method = "NONE", NEW s \in Bucket
             PROVE  SumsTo(LiveRows(s)', AmountOf', ledger'[s])
  BY DEF Accounted, CreatePayment
<1>1. /\ payments[p] = NoPayment
      /\ payments' = [payments EXCEPT ![p] = [purpose |-> purpose, amount |-> amount, live |-> TRUE]]
      /\ amount \in Nat
  BY AmountAssumption DEF CreatePayment, Amount
<1>2. ledger'[s] = IF s = SumOf[purpose] THEN ledger[s] + amount ELSE ledger[s]
  <2>1. status # "COMPLETED" /\ s \in Sum
    BY DEF CoverInv, CollateralTaken, Bucket, Sum
  <2> QED
    BY <2>1, PostIs DEF CreatePayment, TypeOK
<1>3. p \notin LiveRows(s) /\ LiveRows(s) \in SUBSET Payment
  BY <1>1 DEF LiveRows, NoPayment
<1>4. /\ LiveRows(s)' = IF s = SumOf[purpose] THEN LiveRows(s) \cup {p} ELSE LiveRows(s)
      /\ AmountOf'[p] = amount /\ \A q \in LiveRows(s) : AmountOf'[q] = AmountOf[q]
  <2>1. /\ payments'[p] = [purpose |-> purpose, amount |-> amount, live |-> TRUE]
        /\ \A q \in Payment \ {p} : payments'[q] = payments[q]
    BY <1>1 DEF TypeOK
  <2>2. \A q \in Payment : q \in LiveRows(s)' <=> q \in LiveRows(s) \/ (q = p /\ s = SumOf[purpose])
    BY <1>3, <2>1 DEF LiveRows
  <2>3. LiveRows(s)' \in SUBSET Payment
    BY DEF LiveRows
  <2>4. AmountOf'[p] = amount /\ \A q \in LiveRows(s) : AmountOf'[q] = AmountOf[q]
    BY <1>3, <2>1 DEF AmountOf, LiveRows
  <2> QED
    BY <1>3, <2>2, <2>3, <2>4
<1>5. SumsTo(LiveRows(s), AmountOf, ledger[s]) /\ \A q \in LiveRows(s) : AmountOf[q] \in Nat
  BY AmountsArePositive DEF CoverInv, Accounted, LiveRows
<1>6. CASE s = SumOf[purpose]
  BY <1>1, <1>2, <1>3, <1>4, <1>5, <1>6, RowAdds
<1>7. CASE s # SumOf[purpose]
  BY <1>2, <1>3, <1>4, <1>5, <1>7, SameRowsSameSum
<1> QED
  BY <1>6, <1>7

LEMMA VoidPaymentAccounted ==
    ASSUME TypeOK, CoverInv, NEW p \in Payment, VoidPayment(p)
    PROVE  Accounted' /\ OtherOutIsPaid'
<1>1. /\ payments[p].live /\ payments[p] \in PaymentRow /\ payments[p].purpose \in Purpose
      /\ payments' = [payments EXCEPT ![p] = [payments[p] EXCEPT !.live = FALSE]]
      /\ collateral' = collateral /\ collateral.method = "NONE"
  BY AmountsArePositive DEF VoidPayment, PaymentRow
<1> DEFINE purpose == payments[p].purpose
           amount == payments[p].amount
<1>2. amount \in Nat /\ AmountOf[p] = amount
  BY <1>1, AmountsArePositive DEF AmountOf
<1>3. \A s \in Sum : ledger'[s] = IF s = SumOf[purpose] THEN ledger[s] + (-amount) ELSE ledger[s]
  BY <1>1, PostIs DEF VoidPayment, TypeOK
<1>4. /\ ~payments'[p].live /\ \A q \in Payment : payments'[q].amount = payments[q].amount
      /\ \A q \in Payment \ {p} : payments'[q] = payments[q]
  BY <1>1 DEF TypeOK, PaymentRow
<1>5. AmountOf' = AmountOf
  BY <1>4 DEF AmountOf
<1>6. ASSUME NEW s \in Bucket
      PROVE  /\ SumsTo(LiveRows(s)', AmountOf', ledger'[s])
             /\ s = SumOf[purpose] => ledger'[s] \in Nat
  <2>1. /\ SumsTo(LiveRows(s), AmountOf, ledger[s]) /\ LiveRows(s) \in SUBSET Payment
        /\ \A q \in LiveRows(s) : AmountOf[q] \in Nat
    BY <1>1, AmountsArePositive DEF CoverInv, Accounted, LiveRows
  <2>2. s \in Sum /\ ledger[s] \in Int
    BY DEF Bucket, Sum, TypeOK
  <2>3. CASE s = SumOf[purpose]
    <3>1. p \in LiveRows(s)
      BY <1>1, <2>3 DEF LiveRows
    <3>2. LiveRows(s)' = LiveRows(s) \ {p}
      BY <1>4 DEF LiveRows
    <3>3. ledger'[s] = ledger[s] - AmountOf[p]
      BY <1>2, <1>3, <2>2, <2>3
    <3>4. /\ SumsTo(LiveRows(s) \ {p}, AmountOf, ledger[s] - AmountOf[p])
          /\ ledger[s] - AmountOf[p] \in Nat
      BY <2>1, <3>1, RowLeaves
    <3> QED
      BY <1>5, <3>2, <3>3, <3>4
  <2>4. CASE s # SumOf[purpose]
    <3>1. LiveRows(s)' = LiveRows(s)
      BY <1>4, <2>4 DEF LiveRows
    <3> QED
      BY <1>3, <1>5, <2>1, <2>2, <2>4, <3>1
  <2> QED
    BY <2>3, <2>4
<1>7. OtherOutIsPaid'
  BY <1>3, <1>6 DEF OtherOutIsPaid, CoverInv, Bucket, Sum
<1> QED
  BY <1>6, <1>7 DEF Accounted

\* What is left of a bucket's hold on its refunds.
LEMMA CoverOf ==
    ASSUME NEW l \in [Sum -> Int]
    PROVE  /\ PaidRental(l) = l.rentalIn - l.orderRefund - l.otherOut
           /\ DepositNet(l) = l.depositIn - l.depositOut
           /\ \A s \in Bucket : l[s] \in Int
BY DEF PaidRental, RentalOut, DepositNet, Sum, Bucket

LEMMA CreatePaymentPosts ==
    ASSUME TypeOK, NEW p \in Payment, NEW purpose \in Purpose, NEW amount \in Amount,
           CreatePayment(p, purpose, amount)
    PROVE  /\ amount \in Nat
           /\ \A s \in Bucket : ledger'[s] = IF s = SumOf[purpose] THEN ledger[s] + amount ELSE ledger[s]
<1> DEFINE posted == Post(ledger, purpose, amount)
<1>1. amount \in Nat
  BY AmountAssumption DEF Amount
<1>2. posted \in [Sum -> Int]
  BY <1>1, PostType DEF TypeOK
<1>3. ledger' = IF status = "COMPLETED" THEN [posted EXCEPT !["reversals"] = @ + amount] ELSE posted
  BY DEF CreatePayment
<1>4. \A s \in Bucket : s \in Sum /\ s # "reversals"
  BY DEF Bucket, Sum
<1>5. \A s \in Bucket : posted[s] = IF s = SumOf[purpose] THEN ledger[s] + amount ELSE ledger[s]
  BY <1>4, PostIs DEF TypeOK
<1> HIDE DEF posted
<1> QED
  BY <1>1, <1>2, <1>3, <1>4, <1>5

LEMMA RefundsStep ==
    ASSUME LInv, LInv', CoverInv, OtherOutIsPaid', [Next]_vars
    PROVE  RefundsCovered'
<1>1. /\ ledger \in [Sum -> Int] /\ ledger' \in [Sum -> Int]
      /\ DepositNet(ledger') >= 0 /\ ledger.otherOut >= 0 /\ ledger'.otherOut >= 0
      /\ ledger.orderRefund <= ledger.rentalIn
  BY DEF LInv, BooksInv, DepositCovered, TypeOK, CoverInv, OtherOutIsPaid, MoneyIsCovered, RefundsCovered
<1>2. ledger'.depositOut <= ledger'.depositIn
  BY <1>1, CoverOf DEF Bucket
<1> SUFFICES ledger'.orderRefund <= ledger'.rentalIn
  BY <1>2 DEF RefundsCovered
<1>3. ASSUME PaidRental(ledger') >= 0
      PROVE  ledger'.orderRefund <= ledger'.rentalIn
  BY <1>1, <1>3, CoverOf DEF Bucket
<1>4. ASSUME NEW method \in {"CASH", "DOCUMENT"}, NEW amount \in AmountOrZero, ConfirmOrder(method, amount)
      PROVE  ledger'.orderRefund <= ledger'.rentalIn
  <2>1. RentalReceipt \in Nat
    BY BucketsType DEF LInv, TypeOK, RentalReceipt, AtLeastZero
  <2>2. ledger'.orderRefund = ledger.orderRefund /\ ledger'.rentalIn = ledger.rentalIn + RentalReceipt
    BY <1>1, <1>4, <2>1 DEF ConfirmOrder, Post, SumOf, Sum
  <2> QED
    BY <1>1, <2>1, <2>2, CoverOf DEF Bucket
<1>5. ASSUME NEW p \in Payment, NEW purpose \in Purpose, NEW amount \in Amount,
             CreatePayment(p, purpose, amount)
      PROVE  ledger'.orderRefund <= ledger'.rentalIn
  <2>1. amount \in Nat
    BY <1>5, CreatePaymentPosts DEF LInv
  <2>2. \A s \in Bucket : ledger'[s] = IF s = SumOf[purpose] THEN ledger[s] + amount ELSE ledger[s]
    BY <1>5, CreatePaymentPosts DEF LInv
  <2>3. CASE purpose = "ORDER_REFUND"
    <3>1. amount <= PaidRental(ledger)
      BY <1>5, <2>3 DEF CreatePayment, RefundCovered
    <3>2. ledger'.orderRefund = ledger.orderRefund + amount /\ ledger'.rentalIn = ledger.rentalIn
      BY <2>2, <2>3 DEF SumOf, Bucket
    <3> QED
      BY <1>1, <2>1, <3>1, <3>2, CoverOf DEF Bucket
  <2>4. CASE purpose # "ORDER_REFUND"
    <3>1. ledger'.orderRefund = ledger.orderRefund /\ ledger'.rentalIn \in {ledger.rentalIn, ledger.rentalIn + amount}
      BY <2>2, <2>4 DEF SumOf, Bucket, Purpose
    <3> QED
      BY <1>1, <2>1, <3>1, CoverOf DEF Bucket
  <2> QED
    BY <2>3, <2>4
<1>6. ASSUME NEW p \in Payment, VoidPayment(p)
      PROVE  PaidRental(ledger') >= 0
  BY <1>6 DEF VoidPayment, VoidKeepsRefundsCovered
<1>7. ASSUME NEW agreed \in AmountOrZero, NEW withToken \in BOOLEAN, SettleOrder(agreed, withToken)
      PROVE  PaidRental(ledger') >= 0
  BY <1>7 DEF SettleOrder, LInv, BooksInv, SettledStaysSettled
<1>8. CASE ledger' = ledger
  BY <1>1, <1>8
<1> QED
  BY <1>3, <1>4, <1>5, <1>6, <1>7, <1>8
  DEF Next, BookingNext, CreateOrder, StartOrder, CancelOrder, CheckCancellable, CancelByCustomer,
      MoneyNext, AddCharge, ClosingNext, ReceiveReturn, PreviewSettlement, ReturnDocument, vars

LEMMA OtherOutStep ==
    ASSUME LInv, CoverInv, [Next]_vars
    PROVE  OtherOutIsPaid'
<1>1. ledger \in [Sum -> Int] /\ ledger.otherOut \in Int /\ ledger.otherOut >= 0
  BY CoverOf DEF LInv, TypeOK, CoverInv, OtherOutIsPaid, Bucket
<1>2. ASSUME NEW method \in {"CASH", "DOCUMENT"}, NEW amount \in AmountOrZero, ConfirmOrder(method, amount)
      PROVE  ledger'.otherOut = ledger.otherOut
  BY <1>1, <1>2 DEF ConfirmOrder, Post, SumOf, Sum
<1>3. ASSUME NEW p \in Payment, NEW purpose \in Purpose, NEW amount \in Amount,
             CreatePayment(p, purpose, amount)
      PROVE  OtherOutIsPaid'
  <2>1. amount \in Nat /\ ledger'.otherOut \in {ledger.otherOut, ledger.otherOut + amount}
    BY <1>3, CreatePaymentPosts DEF LInv, Bucket
  <2> QED
    BY <1>1, <2>1 DEF OtherOutIsPaid
<1>4. ASSUME NEW p \in Payment, VoidPayment(p)
      PROVE  OtherOutIsPaid'
  BY <1>4, VoidPaymentAccounted DEF LInv
<1>5. ASSUME NEW agreed \in AmountOrZero, NEW withToken \in BOOLEAN, SettleOrder(agreed, withToken)
      PROVE  ledger'.otherOut = ledger.otherOut
  BY <1>1, <1>5 DEF SettleOrder, SettlementReceipts, Sum
<1>6. ASSUME ledger'.otherOut = ledger.otherOut
      PROVE  OtherOutIsPaid'
  BY <1>1, <1>6 DEF OtherOutIsPaid
<1> QED
  BY <1>2, <1>3, <1>4, <1>5, <1>6
  DEF Next, BookingNext, CreateOrder, StartOrder, CancelOrder, CheckCancellable, CancelByCustomer,
      MoneyNext, AddCharge, ClosingNext, ReceiveReturn, PreviewSettlement, ReturnDocument, vars

\* Every other command leaves the payment rows and the collateral's method alone.
LEMMA AccountedStep ==
    ASSUME LInv, CoverInv, [Next]_vars
    PROVE  Accounted' /\ CollateralTaken'
<1>0. TypeOK /\ collateral \in CollateralRow
  BY DEF LInv, TypeOK
<1>1. ASSUME UNCHANGED <<payments, ledger>>, collateral'.method = collateral.method
      PROVE  Accounted'
  BY <1>1 DEF CoverInv, Accounted, LiveRows, AmountOf
<1>2. ASSUME NEW method \in {"CASH", "DOCUMENT"}, NEW amount \in AmountOrZero, ConfirmOrder(method, amount)
      PROVE  Accounted' /\ CollateralTaken'
  <2>1. collateral'.method = method /\ status' = "CONFIRMED"
    BY <1>2 DEF ConfirmOrder
  <2> QED
    BY <2>1 DEF Accounted, CollateralTaken
<1>3. ASSUME NEW p \in Payment, NEW purpose \in Purpose, NEW amount \in Amount,
             CreatePayment(p, purpose, amount)
      PROVE  Accounted' /\ CollateralTaken'
  <2>1. UNCHANGED <<status, collateral>>
    BY <1>3 DEF CreatePayment
  <2> QED
    BY <1>0, <1>3, <2>1, CreatePaymentAccounted DEF CoverInv, CollateralTaken
<1>4. ASSUME NEW p \in Payment, VoidPayment(p)
      PROVE  Accounted' /\ CollateralTaken'
  <2>1. UNCHANGED <<status, collateral>>
    BY <1>4 DEF VoidPayment
  <2> QED
    BY <1>0, <1>4, <2>1, VoidPaymentAccounted DEF CoverInv, CollateralTaken
<1>5. ASSUME NEW agreed \in AmountOrZero, NEW withToken \in BOOLEAN, SettleOrder(agreed, withToken)
      PROVE  Accounted' /\ CollateralTaken'
  <2>1. /\ status = "RETURNED" /\ status' = "COMPLETED"
        /\ collateral' = [collateral EXCEPT !.status = "RETURNED"]
    BY <1>5 DEF SettleOrder
  <2>2. collateral'.method # "NONE"
    BY <1>0, <2>1 DEF CoverInv, CollateralTaken, CollateralRow
  <2> QED
    BY <2>1, <2>2 DEF Accounted, CollateralTaken
<1>6. CASE ReturnDocument
  <2>1. UNCHANGED <<status, payments, ledger>> /\ collateral'.method = collateral.method
    BY <1>0, <1>6 DEF ReturnDocument, CollateralRow
  <2> QED
    BY <1>1, <2>1 DEF CoverInv, CollateralTaken
<1>7. ASSUME UNCHANGED <<payments, ledger, collateral>>,
             status' \in {"NONE", "RESERVED", "CANCELLED"} <=> status \in {"NONE", "RESERVED", "CANCELLED"}
      PROVE  Accounted' /\ CollateralTaken'
  BY <1>1, <1>7 DEF CoverInv, CollateralTaken
<1> QED
  BY <1>2, <1>3, <1>4, <1>5, <1>6, <1>7
  DEF Next, BookingNext, CreateOrder, StartOrder, CancelOrder, CheckCancellable, CancelByCustomer, StillUnpaid,
      MoneyNext, AddCharge, ClosingNext, ReceiveReturn, PreviewSettlement, vars

\* Without live payments an order that was never confirmed has no money.
LEMMA NothingLiveNothingHeld ==
    ASSUME TypeOK, CoverInv, status = "RESERVED", NoCompletedPayments
    PROVE  Cash(ledger) = 0
<1>1. \A s \in Bucket : ledger[s] = 0
  <2> SUFFICES ASSUME NEW s \in Bucket PROVE ledger[s] = 0
    OBVIOUS
  <2>1. SumsTo(LiveRows(s), AmountOf, ledger[s])
    BY DEF CoverInv, CollateralTaken, Accounted
  <2>2. LiveRows(s) = {}
    BY DEF NoCompletedPayments, LiveRows
  <2> QED
    BY <2>1, <2>2, NoRowsSumToZero
<1> QED
  BY <1>1 DEF Cash, PaidRental, RentalOut, DepositNet, Bucket

LEMMA SelfCancelledStep ==
    ASSUME LInv, CoverInv, [Next]_vars
    PROVE  SelfCancelledHoldsNothing'
<1> SUFFICES ASSUME customer' = "cancelled"
             PROVE  status' = "CANCELLED" /\ NoCompletedPayments' /\ Cash(ledger') = 0
  BY DEF SelfCancelledHoldsNothing
<1>1. CASE customer = "cancelled"
  <2>1. status = "CANCELLED" /\ NoCompletedPayments /\ Cash(ledger) = 0
    BY <1>1 DEF CoverInv, MoneyIsCovered, SelfCancelledHoldsNothing
  <2>2. UNCHANGED <<status, payments, ledger>>
    BY <1>1, <2>1
    DEF Next, BookingNext, CreateOrder, ConfirmOrder, StartOrder, CancelOrder, CheckCancellable, CancelByCustomer,
        MoneyNext, AddCharge, ChargeMutationAllowed, CreatePayment, PaymentCreationAllowed, VoidPayment,
        ClosingNext, ReceiveReturn, PreviewSettlement, SettleOrder, ReturnDocument, vars
  <2> QED
    BY <2>1, <2>2 DEF NoCompletedPayments
<1>2. CASE customer # "cancelled"
  <2>1. CancelByCustomer
    BY <1>2
    DEF Next, BookingNext, CreateOrder, ConfirmOrder, StartOrder, CancelOrder, CheckCancellable,
        MoneyNext, AddCharge, CreatePayment, VoidPayment,
        ClosingNext, ReceiveReturn, PreviewSettlement, SettleOrder, ReturnDocument, vars
  <2>2. StillUnpaid /\ status' = "CANCELLED" /\ UNCHANGED <<payments, ledger>>
    BY <2>1 DEF CancelByCustomer
  <2> QED
    BY <2>2, NothingLiveNothingHeld DEF StillUnpaid, NoCompletedPayments, LInv
<1> QED
  BY <1>1, <1>2

(***************************************************************************)
(* No refund exceeds what was received, in either bucket, whatever is paid,*)
(* refunded, voided and settled in which order; and a customer who cancels *)
(* leaves no money with the shop, even if a payment raced the cancellation.*)
(***************************************************************************)
THEOREM MoneyAlwaysCovered == Spec => []MoneyIsCovered
<1>1. LInv /\ LInv' /\ CoverInv /\ [Next]_vars => CoverInv'
  BY AccountedStep, OtherOutStep, RefundsStep, SelfCancelledStep DEF CoverInv, MoneyIsCovered
<1>2. CoverInv => MoneyIsCovered
  BY DEF CoverInv
<1> QED
  BY <1>1, <1>2, CoverInit, BooksInvariant, PTL DEF Spec

-----------------------------------------------------------------------------
(* The pages of the order *)

\* A completed order has its settlement, and no other has.
SettledWithCompletion == settlement.exists <=> status = "COMPLETED"

LEMMA SettledWithCompletionHolds == Spec => []SettledWithCompletion
<1>1. Init => SettledWithCompletion
  BY DEF Init, SettledWithCompletion
<1>2. SettledWithCompletion /\ [Next]_vars => SettledWithCompletion'
  BY DEF SettledWithCompletion, Next, BookingNext, CreateOrder, ConfirmOrder, StartOrder, CancelOrder,
         CheckCancellable, CancelByCustomer, StillUnpaid, MoneyNext, AddCharge, CreatePayment, VoidPayment,
         ClosingNext, ReceiveReturn, PreviewSettlement, SettleOrder, ReturnDocument, vars
<1> QED
  BY <1>1, <1>2, PTL DEF Spec

LEMMA AnnouncedHolds == LInv /\ SettledWithCompletion => AnnouncedIsSettled
<1> SUFFICES ASSUME LInv, SettledWithCompletion PROVE AnnouncedIsSettled
  OBVIOUS
<1>1. /\ PaidRental(ledger) \in Int /\ total.grand \in Nat /\ fee \in Nat
      /\ DepositNet(ledger) = ledger.depositIn - ledger.depositOut
      /\ DepositNet(ledger) \in Int
  BY BucketsType, CoverOf DEF LInv, TypeOK
<1>2. ASSUME status = "RETURNED"
      PROVE  /\ SettlementShown.refund = Refund(Plan(fee))
             /\ SettlementShown.due = Plan(fee).due
             /\ SettlementShown.available = Plan(fee).held
             /\ SettlementShown.status = KindOf(Plan(fee))
  <2> DEFINE grand == total.grand
             paid == PaidRental(ledger)
             held == DepositHeld(ledger)
  <2>1. held \in Nat /\ held = AtLeastZero(ledger.depositIn - ledger.depositOut)
    BY <1>1 DEF DepositHeld, AtLeastZero
  <2>2. /\ Plan(fee).held = held
        /\ Refund(Plan(fee)) = AtLeastZero(held - AtLeastZero(grand - paid)) + AtLeastZero(paid - grand)
        /\ Plan(fee).due = AtLeastZero(AtLeastZero(grand - paid) - held)
    <3>1. grand + fee - fee = grand
      BY <1>1
    <3> QED
      BY <3>1 DEF Plan, Refund
  <2>3. /\ SettlementShown.available = held
        /\ SettlementShown.refund = RefundDue(grand - paid, held)
        /\ SettlementShown.due = AmountDue(grand - paid, held)
        /\ SettlementShown.status = IF RefundDue(grand - paid, held) > 0 THEN "REFUND_DUE"
                                    ELSE IF AmountDue(grand - paid, held) > 0 THEN "AMOUNT_DUE"
                                    ELSE "BALANCED"
    BY <1>2, <2>1 DEF SettlementShown, Settlement, Totals, PaymentTotals, SettledWithCompletion
  <2>4. -(grand - paid) = paid - grand
    BY <1>1
  <2> QED
    BY <2>2, <2>3, <2>4 DEF RefundDue, AmountDue, KindOf
<1>3. ASSUME status = "COMPLETED"
      PROVE  /\ SettlementShown.status = "SETTLED"
             /\ SettlementShown.refund = 0 /\ SettlementShown.due = 0
  BY <1>3 DEF SettlementShown, Settlement, SettledWithCompletion
<1> QED
  BY <1>2, <1>3 DEF AnnouncedIsSettled

LEMMA StatusAgrees == LInv => StatusAgreesWithBalance
<1> SUFFICES ASSUME LInv, status # "NONE", PaidRental(ledger) >= 0
             PROVE  /\ Totals.remaining = 0 <=> \/ projection.payment = "PAID"
                                                \/ projection.payment = "REFUNDED" /\ total.grand = 0
                    /\ projection.deposit \in {"HELD", "PARTIALLY_HELD"} => SettlementShown.available > 0
                    /\ projection.deposit \in {"PENDING", "REFUNDED"} => SettlementShown.available = 0
  BY DEF StatusAgreesWithBalance
<1>1. /\ PaidRental(ledger) \in Nat /\ total.grand \in Nat
      /\ DepositNet(ledger) \in Nat
      /\ ledger.depositIn - ledger.depositOut = DepositNet(ledger)
  BY BucketsType, CoverOf DEF LInv, TypeOK, BooksInv, DepositCovered
<1>2. /\ projection.payment = PaymentStatusOf(total.grand, ledger)
      /\ projection.deposit = DepositStatusOf(DepositDue(collateral, depositRequired), ledger)
  BY DEF LInv, BooksInv, ProjectionIsCurrent, Projection
<1>3. Totals.remaining = 0 <=> PaidRental(ledger) >= total.grand
  BY <1>1 DEF Totals, PaymentTotals, AtLeastZero
<1>4. SettlementShown.available = DepositNet(ledger)
  BY <1>1 DEF SettlementShown, Settlement, Totals, PaymentTotals, AtLeastZero
<1>5. Totals.remaining = 0 <=> \/ projection.payment = "PAID"
                               \/ projection.payment = "REFUNDED" /\ total.grand = 0
  BY <1>1, <1>2, <1>3 DEF PaymentStatusOf
<1>6. DepositDue(collateral, depositRequired) \in Nat
  BY DEF DepositDue, LInv, TypeOK, CollateralRow
<1>7. /\ projection.deposit \in {"HELD", "PARTIALLY_HELD"} => DepositNet(ledger) > 0
      /\ projection.deposit \in {"PENDING", "REFUNDED"} => DepositNet(ledger) = 0
  BY <1>1, <1>2, <1>6 DEF DepositStatusOf
<1> QED
  BY <1>4, <1>5, <1>7

(***************************************************************************)
(* The page of a returned order announces exactly what settling it does,   *)
(* and its stored payment and deposit status agree with the balance the    *)
(* page computes, for any amounts.                                         *)
(***************************************************************************)
THEOREM ViewsAlwaysAgree == Spec => []ViewsAgreeWithBooks
<1>1. LInv /\ SettledWithCompletion => ViewsAgreeWithBooks
  BY AnnouncedHolds, StatusAgrees DEF ViewsAgreeWithBooks
<1> QED
  BY <1>1, BooksInvariant, SettledWithCompletionHolds, PTL

-----------------------------------------------------------------------------
(* The pictures of confirmations and settlements (EvidenceUpload) *)

OrderRows == [status : Statuses, confirmation : Requests \cup {NoKey, NoRecord},
              settlement : Requests \cup {NoKey, NoRecord}]

EvidenceTypes ==
  /\ order \in OrderRows
  /\ objects \subseteq Requests /\ late \subseteq Requests
  /\ doubtful \subseteq Requests
  /\ request \in [Requests -> [step : Steps, kind : Kinds, file : BOOLEAN]]
  /\ faulty \subseteq Requests

\* Only an upload stores a picture, and only one given up arrives late.
PicturesAreUploaded ==
  /\ late \subseteq faulty
  /\ \A r \in Requests : request[r].step \in {"upload", "delete"} => request[r].file
  /\ \A r \in Requests : request[r].step = "idle" \/ ~request[r].file => r \notin objects \cup late

\* An undecided commit is the only one, and nothing is recorded before it is decided.
OneInDoubt ==
  \A q \in doubtful : /\ doubtful = {q}
                      /\ order[Kind(q)] = NoRecord
                      /\ request[q].step \in {"failed", "delete", "done"}

EvidenceInv == EvidenceTypes /\ PicturesAreUploaded /\ OneInDoubt /\ NoOrphanWithoutFault

\* If no commit stays undecided: a picture is stored before its commit, and one that
\* is recorded is out of reach of the clean-up of its request.
RecordedIsStored ==
  /\ doubtful = {}
  /\ \A r \in Requests : request[r].step = "commit" /\ request[r].file => r \in objects
  /\ \A kind \in Kinds, r \in Requests :
       order[kind] = r => /\ r \in objects
                          /\ Kind(r) = kind
                          /\ request[r].step \in {"failed", "done"}

LEMMA RecordedRow ==
  ASSUME EvidenceTypes, NEW r \in Requests, NEW next, next = Recorded(r)
  PROVE  /\ next \in OrderRows
         /\ next[Kind(r)] = Key(r)
         /\ \A kind \in Kinds : kind # Kind(r) => next[kind] = order[kind]
<1>1. Kind(r) \in Kinds
  BY DEF EvidenceTypes, Kind
<1>2. Key(r) \in Requests \cup {NoKey, NoRecord}
  BY DEF Key
<1>3. Result(Kind(r)) \in Statuses
  BY DEF Result, Statuses
<1>4. CASE Kind(r) = "confirmation"
  BY <1>2, <1>3, <1>4 DEF EvidenceTypes, OrderRows, Recorded, Kinds
<1>5. CASE Kind(r) = "settlement"
  BY <1>2, <1>3, <1>5 DEF EvidenceTypes, OrderRows, Recorded, Kinds
<1>6. QED  BY <1>1, <1>4, <1>5 DEF Kinds

LEMMA ContinuedRequest ==
  ASSUME EvidenceTypes, NEW r \in Requests, NEW step \in Steps, Continue(r, step)
  PROVE  /\ request' \in [Requests -> [step : Steps, kind : Kinds, file : BOOLEAN]]
         /\ request'[r].step = step
         /\ \A q \in Requests : /\ request'[q].kind = request[q].kind
                                /\ request'[q].file = request[q].file
                                /\ q # r => request'[q] = request[q]
BY DEF EvidenceTypes, Continue

LEMMA MovedOrder ==
  ASSUME EvidenceTypes, OrderMoves
  PROVE  /\ order' \in OrderRows
         /\ \A kind \in Kinds : order'[kind] = order[kind]
BY DEF EvidenceTypes, OrderMoves, OrderRows, Statuses, Kinds

LEMMA EvidenceStarts == EvidenceAssumption /\ EvidenceInit => EvidenceInv /\ RecordedIsStored
<1> SUFFICES ASSUME EvidenceAssumption, EvidenceInit
             PROVE  EvidenceInv /\ RecordedIsStored
  OBVIOUS
<1>1. EvidenceTypes
  BY DEF EvidenceInit, EvidenceTypes, OrderRows, Statuses, Idle, Steps, Kinds
<1>2. PicturesAreUploaded /\ OneInDoubt /\ NoOrphanWithoutFault
  BY DEF EvidenceInit, PicturesAreUploaded, OneInDoubt, NoOrphanWithoutFault, Idle
<1>3. \A kind \in Kinds : order[kind] = NoRecord
  BY DEF EvidenceInit, Kinds
<1>4. RecordedIsStored
  BY <1>3 DEF EvidenceInit, RecordedIsStored, Idle, EvidenceAssumption
<1>5. QED  BY <1>1, <1>2, <1>4 DEF EvidenceInv

\* One request starts, and nothing else changes.
LEMMA StartedRequest ==
  ASSUME EvidenceTypes, NEW r \in Requests, NEW kind \in Kinds, NEW file \in BOOLEAN,
         Start(r, kind, file)
  PROVE  /\ request[r].step = "idle"
         /\ request' \in [Requests -> [step : Steps, kind : Kinds, file : BOOLEAN]]
         /\ request'[r].file = file /\ request'[r].kind = kind
         /\ request'[r].step = IF file THEN "upload" ELSE "commit"
         /\ \A q \in Requests \ {r} : request'[q] = request[q]
         /\ UNCHANGED <<order, objects, late, doubtful, faulty>>
BY DEF EvidenceTypes, Start, Steps

\* A commit of r records r's picture where nothing was recorded.
LEMMA CommitRecords ==
  ASSUME EvidenceInv, NEW r \in Requests,
         \/ Commit(r) \/ CommitFails(r) \/ Decide(r)
  PROVE  /\ order' \in OrderRows
         /\ \/ \A kind \in Kinds : order'[kind] = order[kind]
            \/ /\ order[Kind(r)] = NoRecord
               /\ order'[Kind(r)] = Key(r)
               /\ \A kind \in Kinds : kind # Kind(r) => order'[kind] = order[kind]
<1>1. \/ order' = order
      \/ order' = Recorded(r) /\ order[Kind(r)] = NoRecord
  BY DEF Commit, CommitFails, Decide, StillAllows, Allows, EvidenceInv, OneInDoubt
<1>2. CASE order' = order
  BY <1>2 DEF EvidenceInv, EvidenceTypes
<1>3. CASE order' = Recorded(r) /\ order[Kind(r)] = NoRecord
  BY <1>3, RecordedRow DEF EvidenceInv
<1>4. QED  BY <1>1, <1>2, <1>3

\* A request that goes on without touching the order or an undecided commit.
LEMMA StorageStep ==
  ASSUME EvidenceInv, NEW r \in Requests,
         \/ PutObject(r) \/ PutObjectFails(r) \/ DeleteObject(r) \/ DeleteObjectFails(r)
  PROVE  EvidenceInv'
<1>1. PICK step \in Steps :
         /\ Continue(r, step)
         /\ request[r].step \in {"upload", "delete"}
         /\ \/ request[r].step = "upload" /\ step \in {"commit", "failed"}
            \/ request[r].step = "delete" /\ step = "done"
  BY DEF PutObject, PutObjectFails, DeleteObject, DeleteObjectFails, Steps
<1>2. /\ request' \in [Requests -> [step : Steps, kind : Kinds, file : BOOLEAN]]
      /\ request'[r].step = step
      /\ \A q \in Requests : /\ request'[q].kind = request[q].kind
                             /\ request'[q].file = request[q].file
                             /\ q # r => request'[q] = request[q]
  BY <1>1, ContinuedRequest DEF EvidenceInv
<1>3. /\ UNCHANGED <<order, doubtful>>
      /\ objects' \subseteq objects \cup {r} /\ late' \subseteq late \cup {r}
      /\ faulty \subseteq faulty' /\ faulty' \subseteq faulty \cup {r}
      /\ late' \subseteq late \cup faulty'
      /\ request[r].step = "delete" => r \notin objects' \/ r \in faulty'
  BY DEF PutObject, PutObjectFails, DeleteObject, DeleteObjectFails
<1>4. request[r].file
  BY <1>1 DEF EvidenceInv, PicturesAreUploaded
<1>5. EvidenceTypes'
  BY <1>2, <1>3 DEF EvidenceInv, EvidenceTypes, OrderRows
<1>6. PicturesAreUploaded'
  <2>1. (late \subseteq faulty)'
    BY <1>3 DEF EvidenceInv, PicturesAreUploaded
  <2>2. ASSUME NEW q \in Requests
        PROVE  /\ request'[q].step \in {"upload", "delete"} => request'[q].file
               /\ request'[q].step = "idle" \/ ~request'[q].file => q \notin objects' \cup late'
    <3>1. CASE q = r
      BY <3>1, <1>1, <1>2, <1>4
    <3>2. CASE q # r
      BY <3>2, <1>2, <1>3 DEF EvidenceInv, PicturesAreUploaded
    <3> QED  BY <3>1, <3>2
  <2> QED  BY <2>1, <2>2 DEF PicturesAreUploaded
<1>7. OneInDoubt'
  BY <1>1, <1>2, <1>3 DEF EvidenceInv, OneInDoubt, Kind, EvidenceTypes
<1>8. NoOrphanWithoutFault'
  <2> SUFFICES ASSUME NEW q \in objects' \ faulty', request'[q].step = "done"
               PROVE  order'[request'[q].kind] = q
    BY DEF NoOrphanWithoutFault, Kind
  <2>1. q \in Requests
    BY <1>5 DEF EvidenceTypes
  <2>2. q # r
    BY <1>1, <1>2, <1>3
  <2>3. q \in objects \ faulty /\ request[q].step = "done"
    BY <2>1, <2>2, <1>2, <1>3
  <2> QED
    BY <2>1, <2>3, <1>2, <1>3 DEF EvidenceInv, NoOrphanWithoutFault, Kind
<1> QED  BY <1>5, <1>6, <1>7, <1>8 DEF EvidenceInv

\* An upload that arrives late is of a request that met a fault.
LEMMA LateStep ==
  ASSUME EvidenceInv, NEW r \in Requests, LatePut(r)
  PROVE  EvidenceInv'
<1>1. EvidenceTypes'
  BY DEF EvidenceInv, EvidenceTypes, OrderRows, LatePut
<1>2. PicturesAreUploaded'
  BY DEF EvidenceInv, PicturesAreUploaded, LatePut
<1>3. OneInDoubt'
  BY DEF EvidenceInv, OneInDoubt, LatePut, Kind
<1>4. NoOrphanWithoutFault'
  BY DEF EvidenceInv, NoOrphanWithoutFault, PicturesAreUploaded, LatePut, Kind
<1> QED  BY <1>1, <1>2, <1>3, <1>4 DEF EvidenceInv

\* A request that leaves the order and the storage alone.
LEMMA LeavingStep ==
  ASSUME EvidenceInv, NEW r \in Requests,
         \/ Reject(r) \/ ReadAgain(r) \/ ReadAgainFails(r) \/ Die(r)
  PROVE  EvidenceInv'
<1>1. PICK step \in Steps :
         /\ Continue(r, step)
         /\ request[r].step \notin {"idle", "done"}
         /\ step \in {"failed", "delete", "done"}
         /\ step = "delete" => request[r].file
         /\ step = "done" => \/ r \in faulty' \/ ~request[r].file
                             \/ order[Kind(r)] = r
  BY DEF Reject, ReadAgain, ReadAgainFails, Die, Steps, RefersTo
<1>2. /\ request' \in [Requests -> [step : Steps, kind : Kinds, file : BOOLEAN]]
      /\ request'[r].step = step
      /\ \A q \in Requests : /\ request'[q].kind = request[q].kind
                             /\ request'[q].file = request[q].file
                             /\ q # r => request'[q] = request[q]
  BY <1>1, ContinuedRequest DEF EvidenceInv
<1>3. /\ UNCHANGED <<order, objects, late, doubtful>>
      /\ faulty \subseteq faulty' /\ faulty' \subseteq faulty \cup {r}
  BY DEF Reject, ReadAgain, ReadAgainFails, Die
<1>4. EvidenceTypes'
  BY <1>2, <1>3 DEF EvidenceInv, EvidenceTypes, OrderRows
<1>5. PicturesAreUploaded'
  BY <1>1, <1>2, <1>3 DEF EvidenceInv, PicturesAreUploaded
<1>6. OneInDoubt'
  BY <1>1, <1>2, <1>3 DEF EvidenceInv, EvidenceTypes, OneInDoubt, Kind
<1>7. NoOrphanWithoutFault'
  <2> SUFFICES ASSUME NEW q \in objects' \ faulty', request'[q].step = "done"
               PROVE  order'[request'[q].kind] = q
    BY DEF NoOrphanWithoutFault, Kind
  <2>1. q \in Requests /\ q \in objects \ faulty
    BY <1>3, <1>4 DEF EvidenceTypes
  <2>2. CASE q # r
    BY <2>1, <2>2, <1>2, <1>3 DEF EvidenceInv, NoOrphanWithoutFault, Kind
  <2>3. CASE q = r
    <3>1. request[r].file
      BY <2>1, <2>3 DEF EvidenceInv, PicturesAreUploaded
    <3>2. order[Kind(r)] = r
      BY <3>1, <2>3, <1>1, <1>2
    <3> QED  BY <3>2, <2>3, <1>2, <1>3 DEF Kind
  <2> QED  BY <2>2, <2>3
<1> QED  BY <1>4, <1>5, <1>6, <1>7 DEF EvidenceInv

\* A commit, answered or not, and the decision of one in doubt.
LEMMA CommitStep ==
  ASSUME EvidenceAssumption, EvidenceInv, NEW r \in Requests,
         \/ Commit(r) \/ CommitFails(r) \/ Decide(r)
  PROVE  EvidenceInv'
<1>1. /\ order' \in OrderRows
      /\ \/ \A kind \in Kinds : order'[kind] = order[kind]
         \/ /\ order[Kind(r)] = NoRecord
            /\ order'[Kind(r)] = Key(r)
            /\ \A kind \in Kinds : kind # Kind(r) => order'[kind] = order[kind]
  BY CommitRecords
<1>2. /\ UNCHANGED <<objects, late, faulty>>
      /\ \/ doubtful' = {}
         \/ doubtful' = {r} /\ order' = order /\ order[Kind(r)] = NoRecord
  BY DEF Commit, CommitFails, Decide, StillAllows, Allows
<1>3. /\ request' \in [Requests -> [step : Steps, kind : Kinds, file : BOOLEAN]]
      /\ \A q \in Requests : /\ request'[q].kind = request[q].kind
                             /\ request'[q].file = request[q].file
                             /\ q # r => request'[q] = request[q]
      /\ doubtful' = {r} => request'[r].step = "failed"
      /\ \/ request'[r] = request[r] /\ request[r].step # "commit"
         \/ request[r].step = "commit" /\ request'[r].step \in {"failed", "done"}
      /\ request'[r].step = "done" => \/ request[r].step = "done"
                                      \/ order'[Kind(r)] = Key(r)
  <2>1. CASE Commit(r)
    <3>1. request[r].step = "commit" /\ Continue(r, "done") /\ doubtful' = {} /\ order' = Recorded(r)
      BY <2>1 DEF Commit
    <3>2. order'[Kind(r)] = Key(r)
      BY <3>1, RecordedRow DEF EvidenceInv
    <3> QED  BY <3>1, <3>2, ContinuedRequest DEF EvidenceInv, Steps
  <2>2. CASE CommitFails(r)
    <3>1. request[r].step = "commit" /\ Continue(r, "failed")
      BY <2>2 DEF CommitFails
    <3> QED  BY <3>1, ContinuedRequest DEF EvidenceInv, Steps
  <2>3. CASE Decide(r)
    BY <2>3 DEF Decide, EvidenceInv, EvidenceTypes, OneInDoubt
  <2> QED  BY <2>1, <2>2, <2>3
<1>4. EvidenceTypes'
  BY <1>1, <1>2, <1>3 DEF EvidenceInv, EvidenceTypes, OrderRows
<1>5. PicturesAreUploaded'
  BY <1>2, <1>3 DEF EvidenceInv, PicturesAreUploaded
<1>6. OneInDoubt'
  BY <1>2, <1>3 DEF OneInDoubt, Kind
<1>7. NoOrphanWithoutFault'
  <2> SUFFICES ASSUME NEW q \in objects' \ faulty', request'[q].step = "done"
               PROVE  order'[request'[q].kind] = q
    BY DEF NoOrphanWithoutFault, Kind
  <2>1. q \in Requests /\ q \in objects \ faulty /\ request'[q].kind = request[q].kind
    BY <1>2, <1>3, <1>4 DEF EvidenceTypes
  <2>2. CASE request[q].step = "done"
    <3>1. order[Kind(q)] = q /\ Kind(q) \in Kinds
      BY <2>1, <2>2 DEF EvidenceInv, EvidenceTypes, NoOrphanWithoutFault, Kind
    <3>2. q # NoRecord
      BY <2>1 DEF EvidenceAssumption
    <3> QED  BY <3>1, <3>2, <2>1, <1>1 DEF Kind
  <2>3. CASE request[q].step # "done"
    <3>1. q = r /\ order'[Kind(r)] = Key(r)
      BY <2>3, <2>1, <1>3
    <3>2. request[r].file
      BY <3>1, <2>1 DEF EvidenceInv, PicturesAreUploaded
    <3> QED  BY <3>1, <3>2, <2>1 DEF Key, Kind
  <2> QED  BY <2>2, <2>3
<1> QED  BY <1>4, <1>5, <1>6, <1>7 DEF EvidenceInv

LEMMA StartStep ==
  ASSUME EvidenceInv, NEW r \in Requests, NEW kind \in Kinds, NEW file \in BOOLEAN,
         Start(r, kind, file)
  PROVE  EvidenceInv'
<1>1. /\ request[r].step = "idle"
      /\ request' \in [Requests -> [step : Steps, kind : Kinds, file : BOOLEAN]]
      /\ request'[r].file = file /\ request'[r].kind = kind
      /\ request'[r].step = IF file THEN "upload" ELSE "commit"
      /\ \A q \in Requests \ {r} : request'[q] = request[q]
      /\ UNCHANGED <<order, objects, late, doubtful, faulty>>
  BY StartedRequest DEF EvidenceInv
<1>2. EvidenceTypes'
  BY <1>1 DEF EvidenceInv, EvidenceTypes, OrderRows
<1>3. PicturesAreUploaded'
  BY <1>1 DEF EvidenceInv, PicturesAreUploaded
<1>4. OneInDoubt'
  <2>1. r \notin doubtful
    BY <1>1 DEF EvidenceInv, OneInDoubt
  <2> QED  BY <2>1, <1>1 DEF EvidenceInv, EvidenceTypes, OneInDoubt, Kind
<1>5. NoOrphanWithoutFault'
  BY <1>1 DEF EvidenceInv, EvidenceTypes, NoOrphanWithoutFault, Kind
<1> QED  BY <1>2, <1>3, <1>4, <1>5 DEF EvidenceInv

LEMMA OrderStep ==
  ASSUME EvidenceInv, OrderMoves
  PROVE  EvidenceInv'
<1>1. /\ order' \in OrderRows
      /\ \A kind \in Kinds : order'[kind] = order[kind]
  BY MovedOrder DEF EvidenceInv
<1>2. UNCHANGED <<objects, late, doubtful, request, faulty>>
  BY DEF OrderMoves
<1>3. EvidenceTypes'
  BY <1>1, <1>2 DEF EvidenceInv, EvidenceTypes, OrderRows
<1>4. PicturesAreUploaded'
  BY <1>2 DEF EvidenceInv, PicturesAreUploaded
<1>5. \A r \in Requests : Kind(r) \in Kinds
  BY DEF EvidenceInv, EvidenceTypes, Kind
<1>6. OneInDoubt'
  BY <1>1, <1>2, <1>5 DEF EvidenceInv, EvidenceTypes, OneInDoubt, Kind
<1>7. NoOrphanWithoutFault'
  BY <1>1, <1>2, <1>5 DEF EvidenceInv, EvidenceTypes, NoOrphanWithoutFault, Kind
<1> QED  BY <1>3, <1>4, <1>6, <1>7 DEF EvidenceInv

LEMMA EvidenceInvHolds == EvidenceAssumption => (EvidenceSpec => []EvidenceInv)
<1> SUFFICES ASSUME EvidenceAssumption
             PROVE  EvidenceSpec => []EvidenceInv
  OBVIOUS
<1>1. EvidenceInit => EvidenceInv
  BY EvidenceStarts
<1>2. EvidenceInv /\ [EvidenceNext]_evidenceVars => EvidenceInv'
  <2> SUFFICES ASSUME EvidenceInv, [EvidenceNext]_evidenceVars
               PROVE  EvidenceInv'
    OBVIOUS
  <2>1. CASE UNCHANGED evidenceVars
    BY <2>1 DEF evidenceVars, EvidenceInv, EvidenceTypes, OrderRows, PicturesAreUploaded,
                OneInDoubt, NoOrphanWithoutFault, Kind
  <2>2. CASE OrderMoves
    BY <2>2, OrderStep
  <2>3. ASSUME NEW r \in Requests, NEW kind \in Kinds, NEW file \in BOOLEAN, Start(r, kind, file)
        PROVE  EvidenceInv'
    BY <2>3, StartStep
  <2>4. ASSUME NEW r \in Requests,
               \/ PutObject(r) \/ PutObjectFails(r) \/ LatePut(r)
               \/ DeleteObject(r) \/ DeleteObjectFails(r)
               \/ Commit(r) \/ Reject(r) \/ CommitFails(r) \/ Decide(r)
               \/ ReadAgain(r) \/ ReadAgainFails(r) \/ Die(r)
        PROVE  EvidenceInv'
    BY <2>4, StorageStep, LateStep, CommitStep, LeavingStep
  <2> QED  BY <2>1, <2>2, <2>3, <2>4 DEF EvidenceNext
<1> QED  BY <1>1, <1>2, PTL DEF EvidenceSpec

\* The steps of requests and of the order, if every commit is decided before the
\* order is read again.
LEMMA RecordedStays ==
  EvidenceAssumption /\ ~InDoubt =>
    (EvidenceInv /\ EvidenceInv' /\ RecordedIsStored /\ [EvidenceNext]_evidenceVars => RecordedIsStored')
<1> SUFFICES ASSUME EvidenceAssumption, ~InDoubt, EvidenceInv, EvidenceInv', RecordedIsStored,
                    [EvidenceNext]_evidenceVars
             PROVE  RecordedIsStored'
  OBVIOUS
<1> USE DEF Kind
<1>0. EvidenceTypes /\ EvidenceTypes' /\ \A r \in Requests : r # NoKey /\ r # NoRecord
  BY DEF EvidenceInv, EvidenceAssumption
\* It suffices that pictures stay, commits keep theirs, and what is recorded anew is a commit's.
<1>1. ASSUME NEW r \in Requests,
             /\ UNCHANGED doubtful
             /\ \A q \in Requests \ {r} : request'[q] = request[q]
             /\ \A q \in Requests \ {r} : q \in objects => q \in objects'
             /\ request'[r].step = "commit" /\ request'[r].file => r \in objects'
             /\ \A kind \in Kinds : order[kind] = r => /\ r \in objects'
                                                       /\ request'[r].kind = kind
                                                       /\ request'[r].step \in {"failed", "done"}
             /\ \A kind \in Kinds :
                  \/ order'[kind] = order[kind]
                  \/ /\ kind = request'[r].kind /\ order'[kind] = Key(r)
                     /\ request'[r].step \in {"failed", "done"}
                     /\ request[r].step = "commit"
                     /\ r \in objects => r \in objects'
      PROVE  RecordedIsStored'
  <2>1. ASSUME NEW q \in Requests, request'[q].step = "commit", request'[q].file
        PROVE  q \in objects'
    BY <2>1, <1>1 DEF RecordedIsStored
  <2>2. ASSUME NEW kind \in Kinds, NEW q \in Requests, order'[kind] = q
        PROVE  /\ q \in objects' /\ request'[q].kind = kind
               /\ request'[q].step \in {"failed", "done"}
    <3>1. CASE order'[kind] = order[kind] /\ q = r
      BY <3>1, <2>2, <1>1
    <3>2. CASE order'[kind] = order[kind] /\ q # r
      <4>1. order[kind] = q
        BY <3>2, <2>2
      <4>2. /\ q \in objects /\ request[q].kind = kind
            /\ request[q].step \in {"failed", "done"}
        BY <4>1 DEF RecordedIsStored
      <4>3. q \in objects' /\ request'[q] = request[q]
        BY <4>2, <3>2, <1>1
      <4> QED  BY <4>2, <4>3
    <3>3. CASE order'[kind] # order[kind]
      <4>1. kind = request'[r].kind /\ request[r].step = "commit" /\ order'[kind] = Key(r)
        BY <3>3, <1>1
      <4>2. q = r /\ request[r].file
        BY <4>1, <2>2, <1>0 DEF Key
      <4>3. r \in objects
        BY <4>1, <4>2 DEF RecordedIsStored
      <4> QED  BY <4>1, <4>2, <4>3, <3>3, <1>1
    <3> QED  BY <3>1, <3>2, <3>3
  <2> QED  BY <2>1, <2>2, <1>1 DEF RecordedIsStored
<1>2. CASE UNCHANGED evidenceVars
  BY <1>2 DEF evidenceVars, RecordedIsStored
<1>3. CASE OrderMoves
  <2>1. /\ \A kind \in Kinds : order'[kind] = order[kind]
        /\ UNCHANGED <<objects, doubtful, request>>
    BY <1>3, MovedOrder DEF EvidenceInv, OrderMoves
  <2> QED  BY <2>1 DEF RecordedIsStored
<1>4. ASSUME NEW r \in Requests, NEW kind \in Kinds, NEW file \in BOOLEAN, Start(r, kind, file)
      PROVE  RecordedIsStored'
  <2>1. /\ request[r].step = "idle" /\ request'[r].file = file
        /\ request'[r].step = IF file THEN "upload" ELSE "commit"
        /\ \A q \in Requests \ {r} : request'[q] = request[q]
        /\ UNCHANGED <<order, objects, doubtful>>
    BY <1>4, <1>0, StartedRequest
  <2>2. \A k \in Kinds : order[k] # r
    BY <2>1 DEF RecordedIsStored
  <2> QED  BY <1>1, <2>1, <2>2
<1>5. ASSUME NEW r \in Requests,
             \/ PutObject(r) \/ PutObjectFails(r) \/ DeleteObject(r) \/ DeleteObjectFails(r)
      PROVE  RecordedIsStored'
  <2>1. PICK step \in Steps :
           /\ Continue(r, step)
           /\ request[r].step \in {"upload", "delete"}
           /\ step = "commit" => r \in objects'
    BY <1>5 DEF PutObject, PutObjectFails, DeleteObject, DeleteObjectFails, Steps
  <2>2. /\ UNCHANGED <<order, doubtful>>
        /\ \A q \in Requests \ {r} : q \in objects => q \in objects'
    BY <1>5 DEF PutObject, PutObjectFails, DeleteObject, DeleteObjectFails
  <2>3. \A kind \in Kinds : order[kind] # r
    BY <2>1 DEF RecordedIsStored
  <2> QED  BY <1>0, <1>1, <2>1, <2>2, <2>3, ContinuedRequest
<1>6. ASSUME NEW r \in Requests, LatePut(r)
      PROVE  RecordedIsStored'
  BY <1>6 DEF LatePut, RecordedIsStored
<1>7. ASSUME NEW r \in Requests,
             \/ Reject(r) \/ ReadAgain(r) \/ ReadAgainFails(r) \/ Die(r)
      PROVE  RecordedIsStored'
  <2>1. PICK step \in {"failed", "delete", "done"} :
           /\ Continue(r, step)
           /\ \A kind \in Kinds : order[kind] = r => step # "delete"
    BY <1>7 DEF Reject, ReadAgain, ReadAgainFails, Die, RefersTo, RecordedIsStored
  <2>2. UNCHANGED <<order, objects, doubtful>>
    BY <1>7 DEF Reject, ReadAgain, ReadAgainFails, Die
  <2>3. \A kind \in Kinds : order[kind] = r => r \in objects /\ request[r].kind = kind
    BY DEF RecordedIsStored
  <2>4. step \in Steps
    BY DEF Steps
  <2>5. /\ request'[r].step = step /\ request'[r].kind = request[r].kind
        /\ \A q \in Requests \ {r} : request'[q] = request[q]
    BY <1>0, <2>1, <2>4, ContinuedRequest
  <2>6. step # "commit"
    OBVIOUS
  <2> QED  BY <1>1, <2>1, <2>2, <2>3, <2>5, <2>6
<1>8. ASSUME NEW r \in Requests, Commit(r) \/ CommitFails(r)
      PROVE  RecordedIsStored'
  <2>1. PICK step \in {"failed", "done"} : Continue(r, step) /\ request[r].step = "commit"
    BY <1>8 DEF Commit, CommitFails
  <2>2. UNCHANGED <<objects, doubtful>>
    BY <1>8 DEF Commit, CommitFails
  <2>3. \/ \A kind \in Kinds : order'[kind] = order[kind]
        \/ /\ order'[Kind(r)] = Key(r)
           /\ \A kind \in Kinds : kind # Kind(r) => order'[kind] = order[kind]
    BY <1>8, CommitRecords
  <2>4. step \in Steps
    BY DEF Steps
  <2>5. /\ request'[r].step = step /\ request'[r].kind = request[r].kind
        /\ \A q \in Requests \ {r} : request'[q] = request[q]
    BY <1>0, <2>1, <2>4, ContinuedRequest
  <2>6. \A kind \in Kinds : order[kind] # r
    BY <2>1 DEF RecordedIsStored
  <2> QED  BY <1>1, <2>1, <2>2, <2>3, <2>5, <2>6
<1>9. ASSUME NEW r \in Requests, Decide(r)
      PROVE  RecordedIsStored'
  BY <1>9 DEF Decide, RecordedIsStored
<1> QED
  BY <1>2, <1>3, <1>4, <1>5, <1>6, <1>7, <1>8, <1>9 DEF EvidenceNext

(***************************************************************************)
(* If a commit whose answer was lost is decided by the time the order is   *)
(* read again, the pictures a confirmation and a settlement refer to are   *)
(* in the storage, for any requests, whatever the storage, the reads and   *)
(* the processes fail (rental-confirmation.service.ts:140).                *)
(***************************************************************************)
THEOREM EvidenceStaysStored == EvidenceAssumption /\ ~InDoubt => (EvidenceSpec => []EvidenceIsKept)
<1> SUFFICES ASSUME EvidenceAssumption, ~InDoubt
             PROVE  EvidenceSpec => []EvidenceIsKept
  OBVIOUS
<1>1. EvidenceInit => RecordedIsStored
  BY EvidenceStarts
<1>2. EvidenceSpec => []EvidenceInv
  BY EvidenceInvHolds
<1>3. EvidenceInv /\ EvidenceInv' /\ RecordedIsStored /\ [EvidenceNext]_evidenceVars => RecordedIsStored'
  BY RecordedStays
<1>4. RecordedIsStored => EvidenceIsKept
  BY DEF RecordedIsStored, EvidenceIsKept
<1> QED  BY <1>1, <1>2, <1>3, <1>4, PTL DEF EvidenceSpec

(***************************************************************************)
(* Even if commits stay undecided, the state keeps its types and a request *)
(* that met no fault leaves no picture behind that no order refers to.     *)
(***************************************************************************)
THEOREM EvidenceLeavesNothing ==
  EvidenceAssumption => (EvidenceSpec => [](EvidenceTypeOK /\ NoOrphanWithoutFault))
<1> SUFFICES ASSUME EvidenceAssumption
             PROVE  EvidenceSpec => [](EvidenceTypeOK /\ NoOrphanWithoutFault)
  OBVIOUS
<1>1. EvidenceInv => Cardinality(doubtful) <= 1
  <2> SUFFICES ASSUME EvidenceInv
               PROVE  Cardinality(doubtful) <= 1
    OBVIOUS
  <2>1. CASE doubtful = {}
    <3>1. Cardinality(doubtful) = 0
      BY <2>1, FS_EmptySet, Zenon
    <3> QED  BY <3>1
  <2>2. ASSUME NEW q \in doubtful
        PROVE  Cardinality(doubtful) <= 1
    <3>1. doubtful = {q}
      BY DEF EvidenceInv, OneInDoubt
    <3>2. Cardinality(doubtful) = 1
      BY <3>1, FS_Singleton, Zenon
    <3> QED  BY <3>2
  <2> QED  BY <2>1, <2>2
<1>2. EvidenceInv => EvidenceTypeOK /\ NoOrphanWithoutFault
  BY <1>1 DEF EvidenceInv, EvidenceTypes, EvidenceTypeOK, OrderRows
<1> QED  BY <1>2, EvidenceInvHolds, PTL

(***************************************************************************)
(* Of all the requests that saw an order without evidence only one is      *)
(* recorded, and no step replaces what it recorded.                        *)
(***************************************************************************)
THEOREM EvidenceIsNeverReplaced ==
  EvidenceAssumption => (EvidenceSpec => [][RecordedOnce]_evidenceVars)
<1> SUFFICES ASSUME EvidenceAssumption
             PROVE  EvidenceSpec => [][RecordedOnce]_evidenceVars
  OBVIOUS
<1>1. EvidenceInv /\ [EvidenceNext]_evidenceVars => [RecordedOnce]_evidenceVars
  <2> SUFFICES ASSUME EvidenceInv, EvidenceNext
               PROVE  RecordedOnce
    OBVIOUS
  <2>1. CASE OrderMoves
    BY <2>1, MovedOrder DEF EvidenceInv, RecordedOnce
  <2>2. ASSUME NEW r \in Requests, Commit(r) \/ CommitFails(r) \/ Decide(r)
        PROVE  RecordedOnce
    BY <2>2, CommitRecords DEF RecordedOnce
  <2>3. CASE UNCHANGED order
    BY <2>3 DEF RecordedOnce
  <2> QED
    BY <2>1, <2>2, <2>3 DEF EvidenceNext, Start, PutObject, PutObjectFails, LatePut, DeleteObject,
                            DeleteObjectFails, Reject, ReadAgain, ReadAgainFails, Die
<1> QED  BY <1>1, EvidenceInvHolds, PTL DEF EvidenceSpec
=============================================================================
