--------------------------- MODULE RentalPricing ---------------------------
(* The arithmetic of a rental agreement: how many days a period is billed as, *)
(* what a unit costs for that long, which accessories come along for free,    *)
(* what is written on the order line, how the line is checked when it is      *)
(* written and read back, and what returning late costs.                      *)
(*                                                                            *)
(* A function of the code that may throw is a pair here: its result, and a    *)
(* predicate that says when there is one.  Amounts are integer cents, shop    *)
(* settings integer units of currency, and time counts ticks.                 *)
EXTENDS Integers, FiniteSetsExt

CONSTANTS TicksPerDay,  \* ticks of 24 hours; a period need not be whole days
          MaxSafe,      \* the largest amount in cents the code calculates with
          MaxAmount,    \* RENTAL_PRICING_LIMITS.maxAmount, in units
          MaxThreshold, \* RENTAL_PRICING_LIMITS.maxQuantityThreshold
          MaxDays       \* RENTAL_PRICING_LIMITS.maxDays

PricingAssumption ==
  /\ TicksPerDay \in Nat \ {0} /\ MaxSafe \in Nat /\ MaxAmount \in Nat
  /\ MaxThreshold \in Nat \ {0} /\ MaxDays \in Nat \ {0, 1}

None == -1            \* an amount that was not given (undefined or null)
Cents == 100          \* cents of one unit

-----------------------------------------------------------------------------
(* Durations *)

\* calculateRentalDurationDays: days begun, at least one; the interval must not be empty.
DurationDefined(from, until) == from < until
Duration(from, until) == (until - from + TicksPerDay - 1) \div TicksPerDay

\* assertRentalReschedule
RescheduleAllowed(createdAt, start, end, from, until, maxDaysFromBooking) ==
  /\ DurationDefined(from, until) /\ Duration(from, until) = Duration(start, end)
  /\ createdAt <= from /\ from <= createdAt + maxDaysFromBooking * TicksPerDay

-----------------------------------------------------------------------------
(* The shop's price policy *)

\* validateRentalPricingPolicy
ValidPolicy(p) ==
  /\ p.defaultRentalPrice \in 0 .. MaxAmount /\ p.additionalDayFee \in 0 .. MaxAmount
  /\ p.bulkQuantityThreshold \in 1 .. MaxThreshold
  /\ p.standardRenewalDay \in 2 .. MaxDays /\ p.bulkRenewalDay \in 2 .. MaxDays
  /\ p.standardRenewalDay <= p.bulkRenewalDay
  /\ p.maxOnlineRentalDays \in 1 .. MaxDays

\* buildEffectiveRentalPricingPolicy: only the two prices are the shop's to set.
EffectivePolicy(defaults, price, fee) ==
  [defaults EXCEPT !.defaultRentalPrice = IF price = None THEN @ ELSE price,
                   !.additionalDayFee = IF fee = None THEN @ ELSE fee]

\* assertOnlineRentalDuration
OnlineDurationAllowed(days, p) == ValidPolicy(p) /\ days <= p.maxOnlineRentalDays

-----------------------------------------------------------------------------
(* Accessories *)

\* Lines are records in a function over any finite set of positions.
UnitsOf(role, lines) ==
  MapThenSumSet(LAMBDA i : IF lines[i].role = role THEN lines[i].quantity ELSE 0, DOMAIN lines)
PaidQuantity(lines) == UnitsOf("PAID", lines)            \* rentalPaidQuantity

\* rentalAccessoryAllowance: one free accessory for each paid unit.
AllowanceDefined(lines) ==
  /\ \A i \in DOMAIN lines : lines[i].quantity >= 1
  /\ PaidQuantity(lines) >= 1
  /\ UnitsOf("FREE_ACCESSORY", lines) <= PaidQuantity(lines)

\* assertFreeAccessoryAllowed
AccessoryAllowed(role, allowFree) == role = "FREE_ACCESSORY" => allowFree

-----------------------------------------------------------------------------
(* Cycle prices *)

EffectivePrice(policy, orderPrice, itemPrice) ==
  IF itemPrice # None THEN itemPrice
  ELSE IF orderPrice # None THEN orderPrice ELSE policy.defaultRentalPrice * Cents

\* A renewal on day 5 repeats every 4 days, one on day 8 every 7.
RenewalDay(policy, units) ==
  IF units >= policy.bulkQuantityThreshold THEN policy.bulkRenewalDay ELSE policy.standardRenewalDay
RenewalRepeated(renewalDay) == renewalDay
CycleLength(renewalDay) == renewalDay - 1
Cycles(days, length) == 1 + (days - 1) \div length

\* resolveRentalCyclePricing
CyclePricing(days, units, policy, orderPrice, itemPrice) ==
  LET renewalDay == RenewalDay(policy, units)
      length == CycleLength(renewalDay)
      cycles == Cycles(days, length)
      price == EffectivePrice(policy, orderPrice, itemPrice)
      fee == policy.additionalDayFee * Cents
  IN  [durationDays |-> days, billableQuantity |-> units, renewalDay |-> renewalDay,
       cycleLengthDays |-> length, cycleCount |-> cycles, additionalDayCount |-> days - cycles,
       cyclePrice |-> price, additionalDayFee |-> fee,
       priceSource |-> IF itemPrice # None THEN "ITEM"
                       ELSE IF orderPrice # None THEN "ORDER" ELSE "SHOP",
       unitRentalPrice |-> cycles * price + (days - cycles) * fee]
ValidPrice(price) == price = None \/ price \in 0 .. MaxSafe      \* cyclePriceCents
CyclePricingDefined(days, units, policy, orderPrice, itemPrice) ==
  /\ days >= 1 /\ units >= 1 /\ ValidPolicy(policy)
  /\ ValidPrice(orderPrice) /\ ValidPrice(itemPrice)
  /\ CyclePricing(days, units, policy, orderPrice, itemPrice).unitRentalPrice <= MaxSafe

\* multiplyRentalPricingAmount, sumRentalPricingAmounts
ProductDefined(amount, quantity) ==
  quantity >= 1 /\ amount \in 0 .. MaxSafe /\ amount * quantity <= MaxSafe
SumDefined(amounts) == MapThenSumSet(LAMBDA i : amounts[i], DOMAIN amounts) <= MaxSafe
SumOf(amounts) == MapThenSumSet(LAMBDA i : amounts[i], DOMAIN amounts)

-----------------------------------------------------------------------------
(* Order lines and the snapshot of the terms they were agreed on.  A request  *)
(* has a role, a quantity, a deposit for one item, and the prices an          *)
(* administrator gave: for a cycle of the order or the item, or for the whole *)
(* period ("whole", the deprecated override).                                 *)

FreeSnapshot(days, units) ==
  [version |-> "FREE_ACCESSORY", durationDays |-> days, billableQuantity |-> units,
   unitRentalPrice |-> 0, deposit |-> 0]
WholeSnapshot(days, r) ==
  [version |-> "LEGACY", durationDays |-> days, unitRentalPrice |-> r.whole, deposit |-> r.deposit]
CycleSnapshot(days, units, policy, orderPrice, r) ==
  LET pricing == CyclePricing(days, units, policy, orderPrice, r.itemPrice)
  IN  [version |-> "CYCLE", pricing |-> pricing, policy |-> policy, orderPrice |-> orderPrice,
       itemPrice |-> r.itemPrice, unitRentalPrice |-> pricing.unitRentalPrice, deposit |-> r.deposit]

\* resolveRentalLinePricing
LineDefined(days, units, policy, orderPrice, r) ==
  /\ CyclePricingDefined(days, units, policy, orderPrice, r.itemPrice)
  /\ r.role = "FREE_ACCESSORY" => r.itemPrice = None /\ r.whole = None
  /\ r.role = "PAID" =>
       /\ r.whole # None => r.itemPrice = None /\ orderPrice = None
       /\ ProductDefined(r.deposit, r.quantity)
       /\ ProductDefined(IF r.whole # None THEN r.whole
                         ELSE CyclePricing(days, units, policy, orderPrice, r.itemPrice).unitRentalPrice,
                         r.quantity)
Line(days, units, policy, orderPrice, r) ==
  LET snapshot == IF r.role = "FREE_ACCESSORY" THEN FreeSnapshot(days, units)
                  ELSE IF r.whole # None THEN WholeSnapshot(days, r)
                  ELSE CycleSnapshot(days, units, policy, orderPrice, r)
  IN  [role |-> r.role, quantity |-> r.quantity, unitRentalPrice |-> snapshot.unitRentalPrice,
       lineTotal |-> snapshot.unitRentalPrice * r.quantity,
       depositAmount |-> snapshot.deposit * r.quantity, snapshot |-> snapshot]

\* assertRentalPricingLineSnapshot, inside the booking transaction
LineAccepted(line, days, units) ==
  LET s == line.snapshot IN
  \/ /\ s.version = "FREE_ACCESSORY" /\ line.role = "FREE_ACCESSORY"
     /\ s.durationDays = days /\ s.billableQuantity = units
     /\ s.unitRentalPrice = 0 /\ s.deposit = 0
     /\ line.unitRentalPrice = 0 /\ line.lineTotal = 0 /\ line.depositAmount = 0
  \/ s.version = "LEGACY" /\ line.role = "PAID"
  \/ /\ s.version = "CYCLE" /\ line.role = "PAID"
     /\ CyclePricingDefined(days, units, s.policy, s.orderPrice, s.itemPrice)
     /\ s.pricing = CyclePricing(days, units, s.policy, s.orderPrice, s.itemPrice)
     /\ line.unitRentalPrice = s.pricing.unitRentalPrice
     /\ line.lineTotal = s.pricing.unitRentalPrice * line.quantity
     /\ line.depositAmount = s.deposit * line.quantity

\* readRentalCyclePricing: today's settings play no part.
SnapshotReadable(s) ==
  s.version = "CYCLE" =>
    /\ CyclePricingDefined(s.pricing.durationDays, s.pricing.billableQuantity, s.policy,
                           s.orderPrice, s.itemPrice)
    /\ s.pricing = CyclePricing(s.pricing.durationDays, s.pricing.billableQuantity, s.policy,
                                s.orderPrice, s.itemPrice)

-----------------------------------------------------------------------------
(* Returning *)

LateDays(dueAt, returnedAt) ==
  IF returnedAt <= dueAt THEN 0 ELSE (returnedAt - dueAt + TicksPerDay - 1) \div TicksPerDay
DaysPlusLateDays(start, dueAt, returnedAt) == Duration(start, dueAt) + LateDays(dueAt, returnedAt)
ActualDuration(start, dueAt, returnedAt) ==
  IF returnedAt <= dueAt THEN Duration(start, dueAt) ELSE Duration(start, returnedAt)

Positive(n) == IF n > 0 THEN n ELSE 0

\* calculateRentalReturnFees, for one unit of a line: the days added at the
\* day fee, the cycles added at the cycle price.
CycleFees(p, actual) ==
  LET cycles == Cycles(actual, p.cycleLengthDays)
  IN  [late |-> Positive(actual - cycles - p.additionalDayCount) * p.additionalDayFee,
       extra |-> Positive(cycles - p.cycleCount) * p.cyclePrice]
\* Agreements without cycles keep the policy of the day of the return.
WholeFees(line, late, lateReturn) ==
  [late |-> late * lateReturn.feePerItemPerDay * Cents,
   extra |-> IF late >= lateReturn.newRentalChargeFromLateDay THEN line.unitRentalPrice ELSE 0]
NoFees == [late |-> 0, extra |-> 0]

UnitFees(line, start, dueAt, returnedAt, lateReturn) ==
  CASE line.role = "FREE_ACCESSORY" -> NoFees
    [] line.snapshot.version = "CYCLE" ->
         CycleFees(line.snapshot.pricing, ActualDuration(start, dueAt, returnedAt))
    [] OTHER -> WholeFees(line, LateDays(dueAt, returnedAt), lateReturn)
FeesDefined(line, start, dueAt, returnedAt, lateReturn) ==
  /\ start <= returnedAt
  /\ (line.role = "FREE_ACCESSORY") = (line.snapshot.version = "FREE_ACCESSORY")
  /\ SnapshotReadable(line.snapshot)
  /\ line.snapshot.version = "CYCLE" =>
       line.snapshot.pricing.durationDays = Duration(start, dueAt)
  /\ LET fees == UnitFees(line, start, dueAt, returnedAt, lateReturn)
     IN  fees.late <= MaxSafe /\ fees.extra <= MaxSafe
=============================================================================
