-------------------------- MODULE RentalAgreement --------------------------
(* What one order was agreed to cost, from the moment an administrator's     *)
(* request is priced to the return of its items, while the shop's settings   *)
(* change at any time.  Pricing reads the settings outside the transaction   *)
(* that books; the booking checks the lines again against the policy in      *)
(* their snapshot.  The calendar the order occupies is in RentalOrders.      *)
EXTENDS RentalPricing

CONSTANTS Defaults,     \* DEFAULT_RENTAL_PRICING_POLICY; the shop edits two of its prices
          Saved,        \* [price, fee] the shop saves; None leaves the default
          LateReturn,   \* DEFAULT_RENTAL_POLICY.lateReturn, for agreements without cycles
          Requests,     \* [lines, orderPrice]: what administrators ask for
          Overrides,    \* late fees a clerk agrees for an item instead
          Horizon,      \* bound on the ticks of all dates
          Starts,       \* the ticks rentals start at
          RescheduleDays \* settings.reschedule.maxDaysFromBooking

VARIABLES settings,  \* the price policy in force
          phase,     \* "none", "planned", then rental_orders.status
          order,     \* the plan, later the order and its lines
          shown,     \* the return preview last shown to the clerk
          returned   \* the return record
vars == <<settings, phase, order, shown, returned>>

Time == 0 .. Horizon
NoOrder == [lines |-> << >>]
NotShown == [at |-> None]
NotReturned == [at |-> None]

Policies == {EffectivePolicy(Defaults, s.price, s.fee) : s \in Saved}

Init == /\ settings \in Policies
        /\ phase = "none" /\ order = NoOrder
        /\ shown = NotShown /\ returned = NotReturned

ChangeSettings ==
  /\ settings' \in Policies
  /\ UNCHANGED <<phase, order, shown, returned>>

\* RentalCreationService.create up to the transaction.  "agreed" remembers
\* the request and the prices in force, which the code does not keep.
Plan(r, from, until) ==
  LET days == Duration(from, until)
      units == PaidQuantity(r.lines)
  IN  /\ phase = "none" /\ DurationDefined(from, until) /\ AllowanceDefined(r.lines)
      /\ \A i \in DOMAIN r.lines : LineDefined(days, units, settings, r.orderPrice, r.lines[i])
      /\ order' = [start |-> from, end |-> until,
                   lines |-> [i \in DOMAIN r.lines |->
                                Line(days, units, settings, r.orderPrice, r.lines[i])],
                   agreed |-> [request |-> r, prices |-> settings]]
      /\ phase' = "planned" /\ UNCHANGED <<settings, shown, returned>>

\* createOrder
Book ==
  /\ phase = "planned"
  /\ AllowanceDefined(order.lines)
  /\ \A i \in DOMAIN order.lines :
       LineAccepted(order.lines[i], Duration(order.start, order.end), PaidQuantity(order.lines))
  /\ SumDefined([i \in DOMAIN order.lines |-> order.lines[i].lineTotal])
  /\ SumDefined([i \in DOMAIN order.lines |-> order.lines[i].depositAmount])
  /\ phase' = "RESERVED" /\ UNCHANGED <<settings, order, shown, returned>>

\* Anything the transaction refuses, or a conflict in the calendar.
BookingFails ==
  /\ phase = "planned"
  /\ phase' = "none" /\ order' = NoOrder /\ UNCHANGED <<settings, shown, returned>>

\* reschedule; the order was booked at tick 0.
AnyLength(start, end, from, until) == DurationDefined(from, until)
SameLength(start, end, from, until) ==
  RescheduleAllowed(0, start, end, from, until, RescheduleDays)
Reschedule(from, until) ==
  /\ phase \in {"RESERVED", "CONFIRMED"}
  /\ SameLength(order.start, order.end, from, until)
  /\ order' = [order EXCEPT !.start = from, !.end = until]
  /\ UNCHANGED <<settings, phase, shown, returned>>

\* Confirmation and pick-up.
Advance ==
  /\ \/ phase = "RESERVED" /\ phase' = "CONFIRMED"
     \/ phase = "CONFIRMED" /\ phase' = "ACTIVE"
  /\ UNCHANGED <<settings, order, shown, returned>>

Fees(at) == [i \in DOMAIN order.lines |->
               UnitFees(order.lines[i], order.start, order.end, at, LateReturn)]
FeesKnown(at) == \A i \in DOMAIN order.lines :
                   FeesDefined(order.lines[i], order.start, order.end, at, LateReturn)
\* rentalReturnFeeToken: the hash of a preview distinguishes what it covers.
TokenOfLateFees(at, fees) == [i \in DOMAIN fees |-> fees[i].late]
Token(at, fees) == [at |-> at, fees |-> fees]

\* getReturnPreview
Preview(at) ==
  /\ phase = "ACTIVE" /\ FeesKnown(at)
  /\ shown' = [at |-> at, fees |-> Fees(at), token |-> Token(at, Fees(at))]
  /\ UNCHANGED <<settings, phase, order, returned>>

\* receiveReturn.  An override replaces both fees of a line's units (one
\* override per item in the code), and free accessories cannot have one.
Return(at, override, tokenSent) ==
  /\ phase = "ACTIVE" /\ FeesKnown(at)
  /\ \A i \in DOMAIN override : order.lines[i].role = "PAID"
  /\ tokenSent => shown # NotShown /\ shown.token = Token(at, Fees(at))
  /\ returned' = [at |-> at, due |-> order.end, tokenSent |-> tokenSent, agreedOn |-> DOMAIN override,
                  fees |-> [i \in DOMAIN order.lines |->
                              IF i \in DOMAIN override THEN [late |-> override[i], extra |-> 0]
                              ELSE Fees(at)[i]]]
  /\ phase' = "RETURNED" /\ shown' = IF tokenSent THEN shown ELSE NotShown
  /\ UNCHANGED <<settings, order>>

Next ==
  \/ ChangeSettings \/ Book \/ BookingFails \/ Advance
  \/ \E r \in Requests, from \in Starts, until \in Time : Plan(r, from, until)
  \/ \E from \in Starts, until \in Time : Reschedule(from, until)
  \/ \E at \in Time : Preview(at)
  \/ \E at \in Time, tokenSent \in BOOLEAN :
       \E S \in SUBSET DOMAIN order.lines : \E f \in [S -> Overrides] : Return(at, f, tokenSent)

Spec == Init /\ [][Next]_vars

-----------------------------------------------------------------------------
(* Reference: what one day of a paid unit costs under the terms agreed.  Day 1 *)
(* starts a cycle, and the renewal day and its repetitions start another.      *)

DayPrice(day, r, request, prices) ==
  LET renewal == IF PaidQuantity(request.lines) >= prices.bulkQuantityThreshold
                 THEN prices.bulkRenewalDay ELSE prices.standardRenewalDay
      cycle == IF r.itemPrice # None THEN r.itemPrice
               ELSE IF request.orderPrice # None THEN request.orderPrice
               ELSE 100 * prices.defaultRentalPrice
  IN  IF \E k \in 0 .. day : day = 1 + k * (renewal - 1) THEN cycle ELSE 100 * prices.additionalDayFee
DaysPrice(days, i) ==
  MapThenSumSet(LAMBDA d : DayPrice(d, order.agreed.request.lines[i], order.agreed.request,
                                    order.agreed.prices), days)
DaysBegun(from, until) == {d \in 1 .. Horizon + 1 : from + (d - 1) * TicksPerDay < until}
Booked == phase \notin {"none", "planned"}
Lines(role) == {i \in DOMAIN order.lines : order.agreed.request.lines[i].role = role}
ByTheDay == {i \in Lines("PAID") : order.agreed.request.lines[i].whole = None}

\* An order costs what its days add up to at the prices in force when it was
\* priced, whatever the settings became before it was written or later; and
\* moving it does not change that. (rental-cycle-pricing.ts, the comment of
\* resolveRentalCyclePricing)
PriceIsDayByDay ==
  Booked => \A i \in ByTheDay :
    order.lines[i].lineTotal = order.lines[i].quantity * DaysPrice(DaysBegun(order.start, order.end), i)

\* The items of an order can always be taken back: no change of settings or
\* dates makes the agreement unreadable, which would refuse every return.
\* (rental-return-fees.ts, INVALID_RENTAL_PRICING_SNAPSHOT)
ReturnIsNeverBlocked ==
  Booked => \A i \in DOMAIN order.lines :
    /\ SnapshotReadable(order.lines[i].snapshot)
    /\ order.lines[i].snapshot.version = "CYCLE" =>
         order.lines[i].snapshot.pricing.durationDays = Duration(order.start, order.end)

\* Returning late costs exactly the days added at the prices agreed, so that
\* a long rental and a short one kept longer cost the same; free accessories
\* and items returned in time cost nothing. (calculateRentalReturnFees: "settings
\* never reprice a cycle agreement")
LateCostsTheAddedDays ==
  returned # NotReturned =>
    LET added == DaysBegun(order.start, returned.at) \ DaysBegun(order.start, returned.due)
    IN  /\ \A i \in ByTheDay \ returned.agreedOn :
             returned.fees[i].late + returned.fees[i].extra = DaysPrice(added, i)
        /\ \A i \in Lines("FREE_ACCESSORY") : returned.fees[i] = NoFees
        /\ returned.at <= returned.due =>
             \A i \in DOMAIN order.lines \ returned.agreedOn : returned.fees[i] = NoFees

\* A clerk who confirms a preview charges what it showed, except for the items
\* with a fee of their own, although time passes and settings change between
\* the two calls. (receiveReturn, feePreviewToken)
PreviewIsCharged ==
  returned # NotReturned /\ returned.tokenSent =>
    \A i \in DOMAIN order.lines \ returned.agreedOn : returned.fees[i] = shown.fees[i]
=============================================================================
