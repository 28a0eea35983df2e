---------------------------- MODULE ShopFigures ----------------------------
(***************************************************************************)
(* The figures the shop reads off its orders, payments and expenses: the   *)
(* dashboard, the reports, the finance page and the pages of customers.    *)
(* Each has queries of its own over the same rows, for days, weeks and     *)
(* months of the shop's calendar.                                          *)
(*                                                                         *)
(* Orders are paid, refunded and settled as in RentalLedger, of which only *)
(* what the queries read is kept.                                          *)
(***************************************************************************)
EXTENDS Integers, Sequences, FiniteSets, FiniteSetsExt, SequencesExt

CONSTANTS Length,             \* ticks of a calendar day
          Week,               \* days of a week
          Month,              \* days of a month
          Zones,              \* [before, after, change]: the offset, and when it changes
          Chart,              \* days before today that the dashboard's chart shows, 6 in the code
          Longest,            \* days of the longest custom period, 366 in the code
          MaxNow,             \* bound on the clock
          Orders, Customer,   \* the orders, numbers, and whose they are
          Bill,               \* their bills: [rental, charge]
          Amounts,            \* amounts of payments recorded by clerks
          MaxRows,            \* bound on payments
          MaxExpenses,        \* bound on expenses
          PreviewSize         \* rows of a preview on the dashboard, 6 in the code

VARIABLES zone, now,
          orders,   \* [status, bill, start, end, completedAt]
          payments, \* a sequence of [order, kind, out, amount, at, live]
          expenses  \* a sequence of [day, amount, live]
timeVars == <<zone, now>>
vars == <<zone, now, orders, payments, expenses>>

-----------------------------------------------------------------------------
(* The shop's calendar.  Instants are ticks of one clock; the zone says how  *)
(* far local time is ahead of it, and may change once (summer time).  Days,  *)
(* weeks and months are computed from local dates and turned back into       *)
(* instants.                                                                 *)

\* offsetMs
Offset(t) == IF t < zone.change THEN zone.before ELSE zone.after
\* zonedDateKey
LocalDate(t) == (t + Offset(t)) \div Length

\* mutants of Midnight: the offset of the guess, not of the result; today's offset
OffsetOfGuess(d) == d * Length - Offset(d * Length)
OffsetOfToday(d) == d * Length - Offset(now)
\* localMidnightUtc: the offset is looked up twice, first at a guess
Midnight(d) == LET guess == d * Length IN guess - Offset(guess - Offset(guess))

Days(first, last) == [start |-> Midnight(first), end |-> Midnight(last + 1), from |-> first, to |-> last]
Today == LocalDate(now)
\* zonedDayRange and zonedMonthRange
Day == Days(Today, Today)
\* mutant of MonthStart: the days up to today
Rolling(d) == d - (Month - 1)
MonthStart(d) == d - (d % Month)
ThisMonth == Days(MonthStart(Today), MonthStart(Today) + Month - 1)
\* the week starts on a Monday, day 0 of the calendar
ThisWeek == LET monday == Today - (Today % Week) IN Days(monday, monday + Week - 1)

CustomAllowed(from, to) == to - from \in 0..(Longest - 1)
\* mutant of Custom: the last day is left out
UpToLast(from, to) == [Days(from, to) EXCEPT !.end = Midnight(to)]
Custom(from, to) == Days(from, to)

\* mutant of Before: a day of ticks earlier
DayEarlier(start) == start - Length
\* the midnight of the day that ends at start
Before(start) == Midnight(LocalDate(start - 1))
SeriesStart[k \in 0..Chart] == IF k = 0 THEN Day.start ELSE Before(SeriesStart[k - 1])

InitCalendar == zone \in Zones /\ now = 2 * Month * Length
Tick == now < MaxNow /\ now' = now + 1 /\ UNCHANGED zone

-----------------------------------------------------------------------------
(* The rows *)

NoBill == [rental |-> 0, charge |-> 0]
NoOrder == [status |-> "NONE", bill |-> NoBill, start |-> 0, end |-> 0, completedAt |-> 0]
InitShop == /\ InitCalendar /\ orders = [o \in Orders |-> NoOrder] /\ payments = << >> /\ expenses = << >>

Grand(o) == orders[o].bill.rental + orders[o].bill.charge
Rows == DOMAIN payments
Total(S, value(_)) == FoldSet(LAMBDA x, sum : sum + value(x), 0, S)
Signed(i) == IF payments[i].out THEN -payments[i].amount ELSE payments[i].amount
Live(i) == payments[i].live
\* mutant of IsRental: every payment
AnyKind(i) == TRUE
\* purpose NOT IN ('DEPOSIT', 'DEPOSIT_REFUND')
IsRental(i) == payments[i].kind # "DEPOSIT"
RowsOf(o) == {i \in Rows : Live(i) /\ payments[i].order = o}
Net(o) == Total({i \in RowsOf(o) : payments[i].kind # "DEPOSIT"}, Signed)
Deposit(o) == Total({i \in RowsOf(o) : payments[i].kind = "DEPOSIT"}, Signed)

-----------------------------------------------------------------------------
(* The shop at work *)

Row(o, kind, out, amount) ==
  [order |-> o, kind |-> kind, out |-> out, amount |-> amount, at |-> now, live |-> TRUE]
NonZero(rows) == SelectSeq(rows, LAMBDA r : r.amount > 0)
Becomes(o, status) == orders' = [orders EXCEPT ![o].status = status]

Book(o, start) ==
  /\ orders[o].status = "NONE"
  /\ orders' = [orders EXCEPT ![o] = [NoOrder EXCEPT !.status = "RESERVED", !.bill = Bill[o],
                                                     !.start = start, !.end = start + Length]]
  /\ UNCHANGED <<timeVars, payments, expenses>>
Cancel(o) == orders[o].status = "RESERVED" /\ Becomes(o, "CANCELLED")
             /\ UNCHANGED <<timeVars, payments, expenses>>
HandOver(o) == orders[o].status = "RESERVED" /\ Becomes(o, "ACTIVE")
               /\ UNCHANGED <<timeVars, payments, expenses>>
Return(o) == orders[o].status = "ACTIVE" /\ Becomes(o, "RETURNED")
             /\ UNCHANGED <<timeVars, payments, expenses>>
\* mutant of Settlement: nothing is paid back
SettlementWithoutRefund(o, left) == <<Row(o, "RENTAL", FALSE, left), Row(o, "DEPOSIT", TRUE, Deposit(o))>>
Settlement(o, left) ==
  <<Row(o, "RENTAL", FALSE, left), Row(o, "REFUND", TRUE, -left), Row(o, "DEPOSIT", TRUE, Deposit(o))>>
Settle(o) ==
  LET left == Grand(o) - Net(o)
  IN /\ orders[o].status = "RETURNED"
     /\ orders' = [orders EXCEPT ![o].status = "COMPLETED", ![o].completedAt = now]
     /\ payments' = payments \o NonZero(Settlement(o, left))
     /\ UNCHANGED <<timeVars, expenses>>
Pay(o, kind, out, amount) ==
  /\ Len(payments) < MaxRows /\ orders[o].status \notin {"NONE", "CANCELLED"}
  /\ orders[o].status = "COMPLETED" => kind = "REFUND"
  /\ kind = "REFUND" => out /\ amount <= Net(o)
  /\ kind = "DEPOSIT" /\ out => amount <= Deposit(o)
  /\ kind = "RENTAL" => ~out
  /\ payments' = Append(payments, Row(o, kind, out, amount))
  /\ UNCHANGED <<timeVars, orders, expenses>>
Void(i) ==
  /\ Live(i) /\ orders[payments[i].order].status = "RESERVED"
  /\ IF IsRental(i) THEN Net(payments[i].order) >= Signed(i) ELSE Deposit(payments[i].order) >= Signed(i)
  /\ payments' = [payments EXCEPT ![i].live = FALSE] /\ UNCHANGED <<timeVars, orders, expenses>>
Spend(day, amount) ==
  /\ Len(expenses) < MaxExpenses
  /\ expenses' = Append(expenses, [day |-> day, amount |-> amount, live |-> TRUE])
  /\ UNCHANGED <<timeVars, orders, payments>>
VoidExpense(i) == /\ expenses[i].live /\ expenses' = [expenses EXCEPT ![i].live = FALSE]
                  /\ UNCHANGED <<timeVars, orders, payments>>

NextShop ==
  \/ Tick /\ UNCHANGED <<orders, payments, expenses>>
  \/ \E o \in Orders :
       \/ \E start \in {now, now + 1} : Book(o, start)
       \/ Cancel(o) \/ HandOver(o) \/ Return(o) \/ Settle(o)
       \/ \E kind \in {"RENTAL", "REFUND", "DEPOSIT"}, out \in BOOLEAN, amount \in Amounts :
            Pay(o, kind, out, amount)
  \/ \E i \in Rows : Void(i)
  \/ \E day \in {Today - 1, Today} : Spend(day, 1)
  \/ \E i \in DOMAIN expenses : VoidExpense(i)
SpecShop == InitShop /\ [][NextShop]_vars

-----------------------------------------------------------------------------
(* The dashboard *)

AtMost(a, b) == IF a < b THEN a ELSE b
\* mutant of Daily: by the date in UTC
DailyInUtc(d) ==
  Total({i \in Rows : Live(i) /\ IsRental(i) /\ payments[i].at \div Length = d}, Signed)
Daily(d) ==
  Total({i \in Rows : /\ Live(i) /\ IsRental(i) /\ LocalDate(payments[i].at) = d
                      /\ AtMost(SeriesStart[Chart], ThisMonth.start) <= payments[i].at
                      /\ payments[i].at < ThisMonth.end}, Signed)
RevenueToday == Daily(Today)
RevenueMonth == Total(ThisMonth.from .. ThisMonth.to, Daily)
RevenueSeries == [d \in Today - Chart .. Today |-> Daily(d)]

OpenOrders == {o \in Orders : orders[o].status \in {"RESERVED", "ACTIVE", "RETURNED"}}
Owed(o) == IF Grand(o) > Net(o) THEN Grand(o) - Net(o) ELSE 0
OutstandingAmount == Total(OpenOrders, Owed)
OrdersToday == {o \in Orders : orders[o].status \notin {"NONE", "CANCELLED"}
                               /\ Day.start <= orders[o].start /\ orders[o].start < Day.end}

Action(o) ==
  CASE orders[o].status = "ACTIVE" /\ orders[o].end < now -> 1   \* OVERDUE
    [] orders[o].status = "RETURNED" -> 2                        \* RETURN_SETTLEMENT
    [] Grand(o) > Net(o) -> 3                                    \* OUTSTANDING
    [] OTHER -> 4                                                \* none
FirstRows(all) == SubSeq(all, 1, AtMost(PreviewSize, Len(all)))
\* mutant of MoreUrgent: by the day of return
SoonerBack(a, b) == \/ orders[a].end < orders[b].end
                    \/ orders[a].end = orders[b].end /\ a < b
MoreUrgent(a, b) == \/ Action(a) < Action(b)
                    \/ Action(a) = Action(b) /\ orders[a].end < orders[b].end
                    \/ Action(a) = Action(b) /\ orders[a].end = orders[b].end /\ a < b
Attention == FirstRows(SetToSortSeq({o \in OpenOrders : Action(o) < 4}, MoreUrgent))
Sooner(a, b) == \/ orders[a].start < orders[b].start
                \/ orders[a].start = orders[b].start /\ a < b
Upcoming ==
  FirstRows(SetToSortSeq({o \in OpenOrders : orders[o].status = "RESERVED" /\ orders[o].start >= Day.start}, Sooner))

-----------------------------------------------------------------------------
(* Reports of [from, until), instants.  The database session is in UTC.    *)

ReportRevenue(from, until) ==
  LET counted == {i \in Rows : Live(i) /\ IsRental(i) /\ from <= payments[i].at /\ payments[i].at < until}
  IN [d \in {LocalDate(payments[i].at) : i \in counted} |->
        Total({i \in counted : LocalDate(payments[i].at) = d}, Signed)]
UtcDate(t) == t \div Length
Amount(i) == expenses[i].amount
ReportExpense(from, until) ==
  LET counted == {i \in DOMAIN expenses : expenses[i].live /\ UtcDate(from) <= expenses[i].day
                                          /\ expenses[i].day < UtcDate(until)}
  IN [d \in {expenses[i].day : i \in counted} |-> Total({i \in counted : expenses[i].day = d}, Amount)]
Completed(c, from, until) ==
  {o \in Orders : Customer[o] = c /\ orders[o].status = "COMPLETED"
                  /\ from <= orders[o].completedAt /\ orders[o].completedAt < until}
CustomerPerformance(c, from, until) ==
  [rentalCount |-> Cardinality(Completed(c, from, until)), bookedValue |-> Total(Completed(c, from, until), Grand)]

-----------------------------------------------------------------------------
(* The finance page: entries of one source, summed up or listed *)

Entry(source, id, at, direction, amount) ==
  [source |-> source, id |-> id, at |-> at, direction |-> direction, amount |-> amount]
Within(t, r) == r.start <= t /\ t < r.end
Finalized(r) == {o \in Orders : orders[o].status = "COMPLETED" /\ Within(orders[o].completedAt, r)}
\* mutant of ExpenseWithin: the dates the instants have in UTC, as in the reports
UtcWithin(day, r) == UtcDate(r.start) <= day /\ day < UtcDate(r.end)
ExpenseWithin(day, r) == r.from <= day /\ day < r.to + 1
Entries(r) ==
  {Entry("rental", o, orders[o].completedAt, "INCOME", orders[o].bill.rental) :
     o \in {p \in Finalized(r) : orders[p].bill.rental # 0}}
  \cup {Entry("charge", o, orders[o].completedAt, "INCOME", orders[o].bill.charge) :
          o \in {p \in Finalized(r) : orders[p].bill.charge # 0}}
  \cup {Entry("refund", i, payments[i].at, "INCOME", -payments[i].amount) :
          i \in {j \in Rows : /\ Live(j) /\ payments[j].kind = "REFUND" /\ Within(payments[j].at, r)
                              /\ orders[payments[j].order].status = "COMPLETED"
                              /\ payments[j].at >= orders[payments[j].order].completedAt}}
  \cup {Entry("expense", i, Midnight(expenses[i].day), "EXPENSE", expenses[i].amount) :
          i \in {j \in DOMAIN expenses : expenses[j].live /\ ExpenseWithin(expenses[j].day, r)}}
AmountOf(entry) == entry.amount
Summary(r) == [revenue |-> Total({x \in Entries(r) : x.direction = "INCOME"}, AmountOf),
               expenses |-> Total({x \in Entries(r) : x.direction = "EXPENSE"}, AmountOf)]
Sources == <<"charge", "expense", "refund", "rental">>
Place(source) == CHOOSE k \in DOMAIN Sources : Sources[k] = source
Earlier(x, y) == \/ x.at < y.at
                 \/ x.at = y.at /\ Place(x.source) < Place(y.source)
                 \/ x.at = y.at /\ x.source = y.source /\ x.id < y.id
\* mutant of PageOf: pages count from 0
PageFromZero(all, page, limit) ==
  SubSeq(all, page * limit + 1, AtMost((page + 1) * limit, Len(all)))
PageOf(all, page, limit) == SubSeq(all, (page - 1) * limit + 1, AtMost(page * limit, Len(all)))
Transactions(r, page, limit) == PageOf(SetToSortSeq(Entries(r), Earlier), page, limit)

-----------------------------------------------------------------------------
(* The pages of customers *)

OrdersOf(c) == {o \in Orders : Customer[o] = c}
RowsOfCustomer(c) == {i \in Rows : Live(i) /\ payments[i].order \in OrdersOf(c)}
\* of the list: sums by direction, without deposits
ListTotalPaid(c) ==
  LET part(out) == {i \in RowsOfCustomer(c) : IsRental(i) /\ payments[i].out = out}
      amount(i) == payments[i].amount
  IN Total(part(FALSE), amount) - Total(part(TRUE), amount)
\* of the detail: sums by direction and purpose
DetailNet(c, kinds) ==
  LET amount(i) == payments[i].amount
      net(kind) == Total({i \in RowsOfCustomer(c) : payments[i].kind = kind /\ ~payments[i].out}, amount)
                 - Total({i \in RowsOfCustomer(c) : payments[i].kind = kind /\ payments[i].out}, amount)
  IN Total(kinds, net)
Detail(c) == [totalPaid |-> DetailNet(c, {"RENTAL", "REFUND"}), depositHeld |-> DetailNet(c, {"DEPOSIT"}),
              completed |-> Cardinality({o \in OrdersOf(c) : orders[o].status = "COMPLETED"})]

-----------------------------------------------------------------------------
(* Properties *)

Instants == (2 * Month - Chart - 1) * Length .. MaxNow + Month * Length
Covers(r, first, last) ==
  \A t \in Instants : (r.start <= t /\ t < r.end) <=> LocalDate(t) \in first..last

\* Today's range holds exactly the instants whose local date is today's, also on the
\* days when the clocks change, so that consecutive days neither overlap nor leave a gap.
DayIsWhole == Covers(Day, Today, Today)

\* Every period of the finance page holds exactly the instants of its inclusive dates,
\* so that orders selected by instant and expenses selected by date fall together.
PeriodsAreWhole ==
  /\ Covers(ThisMonth, ThisMonth.from, ThisMonth.to) /\ Covers(ThisWeek, ThisWeek.from, ThisWeek.to)
  /\ \A from, to \in Today - 1 .. Today + 1 :
       CustomAllowed(from, to) => Covers(Custom(from, to), from, to)

\* Today lies in its week and month, which change only from one to the next.
PeriodsFollow ==
  /\ \/ ThisMonth' = ThisMonth \/ ThisMonth'.start = ThisMonth.end
  /\ \/ ThisWeek' = ThisWeek \/ ThisWeek'.start = ThisWeek.end
  /\ ThisMonth.start <= now /\ now < ThisMonth.end
  /\ ThisWeek.start <= now /\ now < ThisWeek.end

\* The dashboard's chart starts at the midnight of the Chart-th day before today.
ChartHasItsDays == SeriesStart[Chart] = Midnight(Today - Chart)

AllTime == [start |-> 0, end |-> MaxNow + 1]
SomeDays == Today - Chart .. Today + 1
Value(f) == LET at(d) == f[d] IN Total(DOMAIN f, at)

\* docs/DASHBOARD.md: today's, the month's and each day's revenue on the dashboard are
\* what the revenue report gives for the same local days.
DashboardMatchesReports ==
  /\ RevenueToday = Value(ReportRevenue(Day.start, Day.end))
  /\ RevenueMonth = Value(ReportRevenue(ThisMonth.start, ThisMonth.end))
  /\ \A d \in DOMAIN RevenueSeries :
       RevenueSeries[d] = Value(ReportRevenue(Midnight(d), Midnight(d + 1)))

Customers == {Customer[o] : o \in Orders}
\* A customer's list row and detail agree, the customers' totals add up to the revenue
\* report, their deposits to what the ledger holds, and their rentals to the performance report.
CustomersAddUp ==
  /\ \A c \in Customers :
       /\ ListTotalPaid(c) = Detail(c).totalPaid
       /\ Detail(c).completed = CustomerPerformance(c, AllTime.start, AllTime.end).rentalCount
       /\ Detail(c).depositHeld >= 0
  /\ Total(Customers, ListTotalPaid) = Value(ReportRevenue(AllTime.start, AllTime.end))

\* What the shop is still owed and no longer owes: collecting the outstanding amount
\* of every open order leaves each paid in full, and a settlement closes its share.
SettlementClosesWhatIsOwed ==
  \A o \in Orders : orders[o].status = "RETURNED" /\ orders'[o].status = "COMPLETED" =>
    OutstandingAmount' = OutstandingAmount - Owed(o)
    /\ RevenueToday' = RevenueToday + Grand(o) - Net(o)

Leaves(preview, o) == \A k \in DOMAIN preview : preview[k] # o
\* No order that needs attention is left out of the dashboard's preview in favour of a less
\* urgent one, nor a pickup of today in favour of a later one, and a preview is full before
\* any order is left out.
MostUrgentAreShown ==
  /\ \A o \in OpenOrders :
       Action(o) < 4 /\ Leaves(Attention, o) =>
         /\ Len(Attention) = PreviewSize
         /\ \A k \in DOMAIN Attention : Action(Attention[k]) <= Action(o)
  /\ \A o \in OrdersToday :
       orders[o].status = "RESERVED" /\ Leaves(Upcoming, o) =>
         Len(Upcoming) = PreviewSize /\ \A k \in DOMAIN Upcoming : Upcoming[k] \in OrdersToday

\* The finance page's figures of a period are the sums of those of its days: no entry falls
\* between two days or into both, though orders go by instants and expenses by dates.
PeriodsAddUp ==
  /\ \A d \in SomeDays : \A x \in Entries(Days(d, d)) : LocalDate(x.at) = d
  /\ \A from, to \in SomeDays :
    from <= to =>
      LET revenue(d) == Summary(Days(d, d)).revenue
          spent(d) == Summary(Days(d, d)).expenses
      IN Summary(Days(from, to)) = [revenue |-> Total(from..to, revenue), expenses |-> Total(from..to, spent)]

\* The pages of the finance table hold every entry of the summary once.
PagesHoldEveryEntry ==
  \A limit \in 1..2 :
    LET all == Entries(ThisMonth)
        pages == FlattenSeq([page \in 1..Cardinality(all) |-> Transactions(ThisMonth, page, limit)])
    IN Len(pages) = Cardinality(all) /\ {pages[k] : k \in DOMAIN pages} = all

-----------------------------------------------------------------------------
(* What the documents promise and the code does not do *)

\* report.controller.ts: "Daily realized revenue, expense and profit": the report of one
\* local day has that day's expenses.
ReportHasTheDaysExpenses ==
  \A d \in {Today - 1, Today} :
    Value(ReportExpense(Midnight(d), Midnight(d + 1))) = Summary(Days(d, d)).expenses

\* docs/DASHBOARD.md: "Revenue matches Reports and Finance".
RevenueMatchesFinance == RevenueToday = Summary(Day).revenue

=============================================================================
