--------------------------- MODULE ReminderRefresh --------------------------
(* The reminder refresh of one shop under its lease.  A run reads the orders  *)
(* page by page, writes one reminder per order that needs one today, and at   *)
(* the end resolves the pending reminders it did not meet.  Orders change     *)
(* and clerks dismiss reminders meanwhile, and a replica that lost the lease  *)
(* goes on until its next checkpoint.  A statement is issued after the        *)
(* checkpoint and executes later.                                             *)
EXTENDS SchedulerLease

CONSTANTS Orders,      \* the ids 1 .. n, in which order pages are read
          PageSize,    \* REMINDER_CANDIDATE_BATCH_SIZE
          Days,        \* shop-local days 1 .. Days
          DayLength,   \* ticks of a shop-local day (24 hours: the shop's zone has no DST)
          Horizon      \* bound on the ticks of the dates of an order

PagesAssumption == /\ Orders \subseteq Nat \ {0} /\ IsFiniteSet(Orders)
                   /\ PageSize \in Nat \ {0} /\ Days \in Nat \ {0}
HorizonAssumption == DayLength \in Nat \ {0} /\ Horizon \in Nat

VARIABLES today, due,  \* the day, and the orders that need a reminder now
          reminder,    \* status of each reminder, by its dedupe key
          scan,        \* the refresh of each replica
          rental,      \* an order the rules are asked about
          moment       \* and when

refreshVars == <<leaseVars, today, due, reminder, scan>>
ruleVars == <<rental, moment>>

Keys == Orders \X (1 .. Days)
NoKey == <<0, 0>>
NoScan == [step |-> "off", day |-> 0, cursor |-> 0, page |-> {}, more |-> FALSE,
           writing |-> NoKey, active |-> {}, calm |-> FALSE]

NewScan(day) == [step |-> "read", day |-> day, cursor |-> 0, page |-> {}, more |-> FALSE,
                 writing |-> NoKey, active |-> {}, calm |-> TRUE]

Scanning(p) == run[p].step = "working" /\ scan[p].step # "off"

\* (history) what p read may no longer be so
Disturb(ps) == [p \in Replicas |-> [scan[p] EXCEPT !.calm = @ /\ p \notin ps]]
Others(p) == Replicas \ {p}

-----------------------------------------------------------------------------
(* The run *)

StartScan(p) ==
  /\ run[p].step = "working" /\ scan[p].step = "off" /\ AssertActive(p)
  /\ scan' = [scan EXCEPT ![p] = NewScan(today)]
  /\ UNCHANGED <<leaseVars, today, due, reminder>>

\* The orders of a page: the first PageSize of the candidates above the cursor,
\* which a longer read than the page tells whether it was the last one.
Candidates(cursor) == {o \in Orders : o \in due /\ o > cursor}
FirstOf(os, n) == {o \in os : Cardinality({x \in os : x <= o}) <= n}
Largest(os) == CHOOSE o \in os : \A x \in os : x <= o
PageSkippingItsLast(cursor) == FirstOf(Candidates(cursor + 1), PageSize)
PageOf(cursor) == FirstOf(Candidates(cursor), PageSize)

ReadPage(p) ==
  /\ Scanning(p) /\ scan[p].step = "read" /\ AssertActive(p)
  /\ LET all == Candidates(scan[p].cursor)
         items == PageOf(scan[p].cursor)
     IN scan' = [scan EXCEPT ![p] =
          [step |-> IF items = {} THEN "last" ELSE "write", day |-> @.day,
           cursor |-> IF items = {} THEN @.cursor ELSE Largest(items),
           page |-> items \X {@.day}, more |-> items # all,
           writing |-> @.writing, active |-> @.active, calm |-> @.calm]]
  /\ UNCHANGED <<leaseVars, today, due, reminder>>

\* The write is issued under a checkpoint ...
IssueUpsert(p) ==
  /\ Scanning(p) /\ scan[p].step = "write" /\ scan[p].writing = NoKey /\ AssertActive(p)
  /\ \E k \in scan[p].page :
       scan' = [scan EXCEPT ![p].writing = k, ![p].active = @ \cup {k}]
  /\ UNCHANGED <<leaseVars, today, due, reminder>>

UpsertReopens(s) == "PENDING"
UpsertStatus(s) == IF s = "NONE" THEN "PENDING" ELSE s

\* ... and executes: an existing row keeps its status.
ExecuteUpsert(p) ==
  /\ Scanning(p) /\ scan[p].writing # NoKey
  /\ LET k == scan[p].writing
         rest == scan[p].page \ {k}
     IN /\ reminder' = [reminder EXCEPT ![k] = UpsertStatus(@)]
        /\ scan' = [Disturb(Others(p)) EXCEPT ![p].page = rest, ![p].writing = NoKey,
             ![p].step = IF rest # {} THEN "write" ELSE IF scan[p].more THEN "read" ELSE "last"]
  /\ UNCHANGED <<leaseVars, today, due>>

IssueResolve(p) ==
  /\ Scanning(p) /\ scan[p].step = "last" /\ AssertActive(p)
  /\ scan' = [scan EXCEPT ![p].step = "resolve"]
  /\ UNCHANGED <<leaseVars, today, due, reminder>>

ExecuteResolve(p) ==
  /\ Scanning(p) /\ scan[p].step = "resolve"
  /\ reminder' = [k \in Keys |-> IF reminder[k] = "PENDING" /\ k \notin scan[p].active
                                 THEN "RESOLVED" ELSE reminder[k]]
  /\ scan' = [Disturb(Others(p)) EXCEPT ![p].step = "done"]
  /\ UNCHANGED <<leaseVars, today, due>>

\* The run ends after its last statement, or when a checkpoint or a statement fails.
LeftWriting(p) == [NoScan EXCEPT !.writing = scan[p].writing]
Forgotten(p) == NoScan
EndScan(p) ==
  /\ \/ Finish(p, TRUE) /\ scan[p].step = "done" /\ AssertActive(p)
     \/ Finish(p, FALSE)
  /\ scan' = [scan EXCEPT ![p] = Forgotten(p)]
  /\ UNCHANGED <<today, due, reminder>>

RefreshRunsOn(p) ==
  /\ LeaseStep(p)
  /\ scan' = IF run'[p].step = "working" THEN scan ELSE [scan EXCEPT ![p] = NoScan]
  /\ UNCHANGED <<today, due, reminder>>

-----------------------------------------------------------------------------
(* Around the runs *)

OrderChanges(o) ==
  /\ due' = IF o \in due THEN due \ {o} ELSE due \cup {o}
  /\ scan' = Disturb(Replicas)
  /\ UNCHANGED <<leaseVars, today, reminder>>

\* A clerk dismisses a reminder, whatever its status; no lease is needed.
Dismiss(k) ==
  /\ reminder[k] # "NONE"
  /\ reminder' = [reminder EXCEPT ![k] = "DISMISSED"]
  /\ UNCHANGED <<leaseVars, today, due, scan>>

NextDay ==
  /\ today < Days
  /\ today' = today + 1
  /\ scan' = Disturb(Replicas)
  /\ UNCHANGED <<leaseVars, due, reminder>>

RefreshInit ==
  /\ LeaseInit
  /\ today = 1 /\ due \in SUBSET Orders
  /\ reminder = [k \in Keys |-> "NONE"]
  /\ scan = [p \in Replicas |-> NoScan]

RefreshNext ==
  \/ \E p \in Replicas :
       \/ StartScan(p) \/ ReadPage(p) \/ IssueUpsert(p) \/ ExecuteUpsert(p)
       \/ IssueResolve(p) \/ ExecuteResolve(p) \/ EndScan(p) \/ RefreshRunsOn(p)
  \/ Tick /\ UNCHANGED <<today, due, reminder, scan>>
  \/ \E o \in Orders : OrderChanges(o)
  \/ \E k \in Keys : Dismiss(k)
  \/ NextDay

RefreshSpec == RefreshInit /\ [][RefreshNext]_refreshVars

-----------------------------------------------------------------------------
(* Properties *)

RefreshTypeOK ==
  /\ today \in 1 .. Days /\ due \subseteq Orders
  /\ reminder \in [Keys -> {"NONE", "PENDING", "RESOLVED", "DISMISSED"}]
  /\ \A p \in Replicas :
       /\ scan[p].step \in {"off", "read", "write", "last", "resolve", "done"}
       /\ scan[p].page \subseteq Keys /\ scan[p].active \subseteq Keys
       /\ scan[p].writing \in scan[p].page \cup {NoKey}

\* A reminder that was dismissed or resolved is never revived, whatever replica
\* writes it and whichever of dismissal and refresh commits first
\* (REMINDER_LIFECYCLE.md, upsert).
TerminalStays ==
  \A k \in Keys : /\ reminder[k] = "DISMISSED" => reminder'[k] = "DISMISSED"
                  /\ reminder[k] = "RESOLVED" => reminder'[k] \in {"RESOLVED", "DISMISSED"}

\* A refresh that no change and no other replica disturbed leaves exactly the
\* right reminders, over all its pages: one for every order that needs one
\* today, and none pending for another order or another day (refreshShopOwned).
RefreshIsExact ==
  \A p \in Replicas :
    (scan[p].step = "resolve" /\ scan'[p].step = "done" /\ scan[p].calm) =>
      /\ \A o \in due : reminder'[<<o, today>>] # "NONE"
      /\ \A k \in Keys : reminder'[k] = "PENDING" => k[1] \in due /\ k[2] = today

-----------------------------------------------------------------------------
(* Which reminders an order needs, and which orders the database hands to the *)
(* refresh at all: the query is a coarse filter, the service decides.  The    *)
(* state is one order seen at one moment; every order is tried at every       *)
(* moment of a day.                                                           *)

OrderStatus == {"DRAFT", "RESERVED", "CONFIRMED", "ACTIVE", "RETURNED", "COMPLETED", "CANCELLED"}
PaymentStatus == {"UNPAID", "PARTIALLY_PAID", "PAID"}
DepositStatus == {"NOT_REQUIRED", "PENDING", "PARTIALLY_HELD", "HELD"}
Rental == [status : OrderStatus, payment : PaymentStatus, deposit : DepositStatus,
          depositRequired : {0, 1}, start : 0 .. Horizon, end : 0 .. Horizon]

DayStart == (moment \div DayLength) * DayLength
DayEnd == DayStart + DayLength
ReturnSoonEnd == moment + DayLength
Today(t) == DayStart <= t /\ t < DayEnd
Outstanding(d) == d \in {"PENDING", "PARTIALLY_HELD"}
Upcoming(o) == o.status \in {"RESERVED", "CONFIRMED"}      \* canRescheduleRental
ToBeReturned(o) == o.status \in {"CONFIRMED", "ACTIVE"}

SoonBefore(o) == o.end < ReturnSoonEnd
SoonUpTo(o) == o.end <= ReturnSoonEnd

\* refreshShopOwned: the types of reminder written for an rental.
Reminders(o) ==
  {type \in {"PICKUP_TODAY", "RETURN_TODAY", "RETURN_SOON", "OVERDUE", "PAYMENT_DUE", "DEPOSIT_DUE"} :
     \/ type = "PICKUP_TODAY" /\ Upcoming(o) /\ Today(o.start)
     \/ type = "RETURN_TODAY" /\ ToBeReturned(o) /\ Today(o.end)
     \/ /\ type = "RETURN_SOON" /\ ToBeReturned(o) /\ ~Today(o.end)
        /\ moment < o.end /\ SoonUpTo(o)
     \/ type = "OVERDUE" /\ ToBeReturned(o) /\ o.end < moment
     \/ type = "PAYMENT_DUE" /\ o.payment # "PAID" /\ o.status # "CANCELLED"
     \/ type = "DEPOSIT_DUE" /\ o.depositRequired > 0 /\ Outstanding(o.deposit) /\ Upcoming(o)}

\* candidatePage: the arms of the coarse filter.
WorksetOfFuture(o) ==
  \/ Upcoming(o) /\ Today(o.start)
  \/ ToBeReturned(o) /\ moment <= o.end /\ o.end <= ReturnSoonEnd
  \/ o.status \in {"RESERVED", "CONFIRMED", "ACTIVE", "COMPLETED"} /\ o.payment # "PAID"
  \/ Upcoming(o) /\ o.depositRequired > 0 /\ Outstanding(o.deposit)
InWorkset(o) ==
  \/ Upcoming(o) /\ Today(o.start)
  \/ ToBeReturned(o) /\ o.end <= ReturnSoonEnd
  \/ o.status \in {"RESERVED", "CONFIRMED", "ACTIVE", "COMPLETED"} /\ o.payment # "PAID"
  \/ Upcoming(o) /\ o.depositRequired > 0 /\ Outstanding(o.deposit)

\* The orders the program creates and moves: no command writes DRAFT or RETURNED,
\* and a rental ends after it starts.
RulesInit == /\ moment \in 0 .. (2 * DayLength - 1)
        /\ rental \in {o \in Rental : o.start < o.end /\ o.status \notin {"DRAFT", "RETURNED"}}

\* Time passes until the second day is over.
RulesNext == moment < 2 * DayLength - 1 /\ moment' = moment + 1 /\ UNCHANGED rental

RulesSpec == RulesInit /\ [][RulesNext]_ruleVars

-----------------------------------------------------------------------------
\* The coarse filter loses no rental that needs a reminder ("Lossless coarse
\* workset", prisma-reminder.repository.ts:26), at the boundaries of the day and
\* of the 24 hours too.
LosslessWorkset == Reminders(rental) # {} => InWorkset(rental)

\* A rental that is out is never silent from the day before its return on:
\* announced for today, announced as soon, or overdue, and never soon and overdue at once.
ReturnIsAnnounced ==
  /\ (rental.status = "ACTIVE" /\ rental.end <= ReturnSoonEnd) =>
       Reminders(rental) \cap {"RETURN_TODAY", "RETURN_SOON", "OVERDUE"} # {}
  /\ ~ {"RETURN_TODAY", "RETURN_SOON"} \subseteq Reminders(rental)
  /\ "OVERDUE" \in Reminders(rental) => "RETURN_SOON" \notin Reminders(rental)
=============================================================================
