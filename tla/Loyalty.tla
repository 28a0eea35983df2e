------------------------------ MODULE Loyalty ------------------------------
(* Customer loyalty: every settled order is one qualification of its owner,  *)
(* every RentalsRequired-th qualification earns a reward, and a web account  *)
(* spends a reward on one order.  Settlements and bookings are SERIALIZABLE  *)
(* transactions that decide on what they read at their start;                *)
(* serializableTransaction runs one that the database refused again, from    *)
(* the beginning and at most MaxAttempts times.                              *)
EXTENDS Integers, Sequences, FiniteSets, FiniteSetsExt, Functions

CONSTANTS Clients,          \* requests under way
          Orders,           \* orders that can be settled
          Customer,         \* Orders -> CRM customer
          Account,          \* Orders -> web account, or NoAccount
          NoAccount,
          Histories,        \* orders COMPLETED before the migration, in order of completion
          RentalsRequired, RewardRentalValue, LoyaltyEnabled,
          MaxAttempts,      \* maxAttempts
          MaxBookings       \* bound on the bookings that spend a reward

LoyaltyAssumption ==
  /\ RentalsRequired \in Nat \ {0} /\ RewardRentalValue \in Nat /\ LoyaltyEnabled \in BOOLEAN
  /\ MaxAttempts \in Nat \ {0} /\ MaxBookings \in Nat
  /\ \A history \in Histories : history \in Seq(Orders) /\ IsInjective(history)

VARIABLES completed, \* orders COMPLETED
          entries,   \* customer_loyalty_entries
          rewards,   \* customer_loyalty_rewards, by the order that earned them
          booked,    \* orders created with a reward, a sequence
          tx         \* transaction of each client
loyaltyVars == <<completed, entries, rewards, booked, tx>>

Customers == {Customer[o] : o \in Orders}
WebAccounts  == {Account[o] : o \in Orders} \ {NoAccount}
Owners == [type : {"CRM_CUSTOMER"}, id : Customers] \cup [type : {"WEB_ACCOUNT"}, id : WebAccounts]
Owner(o) == IF Account[o] # NoAccount THEN [type |-> "WEB_ACCOUNT", id |-> Account[o]]
            ELSE [type |-> "CRM_CUSTOMER", id |-> Customer[o]]

Entry(o, w, value) == [order |-> o, customer |-> Customer[o], type |-> w.type,
                       account |-> IF w.type = "WEB_ACCOUNT" THEN w.id ELSE NoAccount,
                       value |-> value]
Reward(o, w) == [customer |-> Customer[o], type |-> w.type,
                 account |-> IF w.type = "WEB_ACCOUNT" THEN w.id ELSE NoAccount,
                 value |-> RewardRentalValue, status |-> "AVAILABLE", by |-> 0]

\* used by BelongsTo; its mutant, where the owner's type is not compared
SameCustomer(row, w) == IF w.type = "WEB_ACCOUNT" THEN row.account = w.id ELSE row.customer = w.id
\* the rows of owner w, of either table
BelongsTo(row, w) == row.type = w.type /\ SameCustomer(row, w)
Qualified(es, w) == {n \in es : BelongsTo(n, w)}
\* rewardForCompletedRental
NthReward(before) == IF LoyaltyEnabled /\ (before + 1) % RentalsRequired = 0
                     THEN RewardRentalValue ELSE 0

\* migration 202610080001: entries in order of completion within each owner
\* mutant: positions counted over the whole shop
PositionInShop(history, k) == k
Position(history, k) == Cardinality({j \in 1..k : Owner(history[j]) = Owner(history[k])})
Backfill(history) ==
  {Entry(history[k], Owner(history[k]),
         IF Position(history, k) % RentalsRequired = 0 THEN RewardRentalValue ELSE 0) :
     k \in DOMAIN history}
BackfillRewards(es) == [o \in {n.order : n \in {m \in es : m.value > 0}} |-> Reward(o, Owner(o))]

Idle == [op |-> "none"]
LoyaltyInit == \E history \in Histories :
          /\ completed = Range(history)
          /\ entries = Backfill(history) /\ rewards = BackfillRewards(entries)
          /\ booked = << >> /\ tx = [c \in Clients |-> Idle]

-----------------------------------------------------------------------------
(* Transactions *)

Snapshot == [completed |-> completed, entries |-> entries, rewards |-> rewards]
Running(c, op) == tx[c].op = op /\ tx[c].at = "running"

\* A client settles the order o (a = NoAccount), or the account a books with the
\* reward that o earned.
Request(c, kind, o, a) ==
  /\ tx[c] = Idle
  /\ kind = "book" => Len(booked) < MaxBookings
  /\ tx' = [tx EXCEPT ![c] = [op |-> kind, order |-> o, account |-> a,
                             at |-> "running", attempt |-> 1, snap |-> Snapshot]]
  /\ UNCHANGED <<completed, entries, rewards, booked>>

\* What the transaction of c read and another transaction has changed since.
\* A mutant checks the order's row alone, as READ COMMITTED would.
RowTaken(c) == (tx[c].order \in completed) # (tx[c].order \in tx[c].snap.completed)
Stale(c) ==
  IF tx[c].op = "settle"
  THEN RowTaken(c) \/ Qualified(entries, Owner(tx[c].order))
                        # Qualified(tx[c].snap.entries, Owner(tx[c].order))
  ELSE rewards[tx[c].order] # tx[c].snap.rewards[tx[c].order]

\* settleOrder, the part about loyalty
SettleAndEarn(c) ==
  LET o == tx[c].order
      w == Owner(o)
      value == NthReward(Cardinality(Qualified(tx[c].snap.entries, w)))
  IN /\ Running(c, "settle") /\ ~Stale(c)
     /\ o \notin tx[c].snap.completed
     /\ completed' = completed \cup {o}
     /\ IF LoyaltyEnabled
        THEN /\ entries' = entries \cup {Entry(o, w, value)}
             /\ rewards' = IF value > 0
                           THEN [p \in DOMAIN rewards \cup {o} |->
                                   IF p = o THEN Reward(o, w) ELSE rewards[p]]
                           ELSE rewards
        ELSE UNCHANGED <<entries, rewards>>
     /\ tx' = [tx EXCEPT ![c] = Idle]
     /\ UNCHANGED booked

\* the reward as createOrder and redeemWebAccountLoyaltyReward look for it
\* mutant: also one already spent
UsableAgain(r, a) == r.type = "WEB_ACCOUNT" /\ r.account = a
Usable(r, a) == r.type = "WEB_ACCOUNT" /\ r.account = a /\ r.status = "AVAILABLE"
\* createOrder with a reward
Book(c) ==
  LET o == tx[c].order IN
  /\ Running(c, "book") /\ ~Stale(c)
  /\ Usable(tx[c].snap.rewards[o], tx[c].account)
  /\ Len(booked) < MaxBookings
  /\ booked' = Append(booked, [account |-> tx[c].account, reward |-> o])
  /\ rewards' = [rewards EXCEPT ![o].status = "REDEEMED", ![o].by = Len(booked) + 1]
  /\ tx' = [tx EXCEPT ![c] = Idle]
  /\ UNCHANGED <<completed, entries>>

\* assertSettlementAllowed, RentalLoyaltyRewardUnavailableError: not retried
RefuseSpending(c) ==
  /\ \/ Running(c, "settle") /\ tx[c].order \in tx[c].snap.completed
     \/ Running(c, "book") /\ ~Usable(tx[c].snap.rewards[tx[c].order], tx[c].account)
  /\ tx' = [tx EXCEPT ![c] = Idle]
  /\ UNCHANGED <<completed, entries, rewards, booked>>

\* mutant of Conflict: the attempts are not counted
ConflictForever(c) ==
  /\ tx[c] # Idle /\ tx[c].at = "running" /\ tx[c].snap # Snapshot
  /\ tx' = [tx EXCEPT ![c].at = "waiting"]
  /\ UNCHANGED <<completed, entries, rewards, booked>>
\* P2034: the database may refuse whenever another transaction has committed.
Conflict(c) ==
  /\ tx[c] # Idle /\ tx[c].at = "running" /\ tx[c].snap # Snapshot
  /\ tx' = [tx EXCEPT ![c] = IF tx[c].attempt = MaxAttempts THEN Idle
                             ELSE [tx[c] EXCEPT !.at = "waiting"]]
  /\ UNCHANGED <<completed, entries, rewards, booked>>

\* the next attempt, after the pause: it reads everything again
Retry(c) ==
  /\ tx[c] # Idle /\ tx[c].at = "waiting"
  /\ tx' = [tx EXCEPT ![c].at = "running", ![c].attempt = @ + 1, ![c].snap = Snapshot]
  /\ UNCHANGED <<completed, entries, rewards, booked>>

LoyaltyNext ==
  \E c \in Clients :
    \/ \E o \in Orders : Request(c, "settle", o, NoAccount)
    \/ \E a \in WebAccounts, o \in DOMAIN rewards : Request(c, "book", o, a)
    \/ SettleAndEarn(c) \/ Book(c) \/ RefuseSpending(c) \/ Conflict(c) \/ Retry(c)

LoyaltySpec == LoyaltyInit /\ [][LoyaltyNext]_loyaltyVars

-----------------------------------------------------------------------------
(* What the customer and the shop are shown: getProgress reads one snapshot. *)

Available(w) == {o \in DOMAIN rewards : BelongsTo(rewards[o], w) /\ rewards[o].status = "AVAILABLE"}
Summary(w) ==
  LET count == Cardinality(Qualified(entries, w))
      cycle == count % RentalsRequired
  IN [completedRentalCount |-> count, currentCycleProgress |-> cycle,
      rentalsUntilReward |-> IF LoyaltyEnabled THEN RentalsRequired - cycle ELSE 0,
      availableRewards |-> Available(w),
      availableRewardValue |-> MapThenSumSet(LAMBDA o : rewards[o].value, Available(w))]

LoyaltyTypeOK ==
  /\ completed \subseteq Orders
  /\ \A n \in entries : n.order \in Orders /\ n.value \in {0, RewardRentalValue}
  /\ DOMAIN rewards \subseteq Orders
  /\ \A o \in DOMAIN rewards : rewards[o].status \in {"AVAILABLE", "REDEEMED"}
                               /\ rewards[o].by \in 0..MaxBookings
  /\ \A c \in Clients : tx[c] = Idle \/ tx[c].attempt \in 1..MaxAttempts

\* Every RentalsRequired-th qualification of an owner has earned one reward and no
\* other has, the migrated ones included and however settlements interleave; where a
\* reward is worth nothing, as the policy may say, none is earned.
EveryCycleEarnsOne ==
  \A w \in Owners :
    LET mine == {n \in entries : IF w.type = "WEB_ACCOUNT" THEN n.account = w.id
                                 ELSE n.account = NoAccount /\ n.customer = w.id}
    IN Cardinality({n \in mine : n.order \in DOMAIN rewards})
         = IF RewardRentalValue > 0 THEN Cardinality(mine) \div RentalsRequired ELSE 0

\* What an owner is shown counts the orders of that owner and of nobody else: of the
\* account that placed them or, without one, of the CRM customer, migrated or not.
ScopesNeverMerge ==
  LoyaltyEnabled =>
    \A w \in Owners :
      LET mine == {o \in completed : IF Account[o] # NoAccount
                                     THEN w.type = "WEB_ACCOUNT" /\ w.id = Account[o]
                                     ELSE w.type = "CRM_CUSTOMER" /\ w.id = Customer[o]}
      IN Summary(w).completedRentalCount = Cardinality(mine)

\* Every order that was booked with a reward spent a reward of its own account that
\* no other order spent, and the reward names that order.
DiscountsAreBacked ==
  \A k \in DOMAIN booked :
    /\ booked[k].reward \in DOMAIN rewards
    /\ rewards[booked[k].reward].by = k
    /\ rewards[booked[k].reward].status = "REDEEMED"
    /\ Account[booked[k].reward] = booked[k].account

\* What a customer is shown agrees with itself: the cycles behind the count are the
\* rewards still available and the ones spent, and the promised number of rentals
\* is what is really missing to the next reward.
SummaryAddsUp ==
  \A w \in Owners :
    LET s == Summary(w)
        spent == {k \in DOMAIN booked : w.type = "WEB_ACCOUNT" /\ booked[k].account = w.id}
    IN /\ RewardRentalValue > 0 =>
            s.completedRentalCount
              = RentalsRequired * (Cardinality(s.availableRewards) + Cardinality(spent))
                + s.currentCycleProgress
       /\ s.availableRewardValue = RewardRentalValue * Cardinality(s.availableRewards)
       /\ LoyaltyEnabled => (s.completedRentalCount + s.rentalsUntilReward) % RentalsRequired = 0
\* Every owner's cycles earn their rewards and no more, every discount is backed by
\* a reward, and what the customer is shown adds up.
LoyaltyAddsUp ==
  /\ LoyaltyTypeOK
  /\ EveryCycleEarnsOne
  /\ DiscountsAreBacked
  /\ ScopesNeverMerge
  /\ SummaryAddsUp
=============================================================================
