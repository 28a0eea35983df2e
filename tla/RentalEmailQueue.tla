-------------------------- MODULE RentalEmailQueue --------------------------
(* The e-mails of a rental order: one row per event of the order, committed   *)
(* with the command; workers of several replicas claim rows under a lease,    *)
(* hand them to the provider and record the outcome.  Answers are lost, come  *)
(* too late, workers stall and die; the provider drops a request whose        *)
(* idempotency key it has seen within its window.                             *)
(*                                                                            *)
(* Times only run down or up to a cap: "lease" and "wait" are what remains of *)
(* lease_until and available_at, "age" is the time since first_attempt_at.    *)
EXTENDS Naturals

CONSTANTS Emails,        \* 1 .. n, in the order of their events
          OrderOf,       \* the order of each email
          Workers,
          MaxAttempts,   \* MAX_ATTEMPTS
          RetryWindow,   \* RETRY_WINDOW_MS
          ClaimTime,     \* 60 seconds
          Stall,         \* the longest a request takes from its checkpoint to the provider
          Dedup,         \* the provider's deduplication window
          Settings       \* renderings the configuration can give a message: 1 .. n

EmailsAssumption == Emails \subseteq Nat /\ Settings \in Nat \ {0} /\ MaxAttempts \in Nat \ {0}
WindowAssumption == /\ {RetryWindow, ClaimTime, Stall, Dedup} \subseteq Nat /\ ClaimTime > 0
                    /\ RetryWindow + ClaimTime + Stall <= Dedup

VARIABLES row,        \* notification_logs
          worker,     \* the claim each worker is processing
          late,       \* requests the worker gave up that may still arrive
          mailed,     \* how often the provider sent each email
          key,        \* age of the provider's idempotency key, or NoKey
          payload,    \* payload of the first request of each email, 0 before it
          clash,      \* emails requested with two payloads under one key
          settings

mailVars == <<row, worker, late, mailed, key, payload, clash, settings>>

Status == {"NONE", "PENDING", "PROCESSING", "RETRY", "SENT", "FAILED", "UNKNOWN"}
Terminal == {"SENT", "FAILED", "UNKNOWN"}
Waiting == {"PENDING", "PROCESSING", "RETRY"}

NoKey == Dedup + 1
NoRow == [status |-> "NONE", lease |-> 0, attempts |-> 0, age |-> 0, wait |-> 0, payload |-> 0]
Idle == [step |-> "idle", email |-> 0, attempt |-> 0, payload |-> 0, stalled |-> 0, outcome |-> "none"]

Started(e) == row[e].attempts > 0

-----------------------------------------------------------------------------
(* The order's commands *)

\* The confirmation and the settlement of an online order enqueue one email each.
Enqueue(e) ==
  /\ row[e] = NoRow
  /\ \A p \in Emails : OrderOf[p] = OrderOf[e] /\ p < e => row[p] # NoRow
  /\ row' = [row EXCEPT ![e].status = "PENDING"]
  /\ UNCHANGED <<worker, late, mailed, key, payload, clash, settings>>

-----------------------------------------------------------------------------
(* claimNext *)

\* Attempts whose result cannot be found out by sending again any more.
AbandonedOnAttempts(r) == r.status = "PROCESSING" /\ r.lease = 0 /\ r.attempts >= MaxAttempts
AbandonedRetries(r) == r.status = "RETRY" /\ r.age >= RetryWindow
Abandoned(r) == /\ r.status \in {"PROCESSING", "RETRY"}
                /\ \/ r.age >= RetryWindow
                   \/ r.status = "PROCESSING" /\ r.lease = 0 /\ r.attempts >= MaxAttempts
Swept == [e \in Emails |-> IF Abandoned(row[e]) THEN [row[e] EXCEPT !.status = "UNKNOWN", !.lease = 0]
                           ELSE row[e]]

NobodyWaits(e) == FALSE
EarlierWaits(e) == \E p \in Emails : OrderOf[p] = OrderOf[e] /\ p < e /\ Swept[p].status \in Waiting

Claimable(e) ==
  LET r == Swept[e] IN
  /\ r.attempts < MaxAttempts
  /\ \/ r.status \in {"PENDING", "RETRY"} /\ r.wait = 0
     \/ r.status = "PROCESSING" /\ r.lease = 0
  /\ ~EarlierWaits(e)

RerenderedPayload(e) == 0
StoredPayload(e) == Swept[e].payload

\* The claim counts as an attempt; the rows of other orders may be locked.
Claim(w, e) ==
  /\ worker[w] = Idle
  /\ Claimable(e)
  /\ row' = [Swept EXCEPT ![e].status = "PROCESSING", ![e].lease = ClaimTime, ![e].attempts = @ + 1]
  /\ worker' = [worker EXCEPT ![w] = [Idle EXCEPT !.step = "claimed", !.email = e,
                  !.attempt = row[e].attempts + 1, !.payload = StoredPayload(e)]]
  /\ UNCHANGED <<late, mailed, key, payload, clash, settings>>

\* Nothing to claim: the sweep alone.
ClaimNothing(w) ==
  /\ worker[w] = Idle
  /\ \A e \in Emails : ~Claimable(e)
  /\ row' = Swept
  /\ UNCHANGED <<worker, late, mailed, key, payload, clash, settings>>

\* ownerToken is drawn anew for every claim, that is for every attempt.
Owner(w) == LET c == worker[w] IN row[c.email].status = "PROCESSING" /\ row[c.email].attempts = c.attempt
OwnerInTime(w) == Owner(w) /\ row[worker[w].email].lease > 0

-----------------------------------------------------------------------------
(* deliverPending *)

Rendered(w) == IF worker[w].payload # 0 THEN worker[w].payload ELSE settings

\* The payload is stored before the first request; a lost claim is dropped.
Prepare(w) ==
  /\ worker[w].step = "claimed"
  /\ IF OwnerInTime(w)
     THEN /\ row' = [row EXCEPT ![worker[w].email].payload = Rendered(w)]
          /\ worker' = [worker EXCEPT ![w].step = "sending", ![w].payload = Rendered(w)]
     ELSE /\ worker' = [worker EXCEPT ![w] = Idle]
          /\ UNCHANGED row
  /\ UNCHANGED <<late, mailed, key, payload, clash, settings>>

Answered(w, outcome) == worker' = [worker EXCEPT ![w].step = "answered", ![w].outcome = outcome]

\* The stored snapshot is not readable, or the database fails the checkpoint.
PrepareFails(w) ==
  /\ worker[w].step = "claimed"
  /\ \E outcome \in {"permanent", "retryable"} : Answered(w, outcome)
  /\ UNCHANGED <<row, late, mailed, key, payload, clash, settings>>

\* The request reaches the provider.
Arrive(e, p) ==
  /\ IF key[e] < Dedup
     THEN UNCHANGED <<mailed, key>>
     ELSE /\ mailed' = [mailed EXCEPT ![e] = @ + 1]
          /\ key' = [key EXCEPT ![e] = 0]
  /\ payload' = [payload EXCEPT ![e] = IF @ = 0 THEN p ELSE @]
  /\ clash' = IF payload[e] \notin {0, p} THEN clash \cup {e} ELSE clash


\* It is accepted, and the answer is read or lost.
SendAccepted(w) ==
  /\ worker[w].step = "sending"
  /\ Arrive(worker[w].email, worker[w].payload)
  /\ \E outcome \in {"accepted", "retryable"} : Answered(w, outcome)
  /\ UNCHANGED <<row, late, settings>>

\* It is refused, for now (408, 409, 429, 5xx) or for good, or never arrives.
UncheckedRefusal == {"accepted"}
RefusalOutcomes == {"retryable", "permanent"}

SendRefused(w) ==
  /\ worker[w].step = "sending"
  /\ \E outcome \in RefusalOutcomes : Answered(w, outcome)
  /\ UNCHANGED <<row, late, mailed, key, payload, clash, settings>>

\* The worker gives up waiting; the request may still arrive.
SendTimesOut(w) ==
  /\ worker[w].step = "sending"
  /\ late' = late \cup {<<worker[w].email, worker[w].payload>>}
  /\ Answered(w, "retryable")
  /\ UNCHANGED <<row, mailed, key, payload, clash, settings>>

LateArrival(m) ==
  /\ m \in late
  /\ late' = late \ {m}
  /\ \/ Arrive(m[1], m[2])
     \/ UNCHANGED <<mailed, key, payload, clash>>
  /\ UNCHANGED <<row, worker, settings>>

\* sent: only the owner, and only in time; otherwise the row is left to the sweep.
RecordSent(w) ==
  /\ worker[w].step = "answered" /\ worker[w].outcome = "accepted"
  /\ row' = IF OwnerInTime(w)
            THEN [row EXCEPT ![worker[w].email].status = "SENT", ![worker[w].email].lease = 0]
            ELSE row
  /\ worker' = [worker EXCEPT ![w] = Idle]
  /\ UNCHANGED <<late, mailed, key, payload, clash, settings>>

SteepBackoff(n) == 2 ^ (n + 1)
Backoff(n) == 2 ^ (n - 1)
OwnerByEmailOnly(w) == worker[w].email # 0
OwnerForFailure(w) == Owner(w)

StatusAfterFailure(w) ==
  IF worker[w].outcome = "permanent" THEN "FAILED"
  ELSE IF worker[w].attempt < MaxAttempts THEN "RETRY" ELSE "UNKNOWN"

RecordFailed(w) ==
  /\ worker[w].step = "answered" /\ worker[w].outcome \in {"retryable", "permanent"}
  /\ row' = IF OwnerForFailure(w)
            THEN [row EXCEPT ![worker[w].email].status = StatusAfterFailure(w),
                             ![worker[w].email].lease = 0,
                             ![worker[w].email].wait = Backoff(worker[w].attempt)]
            ELSE row
  /\ worker' = [worker EXCEPT ![w] = Idle]
  /\ UNCHANGED <<late, mailed, key, payload, clash, settings>>

\* The process dies, or the database fails it outside the send: the lease runs out.
Die(w) ==
  /\ worker[w] # Idle
  /\ worker' = [worker EXCEPT ![w] = Idle]
  /\ UNCHANGED <<row, late, mailed, key, payload, clash, settings>>

-----------------------------------------------------------------------------
Deploy ==
  /\ settings < Settings
  /\ settings' = settings + 1
  /\ UNCHANGED <<row, worker, late, mailed, key, payload, clash>>

Sooner(n) == IF n = 0 THEN 0 ELSE n - 1
More(n, cap) == IF n >= cap THEN cap ELSE n + 1

\* Time passes once no request is older than Stall.
MailTick ==
  /\ late = {}
  /\ \A w \in Workers : worker[w].step = "sending" => worker[w].stalled < Stall
  /\ row' = [e \in Emails |-> [row[e] EXCEPT !.lease = Sooner(@), !.wait = Sooner(@),
               !.age = IF Started(e) THEN More(@, RetryWindow) ELSE 0]]
  /\ worker' = [w \in Workers |-> IF worker[w].step = "sending"
                                  THEN [worker[w] EXCEPT !.stalled = @ + 1] ELSE worker[w]]
  /\ key' = [e \in Emails |-> IF key[e] = NoKey THEN NoKey ELSE More(key[e], Dedup)]
  /\ UNCHANGED <<late, mailed, payload, clash, settings>>

MailInit ==
  /\ row = [e \in Emails |-> NoRow]
  /\ worker = [w \in Workers |-> Idle]
  /\ late = {} /\ clash = {} /\ settings = 1
  /\ mailed = [e \in Emails |-> 0]
  /\ key = [e \in Emails |-> NoKey]
  /\ payload = [e \in Emails |-> 0]

WorkerStep(w) == \/ Prepare(w) \/ PrepareFails(w) \/ SendAccepted(w) \/ SendRefused(w) \/ SendTimesOut(w)
                 \/ RecordSent(w) \/ RecordFailed(w)

MailNext ==
  \/ \E e \in Emails : Enqueue(e)
  \/ \E w \in Workers : \/ (\E e \in Emails : Claim(w, e)) \/ ClaimNothing(w)
                        \/ WorkerStep(w) \/ Die(w)
  \/ \E m \in late : LateArrival(m)
  \/ Deploy \/ MailTick

MailSpec == MailInit /\ [][MailNext]_mailVars

-----------------------------------------------------------------------------
(* Properties *)

MailTypeOK ==
  /\ row \in [Emails -> [status : Status, lease : 0 .. ClaimTime, attempts : 0 .. MaxAttempts,
                         age : 0 .. RetryWindow, wait : 0 .. 2 ^ MaxAttempts,
                         payload : 0 .. Settings]]
  /\ \A w \in Workers : worker[w].step \in {"idle", "claimed", "sending", "answered"}
  /\ late \subseteq Emails \X (1 .. Settings)
  /\ mailed \in [Emails -> Nat]
  /\ key \in [Emails -> 0 .. NoKey]

\* The customer gets each email at most once, whatever answers are lost and
\* however many workers sent it (RENTAL_ORDER_EMAILS.md, "Delivery").
AtMostOneMail == \A e \in Emails : mailed[e] <= 1

\* Every request of one email carries the same payload, also after a deployment
\* that renders it differently: the provider refuses a key with another payload
\* ("retries remain byte-for-byte stable", rental-email.service.ts:58).
PayloadIsStable == clash = {}

\* SENT is only recorded of an email the provider accepted.
SentIsTrue == \A e \in Emails : row[e].status = "SENT" => mailed[e] > 0

\* A later email of an order is not handed to the provider before the earlier
\* ones have their final status (claimNext, "Earlier nonterminal tasks for the
\* same order block later tasks").
InOrder ==
  \A p, e \in Emails : OrderOf[p] = OrderOf[e] /\ p < e /\ payload[e] # 0 =>
    row[p].status \in Terminal

\* A final status stays: a worker that lost its lease changes nothing any more.
FinalStays == \A e \in Emails : row[e].status \in Terminal =>
                row'[e] = [row[e] EXCEPT !.wait = row'[e].wait, !.age = row'[e].age]

\* Every email gets a final status, whatever is lost and whoever dies.
EveryEmailIsSettled == \A e \in Emails : row[e].status # "NONE" ~> row[e].status \in Terminal

\* A customer gets an e-mail once and always the same one.
MailsAreSentOnce == AtMostOneMail /\ PayloadIsStable
=============================================================================
