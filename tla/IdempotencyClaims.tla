------------------------- MODULE IdempotencyClaims -------------------------
(***************************************************************************)
(* The idempotency records that order creation and payment recording are   *)
(* protected by, for one key: concurrent and retried requests, crashes at  *)
(* any point, commits whose answer is lost, recovery of abandoned claims   *)
(* and expiry of old records.                                              *)
(*                                                                         *)
(* claimIdempotencyRecord is a loop of autocommitted statements, so each   *)
(* statement is an action of its own.  The protected command is a single   *)
(* action: its transaction starts by taking the record's row lock and      *)
(* completes the record in the same transaction.                           *)
(***************************************************************************)
EXTENDS Naturals, FiniteSets

CONSTANTS Request,     \* calls of the endpoint with this key, retries included
          Intent,      \* what a request asks for; its hash is taken as itself
          Lease,       \* IDEMPOTENCY_CLAIM_LEASE_MS
          Retention,   \* the caller's expiresAt, counted from its start
          Attempts,    \* CLAIM_ATTEMPTS
          MaxTime,     \* bound: the clock stops here
          Nobody

ASSUME ClockAssumption == Lease \in Nat /\ Retention \in Nat /\ MaxTime \in Nat
ASSUME NobodyAssumption == Nobody \notin Request /\ Nobody \notin Intent

VARIABLES record,      \* the idempotency_records row of the key, if any
          executions,  \* history: the commands that were committed
          pc,          \* where each request stands
          asked,       \* its intent
          expiresAt,   \* the expiry it will write
          readAt,      \* the clock as its current attempt read it
          tries,       \* attempts it has begun
          found,       \* the owner of the stale claim it is about to take over
          answer,      \* what its caller got to know
          now

localVars == <<pc, asked, expiresAt, readAt, tries, found, answer>>
vars == <<record, executions, pc, asked, expiresAt, readAt, tries, found, answer, now>>

Time == 0 .. MaxTime
Deadline == 0 .. (MaxTime + Retention)

\* Each request gets at most one claim, so the request names the random row id.
Row == [id : Request, intent : Intent, createdAt : Time, until : Deadline, completed : BOOLEAN]
NoRow == [id |-> Nobody, intent |-> Nobody, createdAt |-> 0, until |-> 0, completed |-> FALSE]
Exists == record.id # Nobody

Execution == [by : Request, intent : Intent, at : Time, until : Deadline]

Label == {"idle", "purge", "insert", "look", "recover", "claimed", "release", "done", "crashed"}
Kind == {"NONE", "EXECUTED", "REPLAYED", "IN_PROGRESS", "HASH_MISMATCH", "ERROR"}
Answer == [kind : Kind, of : Request \cup {Nobody}]
Reply(kind, of) == [kind |-> kind, of |-> of]

-----------------------------------------------------------------------------
(* Conditions of the SQL statements *)

Expired(r) == Exists /\ record.until <= readAt[r]

\* createdAt <= now - lease
Stale(r) == record.createdAt + Lease <= readAt[r]

\* Replays to whoever presents the key.
AnyIntent(r) == TRUE

SameIntent(r) == record.intent = asked[r]

\* Recovery that trusts what it read a moment ago.
FoundIsEnough(r) == Exists

StillStale(r) ==
    /\ Exists
    /\ record.id = found[r]
    /\ record.intent = asked[r]
    /\ ~record.completed
    /\ Stale(r)

\* A lock that finds the record by its key only.
LockByKey(r) == Exists /\ ~record.completed

OwnsClaim(r) == Exists /\ record.id = r /\ ~record.completed

\* A release that deletes by owner, completed or not.
Claimed(r) == Exists /\ record.id = r

MayRelease(r) == Exists /\ record.id = r /\ ~record.completed

-----------------------------------------------------------------------------
(* The endpoint, up to its claim *)

\* Takes a claim over by prolonging its expiry.
ProlongedClaim(r) == [record EXCEPT !.id = r, !.createdAt = readAt[r], !.until = @ + Retention]

\* The row id is rotated, which is what fences the previous owner off.
RecoveredClaim(r) == [record EXCEPT !.id = r, !.createdAt = readAt[r], !.until = expiresAt[r]]

Goto(r, label) == pc' = [pc EXCEPT ![r] = label]

Finish(r, kind, of) ==
    /\ Goto(r, "done")
    /\ answer' = [answer EXCEPT ![r] = Reply(kind, of)]

\* The clock is read at the top of every attempt, and the attempts are counted.
NextAttempt(r) ==
    IF tries[r] < Attempts
    THEN /\ Goto(r, "purge")
         /\ tries' = [tries EXCEPT ![r] = @ + 1]
         /\ readAt' = [readAt EXCEPT ![r] = now]
         /\ UNCHANGED answer
    ELSE /\ Finish(r, "IN_PROGRESS", Nobody)
         /\ UNCHANGED <<tries, readAt>>

Begin(r, intent) ==
    /\ pc[r] = "idle"
    /\ Goto(r, "purge")
    /\ asked' = [asked EXCEPT ![r] = intent]
    /\ expiresAt' = [expiresAt EXCEPT ![r] = now + Retention]
    /\ tries' = [tries EXCEPT ![r] = 1]
    /\ readAt' = [readAt EXCEPT ![r] = now]
    /\ UNCHANGED <<record, executions, found, answer, now>>

\* deleteMany of the expired record, whoever's it is.
Purge(r) ==
    /\ pc[r] = "purge"
    /\ record' = IF Expired(r) THEN NoRow ELSE record
    /\ Goto(r, "insert")
    /\ UNCHANGED <<executions, asked, expiresAt, readAt, tries, found, answer, now>>

\* create, or P2002 when there is a record already.
Insert(r) ==
    /\ pc[r] = "insert"
    /\ IF Exists
       THEN Goto(r, "look") /\ UNCHANGED record
       ELSE /\ Goto(r, "claimed")
            /\ record' = [id |-> r, intent |-> asked[r], createdAt |-> readAt[r],
                          until |-> expiresAt[r], completed |-> FALSE]
    /\ UNCHANGED <<executions, asked, expiresAt, readAt, tries, found, answer, now>>

\* findUnique, and what the endpoint makes of it.
Look(r) ==
    /\ pc[r] = "look"
    /\ \/ /\ ~Exists
          /\ NextAttempt(r)
          /\ UNCHANGED found
       \/ /\ Exists /\ ~SameIntent(r)
          /\ Finish(r, "HASH_MISMATCH", Nobody)
          /\ UNCHANGED <<tries, readAt, found>>
       \/ /\ Exists /\ SameIntent(r) /\ record.completed
          /\ Finish(r, "REPLAYED", record.id)
          /\ UNCHANGED <<tries, readAt, found>>
       \/ /\ Exists /\ SameIntent(r) /\ ~record.completed /\ ~Stale(r)
          /\ Finish(r, "IN_PROGRESS", Nobody)
          /\ UNCHANGED <<tries, readAt, found>>
       \/ /\ Exists /\ SameIntent(r) /\ ~record.completed /\ Stale(r)
          /\ Goto(r, "recover")
          /\ found' = [found EXCEPT ![r] = record.id]
          /\ UNCHANGED <<tries, readAt, answer>>
    /\ UNCHANGED <<record, executions, asked, expiresAt, now>>

\* updateMany that rotates the row's id, or nothing if it changed meanwhile.
Recover(r) ==
    /\ pc[r] = "recover"
    /\ IF StillStale(r)
       THEN /\ record' = RecoveredClaim(r)
            /\ Goto(r, "claimed")
            /\ UNCHANGED <<tries, readAt, answer>>
       ELSE NextAttempt(r) /\ UNCHANGED record
    /\ UNCHANGED <<executions, asked, expiresAt, found, now>>

-----------------------------------------------------------------------------
(* The protected command *)

\* lockIdempotencyClaim, the business writes and completeIdempotencyClaim in
\* one transaction.  The caller may fail to learn that it was committed: the
\* connection breaks, or what follows in the service throws.
Execute(r) ==
    /\ pc[r] = "claimed"
    /\ OwnsClaim(r)
    /\ executions' = executions \cup
            {[by |-> r, intent |-> asked[r], at |-> now, until |-> record.until]}
    /\ record' = [record EXCEPT !.completed = TRUE]
    /\ \/ Finish(r, "EXECUTED", r)
       \/ Goto(r, "release") /\ UNCHANGED answer
    /\ UNCHANGED <<asked, expiresAt, readAt, tries, found, now>>

\* The claim is waited for instead of given up.
ClaimNeverGivenUp(r) == FALSE

ClaimLost(r) == ~OwnsClaim(r)

\* RentalClaimLostError: the transaction is rolled back.
LoseClaim(r) ==
    /\ pc[r] = "claimed"
    /\ ClaimLost(r)
    /\ Goto(r, "release")
    /\ UNCHANGED <<record, executions, asked, expiresAt, readAt, tries, found, answer, now>>

\* Validation, selection or the transaction itself fails: nothing is written.
Fail(r) ==
    /\ pc[r] = "claimed"
    /\ Goto(r, "release")
    /\ UNCHANGED <<record, executions, asked, expiresAt, readAt, tries, found, answer, now>>

\* releaseIdempotencyClaim in the catch block, then the error goes out.
Release(r) ==
    /\ pc[r] = "release"
    /\ record' = IF MayRelease(r) THEN NoRow ELSE record
    /\ Finish(r, "ERROR", Nobody)
    /\ UNCHANGED <<executions, asked, expiresAt, readAt, tries, found, now>>

\* The process dies; what it has written stays.
Crash(r) ==
    /\ pc[r] \notin {"idle", "done", "crashed"}
    /\ Goto(r, "crashed")
    /\ UNCHANGED <<record, executions, asked, expiresAt, readAt, tries, found, answer, now>>

-----------------------------------------------------------------------------
(* Specification *)

Tick ==
    /\ now < MaxTime
    /\ now' = now + 1
    /\ UNCHANGED <<record, executions, localVars>>

Init ==
    /\ record = NoRow
    /\ executions = {}
    /\ pc = [r \in Request |-> "idle"]
    /\ asked = [r \in Request |-> Nobody]
    /\ expiresAt = [r \in Request |-> 0]
    /\ readAt = [r \in Request |-> 0]
    /\ tries = [r \in Request |-> 0]
    /\ found = [r \in Request |-> Nobody]
    /\ answer = [r \in Request |-> Reply("NONE", Nobody)]
    /\ now = 0

\* The steps a running handler takes by itself.
Run(r) ==
    \/ Purge(r) \/ Insert(r) \/ Look(r) \/ Recover(r)
    \/ Execute(r) \/ LoseClaim(r) \/ Release(r)

Next ==
    \/ \E r \in Request :
        \/ \E intent \in Intent : Begin(r, intent)
        \/ Run(r)
        \/ Fail(r)
        \/ Crash(r)
    \/ Tick

Spec == Init /\ [][Next]_vars

-----------------------------------------------------------------------------
(* Properties *)

\* Every column and local variable holds a value of its type.
TypeOK ==
    /\ record \in Row \cup {NoRow}
    /\ executions \in SUBSET Execution
    /\ pc \in [Request -> Label]
    /\ asked \in [Request -> Intent \cup {Nobody}]
    /\ expiresAt \in [Request -> Deadline]
    /\ readAt \in [Request -> Time]
    /\ tries \in [Request -> Nat]
    /\ found \in [Request -> Request \cup {Nobody}]
    /\ answer \in [Request -> Answer]
    /\ now \in Time

(***************************************************************************)
(* As long as the retention of a committed command lasts, its completed    *)
(* record is there for retries to find, under the owner that executed it:  *)
(* no recovery, expiry or clean-up by another request removes it.          *)
(***************************************************************************)
ExecutionIsOnRecord ==
    \A e \in executions :
        now < e.until =>
            /\ record.id = e.by /\ record.completed
            /\ record.intent = e.intent /\ record.until = e.until

(***************************************************************************)
(* A key executes its command at most once per retention period, through   *)
(* crashes, lost answers, takeovers and slow owners that wake up again.    *)
(***************************************************************************)
AtMostOncePerRetention ==
    \A d, e \in executions : d # e => d.until <= e.at \/ e.until <= d.at

\* A key executes its command at most once per retention, because the record of an
\* execution stays on record for as long.
KeyExecutesOnce == TypeOK /\ ExecutionIsOnRecord /\ AtMostOncePerRetention

(***************************************************************************)
(* What a caller is told is true: EXECUTED and REPLAYED name a command     *)
(* that was committed for the intent the caller asked for.                 *)
(***************************************************************************)
AnswersAreTrue ==
    \A r \in Request :
        answer[r].kind \in {"EXECUTED", "REPLAYED"} =>
            \E e \in executions : e.by = answer[r].of /\ e.intent = asked[r]

(***************************************************************************)
(* A request that has begun is answered unless its process dies: neither   *)
(* contention for the record nor a lost claim keeps it waiting.            *)
(***************************************************************************)
EveryRequestAnswered ==
    \A r \in Request : (pc[r] = "purge") ~> (pc[r] \in {"done", "crashed"})

-----------------------------------------------------------------------------
(* The record keeps the promise of IdempotentCommand. *)

result ==
    IF record.completed
    THEN [by |-> record.id, intent |-> record.intent, until |-> record.until]
    ELSE [by |-> Nobody, intent |-> Nobody, until |-> 0]

Command == INSTANCE IdempotentCommand

(***************************************************************************)
(* Claims, leases, takeovers and releases are invisible: every statement   *)
(* the handlers run is a step of the promised command, or no step at all.  *)
(***************************************************************************)
ImplementsCommand == Command!Spec
=============================================================================
