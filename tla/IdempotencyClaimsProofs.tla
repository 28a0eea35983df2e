---------------------- MODULE IdempotencyClaimsProofs ----------------------
(***************************************************************************)
(* The claim protocol keeps its promise for any number of requests and     *)
(* intents, any lease, retention and number of attempts: no command is     *)
(* executed twice within a retention period, no caller is told something   *)
(* untrue, and everything a handler does is a step of IdempotentCommand or *)
(* invisible to it.                                                        *)
(***************************************************************************)
EXTENDS IdempotencyClaims, Integers, TLAPS

\* Clocks that were read are not ahead of the clock, and executions are of the past.
ClocksAgree ==
    /\ \A r \in Request : readAt[r] <= now
    /\ \A e \in executions : e.at <= now

\* A request has its intent once it has begun and nothing to tell before it is done.
HandlersProceed ==
    \A r \in Request :
        /\ pc[r] = "idle" <=> asked[r] = Nobody
        /\ pc[r] # "done" => answer[r].kind = "NONE"

\* The owner of the record began with the record's intent.
OwnerAskedForIt ==
    Exists => record.intent = asked[record.id] /\ record.intent \in Intent

\* A completed record tells of an execution.
CompletedIsExecuted ==
    record.completed => \E e \in executions : e.by = record.id /\ e.intent = record.intent

\* A request executes once: afterwards it is not at its claim again.
ExecutedHasLeft ==
    /\ \A e \in executions : pc[e.by] \in {"release", "done", "crashed"}
    /\ \A d, e \in executions : d.by = e.by => d = e

IInv ==
    /\ TypeOK
    /\ ClocksAgree
    /\ HandlersProceed
    /\ OwnerAskedForIt
    /\ CompletedIsExecuted
    /\ ExecutedHasLeft
    /\ ExecutionIsOnRecord
    /\ AtMostOncePerRetention
    /\ AnswersAreTrue

-----------------------------------------------------------------------------
(* Type correctness *)

LEMMA RowOrNone ==
    ASSUME TypeOK
    PROVE  /\ Exists => record \in Row
           /\ ~Exists => record = NoRow
           /\ record.completed \in BOOLEAN
           /\ record.completed => Exists
<1>1. CASE record \in Row
  BY <1>1, NobodyAssumption DEF Row, Exists
<1>2. CASE record = NoRow
  BY <1>2 DEF NoRow, Exists
<1> QED
  BY <1>1, <1>2 DEF TypeOK

\* What handlers write to the row is a row.
LEMMA RowsWritten ==
    ASSUME TypeOK, HandlersProceed, NEW r \in Request, pc[r] # "idle"
    PROVE  /\ [id |-> r, intent |-> asked[r], createdAt |-> readAt[r],
               until |-> expiresAt[r], completed |-> FALSE] \in Row
           /\ Exists => /\ RecoveredClaim(r) \in Row
                        /\ [record EXCEPT !.completed = TRUE] \in Row
<1>1. asked[r] \in Intent /\ readAt[r] \in Time /\ expiresAt[r] \in Deadline
  BY DEF TypeOK, HandlersProceed
<1>2. ASSUME Exists
      PROVE  RecoveredClaim(r) \in Row /\ [record EXCEPT !.completed = TRUE] \in Row
  BY <1>1, <1>2, RowOrNone DEF Row, RecoveredClaim
<1> QED
  BY <1>1, <1>2 DEF Row

LEMMA FinishType ==
    ASSUME TypeOK, NEW r \in Request, NEW kind \in Kind, NEW of \in Request \cup {Nobody},
           Finish(r, kind, of)
    PROVE  pc' \in [Request -> Label] /\ answer' \in [Request -> Answer]
<1>1. Reply(kind, of) \in Answer
  BY DEF Reply, Answer
<1> QED
  BY <1>1 DEF TypeOK, Finish, Goto, Label

LEMMA NextAttemptType ==
    ASSUME TypeOK, NEW r \in Request, NextAttempt(r)
    PROVE  /\ pc' \in [Request -> Label]
           /\ tries' \in [Request -> Nat]
           /\ readAt' \in [Request -> Time]
           /\ answer' \in [Request -> Answer]
<1>1. CASE tries[r] < Attempts
  BY <1>1 DEF TypeOK, NextAttempt, Goto, Label
<1>2. CASE ~(tries[r] < Attempts)
  BY <1>2, FinishType DEF TypeOK, NextAttempt, Kind
<1> QED
  BY <1>1, <1>2

LEMMA TypeStep ==
    ASSUME TypeOK, HandlersProceed, [Next]_vars
    PROVE  TypeOK'
<1> USE ClockAssumption, NobodyAssumption
<1>1. ASSUME NEW r \in Request, NEW intent \in Intent, Begin(r, intent)
      PROVE  TypeOK'
  BY <1>1 DEF TypeOK, Begin, Goto, Label, Time, Deadline
<1>2. ASSUME NEW r \in Request, Purge(r)
      PROVE  TypeOK'
  BY <1>2 DEF TypeOK, Purge, Goto, Label
<1>3. ASSUME NEW r \in Request, Insert(r)
      PROVE  TypeOK'
  <2>1. record' \in Row \cup {NoRow}
    BY <1>3, RowsWritten DEF TypeOK, Insert
  <2> QED
    BY <1>3, <2>1 DEF TypeOK, Insert, Goto, Label
<1>4. ASSUME NEW r \in Request, Look(r)
      PROVE  TypeOK'
  <2>1. CASE ~Exists /\ NextAttempt(r) /\ UNCHANGED found
    BY <1>4, <2>1, NextAttemptType DEF TypeOK, Look
  <2>2. CASE /\ \/ Finish(r, "HASH_MISMATCH", Nobody)
                \/ Finish(r, "IN_PROGRESS", Nobody)
                \/ Exists /\ Finish(r, "REPLAYED", record.id)
             /\ UNCHANGED <<tries, readAt, found>>
    <3>1. Exists => record.id \in Request
      BY RowOrNone DEF Row
    <3>2. pc' \in [Request -> Label] /\ answer' \in [Request -> Answer]
      BY <2>2, <3>1, FinishType DEF Kind
    <3> QED
      BY <1>4, <2>2, <3>2 DEF TypeOK, Look
  <2>3. CASE /\ Exists
             /\ Goto(r, "recover")
             /\ found' = [found EXCEPT ![r] = record.id]
             /\ UNCHANGED <<tries, readAt, answer>>
    <3>1. record.id \in Request
      BY <2>3, RowOrNone DEF Row
    <3> QED
      BY <1>4, <2>3, <3>1 DEF TypeOK, Look, Goto, Label
  <2> QED
    BY <1>4, <2>1, <2>2, <2>3 DEF Look
<1>5. ASSUME NEW r \in Request, Recover(r)
      PROVE  TypeOK'
  <2>1. CASE StillStale(r)
    <3>1. record' \in Row \cup {NoRow}
      <4>1. pc[r] # "idle" /\ Exists /\ record' = RecoveredClaim(r)
        BY <1>5, <2>1 DEF Recover, StillStale
      <4> QED BY <4>1, RowsWritten
    <3>2. pc' \in [Request -> Label]
      BY <1>5, <2>1 DEF TypeOK, Recover, Goto, Label
    <3> QED BY <1>5, <2>1, <3>1, <3>2 DEF TypeOK, Recover
  <2>2. CASE ~StillStale(r)
    BY <1>5, <2>2, NextAttemptType DEF TypeOK, Recover
  <2> QED
    BY <2>1, <2>2
<1>6. ASSUME NEW r \in Request, Execute(r)
      PROVE  TypeOK'
  <2>1. [by |-> r, intent |-> asked[r], at |-> now, until |-> record.until] \in Execution
    BY <1>6, RowOrNone DEF TypeOK, HandlersProceed, Execute, OwnsClaim, Execution, Row
  <2>2. record' \in Row
    BY <1>6, RowsWritten DEF Execute, OwnsClaim
  <2>3. pc' \in [Request -> Label] /\ answer' \in [Request -> Answer]
    BY <1>6, FinishType DEF TypeOK, Execute, Goto, Label, Kind
  <2> QED
    BY <1>6, <2>1, <2>2, <2>3 DEF TypeOK, Execute
<1>7. ASSUME NEW r \in Request, LoseClaim(r) \/ Fail(r) \/ Crash(r)
      PROVE  TypeOK'
  BY <1>7 DEF TypeOK, LoseClaim, Fail, Crash, Goto, Label
<1>8. ASSUME NEW r \in Request, Release(r)
      PROVE  TypeOK'
  BY <1>8, FinishType DEF TypeOK, Release, Kind
<1>9. CASE Tick
  BY <1>9 DEF TypeOK, Tick, localVars, Time
<1>10. CASE UNCHANGED vars
  BY <1>10 DEF TypeOK, vars
<1> QED
  BY <1>1, <1>2, <1>3, <1>4, <1>5, <1>6, <1>7, <1>8, <1>9, <1>10 DEF Next, Run

-----------------------------------------------------------------------------
(* What a step may do to a handler, and to the record *)

Stays(r) == pc'[r] = pc[r] /\ asked'[r] = asked[r] /\ answer'[r] = answer[r]

Begins(r) == /\ pc[r] = "idle" /\ pc'[r] = "purge"
             /\ asked'[r] \in Intent /\ answer'[r] = answer[r]

Running(r) == pc[r] \notin {"idle", "done", "crashed"}

Proceeds(r) == /\ Running(r) /\ pc'[r] \notin {"idle", "done"}
               /\ asked'[r] = asked[r] /\ answer'[r] = answer[r]

Tells(r) ==
    \/ \E kind \in {"IN_PROGRESS", "HASH_MISMATCH", "ERROR"} : answer'[r] = Reply(kind, Nobody)
    \/ /\ record.completed /\ record.intent = asked[r]
       /\ answer'[r] = Reply("REPLAYED", record.id)
    \/ Execute(r) /\ answer'[r] = Reply("EXECUTED", r)

Ends(r) == Running(r) /\ pc'[r] = "done" /\ asked'[r] = asked[r] /\ Tells(r)

LEMMA HandlerStep ==
    ASSUME TypeOK, [Next]_vars, NEW r \in Request
    PROVE  Stays(r) \/ Begins(r) \/ Proceeds(r) \/ Ends(r)
<1> USE DEF TypeOK, Running
<1>1. ASSUME NEW q \in Request, NEW intent \in Intent, Begin(q, intent)
      PROVE  Stays(r) \/ Begins(r)
  BY <1>1 DEF Begin, Goto, Stays, Begins
<1>2. ASSUME NEW q \in Request, Purge(q)
      PROVE  Stays(r) \/ Proceeds(r)
  BY <1>2 DEF Purge, Goto, Stays, Proceeds
<1>3. ASSUME NEW q \in Request, Insert(q)
      PROVE  Stays(r) \/ Proceeds(r)
  BY <1>3 DEF Insert, Goto, Stays, Proceeds
<1>4. ASSUME NEW q \in Request, Look(q)
      PROVE  Stays(r) \/ Proceeds(r) \/ Ends(r)
  BY <1>4 DEF Look, NextAttempt, Finish, SameIntent, Goto, Stays, Proceeds, Ends, Tells
<1>5. ASSUME NEW q \in Request, Recover(q)
      PROVE  Stays(r) \/ Proceeds(r) \/ Ends(r)
  BY <1>5 DEF Recover, NextAttempt, Finish, Goto, Stays, Proceeds, Ends, Tells
<1>6. ASSUME NEW q \in Request, Execute(q)
      PROVE  Stays(r) \/ Proceeds(r) \/ Ends(r)
  <2>1. CASE q = r
    BY <1>6, <2>1 DEF Execute, Finish, Goto, Proceeds, Ends, Tells
  <2>2. CASE q # r
    BY <1>6, <2>2 DEF Execute, Finish, Goto, Stays
  <2> QED
    BY <2>1, <2>2
<1>7. ASSUME NEW q \in Request, LoseClaim(q) \/ Fail(q) \/ Crash(q)
      PROVE  Stays(r) \/ Proceeds(r)
  BY <1>7 DEF LoseClaim, Fail, Crash, Goto, Stays, Proceeds
<1>8. ASSUME NEW q \in Request, Release(q)
      PROVE  Stays(r) \/ Ends(r)
  BY <1>8 DEF Release, Finish, Goto, Stays, Ends, Tells
<1>9. CASE Tick \/ UNCHANGED vars
  BY <1>9 DEF Tick, localVars, vars, Stays
<1> QED
  BY <1>1, <1>2, <1>3, <1>4, <1>5, <1>6, <1>7, <1>8, <1>9 DEF Next, Run

Same == record' = record /\ executions' = executions
Forgets == record' = NoRow /\ record.until <= now /\ executions' = executions
Pending == /\ ~record.completed /\ ~record'.completed /\ executions' = executions
           /\ \/ record' = NoRow
              \/ \E r \in Request : /\ pc[r] # "idle"
                                    /\ record'.id = r /\ record'.intent = asked[r]

LEMMA RecordStep ==
    ASSUME TypeOK, ClocksAgree, [Next]_vars
    PROVE  \/ now' = now + 1 /\ Same
           \/ now' = now /\ (Same \/ Forgets \/ Pending \/ \E r \in Request : Execute(r))
<1> USE NobodyAssumption DEF Same
<1>1. ASSUME NEW r \in Request, NEW intent \in Intent, Begin(r, intent)
      PROVE  now' = now /\ Same
  BY <1>1 DEF Begin
<1>2. ASSUME NEW r \in Request, Purge(r)
      PROVE  now' = now /\ (Same \/ Forgets)
  <2>1. CASE Expired(r)
    <3>1. record.until <= readAt[r] /\ readAt[r] <= now
      BY <2>1 DEF Expired, ClocksAgree
    <3>2. record.until \in Nat /\ readAt[r] \in Nat /\ now \in Nat
      BY <2>1, RowOrNone, ClockAssumption DEF Expired, Row, Deadline, Time, TypeOK
    <3> QED
      BY <1>2, <2>1, <3>1, <3>2 DEF Purge, Forgets
  <2>2. CASE ~Expired(r)
    BY <1>2, <2>2 DEF Purge
  <2> QED
    BY <2>1, <2>2
<1>3. ASSUME NEW r \in Request, Insert(r)
      PROVE  now' = now /\ (Same \/ Pending)
  BY <1>3, RowOrNone DEF Insert, Pending, NoRow
<1>4. ASSUME NEW r \in Request, Look(r)
      PROVE  now' = now /\ Same
  BY <1>4 DEF Look
<1>5. ASSUME NEW r \in Request, Recover(r)
      PROVE  now' = now /\ (Same \/ Pending)
  <2>1. CASE StillStale(r)
    <3>1. /\ ~RecoveredClaim(r).completed
          /\ RecoveredClaim(r).id = r /\ RecoveredClaim(r).intent = asked[r]
      BY <2>1, RowOrNone DEF StillStale, RecoveredClaim, Row
    <3> QED
      BY <1>5, <2>1, <3>1 DEF Recover, StillStale, Pending
  <2>2. CASE ~StillStale(r)
    BY <1>5, <2>2 DEF Recover
  <2> QED
    BY <2>1, <2>2
<1>6. ASSUME NEW r \in Request, Execute(r)
      PROVE  now' = now
  BY <1>6 DEF Execute
<1>7. ASSUME NEW r \in Request, LoseClaim(r) \/ Fail(r) \/ Crash(r)
      PROVE  now' = now /\ Same
  BY <1>7 DEF LoseClaim, Fail, Crash
<1>8. ASSUME NEW r \in Request, Release(r)
      PROVE  now' = now /\ (Same \/ Pending)
  BY <1>8 DEF Release, MayRelease, NoRow, Pending
<1>9. CASE Tick
  BY <1>9 DEF Tick
<1>10. CASE UNCHANGED vars
  BY <1>10 DEF vars
<1> QED
  BY <1>1, <1>2, <1>3, <1>4, <1>5, <1>6, <1>7, <1>8, <1>9, <1>10 DEF Next, Run

-----------------------------------------------------------------------------
(* The invariant is kept *)

LEMMA ExecuteEffect ==
    ASSUME IInv, NEW r \in Request, Execute(r)
    PROVE  /\ ~record.completed /\ record.id = r /\ record.intent = asked[r]
           /\ record' = [record EXCEPT !.completed = TRUE] /\ record \in Row
           /\ pc[r] = "claimed" /\ pc'[r] # "claimed"
           /\ now' = now /\ asked' = asked
           /\ executions' = executions \cup
                  {[by |-> r, intent |-> asked[r], at |-> now, until |-> record.until]}
<1>1. pc'[r] # "claimed"
  BY DEF Execute, Finish, Goto, IInv, TypeOK
<1> QED
  BY <1>1, RowOrNone DEF Execute, OwnsClaim, IInv, OwnerAskedForIt

LEMMA ClocksAgreeStep ==
    ASSUME IInv, [Next]_vars
    PROVE  ClocksAgree'
<1>1. now \in Nat /\ now' \in Nat /\ now <= now'
  BY RecordStep DEF IInv, TypeOK, Time
<1>2. ASSUME NEW r \in Request
      PROVE  readAt'[r] <= now'
  <2>1. ASSUME NEW q \in Request, NextAttempt(q)
        PROVE  readAt'[r] \in {readAt[r], now}
    BY <2>1 DEF NextAttempt, IInv, TypeOK
  <2>2. ASSUME NEW q \in Request, NEW intent \in Intent, Begin(q, intent)
        PROVE  readAt'[r] \in {readAt[r], now}
    BY <2>2 DEF Begin, IInv, TypeOK
  <2>3. ASSUME NEW q \in Request, Look(q) \/ Recover(q)
        PROVE  readAt'[r] \in {readAt[r], now}
    BY <2>1, <2>3 DEF Look, Recover
  <2>4. ASSUME readAt' = readAt
        PROVE  readAt'[r] \in {readAt[r], now}
    BY <2>4
  <2>5. readAt'[r] \in {readAt[r], now}
    BY <2>2, <2>3, <2>4
    DEF Next, Run, Purge, Insert, Execute, LoseClaim, Fail, Release, Crash, Tick, localVars, vars
  <2>6. readAt[r] <= now /\ readAt[r] \in Nat
    BY DEF IInv, ClocksAgree, TypeOK, Time
  <2>7. CASE readAt'[r] = readAt[r]
    BY <1>1, <2>6, <2>7
  <2>8. CASE readAt'[r] = now
    BY <1>1, <2>8
  <2> QED
    BY <2>5, <2>7, <2>8
<1>3. ASSUME NEW e \in executions'
      PROVE  e.at <= now'
  <2>2. ASSUME NEW r \in Request, Execute(r)
        PROVE  e \in executions \/ e.at = now
    BY <1>3, <2>2, ExecuteEffect
  <2>3. e \in executions \/ e.at = now
    BY <1>3, <2>2, RecordStep DEF IInv, Same, Forgets, Pending
  <2>4. CASE e \in executions
    <3>1. e.at <= now /\ e.at \in Nat
      BY <2>4 DEF IInv, ClocksAgree, TypeOK, Execution, Time
    <3> QED
      BY <1>1, <3>1
  <2>5. CASE e.at = now
    BY <1>1, <2>5
  <2> QED
    BY <2>3, <2>4, <2>5
<1> QED
  BY <1>2, <1>3 DEF ClocksAgree

LEMMA HandlersProceedStep ==
    ASSUME IInv, [Next]_vars
    PROVE  HandlersProceed'
<1> SUFFICES ASSUME NEW r \in Request
             PROVE  /\ pc'[r] = "idle" <=> asked'[r] = Nobody
                    /\ pc'[r] # "done" => answer'[r].kind = "NONE"
  BY DEF HandlersProceed
<1> QED
  BY HandlerStep, NobodyAssumption
  DEF IInv, HandlersProceed, Stays, Begins, Proceeds, Ends, Running

\* No request changes its mind.
LEMMA AskedOnce ==
    ASSUME IInv, [Next]_vars, NEW r \in Request, pc[r] # "idle"
    PROVE  asked'[r] = asked[r]
BY HandlerStep DEF IInv, Stays, Begins, Proceeds, Ends

LEMMA OwnerAskedForItStep ==
    ASSUME IInv, [Next]_vars
    PROVE  OwnerAskedForIt'
<1>1. CASE Same \/ \E r \in Request : Execute(r)
  <2>1. record'.id = record.id /\ record'.intent = record.intent
    BY <1>1, ExecuteEffect DEF Same, Row
  <2>2. ASSUME Exists
        PROVE  record.id \in Request /\ pc[record.id] # "idle"
    BY <2>2, RowOrNone, NobodyAssumption DEF Row, IInv, OwnerAskedForIt, HandlersProceed
  <2>3. ASSUME Exists
        PROVE  asked'[record.id] = asked[record.id]
    BY <2>2, <2>3, AskedOnce
  <2> QED
    BY <2>1, <2>3 DEF IInv, OwnerAskedForIt, Exists
<1>2. CASE record' = NoRow
  BY <1>2 DEF OwnerAskedForIt, Exists, NoRow
<1>3. ASSUME NEW r \in Request, pc[r] # "idle", record'.id = r, record'.intent = asked[r]
      PROVE  OwnerAskedForIt'
  BY <1>3, AskedOnce, NobodyAssumption DEF OwnerAskedForIt, Exists, IInv, HandlersProceed, TypeOK
<1> QED
  BY <1>1, <1>2, <1>3, RecordStep DEF IInv, Forgets, Pending

LEMMA CompletedIsExecutedStep ==
    ASSUME IInv, [Next]_vars
    PROVE  CompletedIsExecuted'
<1>1. CASE Same \/ Forgets \/ Pending
  BY <1>1 DEF IInv, CompletedIsExecuted, Same, Forgets, Pending, NoRow
<1>2. ASSUME NEW r \in Request, Execute(r)
      PROVE  CompletedIsExecuted'
  <2>1. record'.id = r /\ record'.intent = asked[r]
    BY <1>2, ExecuteEffect DEF Row
  <2> DEFINE new == [by |-> r, intent |-> asked[r], at |-> now, until |-> record.until]
  <2>2. new \in executions' /\ new.by = r /\ new.intent = asked[r]
    BY <1>2, ExecuteEffect
  <2> QED
    BY <2>1, <2>2 DEF CompletedIsExecuted
<1> QED
  BY <1>1, <1>2, RecordStep DEF IInv

LEMMA ExecutedHasLeftStep ==
    ASSUME IInv, [Next]_vars
    PROVE  ExecutedHasLeft'
<1>1. ASSUME NEW r \in Request, pc[r] \in {"release", "done", "crashed"}
      PROVE  pc'[r] \in {"release", "done", "crashed"}
  BY <1>1 DEF Next, Run, Begin, Purge, Insert, Look, Recover, NextAttempt, Execute, LoseClaim, Fail, Release, Crash,
           Tick, localVars, vars, IInv, TypeOK, Goto, Finish
<1>2. CASE executions' = executions
  BY <1>1, <1>2 DEF IInv, ExecutedHasLeft, TypeOK, Execution
<1>3. ASSUME NEW r \in Request, Execute(r)
      PROVE  ExecutedHasLeft'
  <2>1. pc'[r] \in {"release", "done"}
    BY <1>3 DEF Execute, Finish, Goto, IInv, TypeOK
  <2>2. \A e \in executions : e.by # r
    BY <1>3 DEF Execute, IInv, ExecutedHasLeft
  <2> QED
    BY <1>1, <1>3, <2>1, <2>2, ExecuteEffect DEF IInv, ExecutedHasLeft, TypeOK, Execution
<1> QED
  BY <1>2, <1>3, RecordStep DEF IInv, Same, Forgets, Pending

LEMMA ExecutionIsOnRecordStep ==
    ASSUME IInv, [Next]_vars
    PROVE  ExecutionIsOnRecord'
<1> SUFFICES ASSUME NEW e \in executions', now' < e.until
             PROVE  /\ record'.id = e.by /\ record'.completed
                    /\ record'.intent = e.intent /\ record'.until = e.until
  BY DEF ExecutionIsOnRecord
<1>1. now \in Nat /\ now' \in Nat /\ now <= now'
  BY RecordStep DEF IInv, TypeOK, Time
<1>2. CASE e \in executions
  <2>1. /\ record.id = e.by /\ record.completed
        /\ record.intent = e.intent /\ record.until = e.until /\ now < e.until
    BY <1>1, <1>2, ClockAssumption DEF IInv, ExecutionIsOnRecord, TypeOK, Execution, Deadline
  <2>2. ~Forgets /\ ~Pending /\ \A r \in Request : ~Execute(r)
    BY <1>1, <1>2, <2>1, ExecuteEffect, ClockAssumption DEF Forgets, Pending, IInv, TypeOK, Execution, Deadline
  <2> QED
    BY <2>1, <2>2, RecordStep DEF Same, IInv
<1>3. CASE e \notin executions
  <2>1. PICK r \in Request : Execute(r)
    BY <1>3, RecordStep DEF Same, Forgets, Pending, IInv
  <2>2. e = [by |-> r, intent |-> asked[r], at |-> now, until |-> record.until]
    BY <1>3, <2>1, ExecuteEffect
  <2> QED
    BY <2>1, <2>2, ExecuteEffect DEF Row
<1> QED
  BY <1>2, <1>3

LEMMA AtMostOnceStep ==
    ASSUME IInv, [Next]_vars
    PROVE  AtMostOncePerRetention'
<1>1. CASE executions' = executions
  BY <1>1 DEF IInv, AtMostOncePerRetention
<1>2. ASSUME NEW r \in Request, Execute(r)
      PROVE  AtMostOncePerRetention'
  <2>1. \A e \in executions : e.until <= now
    <3> SUFFICES ASSUME NEW e \in executions PROVE ~(now < e.until)
      BY ClockAssumption DEF IInv, TypeOK, Execution, Time, Deadline
    <3> QED
      BY <1>2, ExecuteEffect DEF IInv, ExecutionIsOnRecord
  <2> QED
    BY <1>2, <2>1, ExecuteEffect DEF IInv, AtMostOncePerRetention
<1> QED
  BY <1>1, <1>2, RecordStep DEF IInv, Same, Forgets, Pending

LEMMA AnswersAreTrueStep ==
    ASSUME IInv, [Next]_vars
    PROVE  AnswersAreTrue'
<1> SUFFICES ASSUME NEW r \in Request, answer'[r].kind \in {"EXECUTED", "REPLAYED"}
             PROVE  \E e \in executions' : e.by = answer'[r].of /\ e.intent = asked'[r]
  BY DEF AnswersAreTrue
<1>1. executions \subseteq executions'
  BY RecordStep, ExecuteEffect DEF IInv, Same, Forgets, Pending
<1>2. CASE answer'[r] = answer[r] /\ asked'[r] = asked[r]
  BY <1>1, <1>2 DEF IInv, AnswersAreTrue
<1>3. CASE Begins(r)
  BY <1>3 DEF Begins, IInv, HandlersProceed
<1>4. CASE Ends(r)
  <2>1. CASE record.completed /\ record.intent = asked[r] /\ answer'[r] = Reply("REPLAYED", record.id)
    <3>1. PICK e \in executions : e.by = record.id /\ e.intent = record.intent
      BY <2>1 DEF IInv, CompletedIsExecuted
    <3>2. answer'[r].of = record.id /\ asked'[r] = asked[r]
      BY <1>4, <2>1 DEF Reply, Ends
    <3> QED
      BY <1>1, <2>1, <3>1, <3>2
  <2>2. CASE Execute(r) /\ answer'[r] = Reply("EXECUTED", r)
    <3> DEFINE new == [by |-> r, intent |-> asked[r], at |-> now, until |-> record.until]
    <3>1. new \in executions' /\ new.by = r /\ new.intent = asked'[r]
      BY <2>2, ExecuteEffect
    <3>2. answer'[r].of = r
      BY <2>2 DEF Reply
    <3> QED
      BY <3>1, <3>2
  <2> QED
    BY <1>4, <2>1, <2>2 DEF Ends, Tells, Reply
<1> QED
  BY <1>2, <1>3, <1>4, HandlerStep DEF IInv, Stays, Proceeds

LEMMA Invariance == Spec => []IInv
<1>1. Init => IInv
  BY ClockAssumption, NobodyAssumption
  DEF Init, IInv, TypeOK, ClocksAgree, HandlersProceed, OwnerAskedForIt, CompletedIsExecuted, ExecutedHasLeft,
      ExecutionIsOnRecord, AtMostOncePerRetention, AnswersAreTrue, Exists, NoRow, Reply, Answer, Kind,
      Label, Time, Deadline
<1>2. IInv /\ [Next]_vars => IInv'
  BY TypeStep, ClocksAgreeStep, HandlersProceedStep, OwnerAskedForItStep, CompletedIsExecutedStep,
     ExecutedHasLeftStep, ExecutionIsOnRecordStep, AtMostOnceStep, AnswersAreTrueStep DEF IInv
<1> QED
  BY <1>1, <1>2, PTL DEF Spec

(***************************************************************************)
(* The committed command stays on record for its retention and is not run  *)
(* again meanwhile: claimIdempotencyRecord, the row lock of the protected  *)
(* transaction and releaseIdempotencyClaim together, whoever crashes.      *)
(***************************************************************************)
THEOREM KeyExecutesOnceHolds == Spec => []KeyExecutesOnce
<1>1. IInv => KeyExecutesOnce
  BY DEF IInv, KeyExecutesOnce
<1> QED
  BY <1>1, Invariance, PTL

(***************************************************************************)
(* A caller that is told EXECUTED or REPLAYED is told of a command that    *)
(* was committed for the intent it asked for.                              *)
(***************************************************************************)
THEOREM AnswersAreTrueHolds == Spec => []AnswersAreTrue
<1>1. IInv => AnswersAreTrue
  BY DEF IInv
<1> QED
  BY <1>1, Invariance, PTL

-----------------------------------------------------------------------------
(* The protocol implements IdempotentCommand *)

LEMMA ResultOf ==
    ASSUME TypeOK
    PROVE  /\ record.completed => /\ Command!Kept /\ result.until = record.until
                                  /\ result.by = record.id /\ result.intent = record.intent
           /\ ~record.completed => result = Command!NoResult
BY RowOrNone DEF result, Command!Kept, Command!NoResult, Exists

LEMMA Refused ==
    ASSUME NEW r \in Request, NEW kind \in {"IN_PROGRESS", "HASH_MISMATCH", "ERROR"},
           Finish(r, kind, Nobody), result' = result, UNCHANGED <<asked, now>>
    PROVE  Command!Next
BY DEF Finish, Reply, Command!Next, Command!Refuse, Command!Told

LEMMA StepsImplement ==
    ASSUME IInv, [Next]_vars
    PROVE  [Command!Next]_(Command!vars)
<1> USE DEF Command!vars
<1>0. TypeOK
  BY DEF IInv
<1>1. ASSUME NEW r \in Request, NEW intent \in Intent, Begin(r, intent)
      PROVE  Command!Ask(r, intent)
  BY <1>1 DEF Begin, Command!Ask, result, IInv, HandlersProceed
<1>2. ASSUME NEW r \in Request, Purge(r)
      PROVE  Command!Forget \/ UNCHANGED Command!vars
  <2>1. UNCHANGED <<asked, answer, now>>
    BY <1>2 DEF Purge
  <2>2. CASE ~Expired(r)
    BY <1>2, <2>1, <2>2 DEF Purge, result
  <2>3. CASE Expired(r)
    <3>1. record' = NoRow /\ result' = Command!NoResult
      BY <1>2, <2>3 DEF Purge, result, NoRow, Command!NoResult
    <3>2. CASE ~record.completed
      BY <1>0, <2>1, <3>1, <3>2, ResultOf
    <3>3. CASE record.completed
      <4>1. record.until <= readAt[r] /\ readAt[r] <= now
        BY <2>3 DEF Expired, IInv, ClocksAgree
      <4>2. record.until \in Nat /\ readAt[r] \in Nat /\ now \in Nat
        BY <1>0, <2>3, RowOrNone, ClockAssumption DEF Expired, Row, Deadline, Time, TypeOK
      <4>3. record.until <= now
        BY <4>1, <4>2
      <4> QED
        BY <1>0, <2>1, <3>1, <3>3, <4>3, ResultOf DEF Command!Forget
    <3> QED
      BY <3>2, <3>3
  <2> QED
    BY <2>2, <2>3
<1>3. ASSUME NEW r \in Request, Insert(r)
      PROVE  UNCHANGED Command!vars
  BY <1>0, <1>3, RowOrNone DEF Insert, result
<1>4. ASSUME NEW r \in Request, Look(r)
      PROVE  [Command!Next]_(Command!vars)
  <2>1. result' = result /\ UNCHANGED <<asked, now>>
    BY <1>4 DEF Look, result
  <2>2. CASE Exists /\ SameIntent(r) /\ record.completed /\ Finish(r, "REPLAYED", record.id)
    <3>1. Command!Replay(r)
      BY <1>0, <2>1, <2>2, ResultOf DEF Command!Replay, Command!Told, Finish, Reply, SameIntent
    <3> QED
      BY <3>1 DEF Command!Next
  <2>3. CASE \E kind \in {"IN_PROGRESS", "HASH_MISMATCH"} : Finish(r, kind, Nobody)
    BY <2>1, <2>3, Refused
  <2>4. CASE UNCHANGED answer
    BY <2>1, <2>4
  <2> QED
    BY <1>4, <2>2, <2>3, <2>4 DEF Look, NextAttempt
<1>5. ASSUME NEW r \in Request, Recover(r)
      PROVE  [Command!Next]_(Command!vars)
  <2>1. CASE StillStale(r)
    <3>1. ~record.completed /\ ~RecoveredClaim(r).completed
      BY <1>0, <2>1, RowOrNone DEF StillStale, RecoveredClaim, Row
    <3> QED
      BY <1>5, <2>1, <3>1 DEF Recover, result
  <2>2. CASE ~StillStale(r)
    <3>1. result' = result /\ UNCHANGED <<asked, now>>
      BY <1>5, <2>2 DEF Recover, result
    <3> QED
      BY <1>5, <2>2, <3>1, Refused DEF Recover, NextAttempt
  <2> QED
    BY <2>1, <2>2
<1>6. ASSUME NEW r \in Request, Execute(r)
      PROVE  Command!Execute(r)
  <2>1. ~Command!Kept
    BY <1>0, <1>6, ResultOf, ExecuteEffect DEF Command!Kept
  <2>2. asked[r] # Nobody
    BY <1>6, ExecuteEffect DEF IInv, HandlersProceed
  <2>3. record.until \in Nat
    BY <1>6, ExecuteEffect, ClockAssumption DEF Row, Deadline
  <2>4. result' = [by |-> r, intent |-> asked[r], until |-> record.until]
    BY <1>6, ExecuteEffect DEF result, Row
  <2>5. Command!Told(r, "EXECUTED", r) \/ UNCHANGED answer
    BY <1>6 DEF Execute, Finish, Reply, Command!Told
  <2> QED
    BY <1>6, <2>1, <2>2, <2>3, <2>4, <2>5, ExecuteEffect DEF Command!Execute
<1>7. ASSUME NEW r \in Request, LoseClaim(r) \/ Fail(r) \/ Crash(r)
      PROVE  UNCHANGED Command!vars
  BY <1>7 DEF LoseClaim, Fail, Crash, result
<1>8. ASSUME NEW r \in Request, Release(r)
      PROVE  Command!Next
  <2>1. result' = result
    BY <1>8 DEF Release, MayRelease, result, NoRow
  <2> QED
    BY <1>8, <2>1, Refused DEF Release
<1>9. CASE Tick
  BY <1>9 DEF Tick, localVars, result, Command!Next, Command!Tick
<1>10. CASE UNCHANGED vars
  BY <1>10 DEF vars, result
<1> QED
  BY <1>1, <1>2, <1>3, <1>4, <1>5, <1>6, <1>7, <1>8, <1>9, <1>10 DEF Next, Run, Command!Next

(***************************************************************************)
(* Every statement the handlers of a key run, and every crash, is a step   *)
(* of the promised command or invisible to its callers.                    *)
(***************************************************************************)
THEOREM Implementation == Spec => ImplementsCommand
<1>1. Init => Command!Init
  BY DEF Init, Command!Init, Command!NoResult, result, NoRow, Reply
<1> QED
  BY <1>1, StepsImplement, Invariance, PTL DEF Spec, ImplementsCommand, Command!Spec
=============================================================================
