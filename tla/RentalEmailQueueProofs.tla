----------------------- MODULE RentalEmailQueueProofs -----------------------
(***************************************************************************)
(* Theorems about the queue of e-mails, for any number of e-mails, workers *)
(* and attempts, any renderings and any durations of which the provider's  *)
(* window covers the code's.                                               *)
(***************************************************************************)
EXTENDS RentalEmailQueue, Integers, TLAPS

Known(e) == key[e] # NoKey
At(w) == worker[w].email

\* Columns and fields by themselves.
Logs == [status : Status, lease : 0 .. ClaimTime, attempts : Nat, age : 0 .. RetryWindow,
         wait : Int, payload : Nat]
Claims == [step : {"idle", "claimed", "sending", "answered"}, email : Emails \cup {0}, attempt : Nat,
           payload : Nat, stalled : Nat, outcome : {"none", "accepted", "retryable", "permanent"}]
RestOK == /\ late \subseteq Emails \X (Nat \ {0})
          /\ mailed \in [Emails -> Nat] /\ key \in [Emails -> 0 .. NoKey] /\ payload \in [Emails -> Nat]
          /\ settings \in Nat \ {0}
Types == row \in [Emails -> Logs] /\ worker \in [Workers -> Claims] /\ RestOK

\* Rows through their life.
Rows == \A e \in Emails :
          /\ row[e].status = "NONE" => row[e] = NoRow
          /\ row[e].status = "PENDING" => ~Started(e)
          /\ row[e].status \in Terminal => row[e].lease = 0
\* A worker's e-mail has been claimed, each claim by one worker.
Busy == \A w \in Workers :
          /\ worker[w].step # "idle" => At(w) \in Emails /\ worker[w].attempt \in 1 .. row[At(w)].attempts
          /\ worker[w].step = "claimed" => worker[w].stalled = 0
          /\ worker[w].step = "idle" => worker[w] = Idle
Alone == \A v, w \in Workers :
           v # w /\ worker[v].step # "idle" /\ worker[w].step # "idle" /\ At(v) = At(w) =>
             worker[v].attempt # worker[w].attempt
Begun == /\ \A m \in late : Started(m[1])
         /\ \A e \in Emails : Known(e) \/ payload[e] # 0 => Started(e)
Ordered == \A p, e \in Emails : OrderOf[p] = OrderOf[e] /\ p < e =>
             /\ row[e].status # "NONE" => row[p].status # "NONE"
             /\ Started(e) => row[p].status \in Terminal

\* How old the provider's key can be.
Young == \A e \in Emails : Known(e) =>
           /\ row[e].age < RetryWindow => key[e] <= row[e].age
           /\ row[e].lease > 0 => key[e] + row[e].lease <= RetryWindow + ClaimTime
InTime == /\ \A w \in Workers : worker[w].step = "sending" =>
               /\ worker[w].stalled <= Stall
               /\ Known(At(w)) => key[At(w)] < RetryWindow + ClaimTime + worker[w].stalled
          /\ \A m \in late : Known(m[1]) => key[m[1]] < RetryWindow + ClaimTime + Stall
Once == \A e \in Emails : mailed[e] = IF Known(e) THEN 1 ELSE 0

\* One payload to an e-mail.
Same == /\ \A w \in Workers :
             /\ worker[w].step = "claimed" /\ (Owner(w) \/ worker[w].payload # 0) =>
                  worker[w].payload = row[At(w)].payload
             /\ worker[w].step = "sending" =>
                  worker[w].payload # 0 /\ worker[w].payload = row[At(w)].payload
        /\ \A m \in late : m[2] # 0 /\ m[2] = row[m[1]].payload
        /\ \A e \in Emails : payload[e] # 0 => payload[e] = row[e].payload
        /\ clash = {}
Accepted == \A w \in Workers : worker[w].step = "answered" /\ worker[w].outcome = "accepted" => Known(At(w))

IInv == /\ Types /\ Rows /\ Busy /\ Alone /\ Begun /\ Ordered
        /\ Young /\ InTime /\ Once /\ Same /\ Accepted /\ SentIsTrue

-----------------------------------------------------------------------------
(* What a step does to the rows *)

\* A row only goes forward.
Forward(r, s) ==
  /\ s \in Logs
  /\ s.attempts >= r.attempts
  /\ r.status # "NONE" => s.status # "NONE"
  /\ r.status \in Terminal => s = [r EXCEPT !.wait = s.wait, !.age = s.age]
  /\ s.status = "NONE" => s = NoRow
  /\ s.status = "PENDING" => s.attempts = 0
  /\ s.status \in Terminal => s.lease = 0
  /\ r.payload # 0 => s.payload = r.payload

LEMMA RowFacts ==
    ASSUME row \in [Emails -> Logs], Rows, NEW e \in Emails
    PROVE  /\ row[e] \in Logs
           /\ row[e].status = "NONE" => row[e] = NoRow
           /\ row[e].status = "PENDING" => row[e].attempts = 0
           /\ row[e].status \in Terminal => row[e].lease = 0
<1>1. row[e] \in Logs
  OBVIOUS
<1> QED BY <1>1 DEF Rows, Started, Logs

LEMMA StillForward ==
    ASSUME row \in [Emails -> Logs], Rows, NEW e \in Emails
    PROVE  Forward(row[e], row[e])
<1>1. row[e] \in Logs
  OBVIOUS
<1>2. row[e] = [row[e] EXCEPT !.wait = row[e].wait, !.age = row[e].age]
  BY <1>1 DEF Logs
<1>3. row[e].attempts >= row[e].attempts
  BY <1>1 DEF Logs
<1> QED BY <1>1, <1>2, <1>3, RowFacts DEF Forward

\* The sweep gives up the rows it finds abandoned.
LEMMA SweepRow ==
    ASSUME WindowAssumption, row \in [Emails -> Logs], NEW e \in Emails
    PROVE  /\ Swept[e] \in Logs
           /\ Swept[e].attempts = row[e].attempts /\ Swept[e].age = row[e].age
           /\ Swept[e].payload = row[e].payload
           /\ Swept[e] = row[e] \/ (/\ row[e].status \in {"PROCESSING", "RETRY"}
                                    /\ Swept[e].status = "UNKNOWN" /\ Swept[e].lease = 0)
           /\ Swept[e].status \in {"PROCESSING", "RETRY"} => Swept[e].age < RetryWindow
<1> USE DEF Logs
<1>0. 0 \in 0 .. ClaimTime /\ "UNKNOWN" \in Status /\ RetryWindow \in Nat
  BY DEF WindowAssumption, Status
<1>1. row[e] \in Logs
  OBVIOUS
<1>2. CASE Abandoned(row[e])
  <2>1. Swept[e] = [row[e] EXCEPT !.status = "UNKNOWN", !.lease = 0]
    BY <1>2 DEF Swept
  <2>2. Swept[e] \in Logs
    BY <1>0, <1>1, <2>1
  <2> QED BY <1>1, <1>2, <2>1, <2>2 DEF Abandoned
<1>3. CASE ~Abandoned(row[e])
  <2>1. Swept[e] = row[e]
    BY <1>3 DEF Swept
  <2> QED BY <1>0, <1>1, <1>3, <2>1 DEF Abandoned
<1> QED BY <1>2, <1>3

LEMMA SweepForward ==
    ASSUME WindowAssumption, row \in [Emails -> Logs], Rows, NEW e \in Emails
    PROVE  Forward(row[e], Swept[e])
<1>1. CASE Swept[e] = row[e]
  BY <1>1, StillForward
<1>2. CASE Swept[e] # row[e]
  <2>1. /\ row[e] \in Logs /\ Swept[e] \in Logs
        /\ Swept[e].attempts = row[e].attempts /\ Swept[e].payload = row[e].payload
        /\ row[e].status \in {"PROCESSING", "RETRY"} /\ Swept[e].status = "UNKNOWN" /\ Swept[e].lease = 0
    BY <1>2, SweepRow
  <2>2. Swept[e].attempts >= row[e].attempts
    BY <2>1 DEF Logs
  <2> QED BY <2>1, <2>2 DEF Forward, Terminal
<1> QED BY <1>1, <1>2

\* The row a step of a worker or of a command is about.
LEMMA RowOfStep ==
    ASSUME WindowAssumption, row \in [Emails -> Logs], worker \in [Workers -> Claims], Busy
    PROVE  /\ \A e \in Emails : Enqueue(e) =>
                row[e] = NoRow /\ row' = [row EXCEPT ![e] = [row[e] EXCEPT !.status = "PENDING"]]
           /\ \A w \in Workers, e \in Emails : Claim(w, e) =>
                row' = [Swept EXCEPT ![e] = [status |-> "PROCESSING", lease |-> ClaimTime,
                          attempts |-> Swept[e].attempts + 1, age |-> Swept[e].age,
                          wait |-> Swept[e].wait, payload |-> Swept[e].payload]]
           /\ \A w \in Workers : Prepare(w) =>
                \/ row' = row
                \/ /\ OwnerInTime(w) /\ At(w) \in Emails
                   /\ row' = [row EXCEPT ![At(w)] = [row[At(w)] EXCEPT !.payload = Rendered(w)]]
           /\ \A w \in Workers : RecordSent(w) =>
                \/ row' = row
                \/ /\ OwnerInTime(w) /\ At(w) \in Emails
                   /\ row' = [row EXCEPT ![At(w)] = [[row[At(w)] EXCEPT !.status = "SENT"] EXCEPT !.lease = 0]]
           /\ \A w \in Workers : RecordFailed(w) =>
                \/ row' = row
                \/ /\ Owner(w) /\ At(w) \in Emails
                   /\ \E n \in Int : row' = [row EXCEPT ![At(w)] =
                        [[[row[At(w)] EXCEPT !.status = StatusAfterFailure(w)] EXCEPT !.lease = 0]
                            EXCEPT !.wait = n]]
<1>1. ASSUME NEW e \in Emails, Enqueue(e)
      PROVE  row[e] = NoRow /\ row' = [row EXCEPT ![e] = [row[e] EXCEPT !.status = "PENDING"]]
  BY <1>1 DEF Enqueue
<1>2. ASSUME NEW w \in Workers, NEW e \in Emails, Claim(w, e)
      PROVE  row' = [Swept EXCEPT ![e] = [status |-> "PROCESSING", lease |-> ClaimTime,
                          attempts |-> Swept[e].attempts + 1, age |-> Swept[e].age,
                          wait |-> Swept[e].wait, payload |-> Swept[e].payload]]
  <2>1. Swept[e] \in Logs
    BY SweepRow
  <2> DEFINE r == [Swept[e] EXCEPT !.status = "PROCESSING"]
  <2> DEFINE q == [r EXCEPT !.lease = ClaimTime]
  <2>2. row' = [Swept EXCEPT ![e] = [q EXCEPT !.attempts = q.attempts + 1]]
    BY <1>2 DEF Claim
  <2>3. r = [status |-> "PROCESSING", lease |-> Swept[e].lease, attempts |-> Swept[e].attempts,
             age |-> Swept[e].age, wait |-> Swept[e].wait, payload |-> Swept[e].payload]
    BY <2>1 DEF Logs
  <2> HIDE DEF r
  <2>4. q = [status |-> "PROCESSING", lease |-> ClaimTime, attempts |-> Swept[e].attempts,
             age |-> Swept[e].age, wait |-> Swept[e].wait, payload |-> Swept[e].payload]
    BY <2>3
  <2> HIDE DEF q
  <2>5. [q EXCEPT !.attempts = q.attempts + 1]
          = [status |-> "PROCESSING", lease |-> ClaimTime, attempts |-> Swept[e].attempts + 1,
             age |-> Swept[e].age, wait |-> Swept[e].wait, payload |-> Swept[e].payload]
    BY <2>4
  <2> QED BY <2>2, <2>5
<1>3. ASSUME NEW w \in Workers, worker[w].step # "idle" PROVE At(w) \in Emails /\ worker[w].attempt - 1 \in Nat
  <2>1. worker[w] \in Claims
    OBVIOUS
  <2> QED BY <1>3, <2>1 DEF Busy, Claims, At
<1>4. ASSUME NEW w \in Workers, Prepare(w), row' # row
      PROVE  /\ OwnerInTime(w) /\ At(w) \in Emails
             /\ row' = [row EXCEPT ![At(w)] = [row[At(w)] EXCEPT !.payload = Rendered(w)]]
  BY <1>3, <1>4 DEF Prepare, At
<1>5. ASSUME NEW w \in Workers, RecordSent(w), row' # row
      PROVE  /\ OwnerInTime(w) /\ At(w) \in Emails
             /\ row' = [row EXCEPT ![At(w)] = [[row[At(w)] EXCEPT !.status = "SENT"] EXCEPT !.lease = 0]]
  BY <1>3, <1>5 DEF RecordSent, At
<1>6. ASSUME NEW w \in Workers, RecordFailed(w), row' # row
      PROVE  /\ Owner(w) /\ At(w) \in Emails
             /\ \E n \in Int : row' = [row EXCEPT ![At(w)] =
                        [[[row[At(w)] EXCEPT !.status = StatusAfterFailure(w)] EXCEPT !.lease = 0]
                            EXCEPT !.wait = n]]
  <2>1. At(w) \in Emails /\ Backoff(worker[w].attempt) \in Int
    BY <1>3, <1>6 DEF RecordFailed, Backoff
  <2>2. row' = [row EXCEPT ![At(w)] =
                        [[[row[At(w)] EXCEPT !.status = StatusAfterFailure(w)] EXCEPT !.lease = 0]
                            EXCEPT !.wait = Backoff(worker[w].attempt)]]
    BY <1>6 DEF RecordFailed, At, OwnerForFailure
  <2> QED BY <1>6, <2>1, <2>2 DEF RecordFailed, OwnerForFailure
<1> QED BY <1>1, <1>2, <1>4, <1>5, <1>6

\* When time passes.
Aged(r, s) == /\ s \in Logs /\ s.status = r.status /\ s.attempts = r.attempts /\ s.payload = r.payload
              /\ s.lease = Sooner(r.lease) /\ s.wait = Sooner(r.wait)
              /\ s.age = IF r.attempts > 0 THEN More(r.age, RetryWindow) ELSE 0

LEMMA TickRow ==
    ASSUME WindowAssumption, row \in [Emails -> Logs], MailTick
    PROVE  row' \in [Emails -> Logs] /\ \A e \in Emails : Aged(row[e], row'[e])
<1>1. ASSUME NEW e \in Emails PROVE Aged(row[e], row'[e])
  <2>1. row[e] \in Logs
    OBVIOUS
  <2>2. row'[e] = [[[row[e] EXCEPT !.lease = Sooner(row[e].lease)] EXCEPT !.wait = Sooner(row[e].wait)]
                      EXCEPT !.age = IF row[e].attempts > 0 THEN More(row[e].age, RetryWindow) ELSE 0]
    BY <2>1 DEF MailTick, Started, Logs
  <2>3. RetryWindow \in Nat /\ ClaimTime \in Nat
    BY DEF WindowAssumption
  <2>4. /\ Sooner(row[e].lease) \in 0 .. ClaimTime /\ Sooner(row[e].wait) \in Int
        /\ (IF row[e].attempts > 0 THEN More(row[e].age, RetryWindow) ELSE 0) \in 0 .. RetryWindow
    BY <2>1, <2>3 DEF Sooner, More, Logs
  <2> HIDE DEF Sooner, More
  <2> QED BY <2>1, <2>2, <2>4 DEF Aged, Logs
<1>2. row' = [e \in Emails |-> row'[e]]
  BY DEF MailTick
<1> QED BY <1>1, <1>2 DEF Aged

LEMMA EveryRowForward ==
    ASSUME WindowAssumption, Types, Rows, Busy, Same, [MailNext]_mailVars
    PROVE  row' \in [Emails -> Logs] /\ \A e \in Emails : Forward(row[e], row'[e])
<1> DEFINE Goal == row' \in [Emails -> Logs] /\ \A e \in Emails : Forward(row[e], row'[e])
<1>0. /\ 0 \in 0 .. ClaimTime /\ ClaimTime \in 0 .. ClaimTime
      /\ {"PENDING", "PROCESSING", "SENT", "FAILED", "RETRY", "UNKNOWN"} \subseteq Status
  BY DEF WindowAssumption, Status
<1>t. /\ row \in [Emails -> Logs] /\ worker \in [Workers -> Claims] /\ RestOK
  BY DEF Types
<1>1. CASE row' = row
  BY <1>1, <1>t, StillForward
<1>2. ASSUME NEW e \in Emails, NEW s, row' = [row EXCEPT ![e] = s], Forward(row[e], s) PROVE Goal
  <2>1. s \in Logs
    BY <1>2 DEF Forward
  <2>2. \A x \in Emails : row'[x] = IF x = e THEN s ELSE row[x]
    BY <1>2, <1>t
  <2> QED BY <1>2, <1>t, <2>1, <2>2, StillForward
<1>3. CASE row' = Swept
  <2>1. Swept = [e \in Emails |-> Swept[e]]
    BY DEF Swept
  <2> QED BY <1>3, <1>t, <2>1, SweepForward, SweepRow
<1>4. ASSUME NEW e \in Emails, Enqueue(e) PROVE Goal
  <2> DEFINE s == [row[e] EXCEPT !.status = "PENDING"]
  <2>1. row[e] = NoRow /\ row' = [row EXCEPT ![e] = s]
    BY <1>4, <1>t, RowOfStep
  <2>2. row[e] \in Logs
    BY <1>t
  <2>3. s \in Logs /\ s.status = "PENDING" /\ s.attempts = row[e].attempts /\ s.payload = row[e].payload
    BY <1>0, <2>2 DEF Logs
  <2>4. row[e].status = "NONE" /\ row[e].attempts = 0
    BY <2>1 DEF NoRow
  <2> HIDE DEF s
  <2>5. Forward(row[e], s)
    BY <2>3, <2>4 DEF Forward, Terminal
  <2> QED BY <1>2, <2>1, <2>5
<1>5. ASSUME NEW w \in Workers, NEW e \in Emails, Claim(w, e) PROVE Goal
  <2> DEFINE s == [status |-> "PROCESSING", lease |-> ClaimTime, attempts |-> Swept[e].attempts + 1,
                   age |-> Swept[e].age, wait |-> Swept[e].wait, payload |-> Swept[e].payload]
  <2>1. row' = [Swept EXCEPT ![e] = s]
    BY <1>5, <1>t, RowOfStep
  <2>2. Swept[e] \in Logs /\ Swept[e].attempts = row[e].attempts /\ Swept[e].payload = row[e].payload
    BY <1>t, SweepRow
  <2>3. s \in Logs /\ s.status = "PROCESSING" /\ s.attempts = Swept[e].attempts + 1 /\ s.payload = row[e].payload
    BY <1>0, <2>2 DEF Logs
  <2>4. row[e].status \notin Terminal
    BY <1>5, <1>t, SweepRow DEF Claim, Claimable, Terminal
  <2> HIDE DEF s
  <2>5. s.attempts >= row[e].attempts
    BY <2>2, <2>3 DEF Logs
  <2>6. Forward(row[e], s)
    BY <2>3, <2>4, <2>5 DEF Forward, Terminal
  <2>7. Swept = [x \in Emails |-> Swept[x]]
    BY DEF Swept
  <2>8. \A x \in Emails : row'[x] = IF x = e THEN s ELSE Swept[x]
    BY <2>1, <2>7
  <2>9. row' = [x \in Emails |-> row'[x]]
    BY <2>1, <2>7
  <2> QED BY <2>3, <2>6, <2>8, <2>9, <1>t, SweepForward, SweepRow
<1>6. ASSUME NEW w \in Workers, Prepare(w) PROVE Goal
  <2> DEFINE e == At(w)
  <2> DEFINE s == [row[e] EXCEPT !.payload = Rendered(w)]
  <2>1. SUFFICES ASSUME row' # row PROVE Goal
    BY <1>1
  <2>2. OwnerInTime(w) /\ e \in Emails /\ row' = [row EXCEPT ![e] = s]
    BY <1>6, <1>t, <2>1, RowOfStep
  <2>3. row[e] \in Logs /\ row[e].status = "PROCESSING"
    BY <1>t, <2>2 DEF OwnerInTime, Owner, At
  <2>4. Rendered(w) \in Nat /\ (row[e].payload # 0 => Rendered(w) = row[e].payload)
    BY <1>6, <1>t, <2>2 DEF Prepare, Rendered, Same, OwnerInTime, Claims, At, RestOK
  <2> HIDE DEF e
  <2>5. s \in Logs /\ s.status = "PROCESSING" /\ s.attempts = row[e].attempts /\ s.payload = Rendered(w)
    BY <2>3, <2>4 DEF Logs
  <2>6. s.attempts >= row[e].attempts
    BY <2>5 DEF Logs
  <2> HIDE DEF s
  <2>7. Forward(row[e], s)
    BY <2>3, <2>4, <2>5, <2>6 DEF Forward, Terminal
  <2> QED BY <1>2, <2>2, <2>7
<1>7. ASSUME NEW w \in Workers, RecordSent(w) PROVE Goal
  <2> DEFINE e == At(w)
  <2> DEFINE s == [[row[e] EXCEPT !.status = "SENT"] EXCEPT !.lease = 0]
  <2>1. SUFFICES ASSUME row' # row PROVE Goal
    BY <1>1
  <2>2. OwnerInTime(w) /\ e \in Emails /\ row' = [row EXCEPT ![e] = s]
    BY <1>7, <1>t, <2>1, RowOfStep
  <2>3. row[e] \in Logs /\ row[e].status = "PROCESSING"
    BY <1>t, <2>2 DEF OwnerInTime, Owner, At
  <2> HIDE DEF e
  <2>5. /\ s \in Logs /\ s.status = "SENT" /\ s.attempts = row[e].attempts /\ s.payload = row[e].payload
        /\ s.lease = 0
    BY <1>0, <2>3 DEF Logs
  <2> HIDE DEF s
  <2>6. s.attempts >= row[e].attempts
    BY <2>3, <2>5 DEF Logs
  <2>7. Forward(row[e], s)
    BY <2>3, <2>5, <2>6 DEF Forward, Terminal
  <2> QED BY <1>2, <2>2, <2>7
<1>8. ASSUME NEW w \in Workers, RecordFailed(w) PROVE Goal
  <2> DEFINE e == At(w)
  <2> DEFINE s(n) == [[[row[e] EXCEPT !.status = StatusAfterFailure(w)] EXCEPT !.lease = 0] EXCEPT !.wait = n]
  <2>1. SUFFICES ASSUME row' # row PROVE Goal
    BY <1>1
  <2>2. PICK n \in Int : Owner(w) /\ e \in Emails /\ row' = [row EXCEPT ![e] = s(n)]
    BY <1>8, <1>t, <2>1, RowOfStep
  <2>3. row[e] \in Logs /\ row[e].status = "PROCESSING"
    BY <1>t, <2>2 DEF Owner, At
  <2>4. StatusAfterFailure(w) \in {"FAILED", "RETRY", "UNKNOWN"}
    BY DEF StatusAfterFailure
  <2> HIDE DEF e
  <2>5. /\ s(n) \in Logs /\ s(n).status = StatusAfterFailure(w) /\ s(n).attempts = row[e].attempts
        /\ s(n).payload = row[e].payload /\ s(n).lease = 0
    BY <1>0, <2>3, <2>4 DEF Logs
  <2> HIDE DEF s
  <2>6. s(n).attempts >= row[e].attempts
    BY <2>3, <2>5 DEF Logs
  <2>7. Forward(row[e], s(n))
    BY <2>3, <2>4, <2>5, <2>6 DEF Forward, Terminal
  <2> QED BY <1>2, <2>2, <2>7
<1>9. ASSUME MailTick PROVE Goal
  <2>1. row' \in [Emails -> Logs] /\ \A e \in Emails : Aged(row[e], row'[e])
    BY <1>9, <1>t, TickRow
  <2> SUFFICES ASSUME NEW e \in Emails PROVE Forward(row[e], row'[e])
    BY <2>1
  <2>2. /\ row[e] \in Logs /\ row'[e] \in Logs /\ Aged(row[e], row'[e])
        /\ row[e].status = "NONE" => row[e] = NoRow
        /\ row[e].status = "PENDING" => row[e].attempts = 0
        /\ row[e].status \in Terminal => row[e].lease = 0
    BY <1>t, <2>1, RowFacts
  <2>3. row[e].status \in Terminal => row'[e] = [row[e] EXCEPT !.wait = row'[e].wait, !.age = row'[e].age]
    BY <2>2 DEF Aged, Sooner, Logs
  <2>4. row[e].status = "NONE" => row'[e] = NoRow
    BY <2>2 DEF Aged, Sooner, Logs, NoRow
  <2>5. row'[e].attempts >= row[e].attempts
    BY <2>2 DEF Aged, Logs
  <2>6. row[e].lease = 0 => row'[e].lease = 0
    BY <2>2 DEF Aged, Sooner
  <2> QED BY <2>2, <2>3, <2>4, <2>5, <2>6 DEF Aged, Forward
<1>10. ASSUME UNCHANGED mailVars PROVE Goal
  BY <1>1, <1>10 DEF mailVars
<1>11. ASSUME NEW w \in Workers, PrepareFails(w) \/ SendAccepted(w) \/ SendRefused(w) \/ SendTimesOut(w) \/ Die(w)
       PROVE  Goal
  BY <1>1, <1>11 DEF PrepareFails, SendAccepted, SendRefused, SendTimesOut, Die
<1>12. ASSUME NEW w \in Workers, ClaimNothing(w) PROVE Goal
  BY <1>3, <1>12 DEF ClaimNothing
<1>13. ASSUME Deploy \/ \E m \in late : LateArrival(m) PROVE Goal
  BY <1>1, <1>13 DEF Deploy, LateArrival
<1> HIDE DEF Goal
<1>14. Goal
  BY <1>4, <1>5, <1>6, <1>7, <1>8, <1>9, <1>10, <1>11, <1>12, <1>13 DEF MailNext, WorkerStep
<1> QED BY <1>14 DEF Goal

-----------------------------------------------------------------------------
(* ... and to the workers *)

Answers(w) == PrepareFails(w) \/ SendAccepted(w) \/ SendRefused(w) \/ SendTimesOut(w)
Leaves(w) == RecordSent(w) \/ RecordFailed(w) \/ Die(w)
Takes(w) == (\E e \in Emails : Claim(w, e)) \/ WorkerStep(w) \/ Die(w)

LEMMA IdleClaim == Idle \in Claims
BY DEF Idle, Claims

LEMMA StepOfWorker ==
    ASSUME WindowAssumption, Types, Busy, NEW w \in Workers
    PROVE  /\ Takes(w) => /\ worker' \in [Workers -> Claims]
                          /\ \A v \in Workers : v # w => worker'[v] = worker[v]
           /\ \A e \in Emails : Claim(w, e) =>
                /\ worker[w].step = "idle" /\ worker'[w].step = "claimed" /\ worker'[w].email = e
                /\ worker'[w].attempt = row[e].attempts + 1 /\ worker'[w].payload = row[e].payload
                /\ worker'[w].stalled = 0
           /\ Prepare(w) =>
                /\ worker[w].step = "claimed"
                /\ \/ worker'[w].step = "idle" /\ worker'[w] = Idle /\ row' = row
                   \/ /\ OwnerInTime(w) /\ worker'[w].step = "sending" /\ worker'[w].email = worker[w].email
                      /\ worker'[w].attempt = worker[w].attempt /\ worker'[w].payload = Rendered(w)
                      /\ worker'[w].stalled = 0
           /\ Answers(w) =>
                /\ worker[w].step \in {"claimed", "sending"} /\ worker'[w].step = "answered"
                /\ worker'[w].email = worker[w].email /\ worker'[w].attempt = worker[w].attempt
                /\ worker'[w].outcome = "accepted" => SendAccepted(w)
           /\ Leaves(w) =>
                worker[w].step # "idle" /\ worker'[w].step = "idle" /\ worker'[w] = Idle
<1>0. worker \in [Workers -> Claims] /\ worker[w] \in Claims /\ row \in [Emails -> Logs] /\ RestOK
  BY DEF Types
<1>1. ASSUME NEW e \in Emails, Claim(w, e)
      PROVE  /\ worker[w].step = "idle" /\ worker'[w].step = "claimed" /\ worker'[w].email = e
             /\ worker'[w].attempt = row[e].attempts + 1 /\ worker'[w].payload = row[e].payload
             /\ worker'[w].stalled = 0
             /\ worker' \in [Workers -> Claims] /\ \A v \in Workers : v # w => worker'[v] = worker[v]
  <2> DEFINE c == [step |-> "claimed", email |-> e, attempt |-> row[e].attempts + 1,
                   payload |-> Swept[e].payload, stalled |-> 0, outcome |-> "none"]
  <2> DEFINE d == [Idle EXCEPT !.step = "claimed", !.email = e, !.attempt = row[e].attempts + 1,
                               !.payload = Swept[e].payload]
  <2>0. d = c
    <3> DEFINE d1 == [Idle EXCEPT !.step = "claimed"]
    <3> DEFINE d2 == [d1 EXCEPT !.email = e]
    <3> DEFINE d3 == [d2 EXCEPT !.attempt = row[e].attempts + 1]
    <3>1. d1 = [step |-> "claimed", email |-> 0, attempt |-> 0, payload |-> 0, stalled |-> 0, outcome |-> "none"]
      BY DEF Idle
    <3>2. d = [d3 EXCEPT !.payload = Swept[e].payload]
      OBVIOUS
    <3> HIDE DEF d, d1
    <3>3. d2 = [step |-> "claimed", email |-> e, attempt |-> 0, payload |-> 0, stalled |-> 0, outcome |-> "none"]
      BY <3>1
    <3> HIDE DEF d2
    <3>4. d3 = [step |-> "claimed", email |-> e, attempt |-> row[e].attempts + 1, payload |-> 0,
                stalled |-> 0, outcome |-> "none"]
      BY <3>3
    <3> HIDE DEF d3
    <3> QED BY <3>2, <3>4
  <2> HIDE DEF c
  <2>9. worker' = [worker EXCEPT ![w] = d]
    BY <1>1 DEF Claim, StoredPayload
  <2>1. worker' = [worker EXCEPT ![w] = c]
    BY <2>0, <2>9
  <2>2. Swept[e].payload = row[e].payload /\ row[e] \in Logs
    BY <1>0, SweepRow
  <2>3. c \in Claims
    BY <2>2 DEF Claims, Logs, c
  <2>4. /\ c.step = "claimed" /\ c.email = e /\ c.attempt = row[e].attempts + 1
        /\ c.payload = row[e].payload /\ c.stalled = 0
    BY <2>2 DEF c
  <2>5. worker[w].step = "idle"
    BY <1>1 DEF Claim, Idle
  <2> QED BY <1>0, <2>1, <2>3, <2>4, <2>5
<1>2. ASSUME worker' = [worker EXCEPT ![w] = Idle]
      PROVE  /\ worker'[w].step = "idle" /\ worker'[w] = Idle /\ worker' \in [Workers -> Claims]
             /\ \A v \in Workers : v # w => worker'[v] = worker[v]
  <2>1. worker'[w] = Idle
    BY <1>0, <1>2
  <2>2. worker'[w].step = "idle" /\ worker'[w] = Idle
    BY <2>1 DEF Idle
  <2> QED BY <1>0, <1>2, <2>1, <2>2, IdleClaim
<1>3. ASSUME Prepare(w)
      PROVE  /\ worker[w].step = "claimed"
             /\ \/ worker'[w].step = "idle" /\ worker'[w] = Idle /\ row' = row
                \/ /\ OwnerInTime(w) /\ worker'[w].step = "sending" /\ worker'[w].email = worker[w].email
                   /\ worker'[w].attempt = worker[w].attempt /\ worker'[w].payload = Rendered(w)
                   /\ worker'[w].stalled = 0
             /\ worker' \in [Workers -> Claims] /\ \A v \in Workers : v # w => worker'[v] = worker[v]
  <2>1. worker[w].step = "claimed" /\ worker[w].stalled = 0
    BY <1>3 DEF Prepare, Busy
  <2>2. CASE OwnerInTime(w)
    <3> DEFINE c == [[worker[w] EXCEPT !.step = "sending"] EXCEPT !.payload = Rendered(w)]
    <3>1. worker' = [worker EXCEPT ![w] = c]
      BY <1>3, <2>2 DEF Prepare
    <3>2. Rendered(w) \in Nat
      BY <1>0 DEF Rendered, Claims, RestOK
    <3>3. /\ c \in Claims /\ c.step = "sending" /\ c.email = worker[w].email
          /\ c.attempt = worker[w].attempt /\ c.payload = Rendered(w) /\ c.stalled = 0
      BY <1>0, <2>1, <3>2 DEF Claims
    <3> HIDE DEF c
    <3> QED BY <1>0, <2>1, <2>2, <3>1, <3>3
  <2>3. CASE ~OwnerInTime(w)
    BY <1>2, <1>3, <2>1, <2>3 DEF Prepare
  <2> QED BY <2>2, <2>3
<1>4. ASSUME Answers(w)
      PROVE  /\ worker[w].step \in {"claimed", "sending"} /\ worker'[w].step = "answered"
             /\ worker'[w].email = worker[w].email /\ worker'[w].attempt = worker[w].attempt
             /\ worker'[w].outcome = "accepted" => SendAccepted(w)
             /\ worker' \in [Workers -> Claims] /\ \A v \in Workers : v # w => worker'[v] = worker[v]
  <2> DEFINE c(o) == [[worker[w] EXCEPT !.step = "answered"] EXCEPT !.outcome = o]
  <2>1. PICK o \in {"accepted", "permanent", "retryable"} :
           worker' = [worker EXCEPT ![w] = c(o)] /\ (o = "accepted" => SendAccepted(w))
    BY <1>4 DEF Answers, PrepareFails, SendAccepted, SendRefused, SendTimesOut, Answered, RefusalOutcomes
  <2>2. /\ c(o) \in Claims /\ c(o).step = "answered" /\ c(o).email = worker[w].email
        /\ c(o).attempt = worker[w].attempt /\ c(o).outcome = o
    BY <1>0 DEF Claims
  <2>3. worker[w].step \in {"claimed", "sending"}
    BY <1>4 DEF Answers, PrepareFails, SendAccepted, SendRefused, SendTimesOut
  <2> HIDE DEF c
  <2> QED BY <1>0, <2>1, <2>2, <2>3
<1>5. ASSUME Leaves(w)
      PROVE  /\ worker[w].step # "idle" /\ worker'[w].step = "idle" /\ worker'[w] = Idle
             /\ worker' \in [Workers -> Claims] /\ \A v \in Workers : v # w => worker'[v] = worker[v]
  <2>1. worker' = [worker EXCEPT ![w] = Idle]
    BY <1>5 DEF Leaves, RecordSent, RecordFailed, Die
  <2>2. worker[w].step # "idle"
    BY <1>5 DEF Leaves, RecordSent, RecordFailed, Die, Busy
  <2> QED BY <1>2, <2>1, <2>2
<1> QED BY <1>1, <1>3, <1>4, <1>5 DEF Takes, WorkerStep, Answers, Leaves

\* When time passes, and at every other step.
LEMMA OtherWorkers ==
    ASSUME Types
    PROVE  /\ MailTick => /\ worker' \in [Workers -> Claims]
                          /\ \A w \in Workers :
                               /\ worker'[w].step = worker[w].step /\ worker'[w].email = worker[w].email
                               /\ worker'[w].attempt = worker[w].attempt /\ worker'[w].payload = worker[w].payload
                               /\ worker'[w].outcome = worker[w].outcome
                               /\ worker'[w].stalled =
                                    IF worker[w].step = "sending" THEN worker[w].stalled + 1 ELSE worker[w].stalled
           /\ \A w \in Workers : ClaimNothing(w) => worker' = worker
           /\ \A e \in Emails : Enqueue(e) => worker' = worker
           /\ \A m \in late : LateArrival(m) => worker' = worker
           /\ Deploy => worker' = worker
<1>1. ASSUME MailTick
      PROVE  /\ worker' = [w \in Workers |-> worker'[w]]
             /\ \A w \in Workers : worker'[w] = IF worker[w].step = "sending"
                                                THEN [worker[w] EXCEPT !.stalled = worker[w].stalled + 1]
                                                ELSE worker[w]
  BY <1>1 DEF MailTick
<1>2. ASSUME MailTick, NEW w \in Workers
      PROVE  /\ worker'[w] \in Claims
             /\ worker'[w].step = worker[w].step /\ worker'[w].email = worker[w].email
             /\ worker'[w].attempt = worker[w].attempt /\ worker'[w].payload = worker[w].payload
             /\ worker'[w].outcome = worker[w].outcome
             /\ worker'[w].stalled =
                   IF worker[w].step = "sending" THEN worker[w].stalled + 1 ELSE worker[w].stalled
  <2>1. worker[w] \in Claims
    BY DEF Types
  <2> DEFINE c == [worker[w] EXCEPT !.stalled = worker[w].stalled + 1]
  <2>2. /\ c \in Claims /\ c.step = worker[w].step /\ c.email = worker[w].email
        /\ c.attempt = worker[w].attempt /\ c.payload = worker[w].payload
        /\ c.outcome = worker[w].outcome /\ c.stalled = worker[w].stalled + 1
    BY <2>1 DEF Claims
  <2> HIDE DEF c
  <2>3. worker'[w] = IF worker[w].step = "sending" THEN c ELSE worker[w]
    BY <1>1, <1>2 DEF c
  <2> QED BY <2>1, <2>2, <2>3
<1>3. /\ \A w \in Workers : ClaimNothing(w) => worker' = worker
      /\ \A e \in Emails : Enqueue(e) => worker' = worker
      /\ \A m \in late : LateArrival(m) => worker' = worker
      /\ Deploy => worker' = worker
  BY DEF ClaimNothing, Enqueue, LateArrival, Deploy
<1> QED BY <1>1, <1>2, <1>3

-----------------------------------------------------------------------------
(* Who changes a row, and how *)

Claimed(r, s) ==
  /\ s.attempts = r.attempts + 1 /\ s.lease = ClaimTime /\ s.status = "PROCESSING"
  /\ s.age = r.age /\ s.payload = r.payload
  /\ r.status = "PENDING" \/ r.age < RetryWindow
Worked(r, s) ==
  /\ s.attempts = r.attempts /\ s.age = r.age /\ s.lease \in {r.lease, 0}
  /\ s.status = "PROCESSING" => r.status = "PROCESSING"

WorkOn(e) ==
  /\ Worked(row[e], row'[e])
  /\ row[e].status # "NONE" \/ row'[e].status = "NONE" \/ Enqueue(e)
  /\ \/ row'[e].status # "SENT" \/ row[e].status = "SENT"
     \/ \E w \in Workers : RecordSent(w) /\ Owner(w) /\ At(w) = e
  /\ \/ row'[e].payload = row[e].payload
     \/ \E w \in Workers : /\ Prepare(w) /\ OwnerInTime(w) /\ At(w) = e
                           /\ row'[e].payload = Rendered(w) /\ worker'[w].step = "sending"

LEMMA RowChanges ==
    ASSUME WindowAssumption, Types, Rows, Busy, [MailNext]_mailVars, NEW e \in Emails
    PROVE  \/ MailTick /\ Aged(row[e], row'[e])
           \/ \E w \in Workers : Claim(w, e) /\ Claimed(row[e], row'[e])
           \/ WorkOn(e)
<1> DEFINE Goal == \/ MailTick /\ Aged(row[e], row'[e])
                   \/ \E w \in Workers : Claim(w, e) /\ Claimed(row[e], row'[e])
                   \/ WorkOn(e)
<1>0. /\ row \in [Emails -> Logs] /\ row[e] \in Logs /\ worker \in [Workers -> Claims]
  BY DEF Types
<1>1. ASSUME row'[e] = row[e] PROVE Goal
  BY <1>1 DEF WorkOn, Worked
<1>2. ASSUME row'[e] = Swept[e] PROVE Goal
  <2>1. \/ Swept[e] = row[e]
        \/ /\ Swept[e].status = "UNKNOWN" /\ Swept[e].lease = 0 /\ row[e].status # "NONE"
           /\ Swept[e].attempts = row[e].attempts /\ Swept[e].age = row[e].age
           /\ Swept[e].payload = row[e].payload
    BY <1>0, SweepRow
  <2> QED BY <1>1, <1>2, <2>1 DEF WorkOn, Worked
<1>3. ASSUME NEW x \in Emails, Enqueue(x) PROVE Goal
  <2> DEFINE s == [row[x] EXCEPT !.status = "PENDING"]
  <2>1. row' = [row EXCEPT ![x] = s]
    BY <1>0, <1>3, RowOfStep
  <2>2. s.attempts = row[x].attempts /\ s.age = row[x].age /\ s.lease = row[x].lease
        /\ s.payload = row[x].payload /\ s.status = "PENDING"
    BY <1>0 DEF Logs
  <2> HIDE DEF s
  <2>3. x # e => row'[e] = row[e]
    BY <1>0, <2>1
  <2>4. x = e => row'[e] = s
    BY <1>0, <2>1
  <2>5. x = e => WorkOn(e)
    BY <1>3, <2>2, <2>4 DEF WorkOn, Worked
  <2> QED BY <1>1, <2>3, <2>5
<1>4. ASSUME NEW w \in Workers, NEW x \in Emails, Claim(w, x) PROVE Goal
  <2> DEFINE s == [status |-> "PROCESSING", lease |-> ClaimTime, attempts |-> Swept[x].attempts + 1,
                   age |-> Swept[x].age, wait |-> Swept[x].wait, payload |-> Swept[x].payload]
  <2>1. row' = [Swept EXCEPT ![x] = s]
    BY <1>0, <1>4, RowOfStep
  <2>2. Swept = [y \in Emails |-> Swept[y]]
    BY DEF Swept
  <2>3. s.status = "PROCESSING" /\ s.lease = ClaimTime /\ s.attempts = Swept[x].attempts + 1
        /\ s.age = Swept[x].age /\ s.payload = Swept[x].payload
    OBVIOUS
  <2> HIDE DEF s
  <2>4. row'[e] = IF x = e THEN s ELSE Swept[e]
    BY <2>1, <2>2
  <2>5. Swept[x].status = "PENDING" => row[x].status = "PENDING"
    BY <1>0, SweepRow
  <2>6. row[x].status = "PENDING" \/ row[x].age < RetryWindow
    BY <1>0, <1>4, <2>5, SweepRow DEF Claim, Claimable
  <2>7. Swept[x].attempts = row[x].attempts /\ Swept[x].age = row[x].age /\ Swept[x].payload = row[x].payload
    BY <1>0, SweepRow
  <2> QED BY <1>2, <1>4, <2>3, <2>4, <2>6, <2>7 DEF Claimed
<1>5. ASSUME NEW w \in Workers, Prepare(w) PROVE Goal
  <2>1. SUFFICES ASSUME row' # row PROVE Goal
    BY <1>1
  <2> DEFINE x == At(w)
  <2> DEFINE s == [row[x] EXCEPT !.payload = Rendered(w)]
  <2>2. OwnerInTime(w) /\ x \in Emails /\ row' = [row EXCEPT ![x] = s]
    BY <1>0, <1>5, <2>1, RowOfStep
  <2>3. worker'[w].step = "sending"
    BY <1>5, <2>1, StepOfWorker
  <2> HIDE DEF x
  <2>4. s.attempts = row[x].attempts /\ s.age = row[x].age /\ s.lease = row[x].lease
        /\ s.payload = Rendered(w) /\ s.status = row[x].status
    BY <1>0, <2>2 DEF Logs
  <2> HIDE DEF s
  <2>5. row'[e] = IF x = e THEN s ELSE row[e]
    BY <1>0, <2>2
  <2>6. x = e => WorkOn(e)
    BY <1>5, <2>2, <2>3, <2>4, <2>5 DEF WorkOn, Worked, x
  <2> QED BY <1>1, <2>5, <2>6
<1>6. ASSUME NEW w \in Workers, RecordSent(w) PROVE Goal
  <2>1. SUFFICES ASSUME row' # row PROVE Goal
    BY <1>1
  <2> DEFINE x == At(w)
  <2> DEFINE s == [[row[x] EXCEPT !.status = "SENT"] EXCEPT !.lease = 0]
  <2>2. Owner(w) /\ x \in Emails /\ row' = [row EXCEPT ![x] = s]
    BY <1>0, <1>6, <2>1, RowOfStep DEF OwnerInTime
  <2>3. row[x].status = "PROCESSING"
    BY <2>2 DEF Owner, At
  <2> HIDE DEF x
  <2>4. s.attempts = row[x].attempts /\ s.age = row[x].age /\ s.lease = 0
        /\ s.payload = row[x].payload /\ s.status = "SENT"
    BY <1>0, <2>2 DEF Logs
  <2> HIDE DEF s
  <2>5. row'[e] = IF x = e THEN s ELSE row[e]
    BY <1>0, <2>2
  <2>6. x = e => WorkOn(e)
    BY <1>6, <2>2, <2>3, <2>4, <2>5 DEF WorkOn, Worked, x
  <2> QED BY <1>1, <2>5, <2>6
<1>7. ASSUME NEW w \in Workers, RecordFailed(w) PROVE Goal
  <2>1. SUFFICES ASSUME row' # row PROVE Goal
    BY <1>1
  <2> DEFINE x == At(w)
  <2> DEFINE s(n) == [[[row[x] EXCEPT !.status = StatusAfterFailure(w)] EXCEPT !.lease = 0] EXCEPT !.wait = n]
  <2>2. PICK n \in Int : Owner(w) /\ x \in Emails /\ row' = [row EXCEPT ![x] = s(n)]
    BY <1>0, <1>7, <2>1, RowOfStep
  <2>3. row[x].status = "PROCESSING"
    BY <2>2 DEF Owner, At
  <2>4. StatusAfterFailure(w) \notin {"NONE", "PROCESSING", "SENT"}
    BY DEF StatusAfterFailure
  <2> HIDE DEF x
  <2>5. s(n).attempts = row[x].attempts /\ s(n).age = row[x].age /\ s(n).lease = 0
        /\ s(n).payload = row[x].payload /\ s(n).status = StatusAfterFailure(w)
    BY <1>0, <2>2 DEF Logs
  <2> HIDE DEF s
  <2>6. row'[e] = IF x = e THEN s(n) ELSE row[e]
    BY <1>0, <2>2
  <2>7. x = e => WorkOn(e)
    BY <2>3, <2>4, <2>5, <2>6 DEF WorkOn, Worked
  <2> QED BY <1>1, <2>6, <2>7
<1>8. ASSUME MailTick PROVE Goal
  BY <1>0, <1>8, TickRow
<1>9. ASSUME UNCHANGED row PROVE Goal
  BY <1>1, <1>9
<1>10. ASSUME NEW w \in Workers, ClaimNothing(w) PROVE Goal
  BY <1>2, <1>10 DEF ClaimNothing
<1>11. ASSUME NEW w \in Workers, PrepareFails(w) \/ SendAccepted(w) \/ SendRefused(w) \/ SendTimesOut(w) \/ Die(w)
       PROVE  Goal
  BY <1>9, <1>11 DEF PrepareFails, SendAccepted, SendRefused, SendTimesOut, Die
<1>12. ASSUME Deploy \/ (\E m \in late : LateArrival(m)) \/ UNCHANGED mailVars PROVE Goal
  BY <1>9, <1>12 DEF Deploy, LateArrival, mailVars
<1> HIDE DEF Goal
<1>13. Goal
  BY <1>3, <1>4, <1>5, <1>6, <1>7, <1>8, <1>10, <1>11, <1>12 DEF MailNext, WorkerStep
<1> QED BY <1>13 DEF Goal

-----------------------------------------------------------------------------
(* What a step does at the provider *)

Sending == {<<At(w), worker[w].payload>> : w \in {v \in Workers : worker[v].step = "sending"}}
Outstanding == late \cup Sending

LEMMA ProviderSteps ==
    ASSUME Types, Busy, Same, [MailNext]_mailVars
    PROVE  /\ \/ MailTick
              \/ UNCHANGED <<mailed, key, payload, clash>> /\ late' \subseteq Outstanding
              \/ \E m \in Outstanding : Arrive(m[1], m[2]) /\ late' \subseteq late
           /\ \A w \in Workers : SendAccepted(w) => Arrive(At(w), worker[w].payload)
           /\ settings' \in Nat \ {0}
<1>1. settings \in Nat \ {0}
  BY DEF Types, RestOK
<1>2. ASSUME NEW w \in Workers, SendAccepted(w)
      PROVE  /\ Arrive(At(w), worker[w].payload) /\ late' = late /\ settings' = settings
             /\ <<At(w), worker[w].payload>> \in Outstanding
  BY <1>2 DEF SendAccepted, At, Outstanding, Sending
<1>3. ASSUME NEW w \in Workers, SendTimesOut(w)
      PROVE  UNCHANGED <<mailed, key, payload, clash, settings>> /\ late' \subseteq Outstanding
  BY <1>3 DEF SendTimesOut, At, Outstanding, Sending
<1>4. ASSUME NEW m \in late, LateArrival(m)
      PROVE  /\ UNCHANGED <<mailed, key, payload, clash>> \/ Arrive(m[1], m[2])
             /\ late' \subseteq late /\ settings' = settings
  BY <1>4 DEF LateArrival
<1>5. ASSUME NEW w \in Workers, \/ (\E e \in Emails : Claim(w, e)) \/ ClaimNothing(w) \/ Prepare(w)
                                \/ PrepareFails(w) \/ SendRefused(w) \/ RecordSent(w)
                                \/ RecordFailed(w) \/ Die(w)
      PROVE  UNCHANGED <<mailed, key, payload, clash, late, settings>>
  BY <1>5 DEF Claim, ClaimNothing, Prepare, PrepareFails, SendRefused, RecordSent, RecordFailed, Die
<1>6. ASSUME (\E e \in Emails : Enqueue(e)) \/ UNCHANGED mailVars
      PROVE  UNCHANGED <<mailed, key, payload, clash, late, settings>>
  BY <1>6 DEF Enqueue, mailVars
<1>7. ASSUME Deploy PROVE UNCHANGED <<mailed, key, payload, clash, late>> /\ settings' = settings + 1
  BY <1>7 DEF Deploy
<1>8. ASSUME MailTick PROVE settings' = settings
  BY <1>8 DEF MailTick
<1>9. late \subseteq Outstanding
  BY DEF Outstanding
<1>10. settings + 1 \in Nat \ {0}
  BY <1>1
<1> QED BY <1>1, <1>2, <1>3, <1>4, <1>5, <1>6, <1>7, <1>8, <1>9, <1>10 DEF MailNext, WorkerStep

LEMMA OutstandingTyped ==
    ASSUME Types, Busy, Same
    PROVE  \A m \in Outstanding : m[1] \in Emails /\ m[2] \in Nat \ {0} /\ m \in Emails \X (Nat \ {0})
<1>1. ASSUME NEW w \in Workers, worker[w].step = "sending" PROVE At(w) \in Emails /\ worker[w].payload \in Nat \ {0}
  <2>1. worker[w] \in Claims
    BY DEF Types
  <2> QED BY <1>1, <2>1 DEF Busy, Same, Claims
<1>2. \A m \in Sending : m \in Emails \X (Nat \ {0})
  BY <1>1 DEF Sending
<1>3. \A m \in late : m \in Emails \X (Nat \ {0})
  BY DEF Types, RestOK
<1> QED BY <1>2, <1>3 DEF Outstanding

LEMMA TypesStep ==
    ASSUME WindowAssumption, Types, Rows, Busy, Same, [MailNext]_mailVars
    PROVE  Types'
<1>0. row \in [Emails -> Logs] /\ worker \in [Workers -> Claims] /\ RestOK /\ Dedup \in Nat
  BY DEF Types, WindowAssumption
<1>1. row' \in [Emails -> Logs]
  BY EveryRowForward
<1>2. worker' \in [Workers -> Claims]
  <2>1. \A w \in Workers : Takes(w) => worker' \in [Workers -> Claims]
    BY StepOfWorker
  <2>2. MailTick \/ worker' = worker \/ \E w \in Workers : Takes(w)
    BY OtherWorkers DEF MailNext, Takes, mailVars
  <2> QED BY <1>0, <2>1, <2>2, OtherWorkers
<1>3. ASSUME UNCHANGED <<mailed, key, payload, clash>>, late' \subseteq Outstanding PROVE RestOK'
  BY <1>0, <1>3, ProviderSteps, OutstandingTyped DEF RestOK, NoKey
<1>4. ASSUME NEW m \in Outstanding, Arrive(m[1], m[2]), late' \subseteq late PROVE RestOK'
  <2>1. m[1] \in Emails /\ m[2] \in Nat
    BY OutstandingTyped
  <2>2. mailed' \in [Emails -> Nat]
    BY <1>0, <1>4, <2>1 DEF Arrive, RestOK
  <2>3. key' \in [Emails -> 0 .. NoKey]
    BY <1>0, <1>4, <2>1 DEF Arrive, RestOK, NoKey
  <2>4. payload' \in [Emails -> Nat]
    BY <1>0, <1>4, <2>1 DEF Arrive, RestOK
  <2> QED BY <1>0, <1>4, <2>2, <2>3, <2>4, ProviderSteps DEF RestOK, NoKey
<1>5. ASSUME MailTick PROVE RestOK'
  <2>0. key' = [e \in Emails |-> IF key[e] = NoKey THEN NoKey ELSE More(key[e], Dedup)]
    BY <1>5 DEF MailTick
  <2>1. ASSUME NEW e \in Emails
        PROVE  (IF key[e] = NoKey THEN NoKey ELSE More(key[e], Dedup)) \in 0 .. NoKey
    <3>1. key[e] \in 0 .. NoKey
      BY <1>0 DEF RestOK
    <3> QED BY <1>0, <3>1 DEF More, NoKey
  <2>2. key' \in [Emails -> 0 .. NoKey]
    BY <2>0, <2>1
  <2> QED BY <1>0, <1>5, <2>2 DEF MailTick, RestOK, NoKey
<1> QED BY <1>1, <1>2, <1>3, <1>4, <1>5, ProviderSteps DEF Types

\* Key, count and payload of an e-mail when a request arrives.
LEMMA AtArrival ==
    ASSUME WindowAssumption, Types, NEW e \in Emails, NEW p, Arrive(e, p), NEW x \in Emails
    PROVE  /\ key'[x] = IF x = e /\ key[e] >= Dedup THEN 0 ELSE key[x]
           /\ mailed'[x] = IF x = e /\ key[e] >= Dedup THEN mailed[x] + 1 ELSE mailed[x]
           /\ payload'[x] = IF x = e /\ payload[e] = 0 THEN p ELSE payload[x]
           /\ clash' = IF payload[e] \notin {0, p} THEN clash \cup {e} ELSE clash
<1>1. RestOK /\ Dedup \in Nat /\ NoKey \in Nat /\ key[e] \in 0 .. NoKey /\ Dedup <= NoKey
  BY DEF Types, WindowAssumption, NoKey, RestOK
<1>2. ~(key[e] < Dedup) <=> key[e] >= Dedup
  BY <1>1
<1> QED BY <1>1, <1>2 DEF Arrive, RestOK

-----------------------------------------------------------------------------
(* Claims *)

LEMMA ClaimCounts ==
    ASSUME WindowAssumption, Types, Busy, NEW w \in Workers, NEW e \in Emails, Claim(w, e)
    PROVE  row'[e].attempts = row[e].attempts + 1 /\ row'[e].payload = row[e].payload
<1>1. row \in [Emails -> Logs] /\ worker \in [Workers -> Claims]
  BY DEF Types
<1> DEFINE s == [status |-> "PROCESSING", lease |-> ClaimTime, attempts |-> Swept[e].attempts + 1,
                 age |-> Swept[e].age, wait |-> Swept[e].wait, payload |-> Swept[e].payload]
<1>2. row' = [Swept EXCEPT ![e] = s]
  BY <1>1, RowOfStep
<1>3. s.attempts = Swept[e].attempts + 1 /\ s.payload = Swept[e].payload
  OBVIOUS
<1> HIDE DEF s
<1>4. row'[e] = s
  BY <1>2 DEF Swept
<1> QED BY <1>1, <1>3, <1>4, SweepRow

\* What becomes of a worker and its claim.
Onward(w) ==
  \/ worker'[w].step = "idle" /\ worker'[w] = Idle
  \/ \E e \in Emails :
       /\ Claim(w, e) /\ worker[w].step = "idle" /\ worker'[w].step = "claimed"
       /\ worker'[w].email = e /\ worker'[w].attempt = row[e].attempts + 1
       /\ row'[e].attempts = row[e].attempts + 1 /\ row'[e].payload = row[e].payload
       /\ worker'[w].payload = row[e].payload /\ worker'[w].stalled = 0
  \/ /\ worker[w].step # "idle" /\ worker'[w].step # "idle"
     /\ worker'[w].email = worker[w].email /\ worker'[w].attempt = worker[w].attempt
     /\ worker'[w].step = "claimed" => /\ worker[w].step = "claimed"
                                       /\ worker'[w].stalled = worker[w].stalled
                                       /\ worker'[w].payload = worker[w].payload
     /\ worker'[w].step = "sending" =>
          \/ /\ worker[w].step = "sending" /\ worker'[w].payload = worker[w].payload
             /\ worker'[w].stalled = worker[w].stalled
          \/ MailTick /\ worker[w].step = "sending" /\ worker'[w].payload = worker[w].payload
             /\ worker'[w].stalled = worker[w].stalled + 1
          \/ /\ Prepare(w) /\ OwnerInTime(w) /\ worker[w].step = "claimed" /\ worker'[w].payload = Rendered(w)
             /\ worker'[w].stalled = 0
     /\ worker'[w].step = "answered" /\ worker'[w].outcome = "accepted" =>
          SendAccepted(w) \/ (worker[w].step = "answered" /\ worker[w].outcome = "accepted")

LEMMA WorkersGoOn ==
    ASSUME WindowAssumption, Types, Busy, [MailNext]_mailVars
    PROVE  /\ \A w \in Workers : Onward(w)
           /\ \A v, w \in Workers : Takes(v) /\ v # w => worker'[w] = worker[w]
           /\ \A v, w \in Workers, e \in Emails : Claim(v, e) /\ v # w => worker'[w] = worker[w]
<1>1. ASSUME NEW w \in Workers, worker'[w] = worker[w] PROVE Onward(w)
  BY <1>1 DEF Onward, Busy
<1>2. ASSUME NEW w \in Workers, Takes(w) PROVE Onward(w)
  <2>1. \/ (\E e \in Emails : Claim(w, e)) \/ Prepare(w) \/ Answers(w) \/ Leaves(w)
    BY <1>2 DEF Takes, WorkerStep, Answers, Leaves
  <2>2. ASSUME NEW e \in Emails, Claim(w, e) PROVE Onward(w)
    BY <2>2, StepOfWorker, ClaimCounts DEF Onward
  <2>3. CASE Prepare(w)
    BY <2>3, StepOfWorker DEF Onward
  <2>4. CASE Answers(w)
    BY <2>4, StepOfWorker DEF Onward
  <2>5. CASE Leaves(w)
    BY <2>5, StepOfWorker DEF Onward
  <2> QED BY <2>1, <2>2, <2>3, <2>4, <2>5
<1>3. ASSUME NEW w \in Workers, MailTick PROVE Onward(w)
  <2>1. CASE worker[w].step = "idle"
    <3>1. worker' = [v \in Workers |-> IF worker[v].step = "sending"
                                       THEN [worker[v] EXCEPT !.stalled = @ + 1] ELSE worker[v]]
      BY <1>3 DEF MailTick
    <3> QED BY <1>1, <2>1, <3>1
  <2>2. CASE worker[w].step # "idle"
    BY <1>3, <2>2, OtherWorkers DEF Onward
  <2> QED BY <2>1, <2>2
<1>4. MailTick \/ worker' = worker \/ \E w \in Workers : Takes(w)
  BY OtherWorkers DEF MailNext, Takes, mailVars
<1>5. \A v, w \in Workers : Takes(v) /\ v # w => worker'[w] = worker[w]
  BY StepOfWorker
<1> QED BY <1>1, <1>2, <1>3, <1>4, <1>5 DEF Takes

LEMMA BusyStep ==
    ASSUME WindowAssumption, Types, Rows, Busy, Alone, Same, [MailNext]_mailVars
    PROVE  Busy' /\ Alone'
<1>1. /\ \A w \in Workers : Onward(w)
      /\ \A v, w \in Workers, e \in Emails : Claim(v, e) /\ v # w => worker'[w] = worker[w]
  BY WorkersGoOn
<1>2. \A e \in Emails : row'[e].attempts >= row[e].attempts /\ row[e].attempts \in Nat /\ row'[e].attempts \in Nat
  BY EveryRowForward DEF Forward, Types, Logs
<1>3. ASSUME NEW w \in Workers, worker'[w].step # "idle"
      PROVE  worker'[w].email \in Emails /\ worker'[w].attempt \in 1 .. row'[worker'[w].email].attempts
  BY <1>1, <1>2, <1>3 DEF Onward, Busy, At
<1>4. \A w \in Workers : /\ worker'[w].step = "claimed" => worker'[w].stalled = 0
                         /\ worker'[w].step = "idle" => worker'[w] = Idle
  BY <1>1 DEF Onward, Busy
<1>5. ASSUME NEW v \in Workers, NEW w \in Workers, v # w, worker'[v].step # "idle", worker'[w].step # "idle",
             worker'[v].email = worker'[w].email
      PROVE  worker'[v].attempt # worker'[w].attempt
  <2>1. ASSUME NEW x \in Workers, NEW y \in Workers, x # y, worker'[y].step # "idle",
               NEW e \in Emails, Claim(x, e), worker'[x].attempt = row[e].attempts + 1, worker'[y].email = e
        PROVE  worker'[x].attempt # worker'[y].attempt
    <3>1. worker'[y] = worker[y]
      BY <1>1, <2>1
    <3>2. worker[y].attempt \in 1 .. row[e].attempts
      BY <2>1, <3>1 DEF Busy, At
    <3> QED BY <1>2, <2>1, <3>1, <3>2
  <2>2. Onward(v) /\ Onward(w)
    BY <1>1
  <2>3. CASE \E e \in Emails : Claim(v, e) /\ worker'[v].email = e /\ worker'[v].attempt = row[e].attempts + 1
    BY <1>5, <2>1, <2>3
  <2>4. CASE \E e \in Emails : Claim(w, e) /\ worker'[w].email = e /\ worker'[w].attempt = row[e].attempts + 1
    BY <1>5, <2>1, <2>4
  <2> QED BY <1>5, <2>2, <2>3, <2>4 DEF Onward, Alone, At
<1> QED BY <1>3, <1>4, <1>5 DEF Busy, Alone, At

-----------------------------------------------------------------------------
(* Rows and their order *)

LEMMA RowsStep ==
    ASSUME WindowAssumption, Types, Rows, Busy, Same, [MailNext]_mailVars
    PROVE  Rows'
<1> SUFFICES ASSUME NEW e \in Emails
             PROVE  /\ row'[e].status = "NONE" => row'[e] = NoRow
                    /\ row'[e].status = "PENDING" => ~Started(e)'
                    /\ row'[e].status \in Terminal => row'[e].lease = 0
  BY DEF Rows, NoRow, Terminal
<1>1. Forward(row[e], row'[e])
  BY EveryRowForward
<1> QED BY <1>1 DEF Forward, Started

\* Attempts only rise, so that what has begun stays begun.
LEMMA BegunStays ==
    ASSUME WindowAssumption, Types, Rows, Busy, Same, [MailNext]_mailVars, NEW e \in Emails, Started(e)
    PROVE  Started(e)'
<1>1. row'[e].attempts >= row[e].attempts /\ row[e].attempts \in Nat /\ row'[e].attempts \in Nat
  BY EveryRowForward DEF Forward, Types, Logs
<1> QED BY <1>1 DEF Started

LEMMA BegunStep ==
    ASSUME WindowAssumption, Types, Rows, Busy, Begun, Same, [MailNext]_mailVars
    PROVE  Begun'
<1>1. ASSUME NEW m \in Outstanding PROVE m[1] \in Emails /\ Started(m[1])
  <2>1. \A w \in Workers : worker[w].step = "sending" => At(w) \in Emails /\ row[At(w)].attempts \in Nat
    BY DEF Types, Busy, Logs
  <2>2. \A w \in Workers : worker[w].step = "sending" => At(w) \in Emails /\ Started(At(w))
    BY <2>1 DEF Busy, Started
  <2> QED BY <2>2, OutstandingTyped DEF Outstanding, Sending, Begun
<1>2. \A e \in Emails : Started(e) => Started(e)'
  BY BegunStays
<1>3. late' \subseteq Outstanding \/ MailTick
  BY ProviderSteps DEF Outstanding
<1>4. \A m \in late' : Started(m[1])'
  <2>1. CASE MailTick
    BY <1>1, <1>2, <2>1 DEF MailTick, Outstanding
  <2> QED BY <1>1, <1>2, <1>3, <2>1
<1>5. ASSUME NEW e \in Emails, Known(e)' \/ payload'[e] # 0 PROVE Started(e)'
  <2>1. CASE UNCHANGED <<key, payload>>
    BY <1>2, <1>5, <2>1 DEF Begun, Known, NoKey
  <2>2. CASE MailTick
    <3>1. payload' = payload /\ key'[e] = IF key[e] = NoKey THEN NoKey ELSE More(key[e], Dedup)
      BY <2>2 DEF MailTick
    <3> QED BY <1>2, <1>5, <3>1 DEF Begun, Known, NoKey
  <2>3. ASSUME NEW m \in Outstanding, Arrive(m[1], m[2]) PROVE Started(e)'
    <3>1. m[1] # e => key'[e] = key[e] /\ payload'[e] = payload[e]
      BY <1>1, <2>3, AtArrival
    <3> QED BY <1>1, <1>2, <1>5, <3>1 DEF Begun, Known, NoKey
  <2> QED BY <2>1, <2>2, <2>3, ProviderSteps
<1> QED BY <1>4, <1>5 DEF Begun

LEMMA OrderedStep ==
    ASSUME WindowAssumption, Types, Rows, Busy, Ordered, Same, [MailNext]_mailVars
    PROVE  Ordered'
<1> SUFFICES ASSUME NEW p \in Emails, NEW e \in Emails, OrderOf[p] = OrderOf[e], p < e
             PROVE  /\ row'[e].status # "NONE" => row'[p].status # "NONE"
                    /\ Started(e)' => row'[p].status \in Terminal
  BY DEF Ordered
<1>1. /\ row[e].status # "NONE" => row[p].status # "NONE"
      /\ Started(e) => row[p].status \in Terminal
  BY DEF Ordered
<1>2. /\ row \in [Emails -> Logs] /\ row[p] \in Logs
      /\ row[p].status # "NONE" => row'[p].status # "NONE"
      /\ row[p].status \in Terminal => row'[p] = [row[p] EXCEPT !.wait = row'[p].wait, !.age = row'[p].age]
  BY EveryRowForward DEF Forward, Types
<1>3. row[p].status \in Terminal => row'[p].status \in Terminal
  BY <1>2 DEF Logs
<1>4. Claimed(row[e], row'[e]) \/ (row'[e].attempts = row[e].attempts)
  BY RowChanges DEF WorkOn, Worked, Aged
<1>5. ASSUME NEW w \in Workers, Claim(w, e) PROVE row'[p].status \in Terminal
  <2>1. Swept[p].status \notin Waiting /\ Swept[e].status # "NONE"
    BY <1>5 DEF Claim, Claimable, EarlierWaits
  <2>2. row[e].status # "NONE"
    BY <1>2, <2>1, SweepRow
  <2>3. Swept[p].status # "NONE" /\ Swept[p] \in Logs
    BY <1>1, <1>2, <2>2, SweepRow
  <2>4. Swept[p].status \in Terminal
    BY <2>1, <2>3 DEF Logs, Status, Terminal, Waiting
  <2>5. row'[p] = Swept[p]
    <3>1. p # e /\ worker \in [Workers -> Claims]
      BY <1>5, <2>1, <2>4 DEF Types, Claim, Claimable, Terminal
    <3> DEFINE s == [status |-> "PROCESSING", lease |-> ClaimTime, attempts |-> Swept[e].attempts + 1,
                     age |-> Swept[e].age, wait |-> Swept[e].wait, payload |-> Swept[e].payload]
    <3>2. row' = [Swept EXCEPT ![e] = s]
      BY <1>2, <1>5, <3>1, RowOfStep
    <3> HIDE DEF s
    <3> QED BY <3>1, <3>2 DEF Swept
  <2> QED BY <2>4, <2>5
<1>6. CASE \E w \in Workers : Claim(w, e)
  BY <1>5, <1>6 DEF Terminal
<1>7. CASE ~\E w \in Workers : Claim(w, e)
  <2>1. \/ MailTick /\ Aged(row[e], row'[e])
        \/ Worked(row[e], row'[e]) /\ (row[e].status # "NONE" \/ row'[e].status = "NONE" \/ Enqueue(e))
    BY <1>7, RowChanges DEF WorkOn
  <2>2. Started(e)' = Started(e)
    BY <2>1 DEF Worked, Aged, Started
  <2>3. Enqueue(e) => row[p].status # "NONE"
    <3>1. Enqueue(e) => row[p] # NoRow
      BY DEF Enqueue
    <3> QED BY <1>2, <3>1, RowFacts
  <2> QED BY <1>1, <1>2, <1>3, <2>1, <2>2, <2>3 DEF Aged
<1> QED BY <1>6, <1>7

-----------------------------------------------------------------------------
(* Time *)

LEMMA YoungStep ==
    ASSUME WindowAssumption, Types, Rows, Busy, Begun, Young, Same, [MailNext]_mailVars
    PROVE  Young'
<1> SUFFICES ASSUME NEW e \in Emails, Known(e)'
             PROVE  /\ row'[e].age < RetryWindow => key'[e] <= row'[e].age
                    /\ row'[e].lease > 0 => key'[e] + row'[e].lease <= RetryWindow + ClaimTime
  BY DEF Young, Known
<1>1. /\ row[e] \in Logs /\ row[e].age \in 0 .. RetryWindow /\ row[e].lease \in 0 .. ClaimTime
      /\ key[e] \in 0 .. NoKey /\ row[e].attempts \in Nat
      /\ {RetryWindow, ClaimTime, Dedup} \subseteq Nat /\ NoKey = Dedup + 1
  BY DEF Types, RestOK, Logs, WindowAssumption, NoKey
<1>2. /\ row'[e].age \in 0 .. RetryWindow /\ row'[e].lease \in 0 .. ClaimTime
  BY EveryRowForward DEF Forward, Logs
<1>3. Known(e) => /\ row[e].age < RetryWindow => key[e] <= row[e].age
                  /\ row[e].lease > 0 => key[e] + row[e].lease <= RetryWindow + ClaimTime
  BY DEF Young
<1>4. CASE MailTick
  <2>1. Aged(row[e], row'[e])
    BY <1>4, TickRow DEF Types
  <2>2. key'[e] = IF key[e] = NoKey THEN NoKey ELSE More(key[e], Dedup)
    BY <1>4 DEF MailTick
  <2>3. key'[e] <= key[e] + 1 /\ key'[e] \in Nat /\ Known(e)
    BY <1>1, <2>2 DEF More, Known
  <2>4. Started(e)
    BY <2>3 DEF Begun
  <2>5. row'[e].age < RetryWindow => row'[e].age = row[e].age + 1 /\ row[e].age < RetryWindow
    BY <1>1, <2>1, <2>4 DEF Aged, More, Started
  <2>6. row'[e].lease > 0 => row'[e].lease = row[e].lease - 1 /\ row[e].lease > 0
    BY <1>1, <2>1 DEF Aged, Sooner
  <2>7. row'[e].age < RetryWindow => key'[e] <= row'[e].age
    BY <1>1, <1>2, <1>3, <2>3, <2>5
  <2>8. row'[e].lease > 0 => key'[e] + row'[e].lease <= RetryWindow + ClaimTime
    BY <1>1, <1>2, <1>3, <2>3, <2>6
  <2> QED BY <2>7, <2>8
<1>5. ASSUME NEW m \in Outstanding, Arrive(m[1], m[2]), key'[e] # key[e] PROVE key'[e] = 0
  BY <1>5, AtArrival, OutstandingTyped
<1>6. CASE key'[e] = 0
  BY <1>1, <1>2, <1>6
<1>7. CASE ~MailTick /\ key'[e] = key[e]
  <2>1. Known(e)
    BY <1>7 DEF Known, NoKey
  <2>2. CASE WorkOn(e)
    <3>1. row'[e].age = row[e].age /\ row'[e].lease \in {row[e].lease, 0}
      BY <2>2 DEF WorkOn, Worked
    <3> QED BY <1>1, <1>3, <1>7, <2>1, <3>1
  <2>3. ASSUME Claimed(row[e], row'[e])
        PROVE  /\ row'[e].age < RetryWindow => key'[e] <= row'[e].age
               /\ row'[e].lease > 0 => key'[e] + row'[e].lease <= RetryWindow + ClaimTime
    <3>1. row[e].status # "PENDING"
      BY <2>1 DEF Begun, Rows
    <3>2. row[e].age < RetryWindow /\ row'[e].age = row[e].age /\ row'[e].lease = ClaimTime
      BY <2>3, <3>1 DEF Claimed
    <3> QED BY <1>1, <1>3, <1>7, <2>1, <3>2
  <2> QED BY <1>7, <2>2, <2>3, RowChanges
<1> QED BY <1>4, <1>5, <1>6, <1>7, ProviderSteps

\* A request under way is younger than the provider's memory of the first one.
LEMMA OutstandingInTime ==
    ASSUME WindowAssumption, Types, Busy, Same, InTime
    PROVE  \A m \in Outstanding : Known(m[1]) => /\ key[m[1]] < RetryWindow + ClaimTime + Stall
                                                 /\ key[m[1]] < Dedup
<1>1. {RetryWindow, ClaimTime, Stall, Dedup} \subseteq Nat /\ RetryWindow + ClaimTime + Stall <= Dedup
  BY DEF WindowAssumption
<1>2. ASSUME NEW w \in Workers, worker[w].step = "sending", Known(At(w))
      PROVE  key[At(w)] < RetryWindow + ClaimTime + Stall
  <2>1. worker[w] \in Claims /\ At(w) \in Emails /\ key[At(w)] \in Nat
    BY <1>1, <1>2 DEF Types, RestOK, Busy, NoKey
  <2>2. /\ worker[w].stalled \in Nat /\ worker[w].stalled <= Stall
        /\ key[At(w)] < RetryWindow + ClaimTime + worker[w].stalled
    BY <1>2, <2>1 DEF InTime, Claims
  <2> QED BY <1>1, <2>1, <2>2
<1>3. ASSUME NEW m \in Outstanding, Known(m[1]) PROVE key[m[1]] < RetryWindow + ClaimTime + Stall
  BY <1>2, <1>3 DEF Outstanding, Sending, InTime
<1>4. \A m \in Outstanding : key[m[1]] \in Nat
  BY <1>1, OutstandingTyped DEF Types, RestOK, NoKey
<1> QED BY <1>1, <1>3, <1>4

LEMMA InTimeStep ==
    ASSUME WindowAssumption, Types, Rows, Busy, Young, InTime, Same, [MailNext]_mailVars
    PROVE  InTime'
<1>0. {RetryWindow, ClaimTime, Stall, Dedup} \subseteq Nat /\ ClaimTime > 0 /\ NoKey = Dedup + 1
  BY DEF WindowAssumption, NoKey
<1>1. ASSUME NEW e \in Emails, key'[e] # NoKey, ~MailTick
      PROVE  key'[e] = 0 \/ (key'[e] = key[e] /\ Known(e))
  <2>1. ASSUME NEW m \in Outstanding, Arrive(m[1], m[2]), key'[e] # key[e] PROVE key'[e] = 0
    BY <2>1, AtArrival, OutstandingTyped
  <2> QED BY <1>1, <2>1, ProviderSteps DEF Known, NoKey
<1>2. ASSUME NEW w \in Workers, worker'[w].step = "sending"
      PROVE  /\ worker'[w].stalled <= Stall
             /\ key'[worker'[w].email] # NoKey => key'[worker'[w].email] < RetryWindow + ClaimTime + worker'[w].stalled
  <2> DEFINE e == worker[w].email
  <2>1. Onward(w) /\ worker'[w].step # "idle" /\ worker'[w].step # "claimed"
    BY <1>2, WorkersGoOn
  <2>2. worker[w].step # "idle" /\ worker'[w].email = e /\ e \in Emails
    BY <2>1 DEF Onward, Busy, At
  <2>3. /\ key[e] \in 0 .. NoKey /\ worker[w].stalled \in Nat /\ row[e].lease \in 0 .. ClaimTime
    <3>1. worker[w] \in Claims
      BY DEF Types
    <3> QED BY <2>2, <3>1 DEF Types, RestOK, Claims, Logs
  <2>4. CASE worker[w].step = "sending" /\ worker'[w].stalled = worker[w].stalled /\ ~MailTick
    <3>1. worker[w].stalled <= Stall /\ (Known(e) => key[e] < RetryWindow + ClaimTime + worker[w].stalled)
      BY <2>4 DEF InTime, At
    <3> QED BY <1>0, <1>1, <2>2, <2>3, <2>4, <3>1 DEF Known
  <2>5. CASE MailTick
    <3>1. worker[w].step = "sending" /\ worker'[w].stalled = worker[w].stalled + 1
      BY <1>2, <2>5, OtherWorkers
    <3>2. worker[w].stalled < Stall
      BY <2>5, <3>1 DEF MailTick
    <3>3. Known(e) => key[e] < RetryWindow + ClaimTime + worker[w].stalled
      BY <3>1 DEF InTime, At
    <3>4. key'[e] = IF key[e] = NoKey THEN NoKey ELSE More(key[e], Dedup)
      BY <2>2, <2>5 DEF MailTick
    <3>5. key'[e] # NoKey => Known(e) /\ key'[e] <= key[e] + 1 /\ key'[e] \in Nat
      BY <1>0, <2>3, <3>4 DEF More, Known
    <3> HIDE DEF e
    <3>6. worker'[w].stalled <= Stall
      BY <1>0, <2>3, <3>1, <3>2
    <3>7. key'[e] # NoKey => key'[e] < RetryWindow + ClaimTime + worker'[w].stalled
      BY <1>0, <2>3, <3>1, <3>3, <3>5
    <3> QED BY <2>2, <3>6, <3>7
  <2>6. CASE Prepare(w) /\ OwnerInTime(w) /\ worker'[w].stalled = 0 /\ ~MailTick
    <3>1. row[e].lease > 0
      BY <2>6 DEF OwnerInTime
    <3>2. Known(e) => key[e] + row[e].lease <= RetryWindow + ClaimTime
      BY <2>2, <3>1 DEF Young
    <3>3. key'[e] # NoKey => key'[e] < RetryWindow + ClaimTime
      BY <1>0, <1>1, <2>2, <2>3, <2>6, <3>1, <3>2
    <3>4. worker'[w].stalled = 0 /\ 0 <= Stall /\ RetryWindow + ClaimTime + 0 = RetryWindow + ClaimTime
      BY <1>0, <2>6
    <3> QED BY <2>2, <3>3, <3>4
  <2> QED BY <1>2, <2>1, <2>2, <2>4, <2>5, <2>6 DEF Onward
<1>3. ASSUME NEW m \in late', key'[m[1]] # NoKey PROVE key'[m[1]] < RetryWindow + ClaimTime + Stall
  <2>1. CASE MailTick
    BY <1>3, <2>1 DEF MailTick
  <2>2. CASE ~MailTick
    <3>1. m \in Outstanding
      BY <1>3, <2>2, ProviderSteps DEF Outstanding
    <3>2. m[1] \in Emails
      BY <3>1, OutstandingTyped
    <3> QED BY <1>0, <1>1, <1>3, <2>2, <3>1, <3>2, OutstandingInTime
  <2> QED BY <2>1, <2>2
<1> QED BY <1>2, <1>3 DEF InTime, At, Known, NoKey

LEMMA OnceStep ==
    ASSUME WindowAssumption, Types, Busy, InTime, Once, Same, [MailNext]_mailVars
    PROVE  Once'
<1>0. Dedup \in Nat /\ NoKey = Dedup + 1 /\ \A e \in Emails : key[e] \in 0 .. NoKey
  BY DEF WindowAssumption, NoKey, Types, RestOK
<1>1. CASE UNCHANGED <<mailed, key>>
  BY <1>1 DEF Once, Known, NoKey
<1>2. CASE MailTick
  <2>1. mailed' = mailed /\ \A e \in Emails : key'[e] = IF key[e] = NoKey THEN NoKey ELSE More(key[e], Dedup)
    BY <1>2 DEF MailTick
  <2>2. \A e \in Emails : Known(e)' = Known(e)
    BY <1>0, <2>1 DEF Known, More
  <2> QED BY <2>1, <2>2 DEF Once
<1>3. ASSUME NEW m \in Outstanding, Arrive(m[1], m[2]) PROVE Once'
  <2> DEFINE e == m[1]
  <2>1. e \in Emails
    BY OutstandingTyped
  <2>2. \A x \in Emails : /\ key'[x] = IF x = e /\ key[e] >= Dedup THEN 0 ELSE key[x]
                          /\ mailed'[x] = IF x = e /\ key[e] >= Dedup THEN mailed[x] + 1 ELSE mailed[x]
    BY <1>3, <2>1, AtArrival
  <2>3. Known(e) => ~(key[e] >= Dedup)
    BY <1>0, <2>1, OutstandingInTime
  <2>4. 0 # NoKey /\ 0 + 1 = 1
    BY <1>0
  <2> HIDE DEF e
  <2>5. ASSUME NEW x \in Emails PROVE mailed'[x] = IF key'[x] # NoKey THEN 1 ELSE 0
    BY <2>2, <2>3, <2>4 DEF Once, Known
  <2> QED BY <2>5 DEF Once, Known, NoKey
<1> QED BY <1>1, <1>2, <1>3, ProviderSteps

-----------------------------------------------------------------------------
(* Payloads *)

LEMMA OutstandingPrepared ==
    ASSUME Types, Busy, Same
    PROVE  \A m \in Outstanding : m[2] # 0 /\ m[2] = row[m[1]].payload
BY DEF Outstanding, Sending, Same

LEMMA PreparedPayload ==
    ASSUME Types, NEW w \in Workers, Prepare(w), OwnerInTime(w), At(w) \in Emails
    PROVE  row'[At(w)].payload = Rendered(w) /\ Rendered(w) # 0
<1>1. row \in [Emails -> Logs] /\ row[At(w)] \in Logs
  BY DEF Types
<1>2. row' = [row EXCEPT ![At(w)] = [row[At(w)] EXCEPT !.payload = Rendered(w)]]
  BY DEF Prepare, At
<1>3. row'[At(w)] = [row[At(w)] EXCEPT !.payload = Rendered(w)]
  BY <1>1, <1>2
<1>4. row'[At(w)].payload = Rendered(w)
  BY <1>1, <1>3 DEF Logs
<1> QED BY <1>4 DEF Rendered, Types, RestOK

LEMMA SameStep ==
    ASSUME WindowAssumption, Types, Rows, Busy, Alone, Same, [MailNext]_mailVars
    PROVE  Same'
<1>1. \A e \in Emails : row[e].payload # 0 => row'[e].payload = row[e].payload
  BY EveryRowForward DEF Forward
<1>2. ASSUME NEW m \in Outstanding PROVE m[1] \in Emails /\ m[2] # 0 /\ m[2] = row'[m[1]].payload
  BY <1>1, OutstandingPrepared, OutstandingTyped
<1>3. ASSUME NEW w \in Workers, worker'[w].step = "claimed",
             Owner(w)' \/ worker'[w].payload # 0
      PROVE  worker'[w].payload = row'[worker'[w].email].payload
  <2> DEFINE e == worker[w].email
  <2>1. Onward(w)
    BY WorkersGoOn
  <2>2. CASE worker[w].step = "idle"
    BY <1>3, <2>1, <2>2 DEF Onward
  <2>3. CASE worker[w].step # "idle"
    <3>1. /\ worker'[w].email = e /\ e \in Emails /\ worker[w].step = "claimed"
          /\ worker'[w].payload = worker[w].payload /\ worker'[w].attempt = worker[w].attempt
          /\ worker[w].attempt \in 1 .. row[e].attempts
      BY <1>3, <2>1, <2>3 DEF Onward, Busy, At
    <3>2. CASE worker[w].payload # 0
      BY <1>1, <3>1, <3>2 DEF Same, At
    <3>3. CASE worker[w].payload = 0
      <4>1. row'[e].status = "PROCESSING" /\ row'[e].attempts = worker[w].attempt /\ row[e].attempts \in Nat
        BY <1>3, <3>1, <3>3 DEF Owner, Types, Logs
      <4>2. Owner(w) => worker[w].payload = row[e].payload
        BY <3>1 DEF Same, At
      <4>3. ~Claimed(row[e], row'[e])
        BY <3>1, <4>1 DEF Claimed
      <4>4. row[e].status = "PROCESSING" /\ row'[e].attempts = row[e].attempts
        BY <3>1, <4>1, <4>3, RowChanges DEF WorkOn, Worked, Aged
      <4>5. Owner(w)
        BY <4>1, <4>4 DEF Owner
      <4>6. ASSUME NEW v \in Workers, Prepare(v), OwnerInTime(v), At(v) = e, worker'[v].step = "sending"
            PROVE  FALSE
        <5>1. v # w /\ worker[v].step = "claimed"
          BY <1>3, <4>6 DEF Prepare
        <5>2. worker[v].attempt = worker[w].attempt
          BY <4>1, <4>4, <4>6 DEF OwnerInTime, Owner, At
        <5> QED BY <3>1, <4>6, <5>1, <5>2 DEF Alone, At
      <4>7. row'[e].payload = row[e].payload
        BY <3>1, <4>3, <4>6, RowChanges DEF WorkOn, Aged
      <4> QED BY <3>1, <4>2, <4>5, <4>7
    <3> QED BY <3>2, <3>3
  <2> QED BY <2>2, <2>3
<1>4. ASSUME NEW w \in Workers, worker'[w].step = "sending"
      PROVE  worker'[w].payload # 0 /\ worker'[w].payload = row'[worker'[w].email].payload
  <2> DEFINE e == worker[w].email
  <2>1. Onward(w)
    BY WorkersGoOn
  <2>2. worker'[w].email = e /\ e \in Emails /\ worker[w].step # "idle"
    BY <1>4, <2>1 DEF Onward, Busy, At
  <2>3. CASE worker[w].step = "sending" /\ worker'[w].payload = worker[w].payload
    BY <1>1, <2>2, <2>3 DEF Same, At
  <2>4. CASE Prepare(w) /\ OwnerInTime(w) /\ worker'[w].payload = Rendered(w)
    BY <2>2, <2>4, PreparedPayload DEF At
  <2> QED BY <1>4, <2>1, <2>2, <2>3, <2>4 DEF Onward
<1>5. \A m \in late' : m[2] # 0 /\ m[2] = row'[m[1]].payload
  BY <1>2, ProviderSteps DEF MailTick, Outstanding
<1>6. (\A e \in Emails : payload'[e] # 0 => payload'[e] = row'[e].payload) /\ clash' = {}
  <2>0. (\A e \in Emails : payload[e] # 0 => payload[e] = row[e].payload) /\ clash = {}
    BY DEF Same
  <2>1. CASE UNCHANGED <<payload, clash>>
    BY <1>1, <2>0, <2>1
  <2>2. ASSUME NEW m \in Outstanding, Arrive(m[1], m[2])
        PROVE  (\A e \in Emails : payload'[e] # 0 => payload'[e] = row'[e].payload) /\ clash' = {}
    <3>1. m[1] \in Emails /\ m[2] # 0 /\ m[2] = row'[m[1]].payload /\ m[2] = row[m[1]].payload
      BY <1>2, OutstandingPrepared
    <3>2. \A x \in Emails : payload'[x] = IF x = m[1] /\ payload[m[1]] = 0 THEN m[2] ELSE payload[x]
      BY <2>2, <3>1, AtArrival
    <3>3. clash' = IF payload[m[1]] \notin {0, m[2]} THEN clash \cup {m[1]} ELSE clash
      BY <2>2, <3>1, AtArrival
    <3> QED BY <1>1, <2>0, <3>1, <3>2, <3>3
  <2> QED BY <2>1, <2>2, ProviderSteps DEF MailTick
<1> QED BY <1>3, <1>4, <1>5, <1>6 DEF Same, At

-----------------------------------------------------------------------------
(* Acceptance *)

LEMMA KnownStays ==
    ASSUME WindowAssumption, Types, Busy, Same, [MailNext]_mailVars, NEW e \in Emails, Known(e)
    PROVE  key'[e] # NoKey
<1>0. key[e] \in 0 .. NoKey /\ Dedup \in Nat /\ NoKey = Dedup + 1 /\ key[e] # NoKey
  BY DEF Types, RestOK, WindowAssumption, NoKey, Known
<1>1. CASE MailTick
  <2>1. key'[e] = More(key[e], Dedup)
    BY <1>0, <1>1 DEF MailTick
  <2> QED BY <1>0, <2>1 DEF More
<1>2. ASSUME NEW m \in Outstanding, Arrive(m[1], m[2]) PROVE key'[e] # NoKey
  <2>1. key'[e] \in {0, key[e]}
    BY <1>2, AtArrival, OutstandingTyped
  <2> QED BY <1>0, <2>1
<1> QED BY <1>0, <1>1, <1>2, ProviderSteps

LEMMA AcceptedStep ==
    ASSUME WindowAssumption, Types, Busy, Accepted, Same, [MailNext]_mailVars
    PROVE  Accepted'
<1> SUFFICES ASSUME NEW w \in Workers, worker'[w].step = "answered", worker'[w].outcome = "accepted"
             PROVE  key'[worker'[w].email] # NoKey
  BY DEF Accepted, Known, At, NoKey
<1>1. Onward(w)
  BY WorkersGoOn
<1>2. worker[w].step # "idle" /\ worker'[w].email = At(w) /\ At(w) \in Emails
  BY <1>1 DEF Onward, Busy, At
<1>3. CASE SendAccepted(w)
  <2>1. Arrive(At(w), worker[w].payload)
    BY <1>3, ProviderSteps
  <2>2. key'[At(w)] = IF key[At(w)] >= Dedup THEN 0 ELSE key[At(w)]
    BY <1>2, <2>1, AtArrival
  <2>3. key[At(w)] \in 0 .. NoKey /\ Dedup \in Nat /\ NoKey = Dedup + 1
    BY <1>2 DEF Types, RestOK, WindowAssumption, NoKey
  <2> QED BY <1>2, <2>2, <2>3
<1>4. CASE worker[w].step = "answered" /\ worker[w].outcome = "accepted"
  BY <1>2, <1>4, KnownStays DEF Accepted
<1> QED BY <1>1, <1>2, <1>3, <1>4 DEF Onward

LEMMA SentStep ==
    ASSUME WindowAssumption, Types, Rows, Busy, InTime, Once, Accepted, SentIsTrue, Same, [MailNext]_mailVars
    PROVE  SentIsTrue'
<1> SUFFICES ASSUME NEW e \in Emails, row'[e].status = "SENT" PROVE mailed'[e] > 0
  BY DEF SentIsTrue
<1>1. Once'
  BY OnceStep
<1>2. row[e].status = "SENT" => Known(e)
  BY DEF SentIsTrue, Once
<1>3. ASSUME NEW w \in Workers, RecordSent(w), At(w) = e PROVE Known(e)
  BY <1>3 DEF RecordSent, Accepted
<1>4. row[e].status = "SENT" \/ \E w \in Workers : RecordSent(w) /\ At(w) = e
  BY RowChanges DEF Claimed, WorkOn, Aged
<1>5. key'[e] # NoKey
  BY <1>2, <1>3, <1>4, KnownStays
<1> QED BY <1>1, <1>5 DEF Once, Known, NoKey

-----------------------------------------------------------------------------
(* The theorems *)

LEMMA Initially == WindowAssumption /\ MailInit => IInv
<1> SUFFICES ASSUME WindowAssumption, MailInit PROVE IInv
  OBVIOUS
<1>0. {RetryWindow, ClaimTime, Stall, Dedup} \subseteq Nat /\ NoKey = Dedup + 1
  BY DEF WindowAssumption, NoKey
<1>1. NoRow \in Logs /\ NoRow.status = "NONE" /\ NoRow.attempts = 0 /\ NoRow.lease = 0
  BY <1>0 DEF NoRow, Logs, Status
<1>2. Idle.step = "idle"
  BY DEF Idle
<1>9. \A e \in Emails : row[e] = NoRow /\ mailed[e] = 0 /\ payload[e] = 0 /\ key[e] = NoKey
  BY DEF MailInit
<1>3. \A e \in Emails : /\ row[e] = NoRow /\ mailed[e] = 0 /\ payload[e] = 0
                        /\ ~Known(e) /\ ~Started(e)
  <2> SUFFICES ASSUME NEW e \in Emails PROVE ~Known(e) /\ ~Started(e)
    BY <1>9
  <2>1. row[e].attempts = 0 /\ key[e] = NoKey
    BY <1>1, <1>9
  <2> QED BY <2>1 DEF Known, Started
<1>4. \A w \in Workers : worker[w] = Idle /\ worker[w].step = "idle"
  BY <1>2 DEF MailInit
<1>5. late = {} /\ clash = {} /\ settings = 1
  BY DEF MailInit
<1>6. Types
  BY <1>0, <1>1, IdleClaim DEF MailInit, Types, RestOK
<1>7. Rows /\ Busy /\ Alone /\ Begun /\ Ordered
  BY <1>1, <1>3, <1>4, <1>5 DEF Rows, Busy, Alone, Begun, Ordered, Terminal
<1>8. Young /\ InTime /\ Once /\ Same /\ Accepted /\ SentIsTrue
  BY <1>1, <1>3, <1>4, <1>5 DEF Young, InTime, Once, Same, Accepted, SentIsTrue
<1> QED BY <1>6, <1>7, <1>8 DEF IInv

LEMMA Preserved == WindowAssumption /\ IInv /\ [MailNext]_mailVars => IInv'
BY TypesStep, RowsStep, BusyStep, BegunStep, OrderedStep, YoungStep, InTimeStep, OnceStep,
   SameStep, AcceptedStep, SentStep DEF IInv

LEMMA Invariance == WindowAssumption => (MailSpec => []IInv)
<1> SUFFICES ASSUME WindowAssumption PROVE MailSpec => []IInv
  OBVIOUS
<1>1. MailInit => IInv
  BY Initially
<1>2. IInv /\ [MailNext]_mailVars => IInv'
  BY Preserved
<1> QED BY <1>1, <1>2, PTL DEF MailSpec

\* The customer gets each e-mail at most once, whatever answers are lost, however
\* many workers send it and however often: the last request reaches the provider
\* while it still knows the first.
THEOREM NoMailTwice == WindowAssumption => (MailSpec => []AtMostOneMail)
<1>1. IInv => AtMostOneMail
  <2>1. IInv => \A e \in Emails : mailed[e] \in {0, 1}
    BY DEF IInv, Once
  <2>2. 0 <= 1 /\ 1 <= 1
    OBVIOUS
  <2> QED BY <2>1, <2>2 DEF AtMostOneMail
<1> QED BY <1>1, Invariance, PTL

\* Every request of an e-mail carries the payload stored before the first one,
\* whatever is deployed in between, so that the provider refuses none of them.
THEOREM PayloadNeverChanges == WindowAssumption => (MailSpec => []PayloadIsStable)
<1>1. IInv => PayloadIsStable
  BY DEF IInv, Same, PayloadIsStable
<1> QED BY <1>1, Invariance, PTL

\* The later e-mail of an order waits for the final status of the earlier ones,
\* which claimNext sees in the rows its own sweep has just changed.
THEOREM MailsInOrder == WindowAssumption => (MailSpec => []InOrder)
<1>1. IInv => InOrder
  BY DEF IInv, Begun, Ordered, InOrder
<1> QED BY <1>1, Invariance, PTL

\* An e-mail recorded as SENT has been mailed.
THEOREM SentMeansMailed == WindowAssumption => (MailSpec => []SentIsTrue)
<1>1. IInv => SentIsTrue
  BY DEF IInv
<1> QED BY <1>1, Invariance, PTL

\* What is SENT, FAILED or UNKNOWN stays it, with all its columns but the times:
\* no worker that comes late from a lost lease changes it.
THEOREM FinalStatusStays == WindowAssumption => (MailSpec => [][FinalStays]_mailVars)
<1> SUFFICES ASSUME WindowAssumption PROVE MailSpec => [][FinalStays]_mailVars
  OBVIOUS
<1>1. IInv /\ [MailNext]_mailVars => [FinalStays]_mailVars
  BY EveryRowForward DEF IInv, Forward, FinalStays
<1> QED BY <1>1, Invariance, PTL DEF MailSpec

\* Both together: a mail goes out once at most, and each of its requests carries the
\* same payload.
THEOREM MailsGoOutOnce == WindowAssumption => (MailSpec => []MailsAreSentOnce)
<1>1. AtMostOneMail /\ PayloadIsStable => MailsAreSentOnce
  BY DEF MailsAreSentOnce
<1> QED BY <1>1, NoMailTwice, PayloadNeverChanges, PTL
=============================================================================
