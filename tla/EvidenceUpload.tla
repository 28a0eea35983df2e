---------------------------- MODULE EvidenceUpload ----------------------------
(* The picture a clerk attaches to the confirmation or to the settlement of    *)
(* an order.  It is uploaded before the transaction, under a key of its own,   *)
(* and deleted after a failure unless the order refers to it: the answer of    *)
(* the commit may have been lost.  Uploads time out and arrive late, the       *)
(* clean-up itself fails, processes die.                                       *)
EXTENDS Naturals, FiniteSets

CONSTANTS Requests,   \* a request is also the key of its picture
          InDoubt     \* may a commit whose answer is lost still be under way when the order is read?

NoKey == "no key"
NoRecord == "no record"

EvidenceAssumption == InDoubt \in BOOLEAN /\ {NoKey, NoRecord} \cap Requests = {}

VARIABLES order,      \* status, and the evidence key of its confirmation and its settlement
          objects,    \* the pictures in the private bucket
          late,       \* uploads given up that may still arrive
          doubtful,   \* commits whose outcome nobody knows
          request,
          faulty      \* requests that met a storage failure, a failed read or a crash

evidenceVars == <<order, objects, late, doubtful, request, faulty>>

Kinds == {"confirmation", "settlement"}
Statuses == {"RESERVED", "CONFIRMED", "RETURNED", "COMPLETED", "CANCELLED"}
Idle == [step |-> "idle", kind |-> "confirmation", file |-> FALSE]
Steps == {"idle", "upload", "commit", "failed", "delete", "done"}

Needed(kind) == IF kind = "confirmation" THEN "RESERVED" ELSE "RETURNED"
Result(kind) == IF kind = "confirmation" THEN "CONFIRMED" ELSE "COMPLETED"

Kind(r) == request[r].kind
KeyOrUndefined(r) == IF request[r].file THEN r ELSE "undefined"
Key(r) == IF request[r].file THEN r ELSE NoKey
Continue(r, step) == request' = [request EXCEPT ![r].step = step]

\* The pre-check on the order as it is read, and the same test in the transaction.
Allows(kind) == order.status = Needed(kind) /\ order[kind] = NoRecord

Start(r, kind, file) ==
  /\ request[r].step = "idle"
  /\ Allows(kind)
  /\ request' = [request EXCEPT ![r] = [step |-> IF file THEN "upload" ELSE "commit",
                                        kind |-> kind, file |-> file]]
  /\ UNCHANGED <<order, objects, late, doubtful, faulty>>

-----------------------------------------------------------------------------
(* The object storage, every call under a deadline *)

PutObject(r) ==
  /\ request[r].step = "upload"
  /\ objects' = objects \cup {r}
  /\ Continue(r, "commit")
  /\ UNCHANGED <<order, late, doubtful, faulty>>

\* The upload is rejected, or its answer is lost, or it is given up under way.
PutObjectFails(r) ==
  /\ request[r].step = "upload"
  /\ \/ UNCHANGED <<objects, late>>
     \/ objects' = objects \cup {r} /\ UNCHANGED late
     \/ late' = late \cup {r} /\ UNCHANGED objects
  /\ Continue(r, "failed")
  /\ faulty' = faulty \cup {r}
  /\ UNCHANGED <<order, doubtful>>

LatePut(r) ==
  /\ r \in late
  /\ late' = late \ {r}
  /\ objects' = objects \cup {r}
  /\ UNCHANGED <<order, doubtful, request, faulty>>

DeleteObject(r) ==
  /\ request[r].step = "delete"
  /\ objects' = objects \ {r}
  /\ Continue(r, "done")
  /\ UNCHANGED <<order, late, doubtful, faulty>>

DeleteObjectFails(r) ==
  /\ request[r].step = "delete"
  /\ objects' \in {objects, objects \ {r}}
  /\ Continue(r, "done")
  /\ faulty' = faulty \cup {r}
  /\ UNCHANGED <<order, late, doubtful>>

-----------------------------------------------------------------------------
(* The transaction *)

Recorded(r) == [order EXCEPT ![Kind(r)] = Key(r), !.status = Result(Kind(r))]

StillAllowsAnyState(kind) == TRUE
StillAllows(kind) == Allows(kind)

\* It commits and is answered; an undecided one holds the locks of the order.
Commit(r) ==
  /\ request[r].step = "commit" /\ doubtful = {}
  /\ StillAllows(Kind(r))
  /\ order' = Recorded(r)
  /\ Continue(r, "done")
  /\ UNCHANGED <<objects, late, doubtful, faulty>>

Reject(r) ==
  /\ request[r].step = "commit" /\ doubtful = {}
  /\ ~StillAllows(Kind(r))
  /\ Continue(r, "failed")
  /\ UNCHANGED <<order, objects, late, doubtful, faulty>>

\* It fails without effect, or it commits and its answer is lost.
CommitFails(r) ==
  /\ request[r].step = "commit" /\ doubtful = {}
  /\ \/ UNCHANGED <<order, doubtful>>
     \/ StillAllows(Kind(r)) /\ order' = Recorded(r) /\ UNCHANGED doubtful
     \/ InDoubt /\ StillAllows(Kind(r)) /\ doubtful' = {r} /\ UNCHANGED order
  /\ Continue(r, "failed")
  /\ UNCHANGED <<objects, late, faulty>>

Decide(r) ==
  /\ r \in doubtful
  /\ doubtful' = {}
  /\ order' \in {order, Recorded(r)}
  /\ UNCHANGED <<objects, late, request, faulty>>

-----------------------------------------------------------------------------
(* After a failure the order is read again *)

RefersToNothing(r) == FALSE
RefersToAnything(r) == order[Kind(r)] # NoRecord
RefersTo(r) == order[Kind(r)] = r

\* A picture the order refers to stays; without a picture there is nothing to do.
ReadAgain(r) ==
  /\ request[r].step = "failed"
  /\ Continue(r, IF request[r].file /\ ~RefersTo(r) THEN "delete" ELSE "done")
  /\ UNCHANGED <<order, objects, late, doubtful, faulty>>

ReadAgainFails(r) ==
  /\ request[r].step = "failed" /\ request[r].file
  /\ Continue(r, "done")
  /\ faulty' = faulty \cup {r}
  /\ UNCHANGED <<order, objects, late, doubtful>>

Die(r) ==
  /\ request[r].step \notin {"idle", "done"}
  /\ Continue(r, "done")
  /\ faulty' = faulty \cup {r}
  /\ UNCHANGED <<order, objects, late, doubtful>>

-----------------------------------------------------------------------------
\* The order is handed out and comes back, or is cancelled.
OrderMoves ==
  /\ doubtful = {}
  /\ \/ order.status = "CONFIRMED" /\ order' = [order EXCEPT !.status = "RETURNED"]
     \/ order.status \in {"RESERVED", "CONFIRMED"} /\ order' = [order EXCEPT !.status = "CANCELLED"]
  /\ UNCHANGED <<objects, late, doubtful, request, faulty>>

EvidenceInit ==
  /\ order = [status |-> "RESERVED", confirmation |-> NoRecord, settlement |-> NoRecord]
  /\ objects = {} /\ late = {} /\ doubtful = {} /\ faulty = {}
  /\ request = [r \in Requests |-> Idle]

EvidenceNext ==
  \/ \E r \in Requests :
       \/ \E kind \in Kinds, file \in BOOLEAN : Start(r, kind, file)
       \/ PutObject(r) \/ PutObjectFails(r) \/ LatePut(r)
       \/ DeleteObject(r) \/ DeleteObjectFails(r)
       \/ Commit(r) \/ Reject(r) \/ CommitFails(r) \/ Decide(r)
       \/ ReadAgain(r) \/ ReadAgainFails(r) \/ Die(r)
  \/ OrderMoves

EvidenceSpec == EvidenceInit /\ [][EvidenceNext]_evidenceVars

-----------------------------------------------------------------------------
(* Properties *)

EvidenceTypeOK ==
  /\ order \in [status : Statuses, confirmation : Requests \cup {NoKey, NoRecord},
                settlement : Requests \cup {NoKey, NoRecord}]
  /\ objects \subseteq Requests /\ late \subseteq Requests
  /\ doubtful \subseteq Requests /\ Cardinality(doubtful) <= 1
  /\ request \in [Requests -> [step : Steps, kind : Kinds, file : BOOLEAN]]
  /\ faulty \subseteq Requests

\* A picture the order refers to can be shown: it is neither missing at the commit
\* nor deleted by the clean-up ("A lost commit response must not delete evidence
\* of a committed confirmation", rental-confirmation.service.ts:142).
EvidenceIsKept == \A kind \in Kinds : order[kind] \in Requests => order[kind] \in objects

\* A request that is over leaves no picture behind that no order refers to,
\* unless the storage, the second read or the process failed it.
NoOrphanWithoutFault ==
  \A r \in objects \ faulty : request[r].step = "done" => order[Kind(r)] = r

\* A confirmation and a settlement are recorded once and keep their evidence,
\* although two clerks passed the check before their uploads.
RecordedOnce == \A kind \in Kinds : order[kind] # NoRecord => order'[kind] = order[kind]

=============================================================================
