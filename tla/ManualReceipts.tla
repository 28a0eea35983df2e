---------------------------- MODULE ManualReceipts ----------------------------
(***************************************************************************)
(* Recording money by hand: members send a receipt or a refund with an     *)
(* Idempotency-Key, send it again when the answer was lost, or use a key   *)
(* twice by mistake, while orders are confirmed, settled or cancelled and  *)
(* receipts are voided.                                                    *)
(*                                                                         *)
(* This is the command that module IdempotencyClaims protects and that     *)
(* module RentalLedger books; here it is the whole request, from the       *)
(* validation of its body to its answer.  The claim is one step, a stale   *)
(* one may be taken over at any time, and records do not expire (30 days). *)
(* Deposits are left to RentalLedger; an order costs Price and has no      *)
(* further charges.                                                        *)
(***************************************************************************)
EXTENDS Integers, FiniteSets, Folds

CONSTANTS Call,        \* calls of the endpoint, retries included
          Member,      \* who calls: keys are scoped to the member
          Key,
          Order,
          Commands,    \* the bodies that are sent
          Price,
          LastTime,    \* bound: the clock stops here
          NoOne

VARIABLES rows,      \* payment_transactions, by the request that created them
          claim,     \* idempotency_records, by member and key
          status,    \* rental_orders.status
          receipts,  \* net of what confirmation and settlement collected
          sent,      \* what each request asks for, and as whom
          phase,     \* where it stands
          reply,     \* what its caller got
          clock

receiptVars == <<rows, claim, status, receipts, sent, phase, reply, clock>>

Moments == 0 .. LastTime
Omitted == -1                \* no paidAt in the body
Missing == "missing"    \* the id of an order the shop does not have

\* A body; paidAt may be left out.
Body == [order : Order \cup {Missing}, direction : {"IN", "OUT"},
         purpose : {"RENTAL_PAYMENT", "ORDER_REFUND", "OTHER"}, amount : Nat \ {0},
         paidAt : Moments \cup {Omitted}]

CommandsAssumption == /\ Commands \subseteq Body /\ LastTime \in Nat /\ Price \in Nat
                      /\ NoOne \notin Call /\ NoOne \notin Commands

Ask == [member : Member, key : Key, body : Commands]
NoAsk == [member |-> NoOne, key |-> NoOne, body |-> NoOne]

\* The public projection of a receipt, which the claim stores.
Receipt == [number : Call, body : Commands, paidAt : Moments]
NoReceipt == [number |-> NoOne, body |-> NoOne, paidAt |-> 0]

PaymentRow == [body : Commands, paidAt : Moments, live : BOOLEAN]
NoPayment == [body |-> NoOne, paidAt |-> 0, live |-> FALSE]
Recorded(q) == rows[q] # NoPayment

\* No record: owner NoOne.
NoClaim == [owner |-> NoOne, hash |-> NoOne, completed |-> FALSE, result |-> NoReceipt]

-----------------------------------------------------------------------------
(* The request *)

AnyDirection(body) == TRUE

\* Refunds go out, and nothing else but OTHER does.
DirectionFits(body) ==
    /\ body.purpose = "ORDER_REFUND" => body.direction = "OUT"
    /\ body.direction = "OUT" => body.purpose \in {"ORDER_REFUND", "OTHER"}

\* Hashes the time the money is booked at instead of the one that was sent.
HashOfBooked(body) ==
    [body EXCEPT !.paidAt = IF body.paidAt = Omitted THEN clock ELSE body.paidAt]

\* Forgets which order the money is for.
HashWithoutOrder(body) == [body EXCEPT !.order = Missing]

\* The canonical body: paidAt is hashed as it was sent.
Hash(body) == body

\* One scope for the whole shop.
ScopeOfShop(m, k) == <<CHOOSE member \in Member : TRUE, k>>

\* The scope carries the member's id.
Scope(m, k) == <<m, k>>

ScopeOf(r) == Scope(sent[r].member, sent[r].key)

\* Answers without the stored receipt.
TellWithoutReceipt(r, kind, result) ==
    /\ phase' = [phase EXCEPT ![r] = "done"]
    /\ reply' = [reply EXCEPT ![r] = [kind |-> kind, result |-> NoReceipt]]

Tell(r, kind, result) ==
    /\ phase' = [phase EXCEPT ![r] = "done"]
    /\ reply' = [reply EXCEPT ![r] = [kind |-> kind, result |-> result]]

TakeClaim(r, scope, body) ==
    /\ claim' = [claim EXCEPT ![scope] =
                    [owner |-> r, hash |-> Hash(body), completed |-> FALSE,
                     result |-> NoReceipt]]
    /\ phase' = [phase EXCEPT ![r] = "claimed"]
    /\ UNCHANGED reply

\* createPayment up to its claim.  An unfinished claim with the same hash is
\* in progress, or stale and taken over.
Send(r, m, k, body) ==
    LET scope == Scope(m, k) IN
    /\ phase[r] = "idle"
    /\ sent' = [sent EXCEPT ![r] = [member |-> m, key |-> k, body |-> body]]
    /\ UNCHANGED <<rows, status, receipts, clock>>
    /\ \/ /\ ~DirectionFits(body)
          /\ Tell(r, "INVALID", NoReceipt)
          /\ UNCHANGED claim
       \/ /\ DirectionFits(body)
          /\ claim[scope] = NoClaim
          /\ TakeClaim(r, scope, body)
       \/ /\ DirectionFits(body)
          /\ claim[scope] # NoClaim
          /\ \/ /\ claim[scope].hash # Hash(body)
                /\ Tell(r, "HASH_MISMATCH", NoReceipt)
                /\ UNCHANGED claim
             \/ /\ claim[scope].hash = Hash(body)
                /\ claim[scope].completed
                /\ Tell(r, "REPLAYED", claim[scope].result)
                /\ UNCHANGED claim
             \/ /\ claim[scope].hash = Hash(body)
                /\ ~claim[scope].completed
                /\ \/ Tell(r, "IN_PROGRESS", NoReceipt) /\ UNCHANGED claim
                   \/ TakeClaim(r, scope, body)

-----------------------------------------------------------------------------
(* The transaction *)

Signed(body) == IF body.direction = "IN" THEN body.amount ELSE -body.amount

\* What is held for the order apart from deposits, without the rows of S.
NetWithout(o, S) ==
    MapThenFoldSet(+, receipts[o], LAMBDA q : Signed(rows[q].body), LAMBDA T : CHOOSE q \in T : TRUE,
                   {q \in Call \ S : rows[q].live /\ rows[q].body.order = o})

Net(o) == NetWithout(o, {})

\* assertPaymentCreationAllowed: a completed order takes refunds only.
CreationAllowed(body) ==
    \/ status[body.order] \in {"RESERVED", "CONFIRMED"}
    \/ status[body.order] = "COMPLETED" /\ body.purpose = "ORDER_REFUND"

RefundCovered(body) == body.purpose = "ORDER_REFUND" => body.amount <= Net(body.order)

\* A lock that finds the claim by its key only.
LocksByKey(r) == claim[ScopeOf(r)] # NoClaim

ClaimIsOwn(r) == claim[ScopeOf(r)].owner = r

\* Leaves the request to the finally block, with the error its caller gets.
GiveUp(r, kind) ==
    /\ phase' = [phase EXCEPT ![r] = "release"]
    /\ reply' = [reply EXCEPT ![r] = [kind |-> kind, result |-> NoReceipt]]
    /\ UNCHANGED <<rows, claim, status, receipts, sent, clock>>

\* createPayment of the repository refuses: the claim was taken over, the
\* order does not exist, its state or its balance forbids it, the database fails.
Refuse(r) ==
    LET body == sent[r].body IN
    /\ phase[r] = "claimed"
    /\ \/ ~ClaimIsOwn(r) /\ GiveUp(r, "CLAIM_LOST")
       \/ ClaimIsOwn(r) /\ body.order = Missing /\ GiveUp(r, "NOT_FOUND")
       \/ /\ ClaimIsOwn(r) /\ body.order # Missing
          /\ ~(CreationAllowed(body) /\ RefundCovered(body))
          /\ GiveUp(r, "REFUSED")
       \/ GiveUp(r, "ERROR")

\* Row and completed claim commit together; the answer of the commit may be
\* lost, which the service takes for a failure.
Record(r) ==
    LET body == sent[r].body
        paidAt == IF body.paidAt = Omitted THEN clock ELSE body.paidAt
        receipt == [number |-> r, body |-> body, paidAt |-> paidAt]
    IN
    /\ phase[r] = "claimed"
    /\ ClaimIsOwn(r)
    /\ body.order # Missing
    /\ CreationAllowed(body) /\ RefundCovered(body)
    /\ rows' = [rows EXCEPT ![r] = [body |-> body, paidAt |-> paidAt, live |-> TRUE]]
    /\ claim' = [claim EXCEPT ![ScopeOf(r)].completed = TRUE, ![ScopeOf(r)].result = receipt]
    /\ \/ Tell(r, "EXECUTED", receipt)
       \/ /\ phase' = [phase EXCEPT ![r] = "release"]
          /\ reply' = [reply EXCEPT ![r] = [kind |-> "ERROR", result |-> NoReceipt]]
    /\ UNCHANGED <<status, receipts, sent, clock>>

\* Releases in a catch block: an order that was not found throws later.
ReleasedInCatch(r) == reply[r].kind # "NOT_FOUND"

\* Whatever went wrong, the finally block releases.
Releases(r) == TRUE

\* releasePaymentIdempotency: only one's own, and only before it is completed.
ReleaseKey(r) ==
    /\ phase[r] = "release"
    /\ phase' = [phase EXCEPT ![r] = "done"]
    /\ claim' = IF Releases(r) /\ ClaimIsOwn(r) /\ ~claim[ScopeOf(r)].completed
                THEN [claim EXCEPT ![ScopeOf(r)] = NoClaim]
                ELSE claim
    /\ UNCHANGED <<rows, status, receipts, sent, reply, clock>>

\* The release itself fails, which is only logged.
ReleaseFails(r) ==
    /\ phase[r] = "release"
    /\ phase' = [phase EXCEPT ![r] = "unreleased"]
    /\ UNCHANGED <<rows, claim, status, receipts, sent, reply, clock>>

Die(r) ==
    /\ phase[r] \in {"claimed", "release"}
    /\ phase' = [phase EXCEPT ![r] = "crashed"]
    /\ UNCHANGED <<rows, claim, status, receipts, sent, reply, clock>>

-----------------------------------------------------------------------------
(* What else happens to the money *)

\* voidPayment, of a manual row of an order that was never confirmed.
VoidPayment(q) ==
    LET o == rows[q].body.order IN
    /\ rows[q].live
    /\ status[o] = "RESERVED"
    /\ NetWithout(o, {q}) >= 0
    /\ rows' = [rows EXCEPT ![q].live = FALSE]
    /\ UNCHANGED <<claim, status, receipts, sent, phase, reply, clock>>

\* confirmOrder collects the rest of the price.
ConfirmOrder(o) ==
    /\ status[o] = "RESERVED"
    /\ status' = [status EXCEPT ![o] = "CONFIRMED"]
    /\ receipts' = [receipts EXCEPT ![o] = IF Net(o) < Price THEN Price - Net(o) ELSE 0]
    /\ UNCHANGED <<rows, claim, sent, phase, reply, clock>>

\* The order is handed over, returned and settled: what is missing is
\* collected, what is too much refunded.
SettleOrder(o) ==
    /\ status[o] = "CONFIRMED"
    /\ status' = [status EXCEPT ![o] = "COMPLETED"]
    /\ receipts' = [receipts EXCEPT ![o] = @ + Price - Net(o)]
    /\ UNCHANGED <<rows, claim, sent, phase, reply, clock>>

CancelOrder(o) ==
    /\ status[o] = "RESERVED"
    /\ status' = [status EXCEPT ![o] = "CANCELLED"]
    /\ UNCHANGED <<rows, claim, receipts, sent, phase, reply, clock>>

ReceiptsTick ==
    /\ clock < LastTime
    /\ clock' = clock + 1
    /\ UNCHANGED <<rows, claim, status, receipts, sent, phase, reply>>

-----------------------------------------------------------------------------
ReceiptsInit ==
    /\ rows = [q \in Call |-> NoPayment]
    /\ claim = [s \in Member \X Key |-> NoClaim]
    /\ status = [o \in Order |-> "RESERVED"]
    /\ receipts = [o \in Order |-> 0]
    /\ sent = [r \in Call |-> NoAsk]
    /\ phase = [r \in Call |-> "idle"]
    /\ reply = [r \in Call |-> [kind |-> "NONE", result |-> NoReceipt]]
    /\ clock = 0

ReceiptsNext ==
    \/ \E r \in Call :
        \/ \E m \in Member, k \in Key, body \in Commands : Send(r, m, k, body)
        \/ Refuse(r)
        \/ Record(r)
        \/ ReleaseKey(r)
        \/ ReleaseFails(r)
        \/ Die(r)
        \/ VoidPayment(r)
    \/ \E o \in Order : ConfirmOrder(o) \/ SettleOrder(o) \/ CancelOrder(o)
    \/ ReceiptsTick

ReceiptsSpec == ReceiptsInit /\ [][ReceiptsNext]_receiptVars

-----------------------------------------------------------------------------
(* Properties *)

\* Every row holds a value of its type.
ReceiptsTypeOK ==
    /\ rows \in [Call -> PaymentRow \cup {NoPayment}]
    /\ status \in [Order -> {"RESERVED", "CONFIRMED", "COMPLETED", "CANCELLED"}]
    /\ receipts \in [Order -> Int]
    /\ sent \in [Call -> Ask \cup {NoAsk}]
    /\ phase \in [Call -> {"idle", "claimed", "release", "unreleased", "crashed", "done"}]
    /\ clock \in Moments
    /\ \A s \in Member \X Key :
        claim[s] # NoClaim =>
            /\ claim[s].owner \in Call
            /\ claim[s].result \in Receipt \cup {NoReceipt}
            /\ claim[s].completed = (claim[s].result # NoReceipt)
    /\ \A r \in Call :
        reply[r].result # NoReceipt <=> reply[r].kind \in {"EXECUTED", "REPLAYED"}

(***************************************************************************)
(* A member's key records money at most once, however often the request    *)
(* is sent, and although its order was closed, its receipt voided, its     *)
(* claim taken over from a slow owner, or its answer lost in between.      *)
(***************************************************************************)
OneReceiptPerKey ==
    \A q, r \in Call :
        Recorded(q) /\ Recorded(r) /\ sent[q].member = sent[r].member /\ sent[q].key = sent[r].key
            => q = r

(***************************************************************************)
(* Whoever is told of a receipt is told of one that was recorded, as it    *)
(* was recorded, by the same member and for the very body that was sent.   *)
(***************************************************************************)
AnswersTellTheReceipt ==
    \A r \in Call :
        reply[r].kind \in {"EXECUTED", "REPLAYED"} =>
            LET told == reply[r].result IN
            /\ sent[told.number].member = sent[r].member
            /\ told.body = sent[r].body
            /\ rows[told.number].body = told.body
            /\ rows[told.number].paidAt = told.paidAt

(***************************************************************************)
(* Sent again, a recorded command is answered with its receipt: not with a *)
(* conflict because the clock moved on, and not with the refusal it would  *)
(* meet if the order were asked again.                                     *)
(***************************************************************************)
ReplaysTheReceipt ==
    \A r, q \in Call :
        (phase[r] = "idle" /\ phase'[r] # "idle" /\ Recorded(q) /\ sent[q] = sent'[r])
            => reply'[r].kind = "REPLAYED" /\ reply'[r].result.number = q

RecordedIsReplayed == [][ReplaysTheReceipt]_receiptVars

(***************************************************************************)
(* A key is blocked only while somebody works under it, or after a fault:  *)
(* a request that was refused leaves the key free to be used again.        *)
(***************************************************************************)
NoClaimIsLeftBehind ==
    \A s \in Member \X Key :
        claim[s] # NoClaim /\ ~claim[s].completed =>
            phase[claim[s].owner] \in {"claimed", "release", "unreleased", "crashed"}

(***************************************************************************)
(* Refunds never exceed what was received for the order, unless money went *)
(* out for another purpose, which the code lets through.                   *)
(***************************************************************************)
RefundsStayCovered ==
    \A o \in Order :
        \/ Net(o) >= 0
        \/ \E q \in Call : /\ rows[q].live /\ rows[q].body.order = o
                           /\ rows[q].body.direction = "OUT" /\ rows[q].body.purpose = "OTHER"

(***************************************************************************)
(* Money is recorded once per key, callers are told of what was recorded,  *)
(* whatever they sent by mistake, a refusal leaves the key free, and       *)
(* refunds stay covered.                                                   *)
(***************************************************************************)
ReceiptsAreRecordedOnce ==
    /\ ReceiptsTypeOK
    /\ OneReceiptPerKey
    /\ AnswersTellTheReceipt
    /\ NoClaimIsLeftBehind
    /\ RefundsStayCovered
=============================================================================
