------------------------ MODULE MCIdempotencyClaims ------------------------
(* Requests that are sent again, in one TLC run: the claim protocol for any   *)
(* command (IdempotencyClaims), and the recording of money that it protects   *)
(* (ManualReceipts), once with retries of two commands and once with every    *)
(* body that goes wrong.  They share no state, so a behaviour runs one of     *)
(* them (`part`) while the other stays as it began.                           *)
EXTENDS IdempotencyClaims, ManualReceipts, Integers, TLC

CONSTANTS o1, o2   \* two orders

VARIABLE part

Pay(o, at) ==
    [order |-> o, direction |-> "IN", purpose |-> "RENTAL_PAYMENT", amount |-> 1, paidAt |-> at]

Out(purpose) ==
    [order |-> o1, direction |-> "OUT", purpose |-> purpose, amount |-> 1, paidAt |-> -1]

\* A receipt and its refund; the same money for another order or at a stated time, a
\* rental payment that goes out, money for another purpose, an order the shop does not
\* have.
Retried == {Pay(o1, -1), Out("ORDER_REFUND")}
Bodies == Retried \cup {Pay(o2, -1), Pay(o1, 0), Pay("missing", -1),
                       Out("RENTAL_PAYMENT"), Out("OTHER")}

ASSUME CommandsOK == CommandsAssumption

allVars == <<part, vars, receiptVars>>

Sent == {r \in Call : sent[r] # NoAsk}

\* Two members send two commands for one order again and again, three calls in all ...
RetriesOnly == /\ \A r \in Sent' : sent'[r].body \in Retried
               /\ status'[o2] = status[o2]

\* ... or one member sends two bodies under one key.
MistakesOnly == Cardinality(Sent') <= 2 /\ Cardinality({sent'[r].member : r \in Sent'}) <= 1

SuiteInit ==
    /\ part \in {"claims", "retries", "mistakes"}
    /\ Init /\ ReceiptsInit

SuiteNext ==
    /\ part' = part
    /\ \/ part = "claims" /\ Next /\ UNCHANGED receiptVars
       \/ part = "retries" /\ ReceiptsNext /\ RetriesOnly /\ UNCHANGED vars
       \/ part = "mistakes" /\ ReceiptsNext /\ MistakesOnly /\ UNCHANGED vars

SuiteSpec == SuiteInit /\ [][SuiteNext]_allVars

Symmetry == Permutations(Request) \cup Permutations(Intent)
============================================================================
