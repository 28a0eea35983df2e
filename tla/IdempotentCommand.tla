------------------------- MODULE IdempotentCommand -------------------------
(***************************************************************************)
(* What an idempotency key promises, without claims, leases or attempts:   *)
(* while the result of a command is kept, the key does not execute again,  *)
(* and whoever asks for the same thing is given that result.               *)
(***************************************************************************)
EXTENDS Naturals

CONSTANTS Request, Intent, Nobody

VARIABLES result,   \* the command that was executed, as long as it is kept
          asked,    \* what each request asks for
          answer,   \* what each request was told
          now

vars == <<result, asked, answer, now>>

NoResult == [by |-> Nobody, intent |-> Nobody, until |-> 0]
Kept == result # NoResult

Told(r, kind, of) == answer' = [answer EXCEPT ![r] = [kind |-> kind, of |-> of]]

Init ==
    /\ result = NoResult
    /\ asked = [r \in Request |-> Nobody]
    /\ answer = [r \in Request |-> [kind |-> "NONE", of |-> Nobody]]
    /\ now = 0

Ask(r, intent) ==
    /\ asked[r] = Nobody
    /\ asked' = [asked EXCEPT ![r] = intent]
    /\ UNCHANGED <<result, answer, now>>

\* The caller may or may not learn of it.
Execute(r) ==
    /\ ~Kept
    /\ asked[r] # Nobody
    /\ result' \in [by : {r}, intent : {asked[r]}, until : Nat]
    /\ Told(r, "EXECUTED", r) \/ UNCHANGED answer
    /\ UNCHANGED <<asked, now>>

Replay(r) ==
    /\ Kept /\ result.intent = asked[r]
    /\ Told(r, "REPLAYED", result.by)
    /\ UNCHANGED <<result, asked, now>>

Refuse(r) ==
    /\ \E kind \in {"IN_PROGRESS", "HASH_MISMATCH", "ERROR"} : Told(r, kind, Nobody)
    /\ UNCHANGED <<result, asked, now>>

\* A result is only forgotten once its retention is over.
Forget ==
    /\ Kept /\ result.until <= now
    /\ result' = NoResult
    /\ UNCHANGED <<asked, answer, now>>

Tick == now' = now + 1 /\ UNCHANGED <<result, asked, answer>>

Next ==
    \/ \E r \in Request :
        \/ \E intent \in Intent : Ask(r, intent)
        \/ Execute(r)
        \/ Replay(r)
        \/ Refuse(r)
    \/ Forget
    \/ Tick

Spec == Init /\ [][Next]_vars
=============================================================================
