----------------------------- MODULE ShopSettings -----------------------------
(* The three prices a shop may set.  The row keeps what was saved, the program *)
(* supplies defaults for what is missing; a change reads the policy, merges   *)
(* what the administrator sent, validates the result and writes all three,    *)
(* then tries to leave a line in the audit log.                               *)
EXTENDS Integers, Sequences

CONSTANTS Requests,    \* of administrators
          Amounts,     \* what a client may send, refused values included
          MaxAmount,
          Default,     \* the prices of a shop that saved none
          Overlap      \* may two changes of the policy be in progress at a time?

Fields == {"defaultRentalPrice", "additionalDayFee", "defaultCashDeposit"}
Missing == -9
Legal(amount) == amount \in 0 .. MaxAmount

AmountsAssumption == MaxAmount \in Nat /\ Amounts \subseteq Int \ {Missing}
DefaultAssumption == Default \in [Fields -> 0 .. MaxAmount]
OverlapAssumption == Overlap \in BOOLEAN

VARIABLES stored,    \* the row, each field as saved or missing; missing all of them before the first save
          request,
          audit,     \* the log of changes of the policy
          lost       \* did a line of the log fail to be written?

vars == <<stored, request, audit, lost>>

Unsaved == [f \in Fields |-> Missing]
Policies == [Fields -> Amounts \cup {Missing}]
Idle == [step |-> "idle", patch |-> Unsaved, current |-> Unsaved]
Answer(r) == request' = [request EXCEPT ![r] = [Idle EXCEPT !.step = "done"]]
InProgress == {r \in Requests : request[r].step \in {"save", "log"}}

\* A missing value is the default, zero is a value.
EffectiveNonZero(row) == [f \in Fields |-> IF row[f] \in {Missing, 0} THEN Default[f] ELSE row[f]]
Effective(row) == [f \in Fields |-> IF row[f] = Missing THEN Default[f] ELSE row[f]]

Merged(base, patch) == [f \in Fields |-> IF patch[f] = Missing THEN base[f] ELSE patch[f]]

AnyPatch(patch) == TRUE

\* What the request may hold, and what the policy may be: its deposit has no upper limit.
Accepted(patch) == \A f \in Fields : patch[f] = Missing \/ Legal(patch[f])
Valid(policy) ==
  /\ \A f \in Fields : policy[f] >= 0
  /\ policy["defaultRentalPrice"] <= MaxAmount /\ policy["additionalDayFee"] <= MaxAmount

-----------------------------------------------------------------------------

UpdateRentalPolicy(r, patch) ==
  /\ request[r].step = "idle"
  /\ Overlap \/ InProgress = {}
  /\ Accepted(patch)
  /\ Valid(Effective(stored))
  /\ Valid(Merged(Effective(stored), patch))
  /\ request' = [request EXCEPT ![r] = [step |-> "save", patch |-> patch, current |-> Effective(stored)]]
  /\ UNCHANGED <<stored, audit, lost>>

Saved(r) == Merged(request[r].current, request[r].patch)

Save(r) ==
  /\ request[r].step = "save"
  /\ stored' = Saved(r)
  /\ request' = [request EXCEPT ![r].step = "log"]
  /\ UNCHANGED <<audit, lost>>

SnapshotOfPatch(r) == [old |-> request[r].current, new |-> Effective(request[r].patch)]
Snapshot(r) == [old |-> request[r].current, new |-> Saved(r)]

Log(r) ==
  /\ request[r].step = "log"
  /\ audit' = Append(audit, Snapshot(r))
  /\ Answer(r)
  /\ UNCHANGED <<stored, lost>>

\* Logging is best effort; the process may also stop before it.
LogFails(r) ==
  /\ request[r].step = "log"
  /\ lost' = TRUE
  /\ Answer(r)
  /\ UNCHANGED <<stored, audit>>

SaveFails(r) ==
  /\ request[r].step = "save"
  /\ Answer(r)
  /\ UNCHANGED <<stored, audit, lost>>

PolicyKey == "rental_policy"
AnyKey(key) == TRUE
Writable(key) == key # PolicyKey

\* The generic setting takes any value, under any other key.
Upsert(r, key, value) ==
  /\ request[r].step = "idle"
  /\ Writable(key)
  /\ stored' = IF key = PolicyKey THEN value ELSE stored
  /\ Answer(r)
  /\ UNCHANGED <<audit, lost>>

-----------------------------------------------------------------------------

\* A shop that saved nothing, or a row from before the clean-up of settings: parts of it.
Init ==
  /\ stored \in [Fields -> {Missing, MaxAmount}]
  /\ request = [r \in Requests |-> Idle]
  /\ audit = <<>> /\ lost = FALSE

Next == \E r \in Requests :
  \/ \E patch \in Policies : UpdateRentalPolicy(r, patch)
  \/ Save(r) \/ SaveFails(r) \/ Log(r) \/ LogFails(r)
  \/ \E key \in {PolicyKey, "opening_hours"}, value \in Policies : Upsert(r, key, value)

Spec == Init /\ [][Next]_vars

-----------------------------------------------------------------------------

TypeOK ==
  /\ stored \in [Fields -> {Missing} \cup (0 .. MaxAmount)]
  /\ \A r \in Requests : request[r].step \in {"idle", "save", "log", "done"}
  /\ Len(audit) <= 3 /\ lost \in BOOLEAN

\* Every reader validates the policy and fails if it does not pass (getPolicy): no sequence of
\* writes to the settings, generic ones included, may take bookings down.
PolicyIsUsable ==
  /\ Valid(Effective(stored))
  /\ \A f \in Fields : Effective(stored)[f] <= MaxAmount

\* docs/BUSINESS_TYPES.md: "Omitted values retain their current value, zero remains valid": what
\* a finished change sent is in force, and what it left out is as it was the moment before.
OmittedIsRetained ==
  \A r \in Requests : request[r].step = "save" /\ request'[r].step = "log" =>
    Effective(stored') = Merged(Effective(stored), request[r].patch)

\* Two changes that overlap: a value that is overwritten although the request left it out
\* goes back to the one the request read, and only when another request has saved since;
\* what a request sent is in force whatever it read (saveRentalPolicy writes all three).
OnlyOverlapLoses ==
  \A r \in Requests : request[r].step = "save" /\ request'[r].step = "log" =>
    LET t == request[r]
        overtaken == \E q \in Requests \ {r} : request[q].step \in {"log", "done"}
        retained(f) == Effective(stored')[f] = Effective(stored)[f]
        restored(f) == overtaken /\ stored'[f] = t.current[f]
    IN \A f \in Fields : IF t.patch[f] = Missing THEN retained(f) \/ restored(f)
                          ELSE stored'[f] = t.patch[f]

\* As long as no line was lost the log is an unbroken chain that ends with what is in force.
AuditIsAChain ==
  ~lost /\ InProgress = {} /\ audit # <<>> =>
    /\ \A i \in 2 .. Len(audit) : audit[i].old = audit[i - 1].new
    /\ audit[Len(audit)].new = Effective(stored)
=============================================================================
