--------------------------- MODULE SchedulerLease ---------------------------
(* The lease under which one of several API replicas runs a periodic job      *)
(* (reminder refresh, clean-up of expired credentials).  One row per job      *)
(* holds the owner's token and the end of the lease on the database's clock.  *)
(* Every statement stands alone: the row changes when it executes, the        *)
(* replica learns of it later, and may die or lose the answer in between.     *)
(* Clocks only count down: "left" is what remains of lease_until, "granted"   *)
(* what remains of the time a replica was last promised.                      *)
EXTENDS Naturals, FiniteSets

CONSTANTS Replicas, OwnerTokens,  \* a run draws a token nobody uses
          LeaseTime,            \* leaseMs, in ticks of which a renewal is due each
          MaxCrashes            \* bound on the crashes of the whole behaviour

ASSUME LeaseTimeAssumption == LeaseTime \in Nat \ {0}
ASSUME MaxCrashesAssumption == MaxCrashes \in Nat
ASSUME TokensAssumption == "none" \notin OwnerTokens  \* a UUID

VARIABLES lease,      \* the row of scheduler_job_leases: token and time left
          run,        \* what each replica is doing for the job
          granted,    \* (history) time left of what a replica was promised
          intruded,   \* (history) replicas whose lease was taken over during their run
          crashes

leaseVars == <<lease, run, granted, intruded, crashes>>

NoToken == "none"
Resting == [step |-> "idle", token |-> NoToken, failed |-> FALSE, renewing |-> "no", outcome |-> "none"]
Ended(outcome) == [Resting EXCEPT !.outcome = outcome]

NoLease == [owner |-> NoToken, left |-> 0]
UsedTokens == {lease.owner} \cup {run[p].token : p \in Replicas}
Owns(p) == lease.owner = run[p].token
Holding(p) == run[p].step \in {"working", "releasing"}

\* The full lease from now on, whatever was left of it.
LeaseExtended == lease.left + LeaseTime
LeaseRenewed == LeaseTime

\* What an UPDATE of the lease leaves to its owner.
Grant(p) == granted' = [granted EXCEPT ![p] = LeaseTime]
Forget(p) == granted' = [granted EXCEPT ![p] = 0]

-----------------------------------------------------------------------------
(* Acquisition *)

\* One run at a time in a process: locallyHeldKeys.
Begin(p) ==
  /\ run[p].step = "idle"
  /\ \E t \in OwnerTokens \ UsedTokens :
       run' = [run EXCEPT ![p] = [Resting EXCEPT !.step = "acquiring", !.token = t]]
  /\ UNCHANGED <<lease, granted, intruded, crashes>>

\* INSERT ... ON CONFLICT DO UPDATE ... WHERE lease_until <= CURRENT_TIMESTAMP.
FreeOnceReleased == lease = NoLease
Free == lease = NoLease \/ lease.left = 0

TakeOver(p) ==
  /\ lease' = [owner |-> run[p].token, left |-> LeaseTime]
  /\ intruded' = intruded \cup {q \in Replicas \ {p} : Holding(q)}

Acquire(p) ==
  /\ run[p].step = "acquiring" /\ Free
  /\ TakeOver(p) /\ Grant(p)
  /\ run' = [run EXCEPT ![p].step = "working"]
  /\ UNCHANGED crashes

FindBusy(p) ==
  /\ run[p].step = "acquiring" /\ ~Free
  /\ run' = [run EXCEPT ![p] = Ended("busy")]
  /\ UNCHANGED <<lease, granted, intruded, crashes>>

\* The claim fails, before or after it reached the row.
AcquireError(p) ==
  /\ run[p].step = "acquiring"
  /\ \/ Free /\ TakeOver(p)
     \/ UNCHANGED <<lease, intruded>>
  /\ run' = [run EXCEPT ![p] = Ended("failed")]
  /\ UNCHANGED <<granted, crashes>>

-----------------------------------------------------------------------------
(* Renewal: at most one under way; the timer does not ask again once it failed *)

RenewSend(p) ==
  /\ run[p].step = "working" /\ run[p].renewing = "no" /\ ~run[p].failed
  /\ run' = [run EXCEPT ![p].renewing = "sent"]
  /\ UNCHANGED <<lease, granted, intruded, crashes>>

RenewMatchesAnyOwner(p) == lease # NoLease
RenewMatches(p) == lease # NoLease /\ Owns(p)

\* The statement restores the full lease, even of an expired one nobody took.
RenewExecute(p) ==
  /\ run[p].renewing = "sent"
  /\ IF RenewMatches(p)
     THEN /\ lease' = [lease EXCEPT !.left = LeaseRenewed] /\ Grant(p)
          /\ run' = [run EXCEPT ![p].renewing = "kept"]
     ELSE /\ run' = [run EXCEPT ![p].renewing = "lost"]
          /\ UNCHANGED <<lease, granted>>
  /\ UNCHANGED <<intruded, crashes>>

RenewAnswer(p) ==
  /\ run[p].renewing \in {"kept", "lost"}
  /\ run' = [run EXCEPT ![p].renewing = "no", ![p].failed = @ \/ run[p].renewing = "lost"]
  /\ UNCHANGED <<lease, granted, intruded, crashes>>

\* The database cannot be reached, or its answer is lost.
RenewError(p) ==
  /\ run[p].renewing \in {"sent", "kept"}
  /\ run' = [run EXCEPT ![p].renewing = "no", ![p].failed = TRUE]
  /\ UNCHANGED <<lease, granted, intruded, crashes>>

-----------------------------------------------------------------------------
(* The end of a run *)

\* assertActive: only a renewal that has been answered can fail it.
AssertActive(p) == ~run[p].failed

\* The work is over, or failed; the last renewal is awaited before the release.
Finish(p, ok) ==
  /\ run[p].step = "working" /\ run[p].renewing = "no"
  /\ run' = [run EXCEPT ![p].step = "releasing", ![p].failed = @ \/ ~ok]
  /\ UNCHANGED <<lease, granted, intruded, crashes>>

ReleaseMatchesAnyOwner(p) == TRUE
ReleaseMatches(p) == Owns(p)
OutcomeIgnoringRow(p) == IF run[p].failed THEN "failed" ELSE "done"
Outcome(p) == IF run[p].failed \/ ~ReleaseMatches(p) THEN "failed" ELSE "done"

\* DELETE ... WHERE owner_token = own token; no row means the lease was lost.
Release(p) ==
  /\ run[p].step = "releasing"
  /\ lease' = IF ReleaseMatches(p) THEN NoLease ELSE lease
  /\ run' = [run EXCEPT ![p] = Ended(Outcome(p))]
  /\ Forget(p)
  /\ intruded' = intruded \ {p}
  /\ UNCHANGED crashes

ReleaseError(p) ==
  /\ run[p].step = "releasing"
  /\ lease' \in {lease, IF ReleaseMatches(p) THEN NoLease ELSE lease}
  /\ run' = [run EXCEPT ![p] = Ended("failed")]
  /\ Forget(p)
  /\ intruded' = intruded \ {p}
  /\ UNCHANGED crashes

Crash(p) ==
  /\ crashes < MaxCrashes /\ run[p].step # "idle"
  /\ crashes' = crashes + 1
  /\ run' = [run EXCEPT ![p] = Resting]
  /\ Forget(p)
  /\ intruded' = intruded \ {p}
  /\ UNCHANGED lease

Less(n) == IF n = 0 THEN 0 ELSE n - 1
Tick ==
  /\ lease' = [lease EXCEPT !.left = Less(@)]
  /\ granted' = [p \in Replicas |-> Less(granted[p])]
  /\ UNCHANGED <<run, intruded, crashes>>

LeaseInit ==
  /\ lease = NoLease
  /\ run = [p \in Replicas |-> Resting]
  /\ granted = [p \in Replicas |-> 0]
  /\ intruded = {}
  /\ crashes = 0

\* The steps of a replica that are not about the work itself.
LeaseStep(p) == \/ Begin(p) \/ Acquire(p) \/ FindBusy(p) \/ AcquireError(p)
                \/ RenewSend(p) \/ RenewExecute(p) \/ RenewAnswer(p) \/ RenewError(p)
                \/ Release(p) \/ ReleaseError(p) \/ Crash(p)

Next == Tick \/ \E p \in Replicas : \/ LeaseStep(p)
                                    \/ \E ok \in BOOLEAN : Finish(p, ok)

Spec == LeaseInit /\ [][Next]_leaseVars

-----------------------------------------------------------------------------
(* Properties *)

TypeOK ==
  /\ lease \in [owner : OwnerTokens \cup {NoToken}, left : 0 .. LeaseTime]
  /\ run \in [Replicas -> [step : {"idle", "acquiring", "working", "releasing"},
                           token : OwnerTokens \cup {NoToken}, failed : BOOLEAN,
                           renewing : {"no", "sent", "kept", "lost"},
                           outcome : {"none", "busy", "failed", "done"}]]
  /\ granted \in [Replicas -> 0 .. LeaseTime]
  /\ intruded \subseteq Replicas
  /\ crashes \in 0 .. MaxCrashes

\* Until the time a replica was last promised is over, the row is its own: no
\* other replica is told that it may work, and no late release of an earlier
\* owner takes the row away ("a stale owner cannot delete a successor's lease",
\* REMINDER_SCHEDULER_COORDINATION.md).
PromiseIsKept == \A p \in Replicas : granted[p] > 0 => Owns(p)

\* A run reports success only if nobody else had the lease since it acquired it,
\* even if the renewals never told (runIfOwner).
SuccessWasExclusive ==
  \A p \in Replicas : run[p].step = "releasing" /\ run'[p].outcome = "done"
                        => p \notin intruded

\* Whatever crashes, the job runs again.
JobRunsAgain == []<>(\E p \in Replicas : run[p].step = "working")

\* The lease is a replica's own for as long as it was promised.
LeaseIsKept == TypeOK /\ PromiseIsKept
=============================================================================
