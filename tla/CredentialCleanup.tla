------------------------- MODULE CredentialCleanup -------------------------
(* The nightly clean-up under its lease: three phases (families of            *)
(* administrators, families of customers, codes), each deleting the oldest    *)
(* rows of its table below a cutoff in batches until a batch is not full.     *)
(* Rows that other transactions have locked are skipped.  What a phase may    *)
(* delete is the subject of RefreshTokens and WebRegistration; here it is how *)
(* much a run deletes and when it stops.                                      *)
EXTENDS SchedulerLease

CONSTANTS Phases,      \* number of phases, three in the code
          Rows,        \* rows of every phase, ordered by age: 1 .. n
          BatchSize

BatchAssumption == /\ Phases \in Nat /\ BatchSize \in Nat \ {0}
                   /\ Rows \subseteq Nat /\ IsFiniteSet(Rows)

VARIABLES expired,     \* rows of each phase below the cutoff
          job          \* the clean-up of each replica

cleanupVars == <<leaseVars, expired, job>>

AllPhases == 1 .. Phases
NoJob == [phase |-> 0, deleted |-> 0, skipped |-> {}]
Working(p) == run[p].step = "working" /\ job[p].phase # 0

AllOf(rows, n) == rows
Oldest(rows, n) == {r \in rows : Cardinality({x \in rows : x <= r}) <= n}

StartJob(p) ==
  /\ run[p].step = "working" /\ job[p].phase = 0
  /\ job' = [job EXCEPT ![p] = [NoJob EXCEPT !.phase = 1]]
  /\ UNCHANGED <<leaseVars, expired>>

\* A batch that is not full ends the phase.
StopsAfterOne(n) == TRUE
PhaseOver(n) == n < BatchSize

PurgeBatch(p) ==
  /\ Working(p) /\ job[p].phase \in AllPhases /\ AssertActive(p)
  /\ \E locked \in SUBSET expired[job[p].phase] :
     LET f == job[p].phase
         batch == Oldest(expired[f] \ locked, BatchSize)
         n == Cardinality(batch)
     IN /\ expired' = [expired EXCEPT ![f] = @ \ batch]
        /\ job' = [job EXCEPT ![p] = [phase |-> IF PhaseOver(n) THEN f + 1 ELSE f,
                                      deleted |-> n, skipped |-> @.skipped \cup ({f} \X locked)]]
  /\ UNCHANGED leaseVars

\* The run is over after the last phase; a checkpoint or a batch that fails ends
\* it with the phases after it untouched.
EndJob(p) ==
  /\ \/ Finish(p, TRUE) /\ job[p].phase = Phases + 1 /\ AssertActive(p)
     \/ Finish(p, FALSE) /\ job[p].phase # 0
  /\ UNCHANGED <<expired, job>>

CleanupRunsOn(p) ==
  /\ LeaseStep(p)
  /\ job' = IF run'[p].step \in {"working", "releasing"} THEN job ELSE [job EXCEPT ![p] = NoJob]
  /\ UNCHANGED expired

CleanupInit ==
  /\ LeaseInit
  /\ expired \in [AllPhases -> SUBSET Rows]
  /\ job = [p \in Replicas |-> NoJob]

CleanupNext ==
  \/ \E p \in Replicas : StartJob(p) \/ PurgeBatch(p) \/ EndJob(p) \/ CleanupRunsOn(p)
  \/ Tick /\ UNCHANGED <<expired, job>>

CleanupSpec == CleanupInit /\ [][CleanupNext]_cleanupVars

-----------------------------------------------------------------------------
\* ... and one transaction never deletes more than a batch of rows.
CleanupTypeOK ==
  /\ expired \in [AllPhases -> SUBSET Rows]
  /\ \A p \in Replicas : /\ job[p].phase \in 0 .. Phases + 1
                         /\ job[p].deleted \in 0 .. BatchSize
                         /\ job[p].skipped \subseteq AllPhases \X Rows

\* A run that reports success left no expired row behind but those that another
\* transaction had locked when their batch was read, however many batches it took
\* and whichever replica deleted them (purgeBatches).
SuccessMeansDrained ==
  \A p \in Replicas : (run[p].step = "releasing" /\ run'[p].outcome = "done") =>
       \A f \in AllPhases : \A r \in expired[f] : <<f, r>> \in job[p].skipped

\* What is purged is purged in batches, under a lease that is kept as long as it was
\* promised.
CleanupKeepsPromises == CleanupTypeOK /\ PromiseIsKept
=============================================================================
