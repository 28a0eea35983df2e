------------------------------ MODULE MCProgress ------------------------------
(* What must eventually happen, in one TLC run: requests with an idempotency  *)
(* key are answered, a periodic job runs again, every e-mail of an order is   *)
(* settled, and the maintenance command that moves pictures ends and gets     *)
(* everything moved.  The components share no state, so a behaviour runs one  *)
(* of them (`part`) while the others stay as they began.                      *)
EXTENDS SchedulerLease, RentalEmailQueue, TLC

VARIABLES part,
          record, executions, pc, asked, expiresAt, readAt, tries, found, answer, now,
          storageKey, source, cache, objects, job, work, clean

\* Two requests that keep running unless they crash.
Two == {"r1", "r2"}

Claims == INSTANCE IdempotencyClaims WITH
    Request <- Two, Intent <- {"x"}, Lease <- 1, Retention <- 2, Attempts <- 2,
    MaxTime <- 3, Nobody <- "nobody"

\* One e-mail (and two workers; a deployment renders it differently).
OneOrder == <<"order">>

\* Two rows whose sources answer badly, calls that fail, a command that is stopped.
Sync == INSTANCE MediaSync WITH
    N <- 2, Picture <- <<"photo 1", "photo 2">>, CacheFile <- <<"file 1", "file 2">>,
    Concurrency <- 1, MaxRetries <- 2, Limits <- {0}, BadAnswers <- {"busy"}, Faults <- TRUE,
    key <- storageKey

\* Three rows, two at a time and two of one picture, when everything is well.
Moves == INSTANCE MediaSync WITH
    N <- 3, Picture <- <<"photo 1", "photo 2", "photo 1">>,
    CacheFile <- <<"file 1", "file 2", "file 1">>,
    Concurrency <- 2, MaxRetries <- 2, Limits <- {0}, BadAnswers <- {}, Faults <- FALSE,
    key <- storageKey

ASSUME ConstantsOK ==
    /\ EmailsAssumption /\ WindowAssumption
    /\ Sync!SizeAssumption /\ Sync!PictureAssumption
    /\ Sync!AnswersAssumption /\ Sync!LimitsAssumption
    /\ Moves!SizeAssumption /\ Moves!PictureAssumption
    /\ Moves!AnswersAssumption /\ Moves!LimitsAssumption

claimVars == <<record, executions, pc, asked, expiresAt, readAt, tries, found, answer, now>>
syncVars == <<storageKey, source, cache, objects, job, work, clean>>
allVars == <<part, leaseVars, claimVars, mailVars, syncVars>>

ProgressInit ==
    /\ part \in {"lease", "claims", "mails", "sync", "moves"}
    /\ LeaseInit /\ Claims!Init /\ MailInit
    /\ IF part = "moves" THEN Moves!Init ELSE Sync!Init

ProgressNext ==
    /\ part' = part
    /\ \/ part = "lease" /\ Next /\ UNCHANGED <<claimVars, mailVars, syncVars>>
       \/ part = "claims" /\ Claims!Next /\ UNCHANGED <<leaseVars, mailVars, syncVars>>
       \/ part = "mails" /\ MailNext /\ UNCHANGED <<leaseVars, claimVars, syncVars>>
       \/ /\ \/ part = "sync" /\ Sync!Next
             \/ part = "moves" /\ Moves!Next
          /\ UNCHANGED <<leaseVars, claimVars, mailVars>>

-----------------------------------------------------------------------------
(* Fairness *)

\* The scheduler triggers every replica again and again, the database's clock
\* runs, statements and work end, and the database is not away every single
\* time a replica claims the free lease or ends its work.
LeaseFairness ==
    /\ WF_leaseVars(part = "lease" /\ Tick)
    /\ \A p \in Replicas :
        /\ WF_leaseVars(part = "lease" /\ Begin(p))
        /\ WF_leaseVars(part = "lease" /\ FindBusy(p))
        /\ SF_leaseVars(part = "lease" /\ Acquire(p))
        /\ WF_leaseVars(part = "lease" /\ (RenewExecute(p) \/ RenewError(p)))
        /\ WF_leaseVars(part = "lease" /\ RenewAnswer(p))
        /\ SF_leaseVars(part = "lease" /\ Finish(p, TRUE))
        /\ WF_leaseVars(part = "lease" /\ (Release(p) \/ ReleaseError(p)))

\* A handler that has not crashed keeps running; requests need not arrive,
\* need not fail and need not crash.
ClaimFairness == \A r \in Two : WF_claimVars(part = "claims" /\ Claims!Run(r))

\* The job runs every 15 seconds in some replica, requests end, time passes.
MailFairness ==
    /\ WF_mailVars(part = "mails" /\ \E w \in Two : Claim(w, 1) \/ ClaimNothing(w))
    /\ \A w \in Two : WF_mailVars(part = "mails" /\ (WorkerStep(w) \/ Die(w)))
    /\ WF_mailVars(part = "mails" /\ \E m \in late : LateArrival(m))
    /\ WF_mailVars(part = "mails" /\ MailTick)

\* Downloads have a deadline, calls to the bucket too, and retries are counted; the
\* operator runs the command with --apply again and again.
SyncFairness ==
    /\ WF_syncVars(part = "sync" /\ Sync!Running)
    /\ WF_syncVars(part = "moves" /\ Moves!Running)
    /\ SF_syncVars(part = "moves" /\ Moves!Start(TRUE, FALSE, 0))

ProgressSpec ==
    /\ ProgressInit /\ [][ProgressNext]_allVars
    /\ LeaseFairness /\ ClaimFairness /\ MailFairness /\ SyncFairness

-----------------------------------------------------------------------------
(* Properties *)

\* Neither contention for the record nor a lost claim keeps a request waiting
\* (IdempotencyClaims).
EveryRequestAnswered == Claims!EveryRequestAnswered

\* Whatever crashes, some replica gets the lease and runs the job again (SchedulerLease).
ScheduledJobRunsAgain == part = "lease" => JobRunsAgain

\* The command ends although sources keep failing; run again when all is well, it
\* gets every picture moved (MediaSync).
PicturesAreMoved ==
    /\ Sync!JobEnds
    /\ (part = "moves") ~> (part = "moves" /\ Moves!EveryRowIsMoved)
=============================================================================
