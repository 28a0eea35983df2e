------------------------ MODULE SchedulerLeaseProofs ------------------------
(***************************************************************************)
(* Theorems about the lease, for any number of replicas and tokens, any    *)
(* length of a lease and any number of crashes; about the clean-up that    *)
(* runs under it, for any phases, rows and size of a batch; and about the  *)
(* refresh of the reminders, for any orders, days and size of a page.      *)
(***************************************************************************)
EXTENDS CredentialCleanup, ReminderRefresh, FiniteSetTheorems, TLAPS

(***************************************************************************)
(* The inductive invariant.  A token is in one process only (Distinct); a  *)
(* promise not yet over is no longer than the row says (Backed), so the    *)
(* database calls the row free only when nobody counts on it; and the row  *)
(* of a run that was overtaken never becomes its own again (Overtaken).    *)
(***************************************************************************)
Tokened == \A p \in Replicas : run[p].step = "idle" <=> run[p].token = NoToken
Quiet == \A p \in Replicas : run[p].renewing # "no" => run[p].step = "working"
Undecided == \A p \in Replicas : run[p].step = "idle" \/ run[p].outcome = "none"
Distinct == \A p, q \in Replicas : p # q /\ run[p].token = run[q].token => run[p].token = NoToken
Empty == lease.owner = NoToken => lease.left = 0
Backed == \A p \in Replicas : granted[p] > 0 => Holding(p) /\ Owns(p) /\ granted[p] <= lease.left
Overtaken == \A p \in intruded : Holding(p) /\ ~Owns(p)

IInv == TypeOK /\ Tokened /\ Quiet /\ Undecided /\ Distinct /\ Empty /\ Backed /\ Overtaken

LEMMA Initially == LeaseInit => IInv
BY LeaseTimeAssumption, MaxCrashesAssumption
   DEF LeaseInit, IInv, TypeOK, Tokened, Quiet, Undecided, Distinct, Empty, Backed, Overtaken, NoLease, Resting

-----------------------------------------------------------------------------
(* Types *)

Step == {"idle", "acquiring", "working", "releasing"}
Renewing == {"no", "sent", "kept", "lost"}
Job == [step : Step, token : OwnerTokens \cup {NoToken}, failed : BOOLEAN, renewing : Renewing,
        outcome : {"none", "busy", "failed", "done"}]
Row == [owner : OwnerTokens \cup {NoToken}, left : 0 .. LeaseTime]

LEMMA JobUpdates ==
    ASSUME NEW r \in Job
    PROVE  /\ \A s \in Step : [r EXCEPT !.step = s] \in Job
           /\ \A x \in Renewing : [r EXCEPT !.renewing = x] \in Job
           /\ \A b \in BOOLEAN : [r EXCEPT !.failed = b] \in Job
BY DEF Job

LEMMA JobsOfAnEnd ==
    /\ Resting \in Job
    /\ \A t \in OwnerTokens : [Resting EXCEPT !.step = "acquiring", !.token = t] \in Job
    /\ Ended("busy") \in Job /\ Ended("failed") \in Job /\ Ended("done") \in Job
BY DEF Job, Resting, Ended, Step, Renewing

LEMMA Typed == TypeOK <=> /\ lease \in Row /\ run \in [Replicas -> Job]
                          /\ granted \in [Replicas -> 0 .. LeaseTime]
                          /\ intruded \subseteq Replicas /\ crashes \in 0 .. MaxCrashes
BY DEF TypeOK, Row, Job, Step, Renewing

LEMMA RowsOfLease == /\ NoLease \in Row
              /\ \A t \in OwnerTokens \cup {NoToken}, n \in 0 .. LeaseTime : [owner |-> t, left |-> n] \in Row
BY LeaseTimeAssumption DEF NoLease, Row

\* What a step does to the run of its replica.
LEMMA RunAfter ==
    ASSUME TypeOK, NEW p \in Replicas
    PROVE  /\ Begin(p) => \E t \in OwnerTokens \ UsedTokens :
                            run' = [run EXCEPT ![p] = [Resting EXCEPT !.step = "acquiring", !.token = t]]
           /\ Acquire(p) => run' = [run EXCEPT ![p] = [run[p] EXCEPT !.step = "working"]]
           /\ RenewSend(p) => run' = [run EXCEPT ![p] = [run[p] EXCEPT !.renewing = "sent"]]
           /\ RenewExecute(p) => \E x \in {"kept", "lost"} :
                            run' = [run EXCEPT ![p] = [run[p] EXCEPT !.renewing = x]]
           /\ RenewAnswer(p) \/ RenewError(p) => \E b \in BOOLEAN :
                            run' = [run EXCEPT ![p] = [[run[p] EXCEPT !.renewing = "no"] EXCEPT !.failed = b]]
           /\ \A ok \in BOOLEAN : Finish(p, ok) => \E b \in BOOLEAN :
                            run' = [run EXCEPT ![p] = [[run[p] EXCEPT !.step = "releasing"] EXCEPT !.failed = b]]
           /\ FindBusy(p) \/ AcquireError(p) \/ Release(p) \/ ReleaseError(p) \/ Crash(p) =>
                \E r \in {Resting, Ended("busy"), Ended("failed"), Ended("done")} :
                            run' = [run EXCEPT ![p] = r]
<1>0. run \in [Replicas -> Job] /\ run[p] \in Job
  BY Typed
<1>1. Begin(p) => \E t \in OwnerTokens \ UsedTokens :
                    run' = [run EXCEPT ![p] = [Resting EXCEPT !.step = "acquiring", !.token = t]]
  BY DEF Begin
<1>2. Acquire(p) => run' = [run EXCEPT ![p] = [run[p] EXCEPT !.step = "working"]]
  BY <1>0 DEF Acquire, Job
<1>3. RenewSend(p) => run' = [run EXCEPT ![p] = [run[p] EXCEPT !.renewing = "sent"]]
  BY <1>0 DEF RenewSend, Job
<1>4. RenewExecute(p) => \E x \in {"kept", "lost"} :
                    run' = [run EXCEPT ![p] = [run[p] EXCEPT !.renewing = x]]
  BY <1>0 DEF RenewExecute, Job
<1>5. RenewAnswer(p) => LET b == run[p].failed \/ run[p].renewing = "lost" IN
                    run' = [run EXCEPT ![p] = [[run[p] EXCEPT !.renewing = "no"] EXCEPT !.failed = b]]
  BY <1>0 DEF RenewAnswer, Job
<1>6. RenewError(p) => run' = [run EXCEPT ![p] = [[run[p] EXCEPT !.renewing = "no"] EXCEPT !.failed = TRUE]]
  BY <1>0 DEF RenewError, Job
<1>7. ASSUME NEW ok \in BOOLEAN, Finish(p, ok)
      PROVE LET b == run[p].failed \/ ~ok IN
            run' = [run EXCEPT ![p] = [[run[p] EXCEPT !.step = "releasing"] EXCEPT !.failed = b]]
  BY <1>0, <1>7 DEF Finish, Job
<1>8. /\ FindBusy(p) => run' = [run EXCEPT ![p] = Ended("busy")]
      /\ AcquireError(p) => run' = [run EXCEPT ![p] = Ended("failed")]
      /\ Release(p) => run' = [run EXCEPT ![p] = Ended("done")] \/ run' = [run EXCEPT ![p] = Ended("failed")]
      /\ ReleaseError(p) => run' = [run EXCEPT ![p] = Ended("failed")]
      /\ Crash(p) => run' = [run EXCEPT ![p] = Resting]
  BY DEF FindBusy, AcquireError, Release, Outcome, ReleaseError, Crash
<1>9. (run[p].failed \/ run[p].renewing = "lost") \in BOOLEAN /\ \A ok : (run[p].failed \/ ~ok) \in BOOLEAN
  OBVIOUS
<1> QED
  BY <1>1, <1>2, <1>3, <1>4, <1>5, <1>6, <1>7, <1>8, <1>9

\* ... and to everything else.
LEMMA RestAfter ==
    ASSUME NEW p \in Replicas
    PROVE  /\ Begin(p) \/ FindBusy(p) \/ RenewSend(p) \/ RenewAnswer(p) \/ RenewError(p) =>
                UNCHANGED <<lease, granted, intruded, crashes>>
           /\ \A ok \in BOOLEAN : Finish(p, ok) => UNCHANGED <<lease, granted, intruded, crashes>>
           /\ Acquire(p) => Free /\ TakeOver(p) /\ Grant(p) /\ crashes' = crashes
           /\ AcquireError(p) => /\ (Free /\ TakeOver(p)) \/ UNCHANGED <<lease, intruded>>
                                 /\ UNCHANGED <<granted, crashes>>
           /\ RenewExecute(p) => /\ \/ /\ RenewMatches(p) /\ Grant(p)
                                       /\ lease' = [lease EXCEPT !.left = LeaseTime]
                                    \/ UNCHANGED <<lease, granted>>
                                 /\ UNCHANGED <<intruded, crashes>>
           /\ Release(p) \/ ReleaseError(p) =>
                /\ (Owns(p) /\ lease' = NoLease) \/ lease' = lease
                /\ Forget(p) /\ intruded' = intruded \ {p} /\ crashes' = crashes
           /\ Crash(p) => /\ Forget(p) /\ intruded' = intruded \ {p} /\ lease' = lease
                          /\ crashes < MaxCrashes /\ crashes' = crashes + 1
<1>1. Begin(p) \/ FindBusy(p) \/ RenewSend(p) \/ RenewAnswer(p) \/ RenewError(p) =>
                UNCHANGED <<lease, granted, intruded, crashes>>
  BY DEF Begin, FindBusy, RenewSend, RenewAnswer, RenewError
<1>2. \A ok \in BOOLEAN : Finish(p, ok) => UNCHANGED <<lease, granted, intruded, crashes>>
  BY DEF Finish
<1>3. Acquire(p) => Free /\ TakeOver(p) /\ Grant(p) /\ crashes' = crashes
  BY DEF Acquire
<1>4. AcquireError(p) => /\ (Free /\ TakeOver(p)) \/ UNCHANGED <<lease, intruded>>
                         /\ UNCHANGED <<granted, crashes>>
  BY DEF AcquireError
<1>5. RenewExecute(p) => /\ \/ /\ RenewMatches(p) /\ Grant(p)
                               /\ lease' = [lease EXCEPT !.left = LeaseTime]
                            \/ UNCHANGED <<lease, granted>>
                         /\ UNCHANGED <<intruded, crashes>>
  BY DEF RenewExecute, LeaseRenewed
<1>6. Release(p) \/ ReleaseError(p) =>
                /\ (Owns(p) /\ lease' = NoLease) \/ lease' = lease
                /\ Forget(p) /\ intruded' = intruded \ {p} /\ crashes' = crashes
  BY DEF Release, ReleaseError, ReleaseMatches
<1>7. Crash(p) => /\ Forget(p) /\ intruded' = intruded \ {p} /\ lease' = lease
                  /\ crashes < MaxCrashes /\ crashes' = crashes + 1
  BY DEF Crash
<1> QED BY <1>1, <1>2, <1>3, <1>4, <1>5, <1>6, <1>7

LEMMA TypeStep == TypeOK /\ [Next]_leaseVars => TypeOK'
<1> SUFFICES ASSUME TypeOK, [Next]_leaseVars PROVE TypeOK'
  OBVIOUS
<1>0. /\ lease \in Row /\ run \in [Replicas -> Job] /\ granted \in [Replicas -> 0 .. LeaseTime]
      /\ intruded \subseteq Replicas /\ crashes \in 0 .. MaxCrashes
  BY Typed
<1>1. ASSUME NEW p \in Replicas, LeaseStep(p) \/ \E ok \in BOOLEAN : Finish(p, ok)
      PROVE run' \in [Replicas -> Job]
  <2>1. run[p] \in Job
    BY <1>0
  <2>2. \E r \in Job : run' = [run EXCEPT ![p] = r]
    <3>1. ASSUME Begin(p) PROVE \E r \in Job : run' = [run EXCEPT ![p] = r]
      BY <3>1, RunAfter, JobsOfAnEnd
    <3>2. ASSUME Acquire(p) PROVE \E r \in Job : run' = [run EXCEPT ![p] = r]
      BY <2>1, <3>2, RunAfter, JobUpdates DEF Step
    <3>3. ASSUME RenewSend(p) PROVE \E r \in Job : run' = [run EXCEPT ![p] = r]
      BY <2>1, <3>3, RunAfter, JobUpdates DEF Renewing
    <3>4. ASSUME RenewExecute(p) PROVE \E r \in Job : run' = [run EXCEPT ![p] = r]
      BY <2>1, <3>4, RunAfter, JobUpdates DEF Renewing
    <3>5. ASSUME RenewAnswer(p) \/ RenewError(p) PROVE \E r \in Job : run' = [run EXCEPT ![p] = r]
      BY <2>1, <3>5, RunAfter, JobUpdates DEF Renewing
    <3>6. ASSUME NEW ok \in BOOLEAN, Finish(p, ok) PROVE \E r \in Job : run' = [run EXCEPT ![p] = r]
      <4>1. PICK b \in BOOLEAN :
               run' = [run EXCEPT ![p] = [[run[p] EXCEPT !.step = "releasing"] EXCEPT !.failed = b]]
        BY <3>6, RunAfter
      <4>2. [run[p] EXCEPT !.step = "releasing"] \in Job
        BY <2>1, JobUpdates DEF Step
      <4>3. [[run[p] EXCEPT !.step = "releasing"] EXCEPT !.failed = b] \in Job
        BY <4>2, JobUpdates
      <4> QED BY <4>1, <4>3
    <3>7. ASSUME FindBusy(p) \/ AcquireError(p) \/ Release(p) \/ ReleaseError(p) \/ Crash(p)
          PROVE \E r \in Job : run' = [run EXCEPT ![p] = r]
      <4>1. \E r \in {Resting, Ended("busy"), Ended("failed"), Ended("done")} :
               run' = [run EXCEPT ![p] = r]
        BY <3>7, RunAfter
      <4> QED BY <4>1, JobsOfAnEnd
    <3> QED BY <1>1, <3>1, <3>2, <3>3, <3>4, <3>5, <3>6, <3>7 DEF LeaseStep
  <2> QED BY <1>0, <2>2
<1>2. ASSUME NEW p \in Replicas, TakeOver(p) PROVE lease' \in Row /\ intruded' \subseteq Replicas
  BY <1>0, <1>2, LeaseTimeAssumption, RowsOfLease DEF TakeOver, Job
<1>3. ASSUME NEW p \in Replicas, LeaseStep(p) PROVE lease' \in Row
  <2>1. LeaseTime \in 0 .. LeaseTime /\ [lease EXCEPT !.left = LeaseTime] \in Row
    BY <1>0, LeaseTimeAssumption DEF Row
  <2> QED BY <1>0, <1>2, <1>3, <2>1, RowsOfLease, RestAfter DEF LeaseStep
<1>4. ASSUME NEW p \in Replicas, LeaseStep(p) PROVE granted' \in [Replicas -> 0 .. LeaseTime]
  <2>1. \A n \in {0, LeaseTime} : [granted EXCEPT ![p] = n] \in [Replicas -> 0 .. LeaseTime]
    BY <1>0, LeaseTimeAssumption
  <2>2. granted' = granted \/ Grant(p) \/ Forget(p)
    BY <1>4, RestAfter DEF LeaseStep
  <2>3. granted' = granted \/ \E n \in {0, LeaseTime} : granted' = [granted EXCEPT ![p] = n]
    BY <2>2 DEF Grant, Forget
  <2> QED BY <1>0, <2>1, <2>3
<1>5. ASSUME NEW p \in Replicas, LeaseStep(p) PROVE intruded' \subseteq Replicas /\ crashes' \in 0 .. MaxCrashes
  <2>1. intruded' = intruded \/ intruded' = intruded \ {p} \/ TakeOver(p)
    BY <1>5, RestAfter DEF LeaseStep
  <2>2. crashes' = crashes \/ (crashes < MaxCrashes /\ crashes' = crashes + 1)
    BY <1>5, RestAfter DEF LeaseStep
  <2> QED BY <1>0, <1>2, <2>1, <2>2, MaxCrashesAssumption
<1>6. CASE Tick
  <2>1. \A n \in 0 .. LeaseTime : Less(n) \in 0 .. LeaseTime
    BY LeaseTimeAssumption DEF Less
  <2>2. lease' \in Row
    BY <1>0, <1>6, <2>1 DEF Tick, Row
  <2>3. granted' \in [Replicas -> 0 .. LeaseTime]
    BY <1>0, <1>6, <2>1 DEF Tick
  <2> QED BY <1>0, <1>6, <2>2, <2>3, Typed DEF Tick, TypeOK, Job, Row, Step, Renewing
<1>7. ASSUME NEW p \in Replicas, LeaseStep(p) PROVE TypeOK'
  <2>1. /\ lease' \in Row /\ run' \in [Replicas -> Job] /\ granted' \in [Replicas -> 0 .. LeaseTime]
        /\ intruded' \subseteq Replicas /\ crashes' \in 0 .. MaxCrashes
    BY <1>1, <1>3, <1>4, <1>5, <1>7
  <2> QED BY <2>1 DEF TypeOK, Row, Job, Step, Renewing
<1>8. ASSUME NEW p \in Replicas, NEW ok \in BOOLEAN, Finish(p, ok) PROVE TypeOK'
  <2>1. run' \in [Replicas -> Job] /\ UNCHANGED <<lease, granted, intruded, crashes>>
    BY <1>1, <1>8 DEF Finish
  <2> QED BY <1>0, <2>1 DEF TypeOK, Row, Job, Step, Renewing
<1>9. CASE UNCHANGED leaseVars
  BY <1>9 DEF leaseVars, TypeOK
<1> QED BY <1>6, <1>7, <1>8, <1>9 DEF Next

\* Every column of the lease and every field of a run keeps its type under every
\* statement of runIfOwner, whichever fails.
THEOREM LeaseTypeCorrect == Spec => []TypeOK
<1>1. LeaseInit => TypeOK
  BY Initially DEF IInv
<1> QED BY <1>1, TypeStep, PTL DEF Spec

-----------------------------------------------------------------------------
(* The row and the promises *)

Renews(p) == RenewSend(p) \/ RenewExecute(p) \/ RenewAnswer(p) \/ RenewError(p)
Ends(p) == FindBusy(p) \/ AcquireError(p) \/ Release(p) \/ ReleaseError(p) \/ Crash(p)

LEMMA StepOfRun ==
    ASSUME TypeOK, Quiet, NEW p \in Replicas
    PROVE  /\ LeaseStep(p) \/ (\E ok \in BOOLEAN : Finish(p, ok)) => \A q \in Replicas : q # p => run'[q] = run[q]
           /\ Begin(p) => /\ run[p].step = "idle" /\ run'[p].step = "acquiring" /\ run'[p].renewing = "no"
                          /\ run'[p].token \in OwnerTokens \ UsedTokens /\ run'[p].outcome = "none"
           /\ Acquire(p) => /\ run[p].step = "acquiring" /\ run'[p].step = "working"
                            /\ run'[p].token = run[p].token /\ run'[p].outcome = run[p].outcome
           /\ Renews(p) => /\ run[p].step = "working" /\ run'[p].step = "working"
                           /\ run'[p].token = run[p].token /\ run'[p].outcome = run[p].outcome
           /\ \A ok \in BOOLEAN : Finish(p, ok) =>
                 /\ run[p].step = "working" /\ run'[p].step = "releasing"
                 /\ run'[p].token = run[p].token /\ run'[p].renewing = "no"
                 /\ run'[p].outcome = run[p].outcome
           /\ Ends(p) => run'[p].step = "idle" /\ run'[p].token = NoToken /\ run'[p].renewing = "no"
<1>0. run \in [Replicas -> Job] /\ run[p] \in Job
  BY Typed
<1>1. ASSUME Begin(p)
      PROVE  /\ run[p].step = "idle" /\ run'[p].step = "acquiring" /\ run'[p].renewing = "no"
             /\ run'[p].token \in OwnerTokens \ UsedTokens /\ run'[p].outcome = "none" /\ \A q \in Replicas : q # p => run'[q] = run[q]
  <2>1. PICK t \in OwnerTokens \ UsedTokens :
            run' = [run EXCEPT ![p] = [Resting EXCEPT !.step = "acquiring", !.token = t]]
    BY <1>1, RunAfter
  <2>2. run'[p] = [Resting EXCEPT !.step = "acquiring", !.token = t]
    BY <1>0, <2>1
  <2>3. run'[p].step = "acquiring" /\ run'[p].renewing = "no" /\ run'[p].token = t /\ run'[p].outcome = "none"
    BY <2>2 DEF Resting
  <2> QED BY <1>0, <1>1, <2>1, <2>3 DEF Begin
<1>2. ASSUME Acquire(p)
      PROVE  /\ run[p].step = "acquiring" /\ run'[p].step = "working" /\ run'[p].token = run[p].token
             /\ run'[p].outcome = run[p].outcome
             /\ \A q \in Replicas : q # p => run'[q] = run[q]
  <2>1. run' = [run EXCEPT ![p] = [run[p] EXCEPT !.step = "working"]]
    BY <1>2, RunAfter
  <2> QED BY <1>0, <1>2, <2>1 DEF Acquire, Job
<1>3. ASSUME Renews(p)
      PROVE  /\ run[p].step = "working" /\ run'[p].step = "working" /\ run'[p].token = run[p].token
             /\ run'[p].outcome = run[p].outcome
             /\ \A q \in Replicas : q # p => run'[q] = run[q]
  <2>1. run[p].step = "working"
    BY <1>3 DEF Renews, RenewSend, RenewExecute, RenewAnswer, RenewError, Quiet
  <2>2. \/ \E x \in Renewing : run' = [run EXCEPT ![p] = [run[p] EXCEPT !.renewing = x]]
        \/ \E b \in BOOLEAN : run' = [run EXCEPT ![p] = [[run[p] EXCEPT !.renewing = "no"] EXCEPT !.failed = b]]
    BY <1>3, RunAfter DEF Renews, Renewing
  <2>3. run[p] \in Job /\ p \in DOMAIN run
    BY <1>0
  <2>4. ASSUME NEW x \in Renewing, run' = [run EXCEPT ![p] = [run[p] EXCEPT !.renewing = x]]
        PROVE  /\ run'[p].step = "working" /\ run'[p].token = run[p].token
               /\ run'[p].outcome = run[p].outcome /\ \A q \in Replicas : q # p => run'[q] = run[q]
    BY <1>0, <2>1, <2>3, <2>4 DEF Job
  <2>5. ASSUME NEW b \in BOOLEAN,
               run' = [run EXCEPT ![p] = [[run[p] EXCEPT !.renewing = "no"] EXCEPT !.failed = b]]
        PROVE  /\ run'[p].step = "working" /\ run'[p].token = run[p].token
               /\ run'[p].outcome = run[p].outcome /\ \A q \in Replicas : q # p => run'[q] = run[q]
    <3> DEFINE j == [[run[p] EXCEPT !.renewing = "no"] EXCEPT !.failed = b]
    <3>1. j.step = run[p].step /\ j.token = run[p].token /\ j.outcome = run[p].outcome
      BY <2>3 DEF Job
    <3>2. run' = [run EXCEPT ![p] = j]
      BY <2>5
    <3> HIDE DEF j
    <3>3. run'[p] = j /\ \A q \in Replicas : q # p => run'[q] = run[q]
      BY <1>0, <3>2
    <3> QED BY <2>1, <3>1, <3>3
  <2> QED BY <2>1, <2>2, <2>4, <2>5
<1>4. ASSUME NEW ok \in BOOLEAN, Finish(p, ok)
      PROVE  /\ run[p].step = "working" /\ run'[p].step = "releasing" /\ run'[p].token = run[p].token
             /\ run'[p].outcome = run[p].outcome
             /\ run'[p].renewing = "no" /\ \A q \in Replicas : q # p => run'[q] = run[q]
  <2>1. run[p].step = "working" /\ run[p].renewing = "no"
    BY <1>4 DEF Finish
  <2>2. PICK b \in BOOLEAN : run' = [run EXCEPT ![p] = [[run[p] EXCEPT !.step = "releasing"] EXCEPT !.failed = b]]
    BY <1>4, RunAfter
  <2> DEFINE j == [[run[p] EXCEPT !.step = "releasing"] EXCEPT !.failed = b]
  <2>3. /\ j.step = "releasing" /\ j.token = run[p].token /\ j.outcome = run[p].outcome
        /\ j.renewing = run[p].renewing
    BY <1>0 DEF Job
  <2>4. run' = [run EXCEPT ![p] = j]
    BY <2>2
  <2> HIDE DEF j
  <2> QED BY <1>0, <2>1, <2>3, <2>4
<1>5. ASSUME Ends(p)
      PROVE  /\ run'[p].step = "idle" /\ run'[p].token = NoToken /\ run'[p].renewing = "no"
             /\ \A q \in Replicas : q # p => run'[q] = run[q]
  <2>1. PICK r \in {Resting, Ended("busy"), Ended("failed"), Ended("done")} : run' = [run EXCEPT ![p] = r]
    BY <1>5, RunAfter DEF Ends
  <2>2. r.step = "idle" /\ r.token = NoToken /\ r.renewing = "no"
    BY DEF Resting, Ended
  <2> QED BY <1>0, <2>1, <2>2
<1> QED BY <1>1, <1>2, <1>3, <1>4, <1>5 DEF LeaseStep, Renews, Ends

LEMMA RunsStep == IInv /\ [Next]_leaseVars => (Tokened /\ Quiet /\ Undecided /\ Distinct)'
<1> SUFFICES ASSUME IInv, [Next]_leaseVars PROVE (Tokened /\ Quiet /\ Undecided /\ Distinct)'
  OBVIOUS
<1>0. TypeOK /\ Tokened /\ Quiet /\ Undecided /\ Distinct
  BY DEF IInv
<1>1. ASSUME UNCHANGED run PROVE (Tokened /\ Quiet /\ Undecided /\ Distinct)'
  BY <1>0, <1>1 DEF Tokened, Quiet, Undecided, Distinct
<1>2. ASSUME NEW p \in Replicas, LeaseStep(p) \/ \E ok \in BOOLEAN : Finish(p, ok)
      PROVE  (Tokened /\ Quiet /\ Undecided /\ Distinct)'
  <2>1. NoToken \notin OwnerTokens
    BY TokensAssumption DEF NoToken
  <2>2. \A q \in Replicas : run[q].token \in UsedTokens
    BY DEF UsedTokens
  <2>3. \A q \in Replicas : q # p => run'[q] = run[q]
    BY <1>0, <1>2, StepOfRun
  <2>4. \/ Begin(p) \/ Acquire(p) \/ Renews(p) \/ Ends(p)
        \/ \E ok \in BOOLEAN : Finish(p, ok)
    BY <1>2 DEF LeaseStep, Renews, Ends
  <2>5. /\ run'[p].step = "idle" <=> run'[p].token = NoToken
        /\ run'[p].renewing # "no" => run'[p].step = "working"
        /\ run'[p].step = "idle" \/ run'[p].outcome = "none"
        /\ run'[p].token \in {run[p].token, NoToken} \cup (OwnerTokens \ UsedTokens)
    BY <1>0, <2>1, <2>4, StepOfRun DEF Tokened, Undecided
  <2>6. Tokened' /\ Quiet' /\ Undecided'
    BY <1>0, <2>3, <2>5 DEF Tokened, Quiet, Undecided
  <2>7. Distinct'
    BY <1>0, <2>1, <2>2, <2>3, <2>5 DEF Distinct
  <2> QED BY <2>6, <2>7
<1> QED BY <1>1, <1>2 DEF Next, Tick, leaseVars

LEMMA RowStep == IInv /\ [Next]_leaseVars => (Empty /\ Backed /\ Overtaken)'
<1> SUFFICES ASSUME IInv, [Next]_leaseVars PROVE (Empty /\ Backed /\ Overtaken)'
  OBVIOUS
<1>0. TypeOK /\ Tokened /\ Quiet /\ Distinct /\ Empty /\ Backed /\ Overtaken
  BY DEF IInv
<1>t. /\ lease \in Row /\ run \in [Replicas -> Job] /\ granted \in [Replicas -> 0 .. LeaseTime]
      /\ intruded \subseteq Replicas /\ NoToken \notin OwnerTokens
  BY <1>0, Typed, TokensAssumption DEF NoToken
<1>n. LeaseTime \in Nat /\ LeaseTime > 0 /\ \A q \in Replicas : granted[q] \in Nat /\ granted[q] <= LeaseTime
  BY <1>t, LeaseTimeAssumption
<1>1. CASE UNCHANGED leaseVars
  BY <1>0, <1>1 DEF leaseVars, Empty, Backed, Overtaken, Holding, Owns
<1>2. CASE Tick
  <2>1. lease.left \in Nat /\ lease.left <= LeaseTime
    BY <1>t, <1>n DEF Row
  <2>2. lease'.owner = lease.owner /\ lease'.left = Less(lease.left)
    BY <1>t, <1>2 DEF Tick, Row
  <2>3. UNCHANGED <<run, intruded>> /\ \A q \in Replicas : granted'[q] = Less(granted[q])
    BY <1>t, <1>2 DEF Tick
  <2>4. Empty' /\ Overtaken'
    BY <1>0, <2>2, <2>3 DEF Empty, Overtaken, Holding, Owns, Less
  <2>5. ASSUME NEW q \in Replicas, granted'[q] > 0
        PROVE  (Holding(q) /\ Owns(q))' /\ granted'[q] <= lease'.left
    <3>1. granted[q] > 0 /\ granted'[q] = granted[q] - 1
      BY <1>n, <2>3, <2>5 DEF Less
    <3>2. Holding(q) /\ Owns(q) /\ granted[q] <= lease.left
      BY <1>0, <3>1 DEF Backed
    <3>3. lease'.left = lease.left - 1
      BY <1>n, <2>1, <2>2, <3>1, <3>2 DEF Less
    <3> QED BY <1>n, <2>1, <2>2, <2>3, <3>1, <3>2, <3>3 DEF Holding, Owns
  <2> QED BY <2>4, <2>5 DEF Backed
<1>3. ASSUME NEW p \in Replicas, LeaseStep(p) \/ \E ok \in BOOLEAN : Finish(p, ok)
      PROVE  (Empty /\ Backed /\ Overtaken)'
  <2>1. \A q \in Replicas : q # p => run'[q] = run[q]
    BY <1>0, <1>3, StepOfRun
  \* The statement takes the row, for a token nobody else has.
  <2>2. ASSUME Free, TakeOver(p), run[p].step = "acquiring"
        PROVE  /\ Empty' /\ lease'.owner = run[p].token /\ lease'.left = LeaseTime
               /\ \A q \in Replicas : granted[q] = 0
               /\ \A q \in intruded' : q # p /\ Holding(q) /\ lease'.owner # run[q].token
    <3>1. lease' = [owner |-> run[p].token, left |-> LeaseTime]
      BY <2>2 DEF TakeOver
    <3>2. run[p].token # NoToken
      BY <1>0, <2>2 DEF Tokened
    <3>3. lease'.owner = run[p].token /\ lease'.left = LeaseTime
      BY <3>1
    <3>4. Empty'
      BY <3>2, <3>3 DEF Empty
    <3>5. lease.left = 0
      BY <2>2 DEF Free, NoLease
    <3>6. ASSUME NEW q \in Replicas PROVE granted[q] = 0
      BY <1>0, <1>n, <3>5 DEF Backed
    <3>7. ASSUME NEW q \in intruded' PROVE q # p /\ Holding(q) /\ lease'.owner # run[q].token
      <4>1. q \in Replicas /\ Holding(q)
        BY <1>0, <1>t, <2>2, <3>7 DEF TakeOver, Overtaken
      <4>2. q # p
        BY <2>2, <4>1 DEF Holding
      <4> QED BY <1>0, <3>2, <3>3, <4>1, <4>2 DEF Distinct
    <3> QED BY <3>3, <3>4, <3>6, <3>7
  <2>3. CASE Acquire(p)
    <3>1. Free /\ TakeOver(p) /\ Grant(p) /\ run[p].step = "acquiring"
      BY <2>3 DEF Acquire
    <3>2. run'[p].step = "working" /\ run'[p].token = run[p].token
        BY <1>0, <2>3, StepOfRun
    <3>3. granted'[p] = LeaseTime /\ \A q \in Replicas : q # p => granted'[q] = 0
      BY <1>t, <2>2, <3>1 DEF Grant
    <3>4. Backed'
      BY <2>2, <3>1, <3>2, <3>3, <1>n DEF Backed, Holding, Owns
    <3>5. Overtaken'
      BY <1>t, <2>1, <2>2, <3>1 DEF Overtaken, Holding, Owns, TakeOver
    <3> QED BY <2>2, <3>1, <3>4, <3>5
  <2>4. CASE AcquireError(p)
    <3>1. (Free /\ TakeOver(p)) \/ UNCHANGED <<lease, intruded>>
      BY <2>4, RestAfter
    <3>2. granted' = granted /\ run[p].step = "acquiring"
      BY <2>4 DEF AcquireError
    <3>3. granted[p] = 0 /\ p \notin intruded
      BY <1>0, <1>n, <3>2 DEF Backed, Overtaken, Holding
    <3>4. CASE Free /\ TakeOver(p)
      <4>1. Backed'
        BY <1>n, <2>2, <3>2, <3>4 DEF Backed
      <4>2. Overtaken'
        BY <1>t, <2>1, <2>2, <3>2, <3>4 DEF Overtaken, Holding, Owns, TakeOver
      <4> QED BY <2>2, <3>2, <3>4, <4>1, <4>2
    <3>5. CASE UNCHANGED <<lease, intruded>>
      <4>1. Backed'
        BY <1>0, <1>n, <2>1, <3>2, <3>3, <3>5 DEF Backed, Holding, Owns
      <4> QED BY <1>0, <1>t, <2>1, <3>3, <3>5, <4>1 DEF Empty, Overtaken, Holding, Owns
    <3> QED BY <3>1, <3>4, <3>5
  <2>5. CASE Release(p) \/ ReleaseError(p) \/ Crash(p)
    <3>1. (Owns(p) /\ lease' = NoLease) \/ lease' = lease
      BY <2>5, RestAfter
    <3>2. granted' = [granted EXCEPT ![p] = 0] /\ intruded' = intruded \ {p}
      BY <2>5, RestAfter DEF Forget
    <3>3. run[p].token # NoToken
      BY <1>0, <2>5 DEF Tokened, Release, ReleaseError, Crash
    <3>4. Empty'
      BY <1>0, <3>1 DEF Empty, NoLease
    <3>5. ASSUME NEW q \in Replicas, granted'[q] > 0
          PROVE  (Holding(q) /\ Owns(q))' /\ granted'[q] <= lease'.left
      <4>1. q # p /\ granted'[q] = granted[q]
        BY <1>t, <3>2, <3>5
      <4>2. Holding(q) /\ Owns(q) /\ granted[q] <= lease.left
        BY <1>0, <3>5, <4>1 DEF Backed
      <4>3. ~Owns(p)
        BY <1>0, <3>3, <4>1, <4>2 DEF Distinct, Owns
      <4> QED BY <2>1, <3>1, <4>1, <4>2, <4>3 DEF Holding, Owns
    <3>6. ASSUME NEW q \in intruded' PROVE (Holding(q) /\ ~Owns(q))'
      <4>1. q # p /\ q \in Replicas /\ Holding(q) /\ ~Owns(q)
        BY <1>0, <1>t, <3>2 DEF Overtaken
      <4>2. run[q].token # NoToken
        BY <1>0, <4>1 DEF Tokened, Holding
      <4> QED BY <2>1, <3>1, <4>1, <4>2 DEF Holding, Owns, NoLease
    <3> QED BY <3>4, <3>5, <3>6 DEF Backed, Overtaken
  <2>6. CASE RenewExecute(p)
    <3>1. run'[p].step = "working" /\ run'[p].token = run[p].token /\ run[p].step = "working"
      BY <1>0, <2>6, StepOfRun DEF Renews
    <3>2. intruded' = intruded
      BY <2>6, RestAfter
    <3>3. \A q \in Replicas : (Holding(q) <=> Holding(q)') /\ run'[q].token = run[q].token
      BY <2>1, <3>1 DEF Holding
    <3>4. CASE UNCHANGED <<lease, granted>>
      BY <1>0, <1>t, <3>2, <3>3, <3>4 DEF Empty, Backed, Overtaken, Owns
    <3>5. CASE RenewMatches(p) /\ Grant(p) /\ lease' = [lease EXCEPT !.left = LeaseTime]
      <4>1. lease'.owner = lease.owner /\ lease'.left = LeaseTime /\ lease.owner = run[p].token
        BY <1>t, <3>5 DEF RenewMatches, Owns, Row
      <4>2. run[p].token # NoToken
        BY <1>0, <3>1 DEF Tokened
      <4>3. granted' = [granted EXCEPT ![p] = LeaseTime]
        BY <3>5 DEF Grant
      <4>4. ASSUME NEW q \in Replicas, granted'[q] > 0
            PROVE  (Holding(q) /\ Owns(q))' /\ granted'[q] <= lease'.left
        <5>1. CASE q = p
          BY <1>t, <1>n, <3>1, <4>1, <4>3, <5>1 DEF Holding, Owns
        <5>2. CASE q # p
          <6>1. granted'[q] = granted[q]
            BY <1>t, <4>3, <5>2
          <6>2. Holding(q) /\ Owns(q)
            BY <1>0, <4>4, <6>1 DEF Backed
          <6> QED BY <1>0, <4>1, <4>2, <5>2, <6>2 DEF Distinct, Owns
        <5> QED BY <5>1, <5>2
      <4> QED BY <1>0, <1>t, <3>2, <3>3, <4>1, <4>2, <4>4 DEF Empty, Backed, Overtaken, Owns
    <3> QED BY <2>6, <3>4, <3>5, RestAfter
  <2>7. CASE Begin(p)
    <3>1. UNCHANGED <<lease, granted, intruded>> /\ run[p].step = "idle"
      BY <2>7, RestAfter DEF Begin
    <3>2. granted[p] = 0 /\ p \notin intruded
      BY <1>0, <1>n, <3>1 DEF Backed, Overtaken, Holding
    <3> QED BY <1>0, <1>t, <1>n, <2>1, <3>1, <3>2 DEF Empty, Backed, Overtaken, Holding, Owns
  <2>8. CASE FindBusy(p)
    <3>1. UNCHANGED <<lease, granted, intruded>> /\ run[p].step = "acquiring"
      BY <2>8, RestAfter DEF FindBusy
    <3>2. granted[p] = 0 /\ p \notin intruded
      BY <1>0, <1>n, <3>1 DEF Backed, Overtaken, Holding
    <3> QED BY <1>0, <1>t, <1>n, <2>1, <3>1, <3>2 DEF Empty, Backed, Overtaken, Holding, Owns
  <2>9. CASE RenewSend(p) \/ RenewAnswer(p) \/ RenewError(p) \/ \E ok \in BOOLEAN : Finish(p, ok)
    <3>1. UNCHANGED <<lease, granted, intruded>>
      BY <2>9, RestAfter
    <3>2. run[p].step = "working" /\ run'[p].step \in {"working", "releasing"} /\ run'[p].token = run[p].token
      BY <1>0, <2>9, StepOfRun DEF Renews
    <3>3. \A q \in Replicas : (Holding(q) <=> Holding(q)') /\ run'[q].token = run[q].token
      BY <2>1, <3>2 DEF Holding
    <3> QED BY <1>0, <1>t, <3>1, <3>3 DEF Empty, Backed, Overtaken, Owns
  <2> QED
    BY <1>3, <2>3, <2>4, <2>5, <2>6, <2>7, <2>8, <2>9 DEF LeaseStep
<1> QED BY <1>1, <1>2, <1>3 DEF Next

LEMMA Inductive == IInv /\ [Next]_leaseVars => IInv'
BY TypeStep, RunsStep, RowStep DEF IInv

LEMMA Invariance == Spec => []IInv
BY Initially, Inductive, PTL DEF Spec

(***************************************************************************)
(* As long as a replica was promised, the row is its own: a late release   *)
(* or renewal of an earlier owner, whatever was lost or crashed, does not  *)
(* take it away (tryAcquire, renew, release).                              *)
(***************************************************************************)
THEOREM PromisesKept == Spec => []PromiseIsKept
<1>1. IInv => PromiseIsKept
  BY DEF IInv, Backed, PromiseIsKept
<1> QED BY <1>1, Invariance, PTL

\* The columns of the row and the promises it makes, at every state.
THEOREM LeaseKept == Spec => []LeaseIsKept
<1>1. TypeOK /\ PromiseIsKept => LeaseIsKept
  BY DEF LeaseIsKept
<1> QED BY <1>1, LeaseTypeCorrect, PromisesKept, PTL

\* A run that is done was released by a replica without a failure, which owned the row.
LEMMA DoneWithoutFailure ==
    ASSUME IInv, [Next]_leaseVars, NEW p \in Replicas, run[p].step = "releasing", run'[p].outcome = "done"
    PROVE  ~run[p].failed /\ Owns(p)
<1>0. TypeOK /\ Quiet /\ run[p].outcome = "none" /\ run \in [Replicas -> Job]
  BY Typed DEF IInv, Undecided
<1>1. run' # run
  BY <1>0
<1>2. PICK q \in Replicas : LeaseStep(q) \/ \E ok \in BOOLEAN : Finish(q, ok)
  BY <1>1 DEF Next, Tick, leaseVars
<1>3. q = p
  BY <1>0, <1>2, StepOfRun
<1>4. Release(p) \/ ReleaseError(p) \/ Crash(p)
  BY <1>0, <1>2, <1>3, StepOfRun DEF LeaseStep, FindBusy, AcquireError, Renews
<1>5. Ended("failed").outcome = "failed" /\ Resting.outcome = "none"
  BY DEF Ended, Resting
<1>6. Release(p)
  BY <1>0, <1>4, <1>5 DEF ReleaseError, Crash
<1>7. Outcome(p) = "done"
  BY <1>0, <1>5, <1>6 DEF Release, Outcome
<1> QED
  BY <1>7 DEF Outcome, ReleaseMatches

LEMMA OwnerWasAlone == IInv /\ [Next]_leaseVars => SuccessWasExclusive
BY DoneWithoutFailure DEF SuccessWasExclusive, IInv, Overtaken

(***************************************************************************)
(* A run is reported as done only if no other replica held the lease since *)
(* it was acquired: the count of rows the release deletes tells, even if   *)
(* no renewal ever did (runIfOwner).                                       *)
(***************************************************************************)
THEOREM SuccessExclusive == Spec => [][SuccessWasExclusive]_leaseVars
<1>1. IInv /\ [Next]_leaseVars => [SuccessWasExclusive]_leaseVars
  BY OwnerWasAlone
<1> QED BY <1>1, Invariance, PTL DEF Spec

-----------------------------------------------------------------------------
(* The clean-up under the lease *)

\* A finite set of numbers has a largest one: else what lies beyond its members would shrink for ever.
LEMMA LargestExists ==
    ASSUME NEW S \in SUBSET Nat, IsFiniteSet(S), S # {}
    PROVE  \E r \in S : \A x \in S : x <= r
<1> DEFINE Beyond(r) == {x \in S : x > r}
           T == {Beyond(r) : r \in S}
<1>1. T \subseteq FiniteSubsetsOf(S) /\ T # {}
  <2>1. \A r \in S : IsFiniteSet(Beyond(r)) /\ Beyond(r) \in SUBSET S
    BY FS_Subset
  <2> QED BY <2>1 DEF FiniteSubsetsOf
<1>2. PICK U \in T : \A V \in T : <<V, U>> \notin StrictSubsetOrdering(S)
  <2> HIDE DEF T
  <2> QED BY <1>1, WFMin, FS_StrictSubsetOrderingWellFounded
<1>3. PICK r \in S : U = Beyond(r)
  BY <1>2
<1>4. ASSUME NEW x \in S PROVE x <= r
  <2> SUFFICES ASSUME ~(x <= r) PROVE FALSE
    OBVIOUS
  <2>1. x \in Nat /\ r \in Nat /\ r < x /\ \A y \in S : y \in Nat
    BY <1>3, <1>4
  <2>2. x \in Beyond(r) /\ x \notin Beyond(x) /\ Beyond(x) \subseteq Beyond(r)
    <3>1. x \in Beyond(r) /\ x \notin Beyond(x)
      BY <2>1
    <3>2. \A y \in S : y > x => y > r
      BY <2>1
    <3> QED BY <3>1, <3>2
  <2>3. Beyond(x) \in T
    OBVIOUS
  <2>4. <<Beyond(x), Beyond(r)>> \in StrictSubsetOrdering(S)
    <3>1. Beyond(x) \subseteq S /\ Beyond(r) \subseteq S
      OBVIOUS
    <3> HIDE DEF Beyond
    <3> QED BY <2>2, <3>1 DEF StrictSubsetOrdering
  <2> QED BY <1>2, <1>3, <2>3, <2>4
<1> QED BY <1>3, <1>4

(***************************************************************************)
(* A batch is no larger than its size, as its last row tells; and a batch  *)
(* that is not full is all there was, as the first row left out would have *)
(* a full batch before it.                                                 *)
(***************************************************************************)
LEMMA BatchSizes ==
    ASSUME NEW S \in SUBSET Nat, IsFiniteSet(S), NEW n \in Nat \ {0}
    PROVE  /\ Oldest(S, n) \subseteq S
           /\ Cardinality(Oldest(S, n)) \in 0 .. n
           /\ Cardinality(Oldest(S, n)) < n => Oldest(S, n) = S
<1> DEFINE Until(r) == {x \in S : x <= r}
           B == Oldest(S, n)
<1>1. B = {r \in S : Cardinality(Until(r)) <= n}
  BY DEF Oldest
<1> HIDE DEF B
<1>2. B \subseteq S /\ IsFiniteSet(B) /\ Cardinality(B) \in Nat
  BY <1>1, FS_Subset, FS_CardinalityType
<1>3. ASSUME B # S, Cardinality(B) < n PROVE FALSE
  <2> DEFINE T == {Until(r) : r \in S \ B}
  <2>1. T \subseteq FiniteSubsetsOf(S) /\ T # {}
    <3>1. \A r \in S : IsFiniteSet(Until(r)) /\ Until(r) \in SUBSET S
      BY FS_Subset
    <3> QED BY <1>2, <1>3, <3>1 DEF FiniteSubsetsOf
  <2>2. PICK U \in T : \A V \in T : <<V, U>> \notin StrictSubsetOrdering(S)
    <3> HIDE DEF T
    <3> QED BY <2>1, WFMin, FS_StrictSubsetOrderingWellFounded
  <2>3. PICK r \in S \ B : U = Until(r)
    BY <2>2
  <2>4. ASSUME NEW x \in S, x < r PROVE x \in B
    <3> SUFFICES ASSUME x \notin B PROVE FALSE
      OBVIOUS
    <3>1. Until(x) \subseteq Until(r) /\ r \in Until(r) /\ r \notin Until(x)
      <4>1. x \in Nat /\ r \in Nat /\ S \subseteq Nat
        BY <2>3
      <4>2. \A y \in S : y \in Nat
        OBVIOUS
      <4>3. r \in Until(r) /\ r \notin Until(x)
        BY <2>4, <4>1
      <4>4. \A y \in S : y <= x => y <= r
        BY <2>4, <4>1, <4>2
      <4> QED BY <4>3, <4>4
    <3>2. Until(x) \in T
      OBVIOUS
    <3>3. <<Until(x), Until(r)>> \in StrictSubsetOrdering(S)
      BY <3>1 DEF StrictSubsetOrdering
    <3> QED BY <2>2, <2>3, <3>2, <3>3
  <2>5. Until(r) \ {r} \subseteq B
    <3>1. \A x \in Until(r) \ {r} : x \in S /\ x < r
      OBVIOUS
    <3> QED BY <2>4, <3>1
  <2>6. IsFiniteSet(Until(r)) /\ r \in Until(r) /\ Cardinality(Until(r)) \in Nat
    <3>1. IsFiniteSet(Until(r))
      BY FS_Subset
    <3> HIDE DEF Until
    <3> QED BY <3>1, FS_CardinalityType DEF Until
  <2>7. Cardinality(Until(r)) - 1 <= Cardinality(B)
    <3> HIDE DEF Until
    <3>1. Cardinality(Until(r) \ {r}) = Cardinality(Until(r)) - 1
      BY <2>6, FS_RemoveElement
    <3> QED BY <1>2, <2>5, <3>1, FS_Subset
  <2>8. ~(Cardinality(Until(r)) <= n)
    BY <1>1, <2>3
  <2> HIDE DEF Until
  <2> QED BY <1>2, <1>3, <2>6, <2>7, <2>8
<1>4. ASSUME B # {} PROVE Cardinality(B) <= n
  <2>1. PICK r \in B : \A x \in B : x <= r
    BY <1>2, <1>4, LargestExists, Zenon
  <2>2. B \subseteq Until(r) /\ IsFiniteSet(Until(r))
    BY <1>2, <2>1, FS_Subset
  <2>3. Cardinality(Until(r)) <= n
    BY <1>1, <2>1
  <2> HIDE DEF Until
  <2>4. Cardinality(B) <= Cardinality(Until(r)) /\ Cardinality(Until(r)) \in Nat
    BY <2>2, FS_Subset, FS_CardinalityType
  <2> QED BY <1>2, <2>3, <2>4
<1>5. Cardinality(B) \in 0 .. n
  BY <1>2, <1>4, FS_EmptySet
<1> QED BY <1>2, <1>3, <1>5 DEF B

CleanupJob == [phase : 0 .. Phases + 1, deleted : 0 .. BatchSize, skipped : SUBSET (AllPhases \X Rows)]

\* Behind the phase a replica is at there is nothing left but what was locked, whoever
\* deleted it; and who releases without a failure is behind the last one.
CleanupTypes == expired \in [AllPhases -> SUBSET Rows] /\ job \in [Replicas -> CleanupJob]
Drained == \A p \in Replicas, f \in AllPhases : f < job[p].phase =>
              \A r \in expired[f] : <<f, r>> \in job[p].skipped
Through == \A p \in Replicas : run[p].step = "releasing" /\ ~run[p].failed => job[p].phase = Phases + 1

CleanupInv == IInv /\ CleanupTypes /\ Drained /\ Through

LEMMA NoJobIsJob == BatchAssumption => NoJob \in CleanupJob /\ [NoJob EXCEPT !.phase = 1] \in CleanupJob
BY DEF BatchAssumption, NoJob, CleanupJob

LEMMA CleanupInitially == BatchAssumption /\ CleanupInit => CleanupInv
<1> SUFFICES ASSUME BatchAssumption, CleanupInit PROVE CleanupInv
  OBVIOUS
<1>1. job = [p \in Replicas |-> NoJob] /\ NoJob \in CleanupJob /\ NoJob.phase = 0
  BY NoJobIsJob DEF CleanupInit, NoJob
<1>2. \A p \in Replicas : run[p].step = "idle"
  BY DEF CleanupInit, LeaseInit, Resting
<1> QED BY <1>1, <1>2, Initially DEF CleanupInit, CleanupInv, CleanupTypes, Drained, Through, AllPhases

LEMMA LeaseBelow == [CleanupNext]_cleanupVars => [Next]_leaseVars
<1>1. ASSUME NEW p \in Replicas, EndJob(p) PROVE Next
  BY <1>1 DEF EndJob, Next
<1> QED BY <1>1 DEF CleanupNext, cleanupVars, StartJob, PurgeBatch, CleanupRunsOn, Next

\* A batch, seen from its replica.
LEMMA BatchStep ==
    ASSUME BatchAssumption, CleanupTypes, NEW p \in Replicas, PurgeBatch(p)
    PROVE  LET f == job[p].phase IN
           /\ f \in AllPhases /\ CleanupTypes' /\ UNCHANGED run
           /\ \A g \in AllPhases : expired'[g] \subseteq expired[g]
           /\ \A q \in Replicas \ {p} : job'[q] = job[q]
           /\ job[p].skipped \subseteq job'[p].skipped
           /\ \/ job'[p].phase = f
              \/ job'[p].phase = f + 1 /\ \A r \in expired'[f] : <<f, r>> \in job'[p].skipped
<1> DEFINE f == job[p].phase
<1>0. f \in AllPhases /\ UNCHANGED run /\ job[p] \in CleanupJob
  BY DEF PurgeBatch, leaseVars, CleanupTypes
<1>1. PICK locked \in SUBSET expired[f] :
        LET batch == Oldest(expired[f] \ locked, BatchSize)
            n == Cardinality(batch)
        IN /\ expired' = [expired EXCEPT ![f] = @ \ batch]
           /\ job' = [job EXCEPT ![p] = [phase |-> IF PhaseOver(n) THEN f + 1 ELSE f,
                                         deleted |-> n, skipped |-> @.skipped \cup ({f} \X locked)]]
  BY DEF PurgeBatch
<1> DEFINE S == expired[f] \ locked
           batch == Oldest(S, BatchSize)
           n == Cardinality(batch)
           next == IF PhaseOver(n) THEN f + 1 ELSE f
<1>2. S \in SUBSET Nat /\ IsFiniteSet(S) /\ BatchSize \in Nat \ {0} /\ expired[f] \in SUBSET Rows
  <2>1. expired[f] \in SUBSET Rows
    BY <1>0 DEF CleanupTypes
  <2> QED BY <2>1, FS_Subset DEF BatchAssumption
<1>3. /\ batch \subseteq S /\ n \in 0 .. BatchSize /\ (n < BatchSize => batch = S)
  <2> HIDE DEF S
  <2> QED BY <1>2, BatchSizes
<1>4. /\ expired'[f] = expired[f] \ batch /\ \A g \in AllPhases \ {f} : expired'[g] = expired[g]
      /\ expired' \in [AllPhases -> SUBSET Rows]
  BY <1>0, <1>1, <1>2 DEF CleanupTypes
<1>5. /\ job'[p].phase = next /\ job'[p].deleted = n /\ job'[p].skipped = job[p].skipped \cup ({f} \X locked)
      /\ \A q \in Replicas \ {p} : job'[q] = job[q]
  <2> HIDE DEF f, n
  <2> QED BY <1>0, <1>1 DEF CleanupTypes, CleanupJob, n, f
<1>6. next \in 0 .. Phases + 1 /\ {f} \X locked \subseteq AllPhases \X Rows
  BY <1>0, <1>1, <1>2 DEF AllPhases, BatchAssumption
<1>7. job' \in [Replicas -> CleanupJob]
  <2>1. job' = [job EXCEPT ![p] = [phase |-> next, deleted |-> n, skipped |-> job[p].skipped \cup ({f} \X locked)]]
    BY <1>0, <1>1 DEF CleanupTypes, CleanupJob
  <2>2. [phase |-> next, deleted |-> n, skipped |-> job[p].skipped \cup ({f} \X locked)] \in CleanupJob
    BY <1>0, <1>3, <1>6 DEF CleanupJob
  <2> QED BY <2>1, <2>2 DEF CleanupTypes
<1>8. next = f + 1 => \A r \in expired'[f] : <<f, r>> \in {f} \X locked
  <2>1. next = f + 1 => batch = S
    <3>1. f \in Int
      BY <1>0 DEF AllPhases
    <3>2. next = IF n < BatchSize THEN f + 1 ELSE f
      BY DEF PhaseOver
    <3> HIDE DEF next, n, batch, S, f
    <3> QED BY <1>3, <3>1, <3>2
  <2> HIDE DEF batch
  <2> QED BY <1>4, <2>1
<1> QED
  BY <1>0, <1>4, <1>5, <1>7, <1>8 DEF CleanupTypes

LEMMA CleanupStep == BatchAssumption /\ CleanupInv /\ [CleanupNext]_cleanupVars => CleanupInv'
<1> SUFFICES ASSUME BatchAssumption, CleanupInv, [CleanupNext]_cleanupVars PROVE CleanupInv'
  OBVIOUS
<1>0. IInv /\ TypeOK /\ Quiet /\ CleanupTypes /\ Drained /\ Through /\ [Next]_leaseVars /\ run \in [Replicas -> Job]
  BY LeaseBelow, Typed DEF CleanupInv, IInv
<1>1. IInv' /\ run' \in [Replicas -> Job]
  <2>1. IInv'
    BY <1>0, Inductive
  <2>2. TypeOK'
    BY <2>1 DEF IInv
  <2> QED BY <2>1, <2>2, Typed DEF TypeOK, Job, Step, Renewing
<1>2. CASE UNCHANGED <<run, expired, job>>
  BY <1>0, <1>1, <1>2 DEF CleanupInv, CleanupTypes, Drained, Through
<1>3. ASSUME NEW p \in Replicas, StartJob(p) PROVE CleanupInv'
  <2>1. UNCHANGED <<run, expired>> /\ job' = [job EXCEPT ![p] = [NoJob EXCEPT !.phase = 1]]
        /\ run[p].step = "working"
    BY <1>3 DEF StartJob, leaseVars
  <2>2. [NoJob EXCEPT !.phase = 1] \in CleanupJob /\ [NoJob EXCEPT !.phase = 1].phase = 1
    BY NoJobIsJob DEF NoJob
  <2>3. CleanupTypes' /\ job'[p].phase = 1 /\ \A q \in Replicas \ {p} : job'[q] = job[q]
    BY <1>0, <2>1, <2>2 DEF CleanupTypes
  <2>4. Drained'
    BY <1>0, <2>1, <2>3 DEF Drained, AllPhases
  <2> QED BY <1>0, <1>1, <2>1, <2>3, <2>4 DEF CleanupInv, Through
<1>4. ASSUME NEW p \in Replicas, PurgeBatch(p) PROVE CleanupInv'
  <2> DEFINE f == job[p].phase
  <2>1. /\ f \in AllPhases /\ CleanupTypes' /\ UNCHANGED run
        /\ \A g \in AllPhases : expired'[g] \subseteq expired[g]
        /\ \A q \in Replicas \ {p} : job'[q] = job[q]
        /\ job[p].skipped \subseteq job'[p].skipped
        /\ \/ job'[p].phase = f
           \/ job'[p].phase = f + 1 /\ \A r \in expired'[f] : <<f, r>> \in job'[p].skipped
    BY <1>0, <1>4, BatchStep
  <2>2. ASSUME NEW q \in Replicas, NEW g \in AllPhases, g < job'[q].phase, NEW r \in expired'[g]
        PROVE  <<g, r>> \in job'[q].skipped
    <3>1. CASE g < job[q].phase
      BY <1>0, <2>1, <2>2, <3>1 DEF Drained
    <3>2. CASE ~(g < job[q].phase)
      <4>1. q = p /\ job'[p].phase = f + 1 /\ ~(g < f) /\ g < f + 1
        BY <2>1, <2>2, <3>2
      <4>2. g = f
        BY <2>1, <4>1 DEF AllPhases
      <4> QED BY <2>1, <2>2, <4>1, <4>2
    <3> QED BY <3>1, <3>2
  <2>3. run[p].step = "working"
    BY <1>4 DEF PurgeBatch, Working
  <2> QED BY <1>0, <1>1, <2>1, <2>2, <2>3 DEF CleanupInv, Drained, Through
<1>5. ASSUME NEW p \in Replicas, EndJob(p) PROVE CleanupInv'
  <2>1. UNCHANGED <<expired, job>>
    BY <1>5 DEF EndJob
  <2>2. PICK ok \in BOOLEAN : Finish(p, ok) /\ (ok => job[p].phase = Phases + 1)
    BY <1>5 DEF EndJob
  <2>3. run' = [run EXCEPT ![p].step = "releasing", ![p].failed = @ \/ ~ok]
    BY <2>2 DEF Finish
  <2>4. (\A q \in Replicas \ {p} : run'[q] = run[q]) /\ (~ok => run'[p].failed)
    BY <1>0, <2>3 DEF Job
  <2> QED BY <1>0, <1>1, <2>1, <2>2, <2>4 DEF CleanupInv, CleanupTypes, Drained, Through
<1>6. ASSUME NEW p \in Replicas, CleanupRunsOn(p) PROVE CleanupInv'
  <2>1. UNCHANGED expired /\ (job' = job \/ job' = [job EXCEPT ![p] = NoJob]) /\ LeaseStep(p)
    BY <1>6 DEF CleanupRunsOn
  <2>2. NoJob \in CleanupJob /\ NoJob.phase = 0
    BY NoJobIsJob DEF NoJob
  <2>3. CleanupTypes' /\ \A q \in Replicas : job'[q] = job[q] \/ job'[q].phase = 0
    BY <1>0, <2>1, <2>2 DEF CleanupTypes
  <2>4. Drained'
    BY <1>0, <2>1, <2>3 DEF Drained, AllPhases
  <2>5. run'[p].step # "releasing" /\ \A q \in Replicas \ {p} : run'[q] = run[q] /\ job'[q] = job[q]
    <3>1. \A q \in Replicas \ {p} : run'[q] = run[q]
      BY <1>0, <2>1, StepOfRun
    <3>2. run'[p].step # "releasing"
      BY <1>0, <2>1, StepOfRun DEF LeaseStep, Renews, Ends
    <3> QED BY <1>0, <2>1, <3>1, <3>2 DEF CleanupTypes
  <2>6. Through'
    BY <1>0, <2>5 DEF Through
  <2> QED BY <1>1, <2>3, <2>4, <2>6 DEF CleanupInv
<1> QED
  BY <1>2, <1>3, <1>4, <1>5, <1>6 DEF CleanupNext, Tick, cleanupVars, leaseVars

LEMMA CleanupInvariance == BatchAssumption => (CleanupSpec => []CleanupInv)
<1> SUFFICES ASSUME BatchAssumption PROVE CleanupSpec => []CleanupInv
  OBVIOUS
<1> QED BY CleanupInitially, CleanupStep, PTL DEF CleanupSpec

\* The lease keeps its promises to the clean-up, and the job its types: a transaction
\* never deletes more than a batch (runIfOwner, purgeBatches).
THEOREM CleanupIsLeased == BatchAssumption => (CleanupSpec => []CleanupKeepsPromises)
<1> SUFFICES ASSUME BatchAssumption PROVE CleanupSpec => []CleanupKeepsPromises
  OBVIOUS
<1>1. CleanupInv => CleanupTypeOK
  BY DEF CleanupInv, CleanupTypes, CleanupTypeOK, CleanupJob
<1>2. CleanupInv => PromiseIsKept
  BY DEF CleanupInv, IInv, Backed, PromiseIsKept
<1>3. CleanupTypeOK /\ PromiseIsKept => CleanupKeepsPromises
  BY DEF CleanupKeepsPromises
<1> QED BY <1>1, <1>2, <1>3, CleanupInvariance, PTL

(***************************************************************************)
(* A clean-up that reports success had the lease to itself and left no     *)
(* expired row behind but those that were locked when their batch was      *)
(* read: every phase ended with a batch that was not full, and nothing it  *)
(* left comes back (runIfOwner, purgeBatches).                             *)
(***************************************************************************)
THEOREM CleanupSucceeds ==
    BatchAssumption => (CleanupSpec => [][SuccessWasExclusive /\ SuccessMeansDrained]_cleanupVars)
<1> SUFFICES ASSUME BatchAssumption PROVE CleanupSpec => [][SuccessWasExclusive /\ SuccessMeansDrained]_cleanupVars
  OBVIOUS
<1>1. ASSUME CleanupInv, [CleanupNext]_cleanupVars PROVE SuccessWasExclusive /\ SuccessMeansDrained
  <2>1. IInv /\ [Next]_leaseVars
    BY <1>1, LeaseBelow DEF CleanupInv
  <2>2. ASSUME NEW p \in Replicas, run[p].step = "releasing", run'[p].outcome = "done",
               NEW f \in AllPhases, NEW r \in expired[f]
        PROVE  <<f, r>> \in job[p].skipped
    <3>1. ~run[p].failed
      BY <2>1, <2>2, DoneWithoutFailure
    <3>2. f < job[p].phase
      BY <1>1, <2>2, <3>1 DEF CleanupInv, Through, AllPhases, BatchAssumption
    <3> QED BY <1>1, <2>2, <3>2 DEF CleanupInv, Drained
  <2> QED BY <2>1, <2>2, OwnerWasAlone DEF SuccessMeansDrained
<1>2. CleanupInv /\ [CleanupNext]_cleanupVars => [SuccessWasExclusive /\ SuccessMeansDrained]_cleanupVars
  BY <1>1
<1> QED BY <1>2, CleanupInvariance, PTL DEF CleanupSpec

-----------------------------------------------------------------------------
(* The refresh of the reminders under the lease *)

ScanSteps == {"off", "read", "write", "last", "resolve", "done"}
Statuses == {"NONE", "PENDING", "RESOLVED", "DISMISSED"}
Scan == [step : ScanSteps, day : 0 .. Days, cursor : Nat, page : SUBSET Keys, more : BOOLEAN,
         writing : Keys \cup {NoKey}, active : SUBSET Keys, calm : BOOLEAN]

ScanTypes == /\ today \in 1 .. Days /\ due \subseteq Orders
             /\ reminder \in [Keys -> Statuses] /\ scan \in [Replicas -> Scan]

\* Where a refresh stands: it writes rows of its page only, and a page is finished before the next.
Tidy(p) == /\ scan[p].step # "off" => scan[p].day \in 1 .. Days
           /\ scan[p].step # "write" => scan[p].page = {}
           /\ scan[p].writing # NoKey => /\ scan[p].step = "write"
                                         /\ scan[p].writing \in scan[p].page \cap scan[p].active

(***************************************************************************)
(* An undisturbed refresh has met exactly the orders up to its cursor that *)
(* need a reminder today, and has written what it has met, save the rest   *)
(* of its page; after the last page there are none beyond the cursor.      *)
(***************************************************************************)
Exact(p) ==
    scan[p].calm =>
      /\ scan[p].step # "off" /\ scan[p].day = today
      /\ \A k \in scan[p].page \cup scan[p].active : k[1] \in due /\ k[2] = today
      /\ \A o \in due : o <= scan[p].cursor => <<o, today>> \in scan[p].page \cup scan[p].active
      /\ \A k \in scan[p].active \ scan[p].page : reminder[k] # "NONE"
      /\ scan[p].step = "last" \/ scan[p].step = "resolve" \/ (scan[p].step = "write" /\ ~scan[p].more) =>
            \A o \in due : o <= scan[p].cursor

RefreshInv == ScanTypes /\ \A p \in Replicas : Tidy(p) /\ Exact(p)

LEMMA PageIs ==
    ASSUME PagesAssumption, NEW S \in SUBSET Orders
    PROVE  LET items == FirstOf(S, PageSize) IN
           /\ items \subseteq S
           /\ S # {} => items # {}
           /\ items # {} => Largest(items) \in items /\ \A o \in S : o <= Largest(items) <=> o \in items
<1> DEFINE items == FirstOf(S, PageSize)
<1>1. S \in SUBSET Nat /\ IsFiniteSet(S) /\ PageSize \in Nat \ {0}
  BY FS_Subset DEF PagesAssumption
<1>2. items = Oldest(S, PageSize)
  BY DEF FirstOf, Oldest
<1>3. /\ items \subseteq S /\ Cardinality(items) \in 0 .. PageSize
      /\ Cardinality(items) < PageSize => items = S
  BY <1>1, <1>2, BatchSizes
<1>4. S # {} => items # {}
  <2> HIDE DEF items
  <2> QED BY <1>1, <1>3, FS_EmptySet
<1>5. ASSUME items # {}
      PROVE  Largest(items) \in items /\ \A o \in S : o <= Largest(items) <=> o \in items
  <2>1. items \in SUBSET Nat /\ IsFiniteSet(items)
    BY <1>1, <1>3, FS_Subset
  <2>2. Largest(items) \in items /\ \A x \in items : x <= Largest(items)
    <3> HIDE DEF items
    <3>1. \E o \in items : \A x \in items : x <= o
      BY <1>5, <2>1, LargestExists
    <3> QED BY <3>1 DEF Largest
  <2>3. ASSUME NEW o \in S, NEW l \in items, o <= l PROVE o \in items
    <3> DEFINE Until(r) == {x \in S : x <= r}
    <3>1. Until(o) \subseteq Until(l) /\ IsFiniteSet(Until(l))
      <4>1. o \in Nat /\ l \in Nat /\ \A x \in S : x \in Nat
        BY <1>1, <1>3, <2>3
      <4>2. \A x \in S : x <= o => x <= l
        BY <2>3, <4>1
      <4>3. IsFiniteSet(Until(l))
        BY <1>1, FS_Subset
      <4> QED BY <4>2, <4>3
    <3>2. Cardinality(Until(l)) <= PageSize
      BY <2>3 DEF FirstOf
    <3>3. Cardinality(Until(o)) <= PageSize
      <4> HIDE DEF Until
      <4>1. IsFiniteSet(Until(o)) /\ Cardinality(Until(o)) <= Cardinality(Until(l))
        BY <3>1, FS_Subset
      <4> QED BY <1>1, <3>1, <3>2, <4>1, FS_CardinalityType
    <3> QED BY <3>3 DEF FirstOf
  <2> HIDE DEF items
  <2> QED BY <2>2, <2>3
<1> QED BY <1>3, <1>4, <1>5

\* What a step that changes only whether a refresh is undisturbed leaves alone.
LEMMA Disturbed ==
    ASSUME ScanTypes, NEW ps
    PROVE  /\ Disturb(ps) \in [Replicas -> Scan]
           /\ \A p \in Replicas :
                /\ Disturb(ps)[p].step = scan[p].step /\ Disturb(ps)[p].day = scan[p].day
                /\ Disturb(ps)[p].cursor = scan[p].cursor /\ Disturb(ps)[p].page = scan[p].page
                /\ Disturb(ps)[p].more = scan[p].more /\ Disturb(ps)[p].writing = scan[p].writing
                /\ Disturb(ps)[p].active = scan[p].active
                /\ Disturb(ps)[p].calm <=> scan[p].calm /\ p \notin ps
BY DEF ScanTypes, Disturb, Scan

\* A refresh that a step leaves alone, while no reminder vanishes.
LEMMA Undisturbed ==
    ASSUME NEW p \in Replicas, Tidy(p), Exact(p), scan'[p] = scan[p], UNCHANGED <<today, due>>,
           \A k \in Keys : reminder[k] # "NONE" => reminder'[k] # "NONE", ScanTypes
    PROVE  Tidy(p)' /\ Exact(p)'
<1>1. Tidy(p)'
  BY DEF Tidy
<1>2. scan[p].active \subseteq Keys
  BY DEF ScanTypes, Scan
<1> QED BY <1>1, <1>2 DEF Exact

\* ... and one that was disturbed promises nothing.
LEMMA OnlyDisturbed ==
    ASSUME NEW p \in Replicas, Tidy(p), scan'[p].step = scan[p].step, scan'[p].day = scan[p].day,
           scan'[p].page = scan[p].page, scan'[p].writing = scan[p].writing,
           scan'[p].active = scan[p].active, ~scan'[p].calm
    PROVE  Tidy(p)' /\ Exact(p)'
BY DEF Tidy, Exact

LEMMA NoScanIsScan == PagesAssumption => NoScan \in Scan /\ ~NoScan.calm /\ NoScan.step = "off"
                                         /\ NoScan.page = {} /\ NoScan.writing = NoKey
BY DEF NoScan, Scan, ScanSteps, PagesAssumption

LEMMA RefreshInitially == PagesAssumption /\ RefreshInit => RefreshInv
<1> SUFFICES ASSUME PagesAssumption, RefreshInit PROVE RefreshInv
  OBVIOUS
<1>1. 1 \in 1 .. Days
  BY DEF PagesAssumption
<1>2. ScanTypes
  BY <1>1, NoScanIsScan DEF RefreshInit, ScanTypes, Statuses
<1> QED BY <1>2, NoScanIsScan DEF RefreshInit, RefreshInv, Tidy, Exact

LEMMA StartScanStep ==
    ASSUME PagesAssumption, RefreshInv, NEW p \in Replicas, StartScan(p) PROVE RefreshInv'
<1>0. ScanTypes /\ Tidy(p) /\ UNCHANGED <<today, due, reminder>>
  BY DEF RefreshInv, StartScan
<1>1. NewScan(today) \in Scan
  BY <1>0 DEF Scan, ScanSteps, ScanTypes, NewScan
<1>2. /\ scan'[p] = NewScan(today) /\ scan' \in [Replicas -> Scan]
      /\ \A q \in Replicas \ {p} : scan'[q] = scan[q]
  BY <1>0, <1>1 DEF StartScan, ScanTypes
<1>3. /\ scan'[p].step = "read" /\ scan'[p].day = today /\ scan'[p].cursor = 0 /\ scan'[p].page = {}
      /\ scan'[p].writing = NoKey /\ scan'[p].active = {} /\ scan'[p].calm
  BY <1>2 DEF NewScan
<1>4. ScanTypes'
  BY <1>0, <1>2 DEF ScanTypes
<1>5. Tidy(p)'
  BY <1>0, <1>3 DEF Tidy, ScanTypes
<1>6. Exact(p)'
  <2>1. \A o \in due : ~(o <= 0)
    BY <1>0 DEF ScanTypes, PagesAssumption
  <2> QED BY <1>0, <1>3, <2>1 DEF Exact
<1>7. \A q \in Replicas \ {p} : Tidy(q)' /\ Exact(q)'
  BY <1>0, <1>2, Undisturbed DEF RefreshInv
<1> QED BY <1>4, <1>5, <1>6, <1>7 DEF RefreshInv

LEMMA ReadPageStep ==
    ASSUME PagesAssumption, RefreshInv, NEW p \in Replicas, ReadPage(p) PROVE RefreshInv'
<1> DEFINE c == scan[p].cursor
           S == Candidates(c)
           items == FirstOf(S, PageSize)
           next == IF items = {} THEN c ELSE Largest(items)
           page == items \X {scan[p].day}
           step == IF items = {} THEN "last" ELSE "write"
<1>0. /\ ScanTypes /\ Tidy(p) /\ Exact(p) /\ UNCHANGED <<today, due, reminder>>
      /\ scan[p] \in Scan /\ scan[p].step = "read" /\ scan[p].writing = NoKey /\ scan[p].page = {}
      /\ scan[p].day \in 1 .. Days
  BY DEF RefreshInv, ReadPage, ScanTypes, Tidy
<1>1. scan' = [scan EXCEPT ![p] =
                  [step |-> step, day |-> scan[p].day, cursor |-> next, page |-> page, more |-> items # S,
                   writing |-> scan[p].writing, active |-> scan[p].active, calm |-> scan[p].calm]]
  BY <1>0 DEF ReadPage, PageOf, ScanTypes
<1>2. S \in SUBSET Orders /\ S = {o \in due : o > c} /\ c \in Nat
  BY <1>0 DEF Candidates, ScanTypes, Scan
<1>3. /\ items \subseteq S /\ (S # {} => items # {})
      /\ items # {} => Largest(items) \in items /\ \A o \in S : o <= Largest(items) <=> o \in items
  <2> HIDE DEF S
  <2> QED BY <1>2, PageIs
<1> HIDE DEF S, items, next, page, step, c
<1>4. next \in Nat /\ page \in SUBSET Keys /\ step \in ScanSteps /\ step \in {"last", "write"}
  <2>1. items \subseteq Orders /\ Orders \subseteq Nat
    BY <1>2, <1>3 DEF PagesAssumption
  <2>2. page \in SUBSET Keys
    BY <1>0, <2>1 DEF page, Keys
  <2>3. next \in Nat
    BY <1>2, <1>3, <2>1 DEF next
  <2> QED BY <2>2, <2>3 DEF step, ScanSteps
<1>5. /\ scan' \in [Replicas -> Scan] /\ \A q \in Replicas \ {p} : scan'[q] = scan[q]
      /\ scan'[p].page = page /\ scan'[p].cursor = next /\ (scan'[p].more <=> items # S)
      /\ scan'[p].step = step /\ scan'[p].day = scan[p].day /\ scan'[p].writing = scan[p].writing
      /\ scan'[p].active = scan[p].active /\ scan'[p].calm = scan[p].calm
  <2> DEFINE new == [step |-> step, day |-> scan[p].day, cursor |-> next, page |-> page, more |-> items # S,
                     writing |-> scan[p].writing, active |-> scan[p].active, calm |-> scan[p].calm]
  <2>1. new \in Scan
    BY <1>0, <1>4 DEF Scan
  <2>2. scan'[p] = new /\ scan' \in [Replicas -> Scan] /\ \A q \in Replicas \ {p} : scan'[q] = scan[q]
    BY <1>0, <1>1, <2>1 DEF ScanTypes
  <2>3. new.more = (items # S)
    BY Zenon
  <2>4. scan'[p].more = (items # S)
    BY <2>2, <2>3, Zenon
  <2>5. /\ new.step = step /\ new.day = scan[p].day /\ new.cursor = next /\ new.page = page
        /\ new.writing = scan[p].writing /\ new.active = scan[p].active /\ new.calm = scan[p].calm
    OBVIOUS
  <2> HIDE DEF new
  <2> QED BY <2>2, <2>4, <2>5
<1>6. ScanTypes'
  BY <1>0, <1>5 DEF ScanTypes
<1>7. Tidy(p)'
  BY <1>0, <1>5 DEF Tidy, step, page
<1>8. Exact(p)'
  <2> SUFFICES ASSUME scan[p].calm PROVE Exact(p)'
    BY <1>5 DEF Exact
  <2>1. scan[p].day = today /\ \A k \in page : k[1] \in due /\ k[2] = today
    BY <1>0, <1>2, <1>3 DEF Exact, page
  <2>2. /\ \A k \in scan[p].active : k[1] \in due /\ k[2] = today
        /\ \A o \in due : o <= c => <<o, today>> \in scan[p].active
        /\ \A k \in scan[p].active : reminder[k] # "NONE"
    BY <1>0 DEF Exact, c
  <2>3. \A o \in due : o \in Nat
    BY <1>0 DEF ScanTypes, PagesAssumption
  <2>4. ASSUME NEW o \in due, o <= next PROVE <<o, today>> \in page \cup scan[p].active
    <3>1. CASE o <= c
      BY <2>2, <3>1
    <3>2. CASE ~(o <= c)
      <4>1. o \in S /\ items # {} /\ o <= Largest(items)
        BY <1>2, <1>3, <2>3, <2>4, <3>2 DEF next
      <4>2. o \in items
        BY <1>3, <4>1
      <4> QED BY <2>1, <4>2 DEF page
    <3> QED BY <3>1, <3>2
  <2>5. ASSUME step = "last" \/ items = S, NEW o \in due PROVE o <= next
    <3>1. CASE items = {}
      <4>1. o \notin S
        BY <1>3, <3>1
      <4> QED BY <1>2, <2>3, <3>1, <4>1 DEF next
    <3>2. CASE items # {}
      <4>1. items = S /\ Largest(items) \in S /\ next = Largest(items)
        BY <1>3, <2>5, <3>2 DEF step, next
      <4>2. CASE o \in S
        BY <1>3, <3>2, <4>1, <4>2
      <4>3. CASE o \notin S
        BY <1>2, <2>3, <4>1, <4>3
      <4> QED BY <4>2, <4>3
    <3> QED BY <3>1, <3>2
  <2> QED BY <1>0, <1>4, <1>5, <2>1, <2>2, <2>4, <2>5 DEF Exact
<1>9. \A q \in Replicas \ {p} : Tidy(q)' /\ Exact(q)'
  BY <1>0, <1>5, Undisturbed DEF RefreshInv
<1> QED BY <1>6, <1>7, <1>8, <1>9 DEF RefreshInv

LEMMA IssueUpsertStep ==
    ASSUME PagesAssumption, RefreshInv, NEW p \in Replicas, IssueUpsert(p) PROVE RefreshInv'
<1>0. /\ ScanTypes /\ Tidy(p) /\ Exact(p) /\ UNCHANGED <<today, due, reminder>>
      /\ scan[p] \in Scan /\ scan[p].step = "write" /\ scan[p].writing = NoKey
  BY DEF RefreshInv, IssueUpsert, ScanTypes
<1>1. PICK k \in scan[p].page :
         scan' = [scan EXCEPT ![p].writing = k, ![p].active = @ \cup {k}]
  BY DEF IssueUpsert
<1>2. k \in Keys
  BY <1>0 DEF Scan
<1>3. /\ scan' \in [Replicas -> Scan] /\ \A q \in Replicas \ {p} : scan'[q] = scan[q]
      /\ scan'[p].step = "write" /\ scan'[p].day = scan[p].day /\ scan'[p].cursor = scan[p].cursor
      /\ scan'[p].page = scan[p].page /\ scan'[p].more = scan[p].more /\ scan'[p].writing = k
      /\ scan'[p].active = scan[p].active \cup {k} /\ scan'[p].calm = scan[p].calm
  BY <1>0, <1>1, <1>2 DEF ScanTypes, Scan
<1>4. ScanTypes'
  BY <1>0, <1>3 DEF ScanTypes
<1>5. Tidy(p)'
  BY <1>0, <1>3 DEF Tidy
<1>6. Exact(p)'
  BY <1>0, <1>3 DEF Exact
<1>7. \A q \in Replicas \ {p} : Tidy(q)' /\ Exact(q)'
  BY <1>0, <1>3, Undisturbed DEF RefreshInv
<1> QED BY <1>4, <1>5, <1>6, <1>7 DEF RefreshInv

LEMMA ExecuteUpsertStep ==
    ASSUME PagesAssumption, RefreshInv, NEW p \in Replicas, ExecuteUpsert(p) PROVE RefreshInv'
<1> DEFINE k == scan[p].writing
           rest == scan[p].page \ {k}
           step == IF rest # {} THEN "write" ELSE IF scan[p].more THEN "read" ELSE "last"
           D == Disturb(Others(p))
<1>0. /\ ScanTypes /\ Tidy(p) /\ Exact(p) /\ UNCHANGED <<today, due>>
      /\ scan[p] \in Scan /\ k # NoKey /\ k \in Keys /\ p \notin Others(p)
  BY DEF RefreshInv, ExecuteUpsert, ScanTypes, Scan, Others
<1>1. /\ reminder' = [reminder EXCEPT ![k] = UpsertStatus(@)]
      /\ scan' = [D EXCEPT ![p].page = rest, ![p].writing = NoKey, ![p].step = step]
  BY DEF ExecuteUpsert
<1>2. /\ reminder' \in [Keys -> Statuses] /\ reminder'[k] # "NONE"
      /\ \A x \in Keys : reminder[x] # "NONE" => reminder'[x] # "NONE"
  BY <1>0, <1>1 DEF ScanTypes, UpsertStatus, Statuses
<1>3. /\ D \in [Replicas -> Scan] /\ D[p].step = scan[p].step /\ D[p].day = scan[p].day
      /\ D[p].cursor = scan[p].cursor /\ D[p].more = scan[p].more
      /\ D[p].active = scan[p].active /\ (D[p].calm <=> scan[p].calm)
      /\ \A q \in Replicas \ {p} :
           /\ D[q].step = scan[q].step /\ D[q].day = scan[q].day /\ D[q].page = scan[q].page
           /\ D[q].writing = scan[q].writing /\ D[q].active = scan[q].active /\ ~D[q].calm
  BY <1>0, Disturbed DEF Others
<1>4. rest \in SUBSET Keys /\ step \in ScanSteps
  BY <1>0 DEF Scan, ScanSteps
<1> HIDE DEF D, rest, step, k
<1>5. /\ scan' \in [Replicas -> Scan] /\ \A q \in Replicas \ {p} : scan'[q] = D[q]
      /\ scan'[p].step = step /\ scan'[p].day = D[p].day /\ scan'[p].cursor = D[p].cursor
      /\ scan'[p].page = rest /\ scan'[p].more = D[p].more /\ scan'[p].writing = NoKey
      /\ scan'[p].active = D[p].active /\ scan'[p].calm = D[p].calm
  <2> DEFINE s == [D[p] EXCEPT !.page = rest, !.writing = NoKey, !.step = step]
  <2>1. D[p] \in Scan /\ scan' = [D EXCEPT ![p] = s]
    BY <1>1, <1>3
  <2>2. s \in Scan
    BY <1>4, <2>1 DEF Scan
  <2>3. /\ s.step = step /\ s.day = D[p].day /\ s.cursor = D[p].cursor /\ s.page = rest
        /\ s.more = D[p].more /\ s.writing = NoKey /\ s.active = D[p].active /\ s.calm = D[p].calm
    BY <2>1 DEF Scan
  <2> HIDE DEF s
  <2> QED BY <1>3, <2>1, <2>2, <2>3
<1>6. ScanTypes'
  BY <1>0, <1>2, <1>5 DEF ScanTypes
<1>7. Tidy(p)'
  BY <1>0, <1>3, <1>5 DEF Tidy, step, rest, k
<1>8. Exact(p)'
  <2> SUFFICES ASSUME scan[p].calm PROVE Exact(p)'
    BY <1>3, <1>5 DEF Exact
  <2>1. k \in scan[p].active /\ scan[p].active \subseteq Keys /\ scan[p].step = "write"
    BY <1>0 DEF Tidy, k, Scan
  <2>2. \A x \in scan[p].active \ rest : reminder'[x] # "NONE"
    BY <1>0, <1>2, <2>1 DEF Exact, rest
  <2>3. rest \cup scan[p].active = scan[p].page \cup scan[p].active
    BY <2>1 DEF rest
  <2>4. step # "resolve" /\ (step = "last" => ~scan[p].more) /\ step # "off"
    BY DEF step
  <2> QED BY <1>0, <1>3, <1>5, <2>1, <2>2, <2>3, <2>4 DEF Exact
<1>9. \A q \in Replicas \ {p} : Tidy(q)' /\ Exact(q)'
  BY <1>3, <1>5, OnlyDisturbed DEF RefreshInv
<1> QED BY <1>6, <1>7, <1>8, <1>9 DEF RefreshInv

LEMMA IssueResolveStep ==
    ASSUME PagesAssumption, RefreshInv, NEW p \in Replicas, IssueResolve(p) PROVE RefreshInv'
<1>0. /\ ScanTypes /\ Tidy(p) /\ Exact(p) /\ UNCHANGED <<today, due, reminder>>
      /\ scan[p] \in Scan /\ scan[p].step = "last" /\ scan' = [scan EXCEPT ![p].step = "resolve"]
  BY DEF RefreshInv, IssueResolve, ScanTypes
<1>1. /\ scan' \in [Replicas -> Scan] /\ \A q \in Replicas \ {p} : scan'[q] = scan[q]
      /\ scan'[p].step = "resolve" /\ scan'[p].day = scan[p].day /\ scan'[p].cursor = scan[p].cursor
      /\ scan'[p].page = scan[p].page /\ scan'[p].more = scan[p].more
      /\ scan'[p].writing = scan[p].writing
      /\ scan'[p].active = scan[p].active /\ scan'[p].calm = scan[p].calm
  BY <1>0 DEF ScanTypes, Scan, ScanSteps
<1>2. ScanTypes' /\ Tidy(p)' /\ Exact(p)'
  BY <1>0, <1>1 DEF ScanTypes, Tidy, Exact
<1>3. \A q \in Replicas \ {p} : Tidy(q)' /\ Exact(q)'
  BY <1>0, <1>1, Undisturbed DEF RefreshInv
<1> QED BY <1>2, <1>3 DEF RefreshInv

LEMMA ExecuteResolveStep ==
    ASSUME PagesAssumption, RefreshInv, NEW p \in Replicas, ExecuteResolve(p) PROVE RefreshInv'
<1> DEFINE D == Disturb(Others(p))
<1>0. /\ ScanTypes /\ Tidy(p) /\ Exact(p) /\ UNCHANGED <<today, due>>
      /\ scan[p] \in Scan /\ scan[p].step = "resolve" /\ p \notin Others(p)
      /\ scan' = [D EXCEPT ![p].step = "done"]
  BY DEF RefreshInv, ExecuteResolve, ScanTypes, Others
<1>1. /\ reminder' \in [Keys -> Statuses]
      /\ \A x \in Keys : reminder[x] # "NONE" => reminder'[x] # "NONE"
  BY <1>0 DEF ExecuteResolve, ScanTypes, Statuses
<1>2. /\ D \in [Replicas -> Scan] /\ D[p].day = scan[p].day /\ D[p].cursor = scan[p].cursor
      /\ D[p].page = scan[p].page /\ D[p].more = scan[p].more /\ D[p].writing = scan[p].writing
      /\ D[p].active = scan[p].active /\ (D[p].calm <=> scan[p].calm)
      /\ \A q \in Replicas \ {p} :
           /\ D[q].step = scan[q].step /\ D[q].day = scan[q].day /\ D[q].page = scan[q].page
           /\ D[q].writing = scan[q].writing /\ D[q].active = scan[q].active /\ ~D[q].calm
  BY <1>0, Disturbed DEF Others
<1> HIDE DEF D
<1>3. /\ scan' \in [Replicas -> Scan] /\ \A q \in Replicas \ {p} : scan'[q] = D[q]
      /\ scan'[p].step = "done" /\ scan'[p].day = D[p].day /\ scan'[p].cursor = D[p].cursor
      /\ scan'[p].page = D[p].page /\ scan'[p].more = D[p].more /\ scan'[p].writing = D[p].writing
      /\ scan'[p].active = D[p].active /\ scan'[p].calm = D[p].calm
  BY <1>0, <1>2 DEF Scan, ScanSteps
<1>4. ScanTypes'
  BY <1>0, <1>1, <1>3 DEF ScanTypes
<1>5. Tidy(p)'
  BY <1>0, <1>2, <1>3 DEF Tidy
<1>6. Exact(p)'
  <2>1. scan[p].active \subseteq Keys
    BY <1>0 DEF Scan
  <2> QED BY <1>0, <1>1, <1>2, <1>3, <2>1 DEF Exact
<1>7. \A q \in Replicas \ {p} : Tidy(q)' /\ Exact(q)'
  BY <1>2, <1>3, OnlyDisturbed DEF RefreshInv
<1> QED BY <1>4, <1>5, <1>6, <1>7 DEF RefreshInv

LEMMA RefreshStep == PagesAssumption /\ RefreshInv /\ [RefreshNext]_refreshVars => RefreshInv'
<1> SUFFICES ASSUME PagesAssumption, RefreshInv, [RefreshNext]_refreshVars PROVE RefreshInv'
  OBVIOUS
<1>0. ScanTypes /\ \A q \in Replicas : Tidy(q) /\ Exact(q)
  BY DEF RefreshInv
<1>1. ASSUME UNCHANGED <<today, due, reminder, scan>> PROVE RefreshInv'
  BY <1>1 DEF RefreshInv, ScanTypes, Tidy, Exact
<1>2. ASSUME NEW p \in Replicas, UNCHANGED <<today, due, reminder>>, scan' = [scan EXCEPT ![p] = NoScan]
      PROVE  RefreshInv'
  <2>1. scan' \in [Replicas -> Scan] /\ scan'[p] = NoScan /\ \A q \in Replicas \ {p} : scan'[q] = scan[q]
    BY <1>0, <1>2, NoScanIsScan DEF ScanTypes
  <2>2. ScanTypes' /\ Tidy(p)' /\ Exact(p)'
    BY <1>0, <1>2, <2>1, NoScanIsScan DEF ScanTypes, Tidy, Exact
  <2> QED BY <1>0, <1>2, <2>1, <2>2, Undisturbed DEF RefreshInv
<1>3. ASSUME NEW p \in Replicas, EndScan(p) \/ RefreshRunsOn(p) PROVE RefreshInv'
  <2>1. UNCHANGED <<today, due, reminder>> /\ (scan' = scan \/ scan' = [scan EXCEPT ![p] = NoScan])
    BY <1>3 DEF EndScan, RefreshRunsOn, Forgotten
  <2> QED BY <1>1, <1>2, <2>1
<1>4. ASSUME scan' = Disturb(Replicas), reminder' = reminder, today' \in 1 .. Days, due' \subseteq Orders
      PROVE  RefreshInv'
  <2>1. scan' \in [Replicas -> Scan] /\ \A q \in Replicas :
           /\ scan'[q].step = scan[q].step /\ scan'[q].day = scan[q].day /\ scan'[q].page = scan[q].page
           /\ scan'[q].writing = scan[q].writing /\ scan'[q].active = scan[q].active /\ ~scan'[q].calm
    BY <1>0, <1>4, Disturbed
  <2> QED BY <1>0, <1>4, <2>1, OnlyDisturbed DEF RefreshInv, ScanTypes
<1>5. ASSUME NEW o \in Orders, OrderChanges(o) PROVE RefreshInv'
  BY <1>0, <1>4, <1>5 DEF OrderChanges, ScanTypes
<1>6. CASE NextDay
  <2>1. today' \in 1 .. Days
    BY <1>0, <1>6 DEF NextDay, ScanTypes, PagesAssumption
  <2> QED BY <1>0, <1>4, <1>6, <2>1 DEF NextDay, ScanTypes
<1>7. ASSUME NEW k \in Keys, Dismiss(k) PROVE RefreshInv'
  <2>1. UNCHANGED <<today, due, scan>> /\ reminder' \in [Keys -> Statuses]
        /\ \A x \in Keys : reminder[x] # "NONE" => reminder'[x] # "NONE"
    BY <1>0, <1>7 DEF Dismiss, ScanTypes, Statuses
  <2> QED BY <1>0, <2>1, Undisturbed DEF RefreshInv, ScanTypes
<1>8. CASE UNCHANGED refreshVars
  BY <1>1, <1>8 DEF refreshVars
<1> QED
  BY <1>1, <1>3, <1>5, <1>6, <1>7, <1>8, StartScanStep, ReadPageStep, IssueUpsertStep,
     ExecuteUpsertStep, IssueResolveStep, ExecuteResolveStep DEF RefreshNext

LEMMA RefreshInvariance == PagesAssumption => (RefreshSpec => []RefreshInv)
<1> SUFFICES ASSUME PagesAssumption PROVE RefreshSpec => []RefreshInv
  OBVIOUS
<1> QED BY RefreshInitially, RefreshStep, PTL DEF RefreshSpec

\* Reminders and refreshes keep their types; what is being written is of the page at hand.
THEOREM RefreshTypeCorrect == PagesAssumption => (RefreshSpec => []RefreshTypeOK)
<1> SUFFICES ASSUME PagesAssumption PROVE RefreshSpec => []RefreshTypeOK
  OBVIOUS
<1>1. RefreshInv => RefreshTypeOK
  BY DEF RefreshInv, ScanTypes, Tidy, RefreshTypeOK, Scan, ScanSteps, Statuses
<1> QED BY <1>1, RefreshInvariance, PTL

\* A reminder that was handled stays handled, whichever replica, however late, writes it again
\* (upsert, resolveMissing, dismiss).
THEOREM HandledRemindersStay == PagesAssumption => (RefreshSpec => [][TerminalStays]_refreshVars)
<1> SUFFICES ASSUME PagesAssumption PROVE RefreshSpec => [][TerminalStays]_refreshVars
  OBVIOUS
<1>1. ASSUME RefreshInv, RefreshNext PROVE TerminalStays
  <2>1. reminder \in [Keys -> Statuses]
    BY <1>1 DEF RefreshInv, ScanTypes
  <2>2. ASSUME NEW p \in Replicas, ExecuteUpsert(p) PROVE TerminalStays
    BY <2>1, <2>2 DEF ExecuteUpsert, UpsertStatus, TerminalStays
  <2>3. ASSUME NEW p \in Replicas, ExecuteResolve(p) PROVE TerminalStays
    BY <2>1, <2>3 DEF ExecuteResolve, TerminalStays
  <2>4. ASSUME NEW k \in Keys, Dismiss(k) PROVE TerminalStays
    BY <2>1, <2>4 DEF Dismiss, TerminalStays
  <2>5. ASSUME UNCHANGED reminder PROVE TerminalStays
    BY <2>5 DEF TerminalStays
  <2> QED BY <1>1, <2>2, <2>3, <2>4, <2>5
          DEF RefreshNext, StartScan, ReadPage, IssueUpsert, IssueResolve, EndScan, RefreshRunsOn,
              OrderChanges, NextDay
<1>2. RefreshInv /\ [RefreshNext]_refreshVars => [TerminalStays]_refreshVars
  BY <1>1
<1> QED BY <1>2, RefreshInvariance, PTL DEF RefreshSpec

(***************************************************************************)
(* A refresh that nothing disturbed leaves a reminder for every order that *)
(* needs one today and no other pending, over any number of pages: each    *)
(* page is closed downwards, so none is skipped between two of them, and   *)
(* the last is known by having left out none (refreshShopOwned).           *)
(***************************************************************************)
THEOREM UndisturbedRefreshIsExact == PagesAssumption => (RefreshSpec => [][RefreshIsExact]_refreshVars)
<1> SUFFICES ASSUME PagesAssumption PROVE RefreshSpec => [][RefreshIsExact]_refreshVars
  OBVIOUS
<1>1. ASSUME RefreshInv, [RefreshNext]_refreshVars PROVE RefreshIsExact
  <2> SUFFICES ASSUME NEW p \in Replicas, scan[p].step = "resolve", scan'[p].step = "done", scan[p].calm
               PROVE  /\ \A o \in due : reminder'[<<o, today>>] # "NONE"
                      /\ \A k \in Keys : reminder'[k] = "PENDING" => k[1] \in due /\ k[2] = today
    BY DEF RefreshIsExact
  <2>0. ScanTypes /\ Tidy(p) /\ Exact(p) /\ scan[p] \in Scan
    BY <1>1 DEF RefreshInv, ScanTypes
  <2>1. ExecuteResolve(p)
    <3>1. ASSUME NEW q \in Replicas, StartScan(q) \/ ReadPage(q) \/ IssueUpsert(q) \/ IssueResolve(q)
                                     \/ EndScan(q) \/ RefreshRunsOn(q)
          PROVE  scan'[p].step = scan[p].step \/ scan'[p].step \in {"read", "write", "last", "resolve", "off"}
      <4>1. scan \in [Replicas -> Scan]
        BY <2>0 DEF ScanTypes
      <4>2. CASE StartScan(q)
        BY <4>1, <4>2 DEF StartScan, NewScan
      <4>3. CASE ReadPage(q)
        BY <4>1, <4>3 DEF ReadPage
      <4>4. CASE IssueUpsert(q)
        BY <4>1, <4>4 DEF IssueUpsert, Scan
      <4>5. CASE IssueResolve(q)
        BY <4>1, <4>5 DEF IssueResolve, Scan
      <4>6. CASE EndScan(q) \/ RefreshRunsOn(q)
        <5>1. scan' = scan \/ scan' = [scan EXCEPT ![q] = NoScan]
          BY <4>6 DEF EndScan, Forgotten, RefreshRunsOn
        <5>2. NoScan.step = "off"
          BY DEF NoScan
        <5> QED BY <4>1, <5>1, <5>2
      <4> QED BY <3>1, <4>2, <4>3, <4>4, <4>5, <4>6
    <3>2. ASSUME NEW q \in Replicas, ExecuteUpsert(q)
          PROVE  scan'[p].step = scan[p].step \/ scan'[p].step \in {"read", "write", "last"}
      BY <2>0, <3>2, Disturbed DEF ExecuteUpsert
    <3>3. ASSUME NEW q \in Replicas \ {p}, ExecuteResolve(q) PROVE scan'[p].step = scan[p].step
      BY <2>0, <3>3, Disturbed DEF ExecuteResolve
    <3>4. ASSUME scan' = Disturb(Replicas) \/ scan' = scan PROVE scan'[p].step = scan[p].step
      BY <2>0, <3>4, Disturbed
    <3> QED BY <1>1, <3>1, <3>2, <3>3, <3>4 DEF RefreshNext, refreshVars, OrderChanges, Dismiss, NextDay
  <2>2. scan[p].page = {} /\ scan[p].active \subseteq Keys
    BY <2>0 DEF Tidy, Scan
  <2>3. \A o \in due : <<o, today>> \in scan[p].active /\ <<o, today>> \in Keys
    BY <2>0, <2>2 DEF Exact
  <2>4. \A k \in Keys : reminder'[k] = IF reminder[k] = "PENDING" /\ k \notin scan[p].active
                                       THEN "RESOLVED" ELSE reminder[k]
    BY <2>1 DEF ExecuteResolve
  <2> QED BY <2>0, <2>2, <2>3, <2>4 DEF Exact
<1>2. RefreshInv /\ [RefreshNext]_refreshVars => [RefreshIsExact]_refreshVars
  BY <1>1
<1> QED BY <1>2, RefreshInvariance, PTL DEF RefreshSpec

-----------------------------------------------------------------------------
(***************************************************************************)
(* The rules: which order needs which reminder, and which are read at all. *)
(* An order asked about is one the program writes; the proofs rest on a    *)
(* moment lying in its day, for days of any length.                        *)
(***************************************************************************)
Asked == /\ moment \in Nat /\ rental \in Rental /\ rental.start < rental.end
         /\ rental.status \notin {"DRAFT", "RETURNED"}

LEMMA RulesInvariance == HorizonAssumption => (RulesSpec => []Asked)
<1> SUFFICES ASSUME HorizonAssumption PROVE RulesSpec => []Asked
  OBVIOUS
<1>1. RulesInit => Asked
  BY DEF RulesInit, Asked, HorizonAssumption
<1>2. Asked /\ [RulesNext]_ruleVars => Asked'
  BY DEF RulesNext, ruleVars, Asked
<1> QED BY <1>1, <1>2, PTL DEF RulesSpec

LEMMA MomentIsInItsDay ==
    ASSUME HorizonAssumption, Asked
    PROVE  /\ DayStart \in Int /\ DayEnd \in Int
           /\ DayStart <= moment /\ moment < DayEnd /\ DayEnd <= ReturnSoonEnd
<1> DEFINE d == DayLength
           n == moment \div d
<1>1. d \in Nat /\ d > 0 /\ moment \in Nat
  BY DEF HorizonAssumption, Asked
<1>2. n \in Int /\ n * d <= moment /\ moment < n * d + d
  BY <1>1, SMTT(30)
<1>3. DayStart = n * d /\ DayEnd = DayStart + d /\ ReturnSoonEnd = moment + d
  BY DEF DayStart, DayEnd, ReturnSoonEnd
<1> HIDE DEF n, d
<1>4. n * d \in Int
  BY <1>1, <1>2
<1> QED BY <1>1, <1>2, <1>3, <1>4

(***************************************************************************)
(* The query that reads the orders of a refresh loses none that the rules  *)
(* write a reminder for, whatever the length of a day and wherever in it   *)
(* the refresh runs (candidatePage, refreshShopOwned).                     *)
(***************************************************************************)
THEOREM WorksetIsLossless == HorizonAssumption => (RulesSpec => []LosslessWorkset)
<1> SUFFICES ASSUME HorizonAssumption PROVE RulesSpec => []LosslessWorkset
  OBVIOUS
<1>1. ASSUME Asked, NEW type \in Reminders(rental) PROVE InWorkset(rental)
  <2>0. rental.end \in Int /\ moment \in Int /\ ReturnSoonEnd \in Int /\ moment <= ReturnSoonEnd
    BY <1>1 DEF Asked, Rental, HorizonAssumption, ReturnSoonEnd
  <2>1. CASE type = "PICKUP_TODAY"
    BY <1>1, <2>1 DEF Reminders, InWorkset
  <2>2. CASE type = "RETURN_TODAY"
    <3>1. ToBeReturned(rental) /\ rental.end < DayEnd
      BY <1>1, <2>2 DEF Reminders, Today
    <3> QED BY <1>1, <2>0, <3>1, MomentIsInItsDay DEF InWorkset
  <2>3. CASE type = "RETURN_SOON"
    BY <1>1, <2>3 DEF Reminders, InWorkset, SoonUpTo
  <2>4. CASE type = "OVERDUE"
    <3>1. ToBeReturned(rental) /\ rental.end < moment
      BY <1>1, <2>4 DEF Reminders
    <3> QED BY <2>0, <3>1 DEF InWorkset
  <2>5. CASE type = "PAYMENT_DUE"
    <3>1. rental.payment # "PAID" /\ rental.status # "CANCELLED"
      BY <1>1, <2>5 DEF Reminders
    <3> QED BY <1>1, <3>1 DEF Asked, Rental, OrderStatus, InWorkset
  <2>6. CASE type = "DEPOSIT_DUE"
    BY <1>1, <2>6 DEF Reminders, InWorkset
  <2> QED BY <1>1, <2>1, <2>2, <2>3, <2>4, <2>5, <2>6 DEF Reminders
<1>2. Asked => LosslessWorkset
  BY <1>1 DEF LosslessWorkset
<1> QED BY <1>2, RulesInvariance, PTL

(***************************************************************************)
(* A rental that is out is announced from 24 hours before its return on,   *)
(* by one kind of reminder: no gap and no overlap between today, soon and  *)
(* overdue (refreshShopOwned).                                             *)
(***************************************************************************)
THEOREM ReturnsAreAnnounced == HorizonAssumption => (RulesSpec => []ReturnIsAnnounced)
<1> SUFFICES ASSUME HorizonAssumption PROVE RulesSpec => []ReturnIsAnnounced
  OBVIOUS
<1>1. ASSUME Asked PROVE ReturnIsAnnounced
  <2>0. rental.end \in Int /\ moment \in Int /\ ReturnSoonEnd \in Int
    BY <1>1 DEF Asked, Rental, HorizonAssumption, ReturnSoonEnd
  <2>1. /\ "RETURN_TODAY" \in Reminders(rental) <=> ToBeReturned(rental) /\ Today(rental.end)
        /\ "RETURN_SOON" \in Reminders(rental) <=>
             /\ ToBeReturned(rental) /\ ~Today(rental.end)
             /\ moment < rental.end /\ rental.end <= ReturnSoonEnd
        /\ "OVERDUE" \in Reminders(rental) <=> ToBeReturned(rental) /\ rental.end < moment
    BY DEF Reminders, SoonUpTo
  <2>2. ASSUME rental.status = "ACTIVE", rental.end <= ReturnSoonEnd
        PROVE  Reminders(rental) \cap {"RETURN_TODAY", "RETURN_SOON", "OVERDUE"} # {}
    <3>1. ToBeReturned(rental)
      BY <2>2 DEF ToBeReturned
    <3>2. CASE Today(rental.end)
      BY <2>1, <3>1, <3>2
    <3>3. CASE ~Today(rental.end)
      <4>1. rental.end < moment \/ moment < rental.end
        BY <1>1, <2>0, <3>3, MomentIsInItsDay DEF Today
      <4> QED BY <2>1, <2>2, <3>1, <3>3, <4>1
    <3> QED BY <3>2, <3>3
  <2>3. ~ {"RETURN_TODAY", "RETURN_SOON"} \subseteq Reminders(rental)
    BY <2>1
  <2>4. "OVERDUE" \in Reminders(rental) => "RETURN_SOON" \notin Reminders(rental)
    BY <2>0, <2>1
  <2> QED BY <2>2, <2>3, <2>4 DEF ReturnIsAnnounced
<1>2. Asked => ReturnIsAnnounced
  BY <1>1
<1> QED BY <1>2, RulesInvariance, PTL
=============================================================================
