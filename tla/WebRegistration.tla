--------------------------- MODULE WebRegistration ---------------------------
(* The registration of one e-mail address: attempts with a password each, a   *)
(* verification code mailed for every attempt and resend, and the             *)
(* verification.  A request issues its challenge in a transaction, sends the  *)
(* code after the commit and then records what became of it; the process may  *)
(* die and answers may be lost in between.                                    *)
EXTENDS Naturals, FiniteSets

CONSTANTS Calls,
          Attempts,      \* 1 .. n: registrations, each with a password of its own
          Challenges,    \* 1 .. n: ids in the order they are issued
          CodeTtl,       \* otpTtlSeconds
          Cooldown,      \* resendCooldownSeconds
          RetryDelay,    \* deliveryFailureRetrySeconds, at most Cooldown
          MaxTries,      \* otpMaxAttempts
          CodeRetention, \* AUTH_OTP_RETENTION_HOURS
          LastTime       \* bound of the clock

RegistrationAssumption == /\ {CodeTtl, Cooldown, RetryDelay, MaxTries, CodeRetention, LastTime} \subseteq Nat
                          /\ RetryDelay <= Cooldown
                          /\ Attempts \subseteq Nat \ {0} /\ Challenges \subseteq Nat \ {0}

VARIABLES account,     \* the row of web_accounts
          challenge,   \* web_otp_challenges
          call,        \* what each request is doing
          clock,
          held,        \* challenges the customer was answered
          mailed,      \* challenges whose code the provider sent
          verifiedBy   \* the challenge that verified the address, or 0

registrationVars == <<account, challenge, call, clock, held, mailed, verifiedBy>>

Time == 0 .. LastTime
Never == LastTime + CodeTtl + Cooldown + 1
Stamp == 0 .. Never
NoAccount == [exists |-> FALSE, password |-> 0, pending |-> 0, attempt |-> 0,
              verified |-> FALSE, disabled |-> FALSE]
NoChallenge == [state |-> "none", attempt |-> 0, delivery |-> "PENDING", expires |-> 0,
                resendAt |-> 0, consumed |-> Never, tries |-> 0, anchor |-> 0]
NoCall == [step |-> "idle", attempt |-> 0, requested |-> 0, challenge |-> 0, now |-> 0]

Live(c) == challenge[c].state = "live"
Active == {c \in Challenges : Live(c) /\ challenge[c].consumed = Never}
Unissued == {c \in Challenges : challenge[c].state = "none"}
FirstOf(S) == CHOOSE c \in S : \A d \in S : c <= d

Closed == account.verified \/ account.disabled

Done(r) == call' = [call EXCEPT ![r] = NoCall]
Continue(r, step) == call' = [call EXCEPT ![r].step = step]

-----------------------------------------------------------------------------
(* Issuing a challenge *)

\* The cooldown is stored with the active challenge; "now" is when the request
\* was received, not when it got the lock.
TooSoon(now) == \E c \in Active : challenge[c].resendAt > now

NewChallenge(attempt, anchor, now) ==
  [state |-> "live", attempt |-> attempt, delivery |-> "PENDING", expires |-> now + CodeTtl,
   resendAt |-> now + Cooldown, consumed |-> Never, tries |-> 0, anchor |-> anchor]

AddedChallenge(attempt, anchor, now) ==
  [challenge EXCEPT ![FirstOf(Unissued)] = NewChallenge(attempt, anchor, now)]
IssuedChallenge(attempt, anchor, now) ==
  [c \in Challenges |->
     IF c = FirstOf(Unissued) THEN NewChallenge(attempt, anchor, now)
     ELSE IF c \in Active THEN [challenge[c] EXCEPT !.consumed = now] ELSE challenge[c]]

IssueNext(r, attempt, anchor) ==
  /\ Unissued # {}
  /\ challenge' = IssuedChallenge(attempt, anchor, call[r].now)
  /\ call' = [call EXCEPT ![r].step = "send", ![r].challenge = FirstOf(Unissued)]

Attempted == {call[r].attempt : r \in Calls} \cup {challenge[c].attempt : c \in Challenges}

\* register: the look-up before the password is hashed.
StartRegister(r, a) ==
  /\ call[r] = NoCall
  /\ ~Closed
  /\ a \notin Attempted
  /\ call' = [call EXCEPT ![r].step = "register", ![r].attempt = a, ![r].now = clock]
  /\ UNCHANGED <<account, challenge, clock, held, mailed, verifiedBy>>

RenewedByAnyone(attempt, tooSoon) == [account EXCEPT !.pending = attempt,
                                        !.attempt = IF tooSoon THEN @ ELSE attempt]
Renewed(attempt, tooSoon) ==
  IF tooSoon THEN account ELSE [account EXCEPT !.pending = attempt, !.attempt = attempt]

NeverRefused == FALSE
RegisterRefused == Closed

\* issueFromRegistration for an address that has a row, under its lock.
RegisterAgain(r) ==
  LET a == call[r].attempt  soon == TooSoon(call[r].now) IN
  /\ call[r].step = "register" /\ account.exists
  /\ IF RegisterRefused
     THEN Done(r) /\ UNCHANGED <<account, challenge>>
     ELSE /\ account' = Renewed(a, soon)
          /\ IF soon THEN Done(r) /\ UNCHANGED challenge ELSE IssueNext(r, a, 0)
  /\ UNCHANGED <<clock, held, mailed, verifiedBy>>

\* ... and for a new address: no row to lock, so two requests may get here.
FindNoAccount(r) ==
  /\ call[r].step = "register" /\ ~account.exists
  /\ Continue(r, "create")
  /\ UNCHANGED <<account, challenge, clock, held, mailed, verifiedBy>>

\* The unique index on the address rejects the second (P2002), which is answered
\* "already registered" or "too soon".
CreateAccount(r) ==
  LET a == call[r].attempt IN
  /\ call[r].step = "create"
  /\ IF account.exists
     THEN Done(r) /\ UNCHANGED <<account, challenge>>
     ELSE /\ account' = [NoAccount EXCEPT !.exists = TRUE, !.password = a, !.pending = a, !.attempt = a]
          /\ IssueNext(r, a, 0)
  /\ UNCHANGED <<clock, held, mailed, verifiedBy>>

StartResend(r, c) ==
  /\ call[r] = NoCall
  /\ c \in held
  /\ call' = [call EXCEPT ![r].step = "resend", ![r].requested = c, ![r].now = clock]
  /\ UNCHANGED <<account, challenge, clock, held, mailed, verifiedBy>>

\* Only the active challenge may be replaced, or by the id it replaced if its
\* own delivery failed.
MayResend(c) ==
  /\ Live(c) /\ ~Closed /\ challenge[c].attempt = account.attempt
  /\ \E active \in Active :
       \/ active = c
       \/ /\ challenge[active].delivery = "FAILED" /\ challenge[active].anchor = c
          /\ challenge[active].attempt = account.attempt

AnchorIsActive(c) == CHOOSE active \in Active : TRUE
Anchor(c) == c

Resend(r) ==
  LET c == call[r].requested IN
  /\ call[r].step = "resend"
  /\ IF ~MayResend(c) \/ TooSoon(call[r].now)
     THEN Done(r) /\ UNCHANGED challenge
     ELSE IssueNext(r, account.attempt, Anchor(c))
  /\ UNCHANGED <<account, clock, held, mailed, verifiedBy>>

-----------------------------------------------------------------------------
(* Delivery, after the commit *)

\* The provider accepts the code, and the answer is read or lost, or it does not.
Send(r) ==
  /\ call[r].step = "send"
  /\ \/ mailed' = mailed \cup {call[r].challenge} /\ Continue(r, "sent")
     \/ mailed' = mailed \cup {call[r].challenge} /\ Continue(r, "failed")
     \/ UNCHANGED mailed /\ Continue(r, "failed")
  /\ UNCHANGED <<account, challenge, clock, held, verifiedBy>>

\* updateDeliveryState: only of a challenge that is still active and undecided.
UndecidedOrReplaced(c) == Live(c) /\ challenge[c].delivery = "PENDING"
Undecided(c) == Live(c) /\ challenge[c].consumed = Never /\ challenge[c].delivery = "PENDING"

MarkSent(r) ==
  LET c == call[r].challenge
      ok == Undecided(c) /\ challenge[c].expires > clock
  IN
  /\ call[r].step = "sent"
  /\ challenge' = IF ok THEN [challenge EXCEPT ![c].delivery = "SENT"] ELSE challenge
  /\ \/ ok /\ held' = held \cup {c} /\ Done(r)
     \/ UNCHANGED held /\ Continue(r, "failed")   \* refused, or its answer is lost
  /\ UNCHANGED <<account, clock, mailed, verifiedBy>>

\* The statement fails without effect.
MarkSentFails(r) ==
  /\ call[r].step = "sent"
  /\ Continue(r, "failed")
  /\ UNCHANGED <<account, challenge, clock, held, mailed, verifiedBy>>

MarkFailed(r) ==
  LET c == call[r].challenge IN
  /\ call[r].step = "failed"
  /\ challenge' = IF Undecided(c)
                  THEN [challenge EXCEPT ![c].delivery = "FAILED", ![c].resendAt = clock + RetryDelay]
                  ELSE challenge
  /\ Done(r)
  /\ UNCHANGED <<account, clock, held, mailed, verifiedBy>>

\* The process dies, or the last statement fails: the challenge stays PENDING.
Die(r) ==
  /\ call[r] # NoCall
  /\ Done(r)
  /\ UNCHANGED <<account, challenge, clock, held, mailed, verifiedBy>>

-----------------------------------------------------------------------------
(* Verification *)

StartVerify(r, c) ==
  /\ call[r] = NoCall
  /\ c \in held
  /\ call' = [call EXCEPT ![r].step = "verify", ![r].requested = c, ![r].now = clock]
  /\ UNCHANGED <<account, challenge, clock, held, mailed, verifiedBy>>

ExhaustedLate(c) == challenge[c].tries > MaxTries
Exhausted(c) == challenge[c].tries >= MaxTries

Verifiable(c, now) ==
  /\ Live(c) /\ ~Closed
  /\ challenge[c].attempt = account.attempt /\ account.pending # 0
  /\ challenge[c].consumed = Never /\ challenge[c].delivery = "SENT"
  /\ challenge[c].expires > now
  /\ ~Exhausted(c)

\* A wrong code counts as a try; the right one sets the password of the attempt.
Verify(r) ==
  LET c == call[r].requested  now == call[r].now IN
  /\ call[r].step = "verify"
  /\ Done(r)
  /\ \/ ~Verifiable(c, now) /\ UNCHANGED <<account, challenge, verifiedBy>>
     \/ /\ Verifiable(c, now)
        /\ challenge' = [challenge EXCEPT ![c].tries = @ + 1]
        /\ UNCHANGED <<account, verifiedBy>>
     \/ /\ Verifiable(c, now)
        /\ challenge' = [d \in Challenges |->
             [challenge[d] EXCEPT !.tries = IF d = c THEN @ + 1 ELSE @,
                                  !.consumed = IF d \in Active THEN now ELSE @]]
        /\ account' = [account EXCEPT !.password = account.pending, !.pending = 0, !.attempt = 0,
                                      !.verified = TRUE]
        /\ verifiedBy' = c
  /\ UNCHANGED <<clock, held, mailed>>

-----------------------------------------------------------------------------
\* purgeWebOtpChallenges: by the time of consumption, else of expiry.
CodeEnded(c) == IF challenge[c].consumed # Never THEN challenge[c].consumed ELSE challenge[c].expires
PurgeableAhead(c) == Live(c) /\ CodeEnded(c) <= clock + CodeRetention
PurgeableCode(c) == Live(c) /\ CodeEnded(c) + CodeRetention <= clock

PurgeCodes(c) ==
  /\ PurgeableCode(c)
  /\ challenge' = [challenge EXCEPT ![c].state = "purged"]
  /\ UNCHANGED <<account, call, clock, held, mailed, verifiedBy>>

\* disabled_at has no writer in the program; an operator may set it.
Disable ==
  /\ account.exists /\ ~account.disabled
  /\ account' = [account EXCEPT !.disabled = TRUE]
  /\ UNCHANGED <<challenge, call, clock, held, mailed, verifiedBy>>

RegistrationTick ==
  /\ clock < LastTime
  /\ clock' = clock + 1
  /\ UNCHANGED <<account, challenge, call, held, mailed, verifiedBy>>

RegistrationInit ==
  /\ account = NoAccount
  /\ challenge = [c \in Challenges |-> NoChallenge]
  /\ call = [r \in Calls |-> NoCall]
  /\ clock = 0
  /\ held = {} /\ mailed = {} /\ verifiedBy = 0

RegistrationNext ==
  \/ \E r \in Calls :
       \/ \E a \in Attempts : StartRegister(r, a)
       \/ RegisterAgain(r) \/ FindNoAccount(r) \/ CreateAccount(r)
       \/ \E c \in held : StartResend(r, c) \/ StartVerify(r, c)
       \/ Resend(r) \/ Send(r) \/ MarkSent(r) \/ MarkSentFails(r) \/ MarkFailed(r)
       \/ Verify(r) \/ Die(r)
  \/ \E c \in Challenges : PurgeCodes(c)
  \/ Disable \/ RegistrationTick

RegistrationSpec == RegistrationInit /\ [][RegistrationNext]_registrationVars

-----------------------------------------------------------------------------
(* Properties *)

RegistrationTypeOK ==
  /\ account \in [exists : BOOLEAN, password : Nat, pending : Nat, attempt : Nat,
                  verified : BOOLEAN, disabled : BOOLEAN]
  /\ challenge \in [Challenges ->
       [state : {"none", "live", "purged"}, attempt : Nat, delivery : {"PENDING", "SENT", "FAILED"},
        expires : Stamp, resendAt : Stamp, consumed : Stamp, tries : 0 .. MaxTries, anchor : Nat]]
  /\ clock \in Time
  /\ held \subseteq Challenges /\ mailed \subseteq Challenges

\* At most one challenge can verify, it belongs to the attempt whose password is
\* pending, and none is left once the address is verified.
ActiveOfAttempt ==
  /\ Cardinality(Active) <= 1
  /\ \A c \in Active : ~account.verified /\ challenge[c].attempt = account.attempt

\* The password in force is that of the attempt whose code was mailed and typed
\* in, although others registered the same address in between.
VerifiedPasswordIsMailed ==
  account.verified => /\ verifiedBy \in mailed
                      /\ account.password = challenge[verifiedBy].attempt

\* After a resend whose delivery failed, the id the customer was last answered
\* can ask for another code (WEB_AUTH.md, "a resend using the previous challenge
\* ID can issue one replacement after that deadline").
FailedDeliveryHasWayBack ==
  \A c \in Active :
    challenge[c].delivery = "FAILED" /\ challenge[c].anchor # 0 /\ ~Closed =>
      \E h \in held : MayResend(h) \/ challenge[h].state = "purged"

\* What a late answer of the provider finds decided, used or replaced it leaves alone.
DeliveryIsRecordedOnce ==
  \A c \in Challenges :
       challenge[c].consumed # Never \/ challenge[c].delivery # "PENDING" =>
         /\ challenge'[c].delivery = challenge[c].delivery
         /\ challenge'[c].resendAt = challenge[c].resendAt

\* Nothing a registration does changes a verified account.
VerifiedIsFinal ==
  account.verified => account' = [account EXCEPT !.disabled = account'.disabled]

\* The clean-up never deletes a code that would still verify.
PurgeSparesUsable ==
  \A c \in Challenges : challenge'[c].state = "purged" /\ Live(c) => ~Verifiable(c, clock)

\* A code verifies the attempt it was mailed for, with the password sent with it,
\* and a code that could not be delivered leaves a way back.
RegistrationIsSafe ==
  /\ RegistrationTypeOK
  /\ ActiveOfAttempt
  /\ VerifiedPasswordIsMailed
  /\ FailedDeliveryHasWayBack
=============================================================================
