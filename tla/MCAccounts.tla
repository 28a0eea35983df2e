------------------------------ MODULE MCAccounts ------------------------------
(* Who may use the system, in one TLC run: the sessions of both surfaces      *)
(* (RefreshTokens: an administrator's while the clock stands still, and a     *)
(* customer's that age), registration (WebRegistration), the members of the   *)
(* shop (Members) and the nightly clean-up (CredentialCleanup).  They share   *)
(* no state, so a behaviour runs one of them (`part`) while the others stay   *)
(* as they began: their state spaces add up instead of multiplying.           *)
EXTENDS RefreshTokens, WebRegistration, Members, CredentialCleanup, TLC

CONSTANTS adm, cus   \* the administrator and the customer

VARIABLE part

ASSUME ConstantsOK ==
  /\ TimesAssumption /\ HoldersAssumption /\ SomebodyAssumption
  /\ RegistrationAssumption
  /\ RolesAssumption /\ PeopleAssumption
  /\ BatchAssumption

allVars == <<part, sessionVars, registrationVars, memberVars, cleanupVars>>

Parts == {"sessions", "web sessions", "registration", "members", "cleanup"}

\* Whose sessions a behaviour is about.
Holder == IF part = "web sessions" THEN cus ELSE adm
OfHolder == \A f \in Tokens : family[f].holder = Holder

\* Of several initial states of a component one is enough while it rests.
SettledMembers == IsMember(CHOOSE p \in People : TRUE) /\ \A p \in People : user[p] # NoOne

SuiteInit ==
  /\ part \in Parts
  /\ SessionInit /\ OfHolder
  /\ RegistrationInit
  /\ MembersInit /\ (part = "members" \/ SettledMembers)
  /\ CleanupInit /\ (part = "cleanup" \/ \A f \in AllPhases : expired[f] = {})

SuiteNext ==
  /\ part' = part
  /\ \/ /\ \/ part = "sessions" /\ now' = now
           \/ part = "web sessions" /\ UNCHANGED <<active, signingIn, passwordChange>>
        /\ SessionNext /\ OfHolder'
        /\ UNCHANGED <<registrationVars, memberVars, cleanupVars>>
     \/ /\ part = "registration" /\ RegistrationNext
        /\ UNCHANGED <<sessionVars, memberVars, cleanupVars>>
     \/ /\ part = "members" /\ MembersNext
        /\ UNCHANGED <<sessionVars, registrationVars, cleanupVars>>
     \/ /\ part = "cleanup" /\ CleanupNext
        /\ UNCHANGED <<sessionVars, registrationVars, memberVars>>

SuiteSpec == SuiteInit /\ [][SuiteNext]_allVars

Symmetry == Permutations(Tokens) \cup Permutations(Requests)

-----------------------------------------------------------------------------
(* Properties *)

\* What no step does to a session, a registration or a password: continue a session
\* after its log-out, take overlapping requests for reuse, purge what is still usable,
\* record a delivery twice, undo a verification, replace somebody's password; and a
\* clean-up that reports success had the lease to itself and left nothing expired.
AccountSteps ==
  [][/\ part = "sessions" => LogoutIsFinal /\ OverlapIsNoReuse
     /\ part = "web sessions" => PurgeSparesSessions
     /\ part = "registration" => /\ DeliveryIsRecordedOnce
                                 /\ VerifiedIsFinal
                                 /\ PurgeSparesUsable
     /\ part = "members" => PasswordsAreKept
     /\ part = "cleanup" => SuccessWasExclusive /\ SuccessMeansDrained]_allVars
=============================================================================
