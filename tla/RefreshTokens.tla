--------------------------- MODULE RefreshTokens ---------------------------
(* The refresh tokens of the two surfaces: administrators (auth) and         *)
(* customers (web-auth).  A sign-in opens a family; each refresh consumes    *)
(* the presented token and inserts its child, so a family is a chain.  A     *)
(* consumed token that is presented again is taken for stolen and ends the   *)
(* whole family.                                                             *)
(*                                                                           *)
(* A refresh is one SERIALIZABLE transaction: it decides on the snapshot its *)
(* first statement takes (Present) and commits only if no row it writes has  *)
(* changed since (PostgreSQL's first committer wins; the loser gets 40001,   *)
(* which the repository answers as CONCURRENT).  A row lock only delays a    *)
(* commit, so locks are the order in which the commits happen.  The password *)
(* change, the log-out and the clean-up are READ COMMITTED: they skip rows   *)
(* that no longer match when they reach them.                                *)
EXTENDS Naturals, FiniteSets

CONSTANTS Administrators,  \* signed-in members of the shop
          Customers,       \* verified web accounts
          Tokens,          \* the token rows that can ever be issued
          Requests,        \* refresh requests in progress at once
          Ttl,             \* lifetime of a token
          Retention,       \* how long revoked or expired rows are kept
          Patience,        \* longest life of a refresh transaction
          MaxTime          \* bound on the clock

TimesAssumption == /\ Ttl \in Nat \ {0} /\ Retention \in Nat /\ Patience \in Nat
                   /\ Patience < Retention
                   /\ MaxTime \in Nat
HoldersAssumption == Administrators \cap Customers = {}
SomebodyAssumption == Customers # {} \/ Administrators # {}

VARIABLES now,
          active,          \* administrators whose user and member are ACTIVE
          signingIn,       \* administrators whose password was verified, session not stored yet
          token,           \* rows of refresh_tokens and web_refresh_tokens
          family,          \* rows of the two family tables, named by their first token
          request,         \* refresh transactions in progress, with their snapshot
          passwordChange,  \* password-change transactions in progress
          superseded       \* (history) families older than a committed password change

sessionVars == <<now, active, signingIn, token, family, request, passwordChange, superseded>>

Holders == Administrators \cup Customers
Dates == 0 .. (MaxTime + Ttl)
TokenState == {"NONE", "LIVE", "ROTATED", "LOGOUT", "FAMILY_COMPROMISED", "PASSWORD_CHANGED", "PURGED"}
FamilyState == {"NONE", "OPEN", "REUSE_DETECTED", "PASSWORD_CHANGED", "PURGED"}

\* state: the revocation reason, or LIVE; expires: expiresAt; ended: revokedAt
TokenRow == [state : TokenState, family : Tokens, parent : Tokens, expires : Dates, ended : Dates]
\* event: COALESCE(reuse_detected_at, revoked_at, created_at)
FamilyRow == [state : FamilyState, holder : Holders, event : Dates]

Idle == [token |-> "none"]
Snapshot(issued) == [token : issued, at : Dates, root : issued, family : FamilyRow,
                     standing : BOOLEAN, rows : [issued -> TokenRow]]

TokensOf(f) == {t \in Tokens : token[t].state # "NONE" /\ token[t].family = f}
LiveTokens(f) == {t \in Tokens : token[t].state = "LIVE" /\ token[t].family = f}
FamiliesOf(h) == {f \in Tokens : family[f].state # "NONE" /\ family[f].holder = h}
ActiveHolders == active \cup Customers     \* nothing in the source disables a web account

\* A token that the next refresh would still honour.
Usable(t) == /\ token[t].state = "LIVE" /\ token[t].expires > now
             /\ family[token[t].family].state = "OPEN"
             /\ family[token[t].family].holder \in ActiveHolders

-----------------------------------------------------------------------------
(* Signing in *)

NewTokenForever(f, p) == [state |-> "LIVE", family |-> f, parent |-> p,
                          expires |-> MaxTime + Ttl + 1, ended |-> now]
NewToken(f, p) == [state |-> "LIVE", family |-> f, parent |-> p,
                   expires |-> now + Ttl, ended |-> now + Ttl]

IssueFamily(h, t) ==
  /\ token[t].state = "NONE"
  /\ family' = [family EXCEPT ![t] = [state |-> "OPEN", holder |-> h, event |-> now]]
  /\ token' = [token EXCEPT ![t] = NewToken(t, t)]

\* AuthService.login reads the identity and compares the password ...
SignIn(a) ==
  /\ a \in active
  /\ signingIn' = signingIn \cup {a}
  /\ UNCHANGED <<now, active, token, family, request, passwordChange, superseded>>

\* ... and stores the session afterwards, without looking again.
StoreSession(a, t) ==
  /\ a \in signingIn
  /\ signingIn' = signingIn \ {a}
  /\ IssueFamily(a, t)
  /\ UNCHANGED <<now, active, request, passwordChange, superseded>>

\* The web sign-in checks the account again under its row lock while it stores the session.
WebSignIn(c, t) ==
  /\ c \in ActiveHolders
  /\ IssueFamily(c, t)
  /\ UNCHANGED <<now, active, signingIn, request, passwordChange, superseded>>

-----------------------------------------------------------------------------
(* Refreshing *)

Present(r, t) ==
  /\ request[r] = Idle
  /\ token[t].state # "NONE"
  /\ LET f == token[t].family IN
       request' = [request EXCEPT ![r] =
         [token |-> t, at |-> now, root |-> f, family |-> family[f],
          standing |-> family[f].holder \in ActiveHolders,
          rows |-> [u \in TokensOf(f) |-> token[u]]]]
  /\ UNCHANGED <<now, active, signingIn, token, family, passwordChange, superseded>>

\* The rows the transaction decides on: those of its snapshot.
CurrentRows(q) == [u \in DOMAIN q.rows |-> token[u]]
SeenRows(q) == q.rows
SeenRow(q) == SeenRows(q)[q.token]
SeenLive(q) == {u \in DOMAIN q.rows : SeenRows(q)[u].state = "LIVE"}

\* Has somebody committed a change of the presented row since the snapshot?
RowNeverChanged(q) == FALSE
RowChanged(q) == token[q.token] # SeenRow(q)

\* ... of one of the other rows that ending the family writes?
OnlyFamilyRowChanged(q) == family[q.root] # q.family
FamilyChanged(q) == \/ family[q.root] # q.family
                    \/ \E t \in SeenLive(q) : token[t].state # "LIVE"

Known(q) == SeenRow(q).state # "PURGED" /\ SeenRow(q).expires > q.at

MayRotate(q) ==
  /\ Known(q) /\ SeenRow(q).state = "LIVE"
  /\ q.family.state = "OPEN" /\ q.standing

IsReuse(q) == Known(q) /\ SeenRow(q).state = "ROTATED" /\ q.family.state = "OPEN"

ConsumeNothing(q) == token[q.token]
Consume(q) == [token[q.token] EXCEPT !.state = "ROTATED", !.ended = q.at]

\* The parent's child is unique by constraint, the family must still exist.
Rotate(r, t) ==
  /\ request[r] # Idle
  /\ LET q == request[r] IN
       /\ MayRotate(q) /\ ~RowChanged(q)
       /\ token[t].state = "NONE"
       /\ family[q.root].state # "PURGED"
       /\ \A u \in Tokens \ {q.token} : token[u].parent = q.token => token[u].state = "NONE"
       /\ token' = [token EXCEPT ![q.token] = Consume(q),
                                 ![t] = [NewToken(q.root, q.token)
                                           EXCEPT !.expires = q.at + Ttl, !.ended = q.at + Ttl]]
  /\ request' = [request EXCEPT ![r] = Idle]
  /\ UNCHANGED <<now, active, signingIn, family, passwordChange, superseded>>

DetectReuse(r) ==
  /\ request[r] # Idle
  /\ LET q == request[r] IN
       /\ IsReuse(q) /\ ~RowChanged(q) /\ ~FamilyChanged(q)
       /\ family' = [family EXCEPT ![q.root].state = "REUSE_DETECTED",
                                   ![q.root].event = q.at]
       /\ token' = [t \in Tokens |->
            IF t \in SeenLive(q)
            THEN [token[t] EXCEPT !.state = "FAMILY_COMPROMISED", !.ended = q.at]
            ELSE token[t]]
  /\ request' = [request EXCEPT ![r] = Idle]
  /\ UNCHANGED <<now, active, signingIn, passwordChange, superseded>>

\* REJECTED, CONCURRENT, or a transaction that timed out: an error and no change.
Refuse(r) ==
  /\ request[r] # Idle
  /\ request' = [request EXCEPT ![r] = Idle]
  /\ UNCHANGED <<now, active, signingIn, token, family, passwordChange, superseded>>

-----------------------------------------------------------------------------
(* Ending sessions *)

Revoke(t) == token' = [token EXCEPT ![t].state = "LOGOUT", ![t].ended = now]

\* An administrator logs out behind the access guard, of a session of their own.
Logout(a, t) ==
  /\ a \in active
  /\ token[t].state = "LIVE" /\ family[token[t].family].holder = a
  /\ Revoke(t)
  /\ UNCHANGED <<now, active, signingIn, family, request, passwordChange, superseded>>

\* A customer only needs to present the token.
WebLogout(t) ==
  /\ token[t].state = "LIVE" /\ family[token[t].family].holder \in Customers
  /\ Revoke(t)
  /\ UNCHANGED <<now, active, signingIn, family, request, passwordChange, superseded>>

NoChange == [step |-> "none", existing |-> {}, open |-> {}, live |-> {}]

\* The current password is verified; the first statements of the transaction
\* write the hash and find the user's open families ...
PasswordFamilies(a) ==
  /\ a \in active /\ passwordChange[a] = NoChange
  /\ passwordChange' = [passwordChange EXCEPT ![a] =
       [step |-> "families", existing |-> FamiliesOf(a), live |-> {},
        open |-> {f \in FamiliesOf(a) : family[f].state = "OPEN"}]]
  /\ UNCHANGED <<now, active, signingIn, token, family, request, superseded>>

\* ... the last one finds the user's live tokens, in a snapshot of its own ...
PasswordTokens(a) ==
  /\ passwordChange[a].step = "families"
  /\ passwordChange' = [passwordChange EXCEPT ![a].step = "tokens",
       ![a].live = UNION {LiveTokens(f) : f \in FamiliesOf(a)}]
  /\ UNCHANGED <<now, active, signingIn, token, family, request, superseded>>

FamiliesLeftOpen(p) == family
ClosedFamilies(p) == [f \in Tokens |->
  IF f \in p.open /\ family[f].state = "OPEN"
  THEN [family[f] EXCEPT !.state = "PASSWORD_CHANGED", !.event = now] ELSE family[f]]

\* ... and what still matches is revoked when the transaction commits.
PasswordCommit(a) ==
  /\ passwordChange[a].step = "tokens"
  /\ LET p == passwordChange[a] IN
       /\ family' = ClosedFamilies(p)
       /\ token' = [t \in Tokens |->
            IF t \in p.live /\ token[t].state = "LIVE"
            THEN [token[t] EXCEPT !.state = "PASSWORD_CHANGED", !.ended = now] ELSE token[t]]
       /\ superseded' = superseded \cup p.existing
  /\ passwordChange' = [passwordChange EXCEPT ![a] = NoChange]
  /\ UNCHANGED <<now, active, signingIn, request>>

PasswordAbort(a) ==
  /\ passwordChange[a] # NoChange
  /\ passwordChange' = [passwordChange EXCEPT ![a] = NoChange]
  /\ UNCHANGED <<now, active, signingIn, token, family, request, superseded>>

\* Another administrator deactivates or reactivates a member.
SetMemberStatus(a) ==
  /\ active' = IF a \in active THEN active \ {a} ELSE active \cup {a}
  /\ UNCHANGED <<now, signingIn, token, family, request, passwordChange, superseded>>

-----------------------------------------------------------------------------
(* Clean-up *)

\* (The same without the tokens.)
PurgeableByFamily(f, cutoff) == family[f].state \notin {"NONE", "PURGED"} /\ family[f].event <= cutoff
\* Nothing of the family is younger than the cutoff.
Purgeable(f, cutoff) ==
  /\ family[f].state \notin {"NONE", "PURGED"}
  /\ family[f].event <= cutoff
  /\ \A t \in Tokens : (token[t].family = f /\ token[t].state # "NONE") => token[t].ended <= cutoff

\* The family row stays locked from the query to the delete, and a child cannot
\* be inserted without it: query and delete are one step.  The tokens go by cascade.
Purge(f, cutoff) ==
  /\ cutoff + Retention <= now
  /\ Purgeable(f, cutoff)
  /\ family' = [family EXCEPT ![f].state = "PURGED"]
  /\ token' = [t \in Tokens |-> IF token[t].family = f /\ token[t].state # "NONE"
                                THEN [token[t] EXCEPT !.state = "PURGED"] ELSE token[t]]
  /\ UNCHANGED <<now, active, signingIn, request, passwordChange, superseded>>

SessionTick ==
  /\ now < MaxTime
  /\ \A r \in Requests : request[r] # Idle => now < request[r].at + Patience
  /\ now' = now + 1
  /\ UNCHANGED <<active, signingIn, token, family, request, passwordChange, superseded>>

SessionInit ==
  /\ now = 0
  /\ active = Administrators
  /\ signingIn = {}
  /\ token \in [Tokens -> {[state |-> "NONE", family |-> t, parent |-> t, expires |-> 0, ended |-> 0] : t \in Tokens}]
  /\ \A t \in Tokens : token[t].family = t
  /\ \E h \in Holders : family = [f \in Tokens |-> [state |-> "NONE", holder |-> h, event |-> 0]]
  /\ request = [r \in Requests |-> Idle]
  /\ passwordChange = [a \in Administrators |-> NoChange]
  /\ superseded = {}

SessionNext ==
  \/ \E a \in Administrators : \/ SignIn(a) \/ PasswordFamilies(a) \/ PasswordTokens(a)
                               \/ PasswordCommit(a) \/ PasswordAbort(a) \/ SetMemberStatus(a)
  \/ \E t \in Tokens :
       \/ \E a \in Administrators : StoreSession(a, t) \/ Logout(a, t)
       \/ \E c \in Customers : WebSignIn(c, t)
       \/ \E r \in Requests : Present(r, t) \/ Rotate(r, t)
       \/ WebLogout(t)
       \/ \E cutoff \in Dates : Purge(t, cutoff)
  \/ \E r \in Requests : DetectReuse(r) \/ Refuse(r)
  \/ SessionTick

SessionSpec == SessionInit /\ [][SessionNext]_sessionVars

-----------------------------------------------------------------------------
(* Properties *)

\* Every column keeps its type.
SessionTypeOK ==
  /\ now \in 0 .. MaxTime
  /\ active \subseteq Administrators
  /\ signingIn \subseteq Administrators
  /\ token \in [Tokens -> TokenRow]
  /\ family \in [Tokens -> FamilyRow]
  /\ \A r \in Requests : request[r] = Idle \/ \E issued \in SUBSET Tokens : request[r] \in Snapshot(issued)
  /\ \A a \in Administrators : passwordChange[a] \in
       [step : {"none", "families", "tokens"}, existing : SUBSET Tokens,
        open : SUBSET Tokens, live : SUBSET Tokens]
  /\ superseded \subseteq Tokens

\* A family has at most one token that was neither consumed nor revoked, however
\* many refreshes, log-outs and password changes overlap (REFRESH_TOKEN_FAMILIES.md,
\* "exactly one request can issue a replacement").
OneLiveToken == \A f \in Tokens : Cardinality(LiveTokens(f)) <= 1

\* A log-out is final: a refresh of the same token that overlaps it neither
\* consumes the token afterwards nor marks it with another reason, so the token
\* never gets a child (revokeRefreshToken, rotateRefreshToken).
LogoutIsFinal ==
  \A t \in Tokens : token[t].state = "LOGOUT" =>
       /\ token'[t].state \in {"LOGOUT", "PURGED"}
       /\ \A u \in Tokens \ {t} : token[u].state = "NONE" /\ token'[u].state # "NONE"
                                  => token'[u].parent # t

\* Once a reuse was detected nobody continues the session, not even a request
\* that had rotated the last token before the transaction ended (rotateRefreshToken).
ReuseEndsSession ==
  \A f \in Tokens : family[f].state = "REUSE_DETECTED" => LiveTokens(f) = {}

\* Two requests that overlap are no reuse: a family is ended only for a token
\* that had already been consumed when the request began ("A serialization
\* conflict from two genuinely concurrent refresh attempts is rejected without
\* compromising the family").
OverlapIsNoReuse ==
  \A f \in Tokens : family[f].state = "OPEN" /\ family'[f].state = "REUSE_DETECTED" =>
       \E r \in Requests : /\ request[r] # Idle /\ request'[r] = Idle
                           /\ request[r].root = f
                           /\ request[r].rows[request[r].token].state = "ROTATED"

\* After a password change no session from before it can be continued, also when
\* one of its tokens was being rotated meanwhile (updatePasswordAndRevokeSessions).
PasswordChangeEndsSessions == \A t \in Tokens : token[t].family \in superseded => ~Usable(t)

\* The clean-up never takes a session that could still be continued, nor a
\* consumed token whose reuse could still end one (purgeRefreshFamilies).
PurgeSparesSessions ==
  \A t \in Tokens : Usable(t) =>
       \A u \in Tokens : token[u].family = token[t].family =>
          (token[u].state # "PURGED" => token'[u].state # "PURGED")

\* A session has one token that can be used; reuse of a consumed one and a change
\* of the password end every session they must.
SessionsAreSafe ==
  /\ SessionTypeOK
  /\ OneLiveToken
  /\ ReuseEndsSession
  /\ PasswordChangeEndsSessions
=============================================================================
