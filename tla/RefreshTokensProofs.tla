------------------------ MODULE RefreshTokensProofs ------------------------
(* Theorems about RefreshTokens, for any accounts, tokens, requests and times. *)
EXTENDS RefreshTokens, FiniteSetTheorems, TLAPS

\* What a transaction read, no later than the end of the clock, and a password change.
Taken(issued) == [token : issued, at : 0 .. MaxTime, root : issued, family : FamilyRow,
                  standing : BOOLEAN, rows : [issued -> TokenRow]]
Changes == [step : {"none", "families", "tokens"}, existing : SUBSET Tokens,
            open : SUBSET Tokens, live : SUBSET Tokens]

Types == /\ now \in 0 .. MaxTime /\ active \subseteq Administrators /\ signingIn \subseteq Administrators
         /\ token \in [Tokens -> TokenRow] /\ family \in [Tokens -> FamilyRow]
         /\ request = [r \in Requests |-> request[r]]
         /\ \A r \in Requests : request[r] # Idle => \E issued \in SUBSET Tokens : request[r] \in Taken(issued)
         /\ passwordChange \in [Administrators -> Changes] /\ superseded \subseteq Tokens

Live(t) == token[t].state = "LIVE"
Issued(t) == token[t].state # "NONE"

\* A family is named by its first token.
Rooted == /\ \A t \in Tokens : LET f == token[t].family IN
                  /\ token[f].family = f /\ (Issued(t) => Issued(f)) /\ (~Issued(t) => f = t)
          /\ \A f \in Tokens : family[f].state # "NONE" => Issued(f)

Single == \A t, u \in Tokens : Live(t) /\ Live(u) /\ token[t].family = token[u].family => t = u

Ended == \A t \in Tokens : family[token[t].family].state = "REUSE_DETECTED" => ~Live(t)

\* Until it is consumed or revoked, a token counts for the clean-up until it expires.
Dated == \A t \in Tokens : Live(t) => token[t].ended = token[t].expires

\* A snapshot is of one family, and a family it saw without a live token stays without.
Snapshots == \A r \in Requests : request[r] # Idle =>
               /\ \A u \in DOMAIN request[r].rows :
                    Issued(u) /\ token[u].family = request[r].root /\ request[r].rows[u].family = request[r].root
               /\ \/ \E u \in DOMAIN request[r].rows : request[r].rows[u].state = "LIVE"
                  \/ \A t \in Tokens : token[t].family = request[r].root => ~Live(t)

\* What a password change found open stays on its list, what it found closed stays closed.
Closing == /\ \A f \in superseded : family[f].state \notin {"NONE", "OPEN"}
           /\ \A a \in Administrators : \A f \in passwordChange[a].existing :
                family[f].state # "NONE" /\ (f \in passwordChange[a].open \/ family[f].state # "OPEN")

IInv == Types /\ Rooted /\ Single /\ Ended /\ Dated /\ Snapshots /\ Closing

-----------------------------------------------------------------------------
(* What a step does to the rows *)

\* A row is left alone, or leaves the state it is used in for good.
TokenFalls(t) == /\ token'[t].family = token[t].family /\ token'[t].parent = token[t].parent
                 /\ \/ token'[t] = token[t]
                    \/ token[t].state # "NONE" /\ token'[t].state \notin {"NONE", "LIVE"}
FamilyFalls(f) == /\ family'[f].holder = family[f].holder
                  /\ \/ family'[f] = family[f]
                     \/ family[f].state # "NONE" /\ family'[f].state \notin {"NONE", "OPEN"}

Declines == /\ token' \in [Tokens -> TokenRow] /\ family' \in [Tokens -> FamilyRow]
            /\ \A t \in Tokens : TokenFalls(t)
            /\ \A f \in Tokens : FamilyFalls(f)

Opens(t) == /\ t \in Tokens /\ ~Issued(t) /\ token' \in [Tokens -> TokenRow] /\ family' \in [Tokens -> FamilyRow]
            /\ token'[t].state = "LIVE" /\ token'[t].family = t /\ token'[t].parent = t
            /\ token'[t].ended = token'[t].expires /\ family'[t].state = "OPEN"
            /\ \A u \in Tokens \ {t} : token'[u] = token[u] /\ family'[u] = family[u]

Replaces(p, t) == /\ p \in Tokens /\ t \in Tokens /\ ~Issued(t) /\ Live(p) /\ p # t
                  /\ token' \in [Tokens -> TokenRow] /\ family' = family
                  /\ token'[p].state = "ROTATED" /\ token'[p].family = token[p].family
                  /\ token'[t].state = "LIVE" /\ token'[t].family = token[p].family /\ token'[t].parent = p
                  /\ token'[t].ended = token'[t].expires
                  /\ \A u \in Tokens \ {p, t} : token'[u] = token[u]

Out(row, s, e) == [row EXCEPT !.state = s, !.ended = e]
Over(row, s, e) == [row EXCEPT !.state = s, !.event = e]

LEMMA StatesFall ==
    ASSUME NEW row \in TokenRow, NEW s \in TokenState, NEW e \in Dates
    PROVE  /\ Out(row, s, e) \in TokenRow /\ Out(row, s, e).state = s
           /\ Out(row, s, e).family = row.family /\ Out(row, s, e).parent = row.parent
BY DEF TokenRow, Out

LEMMA FamiliesFall ==
    ASSUME NEW row \in FamilyRow, NEW s \in FamilyState, NEW e \in Dates
    PROVE  /\ Over(row, s, e) \in FamilyRow /\ Over(row, s, e).state = s
           /\ Over(row, s, e).holder = row.holder
BY DEF FamilyRow, Over

LEMMA States == /\ "LIVE" \in TokenState /\ "ROTATED" \in TokenState /\ "LOGOUT" \in TokenState
                /\ "FAMILY_COMPROMISED" \in TokenState /\ "PASSWORD_CHANGED" \in TokenState
                /\ "PURGED" \in TokenState
                /\ "OPEN" \in FamilyState /\ "REUSE_DETECTED" \in FamilyState
                /\ "PASSWORD_CHANGED" \in FamilyState /\ "PURGED" \in FamilyState
BY DEF TokenState, FamilyState

LEMMA DatesAreDates ==
    ASSUME TimesAssumption
    PROVE  /\ 0 .. MaxTime \subseteq Dates /\ Dates \subseteq Int
           /\ \A d \in 0 .. MaxTime : d + Ttl \in Dates
BY DEF TimesAssumption, Dates

LEMMA SnapshotFacts ==
    ASSUME Types, NEW r \in Requests, request[r] # Idle
    PROVE  LET q == request[r] IN
           /\ q.token \in DOMAIN q.rows /\ DOMAIN q.rows \subseteq Tokens
           /\ q.root \in DOMAIN q.rows /\ q.at \in 0 .. MaxTime
           /\ \A u \in DOMAIN q.rows : q.rows[u] \in TokenRow
<1>1. PICK issued \in SUBSET Tokens : request[r] \in Taken(issued)
  BY DEF Types
<1> QED BY <1>1 DEF Taken

LEMMA IssueEffect ==
    ASSUME TimesAssumption, Types, NEW h \in Holders, NEW t \in Tokens, IssueFamily(h, t)
    PROVE  Opens(t)
<1> DEFINE new == NewToken(t, t)
           open == [state |-> "OPEN", holder |-> h, event |-> now]
<1>1. now \in 0 .. MaxTime /\ now \in Dates /\ now + Ttl \in Dates
  BY DatesAreDates DEF Types
<1>2. new \in TokenRow /\ new.state = "LIVE" /\ new.family = t /\ new.parent = t /\ new.ended = new.expires
  BY <1>1, States DEF NewToken, TokenRow
<1>3. open \in FamilyRow /\ open.state = "OPEN"
  BY <1>1, States DEF FamilyRow
<1>4. token' = [token EXCEPT ![t] = new] /\ family' = [family EXCEPT ![t] = open] /\ ~Issued(t)
  BY DEF IssueFamily, Issued
<1> HIDE DEF new, open
<1> QED BY <1>2, <1>3, <1>4 DEF Types, Opens

LEMMA RotateEffect ==
    ASSUME TimesAssumption, Types, Snapshots, NEW r \in Requests, NEW t \in Tokens, Rotate(r, t)
    PROVE  Replaces(request[r].token, t) /\ request[r] # Idle
<1> DEFINE q == request[r]
           p == q.token
           old == Out(token[p], "ROTATED", q.at)
           new == [NewToken(q.root, p) EXCEPT !.expires = q.at + Ttl, !.ended = q.at + Ttl]
<1>1. q # Idle
  BY DEF Rotate
<1>2. p \in Tokens /\ q.root \in Tokens /\ q.at \in Dates /\ q.at + Ttl \in Dates /\ p \in DOMAIN q.rows
      /\ now \in Dates /\ now + Ttl \in Dates
  BY <1>1, SnapshotFacts, DatesAreDates DEF Types
<1>3. token[p].state = "LIVE" /\ token[p].family = q.root /\ token[t].state = "NONE" /\ p # t
  <2>1. token[p] = q.rows[p] /\ q.rows[p].state = "LIVE" /\ token[t].state = "NONE"
    BY DEF Rotate, MayRotate, RowChanged, SeenRow, SeenRows
  <2>2. \A u \in DOMAIN q.rows : token[u].family = q.root
    BY <1>1 DEF Snapshots
  <2> QED BY <1>2, <2>1, <2>2
<1>4. old \in TokenRow /\ old.state = "ROTATED" /\ old.family = token[p].family
  <2>1. token[p] \in TokenRow
    BY <1>2 DEF Types
  <2>2. "ROTATED" \in TokenState /\ q.at \in Dates
    BY <1>2, States
  <2> HIDE DEF q, p
  <2> QED BY <2>1, <2>2, StatesFall
<1>5. new \in TokenRow /\ new.state = "LIVE" /\ new.family = q.root /\ new.parent = p /\ new.ended = new.expires
  <2> DEFINE n == NewToken(q.root, p)
             m == [n EXCEPT !.expires = q.at + Ttl]
  <2>1. n \in TokenRow /\ n.state = "LIVE" /\ n.family = q.root /\ n.parent = p
    BY <1>2, States DEF NewToken, TokenRow
  <2> HIDE DEF n
  <2>2. m \in TokenRow /\ m.state = "LIVE" /\ m.family = q.root /\ m.parent = p /\ m.expires = q.at + Ttl
    BY <1>2, <2>1 DEF TokenRow
  <2>3. new = [m EXCEPT !.ended = q.at + Ttl]
    BY DEF n
  <2> HIDE DEF m, new
  <2> QED BY <1>2, <2>2, <2>3 DEF TokenRow
<1>6. token' = [[token EXCEPT ![p] = old] EXCEPT ![t] = new] /\ family' = family
  BY DEF Rotate, Consume, Out
<1> HIDE DEF new, old
<1>7. token' \in [Tokens -> TokenRow] /\ token'[p] = old /\ token'[t] = new
      /\ \A u \in Tokens \ {p, t} : token'[u] = token[u]
  BY <1>2, <1>3, <1>4, <1>5, <1>6 DEF Types
<1> QED BY <1>1, <1>2, <1>3, <1>4, <1>5, <1>6, <1>7 DEF Replaces, Live, Issued

LEMMA RevokeEffect ==
    ASSUME TimesAssumption, Types, NEW t \in Tokens, Live(t), Revoke(t), family' = family
    PROVE  Declines
<1> DEFINE x == Out(token[t], "LOGOUT", now)
<1>0. now \in Dates
  BY DatesAreDates DEF Types
<1>1. x \in TokenRow /\ x.state = "LOGOUT" /\ x.family = token[t].family /\ x.parent = token[t].parent
  <2>1. token[t] \in TokenRow
    BY DEF Types
  <2>2. "LOGOUT" \in TokenState
    BY States
  <2> QED BY ONLY <1>0, <2>1, <2>2, StatesFall
<1>2. token' = [token EXCEPT ![t] = x]
  BY DEF Revoke, Types, Out
<1> HIDE DEF x
<1> QED BY <1>1, <1>2 DEF Types, Declines, TokenFalls, FamilyFalls, Live

LEMMA ReuseEffect ==
    ASSUME TimesAssumption, Types, Snapshots, NEW r \in Requests, DetectReuse(r)
    PROVE  /\ request[r] # Idle /\ Declines
           /\ \A f \in Tokens \ {request[r].root} : family'[f] = family[f]
           /\ family[request[r].root] = request[r].family /\ IsReuse(request[r])
           /\ \A t \in Tokens : IF t \in SeenLive(request[r]) THEN Live(t) /\ token'[t].state = "FAMILY_COMPROMISED"
                                                          ELSE token'[t] = token[t]
<1> DEFINE q == request[r]
           fam == Over(family[q.root], "REUSE_DETECTED", q.at)
           Row(t) == Out(token[t], "FAMILY_COMPROMISED", q.at)
<1>1. /\ q # Idle /\ IsReuse(q) /\ ~FamilyChanged(q)
      /\ family' = [[family EXCEPT ![q.root].state = "REUSE_DETECTED"] EXCEPT ![q.root].event = q.at]
      /\ token' = [t \in Tokens |-> IF t \in SeenLive(q) THEN Row(t) ELSE token[t]]
  BY DEF DetectReuse, Out
<1>2. q.root \in Tokens /\ q.at \in Dates
  BY <1>1, SnapshotFacts, DatesAreDates
<1>3. family[q.root] = q.family /\ \A t \in SeenLive(q) : Live(t)
  BY <1>1 DEF FamilyChanged, Live
<1>4. \A t \in Tokens : /\ Row(t) \in TokenRow /\ Row(t).state = "FAMILY_COMPROMISED"
                        /\ Row(t).family = token[t].family /\ Row(t).parent = token[t].parent
  BY <1>2, States, StatesFall DEF Types
<1>5. fam \in FamilyRow /\ fam.state = "REUSE_DETECTED" /\ fam.holder = family[q.root].holder
  BY <1>2, States, FamiliesFall DEF Types
<1>6. family[q.root].state = "OPEN"
  BY <1>1, <1>3 DEF IsReuse
<1>7. family' = [family EXCEPT ![q.root] = fam]
  BY <1>1, <1>2 DEF Types, Over
<1> HIDE DEF Row, fam
<1>8. \A t \in Tokens : IF t \in SeenLive(q) THEN token'[t] = Row(t) ELSE token'[t] = token[t]
  BY <1>1
<1>9. token' \in [Tokens -> TokenRow]
  BY <1>1, <1>4 DEF Types
<1>10. \A t \in Tokens : TokenFalls(t)
  BY <1>3, <1>4, <1>8 DEF TokenFalls, Live
<1>11. family' \in [Tokens -> FamilyRow] /\ \A f \in Tokens : FamilyFalls(f)
  BY <1>2, <1>5, <1>6, <1>7 DEF FamilyFalls, Types
<1>12. \A f \in Tokens \ {q.root} : family'[f] = family[f]
  BY <1>7 DEF Types
<1> QED BY <1>1, <1>3, <1>4, <1>8, <1>9, <1>10, <1>11, <1>12 DEF Declines

LEMMA CommitEffect ==
    ASSUME TimesAssumption, Types, NEW a \in Administrators, PasswordCommit(a)
    PROVE  /\ Declines
           /\ \A f \in Tokens : f \in passwordChange[a].open => family'[f].state # "OPEN"
           /\ \A f \in Tokens : family'[f].state = "REUSE_DETECTED" => family'[f] = family[f]
<1> DEFINE p == passwordChange[a]
           Row(t) == Out(token[t], "PASSWORD_CHANGED", now)
           Fam(f) == Over(family[f], "PASSWORD_CHANGED", now)
<1>0. now \in Dates
  BY DatesAreDates DEF Types
<1>1. /\ family' = [f \in Tokens |-> IF f \in p.open /\ family[f].state = "OPEN" THEN Fam(f) ELSE family[f]]
      /\ token' = [t \in Tokens |-> IF t \in p.live /\ token[t].state = "LIVE" THEN Row(t) ELSE token[t]]
  BY DEF PasswordCommit, ClosedFamilies, Out, Over
<1>2. \A t \in Tokens : /\ Row(t) \in TokenRow /\ Row(t).state = "PASSWORD_CHANGED"
                        /\ Row(t).family = token[t].family /\ Row(t).parent = token[t].parent
  BY <1>0, States, StatesFall DEF Types
<1>3. \A f \in Tokens : Fam(f) \in FamilyRow /\ Fam(f).state = "PASSWORD_CHANGED" /\ Fam(f).holder = family[f].holder
  BY <1>0, States, FamiliesFall DEF Types
<1> HIDE DEF Row, Fam
<1>4. token' \in [Tokens -> TokenRow] /\ \A t \in Tokens : TokenFalls(t)
  BY <1>1, <1>2 DEF Types, TokenFalls
<1>5. family' \in [Tokens -> FamilyRow] /\ \A f \in Tokens : FamilyFalls(f)
  BY <1>1, <1>3 DEF Types, FamilyFalls
<1>6. /\ \A f \in Tokens : f \in p.open => family'[f].state # "OPEN"
      /\ \A f \in Tokens : family'[f].state = "REUSE_DETECTED" => family'[f] = family[f]
  BY <1>1, <1>3
<1> QED BY <1>4, <1>5, <1>6 DEF Declines

LEMMA PurgeEffect ==
    ASSUME Types, NEW f \in Tokens, NEW cutoff \in Dates, Purge(f, cutoff)
    PROVE  /\ Declines
           /\ \A g \in Tokens : family'[g].state = "REUSE_DETECTED" => family'[g] = family[g]
           /\ \A t \in Tokens : token'[t].state = "PURGED" /\ token[t].state # "PURGED" => token[t].family = f
<1> DEFINE Row(t) == [token[t] EXCEPT !.state = "PURGED"]
           fam == [family[f] EXCEPT !.state = "PURGED"]
<1>1. /\ family' = [family EXCEPT ![f] = fam] /\ family[f].state # "NONE"
      /\ token' = [t \in Tokens |-> IF token[t].family = f /\ token[t].state # "NONE" THEN Row(t) ELSE token[t]]
  BY DEF Purge, Purgeable, Types
<1>2. \A t \in Tokens : /\ Row(t) \in TokenRow /\ Row(t).state = "PURGED"
                        /\ Row(t).family = token[t].family /\ Row(t).parent = token[t].parent
  BY States DEF Types, TokenRow
<1>3. fam \in FamilyRow /\ fam.state = "PURGED" /\ fam.holder = family[f].holder
  BY States DEF Types, FamilyRow
<1> HIDE DEF Row, fam
<1>4. token' \in [Tokens -> TokenRow] /\ \A t \in Tokens : TokenFalls(t)
  BY <1>1, <1>2 DEF Types, TokenFalls
<1>5. family' \in [Tokens -> FamilyRow] /\ \A g \in Tokens : FamilyFalls(g)
  BY <1>1, <1>3 DEF Types, FamilyFalls
<1>6. /\ \A g \in Tokens : family'[g].state = "REUSE_DETECTED" => family'[g] = family[g]
      /\ \A t \in Tokens : token'[t].state = "PURGED" /\ token[t].state # "PURGED" => token[t].family = f
  BY <1>1, <1>2, <1>3 DEF Types
<1> QED BY <1>4, <1>5, <1>6 DEF Declines

LEMMA NothingFalls ==
    ASSUME Types, UNCHANGED <<token, family>>
    PROVE  Declines
BY DEF Types, Declines, TokenFalls, FamilyFalls

-----------------------------------------------------------------------------
(* What a step does to the rest *)

\* The three things that happen to the rows.
LEMMA KindsOfStep ==
    ASSUME TimesAssumption, Types, Snapshots, [SessionNext]_sessionVars
    PROVE  \/ Declines
           \/ \E t \in Tokens : Opens(t) /\ UNCHANGED <<request, passwordChange, superseded>>
           \/ \E r \in Requests, t \in Tokens :
                /\ Replaces(request[r].token, t) /\ request' = [request EXCEPT ![r] = Idle]
                /\ UNCHANGED <<passwordChange, superseded>>
<1>1. ASSUME NEW a \in Administrators, PasswordCommit(a) PROVE Declines
  BY <1>1, CommitEffect
<1>2. ASSUME NEW a \in Administrators, NEW t \in Tokens, StoreSession(a, t)
      PROVE  Opens(t) /\ UNCHANGED <<request, passwordChange, superseded>>
  BY <1>2, IssueEffect DEF StoreSession, Holders
<1>3. ASSUME NEW c \in Customers, NEW t \in Tokens, WebSignIn(c, t)
      PROVE  Opens(t) /\ UNCHANGED <<request, passwordChange, superseded>>
  BY <1>3, IssueEffect DEF WebSignIn, Holders
<1>4. ASSUME NEW r \in Requests, NEW t \in Tokens, Rotate(r, t)
      PROVE  /\ Replaces(request[r].token, t) /\ request' = [request EXCEPT ![r] = Idle]
             /\ UNCHANGED <<passwordChange, superseded>>
  BY <1>4, RotateEffect DEF Rotate
<1>5. ASSUME NEW t \in Tokens, WebLogout(t) \/ \E a \in Administrators : Logout(a, t) PROVE Declines
  BY <1>5, RevokeEffect DEF WebLogout, Logout, Live
<1>6. ASSUME NEW f \in Tokens, NEW cutoff \in Dates, Purge(f, cutoff) PROVE Declines
  BY <1>6, PurgeEffect
<1>7. ASSUME NEW r \in Requests, DetectReuse(r) PROVE Declines
  BY <1>7, ReuseEffect
<1>8. ASSUME UNCHANGED <<token, family>> PROVE Declines
  BY <1>8, NothingFalls
<1>9. ASSUME NEW a \in Administrators, \/ SignIn(a) \/ PasswordFamilies(a) \/ PasswordTokens(a)
                                        \/ PasswordAbort(a) \/ SetMemberStatus(a)
      PROVE  Declines
  BY <1>8, <1>9 DEF SignIn, PasswordFamilies, PasswordTokens, PasswordAbort, SetMemberStatus
<1>12. ASSUME NEW r \in Requests, Refuse(r) \/ \E t \in Tokens : Present(r, t) PROVE Declines
  BY <1>8, <1>12 DEF Refuse, Present
<1>13. ASSUME SessionTick PROVE Declines
  BY <1>8, <1>13 DEF SessionTick
<1>10. CASE UNCHANGED sessionVars
  BY <1>8, <1>10 DEF sessionVars
<1>11. CASE SessionNext
  BY <1>1, <1>2, <1>3, <1>4, <1>5, <1>6, <1>7, <1>9, <1>11, <1>12, <1>13 DEF SessionNext
<1> QED BY <1>10, <1>11

\* A request takes a snapshot, is over, or goes on.
LEMMA RequestsOfStep ==
    ASSUME Types, [SessionNext]_sessionVars
    PROVE  \/ request' = request
           \/ \E r \in Requests : request' = [request EXCEPT ![r] = Idle]
           \/ /\ UNCHANGED <<token, family>>
              /\ \E r \in Requests, t \in Tokens : Present(r, t)
BY DEF SessionNext, sessionVars, SignIn, StoreSession, WebSignIn, Present, Rotate, DetectReuse, Refuse, Logout, WebLogout,
       PasswordFamilies, PasswordTokens, PasswordCommit, PasswordAbort, SetMemberStatus, Purge, SessionTick

LEMMA ChangesOfStep ==
    ASSUME Types, [SessionNext]_sessionVars
    PROVE  \/ UNCHANGED <<passwordChange, superseded>>
           \/ \E a \in Administrators : PasswordFamilies(a) \/ PasswordTokens(a) \/ PasswordCommit(a) \/ PasswordAbort(a)
BY DEF SessionNext, sessionVars, SignIn, StoreSession, WebSignIn, Present, Rotate, DetectReuse, Refuse, Logout, WebLogout,
       SetMemberStatus, Purge, SessionTick

LEMMA TypesStep == TimesAssumption /\ Types /\ Rooted /\ Snapshots /\ [SessionNext]_sessionVars => Types'
<1> SUFFICES ASSUME TimesAssumption, Types, Rooted, Snapshots, [SessionNext]_sessionVars PROVE Types'
  OBVIOUS
<1>1. token' \in [Tokens -> TokenRow] /\ family' \in [Tokens -> FamilyRow]
  BY KindsOfStep DEF Types, Declines, Opens, Replaces
<1>2. now' \in 0 .. MaxTime
  <2>1. now' = now \/ (now < MaxTime /\ now' = now + 1)
    BY DEF SessionNext, sessionVars, SignIn, StoreSession, WebSignIn, Present, Rotate, DetectReuse, Refuse, Logout, WebLogout,
           PasswordFamilies, PasswordTokens, PasswordCommit, PasswordAbort, SetMemberStatus, Purge, SessionTick
  <2> QED BY <2>1 DEF Types, TimesAssumption
<1>3. active' \subseteq Administrators /\ signingIn' \subseteq Administrators
  BY DEF Types, SessionNext, sessionVars, SignIn, StoreSession, WebSignIn, Present, Rotate, DetectReuse, Refuse, Logout, WebLogout,
         PasswordFamilies, PasswordTokens, PasswordCommit, PasswordAbort, SetMemberStatus, Purge, SessionTick
<1>4. /\ request' = [r \in Requests |-> request'[r]]
      /\ \A r \in Requests : request'[r] # Idle => \E issued \in SUBSET Tokens : request'[r] \in Taken(issued)
  <2>1. ASSUME NEW r \in Requests, NEW t \in Tokens, Present(r, t)
        PROVE  /\ request' = [q \in Requests |-> request'[q]]
               /\ \A q \in Requests : request'[q] # Idle => \E issued \in SUBSET Tokens : request'[q] \in Taken(issued)
    <3> DEFINE f == token[t].family
               q == [token |-> t, at |-> now, root |-> f, family |-> family[f],
                     standing |-> family[f].holder \in ActiveHolders,
                     rows |-> [u \in TokensOf(f) |-> token[u]]]
    <3>1. request' = [request EXCEPT ![r] = q]
      BY <2>1 DEF Present
    <3>2. q \in Taken(TokensOf(f)) /\ TokensOf(f) \in SUBSET Tokens
      <4>1. f \in TokensOf(f) /\ t \in TokensOf(f) /\ TokensOf(f) \in SUBSET Tokens
        BY <2>1 DEF TokensOf, Types, TokenRow, Present, Rooted, Issued
      <4>2. family[f] \in FamilyRow /\ [u \in TokensOf(f) |-> token[u]] \in [TokensOf(f) -> TokenRow]
        BY <4>1 DEF Types
      <4>3. (family[f].holder \in ActiveHolders) \in BOOLEAN
        OBVIOUS
      <4> HIDE DEF f
      <4> QED BY <4>1, <4>2, <4>3 DEF Taken, Types
    <3> HIDE DEF q
    <3> QED BY <3>1, <3>2 DEF Types
  <2>2. CASE request' = request
    BY <2>2 DEF Types
  <2>3. CASE \E r \in Requests : request' = [request EXCEPT ![r] = Idle]
    BY <2>3 DEF Types
  <2> QED BY <2>1, <2>2, <2>3, RequestsOfStep
<1>5. passwordChange' \in [Administrators -> Changes] /\ superseded' \subseteq Tokens
  <2>0. NoChange \in Changes
    BY DEF NoChange, Changes
  <2>1. ASSUME NEW a \in Administrators, PasswordFamilies(a)
        PROVE  passwordChange' \in [Administrators -> Changes] /\ superseded' \subseteq Tokens
    <3> DEFINE p == [step |-> "families", existing |-> FamiliesOf(a), live |-> {},
                     open |-> {f \in FamiliesOf(a) : family[f].state = "OPEN"}]
    <3>1. p \in Changes
      BY DEF Changes, FamiliesOf
    <3>2. passwordChange' = [passwordChange EXCEPT ![a] = p] /\ superseded' = superseded
      BY <2>1 DEF PasswordFamilies
    <3> HIDE DEF p
    <3> QED BY <3>1, <3>2 DEF Types
  <2>2. ASSUME NEW a \in Administrators, PasswordTokens(a)
        PROVE  passwordChange' \in [Administrators -> Changes] /\ superseded' \subseteq Tokens
    <3> DEFINE found == UNION {LiveTokens(f) : f \in FamiliesOf(a)}
               p == [[passwordChange[a] EXCEPT !.step = "tokens"] EXCEPT !.live = found]
    <3>1. found \in SUBSET Tokens
      BY DEF LiveTokens
    <3>2. passwordChange' = [passwordChange EXCEPT ![a] = p] /\ superseded' = superseded
      BY <2>2 DEF PasswordTokens, Types
    <3> HIDE DEF found
    <3>3. p \in Changes
      BY <3>1 DEF Types, Changes
    <3> HIDE DEF p
    <3> QED BY <3>2, <3>3 DEF Types
  <2>3. ASSUME NEW a \in Administrators, PasswordCommit(a)
        PROVE  passwordChange' \in [Administrators -> Changes] /\ superseded' \subseteq Tokens
    <3>1. passwordChange[a].existing \subseteq Tokens
      BY DEF Types, Changes
    <3> QED BY <2>0, <2>3, <3>1 DEF Types, PasswordCommit
  <2>4. ASSUME NEW a \in Administrators, PasswordAbort(a)
        PROVE  passwordChange' \in [Administrators -> Changes] /\ superseded' \subseteq Tokens
    BY <2>0, <2>4 DEF Types, PasswordAbort
  <2>5. CASE UNCHANGED <<passwordChange, superseded>>
    BY <2>5 DEF Types
  <2> QED BY <2>1, <2>2, <2>3, <2>4, <2>5, ChangesOfStep
<1> QED BY <1>1, <1>2, <1>3, <1>4, <1>5 DEF Types

-----------------------------------------------------------------------------
(* The invariant *)

LEMMA RootedStep == TimesAssumption /\ Types /\ Rooted /\ Snapshots /\ [SessionNext]_sessionVars => Rooted'
<1> SUFFICES ASSUME TimesAssumption, Types, Rooted, Snapshots, [SessionNext]_sessionVars PROVE Rooted'
  OBVIOUS
<1>0. \A t \in Tokens : token[t].family \in Tokens
  BY DEF Types, TokenRow
<1>1. CASE Declines
  BY <1>0, <1>1 DEF Declines, TokenFalls, FamilyFalls, Rooted, Issued
<1>2. ASSUME NEW t \in Tokens, Opens(t) PROVE Rooted'
  BY <1>0, <1>2 DEF Opens, Rooted, Issued
<1>3. ASSUME NEW p, NEW t, Replaces(p, t) PROVE Rooted'
  BY <1>0, <1>3 DEF Replaces, Rooted, Issued, Live
<1> QED BY <1>1, <1>2, <1>3, KindsOfStep

LEMMA SingleStep == TimesAssumption /\ Types /\ Rooted /\ Single /\ Snapshots /\ [SessionNext]_sessionVars => Single'
<1> SUFFICES ASSUME TimesAssumption, Types, Rooted, Single, Snapshots, [SessionNext]_sessionVars PROVE Single'
  OBVIOUS
<1>1. CASE Declines
  BY <1>1 DEF Declines, TokenFalls, Single, Live
\* A new family has no other token.
<1>2. ASSUME NEW t \in Tokens, Opens(t) PROVE Single'
  BY <1>2 DEF Opens, Rooted, Single, Live, Issued
\* A new token takes the place of the live one.
<1>3. ASSUME NEW p, NEW t, Replaces(p, t) PROVE Single'
  BY <1>3 DEF Replaces, Rooted, Single, Live, Issued
<1> QED BY <1>1, <1>2, <1>3, KindsOfStep

LEMMA DatedStep == TimesAssumption /\ Types /\ Dated /\ Snapshots /\ [SessionNext]_sessionVars => Dated'
<1> SUFFICES ASSUME TimesAssumption, Types, Dated, Snapshots, [SessionNext]_sessionVars PROVE Dated'
  OBVIOUS
<1>1. CASE Declines
  BY <1>1 DEF Declines, TokenFalls, Dated, Live
<1>2. ASSUME NEW t \in Tokens, Opens(t) PROVE Dated'
  BY <1>2 DEF Opens, Dated, Live
<1>3. ASSUME NEW p, NEW t, Replaces(p, t) PROVE Dated'
  BY <1>3 DEF Replaces, Dated, Live
<1> QED BY <1>1, <1>2, <1>3, KindsOfStep

LEMMA SnapshotsStep == TimesAssumption /\ Types /\ Rooted /\ Snapshots /\ [SessionNext]_sessionVars => Snapshots'
<1> SUFFICES ASSUME TimesAssumption, Types, Rooted, Snapshots, [SessionNext]_sessionVars, NEW r \in Requests, request'[r] # Idle
             PROVE  /\ \A u \in DOMAIN request'[r].rows :
                         token'[u].state # "NONE" /\ token'[u].family = request'[r].root
                         /\ request'[r].rows[u].family = request'[r].root
                    /\ \/ \E u \in DOMAIN request'[r].rows : request'[r].rows[u].state = "LIVE"
                       \/ \A t \in Tokens : token'[t].family = request'[r].root => token'[t].state # "LIVE"
  BY DEF Snapshots, Issued, Live
\* Rows keep their family, and a family without a live token gets none.
<1>1. ASSUME NEW f \in Tokens, Issued(f), \A t \in Tokens : token[t].family = f => ~Live(t)
      PROVE  \A t \in Tokens : token'[t].family = f => token'[t].state # "LIVE"
  <2>1. CASE Declines
    BY <1>1, <2>1 DEF Declines, TokenFalls, Live
  <2>2. ASSUME NEW t \in Tokens, Opens(t) PROVE \A u \in Tokens : token'[u].family = f => token'[u].state # "LIVE"
    BY <1>1, <2>2 DEF Opens, Live, Issued
  <2>3. ASSUME NEW p, NEW t, Replaces(p, t) PROVE \A u \in Tokens : token'[u].family = f => token'[u].state # "LIVE"
    BY <1>1, <2>3 DEF Replaces, Live
  <2> QED BY <2>1, <2>2, <2>3, KindsOfStep
<1>2. \A u \in Tokens : Issued(u) => token'[u].state # "NONE" /\ token'[u].family = token[u].family
  <2>1. CASE Declines
    BY <2>1 DEF Declines, TokenFalls, Issued
  <2>2. ASSUME NEW t \in Tokens, Opens(t)
        PROVE  \A u \in Tokens : Issued(u) => token'[u].state # "NONE" /\ token'[u].family = token[u].family
    BY <2>2 DEF Opens, Issued
  <2>3. ASSUME NEW p, NEW t, Replaces(p, t)
        PROVE  \A u \in Tokens : Issued(u) => token'[u].state # "NONE" /\ token'[u].family = token[u].family
    BY <2>3 DEF Replaces, Issued
  <2> QED BY <2>1, <2>2, <2>3, KindsOfStep
<1>3. CASE request'[r] = request[r]
  <2>1. request[r] # Idle /\ DOMAIN request[r].rows \subseteq Tokens /\ request[r].root \in DOMAIN request[r].rows
    BY <1>3, SnapshotFacts
  <2> QED BY <1>1, <1>2, <1>3, <2>1 DEF Snapshots
<1>4. CASE UNCHANGED <<token, family>> /\ \E t \in Tokens : Present(r, t)
  <2> PICK t \in Tokens : Present(r, t)
    BY <1>4
  <2> DEFINE f == token[t].family
  <2>1. request'[r].rows = [u \in TokensOf(f) |-> token[u]] /\ request'[r].root = f
    BY DEF Present, Types
  <2>2. \A u \in TokensOf(f) : Issued(u) /\ token[u].family = f /\ u \in Tokens
    BY DEF TokensOf, Issued
  <2>3. (\E u \in TokensOf(f) : token[u].state = "LIVE") \/ \A u \in Tokens : token[u].family = f => token[u].state # "LIVE"
    BY DEF TokensOf
  <2> HIDE DEF f
  <2> QED BY <1>4, <2>1, <2>2, <2>3 DEF Issued
<1>5. CASE \E q \in Requests : request' = [request EXCEPT ![q] = Idle]
  BY <1>3, <1>5 DEF Types
<1>6. CASE UNCHANGED <<token, family>> /\ \E q \in Requests, t \in Tokens : Present(q, t)
  BY <1>3, <1>4, <1>6 DEF Types, Present
<1> QED BY <1>3, <1>5, <1>6, RequestsOfStep

\* Only a detected reuse ends a family for reuse.
LEMMA ReuseOfStep ==
    ASSUME TimesAssumption, Types, Snapshots, [SessionNext]_sessionVars, NEW f \in Tokens, family'[f].state = "REUSE_DETECTED"
    PROVE  family'[f] = family[f] \/ \E r \in Requests : DetectReuse(r) /\ request[r].root = f
<1>1. ASSUME NEW a \in Administrators, PasswordCommit(a) PROVE family'[f] = family[f]
  BY <1>1, CommitEffect
<1>2. ASSUME NEW t \in Tokens, Opens(t) PROVE family'[f] = family[f]
  BY <1>2 DEF Opens
<1>3. ASSUME NEW h \in Holders, NEW t \in Tokens, IssueFamily(h, t) PROVE family'[f] = family[f]
  BY <1>2, <1>3, IssueEffect
<1>4. ASSUME NEW g \in Tokens, NEW cutoff \in Dates, Purge(g, cutoff) PROVE family'[f] = family[f]
  BY <1>4, PurgeEffect
<1>5. ASSUME NEW r \in Requests, DetectReuse(r), request[r].root # f PROVE family'[f] = family[f]
  BY <1>5, ReuseEffect
<1>6. CASE UNCHANGED sessionVars
  BY <1>6 DEF sessionVars
<1>7. ASSUME NEW a \in Administrators, \/ SignIn(a) \/ PasswordFamilies(a) \/ PasswordTokens(a)
                                        \/ PasswordAbort(a) \/ SetMemberStatus(a)
      PROVE  family'[f] = family[f]
  BY <1>7 DEF SignIn, PasswordFamilies, PasswordTokens, PasswordAbort, SetMemberStatus
<1>8. ASSUME NEW t \in Tokens,
             \/ WebLogout(t) \/ \E a \in Administrators : Logout(a, t)
             \/ \E r \in Requests : Present(r, t) \/ Rotate(r, t)
      PROVE  family'[f] = family[f]
  BY <1>8 DEF WebLogout, Logout, Present, Rotate
<1>9. ASSUME NEW t \in Tokens, \/ \E a \in Administrators : StoreSession(a, t)
                               \/ \E c \in Customers : WebSignIn(c, t)
      PROVE  family'[f] = family[f]
  BY <1>3, <1>9 DEF StoreSession, WebSignIn, Holders
<1>10. CASE SessionTick \/ \E r \in Requests : Refuse(r)
  BY <1>10 DEF SessionTick, Refuse
<1> QED BY <1>1, <1>4, <1>5, <1>6, <1>7, <1>8, <1>9, <1>10 DEF SessionNext

(***************************************************************************)
(* When a reuse is detected, the tokens revoked with the family are those  *)
(* the snapshot saw alive.  None can have been issued since: that takes a  *)
(* live token, and the one of the snapshot must still be live.             *)
(***************************************************************************)
LEMMA ReuseLeavesNone ==
    ASSUME TimesAssumption, Types, Single, Snapshots, NEW r \in Requests, DetectReuse(r), NEW t \in Tokens,
           token[t].family = request[r].root
    PROVE  token'[t].state # "LIVE"
<1> DEFINE q == request[r]
<1>1. q # Idle /\ DOMAIN q.rows \subseteq Tokens
      /\ \A u \in Tokens : IF u \in SeenLive(q) THEN Live(u) /\ token'[u].state = "FAMILY_COMPROMISED"
                           ELSE token'[u] = token[u]
  BY ReuseEffect, SnapshotFacts
<1>2. CASE ~Live(t)
  BY <1>1, <1>2 DEF Live
<1>3. CASE Live(t)
  <2>1. PICK u \in DOMAIN q.rows : q.rows[u].state = "LIVE"
    BY <1>1, <1>3 DEF Snapshots
  <2>2. u \in SeenLive(q) /\ u \in Tokens
    BY <1>1, <2>1 DEF SeenLive, SeenRows
  <2>3. token[u].family = q.root
    BY <1>1, <2>1 DEF Snapshots
  <2>4. u = t
    BY <1>1, <1>3, <2>2, <2>3 DEF Single
  <2> QED BY <1>1, <2>2, <2>4
<1> QED BY <1>2, <1>3

LEMMA EndedStep == TimesAssumption /\ Types /\ Rooted /\ Single /\ Ended /\ Snapshots /\ [SessionNext]_sessionVars => Ended'
<1> SUFFICES ASSUME TimesAssumption, Types, Rooted, Single, Ended, Snapshots, [SessionNext]_sessionVars, NEW t \in Tokens,
                    family'[token'[t].family].state = "REUSE_DETECTED"
             PROVE  token'[t].state # "LIVE"
  BY DEF Ended, Live
<1> DEFINE f == token'[t].family
<1>0. f \in Tokens
  BY TypesStep DEF Types, TokenRow
<1>1. CASE Declines
  <2>1. token'[t].family = token[t].family /\ (token'[t] = token[t] \/ token'[t].state # "LIVE")
    BY <1>1 DEF Declines, TokenFalls
  <2>2. CASE family'[f] = family[f]
    BY <2>1, <2>2 DEF Ended, Live
  <2>3. CASE \E r \in Requests : DetectReuse(r) /\ request[r].root = f
    BY <2>1, <2>3, ReuseLeavesNone
  <2> QED BY <1>0, <2>2, <2>3, ReuseOfStep
<1>2. ASSUME NEW x \in Tokens, Opens(x) PROVE token'[t].state # "LIVE"
  BY <1>0, <1>2 DEF Opens, Ended, Live, Rooted, Issued
<1>3. ASSUME NEW p, NEW x, Replaces(p, x) PROVE token'[t].state # "LIVE"
  BY <1>0, <1>3 DEF Replaces, Ended, Live
<1> QED BY <1>1, <1>2, <1>3, KindsOfStep

\* A family that is not open is not opened.
LEMMA FamiliesOfStep ==
    ASSUME TimesAssumption, Types, Rooted, Snapshots, [SessionNext]_sessionVars, NEW f \in Tokens, family[f].state # "NONE"
    PROVE  family'[f].state # "NONE" /\ (family[f].state # "OPEN" => family'[f].state # "OPEN")
<1>1. CASE Declines
  BY <1>1 DEF Declines, FamilyFalls
<1>2. ASSUME NEW x \in Tokens, Opens(x) PROVE family'[f] = family[f]
  BY <1>2 DEF Opens, Rooted
<1>3. ASSUME NEW p, NEW x, Replaces(p, x) PROVE family'[f] = family[f]
  BY <1>3 DEF Replaces
<1> QED BY <1>1, <1>2, <1>3, KindsOfStep

LEMMA ClosingStep == TimesAssumption /\ Types /\ Rooted /\ Snapshots /\ Closing /\ [SessionNext]_sessionVars => Closing'
<1> SUFFICES ASSUME TimesAssumption, Types, Rooted, Snapshots, Closing, [SessionNext]_sessionVars PROVE Closing'
  OBVIOUS
<1>0. \A a \in Administrators : passwordChange[a].existing \subseteq Tokens
  BY DEF Types, Changes
<1>1. \A f \in superseded : family'[f].state \notin {"NONE", "OPEN"}
  BY FamiliesOfStep DEF Closing, Types
<1>2. \A a \in Administrators : \A f \in passwordChange[a].existing :
        family'[f].state # "NONE" /\ (f \in passwordChange[a].open \/ family'[f].state # "OPEN")
  BY <1>0, FamiliesOfStep DEF Closing
<1>3. CASE UNCHANGED <<passwordChange, superseded>>
  BY <1>1, <1>2, <1>3 DEF Closing
<1>4. ASSUME NEW a \in Administrators, PasswordFamilies(a) PROVE Closing'
  <2> DEFINE p == [step |-> "families", existing |-> FamiliesOf(a), live |-> {},
                   open |-> {f \in FamiliesOf(a) : family[f].state = "OPEN"}]
  <2>1. passwordChange' = [passwordChange EXCEPT ![a] = p] /\ superseded' = superseded /\ family' = family
    BY <1>4 DEF PasswordFamilies
  <2>2. \A f \in p.existing : family[f].state # "NONE" /\ (f \in p.open \/ family[f].state # "OPEN")
    BY DEF FamiliesOf
  <2> HIDE DEF p
  <2> QED BY <1>1, <1>2, <2>1, <2>2 DEF Closing, Types
<1>5. ASSUME NEW a \in Administrators, PasswordTokens(a) PROVE Closing'
  <2>1. /\ \A b \in Administrators : /\ passwordChange'[b].existing = passwordChange[b].existing
                                     /\ passwordChange'[b].open = passwordChange[b].open
        /\ superseded' = superseded
    BY <1>5 DEF PasswordTokens, Types, Changes
  <2> QED BY <1>1, <1>2, <2>1 DEF Closing
<1>6. ASSUME NEW a \in Administrators, PasswordCommit(a) PROVE Closing'
  <2>1. \A f \in passwordChange[a].existing : family'[f].state \notin {"NONE", "OPEN"}
    BY <1>0, <1>2, <1>6, CommitEffect
  <2>2. passwordChange' = [passwordChange EXCEPT ![a] = NoChange]
        /\ superseded' = superseded \cup passwordChange[a].existing
    BY <1>6 DEF PasswordCommit
  <2> QED BY <1>1, <1>2, <2>1, <2>2 DEF Closing, Types, NoChange
<1>7. ASSUME NEW a \in Administrators, PasswordAbort(a) PROVE Closing'
  <2>1. passwordChange' = [passwordChange EXCEPT ![a] = NoChange] /\ superseded' = superseded
    BY <1>7 DEF PasswordAbort
  <2> QED BY <1>1, <1>2, <2>1 DEF Closing, Types, NoChange
<1> QED BY <1>3, <1>4, <1>5, <1>6, <1>7, ChangesOfStep

LEMMA Initially == TimesAssumption /\ SessionInit => IInv
<1> SUFFICES ASSUME TimesAssumption, SessionInit PROVE IInv
  OBVIOUS
<1>1. PICK h \in Holders : family = [f \in Tokens |-> [state |-> "NONE", holder |-> h, event |-> 0]]
  BY DEF SessionInit
<1>2. \A t \in Tokens : /\ token[t].state = "NONE" /\ token[t].family = t /\ token[t].parent \in Tokens
                        /\ token[t].expires = 0 /\ token[t].ended = 0
                        /\ token[t] \in {[state |-> "NONE", family |-> u, parent |-> u, expires |-> 0, ended |-> 0] : u \in Tokens}
  BY DEF SessionInit
<1>3. 0 \in Dates /\ 0 \in 0 .. MaxTime
  BY DEF TimesAssumption, Dates
<1>4. token \in [Tokens -> TokenRow]
  <2>1. \A u \in Tokens : [state |-> "NONE", family |-> u, parent |-> u, expires |-> 0, ended |-> 0] \in TokenRow
    BY <1>3 DEF TokenRow, TokenState
  <2> QED BY <2>1 DEF SessionInit
<1>5. family \in [Tokens -> FamilyRow]
  BY <1>1, <1>3 DEF FamilyRow, FamilyState
<1>6. Types
  BY <1>3, <1>4, <1>5 DEF SessionInit, Types, Changes, NoChange
<1>7. Rooted /\ Single /\ Dated
  BY <1>1, <1>2 DEF Rooted, Single, Dated, Live, Issued
<1>8. Ended
  BY <1>2 DEF Ended, Live
<1>9. Snapshots /\ Closing
  BY DEF SessionInit, Snapshots, Closing, NoChange
<1> QED BY <1>6, <1>7, <1>8, <1>9 DEF IInv

LEMMA Preserved == TimesAssumption /\ IInv /\ [SessionNext]_sessionVars => IInv'
BY TypesStep, RootedStep, SingleStep, EndedStep, DatedStep, SnapshotsStep, ClosingStep DEF IInv

\* A row that a log-out revoked is written only by the clean-up.
LEMMA RevokedStays ==
    ASSUME TimesAssumption, Types, Snapshots, [SessionNext]_sessionVars, NEW t \in Tokens, token[t].state = "LOGOUT"
    PROVE  token'[t].state \in {"LOGOUT", "PURGED"}
<1>1. ASSUME NEW r \in Requests, DetectReuse(r) PROVE token'[t] = token[t]
  BY <1>1, ReuseEffect DEF Live
<1>2. ASSUME NEW a \in Administrators, PasswordCommit(a) PROVE token'[t] = token[t]
  BY <1>2 DEF PasswordCommit
<1>3. ASSUME NEW x \in Tokens, NEW h, IssueFamily(h, x) PROVE token'[t] = token[t]
  BY <1>3 DEF IssueFamily, Types
<1>4. ASSUME NEW x \in Tokens, WebLogout(x) \/ \E a \in Administrators : Logout(a, x) PROVE token'[t] = token[t]
  BY <1>4 DEF WebLogout, Logout, Revoke, Types
<1>5. ASSUME NEW f \in Tokens, NEW cutoff \in Dates, Purge(f, cutoff) PROVE token'[t].state \in {"LOGOUT", "PURGED"}
  <2>1. token'[t] = token[t] \/ token'[t] = [token[t] EXCEPT !.state = "PURGED"]
    BY <1>5 DEF Purge
  <2> QED BY <2>1 DEF Types, TokenRow
<1>6. ASSUME NEW r \in Requests, NEW x \in Tokens, Rotate(r, x) PROVE token'[t] = token[t]
  BY <1>6, RotateEffect DEF Replaces, Live, Issued
<1>7. CASE UNCHANGED sessionVars
  BY <1>7 DEF sessionVars
<1>8. ASSUME NEW a \in Administrators, \/ SignIn(a) \/ PasswordFamilies(a) \/ PasswordTokens(a)
                                        \/ PasswordAbort(a) \/ SetMemberStatus(a)
      PROVE  token'[t] = token[t]
  BY <1>8 DEF SignIn, PasswordFamilies, PasswordTokens, PasswordAbort, SetMemberStatus
<1>9. ASSUME NEW x \in Tokens, \/ \E a \in Administrators : StoreSession(a, x)
                               \/ \E c \in Customers : WebSignIn(c, x)
                               \/ \E r \in Requests : Present(r, x)
      PROVE  token'[t] = token[t]
  BY <1>3, <1>9 DEF StoreSession, WebSignIn, Present
<1>10. CASE SessionTick \/ \E r \in Requests : Refuse(r)
  BY <1>10 DEF SessionTick, Refuse
<1> QED BY <1>1, <1>2, <1>4, <1>5, <1>6, <1>7, <1>8, <1>9, <1>10 DEF SessionNext

LEMMA OnlyPurgePurges ==
    ASSUME TimesAssumption, Types, Snapshots, [SessionNext]_sessionVars, NEW t \in Tokens,
           token[t].state # "PURGED", token'[t].state = "PURGED"
    PROVE  \E f \in Tokens, cutoff \in Dates : Purge(f, cutoff)
<1>0. now \in Dates /\ token[t] \in TokenRow
  BY DatesAreDates DEF Types
<1>1. ASSUME NEW r \in Requests, DetectReuse(r) PROVE FALSE
  BY <1>1, ReuseEffect
<1>2. ASSUME NEW a \in Administrators, PasswordCommit(a) PROVE FALSE
  <2>1. token'[t] = token[t] \/ token'[t] = Out(token[t], "PASSWORD_CHANGED", now)
    BY <1>2 DEF PasswordCommit, Out
  <2>2. Out(token[t], "PASSWORD_CHANGED", now).state = "PASSWORD_CHANGED"
    BY <1>0, States, StatesFall
  <2> QED BY <2>1, <2>2
<1>3. ASSUME NEW x \in Tokens, Opens(x) PROVE FALSE
  BY <1>3 DEF Opens
<1>4. ASSUME NEW x \in Tokens, WebLogout(x) \/ \E a \in Administrators : Logout(a, x) PROVE FALSE
  <2>1. Revoke(x)
    BY <1>4 DEF WebLogout, Logout
  <2>2. token'[t] = token[t] \/ token'[t] = Out(token[t], "LOGOUT", now)
    BY <2>1 DEF Revoke, Out, Types
  <2>3. Out(token[t], "LOGOUT", now).state = "LOGOUT"
    BY <1>0, States, StatesFall
  <2> QED BY <2>2, <2>3
<1>5. ASSUME NEW r \in Requests, NEW x \in Tokens, Rotate(r, x) PROVE FALSE
  BY <1>5, RotateEffect DEF Replaces
<1>6. CASE UNCHANGED sessionVars
  BY <1>6 DEF sessionVars
<1>7. ASSUME NEW a \in Administrators, \/ SignIn(a) \/ PasswordFamilies(a) \/ PasswordTokens(a)
                                        \/ PasswordAbort(a) \/ SetMemberStatus(a)
      PROVE  FALSE
  BY <1>7 DEF SignIn, PasswordFamilies, PasswordTokens, PasswordAbort, SetMemberStatus
<1>8. ASSUME NEW x \in Tokens, \/ \E a \in Administrators : StoreSession(a, x)
                               \/ \E c \in Customers : WebSignIn(c, x)
      PROVE  FALSE
  BY <1>3, <1>8, IssueEffect DEF StoreSession, WebSignIn, Holders
<1>9. ASSUME NEW x \in Tokens, NEW r \in Requests, Present(r, x) PROVE FALSE
  BY <1>9 DEF Present
<1>10. CASE SessionTick \/ \E r \in Requests : Refuse(r)
  BY <1>10 DEF SessionTick, Refuse
<1> QED BY <1>1, <1>2, <1>4, <1>5, <1>6, <1>7, <1>8, <1>9, <1>10 DEF SessionNext

-----------------------------------------------------------------------------
(* Theorems *)

\* Every column of the four tables keeps its type.
THEOREM TokensTypeCorrect == TimesAssumption => (SessionSpec => []SessionTypeOK)
<1> SUFFICES ASSUME TimesAssumption PROVE SessionSpec => []SessionTypeOK
  OBVIOUS
<1>1. IInv => SessionTypeOK
  <2> SUFFICES ASSUME Types PROVE SessionTypeOK
    BY DEF IInv
  <2>1. 0 .. MaxTime \subseteq Dates
    BY DatesAreDates
  <2>2. \A r \in Requests : request[r] = Idle \/ \E issued \in SUBSET Tokens : request[r] \in Snapshot(issued)
    BY <2>1 DEF Types, Taken, Snapshot
  <2>3. \A a \in Administrators : passwordChange[a] \in Changes
    BY DEF Types
  <2> QED BY <2>2, <2>3 DEF Types, SessionTypeOK, Changes
<1> QED BY <1>1, Initially, Preserved, PTL DEF SessionSpec

(***************************************************************************)
(* A family never has two live tokens, whatever refreshes, log-outs,       *)
(* password changes and sign-ins overlap: a new one takes the place of the *)
(* presented one, which has not changed since the snapshot.                *)
(***************************************************************************)
THEOREM OneTokenLives == TimesAssumption => (SessionSpec => []OneLiveToken)
<1> SUFFICES ASSUME TimesAssumption PROVE SessionSpec => []OneLiveToken
  OBVIOUS
<1>1. IInv => OneLiveToken
  <2> SUFFICES ASSUME Single, NEW f \in Tokens PROVE Cardinality(LiveTokens(f)) <= 1
    BY DEF IInv, OneLiveToken
  <2>1. CASE LiveTokens(f) = {}
    BY <2>1, FS_EmptySet
  <2>2. CASE LiveTokens(f) # {}
    <3>1. PICK t \in LiveTokens(f) : TRUE
      BY <2>2
    <3>2. LiveTokens(f) = {t}
      BY <3>1 DEF LiveTokens, Single, Live
    <3>3. Cardinality({t}) = 1
      BY FS_Singleton
    <3> QED BY <3>2, <3>3
  <2> QED BY <2>1, <2>2
<1> QED BY <1>1, Initially, Preserved, PTL DEF SessionSpec

\* Once a reuse was detected, no token of the family is live again.
THEOREM ReuseIsTheEnd == TimesAssumption => (SessionSpec => []ReuseEndsSession)
<1> SUFFICES ASSUME TimesAssumption PROVE SessionSpec => []ReuseEndsSession
  OBVIOUS
<1>1. IInv => ReuseEndsSession
  BY DEF IInv, Ended, ReuseEndsSession, LiveTokens, Live
<1> QED BY <1>1, Initially, Preserved, PTL DEF SessionSpec

(***************************************************************************)
(* No session from before a password change is usable after it, also when  *)
(* one of its tokens was rotated between the statements of the change: its *)
(* family was already closed, or was found open and is closed.             *)
(***************************************************************************)
THEOREM OldSessionsEnd == TimesAssumption => (SessionSpec => []PasswordChangeEndsSessions)
<1> SUFFICES ASSUME TimesAssumption PROVE SessionSpec => []PasswordChangeEndsSessions
  OBVIOUS
<1>1. IInv => PasswordChangeEndsSessions
  BY DEF IInv, Closing, PasswordChangeEndsSessions, Usable
<1> QED BY <1>1, Initially, Preserved, PTL DEF SessionSpec

\* A revoked token stays revoked until it is purged, and has no child afterwards.
THEOREM LoggedOutForGood == TimesAssumption => (SessionSpec => [][LogoutIsFinal]_sessionVars)
<1> SUFFICES ASSUME TimesAssumption PROVE SessionSpec => [][LogoutIsFinal]_sessionVars
  OBVIOUS
<1>1. ASSUME IInv, [SessionNext]_sessionVars PROVE LogoutIsFinal
  <2>0. Types /\ Snapshots
    BY <1>1 DEF IInv
  <2> SUFFICES ASSUME NEW t \in Tokens, token[t].state = "LOGOUT"
               PROVE  /\ token'[t].state \in {"LOGOUT", "PURGED"}
                      /\ \A u \in Tokens \ {t} : token[u].state = "NONE" /\ token'[u].state # "NONE"
                                                 => token'[u].parent # t
    BY DEF LogoutIsFinal
  <2>1. \A u \in Tokens \ {t} : token[u].state = "NONE" /\ token'[u].state # "NONE" => token'[u].parent # t
    <3>1. CASE Declines
      BY <3>1 DEF Declines, TokenFalls
    <3>2. ASSUME NEW x \in Tokens, Opens(x)
          PROVE  \A u \in Tokens \ {t} : token[u].state = "NONE" /\ token'[u].state # "NONE" => token'[u].parent # t
      BY <3>2 DEF Opens
    <3>3. ASSUME NEW p, NEW x, Replaces(p, x)
          PROVE  \A u \in Tokens \ {t} : token[u].state = "NONE" /\ token'[u].state # "NONE" => token'[u].parent # t
      BY <3>3 DEF Replaces, Live
    <3> QED BY <1>1, <2>0, <3>1, <3>2, <3>3, KindsOfStep
  <2>2. token'[t].state \in {"LOGOUT", "PURGED"}
    BY <1>1, <2>0, RevokedStays
  <2> QED BY <2>1, <2>2
<1>2. IInv /\ [SessionNext]_sessionVars => [LogoutIsFinal]_sessionVars
  BY <1>1
<1> QED BY <1>2, Initially, Preserved, PTL DEF SessionSpec

\* The clean-up spares every family with a token that can still be used: until it
\* expires, such a token is younger than the cutoff.
THEOREM UsableSessionsAreSpared == TimesAssumption => (SessionSpec => [][PurgeSparesSessions]_sessionVars)
<1> SUFFICES ASSUME TimesAssumption PROVE SessionSpec => [][PurgeSparesSessions]_sessionVars
  OBVIOUS
<1>1. ASSUME IInv, [SessionNext]_sessionVars PROVE PurgeSparesSessions
  <2>0. Types /\ Snapshots /\ Dated
    BY <1>1 DEF IInv
  <2> SUFFICES ASSUME NEW t \in Tokens, Usable(t), NEW u \in Tokens, token[u].family = token[t].family,
                      token[u].state # "PURGED", token'[u].state = "PURGED"
               PROVE  FALSE
    BY DEF PurgeSparesSessions
  <2>1. PICK f \in Tokens, cutoff \in Dates : Purge(f, cutoff)
    BY <1>1, <2>0, OnlyPurgePurges
  <2>2. token[t].family = f
    BY <2>0, <2>1, PurgeEffect
  <2>3. token[t].ended <= cutoff /\ cutoff + Retention <= now
    BY <2>1, <2>2 DEF Purge, Purgeable, Usable
  <2>4. token[t].ended > now
    BY <2>0 DEF Usable, Dated, Live
  <2>5. now \in Int /\ cutoff \in Int /\ Retention \in Nat /\ token[t].ended \in Int
    BY <2>0, DatesAreDates DEF Types, TokenRow, TimesAssumption
  <2> QED BY <2>3, <2>4, <2>5
<1>2. IInv /\ [SessionNext]_sessionVars => [PurgeSparesSessions]_sessionVars
  BY <1>1
<1> QED BY <1>2, Initially, Preserved, PTL DEF SessionSpec

\* A family is ended for a token that had been consumed before the request began.
THEOREM OverlapsAreForgiven == TimesAssumption => (SessionSpec => [][OverlapIsNoReuse]_sessionVars)
<1> SUFFICES ASSUME TimesAssumption PROVE SessionSpec => [][OverlapIsNoReuse]_sessionVars
  OBVIOUS
<1>1. ASSUME IInv, [SessionNext]_sessionVars PROVE OverlapIsNoReuse
  <2> SUFFICES ASSUME NEW f \in Tokens, family[f].state = "OPEN", family'[f].state = "REUSE_DETECTED"
               PROVE  \E r \in Requests : /\ request[r] # Idle /\ request'[r] = Idle /\ request[r].root = f
                                          /\ request[r].rows[request[r].token].state = "ROTATED"
    BY DEF OverlapIsNoReuse
  <2>0. Types /\ Snapshots
    BY <1>1 DEF IInv
  <2>1. PICK r \in Requests : DetectReuse(r) /\ request[r].root = f
    BY <1>1, <2>0, ReuseOfStep
  <2>2. request[r] # Idle /\ request' = [request EXCEPT ![r] = Idle] /\ IsReuse(request[r])
    BY <2>1 DEF DetectReuse
  <2>3. request[r].rows[request[r].token].state = "ROTATED"
    BY <2>2 DEF IsReuse, SeenRow, SeenRows
  <2>4. request'[r] = Idle
    BY <2>0, <2>2 DEF Types
  <2> QED BY <2>1, <2>2, <2>3, <2>4
<1>2. IInv /\ [SessionNext]_sessionVars => [OverlapIsNoReuse]_sessionVars
  BY <1>1
<1> QED BY <1>2, Initially, Preserved, PTL DEF SessionSpec

\* Everything a session is checked for at every state: one live token, none once it
\* was reused, none from before the last change of the password.
THEOREM SessionsSafe == TimesAssumption => (SessionSpec => []SessionsAreSafe)
<1>1. SessionTypeOK /\ OneLiveToken /\ ReuseEndsSession /\ PasswordChangeEndsSessions => SessionsAreSafe
  BY DEF SessionsAreSafe
<1> QED BY <1>1, TokensTypeCorrect, OneTokenLives, ReuseIsTheEnd, OldSessionsEnd, PTL
=============================================================================
