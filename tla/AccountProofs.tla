---------------------------- MODULE AccountProofs ----------------------------
(***************************************************************************)
(* Theorems about who has an account: the members of the shop and their    *)
(* roles (Members), for any people, roles and requests; and the            *)
(* registration of a customer's address (WebRegistration), for any         *)
(* attempts, codes, requests and times.                                    *)
(***************************************************************************)
EXTENDS Members, WebRegistration, FiniteSetTheorems, WellFoundedInduction, TLAPS

-----------------------------------------------------------------------------
(***************************************************************************)
(* Members.  The invariant says what a request was let through with at     *)
(* each step, and that every member has the roles asked for last; somebody *)
(* manages because the actor of a command did when it took effect and can  *)
(* only give that up themselves.                                           *)
(***************************************************************************)

\* A row of shop_members, or none; and a request under way.
Rows == [status : Status \cup {"NONE"}, roles : SUBSET Roles]
Issued == [step : Steps \ {"idle"}, actor : People, kind : {"create", "update"}, target : People,
           given : [status : Status \cup {Unchanged}, roles : SUBSET Roles],
           seen : Rows, attempt : Nat]

Types == /\ user \in [People -> Commands \cup {NoOne, "before"}]
         /\ member \in [People -> Rows] /\ asked \in [People -> SUBSET Roles]
         /\ command \in [Commands -> Issued \cup {NoCommand}]
         /\ demoted \in BOOLEAN /\ overtaken \in BOOLEAN

\* What the command takes effect with: roles for a new member, and nobody's own deactivation.
Admitted == \A r \in Commands : command[r] \in Issued =>
              /\ command[r].kind = "create" => command[r].given.roles \in RoleSets
              /\ command[r].step \in {"check", "create"} => command[r].kind = "create"
              /\ command[r].step = "write" => Allowed(r) /\ IsMember(command[r].target)

\* Members are whole, and stay.
Whole == \A p \in People : \/ member[p] = NoMember
                           \/ /\ member[p].status \in Status
                              /\ member[p].roles \in RoleSets
                              /\ user[p] # NoOne

IInv == Types /\ Admitted /\ Whole /\ RolesAreAsLastAsked /\ ManagerRemains

\* What a request does to the rows, and the steps that leave them alone.
Effect(r) == Create(r) \/ Update(r)
Passing(r) == Admit(r) \/ CheckMembership(r) \/ CreateFails(r) \/ BeginUpdate(r) \/ Retry(r)

-----------------------------------------------------------------------------
(* Commands under way *)

LEMMA RequestIsCommand ==
    ASSUME Types, NEW r \in Commands, command[r].step # "idle"
    PROVE  command[r] \in Issued
BY DEF Types, NoCommand

\* Whatever happens to a request, who asks for what stays.
Goes(q, c) == /\ c \in Issued /\ c.actor = q.actor /\ c.target = q.target
              /\ c.given = q.given /\ c.kind = q.kind

LEMMA StepOfRequest ==
    ASSUME Types, NEW r \in Commands, Effect(r) \/ Passing(r)
    PROVE  /\ command[r] \in Issued
           /\ \E c \in Issued : /\ command' = [command EXCEPT ![r] = c] /\ Goes(command[r], c)
                                /\ c.step \in {"check", "create"} =>
                                     \/ command[r].step = "check"
                                     \/ command[r].kind = "create"
                                /\ c.step = "write" =>
                                     Allowed(r) /\ IsMember(command[r].target) /\ UNCHANGED member
<1>1. command[r] \in Issued
  <2>1. command[r].step # "idle"
    BY DEF Effect, Passing, Create, Update, Admit, CheckMembership, CreateFails, BeginUpdate, Retry
  <2> QED BY <2>1, RequestIsCommand
<1> DEFINE To(s) == [command[r] EXCEPT !.step = s]
<1>2. ASSUME NEW s \in Steps \ {"idle"} PROVE Goes(command[r], To(s)) /\ To(s).step = s /\ To(s) \in Issued
  BY <1>1 DEF Goes, Issued
<1>3. ASSUME NEW s, Go(r, s) PROVE command' = [command EXCEPT ![r] = To(s)]
  BY <1>1, <1>3 DEF Go
<1>4. CASE Effect(r) \/ CreateFails(r)
  <2>1. Go(r, "done") \/ Go(r, "refused")
    BY <1>4 DEF Effect, Create, Update, CreateFails
  <2>2. {"done", "refused"} \subseteq Steps \ {"idle"}
    BY DEF Steps
  <2> HIDE DEF To
  <2>3. CASE Go(r, "done")
    BY <1>1, <1>2, <1>3, <2>2, <2>3
  <2>4. CASE Go(r, "refused")
    BY <1>1, <1>2, <1>3, <2>2, <2>4
  <2> QED BY <2>1, <2>3, <2>4
<1>5. CASE Admit(r)
  <2>1. \/ Go(r, "refused")
        \/ Go(r, "check") /\ command[r].kind = "create"
        \/ Go(r, "update")
    BY <1>5 DEF Admit
  <2>2. {"check", "update", "refused"} \subseteq Steps \ {"idle"}
    BY DEF Steps
  <2> HIDE DEF To
  <2>3. CASE Go(r, "refused")
    BY <1>1, <1>2, <1>3, <2>2, <2>3
  <2>4. CASE Go(r, "check") /\ command[r].kind = "create"
    BY <1>1, <1>2, <1>3, <2>2, <2>4
  <2>5. CASE Go(r, "update")
    BY <1>1, <1>2, <1>3, <2>2, <2>5
  <2> QED BY <2>1, <2>3, <2>4, <2>5
<1>6. CASE CheckMembership(r)
  <2>1. command[r].step = "check" /\ (Go(r, "refused") \/ Go(r, "create"))
    BY <1>6 DEF CheckMembership
  <2>2. {"create", "refused"} \subseteq Steps \ {"idle"}
    BY DEF Steps
  <2> HIDE DEF To
  <2>3. CASE Go(r, "refused")
    BY <1>1, <1>2, <1>3, <2>2, <2>3
  <2>4. CASE Go(r, "create")
    BY <1>1, <1>2, <1>3, <2>1, <2>2, <2>4
  <2> QED BY <2>1, <2>3, <2>4
<1>7. CASE BeginUpdate(r)
  <2>0. {"write", "refused"} \subseteq Steps \ {"idle"}
    BY DEF Steps
  <2>1. CASE Allowed(r) /\ IsMember(command[r].target)
    <3> DEFINE c == [[command[r] EXCEPT !.step = "write"] EXCEPT !.seen = member[command[r].target]]
    <3>1. command' = [command EXCEPT ![r] = c] /\ member' = member
      BY <1>1, <1>7, <2>1 DEF BeginUpdate
    <3>2. member[command[r].target] \in Rows
      BY <1>1 DEF Types, Issued
    <3>3. c \in Issued /\ Goes(command[r], c) /\ c.step = "write"
      BY <1>1, <2>0, <3>2 DEF Goes, Issued
    <3> HIDE DEF c
    <3> QED BY <1>1, <2>1, <3>1, <3>3
  <2>2. CASE ~(Allowed(r) /\ IsMember(command[r].target))
    <3>1. Go(r, "refused")
      BY <1>7, <2>2 DEF BeginUpdate
    <3> HIDE DEF To
    <3> QED BY <1>1, <1>2, <1>3, <2>0, <3>1
  <2> QED BY <2>1, <2>2
<1>8. CASE Retry(r)
  <2>0. {"update", "refused"} \subseteq Steps \ {"idle"}
    BY DEF Steps
  <2>1. CASE command[r].attempt < MaxAttempts
    <3> DEFINE c == [[command[r] EXCEPT !.step = "update"] EXCEPT !.attempt = command[r].attempt + 1]
    <3>1. command' = [command EXCEPT ![r] = c]
      BY <1>1, <1>8, <2>1 DEF Retry, Issued
    <3>0. command[r].attempt + 1 \in Nat
      BY <1>1 DEF Issued
    <3>2. c \in Issued /\ Goes(command[r], c) /\ c.step = "update"
      BY <1>1, <2>0, <3>0 DEF Goes, Issued
    <3> HIDE DEF c
    <3> QED BY <1>1, <3>1, <3>2
  <2>2. CASE ~(command[r].attempt < MaxAttempts)
    <3>1. Go(r, "refused")
      BY <1>8, <2>2 DEF Retry, Go
    <3> HIDE DEF To
    <3> QED BY <1>1, <1>2, <1>3, <2>0, <3>1
  <2> QED BY <2>1, <2>2
<1> QED BY <1>4, <1>5, <1>6, <1>7, <1>8 DEF Passing

-----------------------------------------------------------------------------
(* The effects of the two commands *)

LEMMA CreateEffect ==
    ASSUME Types, Admitted, NEW r \in Commands, Create(r)
    PROVE  LET p == command[r].target IN
           /\ p \in People /\ ~IsMember(p) /\ command[r].actor \in People
           /\ user' = [user EXCEPT ![p] = PasswordOf(p, r)]
           /\ command[r].given.roles \in RoleSets
           /\ member' = [member EXCEPT ![p] = [status |-> "ACTIVE", roles |-> command[r].given.roles]]
           /\ asked' = [asked EXCEPT ![p] = command[r].given.roles]
           /\ Overtaken(r) /\ demoted' = demoted
<1>1. command[r] \in Issued /\ command[r].step = "create"
  BY StepOfRequest DEF Effect, Create
<1> QED BY <1>1 DEF Create, Joins, Admitted, Issued

LEMMA UpdateEffect ==
    ASSUME Types, Admitted, Whole, NEW r \in Commands, Update(r)
    PROVE  LET p == command[r].target
               given == command[r].given
               row == [status |-> IF given.status = Unchanged THEN member[p].status ELSE given.status,
                       roles |-> IF given.roles = {} THEN member[p].roles ELSE given.roles]
           IN
           /\ p \in People /\ IsMember(p) /\ Allowed(r) /\ command[r].actor \in People
           /\ given.status \in Status \cup {Unchanged} /\ given.roles \in SUBSET Roles
           /\ user' = user
           /\ member' = [member EXCEPT ![p] = row] /\ row \in Rows
           /\ row.status \in Status /\ row.roles \in RoleSets
           /\ asked' = [asked EXCEPT ![p] = IF given.roles = {} THEN asked[p] ELSE given.roles]
           /\ Overtaken(r) /\ demoted' = (demoted \/ GivesUp(r))
<1> DEFINE p == command[r].target
           given == command[r].given
           row == [status |-> IF given.status = Unchanged THEN member[p].status ELSE given.status,
                   roles |-> IF given.roles = {} THEN member[p].roles ELSE given.roles]
<1>1. command[r] \in Issued /\ command[r].step = "write"
  BY StepOfRequest DEF Effect, Update
<1>2. p \in People /\ command[r].actor \in People /\ given.status \in Status \cup {Unchanged}
      /\ given.roles \in SUBSET Roles /\ Allowed(r) /\ IsMember(p)
  BY <1>1 DEF Issued, Admitted
<1>3. member[p] \in Rows /\ member[p].status \in Status /\ member[p].roles \in RoleSets
  BY <1>2 DEF Types, Whole, IsMember, NoMember
<1>4. given.roles # {} => (member[p].roles \ command[r].seen.roles) \cup given.roles = given.roles
  <2>1. given.roles # {} => member[p].roles = command[r].seen.roles
    BY DEF Update, Conflicts
  <2> QED BY <2>1
<1>5. Changed(member[p], command[r].seen, given) = row
  BY <1>4 DEF Changed
<1>6. row.status \in Status /\ row.roles \in RoleSets /\ row \in Rows
  <2>1. row.status \in Status
    BY <1>2, <1>3
  <2>2. row.roles \in RoleSets
    <3>1. row.roles = IF given.roles = {} THEN member[p].roles ELSE given.roles
      OBVIOUS
    <3> HIDE DEF row
    <3>2. CASE given.roles = {}
      BY <1>3, <3>1, <3>2
    <3>3. CASE given.roles # {}
      <4>1. row.roles = given.roles
        BY <3>1, <3>3
      <4>2. given.roles \in SUBSET Roles
        BY <1>2
      <4>3. \A x : x \in SUBSET Roles /\ x # {} => x \in RoleSets
        BY DEF RoleSets
      <4> HIDE DEF given
      <4> QED BY <3>3, <4>1, <4>2, <4>3
    <3> QED BY <3>2, <3>3
  <2>3. row.roles \in SUBSET Roles
    BY <2>2 DEF RoleSets
  <2>4. row = [status |-> row.status, roles |-> row.roles]
    OBVIOUS
  <2> HIDE DEF row
  <2> QED BY <2>1, <2>2, <2>3, <2>4 DEF Rows
<1> HIDE DEF row
<1>7. member' = [member EXCEPT ![p] = row]
  BY <1>5 DEF Update
<1> QED BY <1>2, <1>6, <1>7 DEF Update, row

-----------------------------------------------------------------------------

LEMMA Asked ==
    ASSUME Types, NEW r \in Commands, NEW actor \in People, NEW target \in People,
           NEW kind \in {"create", "update"},
           NEW given \in [status : Status \cup {Unchanged}, roles : SUBSET Roles],
           kind = "create" => given.roles \in RoleSets,
           Ask(r, actor, kind, target, given)
    PROVE  \E c \in Issued : /\ command' = [command EXCEPT ![r] = c]
                             /\ c.step = "guard" /\ c.kind = kind /\ c.given = given
<1> DEFINE c == [step |-> "guard", actor |-> actor, kind |-> kind, target |-> target, given |-> given,
                 seen |-> Seen, attempt |-> 1]
<1>1. c \in Issued
  BY DEF Issued, Seen, Rows, Steps
<1>2. command' = [command EXCEPT ![r] = c]
  BY DEF Ask
<1> QED BY <1>1, <1>2

\* What a step is: a request is made, is passed on, or takes effect.
LEMMA KindsOfStep ==
    ASSUME Types, MembersNext
    PROVE  \E r \in Commands :
             \/ Effect(r)
             \/ /\ UNCHANGED <<user, member, asked, demoted, overtaken>>
                /\ \/ Passing(r)
                   \/ \E c \in Issued :
                        /\ command' = [command EXCEPT ![r] = c] /\ c.step = "guard"
                        /\ c.kind = "create" => c.given.roles \in RoleSets
<1>1. ASSUME NEW r \in Commands, NEW actor \in People, NEW target \in People, NEW roles \in RoleSets,
             Ask(r, actor, "create", target, [status |-> Unchanged, roles |-> roles])
      PROVE  /\ UNCHANGED <<user, member, asked, demoted, overtaken>>
             /\ \E c \in Issued : /\ command' = [command EXCEPT ![r] = c] /\ c.step = "guard"
                                  /\ c.kind = "create" => c.given.roles \in RoleSets
  <2> DEFINE given == [status |-> Unchanged, roles |-> roles]
  <2>1. given \in [status : Status \cup {Unchanged}, roles : SUBSET Roles] /\ given.roles \in RoleSets
    BY DEF RoleSets
  <2> HIDE DEF given
  <2>2. Ask(r, actor, "create", target, given)
    BY <1>1 DEF given
  <2>3. PICK c \in Issued : /\ command' = [command EXCEPT ![r] = c]
                            /\ c.step = "guard" /\ c.kind = "create" /\ c.given = given
    BY <2>1, <2>2, Asked
  <2>4. UNCHANGED <<user, member, asked, demoted, overtaken>>
    BY <1>1 DEF Ask
  <2> QED BY <2>1, <2>3, <2>4
<1>2. ASSUME NEW r \in Commands, NEW actor \in People, NEW target \in People, NEW u \in Updates,
             Ask(r, actor, "update", target, u)
      PROVE  /\ UNCHANGED <<user, member, asked, demoted, overtaken>>
             /\ \E c \in Issued : /\ command' = [command EXCEPT ![r] = c] /\ c.step = "guard"
                                  /\ c.kind = "create" => c.given.roles \in RoleSets
  <2>1. u \in [status : Status \cup {Unchanged}, roles : SUBSET Roles]
    BY DEF Updates, RoleSets
  <2>2. PICK c \in Issued : /\ command' = [command EXCEPT ![r] = c]
                            /\ c.step = "guard" /\ c.kind = "update" /\ c.given = u
    BY <1>2, <2>1, Asked
  <2>3. UNCHANGED <<user, member, asked, demoted, overtaken>>
    BY <1>2 DEF Ask
  <2> QED BY <2>2, <2>3
<1>3. \A r \in Commands : Passing(r) => UNCHANGED <<user, member, asked, demoted, overtaken>>
  BY DEF Passing, Admit, CheckMembership, CreateFails, BeginUpdate, Retry
<1>4. PICK r \in Commands :
        \/ \E actor, target \in People, roles \in RoleSets :
             Ask(r, actor, "create", target, [status |-> Unchanged, roles |-> roles])
        \/ \E actor, target \in People, u \in Updates : Ask(r, actor, "update", target, u)
        \/ Effect(r) \/ Passing(r)
  BY DEF MembersNext, Effect, Passing
<1>5. CASE Effect(r)
  BY <1>5
<1>6. CASE Passing(r)
  BY <1>3, <1>6
<1>7. CASE \E actor, target \in People, roles \in RoleSets :
             Ask(r, actor, "create", target, [status |-> Unchanged, roles |-> roles])
  BY <1>1, <1>7
<1>8. CASE \E actor, target \in People, u \in Updates : Ask(r, actor, "update", target, u)
  BY <1>2, <1>8
<1> QED BY <1>4, <1>5, <1>6, <1>7, <1>8

LEMMA RequestsStep == IInv /\ [MembersNext]_memberVars => command' \in [Commands -> Issued \cup {NoCommand}] /\ Admitted'
<1> SUFFICES ASSUME IInv, [MembersNext]_memberVars
             PROVE  command' \in [Commands -> Issued \cup {NoCommand}] /\ Admitted'
  OBVIOUS
<1>0. Types /\ Admitted /\ Whole /\ command \in [Commands -> Issued \cup {NoCommand}]
  BY DEF IInv, Types
<1>1. CASE UNCHANGED memberVars
  BY <1>0, <1>1 DEF memberVars, Admitted, Allowed, IsMember
\* A member stays one.
<1>2. ASSUME NEW p \in People, IsMember(p), MembersNext PROVE member'[p].status # "NONE"
  <2>1. PICK r \in Commands : member' = member \/ Create(r) \/ Update(r)
    BY <1>0, <1>2, KindsOfStep DEF Effect
  <2>2. member[p].status # "NONE" /\ member \in [People -> Rows]
    BY <1>0, <1>2 DEF IsMember, Types
  <2>3. CASE Create(r)
    BY <1>0, <1>2, <2>2, <2>3, CreateEffect
  <2>4. CASE Update(r)
    <3>1. \E row \in Rows : /\ row.status \in Status
                            /\ member' = [member EXCEPT ![command[r].target] = row]
      BY <1>0, <2>4, UpdateEffect
    <3> QED BY <2>2, <3>1 DEF Status
  <2> QED BY <2>1, <2>2, <2>3, <2>4
<1>3. ASSUME NEW r \in Commands, NEW c \in Issued, MembersNext, command' = [command EXCEPT ![r] = c],
             c.kind = "create" => c.given.roles \in RoleSets,
             c.step \in {"check", "create"} => c.kind = "create",
             c.step = "write" => ~(c.target = c.actor /\ c.given.status = "INACTIVE") /\ member'[c.target].status # "NONE"
      PROVE  command' \in [Commands -> Issued \cup {NoCommand}] /\ Admitted'
  <2>1. command' \in [Commands -> Issued \cup {NoCommand}]
    BY <1>0, <1>3
  <2>2. ASSUME NEW q \in Commands, command'[q] \in Issued
        PROVE  /\ command'[q].kind = "create" => command'[q].given.roles \in RoleSets
               /\ command'[q].step \in {"check", "create"} => command'[q].kind = "create"
               /\ command'[q].step = "write" =>
                    /\ ~(command'[q].target = command'[q].actor /\ command'[q].given.status = "INACTIVE")
                    /\ member'[command'[q].target].status # "NONE"
    <3>1. CASE q = r
      BY <1>0, <1>3, <3>1
    <3>2. CASE q # r
      <4>1. command'[q] = command[q]
        BY <1>0, <1>3, <3>2
      <4>2. command[q].target \in People
        BY <2>2, <4>1 DEF Issued
      <4> QED BY <1>0, <1>2, <1>3, <2>2, <4>1, <4>2 DEF Admitted, Allowed
    <3> QED BY <3>1, <3>2
  <2> QED BY <2>1, <2>2 DEF Admitted, Allowed, IsMember
<1>4. ASSUME NEW r \in Commands, Effect(r) \/ Passing(r), MembersNext
      PROVE  command' \in [Commands -> Issued \cup {NoCommand}] /\ Admitted'
  <2>1. command[r] \in Issued
    BY <1>0, <1>4, StepOfRequest
  <2>2. PICK c \in Issued : /\ command' = [command EXCEPT ![r] = c] /\ Goes(command[r], c)
                            /\ c.step \in {"check", "create"} =>
                                 command[r].step = "check" \/ command[r].kind = "create"
                            /\ c.step = "write" =>
                                 Allowed(r) /\ IsMember(command[r].target) /\ UNCHANGED member
    BY <1>0, <1>4, StepOfRequest
  <2>3. /\ c.kind = "create" => c.given.roles \in RoleSets
        /\ c.step \in {"check", "create"} => c.kind = "create"
    BY <1>0, <2>1, <2>2 DEF Admitted, Goes
  <2>4. c.step = "write" => ~(c.target = c.actor /\ c.given.status = "INACTIVE") /\ member'[c.target].status # "NONE"
    <3>1. c.target = command[r].target /\ c.actor = command[r].actor /\ c.given = command[r].given
      BY <2>2 DEF Goes
    <3>2. c.step = "write" => Allowed(r) /\ IsMember(command[r].target) /\ member' = member
      BY <2>2
    <3> QED BY <3>1, <3>2 DEF Allowed, IsMember
  <2>5. command' = [command EXCEPT ![r] = c]
    BY <2>2
  <2> QED BY <1>3, <1>4, <2>3, <2>4, <2>5
<1>5. ASSUME NEW r \in Commands, NEW c \in Issued, MembersNext, command' = [command EXCEPT ![r] = c],
             c.step = "guard", c.kind = "create" => c.given.roles \in RoleSets
      PROVE  command' \in [Commands -> Issued \cup {NoCommand}] /\ Admitted'
  BY <1>3, <1>5
<1> QED BY <1>0, <1>1, <1>4, <1>5, KindsOfStep

LEMMA RowsStep == RolesAssumption /\ PeopleAssumption /\ IInv /\ [MembersNext]_memberVars =>
                    (Whole /\ RolesAreAsLastAsked /\ ManagerRemains)' /\ PasswordsAreKept
                      /\ member' \in [People -> Rows] /\ asked' \in [People -> SUBSET Roles]
                      /\ user' \in [People -> Commands \cup {NoOne, "before"}]
                      /\ demoted' \in BOOLEAN /\ overtaken' \in BOOLEAN
<1> SUFFICES ASSUME RolesAssumption, PeopleAssumption, IInv, [MembersNext]_memberVars
             PROVE  (Whole /\ RolesAreAsLastAsked /\ ManagerRemains)' /\ PasswordsAreKept
                      /\ member' \in [People -> Rows] /\ asked' \in [People -> SUBSET Roles]
                      /\ user' \in [People -> Commands \cup {NoOne, "before"}]
                      /\ demoted' \in BOOLEAN /\ overtaken' \in BOOLEAN
  OBVIOUS
<1> DEFINE Goal == /\ (Whole /\ RolesAreAsLastAsked /\ ManagerRemains)' /\ PasswordsAreKept
                   /\ member' \in [People -> Rows] /\ asked' \in [People -> SUBSET Roles]
                   /\ user' \in [People -> Commands \cup {NoOne, "before"}]
                   /\ demoted' \in BOOLEAN /\ overtaken' \in BOOLEAN
<1>0. /\ Types /\ Admitted /\ Whole /\ RolesAreAsLastAsked /\ ManagerRemains
      /\ user \in [People -> Commands \cup {NoOne, "before"}]
      /\ member \in [People -> Rows] /\ asked \in [People -> SUBSET Roles]
      /\ demoted \in BOOLEAN /\ overtaken \in BOOLEAN
  BY DEF IInv, Types
<1>1. ASSUME UNCHANGED <<user, member, asked, demoted, overtaken>> PROVE Goal
  BY <1>0, <1>1 DEF Whole, RolesAreAsLastAsked, ManagerRemains, Manages, PasswordsAreKept
<1>2. ASSUME NEW p \in People, NEW row \in Rows, NEW r \in Commands,
             row.status \in Status, row.roles \in RoleSets,
             user' = [user EXCEPT ![p] = user'[p]], user'[p] # NoOne, user[p] # NoOne => user'[p] = user[p],
             user'[p] \in Commands \cup {NoOne, "before"},
             member' = [member EXCEPT ![p] = row], asked' = [asked EXCEPT ![p] = row.roles],
             command[r].actor \in People,
             p = command[r].actor => row.status = "ACTIVE" \/ row.status = member[p].status,
             p = command[r].actor => row.roles = member[p].roles \/ row.roles \cap Managing # {} \/ demoted' \/ ~Manages(p),
             Overtaken(r), demoted => demoted', demoted' \in BOOLEAN
      PROVE  Goal
  <2>1. member' \in [People -> Rows] /\ asked' \in [People -> SUBSET Roles] /\ overtaken' \in BOOLEAN
    BY <1>0, <1>2 DEF Overtaken, RoleSets
  <2>2. Whole' /\ RolesAreAsLastAsked' /\ PasswordsAreKept
    BY <1>0, <1>2 DEF Whole, RolesAreAsLastAsked, PasswordsAreKept
  <2>3. user' \in [People -> Commands \cup {NoOne, "before"}]
    BY <1>0, <1>2
  <2> DEFINE a == command[r].actor
  <2>4. a \in People /\ member'[p] = row /\ (a # p => member'[a] = member[a])
    BY <1>0, <1>2
  <2>5. overtaken' \/ (member[a].status = "ACTIVE" /\ member[a].roles \cap Managing # {})
    BY <1>2 DEF Overtaken, Manages
  <2>6. \/ overtaken' \/ demoted'
        \/ member'[a].status = "ACTIVE" /\ member'[a].roles \cap Managing # {}
    <3>1. CASE a # p
      BY <2>4, <2>5, <3>1
    <3>2. CASE a = p
      BY <1>2, <2>4, <2>5, <3>2 DEF Manages
    <3> QED BY <3>1, <3>2
  <2> HIDE DEF a
  <2>7. ManagerRemains'
    BY <2>4, <2>6 DEF ManagerRemains, Manages
  <2> QED BY <1>2, <2>1, <2>2, <2>3, <2>7
<1>3. ASSUME NEW r \in Commands, Create(r) PROVE Goal
  <2> DEFINE p == command[r].target
             row == [status |-> "ACTIVE", roles |-> command[r].given.roles]
  <2>1. /\ p \in People /\ command[r].actor \in People
        /\ user' = [user EXCEPT ![p] = PasswordOf(p, r)]
        /\ command[r].given.roles \in RoleSets
        /\ member' = [member EXCEPT ![p] = row]
        /\ asked' = [asked EXCEPT ![p] = command[r].given.roles]
        /\ Overtaken(r) /\ demoted' = demoted
    BY <1>0, <1>3, CreateEffect
  <2>2. row.status \in Status /\ row.roles = command[r].given.roles /\ row.status = "ACTIVE"
    BY DEF Status
  <2>3. row \in Rows
    BY <2>1 DEF Rows, RoleSets, Status
  <2>4. PasswordOf(p, r) # NoOne /\ PasswordOf(p, r) \in Commands \cup {NoOne, "before"}
        /\ (user[p] # NoOne => PasswordOf(p, r) = user[p])
    BY <1>0, <2>1 DEF PasswordOf, PeopleAssumption
  <2>5. user'[p] = PasswordOf(p, r)
    BY <1>0, <2>1
  <2>6. demoted' \in BOOLEAN
    BY <1>0, <2>1
  <2>7. p = command[r].actor => \/ row.roles \cap Managing # {} \/ row.roles = member[p].roles
                                \/ ~Manages(p)
    BY <1>0, <1>3, <2>1, CreateEffect DEF Manages, IsMember
  <2>9. user' = [user EXCEPT ![p] = user'[p]]
    BY <2>1, <2>5
  <2>10. demoted => demoted'
    BY <2>1
  <2>11. member' = [member EXCEPT ![p] = row] /\ asked' = [asked EXCEPT ![p] = row.roles]
         /\ Overtaken(r) /\ command[r].actor \in People /\ p \in People
    BY <2>1, <2>2
  <2>12. row.status \in Status /\ row.roles \in RoleSets
    BY <2>1, <2>2
  <2>13. user'[p] # NoOne /\ (user[p] # NoOne => user'[p] = user[p]) /\ user'[p] \in Commands \cup {NoOne, "before"}
    BY <2>4, <2>5
  <2>14. p = command[r].actor => row.status = "ACTIVE" \/ row.status = member[p].status
    BY <2>2
  <2> HIDE DEF row, p, Goal
  <2> QED BY <1>2, <2>3, <2>6, <2>7, <2>9, <2>10, <2>11, <2>12, <2>13, <2>14
<1>4. ASSUME NEW r \in Commands, Update(r) PROVE Goal
  <2> DEFINE p == command[r].target
             given == command[r].given
             row == [status |-> IF given.status = Unchanged THEN member[p].status ELSE given.status,
                     roles |-> IF given.roles = {} THEN member[p].roles ELSE given.roles]
  <2>1. /\ p \in People /\ IsMember(p) /\ Allowed(r) /\ command[r].actor \in People
        /\ given.status \in Status \cup {Unchanged} /\ given.roles \in SUBSET Roles
        /\ user' = user
        /\ member' = [member EXCEPT ![p] = row] /\ row \in Rows
        /\ row.status \in Status /\ row.roles \in RoleSets
        /\ asked' = [asked EXCEPT ![p] = IF given.roles = {} THEN asked[p] ELSE given.roles]
        /\ Overtaken(r) /\ demoted' = (demoted \/ GivesUp(r))
    BY <1>0, <1>4, UpdateEffect
  <2>2. asked' = [asked EXCEPT ![p] = row.roles]
    BY <1>0, <2>1 DEF RolesAreAsLastAsked
  <2>3. user[p] # NoOne /\ user[p] \in Commands \cup {NoOne, "before"}
        /\ user' = [user EXCEPT ![p] = user'[p]] /\ user'[p] = user[p]
    BY <1>0, <2>1 DEF Whole, IsMember, NoMember
  <2>4. p = command[r].actor => row.status = "ACTIVE" \/ row.status = member[p].status
    BY <2>1 DEF Allowed, Status
  <2>5. demoted' \in BOOLEAN /\ (demoted => demoted')
    BY <1>0, <2>1
  <2>6. p = command[r].actor => row.roles = member[p].roles \/ row.roles \cap Managing # {} \/ demoted'
    <3>1. CASE given.roles = {}
      BY <3>1
    <3>2. CASE given.roles # {}
      BY <2>1, <3>2 DEF GivesUp
    <3> QED BY <3>1, <3>2
  <2> HIDE DEF row, p, given, Goal
  <2> QED BY <1>2, <2>1, <2>2, <2>3, <2>4, <2>5, <2>6
<1> HIDE DEF Goal
<1>5. Goal
  <2>1. CASE UNCHANGED memberVars
    BY <1>1, <2>1 DEF memberVars
  <2>2. CASE MembersNext
    <3>1. \/ \E r \in Commands : Create(r) \/ Update(r)
          \/ UNCHANGED <<user, member, asked, demoted, overtaken>>
      BY <1>0, <2>2, KindsOfStep DEF Effect
    <3> QED BY <1>1, <1>3, <1>4, <3>1
  <2> QED BY <2>1, <2>2
<1> QED BY <1>5 DEF Goal

LEMMA Initially == RolesAssumption /\ PeopleAssumption /\ MembersInit => IInv
<1> SUFFICES ASSUME RolesAssumption, PeopleAssumption, MembersInit PROVE IInv
  OBVIOUS
<1>1. PICK owner \in People, others \in SUBSET People :
        /\ user = [p \in People |-> IF p \in others \cup {owner} THEN "before" ELSE NoOne]
        /\ member = [p \in People |-> IF p = owner THEN [status |-> "ACTIVE", roles |-> Managing]
                                       ELSE NoMember]
  BY DEF MembersInit
<1> DEFINE row == [status |-> "ACTIVE", roles |-> Managing]
<1>2. row \in Rows /\ NoMember \in Rows /\ row.status = "ACTIVE" /\ row.roles = Managing
  BY DEF Rows, NoMember, RolesAssumption, Status
<1>3. member = [p \in People |-> IF p = owner THEN row ELSE NoMember]
  BY <1>1
<1> HIDE DEF row
<1>4. Types
  <2>1. user \in [People -> Commands \cup {NoOne, "before"}]
    BY <1>1
  <2>2. member \in [People -> Rows]
    BY <1>2, <1>3
  <2>3. \A p \in People : member[p].roles \in SUBSET Roles
    BY <2>2 DEF Rows
  <2>4. asked \in [People -> SUBSET Roles]
    BY <2>3 DEF MembersInit
  <2> QED BY <2>1, <2>2, <2>4 DEF MembersInit, Types
<1>5. Admitted
  BY DEF MembersInit, Admitted, NoCommand, Issued
<1>6. Managing \in RoleSets /\ "ACTIVE" \in Status
  BY DEF RolesAssumption, RoleSets, Status
<1>7. Whole
  BY <1>1, <1>2, <1>3, <1>6 DEF Whole, PeopleAssumption
<1>8. RolesAreAsLastAsked
  BY DEF MembersInit, RolesAreAsLastAsked
<1>9. ManagerRemains
  BY <1>2, <1>3 DEF ManagerRemains, Manages, RolesAssumption
<1> QED BY <1>4, <1>5, <1>7, <1>8, <1>9 DEF IInv

LEMMA Preserved == RolesAssumption /\ PeopleAssumption /\ IInv /\ [MembersNext]_memberVars => IInv'
BY RequestsStep, RowsStep DEF IInv, Types

\* Every member always has a user, a status and roles.
THEOREM MembersAreWhole == RolesAssumption /\ PeopleAssumption => (MembersSpec => []MembersTypeOK)
<1> SUFFICES ASSUME RolesAssumption, PeopleAssumption PROVE MembersSpec => []MembersTypeOK
  OBVIOUS
<1>1. IInv => MembersTypeOK
  BY DEF IInv, Types, Whole, MembersTypeOK, Issued, NoCommand, Steps
<1> QED BY <1>1, Initially, Preserved, PTL DEF MembersSpec

(***************************************************************************)
(* Whatever requests overlap, somebody can manage the members, unless the  *)
(* right was given up or a command overtaken: its actor managed when it    *)
(* took effect, and still does unless it gave that up.                     *)
(***************************************************************************)
THEOREM SomebodyManages == RolesAssumption /\ PeopleAssumption => (MembersSpec => []ManagerRemains)
<1> SUFFICES ASSUME RolesAssumption, PeopleAssumption PROVE MembersSpec => []ManagerRemains
  OBVIOUS
<1>1. IInv => ManagerRemains
  BY DEF IInv
<1> QED BY <1>1, Initially, Preserved, PTL DEF MembersSpec

\* The roles of a member are those of one request, however many change them at once.
THEOREM RolesAreNeverMixed == RolesAssumption /\ PeopleAssumption => (MembersSpec => []RolesAreAsLastAsked)
<1> SUFFICES ASSUME RolesAssumption, PeopleAssumption PROVE MembersSpec => []RolesAreAsLastAsked
  OBVIOUS
<1>1. IInv => RolesAreAsLastAsked
  BY DEF IInv
<1> QED BY <1>1, Initially, Preserved, PTL DEF MembersSpec

\* No command replaces the password of a user there already is.
THEOREM PasswordsStay == RolesAssumption /\ PeopleAssumption => (MembersSpec => [][PasswordsAreKept]_memberVars)
<1> SUFFICES ASSUME RolesAssumption, PeopleAssumption PROVE MembersSpec => [][PasswordsAreKept]_memberVars
  OBVIOUS
<1>1. IInv /\ [MembersNext]_memberVars => [PasswordsAreKept]_memberVars
  BY RowsStep
<1> QED BY <1>1, Initially, Preserved, PTL DEF MembersSpec

\* All that is checked of the members at every state: they are whole, somebody manages
\* them, and their roles are those somebody asked for last.
THEOREM MembersManaged == RolesAssumption /\ PeopleAssumption => (MembersSpec => []MembersAreManaged)
<1>1. MembersTypeOK /\ ManagerRemains /\ RolesAreAsLastAsked => MembersAreManaged
  BY DEF MembersAreManaged
<1> QED BY <1>1, MembersAreWhole, SomebodyManages, RolesAreNeverMixed, PTL

-----------------------------------------------------------------------------
(***************************************************************************)
(* Registration, for any number of requests, attempts and challenges.  The *)
(* invariant says how a challenge, an attempt and a mailed code belong     *)
(* together, and what a request under way was let through with.            *)
(***************************************************************************)
\* The rows of web_accounts and web_otp_challenges, and a request.
AccountRows == [exists : BOOLEAN, password : Nat, pending : Nat, attempt : Nat,
                verified : BOOLEAN, disabled : BOOLEAN]
ChallengeRows ==
  [state : {"none", "live", "purged"}, attempt : Nat, delivery : {"PENDING", "SENT", "FAILED"},
   expires : Stamp, resendAt : Stamp, consumed : Stamp, tries : 0 .. MaxTries, anchor : Nat]
CallSteps == {"idle", "register", "create", "resend", "send", "sent", "failed", "verify"}
CallRows == [step : CallSteps, attempt : Nat, requested : Nat, challenge : Nat, now : Time]

\* An address nobody registered has no challenges; of one that is not verified the
\* attempt is the one whose password is pending.
AccountAgrees ==
  /\ ~account.exists => ~account.verified /\ \A c \in Challenges : challenge[c].state = "none"
  /\ account.exists /\ ~account.verified => account.pending = account.attempt
OneActive ==
  /\ \A c, d \in Active : c = d
  /\ \A c \in Active : ~account.verified /\ challenge[c].attempt = account.attempt
\* What was never issued nobody holds; what is SENT was mailed; what was issued in
\* place of another is of the same attempt.
IssuedAgrees ==
  \A c \in Challenges :
    /\ challenge[c].state = "none" => challenge[c] = NoChallenge /\ c \notin held \cup mailed
    /\ challenge[c].delivery = "SENT" => c \in mailed
    /\ challenge[c].anchor # 0 => /\ challenge[c].anchor \in held
                                  /\ challenge[challenge[c].anchor].attempt = challenge[c].attempt

Recorded == /\ RegistrationTypeOK /\ AccountAgrees /\ OneActive /\ IssuedAgrees
            /\ VerifiedPasswordIsMailed

\* What a request k was let through with.
LetThrough(k) ==
  /\ k.step \in {"register", "create"} => k.attempt \in Attempts
  /\ k.step \in {"resend", "verify"} => k.requested \in held
  /\ k.step \in {"send", "sent", "failed"} => /\ k.challenge \in Challenges
                                              /\ challenge[k.challenge].state # "none"
  /\ k.step = "sent" => k.challenge \in mailed
CallsAgree == call \in [Calls -> CallRows] /\ \A r \in Calls : LetThrough(call[r])

\* What a customer holds or a provider mailed is not taken back.
Grows == /\ held \subseteq held' /\ mailed \subseteq mailed'
         /\ \A c \in Challenges : challenge[c].state # "none" => challenge'[c].state # "none"

LEMMA CallStep ==
    ASSUME CallsAgree, Grows, NEW r \in Calls, NEW k \in CallRows, call' = [call EXCEPT ![r] = k],
           LetThrough(k)'
    PROVE  CallsAgree'
<1>1. call' \in [Calls -> CallRows]
  BY DEF CallsAgree
<1>2. ASSUME NEW q \in Calls PROVE LetThrough(call[q])'
  <2>1. CASE q = r
    <3>1. call'[q] = k
      BY <2>1 DEF CallsAgree
    <3> QED BY <3>1 DEF LetThrough
  <2>2. CASE q # r
    <3>1. call'[q] = call[q] /\ LetThrough(call[q])
      BY <2>2 DEF CallsAgree
    <3> QED BY <3>1 DEF LetThrough, Grows
  <2> QED BY <2>1, <2>2
<1> QED BY <1>1, <1>2 DEF CallsAgree

LEMMA OthersCallsStay ==
    ASSUME CallsAgree, Grows, call' = call PROVE CallsAgree'
BY DEF CallsAgree, LetThrough, Grows

LEMMA RecordedStays ==
    ASSUME Recorded, UNCHANGED <<account, challenge, clock, held, mailed, verifiedBy>>
    PROVE  Recorded' /\ Grows
<1>1. account' = account /\ challenge' = challenge /\ clock' = clock /\ held' = held /\ mailed' = mailed
      /\ verifiedBy' = verifiedBy
  OBVIOUS
<1>2. RegistrationTypeOK' /\ AccountAgrees' /\ IssuedAgrees' /\ VerifiedPasswordIsMailed'
  BY <1>1 DEF Recorded, RegistrationTypeOK, AccountAgrees, IssuedAgrees, VerifiedPasswordIsMailed
<1>3. OneActive'
  BY <1>1 DEF Recorded, OneActive, Active, Live
<1>4. Grows
  BY <1>1 DEF Grows
<1> QED BY <1>2, <1>3, <1>4 DEF Recorded

\* Steps that only change what a request is doing.
LEMMA CallOnlyStep ==
    ASSUME Recorded, CallsAgree, NEW r \in Calls, NEW k \in CallRows, call' = [call EXCEPT ![r] = k],
           LetThrough(k), UNCHANGED <<account, challenge, clock, held, mailed, verifiedBy>>
    PROVE  Recorded' /\ CallsAgree'
<1>1. Recorded' /\ Grows
  BY RecordedStays
<1>2. LetThrough(k)'
  BY DEF LetThrough
<1> QED BY <1>1, <1>2, CallStep

LEMMA NoCallIsRow == RegistrationAssumption => NoCall \in CallRows /\ LetThrough(NoCall)
  BY DEF RegistrationAssumption, NoCall, CallRows, CallSteps, Time, LetThrough

LEMMA FirstIsUnissued == ASSUME RegistrationAssumption, Unissued # {} PROVE FirstOf(Unissued) \in Unissued
<1>1. Unissued \subseteq Nat
  BY DEF RegistrationAssumption, Unissued
<1>2. \E c \in Unissued : \A d \in Unissued : c <= d
  <2>1. PICK c \in Unissued : \A d \in Unissued : <<d, c>> \notin OpToRel(<, Nat)
    <3>1. IsWellFoundedOn(OpToRel(<, Nat), Nat)
      BY NatLessThanWellFounded
    <3> QED BY <1>1, <3>1, WFMin
  <2>2. \A d \in Unissued : ~(d < c)
    BY <1>1, <2>1 DEF OpToRel
  <2> QED BY <1>1, <2>2
<1> QED BY <1>2 DEF FirstOf

LEMMA StepOfCall ==
    ASSUME RegistrationAssumption, CallsAgree, NEW r \in Calls, NEW step \in CallSteps
    PROVE  /\ [call[r] EXCEPT !.step = step] \in CallRows
           /\ [call EXCEPT ![r].step = step] = [call EXCEPT ![r] = [call[r] EXCEPT !.step = step]]
BY DEF CallsAgree, CallRows

\* A challenge is issued for the attempt the account then has, in place of the one
\* that was active.
LEMMA IssueStep ==
    ASSUME RegistrationAssumption, Recorded, CallsAgree, NEW r \in Calls, NEW attempt \in Nat, NEW anchor \in Nat,
           anchor # 0 => anchor \in held /\ challenge[anchor].attempt = attempt,
           IssueNext(r, attempt, anchor),
           account' \in AccountRows, account'.exists, ~account'.verified,
           account'.attempt = attempt, account'.pending = attempt,
           UNCHANGED <<clock, held, mailed, verifiedBy>>
    PROVE  Recorded' /\ CallsAgree'
<1> DEFINE n == FirstOf(Unissued)
           now == call[r].now
<1>1. /\ n \in Challenges /\ challenge[n].state = "none"
      /\ challenge' = IssuedChallenge(attempt, anchor, now)
      /\ call' = [call EXCEPT ![r].step = "send", ![r].challenge = n]
      /\ now \in Time /\ call[r] \in CallRows
  <2>1. Unissued # {}
    BY DEF IssueNext
  <2>2. n \in Unissued
    BY <2>1, FirstIsUnissued
  <2>3. call[r] \in CallRows
    BY DEF CallsAgree
  <2> QED BY <2>2, <2>3 DEF IssueNext, Unissued, CallRows
<1>2. /\ challenge \in [Challenges -> ChallengeRows] /\ held \subseteq Challenges /\ mailed \subseteq Challenges
      /\ clock \in Time /\ \A c \in Challenges : c # 0
      /\ held' = held /\ mailed' = mailed /\ clock' = clock
  BY DEF Recorded, RegistrationTypeOK, ChallengeRows, RegistrationAssumption
<1>3. now \in Nat /\ now # Never /\ now \in Stamp /\ Never \in Stamp /\ now + CodeTtl \in Stamp /\ now + Cooldown \in Stamp
  BY <1>1 DEF Time, Stamp, Never, RegistrationAssumption
<1>4. /\ challenge'[n] = NewChallenge(attempt, anchor, now)
      /\ \A c \in Active : c # n => challenge'[c] = [challenge[c] EXCEPT !.consumed = now]
      /\ \A c \in Challenges \ Active : c # n => challenge'[c] = challenge[c]
      /\ challenge' = [c \in Challenges |-> challenge'[c]]
      /\ Active \subseteq Challenges
  <2>1. challenge' = [c \in Challenges |->
            IF c = n THEN NewChallenge(attempt, anchor, now)
            ELSE IF c \in Active THEN [challenge[c] EXCEPT !.consumed = now] ELSE challenge[c]]
    BY <1>1 DEF IssuedChallenge
  <2> HIDE DEF n, now
  <2> QED BY <1>1, <2>1 DEF Active
<1> HIDE DEF n, now
<1>5. /\ challenge'[n] \in ChallengeRows /\ challenge'[n].state = "live" /\ challenge'[n].attempt = attempt
      /\ challenge'[n].delivery = "PENDING" /\ challenge'[n].anchor = anchor
      /\ challenge'[n].consumed = Never
  <2>1. 0 \in 0 .. MaxTries
    BY DEF RegistrationAssumption
  <2> QED BY <1>3, <1>4, <2>1 DEF NewChallenge, ChallengeRows
<1>6. ASSUME NEW c \in Challenges, c # n
      PROVE  /\ challenge'[c] \in ChallengeRows
             /\ challenge'[c].state = challenge[c].state /\ challenge'[c].attempt = challenge[c].attempt
             /\ challenge'[c].delivery = challenge[c].delivery /\ challenge'[c].anchor = challenge[c].anchor
             /\ challenge[c].state = "none" => challenge'[c] = challenge[c]
             /\ ~(challenge'[c].state = "live" /\ challenge'[c].consumed = Never)
  <2>1. challenge[c] \in ChallengeRows
    BY <1>2
  <2>2. CASE c \in Active
    <3>1. challenge'[c] = [challenge[c] EXCEPT !.consumed = now] /\ challenge[c].state = "live"
      BY <1>4, <1>6, <2>2 DEF Active, Live
    <3> QED BY <1>3, <2>1, <3>1 DEF ChallengeRows
  <2>3. CASE c \notin Active
    <3>1. challenge'[c] = challenge[c]
      BY <1>4, <1>6, <2>3
    <3> QED BY <2>1, <2>3, <3>1 DEF Active, Live
  <2> QED BY <2>2, <2>3
<1>7. RegistrationTypeOK'
  <2>1. challenge' \in [Challenges -> ChallengeRows]
    BY <1>4, <1>5, <1>6
  <2> QED BY <1>2, <2>1 DEF RegistrationTypeOK, ChallengeRows, AccountRows
<1>8. AccountAgrees' /\ VerifiedPasswordIsMailed'
  BY DEF AccountAgrees, VerifiedPasswordIsMailed
<1>9. OneActive'
  <2>1. ASSUME NEW c \in Challenges, challenge'[c].state = "live", challenge'[c].consumed = Never PROVE c = n
    BY <1>6, <2>1
  <2> QED BY <1>5, <2>1 DEF OneActive, Active, Live
<1>10. IssuedAgrees'
  <2>1. ASSUME NEW c \in Challenges
        PROVE  /\ challenge'[c].state = "none" => challenge'[c] = NoChallenge /\ c \notin held \cup mailed
               /\ challenge'[c].delivery = "SENT" => c \in mailed
               /\ challenge'[c].anchor # 0 => /\ challenge'[c].anchor \in held
                                              /\ challenge'[challenge'[c].anchor].attempt = challenge'[c].attempt
    <3>1. n \notin held /\ \A h \in held : challenge'[h].attempt = challenge[h].attempt
      <4>1. n \notin held
        BY <1>1 DEF Recorded, IssuedAgrees
      <4> QED BY <1>2, <1>6, <4>1
    <3>2. CASE c = n
      BY <1>5, <3>1, <3>2
    <3>3. CASE c # n
      <4>1. /\ challenge[c].state = "none" => challenge[c] = NoChallenge /\ c \notin held \cup mailed
            /\ challenge[c].delivery = "SENT" => c \in mailed
            /\ challenge[c].anchor # 0 => /\ challenge[c].anchor \in held
                                          /\ challenge[challenge[c].anchor].attempt = challenge[c].attempt
        BY DEF Recorded, IssuedAgrees
      <4>2. /\ challenge'[c].state = challenge[c].state /\ challenge'[c].attempt = challenge[c].attempt
            /\ challenge'[c].delivery = challenge[c].delivery /\ challenge'[c].anchor = challenge[c].anchor
            /\ challenge[c].state = "none" => challenge'[c] = challenge[c]
        BY <1>6, <3>3
      <4> QED BY <3>1, <4>1, <4>2
    <3> QED BY <3>2, <3>3
  <2> QED BY <1>2, <2>1 DEF IssuedAgrees
<1>11. CallsAgree'
  <2>1. [call[r] EXCEPT !.step = "send", !.challenge = n] \in CallRows
    <3>1. n \in Nat
      BY <1>1 DEF RegistrationAssumption
    <3> QED BY <1>1, <3>1 DEF CallRows, CallSteps
  <2>2. PICK k \in CallRows : /\ call' = [call EXCEPT ![r] = k] /\ k.step = "send" /\ k.challenge = n
    <3>1. call' = [call EXCEPT ![r] = [call[r] EXCEPT !.step = "send", !.challenge = n]]
      BY <1>1 DEF CallsAgree
    <3> QED BY <1>1, <2>1, <3>1 DEF CallRows
  <2>3. Grows
    <3>1. \A c \in Challenges : challenge[c].state # "none" => challenge'[c].state # "none"
      BY <1>5, <1>6
    <3> QED BY <1>2, <3>1 DEF Grows
  <2>4. LetThrough(k)'
    BY <1>1, <1>5, <2>2 DEF LetThrough
  <2> QED BY <2>2, <2>3, <2>4, CallStep
<1> QED BY <1>7, <1>8, <1>9, <1>10, <1>11 DEF Recorded

LEMMA RegisterAgainStep ==
    ASSUME RegistrationAssumption, Recorded, CallsAgree, NEW r \in Calls, RegisterAgain(r)
    PROVE  Recorded' /\ CallsAgree'
<1>1. NoCall \in CallRows /\ LetThrough(NoCall)
  BY NoCallIsRow
<1> DEFINE a == call[r].attempt
           soon == TooSoon(call[r].now)
<1>2. a \in Nat /\ account \in AccountRows /\ account.exists
  <2>1. a \in Attempts
    BY DEF RegisterAgain, CallsAgree, LetThrough
  <2> QED BY <2>1 DEF RegisterAgain, Recorded, RegistrationTypeOK, AccountRows, RegistrationAssumption
<1>3. CASE RegisterRefused \/ soon
  <2>1. /\ call' = [call EXCEPT ![r] = NoCall]
        /\ UNCHANGED <<account, challenge, clock, held, mailed, verifiedBy>>
    BY <1>3 DEF RegisterAgain, Renewed, Done
  <2> QED BY <1>1, <2>1, CallOnlyStep
<1>4. CASE ~RegisterRefused /\ ~soon
  <2>1. /\ account' = [account EXCEPT !.pending = a, !.attempt = a] /\ IssueNext(r, a, 0)
        /\ UNCHANGED <<clock, held, mailed, verifiedBy>> /\ ~account.verified
    BY <1>4 DEF RegisterAgain, Renewed, RegisterRefused, Closed
  <2> HIDE DEF a
  <2>2. /\ account' \in AccountRows /\ account'.exists /\ ~account'.verified
        /\ account'.attempt = a /\ account'.pending = a
    BY <1>2, <2>1 DEF AccountRows
  <2> QED BY <1>2, <2>1, <2>2, IssueStep
<1> QED BY <1>3, <1>4

LEMMA CreateAccountStep ==
    ASSUME RegistrationAssumption, Recorded, CallsAgree, NEW r \in Calls, CreateAccount(r)
    PROVE  Recorded' /\ CallsAgree'
<1>1. NoCall \in CallRows /\ LetThrough(NoCall)
  BY NoCallIsRow
<1> DEFINE a == call[r].attempt
<1>2. a \in Nat
  <2>1. a \in Attempts
    BY DEF CreateAccount, CallsAgree, LetThrough
  <2> QED BY <2>1 DEF RegistrationAssumption
<1>3. CASE account.exists
  <2>1. /\ call' = [call EXCEPT ![r] = NoCall]
        /\ UNCHANGED <<account, challenge, clock, held, mailed, verifiedBy>>
    BY <1>3 DEF CreateAccount, Done
  <2> QED BY <1>1, <2>1, CallOnlyStep
<1>4. CASE ~account.exists
  <2>1. /\ account' = [NoAccount EXCEPT !.exists = TRUE, !.password = a, !.pending = a, !.attempt = a]
        /\ IssueNext(r, a, 0) /\ UNCHANGED <<clock, held, mailed, verifiedBy>>
    BY <1>4 DEF CreateAccount
  <2> HIDE DEF a
  <2>2. /\ account' \in AccountRows /\ account'.exists /\ ~account'.verified
        /\ account'.attempt = a /\ account'.pending = a
    BY <1>2, <2>1 DEF AccountRows, NoAccount
  <2> QED BY <1>2, <2>1, <2>2, IssueStep
<1> QED BY <1>3, <1>4

LEMMA ResendStep ==
    ASSUME RegistrationAssumption, Recorded, CallsAgree, NEW r \in Calls, Resend(r)
    PROVE  Recorded' /\ CallsAgree'
<1>1. NoCall \in CallRows /\ LetThrough(NoCall)
  BY NoCallIsRow
<1> DEFINE c == call[r].requested
<1>2. CASE ~MayResend(c) \/ TooSoon(call[r].now)
  <2>1. /\ call' = [call EXCEPT ![r] = NoCall]
        /\ UNCHANGED <<account, challenge, clock, held, mailed, verifiedBy>>
    BY <1>2 DEF Resend, Done
  <2> QED BY <1>1, <2>1, CallOnlyStep
<1>3. CASE MayResend(c) /\ ~TooSoon(call[r].now)
  <2>1. IssueNext(r, account.attempt, c) /\ UNCHANGED <<account, clock, held, mailed, verifiedBy>>
    BY <1>3 DEF Resend, Anchor
  <2>2. c \in held /\ challenge[c].attempt = account.attempt /\ ~account.verified /\ challenge[c].state # "none"
    BY <1>3 DEF Resend, CallsAgree, LetThrough, MayResend, Closed, Live
  <2> HIDE DEF c
  <2>3. c \in Nat /\ c \in Challenges
    BY <2>2 DEF Recorded, RegistrationTypeOK, RegistrationAssumption
  <2>4. account \in AccountRows /\ account.attempt \in Nat
    BY DEF Recorded, RegistrationTypeOK, AccountRows
  <2>5. account.exists /\ account.pending = account.attempt
    BY <2>2, <2>3 DEF Recorded, AccountAgrees
  <2> QED BY <2>1, <2>2, <2>3, <2>4, <2>5, IssueStep
<1> QED BY <1>2, <1>3

\* One challenge changes: it stays of its attempt, and does not come back to life.
LEMMA ChallengeStep ==
    ASSUME RegistrationAssumption, Recorded, NEW c \in Challenges, NEW new \in ChallengeRows,
           challenge' = [challenge EXCEPT ![c] = new],
           new.state # "none", challenge[c].state # "none", new.attempt = challenge[c].attempt,
           new.anchor = challenge[c].anchor,
           new.state = "live" /\ new.consumed = Never => c \in Active,
           new.delivery = "SENT" => c \in mailed,
           account' = account, clock' \in Time, held \subseteq held', held' \subseteq Challenges,
           mailed' = mailed, verifiedBy' = verifiedBy, \A h \in held' : h \in held \/ h = c
    PROVE  Recorded' /\ Grows
<1>1. /\ challenge \in [Challenges -> ChallengeRows] /\ challenge'[c] = new
      /\ \A d \in Challenges : d # c => challenge'[d] = challenge[d]
  BY DEF Recorded, RegistrationTypeOK, ChallengeRows
<1>2. /\ \A d \in Challenges : /\ challenge'[d].attempt = challenge[d].attempt
                               /\ challenge'[d].anchor = challenge[d].anchor
                               /\ challenge'[d].state = "none" <=> challenge[d].state = "none"
                               /\ challenge'[d].delivery = "SENT" => d \in mailed
  BY <1>1 DEF Recorded, IssuedAgrees
<1>3. RegistrationTypeOK'
  <2>1. challenge' \in [Challenges -> ChallengeRows]
    BY <1>1
  <2> QED BY <2>1 DEF Recorded, RegistrationTypeOK, ChallengeRows
<1>4. AccountAgrees'
  BY <1>2 DEF Recorded, AccountAgrees
<1>5. OneActive'
  <2>1. \A d \in Challenges : challenge'[d].state = "live" /\ challenge'[d].consumed = Never => d \in Active
    BY <1>1 DEF Active, Live
  <2> QED BY <1>2, <2>1 DEF Recorded, OneActive, Active, Live
<1>6. IssuedAgrees'
  <2>1. ASSUME NEW d \in Challenges
        PROVE  /\ challenge'[d].state = "none" => challenge'[d] = NoChallenge /\ d \notin held' \cup mailed
               /\ challenge'[d].delivery = "SENT" => d \in mailed
               /\ challenge'[d].anchor # 0 => /\ challenge'[d].anchor \in held'
                                              /\ challenge'[challenge'[d].anchor].attempt = challenge'[d].attempt
    <3>1. challenge'[d].state = "none" => challenge'[d] = NoChallenge /\ d \notin held' \cup mailed
      BY <1>1, <1>2 DEF Recorded, IssuedAgrees
    <3>2. challenge'[d].anchor # 0 => /\ challenge'[d].anchor \in held'
                                      /\ challenge'[challenge'[d].anchor].attempt = challenge'[d].attempt
      <4>1. challenge[d].anchor # 0 => /\ challenge[d].anchor \in held
                                       /\ challenge[challenge[d].anchor].attempt = challenge[d].attempt
        BY DEF Recorded, IssuedAgrees
      <4>2. held \subseteq Challenges
        BY DEF Recorded, RegistrationTypeOK
      <4> QED BY <1>2, <4>1, <4>2
    <3> QED BY <1>2, <3>1, <3>2
  <2> QED BY <2>1 DEF IssuedAgrees
<1>7. VerifiedPasswordIsMailed'
  <2>1. mailed \subseteq Challenges
    BY DEF Recorded, RegistrationTypeOK
  <2> QED BY <1>2, <2>1 DEF Recorded, VerifiedPasswordIsMailed
<1>8. Grows
  BY <1>2 DEF Grows
<1> QED BY <1>3, <1>4, <1>5, <1>6, <1>7, <1>8 DEF Recorded

LEMMA SendStep ==
    ASSUME RegistrationAssumption, Recorded, CallsAgree, NEW r \in Calls, Send(r)
    PROVE  Recorded' /\ CallsAgree'
<1>1. PICK step \in {"sent", "failed"} :
        /\ call' = [call EXCEPT ![r].step = step]
        /\ mailed' = mailed \cup {call[r].challenge} \/ (mailed' = mailed /\ step = "failed")
  BY DEF Send, Continue
<1>2. /\ UNCHANGED <<account, challenge, clock, held, verifiedBy>>
      /\ call[r].challenge \in Challenges /\ challenge[call[r].challenge].state # "none"
      /\ step \in CallSteps
  BY <1>1 DEF Send, CallsAgree, LetThrough, CallSteps
<1>3. mailed \subseteq mailed' /\ mailed' \subseteq Challenges /\ \A c \in mailed' : challenge[c].state # "none"
  BY <1>1, <1>2 DEF Recorded, RegistrationTypeOK, IssuedAgrees
<1>4. Recorded'
  <2>1. RegistrationTypeOK' /\ AccountAgrees'
    BY <1>2, <1>3 DEF Recorded, RegistrationTypeOK, AccountAgrees
  <2>2. OneActive'
    BY <1>2 DEF Recorded, OneActive, Active, Live
  <2>3. IssuedAgrees' /\ VerifiedPasswordIsMailed'
    BY <1>2, <1>3 DEF Recorded, IssuedAgrees, VerifiedPasswordIsMailed
  <2> QED BY <2>1, <2>2, <2>3 DEF Recorded
<1>5. Grows
  BY <1>2, <1>3 DEF Grows
<1>6. PICK k \in CallRows : /\ k = [call[r] EXCEPT !.step = step] /\ call' = [call EXCEPT ![r] = k]
  BY <1>1, <1>2, StepOfCall
<1>7. k.step = step /\ k.challenge = call[r].challenge
  BY <1>6 DEF CallsAgree, CallRows
<1>8. LetThrough(k)'
  BY <1>1, <1>2, <1>7 DEF LetThrough
<1> QED BY <1>4, <1>5, <1>6, <1>8, CallStep

LEMMA MarkSentStep ==
    ASSUME RegistrationAssumption, Recorded, CallsAgree, NEW r \in Calls, MarkSent(r)
    PROVE  Recorded' /\ CallsAgree'
<1> DEFINE c == call[r].challenge
<1>1. /\ c \in Challenges /\ challenge[c].state # "none" /\ c \in mailed
      /\ UNCHANGED <<account, clock, mailed, verifiedBy>>
  BY DEF MarkSent, CallsAgree, LetThrough
<1>2. PICK k \in CallRows : call' = [call EXCEPT ![r] = k] /\
        \/ k = NoCall
        \/ k.step = "failed" /\ k.challenge = c
  <2>1. CASE Done(r)
    BY <2>1, NoCallIsRow DEF Done
  <2>2. CASE Continue(r, "failed")
    <3>1. "failed" \in CallSteps
      BY DEF CallSteps
    <3>2. [call[r] EXCEPT !.step = "failed"] \in CallRows
          /\ call' = [call EXCEPT ![r] = [call[r] EXCEPT !.step = "failed"]]
      BY <2>2, <3>1, StepOfCall DEF Continue
    <3>3. [call[r] EXCEPT !.step = "failed"].step = "failed"
          /\ [call[r] EXCEPT !.step = "failed"].challenge = c
      BY DEF CallsAgree, CallRows
    <3> QED BY <3>2, <3>3
  <2> QED BY <2>1, <2>2 DEF MarkSent
<1>3. Recorded' /\ Grows
  <2>1. CASE Undecided(c) /\ challenge[c].expires > clock
    <3> DEFINE new == [challenge[c] EXCEPT !.delivery = "SENT"]
    <3>1. challenge[c] \in ChallengeRows
      BY <1>1 DEF Recorded, RegistrationTypeOK, ChallengeRows
    <3>2. /\ new \in ChallengeRows /\ new.state = challenge[c].state /\ new.attempt = challenge[c].attempt
          /\ new.anchor = challenge[c].anchor /\ new.consumed = challenge[c].consumed
      BY <3>1 DEF ChallengeRows
    <3>3. challenge' = [challenge EXCEPT ![c] = new]
      BY <2>1, <3>1 DEF MarkSent
    <3>4. /\ account' = account /\ mailed' = mailed /\ verifiedBy' = verifiedBy /\ held \subseteq held'
          /\ held' \subseteq Challenges /\ clock' \in Time /\ \A h \in held' : h \in held \/ h = c
      BY <1>1 DEF MarkSent, Recorded, RegistrationTypeOK
    <3>5. c \in Active
      BY <1>1, <2>1 DEF Undecided, Active
    <3> HIDE DEF new, c
    <3> QED BY <1>1, <3>2, <3>3, <3>4, <3>5, ChallengeStep
  <2>2. CASE ~(Undecided(c) /\ challenge[c].expires > clock)
    <3>1. UNCHANGED <<account, challenge, clock, held, mailed, verifiedBy>>
      BY <1>1, <2>2 DEF MarkSent
    <3> QED BY <3>1, RecordedStays
  <2> QED BY <2>1, <2>2
<1>4. LetThrough(k)'
  <2>1. CASE k = NoCall
    BY <2>1 DEF LetThrough, NoCall
  <2>2. CASE k.step = "failed" /\ k.challenge = c
    BY <1>1, <1>3, <2>2 DEF LetThrough, Grows
  <2> QED BY <1>2, <2>1, <2>2
<1> QED BY <1>2, <1>3, <1>4, CallStep

LEMMA MarkFailedStep ==
    ASSUME RegistrationAssumption, Recorded, CallsAgree, NEW r \in Calls, MarkFailed(r)
    PROVE  Recorded' /\ CallsAgree'
<1> DEFINE c == call[r].challenge
<1>1. /\ c \in Challenges /\ challenge[c].state # "none"
      /\ UNCHANGED <<account, clock, held, mailed, verifiedBy>>
      /\ call' = [call EXCEPT ![r] = NoCall]
  BY DEF MarkFailed, CallsAgree, LetThrough, Done
<1>2. Recorded' /\ Grows
  <2>1. CASE Undecided(c)
    <3> DEFINE new == [challenge[c] EXCEPT !.delivery = "FAILED", !.resendAt = clock + RetryDelay]
    <3>1. challenge[c] \in ChallengeRows
      BY <1>1 DEF Recorded, RegistrationTypeOK, ChallengeRows
    <3>2. clock + RetryDelay \in Stamp
      <4>1. clock \in Nat /\ clock <= LastTime
        BY DEF Recorded, RegistrationTypeOK, Time, RegistrationAssumption
      <4> QED BY <4>1 DEF Stamp, Never, RegistrationAssumption
    <3>3. /\ new \in ChallengeRows /\ new.state = challenge[c].state /\ new.attempt = challenge[c].attempt
          /\ new.anchor = challenge[c].anchor /\ new.consumed = challenge[c].consumed
          /\ new.delivery = "FAILED"
      BY <3>1, <3>2 DEF ChallengeRows
    <3>4. challenge' = [challenge EXCEPT ![c] = new]
      BY <2>1, <3>1 DEF MarkFailed
    <3>5. /\ account' = account /\ mailed' = mailed /\ verifiedBy' = verifiedBy /\ held \subseteq held'
          /\ held' \subseteq Challenges /\ clock' \in Time /\ \A h \in held' : h \in held \/ h = c
      BY <1>1 DEF Recorded, RegistrationTypeOK
    <3>6. c \in Active
      BY <1>1, <2>1 DEF Undecided, Active
    <3> HIDE DEF new, c
    <3> QED BY <1>1, <3>3, <3>4, <3>5, <3>6, ChallengeStep
  <2>2. CASE ~Undecided(c)
    <3>1. UNCHANGED <<account, challenge, clock, held, mailed, verifiedBy>>
      BY <1>1, <2>2 DEF MarkFailed
    <3> QED BY <3>1, RecordedStays
  <2> QED BY <2>1, <2>2
<1>3. NoCall \in CallRows /\ LetThrough(NoCall)'
  BY NoCallIsRow DEF LetThrough, NoCall
<1> QED BY <1>1, <1>2, <1>3, CallStep

LEMMA VerifyStep ==
    ASSUME RegistrationAssumption, Recorded, CallsAgree, NEW r \in Calls, Verify(r)
    PROVE  Recorded' /\ CallsAgree'
<1> DEFINE c == call[r].requested
           now == call[r].now
<1>1. /\ c \in held /\ held \subseteq Challenges /\ c \in Challenges /\ now \in Time
      /\ UNCHANGED <<clock, held, mailed>> /\ call' = [call EXCEPT ![r] = NoCall]
  BY DEF Verify, CallsAgree, LetThrough, CallRows, Recorded, RegistrationTypeOK, Done
<1>2. challenge \in [Challenges -> ChallengeRows] /\ challenge[c] \in ChallengeRows
      /\ challenge[c].state # "none" /\ account \in AccountRows
  BY <1>1 DEF Recorded, RegistrationTypeOK, ChallengeRows, AccountRows, IssuedAgrees
<1>3. NoCall \in CallRows /\ LetThrough(NoCall)'
  BY NoCallIsRow DEF LetThrough, NoCall
<1>4. CASE UNCHANGED <<account, challenge, verifiedBy>>
  <2>1. UNCHANGED <<account, challenge, clock, held, mailed, verifiedBy>>
    BY <1>1, <1>4
  <2>2. Recorded' /\ Grows
    BY <2>1, RecordedStays
  <2> QED BY <1>1, <1>3, <2>2, CallStep
<1>5. CASE Verifiable(c, now) /\ challenge' = [challenge EXCEPT ![c].tries = @ + 1] /\ UNCHANGED <<account, verifiedBy>>
  <2> DEFINE new == [challenge[c] EXCEPT !.tries = @ + 1]
  <2>1. challenge[c].tries + 1 \in 0 .. MaxTries
    <3>1. challenge[c].tries \in 0 .. MaxTries /\ challenge[c].tries < MaxTries
      BY <1>2, <1>5 DEF ChallengeRows, Verifiable, Exhausted, RegistrationAssumption
    <3> QED BY <3>1 DEF RegistrationAssumption
  <2>2. /\ new \in ChallengeRows /\ new.state = challenge[c].state /\ new.attempt = challenge[c].attempt
        /\ new.anchor = challenge[c].anchor /\ new.consumed = challenge[c].consumed
        /\ new.delivery = challenge[c].delivery
    BY <1>2, <2>1 DEF ChallengeRows
  <2>3. challenge' = [challenge EXCEPT ![c] = new]
    BY <1>2, <1>5
  <2>4. /\ account' = account /\ mailed' = mailed /\ verifiedBy' = verifiedBy /\ held \subseteq held'
        /\ held' \subseteq Challenges /\ clock' \in Time /\ \A h \in held' : h \in held \/ h = c
    BY <1>1, <1>5 DEF Recorded, RegistrationTypeOK
  <2>5. c \in Active
    BY <1>1, <1>5 DEF Verifiable, Active
  <2>6. new.delivery = "SENT" => c \in mailed
    BY <1>1, <2>2 DEF Recorded, IssuedAgrees
  <2> HIDE DEF new, c
  <2>7. Recorded' /\ Grows
    BY <1>1, <1>2, <2>2, <2>3, <2>4, <2>5, <2>6, ChallengeStep
  <2> QED BY <1>1, <1>3, <2>7, CallStep
<1>6. CASE /\ Verifiable(c, now)
           /\ challenge' = [d \in Challenges |->
                [challenge[d] EXCEPT !.tries = IF d = c THEN @ + 1 ELSE @,
                                     !.consumed = IF d \in Active THEN now ELSE @]]
           /\ account' = [account EXCEPT !.password = account.pending, !.pending = 0, !.attempt = 0, !.verified = TRUE]
           /\ verifiedBy' = c
  <2>1. now \in Stamp /\ now # Never
    BY <1>1 DEF Time, Stamp, Never, RegistrationAssumption
  <2>2. /\ account' \in AccountRows /\ account'.verified /\ account'.password = account.pending
        /\ account'.exists = account.exists
    BY <1>2, <1>6 DEF AccountRows
  <2>3. /\ ~account.verified /\ challenge[c].attempt = account.attempt /\ c \in mailed
        /\ account.exists /\ account.pending = account.attempt
    BY <1>1, <1>2, <1>6 DEF Verifiable, Closed, Recorded, IssuedAgrees, AccountAgrees
  <2>4. ASSUME NEW d \in Challenges
        PROVE  /\ challenge'[d] \in ChallengeRows
               /\ challenge'[d].state = challenge[d].state /\ challenge'[d].attempt = challenge[d].attempt
               /\ challenge'[d].delivery = challenge[d].delivery /\ challenge'[d].anchor = challenge[d].anchor
               /\ challenge[d].state = "none" => challenge'[d] = challenge[d]
               /\ ~(challenge'[d].state = "live" /\ challenge'[d].consumed = Never)
    <3> DEFINE tries == IF d = c THEN challenge[d].tries + 1 ELSE challenge[d].tries
               consumed == IF d \in Active THEN now ELSE challenge[d].consumed
    <3>1. challenge'[d] = [challenge[d] EXCEPT !.tries = tries, !.consumed = consumed] /\ challenge[d] \in ChallengeRows
      BY <1>2, <1>6
    <3>2. tries \in 0 .. MaxTries
      <4>1. challenge[d].tries \in 0 .. MaxTries /\ (d = c => challenge[d].tries < MaxTries)
        <5>1. challenge[d].tries \in 0 .. MaxTries /\ MaxTries \in Nat
          BY <3>1 DEF ChallengeRows, RegistrationAssumption
        <5>2. ~(challenge[c].tries >= MaxTries)
          BY <1>6 DEF Verifiable, Exhausted
        <5> HIDE DEF c
        <5> QED BY <5>1, <5>2
      <4> QED BY <4>1 DEF RegistrationAssumption
    <3>3. consumed \in Stamp /\ ~(challenge[d].state = "live" /\ consumed = Never)
      BY <2>1, <3>1 DEF ChallengeRows, Active, Live
    <3>4. challenge[d].state = "none" => tries = challenge[d].tries /\ consumed = challenge[d].consumed
      BY <1>2 DEF Active, Live
    <3> HIDE DEF tries, consumed
    <3>5. /\ challenge'[d] \in ChallengeRows
          /\ challenge'[d].state = challenge[d].state /\ challenge'[d].attempt = challenge[d].attempt
          /\ challenge'[d].delivery = challenge[d].delivery /\ challenge'[d].anchor = challenge[d].anchor
          /\ challenge'[d].tries = tries /\ challenge'[d].consumed = consumed
      BY <3>1, <3>2, <3>3 DEF ChallengeRows
    <3>6. challenge[d].state = "none" => challenge'[d] = challenge[d]
      <4>1. [challenge[d] EXCEPT !.tries = challenge[d].tries, !.consumed = challenge[d].consumed] = challenge[d]
        BY <3>1 DEF ChallengeRows
      <4> QED BY <3>1, <3>4, <4>1
    <3> QED BY <3>3, <3>5, <3>6
  <2> HIDE DEF c, now
  <2>5. RegistrationTypeOK'
    <3>1. challenge' \in [Challenges -> ChallengeRows]
      BY <1>6, <2>4
    <3> QED BY <1>1, <2>2, <3>1 DEF Recorded, RegistrationTypeOK, ChallengeRows, AccountRows
  <2>6. AccountAgrees'
    BY <2>2, <2>3 DEF AccountAgrees
  <2>7. OneActive'
    BY <2>4 DEF OneActive, Active, Live
  <2>8. IssuedAgrees'
    BY <1>1, <2>4 DEF Recorded, IssuedAgrees
  <2>9. VerifiedPasswordIsMailed'
    <3>1. verifiedBy' = c /\ mailed' = mailed /\ c \in Challenges
      BY <1>1, <1>6
    <3>2. challenge'[c].attempt = challenge[c].attempt
      BY <2>4, <3>1
    <3> QED BY <2>2, <2>3, <3>1, <3>2 DEF VerifiedPasswordIsMailed
  <2>10. Grows
    BY <1>1, <2>4 DEF Grows
  <2>11. Recorded'
    BY <2>5, <2>6, <2>7, <2>8, <2>9 DEF Recorded
  <2> QED BY <1>1, <1>3, <2>10, <2>11, CallStep
<1>7. \/ UNCHANGED <<account, challenge, verifiedBy>>
      \/ Verifiable(c, now) /\ challenge' = [challenge EXCEPT ![c].tries = @ + 1] /\ UNCHANGED <<account, verifiedBy>>
      \/ /\ Verifiable(c, now)
         /\ challenge' = [d \in Challenges |->
              [challenge[d] EXCEPT !.tries = IF d = c THEN @ + 1 ELSE @,
                                   !.consumed = IF d \in Active THEN now ELSE @]]
         /\ account' = [account EXCEPT !.password = account.pending, !.pending = 0, !.attempt = 0, !.verified = TRUE]
         /\ verifiedBy' = c
  BY DEF Verify
<1> QED BY <1>4, <1>5, <1>6, <1>7

LEMMA PurgeStep ==
    ASSUME RegistrationAssumption, Recorded, CallsAgree, NEW c \in Challenges, PurgeCodes(c)
    PROVE  Recorded' /\ CallsAgree'
<1>1. challenge[c] \in ChallengeRows /\ challenge[c].state = "live"
      /\ UNCHANGED <<account, call, clock, held, mailed, verifiedBy>>
  BY DEF PurgeCodes, PurgeableCode, Live, Recorded, RegistrationTypeOK, ChallengeRows
<1> DEFINE new == [challenge[c] EXCEPT !.state = "purged"]
<1>2. /\ new \in ChallengeRows /\ new.state = "purged" /\ new.attempt = challenge[c].attempt
      /\ new.anchor = challenge[c].anchor /\ new.delivery = challenge[c].delivery
  BY <1>1 DEF ChallengeRows
<1>3. challenge' = [challenge EXCEPT ![c] = new]
  BY DEF PurgeCodes, Recorded, RegistrationTypeOK
<1>4. /\ account' = account /\ mailed' = mailed /\ verifiedBy' = verifiedBy /\ held \subseteq held'
      /\ held' \subseteq Challenges /\ clock' \in Time /\ \A h \in held' : h \in held \/ h = c
  BY <1>1 DEF Recorded, RegistrationTypeOK
<1>5. new.delivery = "SENT" => c \in mailed
  BY <1>2 DEF Recorded, IssuedAgrees
<1> HIDE DEF new
<1>6. Recorded' /\ Grows
  BY <1>1, <1>2, <1>3, <1>4, <1>5, ChallengeStep
<1> QED BY <1>1, <1>6, OthersCallsStay

LEMMA DisableStep ==
    ASSUME Recorded, CallsAgree, Disable PROVE Recorded' /\ CallsAgree'
<1>1. /\ UNCHANGED <<challenge, call, clock, held, mailed, verifiedBy>>
      /\ account' \in AccountRows /\ account'.exists = account.exists /\ account'.verified = account.verified
      /\ account'.pending = account.pending /\ account'.attempt = account.attempt
      /\ account'.password = account.password
  BY DEF Disable, Recorded, RegistrationTypeOK, AccountRows
<1>2. RegistrationTypeOK' /\ AccountAgrees'
  BY <1>1 DEF Recorded, RegistrationTypeOK, AccountRows, AccountAgrees
<1>3. OneActive'
  BY <1>1 DEF Recorded, OneActive, Active, Live
<1>4. IssuedAgrees' /\ VerifiedPasswordIsMailed'
  BY <1>1 DEF Recorded, IssuedAgrees, VerifiedPasswordIsMailed
<1>5. Grows
  BY <1>1 DEF Grows
<1> QED BY <1>1, <1>2, <1>3, <1>4, <1>5, OthersCallsStay DEF Recorded

LEMMA TickStep ==
    ASSUME RegistrationAssumption, Recorded, CallsAgree, RegistrationTick PROVE Recorded' /\ CallsAgree'
<1>1. /\ UNCHANGED <<account, challenge, call, held, mailed, verifiedBy>> /\ clock' \in Time
  BY DEF RegistrationTick, Time, Recorded, RegistrationTypeOK, RegistrationAssumption
<1>2. RegistrationTypeOK' /\ AccountAgrees'
  BY <1>1 DEF Recorded, RegistrationTypeOK, AccountAgrees
<1>3. OneActive'
  BY <1>1 DEF Recorded, OneActive, Active, Live
<1>4. IssuedAgrees' /\ VerifiedPasswordIsMailed'
  BY <1>1 DEF Recorded, IssuedAgrees, VerifiedPasswordIsMailed
<1>5. Grows
  BY <1>1 DEF Grows
<1> QED BY <1>1, <1>2, <1>3, <1>4, <1>5, OthersCallsStay DEF Recorded

\* The steps that only note what a request is about to do.
LEMMA RequestStep ==
    ASSUME RegistrationAssumption, Recorded, CallsAgree, NEW r \in Calls,
           \/ \E a \in Attempts : StartRegister(r, a)
           \/ FindNoAccount(r) \/ MarkSentFails(r) \/ Die(r)
           \/ \E c \in held : StartResend(r, c) \/ StartVerify(r, c)
    PROVE  Recorded' /\ CallsAgree'
<1>1. /\ UNCHANGED <<account, challenge, clock, held, mailed, verifiedBy>>
      /\ call[r] \in CallRows /\ LetThrough(call[r]) /\ clock \in Time
      /\ call \in [Calls -> CallRows] /\ NoCall \in CallRows /\ LetThrough(NoCall)
  <2>1. UNCHANGED <<account, challenge, clock, held, mailed, verifiedBy>>
    BY DEF StartRegister, FindNoAccount, MarkSentFails, Die, StartResend, StartVerify
  <2> QED BY <2>1, NoCallIsRow DEF CallsAgree, Recorded, RegistrationTypeOK
<1>2. ASSUME NEW a \in Attempts, StartRegister(r, a) PROVE Recorded' /\ CallsAgree'
  <2> DEFINE k == [call[r] EXCEPT !.step = "register", !.attempt = a, !.now = clock]
  <2>1. k \in CallRows /\ k.step = "register" /\ k.attempt = a
    BY <1>1 DEF CallRows, CallSteps, RegistrationAssumption
  <2>2. call' = [call EXCEPT ![r] = k]
    BY <1>1, <1>2 DEF StartRegister
  <2>3. LetThrough(k)
    BY <2>1 DEF LetThrough
  <2> HIDE DEF k
  <2> QED BY <1>1, <2>1, <2>2, <2>3, CallOnlyStep
<1>3. ASSUME NEW c \in held, NEW step \in {"resend", "verify"},
             call' = [call EXCEPT ![r].step = step, ![r].requested = c, ![r].now = clock]
      PROVE  Recorded' /\ CallsAgree'
  <2> DEFINE k == [call[r] EXCEPT !.step = step, !.requested = c, !.now = clock]
  <2>1. k \in CallRows /\ k.step = step /\ k.requested = c
    <3>1. c \in Nat
      BY DEF Recorded, RegistrationTypeOK, RegistrationAssumption
    <3> QED BY <1>1, <3>1 DEF CallRows, CallSteps
  <2>2. call' = [call EXCEPT ![r] = k]
    BY <1>1, <1>3
  <2>3. LetThrough(k)
    BY <2>1 DEF LetThrough
  <2> HIDE DEF k
  <2> QED BY <1>1, <2>1, <2>2, <2>3, CallOnlyStep
<1>4. ASSUME NEW step \in {"create", "failed"}, call' = [call EXCEPT ![r].step = step],
             step = "create" => call[r].step = "register", step = "failed" => call[r].step = "sent"
      PROVE  Recorded' /\ CallsAgree'
  <2> DEFINE k == [call[r] EXCEPT !.step = step]
  <2>1. /\ k \in CallRows /\ k.step = step /\ k.attempt = call[r].attempt /\ k.challenge = call[r].challenge
    BY <1>1 DEF CallRows, CallSteps
  <2>2. call' = [call EXCEPT ![r] = k]
    BY <1>1, <1>4
  <2>3. LetThrough(k)
    BY <1>1, <1>4, <2>1 DEF LetThrough
  <2> HIDE DEF k
  <2> QED BY <1>1, <2>1, <2>2, <2>3, CallOnlyStep
<1>5. CASE Die(r)
  BY <1>1, <1>5, CallOnlyStep DEF Die, Done
<1>6. ASSUME NEW c \in held, StartResend(r, c) \/ StartVerify(r, c) PROVE Recorded' /\ CallsAgree'
  BY <1>3, <1>6 DEF StartResend, StartVerify
<1>7. CASE FindNoAccount(r) \/ MarkSentFails(r)
  BY <1>4, <1>7 DEF FindNoAccount, MarkSentFails, Continue
<1> QED BY <1>2, <1>5, <1>6, <1>7

LEMMA RegistrationInitially == RegistrationAssumption /\ RegistrationInit => Recorded /\ CallsAgree
<1> SUFFICES ASSUME RegistrationAssumption, RegistrationInit PROVE Recorded /\ CallsAgree
  OBVIOUS
<1>1. NoCall \in CallRows /\ LetThrough(NoCall)
  BY NoCallIsRow
<1>2. /\ NoChallenge \in ChallengeRows /\ NoChallenge.state = "none" /\ NoChallenge.delivery = "PENDING"
      /\ NoChallenge.anchor = 0
  <2>1. 0 \in Stamp /\ Never \in Stamp /\ 0 \in 0 .. MaxTries
    BY DEF Stamp, Never, RegistrationAssumption
  <2> QED BY <2>1 DEF NoChallenge, ChallengeRows
<1>3. NoAccount \in AccountRows /\ ~NoAccount.exists /\ ~NoAccount.verified
  BY DEF NoAccount, AccountRows
<1>4. \A c \in Challenges : challenge[c] = NoChallenge
  BY DEF RegistrationInit
<1>5. RegistrationTypeOK
  <2>1. challenge \in [Challenges -> ChallengeRows]
    BY <1>2 DEF RegistrationInit
  <2>2. clock \in Time
    BY DEF RegistrationInit, Time, RegistrationAssumption
  <2> QED BY <1>3, <2>1, <2>2 DEF RegistrationInit, RegistrationTypeOK, ChallengeRows, AccountRows
<1>6. AccountAgrees /\ VerifiedPasswordIsMailed
  BY <1>2, <1>3, <1>4 DEF RegistrationInit, AccountAgrees, VerifiedPasswordIsMailed
<1>7. OneActive
  BY <1>2, <1>4 DEF OneActive, Active, Live
<1>8. IssuedAgrees
  BY <1>2, <1>4 DEF RegistrationInit, IssuedAgrees
<1>9. CallsAgree
  BY <1>1 DEF RegistrationInit, CallsAgree
<1> QED BY <1>5, <1>6, <1>7, <1>8, <1>9 DEF Recorded

LEMMA RegistrationPreserved ==
    ASSUME RegistrationAssumption, Recorded, CallsAgree, [RegistrationNext]_registrationVars
    PROVE  Recorded' /\ CallsAgree'
<1>1. CASE UNCHANGED registrationVars
  <2>1. UNCHANGED <<account, challenge, clock, held, mailed, verifiedBy>> /\ call' = call
    BY <1>1 DEF registrationVars
  <2>2. Recorded' /\ Grows
    BY <2>1, RecordedStays
  <2> QED BY <2>1, <2>2, OthersCallsStay
<1>2. ASSUME NEW r \in Calls,
             \/ \E a \in Attempts : StartRegister(r, a)
             \/ FindNoAccount(r) \/ MarkSentFails(r) \/ Die(r)
             \/ \E c \in held : StartResend(r, c) \/ StartVerify(r, c)
      PROVE  Recorded' /\ CallsAgree'
  BY <1>2, RequestStep
<1>3. ASSUME NEW r \in Calls, RegisterAgain(r) \/ CreateAccount(r) \/ Resend(r) PROVE Recorded' /\ CallsAgree'
  BY <1>3, RegisterAgainStep, CreateAccountStep, ResendStep
<1>4. ASSUME NEW r \in Calls, Send(r) \/ MarkSent(r) \/ MarkFailed(r) \/ Verify(r) PROVE Recorded' /\ CallsAgree'
  BY <1>4, SendStep, MarkSentStep, MarkFailedStep, VerifyStep
<1>5. CASE (\E c \in Challenges : PurgeCodes(c)) \/ Disable \/ RegistrationTick
  BY <1>5, PurgeStep, DisableStep, TickStep
<1> QED BY <1>1, <1>2, <1>3, <1>4, <1>5 DEF RegistrationNext

LEMMA RegistrationInvariant == RegistrationAssumption => (RegistrationSpec => [](Recorded /\ CallsAgree))
<1> SUFFICES ASSUME RegistrationAssumption PROVE RegistrationSpec => [](Recorded /\ CallsAgree)
  OBVIOUS
<1>1. Recorded /\ CallsAgree /\ [RegistrationNext]_registrationVars => (Recorded /\ CallsAgree)'
  BY RegistrationPreserved
<1> QED BY <1>1, RegistrationInitially, PTL DEF RegistrationSpec

(***************************************************************************)
(* However attempts, resends, verifications, late answers and crashes      *)
(* interleave: the password in force is that of the attempt whose code was *)
(* mailed and typed in, one code at most can verify, and after a failed    *)
(* delivery the id the customer holds can still ask for another.           *)
(***************************************************************************)
THEOREM RegistrationSafe == RegistrationAssumption => (RegistrationSpec => []RegistrationIsSafe)
<1> SUFFICES ASSUME RegistrationAssumption PROVE RegistrationSpec => []RegistrationIsSafe
  OBVIOUS
<1>1. Recorded => RegistrationIsSafe
  <2> SUFFICES ASSUME Recorded PROVE RegistrationIsSafe
    OBVIOUS
  <2>1. ActiveOfAttempt
    <3>1. Active = {} \/ \E c : Active = {c}
      BY DEF Recorded, OneActive
    <3>2. Cardinality(Active) <= 1
      <4>1. CASE Active = {}
        BY <4>1, FS_EmptySet
      <4>2. ASSUME NEW c, Active = {c} PROVE Cardinality(Active) <= 1
        <5>1. Cardinality({c}) = 1
          BY FS_Singleton
        <5> QED BY <4>2, <5>1
      <4> QED BY <3>1, <4>1, <4>2
    <3> QED BY <3>2 DEF ActiveOfAttempt, Recorded, OneActive
  <2>2. FailedDeliveryHasWayBack
    <3> SUFFICES ASSUME NEW c \in Active, challenge[c].delivery = "FAILED", challenge[c].anchor # 0, ~Closed
                 PROVE  \E h \in held : MayResend(h) \/ challenge[h].state = "purged"
      BY DEF FailedDeliveryHasWayBack
    <3> DEFINE h == challenge[c].anchor
    <3>1. c \in Challenges /\ challenge[c].attempt = account.attempt
      BY DEF Active, Recorded, OneActive
    <3>2. h \in held /\ challenge[h].attempt = challenge[c].attempt
      BY <3>1 DEF Recorded, IssuedAgrees
    <3>3. h \in Challenges
      BY <3>2 DEF Recorded, RegistrationTypeOK
    <3>4. challenge[h].state # "none" /\ challenge[h].state \in {"none", "live", "purged"}
      BY <3>2, <3>3 DEF Recorded, IssuedAgrees, RegistrationTypeOK
    <3>5. CASE challenge[h].state = "live"
      BY <3>1, <3>2, <3>5 DEF MayResend, Live
    <3> QED BY <3>2, <3>4, <3>5
  <2> QED BY <2>1, <2>2 DEF RegistrationIsSafe, Recorded
<1> QED BY <1>1, RegistrationInvariant, PTL

RegistrationStep == DeliveryIsRecordedOnce /\ VerifiedIsFinal /\ PurgeSparesUsable

LEMMA SameAccount == ASSUME Recorded, account' = account PROVE VerifiedIsFinal
<1>1. account = [account EXCEPT !.disabled = account.disabled]
  BY DEF Recorded, RegistrationTypeOK
<1> QED BY <1>1 DEF VerifiedIsFinal

LEMMA SameRegistration ==
    ASSUME Recorded, account' = account, challenge' = challenge PROVE RegistrationStep
BY SameAccount DEF RegistrationStep, DeliveryIsRecordedOnce, PurgeSparesUsable, Live

\* A new challenge takes the place of one that was never issued.
LEMMA IssueKeeps ==
    ASSUME RegistrationAssumption, Recorded, NEW r \in Calls, NEW attempt, NEW anchor, IssueNext(r, attempt, anchor)
    PROVE  DeliveryIsRecordedOnce /\ PurgeSparesUsable
<1> DEFINE n == FirstOf(Unissued)
           now == call[r].now
<1>1. /\ n \in Challenges /\ challenge[n] = NoChallenge /\ challenge \in [Challenges -> ChallengeRows]
      /\ challenge' = [c \in Challenges |->
            IF c = n THEN NewChallenge(attempt, anchor, now)
            ELSE IF c \in Active THEN [challenge[c] EXCEPT !.consumed = now] ELSE challenge[c]]
  <2>1. Unissued # {}
    BY DEF IssueNext
  <2>2. n \in Challenges /\ challenge[n].state = "none"
    BY <2>1, FirstIsUnissued DEF Unissued
  <2> HIDE DEF n
  <2>3. challenge[n] = NoChallenge /\ challenge \in [Challenges -> ChallengeRows]
    BY <2>2 DEF Recorded, IssuedAgrees, RegistrationTypeOK, ChallengeRows
  <2> QED BY <2>2, <2>3 DEF IssueNext, IssuedChallenge, n
<1> HIDE DEF n, now
<1>2. ASSUME NEW c \in Challenges, c # n
      PROVE  /\ challenge'[c].delivery = challenge[c].delivery /\ challenge'[c].resendAt = challenge[c].resendAt
             /\ challenge'[c].state = challenge[c].state
  <2>1. challenge[c] \in ChallengeRows
    BY <1>1
  <2>2. challenge'[c] = challenge[c] \/ challenge'[c] = [challenge[c] EXCEPT !.consumed = now]
    BY <1>1, <1>2
  <2> QED BY <2>1, <2>2 DEF ChallengeRows
<1>3. /\ challenge[n].consumed = Never /\ challenge[n].delivery = "PENDING" /\ challenge'[n].state = "live"
  BY <1>1 DEF NoChallenge, NewChallenge
<1> QED BY <1>2, <1>3 DEF DeliveryIsRecordedOnce, PurgeSparesUsable, Live

\* One challenge changes; its delivery only while that is undecided.
LEMMA ChallengeKeeps ==
    ASSUME Recorded, NEW c \in Challenges, NEW new, challenge' = [challenge EXCEPT ![c] = new],
           Undecided(c) \/ (new.delivery = challenge[c].delivery /\ new.resendAt = challenge[c].resendAt),
           new.state = "purged" => ~Verifiable(c, clock)
    PROVE  DeliveryIsRecordedOnce /\ PurgeSparesUsable
<1>1. challenge'[c] = new /\ \A d \in Challenges : d # c => challenge'[d] = challenge[d]
  BY DEF Recorded, RegistrationTypeOK
<1> QED BY <1>1 DEF DeliveryIsRecordedOnce, PurgeSparesUsable, Undecided, Live

LEMMA RegistrationStepHolds ==
    ASSUME RegistrationAssumption, Recorded, CallsAgree, RegistrationNext PROVE RegistrationStep
<1>1. ASSUME NEW r \in Calls, RegisterAgain(r) PROVE RegistrationStep
  <2>1. CASE RegisterRefused
    BY <1>1, <2>1, SameRegistration DEF RegisterAgain
  <2>2. CASE ~RegisterRefused /\ TooSoon(call[r].now)
    BY <1>1, <2>2, SameRegistration DEF RegisterAgain, Renewed
  <2>3. CASE ~RegisterRefused /\ ~TooSoon(call[r].now)
    <3>1. IssueNext(r, call[r].attempt, 0) /\ ~account.verified
      BY <1>1, <2>3 DEF RegisterAgain, RegisterRefused, Closed
    <3> QED BY <3>1, IssueKeeps DEF RegistrationStep, VerifiedIsFinal
  <2> QED BY <2>1, <2>2, <2>3
<1>2. ASSUME NEW r \in Calls, CreateAccount(r) PROVE RegistrationStep
  <2>1. CASE account.exists
    BY <1>2, <2>1, SameRegistration DEF CreateAccount
  <2>2. CASE ~account.exists
    <3>1. IssueNext(r, call[r].attempt, 0) /\ ~account.verified
      BY <1>2, <2>2 DEF CreateAccount, Recorded, AccountAgrees
    <3> QED BY <3>1, IssueKeeps DEF RegistrationStep, VerifiedIsFinal
  <2> QED BY <2>1, <2>2
<1>3. ASSUME NEW r \in Calls, Resend(r) PROVE RegistrationStep
  <2>1. account' = account
    BY <1>3 DEF Resend
  <2>2. CASE challenge' = challenge
    BY <2>1, <2>2, SameRegistration
  <2>3. CASE IssueNext(r, account.attempt, Anchor(call[r].requested))
    BY <2>1, <2>3, IssueKeeps, SameAccount DEF RegistrationStep
  <2> QED BY <1>3, <2>2, <2>3 DEF Resend
<1>4. ASSUME NEW r \in Calls, MarkSent(r) \/ MarkFailed(r) PROVE RegistrationStep
  <2> DEFINE c == call[r].challenge
  <2>1. account' = account /\ c \in Challenges
    BY <1>4 DEF MarkSent, MarkFailed, CallsAgree, LetThrough
  <2>2. CASE challenge' = challenge
    BY <2>1, <2>2, SameRegistration
  <2>3. CASE challenge' # challenge
    <3>1. /\ Undecided(c)
          /\ \/ challenge' = [challenge EXCEPT ![c].delivery = "SENT"]
             \/ challenge' = [challenge EXCEPT ![c].delivery = "FAILED", ![c].resendAt = clock + RetryDelay]
      BY <1>4, <2>3 DEF MarkSent, MarkFailed
    <3>2. PICK new : challenge' = [challenge EXCEPT ![c] = new] /\ new.state = challenge[c].state
      <4>1. challenge[c] \in ChallengeRows /\ challenge \in [Challenges -> ChallengeRows]
        BY <2>1 DEF Recorded, RegistrationTypeOK, ChallengeRows
      <4>2. /\ [challenge[c] EXCEPT !.delivery = "SENT"].state = challenge[c].state
            /\ [challenge[c] EXCEPT !.delivery = "FAILED", !.resendAt = clock + RetryDelay].state = challenge[c].state
        BY <4>1 DEF ChallengeRows
      <4>3. \/ challenge' = [challenge EXCEPT ![c] = [challenge[c] EXCEPT !.delivery = "SENT"]]
            \/ challenge' = [challenge EXCEPT ![c] = [challenge[c] EXCEPT !.delivery = "FAILED",
                                                                          !.resendAt = clock + RetryDelay]]
        BY <3>1, <4>1
      <4> QED BY <4>2, <4>3
    <3>3. new.state # "purged"
      BY <3>1, <3>2 DEF Undecided, Live
    <3> QED BY <2>1, <3>1, <3>2, <3>3, ChallengeKeeps, SameAccount DEF RegistrationStep
  <2> QED BY <2>2, <2>3
<1>5. ASSUME NEW r \in Calls, Verify(r) PROVE RegistrationStep
  <2> DEFINE c == call[r].requested
             now == call[r].now
  <2>1. CASE UNCHANGED <<account, challenge>>
    BY <2>1, SameRegistration
  <2>2. CASE Verifiable(c, now) /\ challenge' = [challenge EXCEPT ![c].tries = @ + 1] /\ account' = account
    <3>1. c \in Challenges /\ challenge[c] \in ChallengeRows /\ challenge \in [Challenges -> ChallengeRows]
      BY <1>5 DEF Verify, CallsAgree, LetThrough, Recorded, RegistrationTypeOK, ChallengeRows
    <3> DEFINE new == [challenge[c] EXCEPT !.tries = @ + 1]
    <3>2. /\ new.delivery = challenge[c].delivery /\ new.resendAt = challenge[c].resendAt
          /\ new.state = challenge[c].state
      BY <3>1 DEF ChallengeRows
    <3>3. challenge' = [challenge EXCEPT ![c] = new] /\ challenge[c].state = "live"
      BY <2>2, <3>1 DEF Verifiable, Live
    <3> HIDE DEF c, new
    <3>4. new.state # "purged"
      BY <3>2, <3>3
    <3> QED BY <2>2, <3>1, <3>2, <3>3, <3>4, ChallengeKeeps, SameAccount DEF RegistrationStep
  <2>3. CASE /\ Verifiable(c, now)
             /\ challenge' = [d \in Challenges |->
                  [challenge[d] EXCEPT !.tries = IF d = c THEN @ + 1 ELSE @,
                                       !.consumed = IF d \in Active THEN now ELSE @]]
    <3>1. ~account.verified
      BY <2>3 DEF Verifiable, Closed
    <3>2. ASSUME NEW d \in Challenges
          PROVE  /\ challenge'[d].delivery = challenge[d].delivery /\ challenge'[d].resendAt = challenge[d].resendAt
                 /\ challenge'[d].state = challenge[d].state
      <4>1. challenge[d] \in ChallengeRows
        BY DEF Recorded, RegistrationTypeOK, ChallengeRows
      <4>2. \E tries, consumed : challenge'[d] = [challenge[d] EXCEPT !.tries = tries, !.consumed = consumed]
        BY <2>3
      <4> QED BY <4>1, <4>2 DEF ChallengeRows
    <3> QED BY <3>1, <3>2 DEF RegistrationStep, DeliveryIsRecordedOnce, VerifiedIsFinal, PurgeSparesUsable, Live
  <2> QED BY <1>5, <2>1, <2>2, <2>3 DEF Verify
<1>6. ASSUME NEW c \in Challenges, PurgeCodes(c) PROVE RegistrationStep
  <2>1. challenge[c] \in ChallengeRows /\ account' = account
    BY <1>6 DEF PurgeCodes, Recorded, RegistrationTypeOK, ChallengeRows
  <2> DEFINE new == [challenge[c] EXCEPT !.state = "purged"]
  <2>2. new.delivery = challenge[c].delivery /\ new.resendAt = challenge[c].resendAt
    BY <2>1 DEF ChallengeRows
  <2>3. challenge' = [challenge EXCEPT ![c] = new]
    BY <1>6 DEF PurgeCodes, Recorded, RegistrationTypeOK
  <2>4. ~Verifiable(c, clock)
    <3>1. /\ challenge[c].expires \in Nat /\ clock \in Nat /\ CodeRetention \in Nat
      BY <2>1 DEF ChallengeRows, Stamp, Never, Recorded, RegistrationTypeOK, Time, RegistrationAssumption
    <3>2. challenge[c].consumed # Never \/ challenge[c].expires + CodeRetention <= clock
      BY <1>6 DEF PurgeCodes, PurgeableCode, CodeEnded
    <3> QED BY <3>1, <3>2 DEF Verifiable
  <2> HIDE DEF new
  <2> QED BY <2>1, <2>2, <2>3, <2>4, ChallengeKeeps, SameAccount DEF RegistrationStep
<1>7. CASE Disable
  <2>1. account' = [account EXCEPT !.disabled = TRUE] /\ challenge' = challenge /\ account \in AccountRows
    BY <1>7 DEF Disable, Recorded, RegistrationTypeOK, AccountRows
  <2>2. account'.disabled = TRUE
    BY <2>1 DEF AccountRows
  <2> QED BY <2>1, <2>2 DEF RegistrationStep, DeliveryIsRecordedOnce, VerifiedIsFinal, PurgeSparesUsable, Live
<1>8. CASE UNCHANGED <<account, challenge>>
  BY <1>8, SameRegistration
<1>9. ASSUME NEW r \in Calls,
             \/ \E a \in Attempts : StartRegister(r, a)
             \/ FindNoAccount(r) \/ Send(r) \/ MarkSentFails(r) \/ Die(r)
             \/ \E c \in held : StartResend(r, c) \/ StartVerify(r, c)
      PROVE  UNCHANGED <<account, challenge>>
  BY <1>9 DEF StartRegister, FindNoAccount, Send, MarkSentFails, Die, StartResend, StartVerify
<1>10. RegistrationTick => UNCHANGED <<account, challenge>>
  BY DEF RegistrationTick
<1> QED BY <1>1, <1>2, <1>3, <1>4, <1>5, <1>6, <1>7, <1>8, <1>9, <1>10 DEF RegistrationNext

(***************************************************************************)
(* A late answer of the provider changes nothing that is decided, no later *)
(* request changes an account that is verified, and the clean-up never     *)
(* deletes a code that would still verify.                                 *)
(***************************************************************************)
THEOREM RegistrationStepsAreSafe ==
    RegistrationAssumption =>
      (RegistrationSpec => [][DeliveryIsRecordedOnce /\ VerifiedIsFinal /\ PurgeSparesUsable]_registrationVars)
<1> SUFFICES ASSUME RegistrationAssumption
             PROVE  RegistrationSpec =>
                      [][DeliveryIsRecordedOnce /\ VerifiedIsFinal /\ PurgeSparesUsable]_registrationVars
  OBVIOUS
<1>1. Recorded /\ CallsAgree /\ [RegistrationNext]_registrationVars =>
        [DeliveryIsRecordedOnce /\ VerifiedIsFinal /\ PurgeSparesUsable]_registrationVars
  BY RegistrationStepHolds DEF RegistrationStep
<1> QED BY <1>1, RegistrationInvariant, PTL DEF RegistrationSpec
=============================================================================
