------------------------------- MODULE Members -------------------------------
(***************************************************************************)
(* The members of the shop: who may administrate, and the commands that    *)
(* create members and change their status and roles.  A request is         *)
(* admitted by the guards, which read the member and then its roles, and   *)
(* takes effect later, in a transaction of its own.                        *)
(***************************************************************************)
EXTENDS Naturals, FiniteSets

CONSTANTS People,     \* by e-mail address
          Roles,      \* codes of the shop's roles
          Managing,   \* roles with the permission to manage members
          Commands,
          NoOne

RolesAssumption == Managing \subseteq Roles /\ Managing # {}
PeopleAssumption == NoOne \notin Commands \cup {"before"}

VARIABLES user,       \* whose request set the password of a person's user, if there is a user
          member,     \* rows of shop_members with their roles
          command,
          asked,      \* (history) the roles last asked for, by requests that were answered
          demoted,    \* (history) somebody gave up the managing roles themselves
          overtaken   \* (history) a command took effect after its actor lost the right to it

memberVars == <<user, member, command, asked, demoted, overtaken>>

MaxAttempts == 3
Status == {"ACTIVE", "INACTIVE"}
NoMember == [status |-> "NONE", roles |-> {}]
RoleSets == (SUBSET Roles) \ {{}}
Unchanged == "unchanged"
Updates == {u \in [status : Status \cup {Unchanged}, roles : RoleSets \cup {{}}] :
              u.status # Unchanged \/ u.roles # {}}       \* no roles: they are not given
Steps == {"idle", "guard", "check", "create", "update", "write", "done", "refused"}
NoCommand == [step |-> "idle"]
Seen == [status |-> "NONE", roles |-> {}]

IsMember(p) == member[p].status # "NONE"
Manages(p) == member[p].status = "ACTIVE" /\ member[p].roles \cap Managing # {}

Go(r, step) == command' = [command EXCEPT ![r].step = step]

-----------------------------------------------------------------------------
(* The guards *)

Ask(r, actor, kind, target, given) ==
  /\ command[r] = NoCommand
  /\ member[actor].status = "ACTIVE"
  /\ command' = [command EXCEPT ![r] =
       [step |-> "guard", actor |-> actor, kind |-> kind, target |-> target, given |-> given,
        seen |-> Seen, attempt |-> 1]]
  /\ UNCHANGED <<user, member, asked, demoted, overtaken>>

Admit(r) ==
  /\ command[r].step = "guard"
  /\ IF member[command[r].actor].roles \cap Managing # {}
     THEN Go(r, IF command[r].kind = "create" THEN "check" ELSE "update")
     ELSE Go(r, "refused")
  /\ UNCHANGED <<user, member, asked, demoted, overtaken>>

\* A command's effect, seen from its actor.
Overtaken(r) == overtaken' = (overtaken \/ ~Manages(command[r].actor))

-----------------------------------------------------------------------------
(* Creation: a check, then the password is hashed, then the transaction *)

CheckMembership(r) ==
  /\ command[r].step = "check"
  /\ Go(r, IF IsMember(command[r].target) THEN "refused" ELSE "create")
  /\ UNCHANGED <<user, member, asked, demoted, overtaken>>

\* mutant of Joins: the roles are assigned outside of the transaction, and fail
JoinsWithoutRoles(rows, p, roles) == [rows EXCEPT ![p] = [status |-> "ACTIVE", roles |-> {}]]

Joins(rows, p, roles) == [rows EXCEPT ![p] = [status |-> "ACTIVE", roles |-> roles]]

\* mutant of PasswordOf: an upsert
PasswordGiven(p, r) == r

\* A person with a user keeps its password.
PasswordOf(p, r) == IF user[p] = NoOne THEN r ELSE user[p]

Create(r) ==
  LET p == command[r].target IN
  /\ command[r].step = "create"
  /\ ~IsMember(p)
  /\ user' = [user EXCEPT ![p] = PasswordOf(p, r)]
  /\ member' = Joins(member, p, command[r].given.roles)
  /\ asked' = [asked EXCEPT ![p] = command[r].given.roles]
  /\ Go(r, "done")
  /\ Overtaken(r)
  /\ UNCHANGED demoted

\* The unique keys of the user and of the member: all of it is undone.
CreateFails(r) ==
  /\ command[r].step = "create"
  /\ IsMember(command[r].target)
  /\ Go(r, "refused")
  /\ UNCHANGED <<user, member, asked, demoted, overtaken>>

-----------------------------------------------------------------------------
(* Changes: a serializable transaction, begun again after a conflict *)

\* mutant of Allowed: one may deactivate oneself
AllowedToAnyone(r) == TRUE

Allowed(r) == ~(command[r].target = command[r].actor /\ command[r].given.status = "INACTIVE")

BeginUpdate(r) ==
  /\ command[r].step = "update"
  /\ IF Allowed(r) /\ IsMember(command[r].target)
     THEN command' = [command EXCEPT ![r].step = "write", ![r].seen = member[command[r].target]]
     ELSE Go(r, "refused")
  /\ UNCHANGED <<user, member, asked, demoted, overtaken>>

\* mutant of Conflicts: READ COMMITTED
NeverConflicts(r) == FALSE

\* A row that is to be written has been written since the snapshot.
Conflicts(r) ==
  LET now == member[command[r].target] IN
  \/ command[r].given.status # Unchanged /\ now.status # command[r].seen.status
  \/ command[r].given.roles # {} /\ now.roles # command[r].seen.roles

\* deleteMany reaches the rows of the snapshot.
Changed(row, seen, given) ==
  [status |-> IF given.status = Unchanged THEN row.status ELSE given.status,
   roles |-> IF given.roles = {} THEN row.roles ELSE (row.roles \ seen.roles) \cup given.roles]

GivesUp(r) == /\ command[r].target = command[r].actor
              /\ command[r].given.roles # {} /\ command[r].given.roles \cap Managing = {}

Update(r) ==
  LET p == command[r].target
      given == command[r].given
  IN
  /\ command[r].step = "write"
  /\ ~Conflicts(r)
  /\ member' = [member EXCEPT ![p] = Changed(@, command[r].seen, given)]
  /\ asked' = [asked EXCEPT ![p] = IF given.roles = {} THEN @ ELSE given.roles]
  /\ demoted' = (demoted \/ GivesUp(r))
  /\ Go(r, "done")
  /\ Overtaken(r)
  /\ UNCHANGED user

\* The database may also refuse transactions that only read what the other wrote.
Retry(r) ==
  /\ command[r].step = "write"
  /\ \/ Conflicts(r)
     \/ \E s \in Commands \ {r} : command[s].step = "write" /\ command[s].target = command[r].target
  /\ command' = IF command[r].attempt < MaxAttempts
                THEN [command EXCEPT ![r].step = "update", ![r].attempt = @ + 1]
                ELSE [command EXCEPT ![r].step = "refused"]
  /\ UNCHANGED <<user, member, asked, demoted, overtaken>>

-----------------------------------------------------------------------------
\* The seed sets the shop up with one owner; anybody else may have a user already.
MembersInit ==
  /\ \E owner \in People, others \in SUBSET People :
       /\ user = [p \in People |-> IF p \in others \cup {owner} THEN "before" ELSE NoOne]
       /\ member = [p \in People |-> IF p = owner THEN [status |-> "ACTIVE", roles |-> Managing]
                                     ELSE NoMember]
  /\ asked = [p \in People |-> member[p].roles]
  /\ command = [r \in Commands |-> NoCommand]
  /\ demoted = FALSE /\ overtaken = FALSE

MembersNext ==
  \E r \in Commands :
    \/ \E actor, target \in People, roles \in RoleSets :
         Ask(r, actor, "create", target, [status |-> Unchanged, roles |-> roles])
    \/ \E actor, target \in People, u \in Updates : Ask(r, actor, "update", target, u)
    \/ Admit(r)
    \/ CheckMembership(r) \/ Create(r) \/ CreateFails(r)
    \/ BeginUpdate(r) \/ Update(r) \/ Retry(r)

MembersSpec == MembersInit /\ [][MembersNext]_memberVars

-----------------------------------------------------------------------------
(* Properties *)

\* The types of the variables; and a member is whole: it has a user and roles.
MembersTypeOK ==
  /\ user \in [People -> Commands \cup {NoOne, "before"}]
  /\ \A p \in People : \/ member[p] = NoMember
                       \/ /\ member[p].status \in Status
                          /\ member[p].roles \in RoleSets
                          /\ user[p] # NoOne
  /\ \A r \in Commands : command[r].step \in Steps
  /\ demoted \in BOOLEAN /\ overtaken \in BOOLEAN

(***************************************************************************)
(* There is always somebody left who can manage members, unless a manager  *)
(* gave the right up themselves or a command was overtaken by the          *)
(* revocation of its actor's right after the guards had admitted it: two   *)
(* managers can deactivate each other (MemberService.update, which only    *)
(* refuses one's own deactivation).                                        *)
(***************************************************************************)
ManagerRemains ==
  demoted \/ overtaken \/ \E p \in People : Manages(p)

(***************************************************************************)
(* The roles of a member are exactly those that some answered request      *)
(* asked for last, never a mixture of two (PrismaMemberRepository.update,  *)
(* serializableTransaction).                                               *)
(***************************************************************************)
RolesAreAsLastAsked == \A p \in People : member[p].roles = asked[p]

\* Adding a member never replaces the password of a user there already is
\* (PrismaMemberRepository.create).
PasswordsAreKept == \A p \in People : user[p] # NoOne => user'[p] = user[p]

\* Somebody can still manage the members, and their roles are as somebody last
\* asked, whatever requests overlap.
MembersAreManaged ==
  /\ MembersTypeOK
  /\ ManagerRemains
  /\ RolesAreAsLastAsked
=============================================================================
