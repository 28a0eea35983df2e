-------------------------- MODULE BookkeepingProofs --------------------------
(***************************************************************************)
(* Theorems about what is counted: receipts and refunds sent under a key   *)
(* (ManualReceipts), for any requests, members, keys, orders, bodies and   *)
(* prices; the return of an order (RentalReturn), for any pieces, fees and *)
(* damages; and loyalty (Loyalty), for any orders, owners, histories and   *)
(* policies.  All three rest on sums or counts of rows.                    *)
(***************************************************************************)
EXTENDS ManualReceipts, RentalReturn, Loyalty, FiniteSetTheorems, WellFoundedInduction, TLAPS

-----------------------------------------------------------------------------
(***************************************************************************)
(* Sums over a finite set.  The total of S is what a function that adds    *)
(* its elements one by one, in whatever order, gives for S; such a         *)
(* function exists, since a smallest subset without one would lack it for  *)
(* want of one of its elements.                                            *)
(***************************************************************************)
Additive(g, S, f) ==
    /\ g \in [SUBSET S -> Int]
    /\ g[{}] = 0
    /\ \A T \in SUBSET S : \A x \in T : g[T] = f[x] + g[T \ {x}]

Sums(S, f) == CHOOSE g : Additive(g, S, f)
Total(S, f) == Sums(S, f)[S]

\* A family of subsets of a finite set has a smallest member.
LEMMA SmallestMember ==
    ASSUME NEW S, IsFiniteSet(S), NEW F \in SUBSET SUBSET S, F # {}
    PROVE  \E T \in F : \A x \in T : T \ {x} \notin F
<1>1. F \subseteq FiniteSubsetsOf(S)
  BY FS_Subset DEF FiniteSubsetsOf
<1>2. PICK T \in F : \A V \in F : <<V, T>> \notin StrictSubsetOrdering(S)
  BY <1>1, WFMin, FS_StrictSubsetOrderingWellFounded
<1>3. ASSUME NEW x \in T, T \ {x} \in F PROVE FALSE
  <2>1. T \subseteq S /\ T \ {x} \subseteq T /\ T \ {x} # T
    BY <1>3
  <2>2. <<T \ {x}, T>> \in StrictSubsetOrdering(S)
    BY <2>1 DEF StrictSubsetOrdering
  <2> QED BY <1>2, <1>3, <2>2
<1> QED BY <1>3

LEMMA AdditiveExists ==
    ASSUME NEW S, IsFiniteSet(S), NEW f, \A x \in S : f[x] \in Int
    PROVE  Additive(Sums(S, f), S, f)
<1> DEFINE F == {T \in SUBSET S : ~ \E g : Additive(g, T, f)}
<1>1. CASE F = {}
  <2>1. \E g : Additive(g, S, f)
    BY <1>1
  <2> QED BY <2>1 DEF Sums
<1>2. CASE F # {}
  <2>1. PICK T \in F : \A x \in T : T \ {x} \notin F
    BY <1>2, SmallestMember
  <2>2. CASE T = {}
    <3>1. Additive([U \in SUBSET {} |-> 0], {}, f)
      BY DEF Additive
    <3> QED BY <2>1, <2>2, <3>1
  <2>3. CASE T # {}
    <3>1. PICK x \in T : TRUE
      BY <2>3
    <3> DEFINE R == T \ {x}
    <3>2. R \in SUBSET S /\ R \notin F /\ T \in SUBSET S
      BY <2>1
    <3>3. PICK h : Additive(h, R, f)
      BY <3>2
    <3> DEFINE g == [U \in SUBSET T |-> IF x \in U THEN f[x] + h[U \ {x}] ELSE h[U]]
    <3>4. /\ h \in [SUBSET R -> Int] /\ h[{}] = 0
          /\ \A U \in SUBSET R : \A y \in U : h[U] = f[y] + h[U \ {y}]
      BY <3>3 DEF Additive
    <3>5. \A y \in T : f[y] \in Int
      BY <3>2
    <3>6. \A U \in SUBSET T : U \ {x} \in SUBSET R /\ (x \notin U => U \in SUBSET R)
      OBVIOUS
    <3>7. \A U \in SUBSET T : g[U] = IF x \in U THEN f[x] + h[U \ {x}] ELSE h[U]
      OBVIOUS
    <3>8. g \in [SUBSET T -> Int]
      BY <3>4, <3>5, <3>6
    <3> HIDE DEF g, R
    <3>9. g[{}] = 0
      BY <3>4, <3>7
    <3>10. ASSUME NEW U \in SUBSET T, NEW y \in U PROVE g[U] = f[y] + g[U \ {y}]
      <4>0. U \ {y} \in SUBSET T /\ f[y] \in Int /\ f[x] \in Int
        BY <3>5
      <4>1. CASE y = x
        <5>1. g[U] = f[x] + h[U \ {x}] /\ g[U \ {y}] = h[U \ {y}]
          BY <3>7, <4>0, <4>1
        <5> QED BY <4>1, <5>1
      <4>2. CASE y # x /\ x \in U
        <5>1. g[U] = f[x] + h[U \ {x}] /\ g[U \ {y}] = f[x] + h[(U \ {y}) \ {x}]
          BY <3>7, <4>0, <4>2
        <5>2. h[U \ {x}] = f[y] + h[(U \ {x}) \ {y}]
          BY <3>4, <3>6, <4>2
        <5>3. (U \ {x}) \ {y} = (U \ {y}) \ {x} /\ (U \ {x}) \ {y} \in SUBSET R
          BY <3>6
        <5>4. h[(U \ {y}) \ {x}] \in Int
          BY <3>4, <5>3
        <5> DEFINE rest == h[(U \ {y}) \ {x}]
        <5>5. g[U] = f[x] + (f[y] + rest) /\ g[U \ {y}] = f[x] + rest /\ rest \in Int
          BY <5>1, <5>2, <5>3, <5>4
        <5> HIDE DEF rest
        <5> QED BY <4>0, <5>5
      <4>3. CASE x \notin U
        <5>1. g[U] = h[U] /\ g[U \ {y}] = h[U \ {y}]
          BY <3>7, <4>0, <4>3
        <5> QED BY <3>4, <3>6, <4>3, <5>1
      <4> QED BY <4>1, <4>2, <4>3
    <3>11. Additive(g, T, f)
      BY <3>8, <3>9, <3>10 DEF Additive
    <3> QED BY <2>1, <3>11
  <2> QED BY <2>2, <2>3
<1> QED BY <1>1, <1>2

\* Two functions of sets that follow from smaller sets in the same way are the same.
InStep(g, h, S) ==
    /\ g[{}] = h[{}]
    /\ \A T \in SUBSET S : T # {} => \E x \in T : g[T \ {x}] = h[T \ {x}] => g[T] = h[T]

LEMMA InStepAgree ==
    ASSUME NEW S, IsFiniteSet(S), NEW g, NEW h, InStep(g, h, S)
    PROVE  \A T \in SUBSET S : g[T] = h[T]
<1> DEFINE F == {T \in SUBSET S : g[T] # h[T]}
<1>1. CASE F # {}
  <2>1. PICK T \in F : \A x \in T : T \ {x} \notin F
    BY <1>1, SmallestMember
  <2>2. T # {} /\ T \in SUBSET S
    BY <2>1 DEF InStep
  <2>3. PICK x \in T : g[T \ {x}] = h[T \ {x}] => g[T] = h[T]
    BY <2>2 DEF InStep
  <2>4. T \ {x} \in SUBSET S /\ g[T] # h[T] /\ T \ {x} \notin F
    BY <2>1
  <2> QED BY <2>3, <2>4
<1> QED BY <1>1

LEMMA TotalOfNothing == ASSUME NEW f PROVE Total({}, f) = 0
<1>1. Additive(Sums({}, f), {}, f)
  BY AdditiveExists, FS_EmptySet
<1> QED BY <1>1 DEF Additive, Total

\* The total of a part is read off the sums of the whole.
LEMMA TotalOfPart ==
    ASSUME NEW S, IsFiniteSet(S), NEW f, NEW e, NEW T \in SUBSET S, \A x \in S : f[x] \in Int,
           \A x \in T : e[x] = f[x]
    PROVE  Sums(S, f)[T] = Total(T, e)
<1>1. Additive(Sums(S, f), S, f)
  BY AdditiveExists
<1>2. IsFiniteSet(T) /\ \A x \in T : e[x] \in Int
  BY FS_Subset
<1>3. Additive(Sums(T, e), T, e)
  BY <1>2, AdditiveExists
<1> DEFINE g == Sums(S, f)
           h == Sums(T, e)
<1> HIDE DEF g, h
<1>4. /\ g[{}] = h[{}]
      /\ \A U \in SUBSET T : \A x \in U : g[U] = f[x] + g[U \ {x}] /\ h[U] = e[x] + h[U \ {x}]
  BY <1>1, <1>3 DEF Additive, g, h
<1>5. ASSUME NEW U \in SUBSET T, U # {} PROVE \E x \in U : g[U \ {x}] = h[U \ {x}] => g[U] = h[U]
  BY <1>4, <1>5
<1>6. InStep(g, h, T)
  BY <1>4, <1>5 DEF InStep
<1>7. \A U \in SUBSET T : g[U] = h[U]
  BY <1>2, <1>6, InStepAgree
<1> QED BY <1>7 DEF Total, g, h

LEMMA TotalIsInt ==
    ASSUME NEW S, IsFiniteSet(S), NEW f, \A x \in S : f[x] \in Int PROVE Total(S, f) \in Int
<1>1. Additive(Sums(S, f), S, f)
  BY AdditiveExists
<1> QED BY <1>1 DEF Additive, Total

LEMMA TotalSame ==
    ASSUME NEW S, IsFiniteSet(S), NEW f, NEW e, \A x \in S : f[x] \in Int /\ e[x] = f[x]
    PROVE  Total(S, e) = Total(S, f)
BY TotalOfPart DEF Total

LEMMA TotalWithout ==
    ASSUME NEW S, IsFiniteSet(S), NEW f, \A x \in S : f[x] \in Int, NEW x \in S
    PROVE  Total(S, f) = f[x] + Total(S \ {x}, f)
<1>1. Additive(Sums(S, f), S, f)
  BY AdditiveExists
<1>2. Total(S, f) = f[x] + Sums(S, f)[S \ {x}]
  BY <1>1 DEF Additive, Total
<1>3. Sums(S, f)[S \ {x}] = Total(S \ {x}, f)
  <2> DEFINE T == S \ {x}
  <2>1. T \in SUBSET S /\ \A y \in T : f[y] = f[y]
    OBVIOUS
  <2> HIDE DEF T
  <2>2. Sums(S, f)[T] = Total(T, f)
    BY <2>1, TotalOfPart
  <2> QED BY <2>2 DEF T
<1> QED BY <1>2, <1>3

\* What a fold that adds comes to.
FoldsTo(it, S, b, f) ==
    it = [T \in SUBSET S |-> IF T = {} THEN b
                             ELSE f[CHOOSE x \in T : TRUE] + it[T \ {CHOOSE x \in T : TRUE}]]

LEMMA FoldIsTotal ==
    ASSUME NEW S, IsFiniteSet(S), NEW b \in Int, NEW f, \A x \in S : f[x] \in Int,
           NEW it, FoldsTo(it, S, b, f)
    PROVE  it[S] = b + Total(S, f)
<1> DEFINE s == Sums(S, f)
           g == [T \in SUBSET S |-> b + s[T]]
<1>1. Additive(s, S, f)
  BY AdditiveExists
<1>2. \A T \in SUBSET S : g[T] = b + s[T]
  OBVIOUS
<1>3. s \in [SUBSET S -> Int] /\ s[{}] = 0
      /\ \A T \in SUBSET S : \A x \in T : s[T] = f[x] + s[T \ {x}]
  BY <1>1 DEF Additive
<1> HIDE DEF s, g
<1>4. it[{}] = b
  BY DEF FoldsTo
<1>5. ASSUME NEW T \in SUBSET S, T # {} PROVE \E x \in T : it[T \ {x}] = g[T \ {x}] => it[T] = g[T]
  <2> DEFINE x == CHOOSE x \in T : TRUE
  <2>1. it[T] = f[x] + it[T \ {x}]
    BY <1>5 DEF FoldsTo
  <2>2. x \in T
    BY <1>5
  <2> HIDE DEF x
  <2>3. T \ {x} \in SUBSET S /\ f[x] \in Int /\ s[T \ {x}] \in Int /\ s[T] = f[x] + s[T \ {x}]
    BY <1>3, <2>2
  <2>4. ASSUME it[T \ {x}] = g[T \ {x}] PROVE it[T] = g[T]
    <3>1. g[T] = b + s[T] /\ g[T \ {x}] = b + s[T \ {x}]
      BY <1>2, <2>3
    <3> QED BY <2>1, <2>3, <2>4, <3>1
  <2> QED BY <2>2, <2>4
<1>6. it[{}] = g[{}]
  BY <1>2, <1>3, <1>4
<1>7. InStep(it, g, S)
  BY <1>5, <1>6 DEF InStep
<1>8. \A T \in SUBSET S : it[T] = g[T]
  BY <1>7, InStepAgree
<1> QED BY <1>2, <1>8 DEF Total, s

LEMMA FoldExists ==
    ASSUME NEW S, IsFiniteSet(S), NEW b \in Int, NEW f, \A x \in S : f[x] \in Int
    PROVE  \E it : FoldsTo(it, S, b, f)
<1> DEFINE s == Sums(S, f)
           g == [T \in SUBSET S |-> b + s[T]]
<1>1. s \in [SUBSET S -> Int] /\ s[{}] = 0
      /\ \A T \in SUBSET S : \A x \in T : s[T] = f[x] + s[T \ {x}]
  <2>1. Additive(s, S, f)
    BY AdditiveExists
  <2> HIDE DEF s
  <2> QED BY <2>1 DEF Additive
<1> HIDE DEF s
<1>2. ASSUME NEW T \in SUBSET S, T # {}
      PROVE  g[T] = f[CHOOSE x \in T : TRUE] + g[T \ {CHOOSE x \in T : TRUE}]
  <2> DEFINE x == CHOOSE x \in T : TRUE
  <2>1. x \in T
    BY <1>2
  <2> HIDE DEF x
  <2>2. T \ {x} \in SUBSET S /\ f[x] \in Int /\ s[T \ {x}] \in Int /\ s[T] = f[x] + s[T \ {x}]
    BY <1>1, <2>1
  <2>3. g[T] = f[x] + g[T \ {x}]
    BY <2>2
  <2> QED BY <2>3 DEF x
<1>3. g[{}] = b
  BY <1>1
<1>4. FoldsTo(g, S, b, f)
  <2> HIDE DEF g
  <2>1. g = [T \in SUBSET S |-> g[T]]
    BY DEF g
  <2> QED BY <1>2, <1>3, <2>1 DEF FoldsTo
<1> QED BY <1>4

-----------------------------------------------------------------------------
(***************************************************************************)
(* Receipts and refunds written by hand.  The invariant ties the three     *)
(* places a receipt is written to: a row is that of its request (Booked),  *)
(* its scope is held by a completed claim of that request (Booked,         *)
(* Claims), and who was answered was answered with a row (Answers).        *)
(* Another one is about the sums of the rows (Accounts, further down).     *)
(***************************************************************************)
Stages == {"idle", "claimed", "release", "unreleased", "crashed", "done"}
Kinds == {"NONE", "INVALID", "HASH_MISMATCH", "IN_PROGRESS", "REPLAYED", "EXECUTED",
          "CLAIM_LOST", "NOT_FOUND", "REFUSED", "ERROR"}
Told == {"EXECUTED", "REPLAYED"}
Results == Receipt \cup {NoReceipt}
Claim == [owner : Call \cup {NoOne}, hash : Commands \cup {NoOne}, completed : BOOLEAN,
          result : Results]

Types == /\ rows \in [Call -> PaymentRow \cup {NoPayment}]
         /\ claim \in [Member \X Key -> Claim]
         /\ sent \in [Call -> Ask \cup {NoAsk}]
         /\ phase \in [Call -> Stages]
         /\ reply \in [Call -> [kind : Kinds, result : Results]]
         /\ clock \in Moments

\* The receipt of a row, as the claim stores it and the caller reads it.
Tells(result, q) == /\ Recorded(q) /\ result.number = q
                    /\ result.body = rows[q].body /\ result.paidAt = rows[q].paidAt

Begun == \A r \in Call :
           /\ phase[r] # "idle" => sent[r] \in Ask
           /\ phase[r] \in {"idle", "claimed"} => ~Recorded(r) /\ reply[r].kind = "NONE"
           /\ phase[r] = "claimed" => DirectionFits(sent[r].body)

Booked == \A q \in Call : Recorded(q) =>
            /\ rows[q].body = sent[q].body /\ DirectionFits(sent[q].body)
            /\ claim[ScopeOf(q)].owner = q /\ claim[ScopeOf(q)].completed

Stands(s, q) == /\ claim[s].owner = q /\ phase[q] # "idle" /\ ScopeOf(q) = s
                /\ claim[s].hash = sent[q].body
                /\ \/ claim[s].completed /\ Tells(claim[s].result, q)
                   \/ /\ ~claim[s].completed /\ claim[s].result = NoReceipt
                      /\ phase[q] \in {"claimed", "release", "unreleased", "crashed"}
Claims == \A s \in Member \X Key : claim[s] = NoClaim \/ \E q \in Call : Stands(s, q)

Answers == \A r \in Call :
             \/ reply[r].kind \notin Told /\ reply[r].result = NoReceipt
             \/ /\ reply[r].kind \in Told /\ phase[r] # "idle"
                /\ \E q \in Call : /\ Tells(reply[r].result, q)
                                   /\ sent[q].member = sent[r].member
                                   /\ sent[q].body = sent[r].body

IInv == Types /\ Begun /\ Booked /\ Claims /\ Answers

LEMMA Nulls == CommandsAssumption =>
    /\ NoReceipt \in Results /\ NoReceipt \notin Receipt /\ NoClaim \in Claim
    /\ \A row \in PaymentRow : row # NoPayment /\ row.body \in Commands
BY DEF CommandsAssumption, NoReceipt, Results, Receipt, NoClaim, Claim, PaymentRow, NoPayment

LEMMA Initially == CommandsAssumption /\ ReceiptsInit => IInv
<1> SUFFICES ASSUME CommandsAssumption, ReceiptsInit PROVE IInv
  OBVIOUS
<1>1. [kind |-> "NONE", result |-> NoReceipt] \in [kind : Kinds, result : Results] /\ 0 \in Moments
  BY Nulls DEF Kinds, Moments, CommandsAssumption
<1>2. Types
  BY <1>1, Nulls DEF ReceiptsInit, Types, Stages
<1> QED BY <1>2 DEF ReceiptsInit, IInv, Begun, Booked, Claims, Answers, Recorded, Told

\* What a request that begins does: it is answered at once, replayed, or takes the claim.
Begins(r, m, k, body) ==
    /\ phase[r] = "idle" /\ UNCHANGED <<rows, clock>>
    /\ sent' = [sent EXCEPT ![r] = [member |-> m, key |-> k, body |-> body]]
Refuses(r, kind) ==
    /\ kind \in Kinds \ Told /\ claim' = claim /\ phase' = [phase EXCEPT ![r] = "done"]
    /\ reply' = [reply EXCEPT ![r] = [kind |-> kind, result |-> NoReceipt]]
Replays(r, s, body) ==
    /\ claim[s] # NoClaim /\ claim[s].hash = body /\ claim[s].completed
    /\ claim' = claim /\ phase' = [phase EXCEPT ![r] = "done"]
    /\ reply' = [reply EXCEPT ![r] = [kind |-> "REPLAYED", result |-> claim[s].result]]
Takes(r, s, body) ==
    /\ claim[s] = NoClaim \/ ~claim[s].completed
    /\ DirectionFits(body) /\ reply' = reply /\ phase' = [phase EXCEPT ![r] = "claimed"]
    /\ claim' = [claim EXCEPT ![s] = [owner |-> r, hash |-> body, completed |-> FALSE,
                                      result |-> NoReceipt]]

LEMMA SendIs ==
    ASSUME NEW r \in Call, NEW m \in Member, NEW k \in Key, NEW body \in Commands, Send(r, m, k, body)
    PROVE  /\ Begins(r, m, k, body)
           /\ \/ \E kind \in Kinds \ Told : Refuses(r, kind)
              \/ Replays(r, <<m, k>>, body)
              \/ Takes(r, <<m, k>>, body)
<1>1. Begins(r, m, k, body)
  BY DEF Send, Begins
<1>2. {"INVALID", "HASH_MISMATCH", "IN_PROGRESS"} \subseteq Kinds \ Told
  BY DEF Kinds, Told
<1>3. ASSUME NEW kind \in {"INVALID", "HASH_MISMATCH", "IN_PROGRESS"}, claim' = claim,
             phase' = [phase EXCEPT ![r] = "done"],
             reply' = [reply EXCEPT ![r] = [kind |-> kind, result |-> NoReceipt]]
      PROVE  \E x \in Kinds \ Told : Refuses(r, x)
  BY <1>2, <1>3 DEF Refuses
<1>4. CASE ~DirectionFits(body)
  BY <1>1, <1>3, <1>4 DEF Send, Tell
<1>5. CASE DirectionFits(body) /\ claim[<<m, k>>] = NoClaim
  BY <1>1, <1>5 DEF Send, Scope, TakeClaim, Hash, Takes
<1>6. CASE DirectionFits(body) /\ claim[<<m, k>>] # NoClaim
  <2>1. CASE claim[<<m, k>>].hash # Hash(body)
    BY <1>1, <1>3, <1>6, <2>1 DEF Send, Scope, Tell
  <2>2. CASE claim[<<m, k>>].hash = Hash(body) /\ claim[<<m, k>>].completed
    BY <1>1, <1>6, <2>2 DEF Send, Scope, Tell, Hash, Replays
  <2>3. CASE claim[<<m, k>>].hash = Hash(body) /\ ~claim[<<m, k>>].completed
    BY <1>1, <1>3, <1>6, <2>3 DEF Send, Scope, Tell, TakeClaim, Hash, Takes
  <2> QED BY <2>1, <2>2, <2>3
<1> QED BY <1>1, <1>4, <1>5, <1>6

LEMMA SendStep ==
    ASSUME CommandsAssumption, IInv,
           NEW r \in Call, NEW m \in Member, NEW k \in Key, NEW body \in Commands,
           Send(r, m, k, body)
    PROVE  IInv'
<1> DEFINE s == <<m, k>>
           ask == [member |-> m, key |-> k, body |-> body]
<1>0. Types /\ Begun /\ Booked /\ Claims /\ Answers /\ s \in Member \X Key /\ ask \in Ask
  BY DEF IInv, Ask
<1>1. /\ phase[r] = "idle" /\ UNCHANGED <<rows, clock>> /\ sent'[r] = ask
      /\ sent' \in [Call -> Ask \cup {NoAsk}] /\ \A q \in Call \ {r} : sent'[q] = sent[q]
  BY <1>0, SendIs DEF Begins, Types
<1>2. /\ ~Recorded(r) /\ reply[r].kind = "NONE" /\ reply[r].result = NoReceipt
      /\ \A q \in Call : Recorded(q)' <=> Recorded(q)
      /\ \A q \in Call : Recorded(q) => q # r
  BY <1>0, <1>1 DEF Begun, Answers, Told, Recorded
<1>3. \A q \in Call \ {r} : ScopeOf(q)' = ScopeOf(q)
  BY <1>1 DEF ScopeOf, Scope
<1>4. ScopeOf(r)' = s
  BY <1>1 DEF ScopeOf, Scope
<1>5. \A x, q : Tells(x, q)' <=> Tells(x, q)
  BY <1>1 DEF Tells, Recorded
<1>6. \A t \in Member \X Key : claim[t] # NoClaim => claim[t].owner \in Call /\ claim[t].owner # r
  BY <1>0, <1>1 DEF Claims, Stands
<1> HIDE DEF s, ask
<1>7. ASSUME claim' = claim, phase' = [phase EXCEPT ![r] = "done"] PROVE Booked' /\ Claims'
  <2>1. \A q \in Call \ {r} : phase'[q] = phase[q]
    BY <1>0, <1>7 DEF Types
  <2>2. Booked'
    BY <1>0, <1>1, <1>2, <1>3, <1>7 DEF Booked
  <2>3. Claims'
    <3>1. ASSUME NEW t \in Member \X Key, NEW q \in Call, Stands(t, q) PROVE Stands(t, q)'
      <4>1. q # r /\ claim'[t] = claim[t]
        BY <1>1, <1>7, <3>1 DEF Stands
      <4>2. Tells(claim[t].result, q)' <=> Tells(claim[t].result, q)
        BY <1>1, <4>1 DEF Tells, Recorded
      <4> QED BY <1>1, <1>3, <2>1, <3>1, <4>1, <4>2 DEF Stands
    <3> QED BY <1>0, <1>7, <3>1 DEF Claims
  <2> QED BY <2>2, <2>3
<1>8. ASSUME NEW kind \in Kinds, NEW x \in Results, phase' = [phase EXCEPT ![r] = "done"], claim' = claim,
             reply' = [reply EXCEPT ![r] = [kind |-> kind, result |-> x]],
             \/ kind \notin Told /\ x = NoReceipt
             \/ kind \in Told /\ \E q \in Call : Tells(x, q) /\ sent[q].member = m /\ sent[q].body = body
      PROVE  IInv'
  <2>1. Types' /\ phase'[r] = "done" /\ reply'[r].kind = kind /\ reply'[r].result = x
        /\ \A q \in Call \ {r} : phase'[q] = phase[q] /\ reply'[q] = reply[q]
    BY <1>0, <1>1, <1>8 DEF Types, Stages
  <2>2. Begun'
    BY <1>0, <1>1, <1>2, <2>1 DEF Begun
  <2>3. Answers'
    BY <1>0, <1>1, <1>2, <1>5, <1>8, <2>1 DEF Answers, Tells, ask
  <2> QED BY <1>7, <1>8, <2>1, <2>2, <2>3 DEF IInv
<1>9. CASE \E kind \in Kinds \ Told : Refuses(r, kind)
  BY <1>8, <1>9, Nulls DEF Refuses
<1>10. CASE Replays(r, s, body)
  <2>1. claim[s] \in Claim /\ claim[s].result \in Results
    BY <1>0 DEF Types, Claim
  <2>2. PICK q \in Call : ScopeOf(q) = s /\ body = sent[q].body /\ Tells(claim[s].result, q)
    BY <1>0, <1>10 DEF Replays, Claims, Stands
  <2>3. sent[q].member = m
    BY <2>2 DEF ScopeOf, Scope, s
  <2>4. "REPLAYED" \in Kinds /\ "REPLAYED" \in Told
    BY DEF Kinds, Told
  <2> QED BY <1>8, <1>10, <2>1, <2>2, <2>3, <2>4 DEF Replays
<1>11. CASE Takes(r, s, body)
  <2>1. [owner |-> r, hash |-> body, completed |-> FALSE, result |-> NoReceipt] \in Claim
    BY Nulls DEF Claim
  <2>2. /\ claim' \in [Member \X Key -> Claim] /\ \A t \in (Member \X Key) \ {s} : claim'[t] = claim[t]
        /\ claim'[s].owner = r /\ claim'[s].hash = body /\ ~claim'[s].completed
        /\ claim'[s].result = NoReceipt
    BY <1>0, <1>11, <2>1 DEF Types, Takes
  <2>3. Types' /\ phase'[r] = "claimed" /\ (\A q \in Call \ {r} : phase'[q] = phase[q]) /\ reply' = reply
    BY <1>0, <1>1, <1>11, <2>2 DEF Types, Takes, Stages
  <2>4. Begun'
    BY <1>0, <1>1, <1>2, <1>11, <2>3 DEF Begun, Takes, ask
  <2>5. Booked'
    <3>1. \A q \in Call : Recorded(q) => ScopeOf(q) # s /\ ScopeOf(q) \in Member \X Key
      <4>1. \A q \in Call : Recorded(q) => sent[q] \in Ask
        BY <1>0 DEF Begun
      <4>2. \A q \in Call : Recorded(q) => ScopeOf(q) \in Member \X Key
        BY <4>1 DEF ScopeOf, Scope, Ask
      <4>3. \A q \in Call : Recorded(q) => claim[ScopeOf(q)].owner # NoOne /\ claim[ScopeOf(q)].completed
        BY <1>0 DEF Booked, CommandsAssumption
      <4> QED BY <1>11, <4>2, <4>3 DEF Takes, NoClaim
    <3> QED BY <1>0, <1>1, <1>2, <1>3, <2>2, <3>1 DEF Booked
  <2>6. Claims'
    <3>1. ASSUME NEW t \in (Member \X Key) \ {s}, NEW q \in Call, Stands(t, q)
          PROVE  Stands(t, q)'
      <4>1. q # r
        BY <1>1, <3>1 DEF Stands
      <4>2. claim'[t] = claim[t] /\ sent'[q] = sent[q] /\ phase'[q] = phase[q] /\ ScopeOf(q)' = ScopeOf(q)
        BY <1>1, <1>3, <2>2, <2>3, <4>1
      <4>3. Tells(claim[t].result, q)' <=> Tells(claim[t].result, q)
        BY <1>1, <4>2 DEF Tells, Recorded
      <4> QED BY <3>1, <4>2, <4>3 DEF Stands
    <3>2. Stands(s, r)'
      BY <1>1, <1>4, <2>2, <2>3 DEF ask, Stands
    <3>3. \A t \in (Member \X Key) \ {s} : claim'[t] = claim[t]
      BY <2>2
    <3> QED BY <1>0, <3>1, <3>2, <3>3 DEF Claims
  <2>7. Answers'
    BY <1>0, <1>1, <1>2, <1>5, <2>3 DEF Answers, Tells
  <2> QED BY <2>3, <2>4, <2>5, <2>6, <2>7 DEF IInv
<1> QED BY <1>9, <1>10, <1>11, SendIs DEF s

\* A request that leaves its claim or its answer behind for good.
LEMMA LeaveStep ==
    ASSUME CommandsAssumption, IInv, NEW r \in Call, phase[r] \in {"claimed", "release"},
           NEW stage \in {"release", "unreleased", "crashed"}, phase' = [phase EXCEPT ![r] = stage],
           \/ reply' = reply
           \/ \E kind \in Kinds \ Told :
                 reply' = [reply EXCEPT ![r] = [kind |-> kind, result |-> NoReceipt]],
           UNCHANGED <<rows, claim, sent, clock>>
    PROVE  IInv'
<1>0. Types /\ Begun /\ Booked /\ Claims /\ Answers
  BY DEF IInv
<1>1. phase'[r] = stage /\ stage \in Stages /\ \A q \in Call \ {r} : phase'[q] = phase[q] /\ reply'[q] = reply[q]
  BY <1>0 DEF Types, Stages
<1>2. \/ reply'[r] = reply[r]
      \/ reply'[r].kind \notin Told /\ reply'[r].result = NoReceipt
  BY <1>0 DEF Types
<1>3. reply' \in [Call -> [kind : Kinds, result : Results]]
  BY <1>0, Nulls DEF Types
<1>4. \A q : (Recorded(q)' <=> Recorded(q)) /\ ScopeOf(q)' = ScopeOf(q) /\ \A x : Tells(x, q)' <=> Tells(x, q)
  BY DEF Recorded, ScopeOf, Tells
<1>5. Types'
  BY <1>0, <1>1, <1>3 DEF Types
<1>6. Begun'
  BY <1>0, <1>1, <1>4 DEF Begun
<1>7. Booked'
  BY <1>0, <1>4 DEF Booked
<1>8. Claims'
  <2>1. ASSUME NEW s \in Member \X Key, NEW q \in Call, Stands(s, q) PROVE Stands(s, q)'
    BY <1>1, <1>4, <2>1 DEF Stands
  <2> QED BY <1>0, <2>1 DEF Claims
<1>9. Answers'
  <2>1. ASSUME NEW p \in Call
        PROVE  (\/ reply[p].kind \notin Told /\ reply[p].result = NoReceipt
                \/ /\ reply[p].kind \in Told /\ phase[p] # "idle"
                   /\ \E q \in Call : /\ Tells(reply[p].result, q)
                                      /\ sent[q].member = sent[p].member
                                      /\ sent[q].body = sent[p].body)'
    <3>1. /\ rows' = rows /\ sent' = sent
          /\ \/ reply'[p] = reply[p]
             \/ reply'[p].kind \notin Told /\ reply'[p].result = NoReceipt
      BY <1>1, <1>2
    <3>2. phase[p] # "idle" => phase'[p] # "idle"
      BY <1>1
    <3>3. CASE reply'[p].kind \notin Told /\ reply'[p].result = NoReceipt
      BY <3>3
    <3>4. CASE reply'[p] = reply[p]
      <4>1. \/ reply[p].kind \notin Told /\ reply[p].result = NoReceipt
            \/ /\ reply[p].kind \in Told /\ phase[p] # "idle"
               /\ \E q \in Call : /\ Tells(reply[p].result, q)
                                  /\ sent[q].member = sent[p].member
                                  /\ sent[q].body = sent[p].body
        BY <1>0 DEF Answers
      <4> QED BY <3>1, <3>2, <3>4, <4>1 DEF Tells, Recorded
    <3> QED BY <3>1, <3>3, <3>4
  <2> QED BY <2>1 DEF Answers
<1> QED BY <1>5, <1>6, <1>7, <1>8, <1>9 DEF IInv

\* Row and completed claim are one step; only the answer may be lost.
LEMMA BookStep ==
    ASSUME CommandsAssumption, IInv, NEW r \in Call, NEW s, NEW body, NEW paidAt \in Moments, NEW receipt,
           phase[r] = "claimed", s = ScopeOf(r), body = sent[r].body, claim[s].owner = r,
           receipt = [number |-> r, body |-> body, paidAt |-> paidAt],
           rows' = [rows EXCEPT ![r] = [body |-> body, paidAt |-> paidAt, live |-> TRUE]],
           claim' = [claim EXCEPT ![s].completed = TRUE, ![s].result = receipt],
           NEW stage \in {"done", "release"}, NEW kind \in {"EXECUTED", "ERROR"}, NEW result,
           \/ kind = "EXECUTED" /\ result = receipt
           \/ kind = "ERROR" /\ result = NoReceipt,
           phase' = [phase EXCEPT ![r] = stage],
           reply' = [reply EXCEPT ![r] = [kind |-> kind, result |-> result]],
           UNCHANGED <<sent, clock>>
    PROVE  IInv'
<1>0. Types /\ Begun /\ Booked /\ Claims /\ Answers
  BY DEF IInv
<1>1. sent[r] \in Ask /\ body \in Commands /\ s \in Member \X Key /\ DirectionFits(body) /\ ~Recorded(r)
  <2>1. sent[r] \in Ask /\ DirectionFits(body) /\ ~Recorded(r)
    BY <1>0 DEF Begun
  <2> QED BY <2>1 DEF Ask, ScopeOf, Scope
<1>2. receipt \in Receipt /\ receipt.number = r /\ receipt.body = body /\ receipt.paidAt = paidAt
  BY <1>1 DEF Receipt
<1>3. Stands(s, r) /\ ~claim[s].completed
  <2>1. claim[s] # NoClaim
    BY DEF NoClaim, CommandsAssumption
  <2>2. Stands(s, r)
    BY <1>0, <1>1, <2>1 DEF Claims, Stands
  <2> QED BY <1>1, <2>2 DEF Stands, Tells
<1>5. /\ rows'[r].body = body /\ rows'[r].paidAt = paidAt /\ Recorded(r)'
      /\ rows' \in [Call -> PaymentRow \cup {NoPayment}]
      /\ \A q \in Call \ {r} : rows'[q] = rows[q]
  <2>1. [body |-> body, paidAt |-> paidAt, live |-> TRUE] \in PaymentRow
    BY <1>1 DEF PaymentRow
  <2>2. rows'[r] = [body |-> body, paidAt |-> paidAt, live |-> TRUE]
    BY <1>0 DEF Types
  <2> QED BY <1>0, <2>1, <2>2, Nulls DEF Types, Recorded
<1>6. /\ claim'[s].owner = claim[s].owner /\ claim'[s].hash = claim[s].hash
      /\ claim'[s].completed /\ claim'[s].result = receipt
      /\ claim' \in [Member \X Key -> Claim]
      /\ \A t \in (Member \X Key) \ {s} : claim'[t] = claim[t]
  <2>1. claim[s] \in Claim /\ receipt \in Results
    BY <1>0, <1>1, <1>2 DEF Types, Results
  <2>2. claim'[s].owner = claim[s].owner /\ claim'[s].hash = claim[s].hash
        /\ claim'[s].completed = TRUE /\ claim'[s].result = receipt /\ claim'[s] \in Claim
    BY <1>0, <1>1, <2>1 DEF Types, Claim
  <2> QED BY <1>0, <1>1, <2>2 DEF Types
<1>7. /\ phase'[r] = stage /\ reply'[r].kind = kind /\ reply'[r].result = result
      /\ \A q \in Call \ {r} : phase'[q] = phase[q] /\ reply'[q] = reply[q]
  BY <1>0 DEF Types
<1>8. Types'
  <2>1. stage \in Stages /\ kind \in Kinds /\ result \in Results
    BY <1>2, Nulls DEF Kinds, Stages, Results
  <2>2. phase' \in [Call -> Stages]
    BY <1>0, <2>1 DEF Types
  <2>3. [kind |-> kind, result |-> result] \in [kind : Kinds, result : Results]
    BY <2>1
  <2>4. reply' \in [Call -> [kind : Kinds, result : Results]]
    BY <1>0, <2>3 DEF Types
  <2> QED BY <1>0, <1>5, <1>6, <2>2, <2>4 DEF Types
<1>9. \A q \in Call \ {r} : /\ (Recorded(q)' <=> Recorded(q)) /\ ScopeOf(q)' = ScopeOf(q)
                            /\ \A x : Tells(x, q)' <=> Tells(x, q)
  BY <1>5 DEF Recorded, ScopeOf, Tells
<1>10. ScopeOf(r)' = s /\ Tells(receipt, r)'
  BY <1>2, <1>5 DEF ScopeOf, Tells
<1>11. Begun'
  BY <1>0, <1>7, <1>9 DEF Begun
<1>12. Booked'
  <2>1. ASSUME NEW q \in Call \ {r}, Recorded(q) PROVE claim'[ScopeOf(q)] = claim[ScopeOf(q)]
    <3>1. sent[q] \in Ask
      BY <1>0, <2>1 DEF Begun
    <3>2. ScopeOf(q) \in Member \X Key
      BY <3>1 DEF ScopeOf, Scope, Ask
    <3>3. ScopeOf(q) # s
      BY <1>0, <1>3, <2>1 DEF Booked, Stands
    <3> QED BY <1>6, <3>2, <3>3
  <2>2. ASSUME NEW q \in Call \ {r}, Recorded(q)
        PROVE  /\ rows'[q].body = sent'[q].body /\ DirectionFits(sent'[q].body)
               /\ claim'[ScopeOf(q)].owner = q /\ claim'[ScopeOf(q)].completed
    <3>1. /\ rows[q].body = sent[q].body /\ DirectionFits(sent[q].body)
          /\ claim[ScopeOf(q)].owner = q /\ claim[ScopeOf(q)].completed
      BY <1>0, <2>2 DEF Booked
    <3>2. rows'[q] = rows[q] /\ sent' = sent
      BY <1>5, <2>2
    <3> QED BY <2>1, <2>2, <3>1, <3>2
  <2>3. /\ rows'[r].body = sent'[r].body /\ DirectionFits(sent'[r].body)
        /\ claim'[ScopeOf(r)].owner = r /\ claim'[ScopeOf(r)].completed
    <3>1. rows'[r].body = sent'[r].body
      BY <1>5
    <3>2. DirectionFits(sent'[r].body)
      <4>1. sent' = sent
        OBVIOUS
      <4> QED BY <1>1, <4>1
    <3>3. claim'[ScopeOf(r)].owner = r /\ claim'[ScopeOf(r)].completed
      BY <1>6
    <3> QED BY <3>1, <3>2, <3>3
  <2>4. ASSUME NEW q \in Call, Recorded(q)'
        PROVE  /\ rows'[q].body = sent'[q].body /\ DirectionFits(sent'[q].body)
               /\ claim'[ScopeOf(q)'].owner = q /\ claim'[ScopeOf(q)'].completed
    <3>1. CASE q = r
      BY <1>10, <2>3, <3>1
    <3>2. CASE q # r
      <4>1. Recorded(q) /\ ScopeOf(q)' = ScopeOf(q)
        BY <1>9, <2>4, <3>2
      <4>2. /\ rows'[q].body = sent'[q].body /\ DirectionFits(sent'[q].body)
            /\ claim'[ScopeOf(q)].owner = q /\ claim'[ScopeOf(q)].completed
        BY <2>2, <3>2, <4>1
      <4> QED BY <4>1, <4>2
    <3> QED BY <3>1, <3>2
  <2> QED BY <2>4 DEF Booked
<1>13. Claims'
  <2>1. ASSUME NEW t \in (Member \X Key) \ {s}, NEW q \in Call, Stands(t, q) PROVE Stands(t, q)'
    <3>1. q # r
      BY <2>1 DEF Stands
    <3>2. /\ claim'[t] = claim[t] /\ phase'[q] = phase[q] /\ ScopeOf(q)' = ScopeOf(q) /\ sent'[q] = sent[q]
          /\ Tells(claim[t].result, q)' <=> Tells(claim[t].result, q)
      <4>1. claim'[t] = claim[t] /\ phase'[q] = phase[q] /\ ScopeOf(q)' = ScopeOf(q) /\ sent'[q] = sent[q]
        BY <1>6, <1>7, <1>9, <3>1
      <4>2. Tells(claim[t].result, q)' <=> Tells(claim[t].result, q)
        BY <1>5, <3>1, <4>1 DEF Tells, Recorded
      <4> QED BY <4>1, <4>2
    <3> QED BY <2>1, <3>2 DEF Stands
  <2>2. Stands(s, r)'
    <3>1. Tells(claim[s].result, r)'
      BY <1>6, <1>10 DEF Tells
    <3> QED BY <1>3, <1>6, <1>7, <1>10, <3>1 DEF Stands
  <2>3. \A t \in (Member \X Key) \ {s} : claim'[t] = claim[t]
    BY <1>6
  <2>4. ASSUME NEW t \in (Member \X Key) \ {s} PROVE claim'[t] = NoClaim \/ \E q \in Call : Stands(t, q)'
    BY <1>0, <2>1, <2>3 DEF Claims
  <2> QED BY <1>1, <2>2, <2>4 DEF Claims
<1>14. Answers'
  <2>1. ASSUME NEW q \in Call, Recorded(q) PROVE q # r
    BY <1>1, <2>1
  <2>2. ASSUME NEW q \in Call, NEW p \in Call \ {r}, Tells(reply[p].result, q)
        PROVE  Tells(reply[p].result, q)'
    <3>1. q # r
      BY <2>1, <2>2 DEF Tells
    <3> QED BY <1>5, <1>7, <2>2, <3>1 DEF Tells, Recorded
  <2>3. ASSUME NEW p \in Call \ {r}
        PROVE  \/ reply'[p].kind \notin Told /\ reply'[p].result = NoReceipt
               \/ /\ reply'[p].kind \in Told /\ phase'[p] # "idle"
                  /\ \E q \in Call : /\ Tells(reply[p].result, q)' /\ sent'[q].member = sent'[p].member
                                     /\ sent'[q].body = sent'[p].body
    BY <1>0, <1>7, <2>2 DEF Answers
  <2>4. \/ reply'[r].kind \notin Told /\ reply'[r].result = NoReceipt
        \/ /\ reply'[r].kind \in Told /\ phase'[r] # "idle"
           /\ Tells(reply[r].result, r)'
    <3>1. CASE kind = "ERROR"
      BY <1>7, <3>1 DEF Told
    <3>2. CASE kind = "EXECUTED"
      BY <1>2, <1>5, <1>7, <3>2 DEF Told, Tells
    <3> QED BY <3>1, <3>2
  <2> QED BY <2>3, <2>4 DEF Answers
<1> QED BY <1>8, <1>11, <1>12, <1>13, <1>14 DEF IInv

LEMMA RecordStep == ASSUME CommandsAssumption, IInv, NEW r \in Call, Record(r) PROVE IInv'
<1> DEFINE body == sent[r].body
           paidAt == IF body.paidAt = Omitted THEN clock ELSE body.paidAt
<1>1. paidAt \in Moments
  <2>1. body \in Body /\ clock \in Moments
    BY DEF IInv, Types, Begun, Ask, Record, CommandsAssumption
  <2> QED BY <2>1 DEF Body
<1>2. /\ phase[r] = "claimed" /\ claim[ScopeOf(r)].owner = r
      /\ rows' = [rows EXCEPT ![r] = [body |-> body, paidAt |-> paidAt, live |-> TRUE]]
      /\ claim' = [claim EXCEPT ![ScopeOf(r)].completed = TRUE,
                                ![ScopeOf(r)].result = [number |-> r, body |-> body, paidAt |-> paidAt]]
      /\ \/ /\ phase' = [phase EXCEPT ![r] = "done"]
            /\ reply' = [reply EXCEPT ![r] = [kind |-> "EXECUTED",
                               result |-> [number |-> r, body |-> body, paidAt |-> paidAt]]]
         \/ /\ phase' = [phase EXCEPT ![r] = "release"]
            /\ reply' = [reply EXCEPT ![r] = [kind |-> "ERROR", result |-> NoReceipt]]
      /\ UNCHANGED <<sent, clock>>
  BY DEF Record, Tell, ClaimIsOwn
<1> HIDE DEF paidAt, body
<1>3. body = sent[r].body
  BY DEF body
<1>4. CASE /\ phase' = [phase EXCEPT ![r] = "release"]
           /\ reply' = [reply EXCEPT ![r] = [kind |-> "ERROR", result |-> NoReceipt]]
  BY <1>1, <1>2, <1>3, <1>4, BookStep
<1>5. CASE /\ phase' = [phase EXCEPT ![r] = "done"]
           /\ reply' = [reply EXCEPT ![r] = [kind |-> "EXECUTED",
                               result |-> [number |-> r, body |-> body, paidAt |-> paidAt]]]
  BY <1>1, <1>2, <1>3, <1>5, BookStep
<1> QED BY <1>2, <1>4, <1>5

LEMMA ReleaseStep == ASSUME CommandsAssumption, IInv, NEW r \in Call, ReleaseKey(r) PROVE IInv'
<1> DEFINE s == ScopeOf(r)
<1>0. /\ Types /\ Begun /\ Booked /\ Claims /\ Answers
      /\ phase[r] = "release" /\ UNCHANGED <<rows, sent, reply, clock>>
  BY DEF IInv, ReleaseKey
<1>1. phase'[r] = "done" /\ \A q \in Call \ {r} : phase'[q] = phase[q]
  BY <1>0 DEF ReleaseKey, Types
<1>2. s \in Member \X Key
  BY <1>0 DEF Begun, Ask, ScopeOf, Scope
<1>3. claim' = IF claim[s].owner = r /\ ~claim[s].completed THEN [claim EXCEPT ![s] = NoClaim] ELSE claim
  BY DEF ReleaseKey, Releases, ClaimIsOwn
<1>4. \A q : (Recorded(q)' <=> Recorded(q)) /\ ScopeOf(q)' = ScopeOf(q) /\ \A x : Tells(x, q)' <=> Tells(x, q)
  BY <1>0 DEF Recorded, ScopeOf, Tells
<1> HIDE DEF s
<1>5. Types'
  <2>1. phase' = [phase EXCEPT ![r] = "done"] /\ "done" \in Stages
    BY DEF ReleaseKey, Stages
  <2> QED BY <1>0, <1>3, <2>1, Nulls DEF Types
<1>6. Begun'
  BY <1>0, <1>1, <1>4 DEF Begun
<1>7. Booked'
  <2>1. ASSUME NEW q \in Call, Recorded(q) PROVE claim'[ScopeOf(q)] = claim[ScopeOf(q)]
    <3>1. sent[q] \in Ask
      BY <1>0, <2>1 DEF Begun
    <3>2. ScopeOf(q) \in Member \X Key
      BY <3>1 DEF ScopeOf, Scope, Ask
    <3> QED BY <1>0, <1>3, <2>1, <3>2 DEF Booked, Types
  <2> QED BY <1>0, <1>4, <2>1 DEF Booked
<1>8. Claims'
  <2>1. ASSUME NEW t \in Member \X Key, NEW q \in Call, Stands(t, q), claim'[t] = claim[t]
        PROVE  claim'[t] = NoClaim \/ Stands(t, q)'
    <3>1. CASE q # r
      BY <1>0, <1>1, <1>4, <2>1, <3>1 DEF Stands
    <3>2. CASE q = r
      <4>1. t = s /\ claim[s].owner = r
        BY <2>1, <3>2 DEF Stands, s
      <4>2. CASE claim[s].completed
        BY <1>0, <1>1, <1>4, <2>1, <3>2, <4>1, <4>2 DEF Stands
      <4>3. CASE ~claim[s].completed
        BY <1>0, <1>2, <1>3, <4>1, <4>3 DEF Types
      <4> QED BY <4>2, <4>3
    <3> QED BY <3>1, <3>2
  <2>2. \A t \in Member \X Key : claim'[t] = claim[t] \/ claim'[t] = NoClaim
    BY <1>0, <1>3 DEF Types
  <2> QED BY <1>0, <2>1, <2>2 DEF Claims
<1>9. Answers'
  BY <1>0, <1>1, <1>4 DEF Answers
<1> QED BY <1>5, <1>6, <1>7, <1>8, <1>9 DEF IInv

\* A void leaves the row its command and its time.
LEMMA VoidStep == ASSUME CommandsAssumption, IInv, NEW r \in Call, VoidPayment(r) PROVE IInv'
<1>0. /\ Types /\ Begun /\ Booked /\ Claims /\ Answers /\ UNCHANGED <<claim, sent, phase, reply, clock>>
      /\ rows[r].live /\ rows' = [rows EXCEPT ![r].live = FALSE]
  BY DEF IInv, VoidPayment
<1>1. rows[r] \in PaymentRow
  BY <1>0 DEF Types, NoPayment
<1>2. /\ rows'[r].body = rows[r].body /\ rows'[r].paidAt = rows[r].paidAt /\ rows'[r] \in PaymentRow
      /\ \A q \in Call \ {r} : rows'[q] = rows[q]
  BY <1>0, <1>1 DEF Types, PaymentRow
<1>3. Types'
  BY <1>0, <1>2 DEF Types
<1>4. \A q \in Call : /\ (Recorded(q)' <=> Recorded(q)) /\ ScopeOf(q)' = ScopeOf(q)
                      /\ rows'[q].body = rows[q].body
                      /\ \A x : Tells(x, q)' <=> Tells(x, q)
  BY <1>0, <1>1, <1>2, Nulls DEF Recorded, ScopeOf, Tells
<1>5. Begun' /\ Booked' /\ Answers'
  BY <1>0, <1>4 DEF Begun, Booked, Answers
<1>6. Claims'
  BY <1>0, <1>4 DEF Claims, Stands
<1> QED BY <1>3, <1>5, <1>6 DEF IInv
LEMMA Preserved == ASSUME CommandsAssumption, IInv, [ReceiptsNext]_receiptVars PROVE IInv'
<1>1. ASSUME NEW r \in Call, NEW kind \in Kinds \ Told, phase[r] = "claimed", GiveUp(r, kind) PROVE IInv'
  BY <1>1, LeaveStep DEF GiveUp
<1>2. ASSUME NEW r \in Call, Refuse(r) PROVE IInv'
  <2>1. {"CLAIM_LOST", "NOT_FOUND", "REFUSED", "ERROR"} \subseteq Kinds \ Told
    BY DEF Kinds, Told
  <2> QED BY <1>1, <1>2, <2>1 DEF Refuse
<1>3. ASSUME NEW r \in Call, ReleaseFails(r) \/ Die(r) PROVE IInv'
  BY <1>3, LeaveStep DEF ReleaseFails, Die
<1>4. ASSUME UNCHANGED <<rows, claim, sent, phase, reply>>, clock' \in Moments PROVE IInv'
  BY <1>4 DEF IInv, Types, Begun, Booked, Claims, Answers, Stands, Tells, Recorded, ScopeOf
<1>5. ASSUME NEW o \in Order, ConfirmOrder(o) \/ SettleOrder(o) \/ CancelOrder(o) PROVE IInv'
  BY <1>4, <1>5 DEF ConfirmOrder, SettleOrder, CancelOrder, IInv, Types
<1>6. CASE ReceiptsTick
  <2>1. clock \in Moments /\ clock' = clock + 1 /\ clock < LastTime
    BY <1>6 DEF ReceiptsTick, IInv, Types
  <2> QED BY <1>4, <1>6, <2>1 DEF ReceiptsTick, Moments, CommandsAssumption
<1>7. CASE UNCHANGED receiptVars
  BY <1>4, <1>7 DEF receiptVars, IInv, Types
<1>8. ASSUME NEW r \in Call, NEW m \in Member, NEW k \in Key, NEW body \in Commands, Send(r, m, k, body)
      PROVE  IInv'
  BY <1>8, SendStep
<1> QED BY <1>2, <1>3, <1>5, <1>6, <1>7, <1>8, RecordStep, ReleaseStep, VoidStep DEF ReceiptsNext

\* The invariant holds of every reachable state.
LEMMA Invariant == CommandsAssumption => (ReceiptsSpec => []IInv)
<1> SUFFICES ASSUME CommandsAssumption PROVE ReceiptsSpec => []IInv
  OBVIOUS
<1> QED BY Initially, Preserved, PTL DEF ReceiptsSpec

\* Two rows of one key share a scope, whose claim has one owner.
THEOREM KeyRecordsOnce == CommandsAssumption => (ReceiptsSpec => []OneReceiptPerKey)
<1> SUFFICES ASSUME CommandsAssumption PROVE ReceiptsSpec => []OneReceiptPerKey
  OBVIOUS
<1>1. IInv => OneReceiptPerKey
  <2> SUFFICES ASSUME Booked, NEW q \in Call, NEW r \in Call, Recorded(q), Recorded(r),
                      sent[q].member = sent[r].member, sent[q].key = sent[r].key
               PROVE  q = r
    BY DEF IInv, OneReceiptPerKey
  <2>1. ScopeOf(q) = ScopeOf(r)
    BY DEF ScopeOf
  <2>2. claim[ScopeOf(q)].owner = q /\ claim[ScopeOf(r)].owner = r
    BY DEF Booked
  <2> QED BY <2>1, <2>2
<1> QED BY Invariant, <1>1, PTL

\* The row that was told is the one the answer names.
THEOREM AnswersTellTheTruth == CommandsAssumption => (ReceiptsSpec => []AnswersTellTheReceipt)
<1> SUFFICES ASSUME CommandsAssumption PROVE ReceiptsSpec => []AnswersTellTheReceipt
  OBVIOUS
<1>1. IInv => AnswersTellTheReceipt
  <2> SUFFICES ASSUME Answers, Booked, NEW r \in Call, reply[r].kind \in Told
               PROVE  LET told == reply[r].result IN
                      /\ sent[told.number].member = sent[r].member
                      /\ told.body = sent[r].body
                      /\ rows[told.number].body = told.body
                      /\ rows[told.number].paidAt = told.paidAt
    BY DEF IInv, AnswersTellTheReceipt, Told
  <2>1. PICK q \in Call : /\ Tells(reply[r].result, q) /\ sent[q].member = sent[r].member
                          /\ sent[q].body = sent[r].body
    BY DEF Answers
  <2> QED BY <2>1 DEF Tells, Booked
<1> QED BY Invariant, <1>1, PTL

\* An unfinished claim has an owner that works, waits for its release, or failed to release it.
THEOREM RefusalsFreeTheKey == CommandsAssumption => (ReceiptsSpec => []NoClaimIsLeftBehind)
<1> SUFFICES ASSUME CommandsAssumption PROVE ReceiptsSpec => []NoClaimIsLeftBehind
  OBVIOUS
<1>1. IInv => NoClaimIsLeftBehind
  BY DEF IInv, Claims, Stands, NoClaimIsLeftBehind
<1> QED BY Invariant, <1>1, PTL

\* A row keeps the completed claim of its scope, so a request that asks the same finds it there.
THEOREM RecordedIsToldAgain == CommandsAssumption => (ReceiptsSpec => RecordedIsReplayed)
<1> SUFFICES ASSUME CommandsAssumption PROVE ReceiptsSpec => RecordedIsReplayed
  OBVIOUS
<1>1. ASSUME IInv, [ReceiptsNext]_receiptVars PROVE [ReplaysTheReceipt]_receiptVars
  <2> SUFFICES ASSUME NEW r \in Call, NEW q \in Call, phase[r] = "idle", phase'[r] # "idle", Recorded(q),
                      sent[q] = sent'[r]
               PROVE  reply'[r].kind = "REPLAYED" /\ reply'[r].result.number = q
    BY DEF ReplaysTheReceipt
  <2>0. Types /\ Booked /\ Claims
    BY <1>1 DEF IInv
  <2>1. \E m \in Member, k \in Key, body \in Commands : Send(r, m, k, body)
    <3>1. \A p \in Call :
             Refuse(p) \/ Record(p) \/ ReleaseKey(p) \/ ReleaseFails(p) \/ Die(p) =>
                 phase[p] # "idle" /\ \A x \in Call \ {p} : phase'[x] = phase[x]
      BY <2>0 DEF Refuse, GiveUp, Record, Tell, ReleaseKey, ReleaseFails, Die, Types
    <3>2. ASSUME NEW p \in Call, NEW m \in Member, NEW k \in Key, NEW body \in Commands,
                 Send(p, m, k, body)
          PROVE  \A x \in Call \ {p} : phase'[x] = phase[x]
      <4>1. phase' = [phase EXCEPT ![p] = "done"] \/ phase' = [phase EXCEPT ![p] = "claimed"]
        BY <3>2 DEF Send, Tell, TakeClaim
      <4> QED BY <2>0, <4>1 DEF Types
    <3>3. \/ UNCHANGED phase
          \/ \E p \in Call :
                \/ \E m \in Member, k \in Key, body \in Commands : Send(p, m, k, body)
                \/ Refuse(p) \/ Record(p) \/ ReleaseKey(p) \/ ReleaseFails(p) \/ Die(p)
      BY <1>1 DEF ReceiptsNext, receiptVars, VoidPayment, ConfirmOrder, SettleOrder, CancelOrder, ReceiptsTick
    <3> QED BY <3>1, <3>2, <3>3
  <2>2. PICK m \in Member, k \in Key, body \in Commands : Send(r, m, k, body)
    BY <2>1
  <2>3. sent[q] = [member |-> m, key |-> k, body |-> body]
    <3>1. sent' = [sent EXCEPT ![r] = [member |-> m, key |-> k, body |-> body]]
      BY <2>2 DEF Send
    <3> QED BY <2>0, <3>1 DEF Types
  <2>4. ScopeOf(q) = <<m, k>> /\ <<m, k>> \in Member \X Key /\ sent[q].body = body
    BY <2>3 DEF ScopeOf, Scope
  <2>5. DirectionFits(body) /\ claim[<<m, k>>].owner = q /\ claim[<<m, k>>].completed
    BY <2>0, <2>4 DEF Booked
  <2>6. claim[<<m, k>>] # NoClaim
    BY <2>5 DEF NoClaim, CommandsAssumption
  <2>7. claim[<<m, k>>].hash = body /\ claim[<<m, k>>].result.number = q
    <3>1. Stands(<<m, k>>, q)
      BY <2>0, <2>4, <2>5, <2>6 DEF Claims, Stands
    <3> QED BY <2>4, <2>5, <3>1 DEF Stands, Tells
  <2>8. reply' = [reply EXCEPT ![r] = [kind |-> "REPLAYED", result |-> claim[<<m, k>>].result]]
    BY <2>2, <2>5, <2>6, <2>7 DEF Send, Scope, Hash, Tell
  <2> QED BY <2>0, <2>7, <2>8 DEF Types
<1> QED BY Invariant, <1>1, PTL DEF ReceiptsSpec, RecordedIsReplayed

-----------------------------------------------------------------------------
(***************************************************************************)
(* What the money of an order comes to: what confirmation and settlement   *)
(* collected, and the total of its live rows.  A void and a refund look at *)
(* that sum before they change it; what the order's own commands collect   *)
(* brings it to the price.                                                 *)
(***************************************************************************)
Amounts == [q \in Call |-> Signed(rows[q].body)]
Live == {q \in Call : rows[q].live}
LiveOf(o) == {q \in Live : rows[q].body.order = o}

OtherWentOut(o) == \E q \in Call : /\ rows[q].live /\ rows[q].body.order = o
                                   /\ rows[q].body.direction = "OUT" /\ rows[q].body.purpose = "OTHER"
Covered(o) == Net(o) >= 0 \/ OtherWentOut(o)

Summable == Types /\ receipts \in [Order -> Int] /\ IsFiniteSet(Live)
NetIsTotal == \A o \in Order :
                /\ Net(o) = receipts[o] + Total(LiveOf(o), Amounts)
                /\ \A q \in Call : NetWithout(o, {q}) = receipts[o] + Total(LiveOf(o) \ {q}, Amounts)

Accounts == /\ status \in [Order -> {"RESERVED", "CONFIRMED", "COMPLETED", "CANCELLED"}]
            /\ receipts \in [Order -> Int] /\ IsFiniteSet(Live)
            /\ \A q \in Live : rows[q].body.order \in Order
            /\ \A o \in Order : status[o] = "RESERVED" => receipts[o] = 0
            /\ \A o \in Order : Covered(o)

LEMMA LiveRows ==
    CommandsAssumption /\ Summable =>
      /\ \A q \in Live : rows[q] \in PaymentRow /\ rows[q].body \in Body /\ Amounts[q] \in Int
      /\ \A o : IsFiniteSet(LiveOf(o)) /\ LiveOf(o) \subseteq Live
<1> SUFFICES ASSUME CommandsAssumption, Summable PROVE
      /\ \A q \in Live : rows[q] \in PaymentRow /\ rows[q].body \in Body /\ Amounts[q] \in Int
      /\ \A o : IsFiniteSet(LiveOf(o)) /\ LiveOf(o) \subseteq Live
  OBVIOUS
<1>1. \A o : LiveOf(o) \subseteq Live /\ IsFiniteSet(LiveOf(o))
  <2>1. \A o : LiveOf(o) \subseteq Live
    BY DEF LiveOf
  <2> QED BY <2>1, FS_Subset DEF Summable
<1>2. ASSUME NEW q \in Live PROVE rows[q] \in PaymentRow /\ rows[q].body \in Body /\ Amounts[q] \in Int
  <2>1. q \in Call /\ rows[q] \in PaymentRow
    BY <1>2 DEF Live, Summable, Types, NoPayment
  <2>2. rows[q].body \in Body
    BY <2>1 DEF PaymentRow, CommandsAssumption
  <2>3. rows[q].body.amount \in Int
    BY <2>2 DEF Body
  <2> QED BY <2>1, <2>2, <2>3 DEF Amounts, Signed
<1> QED BY <1>1, <1>2

LEMMA NetValue == CommandsAssumption /\ Summable => NetIsTotal
<1> SUFFICES ASSUME CommandsAssumption, Summable PROVE NetIsTotal
  OBVIOUS
<1>1. ASSUME NEW o \in Order, NEW S PROVE NetWithout(o, S) = receipts[o] + Total(LiveOf(o) \ S, Amounts)
  <2> DEFINE T == {q \in Call \ S : rows[q].live /\ rows[q].body.order = o}
             b == receipts[o]
             f == [q \in T |-> Signed(rows[q].body)]
             Eq(it) == it = [U \in SUBSET T |-> IF U = {} THEN b
                               ELSE Signed(rows[CHOOSE q \in U : TRUE].body) + it[U \ {CHOOSE q \in U : TRUE}]]
  <2>1. T = LiveOf(o) \ S /\ T \subseteq Live
    BY DEF LiveOf, Live
  <2>2. IsFiniteSet(T) /\ T \subseteq Call
    BY <2>1, FS_Subset DEF Summable, Live
  <2>3. \A q \in T : f[q] \in Int /\ Amounts[q] = f[q]
    BY <2>1, <2>2, LiveRows DEF Amounts
  <2>4. b \in Int
    BY DEF Summable
  <2>5. ASSUME NEW it PROVE Eq(it) <=> FoldsTo(it, T, b, f)
    <3>1. \A U \in SUBSET T : U # {} => (CHOOSE q \in U : TRUE) \in T
      OBVIOUS
    <3>2. \A U \in SUBSET T : U # {} => Signed(rows[CHOOSE q \in U : TRUE].body) = f[CHOOSE q \in U : TRUE]
      BY <3>1
    <3> HIDE DEF f, T, b
    <3>3. [U \in SUBSET T |-> IF U = {} THEN b
             ELSE Signed(rows[CHOOSE q \in U : TRUE].body) + it[U \ {CHOOSE q \in U : TRUE}]]
          = [U \in SUBSET T |-> IF U = {} THEN b
             ELSE f[CHOOSE q \in U : TRUE] + it[U \ {CHOOSE q \in U : TRUE}]]
      BY <3>2
    <3> QED BY <3>3 DEF FoldsTo
  <2> HIDE DEF Eq
  <2>6. \E it : Eq(it)
    <3> HIDE DEF T, b, f
    <3>1. \E it : FoldsTo(it, T, b, f)
      BY <2>2, <2>3, <2>4, FoldExists
    <3> QED BY <2>5, <3>1
  <2>7. Eq(CHOOSE it : Eq(it))
    BY <2>6
  <2> DEFINE g == CHOOSE it : Eq(it)
  <2>8. NetWithout(o, S) = g[T]
    BY DEF NetWithout, MapThenFoldSet, Eq
  <2> HIDE DEF T, b, f, g
  <2>9. g[T] = b + Total(T, f)
    BY <2>2, <2>3, <2>4, <2>5, <2>7, FoldIsTotal DEF g
  <2>10. Total(T, Amounts) = Total(T, f)
    BY <2>2, <2>3, TotalSame
  <2> QED BY <2>1, <2>8, <2>9, <2>10 DEF b
<1>2. \A o \in Order : LiveOf(o) \ {} = LiveOf(o)
  OBVIOUS
<1> QED BY <1>1, <1>2 DEF Net, NetIsTotal

LEMMA NetValueThen == CommandsAssumption => (Summable' => NetIsTotal')
<1> SUFFICES ASSUME CommandsAssumption PROVE (Summable => NetIsTotal)'
  OBVIOUS
<1>1. Summable => NetIsTotal
  BY NetValue
<1> QED BY <1>1, PTL

\* An order whose rows and collections stay is as covered as it was.
LEMMA CoveredThen ==
    ASSUME CommandsAssumption, Summable, Summable', NEW o \in Order, Covered(o),
           receipts'[o] = receipts[o], LiveOf(o)' = LiveOf(o), \A q \in LiveOf(o) : rows'[q] = rows[q]
    PROVE  Covered(o)'
<1>1. Net(o) = receipts[o] + Total(LiveOf(o), Amounts) /\ Net(o)' = receipts'[o] + Total(LiveOf(o)', Amounts')
  BY NetValue, NetValueThen DEF NetIsTotal
<1>2. IsFiniteSet(LiveOf(o)) /\ \A q \in LiveOf(o) : Amounts[q] \in Int /\ Amounts'[q] = Amounts[q]
  BY LiveRows DEF Amounts, LiveOf, Live
<1>3. Total(LiveOf(o), Amounts') = Total(LiveOf(o), Amounts)
  BY <1>2, TotalSame
<1>4. OtherWentOut(o) => OtherWentOut(o)'
  <2> SUFFICES ASSUME NEW q \in Call, rows[q].live, rows[q].body.order = o,
                      rows[q].body.direction = "OUT", rows[q].body.purpose = "OTHER"
               PROVE  OtherWentOut(o)'
    BY DEF OtherWentOut
  <2>1. rows'[q] = rows[q]
    BY DEF LiveOf, Live
  <2> QED BY <2>1 DEF OtherWentOut
<1>5. Net(o)' = Net(o)
  BY <1>1, <1>3
<1> QED BY <1>4, <1>5 DEF Covered

\* A step that leaves the rows: one order's collections and status may change.
LEMMA RowsStay ==
    ASSUME CommandsAssumption, Summable, Accounts, Types', rows' = rows,
           status' \in [Order -> {"RESERVED", "CONFIRMED", "COMPLETED", "CANCELLED"}],
           receipts' \in [Order -> Int],
           \A o \in Order : \/ /\ receipts'[o] = receipts[o]
                               /\ status'[o] = "RESERVED" => status[o] = "RESERVED"
                            \/ status'[o] # "RESERVED" /\ receipts'[o] + (Net(o) - receipts[o]) >= 0
    PROVE  Accounts'
<1>1. Live' = Live /\ Amounts' = Amounts /\ \A o : LiveOf(o)' = LiveOf(o)
  BY DEF Live, LiveOf, Amounts
<1>2. Summable'
  BY <1>1 DEF Accounts, Summable
<1>3. ASSUME NEW o \in Order PROVE Covered(o)'
  <2>1. CASE receipts'[o] = receipts[o]
    BY <1>1, <1>2, <2>1, CoveredThen DEF Accounts
  <2>2. CASE receipts'[o] + (Net(o) - receipts[o]) >= 0
    <3>1. Net(o) = receipts[o] + Total(LiveOf(o), Amounts) /\ Net(o)' = receipts'[o] + Total(LiveOf(o), Amounts)
      BY <1>1, <1>2, NetValue, NetValueThen DEF NetIsTotal
    <3>2. Total(LiveOf(o), Amounts) \in Int /\ receipts[o] \in Int /\ receipts'[o] \in Int
      BY LiveRows, TotalIsInt DEF Summable, LiveOf
    <3> QED BY <2>2, <3>1, <3>2 DEF Covered
  <2> QED BY <2>1, <2>2
<1>4. \A o \in Order : status'[o] = "RESERVED" => receipts'[o] = 0
  BY DEF Accounts
<1>5. \A q \in Live' : rows'[q].body.order \in Order
  BY <1>1 DEF Accounts
<1> QED BY <1>2, <1>3, <1>4, <1>5 DEF Accounts, Summable

LEMMA NetIsInt ==
    ASSUME CommandsAssumption, Summable, NEW o \in Order PROVE Net(o) \in Int /\ receipts[o] \in Int
<1>1. Total(LiveOf(o), Amounts) \in Int
  BY LiveRows, TotalIsInt
<1> QED BY <1>1, NetValue DEF NetIsTotal, Summable

\* Confirmation brings the sum to the price or leaves it above it, settlement to the price.
LEMMA CollectionStep ==
    ASSUME CommandsAssumption, Summable, Accounts, Types', NEW p \in Order, ConfirmOrder(p) \/ SettleOrder(p)
    PROVE  Accounts'
<1>1. /\ rows' = rows /\ \A o \in Order \ {p} : receipts'[o] = receipts[o] /\ status'[o] = status[o]
      /\ status' \in [Order -> {"RESERVED", "CONFIRMED", "COMPLETED", "CANCELLED"}]
      /\ status'[p] # "RESERVED"
  BY DEF ConfirmOrder, SettleOrder, Accounts
<1>2. Price \in Int /\ Price >= 0 /\ Net(p) \in Int /\ receipts[p] \in Int
  BY NetIsInt DEF CommandsAssumption
<1>3. receipts'[p] \in Int /\ receipts'[p] + (Net(p) - receipts[p]) >= 0
  <2>1. CASE ConfirmOrder(p)
    <3>1. receipts[p] = 0 /\ receipts'[p] = IF Net(p) < Price THEN Price - Net(p) ELSE 0
      BY <2>1 DEF ConfirmOrder, Accounts
    <3> QED BY <1>2, <3>1
  <2>2. CASE SettleOrder(p)
    <3>1. receipts'[p] = receipts[p] + Price - Net(p)
      BY <2>2 DEF SettleOrder, Accounts
    <3> QED BY <1>2, <3>1
  <2> QED BY <2>1, <2>2
<1>4. \E x : receipts' = [receipts EXCEPT ![p] = x]
  BY DEF ConfirmOrder, SettleOrder
<1>5. receipts' \in [Order -> Int]
  BY <1>3, <1>4 DEF Accounts
<1> QED BY <1>1, <1>3, <1>5, RowsStay

\* A row may be voided that the order can do without.
LEMMA VoidIsCovered ==
    ASSUME CommandsAssumption, Summable, Accounts, Types', NEW q \in Call, VoidPayment(q)
    PROVE  Accounts'
<1>0. q \in Live /\ rows[q].body.order \in Order
  BY DEF VoidPayment, Live, Accounts
<1> PICK p \in Order : p = rows[q].body.order
  BY <1>0
<1>1. /\ q \in Live /\ rows[q].body.order = p /\ status[p] = "RESERVED" /\ NetWithout(p, {q}) >= 0
      /\ rows' = [rows EXCEPT ![q].live = FALSE] /\ status' = status /\ receipts' = receipts
  BY DEF VoidPayment, Live, Accounts
<1>2. /\ rows[q] \in PaymentRow /\ ~rows'[q].live /\ rows'[q].body = rows[q].body
      /\ \A r \in Call \ {q} : rows'[r] = rows[r]
  BY <1>1, LiveRows DEF Summable, Types, PaymentRow
<1>3. /\ Live' = Live \ {q} /\ \A o : LiveOf(o)' = LiveOf(o) \ {q}
  BY <1>2 DEF Live, LiveOf
<1>4. Summable'
  BY <1>1, <1>3, FS_RemoveElement DEF Summable
<1>5. ASSUME NEW o \in Order PROVE Covered(o)'
  <2>1. CASE o = p
    <3> DEFINE S == LiveOf(p) \ {q}
    <3>1. NetWithout(p, {q}) = receipts[p] + Total(S, Amounts) /\ Net(p)' = receipts[p] + Total(S, Amounts')
      BY <1>1, <1>3, <1>4, NetValue, NetValueThen DEF NetIsTotal
    <3>2. IsFiniteSet(S) /\ \A r \in S : r \in Call \ {q} /\ Amounts[r] \in Int
      <4>1. IsFiniteSet(LiveOf(p)) /\ \A r \in LiveOf(p) : r \in Call /\ Amounts[r] \in Int
        BY LiveRows DEF LiveOf, Live
      <4> QED BY <4>1, FS_RemoveElement
    <3>3. \A r \in S : Amounts'[r] = Amounts[r]
      BY <1>2, <3>2 DEF Amounts
    <3> HIDE DEF S
    <3>4. Total(S, Amounts') = Total(S, Amounts)
      BY <3>2, <3>3, TotalSame
    <3> QED BY <1>1, <2>1, <3>1, <3>4 DEF Covered
  <2>2. CASE o # p
    <3>1. q \notin LiveOf(o)
      BY <1>1, <2>2 DEF LiveOf
    <3>2. LiveOf(o)' = LiveOf(o) /\ \A r \in LiveOf(o) : rows'[r] = rows[r]
      BY <1>2, <1>3, <3>1 DEF LiveOf, Live
    <3> QED BY <1>1, <1>4, <3>2, CoveredThen DEF Accounts
  <2> QED BY <2>1, <2>2
<1>6. \A r \in Live' : rows'[r].body.order \in Order
  BY <1>2, <1>3 DEF Accounts, Live
<1> QED BY <1>1, <1>4, <1>5, <1>6 DEF Accounts, Summable

\* A row that is recorded adds its amount, or takes what is there, or is neither
\* receipt nor refund.
LEMMA RecordIsCovered ==
    ASSUME CommandsAssumption, Summable, Accounts, Types', Begun, NEW q \in Call, Record(q)
    PROVE  Accounts'
<1>0. sent[q] \in Ask /\ sent[q].body.order # Missing
  BY DEF Record, Begun
<1> PICK body \in Body : body = sent[q].body
  BY <1>0 DEF Ask, CommandsAssumption
<1> PICK p \in Order : p = body.order
  BY <1>0 DEF Body
<1>1. /\ status' = status /\ receipts' = receipts /\ RefundCovered(body)
      /\ ~Recorded(q) /\ DirectionFits(body)
      /\ rows'[q].body = body /\ rows'[q].live /\ \A r \in Call \ {q} : rows'[r] = rows[r]
  BY DEF Record, Begun, Summable, Types
<1>2. body \in Body /\ p \in Order /\ body.order = p
  OBVIOUS
<1>3. q \notin Live
  BY <1>1 DEF Recorded, NoPayment, Live
<1>4. Live' = Live \cup {q} /\ LiveOf(p)' = LiveOf(p) \cup {q} /\ \A o : o # p => LiveOf(o)' = LiveOf(o)
  <2>1. Live' = Live \cup {q}
    BY <1>1, <1>3 DEF Live
  <2>2. \A r \in Live : rows'[r] = rows[r] /\ r # q
    BY <1>1, <1>3 DEF Live
  <2> QED BY <1>1, <2>1, <2>2 DEF LiveOf
<1>5. Summable'
  BY <1>1, <1>4, FS_AddElement DEF Summable
<1>6. Covered(p)'
  <2> DEFINE S == LiveOf(p)
             n == Total(S, Amounts)
  <2>1. IsFiniteSet(S \cup {q}) /\ IsFiniteSet(S) /\ q \notin S /\ \A r \in S : r \in Call \ {q} /\ Amounts[r] \in Int
    <3>1. IsFiniteSet(S) /\ q \notin S /\ \A r \in S : r \in Call /\ Amounts[r] \in Int
      BY <1>3, LiveRows DEF LiveOf, Live
    <3> QED BY <3>1, FS_AddElement
  <2>2. \A r \in S : Amounts'[r] = Amounts[r]
    BY <1>1, <2>1 DEF Amounts
  <2>3. Amounts'[q] = Signed(body) /\ Signed(body) \in Int /\ body.amount \in Nat
        /\ (body.direction = "IN" => Signed(body) >= 0)
        /\ (body.direction # "IN" => Signed(body) = -body.amount)
    BY <1>1, <1>2 DEF Amounts, Signed, Body
  <2>4. Net(p) = receipts[p] + n /\ Net(p)' = receipts[p] + Total(S \cup {q}, Amounts')
    BY <1>1, <1>2, <1>4, <1>5, NetValue, NetValueThen DEF NetIsTotal
  <2> HIDE DEF S
  <2>5. Total(S \cup {q}, Amounts') = Signed(body) + n /\ n \in Int
    <3>1. \A r \in S \cup {q} : Amounts'[r] \in Int
      BY <2>1, <2>2, <2>3
    <3>2. (S \cup {q}) \ {q} = S /\ q \in S \cup {q}
      BY <2>1
    <3>3. Total(S \cup {q}, Amounts') = Amounts'[q] + Total(S, Amounts')
      BY <2>1, <3>1, <3>2, TotalWithout
    <3>4. Total(S, Amounts') = n /\ n \in Int
      BY <2>1, <2>2, TotalSame, TotalIsInt
    <3> QED BY <2>3, <3>3, <3>4
  <2> HIDE DEF n
  <2>6. receipts[p] \in Int
    BY <1>2 DEF Summable
  <2>7. Net(p)' = Net(p) + Signed(body) /\ Net(p) \in Int
    BY <2>3, <2>4, <2>5, <2>6
  <2>8. body.direction \in {"IN", "OUT"}
    BY <1>2 DEF Body
  <2>9. CASE body.direction = "IN"
    <3>1. OtherWentOut(p) => OtherWentOut(p)'
      <4> SUFFICES ASSUME NEW r \in Call, rows[r].live, rows[r].body.order = p,
                          rows[r].body.direction = "OUT", rows[r].body.purpose = "OTHER"
                   PROVE  OtherWentOut(p)'
        BY DEF OtherWentOut
      <4>1. rows'[r] = rows[r]
        BY <1>1, <1>3 DEF Live
      <4> QED BY <4>1 DEF OtherWentOut
    <3>2. Covered(p)
      BY <1>2 DEF Accounts
    <3> QED BY <2>3, <2>7, <2>9, <3>1, <3>2 DEF Covered
  <2>10. CASE body.direction = "OUT" /\ body.purpose = "ORDER_REFUND"
    <3>1. body.amount <= Net(p)
      BY <1>1, <2>10 DEF RefundCovered
    <3> QED BY <2>3, <2>7, <2>10, <3>1 DEF Covered
  <2>11. CASE body.direction = "OUT" /\ body.purpose = "OTHER"
    BY <1>1, <2>11 DEF Covered, OtherWentOut
  <2> QED BY <1>1, <2>8, <2>9, <2>10, <2>11 DEF DirectionFits
<1>7. ASSUME NEW o \in Order PROVE Covered(o)'
  <2>1. CASE o # p
    <3>1. \A r \in LiveOf(o) : rows'[r] = rows[r]
      BY <1>1, <1>3 DEF LiveOf, Live
    <3> QED BY <1>1, <1>4, <1>5, <2>1, <3>1, CoveredThen DEF Accounts
  <2> QED BY <1>6, <2>1
<1>8. \A r \in Live' : rows'[r].body.order \in Order
  BY <1>1, <1>2, <1>3, <1>4 DEF Accounts, Live
<1> QED BY <1>1, <1>5, <1>7, <1>8 DEF Accounts, Summable

LEMMA AccountsInitially == CommandsAssumption /\ ReceiptsInit => Accounts
<1> SUFFICES ASSUME CommandsAssumption, ReceiptsInit PROVE Accounts
  OBVIOUS
<1>1. Live = {} /\ \A o : LiveOf(o) = {}
  BY DEF ReceiptsInit, Live, LiveOf, NoPayment
<1>2. Summable
  BY <1>1, Initially, FS_EmptySet DEF ReceiptsInit, IInv, Summable
<1>3. \A o \in Order : Net(o) = 0
  <2>1. Total({}, Amounts) = 0
    BY TotalOfNothing
  <2>2. \A o \in Order : receipts[o] = 0 /\ Net(o) = receipts[o] + Total({}, Amounts)
    BY <1>1, <1>2, NetValue DEF NetIsTotal, ReceiptsInit
  <2> QED BY <2>1, <2>2
<1> QED BY <1>1, <1>2, <1>3 DEF ReceiptsInit, Accounts, Covered, Summable

LEMMA AccountsPreserved == ASSUME CommandsAssumption, IInv, Accounts, [ReceiptsNext]_receiptVars PROVE Accounts'
<1>0. Summable /\ Types' /\ Begun
  BY Preserved DEF Summable, Accounts, IInv
<1>1. ASSUME rows' = rows, receipts' = receipts, status' = status \/ \E o \in Order : CancelOrder(o)
      PROVE  Accounts'
  <2>1. /\ status' \in [Order -> {"RESERVED", "CONFIRMED", "COMPLETED", "CANCELLED"}]
        /\ \A o \in Order : status'[o] = "RESERVED" => status[o] = "RESERVED"
    BY <1>1 DEF Accounts, CancelOrder
  <2> QED BY <1>0, <1>1, <2>1, RowsStay DEF Accounts
<1>2. CASE \E r \in Call : \/ \E m \in Member, k \in Key, body \in Commands : Send(r, m, k, body)
                           \/ Refuse(r) \/ ReleaseKey(r) \/ ReleaseFails(r) \/ Die(r)
  BY <1>1, <1>2 DEF Send, Refuse, GiveUp, ReleaseKey, ReleaseFails, Die
<1>3. CASE ReceiptsTick \/ UNCHANGED receiptVars \/ \E o \in Order : CancelOrder(o)
  BY <1>1, <1>3 DEF ReceiptsTick, receiptVars, CancelOrder
<1>4. CASE \E q \in Call : Record(q)
  BY <1>0, <1>4, RecordIsCovered
<1>5. CASE \E q \in Call : VoidPayment(q)
  BY <1>0, <1>5, VoidIsCovered
<1>6. CASE \E o \in Order : ConfirmOrder(o) \/ SettleOrder(o)
  <2>1. PICK o \in Order : ConfirmOrder(o) \/ SettleOrder(o)
    BY <1>6
  <2>2. Types'
    BY <1>0
  <2> QED BY <1>0, <2>1, <2>2, CollectionStep
<1> QED BY <1>2, <1>3, <1>4, <1>5, <1>6 DEF ReceiptsNext

(***************************************************************************)
(* What was received for an order covers what was refunded, unless money   *)
(* went out for another purpose: refunds and voids are checked against the *)
(* rows in force under the lock that the row is written under, and         *)
(* confirmation and settlement bring the sum to the price                  *)
(* (createPayment, voidPayment).                                           *)
(***************************************************************************)
THEOREM RefundsAreCovered == CommandsAssumption => (ReceiptsSpec => []RefundsStayCovered)
<1> SUFFICES ASSUME CommandsAssumption PROVE ReceiptsSpec => []RefundsStayCovered
  OBVIOUS
<1>1. ReceiptsInit => IInv /\ Accounts
  BY Initially, AccountsInitially
<1>2. IInv /\ Accounts /\ [ReceiptsNext]_receiptVars => (IInv /\ Accounts)'
  BY Preserved, AccountsPreserved
<1>3. Accounts => RefundsStayCovered
  BY DEF Accounts, Covered, OtherWentOut, RefundsStayCovered
<1> QED BY <1>1, <1>2, <1>3, PTL DEF ReceiptsSpec

(***************************************************************************)
(* All that is checked of receipts written by hand, at every state: one    *)
(* per key, told as it was recorded, no key left blocked by a refusal, and *)
(* refunds covered.                                                        *)
(***************************************************************************)
THEOREM ReceiptsAreKept == CommandsAssumption => (ReceiptsSpec => []ReceiptsAreRecordedOnce)
<1> SUFFICES ASSUME CommandsAssumption PROVE ReceiptsSpec => []ReceiptsAreRecordedOnce
  OBVIOUS
<1>1. ReceiptsInit => Accounts
  BY AccountsInitially
<1>2. IInv /\ Accounts /\ [ReceiptsNext]_receiptVars => Accounts'
  BY AccountsPreserved
<1>3. ASSUME IInv, Accounts PROVE ReceiptsTypeOK
  <2>1. ASSUME NEW s \in Member \X Key, claim[s] # NoClaim
        PROVE  /\ claim[s].owner \in Call /\ claim[s].result \in Receipt \cup {NoReceipt}
               /\ claim[s].completed = (claim[s].result # NoReceipt)
    <3>1. claim[s] \in Claim /\ claim[s].completed \in BOOLEAN /\ claim[s].result \in Receipt \cup {NoReceipt}
      BY <1>3 DEF IInv, Types, Claim, Results
    <3>2. PICK q \in Call : Stands(s, q)
      BY <1>3, <2>1 DEF IInv, Claims
    <3>3. Tells(claim[s].result, q) => claim[s].result # NoReceipt
      BY DEF Tells, NoReceipt, CommandsAssumption
    <3>4. claim[s].completed <=> claim[s].result # NoReceipt
      BY <3>2, <3>3 DEF Stands
    <3> QED BY <3>1, <3>2, <3>4 DEF Stands
  <2>2. ASSUME NEW r \in Call PROVE reply[r].result # NoReceipt <=> reply[r].kind \in {"EXECUTED", "REPLAYED"}
    <3>1. \A q \in Call : Tells(reply[r].result, q) => reply[r].result # NoReceipt
      BY DEF Tells, NoReceipt, CommandsAssumption
    <3> QED BY <1>3, <3>1 DEF IInv, Answers, Told
  <2> QED BY <1>3, <2>1, <2>2 DEF IInv, Types, Accounts, Stages, ReceiptsTypeOK
<1>4. IInv /\ Accounts => ReceiptsTypeOK
  BY <1>3
<1>5. ReceiptsTypeOK /\ OneReceiptPerKey /\ AnswersTellTheReceipt /\ NoClaimIsLeftBehind /\ RefundsStayCovered
        => ReceiptsAreRecordedOnce
  BY DEF ReceiptsAreRecordedOnce
<1> QED BY <1>1, <1>2, <1>4, <1>5, Invariant, KeyRecordsOnce, AnswersTellTheTruth, RefusalsFreeTheKey,
           RefundsAreCovered, PTL DEF ReceiptsSpec

-----------------------------------------------------------------------------
(***************************************************************************)
(* The return of an order.  Sums of charges first: ChargeSum adds up the   *)
(* amounts, so it adds over disjoint sets.                                 *)
(***************************************************************************)
LEMMA TotalOfUnion ==
    ASSUME NEW A, NEW B, IsFiniteSet(A), IsFiniteSet(B), A \cap B = {},
           NEW f, \A x \in A \cup B : f[x] \in Int
    PROVE  Total(A \cup B, f) = Total(A, f) + Total(B, f)
<1> DEFINE g == [T \in SUBSET B |-> Total(A \cup T, f)]
           h == [T \in SUBSET B |-> Total(A, f) + Total(T, f)]
<1>1. \A T \in SUBSET B : g[T] = Total(A \cup T, f) /\ h[T] = Total(A, f) + Total(T, f)
  OBVIOUS
<1>2. ASSUME NEW T \in SUBSET B PROVE IsFiniteSet(T) /\ IsFiniteSet(A \cup T)
  BY FS_Subset, FS_Union
<1>3. Total(A, f) \in Int /\ \A T \in SUBSET B : Total(T, f) \in Int
  <2>1. ASSUME NEW T \in SUBSET B PROVE Total(T, f) \in Int
    <3>1. IsFiniteSet(T) /\ \A x \in T : f[x] \in Int
      BY <1>2
    <3> QED BY <3>1, TotalIsInt
  <2>2. Total(A, f) \in Int
    BY TotalIsInt
  <2> QED BY <2>1, <2>2
<1> HIDE DEF g, h
<1>4. g[{}] = h[{}]
  <2>1. Total({}, f) = 0
    BY TotalOfNothing
  <2>2. A \cup {} = A
    OBVIOUS
  <2>3. g[{}] = Total(A \cup {}, f) /\ h[{}] = Total(A, f) + Total({}, f)
    BY <1>1
  <2>4. g[{}] = Total(A, f)
    BY <2>2, <2>3
  <2> QED BY <1>3, <2>1, <2>3, <2>4
<1>5. ASSUME NEW T \in SUBSET B, T # {} PROVE \E x \in T : g[T \ {x}] = h[T \ {x}] => g[T] = h[T]
  <2>1. PICK x \in T : TRUE
    BY <1>5
  <2>2. (A \cup T) \ {x} = A \cup (T \ {x}) /\ x \in A \cup T /\ T \ {x} \in SUBSET B /\ f[x] \in Int
    BY <2>1
  <2>3. Total(A \cup T, f) = f[x] + Total(A \cup (T \ {x}), f)
    <3>1. IsFiniteSet(A \cup T) /\ \A y \in A \cup T : f[y] \in Int
      BY <1>2
    <3> HIDE DEF g
    <3>2. Total(A \cup T, f) = f[x] + Total((A \cup T) \ {x}, f)
      BY <2>2, <3>1, TotalWithout
    <3> QED BY <2>2, <3>2
  <2>4. Total(T, f) = f[x] + Total(T \ {x}, f)
    <3>1. IsFiniteSet(T) /\ \A y \in T : f[y] \in Int
      BY <1>2
    <3> QED BY <2>1, <3>1, TotalWithout
  <2>5. Total(T \ {x}, f) \in Int /\ Total(T, f) \in Int
    BY <1>3, <2>2
  <2>6. ASSUME g[T \ {x}] = h[T \ {x}] PROVE g[T] = h[T]
    <3>1. Total(A \cup (T \ {x}), f) = Total(A, f) + Total(T \ {x}, f)
      BY <1>1, <2>2, <2>6
    <3>2. Total(A \cup T, f) = Total(A, f) + Total(T, f)
      BY <1>3, <2>2, <2>3, <2>4, <2>5, <3>1
    <3> QED BY <1>1, <3>2
  <2> QED BY <2>1, <2>6
<1>6. InStep(g, h, B)
  BY <1>4, <1>5 DEF InStep
<1>7. g[B] = h[B]
  BY <1>6, InStepAgree
<1> QED BY <1>1, <1>7

LEMMA TotalIsNat ==
    ASSUME NEW S, IsFiniteSet(S), NEW f, \A x \in S : f[x] \in Nat PROVE Total(S, f) \in Nat
<1> DEFINE F == {T \in SUBSET S : Total(T, f) \notin Nat}
<1>1. CASE F # {}
  <2>1. PICK T \in F : \A x \in T : T \ {x} \notin F
    BY <1>1, SmallestMember
  <2>2. T # {}
    BY <2>1, TotalOfNothing
  <2>3. PICK x \in T : TRUE
    BY <2>2
  <2>4. IsFiniteSet(T) /\ T \in SUBSET S /\ T \ {x} \in SUBSET S /\ \A y \in T : f[y] \in Int
    BY <2>1, FS_Subset
  <2>5. Total(T, f) = f[x] + Total(T \ {x}, f)
    BY <2>3, <2>4, TotalWithout
  <2>6. f[x] \in Nat /\ Total(T \ {x}, f) \in Nat
    BY <2>1, <2>4
  <2> QED BY <2>1, <2>5, <2>6
<1> QED BY <1>1

LEMMA SumIsTotal ==
    ASSUME NEW S, IsFiniteSet(S), NEW f, \A c \in S : c.amount \in Int /\ f[c] = c.amount
    PROVE  ChargeSum(S) = Total(S, f)
<1> DEFINE Eq(it) == it = [U \in SUBSET S |-> IF U = {} THEN 0
                            ELSE (CHOOSE c \in U : TRUE).amount + it[U \ {CHOOSE c \in U : TRUE}]]
<1>1. ASSUME NEW it PROVE Eq(it) <=> FoldsTo(it, S, 0, f)
  <2>1. \A U \in SUBSET S : U # {} => (CHOOSE c \in U : TRUE).amount = f[CHOOSE c \in U : TRUE]
    OBVIOUS
  <2>2. [U \in SUBSET S |-> IF U = {} THEN 0
           ELSE (CHOOSE c \in U : TRUE).amount + it[U \ {CHOOSE c \in U : TRUE}]]
        = [U \in SUBSET S |-> IF U = {} THEN 0
           ELSE f[CHOOSE c \in U : TRUE] + it[U \ {CHOOSE c \in U : TRUE}]]
    BY <2>1
  <2> QED BY <2>2 DEF FoldsTo
<1> HIDE DEF Eq
<1>2. \A c \in S : f[c] \in Int
  OBVIOUS
<1>3. \E it : Eq(it)
  <2>1. \E it : FoldsTo(it, S, 0, f)
    BY <1>2, FoldExists
  <2> QED BY <1>1, <2>1
<1>4. Eq(CHOOSE it : Eq(it))
  BY <1>3
<1> DEFINE g == CHOOSE it : Eq(it)
<1>5. ChargeSum(S) = g[S]
  BY DEF ChargeSum, MapThenSumSet, MapThenFoldSet, Eq
<1> HIDE DEF g
<1>6. g[S] = 0 + Total(S, f)
  BY <1>1, <1>2, <1>4, FoldIsTotal DEF g
<1>7. Total(S, f) \in Int
  BY <1>2, TotalIsInt
<1> QED BY <1>5, <1>6, <1>7

\* Charges have amounts that are not negative.
Chargeable(S) == IsFiniteSet(S) /\ \A c \in S : c.amount \in Nat

LEMMA ChargeSumOfUnion ==
    ASSUME NEW A, NEW B, Chargeable(A), Chargeable(B), A \cap B = {}
    PROVE  Chargeable(A \cup B) /\ ChargeSum(A \cup B) = ChargeSum(A) + ChargeSum(B)
<1> DEFINE f == [c \in A \cup B |-> c.amount]
<1>1. IsFiniteSet(A) /\ IsFiniteSet(B) /\ IsFiniteSet(A \cup B)
  BY FS_Union DEF Chargeable
<1>2. \A c \in A \cup B : c.amount \in Nat /\ f[c] = c.amount
  BY DEF Chargeable
<1> HIDE DEF f
<1>3. ChargeSum(A \cup B) = Total(A \cup B, f)
  BY <1>1, <1>2, SumIsTotal
<1>4. ChargeSum(A) = Total(A, f) /\ ChargeSum(B) = Total(B, f)
  BY <1>1, <1>2, SumIsTotal
<1>5. Total(A \cup B, f) = Total(A, f) + Total(B, f)
  BY <1>1, <1>2, TotalOfUnion
<1> QED BY <1>1, <1>2, <1>3, <1>4, <1>5 DEF Chargeable

LEMMA SumIsNat == ASSUME NEW S, Chargeable(S) PROVE ChargeSum(S) \in Nat
<1> DEFINE f == [c \in S |-> c.amount]
<1>1. IsFiniteSet(S) /\ \A c \in S : c.amount \in Int /\ f[c] \in Nat /\ f[c] = c.amount
  BY DEF Chargeable
<1> HIDE DEF f
<1> QED BY <1>1, SumIsTotal, TotalIsNat

LEMMA ChargeSumOfNothing == Chargeable({}) /\ ChargeSum({}) = 0
<1>1. IsFiniteSet({})
  BY FS_EmptySet
<1>2. ChargeSum({}) = Total({}, [c \in {} |-> 0])
  BY <1>1, SumIsTotal
<1> QED BY <1>1, <1>2, TotalOfNothing DEF Chargeable

LEMMA ChargeSumOfOne == ASSUME NEW c, c.amount \in Nat PROVE Chargeable({c}) /\ ChargeSum({c}) = c.amount
<1> DEFINE f == [x \in {c} |-> x.amount]
<1>0. IsFiniteSet({c})
  BY FS_Singleton
<1>1. \A x \in {c} : x.amount \in Int /\ f[x] \in Int /\ f[x] = x.amount
  OBVIOUS
<1>2. f[c] = c.amount /\ c \in {c} /\ {c} \ {c} = {}
  OBVIOUS
<1> HIDE DEF f
<1>3. ChargeSum({c}) = Total({c}, f)
  BY <1>0, <1>1, SumIsTotal
<1>4. Total({c}, f) = f[c] + Total({c} \ {c}, f)
  BY <1>0, <1>1, <1>2, TotalWithout
<1>5. Total({}, f) = 0
  BY TotalOfNothing
<1> QED BY <1>0, <1>1, <1>2, <1>3, <1>4, <1>5 DEF Chargeable

LEMMA PartIsChargeable == ASSUME NEW S, NEW T, Chargeable(S), T \subseteq S PROVE Chargeable(T)
BY FS_Subset DEF Chargeable

(***************************************************************************)
(* The charges of a return are those of its pieces and of no piece.  While *)
(* the order is out only manual ones are there, until the settlement none  *)
(* of its own; so what a piece was charged for its time can be told from   *)
(* the piece and the source of a charge, at the return and after it.       *)
(***************************************************************************)
Fee == [late : Nat, extra : Nat]
Sources == TimeFeeSources \cup {"RETURN_INSPECTION", "RETURN_MANUAL_CHARGE", "ADDED"}
IsCharge(c) == c.piece \in Pieces \cup {NoPiece} /\ c.source \in Sources /\ c.amount \in Nat
Inspections == [condition : Condition, late : Nat, extra : Nat]

ReturnTypes == /\ orderStatus \in {"ACTIVE", "RETURNED", "COMPLETED"}
               /\ IsFiniteSet(chargeRows) /\ \A c \in chargeRows : IsCharge(c)
               /\ inspection \in [Pieces -> Inspections \cup {None}]

OfPieces == \A c \in chargeRows :
              /\ c.source = "ADDED" => c.piece = NoPiece
              /\ c.source \in TimeFeeSources => c.piece \in Out \ Free
StillOut == orderStatus = "ACTIVE" =>
              /\ \A i \in Pieces : inspection[i] = None /\ warehouse[i].rentals = 0
              /\ \A c \in chargeRows : c.source = "ADDED"
NotSettled == orderStatus = "RETURNED" => \A c \in chargeRows : c.source # "SETTLEMENT_TIME_FEE"

ReturnInv == /\ ReturnTypes /\ OfPieces /\ StillOut /\ NotSettled
             /\ EveryPieceIsInspectedOnce /\ ChargesMatchInspections /\ FreeAccessoriesCostOnlyDamage

LEMMA ReturnInitially == PiecesAssumption /\ FeesAssumption /\ ReturnInit => ReturnInv
<1> SUFFICES ASSUME PiecesAssumption, FeesAssumption, ReturnInit PROVE ReturnInv
  OBVIOUS
<1>1. ReturnTypes /\ OfPieces /\ StillOut /\ NotSettled
  BY FS_EmptySet DEF ReturnInit, ReturnTypes, OfPieces, StillOut, NotSettled
<1>2. EveryPieceIsInspectedOnce /\ FreeAccessoriesCostOnlyDamage
  BY DEF ReturnInit, EveryPieceIsInspectedOnce, FreeAccessoriesCostOnlyDamage
<1>3. ChargesMatchInspections
  BY ChargeSumOfNothing DEF ReturnInit, ChargesMatchInspections, Given
<1> QED BY <1>1, <1>2, <1>3 DEF ReturnInv

\* The sums of the record depend on the fees of the pieces that are out only.
LEMMA TimeFeesAreTotals ==
    ASSUME IsFiniteSet(Out), NEW fees, \A i \in Out : fees[i].late \in Int /\ fees[i].extra \in Int,
           NEW l, NEW e, \A i \in Out : l[i] = fees[i].late /\ e[i] = fees[i].extra
    PROVE  TimeFeesOf(fees) = [late |-> Total(Out, l), extra |-> Total(Out, e)]
<1> DEFINE EqL(it) == it = [U \in SUBSET Out |-> IF U = {} THEN 0
                              ELSE fees[CHOOSE i \in U : TRUE].late + it[U \ {CHOOSE i \in U : TRUE}]]
           EqE(it) == it = [U \in SUBSET Out |-> IF U = {} THEN 0
                              ELSE fees[CHOOSE i \in U : TRUE].extra + it[U \ {CHOOSE i \in U : TRUE}]]
<1>1. ASSUME NEW it PROVE (EqL(it) <=> FoldsTo(it, Out, 0, l)) /\ (EqE(it) <=> FoldsTo(it, Out, 0, e))
  <2>1. \A U \in SUBSET Out : U # {} => (CHOOSE i \in U : TRUE) \in Out
    OBVIOUS
  <2>2. [U \in SUBSET Out |-> IF U = {} THEN 0
           ELSE fees[CHOOSE i \in U : TRUE].late + it[U \ {CHOOSE i \in U : TRUE}]]
        = [U \in SUBSET Out |-> IF U = {} THEN 0
           ELSE l[CHOOSE i \in U : TRUE] + it[U \ {CHOOSE i \in U : TRUE}]]
    BY <2>1
  <2>3. [U \in SUBSET Out |-> IF U = {} THEN 0
           ELSE fees[CHOOSE i \in U : TRUE].extra + it[U \ {CHOOSE i \in U : TRUE}]]
        = [U \in SUBSET Out |-> IF U = {} THEN 0
           ELSE e[CHOOSE i \in U : TRUE] + it[U \ {CHOOSE i \in U : TRUE}]]
    BY <2>1
  <2> QED BY <2>2, <2>3 DEF FoldsTo
<1> HIDE DEF EqL, EqE
<1>2. \A i \in Out : l[i] \in Int /\ e[i] \in Int
  OBVIOUS
<1>3. (\E it : EqL(it)) /\ \E it : EqE(it)
  <2>1. (\E it : FoldsTo(it, Out, 0, l)) /\ \E it : FoldsTo(it, Out, 0, e)
    BY <1>2, FoldExists
  <2> QED BY <1>1, <2>1
<1>4. EqL(CHOOSE it : EqL(it)) /\ EqE(CHOOSE it : EqE(it))
  BY <1>3
<1> DEFINE gl == CHOOSE it : EqL(it)
           ge == CHOOSE it : EqE(it)
<1>5. TimeFeesOf(fees) = [late |-> gl[Out], extra |-> ge[Out]]
  BY DEF TimeFeesOf, MapThenSumSet, MapThenFoldSet, EqL, EqE
<1> HIDE DEF gl, ge
<1>6. gl[Out] = 0 + Total(Out, l) /\ ge[Out] = 0 + Total(Out, e)
  BY <1>1, <1>2, <1>4, FoldIsTotal DEF gl, ge
<1>7. Total(Out, l) \in Int /\ Total(Out, e) \in Int
  BY <1>2, TotalIsInt
<1> QED BY <1>5, <1>6, <1>7

LEMMA TimeFeesSame ==
    ASSUME IsFiniteSet(Out), NEW fees, NEW others,
           \A i \in Out : /\ fees[i].late \in Int /\ fees[i].extra \in Int
                          /\ others[i].late = fees[i].late /\ others[i].extra = fees[i].extra
    PROVE  TimeFeesOf(others) = TimeFeesOf(fees)
<1> DEFINE l == [i \in Out |-> fees[i].late]
           e == [i \in Out |-> fees[i].extra]
<1>1. \A i \in Out : /\ l[i] = fees[i].late /\ e[i] = fees[i].extra
                     /\ l[i] = others[i].late /\ e[i] = others[i].extra
                     /\ others[i].late \in Int /\ others[i].extra \in Int
  OBVIOUS
<1> HIDE DEF l, e
<1>2. TimeFeesOf(fees) = [late |-> Total(Out, l), extra |-> Total(Out, e)]
  BY <1>1, TimeFeesAreTotals
<1>3. TimeFeesOf(others) = [late |-> Total(Out, l), extra |-> Total(Out, e)]
  BY <1>1, TimeFeesAreTotals
<1> QED BY <1>2, <1>3

\* A list of as many pieces as are out, all of them out and none twice, names each once.
LEMMA ListNamesEachOnce ==
    ASSUME PiecesAssumption, NEW list \in Lists, InspectionComplete(list)
    PROVE  /\ {list[k] : k \in DOMAIN list} = Out
           /\ \A i \in Out : Cardinality({k \in DOMAIN list : list[k] = i}) = 1
<1> DEFINE n == Cardinality(Out)
<1>0. n \in Nat /\ IsFiniteSet(Out)
  BY FS_CardinalityType DEF PiecesAssumption
<1>1. list \in [1 .. n -> Pieces] \/ list \in [1 .. (n - 1) -> Pieces]
  BY DEF Lists
<1>2. Len(list) = n /\ (\A k \in DOMAIN list : list[k] \in Out)
      /\ \A j, k \in DOMAIN list : list[j] = list[k] => j = k
  BY DEF InspectionComplete
<1> HIDE DEF n
<1>3. list \in [1 .. n -> Out]
  <2>1. CASE list \in [1 .. n -> Pieces]
    BY <1>2, <2>1
  <2>2. CASE list \in [1 .. (n - 1) -> Pieces] /\ n = 0
    BY <1>2, <2>2
  <2>3. CASE list \in [1 .. (n - 1) -> Pieces] /\ n # 0
    <3>1. n - 1 \in Nat
      BY <1>0, <2>3
    <3>2. list \in Seq(Pieces)
      BY <2>3, <3>1
    <3>3. DOMAIN list = 1 .. Len(list) /\ DOMAIN list = 1 .. (n - 1)
      BY <2>3, <3>2
    <3>4. n \in 1 .. n /\ n \notin 1 .. (n - 1)
      BY <1>0, <2>3
    <3> QED BY <1>2, <3>3, <3>4
  <2> QED BY <1>0, <1>1, <2>1, <2>2, <2>3
<1>4. list \in Injection(1 .. n, Out)
  BY <1>2, <1>3 DEF Injection, IsInjective
<1>5. IsFiniteSet(1 .. n) /\ Cardinality(1 .. n) = n
  <2>1. /\ Cardinality(1 .. n) = (IF 1 > n THEN 0 ELSE n - 1 + 1)
        /\ IsFiniteSet(1 .. n)
    BY <1>0, FS_Interval
  <2> QED BY <1>0, <2>1
<1>6. list \in Surjection(1 .. n, Out)
  BY <1>0, <1>4, <1>5, FS_Injection DEF n
<1>7. \A i \in Out : \E k \in DOMAIN list : list[k] = i
  BY <1>3, <1>6 DEF Surjection
<1>8. {list[k] : k \in DOMAIN list} = Out
  BY <1>2, <1>7
<1>9. ASSUME NEW i \in Out PROVE Cardinality({k \in DOMAIN list : list[k] = i}) = 1
  <2>1. PICK j \in DOMAIN list : list[j] = i
    BY <1>7
  <2>2. {k \in DOMAIN list : list[k] = i} = {j}
    BY <1>2, <2>1
  <2> QED BY <2>2, FS_Singleton
<1> QED BY <1>8, <1>9

LEMMA FiniteImage == ASSUME NEW D, IsFiniteSet(D), NEW f PROVE IsFiniteSet({f[i] : i \in D})
<1> DEFINE T == {f[i] : i \in D}
           g == [i \in D |-> f[i]]
<1>1. g \in Surjection(D, T)
  BY DEF Surjection
<1> HIDE DEF T, g
<1> QED BY <1>1, FS_Surjection DEF T

LEMMA FiniteUnion ==
    ASSUME NEW D, IsFiniteSet(D), NEW f, \A i \in D : IsFiniteSet(f[i])
    PROVE  IsFiniteSet(UNION {f[i] : i \in D})
BY FiniteImage, FS_UNION

LEMMA InUnion == ASSUME NEW D, NEW f, NEW x PROVE x \in UNION {f[i] : i \in D} <=> \E i \in D : x \in f[i]
OBVIOUS

\* A missing field is told from any that is there.
LEMMA NoneIsNothing ==
    /\ None \notin Inspections
    /\ \A a : [amount |-> a] # None
<1>1. ASSUME NEW x \in Inspections PROVE x # None
  <2>1. DOMAIN x = {"condition", "late", "extra"} /\ DOMAIN None = {"none"}
    BY DEF Inspections, None
  <2> QED BY <2>1
<1>2. ASSUME NEW a PROVE [amount |-> a] # None
  <2>1. DOMAIN [amount |-> a] = {"amount"} /\ DOMAIN None = {"none"}
    BY DEF None
  <2> QED BY <2>1
<1> QED BY <1>1, <1>2

LEMMA ChargeIs ==
    ASSUME NEW piece \in Pieces \cup {NoPiece}, NEW source \in Sources, NEW type, NEW amount \in Nat
    PROVE  IsCharge(Charge(piece, source, type, amount))
BY DEF Charge, IsCharge

\* A piece is charged what its fee comes to, in a row for each part that is not zero.
LEMMA RowsOfFee ==
    ASSUME NEW i \in Pieces, NEW fee \in Fee, NEW agreed
    PROVE  /\ (\A c \in TimeFeeRows(i, fee, agreed) : IsCharge(c)) /\ Chargeable(TimeFeeRows(i, fee, agreed))
           /\ ChargeSum(TimeFeeRows(i, fee, agreed)) = fee.late + fee.extra
           /\ \A c \in TimeFeeRows(i, fee, agreed) : c.piece = i /\ c.source = "RETURN_TIME_FEE"
           /\ fee = NoFee /\ ~Given(agreed) => TimeFeeRows(i, fee, agreed) = {}
<1> DEFINE L == Charge(i, "RETURN_TIME_FEE", "LATE", fee.late)
           E == Charge(i, "RETURN_TIME_FEE", "RENTAL_EXTRA", fee.extra)
           T == TimeFeeRows(i, fee, agreed)
           A == {c \in {L} : c \in T}
           B == {c \in {E} : c \in T}
<1>1. /\ L.piece = i /\ L.source = "RETURN_TIME_FEE" /\ L.type = "LATE" /\ L.amount = fee.late
      /\ E.piece = i /\ E.source = "RETURN_TIME_FEE" /\ E.type = "RENTAL_EXTRA" /\ E.amount = fee.extra
      /\ fee.late \in Nat /\ fee.extra \in Nat
  BY DEF Charge, Fee
<1>2. IsCharge(L) /\ IsCharge(E)
  <2>1. "RETURN_TIME_FEE" \in Sources /\ fee.late \in Nat /\ fee.extra \in Nat
    BY DEF Fee, Sources, TimeFeeSources
  <2> QED BY <2>1, ChargeIs
<1>3. T = {c \in {L, E} : c.amount > 0 \/ (c.type = "LATE" /\ Given(agreed))}
  BY DEF TimeFeeRows
<1> HIDE DEF L, E, T
<1>4. T \subseteq {L, E} /\ L # E
  BY <1>1, <1>3
<1>5. T = A \cup B /\ A \cap B = {}
  BY <1>4
<1>6. Chargeable(A) /\ ChargeSum(A) = fee.late
  <2>1. CASE L \in T
    <3>1. A = {L}
      BY <2>1
    <3> QED BY <1>1, <3>1, ChargeSumOfOne
  <2>2. CASE L \notin T
    <3>1. A = {} /\ fee.late = 0
      BY <1>1, <1>3, <2>2
    <3> QED BY <3>1, ChargeSumOfNothing
  <2> QED BY <2>1, <2>2
<1>7. Chargeable(B) /\ ChargeSum(B) = fee.extra
  <2>1. CASE E \in T
    <3>1. B = {E}
      BY <2>1
    <3> QED BY <1>1, <3>1, ChargeSumOfOne
  <2>2. CASE E \notin T
    <3>1. B = {} /\ fee.extra = 0
      BY <1>1, <1>3, <2>2
    <3> QED BY <3>1, ChargeSumOfNothing
  <2> QED BY <2>1, <2>2
<1> HIDE DEF A, B
<1>8. Chargeable(T) /\ ChargeSum(T) = fee.late + fee.extra
  BY <1>5, <1>6, <1>7, ChargeSumOfUnion
<1>9. fee = NoFee /\ ~Given(agreed) => T = {}
  <2> SUFFICES ASSUME fee = NoFee, ~Given(agreed) PROVE T = {}
    OBVIOUS
  <2>1. fee.late = 0 /\ fee.extra = 0
    BY DEF NoFee
  <2> QED BY <1>1, <1>3, <2>1
<1>10. \A c \in T : IsCharge(c) /\ c.piece = i /\ c.source = "RETURN_TIME_FEE"
  BY <1>1, <1>2, <1>4
<1> QED BY <1>8, <1>9, <1>10 DEF T

\* What a return writes, fee by fee: the charges of a piece come to its fee, and it
\* is inspected and counted once.
Returns(condition, fee, added) ==
    /\ orderStatus = "ACTIVE" /\ orderStatus' = "RETURNED"
    /\ chargeRows' = chargeRows \cup added /\ chargesTotal' = chargesTotal + ChargeSum(added) /\ record' = TimeFeesOf(fee)
    /\ IsFiniteSet(added)
    /\ \A c \in added :
         /\ IsCharge(c)
         /\ c.source \notin {"ADDED", "SETTLEMENT_TIME_FEE"}
         /\ c.source = "RETURN_TIME_FEE" => c.piece \in Out \ Free
         /\ c.piece \in Free => c.type \in {"REPAIR", "DAMAGE", "LOST_ITEM"}
    /\ \A i \in Out : ChargeSum({c \in added : c.piece = i /\ c.source \in TimeFeeSources}) = fee[i].late + fee[i].extra
    /\ inspection' = [i \in Pieces |-> IF i \in Out THEN Inspected(condition[i], fee[i]) ELSE None]
    /\ \A i \in Out : warehouse'[i] = [status |-> WarehouseStatus[condition[i]], rentals |-> warehouse[i].rentals + 1]
    /\ \A i \in Pieces \ Out : warehouse'[i] = warehouse[i]

LEMMA ReceiveIs ==
    ASSUME PiecesAssumption, FeesAssumption,
           NEW list \in Lists, NEW condition \in Findings, NEW calculated \in [Out \ Free -> Calculations],
           NEW agreed \in [Out -> Optional({[amount |-> a] : a \in Agreed})],
           NEW damage \in Damages, NEW extra \in Optional(Extra),
           Receive(list, condition, calculated, agreed, damage, extra)
    PROVE  \E fee \in [Out -> Fee] : \E added : Returns(condition, fee, added)
<1> DEFINE fee == [i \in Out |-> IF i \in Free THEN NoFee ELSE FeeOf(calculated[i], agreed[i])]
           timeRows == [i \in Out |-> TimeFeeRows(i, fee[i], agreed[i])]
           damageRows == [i \in Out |-> DamageRows(i, damage[i])]
           rowsOf == [i \in Out |-> timeRows[i] \cup damageRows[i]]
           ofPieces == UNION {rowsOf[i] : i \in Out}
           added == ofPieces \cup ExtraRows(extra)
<1>1. /\ {list[k] : k \in DOMAIN list} = Out
      /\ \A i \in Out : Cardinality({k \in DOMAIN list : list[k] = i}) = 1
  BY ListNamesEachOnce DEF Receive
<1>2. (UNION {TimeFeeRows(i, fee[i], agreed[i]) \cup DamageRows(i, damage[i]) : i \in Out})
      \cup ExtraRows(extra) = added
  OBVIOUS
<1>3. /\ orderStatus = "ACTIVE" /\ orderStatus' = "RETURNED"
      /\ chargeRows' = chargeRows \cup added /\ chargesTotal' = chargesTotal + ChargeSum(added) /\ record' = TimeFeesOf(fee)
      /\ inspection' = [i \in Pieces |-> IF i \in Out THEN Inspected(condition[i], fee[i]) ELSE None]
      /\ \A i \in Free : ~Given(agreed[i])
      /\ \A i \in Out : Given(damage[i]) => damage[i].type \in DamageTypesOf(i)
  BY <1>1, <1>2 DEF Receive
<1>4. /\ \A i \in Out : warehouse'[i] = [status |-> WarehouseStatus[condition[i]], rentals |-> warehouse[i].rentals + 1]
      /\ \A i \in Pieces \ Out : warehouse'[i] = warehouse[i]
  <2>1. warehouse' = [i \in Pieces |-> IF i \in Out
                        THEN BackInWarehouse(i, condition[i], Cardinality({k \in DOMAIN list : list[k] = i}))
                        ELSE warehouse[i]]
    BY <1>1 DEF Receive
  <2> QED BY <1>1, <2>1 DEF BackInWarehouse, PiecesAssumption
<1>5. /\ fee \in [Out -> Fee] /\ \A i \in Free : fee[i] = NoFee /\ ~Given(agreed[i])
  <2>1. ASSUME NEW i \in Out \ Free PROVE FeeOf(calculated[i], agreed[i]) \in Fee
    <3>1. calculated[i] \in Fee
      BY DEF FeesAssumption, Fee
    <3>2. Given(agreed[i]) => agreed[i].amount \in Nat
      BY DEF Optional, Given, FeesAssumption
    <3> QED BY <3>1, <3>2 DEF FeeOf, Fee
  <2>2. NoFee \in Fee
    BY DEF NoFee, Fee
  <2> QED BY <1>3, <2>1, <2>2 DEF PiecesAssumption
<1>6. ASSUME NEW i \in Out
      PROVE  /\ (\A c \in timeRows[i] : IsCharge(c)) /\ Chargeable(timeRows[i])
             /\ ChargeSum(timeRows[i]) = fee[i].late + fee[i].extra
             /\ \A c \in timeRows[i] : c.piece = i /\ c.source = "RETURN_TIME_FEE"
             /\ i \in Free => timeRows[i] = {}
  <2> HIDE DEF fee
  <2>1. i \in Pieces /\ fee[i] \in Fee /\ timeRows[i] = TimeFeeRows(i, fee[i], agreed[i])
    BY <1>5 DEF PiecesAssumption
  <2> HIDE DEF timeRows
  <2> QED BY <1>5, <2>1, RowsOfFee
<1>7. ASSUME NEW i \in Out
      PROVE  /\ (\A c \in damageRows[i] : IsCharge(c)) /\ IsFiniteSet(damageRows[i])
             /\ \A c \in damageRows[i] : /\ c.piece = i /\ c.source = "RETURN_INSPECTION"
                                         /\ i \in Free => c.type \in {"REPAIR", "DAMAGE", "LOST_ITEM"}
  <2> DEFINE row == Charge(i, "RETURN_INSPECTION", damage[i].type, damage[i].amount)
  <2>1. CASE Given(damage[i])
    <3>1. damageRows[i] = {row}
      BY <2>1 DEF DamageRows
    <3>2. damage[i] \in [type : STRING, amount : Nat] /\ i \in Pieces
      BY <2>1 DEF FeesAssumption, Given, PiecesAssumption
    <3>3. IsCharge(row) /\ row.piece = i /\ row.source = "RETURN_INSPECTION" /\ row.type = damage[i].type
      BY <3>2 DEF Charge, IsCharge, Sources
    <3>4. i \in Free => damage[i].type \in {"REPAIR", "DAMAGE", "LOST_ITEM"}
      BY <1>3, <2>1 DEF DamageTypesOf
    <3> HIDE DEF row, damageRows
    <3>5. IsFiniteSet({row})
      BY FS_Singleton
    <3> QED BY <3>1, <3>3, <3>4, <3>5
  <2>2. CASE ~Given(damage[i])
    <3>1. damageRows[i] = {}
      BY <2>2 DEF DamageRows
    <3> QED BY <3>1, FS_EmptySet
  <2> QED BY <2>1, <2>2
<1>8. /\ (\A c \in ExtraRows(extra) : IsCharge(c)) /\ IsFiniteSet(ExtraRows(extra))
      /\ \A c \in ExtraRows(extra) : c.piece = NoPiece /\ c.source = "RETURN_MANUAL_CHARGE"
  <2> DEFINE row == Charge(NoPiece, "RETURN_MANUAL_CHARGE", extra.type, extra.amount * extra.quantity)
  <2>1. CASE Given(extra) /\ extra.amount > 0
    <3>1. extra \in [type : STRING, amount : Nat, quantity : Nat] /\ ExtraRows(extra) = {row}
      BY <2>1 DEF FeesAssumption, Given, Optional, ExtraRows
    <3>2. extra.amount * extra.quantity \in Nat
      BY <3>1
    <3>3. IsCharge(row) /\ row.piece = NoPiece /\ row.source = "RETURN_MANUAL_CHARGE"
      BY <3>1, <3>2 DEF Charge, IsCharge, Sources
    <3> HIDE DEF row
    <3>4. IsFiniteSet({row})
      BY FS_Singleton
    <3> QED BY <3>1, <3>3, <3>4
  <2>2. CASE ~(Given(extra) /\ extra.amount > 0)
    <3>1. ExtraRows(extra) = {}
      BY <2>2 DEF ExtraRows
    <3> QED BY <3>1, FS_EmptySet
  <2> QED BY <2>1, <2>2
<1>9. /\ \A i \in Out : rowsOf[i] = timeRows[i] \cup damageRows[i]
      /\ \A c : c \in added <=> (\E i \in Out : c \in timeRows[i] \cup damageRows[i]) \/ c \in ExtraRows(extra)
  <2> HIDE DEF fee
  <2>1. \A i \in Out : rowsOf[i] = timeRows[i] \cup damageRows[i]
    OBVIOUS
  <2> HIDE DEF fee, timeRows, damageRows, rowsOf
  <2>2. \A c : c \in added <=> (\E i \in Out : c \in rowsOf[i]) \/ c \in ExtraRows(extra)
    BY InUnion
  <2> HIDE DEF added
  <2> QED BY <2>1, <2>2
<1> HIDE DEF fee, timeRows, damageRows, rowsOf
<1>10. IsFiniteSet(ofPieces)
  <2>1. ASSUME NEW i \in Out PROVE IsFiniteSet(rowsOf[i])
    <3>1. IsFiniteSet(timeRows[i]) /\ IsFiniteSet(damageRows[i])
      BY <1>6, <1>7 DEF Chargeable
    <3>2. rowsOf[i] = timeRows[i] \cup damageRows[i]
      BY <1>9
    <3> HIDE DEF added
    <3> QED BY <3>1, <3>2, FS_Union
  <2> QED BY <2>1, FiniteUnion DEF PiecesAssumption
<1>11. IsFiniteSet(added) /\ \A c \in added : IsCharge(c)
  <2>1. IsFiniteSet(added)
    <3>1. \A U, V : IsFiniteSet(U) /\ IsFiniteSet(V) => IsFiniteSet(U \cup V)
      BY FS_Union
    <3> HIDE DEF ofPieces
    <3> QED BY <1>8, <1>10, <3>1
  <2> HIDE DEF added
  <2>2. ASSUME NEW c \in added PROVE IsCharge(c)
    <3>1. (\E i \in Out : c \in timeRows[i] \cup damageRows[i]) \/ c \in ExtraRows(extra)
      BY <1>9
    <3> QED BY <1>6, <1>7, <1>8, <3>1
  <2> QED BY <2>1, <2>2
<1>12. \A c \in added :
         /\ c.source \notin {"ADDED", "SETTLEMENT_TIME_FEE"}
         /\ c.source = "RETURN_TIME_FEE" => c.piece \in Out \ Free
         /\ c.piece \in Free => c.type \in {"REPAIR", "DAMAGE", "LOST_ITEM"}
  <2> HIDE DEF added
  <2>1. ASSUME NEW c \in ExtraRows(extra) PROVE c.piece \notin Free /\ c.source = "RETURN_MANUAL_CHARGE"
    <3>1. NoPiece \notin Free
      BY DEF FeesAssumption, PiecesAssumption
    <3> QED BY <1>8, <3>1
  <2>2. ASSUME NEW i \in Out, NEW c \in timeRows[i] PROVE c.piece = i /\ i \notin Free /\ c.source = "RETURN_TIME_FEE"
    BY <1>6
  <2>3. ASSUME NEW i \in Out, NEW c \in damageRows[i]
        PROVE  c.source = "RETURN_INSPECTION" /\ (c.piece \in Free => c.type \in {"REPAIR", "DAMAGE", "LOST_ITEM"})
    BY <1>7
  <2>4. ASSUME NEW c \in added
        PROVE  /\ c.source \notin {"ADDED", "SETTLEMENT_TIME_FEE"}
               /\ c.source = "RETURN_TIME_FEE" => c.piece \in Out \ Free
               /\ c.piece \in Free => c.type \in {"REPAIR", "DAMAGE", "LOST_ITEM"}
    <3>1. CASE c \in ExtraRows(extra)
      BY <2>1, <3>1
    <3>2. CASE \E i \in Out : c \in timeRows[i]
      BY <2>2, <3>2
    <3>3. CASE \E i \in Out : c \in damageRows[i]
      BY <2>3, <3>3
    <3> QED BY <1>9, <3>1, <3>2, <3>3
  <2> QED BY <2>4
<1>13. ASSUME NEW i \in Out
       PROVE  ChargeSum({c \in added : c.piece = i /\ c.source \in TimeFeeSources}) = fee[i].late + fee[i].extra
  <2>1. {c \in added : c.piece = i /\ c.source \in TimeFeeSources} = timeRows[i]
    <3> HIDE DEF added
    <3>1. ASSUME NEW c \in added, c.piece = i, c.source \in TimeFeeSources PROVE c \in timeRows[i]
      <4>1. c \notin ExtraRows(extra)
        BY <1>8, <3>1 DEF TimeFeeSources
      <4>2. PICK j \in Out : c \in timeRows[j] \cup damageRows[j]
        BY <1>9, <4>1
      <4>3. c \notin damageRows[j]
        BY <1>7, <3>1 DEF TimeFeeSources
      <4>4. c \in timeRows[j] /\ c.piece = j
        BY <1>6, <4>2, <4>3
      <4> QED BY <3>1, <4>4
    <3>2. ASSUME NEW c \in timeRows[i] PROVE c \in added /\ c.piece = i /\ c.source \in TimeFeeSources
      BY <1>6, <1>9 DEF TimeFeeSources
    <3> QED BY <3>1, <3>2
  <2> QED BY <1>6, <2>1
<1> HIDE DEF added
<1>14. Returns(condition, fee, added)
  BY <1>3, <1>4, <1>11, <1>12, <1>13 DEF Returns
<1> QED BY <1>5, <1>11, <1>14

LEMMA ReceiveStep ==
    ASSUME PiecesAssumption, FeesAssumption, ReturnInv,
           NEW condition \in Findings, NEW fee \in [Out -> Fee], NEW added, Returns(condition, fee, added)
    PROVE  ReturnInv'
<1>1. /\ Chargeable(chargeRows) /\ Chargeable(added) /\ chargeRows \cap added = {}
      /\ \A c \in chargeRows : c.source = "ADDED" /\ c.piece = NoPiece /\ IsCharge(c)
      /\ \A c \in added : c.source \notin {"ADDED", "SETTLEMENT_TIME_FEE"} /\ IsCharge(c)
  <2>1. \A c \in chargeRows : c.source = "ADDED" /\ c.piece = NoPiece /\ IsCharge(c)
    BY DEF ReturnInv, StillOut, OfPieces, ReturnTypes, Returns
  <2>2. \A c \in added : c.source \notin {"ADDED", "SETTLEMENT_TIME_FEE"} /\ IsCharge(c)
    BY DEF Returns
  <2>3. IsFiniteSet(chargeRows) /\ IsFiniteSet(added)
    BY DEF ReturnInv, ReturnTypes, Returns
  <2> QED BY <2>1, <2>2, <2>3 DEF Chargeable, IsCharge
<1>2. Chargeable(chargeRows \cup added) /\ ChargeSum(chargeRows \cup added) = ChargeSum(chargeRows) + ChargeSum(added)
  BY <1>1, ChargeSumOfUnion
<1>3. /\ orderStatus' = "RETURNED" /\ chargeRows' = chargeRows \cup added /\ chargesTotal' = chargesTotal + ChargeSum(added)
      /\ record' = TimeFeesOf(fee)
      /\ inspection' = [i \in Pieces |-> IF i \in Out THEN Inspected(condition[i], fee[i]) ELSE None]
      /\ Out \subseteq Pieces /\ Free \subseteq Out /\ IsFiniteSet(Out) /\ condition \in [Out -> Condition]
  BY DEF Returns, PiecesAssumption, FeesAssumption
<1>4. ASSUME NEW i \in Out
      PROVE  /\ inspection'[i] = Inspected(condition[i], fee[i]) /\ inspection'[i] \in Inspections
             /\ inspection'[i].condition = condition[i] /\ inspection'[i] # None
             /\ inspection'[i].late = fee[i].late /\ inspection'[i].extra = fee[i].extra
             /\ fee[i].late \in Int /\ fee[i].extra \in Int
  <2>1. inspection'[i] = Inspected(condition[i], fee[i])
    BY <1>3
  <2>2. condition[i] \in Condition /\ fee[i].late \in Nat /\ fee[i].extra \in Nat
    BY <1>3 DEF Fee
  <2>3. inspection'[i] \in Inspections
    BY <2>1, <2>2 DEF Inspected, Inspections
  <2> QED BY <2>1, <2>2, <2>3, NoneIsNothing DEF Inspected
<1>5. \A i \in Pieces \ Out : inspection'[i] = None
  BY <1>3
<1>6. ReturnTypes'
  <2>1. inspection' \in [Pieces -> Inspections \cup {None}]
    <3>1. inspection' = [i \in Pieces |-> inspection'[i]]
      BY <1>3
    <3>2. \A i \in Pieces : inspection'[i] \in Inspections \cup {None}
      BY <1>4, <1>5
    <3> QED BY <3>1, <3>2
  <2>2. IsFiniteSet(chargeRows') /\ \A c \in chargeRows' : IsCharge(c)
    BY <1>1, <1>2, <1>3 DEF Chargeable
  <2> QED BY <1>3, <2>1, <2>2 DEF ReturnTypes
<1>7. OfPieces' /\ StillOut' /\ NotSettled'
  <2>1. OfPieces'
    <3>1. ASSUME NEW c \in added, c.source \in TimeFeeSources PROVE c.piece \in Out \ Free
      BY <3>1 DEF Returns, TimeFeeSources
    <3> QED BY <1>1, <1>3, <3>1 DEF OfPieces, TimeFeeSources
  <2>2. StillOut' /\ NotSettled'
    BY <1>1, <1>3 DEF StillOut, NotSettled
  <2> QED BY <2>1, <2>2
<1>8. EveryPieceIsInspectedOnce'
  <2>1. ASSUME NEW i \in Out PROVE warehouse'[i] = [status |-> WarehouseStatus[inspection'[i].condition], rentals |-> 1]
    <3>1. warehouse[i].rentals = 0
      BY <1>3 DEF ReturnInv, StillOut, Returns
    <3>2. warehouse'[i] = [status |-> WarehouseStatus[condition[i]], rentals |-> warehouse[i].rentals + 1]
      BY DEF Returns
    <3> QED BY <1>4, <3>1, <3>2
  <2>2. ASSUME NEW i \in Pieces \ Out PROVE warehouse'[i].rentals = 0
    BY DEF ReturnInv, StillOut, Returns
  <2> QED BY <1>4, <1>5, <2>1, <2>2 DEF EveryPieceIsInspectedOnce, Given
<1>9. ChargesMatchInspections'
  <2>1. ASSUME NEW i \in Pieces, inspection'[i] # None
        PROVE  ChargeSum({c \in chargeRows' : c.piece = i /\ c.source \in TimeFeeSources}) = inspection'[i].late + inspection'[i].extra
    <3>1. i \in Out
      BY <1>5, <2>1
    <3>2. {c \in chargeRows' : c.piece = i /\ c.source \in TimeFeeSources}
          = {c \in added : c.piece = i /\ c.source \in TimeFeeSources}
      BY <1>1, <1>3 DEF TimeFeeSources
    <3>3. ChargeSum({c \in added : c.piece = i /\ c.source \in TimeFeeSources}) = fee[i].late + fee[i].extra
      BY <3>1 DEF Returns
    <3> QED BY <1>4, <3>1, <3>2, <3>3
  <2>2. record' = TimeFeesOf(inspection')
    <3>1. \A i \in Out : /\ fee[i].late \in Int /\ fee[i].extra \in Int
                         /\ inspection'[i].late = fee[i].late /\ inspection'[i].extra = fee[i].extra
      BY <1>4
    <3>2. TimeFeesOf(inspection') = TimeFeesOf(fee)
      BY <1>3, <3>1, TimeFeesSame
    <3> QED BY <1>3, <3>2
  <2>3. chargesTotal' = ChargeSum(chargeRows')
    BY <1>2, <1>3 DEF ReturnInv, ChargesMatchInspections
  <2> QED BY <2>1, <2>2, <2>3 DEF ChargesMatchInspections, TimeFeeRowsOf, TimeFee, Given
<1>10. FreeAccessoriesCostOnlyDamage'
  <2>1. NoPiece \notin Free
    BY DEF FeesAssumption, PiecesAssumption
  <2>2. \A c \in added : c.piece \in Free => c.type \in {"REPAIR", "DAMAGE", "LOST_ITEM"}
    BY DEF Returns
  <2> QED BY <1>1, <1>3, <2>1, <2>2 DEF FreeAccessoriesCostOnlyDamage
<1> QED BY <1>6, <1>7, <1>8, <1>9, <1>10 DEF ReturnInv

LEMMA AddChargeStep ==
    ASSUME PiecesAssumption, FeesAssumption, ReturnInv, NEW type, NEW amount \in Nat, AddChargeOnReturn(type, amount)
    PROVE  ReturnInv'
<1> DEFINE row == Charge(NoPiece, "ADDED", type, amount)
<1>1. /\ orderStatus \in {"ACTIVE", "RETURNED"} /\ row \notin chargeRows
      /\ chargeRows' = chargeRows \cup {row} /\ chargesTotal' = chargesTotal + amount
      /\ UNCHANGED <<orderStatus, warehouse, inspection, record>>
  <2>1. row.source = "ADDED"
    BY DEF Charge
  <2> QED BY <2>1 DEF AddChargeOnReturn
<1>2. row.piece = NoPiece /\ row.source = "ADDED" /\ row.amount = amount /\ IsCharge(row)
      /\ row.source \notin TimeFeeSources
  BY DEF Charge, IsCharge, Sources, TimeFeeSources
<1> HIDE DEF row
<1>3. NoPiece \notin Pieces /\ Free \subseteq Pieces
  BY DEF FeesAssumption, PiecesAssumption
<1>4. Chargeable(chargeRows) /\ Chargeable({row}) /\ ChargeSum({row}) = amount
  <2>1. Chargeable({row}) /\ ChargeSum({row}) = amount
    BY <1>2, ChargeSumOfOne
  <2> QED BY <2>1 DEF ReturnInv, ReturnTypes, Chargeable, IsCharge
<1>5. Chargeable(chargeRows \cup {row}) /\ ChargeSum(chargeRows \cup {row}) = ChargeSum(chargeRows) + amount
  <2>1. chargeRows \cap {row} = {}
    BY <1>1
  <2> QED BY <1>4, <2>1, ChargeSumOfUnion
<1>6. ReturnTypes'
  <2>1. IsFiniteSet(chargeRows') /\ \A c \in chargeRows' : IsCharge(c)
    BY <1>1, <1>2, <1>5 DEF ReturnInv, ReturnTypes, Chargeable
  <2> QED BY <1>1, <2>1 DEF ReturnInv, ReturnTypes
<1>7. OfPieces' /\ StillOut' /\ NotSettled'
  BY <1>1, <1>2 DEF ReturnInv, OfPieces, StillOut, NotSettled
<1>8. EveryPieceIsInspectedOnce'
  BY <1>1 DEF ReturnInv, EveryPieceIsInspectedOnce
<1>9. ChargesMatchInspections'
  <2>1. ASSUME NEW i \in Pieces
        PROVE  {c \in chargeRows' : c.piece = i /\ c.source \in TimeFeeSources}
               = {c \in chargeRows : c.piece = i /\ c.source \in TimeFeeSources}
    BY <1>1, <1>2
  <2>2. ASSUME NEW i \in Pieces, inspection'[i] # None
        PROVE  ChargeSum({c \in chargeRows' : c.piece = i /\ c.source \in TimeFeeSources}) = inspection'[i].late + inspection'[i].extra
    BY <1>1, <2>1, <2>2 DEF ReturnInv, ChargesMatchInspections, TimeFeeRowsOf, TimeFee, Given
  <2>3. chargesTotal' = ChargeSum(chargeRows')
    BY <1>1, <1>5 DEF ReturnInv, ChargesMatchInspections
  <2>4. orderStatus' # "ACTIVE" => record' = TimeFeesOf(inspection')
    BY <1>1 DEF ReturnInv, ChargesMatchInspections
  <2> QED BY <2>2, <2>3, <2>4 DEF ChargesMatchInspections, TimeFeeRowsOf, TimeFee, Given
<1>10. FreeAccessoriesCostOnlyDamage'
  BY <1>1, <1>2, <1>3 DEF ReturnInv, FreeAccessoriesCostOnlyDamage
<1> QED BY <1>6, <1>7, <1>8, <1>9, <1>10 DEF ReturnInv

\* The rows of pieces come to the total of what those of each come to.
LEMMA ChargeSumOfPieces ==
    ASSUME NEW S, IsFiniteSet(S), NEW rowsOf, NEW f,
           \A i \in S : Chargeable(rowsOf[i]) /\ ChargeSum(rowsOf[i]) = f[i],
           \A i, j \in S : i # j => rowsOf[i] \cap rowsOf[j] = {}
    PROVE  Chargeable(UNION {rowsOf[i] : i \in S}) /\ ChargeSum(UNION {rowsOf[i] : i \in S}) = Total(S, f)
<1> DEFINE Rows(T) == UNION {rowsOf[i] : i \in T}
           g == [T \in SUBSET S |-> ChargeSum(Rows(T))]
           h == [T \in SUBSET S |-> Total(T, f)]
<1>1. \A T \in SUBSET S : g[T] = ChargeSum(Rows(T)) /\ h[T] = Total(T, f)
  OBVIOUS
<1>2. \A i \in S : f[i] \in Int
  BY SumIsNat
<1>3. ASSUME NEW T \in SUBSET S PROVE IsFiniteSet(T) /\ Chargeable(Rows(T))
  <2>1. IsFiniteSet(T)
    BY FS_Subset
  <2>2. \A i \in T : IsFiniteSet(rowsOf[i])
    BY DEF Chargeable
  <2>3. IsFiniteSet(Rows(T))
    BY <2>1, <2>2, FiniteUnion
  <2>4. \A c \in Rows(T) : c.amount \in Nat
    BY DEF Chargeable
  <2> QED BY <2>1, <2>3, <2>4 DEF Chargeable
<1>4. g[{}] = h[{}]
  <2>1. Rows({}) = {}
    OBVIOUS
  <2> HIDE DEF Rows, g, h
  <2> QED BY <1>1, <2>1, ChargeSumOfNothing, TotalOfNothing
<1>5. ASSUME NEW T \in SUBSET S, T # {} PROVE \E x \in T : g[T \ {x}] = h[T \ {x}] => g[T] = h[T]
  <2>1. PICK x \in T : TRUE
    BY <1>5
  <2>2. Rows(T) = Rows(T \ {x}) \cup rowsOf[x] /\ Rows(T \ {x}) \cap rowsOf[x] = {}
    <3>1. \A c : c \in Rows(T) <=> \E i \in T : c \in rowsOf[i]
      BY InUnion
    <3>2. \A c : c \in Rows(T \ {x}) <=> \E i \in T \ {x} : c \in rowsOf[i]
      BY InUnion
    <3> HIDE DEF Rows
    <3>3. Rows(T) = Rows(T \ {x}) \cup rowsOf[x]
      BY <2>1, <3>1, <3>2
    <3>4. Rows(T \ {x}) \cap rowsOf[x] = {}
      BY <2>1, <3>2
    <3> QED BY <3>3, <3>4
  <2>3. T \ {x} \in SUBSET S /\ x \in S
    BY <2>1
  <2> HIDE DEF Rows, g, h
  <2>4. ChargeSum(Rows(T)) = ChargeSum(Rows(T \ {x})) + f[x]
    <3>1. Chargeable(Rows(T \ {x})) /\ Chargeable(rowsOf[x]) /\ ChargeSum(rowsOf[x]) = f[x]
      BY <1>3, <2>3
    <3> QED BY <2>2, <3>1, ChargeSumOfUnion
  <2>5. Total(T, f) = f[x] + Total(T \ {x}, f)
    <3>1. IsFiniteSet(T) /\ \A i \in T : f[i] \in Int
      BY <1>2, <1>3
    <3> QED BY <2>1, <3>1, TotalWithout
  <2>6. f[x] \in Int /\ Total(T \ {x}, f) \in Int
    <3>1. IsFiniteSet(T \ {x}) /\ \A i \in T \ {x} : f[i] \in Int
      BY <1>2, <1>3, <2>3
    <3> QED BY <1>2, <2>3, <3>1, TotalIsInt
  <2>7. ASSUME g[T \ {x}] = h[T \ {x}] PROVE g[T] = h[T]
    <3>1. ChargeSum(Rows(T \ {x})) = Total(T \ {x}, f)
      BY <1>1, <2>3, <2>7
    <3>2. ChargeSum(Rows(T)) = Total(T, f)
      BY <2>4, <2>5, <2>6, <3>1
    <3> QED BY <1>1, <3>2
  <2> QED BY <2>1, <2>7
<1>6. InStep(g, h, S)
  BY <1>4, <1>5 DEF InStep
<1>7. g[S] = h[S]
  BY <1>6, InStepAgree
<1>8. Chargeable(Rows(S))
  BY <1>3
<1>9. ChargeSum(Rows(S)) = Total(S, f)
  BY <1>1, <1>7
<1> QED BY <1>8, <1>9

LEMMA TotalOfDifference ==
    ASSUME NEW S, IsFiniteSet(S), NEW c, NEW t, NEW d,
           \A x \in S : c[x] \in Int /\ t[x] \in Int /\ d[x] = c[x] - t[x]
    PROVE  Total(S, d) = Total(S, c) - Total(S, t)
<1> DEFINE g == [T \in SUBSET S |-> Total(T, d)]
           h == [T \in SUBSET S |-> Total(T, c) - Total(T, t)]
<1>1. \A T \in SUBSET S : g[T] = Total(T, d) /\ h[T] = Total(T, c) - Total(T, t)
  OBVIOUS
<1> HIDE DEF g, h
<1>2. ASSUME NEW T \in SUBSET S
      PROVE  /\ IsFiniteSet(T)
             /\ \A x \in T : c[x] \in Int /\ t[x] \in Int /\ d[x] \in Int /\ d[x] = c[x] - t[x]
  <2>1. IsFiniteSet(T)
    BY FS_Subset
  <2> QED BY <2>1
<1>3. g[{}] = h[{}]
  BY <1>1, TotalOfNothing
<1>4. ASSUME NEW T \in SUBSET S, T # {} PROVE \E x \in T : g[T \ {x}] = h[T \ {x}] => g[T] = h[T]
  <2>1. PICK x \in T : TRUE
    BY <1>4
  <2>2. /\ Total(T, c) = c[x] + Total(T \ {x}, c)
        /\ Total(T, t) = t[x] + Total(T \ {x}, t)
        /\ Total(T, d) = d[x] + Total(T \ {x}, d)
    <3>1. Total(T, c) = c[x] + Total(T \ {x}, c)
      BY <1>2, <2>1, TotalWithout
    <3>2. Total(T, t) = t[x] + Total(T \ {x}, t)
      BY <1>2, <2>1, TotalWithout
    <3>3. Total(T, d) = d[x] + Total(T \ {x}, d)
      BY <1>2, <2>1, TotalWithout
    <3> QED BY <3>1, <3>2, <3>3
  <2> DEFINE R == T \ {x}
  <2>3. /\ Total(T, c) = c[x] + Total(R, c)
        /\ Total(T, t) = t[x] + Total(R, t)
        /\ Total(T, d) = d[x] + Total(R, d)
    BY <2>2
  <2>4. R \in SUBSET S
    BY <2>1
  <2> HIDE DEF R
  <2>5. Total(R, c) \in Int /\ Total(R, t) \in Int /\ Total(R, d) \in Int
    BY <1>2, <2>4, TotalIsInt
  <2>6. g[R] = Total(R, d) /\ h[R] = Total(R, c) - Total(R, t)
    BY <1>1, <2>4
  <2>7. g[T] = Total(T, d) /\ h[T] = Total(T, c) - Total(T, t)
    BY <1>1
  <2>8. c[x] \in Int /\ t[x] \in Int /\ d[x] = c[x] - t[x]
    BY <2>1
  <2>9. g[R] = h[R] => g[T] = h[T]
    BY <2>3, <2>5, <2>6, <2>7, <2>8
  <2> QED BY <2>1, <2>9 DEF R
<1>5. InStep(g, h, S)
  BY <1>3, <1>4 DEF InStep
<1>6. g[S] = h[S]
  BY <1>5, InStepAgree
<1> QED BY <1>1, <1>6

\* What a settlement adds to the bill.
LEMMA DeltaIsTotal ==
    ASSUME NEW changes, IsFiniteSet(DOMAIN changes), NEW d,
           \A i \in DOMAIN changes : d[i] \in Int /\ d[i] = changes[i] - TimeFee(i)
    PROVE  Delta(changes) = Total(DOMAIN changes, d)
<1> DEFINE S == DOMAIN changes
           Eq(it) == it = [U \in SUBSET S |-> IF U = {} THEN 0
                              ELSE changes[CHOOSE i \in U : TRUE] - TimeFee(CHOOSE i \in U : TRUE)
                                   + it[U \ {CHOOSE i \in U : TRUE}]]
<1>1. ASSUME NEW it PROVE Eq(it) <=> FoldsTo(it, S, 0, d)
  <2>1. \A U \in SUBSET S : U # {} =>
          changes[CHOOSE i \in U : TRUE] - TimeFee(CHOOSE i \in U : TRUE) = d[CHOOSE i \in U : TRUE]
    OBVIOUS
  <2>2. [U \in SUBSET S |-> IF U = {} THEN 0
           ELSE changes[CHOOSE i \in U : TRUE] - TimeFee(CHOOSE i \in U : TRUE)
                + it[U \ {CHOOSE i \in U : TRUE}]]
        = [U \in SUBSET S |-> IF U = {} THEN 0
           ELSE d[CHOOSE i \in U : TRUE] + it[U \ {CHOOSE i \in U : TRUE}]]
    BY <2>1
  <2> QED BY <2>2 DEF FoldsTo
<1>2. \A i \in S : d[i] \in Int
  OBVIOUS
<1> HIDE DEF Eq
<1>3. Eq(CHOOSE it : Eq(it))
  <2>1. \E it : FoldsTo(it, S, 0, d)
    BY <1>2, FoldExists
  <2> QED BY <1>1, <2>1
<1> DEFINE g == CHOOSE it : Eq(it)
<1>4. Delta(changes) = g[S]
  BY DEF Delta, MapThenSumSet, MapThenFoldSet, Eq
<1> HIDE DEF g
<1>5. FoldsTo(g, S, 0, d)
  BY <1>1, <1>3 DEF g
<1>6. g[S] = 0 + Total(S, d) /\ Total(S, d) \in Int
  BY <1>2, <1>5, FoldIsTotal, TotalIsInt
<1> QED BY <1>4, <1>6

LEMMA SettleStep ==
    ASSUME PiecesAssumption, FeesAssumption, ReturnInv,
           NEW S \in SUBSET (Out \ Free), NEW changes \in [S -> Agreed], Settle(changes)
    PROVE  ReturnInv'
<1> DEFINE recorded == [i \in S |-> TimeFeeRowsOf(i)]
           row == [i \in S |-> Charge(i, "SETTLEMENT_TIME_FEE", "LATE", changes[i])]
           anew == [i \in S |-> {row[i]}]
           was == [i \in S |-> TimeFee(i)]
           more == [i \in S |-> changes[i] - TimeFee(i)]
           voided == UNION {recorded[i] : i \in S}
           added == UNION {anew[i] : i \in S}
           kept == chargeRows \ voided
<1>1. /\ S \subseteq Pieces /\ S \subseteq Out /\ S \cap Free = {} /\ IsFiniteSet(S) /\ DOMAIN changes = S
      /\ Out \subseteq Pieces /\ Free \subseteq Out /\ IsFiniteSet(Out) /\ NoPiece \notin Pieces
      /\ \A i \in S : changes[i] \in Nat
  <2>1. IsFiniteSet(S)
    BY FS_Subset DEF PiecesAssumption
  <2> QED BY <2>1 DEF PiecesAssumption, FeesAssumption
<1>2. /\ orderStatus = "RETURNED" /\ orderStatus' = "COMPLETED"
      /\ chargeRows' = kept \cup added /\ chargesTotal' = chargesTotal + Delta(changes) /\ UNCHANGED warehouse
      /\ inspection' = [i \in Pieces |-> IF i \in S THEN [inspection[i] EXCEPT !.late = changes[i], !.extra = 0]
                                         ELSE inspection[i]]
      /\ S = {} => record' = record
      /\ S # {} => record' = TimeFeesOf(inspection')
  <2>1. UNION {TimeFeeRowsOf(i) : i \in DOMAIN changes} = voided
    BY <1>1
  <2>2. {Charge(i, "SETTLEMENT_TIME_FEE", "LATE", changes[i]) : i \in DOMAIN changes} = added
    BY <1>1
  <2> HIDE DEF added, voided
  <2>3. /\ orderStatus = "RETURNED" /\ orderStatus' = "COMPLETED"
        /\ chargeRows' = kept \cup added /\ chargesTotal' = chargesTotal + Delta(changes) /\ UNCHANGED warehouse
    BY <2>1, <2>2 DEF Settle
  <2>4. /\ inspection' = [i \in Pieces |-> IF i \in S THEN [inspection[i] EXCEPT !.late = changes[i], !.extra = 0]
                                           ELSE inspection[i]]
        /\ S = {} => record' = record
        /\ S # {} => record' = TimeFeesOf(inspection')
    BY <1>1 DEF Settle
  <2> QED BY <2>3, <2>4
<1>3. /\ Chargeable(chargeRows)
      /\ \A c \in chargeRows : IsCharge(c) /\ c.source # "SETTLEMENT_TIME_FEE"
      /\ \A i \in Pieces : inspection[i] \in Inspections \cup {None}
      /\ \A i \in Out : inspection[i] \in Inspections /\ Given(inspection[i])
      /\ \A i \in Pieces \ Out : inspection[i] = None
  <2>1. Chargeable(chargeRows) /\ \A c \in chargeRows : IsCharge(c) /\ c.source # "SETTLEMENT_TIME_FEE"
    BY <1>2 DEF ReturnInv, ReturnTypes, NotSettled, Chargeable, IsCharge
  <2>2. \A i \in Pieces : inspection[i] \in Inspections \cup {None}
    BY DEF ReturnInv, ReturnTypes
  <2>3. \A i \in Out : Given(inspection[i])
    BY <1>1, <1>2 DEF ReturnInv, EveryPieceIsInspectedOnce
  <2>4. \A i \in Pieces \ Out : inspection[i] = None
    BY <1>2 DEF ReturnInv, EveryPieceIsInspectedOnce
  <2> QED BY <1>1, <2>1, <2>2, <2>3, <2>4 DEF Given
<1>4. ASSUME NEW i \in S
      PROVE  /\ recorded[i] = {c \in chargeRows : c.piece = i /\ c.source \in TimeFeeSources}
             /\ Chargeable(recorded[i]) /\ ChargeSum(recorded[i]) = TimeFee(i) /\ TimeFee(i) \in Nat
             /\ anew[i] = {row[i]} /\ Chargeable(anew[i]) /\ ChargeSum(anew[i]) = changes[i]
             /\ row[i].piece = i /\ row[i].source = "SETTLEMENT_TIME_FEE" /\ row[i].type = "LATE"
             /\ IsCharge(row[i])
  <2>1. recorded[i] = {c \in chargeRows : c.piece = i /\ c.source \in TimeFeeSources}
    BY DEF TimeFeeRowsOf
  <2>2. Chargeable(recorded[i])
    <3>1. recorded[i] \subseteq chargeRows
      BY <2>1
    <3> HIDE DEF recorded
    <3> QED BY <1>3, <3>1, PartIsChargeable
  <2>3. ChargeSum(recorded[i]) = TimeFee(i)
    BY <1>1, <1>3 DEF ReturnInv, ChargesMatchInspections
  <2>4. TimeFee(i) \in Nat
    BY <1>1, <1>3 DEF TimeFee, Inspections
  <2>5. /\ row[i].piece = i /\ row[i].source = "SETTLEMENT_TIME_FEE" /\ row[i].type = "LATE"
        /\ row[i].amount = changes[i] /\ changes[i] \in Nat
    BY <1>1 DEF Charge
  <2>6. IsCharge(row[i])
    <3>1. "SETTLEMENT_TIME_FEE" \in Sources /\ i \in Pieces
      BY <1>1 DEF Sources, TimeFeeSources
    <3> HIDE DEF row
    <3> QED BY <2>5, <3>1 DEF IsCharge
  <2>7. anew[i] = {row[i]}
    OBVIOUS
  <2> HIDE DEF row, anew
  <2>8. Chargeable({row[i]}) /\ ChargeSum({row[i]}) = changes[i]
    BY <2>5, ChargeSumOfOne
  <2> QED BY <2>1, <2>2, <2>3, <2>4, <2>5, <2>6, <2>7, <2>8
<1>5. /\ \A i \in S : was[i] = TimeFee(i) /\ more[i] = changes[i] - TimeFee(i)
      /\ \A c : c \in voided <=> \E i \in S : c \in recorded[i]
      /\ \A c : c \in added <=> \E i \in S : c \in anew[i]
  <2>1. \A i \in S : was[i] = TimeFee(i) /\ more[i] = changes[i] - TimeFee(i)
    OBVIOUS
  <2> HIDE DEF was, more, recorded, anew
  <2>2. \A c : c \in voided <=> \E i \in S : c \in recorded[i]
    BY InUnion
  <2>3. \A c : c \in added <=> \E i \in S : c \in anew[i]
    BY InUnion
  <2> QED BY <2>1, <2>2, <2>3
<1> HIDE DEF recorded, row, anew, was, more
<1>6. Chargeable(voided) /\ ChargeSum(voided) = Total(S, was)
  <2>1. \A i \in S : Chargeable(recorded[i]) /\ ChargeSum(recorded[i]) = was[i]
    BY <1>4, <1>5
  <2>2. \A i, j \in S : i # j => recorded[i] \cap recorded[j] = {}
    BY <1>4
  <2> QED BY <1>1, <2>1, <2>2, ChargeSumOfPieces
<1>7. Chargeable(added) /\ ChargeSum(added) = Total(S, changes)
  <2>1. \A i \in S : Chargeable(anew[i]) /\ ChargeSum(anew[i]) = changes[i]
    BY <1>4
  <2>2. \A i, j \in S : i # j => anew[i] \cap anew[j] = {}
    <3>1. \A i \in S : anew[i] = {row[i]} /\ row[i].piece = i
      BY <1>4
    <3> QED BY <3>1
  <2> QED BY <1>1, <2>1, <2>2, ChargeSumOfPieces
<1>8. Delta(changes) = Total(S, changes) - Total(S, was)
  <2>1. \A i \in S : more[i] \in Int /\ more[i] = changes[i] - TimeFee(i)
    BY <1>1, <1>4, <1>5
  <2>2. Delta(changes) = Total(S, more)
    BY <1>1, <2>1, DeltaIsTotal
  <2>3. \A i \in S : changes[i] \in Int /\ was[i] \in Int /\ more[i] = changes[i] - was[i]
    BY <1>1, <1>4, <1>5
  <2>4. Total(S, more) = Total(S, changes) - Total(S, was)
    BY <1>1, <2>3, TotalOfDifference
  <2> QED BY <2>2, <2>4
<1>9. /\ voided \subseteq chargeRows
      /\ \A i \in S : \A c \in kept : ~(c.piece = i /\ c.source \in TimeFeeSources)
      /\ \A c \in added : IsCharge(c) /\ c.source = "SETTLEMENT_TIME_FEE" /\ c.piece \in S
  <2> HIDE DEF voided, added
  <2>1. voided \subseteq chargeRows
    BY <1>4, <1>5
  <2>2. ASSUME NEW i \in S, NEW c \in kept PROVE ~(c.piece = i /\ c.source \in TimeFeeSources)
    BY <1>4, <1>5
  <2>3. ASSUME NEW c \in added PROVE IsCharge(c) /\ c.source = "SETTLEMENT_TIME_FEE" /\ c.piece \in S
    <3>1. PICK i \in S : c = row[i]
      BY <1>4, <1>5
    <3> QED BY <1>4, <3>1
  <2> QED BY <2>1, <2>2, <2>3
<1> HIDE DEF voided, added
<1>10. Chargeable(chargeRows') /\ chargesTotal' = ChargeSum(chargeRows')
  <2>1. chargeRows = kept \cup voided /\ kept \cap voided = {} /\ kept \subseteq chargeRows
    BY <1>9
  <2> HIDE DEF kept
  <2>2. Chargeable(kept)
    BY <1>3, <2>1, PartIsChargeable
  <2>3. ChargeSum(chargeRows) = ChargeSum(kept) + ChargeSum(voided)
    BY <1>6, <2>1, <2>2, ChargeSumOfUnion
  <2>4. kept \cap added = {}
    BY <1>3, <1>9, <2>1
  <2>5. Chargeable(kept \cup added) /\ ChargeSum(kept \cup added) = ChargeSum(kept) + ChargeSum(added)
    BY <1>7, <2>2, <2>4, ChargeSumOfUnion
  <2>6. ChargeSum(kept) \in Nat /\ ChargeSum(voided) \in Nat /\ ChargeSum(added) \in Nat
    BY <1>6, <1>7, <2>2, SumIsNat
  <2>7. chargesTotal = ChargeSum(chargeRows)
    BY DEF ReturnInv, ChargesMatchInspections
  <2>8. chargeRows' = kept \cup added /\ chargesTotal' = chargesTotal + Delta(changes)
    BY <1>2
  <2>9. chargesTotal' = ChargeSum(kept) + ChargeSum(added)
    BY <1>6, <1>7, <1>8, <2>3, <2>6, <2>7, <2>8
  <2> QED BY <2>5, <2>8, <2>9
<1>11. /\ \A i \in S : /\ inspection'[i] \in Inspections /\ inspection'[i] # None
                       /\ inspection'[i].condition = inspection[i].condition
                       /\ inspection'[i].late = changes[i] /\ inspection'[i].extra = 0
       /\ \A i \in Pieces \ S : inspection'[i] = inspection[i]
  <2>1. ASSUME NEW i \in S
        PROVE  /\ inspection'[i] \in Inspections
               /\ inspection'[i].condition = inspection[i].condition
               /\ inspection'[i].late = changes[i] /\ inspection'[i].extra = 0
    <3>1. inspection'[i] = [inspection[i] EXCEPT !.late = changes[i], !.extra = 0]
      BY <1>1, <1>2
    <3>2. inspection[i] \in Inspections /\ changes[i] \in Nat
      BY <1>1, <1>3
    <3>3. inspection[i] = [condition |-> inspection[i].condition, late |-> inspection[i].late, extra |-> inspection[i].extra]
      BY <3>2 DEF Inspections
    <3>4. inspection'[i] = [condition |-> inspection[i].condition, late |-> changes[i], extra |-> 0]
      BY <3>1, <3>3
    <3>5. inspection[i].condition \in Condition
      BY <3>2 DEF Inspections
    <3> QED BY <3>2, <3>4, <3>5 DEF Inspections
  <2> QED BY <1>2, <2>1, NoneIsNothing
<1>12. ReturnTypes'
  <2>1. inspection' \in [Pieces -> Inspections \cup {None}]
    <3>1. inspection' = [i \in Pieces |-> inspection'[i]]
      BY <1>2
    <3>2. \A i \in Pieces : inspection'[i] \in Inspections \cup {None}
      BY <1>3, <1>11
    <3> QED BY <3>1, <3>2
  <2>2. IsFiniteSet(chargeRows') /\ \A c \in chargeRows' : IsCharge(c)
    BY <1>2, <1>3, <1>9, <1>10 DEF Chargeable
  <2> QED BY <1>2, <2>1, <2>2 DEF ReturnTypes
<1>13. OfPieces' /\ StillOut' /\ NotSettled'
  <2>1. OfPieces'
    <3>1. \A c \in kept : c \in chargeRows
      OBVIOUS
    <3>2. \A c \in added : c.source # "ADDED" /\ c.piece \in Out \ Free
      BY <1>1, <1>9
    <3> HIDE DEF kept
    <3> QED BY <1>2, <3>1, <3>2 DEF ReturnInv, OfPieces
  <2>2. StillOut' /\ NotSettled'
    BY <1>2 DEF StillOut, NotSettled
  <2> QED BY <2>1, <2>2
<1>14. EveryPieceIsInspectedOnce'
  <2>1. \A i \in Out : inspection'[i] # None /\ inspection'[i].condition = inspection[i].condition
    BY <1>1, <1>3, <1>11 DEF Given
  <2>2. \A i \in Pieces \ Out : inspection'[i] = None
    BY <1>1, <1>3, <1>11
  <2>3. /\ \A i \in Out : warehouse[i] = [status |-> WarehouseStatus[inspection[i].condition], rentals |-> 1]
        /\ \A i \in Pieces \ Out : warehouse[i].rentals = 0
    BY <1>1, <1>2 DEF ReturnInv, EveryPieceIsInspectedOnce
  <2> QED BY <1>2, <2>1, <2>2, <2>3 DEF EveryPieceIsInspectedOnce, Given
<1>15. ChargesMatchInspections'
  <2>1. ASSUME NEW i \in Pieces, inspection'[i] # None
        PROVE  ChargeSum({c \in chargeRows' : c.piece = i /\ c.source \in TimeFeeSources}) = inspection'[i].late + inspection'[i].extra
    <3>1. CASE i \in S
      <4>1. {c \in chargeRows' : c.piece = i /\ c.source \in TimeFeeSources} = anew[i]
        <5>1. row[i] \in added /\ row[i].piece = i /\ row[i].source \in TimeFeeSources
          BY <1>4, <1>5, <3>1 DEF TimeFeeSources
        <5>2. ASSUME NEW c \in added, c.piece = i PROVE c = row[i]
          <6>1. PICK j \in S : c = row[j]
            BY <1>4, <1>5
          <6> QED BY <1>4, <5>2, <6>1
        <5>3. \A c \in kept : ~(c.piece = i /\ c.source \in TimeFeeSources)
          BY <1>9, <3>1
        <5>4. anew[i] = {row[i]}
          BY <1>4, <3>1
        <5> HIDE DEF kept
        <5> QED BY <1>2, <5>1, <5>2, <5>3, <5>4
      <4>2. ChargeSum(anew[i]) = changes[i] /\ changes[i] \in Nat
        BY <1>1, <1>4, <3>1
      <4>3. inspection'[i].late = changes[i] /\ inspection'[i].extra = 0
        BY <1>11, <3>1
      <4>4. inspection'[i].late + inspection'[i].extra = changes[i]
        BY <4>2, <4>3
      <4>5. ChargeSum({c \in chargeRows' : c.piece = i /\ c.source \in TimeFeeSources}) = changes[i]
        BY <4>1, <4>2
      <4> QED BY <4>4, <4>5
    <3>2. CASE i \notin S
      <4>1. {c \in chargeRows' : c.piece = i /\ c.source \in TimeFeeSources}
            = {c \in chargeRows : c.piece = i /\ c.source \in TimeFeeSources}
        <5>1. \A c \in added : c.piece # i
          BY <1>9, <3>2
        <5>2. \A c \in chargeRows : c.piece = i => c \in kept
          <6>1. \A c \in voided : c.piece # i
            BY <1>4, <1>5, <3>2
          <6> QED BY <6>1
        <5>3. kept \subseteq chargeRows
          OBVIOUS
        <5> HIDE DEF kept
        <5> QED BY <1>2, <5>1, <5>2, <5>3
      <4>2. inspection'[i] = inspection[i]
        BY <1>11, <3>2
      <4>3. ChargeSum(TimeFeeRowsOf(i)) = TimeFee(i)
        BY <2>1, <4>2 DEF ReturnInv, ChargesMatchInspections, Given
      <4> QED BY <4>1, <4>2, <4>3 DEF TimeFeeRowsOf, TimeFee
    <3> QED BY <3>1, <3>2
  <2>2. record' = TimeFeesOf(inspection')
    <3>1. CASE S = {}
      <4>1. record = TimeFeesOf(inspection)
        BY <1>2 DEF ReturnInv, ChargesMatchInspections
      <4>2. \A i \in Out : /\ inspection[i].late \in Int /\ inspection[i].extra \in Int
                           /\ inspection'[i].late = inspection[i].late /\ inspection'[i].extra = inspection[i].extra
        BY <1>1, <1>3, <1>11, <3>1 DEF Inspections
      <4>3. TimeFeesOf(inspection') = TimeFeesOf(inspection)
        BY <1>1, <4>2, TimeFeesSame
      <4> QED BY <1>2, <3>1, <4>1, <4>3
    <3>2. CASE S # {}
      BY <1>2, <3>2
    <3> QED BY <3>1, <3>2
  <2> QED BY <1>10, <2>1, <2>2 DEF ChargesMatchInspections, TimeFeeRowsOf, TimeFee, Given
<1>16. FreeAccessoriesCostOnlyDamage'
  <2>1. \A c \in added : c.piece \notin Free
    BY <1>1, <1>9
  <2>2. \A c \in kept : c \in chargeRows
    OBVIOUS
  <2> HIDE DEF kept
  <2> QED BY <1>2, <2>1, <2>2 DEF ReturnInv, FreeAccessoriesCostOnlyDamage
<1> QED BY <1>12, <1>13, <1>14, <1>15, <1>16 DEF ReturnInv

LEMMA ReturnPreserved ==
    ASSUME PiecesAssumption, FeesAssumption, ReturnInv, [ReturnNext]_returnVars PROVE ReturnInv'
<1>1. ASSUME NEW list \in Lists, NEW condition \in Findings, NEW calculated \in [Out \ Free -> Calculations],
             NEW agreed \in [Out -> Optional({[amount |-> a] : a \in Agreed})],
             NEW damage \in Damages, NEW extra \in Optional(Extra),
             Receive(list, condition, calculated, agreed, damage, extra)
      PROVE  ReturnInv'
  <2>1. PICK fee \in [Out -> Fee] : \E added : Returns(condition, fee, added)
    BY <1>1, ReceiveIs
  <2>2. PICK added : Returns(condition, fee, added)
    BY <2>1
  <2> QED BY <2>2, ReceiveStep
<1>2. ASSUME NEW type \in {"LATE", "SHIPPING"}, AddChargeOnReturn(type, 1) PROVE ReturnInv'
  BY <1>2, AddChargeStep
<1>3. ASSUME NEW S \in SUBSET (Out \ Free), NEW changes \in [S -> Agreed], Settle(changes) PROVE ReturnInv'
  BY <1>3, SettleStep
<1>4. CASE UNCHANGED returnVars
  <2>1. /\ orderStatus' = orderStatus /\ warehouse' = warehouse /\ inspection' = inspection
        /\ chargeRows' = chargeRows /\ chargesTotal' = chargesTotal /\ record' = record
    BY <1>4 DEF returnVars
  <2>2. (ReturnTypes /\ OfPieces /\ StillOut /\ NotSettled)'
    BY <2>1 DEF ReturnInv, ReturnTypes, OfPieces, StillOut, NotSettled
  <2>3. EveryPieceIsInspectedOnce' /\ ChargesMatchInspections' /\ FreeAccessoriesCostOnlyDamage'
    BY <2>1 DEF ReturnInv, EveryPieceIsInspectedOnce, ChargesMatchInspections, FreeAccessoriesCostOnlyDamage,
                TimeFeeRowsOf, TimeFee
  <2> QED BY <2>2, <2>3 DEF ReturnInv
<1> QED BY <1>1, <1>2, <1>3, <1>4 DEF ReturnNext

(***************************************************************************)
(* Whatever pieces are out, whatever fees a clerk agrees and however the   *)
(* pieces are found: each is inspected and counted once, is charged what   *)
(* its inspection says, both before and after the settlement, the record   *)
(* and the bill add up, and free accessories cost only damage.             *)
(***************************************************************************)
THEOREM ReturnAddsUp == PiecesAssumption /\ FeesAssumption => (ReturnSpec => []ReturnIsAccounted)
<1> SUFFICES ASSUME PiecesAssumption /\ FeesAssumption PROVE ReturnSpec => []ReturnIsAccounted
  OBVIOUS
<1>1. ReturnInit => ReturnInv
  BY ReturnInitially
<1>2. ReturnInv /\ [ReturnNext]_returnVars => ReturnInv'
  BY ReturnPreserved
<1>3. ReturnInv => ReturnIsAccounted
  <2> SUFFICES ASSUME ReturnInv PROVE ReturnIsAccounted
    OBVIOUS
  <2>1. chargesTotal >= 0
    <3>1. Chargeable(chargeRows) /\ chargesTotal = ChargeSum(chargeRows)
      BY DEF ReturnInv, ReturnTypes, Chargeable, IsCharge, ChargesMatchInspections
    <3>2. ChargeSum(chargeRows) \in Nat
      BY <3>1, SumIsNat
    <3> QED BY <3>1, <3>2
  <2>2. \A i \in Pieces : inspection[i] = None \/ inspection[i].condition \in Condition
    BY DEF ReturnInv, ReturnTypes, Inspections
  <2>3. \A c \in chargeRows : c.piece \in Pieces \cup {NoPiece} /\ c.amount >= 0
    BY DEF ReturnInv, ReturnTypes, IsCharge
  <2>4. ReturnTypeOK
    BY <2>1, <2>2, <2>3 DEF ReturnInv, ReturnTypes, ReturnTypeOK
  <2> QED BY <2>4 DEF ReturnInv, ReturnIsAccounted
<1> QED BY <1>1, <1>2, <1>3, PTL DEF ReturnSpec

-----------------------------------------------------------------------------
(***************************************************************************)
(* Loyalty.  Counts of rows are compared through functions that pair them, *)
(* and cycles through division with remainder.                             *)
(***************************************************************************)
LEMMA SmallestNumber ==
    ASSUME NEW T \in SUBSET Nat, T # {}
    PROVE  \E n \in T : n = 0 \/ n - 1 \notin T
<1>1. PICK n \in T : \A k \in T : <<k, n>> \notin OpToRel(<, Nat)
  BY WFMin, NatLessThanWellFounded
<1>2. ASSUME n # 0 PROVE <<n - 1, n>> \in OpToRel(<, Nat)
  <2>1. n - 1 \in Nat /\ n \in Nat /\ n - 1 < n
    BY <1>2
  <2> QED BY <2>1 DEF OpToRel
<1> QED BY <1>1, <1>2

LEMMA DivideOnce ==
    ASSUME NEW a \in Nat, NEW r \in Nat \ {0}, NEW q \in Nat, NEW m \in 0 .. r - 1, a = r * q + m
    PROVE  a \div r = q /\ a % r = m
OBVIOUS

LEMMA DivideFacts ==
    ASSUME NEW a \in Nat, NEW r \in Nat \ {0}
    PROVE  \E q \in Nat, m \in 0 .. r - 1 : a = r * q + m /\ a \div r = q /\ a % r = m
<1> DEFINE Rest == {n \in Nat : ~ \E q \in Nat, m \in 0 .. r - 1 : n = r * q + m}
<1>1. CASE a \notin Rest
  <2>1. PICK q \in Nat, m \in 0 .. r - 1 : a = r * q + m
    BY <1>1
  <2> QED BY <2>1, DivideOnce
<1>2. CASE Rest # {}
  <2>1. PICK n \in Rest : n = 0 \/ n - 1 \notin Rest
    BY <1>2, SmallestNumber
  <2>2. n # 0
    <3>1. 0 = r * 0 + 0 /\ 0 \in 0 .. r - 1
      OBVIOUS
    <3> QED BY <3>1
  <2>3. n - 1 \in Nat /\ n - 1 \notin Rest
    BY <2>1, <2>2
  <2>4. PICK q \in Nat, m \in 0 .. r - 1 : n - 1 = r * q + m
    BY <2>3
  <2>5. CASE m = r - 1
    <3>1. n = r * (q + 1) + 0 /\ q + 1 \in Nat /\ 0 \in 0 .. r - 1
      BY <2>4, <2>5
    <3> QED BY <3>1
  <2>6. CASE m # r - 1
    <3>1. n = r * q + (m + 1) /\ m + 1 \in 0 .. r - 1
      BY <2>4, <2>6
    <3> QED BY <3>1
  <2> QED BY <2>5, <2>6
<1> QED BY <1>1, <1>2

\* One more rental completes a cycle when it brings the count to a multiple.
LEMMA DivideNext ==
    ASSUME NEW a \in Nat, NEW r \in Nat \ {0}
    PROVE  (a + 1) \div r = IF (a + 1) % r = 0 THEN (a \div r) + 1 ELSE a \div r
<1>1. PICK q \in Nat, m \in 0 .. r - 1 : a = r * q + m /\ a \div r = q
  BY DivideFacts
<1>2. CASE m = r - 1
  <2>1. a + 1 = r * (q + 1) + 0
    BY <1>1, <1>2
  <2> QED BY <1>1, <2>1, DivideOnce
<1>3. CASE m # r - 1
  <2>1. a + 1 = r * q + (m + 1) /\ m + 1 \in 0 .. r - 1
    BY <1>1, <1>3
  <2> QED BY <1>1, <2>1, DivideOnce
<1> QED BY <1>2, <1>3

\* What is missing to the end of the cycle completes it.
LEMMA RestOfCycle == ASSUME NEW a \in Nat, NEW r \in Nat \ {0} PROVE (a + (r - (a % r))) % r = 0
<1>1. PICK q \in Nat, m \in 0 .. r - 1 : a = r * q + m /\ a % r = m
  BY DivideFacts
<1>2. a + (r - m) \in Nat /\ a + (r - m) = r * (q + 1) + 0 /\ q + 1 \in Nat /\ 0 \in 0 .. r - 1
  BY <1>1
<1>3. (a + (r - m)) % r = 0
  BY <1>2, DivideOnce
<1> QED BY <1>1, <1>3

LEMMA OneToOne ==
    ASSUME NEW S, IsFiniteSet(S), NEW f, \A x, y \in S : f[x] = f[y] => x = y
    PROVE  /\ IsFiniteSet({f[x] : x \in S})
           /\ Cardinality({f[x] : x \in S}) = Cardinality(S)
<1> DEFINE T == {f[x] : x \in S}
           g == [x \in S |-> f[x]]
<1>1. g \in Bijection(S, T)
  <2>1. g \in [S -> T] /\ \A x \in S : g[x] = f[x]
    OBVIOUS
  <2>2. \A y \in T : \E x \in S : g[x] = y
    BY <2>1
  <2>3. \A x, y \in S : g[x] = g[y] => x = y
    BY <2>1
  <2> HIDE DEF T, g
  <2> QED BY <2>1, <2>2, <2>3 DEF Bijection, Injection, IsInjective, Surjection
<1> HIDE DEF T, g
<1>2. ExistsBijection(S, T)
  BY <1>1 DEF ExistsBijection
<1> QED BY <1>2, FS_Bijection DEF T

(***************************************************************************)
(* The invariant: an entry is that of its order, and of one order          *)
(* (EntriesAreTrue); who earned a reward is who has an entry of some value *)
(* (RewardsAreEarned), as often as cycles are full (CyclesAreFull); a      *)
(* reward is spent by the order that names it and no other                 *)
(* (SpendingIsBooked).  A transaction that may still commit decides on     *)
(* rows that are there (TransactionsAreSound).                             *)
(***************************************************************************)
Earning(es, w) == {n \in Qualified(es, w) : n.value > 0}
EarningOrders(es) == {n.order : n \in {m \in es : m.value > 0}}

EntriesAreTrue ==
    /\ completed \subseteq Orders /\ IsFiniteSet(entries)
    /\ \A n \in entries : /\ n.order \in completed /\ n.value \in {0, RewardRentalValue}
                          /\ n = Entry(n.order, Owner(n.order), n.value)
    /\ \A m, n \in entries : m.order = n.order => m = n
    /\ LoyaltyEnabled => \A o \in completed : \E n \in entries : n.order = o

RewardRow(o) == LET r == Reward(o, Owner(o)) IN
    [customer : {r.customer}, type : {r.type}, account : {r.account}, value : {r.value},
     status : {"AVAILABLE", "REDEEMED"}, by : 0 .. MaxBookings]
RewardsAreEarned ==
    /\ rewards = [o \in EarningOrders(entries) |-> rewards[o]]
    /\ \A o \in EarningOrders(entries) : rewards[o] \in RewardRow(o)

CyclesAreFull ==
    RewardRentalValue > 0 =>
      \A w \in Owners : Cardinality(Earning(entries, w))
                          = Cardinality(Qualified(entries, w)) \div RentalsRequired

Bookings == [account : WebAccounts, reward : Orders]
SpendingIsBooked ==
    /\ booked \in Seq(Bookings)
    /\ DiscountsAreBacked
    /\ \A o \in DOMAIN rewards : rewards[o].status = "REDEEMED" =>
         rewards[o].by \in DOMAIN booked /\ booked[rewards[o].by].reward = o

Sound(t, earned) ==   \* a transaction that may still commit, of the rewards earned so far
    /\ t \in [op : {"settle", "book"}, order : Orders, account : WebAccounts \cup {NoAccount},
              at : {"running", "waiting"}, attempt : 1 .. MaxAttempts, snap : {t.snap}]
    /\ t.at = "waiting" => t.attempt < MaxAttempts
    /\ t.op = "book" => t.order \in earned /\ t.account \in WebAccounts
TransactionsAreSound ==
    /\ tx = [c \in Clients |-> tx[c]]
    /\ \A c \in Clients : tx[c] = Idle \/ Sound(tx[c], DOMAIN rewards)

LoyaltyInv == /\ EntriesAreTrue /\ RewardsAreEarned /\ CyclesAreFull
              /\ SpendingIsBooked /\ TransactionsAreSound

-----------------------------------------------------------------------------
(* Rows and their owners.                                                  *)
LEMMA OwnerIsOwner == \A o \in Orders : Owner(o) \in Owners
BY DEF Owner, Owners, Customers, WebAccounts

\* An entry belongs to the owner of its order and to nobody else, whichever way it
\* is looked for.
LEMMA EntryBelongs ==
    ASSUME NEW o \in Orders, NEW value, NEW w \in Owners
    PROVE  LET n == Entry(o, Owner(o), value) IN
           /\ BelongsTo(n, w) <=> w = Owner(o)
           /\ BelongsTo(n, w) <=> IF w.type = "WEB_ACCOUNT" THEN n.account = w.id
                                  ELSE n.account = NoAccount /\ n.customer = w.id
           /\ BelongsTo(n, w) <=> IF Account[o] # NoAccount
                                  THEN w.type = "WEB_ACCOUNT" /\ w.id = Account[o]
                                  ELSE w.type = "CRM_CUSTOMER" /\ w.id = Customer[o]
           /\ n.order = o /\ n.value = value
<1>1. CASE w \in [type : {"CRM_CUSTOMER"}, id : Customers]
  BY <1>1 DEF BelongsTo, SameCustomer, Owner, Entry
<1>2. CASE w \in [type : {"WEB_ACCOUNT"}, id : WebAccounts]
  BY <1>2 DEF BelongsTo, SameCustomer, Owner, Entry, WebAccounts
<1> QED BY <1>1, <1>2 DEF Owners

\* So does a reward.
LEMMA RewardBelongs ==
    ASSUME NEW o \in Orders, NEW row \in RewardRow(o), NEW w \in Owners
    PROVE  BelongsTo(row, w) <=> w = Owner(o)
<1>1. row.customer = Customer[o] /\ row.type = Owner(o).type
      /\ row.account = IF Owner(o).type = "WEB_ACCOUNT" THEN Owner(o).id ELSE NoAccount
  BY DEF RewardRow, Reward
<1>2. CASE w \in [type : {"CRM_CUSTOMER"}, id : Customers]
  BY <1>1, <1>2 DEF BelongsTo, SameCustomer, Owner
<1>3. CASE w \in [type : {"WEB_ACCOUNT"}, id : WebAccounts]
  BY <1>1, <1>3 DEF BelongsTo, SameCustomer, Owner, WebAccounts
<1> QED BY <1>2, <1>3 DEF Owners

\* The rows of an owner are those of the orders it owns.
LEMMA MineByOrder ==
    ASSUME EntriesAreTrue, NEW w \in Owners, NEW n \in entries
    PROVE  /\ n.order \in Orders /\ n = Entry(n.order, Owner(n.order), n.value)
           /\ n \in Qualified(entries, w) <=> w = Owner(n.order)
           /\ n \in Qualified(entries, w)
                <=> IF w.type = "WEB_ACCOUNT" THEN n.account = w.id
                    ELSE n.account = NoAccount /\ n.customer = w.id
           /\ n \in Qualified(entries, w)
                <=> IF Account[n.order] # NoAccount
                    THEN w.type = "WEB_ACCOUNT" /\ w.id = Account[n.order]
                    ELSE w.type = "CRM_CUSTOMER" /\ w.id = Customer[n.order]
<1>1. n.order \in Orders /\ n = Entry(n.order, Owner(n.order), n.value)
  BY DEF EntriesAreTrue
<1>2. n \in Qualified(entries, w) <=> BelongsTo(n, w)
  BY DEF Qualified
<1> QED BY <1>1, <1>2, EntryBelongs

LEMMA FiniteRows ==
    ASSUME EntriesAreTrue, NEW w
    PROVE  /\ IsFiniteSet(Qualified(entries, w)) /\ IsFiniteSet(Earning(entries, w))
           /\ Cardinality(Qualified(entries, w)) \in Nat /\ Cardinality(Earning(entries, w)) \in Nat
<1>1. Qualified(entries, w) \subseteq entries /\ Earning(entries, w) \subseteq entries
  BY DEF Qualified, Earning
<1> QED BY <1>1, FS_Subset, FS_CardinalityType DEF EntriesAreTrue

\* An entry is of some value when its order has a reward.
LEMMA EarningByOrder ==
    ASSUME EntriesAreTrue, RewardsAreEarned, NEW n \in entries
    PROVE  /\ DOMAIN rewards = EarningOrders(entries)
           /\ n.order \in DOMAIN rewards <=> n.value > 0
<1>1. DOMAIN rewards = EarningOrders(entries)
  BY DEF RewardsAreEarned
<1>2. ASSUME n.order \in EarningOrders(entries) PROVE n.value > 0
  <2>1. PICK m \in entries : m.value > 0 /\ m.order = n.order
    BY <1>2 DEF EarningOrders
  <2>2. m = n
    BY <2>1 DEF EntriesAreTrue
  <2> QED BY <2>1, <2>2
<1>3. n.value > 0 => n.order \in EarningOrders(entries)
  BY DEF EarningOrders
<1> QED BY <1>1, <1>2, <1>3

LEMMA EarnedRows ==
    ASSUME EntriesAreTrue, RewardsAreEarned
    PROVE  /\ \A n \in entries : n.order \in DOMAIN rewards <=> n.value > 0
           /\ \A o \in DOMAIN rewards : /\ o \in Orders /\ rewards[o] \in RewardRow(o)
                                        /\ \E n \in entries : n.order = o /\ n.value > 0
<1>1. \A o \in DOMAIN rewards : o \in EarningOrders(entries) /\ rewards[o] \in RewardRow(o)
  BY DEF RewardsAreEarned
<1>2. \A o \in EarningOrders(entries) : o \in Orders /\ \E n \in entries : n.order = o /\ n.value > 0
  BY DEF EntriesAreTrue, EarningOrders
<1> QED BY <1>1, <1>2, EarningByOrder

-----------------------------------------------------------------------------
(* What the invariant says of the counts a customer is shown.               *)
LEMMA CyclesEarn == ASSUME LoyaltyAssumption, LoyaltyInv PROVE EveryCycleEarnsOne
<1> USE DEF LoyaltyInv
<1> SUFFICES ASSUME NEW w \in Owners
             PROVE  LET mine == {n \in entries : IF w.type = "WEB_ACCOUNT" THEN n.account = w.id
                                                 ELSE n.account = NoAccount /\ n.customer = w.id}
                    IN Cardinality({n \in mine : n.order \in DOMAIN rewards})
                         = IF RewardRentalValue > 0 THEN Cardinality(mine) \div RentalsRequired ELSE 0
  BY DEF EveryCycleEarnsOne
<1> DEFINE mine == {n \in entries : IF w.type = "WEB_ACCOUNT" THEN n.account = w.id
                                    ELSE n.account = NoAccount /\ n.customer = w.id}
           theirs == {n \in mine : n.order \in DOMAIN rewards}
<1>1. mine = Qualified(entries, w)
  <2>1. \A n \in entries : n \in Qualified(entries, w) <=> n \in mine
    BY MineByOrder
  <2> QED BY <2>1 DEF Qualified
<1>2. theirs = Earning(entries, w)
  BY <1>1, EarningByOrder DEF Earning, Qualified
<1> HIDE DEF mine, theirs
<1> SUFFICES Cardinality(theirs)
               = IF RewardRentalValue > 0 THEN Cardinality(mine) \div RentalsRequired ELSE 0
  BY DEF mine, theirs
<1>3. CASE RewardRentalValue > 0
  BY <1>1, <1>2, <1>3 DEF CyclesAreFull
<1>4. CASE ~ RewardRentalValue > 0
  <2>1. \A n \in entries : n.value = 0
    BY <1>4 DEF LoyaltyAssumption, EntriesAreTrue
  <2>2. Earning(entries, w) = {}
    BY <2>1 DEF Earning, Qualified
  <2> QED BY <1>2, <1>4, <2>2, FS_EmptySet
<1> QED BY <1>3, <1>4

LEMMA ScopesStayApart == ASSUME LoyaltyAssumption, LoyaltyInv PROVE ScopesNeverMerge
<1> USE DEF LoyaltyInv
<1> SUFFICES ASSUME LoyaltyEnabled, NEW w \in Owners
             PROVE  LET mine == {o \in completed : IF Account[o] # NoAccount
                                      THEN w.type = "WEB_ACCOUNT" /\ w.id = Account[o]
                                      ELSE w.type = "CRM_CUSTOMER" /\ w.id = Customer[o]}
                    IN Summary(w).completedRentalCount = Cardinality(mine)
  BY DEF ScopesNeverMerge
<1> DEFINE mine == {o \in completed : IF Account[o] # NoAccount
                                      THEN w.type = "WEB_ACCOUNT" /\ w.id = Account[o]
                                      ELSE w.type = "CRM_CUSTOMER" /\ w.id = Customer[o]}
           orderOf == [n \in entries |-> n.order]
           Q == Qualified(entries, w)
<1>1. Q \subseteq entries /\ IsFiniteSet(Q)
  BY FiniteRows DEF Qualified
<1>2. mine = {orderOf[n] : n \in Q}
  <2>1. ASSUME NEW n \in Q PROVE orderOf[n] \in mine
    BY <1>1, <2>1, MineByOrder DEF EntriesAreTrue
  <2>2. ASSUME NEW o \in mine PROVE \E n \in Q : orderOf[n] = o
    <3>1. PICK n \in entries : n.order = o
      BY <2>2 DEF EntriesAreTrue
    <3>2. n \in Q
      BY <2>2, <3>1, MineByOrder
    <3> QED BY <3>1, <3>2
  <2> HIDE DEF mine, orderOf, Q
  <2> QED BY <2>1, <2>2
<1>3. \A m, n \in Q : orderOf[m] = orderOf[n] => m = n
  BY <1>1 DEF EntriesAreTrue
<1> HIDE DEF mine, orderOf, Q
<1>4. Cardinality(mine) = Cardinality(Q)
  BY <1>1, <1>2, <1>3, OneToOne
<1>5. Summary(w).completedRentalCount = Cardinality(Q)
  BY DEF Summary, Q
<1> QED BY <1>4, <1>5 DEF mine

LEMMA TotalOfSame ==
    ASSUME NEW S, IsFiniteSet(S), NEW v \in Nat, NEW f, \A x \in S : f[x] = v
    PROVE  Total(S, f) = v * Cardinality(S)
<1> DEFINE F == {T \in SUBSET S : Total(T, f) # v * Cardinality(T)}
<1>1. CASE F # {}
  <2>1. PICK T \in F : \A x \in T : T \ {x} \notin F
    BY <1>1, SmallestMember
  <2>2. T # {}
    <3>1. v * Cardinality({}) = 0
      BY FS_EmptySet
    <3> QED BY <2>1, <3>1, TotalOfNothing
  <2>3. PICK x \in T : TRUE
    BY <2>2
  <2>4. IsFiniteSet(T) /\ T \in SUBSET S /\ T \ {x} \in SUBSET S /\ \A y \in T : f[y] \in Int
    BY <2>1, FS_Subset
  <2>5. Total(T, f) = f[x] + Total(T \ {x}, f)
    BY <2>3, <2>4, TotalWithout
  <2>6. Cardinality(T) \in Nat /\ Cardinality(T \ {x}) = Cardinality(T) - 1
    BY <2>3, <2>4, FS_CardinalityType, FS_RemoveElement
  <2>7. Total(T \ {x}, f) = v * (Cardinality(T) - 1) /\ f[x] = v
    BY <2>1, <2>3, <2>4, <2>6
  <2>8. v * Cardinality(T) = v + v * (Cardinality(T) - 1)
    BY <2>6
  <2> QED BY <2>1, <2>5, <2>7, <2>8
<1> QED BY <1>1

\* Rewards of one value are worth that value for each.
Worth(row, S) == MapThenSumSet(LAMBDA o : row[o].value, S)

LEMMA ValueOfRewards ==
    ASSUME NEW S, IsFiniteSet(S), NEW v \in Nat, NEW row, \A o \in S : row[o].value = v
    PROVE  Worth(row, S) = v * Cardinality(S)
<1> DEFINE f == [o \in S |-> v]
           Eq(it) == it = [U \in SUBSET S |-> IF U = {} THEN 0
                            ELSE row[CHOOSE c \in U : TRUE].value + it[U \ {CHOOSE c \in U : TRUE}]]
<1>1. ASSUME NEW it PROVE Eq(it) <=> FoldsTo(it, S, 0, f)
  <2>1. \A U \in SUBSET S : U # {} => row[CHOOSE c \in U : TRUE].value = f[CHOOSE c \in U : TRUE]
    OBVIOUS
  <2>2. [U \in SUBSET S |-> IF U = {} THEN 0
           ELSE row[CHOOSE c \in U : TRUE].value + it[U \ {CHOOSE c \in U : TRUE}]]
        = [U \in SUBSET S |-> IF U = {} THEN 0
           ELSE f[CHOOSE c \in U : TRUE] + it[U \ {CHOOSE c \in U : TRUE}]]
    BY <2>1
  <2> QED BY <2>2 DEF FoldsTo
<1> HIDE DEF Eq
<1>2. \A o \in S : f[o] = v /\ f[o] \in Int
  OBVIOUS
<1> HIDE DEF f
<1>3. \E it : Eq(it)
  <2>1. \E it : FoldsTo(it, S, 0, f)
    BY <1>2, FoldExists
  <2> QED BY <1>1, <2>1
<1>4. Eq(CHOOSE it : Eq(it))
  BY <1>3
<1> DEFINE g == CHOOSE it : Eq(it)
<1>5. Worth(row, S) = g[S]
  BY DEF Worth, MapThenSumSet, MapThenFoldSet, Eq
<1> HIDE DEF g
<1>6. g[S] = 0 + Total(S, f)
  BY <1>1, <1>2, <1>4, FoldIsTotal DEF g
<1>7. Total(S, f) \in Int /\ Total(S, f) = v * Cardinality(S)
  BY <1>2, TotalIsInt, TotalOfSame
<1> QED BY <1>5, <1>6, <1>7

LEMMA SummariesAddUp == ASSUME LoyaltyAssumption, LoyaltyInv PROVE SummaryAddsUp
<1> USE DEF LoyaltyInv
<1> SUFFICES ASSUME NEW w \in Owners
             PROVE  LET s == Summary(w)
                        spent == {k \in DOMAIN booked : w.type = "WEB_ACCOUNT"
                                                        /\ booked[k].account = w.id}
                    IN /\ RewardRentalValue > 0 =>
                            s.completedRentalCount
                              = RentalsRequired * (Cardinality(s.availableRewards) + Cardinality(spent))
                                + s.currentCycleProgress
                       /\ s.availableRewardValue = RewardRentalValue * Cardinality(s.availableRewards)
                       /\ LoyaltyEnabled =>
                            (s.completedRentalCount + s.rentalsUntilReward) % RentalsRequired = 0
  BY DEF SummaryAddsUp
<1> DEFINE Q == Qualified(entries, w)
           E == Earning(entries, w)
           X == {o \in DOMAIN rewards : Owner(o) = w}
           A == Available(w)
           Z == X \ A
           spent == {k \in DOMAIN booked : w.type = "WEB_ACCOUNT" /\ booked[k].account = w.id}
           orderOf == [n \in E |-> n.order]
           rewardOf == [k \in spent |-> booked[k].reward]
           sum == Worth(rewards, A)
<1>1. /\ IsFiniteSet(E) /\ Cardinality(Q) \in Nat
      /\ RentalsRequired \in Nat \ {0} /\ RewardRentalValue \in Nat /\ LoyaltyEnabled \in BOOLEAN
  BY FiniteRows DEF LoyaltyAssumption
<1>2. /\ Summary(w).completedRentalCount = Cardinality(Q)
      /\ Summary(w).currentCycleProgress = Cardinality(Q) % RentalsRequired
      /\ LoyaltyEnabled => Summary(w).rentalsUntilReward
                             = RentalsRequired - (Cardinality(Q) % RentalsRequired)
      /\ Summary(w).availableRewards = A
      /\ Summary(w).availableRewardValue = sum
  BY DEF Summary, Worth
\* The rewards of an owner are the orders of its entries of some value.
<1>3. IsFiniteSet(X) /\ Cardinality(X) = Cardinality(E)
  <2>1. \A n \in E : n \in entries /\ n \in Q /\ n.value > 0
    BY DEF Earning, Qualified
  <2>2. \A m, n \in E : orderOf[m] = orderOf[n] => m = n
    BY <2>1 DEF EntriesAreTrue
  <2>3. ASSUME NEW n \in E PROVE orderOf[n] \in X
    <3>1. n.order \in DOMAIN rewards
      BY <2>1, EarnedRows
    <3>2. w = Owner(n.order)
      BY <2>1, MineByOrder
    <3> QED BY <3>1, <3>2
  <2>4. ASSUME NEW o \in X PROVE \E n \in E : orderOf[n] = o
    <3>1. PICK n \in entries : n.order = o /\ n.value > 0
      BY EarnedRows
    <3>2. n \in Qualified(entries, w)
      BY <3>1, MineByOrder
    <3>3. n \in E
      BY <3>1, <3>2 DEF Earning
    <3> QED BY <3>1, <3>3
  <2> HIDE DEF X, E, orderOf
  <2>5. X = {orderOf[n] : n \in E}
    BY <2>3, <2>4
  <2> QED BY <1>1, <2>2, <2>5, OneToOne
<1>4. \A o \in DOMAIN rewards : BelongsTo(rewards[o], w) <=> o \in X
  BY EarnedRows, RewardBelongs
<1>5. A = {o \in X : rewards[o].status = "AVAILABLE"}
  BY <1>4 DEF Available
<1>6. \A o \in X : /\ rewards[o].status \in {"AVAILABLE", "REDEEMED"}
                   /\ rewards[o].value = RewardRentalValue
  BY EarnedRows DEF RewardRow, Reward
\* The rewards spent are those the bookings of the account name.
<1>7. IsFiniteSet(spent) /\ Cardinality(Z) = Cardinality(spent)
  <2>1. IsFiniteSet(spent)
    <3>1. DOMAIN booked = 1 .. Len(booked) /\ Len(booked) \in Nat
      BY DEF SpendingIsBooked
    <3>2. IsFiniteSet(DOMAIN booked)
      BY <3>1, FS_Interval
    <3> QED BY <3>2, FS_Subset
  <2>2. ASSUME NEW k \in spent
        PROVE  rewardOf[k] \in Z /\ rewards[rewardOf[k]].by = k
    <3>1. /\ booked[k].reward \in DOMAIN rewards /\ rewards[booked[k].reward].by = k
          /\ rewards[booked[k].reward].status = "REDEEMED"
          /\ Account[booked[k].reward] = w.id /\ w.type = "WEB_ACCOUNT"
      BY DEF SpendingIsBooked, DiscountsAreBacked
    <3>2. w.id \in WebAccounts /\ w = [type |-> "WEB_ACCOUNT", id |-> w.id]
      BY <3>1 DEF Owners
    <3>3. Owner(booked[k].reward) = w
      BY <3>1, <3>2 DEF Owner, WebAccounts
    <3> QED BY <1>5, <3>1, <3>3
  <2>3. ASSUME NEW o \in Z PROVE \E k \in spent : rewardOf[k] = o
    <3>1. o \in DOMAIN rewards /\ Owner(o) = w /\ rewards[o].status = "REDEEMED"
      BY <1>5, <1>6
    <3> DEFINE k == rewards[o].by
    <3>2. k \in DOMAIN booked /\ booked[k].reward = o /\ Account[o] = booked[k].account
      BY <3>1 DEF SpendingIsBooked, DiscountsAreBacked
    <3>3. booked[k].account \in WebAccounts
      <4> HIDE DEF k
      <4>1. booked[k] \in Bookings
        BY <3>2 DEF SpendingIsBooked
      <4> QED BY <4>1 DEF Bookings
    <3>4. w.type = "WEB_ACCOUNT" /\ w.id = Account[o]
      BY <3>1, <3>2, <3>3 DEF Owner, WebAccounts
    <3> QED BY <3>2, <3>4
  <2> HIDE DEF Z, spent, rewardOf
  <2>4. Z = {rewardOf[k] : k \in spent}
    BY <2>2, <2>3
  <2>5. \A k, l \in spent : rewardOf[k] = rewardOf[l] => k = l
    BY <2>2
  <2> QED BY <2>1, <2>4, <2>5, OneToOne
<1> HIDE DEF Q, E, X, spent
<1>8. /\ IsFiniteSet(A) /\ Cardinality(A) \in Nat /\ Cardinality(Z) \in Nat
      /\ Cardinality(X) = Cardinality(A) + Cardinality(Z)
  <2>1. A \subseteq X /\ X \cap A = A
    BY <1>5
  <2> HIDE DEF A
  <2>2. IsFiniteSet(A) /\ Cardinality(A) <= Cardinality(X)
    BY <1>3, <2>1, FS_Subset
  <2>3. IsFiniteSet(Z) /\ Cardinality(Z) = Cardinality(X) - Cardinality(A)
    BY <1>3, <2>1, FS_Difference
  <2> QED BY <1>3, <2>2, <2>3, FS_CardinalityType
<1>9. RewardRentalValue > 0 => Cardinality(E) = Cardinality(Q) \div RentalsRequired
  BY DEF CyclesAreFull, E, Q
<1>10. sum = RewardRentalValue * Cardinality(A)
  <2>1. \A o \in A : rewards[o].value = RewardRentalValue
    BY <1>5, <1>6
  <2> HIDE DEF A
  <2> QED BY <1>1, <1>8, <2>1, ValueOfRewards
<1>11. RewardRentalValue > 0 =>
         Cardinality(Q) = RentalsRequired * (Cardinality(A) + Cardinality(spent))
                          + (Cardinality(Q) % RentalsRequired)
  <2>1. Cardinality(Q) = RentalsRequired * (Cardinality(Q) \div RentalsRequired)
                         + (Cardinality(Q) % RentalsRequired)
    BY <1>1, DivideFacts
  <2> QED BY <1>3, <1>7, <1>8, <1>9, <2>1
<1>12. (Cardinality(Q) + (RentalsRequired - (Cardinality(Q) % RentalsRequired))) % RentalsRequired = 0
  BY <1>1, RestOfCycle
<1> QED BY <1>2, <1>10, <1>11, <1>12 DEF spent

-----------------------------------------------------------------------------
(***************************************************************************)
(* The migrated history: by induction on its length, an owner has earned a *)
(* reward for every full cycle of its orders so far.                       *)
(***************************************************************************)
OwnedUpTo(history, w, n) == {k \in 1 .. n : Owner(history[k]) = w}
FullUpTo(history, w, n) == {k \in OwnedUpTo(history, w, n) : Position(history, k) % RentalsRequired = 0}

LEMMA FiniteUpTo ==
    ASSUME NEW history, NEW w, NEW n \in Nat
    PROVE  /\ IsFiniteSet(OwnedUpTo(history, w, n)) /\ IsFiniteSet(FullUpTo(history, w, n))
           /\ Cardinality(OwnedUpTo(history, w, n)) \in Nat
           /\ Cardinality(FullUpTo(history, w, n)) \in Nat
<1>1. IsFiniteSet(1 .. n)
  BY FS_Interval
<1>2. OwnedUpTo(history, w, n) \subseteq 1 .. n /\ FullUpTo(history, w, n) \subseteq 1 .. n
  BY DEF OwnedUpTo, FullUpTo
<1> QED BY <1>1, <1>2, FS_Subset, FS_CardinalityType

LEMMA HistoryEarns ==
    ASSUME LoyaltyAssumption, NEW history \in Seq(Orders), NEW w
    PROVE  \A n \in 0 .. Len(history) :
             Cardinality(FullUpTo(history, w, n))
               = Cardinality(OwnedUpTo(history, w, n)) \div RentalsRequired
<1> DEFINE Own(n) == OwnedUpTo(history, w, n)
           Full(n) == FullUpTo(history, w, n)
           Wrong == {n \in 0 .. Len(history) :
                       Cardinality(Full(n)) # Cardinality(Own(n)) \div RentalsRequired}
<1>1. RentalsRequired \in Nat \ {0} /\ Len(history) \in Nat
  BY DEF LoyaltyAssumption
<1>2. CASE Wrong # {}
  <2>1. PICK n \in Wrong : n = 0 \/ n - 1 \notin Wrong
    <3>1. Wrong \subseteq Nat
      BY <1>1
    <3> HIDE DEF Wrong
    <3> QED BY <1>2, <3>1, SmallestNumber
  <2>2. n \in 0 .. Len(history) /\ Cardinality(Full(n)) # Cardinality(Own(n)) \div RentalsRequired
    BY <2>1
  <2>3. n # 0
    <3>1. n = 0 => Own(n) = {} /\ Full(n) = {}
      BY DEF OwnedUpTo, FullUpTo
    <3>2. 0 \div RentalsRequired = 0
      BY <1>1
    <3> QED BY <2>2, <3>1, <3>2, FS_EmptySet
  <2>4. n \in Nat /\ n - 1 \in Nat /\ n - 1 \in 0 .. Len(history)
    BY <1>1, <2>2, <2>3
  <2>5. Cardinality(Full(n - 1)) = Cardinality(Own(n - 1)) \div RentalsRequired
    BY <2>1, <2>3, <2>4
  <2>6. /\ IsFiniteSet(Own(n - 1)) /\ IsFiniteSet(Full(n - 1)) /\ Cardinality(Own(n - 1)) \in Nat
    BY <2>4, FiniteUpTo
  <2>7. 1 .. n = (1 .. n - 1) \cup {n} /\ n \notin 1 .. n - 1
    BY <2>3, <2>4
  <2>8. CASE Owner(history[n]) # w
    <3>1. Own(n) = Own(n - 1)
      BY <2>7, <2>8 DEF OwnedUpTo
    <3>2. Full(n) = Full(n - 1)
      BY <3>1 DEF FullUpTo
    <3> QED BY <2>2, <2>5, <3>1, <3>2
  <2>9. CASE Owner(history[n]) = w
    <3>1. Own(n) = Own(n - 1) \cup {n} /\ n \notin Own(n - 1)
      BY <2>7, <2>9 DEF OwnedUpTo
    <3>2. Cardinality(Own(n)) = Cardinality(Own(n - 1)) + 1
      BY <2>6, <3>1, FS_AddElement
    <3>3. Position(history, n) = Cardinality(Own(n))
      BY <2>9 DEF Position, OwnedUpTo
    <3>4. CASE Cardinality(Own(n)) % RentalsRequired = 0
      <4>1. Full(n) = Full(n - 1) \cup {n} /\ n \notin Full(n - 1)
        BY <3>1, <3>3, <3>4 DEF FullUpTo
      <4>2. Cardinality(Full(n)) = Cardinality(Full(n - 1)) + 1
        BY <2>6, <4>1, FS_AddElement
      <4> QED BY <1>1, <2>2, <2>5, <2>6, <3>2, <3>4, <4>2, DivideNext
    <3>5. CASE Cardinality(Own(n)) % RentalsRequired # 0
      <4>1. Full(n) = Full(n - 1)
        BY <3>1, <3>3, <3>5 DEF FullUpTo
      <4> QED BY <1>1, <2>2, <2>5, <2>6, <3>2, <3>5, <4>1, DivideNext
    <3> QED BY <3>4, <3>5
  <2> QED BY <2>8, <2>9
<1> QED BY <1>2

LEMMA LoyaltyInitially == ASSUME LoyaltyAssumption, LoyaltyInit PROVE LoyaltyInv
<1>1. PICK history \in Histories :
        /\ completed = Range(history)
        /\ entries = Backfill(history) /\ rewards = BackfillRewards(entries)
        /\ booked = << >> /\ tx = [c \in Clients |-> Idle]
  BY DEF LoyaltyInit
<1>2. history \in Seq(Orders) /\ IsInjective(history) /\ RewardRentalValue \in Nat
  BY DEF LoyaltyAssumption
<1> DEFINE N == Len(history)
           value == [k \in 1 .. N |-> IF Position(history, k) % RentalsRequired = 0
                                      THEN RewardRentalValue ELSE 0]
           row == [k \in 1 .. N |-> Entry(history[k], Owner(history[k]), value[k])]
<1>3. /\ N \in Nat /\ DOMAIN history = 1 .. N
      /\ \A k \in 1 .. N : history[k] \in Orders
      /\ \A j, k \in 1 .. N : history[j] = history[k] => j = k
  BY <1>2 DEF IsInjective
<1>4. entries = {row[k] : k \in 1 .. N}
  BY <1>1, <1>3 DEF Backfill
<1>5. \A k \in 1 .. N : /\ value[k] \in {0, RewardRentalValue}
                        /\ value[k] = IF Position(history, k) % RentalsRequired = 0
                                      THEN RewardRentalValue ELSE 0
                        /\ row[k] = Entry(history[k], Owner(history[k]), value[k])
                        /\ row[k].order = history[k] /\ row[k].value = value[k]
  BY DEF Entry
<1>6. completed = {history[k] : k \in 1 .. N}
  BY <1>1, <1>3 DEF Range
<1> HIDE DEF row, value
<1>7. \A j, k \in 1 .. N : row[j].order = row[k].order => j = k
  BY <1>3, <1>5
<1>8. EntriesAreTrue
  <2>1. IsFiniteSet(entries)
    <3>1. IsFiniteSet(1 .. N)
      BY <1>3, FS_Interval
    <3>2. IsFiniteSet({row[k] : k \in 1 .. N})
      BY <3>1, FiniteImage
    <3> QED BY <1>4, <3>2
  <2>2. \A n \in entries : \E k \in 1 .. N : n = row[k]
    BY <1>4
  <2>3. \A n \in entries : /\ n.order \in completed /\ n.value \in {0, RewardRentalValue}
                           /\ n = Entry(n.order, Owner(n.order), n.value)
    BY <1>5, <1>6, <2>2
  <2>4. \A m, n \in entries : m.order = n.order => m = n
    BY <1>7, <2>2
  <2>5. \A o \in completed : \E n \in entries : n.order = o
    <3> TAKE o \in completed
    <3>1. PICK k \in 1 .. N : o = history[k]
      BY <1>6
    <3>2. row[k] \in entries /\ row[k].order = o
      BY <1>4, <1>5, <3>1
    <3> QED BY <3>2
  <2>6. completed \subseteq Orders
    BY <1>3, <1>6
  <2> QED BY <2>1, <2>3, <2>4, <2>5, <2>6 DEF EntriesAreTrue
<1>9. RewardsAreEarned
  <2>1. rewards = [o \in EarningOrders(entries) |-> Reward(o, Owner(o))]
    BY <1>1 DEF BackfillRewards, EarningOrders
  <2>2. \A o \in EarningOrders(entries) : Reward(o, Owner(o)) \in RewardRow(o)
    BY DEF Reward, RewardRow, LoyaltyAssumption
  <2> QED BY <2>1, <2>2 DEF RewardsAreEarned
<1>10. CyclesAreFull
  <2> SUFFICES ASSUME RewardRentalValue > 0, NEW w \in Owners
               PROVE  Cardinality(Earning(entries, w))
                        = Cardinality(Qualified(entries, w)) \div RentalsRequired
    BY DEF CyclesAreFull
  <2> DEFINE Own == OwnedUpTo(history, w, N)
             Full == FullUpTo(history, w, N)
  <2>1. Own \subseteq 1 .. N /\ Full \subseteq Own /\ IsFiniteSet(Own) /\ IsFiniteSet(Full)
    <3>1. IsFiniteSet(Own) /\ IsFiniteSet(Full)
      BY <1>3, FiniteUpTo
    <3>2. Own \subseteq 1 .. N /\ Full \subseteq Own
      BY DEF OwnedUpTo, FullUpTo
    <3> QED BY <3>1, <3>2
  <2>2. \A k \in 1 .. N : row[k] \in Qualified(entries, w) <=> k \in Own
    <3> TAKE k \in 1 .. N
    <3>1. row[k] \in entries /\ row[k].order = history[k]
      BY <1>4, <1>5
    <3>2. row[k] \in Qualified(entries, w) <=> w = Owner(history[k])
      BY <1>8, <3>1, MineByOrder
    <3> QED BY <3>2 DEF OwnedUpTo
  <2>3. \A k \in 1 .. N : row[k] \in Earning(entries, w) <=> k \in Full
    <3> TAKE k \in 1 .. N
    <3>1. row[k].value > 0 <=> Position(history, k) % RentalsRequired = 0
      BY <1>2, <1>5
    <3> QED BY <2>2, <3>1 DEF Earning, FullUpTo
  <2>4. Qualified(entries, w) = {row[k] : k \in Own}
    <3>1. Qualified(entries, w) \subseteq entries
      BY DEF Qualified
    <3> HIDE DEF Own
    <3> QED BY <1>4, <2>1, <2>2, <3>1
  <2>5. Earning(entries, w) = {row[k] : k \in Full}
    <3>1. Earning(entries, w) \subseteq entries
      BY DEF Earning, Qualified
    <3> HIDE DEF Own, Full
    <3> QED BY <1>4, <2>1, <2>3, <3>1
  <2> HIDE DEF Own, Full
  <2>6. \A j, k \in 1 .. N : row[j] = row[k] => j = k
    BY <1>7
  <2>7. Cardinality(Qualified(entries, w)) = Cardinality(Own)
    <3>1. \A j, k \in Own : row[j] = row[k] => j = k
      BY <2>1, <2>6
    <3>2. Cardinality({row[k] : k \in Own}) = Cardinality(Own)
      BY <2>1, <3>1, OneToOne
    <3> QED BY <2>4, <3>2
  <2>8. Cardinality(Earning(entries, w)) = Cardinality(Full)
    <3>1. \A j, k \in Full : row[j] = row[k] => j = k
      BY <2>1, <2>6
    <3>2. Cardinality({row[k] : k \in Full}) = Cardinality(Full)
      BY <2>1, <3>1, OneToOne
    <3> QED BY <2>5, <3>2
  <2>9. Cardinality(Full) = Cardinality(Own) \div RentalsRequired
    BY <1>2, <1>3, HistoryEarns DEF Own, Full
  <2> QED BY <2>7, <2>8, <2>9
<1>11. SpendingIsBooked
  <2>1. booked = << >> /\ \A o \in DOMAIN rewards : rewards[o].status = "AVAILABLE"
    BY <1>1 DEF BackfillRewards, Reward
  <2> QED BY <2>1 DEF SpendingIsBooked, DiscountsAreBacked
<1>12. TransactionsAreSound
  BY <1>1 DEF TransactionsAreSound
<1> QED BY <1>8, <1>9, <1>10, <1>11, <1>12 DEF LoyaltyInv

-----------------------------------------------------------------------------
(* Steps.                                                                   *)
LEMMA RowsRemain ==
    ASSUME LoyaltyInv, UNCHANGED <<completed, entries, rewards, booked>>, TransactionsAreSound'
    PROVE  LoyaltyInv'
<1>1. EntriesAreTrue'
  BY DEF LoyaltyInv, EntriesAreTrue
<1>2. RewardsAreEarned'
  BY DEF LoyaltyInv, RewardsAreEarned, EarningOrders
<1>3. CyclesAreFull'
  BY DEF LoyaltyInv, CyclesAreFull
<1>4. SpendingIsBooked'
  BY DEF LoyaltyInv, SpendingIsBooked, DiscountsAreBacked
<1> QED BY <1>1, <1>2, <1>3, <1>4 DEF LoyaltyInv

\* A step is about one transaction; the others keep what they decide on.
LEMMA OthersAreSound ==
    ASSUME TransactionsAreSound, NEW c \in Clients, DOMAIN rewards \subseteq DOMAIN rewards',
           NEW t, tx' = [tx EXCEPT ![c] = t], t = Idle \/ Sound(t, DOMAIN rewards')
    PROVE  TransactionsAreSound'
<1>1. tx' = [d \in Clients |-> tx'[d]] /\ tx'[c] = t
      /\ \A d \in Clients \ {c} : tx'[d] = tx[d]
  BY DEF TransactionsAreSound
<1>2. ASSUME NEW d \in Clients PROVE tx'[d] = Idle \/ Sound(tx'[d], DOMAIN rewards')
  <2>1. CASE d = c
    BY <1>1, <2>1
  <2>2. CASE d # c
    <3>1. tx'[d] = tx[d] /\ (tx[d] = Idle \/ Sound(tx[d], DOMAIN rewards))
      BY <1>1, <2>2 DEF TransactionsAreSound
    <3>2. ASSUME NEW u, Sound(u, DOMAIN rewards) PROVE Sound(u, DOMAIN rewards')
      BY <3>2 DEF Sound
    <3> QED BY <3>1, <3>2
  <2> QED BY <2>1, <2>2
<1> QED BY <1>1, <1>2 DEF TransactionsAreSound

LEMMA WaitStep ==
    ASSUME LoyaltyAssumption, LoyaltyInv, NEW c \in Clients,
           UNCHANGED <<completed, entries, rewards, booked>>,
           NEW t, tx' = [tx EXCEPT ![c] = t], t = Idle \/ Sound(t, DOMAIN rewards)
    PROVE  LoyaltyInv'
<1>1. DOMAIN rewards \subseteq DOMAIN rewards' /\ (t = Idle \/ Sound(t, DOMAIN rewards'))
  OBVIOUS
<1>2. TransactionsAreSound'
  BY <1>1, OthersAreSound DEF LoyaltyInv
<1> QED BY <1>2, RowsRemain

LEMMA TransactionIs ==
    ASSUME LoyaltyInv, NEW c \in Clients, tx[c] # Idle
    PROVE  Sound(tx[c], DOMAIN rewards)
BY DEF LoyaltyInv, TransactionsAreSound

LEMMA RequestStep ==
    ASSUME LoyaltyAssumption, LoyaltyInv, NEW c \in Clients, NEW kind \in {"settle", "book"},
           NEW o \in Orders, NEW a \in WebAccounts \cup {NoAccount}, Request(c, kind, o, a),
           kind = "book" => o \in DOMAIN rewards /\ a \in WebAccounts
    PROVE  LoyaltyInv'
<1> DEFINE t == [op |-> kind, order |-> o, account |-> a, at |-> "running", attempt |-> 1,
                 snap |-> Snapshot]
<1>1. Sound(t, DOMAIN rewards)
  BY DEF Sound, LoyaltyAssumption
<1>2. tx' = [tx EXCEPT ![c] = t] /\ UNCHANGED <<completed, entries, rewards, booked>>
  BY DEF Request
<1> HIDE DEF t
<1> QED BY <1>1, <1>2, WaitStep

LEMMA RefuseStep ==
    ASSUME LoyaltyAssumption, LoyaltyInv, NEW c \in Clients, RefuseSpending(c)
    PROVE  LoyaltyInv'
BY WaitStep DEF RefuseSpending

LEMMA ConflictStep ==
    ASSUME LoyaltyAssumption, LoyaltyInv, NEW c \in Clients, Conflict(c)
    PROVE  LoyaltyInv'
<1> DEFINE t == IF tx[c].attempt = MaxAttempts THEN Idle ELSE [tx[c] EXCEPT !.at = "waiting"]
<1>1. Sound(tx[c], DOMAIN rewards)
  BY TransactionIs DEF Conflict
<1>2. t = Idle \/ Sound(t, DOMAIN rewards)
  BY <1>1 DEF Sound, LoyaltyAssumption
<1>3. tx' = [tx EXCEPT ![c] = t] /\ UNCHANGED <<completed, entries, rewards, booked>>
  BY DEF Conflict
<1> HIDE DEF t
<1> QED BY <1>2, <1>3, WaitStep

LEMMA RetryStep ==
    ASSUME LoyaltyAssumption, LoyaltyInv, NEW c \in Clients, Retry(c)
    PROVE  LoyaltyInv'
<1> DEFINE t == [tx[c] EXCEPT !.at = "running", !.attempt = @ + 1, !.snap = Snapshot]
<1>1. Sound(tx[c], DOMAIN rewards) /\ tx[c].at = "waiting"
  BY TransactionIs DEF Retry
<1>2. Sound(t, DOMAIN rewards)
  <2> DEFINE s == tx[c]
  <2>1. /\ s \in [op : {"settle", "book"}, order : Orders, account : WebAccounts \cup {NoAccount},
                  at : {"running", "waiting"}, attempt : 1 .. MaxAttempts, snap : {s.snap}]
        /\ s.attempt < MaxAttempts
        /\ s.op = "book" => s.order \in DOMAIN rewards /\ s.account \in WebAccounts
    BY <1>1 DEF Sound
  <2>2. s.attempt + 1 \in 1 .. MaxAttempts
    BY <2>1 DEF LoyaltyAssumption
  <2> DEFINE u == [s EXCEPT !.at = "running", !.attempt = s.attempt + 1, !.snap = Snapshot]
  <2>3. /\ u \in [op : {"settle", "book"}, order : Orders, account : WebAccounts \cup {NoAccount},
                  at : {"running", "waiting"}, attempt : 1 .. MaxAttempts, snap : {Snapshot}]
        /\ u.snap = Snapshot /\ u.at = "running" /\ u.op = s.op
        /\ u.order = s.order /\ u.account = s.account
    <3> HIDE DEF s
    <3> QED BY <2>1, <2>2
  <2>4. t = u
    OBVIOUS
  <2> HIDE DEF s, t, u
  <2> QED BY <2>1, <2>3, <2>4 DEF Sound
<1>3. tx' = [tx EXCEPT ![c] = t] /\ UNCHANGED <<completed, entries, rewards, booked>>
  <2>1. tx = [d \in Clients |-> tx[d]]
    BY DEF LoyaltyInv, TransactionsAreSound
  <2> QED BY <2>1 DEF Retry
<1> HIDE DEF t
<1> QED BY <1>2, <1>3, WaitStep

Granted(o, value) ==
    IF value > 0 THEN [p \in DOMAIN rewards \cup {o} |->
                         IF p = o THEN Reward(o, Owner(o)) ELSE rewards[p]]
    ELSE rewards

\* What a settlement that commits writes: it was right about the order and the count.
LEMMA EarnIs ==
    ASSUME LoyaltyAssumption, LoyaltyInv, NEW c \in Clients, SettleAndEarn(c)
    PROVE  \E o \in Orders, value \in {0, RewardRentalValue} :
             /\ o \notin completed /\ completed' = completed \cup {o}
             /\ value = NthReward(Cardinality(Qualified(entries, Owner(o))))
             /\ LoyaltyEnabled => entries' = entries \cup {Entry(o, Owner(o), value)}
             /\ LoyaltyEnabled => rewards' = Granted(o, value)
             /\ ~LoyaltyEnabled => UNCHANGED <<entries, rewards>>
             /\ tx' = [tx EXCEPT ![c] = Idle] /\ UNCHANGED booked
<1> DEFINE o == tx[c].order
           seen == Qualified(tx[c].snap.entries, Owner(o))
           value == NthReward(Cardinality(seen))
<1>1. tx[c] # Idle /\ tx[c].op = "settle"
  BY DEF SettleAndEarn, Running, Idle
<1>2. o \in Orders
  BY <1>1, TransactionIs DEF Sound
<1>3. o \notin tx[c].snap.completed /\ ~Stale(c)
  BY DEF SettleAndEarn
<1>4. ~RowTaken(c) /\ Qualified(entries, Owner(o)) = seen
  BY <1>1, <1>3 DEF Stale
<1>5. o \notin completed
  BY <1>3, <1>4 DEF RowTaken
<1>6. value \in {0, RewardRentalValue}
  BY DEF NthReward
<1>7. /\ completed' = completed \cup {o}
      /\ IF LoyaltyEnabled
         THEN /\ entries' = entries \cup {Entry(o, Owner(o), value)}
              /\ rewards' = Granted(o, value)
         ELSE UNCHANGED <<entries, rewards>>
      /\ tx' = [tx EXCEPT ![c] = Idle] /\ UNCHANGED booked
  BY DEF SettleAndEarn, Granted
<1>8. value = NthReward(Cardinality(Qualified(entries, Owner(o))))
  BY <1>4
<1> HIDE DEF o, value
<1> QED BY <1>2, <1>5, <1>6, <1>7, <1>8

LEMMA SettleUncounted ==
    ASSUME LoyaltyInv, NEW o \in Orders, ~LoyaltyEnabled, completed' = completed \cup {o},
           UNCHANGED <<entries, rewards, booked>>, TransactionsAreSound'
    PROVE  LoyaltyInv'
<1>1. EntriesAreTrue'
  BY DEF LoyaltyInv, EntriesAreTrue
<1>2. RewardsAreEarned'
  BY DEF LoyaltyInv, RewardsAreEarned, EarningOrders
<1>3. CyclesAreFull'
  BY DEF LoyaltyInv, CyclesAreFull
<1>4. SpendingIsBooked'
  BY DEF LoyaltyInv, SpendingIsBooked, DiscountsAreBacked
<1> QED BY <1>1, <1>2, <1>3, <1>4 DEF LoyaltyInv

\* A settlement keeps its owner's count of rewards that of the full cycles.
LEMMA CountStep ==
    ASSUME LoyaltyAssumption, EntriesAreTrue, CyclesAreFull, LoyaltyEnabled,
           NEW o \in Orders, o \notin completed,
           NEW value, value = NthReward(Cardinality(Qualified(entries, Owner(o)))),
           entries' = entries \cup {Entry(o, Owner(o), value)}
    PROVE  CyclesAreFull'
<1> DEFINE n == Entry(o, Owner(o), value)
<1>1. RentalsRequired \in Nat \ {0} /\ n \notin entries /\ n.value = value
  BY DEF EntriesAreTrue, LoyaltyAssumption, Entry
<1> SUFFICES ASSUME RewardRentalValue > 0, NEW w \in Owners
             PROVE  Cardinality(Earning(entries', w))
                      = Cardinality(Qualified(entries', w)) \div RentalsRequired
  BY DEF CyclesAreFull
<1>2. BelongsTo(n, w) <=> w = Owner(o)
  BY EntryBelongs
<1>3. /\ IsFiniteSet(Qualified(entries, w)) /\ IsFiniteSet(Earning(entries, w))
      /\ Cardinality(Qualified(entries, w)) \in Nat
      /\ Cardinality(Earning(entries, w)) = Cardinality(Qualified(entries, w)) \div RentalsRequired
  BY FiniteRows DEF CyclesAreFull
<1>4. entries' = entries \cup {n}
  OBVIOUS
<1> HIDE DEF n
<1>5. CASE w # Owner(o)
  <2>1. Qualified(entries', w) = Qualified(entries, w)
    BY <1>2, <1>4, <1>5 DEF Qualified
  <2>2. Earning(entries', w) = Earning(entries, w)
    BY <2>1 DEF Earning
  <2> QED BY <1>3, <2>1, <2>2
<1>6. CASE w = Owner(o)
  <2>1. Qualified(entries', w) = Qualified(entries, w) \cup {n} /\ n \notin Qualified(entries, w)
    BY <1>1, <1>2, <1>4, <1>6 DEF Qualified
  <2>2. Cardinality(Qualified(entries', w)) = Cardinality(Qualified(entries, w)) + 1
    BY <1>3, <2>1, FS_AddElement
  <2>3. n.value = IF (Cardinality(Qualified(entries, w)) + 1) % RentalsRequired = 0
                  THEN RewardRentalValue ELSE 0
    BY <1>1, <1>6 DEF NthReward
  <2>4. CASE (Cardinality(Qualified(entries, w)) + 1) % RentalsRequired = 0
    <3>1. Earning(entries', w) = Earning(entries, w) \cup {n} /\ n \notin Earning(entries, w)
      BY <2>1, <2>3, <2>4 DEF Earning
    <3>2. Cardinality(Earning(entries', w)) = Cardinality(Earning(entries, w)) + 1
      BY <1>3, <3>1, FS_AddElement
    <3> QED BY <1>1, <1>3, <2>2, <2>4, <3>2, DivideNext
  <2>5. CASE (Cardinality(Qualified(entries, w)) + 1) % RentalsRequired # 0
    <3>1. n.value = 0
      BY <2>3, <2>5
    <3>2. ~ n.value > 0
      BY <3>1
    <3>3. Earning(entries', w) = Earning(entries, w)
      BY <2>1, <3>2 DEF Earning
    <3> QED BY <1>1, <1>3, <2>2, <2>5, <3>3, DivideNext
  <2> QED BY <2>4, <2>5
<1> QED BY <1>5, <1>6

LEMMA EarnStep ==
    ASSUME LoyaltyAssumption, LoyaltyInv, NEW c \in Clients, SettleAndEarn(c)
    PROVE  LoyaltyInv'
<1>1. PICK o \in Orders, value \in {0, RewardRentalValue} :
             /\ o \notin completed /\ completed' = completed \cup {o}
             /\ value = NthReward(Cardinality(Qualified(entries, Owner(o))))
             /\ LoyaltyEnabled => entries' = entries \cup {Entry(o, Owner(o), value)}
             /\ LoyaltyEnabled => rewards' = Granted(o, value)
             /\ ~LoyaltyEnabled => UNCHANGED <<entries, rewards>>
             /\ tx' = [tx EXCEPT ![c] = Idle] /\ UNCHANGED booked
  BY EarnIs
<1>2. EntriesAreTrue /\ RewardsAreEarned /\ CyclesAreFull /\ SpendingIsBooked /\ TransactionsAreSound
  BY DEF LoyaltyInv
<1>3. CASE ~LoyaltyEnabled
  <2>1. TransactionsAreSound'
    BY <1>1, <1>2, <1>3, OthersAreSound
  <2> QED BY <1>1, <1>3, <2>1, SettleUncounted
<1>4. CASE LoyaltyEnabled
  <2> DEFINE n == Entry(o, Owner(o), value)
             gain == IF value > 0 THEN {o} ELSE {}
  <2>1. entries' = entries \cup {n} /\ n.order = o /\ n.value = value
        /\ n = Entry(n.order, Owner(n.order), n.value)
    BY <1>1, <1>4 DEF Entry
  <2>2. o \notin DOMAIN rewards
    BY <1>1, <1>2, EarnedRows, EarningByOrder DEF EntriesAreTrue
  <2>3. rewards' = [p \in DOMAIN rewards \cup gain |->
                      IF p \in DOMAIN rewards THEN rewards[p] ELSE Reward(o, Owner(o))]
    <3>1. DOMAIN rewards = EarningOrders(entries) /\ rewards = [p \in DOMAIN rewards |-> rewards[p]]
      BY <1>2 DEF RewardsAreEarned
    <3>2. CASE value > 0
      <4>1. rewards' = [p \in DOMAIN rewards \cup {o} |->
                          IF p = o THEN Reward(o, Owner(o)) ELSE rewards[p]]
        BY <1>1, <1>4, <3>2 DEF Granted
      <4>2. gain = {o} /\ \A p \in DOMAIN rewards \cup {o} : p = o <=> p \notin DOMAIN rewards
        BY <2>2, <3>2
      <4> QED BY <4>1, <4>2
    <3>3. CASE ~ value > 0
      BY <1>1, <1>4, <3>1, <3>3 DEF Granted
    <3> QED BY <3>2, <3>3
  <2> HIDE DEF n
  <2>4. EntriesAreTrue'
    <3>1. IsFiniteSet(entries') /\ completed' \subseteq Orders
      BY <1>1, <1>2, <2>1, FS_AddElement DEF EntriesAreTrue
    <3>2. \A m \in entries' : /\ m.order \in completed' /\ m.value \in {0, RewardRentalValue}
                              /\ m = Entry(m.order, Owner(m.order), m.value)
      BY <1>1, <1>2, <2>1 DEF EntriesAreTrue
    <3>3. \A l, m \in entries' : l.order = m.order => l = m
      BY <1>1, <1>2, <2>1 DEF EntriesAreTrue
    <3>4. \A p \in completed' : \E m \in entries' : m.order = p
      BY <1>1, <1>2, <1>4, <2>1 DEF EntriesAreTrue
    <3> QED BY <3>1, <3>2, <3>3, <3>4 DEF EntriesAreTrue
  <2>5. EarningOrders(entries') = EarningOrders(entries) \cup gain
    BY <2>1 DEF EarningOrders
  <2>6. DOMAIN rewards = EarningOrders(entries) /\ DOMAIN rewards' = DOMAIN rewards \cup gain
        /\ \A p \in DOMAIN rewards : rewards'[p] = rewards[p]
    BY <1>2, <2>3 DEF RewardsAreEarned
  <2>7. RewardsAreEarned'
    <3>1. Reward(o, Owner(o)) \in RewardRow(o)
      BY DEF Reward, RewardRow, LoyaltyAssumption
    <3>2. \A p \in EarningOrders(entries') : rewards'[p] \in RewardRow(p)
      BY <1>2, <2>3, <2>5, <2>6, <3>1 DEF RewardsAreEarned
    <3> QED BY <2>3, <2>5, <2>6, <3>2 DEF RewardsAreEarned
  <2>8. CyclesAreFull'
    BY <1>1, <1>2, <1>4, CountStep
  <2>9. SpendingIsBooked'
    <3>1. \A p \in DOMAIN rewards' \ DOMAIN rewards : rewards'[p].status = "AVAILABLE"
      BY <2>3 DEF Reward
    <3> QED BY <1>1, <1>2, <2>6, <3>1 DEF SpendingIsBooked, DiscountsAreBacked
  <2>10. TransactionsAreSound'
    BY <1>1, <1>2, <2>6, OthersAreSound
  <2> QED BY <2>4, <2>7, <2>8, <2>9, <2>10 DEF LoyaltyInv
<1> QED BY <1>3, <1>4

LEMMA SpendStep ==
    ASSUME LoyaltyAssumption, LoyaltyInv, NEW c \in Clients, Book(c)
    PROVE  LoyaltyInv'
<1> DEFINE o == tx[c].order
           a == tx[c].account
           k == Len(booked) + 1
           b == [account |-> a, reward |-> o]
<1>1. EntriesAreTrue /\ RewardsAreEarned /\ CyclesAreFull /\ SpendingIsBooked /\ TransactionsAreSound
  BY DEF LoyaltyInv
<1>2. tx[c] # Idle /\ tx[c].op = "book"
  BY DEF Book, Running, Idle
<1>3. o \in DOMAIN rewards /\ o \in Orders /\ a \in WebAccounts
  BY <1>2, TransactionIs DEF Sound
<1>4. Usable(rewards[o], a)
  <2>1. ~Stale(c) /\ Usable(tx[c].snap.rewards[o], a)
    BY DEF Book
  <2> QED BY <1>2, <2>1 DEF Stale
<1>5. /\ booked' = Append(booked, b) /\ Len(booked) < MaxBookings
      /\ rewards' = [rewards EXCEPT ![o].status = "REDEEMED", ![o].by = k]
      /\ tx' = [tx EXCEPT ![c] = Idle] /\ UNCHANGED <<completed, entries>>
  BY DEF Book
<1>6. /\ Len(booked) \in Nat /\ k \in 1 .. MaxBookings /\ booked \in Seq(Bookings)
      /\ b \in Bookings /\ DOMAIN booked = 1 .. Len(booked)
  BY <1>1, <1>3, <1>5 DEF SpendingIsBooked, Bookings, LoyaltyAssumption
<1>7. rewards[o] \in RewardRow(o) /\ rewards[o].status = "AVAILABLE" /\ Account[o] = a
  <2>1. rewards[o] \in RewardRow(o)
    BY <1>1, <1>3, EarnedRows
  <2>2. /\ rewards[o].type = Owner(o).type
        /\ rewards[o].account = IF Owner(o).type = "WEB_ACCOUNT" THEN Owner(o).id ELSE NoAccount
    BY <2>1 DEF RewardRow, Reward
  <2> QED BY <1>4, <2>1, <2>2 DEF Usable, Owner
<1> HIDE DEF o, a, k, b
<1>8. /\ DOMAIN rewards' = DOMAIN rewards /\ rewards' = [p \in DOMAIN rewards |-> rewards'[p]]
      /\ rewards'[o] = [rewards[o] EXCEPT !.status = "REDEEMED", !.by = k]
      /\ \A p \in DOMAIN rewards \ {o} : rewards'[p] = rewards[p]
  <2>1. rewards = [p \in DOMAIN rewards |-> rewards[p]]
    BY <1>1 DEF RewardsAreEarned
  <2> QED BY <1>3, <1>5, <2>1
<1>9. /\ rewards'[o] \in RewardRow(o)
      /\ rewards'[o].status = "REDEEMED" /\ rewards'[o].by = k
  <2> DEFINE r == rewards[o]
             paid == [r EXCEPT !.status = "REDEEMED", !.by = k]
  <2>1. r \in RewardRow(o) /\ k \in 0 .. MaxBookings
    BY <1>6, <1>7
  <2> HIDE DEF r
  <2>2. paid \in RewardRow(o) /\ paid.status = "REDEEMED" /\ paid.by = k
    BY <2>1 DEF RewardRow
  <2> QED BY <1>8, <2>2 DEF r
<1>10. EntriesAreTrue'
  BY <1>1, <1>5 DEF EntriesAreTrue
<1>11. RewardsAreEarned'
  <2>1. DOMAIN rewards = EarningOrders(entries) /\ EarningOrders(entries') = EarningOrders(entries)
    BY <1>1, <1>5 DEF RewardsAreEarned, EarningOrders
  <2>2. \A p \in EarningOrders(entries) : rewards'[p] \in RewardRow(p)
    <3> TAKE p \in EarningOrders(entries)
    <3>1. CASE p = o
      BY <1>9, <3>1
    <3>2. CASE p # o
      BY <1>1, <1>8, <2>1, <3>2 DEF RewardsAreEarned
    <3> QED BY <3>1, <3>2
  <2> QED BY <1>8, <2>1, <2>2 DEF RewardsAreEarned
<1>12. CyclesAreFull'
  BY <1>1, <1>5 DEF CyclesAreFull
<1>13. SpendingIsBooked'
  <2>1. /\ booked' \in Seq(Bookings) /\ DOMAIN booked' = DOMAIN booked \cup {k}
        /\ k \notin DOMAIN booked /\ booked'[k] = b
        /\ \A j \in DOMAIN booked : booked'[j] = booked[j]
    <3>1. booked' \in Seq(Bookings) /\ Len(booked') = Len(booked) + 1
      BY <1>5, <1>6
    <3>2. DOMAIN booked' = 1 .. Len(booked) + 1
      BY <1>6, <3>1
    <3>3. booked'[Len(booked) + 1] = b /\ \A j \in 1 .. Len(booked) : booked'[j] = booked[j]
      BY <1>5, <1>6
    <3> QED BY <1>6, <3>1, <3>2, <3>3 DEF k
  <2>2. b.reward = o /\ b.account = a
    BY DEF b
  <2>3. ASSUME NEW j \in DOMAIN booked'
        PROVE  /\ booked'[j].reward \in DOMAIN rewards' /\ rewards'[booked'[j].reward].by = j
               /\ rewards'[booked'[j].reward].status = "REDEEMED"
               /\ Account[booked'[j].reward] = booked'[j].account
    <3>1. CASE j = k
      BY <1>3, <1>7, <1>8, <1>9, <2>1, <2>2, <3>1
    <3>2. CASE j # k
      <4>1. j \in DOMAIN booked /\ booked'[j] = booked[j]
        BY <2>1, <3>2
      <4>2. /\ booked[j].reward \in DOMAIN rewards /\ rewards[booked[j].reward].by = j
            /\ rewards[booked[j].reward].status = "REDEEMED"
            /\ Account[booked[j].reward] = booked[j].account
        BY <1>1, <4>1 DEF SpendingIsBooked, DiscountsAreBacked
      <4>3. booked[j].reward # o
        BY <1>7, <4>2
      <4> QED BY <1>8, <4>1, <4>2, <4>3
    <3> QED BY <3>1, <3>2
  <2>4. ASSUME NEW p \in DOMAIN rewards', rewards'[p].status = "REDEEMED"
        PROVE  rewards'[p].by \in DOMAIN booked' /\ booked'[rewards'[p].by].reward = p
    <3>1. CASE p = o
      BY <1>9, <2>1, <2>2, <3>1
    <3>2. CASE p # o
      <4>1. rewards'[p] = rewards[p] /\ p \in DOMAIN rewards
        BY <1>8, <3>2
      <4>2. rewards[p].by \in DOMAIN booked /\ booked[rewards[p].by].reward = p
        BY <1>1, <2>4, <4>1 DEF SpendingIsBooked
      <4> QED BY <2>1, <4>1, <4>2
    <3> QED BY <3>1, <3>2
  <2> QED BY <2>1, <2>3, <2>4 DEF SpendingIsBooked, DiscountsAreBacked
<1>14. TransactionsAreSound'
  BY <1>1, <1>5, <1>8, OthersAreSound
<1> QED BY <1>10, <1>11, <1>12, <1>13, <1>14 DEF LoyaltyInv

LEMMA LoyaltyPreserved ==
    ASSUME LoyaltyAssumption, LoyaltyInv, [LoyaltyNext]_loyaltyVars
    PROVE  LoyaltyInv'
<1>1. CASE UNCHANGED loyaltyVars
  <2>1. UNCHANGED <<completed, entries, rewards, booked>> /\ UNCHANGED tx
    BY <1>1 DEF loyaltyVars
  <2>2. TransactionsAreSound'
    BY <2>1 DEF LoyaltyInv, TransactionsAreSound
  <2> QED BY <2>1, <2>2, RowsRemain
<1>2. CASE LoyaltyNext
  <2>1. PICK c \in Clients :
          \/ \E o \in Orders : Request(c, "settle", o, NoAccount)
          \/ \E a \in WebAccounts, o \in DOMAIN rewards : Request(c, "book", o, a)
          \/ SettleAndEarn(c) \/ Book(c) \/ RefuseSpending(c) \/ Conflict(c) \/ Retry(c)
    BY <1>2 DEF LoyaltyNext
  <2>2. ASSUME NEW o \in Orders, Request(c, "settle", o, NoAccount) PROVE LoyaltyInv'
    BY <2>2, RequestStep
  <2>3. ASSUME NEW a \in WebAccounts, NEW o \in DOMAIN rewards, Request(c, "book", o, a)
        PROVE  LoyaltyInv'
    <3>1. o \in Orders
      BY EarnedRows DEF LoyaltyInv
    <3> QED BY <2>3, <3>1, RequestStep
  <2> QED BY <2>1, <2>2, <2>3, EarnStep, SpendStep, RefuseStep, ConflictStep, RetryStep
<1> QED BY <1>1, <1>2

-----------------------------------------------------------------------------
\* However settlements and bookings of any clients interleave, are refused by the
\* database and run again, under any policy and on top of any history migrated under
\* it: every full cycle of an owner has earned one reward and no other has, a discount
\* spends a reward of its own account that no other order spent, and what a customer is
\* shown adds up and counts nobody else's orders (settleOrder, createOrder, getSummary).
THEOREM RewardsAddUp == LoyaltyAssumption => (LoyaltySpec => []LoyaltyAddsUp)
<1> SUFFICES ASSUME LoyaltyAssumption PROVE LoyaltySpec => []LoyaltyAddsUp
  OBVIOUS
<1>1. LoyaltyInit => LoyaltyInv
  BY LoyaltyInitially
<1>2. LoyaltyInv /\ [LoyaltyNext]_loyaltyVars => LoyaltyInv'
  BY LoyaltyPreserved
<1>3. LoyaltyInv => LoyaltyAddsUp
  <2> SUFFICES ASSUME LoyaltyInv PROVE LoyaltyAddsUp
    OBVIOUS
  <2>1. EntriesAreTrue /\ RewardsAreEarned /\ SpendingIsBooked /\ TransactionsAreSound
    BY DEF LoyaltyInv
  <2>2. \A n \in entries : n.order \in Orders /\ n.value \in {0, RewardRentalValue}
    BY <2>1 DEF EntriesAreTrue
  <2>3. \A o \in DOMAIN rewards : /\ o \in Orders /\ rewards[o].status \in {"AVAILABLE", "REDEEMED"}
                                  /\ rewards[o].by \in 0 .. MaxBookings
    BY <2>1, EarnedRows DEF RewardRow
  <2>4. \A c \in Clients : tx[c] = Idle \/ tx[c].attempt \in 1 .. MaxAttempts
    BY <2>1 DEF TransactionsAreSound, Sound
  <2>5. LoyaltyTypeOK
    BY <2>1, <2>2, <2>3, <2>4 DEF LoyaltyTypeOK, EntriesAreTrue
  <2>6. DiscountsAreBacked
    BY <2>1 DEF SpendingIsBooked
  <2> QED BY <2>5, <2>6, CyclesEarn, ScopesStayApart, SummariesAddUp DEF LoyaltyAddsUp
<1> QED BY <1>1, <1>2, <1>3, PTL DEF LoyaltySpec
=============================================================================
