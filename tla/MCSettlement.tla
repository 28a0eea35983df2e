----------------------------- MODULE MCSettlement -----------------------------
(* The end of an order, in one TLC run: its bill up to the settlement and     *)
(* after it, with the pages that show it (RentalLedger), the                  *)
(* return of its pieces (RentalReturn), and the loyalty of the customers      *)
(* whose orders are settled (Loyalty).  They share no state, so a behaviour   *)
(* runs one of them (`part`) and the others stay as they began.               *)
EXTENDS RentalLedger, RentalReturn, Loyalty, TLC

CONSTANTS Parts   \* those a run is about

VARIABLE part

-----------------------------------------------------------------------------
(* Two paid pieces, a free one, and one of another order; time fees of one    *)
(* and of two rows, agreed fees of zero and above.                            *)
OutPieces == {"p", "q", "free"}

Found(p, q, free) == [i \in OutPieces |-> IF i = "p" THEN p ELSE IF i = "q" THEN q ELSE free]
Cost(type) == [type |-> type, amount |-> 2]

AllPieces == OutPieces \cup {"other"}
FreePieces == {"free"}
FoundOnes == {Found("NORMAL", "NORMAL", "NORMAL"),
              Found("DAMAGED", "CLEANING_REQUIRED", "LOST")}
CalculatedFees == {[late |-> 0, extra |-> 0], [late |-> 1, extra |-> 2]}
FoundDamages == {Found(None, None, None),
                 Found(Cost("CLEANING"), None, Cost("DAMAGE")),
                 Found(Cost("DAMAGE"), Cost("DAMAGE"), None),
                 Found(None, None, Cost("CLEANING"))}
ExtraCharges == {[type |-> "OTHER", amount |-> 1, quantity |-> 2]}

-----------------------------------------------------------------------------
(* Two requests settle the orders of two customers, some placed with a web    *)
(* account and some without, and spend what they earn.                        *)
Settled == 1 .. 5

CustomerOf == [o \in Settled |-> IF o = 5 THEN "c2" ELSE "c1"]
AccountOf == [o \in Settled |-> IF o <= 3 THEN "a1" ELSE IF o = 4 THEN NoAccount ELSE "a2"]
Migrated == {<< >>, <<1, 4, 5, 2>>, <<4, 1>>}

ASSUME ConstantsOK == /\ Parts \subseteq {"books", "return", "loyalty"}
                     /\ PiecesAssumption /\ FeesAssumption /\ LoyaltyAssumption

-----------------------------------------------------------------------------
allVars == <<part, vars, returnVars, loyaltyVars>>

SuiteInit ==
    /\ part \in Parts
    /\ Init /\ ReturnInit /\ LoyaltyInit
    /\ part # "loyalty" => completed = {}

SuiteNext ==
    /\ part' = part
    /\ \/ part = "books" /\ Next /\ UNCHANGED <<returnVars, loyaltyVars>>
       \/ part = "return" /\ ReturnNext /\ UNCHANGED <<vars, loyaltyVars>>
       \/ part = "loyalty" /\ LoyaltyNext /\ UNCHANGED <<vars, returnVars>>

SuiteSpec == SuiteInit /\ [][SuiteNext]_allVars

Symmetry == Permutations(Payment) \cup Permutations(Clients)
=============================================================================
