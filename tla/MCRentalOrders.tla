--------------------------- MODULE MCRentalOrders ---------------------------
(* Small instances of RentalOrders for TLC. *)
EXTENDS RentalOrders, TLC

Symmetry == Permutations(Order) \cup Permutations(Item)
            \cup Permutations(Delivery) \cup Permutations(Clerk)

\* Bound: items stay on the shop's books and in the catalogue.
InService == \A i \in Item : stock[i].listed /\ ~stock[i].archived

\* Bound: a delivery is only made while the clock stands at the start and one of
\* the orders is still to come.
FewDeliveries ==
    (\E d \in Delivery : delivery[d] # NoJob) => now = 0 /\ \E o \in Order : status[o] = "NONE"
=============================================================================
