--------------------------- MODULE RentalCalendar ---------------------------
(***************************************************************************)
(* What the rental back end promises about its physical clothes, without  *)
(* any of the tables that keep the promise: every item has a plan (which  *)
(* order wants it, and when) and a holder (the order it has left the shop *)
(* with, if any).  RentalOrders is shown to implement this specification. *)
(***************************************************************************)
EXTENDS Naturals

CONSTANTS Order,     \* rental orders
          Item,      \* physical inventory items
          Instant,   \* points in time a rental may start or end
          Nobody     \* the holder of an item that is in the shop

VARIABLES plan,      \* plan[i][o]: the window order o has booked item i for
          holder     \* holder[i]: the order item i is out with

vars == <<plan, holder>>

Window == {w \in [from : Instant, until : Instant] : w.from < w.until}
Unplanned == [from |-> 0, until |-> 0]

\* Rental windows are half-open: one may start at the instant another ends.
Overlap(v, w) == v.from < w.until /\ w.from < v.until

Planned(o) == {i \in Item : plan[i][o] # Unplanned}

Free(o, S, w) ==
    \A i \in S :
        /\ holder[i] = Nobody
        /\ \A p \in Order \ {o} : ~Overlap(plan[i][p], w)

Replan(o, S, w) ==
    plan' = [i \in Item |-> IF i \in S THEN [plan[i] EXCEPT ![o] = w] ELSE plan[i]]

Init ==
    /\ plan = [i \in Item |-> [o \in Order |-> Unplanned]]
    /\ holder = [i \in Item |-> Nobody]

\* An order books all its items at once, for one window.
Book(o, S, w) ==
    /\ Planned(o) = {}
    /\ S # {}
    /\ Free(o, S, w)
    /\ Replan(o, S, w)
    /\ UNCHANGED holder

\* A booking that has not been collected moves to another window as a whole.
Move(o, w) ==
    /\ Free(o, Planned(o), w)
    /\ Replan(o, Planned(o), w)
    /\ UNCHANGED holder

\* A booking that has not been collected is given up as a whole.
Drop(o) ==
    /\ \A i \in Item : holder[i] # o
    /\ Replan(o, Planned(o), Unplanned)
    /\ UNCHANGED holder

\* All items of an order leave the shop together, none of them out already.
HandOver(o) ==
    /\ Planned(o) # {}
    /\ \A i \in Planned(o) : holder[i] = Nobody
    /\ holder' = [i \in Item |-> IF i \in Planned(o) THEN o ELSE holder[i]]
    /\ UNCHANGED plan

\* All items of an order come back together, which ends its plan.
TakeBack(o) ==
    /\ Planned(o) # {}
    /\ \A i \in Planned(o) : holder[i] = o
    /\ holder' = [i \in Item |-> IF holder[i] = o THEN Nobody ELSE holder[i]]
    /\ Replan(o, Planned(o), Unplanned)

Next ==
    \E o \in Order :
        \/ \E S \in SUBSET Item, w \in Window : Book(o, S, w)
        \/ \E w \in Window : Move(o, w)
        \/ Drop(o)
        \/ HandOver(o)
        \/ TakeBack(o)

Spec == Init /\ [][Next]_vars

(***************************************************************************)
(* The plans of two orders for one item never overlap, and an item is only *)
(* ever out with an order that has a plan for it.                          *)
(***************************************************************************)
CalendarConsistent ==
    \A i \in Item :
        /\ \A o, p \in Order : o # p => ~Overlap(plan[i][o], plan[i][p])
        /\ holder[i] # Nobody => plan[i][holder[i]] # Unplanned
=============================================================================
