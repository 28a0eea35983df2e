\* Three orders compete for one item over a calendar of two half-days; while one of
\* them is still to come, a delivery is made for the others, and two requests race
\* about its status.
CONSTANTS
    Order = {o1, o2, o3}
    Item = {i1}
    Delivery = {d1}
    Clerk = {c1, c2}
    MaxTime = 2
    DayLength = 2
    MaxDays = 1
    NoOrder = NoOrder
    NoDelivery = NoDelivery
SPECIFICATION Spec
SYMMETRY Symmetry
CONSTRAINT FewDeliveries
INVARIANTS
    NoDoubleBooking
    ItemsAreKept
    AllTablesAgree
    CancelledOrderShipsNothingCharged
PROPERTIES
    OnlyReturnTakesReservedItemOut
    StrandedOrderIsStuck
