\* Two orders of up to two items each: all-or-nothing per order.
CONSTANTS
    Order = {o1, o2}
    Item = {i1, i2}
    Delivery = {}
    Clerk = {}
    MaxTime = 2
    DayLength = 1
    MaxDays = 0
    NoOrder = NoOrder
    NoDelivery = NoDelivery
SPECIFICATION Spec
SYMMETRY Symmetry
CONSTRAINT InService
PROPERTY
    ImplementsCalendar
