\* What docs/ARCHITECTURE.md says of the end of a rental, against the code.
CONSTANTS
    Order = {o1}
    Item = {i1}
    Delivery = {}
    Clerk = {}
    MaxTime = 2
    DayLength = 1
    MaxDays = 1
    NoOrder = NoOrder
    NoDelivery = NoDelivery
SPECIFICATION Spec
PROPERTY
    ReleasedItemGoesToCleaning
