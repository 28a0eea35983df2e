\* Three requests with one key; a lease of one instant, a retention of two.
CONSTANTS
    Request = {r1, r2, r3}
    Intent = {x, y}
    Lease = 1
    Retention = 2
    Attempts = 2
    MaxTime = 3
    Nobody = Nobody
    o1 = o1
    o2 = o2
    \* Three calls, two members, two orders.
    Call = {r1, r2, r3}
    Member = {x, y}
    Key = {"k"}
    Order = {o1, o2}
    Commands <- Bodies
    Price = 1
    LastTime = 1
    NoOne = NoOne
SPECIFICATION SuiteSpec
SYMMETRY Symmetry
INVARIANTS
    KeyExecutesOnce
    AnswersAreTrue
    ReceiptsAreRecordedOnce
PROPERTIES
    ImplementsCommand
    RecordedIsReplayed
\* All requests may be answered.
CHECK_DEADLOCK FALSE
