CONSTANTS
    Replicas = {p1, p2}
    OwnerTokens = {t1, t2, t3}
    LeaseTime = 1
    MaxCrashes = 1
    Emails = {1}
    OrderOf <- OneOrder
    Workers = {"r1", "r2"}
    MaxAttempts = 4
    RetryWindow = 3
    ClaimTime = 1
    Stall = 1
    Dedup = 5
    Settings = 2
SPECIFICATION ProgressSpec
INVARIANTS
    LeaseIsKept
    MailsAreSentOnce
PROPERTIES
    EveryRequestAnswered
    ScheduledJobRunsAgain
    EveryEmailIsSettled
    PicturesAreMoved
\* All requests may be answered.
CHECK_DEADLOCK FALSE
