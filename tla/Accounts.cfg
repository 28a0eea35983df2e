CONSTANTS
    adm = adm
    cus = cus
    Administrators = {adm}
    Customers = {cus}
    Tokens = {t1, t2, t3}
    Requests = {r1, r2}
    Ttl = 2
    Retention = 2
    Patience = 1
    MaxTime = 5
    \* Two calls register with one address.
    Calls = {r1, r2}
    Attempts = {1, 2}
    Challenges = {1, 2, 3}
    CodeTtl = 2
    Cooldown = 1
    RetryDelay = 1
    MaxTries = 1
    CodeRetention = 1
    LastTime = 2
    \* Two people who manage each other, and two commands.
    People = {1, 2}
    Roles = {"OWNER", "STAFF"}
    Managing = {"OWNER"}
    Commands = {"q1", "q2"}
    NoOne = "no one"
    \* Two replicas and two phases of two rows, one row to a batch.
    Replicas = {r1, r2}
    OwnerTokens = {t1, t2, t3}
    LeaseTime = 1
    MaxCrashes = 0
    Phases = 2
    Rows = {1, 2}
    BatchSize = 1
SPECIFICATION SuiteSpec
SYMMETRY Symmetry
INVARIANTS
    SessionsAreSafe
    CleanupKeepsPromises
    RegistrationIsSafe
    MembersAreManaged
PROPERTY
    AccountSteps
\* A component may have nothing left to do.
CHECK_DEADLOCK FALSE
