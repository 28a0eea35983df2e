\* Three manual payments of one unit each: refunds, repeated refunds, voids.
CONSTANTS
    Payment = {p1, p2, p3}
    MaxAmount = 1
    MaxCharges = 2
    Parts = {"books"}
    Pieces <- AllPieces
    Out <- OutPieces
    Free <- FreePieces
    Findings <- FoundOnes
    Calculations <- CalculatedFees
    Agreed = {0, 4}
    Damages <- FoundDamages
    Extra <- ExtraCharges
    Clients = {k1, k2}
    Orders <- Settled
    Customer <- CustomerOf
    Account <- AccountOf
    NoAccount = NoAccount
    Histories <- Migrated
    RentalsRequired = 2
    RewardRentalValue = 50
    LoyaltyEnabled = TRUE
    MaxAttempts = 3
    MaxBookings = 2
SPECIFICATION SuiteSpec
SYMMETRY Symmetry
INVARIANTS
    ProjectionIsCurrent
    MoneyIsCovered
PROPERTY
    ConfirmationCollectsTheRest
CHECK_DEADLOCK FALSE
