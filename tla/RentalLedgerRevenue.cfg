\* One manual payment is enough to overpay.
CONSTANTS
    Payment = {p1}
    MaxAmount = 2
    MaxCharges = 2
    Parts = {"books"}
    Pieces <- AllPieces
    Out <- OutPieces
    Free <- FreePieces
    Findings <- FoundOnes
    Calculations <- CalculatedFees
    Agreed = {0, 4}
    Damages <- FoundDamages
    Extra <- ExtraCharges
    Clients = {k1, k2}
    Orders <- Settled
    Customer <- CustomerOf
    Account <- AccountOf
    NoAccount = NoAccount
    Histories <- Migrated
    RentalsRequired = 2
    RewardRentalValue = 50
    LoyaltyEnabled = TRUE
    MaxAttempts = 3
    MaxBookings = 2
SPECIFICATION SuiteSpec
PROPERTY
    SettlementRefundIsNoExpense
CHECK_DEADLOCK FALSE
