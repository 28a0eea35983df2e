\* One manual payment, amounts up to two: overpaid, refunded and partly paid bills and
\* deposits, fee overrides up and down, refunds after the settlement.
CONSTANTS
    Payment = {p1}
    MaxAmount = 2
    MaxCharges = 2
    Parts = {"books", "return", "loyalty"}
    Pieces <- AllPieces
    Out <- OutPieces
    Free <- FreePieces
    Findings <- FoundOnes
    Calculations <- CalculatedFees
    Agreed = {0, 4}
    Damages <- FoundDamages
    Extra <- ExtraCharges
    Clients = {k1, k2}
    Orders <- Settled
    Customer <- CustomerOf
    Account <- AccountOf
    NoAccount = NoAccount
    Histories <- Migrated
    RentalsRequired = 2
    RewardRentalValue = 50
    LoyaltyEnabled = TRUE
    MaxAttempts = 3
    MaxBookings = 2
SPECIFICATION SuiteSpec
INVARIANTS
    BooksAreRight
    ViewsAgreeWithBooks
    ReturnIsAccounted
    LoyaltyAddsUp
PROPERTY
    SettlementIsExact
\* An order may have been settled, and everything be earned and spent.
CHECK_DEADLOCK FALSE
