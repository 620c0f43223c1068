SPECIFICATION SumSpec
CONSTANTS
    Users = {1, 2, 3}
    Captain = 1
    Expenses = {1, 2}
    Totals = {2, 3}
    Amounts = {0, 1, 3}
    MaxAmount = 3
    MaxSettlements = 2
    People = {1, 2, 3, 4, 5}
    MaxBalance = 3
    MaxTotal = 7
    MaxOptimal = 4
    Split <- SplitEvenly
    Plan <- BuildTransfers
CHECK_DEADLOCK FALSE
INVARIANTS
    PlanCurrent
    FundedMeansBalanced
    LedgerComplete
    NobodyIsStranded
    TransfersPlanned
    SplitIsFair
