CONSTANTS
    owner = owner
    customer = customer
    noKey = noKey
    Keys <- MCKeys
    DefaultKey <- noKey
    AgentWalletPda <- noKey
    AgentOwner <- owner
    Amounts = {19, 20}
    OutflowAmounts = {20}
    ListedKeys <- MCListedKeys
    ExpectedRevenues = {0, 1}
    Credits = {3}
    Disbursements = {1}
    PaymentHistorySize = 2
    OutflowHistorySize = 2
    MaxSources = 2
    MaxAssociated = 1
    MaxBlocklist = 1
    MaxWhitelist = 1
    MaxViolations = 1
    U16 = 65536
    Day = 2
    Hour = 2
    RapidReturnDays = 7
    MaxTime = 3
    MaxRevenue = 39
    MaxSent = 3
    MaxListed = 1
SPECIFICATION Spec
INVARIANTS TypeOK CreditedOnce
PROPERTIES RoundTripEarnsNothing
