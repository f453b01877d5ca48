CONSTANTS
    NDepositors = 0
    NAgents = 1
    LpTranches = {2}
    Amounts = {1}
    CollateralValues = {0}
    Rates = {4}
    UtilizationCaps = {4}
    Lockups = {1}
    PauseValues = {FALSE}
    Bps = 4
    SecondsPerYear = 1
    ProtocolFee = 1
    InsuranceTarget = 2
    InsuranceSurplus = 2
    InsurancePostTarget = 1
    TrancheApr <- MCTrancheApr
    MinimumInitialDeposit = 1
    MaxCredit <- MCMaxCredit
    Leverage <- MCLeverage
    MaxTime = 1
    MaxFunds = 2
    ProfileLevels = {0, 2}
    Venues = {1}
    Spends = {1}
    DailyLimits = {1}
    SecondsPerDay = 1
    MaxPerTrade = 2
    MaxPerVenue = 3
    WithdrawalBuffer = 5
    LiquidationReward = 1
    NavTrigger <- MCNavTrigger
    WarningBuffer = 1
    HealthyBuffer = 2
    MaxWallet = 2
SPECIFICATION SystemSpec
INVARIANTS WalletTypeOK LimitCoversPrincipal
PROPERTIES CollateralPledged NoDrawOverDebt FrozenPaysOnlyLenders
