CONSTANTS
    NDepositors = 1
    NAgents = 2
    LpTranches = {1, 2}
    Amounts = {3}
    CollateralValues = {0, 2, 4}
    Rates = {4}
    UtilizationCaps = {3}
    Lockups = {1}
    PauseValues = {TRUE, FALSE}
    Bps = 4
    SecondsPerYear = 2
    ProtocolFee = 1
    InsuranceTarget = 2
    InsuranceSurplus = 2
    InsurancePostTarget = 1
    TrancheApr <- MCTrancheApr
    MinimumInitialDeposit = 2
    MaxCredit <- MCMaxCredit
    Leverage <- MCLeverage
    MaxTime = 2
    MaxFunds = 6
SPECIFICATION Spec
INVARIANTS AvailableIsInVault
