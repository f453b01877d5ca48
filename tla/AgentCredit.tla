----------------------------- MODULE AgentCredit -----------------------------
(* The Solana program krexa-agent-wallet on top of the credit vault: each agent *)
(* has a wallet that draws from the vault, spends, repays and is liquidated.    *)
(* A wallet instruction that calls the vault (CPI) is one step of both; the     *)
(* vault's other instructions, a payment router that repays on an agent's       *)
(* behalf and the agent registry run beside it.  The oracle may also lend to an *)
(* agent at the vault, without its wallet.                                      *)
(*                                                                              *)
(* The wallet keeps its own copies of what it owes and of its collateral; this  *)
(* module is about where those copies and the vault part.                       *)
(*                                                                              *)
(* Left out: is_liquidating (set and cleared within liquidate), the stored      *)
(* health_factor_bps and lifetime counters (no instruction reads them), the     *)
(* owner and its transfer, the venue whitelist (only whitelisted venues are     *)
(* called).  The clamp of a NAV to u16 lies above every threshold.              *)
EXTENDS CreditVault

CONSTANTS
    ProfileLevels,      \* credit levels the registry may compute
    Venues,             \* venues an agent trades on
    Spends,             \* amounts spent, withdrawn, repaid, earned or routed
    DailyLimits,        \* daily limits an owner may set
    SecondsPerDay,      \* 86_400, in clock ticks
    MaxPerTrade,        \* MAX_PER_TRADE_BPS
    MaxPerVenue,        \* MAX_PER_VENUE_BPS
    WithdrawalBuffer,   \* WITHDRAWAL_BUFFER_BPS
    LiquidationReward,  \* LIQUIDATION_REWARD_BPS
    NavTrigger,         \* LEVEL_1_ .. LEVEL_4_NAV_TRIGGER_BPS
    WarningBuffer,      \* 500: a NAV below trigger + this is a warning
    HealthyBuffer,      \* 1_000: a NAV from trigger + this on is healthy
    MaxWallet           \* bound: USDC in one wallet

ASSUME WalletAssumption ==
    /\ ProfileLevels \subseteq Levels \cup {0}
    /\ Spends \subseteq Nat
    /\ DailyLimits \subseteq Nat
    /\ SecondsPerDay \in Nat \ {0}
    /\ MaxPerTrade \in 0 .. Bps
    /\ MaxPerVenue \in 0 .. Bps
    /\ WithdrawalBuffer \in Nat
    /\ LiquidationReward \in 0 .. Bps - 1
    /\ NavTrigger \in [Levels -> Nat]
    /\ WarningBuffer \in Nat
    /\ HealthyBuffer \in Nat
    /\ MaxWallet \in Nat

VARIABLES
    walletLevel,    \* AgentWallet.credit_level, 0 while there is no wallet
    walletUsdc,     \* USDC in the wallet's token account
    cachedShares,   \* AgentWallet.collateral_shares
    walletLimit,    \* AgentWallet.credit_limit
    walletDrawn,    \* AgentWallet.credit_drawn
    walletDebt,     \* AgentWallet.total_debt
    frozen,         \* AgentWallet.is_frozen
    dailyLimit,     \* AgentWallet.daily_spend_limit
    dailySpent,     \* AgentWallet.daily_spent
    lastReset,      \* AgentWallet.last_daily_reset
    venueSent,      \* VenueExposure.total_sent of each venue
    walletPaused,   \* WalletConfig.is_paused
    profileLevel,   \* AgentProfile.credit_level
    profileActive,  \* AgentProfile.is_active
    hasPosition,    \* whether the agent's collateral DepositPosition exists
    lentUnseen      \* history: agents whose line the oracle has opened directly and
                    \* whose wallet has not read it since

credit == <<walletLimit, walletDrawn, walletDebt>>
spending == <<dailyLimit, dailySpent, lastReset, venueSent>>
profile == <<profileLevel, profileActive>>
atVault == <<hasPosition, lentUnseen>>
wallet == <<walletLevel, walletUsdc, cachedShares, credit, frozen, spending,
            walletPaused, profile>>
systemVars == <<vars, wallet, atVault>>

-----------------------------------------------------------------------------
(* Pure helpers *)

(* collateral_value_usdc *)
CollateralValue(shares) ==
    IF totalShares = 0 THEN shares ELSE MulDiv(shares, totalDeposits, totalShares)

Threshold(a, buffer) == NavTrigger[walletLevel[a]] + buffer

(* compute_nav < threshold, with usdc in the wallet: a NAV without credit is    *)
(* above every threshold                                                        *)
NavBelow(a, usdc, threshold) ==
    /\ walletLimit[a] > 0
    /\ MulDiv(usdc + CollateralValue(cachedShares[a]), Bps, walletLimit[a]) < threshold

(* max_withdrawable *)
MaxWithdrawable(a) ==
    LET required == MulDiv(walletDebt[a], WithdrawalBuffer, Bps)
        cover == Lesser(CollateralValue(cachedShares[a]), required)
    IN  IF walletDebt[a] = 0 THEN walletUsdc[a] ELSE SatSub(walletUsdc[a], required - cover)

(* maybe_reset_daily: days are calendar days *)
NewDay(a) == now \div SecondsPerDay > lastReset[a] \div SecondsPerDay
SpentToday(a) == IF NewDay(a) THEN 0 ELSE dailySpent[a]

(* the split of a liquidated wallet's balance *)
Reward(a) == MulDiv(walletUsdc[a], LiquidationReward, Bps)
LiquidationRepays(a) == Lesser(walletUsdc[a] - Reward(a), walletDebt[a])
ReturnedToOwner(a) == walletUsdc[a] - Reward(a) - LiquidationRepays(a)
-----------------------------------------------------------------------------
SystemInit ==
    /\ Init
    /\ walletLevel = [a \in Agents |-> 0]
    /\ walletUsdc = [a \in Agents |-> 0]
    /\ cachedShares = [a \in Agents |-> 0]
    /\ walletLimit = [a \in Agents |-> 0]
    /\ walletDrawn = [a \in Agents |-> 0]
    /\ walletDebt = [a \in Agents |-> 0]
    /\ frozen = [a \in Agents |-> FALSE]
    /\ dailyLimit = [a \in Agents |-> 0]
    /\ dailySpent = [a \in Agents |-> 0]
    /\ lastReset = [a \in Agents |-> 0]
    /\ venueSent = [a \in Agents |-> [v \in Venues |-> 0]]
    /\ walletPaused = FALSE
    /\ profileLevel = [a \in Agents |-> 0]
    /\ profileActive = [a \in Agents |-> TRUE]
    /\ hasPosition = [a \in Agents |-> FALSE]
    /\ lentUnseen = {}

Exists(a) == walletLevel[a] # 0

CreateWallet(a, limit) ==
    /\ ~ walletPaused
    /\ ~ Exists(a)
    /\ profileLevel[a] >= 1
    /\ profileActive[a]
    /\ walletLevel' = [walletLevel EXCEPT ![a] = profileLevel[a]]
    /\ dailyLimit' = [dailyLimit EXCEPT ![a] = limit]
    /\ lastReset' = [lastReset EXCEPT ![a] = now]
    /\ UNCHANGED <<vars, walletUsdc, cachedShares, credit, frozen, dailySpent,
                   venueSent, walletPaused, profile, atVault>>

(* its accounts demand a collateral position, so the first collateral reaches   *)
(* the vault directly                                                           *)
Deposit(a, amount) ==
    /\ Exists(a)
    /\ hasPosition[a]
    /\ ~ walletPaused
    /\ ~ frozen[a]
    /\ DepositCollateral(a, amount)
    /\ cachedShares' = [cachedShares EXCEPT ![a] = collateralShares'[a]]
    /\ UNCHANGED <<walletLevel, walletUsdc, credit, frozen, spending, walletPaused,
                   profile, atVault>>

(* the limit, and with it the NAV's denominator, is the cap of the level, not   *)
(* the amount drawn; both come from the position and not from its copy          *)
RequestCredit(a, amount, r, level) ==
    LET value == CollateralValue(collateralShares[a])
    IN  /\ Exists(a)
        /\ hasPosition[a]
        /\ ~ walletPaused
        /\ profileActive[a]
        /\ level <= profileLevel[a]
        /\ ~ frozen[a]
        /\ walletDrawn[a] = 0
        /\ ExtendCredit(a, amount, r, level, value)
        /\ walletUsdc[a] + amount <= MaxWallet
        /\ walletUsdc' = [walletUsdc EXCEPT ![a] = @ + amount]
        /\ walletLimit' = [walletLimit EXCEPT ![a] = CreditLimitForLevel(level, value)]
        /\ walletDrawn' = [walletDrawn EXCEPT ![a] = amount]
        /\ walletDebt' = [walletDebt EXCEPT ![a] = amount]
        /\ lentUnseen' = lentUnseen \ {a}
        /\ UNCHANGED <<walletLevel, cachedShares, frozen, spending, walletPaused,
                       profile, hasPosition>>

(* nothing leaves a frozen wallet but repayments *)
NotHeld_IgnoresFreeze(a) == Exists(a) /\ ~ walletPaused

NotHeld(a) == Exists(a) /\ ~ walletPaused /\ ~ frozen[a]

(* the checks and effects execute_trade and pay_x402 share; of an x402 payment  *)
(* the platform fee and the rest both leave the wallet                          *)
Spend(a, amount) ==
    /\ NotHeld(a)
    /\ amount > 0
    /\ amount <= MulDiv(walletUsdc[a], MaxPerTrade, Bps)
    /\ SpentToday(a) + amount <= dailyLimit[a]
    /\ ~ NavBelow(a, walletUsdc[a] - amount, Threshold(a, WarningBuffer))
    /\ walletUsdc' = [walletUsdc EXCEPT ![a] = @ - amount]
    /\ dailySpent' = [dailySpent EXCEPT ![a] = SpentToday(a) + amount]
    /\ lastReset' = [lastReset EXCEPT ![a] = IF NewDay(a) THEN now ELSE @]
    /\ UNCHANGED <<vars, walletLevel, cachedShares, credit, frozen, dailyLimit,
                   walletPaused, profile, atVault>>

ExecuteTrade(a, amount, v) ==
    /\ Spend(a, amount)
    /\ venueSent[a][v] + amount <= MulDiv(walletUsdc[a], MaxPerVenue, Bps)
    /\ venueSent' = [venueSent EXCEPT ![a][v] = @ + amount]

PayX402(a, amount) ==
    /\ Spend(a, amount)
    /\ UNCHANGED venueSent

Withdraw(a, amount) ==
    /\ NotHeld(a)
    /\ amount \in 1 .. Lesser(walletUsdc[a], MaxWithdrawable(a))
    /\ walletUsdc' = [walletUsdc EXCEPT ![a] = @ - amount]
    /\ UNCHANGED <<vars, walletLevel, cachedShares, credit, frozen, spending,
                   walletPaused, profile, atVault>>

(* what repay copies back of the credit line it has reloaded after the call *)
SyncedDrawn_MinusPayment(a, amount) == SatSub(walletDrawn[a], amount)

SyncedDrawn(a, amount) == drawn'[a]

Repay(a, amount) ==
    /\ Exists(a)
    /\ walletDrawn[a] > 0 \/ walletDebt[a] > 0
    /\ amount <= walletUsdc[a]
    /\ ReceiveRepayment(a, amount)
    /\ walletUsdc' = [walletUsdc EXCEPT ![a] = @ - amount]
    /\ walletDrawn' = [walletDrawn EXCEPT ![a] = SyncedDrawn(a, amount)]
    /\ walletDebt' = [walletDebt EXCEPT ![a] = drawn'[a] + accrued'[a]]
    /\ walletLimit' = [walletLimit EXCEPT ![a] = IF active'[a] THEN @ ELSE 0]
    /\ lentUnseen' = lentUnseen \ {a}
    /\ UNCHANGED <<walletLevel, cachedShares, frozen, spending, walletPaused,
                   profile, hasPosition>>

(* permissionless: freezes an unhealthy wallet and, in the same call, unfreezes *)
(* a healthy one, whoever froze it                                              *)
CheckHealth(a) ==
    /\ Exists(a)
    /\ frozen' = [frozen EXCEPT ![a] =
                     /\ @ \/ NavBelow(a, walletUsdc[a], Threshold(a, WarningBuffer))
                     /\ NavBelow(a, walletUsdc[a], Threshold(a, HealthyBuffer))]
    /\ UNCHANGED <<vars, walletLevel, walletUsdc, cachedShares, credit, spending,
                   walletPaused, profile, atVault>>

Deleverage(a) ==
    /\ Exists(a)
    /\ NavBelow(a, walletUsdc[a], Threshold(a, WarningBuffer))
    /\ frozen' = [frozen EXCEPT ![a] = TRUE]
    /\ UNCHANGED <<vars, walletLevel, walletUsdc, cachedShares, credit, spending,
                   walletPaused, profile, atVault>>

(* record_liquidation recomputes the level from a lower score: it rises only    *)
(* for a deactivated agent, whose level had been stripped                       *)
Liquidate(a, level) ==
    /\ Exists(a)
    /\ NavBelow(a, walletUsdc[a], Threshold(a, 0))
    /\ IF LiquidationRepays(a) > 0
       THEN ReceiveRepayment(a, LiquidationRepays(a))
       ELSE UNCHANGED vars
    /\ profileActive[a] => level <= profileLevel[a]
    /\ walletUsdc' = [walletUsdc EXCEPT ![a] = 0]
    /\ walletLimit' = [walletLimit EXCEPT ![a] = 0]
    /\ walletDrawn' = [walletDrawn EXCEPT ![a] = 0]
    /\ walletDebt' = [walletDebt EXCEPT ![a] = @ - LiquidationRepays(a)]
    /\ frozen' = [frozen EXCEPT ![a] = TRUE]
    /\ profileLevel' = [profileLevel EXCEPT ![a] = level]
    /\ UNCHANGED <<walletLevel, cachedShares, spending, walletPaused, profileActive,
                   atVault>>

(* freeze_wallet and unfreeze_wallet, by the admin *)
SetFrozen(a, f) ==
    /\ Exists(a)
    /\ frozen' = [frozen EXCEPT ![a] = f]
    /\ UNCHANGED <<vars, walletLevel, walletUsdc, cachedShares, credit, spending,
                   walletPaused, profile, atVault>>

UpdateDailyLimit(a, limit) ==
    /\ Exists(a)
    /\ dailyLimit' = [dailyLimit EXCEPT ![a] = limit]
    /\ UNCHANGED <<vars, walletLevel, walletUsdc, cachedShares, credit, frozen,
                   dailySpent, lastReset, venueSent, walletPaused, profile, atVault>>

(* pause and unpause *)
SetWalletPaused(p) ==
    /\ walletPaused' = p
    /\ UNCHANGED <<vars, walletLevel, walletUsdc, cachedShares, credit, frozen,
                   spending, profile, atVault>>

(* USDC reaches the wallet: the proceeds of a trade, revenue, a top-up *)
Earn(a, amount) ==
    /\ Exists(a)
    /\ walletUsdc[a] + amount <= MaxWallet
    /\ walletUsdc' = [walletUsdc EXCEPT ![a] = @ + amount]
    /\ UNCHANGED <<vars, walletLevel, cachedShares, credit, frozen, spending,
                   walletPaused, profile, atVault>>

(* execute_payment of the payment router repays the vault out of a customer's   *)
(* payment; the wallet is not told                                              *)
RoutedRepayment(a, amount) ==
    /\ ReceiveRepayment(a, amount)
    /\ UNCHANGED <<wallet, atVault>>

(* extend_credit sent to the vault itself: it asks for the oracle's signature,   *)
(* takes any level and collateral value from it and pays any token account;     *)
(* neither the wallet program nor its flags are asked or told                   *)
DirectDraw(a, amount, r, level, value) ==
    /\ ExtendCredit(a, amount, r, level, value)
    /\ \/ UNCHANGED walletUsdc
       \/ /\ Exists(a)
          /\ walletUsdc[a] + amount <= MaxWallet
          /\ walletUsdc' = [walletUsdc EXCEPT ![a] = @ + amount]
    /\ lentUnseen' = lentUnseen \cup {a}
    /\ UNCHANGED <<walletLevel, cachedShares, credit, frozen, spending, walletPaused,
                   profile, hasPosition>>

(* any update of the agent's profile: the level follows score and KYA tier, and *)
(* a deactivated agent has none                                                 *)
UpdateProfile(a, level, isActive) ==
    /\ ~ isActive => level = 0
    /\ profileLevel' = [profileLevel EXCEPT ![a] = level]
    /\ profileActive' = [profileActive EXCEPT ![a] = isActive]
    /\ UNCHANGED <<vars, walletLevel, walletUsdc, cachedShares, credit, frozen,
                   spending, walletPaused, atVault>>

WalletStep(a) ==
    \/ \E limit \in DailyLimits : CreateWallet(a, limit) \/ UpdateDailyLimit(a, limit)
    \/ \E amount \in Amounts : Deposit(a, amount)
    \/ \E amount \in Spends \cup Amounts, r \in Rates, level \in Levels :
          RequestCredit(a, amount, r, level)
    \/ \E amount \in Spends \cup Amounts \cup {AvailableLiquidity}, r \in Rates,
          level \in Levels, value \in CollateralValues :
             DirectDraw(a, amount, r, level, value)
    \/ \E amount \in Spends, v \in Venues : ExecuteTrade(a, amount, v)
    \/ \E amount \in Spends : PayX402(a, amount)
    \/ \E amount \in Spends \cup {MaxWithdrawable(a)} : Withdraw(a, amount)
    \/ \E amount \in Spends \cup {Debt(a)} : Repay(a, amount)
    \/ CheckHealth(a)
    \/ Deleverage(a)
    \/ \E level \in ProfileLevels : Liquidate(a, level)
    \/ \E f \in BOOLEAN : SetFrozen(a, f)
    \/ \E amount \in Spends : Earn(a, amount)
    \/ \E amount \in Spends \cup {Debt(a)} : RoutedRepayment(a, amount)
    \/ \E level \in ProfileLevels, isActive \in BOOLEAN : UpdateProfile(a, level, isActive)

(* the other instructions sent to the vault itself *)
VaultStep ==
    /\ \/ PositionStep
       \/ \E a \in Agents : AccrueInterest(a) \/ WriteOffBadDebt(a)
       \/ AdminStep
       \/ Tick
    /\ hasPosition' = [a \in Agents |->
                          hasPosition[a] \/ collateralShares'[a] > collateralShares[a]]
    /\ UNCHANGED <<wallet, lentUnseen>>

SystemNext ==
    \/ \E a \in Agents : WalletStep(a)
    \/ \E p \in BOOLEAN : SetWalletPaused(p)
    \/ VaultStep

SystemSpec == SystemInit /\ [][SystemNext]_systemVars
-----------------------------------------------------------------------------
(* Properties *)

(* The wallet's fields keep their types, on top of the vault's.                 *)
WalletTypeOK ==
    /\ TypeOK
    /\ walletLevel \in [Agents -> Levels \cup {0}]
    /\ walletUsdc \in [Agents -> Nat]
    /\ cachedShares \in [Agents -> Nat]
    /\ walletLimit \in [Agents -> Nat]
    /\ walletDrawn \in [Agents -> Nat]
    /\ walletDebt \in [Agents -> Nat]
    /\ frozen \in [Agents -> BOOLEAN]
    /\ dailyLimit \in [Agents -> Nat]
    /\ dailySpent \in [Agents -> Nat]
    /\ lastReset \in [Agents -> 0 .. now]
    /\ venueSent \in [Agents -> [Venues -> Nat]]
    /\ walletPaused \in BOOLEAN
    /\ profileLevel \in [Agents -> Levels \cup {0}]
    /\ profileActive \in [Agents -> BOOLEAN]
    /\ hasPosition \in [Agents -> BOOLEAN]
    /\ lentUnseen \subseteq Agents

(* While a wallet has a limit, and so a NAV that can freeze or liquidate it,    *)
(* its copy of the debt covers its copy of the principal, and that covers what  *)
(* the vault has lent, unless the oracle has opened the line directly and the   *)
(* wallet has not read it since: neither the router nor a write-off nor the     *)
(* interest-first split of a repayment makes a wallet look less indebted than   *)
(* it is at the vault, and a repayment ends what a direct draw began.           *)
LimitCoversPrincipal ==
    \A a \in Agents : walletLimit[a] > 0 =>
        /\ walletDrawn[a] <= walletDebt[a]
        /\ a \notin lentUnseen => drawn[a] <= walletDrawn[a]

(* Collateral never leaves while principal is owed, although the vault checks   *)
(* its own line only and the wallet clears its copy of the debt when it is      *)
(* liquidated with a shortfall.                                                 *)
CollateralPledged ==
    [][\A a \in Agents : drawn'[a] > 0 => collateralShares'[a] >= collateralShares[a]]_systemVars

(* Credit is never drawn over a debt: whenever the pool lends more, it lends to *)
(* an agent that owed neither principal nor interest, and so not to a wallet    *)
(* that was liquidated with a shortfall, shows no drawn credit and was          *)
(* unfrozen.                                                                    *)
NoDrawOverDebt ==
    [][totalDeployed' > totalDeployed =>
          \E a \in Agents : drawn[a] = 0 /\ accrued[a] = 0 /\ drawn'[a] > 0]_systemVars

(* USDC leaves a frozen wallet only in a step that pays its debt at the vault.  *)
FrozenPaysOnlyLenders ==
    [][\A a \in Agents : frozen[a] /\ walletUsdc'[a] < walletUsdc[a] =>
          Debt(a)' < Debt(a)]_systemVars

(* solana-skill/docs/pda-wallets.md:205, "If recovered amount > total_owed +    *)
(* keeper_reward: surplus sent to agent owner's wallet", where total_owed is    *)
(* principal + accrued_interest: a liquidation returns a surplus to the owner   *)
(* only when the vault's line is cleared.                                       *)
SurplusOnlyAfterDebt ==
    [][\A a \in Agents, level \in ProfileLevels :
          Liquidate(a, level) /\ ReturnedToOwner(a) > 0 => ~ active'[a]]_systemVars
=============================================================================
