------------------------- MODULE AgentCredit_proofs -------------------------
(* Proofs about AgentCredit for every number of LPs and agents, every amount,   *)
(* level, limit and threshold.  Every step of the system is a step of the vault *)
(* or leaves the vault alone (SystemIsVault), so the vault's invariants carry   *)
(* over, and what the wallets promise follows from them.                        *)
EXTENDS AgentCredit, CreditVault_proofs

(* The three parts of a liquidated balance are naturals, and the vault gets no  *)
(* more than the wallet's copy of the debt.                                     *)
LEMMA LiquidationSplit ==
    ASSUME WalletTypeOK, NEW a \in Agents
    PROVE  /\ Reward(a) \in Nat
           /\ Reward(a) <= walletUsdc[a]
           /\ LiquidationRepays(a) \in Nat
           /\ LiquidationRepays(a) <= walletDebt[a]
<1>1. walletUsdc[a] \in Nat /\ walletDebt[a] \in Nat
  BY DEF WalletTypeOK
<1>2. Reward(a) \in Nat /\ Reward(a) <= walletUsdc[a]
  BY <1>1, WalletAssumption, RatesAssumption, MulDivNat, MulDivLeq DEF Reward
<1>. QED BY <1>1, <1>2 DEF LiquidationRepays, Lesser

LEMMA CollateralValueType ==
    ASSUME TypeOK, NEW shares \in Nat
    PROVE  CollateralValue(shares) \in Nat
  BY MulDivNat DEF CollateralValue, TypeOK

LEMMA MaxWithdrawableType ==
    ASSUME WalletTypeOK, NEW a \in Agents
    PROVE  MaxWithdrawable(a) \in Nat
<1>. DEFINE required == MulDiv(walletDebt[a], WithdrawalBuffer, Bps)
<1>. DEFINE cover == Lesser(CollateralValue(cachedShares[a]), required)
<1>1. /\ walletDebt[a] \in Nat
      /\ walletUsdc[a] \in Nat
      /\ cachedShares[a] \in Nat
      /\ TypeOK
  BY DEF WalletTypeOK
<1>2. required \in Nat /\ CollateralValue(cachedShares[a]) \in Nat
  BY <1>1, WalletAssumption, RatesAssumption, MulDivNat, CollateralValueType
<1>3. required - cover \in Nat
  BY <1>2 DEF Lesser
<1>4. MaxWithdrawable(a) = IF walletDebt[a] = 0 THEN walletUsdc[a]
                           ELSE SatSub(walletUsdc[a], required - cover)
  BY DEF MaxWithdrawable
<1>. HIDE DEF required, cover
<1>. QED BY <1>1, <1>3, <1>4 DEF SatSub

(* Every step of the system is a step of the vault or leaves it alone.          *)
LEMMA SystemIsVault == WalletTypeOK /\ [SystemNext]_systemVars => [AnyNext]_vars
<1>. SUFFICES ASSUME WalletTypeOK, SystemNext PROVE AnyNext \/ UNCHANGED vars
  BY DEF systemVars
<1>. TypeOK
  BY DEF WalletTypeOK
<1>1. ASSUME NEW a \in Agents, WalletStep(a) PROVE AnyNext \/ UNCHANGED vars
  <2>1. Amounts \subseteq Nat /\ Spends \subseteq Nat /\ Rates \subseteq Nat /\ Debt(a) \in Nat
    BY InputsAssumption, WalletAssumption, AccruedType
  <2>2. ASSUME NEW amount \in Amounts, Deposit(a, amount) PROVE AnyNext
    BY <2>1, <2>2 DEF Deposit, AnyNext, AnyPositionStep
  <2>3. ASSUME NEW amount \in Spends \cup Amounts, NEW r \in Rates, NEW level \in Levels,
               RequestCredit(a, amount, r, level)
        PROVE  AnyNext
    <3>1. /\ ExtendCredit(a, amount, r, level, CollateralValue(collateralShares[a]))
          /\ amount \in Nat /\ r \in Nat
      BY <2>1, <2>3 DEF RequestCredit
    <3>2. CollateralValue(collateralShares[a]) \in Nat
      BY CollateralValueType DEF TypeOK
    <3>. QED BY <3>1, <3>2 DEF AnyNext, AnyLineStep
  <2>4. ASSUME NEW amount \in Nat, ReceiveRepayment(a, amount) PROVE AnyNext
    BY <2>4 DEF AnyNext, AnyLineStep
  <2>5. ASSUME NEW amount \in Spends \cup {Debt(a)},
               Repay(a, amount) \/ RoutedRepayment(a, amount)
        PROVE  AnyNext
    BY <2>1, <2>4, <2>5 DEF Repay, RoutedRepayment
  <2>6. ASSUME NEW level \in ProfileLevels, Liquidate(a, level)
        PROVE  AnyNext \/ UNCHANGED vars
    <3>1. CASE UNCHANGED vars
      BY <3>1
    <3>2. CASE LiquidationRepays(a) > 0 /\ ReceiveRepayment(a, LiquidationRepays(a))
      <4>1. LiquidationRepays(a) \in Nat
        BY LiquidationSplit
      <4>. QED BY <2>4, <3>2, <4>1
    <3>. QED BY <2>6, <3>1, <3>2 DEF Liquidate
  <2>7. ASSUME NEW amount \in Nat, NEW r \in Rates, NEW level \in Levels,
               NEW value \in CollateralValues, DirectDraw(a, amount, r, level, value)
        PROVE  AnyNext
    BY <2>1, <2>7, InputsAssumption DEF DirectDraw, AnyNext, AnyLineStep
  <2>8. Spends \cup Amounts \cup {AvailableLiquidity} \subseteq Nat
    BY <2>1, SharesType
  <2>. QED
    BY <1>1, <2>2, <2>3, <2>5, <2>6, <2>7, <2>8
       DEF WalletStep, CreateWallet, UpdateDailyLimit, ExecuteTrade, PayX402, Spend,
           Withdraw, CheckHealth, Deleverage, SetFrozen, Earn, UpdateProfile
<1>2. ASSUME NEW p \in BOOLEAN, SetWalletPaused(p) PROVE UNCHANGED vars
  BY <1>2 DEF SetWalletPaused
<1>3. CASE VaultStep
  <2>1. Next
    BY <1>3 DEF VaultStep, Next, LineStep
  <2>. QED BY <2>1, NextIsAny DEF vars
<1>. QED BY <1>1, <1>2, <1>3 DEF SystemNext

-----------------------------------------------------------------------------
(* Type correctness *)

LEMMA RequestCreditTypeOK ==
    ASSUME WalletTypeOK, TypeOK', NEW a \in Agents, NEW amount \in Nat, NEW r \in Nat,
           NEW level \in Levels, RequestCredit(a, amount, r, level)
    PROVE  WalletTypeOK'
<1>. DEFINE value == CollateralValue(collateralShares[a])
<1>1. value \in Nat
  BY CollateralValueType DEF WalletTypeOK, TypeOK
<1>2. MaxCredit[level] \in Nat /\ (level \in {2, 3} => Leverage[level] \in Nat)
  BY LimitsAssumption
<1>. HIDE DEF value
<1>3. CreditLimitForLevel(level, value) \in Nat
  BY <1>1, <1>2, MulNat DEF CreditLimitForLevel, Lesser
<1>4. /\ walletUsdc' = [walletUsdc EXCEPT ![a] = @ + amount]
      /\ walletLimit' = [walletLimit EXCEPT ![a] = CreditLimitForLevel(level, value)]
      /\ walletDrawn' = [walletDrawn EXCEPT ![a] = amount]
      /\ walletDebt' = [walletDebt EXCEPT ![a] = amount]
      /\ now' = now
      /\ lentUnseen' = lentUnseen \ {a}
      /\ UNCHANGED <<walletLevel, cachedShares, frozen, spending, walletPaused, profile,
                     hasPosition>>
  BY DEF RequestCredit, ExtendCredit, value
<1>. QED BY <1>3, <1>4 DEF WalletTypeOK, spending, profile

LEMMA SpendTypeOK ==
    ASSUME WalletTypeOK, TypeOK', NEW a \in Agents, NEW amount \in Nat, Spend(a, amount),
           venueSent' \in [Agents -> [Venues -> Nat]]
    PROVE  WalletTypeOK'
<1>1. walletUsdc[a] \in Nat /\ SpentToday(a) \in Nat /\ now \in Nat
  BY DEF WalletTypeOK, TypeOK, SpentToday
<1>2. amount <= walletUsdc[a]
  <2>1. MulDiv(walletUsdc[a], MaxPerTrade, Bps) <= walletUsdc[a]
    BY <1>1, WalletAssumption, RatesAssumption, MulDivLeq
  <2>2. MulDiv(walletUsdc[a], MaxPerTrade, Bps) \in Nat
    BY <1>1, WalletAssumption, RatesAssumption, MulDivNat
  <2>. QED BY <1>1, <2>1, <2>2 DEF Spend
<1>3. /\ walletUsdc' = [walletUsdc EXCEPT ![a] = @ - amount]
      /\ dailySpent' = [dailySpent EXCEPT ![a] = SpentToday(a) + amount]
      /\ lastReset' = [lastReset EXCEPT ![a] = IF NewDay(a) THEN now ELSE @]
      /\ now' = now
      /\ UNCHANGED <<walletLevel, cachedShares, credit, frozen, dailyLimit, walletPaused,
                     profile, atVault>>
  BY DEF Spend, vars
<1>4. /\ walletUsdc' \in [Agents -> Nat]
      /\ dailySpent' \in [Agents -> Nat]
      /\ lastReset' \in [Agents -> 0 .. now']
  BY <1>1, <1>2, <1>3 DEF WalletTypeOK
<1>. QED BY <1>3, <1>4 DEF WalletTypeOK, credit, profile, atVault

LEMMA WalletStepTypeOK ==
    ASSUME WalletTypeOK, TypeOK', NEW a \in Agents, WalletStep(a)
    PROVE  WalletTypeOK'
<1>1. /\ Amounts \subseteq Nat
      /\ Spends \subseteq Nat
      /\ Rates \subseteq Nat
      /\ DailyLimits \subseteq Nat
      /\ ProfileLevels \subseteq Levels \cup {0}
  BY InputsAssumption, WalletAssumption
<1>2. /\ Debt(a) \in Nat
      /\ now \in Nat
  BY AccruedType DEF WalletTypeOK, TypeOK
<1>3. ASSUME NEW limit \in DailyLimits, CreateWallet(a, limit) PROVE WalletTypeOK'
  <2>1. profileLevel[a] \in Levels \cup {0} /\ limit \in Nat /\ now' = now
    BY <1>1, <1>3 DEF WalletTypeOK, atVault, CreateWallet, vars
  <2>. QED BY <1>2, <1>3, <2>1 DEF CreateWallet, WalletTypeOK, atVault, credit, profile
<1>4. ASSUME NEW limit \in DailyLimits, UpdateDailyLimit(a, limit) PROVE WalletTypeOK'
  BY <1>1, <1>4 DEF UpdateDailyLimit, WalletTypeOK, atVault, vars, credit, profile
<1>5. ASSUME NEW amount \in Amounts, Deposit(a, amount) PROVE WalletTypeOK'
  <2>1. now' = now
    BY <1>5 DEF Deposit, DepositCollateral, PoolIn
  <2>2. collateralShares'[a] \in Nat
    BY DEF TypeOK
  <2>. QED BY <1>5, <2>1, <2>2 DEF Deposit, WalletTypeOK, atVault, credit, spending, profile
<1>6. ASSUME NEW amount \in Spends \cup Amounts, NEW r \in Rates, NEW level \in Levels,
             RequestCredit(a, amount, r, level)
      PROVE  WalletTypeOK'
  BY <1>1, <1>6, RequestCreditTypeOK
<1>7. ASSUME NEW amount \in Spends, NEW v \in Venues, ExecuteTrade(a, amount, v)
      PROVE  WalletTypeOK'
  <2>1. amount \in Nat /\ Spend(a, amount)
    BY <1>1, <1>7 DEF ExecuteTrade
  <2>2. venueSent' \in [Agents -> [Venues -> Nat]]
    BY <1>7, <2>1 DEF ExecuteTrade, WalletTypeOK
  <2>. QED BY <2>1, <2>2, SpendTypeOK
<1>8. ASSUME NEW amount \in Spends, PayX402(a, amount) PROVE WalletTypeOK'
  BY <1>1, <1>8, SpendTypeOK DEF PayX402, WalletTypeOK, atVault
<1>9. ASSUME NEW amount, Withdraw(a, amount) PROVE WalletTypeOK'
  <2>1. amount \in Nat /\ walletUsdc[a] - amount \in Nat
    BY <1>9, MaxWithdrawableType DEF Withdraw, Lesser, WalletTypeOK
  <2>. QED BY <1>9, <2>1 DEF Withdraw, WalletTypeOK, atVault, vars, credit, spending, profile
<1>10. ASSUME NEW amount \in Spends \cup {Debt(a)}, Repay(a, amount) PROVE WalletTypeOK'
  <2>1. /\ amount \in Nat
        /\ walletUsdc[a] - amount \in Nat
        /\ now' = now
    <3>1. amount \in Nat /\ walletUsdc[a] \in Nat
      BY <1>1, <1>2 DEF WalletTypeOK
    <3>2. amount <= walletUsdc[a] /\ ReceiveRepayment(a, amount)
      BY <1>10 DEF Repay
    <3>3. now' = now
      BY <3>2 DEF ReceiveRepayment
    <3>. QED BY <3>1, <3>2, <3>3
  <2>2. drawn'[a] \in Nat /\ accrued'[a] \in Nat
    BY DEF TypeOK
  <2>3. /\ walletUsdc' \in [Agents -> Nat]
        /\ walletDrawn' \in [Agents -> Nat]
        /\ walletDebt' \in [Agents -> Nat]
        /\ walletLimit' \in [Agents -> Nat]
    BY <1>10, <2>1, <2>2 DEF Repay, SyncedDrawn, WalletTypeOK
  <2>4. /\ lentUnseen' \subseteq Agents
        /\ UNCHANGED <<walletLevel, cachedShares, frozen, spending, walletPaused, profile,
                       hasPosition>>
    BY <1>10 DEF Repay, WalletTypeOK
  <2>. QED BY <2>1, <2>3, <2>4 DEF WalletTypeOK, spending, profile
<1>11. ASSUME CheckHealth(a) PROVE WalletTypeOK'
  BY <1>11 DEF CheckHealth, WalletTypeOK, atVault, vars, credit, spending, profile
<1>12. ASSUME Deleverage(a) PROVE WalletTypeOK'
  BY <1>12 DEF Deleverage, WalletTypeOK, atVault, vars, credit, spending, profile
<1>13. ASSUME NEW level \in ProfileLevels, Liquidate(a, level) PROVE WalletTypeOK'
  <2>1. walletDebt[a] - LiquidationRepays(a) \in Nat
    BY LiquidationSplit DEF WalletTypeOK
  <2>2. now' = now
    BY <1>13 DEF Liquidate, ReceiveRepayment, vars
  <2>. QED BY <1>1, <1>13, <2>1, <2>2 DEF Liquidate, WalletTypeOK, atVault, spending
<1>14. ASSUME NEW f \in BOOLEAN, SetFrozen(a, f) PROVE WalletTypeOK'
  BY <1>14 DEF SetFrozen, WalletTypeOK, atVault, vars, credit, spending, profile
<1>15. ASSUME NEW amount \in Spends, Earn(a, amount) PROVE WalletTypeOK'
  BY <1>1, <1>15 DEF Earn, WalletTypeOK, atVault, vars, credit, spending, profile
<1>16. ASSUME NEW amount \in Spends \cup {Debt(a)}, RoutedRepayment(a, amount)
       PROVE  WalletTypeOK'
  BY <1>16 DEF RoutedRepayment, ReceiveRepayment, WalletTypeOK, atVault, wallet, credit,
               spending, profile
<1>17. ASSUME NEW level \in ProfileLevels, NEW isActive \in BOOLEAN,
              UpdateProfile(a, level, isActive)
       PROVE  WalletTypeOK'
  BY <1>1, <1>17 DEF UpdateProfile, WalletTypeOK, atVault, vars, credit, spending
<1>18. ASSUME NEW amount, NEW r, NEW level, NEW value, DirectDraw(a, amount, r, level, value),
              amount \in Nat
       PROVE  WalletTypeOK'
  <2>1. now' = now
    BY <1>18 DEF DirectDraw, ExtendCredit
  <2>2. walletUsdc' \in [Agents -> Nat]
    BY <1>18 DEF DirectDraw, WalletTypeOK
  <2>. QED BY <1>18, <2>1, <2>2 DEF DirectDraw, WalletTypeOK, credit, spending, profile
<1>19. Spends \cup Amounts \cup {AvailableLiquidity} \subseteq Nat
  BY <1>1, SharesType DEF WalletTypeOK
<1>. QED
  BY <1>3, <1>4, <1>5, <1>6, <1>7, <1>8, <1>9, <1>10, <1>11, <1>12, <1>13, <1>14, <1>15,
     <1>16, <1>17, <1>18, <1>19 DEF WalletStep

LEMMA SystemStepTypeOK == WalletTypeOK /\ [SystemNext]_systemVars => WalletTypeOK'
<1>. SUFFICES ASSUME WalletTypeOK, [SystemNext]_systemVars PROVE WalletTypeOK'
  OBVIOUS
<1>1. TypeOK'
  BY SystemIsVault, StepTypeOK DEF WalletTypeOK
<1>2. ASSUME NEW p \in BOOLEAN, SetWalletPaused(p) PROVE WalletTypeOK'
  BY <1>1, <1>2 DEF SetWalletPaused, WalletTypeOK, atVault, vars, credit, spending, profile
<1>3. CASE VaultStep
  <2>1. UNCHANGED wallet
    BY <1>3 DEF VaultStep
  <2>2. hasPosition' \in [Agents -> BOOLEAN]
    BY <1>3 DEF VaultStep
  <2>3. lastReset' \in [Agents -> 0 .. now']
    <3>1. now' = now \/ now' = now + 1
      BY <1>3 DEF VaultStep, PositionStep, AdminStep, DepositLiquidity, DepositCollateral,
                  WithdrawLiquidity, WithdrawCollateral, PoolIn, PoolOut, AccrueInterest,
                  WriteOffBadDebt, SetPaused, UpdateConfig, Tick
    <3>2. now \in Nat /\ lastReset \in [Agents -> 0 .. now] /\ lastReset' = lastReset
      BY <2>1 DEF WalletTypeOK, TypeOK, wallet, spending
    <3>. QED BY <3>1, <3>2
  <2>4. lentUnseen' = lentUnseen
    BY <1>3 DEF VaultStep
  <2>. QED
    BY <1>1, <2>1, <2>2, <2>3, <2>4 DEF WalletTypeOK, wallet, credit, spending, profile
<1>4. CASE UNCHANGED systemVars
  BY <1>1, <1>4 DEF systemVars, wallet, vars, credit, spending, profile, atVault, WalletTypeOK
<1>. QED BY <1>1, <1>2, <1>3, <1>4, WalletStepTypeOK DEF SystemNext

LEMMA SystemInitTypeOK == SystemInit => WalletTypeOK
<1>. SUFFICES ASSUME SystemInit PROVE WalletTypeOK
  OBVIOUS
<1>1. TypeOK
  BY InitTypeOK DEF SystemInit
<1>2. now = 0
  BY DEF SystemInit, Init
<1>3. /\ lastReset \in [Agents -> 0 .. now]
      /\ venueSent \in [Agents -> [Venues -> Nat]]
  BY <1>2 DEF SystemInit
<1>4. /\ walletLevel \in [Agents -> Levels \cup {0}]
      /\ profileLevel \in [Agents -> Levels \cup {0}]
  BY DEF SystemInit
<1>5. /\ walletUsdc \in [Agents -> Nat]
      /\ cachedShares \in [Agents -> Nat]
      /\ walletLimit \in [Agents -> Nat]
      /\ walletDrawn \in [Agents -> Nat]
      /\ walletDebt \in [Agents -> Nat]
      /\ dailyLimit \in [Agents -> Nat]
      /\ dailySpent \in [Agents -> Nat]
  BY DEF SystemInit
<1>6. /\ frozen \in [Agents -> BOOLEAN]
      /\ profileActive \in [Agents -> BOOLEAN]
      /\ hasPosition \in [Agents -> BOOLEAN]
      /\ walletPaused \in BOOLEAN
      /\ lentUnseen \subseteq Agents
  BY DEF SystemInit
<1>. QED BY <1>1, <1>3, <1>4, <1>5, <1>6 DEF WalletTypeOK

(* No field of a wallet underflows or leaves its range, whatever the instance:  *)
(* the split of a liquidated balance and the max_withdrawable bound never take  *)
(* more than there is.                                                          *)
THEOREM WalletTypeCorrect == SystemSpec => []WalletTypeOK
  BY SystemInitTypeOK, SystemStepTypeOK, PTL DEF SystemSpec

-----------------------------------------------------------------------------
(* The vault's invariants in the composed system *)

SystemInv == WalletTypeOK /\ LedgerInv

LEMMA SystemInitInv == SystemInit => SystemInv
  BY SystemInitTypeOK, InitTypeOK, InitLines, InitDeployed, InitShares
     DEF SystemInit, LedgerInv, SystemInv

LEMMA SystemStepInv == SystemInv /\ [SystemNext]_systemVars => SystemInv'
  BY SystemStepTypeOK, SystemIsVault, StepTypeOK, StepLines, StepDeployed, StepShares
     DEF LedgerInv, SystemInv

(* The vault's invariants hold whatever the wallets, the router and the         *)
(* registry do: total_deployed is the outstanding principal, total_shares the   *)
(* shares of all positions, and a line is active exactly while it is indebted.  *)
THEOREM SystemLedgerCorrect == SystemSpec => []SystemInv
  BY SystemInitInv, SystemStepInv, PTL DEF SystemSpec

(* Wallets, router and registry drive the vault, and its holders still see no   *)
(* more than the lending pool: request_credit, repay and liquidate of wallets    *)
(* and execute_payment of the router are loans and repayments of the pool.      *)
THEOREM SystemImplementsPool == SystemSpec => ImplementsLendingPool
<1>1. SystemInit => Pool!PoolInit
  BY InitRefines DEF SystemInit
<1>2. SystemInv /\ [SystemNext]_systemVars => [Pool!PoolNext]_(Pool!poolVars)
  BY SystemIsVault, StepRefines DEF SystemInv
<1>. QED BY <1>1, <1>2, SystemLedgerCorrect, PTL
         DEF SystemSpec, ImplementsLendingPool, Pool!PoolSpec

(* In the composed system too only a write-off lowers what a share is worth: no *)
(* wallet, liquidation or routed payment dilutes a holder.                      *)
THEOREM SystemSharePriceMonotone == SystemSpec => SharePriceNeverFalls
<1>1. SystemInv /\ [SystemNext]_systemVars =>
        [AWriteOff \/ totalShares = 0
           \/ totalDeposits' * totalShares >= totalDeposits * totalShares']_vars
  BY SystemIsVault, StepPrice DEF SystemInv
<1>. QED BY <1>1, SystemLedgerCorrect, PTL DEF SystemSpec, SharePriceNeverFalls

(* And every way a wallet or the router pays the vault moves vault_usdc by what *)
(* the vault books: the cash of a wallet's loan, repayment or liquidation is    *)
(* never booked twice or left out.                                              *)
THEOREM SystemCashFollowsBooks == SystemSpec => CashFollowsBooks
<1>1. SystemInv /\ [SystemNext]_systemVars => [AWriteOff \/ CashGap' = CashGap]_vars
  BY SystemIsVault, StepCash DEF SystemInv
<1>. QED BY <1>1, SystemLedgerCorrect, PTL DEF SystemSpec, CashFollowsBooks

(* However a default came about, a loss reaches a tranche only when everyone    *)
(* below it is wiped out.                                                       *)
THEOREM SystemLossWaterfall == SystemSpec => LossWaterfall
<1>1. SystemInv => TypeOK
  BY DEF SystemInv, LedgerInv
<1>2. SystemInv /\ [SystemNext]_systemVars => [AWriteOff => LossSpread]_vars
  BY <1>1, WriteOffSpreads DEF AWriteOff
<1>. QED BY <1>2, SystemLedgerCorrect, PTL DEF SystemSpec, LossWaterfall, LossSpread

(* The shortfall that AvailableIsInVault shows is the doing of write-offs in    *)
(* the composed system too: however wallets are traded, frozen and liquidated,  *)
(* until a default vault_usdc holds what the books call idle.                   *)
THEOREM SystemAvailableWithoutDefault ==
    SystemInit /\ [][SystemNext /\ ~ AWriteOff]_systemVars => []AvailableIsInVault
<1>1. SystemInit => SystemInv /\ CashGap = 0
  BY SystemInitInv DEF SystemInit, Init, CashGap
<1>2. SystemInv /\ CashGap = 0 /\ [SystemNext /\ ~ AWriteOff]_systemVars
        => (SystemInv /\ CashGap = 0)'
  <2>. SUFFICES ASSUME SystemInv, CashGap = 0, [SystemNext /\ ~ AWriteOff]_systemVars
                PROVE  SystemInv' /\ CashGap' = 0
    OBVIOUS
  <2>1. [SystemNext]_systemVars /\ [AnyNext]_vars
    BY SystemIsVault DEF SystemInv
  <2>2. ~ AWriteOff \/ UNCHANGED vars
    BY DEF systemVars
  <2>. QED BY <2>1, <2>2, SystemStepInv, StepNoGap DEF SystemInv
<1>3. SystemInv /\ CashGap = 0 => AvailableIsInVault
  BY NoGapAvailable DEF SystemInv
<1>. QED BY <1>1, <1>2, <1>3, PTL

(* ReceiveRepayment never raises the principal.                                 *)
LEMMA RepaymentLowersPrincipal ==
    ASSUME TypeOK, NEW a \in Agents, NEW amount \in Nat, ReceiveRepayment(a, amount)
    PROVE  /\ drawn' = [drawn EXCEPT ![a] = drawn'[a]]
           /\ drawn'[a] \in Nat
           /\ drawn'[a] <= drawn[a]
<1>1. /\ amount <= Debt(a)
      /\ drawn' = [drawn EXCEPT ![a] = @ - (amount - InterestPart(a, amount))]
  BY DEF ReceiveRepayment
<1>2. /\ amount - InterestPart(a, amount) \in Nat
      /\ amount - InterestPart(a, amount) <= drawn[a]
      /\ drawn \in [Agents -> Nat]
  BY <1>1, RepaymentSplit DEF TypeOK
<1>. QED BY <1>1, <1>2

(* The vault lends more only to an agent without debt, and gives no collateral  *)
(* back to one that owes principal.                                             *)
LendsAfresh ==
    totalDeployed' > totalDeployed =>
        \E a \in Agents : drawn[a] = 0 /\ accrued[a] = 0 /\ drawn'[a] > 0

KeepsCollateral ==
    \A a \in Agents : drawn'[a] > 0 => collateralShares'[a] >= collateralShares[a]

LEMMA StepDraws == LedgerInv /\ [AnyNext]_vars => LendsAfresh /\ KeepsCollateral
<1>. SUFFICES ASSUME LedgerInv, [AnyNext]_vars PROVE LendsAfresh /\ KeepsCollateral
  OBVIOUS
<1>1. TypeOK /\ LineActiveIffIndebted
  BY DEF LedgerInv
<1>2. /\ drawn \in [Agents -> Nat]
      /\ collateralShares \in [Agents -> Nat]
      /\ active \in [Agents -> BOOLEAN]
      /\ totalDeployed \in Nat
      /\ collateralShares' \in [Agents -> Nat]
  BY <1>1, StepTypeOK DEF TypeOK
<1>3. ASSUME UNCHANGED totalDeployed PROVE LendsAfresh
  BY <1>2, <1>3 DEF LendsAfresh
<1>4. ASSUME UNCHANGED collateralShares PROVE KeepsCollateral
  BY <1>2, <1>4 DEF KeepsCollateral
<1>5. ASSUME NEW a \in Agents, NEW amount \in Nat, NEW r \in Nat, NEW level \in Levels,
             NEW v \in Nat, ExtendCredit(a, amount, r, level, v)
      PROVE  LendsAfresh /\ KeepsCollateral
  <2>1. /\ ~ active[a]
        /\ amount > 0
        /\ drawn' = [drawn EXCEPT ![a] = amount]
        /\ collateralShares' = collateralShares
    BY <1>5 DEF ExtendCredit, LineFree, positions
  <2>2. drawn[a] = 0 /\ accrued[a] = 0 /\ drawn'[a] > 0
    BY <1>1, <1>2, <2>1 DEF LineActiveIffIndebted
  <2>. QED BY <1>4, <2>1, <2>2 DEF LendsAfresh
<1>6. ASSUME NEW a \in Agents, NEW amount \in Nat, ReceiveRepayment(a, amount)
      PROVE  LendsAfresh /\ KeepsCollateral
  <2>1. /\ collateralShares' = collateralShares
        /\ totalDeployed' = SatSub(totalDeployed, amount - InterestPart(a, amount))
        /\ amount - InterestPart(a, amount) \in Nat
    BY <1>1, <1>6, RepaymentSplit DEF ReceiveRepayment, positions
  <2>. QED BY <1>2, <1>4, <2>1 DEF SatSub, LendsAfresh
<1>7. ASSUME NEW a \in Agents, AccrueInterest(a) PROVE LendsAfresh /\ KeepsCollateral
  BY <1>3, <1>4, <1>7 DEF AccrueInterest, positions, pool
<1>8. ASSUME NEW a \in Agents, WriteOffBadDebt(a) PROVE LendsAfresh /\ KeepsCollateral
  <2>1. /\ collateralShares' = collateralShares
        /\ totalDeployed' = SatSub(totalDeployed, drawn[a])
    BY <1>8 DEF WriteOffBadDebt, positions
  <2>. QED BY <1>2, <1>4, <2>1 DEF SatSub, LendsAfresh
<1>9. CASE AnyPositionStep
  <2>1. LendsAfresh
    BY <1>3, <1>9 DEF AnyPositionStep, DepositLiquidity, DepositCollateral,
                      WithdrawLiquidity, WithdrawCollateral, PoolIn, PoolOut
  <2>2. ASSUME NEW a \in Agents, NEW amount \in Nat, DepositCollateral(a, amount)
        PROVE  KeepsCollateral
    <3>1. collateralShares' = [collateralShares EXCEPT ![a] = @ + CalculateShares(amount)]
      BY <2>2 DEF DepositCollateral
    <3>2. CalculateShares(amount) \in Nat
      BY <1>1, SharesType
    <3>. QED BY <1>2, <3>1, <3>2 DEF KeepsCollateral
  <2>3. ASSUME NEW a \in Agents, NEW shares \in Nat, WithdrawCollateral(a, shares)
        PROVE  KeepsCollateral
    <3>1. /\ ~ active[a]
          /\ drawn' = drawn
          /\ collateralShares' = [collateralShares EXCEPT ![a] = @ - shares]
      BY <2>3 DEF WithdrawCollateral, PoolOut, lines
    <3>2. drawn[a] = 0
      BY <1>1, <1>2, <3>1 DEF LineActiveIffIndebted
    <3>. QED BY <1>2, <3>1, <3>2 DEF KeepsCollateral
  <2>. QED
    BY <1>4, <1>9, <2>1, <2>2, <2>3 DEF AnyPositionStep, DepositLiquidity, WithdrawLiquidity
<1>10. CASE AnyAdminStep \/ Tick
  BY <1>3, <1>4, <1>10 DEF AnyAdminStep, SetPaused, UpdateConfig, Tick, positions, pool
<1>11. CASE UNCHANGED vars
  BY <1>3, <1>4, <1>11 DEF vars, pool, positions
<1>. QED
  BY <1>5, <1>6, <1>7, <1>8, <1>9, <1>10, <1>11 DEF AnyNext, AnyLineStep

(* No credit is drawn over a debt, by any interleaving of wallets, router,      *)
(* vault and registry.                                                          *)
THEOREM NoDrawOverDebtAlways == SystemSpec => NoDrawOverDebt
<1>1. SystemInv /\ [SystemNext]_systemVars => [LendsAfresh]_systemVars
  BY SystemIsVault, StepDraws DEF SystemInv
<1>2. SystemSpec => [][LendsAfresh]_systemVars
  BY <1>1, SystemLedgerCorrect, PTL DEF SystemSpec
<1>. QED BY <1>2 DEF NoDrawOverDebt, LendsAfresh

(* No collateral leaves while its owner owes principal.                         *)
THEOREM CollateralPledgedAlways == SystemSpec => CollateralPledged
<1>1. SystemInv /\ [SystemNext]_systemVars => [KeepsCollateral]_systemVars
  BY SystemIsVault, StepDraws DEF SystemInv
<1>2. SystemSpec => [][KeepsCollateral]_systemVars
  BY <1>1, SystemLedgerCorrect, PTL DEF SystemSpec
<1>. QED BY <1>2 DEF CollateralPledged, KeepsCollateral

-----------------------------------------------------------------------------
(* A wallet with a limit owes the vault no more principal than it shows *)

LEMMA InitLimitCovers == SystemInit => LimitCoversPrincipal
  BY DEF SystemInit, LimitCoversPrincipal

(* A step that leaves a wallet's credit fields alone keeps the invariant when   *)
(* it does not raise the principal of the line.                                 *)
LEMMA CreditKept ==
    ASSUME WalletTypeOK, TypeOK', LimitCoversPrincipal, UNCHANGED <<credit, lentUnseen>>,
           \A b \in Agents : drawn'[b] <= drawn[b]
    PROVE  LimitCoversPrincipal'
<1>1. \A b \in Agents : /\ drawn[b] \in Nat
                        /\ drawn'[b] \in Nat
                        /\ walletDrawn[b] \in Nat
  BY DEF WalletTypeOK, TypeOK
<1>. QED BY <1>1 DEF LimitCoversPrincipal, credit

LEMMA WalletStepLimitCovers ==
    ASSUME SystemInv, SystemInv', LimitCoversPrincipal, NEW a \in Agents, WalletStep(a)
    PROVE  LimitCoversPrincipal'
<1>1. /\ WalletTypeOK
      /\ TypeOK
      /\ TypeOK'
      /\ LineActiveIffIndebted'
  BY DEF SystemInv, LedgerInv, WalletTypeOK
<1>2. /\ Amounts \subseteq Nat
      /\ Spends \subseteq Nat
      /\ Debt(a) \in Nat
  BY <1>1, InputsAssumption, WalletAssumption, AccruedType
<1>3. /\ drawn \in [Agents -> Nat]
      /\ drawn' \in [Agents -> Nat]
      /\ accrued' \in [Agents -> Nat]
      /\ walletDrawn \in [Agents -> Nat]
      /\ walletDebt \in [Agents -> Nat]
      /\ walletLimit \in [Agents -> Nat]
  BY <1>1 DEF WalletTypeOK, TypeOK
<1>4. ASSUME UNCHANGED <<vars, credit, lentUnseen>> PROVE LimitCoversPrincipal'
  BY <1>4 DEF vars, lines, credit, LimitCoversPrincipal
<1>5. ASSUME NEW amount \in Amounts, Deposit(a, amount) PROVE LimitCoversPrincipal'
  BY <1>5 DEF Deposit, DepositCollateral, PoolIn, lines, credit, atVault, LimitCoversPrincipal
<1>6. ASSUME NEW amount \in Spends \cup Amounts, NEW r \in Rates, NEW level \in Levels,
             RequestCredit(a, amount, r, level)
      PROVE  LimitCoversPrincipal'
  <2>1. /\ drawn' = [drawn EXCEPT ![a] = amount]
        /\ \A b \in Agents : b # a => walletLimit'[b] = walletLimit[b]
        /\ walletDrawn' = [walletDrawn EXCEPT ![a] = amount]
        /\ walletDebt' = [walletDebt EXCEPT ![a] = amount]
        /\ lentUnseen' = lentUnseen \ {a}
    BY <1>3, <1>6 DEF RequestCredit, ExtendCredit
  <2>2. amount \in Nat
    BY <1>2
  <2>. QED BY <1>3, <2>1, <2>2 DEF LimitCoversPrincipal
<1>7. ASSUME NEW amount \in Spends \cup {Debt(a)}, Repay(a, amount) PROVE LimitCoversPrincipal'
  <2>1. amount \in Nat /\ ReceiveRepayment(a, amount)
    BY <1>2, <1>7 DEF Repay
  <2>2. /\ drawn' = [drawn EXCEPT ![a] = drawn'[a]]
        /\ drawn'[a] <= drawn[a]
    BY <1>1, <2>1, RepaymentLowersPrincipal
  <2>3. /\ walletDrawn' = [walletDrawn EXCEPT ![a] = drawn'[a]]
        /\ walletDebt' = [walletDebt EXCEPT ![a] = drawn'[a] + accrued'[a]]
        /\ walletLimit' = [walletLimit EXCEPT ![a] = IF active'[a] THEN @ ELSE 0]
        /\ lentUnseen' = lentUnseen \ {a}
    BY <1>7 DEF Repay, SyncedDrawn
  <2>. QED BY <1>3, <2>2, <2>3 DEF LimitCoversPrincipal
<1>8. ASSUME NEW level \in ProfileLevels, Liquidate(a, level) PROVE LimitCoversPrincipal'
  <2>1. /\ walletLimit' = [walletLimit EXCEPT ![a] = 0]
        /\ lentUnseen' = lentUnseen
        /\ \A b \in Agents : b # a => /\ walletDrawn'[b] = walletDrawn[b]
                                      /\ walletDebt'[b] = walletDebt[b]
    BY <1>3, <1>8 DEF Liquidate, atVault
  <2>2. \A b \in Agents : b # a => drawn'[b] = drawn[b]
    <3>1. CASE UNCHANGED vars
      BY <3>1 DEF vars, lines
    <3>2. CASE ReceiveRepayment(a, LiquidationRepays(a))
      BY <1>1, <1>3, <3>2, LiquidationSplit, RepaymentLowersPrincipal
    <3>. QED BY <1>8, <3>1, <3>2 DEF Liquidate
  <2>. QED BY <1>3, <2>1, <2>2 DEF LimitCoversPrincipal
<1>9. ASSUME NEW amount \in Spends \cup {Debt(a)}, RoutedRepayment(a, amount)
      PROVE  LimitCoversPrincipal'
  <2>1. amount \in Nat /\ ReceiveRepayment(a, amount) /\ UNCHANGED <<credit, lentUnseen>>
    BY <1>2, <1>9 DEF RoutedRepayment, wallet, credit, atVault
  <2>2. \A b \in Agents : drawn'[b] <= drawn[b]
    BY <1>1, <1>3, <2>1, RepaymentLowersPrincipal
  <2>. QED BY <1>1, <2>1, <2>2, CreditKept
<1>10. ASSUME NEW amount, NEW r, NEW level, NEW value, DirectDraw(a, amount, r, level, value)
       PROVE  LimitCoversPrincipal'
  <2>1. /\ drawn' = [drawn EXCEPT ![a] = amount]
        /\ UNCHANGED credit
        /\ lentUnseen' = lentUnseen \cup {a}
    BY <1>10 DEF DirectDraw, ExtendCredit
  <2>. QED BY <1>3, <2>1 DEF LimitCoversPrincipal, credit
<1>. QED
  BY <1>4, <1>5, <1>6, <1>7, <1>8, <1>9, <1>10
     DEF WalletStep, CreateWallet, UpdateDailyLimit, ExecuteTrade, PayX402, Spend,
         Withdraw, CheckHealth, Deleverage, SetFrozen, Earn, UpdateProfile, atVault

LEMMA StepLimitCovers ==
    SystemInv /\ LimitCoversPrincipal /\ [SystemNext]_systemVars => LimitCoversPrincipal'
<1>. SUFFICES ASSUME SystemInv, LimitCoversPrincipal, [SystemNext]_systemVars
              PROVE  LimitCoversPrincipal'
  OBVIOUS
<1>1. SystemInv' /\ WalletTypeOK /\ TypeOK /\ TypeOK'
  BY SystemStepInv DEF SystemInv, LedgerInv, WalletTypeOK
<1>2. ASSUME UNCHANGED <<drawn, credit, lentUnseen>> PROVE LimitCoversPrincipal'
  BY <1>2 DEF LimitCoversPrincipal, credit
<1>3. CASE VaultStep
  <2>1. UNCHANGED <<credit, lentUnseen>>
    BY <1>3 DEF VaultStep, wallet, credit
  <2>2. \A b \in Agents : drawn[b] \in Nat
    BY <1>1 DEF TypeOK
  <2>3. ASSUME NEW a \in Agents, WriteOffBadDebt(a) PROVE \A b \in Agents : drawn'[b] <= drawn[b]
    BY <1>1, <2>2, <2>3 DEF WriteOffBadDebt, TypeOK
  <2>4. CASE \E a \in Agents : WriteOffBadDebt(a)
    BY <1>1, <2>1, <2>3, <2>4, CreditKept
  <2>5. CASE UNCHANGED drawn
    BY <1>2, <2>1, <2>5
  <2>. QED
    BY <1>3, <2>4, <2>5
       DEF VaultStep, PositionStep, AdminStep, DepositLiquidity, DepositCollateral,
           WithdrawLiquidity, WithdrawCollateral, PoolIn, PoolOut, AccrueInterest,
           SetPaused, UpdateConfig, Tick, lines
<1>4. ASSUME NEW p \in BOOLEAN, SetWalletPaused(p) PROVE LimitCoversPrincipal'
  BY <1>2, <1>4 DEF SetWalletPaused, vars, lines, credit, atVault
<1>5. CASE UNCHANGED systemVars
  BY <1>2, <1>5 DEF systemVars, vars, lines, wallet, credit, atVault
<1>. QED BY <1>1, <1>3, <1>4, <1>5, WalletStepLimitCovers DEF SystemNext

(* Only a loan the oracle makes past a wallet leaves the wallet understating    *)
(* what the vault has lent its agent, and only until the wallet's next          *)
(* repayment: no router payment, write-off or liquidation does, in any order    *)
(* and for every cut of a repayment.                                            *)
THEOREM LimitCoversPrincipalAlways == SystemSpec => []LimitCoversPrincipal
<1>1. SystemInit => SystemInv /\ LimitCoversPrincipal
  BY SystemInitInv, InitLimitCovers
<1>2. SystemInv /\ LimitCoversPrincipal /\ [SystemNext]_systemVars
        => (SystemInv /\ LimitCoversPrincipal)'
  BY SystemStepInv, StepLimitCovers
<1>. QED BY <1>1, <1>2, PTL DEF SystemSpec

-----------------------------------------------------------------------------
(* What leaves a frozen wallet pays its debt                                    *)

(* A repayment of any amount lowers what its agent owes.                        *)
LEMMA RepaymentLowersDebt ==
    ASSUME TypeOK, NEW a \in Agents, NEW amount \in Nat, ReceiveRepayment(a, amount)
    PROVE  Debt(a)' < Debt(a)
<1>. DEFINE interest == InterestPart(a, amount)
<1>1. amount > 0 /\ amount <= Debt(a)
  BY DEF ReceiveRepayment
<1>2. /\ interest \in Nat
      /\ interest <= AccruedNow(a)
      /\ amount - interest \in Nat
      /\ amount - interest <= drawn[a]
  BY <1>1, RepaymentSplit
<1>3. /\ AccruedNow(a) \in Nat
      /\ drawn[a] \in Nat
      /\ Debt(a) = drawn[a] + AccruedNow(a)
      /\ rate[a] \in Nat
      /\ now \in Nat
  BY AccruedType DEF TypeOK
<1>4. /\ accrued'[a] = AccruedNow(a) - interest
      /\ drawn'[a] = drawn[a] - (amount - interest)
      /\ lastAccrual'[a] = now
      /\ rate' = rate
      /\ now' = now
  BY DEF ReceiveRepayment, TypeOK
<1>. HIDE DEF interest
<1>5. drawn'[a] * rate[a] \in Nat
  BY <1>2, <1>3, <1>4, MulNat
<1>6. MulDiv(drawn'[a] * rate[a], 0, Bps * SecondsPerYear) = 0
  <2>. DEFINE q == 0 \div (Bps * SecondsPerYear)
  <2>. DEFINE d == Bps * SecondsPerYear
  <2>1. q = 0
    <3>1. d \in Nat \ {0}
      BY YearPositive
    <3>. HIDE DEF d
    <3>2. 0 \div d = 0
      BY <3>1
    <3>. QED BY <3>2 DEF d
  <2>2. (drawn'[a] * rate[a]) * 0 = 0
    BY <1>5
  <2>. QED BY <2>1, <2>2 DEF MulDiv
<1>7. Debt(a)' = drawn'[a] + (accrued'[a] + MulDiv(drawn'[a] * rate[a], now - now,
                                                   Bps * SecondsPerYear))
  BY <1>4 DEF Debt, AccruedNow, AccruedAt
<1>8. Debt(a)' = drawn'[a] + accrued'[a]
  <2>1. now - now = 0
    BY <1>3
  <2>. QED BY <1>2, <1>3, <1>4, <1>6, <1>7, <2>1
<1>. QED BY <1>1, <1>2, <1>3, <1>4, <1>8

(* A limit without a debt would let a liquidation pay out a wallet and repay    *)
(* nothing.                                                                     *)
LimitMeansDebt == \A a \in Agents : walletLimit[a] > 0 => walletDebt[a] > 0

LEMMA InitLimitMeansDebt == SystemInit => LimitMeansDebt
  BY DEF SystemInit, LimitMeansDebt

LEMMA StepLimitMeansDebt ==
    SystemInv /\ LimitMeansDebt /\ [SystemNext]_systemVars => LimitMeansDebt'
<1>. SUFFICES ASSUME SystemInv, LimitMeansDebt, [SystemNext]_systemVars
              PROVE  LimitMeansDebt'
  OBVIOUS
<1>1. SystemInv' /\ WalletTypeOK /\ WalletTypeOK' /\ TypeOK /\ TypeOK' /\ LineActiveIffIndebted'
  BY SystemStepInv DEF SystemInv, LedgerInv, WalletTypeOK
<1>2. /\ walletDebt \in [Agents -> Nat]
      /\ walletLimit \in [Agents -> Nat]
      /\ drawn' \in [Agents -> Nat]
      /\ accrued' \in [Agents -> Nat]
  BY <1>1 DEF WalletTypeOK, TypeOK
<1>3. ASSUME UNCHANGED <<walletLimit, walletDebt>> PROVE LimitMeansDebt'
  BY <1>3 DEF LimitMeansDebt
<1>4. ASSUME NEW a \in Agents, WalletStep(a) PROVE LimitMeansDebt'
  <2>1. ASSUME NEW amount \in Spends \cup Amounts, NEW r \in Rates, NEW level \in Levels,
               RequestCredit(a, amount, r, level)
        PROVE  LimitMeansDebt'
    <3>1. /\ amount > 0
          /\ walletDebt' = [walletDebt EXCEPT ![a] = amount]
          /\ \A b \in Agents : b # a => walletLimit'[b] = walletLimit[b]
      BY <1>2, <2>1 DEF RequestCredit, ExtendCredit
    <3>. QED BY <1>2, <3>1 DEF LimitMeansDebt
  <2>2. ASSUME NEW amount \in Spends \cup {Debt(a)}, Repay(a, amount) PROVE LimitMeansDebt'
    <3>1. /\ walletDebt' = [walletDebt EXCEPT ![a] = drawn'[a] + accrued'[a]]
          /\ walletLimit' = [walletLimit EXCEPT ![a] = IF active'[a] THEN @ ELSE 0]
      BY <2>2 DEF Repay
    <3>2. active'[a] => drawn'[a] > 0
      BY <1>1 DEF LineActiveIffIndebted
    <3>. QED BY <1>2, <3>1, <3>2 DEF LimitMeansDebt
  <2>3. ASSUME NEW level \in ProfileLevels, Liquidate(a, level) PROVE LimitMeansDebt'
    <3>1. /\ walletLimit' = [walletLimit EXCEPT ![a] = 0]
          /\ \A b \in Agents : b # a => walletDebt'[b] = walletDebt[b]
      BY <1>2, <2>3 DEF Liquidate
    <3>. QED BY <1>2, <3>1 DEF LimitMeansDebt
  <2>. QED
    BY <1>3, <1>4, <2>1, <2>2, <2>3
       DEF WalletStep, CreateWallet, UpdateDailyLimit, Deposit, ExecuteTrade, PayX402,
           Spend, Withdraw, CheckHealth, Deleverage, SetFrozen, Earn, RoutedRepayment,
           DirectDraw, UpdateProfile, credit, wallet
<1>5. CASE VaultStep \/ (\E p \in BOOLEAN : SetWalletPaused(p)) \/ UNCHANGED systemVars
  BY <1>3, <1>5 DEF VaultStep, SetWalletPaused, systemVars, wallet, credit
<1>. QED BY <1>4, <1>5 DEF SystemNext

PaysLenders ==
    \A a \in Agents : frozen[a] /\ walletUsdc'[a] < walletUsdc[a] => Debt(a)' < Debt(a)

LEMMA StepPaysLenders ==
    SystemInv /\ LimitMeansDebt /\ [SystemNext]_systemVars => PaysLenders
<1>. SUFFICES ASSUME SystemInv, LimitMeansDebt, [SystemNext]_systemVars,
                     NEW b \in Agents, frozen[b], walletUsdc'[b] < walletUsdc[b]
              PROVE  Debt(b)' < Debt(b)
  BY DEF PaysLenders
<1>1. WalletTypeOK /\ TypeOK
  BY DEF SystemInv, LedgerInv, WalletTypeOK
<1>2. /\ walletUsdc \in [Agents -> Nat]
      /\ frozen \in [Agents -> BOOLEAN]
      /\ walletDebt \in [Agents -> Nat]
  BY <1>1 DEF WalletTypeOK
<1>3. walletUsdc'[b] # walletUsdc[b]
  BY <1>2
<1>4. SUFFICES ASSUME NEW a \in Agents, WalletStep(a) PROVE Debt(b)' < Debt(b)
  BY <1>3 DEF SystemNext, VaultStep, SetWalletPaused, systemVars, wallet
<1>5. /\ Amounts \subseteq Nat
      /\ Spends \subseteq Nat
      /\ Debt(a) \in Nat
  BY <1>1, InputsAssumption, WalletAssumption, AccruedType
<1>6. ASSUME NEW amount \in Spends \cup {Debt(a)}, Repay(a, amount) PROVE Debt(b)' < Debt(b)
  <2>1. a = b
    BY <1>2, <1>3, <1>6 DEF Repay
  <2>2. ReceiveRepayment(b, amount) /\ amount \in Nat
    BY <1>5, <1>6, <2>1 DEF Repay
  <2>. QED BY <1>1, <2>2, RepaymentLowersDebt
<1>7. ASSUME NEW level \in ProfileLevels, Liquidate(a, level) PROVE Debt(b)' < Debt(b)
  <2>1. a = b
    BY <1>2, <1>3, <1>7 DEF Liquidate
  <2>2. walletLimit[b] > 0 /\ walletDebt[b] > 0
    BY <1>7, <2>1 DEF Liquidate, NavBelow, LimitMeansDebt
  <2>3. walletUsdc[b] \in Nat \ {0}
    <3>1. walletUsdc'[b] = 0
      BY <1>2, <1>7, <2>1 DEF Liquidate
    <3>. QED BY <1>2, <1>3, <3>1
  <2>4. Reward(b) < walletUsdc[b]
    BY <2>3, WalletAssumption, RatesAssumption, MulDivLess DEF Reward
  <2>5. LiquidationRepays(b) \in Nat /\ LiquidationRepays(b) > 0
    <3>1. Reward(b) \in Nat /\ LiquidationRepays(b) \in Nat
      BY <1>1, LiquidationSplit
    <3>. QED BY <1>2, <2>2, <2>3, <2>4, <3>1 DEF LiquidationRepays, Lesser
  <2>6. ReceiveRepayment(b, LiquidationRepays(b))
    BY <1>7, <2>1, <2>5 DEF Liquidate
  <2>. QED BY <1>1, <2>5, <2>6, RepaymentLowersDebt
<1>8. ASSUME NEW amount \in Nat, Spend(a, amount) \/ Withdraw(a, amount) PROVE FALSE
  <2>1. a = b
    BY <1>2, <1>3, <1>8 DEF Spend, Withdraw
  <2>. QED BY <1>8, <2>1 DEF Spend, Withdraw, NotHeld
<1>9. MaxWithdrawable(a) \in Nat
  BY <1>1, MaxWithdrawableType
<1>10. ASSUME NEW amount \in Spends \cup Amounts \cup {AvailableLiquidity},
              \/ walletUsdc' = [walletUsdc EXCEPT ![a] = @ + amount]
              \/ walletUsdc' = walletUsdc
       PROVE  FALSE
  BY <1>1, <1>2, <1>3, <1>5, <1>10, SharesType
<1>. QED
  BY <1>3, <1>4, <1>5, <1>6, <1>7, <1>8, <1>9, <1>10
     DEF WalletStep, CreateWallet, UpdateDailyLimit, Deposit, RequestCredit, ExecuteTrade,
         PayX402, CheckHealth, Deleverage, SetFrozen, Earn, RoutedRepayment, DirectDraw,
         UpdateProfile, wallet

(* Whatever a liquidation's reward below the whole balance, and whatever the    *)
(* copies of the debt say: what leaves a frozen wallet lowers its debt at the   *)
(* vault.                                                                       *)
THEOREM FrozenPaysOnlyLendersAlways == SystemSpec => FrozenPaysOnlyLenders
<1>1. SystemInit => SystemInv /\ LimitMeansDebt
  BY SystemInitInv, InitLimitMeansDebt
<1>2. SystemInv /\ LimitMeansDebt /\ [SystemNext]_systemVars => (SystemInv /\ LimitMeansDebt)'
  BY SystemStepInv, StepLimitMeansDebt
<1>3. SystemInv /\ LimitMeansDebt /\ [SystemNext]_systemVars => [PaysLenders]_systemVars
  BY StepPaysLenders
<1>4. SystemSpec => [][PaysLenders]_systemVars
  BY <1>1, <1>2, <1>3, PTL DEF SystemSpec
<1>. QED BY <1>4 DEF FrozenPaysOnlyLenders, PaysLenders
=============================================================================
