---------------------------- MODULE CreditVault ----------------------------
(* The Solana program krexa-credit-vault: a share-priced pool of USDC that LPs  *)
(* and agent owners fund and agents borrow from.  One action is one             *)
(* instruction, which Solana runs atomically: either every effect below happens *)
(* or, when a require! or a token transfer fails, none.                         *)
(*                                                                              *)
(* Kept: pool totals, tranche deposits, positions, credit lines, the balances   *)
(* of the two token accounts, the clock.  Left out: counters no instruction     *)
(* reads back (total_interest_earned, total_defaults, deposited_amount,         *)
(* senior/mezz/junior_shares, credit_limit of a line), keys and bumps.  Who     *)
(* signs is not modelled: the environment calls an instruction only with the    *)
(* signer its accounts demand.                                                  *)
EXTENDS Arithmetic

CONSTANTS
    NDepositors,            \* LPs are 1 .. NDepositors
    NAgents,                \* agents are 1 .. NAgents
    Amounts,                \* amounts of USDC or of shares a caller may pass
    LpTranches,             \* tranches LPs choose from
    CollateralValues,       \* collateral values the oracle may pass
    Rates,                  \* annual rates the oracle may pass, in 1/Bps
    UtilizationCaps,        \* caps the admin may set, in 1/Bps
    Lockups,                \* lockups the admin may set, in clock ticks
    PauseValues,            \* values the admin may set is_paused to
    Bps,                    \* BPS_DENOMINATOR, scaled down for TLC
    SecondsPerYear,         \* SECONDS_PER_YEAR, in clock ticks
    ProtocolFee,            \* PROTOCOL_FEE_BPS
    InsuranceTarget,        \* INSURANCE_TARGET_BPS
    InsuranceSurplus,       \* INSURANCE_SURPLUS_BPS
    InsurancePostTarget,    \* INSURANCE_POST_TARGET_BPS
    TrancheApr,             \* SENIOR_, MEZZANINE_, JUNIOR_APR_BPS
    MinimumInitialDeposit,  \* MINIMUM_INITIAL_DEPOSIT
    MaxCredit,              \* LEVEL_1 .. LEVEL_4_MAX_CREDIT
    Leverage,               \* LEVEL_2_ and LEVEL_3_LEVERAGE_NUM (DEN is 1)
    MaxTime,                \* bound: the last instant of the clock
    MaxFunds                \* bound: deposits and shares in the pool and
                            \* deposits of a tranche

Depositors == 1 .. NDepositors
Agents == 1 .. NAgents
Levels == 1 .. 4
Senior == 0
Mezzanine == 1
Junior == 2
Tranches == {Senior, Mezzanine, Junior}
NoTranche == 3              \* a position nobody has opened

ASSUME CountsAssumption == NDepositors \in Nat /\ NAgents \in Nat
ASSUME InputsAssumption ==
    /\ Amounts \subseteq Nat
    /\ LpTranches \subseteq Tranches
    /\ CollateralValues \subseteq Nat
    /\ Rates \subseteq Nat
    /\ UtilizationCaps \subseteq Nat
    /\ Lockups \subseteq Nat
    /\ PauseValues \subseteq BOOLEAN
ASSUME RatesAssumption ==
    /\ Bps \in Nat \ {0}
    /\ SecondsPerYear \in Nat \ {0}
    /\ ProtocolFee \in 0 .. Bps
    /\ InsuranceTarget \in 0 .. Bps
    /\ InsuranceSurplus \in 0 .. Bps
    /\ InsurancePostTarget \in 0 .. Bps
    /\ TrancheApr \in [Tranches -> Nat]
ASSUME LimitsAssumption ==
    /\ MinimumInitialDeposit \in Nat
    /\ MaxCredit \in [Levels -> Nat]
    /\ Leverage \in [{2, 3} -> Nat]
    /\ MaxTime \in Nat
    /\ MaxFunds \in Nat

VARIABLES
    totalDeposits,      \* VaultConfig.total_deposits
    totalShares,        \* VaultConfig.total_shares
    totalDeployed,      \* VaultConfig.total_deployed
    insuranceBalance,   \* VaultConfig.insurance_balance
    trancheDeposits,    \* senior_deposits, mezz_deposits, junior_deposits
    lastYield,          \* VaultConfig.last_yield_timestamp
    paused,             \* VaultConfig.is_paused
    utilizationCap,     \* VaultConfig.utilization_cap_bps
    lockup,             \* VaultConfig.lockup_seconds
    lpShares,           \* DepositPosition.shares of each LP
    lpTranche,          \* DepositPosition.tranche, set by the first deposit
    lpTime,             \* DepositPosition.deposit_timestamp
    collateralShares,   \* DepositPosition.shares of each agent's collateral
    active,             \* CreditLine.is_active
    drawn,              \* CreditLine.credit_drawn
    accrued,            \* CreditLine.accrued_interest
    rate,               \* CreditLine.interest_rate_bps
    lastAccrual,        \* CreditLine.last_accrual_timestamp
    vaultToken,         \* USDC in the vault_usdc token account
    insuranceToken,     \* USDC in the insurance_usdc token account
    now                 \* Clock::unix_timestamp

pool == <<totalDeposits, totalShares, totalDeployed, insuranceBalance,
          trancheDeposits, lastYield>>
config == <<paused, utilizationCap, lockup>>
positions == <<lpShares, lpTranche, lpTime, collateralShares>>
lines == <<active, drawn, accrued, rate, lastAccrual>>
tokens == <<vaultToken, insuranceToken>>
vars == <<pool, config, positions, lines, tokens, now>>

-----------------------------------------------------------------------------
(* Pure helpers *)

AvailableLiquidity == SatSub(totalDeposits, totalDeployed)

InsuranceAtTarget ==
    \/ totalDeployed = 0
    \/ insuranceBalance >= MulDiv(totalDeployed, InsuranceTarget, Bps)

FirstDeposit == totalShares = 0 \/ totalDeposits = 0

CalculateShares(amount) ==
    IF FirstDeposit THEN amount ELSE MulDiv(amount, totalShares, totalDeposits)

(* calculate_shares refuses a small first deposit and a mint of no shares *)
MintAllowed(amount) ==
    IF FirstDeposit THEN amount >= MinimumInitialDeposit
                    ELSE CalculateShares(amount) > 0

SharesToAmount_RoundedUp(shares) ==
    IF totalShares = 0 THEN 0
    ELSE MulDiv(shares, totalDeposits, totalShares)
           + (IF (shares * totalDeposits) % totalShares = 0 THEN 0 ELSE 1)

SharesToAmount(shares) ==
    IF totalShares = 0 THEN 0 ELSE MulDiv(shares, totalDeposits, totalShares)

CreditLimitForLevel(level, collateralValue) ==
    IF level \in {2, 3}
    THEN Lesser(collateralValue * Leverage[level], MaxCredit[level])
    ELSE MaxCredit[level]

(* CreditLine::accrue: the interest a line has once it is brought up to time T *)
AccruedAt_Backwards(a, T) ==
    accrued[a] + MulDiv(drawn[a] * rate[a], lastAccrual[a] - T, Bps * SecondsPerYear)

AccruedAt(a, T) ==
    accrued[a] + MulDiv(drawn[a] * rate[a], T - lastAccrual[a], Bps * SecondsPerYear)

AccruedNow(a) == AccruedAt(a, now)
Debt(a) == drawn[a] + AccruedNow(a)

(* VaultConfig::tranche_yield_owed since the last repayment *)
YieldOwed(t) ==
    MulDiv(trancheDeposits[t] * TrancheApr[t], now - lastYield, Bps * SecondsPerYear)
-----------------------------------------------------------------------------
Init ==
    /\ totalDeposits = 0
    /\ totalShares = 0
    /\ totalDeployed = 0
    /\ insuranceBalance = 0
    /\ trancheDeposits = [t \in Tranches |-> 0]
    /\ lastYield = 0
    /\ paused = FALSE
    /\ utilizationCap \in UtilizationCaps
    /\ lockup \in Lockups
    /\ lpShares = [d \in Depositors |-> 0]
    /\ lpTranche = [d \in Depositors |-> NoTranche]
    /\ lpTime = [d \in Depositors |-> 0]
    /\ collateralShares = [a \in Agents |-> 0]
    /\ active = [a \in Agents |-> FALSE]
    /\ drawn = [a \in Agents |-> 0]
    /\ accrued = [a \in Agents |-> 0]
    /\ rate = [a \in Agents |-> 0]
    /\ lastAccrual = [a \in Agents |-> 0]
    /\ vaultToken = 0
    /\ insuranceToken = 0
    /\ now = 0

(* what both kinds of deposit do to the pool *)
PoolIn(amount, t) ==
    /\ ~ paused
    /\ amount > 0
    /\ MintAllowed(amount)
    /\ totalDeposits + amount <= MaxFunds
    /\ totalShares + CalculateShares(amount) <= MaxFunds
    /\ trancheDeposits[t] + amount <= MaxFunds
    /\ totalDeposits' = totalDeposits + amount
    /\ totalShares' = totalShares + CalculateShares(amount)
    /\ trancheDeposits' = [trancheDeposits EXCEPT ![t] = @ + amount]
    /\ vaultToken' = vaultToken + amount
    /\ UNCHANGED <<totalDeployed, insuranceBalance, lastYield, config, lines,
                   insuranceToken, now>>

DepositLiquidity(d, amount, t) ==
    /\ PoolIn(amount, t)
    /\ lpShares' = [lpShares EXCEPT ![d] = @ + CalculateShares(amount)]
    /\ lpTranche' = [lpTranche EXCEPT ![d] = IF @ = NoTranche THEN t ELSE @]
    /\ lpTime' = [lpTime EXCEPT ![d] = now]
    /\ UNCHANGED collateralShares

DepositCollateral(a, amount) ==
    /\ PoolIn(amount, Senior)
    /\ collateralShares' = [collateralShares EXCEPT ![a] = @ + CalculateShares(amount)]
    /\ UNCHANGED <<lpShares, lpTranche, lpTime>>

(* what both kinds of withdrawal do to the pool; the SPL transfer fails when    *)
(* the token account holds less than the books say                              *)
PoolOut_AmountForShares(shares, t) ==
    LET amount == SharesToAmount(shares)
    IN  /\ ~ paused
        /\ shares > 0
        /\ amount <= AvailableLiquidity
        /\ amount <= vaultToken
        /\ totalDeposits' = SatSub(totalDeposits, amount)
        /\ totalShares' = SatSub(totalShares, amount)
        /\ trancheDeposits' = [trancheDeposits EXCEPT ![t] = SatSub(@, amount)]
        /\ vaultToken' = vaultToken - amount
        /\ UNCHANGED <<totalDeployed, insuranceBalance, lastYield, config, lines,
                       insuranceToken, now>>

PoolOut(shares, t) ==
    LET amount == SharesToAmount(shares)
    IN  /\ ~ paused
        /\ shares > 0
        /\ amount <= AvailableLiquidity
        /\ amount <= vaultToken
        /\ totalDeposits' = SatSub(totalDeposits, amount)
        /\ totalShares' = SatSub(totalShares, shares)
        /\ trancheDeposits' = [trancheDeposits EXCEPT ![t] = SatSub(@, amount)]
        /\ vaultToken' = vaultToken - amount
        /\ UNCHANGED <<totalDeployed, insuranceBalance, lastYield, config, lines,
                       insuranceToken, now>>

WithdrawLiquidity(d, shares) ==
    /\ lpTranche[d] # NoTranche
    /\ shares <= lpShares[d]
    /\ now >= lpTime[d] + lockup
    /\ PoolOut(shares, lpTranche[d])
    /\ lpShares' = [lpShares EXCEPT ![d] = @ - shares]
    /\ UNCHANGED <<lpTranche, lpTime, collateralShares>>

WithdrawCollateral(a, shares) ==
    /\ shares <= collateralShares[a]
    /\ ~ active[a]
    /\ PoolOut(shares, Senior)
    /\ collateralShares' = [collateralShares EXCEPT ![a] = @ - shares]
    /\ UNCHANGED <<lpShares, lpTranche, lpTime>>

(* SOL-014: a line that is live is never overwritten *)
LineFree_Always(a) == TRUE

LineFree(a) == ~ active[a]

ExtendCredit(a, amount, r, level, collateralValue) ==
    /\ ~ paused
    /\ amount > 0
    /\ LineFree(a)
    /\ amount <= CreditLimitForLevel(level, collateralValue)
    /\ amount <= AvailableLiquidity
    /\ totalDeposits > 0
    /\ MulDiv(totalDeployed + amount, Bps, totalDeposits) <= utilizationCap
    /\ amount <= vaultToken
    /\ active' = [active EXCEPT ![a] = TRUE]
    /\ drawn' = [drawn EXCEPT ![a] = amount]
    /\ accrued' = [accrued EXCEPT ![a] = 0]
    /\ rate' = [rate EXCEPT ![a] = r]
    /\ lastAccrual' = [lastAccrual EXCEPT ![a] = now]
    /\ totalDeployed' = totalDeployed + amount
    /\ vaultToken' = vaultToken - amount
    /\ UNCHANGED <<totalDeposits, totalShares, insuranceBalance, trancheDeposits,
                   lastYield, config, positions, insuranceToken, now>>

(* The interest part of a repayment, once the protocol fee is out, goes to the  *)
(* tranches in order, each up to the yield it is owed.                          *)
InterestPart(a, amount) == Lesser(amount, AccruedNow(a))
Fee(interest) == MulDiv(interest, ProtocolFee, Bps)

TranchePaid(interest) ==
    LET distributable == interest - Fee(interest)
        senior == Lesser(distributable, YieldOwed(Senior))
        mezz == Lesser(distributable - senior, YieldOwed(Mezzanine))
        junior == Lesser(distributable - senior - mezz, YieldOwed(Junior))
    IN  [t \in Tranches |-> CASE t = Senior -> senior
                              [] t = Mezzanine -> mezz
                              [] t = Junior -> junior]

Surplus(interest) ==
    LET paid == TranchePaid(interest)
    IN  interest - Fee(interest) - paid[Senior] - paid[Mezzanine] - paid[Junior]

(* the part of the interest that leaves the pool for the insurance account *)
InsuranceCut(interest) ==
    Fee(interest) + MulDiv(Surplus(interest),
                           IF InsuranceAtTarget THEN InsurancePostTarget
                                                ELSE InsuranceSurplus,
                           Bps)

NetPoolInterest_FeeOnly(interest) == interest - Fee(interest)

NetPoolInterest(interest) == interest - InsuranceCut(interest)

(* credit_cleared: neither principal nor interest is left *)
CreditCleared_NoInterestLeft(a, amount) == AccruedNow(a) - InterestPart(a, amount) = 0

CreditCleared(a, amount) ==
    LET interest == InterestPart(a, amount)
    IN  drawn[a] - (amount - interest) = 0 /\ AccruedNow(a) - interest = 0

(* The caller (agent wallet or payment router) has moved amount into vault_usdc *)
(* in the same transaction.                                                     *)
ReceiveRepayment(a, amount) ==
    LET interest == InterestPart(a, amount)
        principal == amount - interest
        cut == InsuranceCut(interest)
    IN  /\ amount > 0
        /\ active[a]
        /\ amount <= Debt(a)
        /\ accrued' = [accrued EXCEPT ![a] = AccruedNow(a) - interest]
        /\ drawn' = [drawn EXCEPT ![a] = @ - principal]
        /\ lastAccrual' = [lastAccrual EXCEPT ![a] = now]
        /\ active' = [active EXCEPT ![a] = ~ CreditCleared(a, amount)]
        /\ totalDeposits' = totalDeposits + NetPoolInterest(interest)
        /\ insuranceBalance' = insuranceBalance + cut
        /\ totalDeployed' = SatSub(totalDeployed, principal)
        /\ trancheDeposits' = [t \in Tranches |->
                                  trancheDeposits[t] + TranchePaid(interest)[t]]
        /\ lastYield' = now
        /\ vaultToken' = vaultToken + amount - cut
        /\ insuranceToken' = insuranceToken + cut
        /\ UNCHANGED <<totalShares, config, positions, rate, now>>

AccrueInterest_ClockKept(a) ==
    /\ active[a]
    /\ now > lastAccrual[a]
    /\ accrued' = [accrued EXCEPT ![a] = AccruedNow(a)]
    /\ UNCHANGED <<pool, config, positions, active, drawn, rate, lastAccrual, tokens, now>>

AccrueInterest(a) ==
    /\ active[a]
    /\ now > lastAccrual[a]
    /\ accrued' = [accrued EXCEPT ![a] = AccruedNow(a)]
    /\ lastAccrual' = [lastAccrual EXCEPT ![a] = now]
    /\ UNCHANGED <<pool, config, positions, active, drawn, rate, tokens, now>>

(* The loss waterfall: what insurance and then junior, mezzanine and senior     *)
(* absorb of a loss.                                                            *)
InsuranceAbsorbed(loss) == Lesser(loss, insuranceBalance)

TrancheAbsorbed_SeniorFirst(loss) ==
    LET left == loss - InsuranceAbsorbed(loss)
        senior == Lesser(left, trancheDeposits[Senior])
        mezz == Lesser(left - senior, trancheDeposits[Mezzanine])
        junior == Lesser(left - senior - mezz, trancheDeposits[Junior])
    IN  [t \in Tranches |-> CASE t = Senior -> senior
                              [] t = Mezzanine -> mezz
                              [] t = Junior -> junior]

TrancheAbsorbed(loss) ==
    LET left == loss - InsuranceAbsorbed(loss)
        junior == Lesser(left, trancheDeposits[Junior])
        mezz == Lesser(left - junior, trancheDeposits[Mezzanine])
        senior == Lesser(left - junior - mezz, trancheDeposits[Senior])
    IN  [t \in Tranches |-> CASE t = Senior -> senior
                              [] t = Mezzanine -> mezz
                              [] t = Junior -> junior]

(* Only book entries move: no token leaves the insurance account. *)
WriteOffBadDebt(a) ==
    LET loss == Debt(a)
        absorbed == TrancheAbsorbed(loss)
    IN  /\ active[a]
        /\ active' = [active EXCEPT ![a] = FALSE]
        /\ drawn' = [drawn EXCEPT ![a] = 0]
        /\ accrued' = [accrued EXCEPT ![a] = 0]
        /\ lastAccrual' = [lastAccrual EXCEPT ![a] = now]
        /\ totalDeployed' = SatSub(totalDeployed, drawn[a])
        /\ insuranceBalance' = insuranceBalance - InsuranceAbsorbed(loss)
        /\ trancheDeposits' = [t \in Tranches |-> trancheDeposits[t] - absorbed[t]]
        /\ totalDeposits' = SatSub(SatSub(SatSub(totalDeposits, absorbed[Junior]),
                                          absorbed[Mezzanine]), absorbed[Senior])
        /\ UNCHANGED <<totalShares, lastYield, config, positions, rate, tokens, now>>

SetPaused(p) ==
    /\ paused' = p
    /\ UNCHANGED <<pool, utilizationCap, lockup, positions, lines, tokens, now>>

(* update_config: the keys and the unused base rate are left out *)
UpdateConfig(cap, lock) ==
    /\ utilizationCap' = cap
    /\ lockup' = lock
    /\ UNCHANGED <<pool, paused, positions, lines, tokens, now>>

Tick ==
    /\ now < MaxTime
    /\ now' = now + 1
    /\ UNCHANGED <<pool, config, positions, lines, tokens>>
-----------------------------------------------------------------------------
(* the instructions that touch one agent's line *)
LineStep(a) ==
    \/ \E amount \in Amounts, r \in Rates, level \in Levels, v \in CollateralValues :
          ExtendCredit(a, amount, r, level, v)
    \/ \E amount \in Amounts \cup {Debt(a)} : ReceiveRepayment(a, amount)
    \/ AccrueInterest(a)
    \/ WriteOffBadDebt(a)

PositionStep ==
    \/ \E d \in Depositors, amount \in Amounts, t \in LpTranches :
          DepositLiquidity(d, amount, t)
    \/ \E a \in Agents, amount \in Amounts : DepositCollateral(a, amount)
    \/ \E d \in Depositors : \E shares \in Amounts \cup {lpShares[d]} :
          WithdrawLiquidity(d, shares)
    \/ \E a \in Agents : \E shares \in Amounts \cup {collateralShares[a]} :
          WithdrawCollateral(a, shares)

AdminStep ==
    \/ \E p \in PauseValues : SetPaused(p)
    \/ \E cap \in UtilizationCaps, lock \in Lockups : UpdateConfig(cap, lock)

Next ==
    \/ \E a \in Agents : LineStep(a)
    \/ PositionStep
    \/ AdminStep
    \/ Tick

Spec == Init /\ [][Next]_vars
-----------------------------------------------------------------------------
(* Properties *)

(* Every account field keeps its type: amounts never go negative, a tranche is  *)
(* one of three, and no line was brought up to a moment that is not yet.        *)
TypeOK ==
    /\ totalDeposits \in Nat
    /\ totalShares \in Nat
    /\ totalDeployed \in Nat
    /\ insuranceBalance \in Nat
    /\ trancheDeposits \in [Tranches -> Nat]
    /\ lastYield \in 0 .. now
    /\ paused \in BOOLEAN
    /\ utilizationCap \in Nat
    /\ lockup \in Nat
    /\ lpShares \in [Depositors -> Nat]
    /\ lpTranche \in [Depositors -> Tranches \cup {NoTranche}]
    /\ lpTime \in [Depositors -> Nat]
    /\ collateralShares \in [Agents -> Nat]
    /\ active \in [Agents -> BOOLEAN]
    /\ drawn \in [Agents -> Nat]
    /\ accrued \in [Agents -> Nat]
    /\ rate \in [Agents -> Nat]
    /\ lastAccrual \in [Agents -> 0 .. now]
    /\ vaultToken \in Nat
    /\ insuranceToken \in Nat
    /\ now \in Nat

(* total_deployed is exactly the principal outstanding over all credit lines,   *)
(* although repayments and write-offs subtract from it with saturating_sub and  *)
(* interest and principal share one payment: a write-off that also took the     *)
(* interest (SOL-027), or a draw on a live line (SOL-014), breaks it.           *)
DeployedIsOutstanding == totalDeployed = Total(drawn, NAgents)

(* total_shares is exactly the shares of all LP and all collateral positions:   *)
(* nobody holds a claim the price does not count, and no claim is lost.         *)
SharesMatchPositions ==
    totalShares = Total(lpShares, NDepositors) + Total(collateralShares, NAgents)

(* A line is active exactly while principal is owed, and owes no interest once  *)
(* it is not: so withdraw_collateral, which looks at is_active alone, frees the *)
(* collateral of no indebted agent and locks that of no agent without debt.     *)
LineActiveIffIndebted ==
    \A a \in Agents : /\ active[a] <=> drawn[a] > 0
                      /\ ~ active[a] => accrued[a] = 0

(* The totals and flags that every instruction trusts instead of the accounts   *)
(* they summarise agree with those accounts, in all three ledgers at once: the  *)
(* principal lent, the shares held, and who is in debt.                         *)
LedgersAgree == DeployedIsOutstanding /\ SharesMatchPositions /\ LineActiveIffIndebted

AWriteOff == \E a \in Agents : WriteOffBadDebt(a)

(* The share price never falls but by a write-off, whatever deposits,           *)
(* withdrawals and repayments are interleaved and however their divisions       *)
(* round: a holder is never diluted by what other holders do.                   *)
SharePriceNeverFalls ==
    [][AWriteOff \/ totalShares = 0
         \/ totalDeposits' * totalShares >= totalDeposits * totalShares']_vars

(* What vault_usdc holds beyond the books' idle funds.                          *)
CashGap == vaultToken - (totalDeposits - totalDeployed)

(* Only a write-off moves the books apart from the cash: every other            *)
(* instruction changes vault_usdc by exactly what it books, although a          *)
(* repayment splits one payment over five counters and two token accounts.      *)
CashFollowsBooks == [][AWriteOff \/ CashGap' = CashGap]_vars

(* When a loss reaches a tranche, everyone below it has been wiped out: the     *)
(* order of the loss waterfall, whatever yields and withdrawals came before.    *)
LossWaterfall ==
    [][AWriteOff =>
         /\ trancheDeposits'[Junior] < trancheDeposits[Junior] =>
               insuranceBalance' = 0
         /\ trancheDeposits'[Mezzanine] < trancheDeposits[Mezzanine] =>
               insuranceBalance' = 0 /\ trancheDeposits'[Junior] = 0
         /\ trancheDeposits'[Senior] < trancheDeposits[Senior] =>
               /\ insuranceBalance' = 0
               /\ trancheDeposits'[Junior] = 0
               /\ trancheDeposits'[Mezzanine] = 0]_vars

(* Whoever calls the permissionless accrue_interest, and however often, an      *)
(* agent never owes more at a later time T than without that call: interest is  *)
(* simple and never charged twice for the same period.                          *)
AccrualNeverOvercharges ==
    [][\A a \in Agents : AccrueInterest(a) =>
         \A T \in now .. MaxTime : AccruedAt(a, T)' <= AccruedAt(a, T)]_vars

(* lib.rs:69, "Undeployed USDC sitting in vault_token_account, available to     *)
(* lend": the idle funds of the books are in vault_usdc.                        *)
AvailableIsInVault == AvailableLiquidity <= vaultToken
-----------------------------------------------------------------------------
(* The abstract pool the vault implements: its holders are the LPs and, after   *)
(* them, the agents' collateral positions.                                      *)
HolderShares ==
    [h \in 1 .. NDepositors + NAgents |->
        IF h <= NDepositors THEN lpShares[h] ELSE collateralShares[h - NDepositors]]

Pool == INSTANCE LendingPool
            WITH NHolders <- NDepositors + NAgents,
                 assets <- totalDeposits,
                 lent <- totalDeployed,
                 shares <- HolderShares

(* Every instruction of the vault is a step of the lending pool or changes      *)
(* nothing the pool can see: minted shares are fairly priced against the sum of *)
(* all positions, and only idle funds leave.                                    *)
ImplementsLendingPool == Pool!PoolSpec
=============================================================================
