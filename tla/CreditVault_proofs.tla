------------------------- MODULE CreditVault_proofs -------------------------
(* Proofs about CreditVault for every number of LPs and agents, every amount,   *)
(* rate and limit.                                                              *)
EXTENDS CreditVault, Arithmetic_proofs

-----------------------------------------------------------------------------
(* The vault's steps with inputs of any size: what is proved of them holds for  *)
(* CreditVault, whatever its input constants, and for every module whose steps  *)
(* call the vault (AgentCredit).                                                *)
AnyLineStep(a) ==
    \/ \E amount \in Nat, r \in Nat, level \in Levels, v \in Nat :
          ExtendCredit(a, amount, r, level, v)
    \/ \E amount \in Nat : ReceiveRepayment(a, amount)
    \/ AccrueInterest(a)
    \/ WriteOffBadDebt(a)

AnyPositionStep ==
    \/ \E d \in Depositors, amount \in Nat, t \in Tranches : DepositLiquidity(d, amount, t)
    \/ \E a \in Agents, amount \in Nat : DepositCollateral(a, amount)
    \/ \E d \in Depositors, shares \in Nat : WithdrawLiquidity(d, shares)
    \/ \E a \in Agents, shares \in Nat : WithdrawCollateral(a, shares)

AnyAdminStep ==
    \/ \E p \in BOOLEAN : SetPaused(p)
    \/ \E cap \in Nat, lock \in Nat : UpdateConfig(cap, lock)

AnyNext ==
    \/ \E a \in Agents : AnyLineStep(a)
    \/ AnyPositionStep
    \/ AnyAdminStep
    \/ Tick

-----------------------------------------------------------------------------
(* Values of the helpers in a well-typed state *)

LEMMA YearPositive == Bps * SecondsPerYear \in Nat \ {0}
  BY RatesAssumption, MulPos

LEMMA AccruedType ==
    ASSUME TypeOK, NEW a \in Agents
    PROVE  /\ AccruedNow(a) \in Nat
           /\ drawn[a] \in Nat
           /\ Debt(a) = drawn[a] + AccruedNow(a)
           /\ Debt(a) \in Nat
<1>1. /\ drawn[a] \in Nat
      /\ rate[a] \in Nat
      /\ accrued[a] \in Nat
      /\ now - lastAccrual[a] \in Nat
  BY DEF TypeOK
<1>2. drawn[a] * rate[a] \in Nat
  BY <1>1, MulNat
<1>3. MulDiv(drawn[a] * rate[a], now - lastAccrual[a], Bps * SecondsPerYear) \in Nat
  BY <1>1, <1>2, YearPositive, MulDivNat
<1>4. AccruedNow(a) \in Nat
  BY <1>1, <1>3 DEF AccruedNow, AccruedAt
<1>. QED BY <1>1, <1>4 DEF Debt

(* Interest and principal of a repayment that does not exceed the debt. *)
LEMMA RepaymentSplit ==
    ASSUME TypeOK, NEW a \in Agents, NEW amount \in Nat, amount <= Debt(a)
    PROVE  /\ InterestPart(a, amount) \in Nat
           /\ InterestPart(a, amount) <= amount
           /\ InterestPart(a, amount) <= AccruedNow(a)
           /\ amount - InterestPart(a, amount) \in Nat
           /\ amount - InterestPart(a, amount) <= drawn[a]
  BY AccruedType DEF InterestPart, Lesser

LEMMA YieldType ==
    ASSUME TypeOK, NEW t \in Tranches
    PROVE  YieldOwed(t) \in Nat
<1>1. /\ trancheDeposits[t] \in Nat
      /\ TrancheApr[t] \in Nat
      /\ now - lastYield \in Nat
  BY RatesAssumption DEF TypeOK
<1>2. trancheDeposits[t] * TrancheApr[t] \in Nat
  BY <1>1, MulNat
<1>. QED BY <1>1, <1>2, YearPositive, MulDivNat DEF YieldOwed

(* The parts of an interest payment are naturals, and what leaves for insurance *)
(* is at most the interest.                                                     *)
LEMMA InterestSplit ==
    ASSUME TypeOK, NEW i \in Nat
    PROVE  /\ TranchePaid(i) \in [Tranches -> Nat]
           /\ InsuranceCut(i) \in Nat
           /\ InsuranceCut(i) <= i
<1>. DEFINE f == Fee(i)
<1>. DEFINE s == Lesser(i - f, YieldOwed(Senior))
<1>. DEFINE m == Lesser(i - f - s, YieldOwed(Mezzanine))
<1>. DEFINE j == Lesser(i - f - s - m, YieldOwed(Junior))
<1>1. f \in Nat /\ f <= i
  BY RatesAssumption, MulDivNat, MulDivLeq DEF Fee
<1>2. YieldOwed(Senior) \in Nat /\ YieldOwed(Mezzanine) \in Nat /\ YieldOwed(Junior) \in Nat
  BY YieldType DEF Tranches
<1>3. s \in Nat /\ s <= i - f
  BY <1>1, <1>2 DEF Lesser
<1>4. m \in Nat /\ m <= i - f - s
  BY <1>1, <1>2, <1>3 DEF Lesser
<1>5. j \in Nat /\ j <= i - f - s - m
  BY <1>1, <1>2, <1>3, <1>4 DEF Lesser
<1>6. /\ TranchePaid(i) = [t \in Tranches |-> CASE t = Senior -> s
                                                [] t = Mezzanine -> m
                                                [] t = Junior -> j]
  BY DEF TranchePaid
<1>. HIDE DEF f, s, m, j
<1>7. TranchePaid(i) \in [Tranches -> Nat]
  BY <1>3, <1>4, <1>5, <1>6 DEF Tranches, Senior, Mezzanine, Junior
<1>8. /\ TranchePaid(i)[Senior] = s
      /\ TranchePaid(i)[Mezzanine] = m
      /\ TranchePaid(i)[Junior] = j
  BY <1>6 DEF Tranches, Senior, Mezzanine, Junior
<1>. DEFINE p == IF InsuranceAtTarget THEN InsurancePostTarget ELSE InsuranceSurplus
<1>9. p \in Nat /\ p <= Bps
  BY RatesAssumption
<1>10. Surplus(i) \in Nat /\ Surplus(i) <= i - f
  BY <1>1, <1>3, <1>4, <1>5, <1>8 DEF Surplus, f
<1>11. MulDiv(Surplus(i), p, Bps) \in Nat /\ MulDiv(Surplus(i), p, Bps) <= Surplus(i)
  BY <1>9, <1>10, RatesAssumption, MulDivNat, MulDivLeq
<1>12. InsuranceCut(i) = f + MulDiv(Surplus(i), p, Bps)
  BY DEF InsuranceCut, f
<1>. QED BY <1>1, <1>7, <1>10, <1>11, <1>12

(* What each absorbs of a loss is at most what it has. *)
LEMMA LossSplit ==
    ASSUME TypeOK, NEW loss \in Nat
    PROVE  /\ InsuranceAbsorbed(loss) \in Nat
           /\ InsuranceAbsorbed(loss) <= insuranceBalance
           /\ TrancheAbsorbed(loss) \in [Tranches -> Nat]
           /\ \A t \in Tranches : TrancheAbsorbed(loss)[t] <= trancheDeposits[t]
<1>. DEFINE b == InsuranceAbsorbed(loss)
<1>. DEFINE j == Lesser(loss - b, trancheDeposits[Junior])
<1>. DEFINE m == Lesser(loss - b - j, trancheDeposits[Mezzanine])
<1>. DEFINE s == Lesser(loss - b - j - m, trancheDeposits[Senior])
<1>1. insuranceBalance \in Nat /\ trancheDeposits \in [Tranches -> Nat]
  BY DEF TypeOK
<1>2. b \in Nat /\ b <= loss /\ b <= insuranceBalance
  BY <1>1 DEF InsuranceAbsorbed, Lesser
<1>3. /\ trancheDeposits[Junior] \in Nat
      /\ trancheDeposits[Mezzanine] \in Nat
      /\ trancheDeposits[Senior] \in Nat
  BY <1>1 DEF Tranches
<1>4. j \in Nat /\ j <= loss - b /\ j <= trancheDeposits[Junior]
  BY <1>2, <1>3 DEF Lesser
<1>5. m \in Nat /\ m <= loss - b - j /\ m <= trancheDeposits[Mezzanine]
  BY <1>2, <1>3, <1>4 DEF Lesser
<1>6. s \in Nat /\ s <= trancheDeposits[Senior]
  BY <1>2, <1>3, <1>4, <1>5 DEF Lesser
<1>7. TrancheAbsorbed(loss) = [t \in Tranches |-> CASE t = Senior -> s
                                                    [] t = Mezzanine -> m
                                                    [] t = Junior -> j]
  BY DEF TrancheAbsorbed
<1>. HIDE DEF b, j, m, s
<1>8. TrancheAbsorbed(loss) \in [Tranches -> Nat]
  BY <1>4, <1>5, <1>6, <1>7 DEF Tranches, Senior, Mezzanine, Junior
<1>9. \A t \in Tranches : TrancheAbsorbed(loss)[t] <= trancheDeposits[t]
  BY <1>4, <1>5, <1>6, <1>7 DEF Tranches, Senior, Mezzanine, Junior
<1>. QED BY <1>2, <1>8, <1>9 DEF b

LEMMA SharesType ==
    ASSUME TypeOK
    PROVE  /\ \A amount \in Nat : CalculateShares(amount) \in Nat
           /\ \A shares \in Nat : SharesToAmount(shares) \in Nat
           /\ AvailableLiquidity \in Nat
<1>1. totalShares \in Nat /\ totalDeposits \in Nat /\ totalDeployed \in Nat
  BY DEF TypeOK
<1>2. ASSUME NEW amount \in Nat PROVE CalculateShares(amount) \in Nat
  <2>1. CASE FirstDeposit
    BY <2>1 DEF CalculateShares
  <2>2. CASE ~ FirstDeposit
    <3>1. totalDeposits \in Nat \ {0}
      BY <1>1, <2>2 DEF FirstDeposit
    <3>. QED BY <1>1, <2>2, <3>1, MulDivNat DEF CalculateShares
  <2>. QED BY <2>1, <2>2
<1>3. ASSUME NEW shares \in Nat PROVE SharesToAmount(shares) \in Nat
  BY <1>1, MulDivNat DEF SharesToAmount
<1>4. AvailableLiquidity \in Nat
  BY <1>1 DEF AvailableLiquidity, SatSub
<1>. QED BY <1>2, <1>3, <1>4

-----------------------------------------------------------------------------
(* Type correctness *)

LEMMA NextIsAny == TypeOK /\ [Next]_vars => [AnyNext]_vars
<1>. SUFFICES ASSUME TypeOK, Next PROVE AnyNext
  BY DEF Next
<1>1. ASSUME NEW a \in Agents, LineStep(a) PROVE AnyLineStep(a)
  <2>1. Amounts \subseteq Nat /\ Debt(a) \in Nat
    BY InputsAssumption, AccruedType
  <2>. QED BY <1>1, <2>1, InputsAssumption DEF LineStep, AnyLineStep
<1>2. CASE PositionStep
  <2>1. Amounts \subseteq Nat /\ LpTranches \subseteq Tranches
    BY InputsAssumption
  <2>2. ASSUME NEW d \in Depositors, NEW shares \in Amounts \cup {lpShares[d]},
               WithdrawLiquidity(d, shares)
        PROVE  AnyPositionStep
    <3>1. shares \in Nat
      BY <2>1 DEF TypeOK
    <3>. QED BY <2>2, <3>1 DEF AnyPositionStep
  <2>3. ASSUME NEW a \in Agents, NEW shares \in Amounts \cup {collateralShares[a]},
               WithdrawCollateral(a, shares)
        PROVE  AnyPositionStep
    <3>1. shares \in Nat
      BY <2>1 DEF TypeOK
    <3>. QED BY <2>3, <3>1 DEF AnyPositionStep
  <2>4. ASSUME NEW d \in Depositors, NEW amount \in Amounts, NEW t \in LpTranches,
               DepositLiquidity(d, amount, t)
        PROVE  AnyPositionStep
    <3>1. amount \in Nat /\ t \in Tranches
      BY <2>1
    <3>. QED BY <2>4, <3>1 DEF AnyPositionStep
  <2>5. ASSUME NEW a \in Agents, NEW amount \in Amounts, DepositCollateral(a, amount)
        PROVE  AnyPositionStep
    <3>1. amount \in Nat
      BY <2>1
    <3>. QED BY <2>5, <3>1 DEF AnyPositionStep
  <2>. QED BY <1>2, <2>2, <2>3, <2>4, <2>5 DEF PositionStep, AnyNext
<1>3. CASE AdminStep
  <2>1. PauseValues \subseteq BOOLEAN /\ UtilizationCaps \subseteq Nat /\ Lockups \subseteq Nat
    BY InputsAssumption
  <2>2. ASSUME NEW p \in PauseValues, SetPaused(p) PROVE AnyAdminStep
    <3>1. p \in BOOLEAN
      BY <2>1
    <3>. QED BY <2>2, <3>1 DEF AnyAdminStep
  <2>3. ASSUME NEW cap \in UtilizationCaps, NEW lock \in Lockups, UpdateConfig(cap, lock)
        PROVE  AnyAdminStep
    <3>1. cap \in Nat /\ lock \in Nat
      BY <2>1
    <3>. QED BY <2>3, <3>1 DEF AnyAdminStep
  <2>. QED BY <1>3, <2>2, <2>3 DEF AdminStep, AnyNext
<1>. QED BY <1>1, <1>2, <1>3 DEF Next, AnyNext

LEMMA InitTypeOK == Init => TypeOK
<1>. SUFFICES ASSUME Init PROVE TypeOK
  OBVIOUS
<1>1. utilizationCap \in Nat /\ lockup \in Nat
  BY InputsAssumption DEF Init
<1>2. /\ lpTranche \in [Depositors -> Tranches \cup {NoTranche}]
      /\ trancheDeposits \in [Tranches -> Nat]
  BY DEF Init
<1>3. /\ lpShares \in [Depositors -> Nat]
      /\ lpTime \in [Depositors -> Nat]
      /\ collateralShares \in [Agents -> Nat]
      /\ active \in [Agents -> BOOLEAN]
      /\ drawn \in [Agents -> Nat]
      /\ accrued \in [Agents -> Nat]
      /\ rate \in [Agents -> Nat]
  BY DEF Init
<1>4. now = 0 /\ lastAccrual \in [Agents -> 0 .. now] /\ lastYield \in 0 .. now
  BY DEF Init
<1>5. /\ totalDeposits \in Nat
      /\ totalShares \in Nat
      /\ totalDeployed \in Nat
      /\ insuranceBalance \in Nat
      /\ vaultToken \in Nat
      /\ insuranceToken \in Nat
      /\ paused \in BOOLEAN
  BY DEF Init
<1>. QED BY <1>1, <1>2, <1>3, <1>4, <1>5 DEF TypeOK

LEMMA PoolInTypeOK ==
    ASSUME TypeOK, NEW amount \in Nat, NEW t \in Tranches, PoolIn(amount, t)
    PROVE  /\ totalDeposits' \in Nat
           /\ totalShares' \in Nat
           /\ totalDeployed' \in Nat
           /\ insuranceBalance' \in Nat
           /\ trancheDeposits' \in [Tranches -> Nat]
           /\ vaultToken' \in Nat
           /\ CalculateShares(amount) \in Nat
  BY SharesType DEF TypeOK, PoolIn

LEMMA PoolOutTypeOK ==
    ASSUME TypeOK, NEW shares \in Nat, NEW t \in Tranches, PoolOut(shares, t)
    PROVE  /\ totalDeposits' \in Nat
           /\ totalShares' \in Nat
           /\ totalDeployed' \in Nat
           /\ insuranceBalance' \in Nat
           /\ trancheDeposits' \in [Tranches -> Nat]
           /\ vaultToken' \in Nat
<1>. DEFINE amount == SharesToAmount(shares)
<1>1. amount \in Nat
  BY SharesType
<1>2. /\ amount <= vaultToken
      /\ totalDeposits' = SatSub(totalDeposits, amount)
      /\ totalShares' = SatSub(totalShares, shares)
      /\ trancheDeposits' = [trancheDeposits EXCEPT ![t] = SatSub(@, amount)]
      /\ vaultToken' = vaultToken - amount
      /\ UNCHANGED <<totalDeployed, insuranceBalance>>
  BY DEF PoolOut
<1>. HIDE DEF amount
<1>. QED BY <1>1, <1>2 DEF TypeOK, SatSub

LEMMA RepaymentTypeOK ==
    ASSUME TypeOK, NEW a \in Agents, NEW amount \in Nat, ReceiveRepayment(a, amount)
    PROVE  TypeOK'
<1>. DEFINE interest == InterestPart(a, amount)
<1>. DEFINE principal == amount - interest
<1>. DEFINE cut == InsuranceCut(interest)
<1>1. amount <= Debt(a)
  BY DEF ReceiveRepayment
<1>2. /\ interest \in Nat /\ interest <= amount /\ interest <= AccruedNow(a)
      /\ principal \in Nat /\ principal <= drawn[a]
  BY <1>1, RepaymentSplit
<1>3. /\ TranchePaid(interest) \in [Tranches -> Nat]
      /\ cut \in Nat
      /\ cut <= interest
  BY <1>2, InterestSplit
<1>4. AccruedNow(a) \in Nat
  BY AccruedType
<1>5. /\ accrued' = [accrued EXCEPT ![a] = AccruedNow(a) - interest]
      /\ drawn' = [drawn EXCEPT ![a] = @ - principal]
      /\ lastAccrual' = [lastAccrual EXCEPT ![a] = now]
      /\ active' = [active EXCEPT ![a] = ~ CreditCleared(a, amount)]
      /\ totalDeposits' = totalDeposits + (interest - cut)
      /\ insuranceBalance' = insuranceBalance + cut
      /\ totalDeployed' = SatSub(totalDeployed, principal)
      /\ trancheDeposits' = [t \in Tranches |->
                                trancheDeposits[t] + TranchePaid(interest)[t]]
      /\ lastYield' = now
      /\ vaultToken' = vaultToken + amount - cut
      /\ insuranceToken' = insuranceToken + cut
      /\ UNCHANGED <<totalShares, config, positions, rate, now>>
  BY DEF ReceiveRepayment, NetPoolInterest
<1>6. CreditCleared(a, amount) \in BOOLEAN
  BY DEF CreditCleared
<1>. HIDE DEF interest, principal, cut
<1>7. /\ accrued' \in [Agents -> Nat]
      /\ drawn' \in [Agents -> Nat]
      /\ lastAccrual' \in [Agents -> 0 .. now']
      /\ active' \in [Agents -> BOOLEAN]
  BY <1>2, <1>4, <1>5, <1>6 DEF TypeOK
<1>8. /\ totalDeposits' \in Nat
      /\ insuranceBalance' \in Nat
      /\ totalDeployed' \in Nat
      /\ trancheDeposits' \in [Tranches -> Nat]
      /\ lastYield' \in 0 .. now'
      /\ vaultToken' \in Nat
      /\ insuranceToken' \in Nat
  BY <1>2, <1>3, <1>5 DEF TypeOK, SatSub
<1>. QED BY <1>5, <1>7, <1>8 DEF TypeOK, config, positions

LEMMA WriteOffTypeOK ==
    ASSUME TypeOK, NEW a \in Agents, WriteOffBadDebt(a)
    PROVE  TypeOK'
<1>. DEFINE loss == Debt(a)
<1>. DEFINE absorbed == TrancheAbsorbed(loss)
<1>1. loss \in Nat /\ drawn[a] \in Nat
  BY AccruedType
<1>2. /\ InsuranceAbsorbed(loss) \in Nat
      /\ InsuranceAbsorbed(loss) <= insuranceBalance
      /\ absorbed \in [Tranches -> Nat]
      /\ \A t \in Tranches : absorbed[t] <= trancheDeposits[t]
  BY <1>1, LossSplit
<1>3. /\ active' = [active EXCEPT ![a] = FALSE]
      /\ drawn' = [drawn EXCEPT ![a] = 0]
      /\ accrued' = [accrued EXCEPT ![a] = 0]
      /\ lastAccrual' = [lastAccrual EXCEPT ![a] = now]
      /\ totalDeployed' = SatSub(totalDeployed, drawn[a])
      /\ insuranceBalance' = insuranceBalance - InsuranceAbsorbed(loss)
      /\ trancheDeposits' = [t \in Tranches |-> trancheDeposits[t] - absorbed[t]]
      /\ totalDeposits' = SatSub(SatSub(SatSub(totalDeposits, absorbed[Junior]),
                                        absorbed[Mezzanine]), absorbed[Senior])
      /\ UNCHANGED <<totalShares, lastYield, config, positions, rate, tokens, now>>
  BY DEF WriteOffBadDebt
<1>. HIDE DEF loss, absorbed
<1>4. /\ absorbed[Junior] \in Nat
      /\ absorbed[Mezzanine] \in Nat
      /\ absorbed[Senior] \in Nat
  BY <1>2 DEF Tranches
<1>5. totalDeposits' \in Nat
  BY <1>3, <1>4 DEF TypeOK, SatSub
<1>6. /\ totalDeployed' \in Nat
      /\ insuranceBalance' \in Nat
      /\ trancheDeposits' \in [Tranches -> Nat]
  BY <1>1, <1>2, <1>3 DEF TypeOK, SatSub
<1>7. /\ active' \in [Agents -> BOOLEAN]
      /\ drawn' \in [Agents -> Nat]
      /\ accrued' \in [Agents -> Nat]
      /\ lastAccrual' \in [Agents -> 0 .. now']
  BY <1>3 DEF TypeOK
<1>. QED BY <1>3, <1>5, <1>6, <1>7 DEF TypeOK, config, positions, tokens

LEMMA StepTypeOK == TypeOK /\ [AnyNext]_vars => TypeOK'
<1>. SUFFICES ASSUME TypeOK, [AnyNext]_vars PROVE TypeOK'
  OBVIOUS
<1>1. ASSUME NEW d \in Depositors, NEW amount \in Nat, NEW t \in Tranches,
             DepositLiquidity(d, amount, t)
      PROVE  TypeOK'
  <2>1. amount \in Nat /\ t \in Tranches
    BY InputsAssumption
  <2>2. PoolIn(amount, t)
    BY <1>1 DEF DepositLiquidity
  <2>3. /\ totalDeposits' \in Nat
        /\ totalShares' \in Nat
        /\ totalDeployed' \in Nat
        /\ insuranceBalance' \in Nat
        /\ trancheDeposits' \in [Tranches -> Nat]
        /\ vaultToken' \in Nat
        /\ CalculateShares(amount) \in Nat
    BY <2>1, <2>2, PoolInTypeOK
  <2>4. UNCHANGED <<lastYield, config, lines, insuranceToken, now>>
    BY <2>2 DEF PoolIn
  <2>5. /\ lpShares' \in [Depositors -> Nat]
        /\ lpTranche' \in [Depositors -> Tranches \cup {NoTranche}]
        /\ lpTime' \in [Depositors -> Nat]
        /\ collateralShares' \in [Agents -> Nat]
    BY <1>1, <2>1, <2>3 DEF DepositLiquidity, TypeOK
  <2>. QED BY <2>3, <2>4, <2>5 DEF TypeOK, config, lines
<1>2. ASSUME NEW a \in Agents, NEW amount \in Nat, DepositCollateral(a, amount)
      PROVE  TypeOK'
  <2>1. amount \in Nat /\ Senior \in Tranches
    BY InputsAssumption DEF Tranches
  <2>2. PoolIn(amount, Senior)
    BY <1>2 DEF DepositCollateral
  <2>3. /\ totalDeposits' \in Nat
        /\ totalShares' \in Nat
        /\ totalDeployed' \in Nat
        /\ insuranceBalance' \in Nat
        /\ trancheDeposits' \in [Tranches -> Nat]
        /\ vaultToken' \in Nat
        /\ CalculateShares(amount) \in Nat
    BY <2>1, <2>2, PoolInTypeOK
  <2>4. UNCHANGED <<lastYield, config, lines, insuranceToken, now>>
    BY <2>2 DEF PoolIn
  <2>5. /\ collateralShares' \in [Agents -> Nat]
        /\ UNCHANGED <<lpShares, lpTranche, lpTime>>
    BY <1>2, <2>3 DEF DepositCollateral, TypeOK
  <2>. QED BY <2>3, <2>4, <2>5 DEF TypeOK, config, lines
<1>3. ASSUME NEW d \in Depositors, NEW shares \in Nat,
             WithdrawLiquidity(d, shares)
      PROVE  TypeOK'
  <2>1. shares \in Nat /\ lpTranche[d] \in Tranches /\ shares <= lpShares[d]
    BY <1>3, InputsAssumption DEF TypeOK, WithdrawLiquidity
  <2>2. PoolOut(shares, lpTranche[d])
    BY <1>3 DEF WithdrawLiquidity
  <2>3. /\ totalDeposits' \in Nat
        /\ totalShares' \in Nat
        /\ totalDeployed' \in Nat
        /\ insuranceBalance' \in Nat
        /\ trancheDeposits' \in [Tranches -> Nat]
        /\ vaultToken' \in Nat
    BY <2>1, <2>2, PoolOutTypeOK
  <2>4. UNCHANGED <<lastYield, config, lines, insuranceToken, now>>
    BY <2>2 DEF PoolOut
  <2>5. /\ lpShares' \in [Depositors -> Nat]
        /\ UNCHANGED <<lpTranche, lpTime, collateralShares>>
    BY <1>3, <2>1 DEF WithdrawLiquidity, TypeOK
  <2>. QED BY <2>3, <2>4, <2>5 DEF TypeOK, config, lines
<1>4. ASSUME NEW a \in Agents, NEW shares \in Nat,
             WithdrawCollateral(a, shares)
      PROVE  TypeOK'
  <2>1. shares \in Nat /\ Senior \in Tranches /\ shares <= collateralShares[a]
    BY <1>4, InputsAssumption DEF TypeOK, WithdrawCollateral, Tranches
  <2>2. PoolOut(shares, Senior)
    BY <1>4 DEF WithdrawCollateral
  <2>3. /\ totalDeposits' \in Nat
        /\ totalShares' \in Nat
        /\ totalDeployed' \in Nat
        /\ insuranceBalance' \in Nat
        /\ trancheDeposits' \in [Tranches -> Nat]
        /\ vaultToken' \in Nat
    BY <2>1, <2>2, PoolOutTypeOK
  <2>4. UNCHANGED <<lastYield, config, lines, insuranceToken, now>>
    BY <2>2 DEF PoolOut
  <2>5. /\ collateralShares' \in [Agents -> Nat]
        /\ UNCHANGED <<lpShares, lpTranche, lpTime>>
    BY <1>4, <2>1 DEF WithdrawCollateral, TypeOK
  <2>. QED BY <2>3, <2>4, <2>5 DEF TypeOK, config, lines
<1>5. ASSUME NEW a \in Agents, NEW amount \in Nat, NEW r \in Nat,
             NEW level \in Levels, NEW v \in Nat,
             ExtendCredit(a, amount, r, level, v)
      PROVE  TypeOK'
  <2>1. amount \in Nat /\ r \in Nat
    BY InputsAssumption
  <2>. QED BY <1>5, <2>1 DEF ExtendCredit, TypeOK, config, positions
<1>6. ASSUME NEW a \in Agents, NEW amount \in Nat,
             ReceiveRepayment(a, amount)
      PROVE  TypeOK'
  <2>1. amount \in Nat
    BY InputsAssumption, AccruedType
  <2>. QED BY <1>6, <2>1, RepaymentTypeOK
<1>7. ASSUME NEW a \in Agents, AccrueInterest(a) PROVE TypeOK'
  <2>1. AccruedNow(a) \in Nat
    BY AccruedType
  <2>. QED BY <1>7, <2>1 DEF AccrueInterest, TypeOK, pool, config, positions, tokens
<1>8. ASSUME NEW a \in Agents, WriteOffBadDebt(a) PROVE TypeOK'
  BY <1>8, WriteOffTypeOK
<1>9. ASSUME NEW p \in BOOLEAN, SetPaused(p) PROVE TypeOK'
  BY <1>9, InputsAssumption DEF SetPaused, TypeOK, pool, positions, lines, tokens
<1>10. ASSUME NEW cap \in Nat, NEW lock \in Nat, UpdateConfig(cap, lock)
       PROVE  TypeOK'
  BY <1>10, InputsAssumption DEF UpdateConfig, TypeOK, pool, positions, lines, tokens
<1>11. CASE Tick
  BY <1>11 DEF Tick, TypeOK, pool, config, positions, lines, tokens
<1>12. CASE UNCHANGED vars
  BY <1>12 DEF vars, TypeOK, pool, config, positions, lines, tokens
<1>. QED
  BY <1>1, <1>2, <1>3, <1>4, <1>5, <1>6, <1>7, <1>8, <1>9, <1>10, <1>11, <1>12
     DEF AnyNext, AnyLineStep, AnyPositionStep, AnyAdminStep

(* Every reachable state is well typed, whatever the numbers of LPs and agents, *)
(* the amounts and the rates: no subtraction of the program underflows.         *)
THEOREM TypeCorrect == Spec => []TypeOK
<1>1. TypeOK /\ [Next]_vars => TypeOK'
  BY NextIsAny, StepTypeOK
<1>. QED BY <1>1, InitTypeOK, PTL DEF Spec

-----------------------------------------------------------------------------
(* total_deployed is the outstanding principal *)

LEMMA DrawnUpdate ==
    ASSUME TypeOK, DeployedIsOutstanding, NEW a \in Agents, NEW v \in Nat,
           drawn' = [drawn EXCEPT ![a] = v]
    PROVE  /\ drawn[a] \in Nat
           /\ drawn[a] <= totalDeployed
           /\ totalDeployed \in Nat
           /\ Total(drawn', NAgents) = totalDeployed - drawn[a] + v
<1>1. NAgents \in Nat /\ drawn \in [1 .. NAgents -> Nat] /\ a \in 1 .. NAgents
  BY CountsAssumption DEF TypeOK, Agents
<1>2. Total(drawn', NAgents) = Total(drawn, NAgents) - drawn[a] + v
  BY <1>1, TotalUpdate
<1>3. drawn[a] <= Total(drawn, NAgents)
  BY <1>1, TermLeqTotal
<1>. QED BY <1>1, <1>2, <1>3 DEF TypeOK, DeployedIsOutstanding

LEMMA InitDeployed == Init => DeployedIsOutstanding
  BY CountsAssumption, TotalZero DEF Init, DeployedIsOutstanding, Agents

LEMMA StepDeployed ==
    TypeOK /\ DeployedIsOutstanding /\ LineActiveIffIndebted /\ [AnyNext]_vars
      => DeployedIsOutstanding'
<1>. SUFFICES ASSUME TypeOK, DeployedIsOutstanding, LineActiveIffIndebted, [AnyNext]_vars
              PROVE  DeployedIsOutstanding'
  OBVIOUS
<1>1. ASSUME UNCHANGED <<totalDeployed, drawn>> PROVE DeployedIsOutstanding'
  BY <1>1 DEF DeployedIsOutstanding
<1>2. CASE AnyPositionStep
  BY <1>1, <1>2 DEF AnyPositionStep, DepositLiquidity, DepositCollateral,
                    WithdrawLiquidity, WithdrawCollateral, PoolIn, PoolOut, lines
<1>3. CASE AnyAdminStep \/ Tick
  BY <1>1, <1>3 DEF AnyAdminStep, SetPaused, UpdateConfig, Tick, pool, lines
<1>4. ASSUME NEW a \in Agents, NEW amount \in Nat, NEW r \in Nat,
             NEW level \in Levels, NEW v \in Nat,
             ExtendCredit(a, amount, r, level, v)
      PROVE  DeployedIsOutstanding'
  <2>1. amount \in Nat
    BY InputsAssumption
  <2>2. drawn[a] = 0
    BY <1>4 DEF ExtendCredit, LineFree, LineActiveIffIndebted, TypeOK
  <2>3. /\ drawn' = [drawn EXCEPT ![a] = amount]
        /\ totalDeployed' = totalDeployed + amount
    BY <1>4 DEF ExtendCredit
  <2>4. Total(drawn', NAgents) = totalDeployed - drawn[a] + amount /\ totalDeployed \in Nat
    BY <2>1, <2>3, DrawnUpdate
  <2>. QED BY <2>1, <2>2, <2>3, <2>4 DEF DeployedIsOutstanding
<1>5. ASSUME NEW a \in Agents, NEW amount \in Nat,
             ReceiveRepayment(a, amount)
      PROVE  DeployedIsOutstanding'
  <2>. DEFINE principal == amount - InterestPart(a, amount)
  <2>1. amount \in Nat /\ amount <= Debt(a)
    BY <1>5, InputsAssumption, AccruedType DEF ReceiveRepayment
  <2>2. principal \in Nat /\ principal <= drawn[a] /\ drawn[a] \in Nat
    BY <2>1, RepaymentSplit, AccruedType
  <2>3. /\ drawn' = [drawn EXCEPT ![a] = drawn[a] - principal]
        /\ totalDeployed' = SatSub(totalDeployed, principal)
    BY <1>5 DEF ReceiveRepayment
  <2>. HIDE DEF principal
  <2>4. drawn[a] - principal \in Nat
    BY <2>2
  <2>5. /\ Total(drawn', NAgents) = totalDeployed - drawn[a] + (drawn[a] - principal)
        /\ totalDeployed \in Nat
        /\ drawn[a] <= totalDeployed
    BY <2>3, <2>4, DrawnUpdate
  <2>. QED BY <2>2, <2>3, <2>5 DEF DeployedIsOutstanding, SatSub
<1>6. ASSUME NEW a \in Agents, AccrueInterest(a) PROVE DeployedIsOutstanding'
  BY <1>1, <1>6 DEF AccrueInterest, pool
<1>7. ASSUME NEW a \in Agents, WriteOffBadDebt(a) PROVE DeployedIsOutstanding'
  <2>1. /\ drawn' = [drawn EXCEPT ![a] = 0]
        /\ totalDeployed' = SatSub(totalDeployed, drawn[a])
    BY <1>7 DEF WriteOffBadDebt
  <2>2. /\ Total(drawn', NAgents) = totalDeployed - drawn[a] + 0
        /\ totalDeployed \in Nat /\ drawn[a] \in Nat
        /\ drawn[a] <= totalDeployed
    BY <2>1, DrawnUpdate
  <2>. QED BY <2>1, <2>2 DEF DeployedIsOutstanding, SatSub
<1>8. CASE UNCHANGED vars
  BY <1>1, <1>8 DEF vars, pool, lines
<1>. QED BY <1>2, <1>3, <1>4, <1>5, <1>6, <1>7, <1>8 DEF AnyNext, AnyLineStep

-----------------------------------------------------------------------------
(* A line is active exactly while principal is owed *)

LEMMA InitLines == Init => LineActiveIffIndebted
  BY DEF Init, LineActiveIffIndebted

LEMMA StepLines ==
    TypeOK /\ LineActiveIffIndebted /\ [AnyNext]_vars => LineActiveIffIndebted'
<1>. SUFFICES ASSUME TypeOK, LineActiveIffIndebted, [AnyNext]_vars
              PROVE  LineActiveIffIndebted'
  OBVIOUS
<1>1. ASSUME UNCHANGED lines PROVE LineActiveIffIndebted'
  BY <1>1 DEF LineActiveIffIndebted, lines
<1>2. CASE AnyPositionStep
  BY <1>1, <1>2 DEF AnyPositionStep, DepositLiquidity, DepositCollateral,
                    WithdrawLiquidity, WithdrawCollateral, PoolIn, PoolOut
<1>3. CASE AnyAdminStep \/ Tick
  BY <1>1, <1>3 DEF AnyAdminStep, SetPaused, UpdateConfig, Tick
<1>4. ASSUME NEW a \in Agents, NEW amount \in Nat, NEW r \in Nat,
             NEW level \in Levels, NEW v \in Nat,
             ExtendCredit(a, amount, r, level, v)
      PROVE  LineActiveIffIndebted'
  <2>1. amount \in Nat /\ amount > 0
    BY <1>4, InputsAssumption DEF ExtendCredit
  <2>. QED BY <1>4, <2>1 DEF ExtendCredit, LineActiveIffIndebted, TypeOK
<1>5. ASSUME NEW a \in Agents, NEW amount \in Nat,
             ReceiveRepayment(a, amount)
      PROVE  LineActiveIffIndebted'
  <2>. DEFINE interest == InterestPart(a, amount)
  <2>1. amount \in Nat /\ amount <= Debt(a)
    BY <1>5, InputsAssumption, AccruedType DEF ReceiveRepayment
  <2>2. /\ AccruedNow(a) \in Nat
        /\ drawn[a] \in Nat
        /\ active[a]
        /\ drawn[a] > 0
    BY <1>5, AccruedType DEF ReceiveRepayment, LineActiveIffIndebted
  <2>3. /\ interest = Lesser(amount, AccruedNow(a))
        /\ CreditCleared(a, amount) <=>
             drawn[a] - (amount - interest) = 0 /\ AccruedNow(a) - interest = 0
    BY DEF CreditCleared, InterestPart
  <2>4. /\ accrued' = [accrued EXCEPT ![a] = AccruedNow(a) - interest]
        /\ drawn' = [drawn EXCEPT ![a] = @ - (amount - interest)]
        /\ active' = [active EXCEPT ![a] = ~ CreditCleared(a, amount)]
    BY <1>5 DEF ReceiveRepayment
  <2>. HIDE DEF interest
  <2>5. \/ interest = AccruedNow(a) /\ interest <= amount
        \/ interest = amount /\ amount < AccruedNow(a)
    BY <2>1, <2>2, <2>3 DEF Lesser
  <2>6. Debt(a) = drawn[a] + AccruedNow(a)
    BY AccruedType
  <2>7. /\ ~ CreditCleared(a, amount) <=> drawn[a] - (amount - interest) > 0
        /\ CreditCleared(a, amount) => AccruedNow(a) - interest = 0
    BY <2>1, <2>2, <2>3, <2>5, <2>6
  <2>8. /\ active'[a] <=> drawn'[a] > 0
        /\ ~ active'[a] => accrued'[a] = 0
    BY <2>4, <2>7 DEF TypeOK
  <2>9. \A b \in Agents : b # a => /\ active'[b] = active[b]
                                   /\ drawn'[b] = drawn[b]
                                   /\ accrued'[b] = accrued[b]
    BY <2>4 DEF TypeOK
  <2>. QED BY <2>8, <2>9 DEF LineActiveIffIndebted
<1>6. ASSUME NEW a \in Agents, AccrueInterest(a) PROVE LineActiveIffIndebted'
  BY <1>6 DEF AccrueInterest, LineActiveIffIndebted, TypeOK
<1>7. ASSUME NEW a \in Agents, WriteOffBadDebt(a) PROVE LineActiveIffIndebted'
  BY <1>7 DEF WriteOffBadDebt, LineActiveIffIndebted, TypeOK
<1>8. CASE UNCHANGED vars
  BY <1>1, <1>8 DEF vars
<1>. QED BY <1>2, <1>3, <1>4, <1>5, <1>6, <1>7, <1>8 DEF AnyNext, AnyLineStep

(* A line is active exactly while principal is owed, so collateral is locked by *)
(* debt and by nothing else.                                                    *)
THEOREM LinesConsistent == Spec => []LineActiveIffIndebted
<1>1. Init => TypeOK /\ LineActiveIffIndebted
  BY InitTypeOK, InitLines
<1>2. TypeOK /\ LineActiveIffIndebted /\ [Next]_vars => (TypeOK /\ LineActiveIffIndebted)'
  BY NextIsAny, StepTypeOK, StepLines
<1>. QED BY <1>1, <1>2, PTL DEF Spec

(* total_deployed is always the sum of the principal of all credit lines.       *)
THEOREM DeployedCorrect == Spec => []DeployedIsOutstanding
<1>1. Init => TypeOK /\ LineActiveIffIndebted /\ DeployedIsOutstanding
  BY InitTypeOK, InitLines, InitDeployed
<1>2. TypeOK /\ LineActiveIffIndebted /\ DeployedIsOutstanding /\ [Next]_vars
        => (TypeOK /\ LineActiveIffIndebted /\ DeployedIsOutstanding)'
  BY NextIsAny, StepTypeOK, StepLines, StepDeployed
<1>. QED BY <1>1, <1>2, PTL DEF Spec

-----------------------------------------------------------------------------
(* total_shares is the shares of all positions *)

LEMMA PositionTypes ==
    ASSUME TypeOK
    PROVE  /\ NDepositors \in Nat
           /\ NAgents \in Nat
           /\ lpShares \in [1 .. NDepositors -> Nat]
           /\ collateralShares \in [1 .. NAgents -> Nat]
           /\ Total(lpShares, NDepositors) \in Nat
           /\ Total(collateralShares, NAgents) \in Nat
<1>1. /\ NDepositors \in Nat /\ lpShares \in [1 .. NDepositors -> Nat]
      /\ NAgents \in Nat /\ collateralShares \in [1 .. NAgents -> Nat]
  BY CountsAssumption DEF TypeOK, Depositors, Agents
<1>. QED BY <1>1, TotalNat

(* No position holds more than all shares together. *)
LEMMA HeldLeqTotal ==
    ASSUME TypeOK, SharesMatchPositions
    PROVE  /\ \A d \in Depositors : lpShares[d] <= totalShares
           /\ \A a \in Agents : collateralShares[a] <= totalShares
<1>1. ASSUME NEW d \in Depositors PROVE lpShares[d] <= Total(lpShares, NDepositors)
  BY PositionTypes, TermLeqTotal DEF Depositors
<1>2. ASSUME NEW a \in Agents PROVE collateralShares[a] <= Total(collateralShares, NAgents)
  BY PositionTypes, TermLeqTotal DEF Agents
<1>. QED BY <1>1, <1>2, PositionTypes DEF SharesMatchPositions, TypeOK

LEMMA LpSharesUpdate ==
    ASSUME TypeOK, NEW d \in Depositors, NEW v \in Nat,
           lpShares' = [lpShares EXCEPT ![d] = v]
    PROVE  Total(lpShares', NDepositors) = Total(lpShares, NDepositors) - lpShares[d] + v
  BY PositionTypes, TotalUpdate DEF Depositors

LEMMA CollateralUpdate ==
    ASSUME TypeOK, NEW a \in Agents, NEW v \in Nat,
           collateralShares' = [collateralShares EXCEPT ![a] = v]
    PROVE  Total(collateralShares', NAgents)
             = Total(collateralShares, NAgents) - collateralShares[a] + v
  BY PositionTypes, TotalUpdate DEF Agents

LEMMA InitShares == Init => SharesMatchPositions
  BY CountsAssumption, TotalZero DEF Init, SharesMatchPositions, Depositors, Agents

LEMMA StepShares == TypeOK /\ SharesMatchPositions /\ [AnyNext]_vars => SharesMatchPositions'
<1>. SUFFICES ASSUME TypeOK, SharesMatchPositions, [AnyNext]_vars
              PROVE  SharesMatchPositions'
  OBVIOUS
<1>. DEFINE lps == Total(lpShares, NDepositors)
<1>. DEFINE coll == Total(collateralShares, NAgents)
<1>0. totalShares = lps + coll /\ lps \in Nat /\ coll \in Nat
  BY PositionTypes DEF SharesMatchPositions
<1>1. ASSUME UNCHANGED <<totalShares, lpShares, collateralShares>>
      PROVE  SharesMatchPositions'
  BY <1>1 DEF SharesMatchPositions
<1>2. ASSUME NEW d \in Depositors, NEW amount \in Nat, NEW t \in Tranches,
             DepositLiquidity(d, amount, t)
      PROVE  SharesMatchPositions'
  <2>. DEFINE minted == CalculateShares(amount)
  <2>1. minted \in Nat /\ lpShares[d] \in Nat
    BY SharesType, InputsAssumption DEF TypeOK
  <2>2. /\ lpShares' = [lpShares EXCEPT ![d] = lpShares[d] + minted]
        /\ totalShares' = totalShares + minted
        /\ collateralShares' = collateralShares
    BY <1>2 DEF DepositLiquidity, PoolIn
  <2>. HIDE DEF minted
  <2>3. lpShares[d] + minted \in Nat
    BY <2>1
  <2>4. Total(lpShares', NDepositors) = lps - lpShares[d] + (lpShares[d] + minted)
    BY <2>2, <2>3, LpSharesUpdate
  <2>. HIDE DEF lps
  <2>. QED BY <1>0, <2>1, <2>2, <2>4 DEF SharesMatchPositions
<1>3. ASSUME NEW a \in Agents, NEW amount \in Nat, DepositCollateral(a, amount)
      PROVE  SharesMatchPositions'
  <2>. DEFINE minted == CalculateShares(amount)
  <2>1. minted \in Nat /\ collateralShares[a] \in Nat
    BY SharesType, InputsAssumption DEF TypeOK
  <2>2. /\ collateralShares' = [collateralShares EXCEPT ![a] = collateralShares[a] + minted]
        /\ totalShares' = totalShares + minted
        /\ lpShares' = lpShares
    BY <1>3 DEF DepositCollateral, PoolIn
  <2>. HIDE DEF minted
  <2>3. collateralShares[a] + minted \in Nat
    BY <2>1
  <2>4. Total(collateralShares', NAgents)
          = coll - collateralShares[a] + (collateralShares[a] + minted)
    BY <2>2, <2>3, CollateralUpdate
  <2>. HIDE DEF coll
  <2>. QED BY <1>0, <2>1, <2>2, <2>4 DEF SharesMatchPositions
<1>4. ASSUME NEW d \in Depositors, NEW shares \in Nat,
             WithdrawLiquidity(d, shares)
      PROVE  SharesMatchPositions'
  <2>1. /\ shares \in Nat /\ lpShares[d] \in Nat
        /\ shares <= lpShares[d]
        /\ lpShares[d] <= totalShares
    BY <1>4, InputsAssumption, HeldLeqTotal DEF WithdrawLiquidity, TypeOK
  <2>2. /\ lpShares' = [lpShares EXCEPT ![d] = lpShares[d] - shares]
        /\ totalShares' = SatSub(totalShares, shares)
        /\ collateralShares' = collateralShares
    BY <1>4 DEF WithdrawLiquidity, PoolOut
  <2>3. lpShares[d] - shares \in Nat
    BY <2>1
  <2>4. Total(lpShares', NDepositors) = lps - lpShares[d] + (lpShares[d] - shares)
    BY <2>2, <2>3, LpSharesUpdate
  <2>. HIDE DEF lps
  <2>. QED BY <1>0, <2>1, <2>2, <2>4 DEF SharesMatchPositions, SatSub
<1>5. ASSUME NEW a \in Agents, NEW shares \in Nat,
             WithdrawCollateral(a, shares)
      PROVE  SharesMatchPositions'
  <2>1. /\ shares \in Nat /\ collateralShares[a] \in Nat
        /\ shares <= collateralShares[a]
        /\ collateralShares[a] <= totalShares
    BY <1>5, InputsAssumption, HeldLeqTotal DEF WithdrawCollateral, TypeOK
  <2>2. /\ collateralShares' = [collateralShares EXCEPT ![a] = collateralShares[a] - shares]
        /\ totalShares' = SatSub(totalShares, shares)
        /\ lpShares' = lpShares
    BY <1>5 DEF WithdrawCollateral, PoolOut
  <2>3. collateralShares[a] - shares \in Nat
    BY <2>1
  <2>4. Total(collateralShares', NAgents)
          = coll - collateralShares[a] + (collateralShares[a] - shares)
    BY <2>2, <2>3, CollateralUpdate
  <2>. HIDE DEF coll
  <2>. QED BY <1>0, <2>1, <2>2, <2>4 DEF SharesMatchPositions, SatSub
<1>6. ASSUME NEW a \in Agents, AnyLineStep(a) PROVE SharesMatchPositions'
  BY <1>1, <1>6 DEF AnyLineStep, ExtendCredit, ReceiveRepayment, AccrueInterest,
                    WriteOffBadDebt, pool, positions
<1>7. CASE AnyAdminStep \/ Tick
  BY <1>1, <1>7 DEF AnyAdminStep, SetPaused, UpdateConfig, Tick, pool, positions
<1>8. CASE UNCHANGED vars
  BY <1>1, <1>8 DEF vars, pool, positions
<1>. QED BY <1>2, <1>3, <1>4, <1>5, <1>6, <1>7, <1>8 DEF AnyNext, AnyPositionStep

(* total_shares is always the sum of the shares of all LP and collateral        *)
(* positions.                                                                   *)
THEOREM SharesCorrect == Spec => []SharesMatchPositions
<1>1. Init => TypeOK /\ SharesMatchPositions
  BY InitTypeOK, InitShares
<1>2. TypeOK /\ SharesMatchPositions /\ [Next]_vars => (TypeOK /\ SharesMatchPositions)'
  BY NextIsAny, StepTypeOK, StepShares
<1>. QED BY <1>1, <1>2, PTL DEF Spec

-----------------------------------------------------------------------------
(* The books follow the cash, and the share price never falls but by a          *)
(* write-off.  Both are action properties that need the three invariants.       *)

LedgerInv == TypeOK /\ LineActiveIffIndebted /\ DeployedIsOutstanding /\ SharesMatchPositions

LEMMA LedgerInvariant == Spec => []LedgerInv
<1>1. Init => LedgerInv
  BY InitTypeOK, InitLines, InitDeployed, InitShares DEF LedgerInv
<1>2. LedgerInv /\ [Next]_vars => LedgerInv'
  BY NextIsAny, StepTypeOK, StepLines, StepDeployed, StepShares DEF LedgerInv
<1>. QED BY <1>1, <1>2, PTL DEF Spec

(* The totals of principal and of shares and the flags of the lines always      *)
(* agree with the accounts they summarise.                                      *)
THEOREM LedgersAlwaysAgree == Spec => []LedgersAgree
<1>1. LedgerInv => LedgersAgree
  BY DEF LedgerInv, LedgersAgree
<1>. QED BY <1>1, LedgerInvariant, PTL

(* What a withdrawal pays is idle in the books.                                 *)
LEMMA PaidIsIdle ==
    ASSUME TypeOK, NEW shares \in Nat, NEW t \in Tranches, PoolOut(shares, t)
    PROVE  /\ SharesToAmount(shares) \in Nat
           /\ SharesToAmount(shares) <= totalDeposits
           /\ totalDeposits' = totalDeposits - SharesToAmount(shares)
<1>1. SharesToAmount(shares) \in Nat
  BY SharesType
<1>2. /\ SharesToAmount(shares) <= AvailableLiquidity
      /\ totalDeposits' = SatSub(totalDeposits, SharesToAmount(shares))
  BY DEF PoolOut
<1>3. AvailableLiquidity <= totalDeposits
  BY DEF AvailableLiquidity, SatSub, TypeOK
<1>. QED BY <1>1, <1>2, <1>3 DEF SatSub, TypeOK, AvailableLiquidity

LEMMA StepCash == LedgerInv /\ [AnyNext]_vars => AWriteOff \/ CashGap' = CashGap
<1>. SUFFICES ASSUME LedgerInv, [AnyNext]_vars, ~ AWriteOff PROVE CashGap' = CashGap
  OBVIOUS
<1>0. TypeOK /\ DeployedIsOutstanding
  BY DEF LedgerInv
<1>1. ASSUME UNCHANGED <<vaultToken, totalDeposits, totalDeployed>>
      PROVE  CashGap' = CashGap
  BY <1>1 DEF CashGap
<1>2. ASSUME NEW amount \in Nat, NEW t \in Tranches, PoolIn(amount, t)
      PROVE  CashGap' = CashGap
  BY <1>0, <1>2, InputsAssumption DEF PoolIn, CashGap, TypeOK
<1>3. ASSUME NEW shares \in Nat, NEW t \in Tranches, PoolOut(shares, t)
      PROVE  CashGap' = CashGap
  <2>1. /\ SharesToAmount(shares) \in Nat
        /\ totalDeposits' = totalDeposits - SharesToAmount(shares)
    BY <1>0, <1>3, PaidIsIdle
  <2>2. vaultToken' = vaultToken - SharesToAmount(shares) /\ totalDeployed' = totalDeployed
    BY <1>3 DEF PoolOut
  <2>. QED BY <1>0, <2>1, <2>2 DEF CashGap, TypeOK
<1>4. CASE AnyPositionStep
  <2>1. Senior \in Tranches /\ LpTranches \subseteq Tranches
    BY InputsAssumption DEF Tranches
  <2>2. ASSUME NEW d \in Depositors, NEW shares \in Nat,
               WithdrawLiquidity(d, shares)
        PROVE  CashGap' = CashGap
    <3>1. shares \in Nat /\ lpTranche[d] \in Tranches
      BY <1>0, <2>2, InputsAssumption DEF WithdrawLiquidity, TypeOK
    <3>. QED BY <1>3, <2>2, <3>1 DEF WithdrawLiquidity
  <2>3. ASSUME NEW a \in Agents, NEW shares \in Nat,
               WithdrawCollateral(a, shares)
        PROVE  CashGap' = CashGap
    <3>1. shares \in Nat
      BY <1>0, InputsAssumption DEF TypeOK
    <3>. QED BY <1>3, <2>1, <2>3, <3>1 DEF WithdrawCollateral
  <2>. QED BY <1>2, <1>4, <2>1, <2>2, <2>3
           DEF AnyPositionStep, DepositLiquidity, DepositCollateral
<1>5. ASSUME NEW a \in Agents, NEW amount \in Nat, NEW r \in Nat,
             NEW level \in Levels, NEW v \in Nat,
             ExtendCredit(a, amount, r, level, v)
      PROVE  CashGap' = CashGap
  BY <1>0, <1>5, InputsAssumption DEF ExtendCredit, CashGap, TypeOK
<1>6. ASSUME NEW a \in Agents, NEW amount \in Nat,
             ReceiveRepayment(a, amount)
      PROVE  CashGap' = CashGap
  <2>. DEFINE interest == InterestPart(a, amount)
  <2>. DEFINE cut == InsuranceCut(interest)
  <2>1. amount \in Nat /\ amount <= Debt(a)
    BY <1>0, <1>6, InputsAssumption, AccruedType DEF ReceiveRepayment
  <2>2. /\ interest \in Nat /\ amount - interest \in Nat
        /\ amount - interest <= drawn[a]
    BY <1>0, <2>1, RepaymentSplit
  <2>3. cut \in Nat
    BY <1>0, <2>2, InterestSplit
  <2>4. drawn[a] \in Nat /\ drawn[a] <= totalDeployed
    <3>1. NAgents \in Nat /\ drawn \in [1 .. NAgents -> Nat] /\ a \in 1 .. NAgents
      BY <1>0, CountsAssumption DEF TypeOK, Agents
    <3>. QED BY <1>0, <3>1, TermLeqTotal DEF DeployedIsOutstanding
  <2>5. /\ totalDeposits' = totalDeposits + (interest - cut)
        /\ totalDeployed' = SatSub(totalDeployed, amount - interest)
        /\ vaultToken' = vaultToken + amount - cut
    BY <1>6 DEF ReceiveRepayment, NetPoolInterest
  <2>. HIDE DEF interest, cut
  <2>6. totalDeployed' = totalDeployed - (amount - interest)
    BY <1>0, <2>2, <2>4, <2>5 DEF SatSub, TypeOK
  <2>. QED BY <1>0, <2>1, <2>2, <2>3, <2>5, <2>6 DEF CashGap, TypeOK
<1>7. ASSUME NEW a \in Agents, AccrueInterest(a) PROVE CashGap' = CashGap
  BY <1>1, <1>7 DEF AccrueInterest, pool, tokens
<1>8. CASE AnyAdminStep \/ Tick
  BY <1>1, <1>8 DEF AnyAdminStep, SetPaused, UpdateConfig, Tick, pool, tokens
<1>9. CASE UNCHANGED vars
  BY <1>1, <1>9 DEF vars, pool, tokens
<1>. QED BY <1>4, <1>5, <1>6, <1>7, <1>8, <1>9 DEF AnyNext, AnyLineStep, AWriteOff

(* Every instruction but write_off_bad_debt moves vault_usdc by exactly what it *)
(* books in total_deposits and total_deployed.                                  *)
THEOREM CashFollowsBooksAlways == Spec => CashFollowsBooks
<1>1. LedgerInv /\ [Next]_vars => [AWriteOff \/ CashGap' = CashGap]_vars
  BY NextIsAny, StepCash DEF LedgerInv
<1>. QED BY <1>1, LedgerInvariant, PTL DEF Spec, CashFollowsBooks

LEMMA StepNoGap ==
    LedgerInv /\ CashGap = 0 /\ [AnyNext]_vars /\ (~ AWriteOff \/ UNCHANGED vars)
      => CashGap' = 0
<1>. SUFFICES ASSUME LedgerInv, CashGap = 0, [AnyNext]_vars, ~ AWriteOff \/ UNCHANGED vars
              PROVE  CashGap' = 0
  OBVIOUS
<1>1. CASE UNCHANGED vars
  BY <1>1 DEF vars, pool, tokens, CashGap
<1>2. CASE ~ AWriteOff
  <2>1. CashGap' = CashGap \/ UNCHANGED vars
    BY <1>2, StepCash
  <2>. QED BY <1>1, <2>1
<1>. QED BY <1>1, <1>2

LEMMA NoGapAvailable == LedgerInv /\ CashGap = 0 => AvailableIsInVault
BY DEF LedgerInv, TypeOK, CashGap, AvailableIsInVault, AvailableLiquidity, SatSub

LEMMA LedgerStep == LedgerInv /\ [AnyNext]_vars => LedgerInv'
BY StepTypeOK, StepLines, StepDeployed, StepShares DEF LedgerInv

LEMMA NoGapInvariant ==
    Init /\ [][Next /\ ~ AWriteOff]_vars => [](LedgerInv /\ CashGap = 0)
<1>1. Init => LedgerInv /\ CashGap = 0
  <2>1. Init => LedgerInv
    BY InitTypeOK, InitLines, InitDeployed, InitShares DEF LedgerInv
  <2>. QED BY <2>1 DEF Init, CashGap
<1>2. LedgerInv /\ CashGap = 0 /\ [Next /\ ~ AWriteOff]_vars => (LedgerInv /\ CashGap = 0)'
  <2>. SUFFICES ASSUME LedgerInv, CashGap = 0, [Next /\ ~ AWriteOff]_vars
                PROVE  LedgerInv' /\ CashGap' = 0
    OBVIOUS
  <2>1. [AnyNext]_vars
    BY NextIsAny DEF LedgerInv
  <2>. QED BY <2>1, LedgerStep, StepNoGap
<1>. QED BY <1>1, <1>2, PTL

(* Until the first write-off vault_usdc holds what the books call idle: the     *)
(* gap shown by a run comes from write-offs alone, for any number of agents.    *)
THEOREM AvailableWithoutDefault ==
    Init /\ [][Next /\ ~ AWriteOff]_vars => []AvailableIsInVault
BY NoGapInvariant, NoGapAvailable, PTL

LEMMA StepPrice ==
    LedgerInv /\ [AnyNext]_vars =>
      \/ AWriteOff
      \/ totalShares = 0
      \/ totalDeposits' * totalShares >= totalDeposits * totalShares'
      \/ UNCHANGED vars
<1>. SUFFICES ASSUME LedgerInv, AnyNext, ~ AWriteOff, totalShares # 0
              PROVE  totalDeposits' * totalShares >= totalDeposits * totalShares'
  OBVIOUS
<1>0. /\ TypeOK /\ SharesMatchPositions
      /\ totalDeposits \in Nat
      /\ totalShares \in Nat \ {0}
      /\ totalDeposits * totalShares \in Nat
  BY MulNat DEF LedgerInv, TypeOK
<1>1. ASSUME UNCHANGED <<totalDeposits, totalShares>>
      PROVE  totalDeposits' * totalShares >= totalDeposits * totalShares'
  BY <1>0, <1>1
<1>2. ASSUME NEW amount \in Nat, NEW t \in Tranches, PoolIn(amount, t)
      PROVE  totalDeposits' * totalShares >= totalDeposits * totalShares'
  <2>. DEFINE minted == CalculateShares(amount)
  <2>1. amount \in Nat /\ minted \in Nat
    BY <1>0, InputsAssumption, SharesType
  <2>2. totalDeposits' = totalDeposits + amount /\ totalShares' = totalShares + minted
    BY <1>2 DEF PoolIn
  <2>3. CASE totalDeposits = 0
    <3>1. /\ totalDeposits' * totalShares = amount * totalShares
          /\ totalDeposits * totalShares' = 0
      BY <1>0, <2>1, <2>2, <2>3
    <3>. QED BY <1>0, <2>1, <3>1, MulNat
  <2>4. CASE totalDeposits # 0
    <3>1. totalDeposits \in Nat \ {0} /\ amount * totalShares \in Nat
      BY <1>0, <2>1, <2>4, MulNat
    <3>2. minted = (amount * totalShares) \div totalDeposits
      BY <1>0, <2>4 DEF CalculateShares, FirstDeposit, MulDiv
    <3>3. totalDeposits * minted <= amount * totalShares
      BY <3>1, <3>2, DivFloor
    <3>. HIDE DEF minted
    <3>4. /\ totalDeposits' * totalShares = totalDeposits * totalShares + amount * totalShares
          /\ totalDeposits * totalShares' = totalDeposits * totalShares + totalDeposits * minted
      BY <1>0, <2>1, <2>2
    <3>5. totalDeposits * minted \in Nat
      BY <1>0, <2>1, MulNat
    <3>. QED BY <1>0, <3>1, <3>3, <3>4, <3>5
  <2>. QED BY <2>3, <2>4
<1>3. ASSUME NEW shares \in Nat, NEW t \in Tranches, PoolOut(shares, t),
             shares <= totalShares
      PROVE  totalDeposits' * totalShares >= totalDeposits * totalShares'
  <2>. DEFINE paid == SharesToAmount(shares)
  <2>1. paid \in Nat /\ paid <= totalDeposits /\ totalDeposits' = totalDeposits - paid
    BY <1>0, <1>3, PaidIsIdle
  <2>2. totalShares' = totalShares - shares
    BY <1>0, <1>3 DEF PoolOut, SatSub
  <2>3. shares * totalDeposits \in Nat
    BY <1>0, MulNat
  <2>4. paid = (shares * totalDeposits) \div totalShares
    BY <1>0 DEF SharesToAmount, MulDiv
  <2>5. totalShares * paid <= shares * totalDeposits
    BY <1>0, <2>3, <2>4, DivFloor
  <2>. HIDE DEF paid
  <2>6. /\ totalDeposits' * totalShares = totalDeposits * totalShares - totalShares * paid
        /\ totalDeposits * totalShares' = totalDeposits * totalShares - shares * totalDeposits
    BY <1>0, <2>1, <2>2
  <2>7. totalShares * paid \in Nat
    BY <1>0, <2>1, MulNat
  <2>. QED BY <1>0, <2>3, <2>5, <2>6, <2>7
<1>4. CASE AnyPositionStep
  <2>1. Senior \in Tranches /\ LpTranches \subseteq Tranches
    BY InputsAssumption DEF Tranches
  <2>2. ASSUME NEW d \in Depositors, NEW shares \in Nat,
               WithdrawLiquidity(d, shares)
        PROVE  totalDeposits' * totalShares >= totalDeposits * totalShares'
    <3>1. shares \in Nat /\ lpTranche[d] \in Tranches /\ shares <= totalShares
      BY <1>0, <2>2, InputsAssumption, HeldLeqTotal DEF WithdrawLiquidity, TypeOK
    <3>. QED BY <1>3, <2>2, <3>1 DEF WithdrawLiquidity
  <2>3. ASSUME NEW a \in Agents, NEW shares \in Nat,
               WithdrawCollateral(a, shares)
        PROVE  totalDeposits' * totalShares >= totalDeposits * totalShares'
    <3>1. shares \in Nat /\ shares <= totalShares
      BY <1>0, <2>3, InputsAssumption, HeldLeqTotal DEF WithdrawCollateral, TypeOK
    <3>. QED BY <1>3, <2>1, <2>3, <3>1 DEF WithdrawCollateral
  <2>. QED BY <1>2, <1>4, <2>1, <2>2, <2>3
           DEF AnyPositionStep, DepositLiquidity, DepositCollateral
<1>5. ASSUME NEW a \in Agents, NEW amount \in Nat,
             ReceiveRepayment(a, amount)
      PROVE  totalDeposits' * totalShares >= totalDeposits * totalShares'
  <2>. DEFINE interest == InterestPart(a, amount)
  <2>. DEFINE net == interest - InsuranceCut(interest)
  <2>1. amount \in Nat /\ amount <= Debt(a)
    BY <1>0, <1>5, InputsAssumption, AccruedType DEF ReceiveRepayment
  <2>2. interest \in Nat
    BY <1>0, <2>1, RepaymentSplit
  <2>3. net \in Nat
    BY <1>0, <2>2, InterestSplit
  <2>4. totalDeposits' = totalDeposits + net /\ totalShares' = totalShares
    BY <1>5 DEF ReceiveRepayment, NetPoolInterest
  <2>. HIDE DEF net
  <2>5. /\ totalDeposits' * totalShares = totalDeposits * totalShares + net * totalShares
        /\ net * totalShares \in Nat
    BY <1>0, <2>3, <2>4, MulNat
  <2>. QED BY <1>0, <2>4, <2>5
<1>6. ASSUME NEW a \in Agents, NEW amount \in Nat, NEW r \in Nat,
             NEW level \in Levels, NEW v \in Nat,
             ExtendCredit(a, amount, r, level, v)
      PROVE  totalDeposits' * totalShares >= totalDeposits * totalShares'
  BY <1>1, <1>6 DEF ExtendCredit
<1>7. ASSUME NEW a \in Agents, AccrueInterest(a)
      PROVE  totalDeposits' * totalShares >= totalDeposits * totalShares'
  BY <1>1, <1>7 DEF AccrueInterest, pool
<1>8. CASE AnyAdminStep \/ Tick
  BY <1>1, <1>8 DEF AnyAdminStep, SetPaused, UpdateConfig, Tick, pool
<1>. QED BY <1>4, <1>5, <1>6, <1>7, <1>8 DEF AnyNext, AnyLineStep, AWriteOff

(* Whatever the amounts, prices and roundings, only a write-off lowers what a   *)
(* share is worth: no deposit, withdrawal or repayment dilutes another holder.  *)
THEOREM SharePriceMonotone == Spec => SharePriceNeverFalls
<1>1. LedgerInv /\ [Next]_vars =>
        [AWriteOff \/ totalShares = 0
           \/ totalDeposits' * totalShares >= totalDeposits * totalShares']_vars
  BY NextIsAny, StepPrice DEF LedgerInv
<1>. QED BY <1>1, LedgerInvariant, PTL DEF Spec, SharePriceNeverFalls

-----------------------------------------------------------------------------
(* The order in which a write-off spreads a loss                                *)

(* A layer of the waterfall is touched only when everything below it is gone.   *)
LEMMA LossOrder ==
    ASSUME TypeOK, NEW loss \in Nat
    PROVE  /\ TrancheAbsorbed(loss)[Junior] > 0 => InsuranceAbsorbed(loss) = insuranceBalance
           /\ TrancheAbsorbed(loss)[Mezzanine] > 0 =>
                 /\ InsuranceAbsorbed(loss) = insuranceBalance
                 /\ TrancheAbsorbed(loss)[Junior] = trancheDeposits[Junior]
           /\ TrancheAbsorbed(loss)[Senior] > 0 =>
                 /\ InsuranceAbsorbed(loss) = insuranceBalance
                 /\ TrancheAbsorbed(loss)[Junior] = trancheDeposits[Junior]
                 /\ TrancheAbsorbed(loss)[Mezzanine] = trancheDeposits[Mezzanine]
<1>. DEFINE b == InsuranceAbsorbed(loss)
<1>. DEFINE j == Lesser(loss - b, trancheDeposits[Junior])
<1>. DEFINE m == Lesser(loss - b - j, trancheDeposits[Mezzanine])
<1>. DEFINE s == Lesser(loss - b - j - m, trancheDeposits[Senior])
<1>1. /\ insuranceBalance \in Nat
      /\ trancheDeposits[Junior] \in Nat
      /\ trancheDeposits[Mezzanine] \in Nat
      /\ trancheDeposits[Senior] \in Nat
  BY DEF TypeOK, Tranches
<1>2. b \in Nat /\ b <= loss /\ (b < loss => b = insuranceBalance)
  BY <1>1 DEF InsuranceAbsorbed, Lesser
<1>3. /\ j \in Nat /\ j <= loss - b
      /\ j < loss - b => j = trancheDeposits[Junior]
  BY <1>1, <1>2 DEF Lesser
<1>4. /\ m \in Nat /\ m <= loss - b - j
      /\ m < loss - b - j => m = trancheDeposits[Mezzanine]
  BY <1>1, <1>2, <1>3 DEF Lesser
<1>5. s \in Nat /\ s <= loss - b - j - m
  BY <1>1, <1>2, <1>3, <1>4 DEF Lesser
<1>6. TrancheAbsorbed(loss) = [t \in Tranches |-> CASE t = Senior -> s
                                                    [] t = Mezzanine -> m
                                                    [] t = Junior -> j]
  BY DEF TrancheAbsorbed
<1>. HIDE DEF b, j, m, s
<1>7. /\ TrancheAbsorbed(loss)[Junior] = j
      /\ TrancheAbsorbed(loss)[Mezzanine] = m
      /\ TrancheAbsorbed(loss)[Senior] = s
  BY <1>6 DEF Tranches, Senior, Mezzanine, Junior
<1>8. j > 0 => b = insuranceBalance
  BY <1>2, <1>3
<1>9. m > 0 => b = insuranceBalance /\ j = trancheDeposits[Junior]
  BY <1>2, <1>3, <1>4
<1>10. s > 0 => /\ b = insuranceBalance
                /\ j = trancheDeposits[Junior]
                /\ m = trancheDeposits[Mezzanine]
  BY <1>2, <1>3, <1>4, <1>5
<1>. QED BY <1>7, <1>8, <1>9, <1>10 DEF b

LossSpread ==
    /\ trancheDeposits'[Junior] < trancheDeposits[Junior] =>
          insuranceBalance' = 0
    /\ trancheDeposits'[Mezzanine] < trancheDeposits[Mezzanine] =>
          insuranceBalance' = 0 /\ trancheDeposits'[Junior] = 0
    /\ trancheDeposits'[Senior] < trancheDeposits[Senior] =>
          /\ insuranceBalance' = 0
          /\ trancheDeposits'[Junior] = 0
          /\ trancheDeposits'[Mezzanine] = 0

LEMMA WriteOffSpreads ==
    ASSUME TypeOK, NEW a \in Agents, WriteOffBadDebt(a)
    PROVE  LossSpread
<1>. DEFINE loss == Debt(a)
<1>. DEFINE absorbed == TrancheAbsorbed(loss)
<1>1. loss \in Nat
  BY AccruedType
<1>2. /\ insuranceBalance' = insuranceBalance - InsuranceAbsorbed(loss)
      /\ \A t \in Tranches : trancheDeposits'[t] = trancheDeposits[t] - absorbed[t]
  BY DEF WriteOffBadDebt
<1>. HIDE DEF loss
<1>3. /\ InsuranceAbsorbed(loss) \in Nat
      /\ absorbed \in [Tranches -> Nat]
  BY <1>1, LossSplit
<1>4. /\ absorbed[Junior] > 0 => InsuranceAbsorbed(loss) = insuranceBalance
      /\ absorbed[Mezzanine] > 0 =>
            /\ InsuranceAbsorbed(loss) = insuranceBalance
            /\ absorbed[Junior] = trancheDeposits[Junior]
      /\ absorbed[Senior] > 0 =>
            /\ InsuranceAbsorbed(loss) = insuranceBalance
            /\ absorbed[Junior] = trancheDeposits[Junior]
            /\ absorbed[Mezzanine] = trancheDeposits[Mezzanine]
  BY <1>1, LossOrder
<1>. HIDE DEF absorbed
<1>5. \A t \in Tranches : /\ trancheDeposits[t] \in Nat
                          /\ absorbed[t] \in Nat
                          /\ trancheDeposits'[t] < trancheDeposits[t] => absorbed[t] > 0
                          /\ absorbed[t] = trancheDeposits[t] => trancheDeposits'[t] = 0
  BY <1>2, <1>3 DEF TypeOK
<1>6. Junior \in Tranches /\ Mezzanine \in Tranches /\ Senior \in Tranches
  BY DEF Tranches
<1>7. InsuranceAbsorbed(loss) = insuranceBalance => insuranceBalance' = 0
  BY <1>2, <1>3 DEF TypeOK
<1>. QED BY <1>4, <1>5, <1>6, <1>7 DEF LossSpread

(* However large the loss and however the layers are filled, a write-off        *)
(* touches a layer only when everything below it is gone.                       *)
THEOREM LossWaterfallAlways == Spec => LossWaterfall
<1>1. TypeOK /\ AWriteOff => LossSpread
  BY WriteOffSpreads DEF AWriteOff
<1>2. Spec => [][AWriteOff => LossSpread]_vars
  BY <1>1, TypeCorrect, PTL
<1>. QED BY <1>2 DEF LossWaterfall, LossSpread

-----------------------------------------------------------------------------
(* Interest is never charged twice                                              *)

LEMMA AccrueStepFair ==
    ASSUME TypeOK, NEW a \in Agents, AccrueInterest(a), NEW T \in now .. MaxTime
    PROVE  /\ AccruedAt(a, T)' <= AccruedAt(a, T)
           /\ AccruedAt(a, T) <= AccruedAt(a, T)' + 1
<1>. DEFINE k == drawn[a] * rate[a]
<1>. DEFINE d == Bps * SecondsPerYear
<1>. DEFINE past == now - lastAccrual[a]
<1>. DEFINE ahead == T - now
<1>1. /\ drawn[a] \in Nat /\ rate[a] \in Nat /\ accrued[a] \in Nat
      /\ past \in Nat /\ lastAccrual[a] \in Nat /\ now \in Nat
  BY DEF TypeOK
<1>2. ahead \in Nat /\ T \in Nat
  BY <1>1, LimitsAssumption
<1>3. k \in Nat /\ d \in Nat \ {0}
  BY <1>1, MulNat, YearPositive
<1>4. /\ accrued'[a] = AccruedNow(a)
      /\ lastAccrual'[a] = now
      /\ drawn' = drawn /\ rate' = rate
  BY DEF AccrueInterest, TypeOK
<1>5. AccruedAt(a, T)' = accrued'[a] + MulDiv(k, ahead, d)
  BY <1>4 DEF AccruedAt
<1>6. AccruedNow(a) = accrued[a] + MulDiv(k, past, d)
  BY DEF AccruedNow, AccruedAt
<1>7. T - lastAccrual[a] = past + ahead
  BY <1>1, <1>2
<1>8. AccruedAt(a, T) = accrued[a] + MulDiv(k, past + ahead, d)
  BY <1>7 DEF AccruedAt
<1>. HIDE DEF k, d, past, ahead
<1>9. /\ k * past \in Nat /\ k * ahead \in Nat
      /\ k * (past + ahead) = k * past + k * ahead
  BY <1>1, <1>2, <1>3, MulNat
<1>10. /\ MulDiv(k, past, d) + MulDiv(k, ahead, d) <= MulDiv(k, past + ahead, d)
       /\ MulDiv(k, past + ahead, d) <= MulDiv(k, past, d) + MulDiv(k, ahead, d) + 1
  BY <1>3, <1>9, DivSum, DivSumBelow DEF MulDiv
<1>11. /\ MulDiv(k, past, d) \in Nat
       /\ MulDiv(k, ahead, d) \in Nat
       /\ MulDiv(k, past + ahead, d) \in Nat
  <2>1. past + ahead \in Nat
    BY <1>1, <1>2
  <2>. QED BY <1>1, <1>2, <1>3, <2>1, MulDivNat
<1>. QED BY <1>1, <1>4, <1>5, <1>6, <1>8, <1>10, <1>11

(* Whoever accrues a line's interest, and however often, its agent never owes   *)
(* more at a later time than without those calls.                               *)
THEOREM AccrualNeverOverchargesAlways == Spec => AccrualNeverOvercharges
<1>1. TypeOK => \A a \in Agents : AccrueInterest(a) =>
                   \A T \in now .. MaxTime : AccruedAt(a, T)' <= AccruedAt(a, T)
  BY AccrueStepFair
<1>2. Spec => [][\A a \in Agents : AccrueInterest(a) =>
                   \A T \in now .. MaxTime : AccruedAt(a, T)' <= AccruedAt(a, T)]_vars
  BY <1>1, TypeCorrect, PTL
<1>. QED BY <1>2 DEF AccrualNeverOvercharges

(* One call of accrue_interest forgives at most one unit of what its agent will *)
(* owe later: what the division floors away (CreditLine::accrue).               *)
THEOREM AccrualForgivesLittle ==
    Spec => [][\A a \in Agents : AccrueInterest(a) =>
                 \A T \in now .. MaxTime : AccruedAt(a, T) <= AccruedAt(a, T)' + 1]_vars
<1>1. TypeOK => \A a \in Agents : AccrueInterest(a) =>
                   \A T \in now .. MaxTime : AccruedAt(a, T) <= AccruedAt(a, T)' + 1
  BY AccrueStepFair
<1>. QED BY <1>1, TypeCorrect, PTL

(* But calls add up: while principal times rate is below 10000 basis points of  *)
(* a year's seconds, an accrual in each second charges nothing at all, although *)
(* the line is charged over any longer time in which nobody calls.              *)
THEOREM EachSecondAccruesNothing ==
    Spec => [][\A a \in Agents :
                 /\ AccrueInterest(a)
                 /\ now = lastAccrual[a] + 1
                 /\ drawn[a] * rate[a] < Bps * SecondsPerYear
                 => accrued' = accrued /\ lastAccrual'[a] = now]_vars
<1>1. ASSUME TypeOK, NEW a \in Agents, AccrueInterest(a), now = lastAccrual[a] + 1,
             drawn[a] * rate[a] < Bps * SecondsPerYear
      PROVE  accrued' = accrued /\ lastAccrual'[a] = now
  <2>. DEFINE k == drawn[a] * rate[a]
  <2>. DEFINE d == Bps * SecondsPerYear
  <2>1. /\ drawn[a] \in Nat /\ rate[a] \in Nat /\ accrued[a] \in Nat
        /\ lastAccrual[a] \in Nat /\ now - lastAccrual[a] = 1
    BY <1>1 DEF TypeOK
  <2>2. k \in Nat /\ d \in Nat \ {0} /\ k < d
    BY <1>1, <2>1, MulNat, YearPositive
  <2>3. AccruedNow(a) = accrued[a] + MulDiv(k, 1, d)
    BY <2>1 DEF AccruedNow, AccruedAt
  <2>. HIDE DEF k, d
  <2>4. MulDiv(k, 1, d) = 0
    <3>1. k * 1 = k
      BY <2>2
    <3>2. k \div d = 0
      BY <2>2
    <3>. QED BY <3>1, <3>2 DEF MulDiv
  <2>5. accrued' = [accrued EXCEPT ![a] = AccruedNow(a)] /\ lastAccrual'[a] = now
    BY <1>1 DEF AccrueInterest, TypeOK
  <2>. QED BY <1>1, <2>1, <2>3, <2>4, <2>5 DEF TypeOK
<1>2. TypeOK => \A a \in Agents :
                   /\ AccrueInterest(a)
                   /\ now = lastAccrual[a] + 1
                   /\ drawn[a] * rate[a] < Bps * SecondsPerYear
                   => accrued' = accrued /\ lastAccrual'[a] = now
  BY <1>1
<1>. QED BY <1>2, TypeCorrect, PTL

-----------------------------------------------------------------------------
(* CreditVault implements LendingPool for every number of LPs and agents and    *)
(* every amount, rate and limit.  The pool's holders are the LPs followed by    *)
(* the agents' collateral positions; by SharesMatchPositions their shares add   *)
(* up to total_shares, so the price the vault computes from its counter is the  *)
(* price the pool computes from its holders.                                    *)

NHolders == NDepositors + NAgents

(* the pool's arithmetic is the vault's *)
LEMMA PoolArithmetic ==
    /\ Pool!Outstanding = Total(HolderShares, NHolders)
    /\ Pool!Idle = AvailableLiquidity
<1>1. Pool!Outstanding = Total(HolderShares, NHolders)
  BY DEF Pool!Outstanding, Pool!Total, Pool!PartialSums, Total, PartialSums, NHolders
<1>2. Pool!Idle = AvailableLiquidity
  BY DEF Pool!Idle, Pool!SatSub, AvailableLiquidity, SatSub
<1>. QED BY <1>1, <1>2

(* the shares of all holders together are the vault's counter *)
LEMMA HolderTotal ==
    ASSUME TypeOK, SharesMatchPositions
    PROVE  /\ HolderShares \in [1 .. NHolders -> Nat]
           /\ Total(HolderShares, NHolders) = totalShares
<1>1. /\ NDepositors \in Nat /\ lpShares \in [1 .. NDepositors -> Nat]
      /\ NAgents \in Nat /\ collateralShares \in [1 .. NAgents -> Nat]
  BY PositionTypes
<1>2. \A h \in 1 .. NHolders :
         /\ h <= NDepositors => HolderShares[h] = lpShares[h]
         /\ ~ (h <= NDepositors) => HolderShares[h] = collateralShares[h - NDepositors]
  BY DEF HolderShares, NHolders
<1>3. HolderShares \in [1 .. NHolders -> Nat]
  <2>1. ASSUME NEW h \in 1 .. NHolders PROVE HolderShares[h] \in Nat
    <3>1. CASE h <= NDepositors
      BY <1>1, <1>2, <3>1
    <3>2. CASE ~ (h <= NDepositors)
      <4>1. h - NDepositors \in 1 .. NAgents
        BY <1>1, <3>2 DEF NHolders
      <4>. QED BY <1>1, <1>2, <3>2, <4>1
    <3>. QED BY <3>1, <3>2
  <2>2. HolderShares = [h \in 1 .. NHolders |-> HolderShares[h]]
    BY DEF HolderShares, NHolders
  <2>. QED BY <2>1, <2>2
<1>4. \A i \in 1 .. NDepositors : HolderShares[i] = lpShares[i]
  BY <1>1, <1>2 DEF NHolders
<1>5. \A i \in 1 .. NAgents : HolderShares[NDepositors + i] = collateralShares[i]
  <2>1. ASSUME NEW i \in 1 .. NAgents
        PROVE  HolderShares[NDepositors + i] = collateralShares[i]
    <3>1. /\ NDepositors + i \in 1 .. NHolders
          /\ ~ (NDepositors + i <= NDepositors)
          /\ (NDepositors + i) - NDepositors = i
      BY <1>1 DEF NHolders
    <3>. QED BY <1>2, <3>1
  <2>. QED BY <2>1
<1>6. HolderShares \in [1 .. NDepositors + NAgents -> Nat]
  BY <1>3 DEF NHolders
<1>7. Total(HolderShares, NDepositors + NAgents)
        = Total(lpShares, NDepositors) + Total(collateralShares, NAgents)
  BY <1>1, <1>4, <1>5, <1>6, TotalConcat
<1>. QED BY <1>3, <1>7 DEF NHolders, SharesMatchPositions

(* What each position, an LP's or an agent's collateral, is worth               *)
Worths == [h \in 1 .. NHolders |-> SharesToAmount(HolderShares[h])]

LEMMA WorthsBacked ==
    ASSUME TypeOK, SharesMatchPositions
    PROVE  Total(Worths, NHolders) <= totalDeposits
<1>1. /\ HolderShares \in [1 .. NHolders -> Nat]
      /\ Total(HolderShares, NHolders) = totalShares
      /\ NHolders \in Nat
      /\ totalShares \in Nat /\ totalDeposits \in Nat
  BY HolderTotal, PositionTypes DEF TypeOK, NHolders
<1>2. CASE totalShares = 0
  <2>1. Worths = [h \in 1 .. NHolders |-> 0]
    BY <1>2 DEF Worths, SharesToAmount
  <2>. QED BY <1>1, <2>1, TotalZero
<1>3. CASE totalShares # 0
  <2>1. Worths = [h \in 1 .. NHolders |-> (HolderShares[h] * totalDeposits) \div totalShares]
    BY <1>3 DEF Worths, SharesToAmount, MulDiv
  <2>. QED BY <1>1, <1>3, <2>1, TotalShares
<1>. QED BY <1>2, <1>3

(* What all positions together are worth, each rounded as a withdrawal rounds   *)
(* it (shares_to_amount), never exceeds total_deposits: whoever withdraws       *)
(* first, the books have enough for the others.                                 *)
THEOREM PositionsBacked == Spec => [](Total(Worths, NHolders) <= totalDeposits)
<1>1. LedgerInv => Total(Worths, NHolders) <= totalDeposits
  BY WorthsBacked DEF LedgerInv
<1>. QED BY <1>1, LedgerInvariant, PTL

(* In tokens: as long as nothing was written off, vault_usdc and the money that *)
(* is lent out cover every position in full, and vault_usdc alone does once all *)
(* lines are repaid.                                                            *)
THEOREM PositionsBackedByTokens ==
    Init /\ [][Next /\ ~ AWriteOff]_vars =>
        [](Total(Worths, NHolders) <= vaultToken + totalDeployed)
<1>1. LedgerInv /\ CashGap = 0 => Total(Worths, NHolders) <= vaultToken + totalDeployed
  <2>. SUFFICES ASSUME LedgerInv, CashGap = 0
                PROVE  Total(Worths, NHolders) <= vaultToken + totalDeployed
    OBVIOUS
  <2>1. Total(Worths, NHolders) <= totalDeposits
    BY WorthsBacked DEF LedgerInv
  <2>2. vaultToken + totalDeployed = totalDeposits
    BY DEF LedgerInv, TypeOK, CashGap
  <2>. QED BY <2>1, <2>2
<1>. QED BY <1>1, NoGapInvariant, PTL

(* the holder an LP's position is, and what a change of that position changes *)
LEMMA LpHolder ==
    ASSUME TypeOK, NEW d \in Depositors, NEW v \in Nat,
           lpShares' = [lpShares EXCEPT ![d] = v],
           UNCHANGED collateralShares
    PROVE  /\ d \in 1 .. NHolders
           /\ HolderShares[d] = lpShares[d]
           /\ HolderShares' = [HolderShares EXCEPT ![d] = v]
<1>1. /\ NDepositors \in Nat /\ lpShares \in [1 .. NDepositors -> Nat]
      /\ NAgents \in Nat /\ d \in 1 .. NDepositors
  BY PositionTypes DEF Depositors
<1>2. d \in 1 .. NHolders
  BY <1>1 DEF NHolders
<1>3. HolderShares[d] = lpShares[d]
  BY <1>1, <1>2 DEF HolderShares, NHolders
<1>4. HolderShares' = [HolderShares EXCEPT ![d] = v]
  <2>1. HolderShares' = [h \in 1 .. NHolders |->
                            IF h <= NDepositors THEN lpShares'[h]
                            ELSE collateralShares[h - NDepositors]]
    BY DEF HolderShares, NHolders
  <2>2. ASSUME NEW h \in 1 .. NHolders, h <= NDepositors
        PROVE  lpShares'[h] = IF h = d THEN v ELSE lpShares[h]
    BY <1>1, <2>2 DEF NHolders
  <2>3. d <= NDepositors
    BY <1>1
  <2>. QED BY <2>1, <2>2, <2>3 DEF HolderShares, NHolders
<1>. QED BY <1>2, <1>3, <1>4

(* the same of an agent's collateral position *)
LEMMA CollateralHolder ==
    ASSUME TypeOK, NEW a \in Agents, NEW v \in Nat,
           collateralShares' = [collateralShares EXCEPT ![a] = v],
           UNCHANGED lpShares
    PROVE  /\ NDepositors + a \in 1 .. NHolders
           /\ HolderShares[NDepositors + a] = collateralShares[a]
           /\ HolderShares' = [HolderShares EXCEPT ![NDepositors + a] = v]
<1>1. /\ NDepositors \in Nat /\ NAgents \in Nat /\ a \in 1 .. NAgents
      /\ collateralShares \in [1 .. NAgents -> Nat]
  BY PositionTypes DEF Agents
<1>2. /\ NDepositors + a \in 1 .. NHolders
      /\ ~ (NDepositors + a <= NDepositors)
      /\ (NDepositors + a) - NDepositors = a
  BY <1>1 DEF NHolders
<1>3. HolderShares[NDepositors + a] = collateralShares[a]
  BY <1>2 DEF HolderShares, NHolders
<1>4. \A h \in 1 .. NHolders : ~ (h <= NDepositors) /\ h # NDepositors + a
          => h - NDepositors \in 1 .. NAgents /\ h - NDepositors # a
  BY <1>1 DEF NHolders
<1>5. HolderShares' = [HolderShares EXCEPT ![NDepositors + a] = v]
  BY <1>1, <1>2, <1>4 DEF HolderShares, NHolders
<1>. QED BY <1>2, <1>3, <1>5

-----------------------------------------------------------------------------
(* A deposit is a subscription, a withdrawal a redemption *)

LEMMA PoolInSubscribes ==
    ASSUME LedgerInv, NEW amount \in Nat, NEW t \in Tranches, PoolIn(amount, t),
           NEW h \in 1 .. NHolders,
           HolderShares' = [HolderShares EXCEPT ![h] = HolderShares[h] + CalculateShares(amount)]
    PROVE  Pool!Subscribe(h)
<1>. DEFINE minted == CalculateShares(amount)
<1>1. /\ TypeOK
      /\ HolderShares \in [1 .. NHolders -> Nat]
      /\ Total(HolderShares, NHolders) = totalShares
  BY HolderTotal DEF LedgerInv
<1>2. /\ totalDeposits \in Nat /\ totalShares \in Nat /\ minted \in Nat
      /\ HolderShares[h] \in Nat
  BY <1>1, SharesType DEF TypeOK
<1>3. /\ amount > 0
      /\ MintAllowed(amount)
      /\ totalDeposits' = totalDeposits + amount
      /\ totalDeployed' = totalDeployed
  BY DEF PoolIn
<1>4. minted > 0 /\ (FirstDeposit => minted = amount)
  BY <1>3 DEF MintAllowed, CalculateShares
<1>5. ~ FirstDeposit => minted * totalDeposits <= amount * totalShares
  <2>1. CASE ~ FirstDeposit
    <3>1. totalDeposits \in Nat \ {0} /\ amount * totalShares \in Nat
      BY <1>2, <2>1, MulNat DEF FirstDeposit
    <3>2. minted = (amount * totalShares) \div totalDeposits
      BY <2>1 DEF CalculateShares, MulDiv
    <3>3. totalDeposits * minted <= amount * totalShares
      BY <3>1, <3>2, DivFloor
    <3>. HIDE DEF minted
    <3>. QED BY <1>2, <3>3
  <2>. QED BY <2>1
<1>. HIDE DEF minted
<1>6. /\ totalDeposits' - totalDeposits = amount
      /\ HolderShares'[h] = HolderShares[h] + minted
      /\ HolderShares'[h] - HolderShares[h] = minted
  BY <1>1, <1>2, <1>3 DEF minted
<1>7. HolderShares' = [HolderShares EXCEPT ![h] = @ + minted]
  BY <1>1 DEF minted
<1>8. Pool!Outstanding = totalShares
  BY <1>1, PoolArithmetic
<1>. QED BY <1>3, <1>4, <1>5, <1>6, <1>7, <1>8 DEF Pool!Subscribe, FirstDeposit

LEMMA PoolOutRedeems ==
    ASSUME LedgerInv, NEW shares \in Nat, NEW t \in Tranches, PoolOut(shares, t),
           NEW h \in 1 .. NHolders, shares <= HolderShares[h],
           HolderShares' = [HolderShares EXCEPT ![h] = HolderShares[h] - shares]
    PROVE  Pool!Redeem(h)
<1>. DEFINE paid == SharesToAmount(shares)
<1>1. /\ TypeOK
      /\ HolderShares \in [1 .. NHolders -> Nat]
      /\ Total(HolderShares, NHolders) = totalShares
  BY HolderTotal DEF LedgerInv
<1>2. /\ totalDeposits \in Nat /\ totalShares \in Nat /\ HolderShares[h] \in Nat
      /\ AvailableLiquidity \in Nat
  BY <1>1, SharesType DEF TypeOK
<1>3. /\ paid \in Nat
      /\ totalDeposits' = totalDeposits - paid
      /\ totalDeployed' = totalDeployed
      /\ paid <= AvailableLiquidity
      /\ shares > 0
  BY <1>1, PaidIsIdle DEF PoolOut
<1>4. paid * totalShares <= shares * totalDeposits
  <2>1. shares * totalDeposits \in Nat
    BY <1>2, MulNat
  <2>2. CASE totalShares = 0
    <3>. HIDE DEF paid
    <3>1. paid * totalShares = 0
      BY <1>3, <2>2
    <3>. QED BY <2>1, <3>1
  <2>3. CASE totalShares # 0
    <3>1. paid = (shares * totalDeposits) \div totalShares
      BY <2>3 DEF SharesToAmount, MulDiv
    <3>2. totalShares * paid <= shares * totalDeposits
      BY <1>2, <2>1, <2>3, <3>1, DivFloor
    <3>. HIDE DEF paid
    <3>. QED BY <1>2, <1>3, <3>2
  <2>. QED BY <2>2, <2>3
<1>. HIDE DEF paid
<1>5. /\ totalDeposits - totalDeposits' = paid
      /\ HolderShares'[h] = HolderShares[h] - shares
      /\ HolderShares[h] - HolderShares'[h] = shares
      /\ shares \in 1 .. HolderShares[h]
  BY <1>1, <1>2, <1>3
<1>6. HolderShares' = [HolderShares EXCEPT ![h] = @ - shares]
  BY <1>1
<1>7. Pool!Outstanding = totalShares /\ Pool!Idle = AvailableLiquidity
  BY <1>1, PoolArithmetic
<1>8. paid \in 0 .. AvailableLiquidity
  BY <1>2, <1>3
<1>. QED BY <1>3, <1>4, <1>5, <1>6, <1>7, <1>8 DEF Pool!Redeem

LEMMA PositionStepRefines ==
    ASSUME LedgerInv, AnyPositionStep
    PROVE  \E h \in 1 .. NHolders : Pool!Subscribe(h) \/ Pool!Redeem(h)
<1>1. TypeOK /\ Senior \in Tranches
  BY DEF LedgerInv, Tranches
<1>2. /\ lpShares \in [Depositors -> Nat]
      /\ collateralShares \in [Agents -> Nat]
  BY <1>1 DEF TypeOK
<1>3. ASSUME NEW d \in Depositors, NEW amount \in Nat, NEW t \in Tranches,
             DepositLiquidity(d, amount, t)
      PROVE  d \in 1 .. NHolders /\ Pool!Subscribe(d)
  <2>1. /\ PoolIn(amount, t)
        /\ lpShares' = [lpShares EXCEPT ![d] = lpShares[d] + CalculateShares(amount)]
        /\ UNCHANGED collateralShares
    BY <1>3 DEF DepositLiquidity
  <2>2. lpShares[d] + CalculateShares(amount) \in Nat
    BY <1>1, <1>2, SharesType
  <2>3. /\ d \in 1 .. NHolders
        /\ HolderShares' = [HolderShares EXCEPT ![d] =
                               HolderShares[d] + CalculateShares(amount)]
    BY <1>1, <2>1, <2>2, LpHolder
  <2>. QED BY <2>1, <2>3, PoolInSubscribes
<1>4. ASSUME NEW a \in Agents, NEW amount \in Nat, DepositCollateral(a, amount)
      PROVE  NDepositors + a \in 1 .. NHolders /\ Pool!Subscribe(NDepositors + a)
  <2>1. /\ PoolIn(amount, Senior)
        /\ collateralShares' = [collateralShares EXCEPT ![a] =
                                   collateralShares[a] + CalculateShares(amount)]
        /\ UNCHANGED lpShares
    BY <1>4 DEF DepositCollateral
  <2>2. collateralShares[a] + CalculateShares(amount) \in Nat
    BY <1>1, <1>2, SharesType
  <2>3. /\ NDepositors + a \in 1 .. NHolders
        /\ HolderShares' = [HolderShares EXCEPT ![NDepositors + a] =
                               HolderShares[NDepositors + a] + CalculateShares(amount)]
    BY <1>1, <2>1, <2>2, CollateralHolder
  <2>. QED BY <1>1, <2>1, <2>3, PoolInSubscribes
<1>5. ASSUME NEW d \in Depositors, NEW shares \in Nat, WithdrawLiquidity(d, shares)
      PROVE  d \in 1 .. NHolders /\ Pool!Redeem(d)
  <2>1. /\ PoolOut(shares, lpTranche[d])
        /\ lpTranche[d] \in Tranches
        /\ shares <= lpShares[d]
        /\ lpShares' = [lpShares EXCEPT ![d] = lpShares[d] - shares]
        /\ UNCHANGED collateralShares
    BY <1>1, <1>5 DEF WithdrawLiquidity, TypeOK
  <2>2. lpShares[d] - shares \in Nat
    BY <1>2, <2>1
  <2>3. /\ d \in 1 .. NHolders
        /\ shares <= HolderShares[d]
        /\ HolderShares' = [HolderShares EXCEPT ![d] = HolderShares[d] - shares]
    BY <1>1, <2>1, <2>2, LpHolder
  <2>. QED BY <2>1, <2>3, PoolOutRedeems
<1>6. ASSUME NEW a \in Agents, NEW shares \in Nat, WithdrawCollateral(a, shares)
      PROVE  NDepositors + a \in 1 .. NHolders /\ Pool!Redeem(NDepositors + a)
  <2>1. /\ PoolOut(shares, Senior)
        /\ shares <= collateralShares[a]
        /\ collateralShares' = [collateralShares EXCEPT ![a] = collateralShares[a] - shares]
        /\ UNCHANGED lpShares
    BY <1>6 DEF WithdrawCollateral
  <2>2. collateralShares[a] - shares \in Nat
    BY <1>2, <2>1
  <2>3. /\ NDepositors + a \in 1 .. NHolders
        /\ shares <= HolderShares[NDepositors + a]
        /\ HolderShares' = [HolderShares EXCEPT ![NDepositors + a] =
                               HolderShares[NDepositors + a] - shares]
    BY <1>1, <2>1, <2>2, CollateralHolder
  <2>. QED BY <1>1, <2>1, <2>3, PoolOutRedeems
<1>. QED BY <1>3, <1>4, <1>5, <1>6 DEF AnyPositionStep

-----------------------------------------------------------------------------
(* What happens to a credit line lends, collects or defaults, or is not seen *)

LEMMA LineStepRefines ==
    ASSUME LedgerInv, NEW a \in Agents, AnyLineStep(a)
    PROVE  Pool!Lend \/ Pool!Collect \/ Pool!Default \/ UNCHANGED Pool!poolVars
<1>1. TypeOK
  BY DEF LedgerInv
<1>2. totalDeployed \in Nat /\ totalDeposits \in Nat /\ drawn[a] \in Nat
  BY <1>1 DEF TypeOK
<1>3. AnyLineStep(a) => UNCHANGED HolderShares
  BY DEF AnyLineStep, ExtendCredit, ReceiveRepayment, AccrueInterest, WriteOffBadDebt,
         positions, HolderShares
<1>4. ASSUME NEW amount \in Nat, NEW r \in Nat, NEW level \in Levels, NEW v \in Nat,
             ExtendCredit(a, amount, r, level, v)
      PROVE  Pool!Lend
  <2>1. /\ amount > 0
        /\ amount <= AvailableLiquidity
        /\ totalDeployed' = totalDeployed + amount
        /\ totalDeposits' = totalDeposits
    BY <1>4 DEF ExtendCredit
  <2>2. totalDeployed' > totalDeployed /\ totalDeployed' - totalDeployed = amount
    BY <1>2, <2>1
  <2>. QED BY <1>3, <2>1, <2>2, PoolArithmetic DEF Pool!Lend
<1>5. ASSUME NEW amount \in Nat, ReceiveRepayment(a, amount)
      PROVE  Pool!Collect
  <2>. DEFINE interest == InterestPart(a, amount)
  <2>1. amount <= Debt(a)
    BY <1>5 DEF ReceiveRepayment
  <2>2. interest \in Nat /\ amount - interest \in Nat
    BY <1>1, <2>1, RepaymentSplit
  <2>3. interest - InsuranceCut(interest) \in Nat
    BY <1>1, <2>2, InterestSplit
  <2>4. /\ totalDeployed' = SatSub(totalDeployed, amount - interest)
        /\ totalDeposits' = totalDeposits + (interest - InsuranceCut(interest))
    BY <1>5 DEF ReceiveRepayment, NetPoolInterest
  <2>. HIDE DEF interest
  <2>5. totalDeployed' \in 0 .. totalDeployed /\ totalDeposits' >= totalDeposits
    BY <1>2, <2>2, <2>3, <2>4 DEF SatSub
  <2>. QED BY <1>3, <2>5 DEF Pool!Collect
<1>6. ASSUME AccrueInterest(a) PROVE UNCHANGED Pool!poolVars
  BY <1>3, <1>6 DEF AccrueInterest, pool, Pool!poolVars
<1>7. ASSUME WriteOffBadDebt(a) PROVE Pool!Default
  <2>. DEFINE absorbed == TrancheAbsorbed(Debt(a))
  <2>1. absorbed \in [Tranches -> Nat]
    BY <1>1, AccruedType, LossSplit
  <2>2. /\ totalDeployed' = SatSub(totalDeployed, drawn[a])
        /\ totalDeposits' = SatSub(SatSub(SatSub(totalDeposits, absorbed[Junior]),
                                          absorbed[Mezzanine]), absorbed[Senior])
    BY <1>7 DEF WriteOffBadDebt
  <2>. HIDE DEF absorbed
  <2>3. \A x, y \in Nat : SatSub(x, y) \in Nat /\ SatSub(x, y) <= x
    BY DEF SatSub
  <2>4. totalDeployed' \in 0 .. totalDeployed
    BY <1>2, <2>2 DEF SatSub
  <2>5. totalDeposits' \in 0 .. totalDeposits
    <3>1. /\ absorbed[Junior] \in Nat /\ absorbed[Mezzanine] \in Nat
          /\ absorbed[Senior] \in Nat
      BY <2>1 DEF Tranches
    <3>. DEFINE x == SatSub(totalDeposits, absorbed[Junior])
    <3>. DEFINE y == SatSub(x, absorbed[Mezzanine])
    <3>2. x \in Nat /\ x <= totalDeposits
      BY <1>2, <2>3, <3>1
    <3>. HIDE DEF x
    <3>3. y \in Nat /\ y <= x
      BY <2>3, <3>1, <3>2
    <3>. HIDE DEF y
    <3>4. SatSub(y, absorbed[Senior]) \in Nat /\ SatSub(y, absorbed[Senior]) <= y
      BY <2>3, <3>1, <3>2, <3>3
    <3>5. totalDeposits' = SatSub(y, absorbed[Senior])
      BY <2>2 DEF x, y
    <3>. QED BY <1>2, <3>2, <3>3, <3>4, <3>5
  <2>. QED BY <1>3, <2>4, <2>5 DEF Pool!Default
<1>. QED BY <1>4, <1>5, <1>6, <1>7 DEF AnyLineStep

LEMMA InitRefines == Init => Pool!PoolInit
<1>. SUFFICES ASSUME Init PROVE Pool!PoolInit
  OBVIOUS
<1>1. NDepositors \in Nat /\ NAgents \in Nat
  BY CountsAssumption
<1>2. /\ lpShares = [d \in 1 .. NDepositors |-> 0]
      /\ collateralShares = [a \in 1 .. NAgents |-> 0]
      /\ totalDeposits = 0 /\ totalDeployed = 0
  BY DEF Init, Depositors, Agents
<1>3. ASSUME NEW h \in 1 .. NDepositors + NAgents
      PROVE  (IF h <= NDepositors THEN lpShares[h] ELSE collateralShares[h - NDepositors]) = 0
  <2>1. CASE h <= NDepositors
    BY <1>1, <1>2, <2>1
  <2>2. CASE ~ (h <= NDepositors)
    <3>1. h - NDepositors \in 1 .. NAgents
      BY <1>1, <2>2
    <3>. QED BY <1>2, <2>2, <3>1
  <2>. QED BY <2>1, <2>2
<1>4. HolderShares = [h \in 1 .. NDepositors + NAgents |-> 0]
  BY <1>3 DEF HolderShares
<1>. QED BY <1>2, <1>4 DEF Pool!PoolInit, Pool!Holders

LEMMA StepRefines ==
    LedgerInv /\ [AnyNext]_vars => Pool!PoolNext \/ UNCHANGED Pool!poolVars
<1>. SUFFICES ASSUME LedgerInv, [AnyNext]_vars
              PROVE  Pool!PoolNext \/ UNCHANGED Pool!poolVars
  OBVIOUS
<1>1. CASE AnyPositionStep
  BY <1>1, PositionStepRefines DEF Pool!PoolNext, Pool!Holders, NHolders
<1>2. ASSUME NEW a \in Agents, AnyLineStep(a)
      PROVE  Pool!PoolNext \/ UNCHANGED Pool!poolVars
  BY <1>2, LineStepRefines DEF Pool!PoolNext
<1>3. CASE AnyAdminStep \/ Tick
  BY <1>3 DEF AnyAdminStep, SetPaused, UpdateConfig, Tick, pool, positions, HolderShares,
              Pool!poolVars
<1>4. CASE UNCHANGED vars
  BY <1>4 DEF vars, pool, positions, HolderShares, Pool!poolVars
<1>. QED BY <1>1, <1>2, <1>3, <1>4 DEF AnyNext

(* Whatever the vault does, its holders see a lending pool: fair prices against *)
(* the sum of all positions, payouts and loans from idle funds only, and a loss *)
(* only by a write-off.                                                         *)
THEOREM Implements == Spec => ImplementsLendingPool
<1>1. LedgerInv /\ [Next]_vars => [Pool!PoolNext]_(Pool!poolVars)
  BY NextIsAny, StepRefines DEF LedgerInv
<1>. QED BY <1>1, InitRefines, LedgerInvariant, PTL
         DEF Spec, ImplementsLendingPool, Pool!PoolSpec
=============================================================================
