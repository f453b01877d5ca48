------------------------- MODULE VaultKeeper_proofs -------------------------
(* Proofs about VaultKeeper: what a merchant vault promises for any number of   *)
(* investors and any amounts, rates and times, whatever the router, the         *)
(* administrator and the keeper do.  The keeper touches the vault by its calls  *)
(* only (StepIsCall), so the vault's invariants are proved over its calls.      *)
EXTENDS VaultKeeper, Arithmetic_proofs, FiniteSetTheorems

AnyCall ==
    \/ \E i \in Investors, amount \in Invests, role \in Roles : Invest(i, amount, role)
    \/ CompleteFundraisingManual \/ Cancel \/ AutoCancelExpired
    \/ ReleaseTranche
    \/ \E part \in Repayments : ProcessRepayment(part)
    \/ \E byAdmin \in BOOLEAN : MarkDefault(byAdmin)
    \/ \E i \in Investors : ClaimReturns(i) \/ ClaimRefund(i)
    \/ Tick

LEMMA StepIsCall == [Next]_vars => AnyCall \/ UNCHANGED vaultVars
<1> SUFFICES ASSUME [Next]_vars PROVE AnyCall \/ UNCHANGED vaultVars
    OBVIOUS
<1>1. CASE VaultCalls
    BY <1>1 DEF VaultCalls, AnyCall
<1>2. ASSUME NEW part \in Repayments, RoutePayment(part) PROVE AnyCall
    BY <1>2 DEF RoutePayment, AnyCall
<1>3. CASE Keeper
    BY <1>3 DEF Keeper, SeesFundraising, CallsCancel, SeesRepaying, ReadsShouldDefault,
       SimulatesMarkDefault, MarkDefaultIncluded, ShouldDefault, CallsDeactivate, AnyCall
<1>4. CASE DeactivateSettlement \/ CreateSettlement \/ TaskFails \/ Restart \/ UNCHANGED vars
    BY <1>4 DEF DeactivateSettlement, CreateSettlement, TaskFails, Restart, vars
<1> QED
    BY <1>1, <1>2, <1>3, <1>4 DEF Next

-----------------------------------------------------------------------------
(* Until fundraising ends there is nothing but what was invested *)
Fundraising ==
    state = "fundraising" =>
        /\ cash = raised /\ totalRepaid = 0 /\ tranches = 0
        /\ \A r \in Roles : repaid[r] = 0
        /\ \A i \in Investors : claimed[i] = 0
        /\ funded["community"] = 0
        /\ funded["senior"] + funded["pool"] <= raised

(* Once it has ended every unit belongs to one role, and is to be repaid *)
Started ==
    state \in {"active", "repaying", "completed", "defaulted"} =>
        /\ funded["senior"] + funded["pool"] + funded["community"] = raised
        /\ raised <= toRepay

(* The two upper roles never get more than their principal *)
Bounded ==
    /\ repaid["senior"] <= funded["senior"]
    /\ repaid["pool"] <= funded["pool"]
    /\ activatedAt <= now
    /\ \A i \in Investors : balances[i] <= raised
    /\ \A i \in Investors, r \in Roles : given[i][r] <= raised

Completed == state = "completed" => totalRepaid >= toRepay

Shares == state \notin {"cancelled", "defaulted"} => Total(balances, InvestorCount) = raised

VaultInv ==
    /\ VaultTypeOK
    /\ Fundraising
    /\ Started
    /\ Bounded
    /\ Completed
    /\ WaterfallOrder
    /\ Shares
    /\ CashIsAccounted
    /\ RefundsCovered

-----------------------------------------------------------------------------
(* The types, one fact at a time *)
LEMMA Fields ==
    ASSUME VaultTypeOK
    PROVE  /\ now \in Nat /\ now \in 1 .. MaxTime
           /\ raised \in Nat /\ raised <= Target
           /\ balances \in [Investors -> Nat]
           /\ funded \in [Roles -> Nat]
           /\ \A r \in Roles : funded[r] \in Nat /\ funded[r] <= Target
           /\ tranches \in Nat /\ tranches <= Tranches
           /\ toRepay \in Nat /\ expected \in Nat /\ activatedAt \in Nat /\ due \in Nat
           /\ totalRepaid \in Nat /\ snapshot \in Nat /\ cash \in Nat
           /\ repaid \in [Roles -> Nat]
           /\ claimed \in [Investors -> Nat]
           /\ given \in [Investors -> [Roles -> Nat]]
    BY VaultAssumption DEF VaultTypeOK

LEMMA ReleasedNat ==
    ASSUME VaultTypeOK, NEW k \in Nat
    PROVE  Released(k) \in Nat
<1>1. raised \div Tranches \in Nat
    BY Fields, VaultAssumption, DivFloor
<1> QED
    BY <1>1, Fields, MulNat DEF Released

LEMMA NetNat ==
    ASSUME NEW amount \in Repayments
    PROVE  Net(amount) \in Nat /\ Net(amount) <= amount
<1>1. amount \in Nat /\ FeeBps \in Nat /\ FeeBps <= Bps /\ Bps \in Nat \ {0}
    BY VaultAssumption
<1>2. MulDiv(amount, FeeBps, Bps) \in Nat /\ MulDiv(amount, FeeBps, Bps) <= amount
    BY <1>1, MulDivNat, MulDivLeq
<1> QED
    BY <1>1, <1>2 DEF Net, MulDiv

LEMMA LateFeeNat ==
    ASSUME VaultTypeOK, activatedAt <= now
    PROVE  LateFee \in Nat
<1> DEFINE days == Lesser(now - due, Interval)
           periods == (now - activatedAt) \div Interval
           soFar == Lesser(periods * expected, toRepay)
<1>1. CASE Late
  <2>1. days \in Nat
    BY <1>1, Fields, VaultAssumption DEF Late, Lesser
  <2>2. now - activatedAt \in Nat
    BY Fields
  <2>3. periods \in Nat
    BY <2>2, VaultAssumption, DivFloor
  <2>4. soFar \in Nat
    <3> HIDE DEF periods
    <3>1. periods * expected \in Nat
      BY <2>3, Fields, MulNat
    <3> QED
      BY <3>1, Fields DEF Lesser
  <2>5. SatSub(soFar, totalRepaid) \in Nat
    <3> HIDE DEF soFar
    <3> QED
      BY <2>4, Fields DEF SatSub
  <2> DEFINE missing == SatSub(soFar, totalRepaid)
  <2>6. missing \in Nat
    BY <2>5
  <2> HIDE DEF missing, days
  <2>7. missing * LateBps \in Nat
    BY <2>6, VaultAssumption, MulNat
  <2>8. (missing * LateBps) * days \in Nat
    BY <2>1, <2>7, MulNat
  <2>9. ((missing * LateBps) * days) \div Bps \in Nat
    BY <2>8, VaultAssumption, DivFloor
  <2> QED
    BY <1>1, <2>9 DEF LateFee, missing, days
<1>2. CASE ~ Late
    BY <1>2 DEF LateFee
<1> QED
    BY <1>1, <1>2

LEMMA NextDueNat ==
    ASSUME VaultTypeOK
    PROVE  NextDue \in Nat
<1>1. CASE Late
  <2>1. now - due \in Nat
    BY <1>1, Fields DEF Late
  <2>2. (now - due) \div Interval + 1 \in Nat
    BY <2>1, VaultAssumption, DivFloor
  <2>3. ((now - due) \div Interval + 1) * Interval \in Nat
    BY <2>2, VaultAssumption, MulNat
  <2> QED
    BY <1>1, <2>3, Fields DEF NextDue
<1>2. CASE ~ Late
    BY <1>2, Fields DEF NextDue
<1> QED
    BY <1>1, <1>2

(* What the waterfall gives to the roles, out of what each is still owed *)
LEMMA DistributeSplits ==
    ASSUME NEW owed \in [Roles -> Nat], NEW amount \in Nat
    PROVE  LET parts == Distribute(owed, amount)
           IN  /\ parts \in [Roles -> Nat]
               /\ parts["senior"] + parts["pool"] + parts["community"] = amount
               /\ parts["senior"] <= owed["senior"]
               /\ parts["pool"] <= owed["pool"]
               /\ parts["pool"] > 0 => parts["senior"] = owed["senior"]
               /\ parts["community"] > 0 => /\ parts["senior"] = owed["senior"]
                                            /\ parts["pool"] = owed["pool"]
<1> DEFINE senior == Lesser(amount, owed["senior"])
           pool == Lesser(amount - senior, owed["pool"])
           parts == Distribute(owed, amount)
<1>1. owed["senior"] \in Nat /\ owed["pool"] \in Nat
    BY DEF Roles
<1>2. parts = [r \in Roles |-> CASE r = "senior" -> senior
                                 [] r = "pool" -> pool
                                 [] r = "community" -> amount - senior - pool]
    BY DEF Distribute
<1>3. /\ senior \in Nat /\ senior <= amount /\ senior <= owed["senior"]
      /\ senior < owed["senior"] => senior = amount
    BY <1>1 DEF Lesser
<1> HIDE DEF senior
<1>4. /\ pool \in Nat /\ pool <= amount - senior /\ pool <= owed["pool"]
      /\ pool < owed["pool"] => pool = amount - senior
    BY <1>1, <1>3 DEF Lesser
<1> HIDE DEF pool
<1>5. /\ parts["senior"] = senior /\ parts["pool"] = pool
      /\ parts["community"] = amount - senior - pool
    BY <1>2 DEF Roles
<1>6. parts \in [Roles -> Nat]
    BY <1>2, <1>3, <1>4 DEF Roles
<1> HIDE DEF parts
<1>7. /\ parts["senior"] + parts["pool"] + parts["community"] = amount
      /\ parts["senior"] <= owed["senior"]
      /\ parts["pool"] <= owed["pool"]
      /\ parts["pool"] > 0 => parts["senior"] = owed["senior"]
      /\ parts["community"] > 0 => /\ parts["senior"] = owed["senior"]
                                   /\ parts["pool"] = owed["pool"]
    BY <1>1, <1>3, <1>4, <1>5
<1> QED
    BY <1>6, <1>7 DEF parts

-----------------------------------------------------------------------------
(* Totals over the investors' accounts *)
LEMMA BalancesUpdate ==
    ASSUME VaultTypeOK, NEW i \in Investors, NEW v \in Nat,
           balances' = [balances EXCEPT ![i] = v]
    PROVE  /\ balances' \in [Investors -> Nat]
           /\ Total(balances', InvestorCount) = Total(balances, InvestorCount) - balances[i] + v
           /\ Total(balances, InvestorCount) \in Nat
<1>1. balances \in [1 .. InvestorCount -> Nat] /\ InvestorCount \in Nat /\ i \in 1 .. InvestorCount
    BY Fields, VaultAssumption DEF Investors
<1>2. Total(balances', InvestorCount) = Total(balances, InvestorCount) - balances[i] + v
    BY <1>1, TotalUpdate
<1> QED
    BY <1>1, <1>2, TotalNat DEF Investors

LEMMA ClaimedUpdate ==
    ASSUME VaultTypeOK, NEW i \in Investors, NEW v \in Nat,
           claimed' = [claimed EXCEPT ![i] = v]
    PROVE  /\ claimed' \in [Investors -> Nat]
           /\ Total(claimed', InvestorCount) = Total(claimed, InvestorCount) - claimed[i] + v
           /\ Total(claimed, InvestorCount) \in Nat
<1>1. claimed \in [1 .. InvestorCount -> Nat] /\ InvestorCount \in Nat /\ i \in 1 .. InvestorCount
    BY Fields, VaultAssumption DEF Investors
<1>2. Total(claimed', InvestorCount) = Total(claimed, InvestorCount) - claimed[i] + v
    BY <1>1, TotalUpdate
<1> QED
    BY <1>1, <1>2, TotalNat DEF Investors

(* Activation gives the community what the other roles did not fund, and fixes  *)
(* a debt of at least what was raised.                                          *)
LEMMA ActivateFacts ==
    ASSUME NEW sum \in Nat, sum <= Target, NEW by \in [Roles -> Nat],
           by["senior"] + by["pool"] <= sum, now \in Nat, Activate(sum, by)
    PROVE  /\ state' = "active"
           /\ funded' \in [Roles -> 0 .. Target]
           /\ funded'["senior"] + funded'["pool"] + funded'["community"] = sum
           /\ toRepay' \in Nat /\ sum <= toRepay'
           /\ activatedAt' = now
           /\ due' \in Nat /\ expected' \in Nat
<1> DEFINE owed == sum + (sum * InterestBps) \div Bps
<1>1. owed \in Nat /\ sum <= owed
  <2>1. (sum * InterestBps) \div Bps \in Nat
    BY VaultAssumption, MulNat, DivFloor
  <2> QED
    BY <2>1
<1>2. Starts(sum, by, owed)
    BY DEF Activate
<1> HIDE DEF owed
<1>3. /\ state' = "active" /\ toRepay' = owed /\ activatedAt' = now
      /\ funded' = [by EXCEPT !["community"] = sum - by["senior"] - by["pool"]]
    BY <1>2 DEF Starts
<1>4. due' \in Nat
    BY <1>2, VaultAssumption DEF Starts
<1>5. expected' \in Nat
  <2>1. CASE LateBps > 0 /\ Periods > 0
    <3>1. expected' = owed \div Periods
      BY <1>2, <2>1 DEF Starts
    <3> QED
      BY <1>1, <2>1, <3>1, VaultAssumption, DivFloor
  <2>2. CASE ~ (LateBps > 0 /\ Periods > 0)
    BY <1>2, <2>2 DEF Starts
  <2> QED
    BY <2>1, <2>2
<1>6. /\ by["senior"] \in Nat /\ by["pool"] \in Nat /\ Target \in Nat
      /\ funded'["senior"] = by["senior"] /\ funded'["pool"] = by["pool"]
      /\ funded'["community"] = sum - by["senior"] - by["pool"]
    BY <1>3, VaultAssumption DEF Roles
<1>7. funded' \in [Roles -> 0 .. Target]
  <2>1. \A r \in Roles : funded'[r] \in 0 .. Target
    BY <1>6 DEF Roles
  <2> QED
    BY <1>3, <2>1
<1> QED
    BY <1>1, <1>3, <1>4, <1>5, <1>6, <1>7

(* Right after activation nothing is repaid or drawn, and the books are square  *)
LEMMA ActivateKeeps ==
    ASSUME VaultInv, state = "fundraising",
           NEW by \in [Roles -> Nat], raised' \in Nat, raised' <= Target,
           by["senior"] + by["pool"] <= raised', Activate(raised', by),
           balances' \in [Investors -> Nat],
           \A i \in Investors : balances'[i] <= raised',
           given' \in [Investors -> [Roles -> Nat]],
           \A i \in Investors, r \in Roles : given'[i][r] <= raised',
           Total(balances', InvestorCount) = raised',
           seniors' \subseteq Investors, pools' \subseteq Investors \ seniors',
           cash' = raised',
           UNCHANGED <<now, tranches, totalRepaid, repaid, claimed, snapshot>>
    PROVE  VaultInv'
<1>1. /\ VaultTypeOK
      /\ totalRepaid = 0 /\ tranches = 0
      /\ \A r \in Roles : repaid[r] = 0
      /\ \A i \in Investors : claimed[i] = 0
    BY DEF VaultInv, Fundraising
<1>2. now \in Nat /\ now \in 1 .. MaxTime
    BY <1>1, Fields
<1>3. /\ state' = "active"
      /\ funded' \in [Roles -> 0 .. Target]
      /\ funded'["senior"] + funded'["pool"] + funded'["community"] = raised'
      /\ toRepay' \in Nat /\ raised' <= toRepay'
      /\ activatedAt' = now
      /\ due' \in Nat /\ expected' \in Nat
  <2>1. PICK sum : sum = raised'
    OBVIOUS
  <2>2. sum \in Nat /\ sum <= Target /\ by["senior"] + by["pool"] <= sum /\ Activate(sum, by)
    BY <2>1
  <2> QED
    BY <1>2, <2>1, <2>2, ActivateFacts
<1>4. VaultTypeOK'
  <2>1. balances' \in [Investors -> 0 .. Target] /\ given' \in [Investors -> [Roles -> 0 .. Target]]
    BY VaultAssumption
  <2>2. /\ tranches' \in 0 .. Tranches /\ totalRepaid' \in Nat /\ snapshot' \in Nat
        /\ repaid' \in [Roles -> Nat] /\ claimed' \in [Investors -> Nat]
    BY <1>1 DEF VaultTypeOK
  <2> QED
    BY <1>2, <1>3, <2>1, <2>2 DEF VaultTypeOK, States
<1>5. WaterfallOrder' /\ Bounded'
  <2>1. repaid'["senior"] = 0 /\ repaid'["pool"] = 0 /\ repaid'["community"] = 0
    BY <1>1 DEF Roles
  <2>2. funded'["senior"] >= 0 /\ funded'["pool"] >= 0
    BY <1>3 DEF Roles
  <2> QED
    BY <1>1, <1>2, <1>3, <2>1, <2>2 DEF WaterfallOrder, Bounded
<1>6. CashIsAccounted'
  <2>1. claimed' = [i \in 1 .. InvestorCount |-> 0]
    BY <1>1, Fields DEF Investors
  <2>2. Total(claimed', InvestorCount) = 0
    BY <2>1, VaultAssumption, TotalZero
  <2>3. Released(tranches)' = 0
    <3>1. raised' \div Tranches \in Nat
      BY VaultAssumption, DivFloor
    <3>2. tranches' = 0 /\ tranches' # Tranches
      BY <1>1, VaultAssumption
    <3> QED
      BY <3>1, <3>2 DEF Released
  <2>4. cash' + Released(tranches)' + Total(claimed', InvestorCount) = raised' + totalRepaid'
    BY <1>1, <2>2, <2>3
  <2> QED
    BY <2>4 DEF CashIsAccounted
<1>7. Fundraising' /\ Started' /\ Completed' /\ Shares' /\ RefundsCovered'
    BY <1>3 DEF Fundraising, Started, Completed, Shares, RefundsCovered
<1> QED
    BY <1>4, <1>5, <1>6, <1>7 DEF VaultInv

LEMMA InvestKeeps ==
    ASSUME VaultInv, NEW i \in Investors, NEW amount \in Invests, NEW role \in Roles,
           Invest(i, amount, role)
    PROVE  VaultInv'
<1> DEFINE by == IF role = "community" THEN funded ELSE [funded EXCEPT ![role] = @ + amount]
<1>1. /\ VaultTypeOK
      /\ amount \in Nat
      /\ state = "fundraising"
      /\ raised + amount <= Target
      /\ raised' = raised + amount
      /\ cash' = cash + amount
      /\ balances' = [balances EXCEPT ![i] = balances[i] + amount]
      /\ UNCHANGED <<now, tranches, totalRepaid, repaid, claimed, snapshot>>
  <2>1. VaultTypeOK /\ amount \in Nat
    BY VaultAssumption DEF VaultInv
  <2>2. balances' = [balances EXCEPT ![i] = balances[i] + amount]
    BY DEF Invest
  <2>3. /\ state = "fundraising"
        /\ raised + amount <= Target
        /\ raised' = raised + amount
        /\ cash' = cash + amount
    BY DEF Invest
  <2>4. UNCHANGED <<now, tranches, totalRepaid, repaid, claimed, snapshot>>
    BY DEF Invest
  <2> QED
    BY <2>1, <2>2, <2>3, <2>4
<1>2. /\ balances[i] + amount \in Nat
      /\ balances' \in [Investors -> Nat]
      /\ Total(balances', InvestorCount) = raised'
  <2>1. balances[i] + amount \in Nat
    BY <1>1, Fields
  <2>2. /\ balances' \in [Investors -> Nat]
        /\ Total(balances', InvestorCount)
              = Total(balances, InvestorCount) - balances[i] + (balances[i] + amount)
        /\ Total(balances, InvestorCount) \in Nat
    BY <1>1, <2>1, BalancesUpdate
  <2>3. Total(balances, InvestorCount) = raised
    BY <1>1 DEF VaultInv, Shares
  <2> QED
    BY <1>1, <2>1, <2>2, <2>3, Fields
<1>3. /\ \A j \in Investors : balances'[j] <= raised'
      /\ given' \in [Investors -> [Roles -> Nat]]
      /\ \A j \in Investors, r \in Roles : given'[j][r] <= raised'
  <2>1. /\ \A j \in Investors : balances[j] <= raised
        /\ \A j \in Investors, r \in Roles : given[j][r] <= raised
    BY DEF VaultInv, Bounded
  <2>2. given' = [given EXCEPT ![i] = [given[i] EXCEPT ![role] = given[i][role] + amount]]
    BY <1>1, Fields DEF Invest
  <2>3. \A j \in Investors, r \in Roles : given[j][r] \in Nat
    BY <1>1, Fields
  <2>4. PICK h : h = [given[i] EXCEPT ![role] = given[i][role] + amount]
    OBVIOUS
  <2>5. h \in [Roles -> Nat] /\ \A r \in Roles : h[r] <= raised + amount
    BY <1>1, <2>1, <2>3, <2>4, Fields
  <2>6. given' \in [Investors -> [Roles -> Nat]]
    BY <1>1, <2>2, <2>4, <2>5, Fields
  <2>7. \A j \in Investors, r \in Roles : given'[j][r] <= raised'
    BY <1>1, <2>1, <2>2, <2>3, <2>4, <2>5, Fields
  <2>8. \A j \in Investors : balances'[j] <= raised'
    BY <1>1, <2>1, Fields
  <2> QED
    BY <2>6, <2>7, <2>8
<1>4. /\ by \in [Roles -> Nat]
      /\ by["community"] = 0
      /\ by["senior"] + by["pool"] <= raised'
  <2>1. funded["community"] = 0 /\ funded["senior"] + funded["pool"] <= raised
    BY <1>1 DEF VaultInv, Fundraising
  <2>2. /\ funded["senior"] \in Nat /\ funded["pool"] \in Nat
        /\ \A r \in Roles : funded[r] \in Nat
    BY <1>1, Fields DEF Roles
  <2>3. CASE role = "community"
    BY <1>1, <2>1, <2>2, <2>3, Fields
  <2>4. CASE role \in {"senior", "pool"}
    <3>1. by = [funded EXCEPT ![role] = funded[role] + amount]
      BY <2>4
    <3> QED
      BY <1>1, <2>1, <2>2, <2>4, <3>1, Fields DEF Roles
  <2> QED
    BY <2>3, <2>4 DEF Roles
<1>5. seniors' \subseteq Investors /\ pools' \subseteq Investors \ seniors'
  <2>1. seniors \subseteq Investors /\ pools \subseteq Investors \ seniors
    BY <1>1 DEF VaultTypeOK
  <2>2. /\ MayInvestAs(i, role)
        /\ seniors' = IF role = "senior" THEN seniors \cup {i} ELSE seniors
        /\ pools' = IF role = "pool" THEN pools \cup {i} ELSE pools
    BY DEF Invest
  <2> QED
    BY <2>1, <2>2 DEF MayInvestAs
<1>6. cash' = raised'
    BY <1>1 DEF VaultInv, Fundraising
<1>7. raised' \in Nat /\ raised' <= Target /\ Target \in Nat
    BY <1>1, Fields, VaultAssumption
<1>8. CASE raised + amount = Target
  <2>1. Activate(raised', by)
    BY <1>1, <1>8 DEF Invest
  <2> HIDE DEF by
  <2> QED
    BY <1>1, <1>2, <1>3, <1>4, <1>5, <1>6, <1>7, <2>1, ActivateKeeps
<1>9. CASE raised + amount # Target
  <2>1. StaysOpen(by)
    BY <1>9 DEF Invest
  <2> HIDE DEF by
  <2>2. funded' = by /\ UNCHANGED <<state, toRepay, expected, activatedAt, due>>
    BY <2>1 DEF StaysOpen, terms
  <2>3. /\ totalRepaid = 0 /\ tranches = 0
        /\ \A r \in Roles : repaid[r] = 0
        /\ \A j \in Investors : claimed[j] = 0
    BY <1>1 DEF VaultInv, Fundraising
  <2>4. /\ by["senior"] \in Nat /\ by["pool"] \in Nat /\ by["community"] \in Nat
        /\ \A r \in Roles : by[r] <= Target
    BY <1>4, <1>7 DEF Roles
  <2>5. VaultTypeOK'
    <3>1. balances' \in [Investors -> 0 .. Target] /\ given' \in [Investors -> [Roles -> 0 .. Target]]
      BY <1>2, <1>3, <1>7
    <3>2. funded' \in [Roles -> 0 .. Target]
      BY <1>4, <1>7, <2>2, <2>4
    <3>3. raised' \in 0 .. Target /\ cash' \in Nat
      BY <1>6, <1>7
    <3>4. /\ now' \in 1 .. MaxTime /\ state' \in States /\ tranches' \in 0 .. Tranches
          /\ {toRepay', expected', activatedAt', due', totalRepaid', snapshot'} \subseteq Nat
          /\ repaid' \in [Roles -> Nat] /\ claimed' \in [Investors -> Nat]
      BY <1>1, <2>2 DEF VaultTypeOK
    <3> QED
      BY <1>5, <3>1, <3>2, <3>3, <3>4 DEF VaultTypeOK
  <2>6. Fundraising'
    BY <1>1, <1>4, <1>6, <2>2, <2>3 DEF Fundraising
  <2>7. WaterfallOrder' /\ Bounded'
    <3>1. repaid'["senior"] = 0 /\ repaid'["pool"] = 0 /\ repaid'["community"] = 0
      BY <1>1, <2>3 DEF Roles
    <3>2. activatedAt' <= now'
      BY <1>1, <2>2 DEF VaultInv, Bounded
    <3> QED
      BY <1>1, <1>3, <2>2, <2>3, <2>4, <3>1, <3>2 DEF WaterfallOrder, Bounded
  <2>8. CashIsAccounted'
    <3>1. claimed' = [j \in 1 .. InvestorCount |-> 0]
      BY <1>1, <2>3, Fields DEF Investors
    <3>2. Total(claimed', InvestorCount) = 0
      BY <3>1, VaultAssumption, TotalZero
    <3>3. Released(tranches)' = 0
      BY <1>1, <2>3, VaultAssumption DEF Released
    <3>4. cash' + Released(tranches)' + Total(claimed', InvestorCount) = raised' + totalRepaid'
      BY <1>1, <1>6, <1>7, <2>3, <3>2, <3>3
    <3> QED
      BY <3>4 DEF CashIsAccounted
  <2>9. Started' /\ Completed' /\ Shares' /\ RefundsCovered'
    BY <1>1, <1>2, <2>2 DEF Started, Completed, Shares, RefundsCovered
  <2> QED
    BY <2>5, <2>6, <2>7, <2>8, <2>9 DEF VaultInv
<1> QED
    BY <1>8, <1>9

LEMMA ManualKeeps ==
    ASSUME VaultInv, CompleteFundraisingManual
    PROVE  VaultInv'
<1>1. /\ state = "fundraising" /\ Activate(raised, funded)
      /\ UNCHANGED <<now, raised, balances, seniors, pools, given,
                     tranches, totalRepaid, repaid, claimed, snapshot, cash>>
    BY DEF CompleteFundraisingManual, investing
<1>2. VaultTypeOK /\ Fundraising /\ Bounded /\ Shares
    BY DEF VaultInv
<1>3. /\ raised \in Nat /\ raised <= Target /\ funded \in [Roles -> Nat]
      /\ balances \in [Investors -> Nat] /\ given \in [Investors -> [Roles -> Nat]]
      /\ seniors \subseteq Investors /\ pools \subseteq Investors \ seniors
    BY <1>2, Fields DEF VaultTypeOK
<1>4. /\ cash = raised /\ funded["senior"] + funded["pool"] <= raised
      /\ Total(balances, InvestorCount) = raised
      /\ \A i \in Investors : balances[i] <= raised
      /\ \A i \in Investors, r \in Roles : given[i][r] <= raised
    BY <1>1, <1>2 DEF Fundraising, Bounded, Shares
<1> QED
    BY <1>1, <1>3, <1>4, ActivateKeeps

LEMMA CancelKeeps ==
    ASSUME VaultInv, Cancel \/ AutoCancelExpired
    PROVE  VaultInv'
<1>1. /\ state = "fundraising" /\ state' = "cancelled"
      /\ UNCHANGED <<now, raised, balances, seniors, pools, given, funded, tranches, toRepay,
                     expected, activatedAt, totalRepaid, repaid, due, claimed, snapshot, cash>>
    BY DEF Cancel, AutoCancelExpired, Expired, investing, terms, paying
<1>2. VaultTypeOK /\ Fundraising /\ Bounded /\ Shares /\ WaterfallOrder
    BY DEF VaultInv
<1>3. VaultTypeOK' /\ Bounded' /\ WaterfallOrder'
    BY <1>1, <1>2 DEF VaultTypeOK, Bounded, WaterfallOrder, States
<1>4. Fundraising' /\ Started' /\ Completed' /\ Shares' /\ CashIsAccounted'
    BY <1>1 DEF Fundraising, Started, Completed, Shares, CashIsAccounted
<1>5. RefundsCovered'
  <2>1. [i \in Investors |-> Refund(i)]' = balances
    BY <1>1, <1>2, Fields DEF Refund
  <2>2. Total(balances, InvestorCount) = cash
    BY <1>1, <1>2 DEF Fundraising, Shares
  <2> QED
    BY <1>1, <1>2, <2>1, <2>2, Fields DEF RefundsCovered
<1> QED
    BY <1>3, <1>4, <1>5 DEF VaultInv

LEMMA ReleaseKeeps ==
    ASSUME VaultInv, ReleaseTranche
    PROVE  VaultInv'
<1>1. /\ state \in {"active", "repaying"} /\ tranches < Tranches /\ tranches' = tranches + 1
      /\ Released(tranches + 1) - Released(tranches) <= cash
      /\ cash' = cash - (Released(tranches + 1) - Released(tranches))
      /\ UNCHANGED <<now, state, raised, balances, seniors, pools, given, funded, toRepay,
                     expected, activatedAt, totalRepaid, repaid, due, claimed, snapshot>>
    BY DEF ReleaseTranche, Open, investing, terms, paying
<1>2. /\ VaultTypeOK /\ Started /\ Bounded /\ Shares /\ WaterfallOrder /\ CashIsAccounted
      /\ Completed
    BY DEF VaultInv
<1>3. tranches \in Nat /\ Tranches \in Nat /\ cash \in Nat
    BY <1>2, Fields, VaultAssumption
<1>4. Released(tranches) \in Nat /\ Released(tranches + 1) \in Nat
    BY <1>2, <1>3, ReleasedNat
<1>5. Released(tranches)' = Released(tranches + 1)
    BY <1>1 DEF Released
<1>6. cash' \in Nat /\ tranches' \in 0 .. Tranches
    BY <1>1, <1>3, <1>4
<1>7. VaultTypeOK'
    BY <1>1, <1>2, <1>6 DEF VaultTypeOK
<1>8. Bounded' /\ WaterfallOrder' /\ Fundraising' /\ Started' /\ Completed' /\ Shares'
    BY <1>1, <1>2 DEF Bounded, WaterfallOrder, Fundraising, Started, Completed, Shares
<1>9. CashIsAccounted'
  <2>1. cash + Released(tranches) + Total(claimed, InvestorCount) = raised + totalRepaid
    BY <1>1, <1>2 DEF CashIsAccounted
  <2>2. Total(claimed, InvestorCount) \in Nat
    BY <1>2, Fields, VaultAssumption, TotalNat DEF Investors
  <2>3. cash' + Released(tranches)' + Total(claimed', InvestorCount) = raised' + totalRepaid'
    BY <1>1, <1>3, <1>4, <1>5, <2>1, <2>2
  <2> QED
    BY <2>3 DEF CashIsAccounted
<1>10. RefundsCovered'
    BY <1>1 DEF RefundsCovered
<1> QED
    BY <1>7, <1>8, <1>9, <1>10 DEF VaultInv

(* Each role gets what the waterfall gives it out of what it is still owed, so  *)
(* the order of the roles survives every repayment.                             *)
LEMMA RepaymentKeeps ==
    ASSUME VaultInv, NEW part \in Repayments, ProcessRepayment(part)
    PROVE  VaultInv'
<1> DEFINE owed == [r \in Roles |-> SatSub(funded[r], repaid[r])]
           parts == Distribute(owed, Net(part))
<1>1. /\ state \in {"active", "repaying"}
      /\ toRepay' = toRepay + LateFee /\ due' = NextDue
      /\ totalRepaid' = totalRepaid + Net(part) /\ cash' = cash + Net(part)
      /\ repaid' = [r \in Roles |-> repaid[r] + parts[r]]
      /\ state' = IF totalRepaid + Net(part) >= toRepay + LateFee THEN "completed" ELSE "repaying"
      /\ UNCHANGED <<now, raised, balances, seniors, pools, given, funded, tranches,
                     expected, activatedAt, claimed, snapshot>>
    BY DEF ProcessRepayment, Pays, Open, investing
<1>2. /\ VaultTypeOK /\ Started /\ Bounded /\ Shares /\ WaterfallOrder /\ CashIsAccounted
    BY DEF VaultInv
<1>3. /\ Net(part) \in Nat /\ NextDue \in Nat /\ LateFee \in Nat
    BY <1>2, NetNat, NextDueNat, LateFeeNat DEF Bounded
<1>4. owed \in [Roles -> Nat]
    BY <1>2, Fields DEF SatSub
<1>5. /\ parts \in [Roles -> Nat]
      /\ parts["senior"] + parts["pool"] + parts["community"] = Net(part)
      /\ parts["senior"] <= owed["senior"]
      /\ parts["pool"] <= owed["pool"]
      /\ parts["pool"] > 0 => parts["senior"] = owed["senior"]
      /\ parts["community"] > 0 => parts["senior"] = owed["senior"] /\ parts["pool"] = owed["pool"]
  <2> HIDE DEF owed
  <2> QED
    BY <1>3, <1>4, DistributeSplits
<1>6. /\ repaid["senior"] <= funded["senior"] /\ repaid["pool"] <= funded["pool"]
      /\ funded["senior"] \in Nat /\ funded["pool"] \in Nat
      /\ repaid["senior"] \in Nat /\ repaid["pool"] \in Nat /\ repaid["community"] \in Nat
      /\ owed["senior"] = funded["senior"] - repaid["senior"]
      /\ owed["pool"] = funded["pool"] - repaid["pool"]
    BY <1>2, Fields DEF Bounded, SatSub, Roles
<1> HIDE DEF owed, parts
<1>7. /\ repaid' \in [Roles -> Nat]
      /\ repaid'["senior"] = repaid["senior"] + parts["senior"]
      /\ repaid'["pool"] = repaid["pool"] + parts["pool"]
      /\ repaid'["community"] = repaid["community"] + parts["community"]
      /\ parts["senior"] \in Nat /\ parts["pool"] \in Nat /\ parts["community"] \in Nat
    BY <1>1, <1>2, <1>5, Fields DEF Roles
<1>8. VaultTypeOK'
  <2>1. /\ toRepay' \in Nat /\ totalRepaid' \in Nat /\ cash' \in Nat /\ due' \in Nat
        /\ state' \in States
    BY <1>1, <1>2, <1>3, Fields DEF States
  <2> QED
    BY <1>1, <1>2, <1>7, <2>1 DEF VaultTypeOK
<1>9. Bounded'
  <2>1. repaid'["senior"] <= funded["senior"] /\ repaid'["pool"] <= funded["pool"]
    BY <1>5, <1>6, <1>7
  <2> QED
    BY <1>1, <1>2, <2>1 DEF Bounded
<1>10. WaterfallOrder'
  <2>1. /\ repaid["senior"] + repaid["pool"] + repaid["community"] = totalRepaid
        /\ repaid["pool"] > 0 => repaid["senior"] = funded["senior"]
        /\ repaid["community"] > 0 =>
              repaid["senior"] = funded["senior"] /\ repaid["pool"] = funded["pool"]
    BY <1>2 DEF WaterfallOrder
  <2>2. repaid'["senior"] + repaid'["pool"] + repaid'["community"] = totalRepaid'
    BY <1>1, <1>5, <1>6, <1>7, <2>1
  <2>3. repaid'["pool"] > 0 => repaid'["senior"] = funded["senior"]
    BY <1>5, <1>6, <1>7, <2>1
  <2>4. repaid'["community"] > 0 =>
           repaid'["senior"] = funded["senior"] /\ repaid'["pool"] = funded["pool"]
    <3>1. repaid'["community"] > 0 => repaid["community"] > 0 \/ parts["community"] > 0
      BY <1>6, <1>7
    <3>2. CASE repaid["community"] > 0
      BY <1>5, <1>6, <1>7, <2>1, <3>2
    <3>3. CASE parts["community"] > 0
      BY <1>5, <1>6, <1>7, <3>3
    <3> QED
      BY <3>1, <3>2, <3>3
  <2> QED
    BY <1>1, <2>2, <2>3, <2>4 DEF WaterfallOrder
<1>11. Started' /\ Completed' /\ Shares' /\ Fundraising' /\ RefundsCovered'
  <2>1. raised <= toRepay /\ raised \in Nat /\ toRepay \in Nat
    BY <1>1, <1>2, Fields DEF Started
  <2>2. raised' <= toRepay'
    BY <1>1, <1>3, <2>1
  <2> QED
    BY <1>1, <1>2, <2>2 DEF Started, Completed, Shares, Fundraising, RefundsCovered
<1>12. CashIsAccounted'
  <2>1. cash + Released(tranches) + Total(claimed, InvestorCount) = raised + totalRepaid
    BY <1>1, <1>2 DEF CashIsAccounted
  <2>2. Released(tranches)' = Released(tranches) /\ Released(tranches) \in Nat
    BY <1>1, <1>2, Fields, ReleasedNat DEF Released
  <2>3. Total(claimed, InvestorCount) \in Nat
    BY <1>2, Fields, VaultAssumption, TotalNat DEF Investors
  <2>4. /\ cash' = cash + Net(part) /\ totalRepaid' = totalRepaid + Net(part)
        /\ Total(claimed', InvestorCount) = Total(claimed, InvestorCount) /\ raised' = raised
    BY <1>1
  <2>5. cash \in Nat /\ totalRepaid \in Nat /\ raised \in Nat
    BY <1>2, Fields
  <2>6. cash' + Released(tranches)' + Total(claimed', InvestorCount) = raised' + totalRepaid'
    <3>1. PICK r \in Nat : r = Released(tranches)
      BY <2>2
    <3>2. PICK t \in Nat : t = Total(claimed, InvestorCount)
      BY <2>3
    <3>3. PICK n \in Nat : n = Net(part)
      BY <1>3
    <3>4. cash + r + t = raised + totalRepaid
      BY <2>1, <3>1, <3>2
    <3>5. (cash + n) + r + t = raised + (totalRepaid + n)
      BY <2>5, <3>4
    <3> QED
      BY <2>2, <2>4, <3>1, <3>2, <3>3, <3>5
  <2> QED
    BY <2>6 DEF CashIsAccounted
<1> QED
    BY <1>8, <1>9, <1>10, <1>11, <1>12 DEF VaultInv

(* A default fixes what is left; the shares of it, each rounded down, are no    *)
(* more than it.                                                                *)
LEMMA DefaultKeeps ==
    ASSUME VaultInv, NEW byAdmin \in BOOLEAN, MarkDefault(byAdmin)
    PROVE  VaultInv'
<1>1. /\ state \in {"active", "repaying"} /\ state' = "defaulted" /\ snapshot' = cash
      /\ UNCHANGED <<now, raised, balances, seniors, pools, given, funded, tranches, toRepay,
                     expected, activatedAt, totalRepaid, repaid, due, claimed, cash>>
    BY DEF MarkDefault, Open, investing, terms, paying
<1>2. VaultTypeOK /\ Started /\ Bounded /\ Shares /\ WaterfallOrder
    BY DEF VaultInv
<1>3. /\ balances \in [1 .. InvestorCount -> Nat] /\ InvestorCount \in Nat
      /\ Investors = 1 .. InvestorCount
      /\ cash \in Nat /\ raised \in Nat
      /\ Total(balances, InvestorCount) = raised
      /\ \A i \in Investors : balances[i] \in Nat /\ balances[i] <= raised
    BY <1>1, <1>2, Fields, VaultAssumption DEF Investors, Shares, Bounded
<1>4. VaultTypeOK' /\ Bounded' /\ WaterfallOrder'
    BY <1>1, <1>2, <1>3 DEF VaultTypeOK, Bounded, WaterfallOrder, States
<1>5. Fundraising' /\ Started' /\ Completed' /\ Shares' /\ CashIsAccounted'
    BY <1>1, <1>2 DEF Fundraising, Started, Completed, Shares, CashIsAccounted
<1>6. RefundsCovered'
  <2> DEFINE refunds == [i \in Investors |-> Refund(i)]
  <2>1. refunds' = [i \in Investors |-> IF balances[i] = 0 THEN 0 ELSE (balances[i] * cash) \div raised]
    BY <1>1, <1>3 DEF Refund
  <2>2. CASE raised = 0
    <3>1. refunds' = [i \in 1 .. InvestorCount |-> 0]
      BY <1>3, <2>1, <2>2
    <3>2. Total(refunds', InvestorCount) = 0
      BY <1>3, <3>1, TotalZero
    <3> QED
      BY <1>1, <1>3, <3>2 DEF RefundsCovered
  <2>3. CASE raised # 0
    <3>1. raised \in Nat \ {0}
      BY <1>3, <2>3
    <3>2. ASSUME NEW i \in Investors, balances[i] = 0
          PROVE  (balances[i] * cash) \div raised = 0
      <4>1. (balances[i] * cash) = 0
        BY <1>3, <3>2
      <4>2. 0 \div raised = 0
        BY <3>1
      <4> QED
        BY <4>1, <4>2
    <3>3. refunds' = [i \in 1 .. InvestorCount |-> (balances[i] * cash) \div raised]
      BY <1>3, <2>1, <3>2
    <3>4. Total(refunds', InvestorCount) <= cash
      BY <1>3, <3>1, <3>3, TotalShares
    <3> QED
      BY <1>1, <3>4 DEF RefundsCovered
  <2> QED
    BY <2>2, <2>3
<1> QED
    BY <1>4, <1>5, <1>6 DEF VaultInv

LEMMA ClaimKeeps ==
    ASSUME VaultInv, NEW i \in Investors, ClaimReturns(i)
    PROVE  VaultInv'
<1>1. PICK c : c = Claimable(i)
    OBVIOUS
<1>2. /\ state \in {"repaying", "completed"} /\ c \in 1 .. cash
      /\ claimed' = [claimed EXCEPT ![i] = claimed[i] + c]
      /\ cash' = cash - c
      /\ UNCHANGED <<now, state, raised, balances, seniors, pools, given, funded, tranches, toRepay,
                     expected, activatedAt, totalRepaid, repaid, due, snapshot>>
    BY <1>1 DEF ClaimReturns, investing, terms, paying
<1>3. /\ VaultTypeOK /\ Started /\ Bounded /\ Shares /\ WaterfallOrder /\ Completed
      /\ CashIsAccounted
    BY DEF VaultInv
<1>4. cash \in Nat /\ c \in Nat /\ claimed[i] \in Nat /\ raised \in Nat /\ totalRepaid \in Nat
    BY <1>2, <1>3, Fields
<1>5. cash' \in Nat /\ claimed[i] + c \in Nat
    BY <1>2, <1>4
<1>6. /\ claimed' \in [Investors -> Nat]
      /\ Total(claimed', InvestorCount) = Total(claimed, InvestorCount) - claimed[i] + (claimed[i] + c)
      /\ Total(claimed, InvestorCount) \in Nat
    BY <1>2, <1>3, <1>5, ClaimedUpdate
<1>7. VaultTypeOK'
    BY <1>2, <1>3, <1>5, <1>6 DEF VaultTypeOK
<1>8. Bounded' /\ WaterfallOrder' /\ Fundraising' /\ Started' /\ Completed' /\ Shares'
    BY <1>2, <1>3 DEF Bounded, WaterfallOrder, Fundraising, Started, Completed, Shares
<1>9. CashIsAccounted'
  <2>1. cash + Released(tranches) + Total(claimed, InvestorCount) = raised + totalRepaid
    BY <1>2, <1>3 DEF CashIsAccounted
  <2>2. Released(tranches)' = Released(tranches) /\ Released(tranches) \in Nat
    BY <1>2, <1>3, Fields, ReleasedNat DEF Released
  <2>3. PICK r \in Nat, t \in Nat : r = Released(tranches) /\ t = Total(claimed, InvestorCount)
    BY <1>6, <2>2
  <2>4. cash + r + t = raised + totalRepaid
    BY <2>1, <2>3
  <2>5. (cash - c) + r + (t + c) = raised + totalRepaid
    BY <1>4, <2>4
  <2>6. Total(claimed', InvestorCount) = t + c
    BY <1>4, <1>6, <2>3
  <2>7. cash' + Released(tranches)' + Total(claimed', InvestorCount) = raised' + totalRepaid'
    BY <1>2, <2>2, <2>3, <2>5, <2>6
  <2> QED
    BY <2>7 DEF CashIsAccounted
<1>10. RefundsCovered'
    BY <1>2 DEF RefundsCovered
<1> QED
    BY <1>7, <1>8, <1>9, <1>10 DEF VaultInv

(* A refund takes from what is left no more than its own share *)
LEMMA RefundKeeps ==
    ASSUME VaultInv, NEW i \in Investors, ClaimRefund(i)
    PROVE  VaultInv'
<1>1. PICK c : c = Refund(i)
    OBVIOUS
<1>2. /\ state \in {"cancelled", "defaulted"} /\ c <= cash
      /\ balances' = [balances EXCEPT ![i] = 0]
      /\ cash' = cash - c
      /\ UNCHANGED <<now, state, raised, seniors, pools, given, funded, tranches, toRepay,
                     expected, activatedAt, totalRepaid, repaid, due, claimed, snapshot>>
    BY <1>1 DEF ClaimRefund, terms, paying
<1>3. /\ VaultTypeOK /\ Started /\ Bounded /\ WaterfallOrder /\ RefundsCovered
    BY DEF VaultInv
<1>4. /\ cash \in Nat /\ snapshot \in Nat /\ raised \in Nat
      /\ balances \in [Investors -> Nat]
      /\ \A j \in Investors : balances[j] \in Nat /\ balances[j] <= raised
    BY <1>3, Fields DEF Bounded
<1>5. \A j \in Investors : Refund(j) \in Nat
  <2> SUFFICES ASSUME NEW j \in Investors PROVE Refund(j) \in Nat
    OBVIOUS
  <2>1. CASE state = "cancelled" \/ balances[j] = 0
    BY <1>4, <2>1 DEF Refund
  <2>2. CASE ~ (state = "cancelled" \/ balances[j] = 0)
    <3>1. raised \in Nat \ {0} /\ balances[j] * snapshot \in Nat
      BY <1>4, <2>2, MulNat
    <3> QED
      BY <2>2, <3>1, DivFloor DEF Refund
  <2> QED
    BY <2>1, <2>2
<1>6. c \in Nat /\ cash' \in Nat
    BY <1>1, <1>2, <1>4, <1>5
<1>7. VaultTypeOK'
  <2>1. balances' \in [Investors -> 0 .. Target]
    BY <1>2, <1>3, VaultAssumption DEF VaultTypeOK
  <2> QED
    BY <1>2, <1>3, <1>6, <2>1 DEF VaultTypeOK
<1>8. Bounded'
    BY <1>2, <1>3, <1>4 DEF Bounded
<1>9. WaterfallOrder' /\ Fundraising' /\ Started' /\ Completed' /\ Shares' /\ CashIsAccounted'
    BY <1>2, <1>3 DEF WaterfallOrder, Fundraising, Started, Completed, Shares, CashIsAccounted
<1>10. RefundsCovered'
  <2> DEFINE refunds == [j \in Investors |-> Refund(j)]
  <2>1. \A j \in Investors : Refund(j)' = IF j = i THEN 0 ELSE Refund(j)
    BY <1>2, <1>4 DEF Refund
  <2>2. refunds' = [refunds EXCEPT ![i] = 0]
    BY <2>1
  <2>3. refunds \in [1 .. InvestorCount -> Nat] /\ i \in 1 .. InvestorCount /\ InvestorCount \in Nat
    BY <1>5, VaultAssumption DEF Investors
  <2>4. PICK f : f = refunds
    OBVIOUS
  <2>5. Total(f, InvestorCount) <= cash /\ f[i] = c
    BY <1>1, <1>2, <1>3, <2>4 DEF RefundsCovered
  <2>6. /\ Total([f EXCEPT ![i] = 0], InvestorCount) = Total(f, InvestorCount) - f[i] + 0
        /\ Total(f, InvestorCount) \in Nat
    BY <2>3, <2>4, TotalUpdate, TotalNat
  <2>7. Total([f EXCEPT ![i] = 0], InvestorCount) <= cash - c
    BY <1>4, <1>6, <2>5, <2>6
  <2>8. Total(refunds', InvestorCount) <= cash'
    BY <1>2, <2>2, <2>4, <2>7
  <2> QED
    BY <2>8 DEF RefundsCovered
<1> QED
    BY <1>7, <1>8, <1>9, <1>10 DEF VaultInv

LEMMA TickKeeps ==
    ASSUME VaultInv, Tick
    PROVE  VaultInv'
<1>1. /\ now' = now + 1 /\ now < MaxTime
      /\ UNCHANGED <<state, raised, balances, seniors, pools, given, funded, tranches, toRepay,
                     expected, activatedAt, totalRepaid, repaid, due, claimed, snapshot, cash>>
    BY DEF Tick, investing, terms, paying
<1>2. /\ VaultTypeOK /\ Started /\ Bounded /\ Shares /\ WaterfallOrder /\ Completed
      /\ CashIsAccounted /\ RefundsCovered /\ Fundraising
    BY DEF VaultInv
<1>3. now' \in 1 .. MaxTime
    BY <1>1, <1>2, VaultAssumption DEF VaultTypeOK
<1>4. VaultTypeOK'
    BY <1>1, <1>2, <1>3 DEF VaultTypeOK
<1>5. Bounded'
    BY <1>1, <1>2, Fields DEF Bounded
<1>6. CashIsAccounted' /\ RefundsCovered'
    BY <1>1, <1>2 DEF CashIsAccounted, RefundsCovered, Released, Refund
<1>7. WaterfallOrder' /\ Fundraising' /\ Started' /\ Completed' /\ Shares'
    BY <1>1, <1>2 DEF WaterfallOrder, Fundraising, Started, Completed, Shares
<1> QED
    BY <1>4, <1>5, <1>6, <1>7 DEF VaultInv

LEMMA StutterKeeps ==
    ASSUME VaultInv, UNCHANGED vaultVars
    PROVE  VaultInv'
<1>1. UNCHANGED <<now, state, raised, balances, seniors, pools, given, funded, tranches, toRepay,
                  expected, activatedAt, totalRepaid, repaid, due, claimed, snapshot, cash>>
    BY DEF vaultVars, investing, terms, paying
<1> QED
    BY <1>1 DEF VaultInv, VaultTypeOK, Fundraising, Started, Bounded, Completed, WaterfallOrder,
       Shares, CashIsAccounted, RefundsCovered, Released, Refund

LEMMA CallKeeps ==
    ASSUME VaultInv, AnyCall
    PROVE  VaultInv'
    BY InvestKeeps, ManualKeeps, CancelKeeps, ReleaseKeeps, RepaymentKeeps, DefaultKeeps,
       ClaimKeeps, RefundKeeps, TickKeeps DEF AnyCall

-----------------------------------------------------------------------------
(* A vault starts with VaultInv. *)
THEOREM InitVaultInv == Init => VaultInv
<1> SUFFICES ASSUME Init PROVE VaultInv
    OBVIOUS
<1>1. /\ now = 1 /\ state = "fundraising" /\ raised = 0
      /\ balances = [i \in Investors |-> 0] /\ seniors = {} /\ pools = {}
      /\ funded = None /\ tranches = 0 /\ toRepay = 0 /\ expected = 0 /\ activatedAt = 0
      /\ due = 0 /\ totalRepaid = 0 /\ repaid = None /\ claimed = [i \in Investors |-> 0]
      /\ snapshot = 0 /\ cash = 0 /\ given = [i \in Investors |-> None]
    BY DEF Init
<1>2. None \in [Roles -> 0 .. Target] /\ \A r \in Roles : None[r] = 0
    BY VaultAssumption DEF None
<1>3. VaultTypeOK
    BY <1>1, <1>2, VaultAssumption DEF VaultTypeOK, States
<1>4. Total(balances, InvestorCount) = 0 /\ Total(claimed, InvestorCount) = 0
    BY <1>1, VaultAssumption, TotalZero DEF Investors
<1>5. Fundraising /\ Started /\ Completed /\ Shares /\ RefundsCovered
    BY <1>1, <1>2, <1>4 DEF Fundraising, Started, Completed, Shares, RefundsCovered, Roles
<1>6. Bounded /\ WaterfallOrder
    BY <1>1, <1>2 DEF Bounded, WaterfallOrder, Roles
<1>7. CashIsAccounted
  <2>1. Released(tranches) = 0
    BY <1>1, VaultAssumption DEF Released
  <2> QED
    BY <1>1, <1>4, <2>1 DEF CashIsAccounted
<1> QED
    BY <1>3, <1>5, <1>6, <1>7 DEF VaultInv

(* Every step keeps VaultInv: the vault's calls by the lemma of each, and the   *)
(* others because they leave the vault alone.                                   *)
THEOREM StepVaultInv == VaultInv /\ [Next]_vars => VaultInv'
    BY StepIsCall, CallKeeps, StutterKeeps

(* VaultInv holds in every reachable state. *)
THEOREM VaultInvHolds == Spec => []VaultInv
    BY InitVaultInv, StepVaultInv, PTL DEF Spec

KeeperTypes ==
    /\ settlement \in BOOLEAN
    /\ cancelling \in {"idle", "call"}
    /\ defaulting \in {"idle", "read", "call", "send", "deactivate"}
    /\ looked \in Nat
    /\ faults \in 0 .. MaxFaults

LEMMA StepKeeperTypes == VaultInv /\ KeeperTypes /\ [Next]_vars => KeeperTypes'
<1> SUFFICES ASSUME VaultInv, KeeperTypes, [Next]_vars PROVE KeeperTypes'
    OBVIOUS
<1> due \in Nat
    BY Fields DEF VaultInv
<1> USE DEF KeeperTypes, Task, Leaves
<1>1. CASE VaultCalls /\ UNCHANGED keeperVars
    BY <1>1 DEF keeperVars
<1>2. ASSUME NEW part \in Repayments, RoutePayment(part) PROVE KeeperTypes'
    BY <1>2 DEF RoutePayment, keeperVars
<1>3. CASE DeactivateSettlement \/ CreateSettlement
    BY <1>3 DEF DeactivateSettlement, CreateSettlement
<1>4. CASE SeesFundraising \/ CallsCancel
    BY <1>4 DEF SeesFundraising, CallsCancel
<1>5. CASE SeesRepaying \/ ReadsShouldDefault
    BY <1>5 DEF SeesRepaying, ReadsShouldDefault
<1>6. CASE SimulatesMarkDefault
    BY <1>6 DEF SimulatesMarkDefault
<1>7. CASE MarkDefaultIncluded
  <2>1. defaulting' = "deactivate" /\ looked' = 0 /\ UNCHANGED <<settlement, cancelling, faults>>
    BY <1>7 DEF MarkDefaultIncluded
  <2> QED
    BY <2>1
<1>8. CASE CallsDeactivate
    BY <1>8 DEF CallsDeactivate
<1>9. CASE TaskFails \/ Restart
    BY <1>9, KeeperAssumption DEF TaskFails, Restart
<1>10. CASE UNCHANGED vars
    BY <1>10 DEF vars, keeperVars
<1> QED
    BY <1>1, <1>2, <1>3, <1>4, <1>5, <1>6, <1>7, <1>8, <1>9, <1>10 DEF Next, Keeper

(* Every variable stays in its type: no balance, debt or count of a vault goes  *)
(* below zero or past its target, and no investor is both senior and pool.      *)
THEOREM TypeCorrect == Spec => []TypeOK
<1>1. Init => KeeperTypes
    BY KeeperAssumption DEF Init, KeeperTypes
<1>2. VaultInv /\ KeeperTypes => TypeOK
    BY DEF VaultInv, KeeperTypes, TypeOK
<1> QED
    BY <1>1, <1>2, VaultInvHolds, StepKeeperTypes, PTL DEF Spec

(* A vault's USDC is what came in less what went out (MerchantVault.sol, every  *)
(* function that moves USDC).                                                   *)
THEOREM CashAccounted == Spec => []CashIsAccounted
<1>1. VaultInv => CashIsAccounted
    BY DEF VaultInv
<1> QED
    BY <1>1, VaultInvHolds, PTL

(* WaterfallLib's order of the roles holds over all repayments together, and    *)
(* not only within each.                                                        *)
THEOREM OrderKept == Spec => []WaterfallOrder
<1>1. VaultInv => WaterfallOrder
    BY DEF VaultInv
<1> QED
    BY <1>1, VaultInvHolds, PTL

(* A vault completes only with every role's principal back: what completes it   *)
(* is counted after fees, and the waterfall fills the roles one by one.         *)
THEOREM CompletedWhole == Spec => []CompletedMakesWhole
<1>1. VaultInv => CompletedMakesWhole
  <2> SUFFICES ASSUME VaultInv, state = "completed" PROVE \A r \in Roles : repaid[r] >= funded[r]
    BY DEF CompletedMakesWhole
  <2>1. VaultTypeOK /\ Started /\ Bounded /\ Completed /\ WaterfallOrder
    BY DEF VaultInv
  <2>2. /\ funded["senior"] + funded["pool"] + funded["community"] = raised
        /\ raised <= toRepay /\ totalRepaid >= toRepay
        /\ repaid["senior"] <= funded["senior"] /\ repaid["pool"] <= funded["pool"]
    BY <2>1 DEF Started, Bounded, Completed
  <2>3. /\ repaid["senior"] + repaid["pool"] + repaid["community"] = totalRepaid
        /\ repaid["pool"] > 0 => repaid["senior"] = funded["senior"]
        /\ repaid["community"] > 0 =>
              repaid["senior"] = funded["senior"] /\ repaid["pool"] = funded["pool"]
    BY <2>1 DEF WaterfallOrder
  <2>4. /\ repaid["senior"] \in Nat /\ repaid["pool"] \in Nat /\ repaid["community"] \in Nat
        /\ funded["senior"] \in Nat /\ funded["pool"] \in Nat /\ funded["community"] \in Nat
        /\ raised \in Nat /\ toRepay \in Nat /\ totalRepaid \in Nat
    BY <2>1, Fields DEF Roles
  <2>5. /\ repaid["senior"] >= funded["senior"] /\ repaid["pool"] >= funded["pool"]
        /\ repaid["community"] >= funded["community"]
    BY <2>2, <2>3, <2>4
  <2> QED
    BY <2>5 DEF Roles
<1> QED
    BY <1>1, VaultInvHolds, PTL

(* After a default or a cancellation the order in which investors claim their   *)
(* refunds does not matter: every one of them can be paid.                      *)
THEOREM RefundsAlwaysCovered == Spec => []RefundsCovered
<1>1. VaultInv => RefundsCovered
    BY DEF VaultInv
<1> QED
    BY <1>1, VaultInvHolds, PTL

-----------------------------------------------------------------------------
(* What the keeper has read.  From the time it found the vault overdue, an open *)
(* vault is overdue or its due date has moved on.                               *)
Scheduled == due > 0 => LateBps > 0

Overtaken ==
    defaulting \in {"call", "send"} =>
        /\ state # "fundraising"
        /\ looked <= due
        /\ Open => ShouldDefault \/ due > looked

KeeperInv == VaultInv /\ KeeperTypes /\ Scheduled /\ Overtaken

(* A repayment of an overdue vault moves the due date on, past the time it is   *)
(* made at, and no repayment moves it back.                                     *)
LEMMA NextDueLater ==
    ASSUME VaultTypeOK, Scheduled
    PROVE  NextDue \in Nat /\ NextDue >= due /\ (ShouldDefault => NextDue > due)
<1>1. now \in Nat /\ due \in Nat /\ Grace \in Nat /\ Interval \in Nat \ {0}
    BY Fields, VaultAssumption
<1>2. ShouldDefault => Late
    BY <1>1, VaultAssumption DEF ShouldDefault, Late, Scheduled
<1>3. CASE Late
  <2>1. now - due \in Nat
    BY <1>1, <1>3 DEF Late
  <2>2. PICK n \in Nat : n = (now - due) \div Interval
    BY <1>1, <2>1, DivFloor
  <2>3. NextDue = due + (n + 1) * Interval
    BY <1>3, <2>2 DEF NextDue
  <2>4. n * Interval \in Nat
    BY <1>1, MulNat
  <2>5. (n + 1) * Interval = n * Interval + Interval
    BY <1>1
  <2> QED
    BY <1>1, <2>3, <2>4, <2>5
<1>4. CASE ~ Late
    BY <1>1, <1>2, <1>4 DEF NextDue
<1> QED
    BY <1>3, <1>4

LEMMA ActivateScheduled ==
    ASSUME NEW sum, NEW by, Activate(sum, by)
    PROVE  Scheduled'
    BY DEF Activate, Starts, Scheduled

(* What any call does to a vault past its fundraising *)
LEMMA CallKeepsDue ==
    ASSUME VaultTypeOK, Scheduled, AnyCall
    PROVE  /\ Scheduled'
           /\ state # "fundraising" =>
                 /\ state' # "fundraising"
                 /\ due <= due'
                 /\ Open' => Open /\ (ShouldDefault => ShouldDefault' \/ due' > due)
<1> DEFINE Kept ==
        state # "fundraising" =>
            /\ state' # "fundraising"
            /\ due <= due'
            /\ Open' => Open /\ (ShouldDefault => ShouldDefault' \/ due' > due)
<1>1. due \in Nat /\ now \in Nat /\ Grace \in Nat
    BY Fields, VaultAssumption
<1>2. ASSUME NEW i \in Investors, NEW amount \in Invests, NEW role \in Roles,
             Invest(i, amount, role)
      PROVE  Scheduled' /\ Kept
  <2> DEFINE by == IF role = "community" THEN funded ELSE [funded EXCEPT ![role] = @ + amount]
  <2>1. state = "fundraising" /\ (Activate(Target, by) \/ StaysOpen(by))
    BY <1>2 DEF Invest
  <2>2. Scheduled'
    <3> HIDE DEF by
    <3> QED
      BY <2>1, ActivateScheduled DEF StaysOpen, Scheduled
  <2> QED
    BY <2>1, <2>2
<1>3. CASE CompleteFundraisingManual \/ Cancel \/ AutoCancelExpired
    BY <1>3, ActivateScheduled
       DEF CompleteFundraisingManual, Cancel, AutoCancelExpired, Expired, paying, Scheduled
<1>4. ASSUME NEW part \in Repayments, ProcessRepayment(part)
      PROVE  Scheduled' /\ Kept
  <2>1. Open /\ due' = NextDue /\ state' # "fundraising"
    BY <1>4 DEF ProcessRepayment, Pays
  <2>2. Scheduled'
    BY <1>1, <2>1, VaultAssumption DEF Scheduled, NextDue, Late
  <2> QED
    BY <2>1, <2>2, NextDueLater
<1>5. ASSUME NEW byAdmin \in BOOLEAN, MarkDefault(byAdmin)
      PROVE  Scheduled' /\ Kept
    BY <1>1, <1>5 DEF MarkDefault, paying, Scheduled, Open
<1>6. ASSUME NEW i \in Investors, ClaimReturns(i) \/ ClaimRefund(i)
      PROVE  Scheduled' /\ Kept
    BY <1>1, <1>6 DEF ClaimReturns, ClaimRefund, paying, Scheduled, Open, ShouldDefault
<1>7. CASE ReleaseTranche
    BY <1>1, <1>7 DEF ReleaseTranche, paying, Scheduled, Open, ShouldDefault
<1>8. CASE Tick
    BY <1>1, <1>8 DEF Tick, paying, Scheduled, Open, ShouldDefault
<1> QED
    BY <1>2, <1>3, <1>4, <1>5, <1>6, <1>7, <1>8 DEF AnyCall

LEMMA StutterKeepsDue ==
    ASSUME UNCHANGED vaultVars
    PROVE  UNCHANGED <<state, due>> /\ Open' = Open /\ ShouldDefault' = ShouldDefault
    BY DEF vaultVars, paying, Open, ShouldDefault

(* The keeper's task: where it is and what it has read *)
TaskStep ==
    \/ UNCHANGED <<defaulting, looked>>
    \/ defaulting' \notin {"call", "send"}
    \/ /\ UNCHANGED vaultVars
       /\ \/ ShouldDefault /\ looked' = due
          \/ defaulting = "call" /\ looked' = looked

LEMMA StepIsTaskStep == [Next]_vars => TaskStep
<1> SUFFICES ASSUME [Next]_vars PROVE TaskStep
    OBVIOUS
<1> USE DEF TaskStep, Task, Leaves
<1>1. CASE VaultCalls /\ UNCHANGED keeperVars
    BY <1>1 DEF keeperVars
<1>2. ASSUME NEW part \in Repayments, RoutePayment(part) PROVE TaskStep
    BY <1>2 DEF RoutePayment, keeperVars
<1>3. CASE DeactivateSettlement \/ CreateSettlement \/ SeesFundraising \/ CallsCancel
    BY <1>3 DEF DeactivateSettlement, CreateSettlement, SeesFundraising, CallsCancel
<1>4. CASE SeesRepaying \/ ReadsShouldDefault \/ SimulatesMarkDefault
    BY <1>4 DEF SeesRepaying, ReadsShouldDefault, Eligible, SimulatesMarkDefault
<1>5. CASE MarkDefaultIncluded \/ CallsDeactivate \/ TaskFails \/ Restart
    BY <1>5 DEF MarkDefaultIncluded, CallsDeactivate, TaskFails, Restart
<1>6. CASE UNCHANGED vars
    BY <1>6 DEF vars, keeperVars
<1> QED
    BY <1>1, <1>2, <1>3, <1>4, <1>5, <1>6 DEF Next, Keeper

LEMMA StepOvertaken ==
    KeeperInv /\ [Next]_vars => Scheduled' /\ Overtaken'
<1> SUFFICES ASSUME KeeperInv, [Next]_vars PROVE Scheduled' /\ Overtaken'
    OBVIOUS
<1>1. VaultTypeOK /\ due \in Nat /\ looked \in Nat /\ Scheduled /\ Overtaken
    BY Fields DEF KeeperInv, VaultInv, KeeperTypes
<1>2. due' \in Nat
    BY StepVaultInv, Fields DEF KeeperInv, VaultInv, VaultTypeOK
<1>3. AnyCall \/ UNCHANGED vaultVars
    BY StepIsCall
<1>4. Scheduled'
    BY <1>1, <1>3, CallKeepsDue, StutterKeepsDue DEF Scheduled
<1>5. CASE UNCHANGED <<defaulting, looked>>
  <2> SUFFICES ASSUME defaulting \in {"call", "send"}
               PROVE  /\ state' # "fundraising"
                      /\ looked <= due'
                      /\ Open' => ShouldDefault' \/ due' > looked
    BY <1>4, <1>5 DEF Overtaken
  <2>1. state # "fundraising" /\ looked <= due /\ (Open => ShouldDefault \/ due > looked)
    BY <1>1 DEF Overtaken
  <2>2. /\ state' # "fundraising" /\ due <= due'
        /\ Open' => Open /\ (ShouldDefault => ShouldDefault' \/ due' > due)
    BY <1>1, <1>3, <2>1, CallKeepsDue, StutterKeepsDue
  <2> QED
    BY <1>1, <1>2, <2>1, <2>2
<1>6. CASE defaulting' \notin {"call", "send"}
    BY <1>4, <1>6 DEF Overtaken
<1>7. CASE UNCHANGED vaultVars /\ ShouldDefault /\ looked' = due
    BY <1>1, <1>4, <1>7, StutterKeepsDue DEF Overtaken, ShouldDefault, Open
<1>8. CASE UNCHANGED vaultVars /\ defaulting = "call" /\ looked' = looked
    BY <1>1, <1>4, <1>8, StutterKeepsDue DEF Overtaken
<1> QED
    BY <1>5, <1>6, <1>7, <1>8, StepIsTaskStep DEF TaskStep

(* A keeper that is also the administrator passes every check of markDefault.   *)
(* Even so it defaults a vault that is not overdue only if a repayment moved    *)
(* the due date after the keeper had read it: for any fee, grace and schedule.  *)
THEOREM KeeperOvertaken == Spec => OnlyPaymentsOvertakeKeeper
<1>1. Init => KeeperInv
    BY InitVaultInv, KeeperAssumption DEF Init, KeeperInv, KeeperTypes, Scheduled, Overtaken
<1>2. KeeperInv /\ [Next]_vars => KeeperInv'
    BY StepVaultInv, StepKeeperTypes, StepOvertaken DEF KeeperInv
<1>3. KeeperInv /\ [Next]_vars => [KeeperDefaults => ShouldDefault \/ due > looked]_vars
  <2> SUFFICES ASSUME KeeperInv, [Next]_vars, KeeperDefaults
               PROVE  ShouldDefault \/ due > looked
    OBVIOUS
  <2>1. Open
    <3> USE DEF KeeperDefaults
    <3>1. CASE (VaultCalls /\ UNCHANGED keeperVars)
               \/ (\E part \in Repayments : RoutePayment(part)) \/ UNCHANGED vars
      BY <3>1 DEF RoutePayment, keeperVars, vars
    <3>2. CASE DeactivateSettlement \/ CreateSettlement \/ TaskFails \/ Restart
      BY <3>2 DEF DeactivateSettlement, CreateSettlement, TaskFails, Restart, Leaves, Task
    <3>3. CASE SeesFundraising \/ CallsCancel \/ SeesRepaying \/ ReadsShouldDefault
               \/ SimulatesMarkDefault \/ CallsDeactivate
      BY <3>3 DEF SeesFundraising, CallsCancel, SeesRepaying, ReadsShouldDefault,
         SimulatesMarkDefault, CallsDeactivate, Leaves, Task
    <3>4. CASE MarkDefaultIncluded
      BY <3>4 DEF MarkDefaultIncluded, MarkDefault, vaultVars
    <3> QED
      BY <3>1, <3>2, <3>3, <3>4 DEF Next, Keeper
  <2> QED
    BY <2>1 DEF KeeperInv, Overtaken, KeeperDefaults
<1> QED
    BY <1>1, <1>2, <1>3, PTL DEF Spec, OnlyPaymentsOvertakeKeeper

-----------------------------------------------------------------------------
(* Claims.  What investors gave by role is what the roles have; while nobody is *)
(* refunded, an investor's balance is what it gave.                             *)
Gave(r) == [i \in Investors |-> given[i][r]]

Roled ==
    state \notin {"cancelled", "defaulted"} =>
        /\ \A i \in Investors :
              balances[i] = given[i]["senior"] + given[i]["pool"] + given[i]["community"]
        /\ \A i \in Investors : i \in seniors <=> given[i]["senior"] > 0
        /\ \A i \in Investors : i \in pools <=> given[i]["pool"] > 0
        /\ \A r \in {"senior", "pool"} : Total(Gave(r), InvestorCount) = funded[r]

(* What an investor has been entitled to so far, claimed or not *)
Share(i, r) == IF funded[r] = 0 THEN 0 ELSE (balances[i] * repaid[r]) \div funded[r]

ClaimedWithin ==
    state \in {"active", "repaying", "completed"} =>
        \A i \in Investors : claimed[i] <= Share(i, RoleOf(i))

ClaimInv == Roled /\ ClaimedWithin

LEMMA RoleOfIsRole ==
    ASSUME NEW i \in Investors
    PROVE  RoleOf(i) \in Roles
    BY DEF RoleOf, Roles

LEMMA ShareNat ==
    ASSUME VaultTypeOK, NEW i \in Investors, NEW r \in Roles
    PROVE  Share(i, r) \in Nat
<1>1. /\ balances[i] \in Nat /\ repaid[r] \in Nat /\ funded[r] \in Nat
    BY Fields
<1>2. CASE funded[r] = 0
    BY <1>2 DEF Share
<1>3. CASE funded[r] # 0
    BY <1>1, <1>3, MulNat, DivFloor DEF Share
<1> QED
    BY <1>2, <1>3

(* A step that leaves alone what investors gave and what they gave it as *)
LEMMA RoledStays ==
    ASSUME Roled, state \notin {"cancelled", "defaulted"},
           UNCHANGED <<balances, given, seniors, pools>>,
           funded'["senior"] = funded["senior"], funded'["pool"] = funded["pool"]
    PROVE  Roled'
<1>1. \A r \in {"senior", "pool"} : Gave(r)' = Gave(r) /\ funded'[r] = funded[r]
    BY DEF Gave
<1> QED
    BY <1>1 DEF Roled

LEMMA ActivateFunded ==
    ASSUME NEW sum, NEW by \in [Roles -> Nat], Activate(sum, by)
    PROVE  funded'["senior"] = by["senior"] /\ funded'["pool"] = by["pool"]
<1>1. funded' = [by EXCEPT !["community"] = sum - by["senior"] - by["pool"]]
    BY DEF Activate, Starts
<1> QED
    BY <1>1 DEF Roles

LEMMA InvestRoled ==
    ASSUME VaultInv, ClaimInv,
           NEW i \in Investors, NEW amount \in Invests, NEW role \in Roles, Invest(i, amount, role)
    PROVE  Roled'
<1> DEFINE by == IF role = "community" THEN funded ELSE [funded EXCEPT ![role] = @ + amount]
<1>1. /\ VaultTypeOK /\ Roled /\ amount \in Nat \ {0} /\ state = "fundraising"
    BY VaultAssumption DEF Invest, VaultInv, ClaimInv
<1>2. /\ balances' = [balances EXCEPT ![i] = balances[i] + amount]
      /\ given' = [given EXCEPT ![i] = [given[i] EXCEPT ![role] = given[i][role] + amount]]
      /\ seniors' = IF role = "senior" THEN seniors \cup {i} ELSE seniors
      /\ pools' = IF role = "pool" THEN pools \cup {i} ELSE pools
    BY <1>1, Fields DEF Invest
<1>3. /\ \A j \in Investors :
            balances[j] = given[j]["senior"] + given[j]["pool"] + given[j]["community"]
      /\ \A j \in Investors : j \in seniors <=> given[j]["senior"] > 0
      /\ \A j \in Investors : j \in pools <=> given[j]["pool"] > 0
      /\ \A r \in {"senior", "pool"} : Total(Gave(r), InvestorCount) = funded[r]
    BY <1>1 DEF Roled
<1>4. /\ \A j \in Investors, r \in Roles : given[j][r] \in Nat
      /\ \A j \in Investors : /\ given[j]["senior"] \in Nat /\ given[j]["pool"] \in Nat
                              /\ given[j]["community"] \in Nat
      /\ \A r \in Roles : funded[r] \in Nat
      /\ funded \in [Roles -> Nat] /\ balances \in [Investors -> Nat]
    BY <1>1, Fields DEF Roles
<1>5. \A j \in Investors, r \in Roles :
          given'[j][r] = IF j = i /\ r = role THEN given[j][r] + amount ELSE given[j][r]
    BY <1>1, <1>2, Fields
<1>6. by \in [Roles -> Nat]
      /\ \A r \in {"senior", "pool"} : by[r] = IF r = role THEN funded[r] + amount ELSE funded[r]
    BY <1>1, <1>4 DEF Roles
<1>7. funded'["senior"] = by["senior"] /\ funded'["pool"] = by["pool"]
  <2>1. Activate(Target, by) \/ StaysOpen(by)
    BY DEF Invest
  <2> HIDE DEF by
  <2> QED
    BY <1>6, <2>1, ActivateFunded DEF StaysOpen
<1>8. \A j \in Investors :
          balances'[j] = given'[j]["senior"] + given'[j]["pool"] + given'[j]["community"]
  <2> SUFFICES ASSUME NEW j \in Investors
               PROVE  balances'[j] = given'[j]["senior"] + given'[j]["pool"] + given'[j]["community"]
    OBVIOUS
  <2>1. CASE j = i
    <3>1. balances'[j] = balances[j] + amount
      BY <1>2, <1>4, <2>1
    <3> QED
      BY <1>1, <1>3, <1>4, <1>5, <2>1, <3>1 DEF Roles
  <2>2. CASE j # i
    BY <1>2, <1>3, <1>4, <1>5, <2>2 DEF Roles
  <2> QED
    BY <2>1, <2>2
<1>9. /\ \A j \in Investors : j \in seniors' <=> given'[j]["senior"] > 0
      /\ \A j \in Investors : j \in pools' <=> given'[j]["pool"] > 0
  <2>1. /\ \A j \in Investors : given'[j]["senior"] =
              IF j = i /\ role = "senior" THEN given[j]["senior"] + amount ELSE given[j]["senior"]
        /\ \A j \in Investors : given'[j]["pool"] =
              IF j = i /\ role = "pool" THEN given[j]["pool"] + amount ELSE given[j]["pool"]
    BY <1>5 DEF Roles
  <2> QED
    BY <1>1, <1>2, <1>3, <1>4, <2>1
<1>10. ASSUME NEW r \in {"senior", "pool"}
       PROVE  Total(Gave(r)', InvestorCount) = funded'[r]
  <2>1. r \in Roles
    BY DEF Roles
  <2>2. PICK f : f = Gave(r)
    OBVIOUS
  <2>3. /\ f \in [1 .. InvestorCount -> Nat] /\ i \in 1 .. InvestorCount /\ InvestorCount \in Nat
        /\ Total(f, InvestorCount) = funded[r]
    BY <1>3, <1>4, <2>1, <2>2, VaultAssumption DEF Gave, Investors
  <2>4. CASE r = role
    <3>1. Gave(r)' = [f EXCEPT ![i] = f[i] + amount]
      BY <1>5, <2>1, <2>2, <2>4 DEF Gave
    <3>2. f[i] \in Nat /\ f[i] + amount \in Nat
      BY <1>1, <2>3
    <3>3. Total([f EXCEPT ![i] = f[i] + amount], InvestorCount) =
             Total(f, InvestorCount) - f[i] + (f[i] + amount)
      BY <2>3, <3>2, TotalUpdate
    <3>4. funded'[r] = funded[r] + amount
      BY <1>6, <1>7, <2>4
    <3> QED
      BY <1>1, <1>4, <2>1, <2>3, <3>1, <3>2, <3>3, <3>4
  <2>5. CASE r # role
    <3>1. Gave(r)' = f
      BY <1>5, <2>1, <2>2, <2>5 DEF Gave
    <3>2. funded'[r] = funded[r]
      BY <1>6, <1>7, <2>5
    <3> QED
      BY <2>3, <3>1, <3>2
  <2> QED
    BY <2>4, <2>5
<1> QED
    BY <1>8, <1>9, <1>10 DEF Roled

LEMMA StepRoled ==
    ASSUME VaultInv, ClaimInv, AnyCall
    PROVE  Roled'
<1> USE DEF ClaimInv
<1>1. ASSUME NEW i \in Investors, NEW amount \in Invests, NEW role \in Roles,
             Invest(i, amount, role)
      PROVE  Roled'
    BY <1>1, InvestRoled
<1>2. CASE CompleteFundraisingManual
  <2>1. /\ funded \in [Roles -> Nat] /\ Activate(raised, funded) /\ state = "fundraising"
        /\ UNCHANGED <<balances, given, seniors, pools>>
    BY <1>2, Fields DEF CompleteFundraisingManual, VaultInv, investing
  <2>2. funded'["senior"] = funded["senior"] /\ funded'["pool"] = funded["pool"]
    BY <2>1, ActivateFunded
  <2> QED
    BY <2>1, <2>2, RoledStays
<1>3. CASE Cancel \/ AutoCancelExpired \/ \E byAdmin \in BOOLEAN : MarkDefault(byAdmin)
    BY <1>3 DEF Cancel, AutoCancelExpired, MarkDefault, Roled
<1>4. ASSUME ReleaseTranche \/ (\E part \in Repayments : ProcessRepayment(part))
      PROVE  Roled'
  <2>1. /\ state \in {"active", "repaying"}
        /\ UNCHANGED <<balances, given, seniors, pools, funded>>
    BY <1>4 DEF ReleaseTranche, ProcessRepayment, Pays, Open, investing
  <2> QED
    BY <2>1, RoledStays
<1>5. ASSUME NEW i \in Investors, ClaimReturns(i) PROVE Roled'
  <2>1. /\ state \in {"repaying", "completed"}
        /\ UNCHANGED <<balances, given, seniors, pools, funded>>
    BY <1>5 DEF ClaimReturns, investing
  <2> QED
    BY <2>1, RoledStays
<1>6. ASSUME NEW i \in Investors, ClaimRefund(i) PROVE Roled'
    BY <1>6 DEF ClaimRefund, Roled
<1>7. CASE Tick
  <2>1. UNCHANGED <<state, balances, given, seniors, pools, funded>>
    BY <1>7 DEF Tick, investing
  <2> QED
    BY <2>1, RoledStays DEF Roled
<1> QED
    BY <1>1, <1>2, <1>3, <1>4, <1>5, <1>6, <1>7 DEF AnyCall

(* A step after activation that lowers nobody's share and pays no claim *)
LEMMA SharesGrow ==
    ASSUME VaultInv, ClaimInv, state \in {"active", "repaying", "completed"}, VaultTypeOK',
           UNCHANGED <<balances, seniors, pools, funded, claimed>>,
           \A r \in Roles : repaid[r] <= repaid'[r]
    PROVE  ClaimedWithin'
<1> SUFFICES ASSUME NEW i \in Investors PROVE claimed'[i] <= Share(i, RoleOf(i))'
    BY DEF ClaimedWithin
<1>1. PICK r \in Roles : r = RoleOf(i)
    BY RoleOfIsRole
<1>2. RoleOf(i)' = r
    BY <1>1 DEF RoleOf
<1>3. VaultTypeOK
    BY DEF VaultInv
<1>4. /\ balances[i] \in Nat /\ repaid[r] \in Nat /\ repaid'[r] \in Nat /\ funded[r] \in Nat
      /\ claimed[i] \in Nat
  <2>1. repaid' \in [Roles -> Nat]
    BY DEF VaultTypeOK
  <2> QED
    BY <1>3, <2>1, Fields
<1>5. claimed[i] <= Share(i, r)
    BY <1>1 DEF ClaimInv, ClaimedWithin
<1>6. CASE funded[r] = 0
    BY <1>2, <1>5, <1>6 DEF Share
<1>7. CASE funded[r] # 0
  <2> DEFINE before == (balances[i] * repaid[r]) \div funded[r]
             after == (balances[i] * repaid'[r]) \div funded[r]
  <2>1. /\ balances[i] * repaid[r] \in Nat /\ balances[i] * repaid'[r] \in Nat
        /\ balances[i] * repaid[r] <= balances[i] * repaid'[r]
    BY <1>4, MulNat, MulMonotone
  <2>2. before <= after
    BY <1>4, <1>7, <2>1, DivMonotone
  <2>3. before \in Nat /\ after \in Nat
    BY <1>4, <1>7, <2>1, DivFloor
  <2>4. Share(i, r) = before /\ Share(i, RoleOf(i))' = after
    BY <1>2, <1>7 DEF Share
  <2> HIDE DEF before, after
  <2> QED
    BY <1>4, <1>5, <2>2, <2>3, <2>4
<1> QED
    BY <1>6, <1>7

LEMMA StepClaimedWithin ==
    ASSUME VaultInv, ClaimInv, AnyCall
    PROVE  ClaimedWithin'
<1>1. VaultInv' /\ VaultTypeOK' /\ VaultTypeOK
    BY CallKeeps DEF VaultInv
<1>2. ASSUME state = "fundraising", UNCHANGED claimed PROVE ClaimedWithin'
  <2> SUFFICES ASSUME NEW i \in Investors PROVE claimed'[i] <= Share(i, RoleOf(i))'
    BY DEF ClaimedWithin
  <2>1. claimed'[i] = 0
    BY <1>2 DEF VaultInv, Fundraising
  <2>2. Share(i, RoleOf(i))' \in Nat
    <3>1. RoleOf(i)' \in Roles
      BY DEF RoleOf, Roles
    <3>2. PICK r \in Roles : r = RoleOf(i)'
      BY <3>1
    <3>3. /\ balances'[i] \in Nat /\ repaid'[r] \in Nat /\ funded'[r] \in Nat
      BY <1>1, VaultAssumption DEF VaultTypeOK
    <3>4. Share(i, RoleOf(i))' = IF funded'[r] = 0 THEN 0 ELSE (balances'[i] * repaid'[r]) \div funded'[r]
      BY <3>2 DEF Share
    <3>5. CASE funded'[r] = 0
      BY <3>4, <3>5
    <3>6. CASE funded'[r] # 0
      BY <3>3, <3>4, <3>6, MulNat, DivFloor
    <3> QED
      BY <3>5, <3>6
  <2> QED
    BY <2>1, <2>2
<1>3. ASSUME NEW i \in Investors, NEW amount \in Invests, NEW role \in Roles,
             Invest(i, amount, role)
      PROVE  ClaimedWithin'
    BY <1>2, <1>3 DEF Invest
<1>4. CASE CompleteFundraisingManual
    BY <1>2, <1>4 DEF CompleteFundraisingManual
<1>5. CASE Cancel \/ AutoCancelExpired \/ \E byAdmin \in BOOLEAN : MarkDefault(byAdmin)
    BY <1>5 DEF Cancel, AutoCancelExpired, MarkDefault, ClaimedWithin
<1>6. \A r \in Roles : repaid[r] \in Nat
    BY <1>1, Fields
<1>7. CASE ReleaseTranche
  <2>1. /\ state \in {"active", "repaying", "completed"}
        /\ UNCHANGED <<balances, seniors, pools, funded, claimed, repaid>>
    BY <1>7 DEF ReleaseTranche, Open, investing, paying
  <2> QED
    BY <1>1, <1>6, <2>1, SharesGrow
<1>8. ASSUME NEW part \in Repayments, ProcessRepayment(part)
      PROVE  ClaimedWithin'
  <2> DEFINE owed == [r \in Roles |-> SatSub(funded[r], repaid[r])]
             parts == Distribute(owed, Net(part))
  <2>1. /\ state \in {"active", "repaying", "completed"}
        /\ UNCHANGED <<balances, seniors, pools, funded, claimed>>
        /\ repaid' = [r \in Roles |-> repaid[r] + parts[r]]
    BY <1>8 DEF ProcessRepayment, Pays, Open, investing
  <2>2. owed \in [Roles -> Nat] /\ Net(part) \in Nat
    BY <1>1, Fields, NetNat DEF SatSub
  <2>3. parts \in [Roles -> Nat]
    <3> HIDE DEF owed
    <3> QED
      BY <2>2, DistributeSplits
  <2> HIDE DEF parts
  <2>4. \A r \in Roles : repaid[r] <= repaid'[r]
    BY <1>6, <2>1, <2>3
  <2> QED
    BY <1>1, <2>1, <2>4, SharesGrow
<1>9. ASSUME NEW i \in Investors, ClaimReturns(i)
      PROVE  ClaimedWithin'
  <2>1. /\ state \in {"repaying", "completed"}
        /\ claimed' = [claimed EXCEPT ![i] = claimed[i] + Claimable(i)]
        /\ UNCHANGED <<balances, seniors, pools, funded, repaid>>
    BY <1>9 DEF ClaimReturns, investing, paying
  <2>2. \A j \in Investors : RoleOf(j)' = RoleOf(j)
    BY <2>1 DEF RoleOf
  <2>3. \A j \in Investors : Share(j, RoleOf(j))' = Share(j, RoleOf(j))
    BY <2>1, <2>2 DEF Share
  <2>4. \A j \in Investors : claimed[j] <= Share(j, RoleOf(j)) /\ claimed[j] \in Nat
    BY <1>1, <2>1, Fields DEF ClaimInv, ClaimedWithin
  <2>5. claimed[i] + Claimable(i) = Share(i, RoleOf(i))
    <3>1. Claimable(i) = IF funded[RoleOf(i)] = 0 THEN 0
                         ELSE SatSub(Share(i, RoleOf(i)), claimed[i])
      BY DEF Claimable, Share
    <3>2. Share(i, RoleOf(i)) \in Nat
      BY <1>1, RoleOfIsRole, ShareNat
    <3>3. funded[RoleOf(i)] = 0 => Share(i, RoleOf(i)) = 0
      BY DEF Share
    <3> QED
      BY <2>4, <3>1, <3>2, <3>3 DEF SatSub
  <2>6. \A j \in Investors : claimed'[j] <= Share(j, RoleOf(j))
    <3> SUFFICES ASSUME NEW j \in Investors PROVE claimed'[j] <= Share(j, RoleOf(j))
      OBVIOUS
    <3>1. claimed \in [Investors -> Nat] /\ Share(i, RoleOf(i)) \in Nat
      BY <1>1, Fields, RoleOfIsRole, ShareNat
    <3>2. CASE j = i
      BY <2>1, <2>5, <3>1, <3>2
    <3>3. CASE j # i
      BY <2>1, <2>4, <3>1, <3>3
    <3> QED
      BY <3>2, <3>3
  <2> QED
    BY <2>3, <2>6 DEF ClaimedWithin
<1>10. ASSUME NEW i \in Investors, ClaimRefund(i) PROVE ClaimedWithin'
    BY <1>10 DEF ClaimRefund, ClaimedWithin
<1>11. CASE Tick
  <2>1. UNCHANGED <<state, balances, seniors, pools, funded, claimed, repaid>>
    BY <1>11 DEF Tick, investing, paying
  <2>2. CASE state \in {"active", "repaying", "completed"}
    BY <1>1, <1>6, <2>1, <2>2, SharesGrow
  <2>3. CASE state \notin {"active", "repaying", "completed"}
    BY <2>1, <2>3 DEF ClaimedWithin
  <2> QED
    BY <2>2, <2>3
<1> QED
    BY <1>3, <1>4, <1>5, <1>7, <1>8, <1>9, <1>10, <1>11 DEF AnyCall

LEMMA InitClaimInv == Init => ClaimInv
<1> SUFFICES ASSUME Init PROVE ClaimInv
    OBVIOUS
<1>1. /\ state = "fundraising" /\ balances = [i \in Investors |-> 0] /\ seniors = {} /\ pools = {}
      /\ given = [i \in Investors |-> None] /\ funded = None
    BY DEF Init
<1>2. /\ \A i \in Investors, r \in Roles : given[i][r] = 0
      /\ \A r \in Roles : funded[r] = 0
    BY <1>1 DEF None
<1>3. \A r \in {"senior", "pool"} : Gave(r) = [i \in 1 .. InvestorCount |-> 0]
    BY <1>2 DEF Gave, Roles, Investors
<1>4. Total([i \in 1 .. InvestorCount |-> 0], InvestorCount) = 0
    BY VaultAssumption, TotalZero
<1>5. \A r \in {"senior", "pool"} : Total(Gave(r), InvestorCount) = funded[r]
    BY <1>2, <1>3, <1>4 DEF Roles
<1> QED
    BY <1>1, <1>2, <1>5 DEF ClaimInv, Roled, ClaimedWithin, Roles

LEMMA StutterClaimInv ==
    ASSUME ClaimInv, UNCHANGED vaultVars
    PROVE  ClaimInv'
<1>1. UNCHANGED <<state, balances, given, seniors, pools, funded, claimed, repaid>>
    BY DEF vaultVars, investing, paying
<1>2. Roled'
    BY <1>1, RoledStays DEF ClaimInv, Roled
<1>3. \A i \in Investors : RoleOf(i)' = RoleOf(i)
    BY <1>1 DEF RoleOf
<1>4. \A i \in Investors : Share(i, RoleOf(i))' = Share(i, RoleOf(i))
    BY <1>1, <1>3 DEF Share
<1> QED
    BY <1>1, <1>2, <1>4 DEF ClaimInv, ClaimedWithin

LEMMA StepClaimInv == VaultInv /\ ClaimInv /\ [Next]_vars => ClaimInv'
<1>1. ASSUME VaultInv, ClaimInv, AnyCall PROVE ClaimInv'
  <2>1. Roled' /\ ClaimedWithin'
    BY <1>1, StepRoled, StepClaimedWithin
  <2> QED
    BY <2>1 DEF ClaimInv
<1> QED
    BY <1>1, StepIsCall, StutterClaimInv

(* What the investors are entitled to for what they gave as r *)
Part(r) == [i \in Investors |-> IF funded[r] = 0 THEN 0 ELSE (given[i][r] * repaid[r]) \div funded[r]]

LEMMA PartWithin ==
    ASSUME VaultTypeOK, NEW r \in Roles, Total(Gave(r), InvestorCount) = funded[r]
    PROVE  Part(r) \in [1 .. InvestorCount -> Nat] /\ Total(Part(r), InvestorCount) <= repaid[r]
<1>1. PICK f, x, d : f = Gave(r) /\ x = repaid[r] /\ d = funded[r]
    OBVIOUS
<1>2. /\ f \in [1 .. InvestorCount -> Nat] /\ x \in Nat /\ d \in Nat /\ InvestorCount \in Nat
      /\ Total(f, InvestorCount) = d
    BY <1>1, Fields, VaultAssumption DEF Gave, Investors
<1>3. CASE d = 0
  <2>1. Part(r) = [i \in 1 .. InvestorCount |-> 0]
    BY <1>1, <1>3 DEF Part, Investors
  <2>2. Total([i \in 1 .. InvestorCount |-> 0], InvestorCount) = 0
    BY <1>2, TotalZero
  <2>3. [i \in 1 .. InvestorCount |-> 0] \in [1 .. InvestorCount -> Nat]
    OBVIOUS
  <2>4. Total(Part(r), InvestorCount) = 0
    BY <2>1, <2>2
  <2>5. Part(r) \in [1 .. InvestorCount -> Nat]
    BY <2>1, <2>3
  <2> QED
    BY <1>1, <1>2, <2>4, <2>5
<1>4. CASE d # 0
  <2>1. Part(r) = [i \in 1 .. InvestorCount |-> (f[i] * x) \div d]
    BY <1>1, <1>4 DEF Part, Gave, Investors
  <2>2. /\ [i \in 1 .. InvestorCount |-> (f[i] * x) \div d] \in [1 .. InvestorCount -> Nat]
        /\ Total([i \in 1 .. InvestorCount |-> (f[i] * x) \div d], InvestorCount) <= x
    <3>1. /\ InvestorCount \in Nat /\ f \in [1 .. InvestorCount -> Nat] /\ x \in Nat
          /\ d \in Nat \ {0} /\ Total(f, InvestorCount) = d
      BY <1>2, <1>4
    <3> QED
      BY <3>1, TotalShares
  <2>3. PICK g : g = [i \in 1 .. InvestorCount |-> (f[i] * x) \div d]
    OBVIOUS
  <2>4. g \in [1 .. InvestorCount -> Nat] /\ Total(g, InvestorCount) <= x
    BY <2>2, <2>3
  <2>5. Part(r) = g
    BY <2>1, <2>3
  <2> QED
    BY <1>1, <2>4, <2>5
<1> QED
    BY <1>3, <1>4

LEMMA OneRole ==
    ASSUME NEW i \in Investors, ~ Mixed(i), NEW r \in Roles, NEW s \in Roles,
           given[i][r] > 0, given[i][s] > 0
    PROVE  r = s
<1> SUFFICES ASSUME r # s PROVE FALSE
    OBVIOUS
<1>1. PICK T : T = {q \in Roles : given[i][q] > 0}
    OBVIOUS
<1>2. IsFiniteSet(T)
  <2>1. IsFiniteSet({"senior"})
    BY FS_Singleton
  <2>2. IsFiniteSet({"senior"} \cup {"pool"})
    BY <2>1, FS_AddElement
  <2>3. IsFiniteSet(({"senior"} \cup {"pool"}) \cup {"community"})
    BY <2>2, FS_AddElement
  <2>4. T \in SUBSET (({"senior"} \cup {"pool"}) \cup {"community"})
    BY <1>1 DEF Roles
  <2> QED
    BY <2>3, <2>4, FS_Subset
<1>3. IsFiniteSet({r} \cup {s}) /\ Cardinality({r} \cup {s}) = 2
  <2>1. IsFiniteSet({r}) /\ Cardinality({r}) = 1
    BY FS_Singleton
  <2>2. s \notin {r}
    OBVIOUS
  <2>3. Cardinality({r} \cup {s}) = Cardinality({r}) + 1 /\ IsFiniteSet({r} \cup {s})
    BY <2>1, <2>2, FS_AddElement
  <2> QED
    BY <2>1, <2>3
<1>4. {r} \cup {s} \in SUBSET T
    BY <1>1
<1>5. Cardinality({r} \cup {s}) <= Cardinality(T) /\ Cardinality(T) \in Nat
    BY <1>2, <1>4, FS_Subset, FS_CardinalityType
<1>6. ~ (Cardinality(T) > 1)
    BY <1>1 DEF Mixed
<1> QED
    BY <1>3, <1>5, <1>6

(* The share of an investor who keeps to one role is what it gave in that role *)
(* earns, and nothing for the others.                                          *)
LEMMA ShareIsParts ==
    ASSUME VaultTypeOK, Roled, state \in {"active", "repaying", "completed"},
           NEW i \in Investors, ~ Mixed(i)
    PROVE  Share(i, RoleOf(i)) = Part("senior")[i] + Part("pool")[i] + Part("community")[i]
<1>1. /\ balances[i] = given[i]["senior"] + given[i]["pool"] + given[i]["community"]
      /\ i \in seniors <=> given[i]["senior"] > 0
      /\ i \in pools <=> given[i]["pool"] > 0
    BY DEF Roled
<1>2. /\ \A r \in Roles : given[i][r] \in Nat /\ funded[r] \in Nat /\ repaid[r] \in Nat
      /\ balances[i] \in Nat
    BY Fields
<1>3. ASSUME NEW r \in Roles, given[i][r] = 0 PROVE Part(r)[i] = 0
  <2>1. given[i][r] * repaid[r] = 0
    BY <1>2, <1>3
  <2>2. PICK d : d = funded[r]
    OBVIOUS
  <2>3. d # 0 => 0 \div d = 0
    BY <1>2, <2>2
  <2> QED
    BY <2>1, <2>2, <2>3 DEF Part
<1>4. ASSUME NEW r \in Roles, balances[i] = given[i][r] PROVE Part(r)[i] = Share(i, r)
    BY <1>4 DEF Part, Share
<1>5. ASSUME NEW r \in Roles PROVE Share(i, r) \in Nat
    BY <1>5, ShareNat
<1>6. ASSUME NEW r \in {"senior", "pool"}, given[i][r] > 0 PROVE funded[r] > 0
  <2>1. PICK f : f = Gave(r)
    OBVIOUS
  <2>2. f \in [1 .. InvestorCount -> Nat] /\ i \in 1 .. InvestorCount /\ f[i] = given[i][r]
    BY <2>1, Fields DEF Gave, Investors, Roles
  <2>3. Total(f, InvestorCount) = funded[r]
    BY <2>1 DEF Roled
  <2>4. f[i] <= funded[r]
    BY <2>2, <2>3, TermLeqTotal, VaultAssumption
  <2> QED
    BY <1>2, <1>6, <2>2, <2>4 DEF Roles
<1>7. /\ "senior" \in Roles /\ "pool" \in Roles /\ "community" \in Roles
    BY DEF Roles
<1>8. CASE given[i]["pool"] > 0
  <2>1. given[i]["senior"] = 0 /\ given[i]["community"] = 0
    BY <1>2, <1>7, <1>8, OneRole
  <2>2. RoleOf(i) = "pool" /\ balances[i] = given[i]["pool"]
    BY <1>1, <1>2, <1>6, <1>7, <1>8, <2>1 DEF RoleOf
  <2> QED
    BY <1>3, <1>4, <1>5, <1>7, <2>1, <2>2
<1>9. CASE given[i]["senior"] > 0
  <2>1. given[i]["pool"] = 0 /\ given[i]["community"] = 0
    BY <1>2, <1>7, <1>9, OneRole
  <2>2. RoleOf(i) = "senior" /\ balances[i] = given[i]["senior"]
    BY <1>1, <1>2, <1>6, <1>7, <1>9, <2>1 DEF RoleOf
  <2> QED
    BY <1>3, <1>4, <1>5, <1>7, <2>1, <2>2
<1>10. CASE given[i]["senior"] = 0 /\ given[i]["pool"] = 0
  <2>1. RoleOf(i) = "community" /\ balances[i] = given[i]["community"]
    BY <1>1, <1>2, <1>7, <1>10 DEF RoleOf
  <2> QED
    BY <1>3, <1>4, <1>5, <1>7, <1>10, <2>1
<1> QED
    BY <1>2, <1>7, <1>8, <1>9, <1>10

(* Taken together investors are never entitled to more than was repaid. *)
LEMMA SharesWithin ==
    ASSUME VaultInv, Roled, state \in {"active", "repaying", "completed"},
           \A i \in Investors : ~ Mixed(i),
           NEW h, h = [i \in Investors |-> Share(i, RoleOf(i))]
    PROVE  h \in [1 .. InvestorCount -> Nat] /\ Total(h, InvestorCount) <= totalRepaid
<1>1. VaultTypeOK /\ Started /\ Shares /\ WaterfallOrder
    BY DEF VaultInv
<1>2. PICK gs, gp, gc : gs = Gave("senior") /\ gp = Gave("pool") /\ gc = Gave("community")
    OBVIOUS
<1>3. /\ "senior" \in Roles /\ "pool" \in Roles /\ "community" \in Roles
      /\ InvestorCount \in Nat /\ Investors = 1 .. InvestorCount
    BY VaultAssumption DEF Roles, Investors
<1>4. /\ gs \in [1 .. InvestorCount -> Nat] /\ gp \in [1 .. InvestorCount -> Nat]
      /\ gc \in [1 .. InvestorCount -> Nat] /\ balances \in [1 .. InvestorCount -> Nat]
    BY <1>1, <1>2, <1>3, Fields DEF Gave
<1>5. Total(gs, InvestorCount) = funded["senior"] /\ Total(gp, InvestorCount) = funded["pool"]
    BY <1>2 DEF Roled
<1>6. Total(gc, InvestorCount) = funded["community"]
  <2>1. PICK m : m = [i \in 1 .. InvestorCount |-> gs[i] + gp[i]]
    OBVIOUS
  <2>2. m \in [1 .. InvestorCount -> Nat]
    BY <1>4, <2>1
  <2>3. Total(m, InvestorCount) = Total(gs, InvestorCount) + Total(gp, InvestorCount)
    BY <1>3, <1>4, <2>1, <2>2, TotalSum
  <2>4. \A i \in 1 .. InvestorCount : balances[i] = m[i] + gc[i]
    BY <1>2, <1>3, <2>1 DEF Roled, Gave
  <2>5. Total(balances, InvestorCount) = Total(m, InvestorCount) + Total(gc, InvestorCount)
    BY <1>3, <1>4, <2>2, <2>4, TotalSum
  <2>6. /\ Total(balances, InvestorCount) = raised
        /\ funded["senior"] + funded["pool"] + funded["community"] = raised
    BY <1>1 DEF Shares, Started
  <2>7. /\ raised \in Nat /\ funded["senior"] \in Nat /\ funded["pool"] \in Nat
        /\ funded["community"] \in Nat /\ Total(gc, InvestorCount) \in Nat
    BY <1>1, <1>3, <1>4, Fields, TotalNat
  <2> QED
    BY <1>5, <2>3, <2>5, <2>6, <2>7
<1>7. PICK ps, pp, pc : ps = Part("senior") /\ pp = Part("pool") /\ pc = Part("community")
    OBVIOUS
<1>8. /\ ps \in [1 .. InvestorCount -> Nat] /\ Total(ps, InvestorCount) <= repaid["senior"]
      /\ pp \in [1 .. InvestorCount -> Nat] /\ Total(pp, InvestorCount) <= repaid["pool"]
      /\ pc \in [1 .. InvestorCount -> Nat] /\ Total(pc, InvestorCount) <= repaid["community"]
  <2>1. \A r \in Roles : Total(Gave(r), InvestorCount) = funded[r]
    BY <1>2, <1>5, <1>6 DEF Roles
  <2> QED
    BY <1>1, <1>3, <1>7, <2>1, PartWithin
<1>9. PICK k : k = [i \in 1 .. InvestorCount |-> ps[i] + pp[i]]
    OBVIOUS
<1>10. k \in [1 .. InvestorCount -> Nat]
    BY <1>8, <1>9
<1>11. Total(k, InvestorCount) = Total(ps, InvestorCount) + Total(pp, InvestorCount)
    BY <1>3, <1>8, <1>9, <1>10, TotalSum
<1>12. \A i \in 1 .. InvestorCount : h[i] = k[i] + pc[i]
    BY <1>1, <1>3, <1>7, <1>9, ShareIsParts
<1>13. h \in [1 .. InvestorCount -> Nat]
  <2>1. \A i \in Investors : Share(i, RoleOf(i)) \in Nat
    BY <1>1, RoleOfIsRole, ShareNat
  <2> QED
    BY <1>3, <2>1
<1>14. Total(h, InvestorCount) = Total(k, InvestorCount) + Total(pc, InvestorCount)
    BY <1>3, <1>8, <1>10, <1>12, <1>13, TotalSum
<1>15. repaid["senior"] + repaid["pool"] + repaid["community"] = totalRepaid
    BY <1>1 DEF WaterfallOrder
<1>16. /\ Total(ps, InvestorCount) \in Nat /\ Total(pp, InvestorCount) \in Nat
       /\ Total(pc, InvestorCount) \in Nat /\ totalRepaid \in Nat
       /\ repaid["senior"] \in Nat /\ repaid["pool"] \in Nat /\ repaid["community"] \in Nat
    BY <1>1, <1>3, <1>8, Fields, TotalNat
<1> QED
    BY <1>8, <1>11, <1>13, <1>14, <1>15, <1>16

LEMMA InvCoversClaims == VaultInv /\ ClaimInv => ClaimsCovered
<1> SUFFICES ASSUME VaultInv, ClaimInv, state \in {"active", "repaying", "completed"},
                    \A i \in Investors : ~ Mixed(i)
             PROVE  raised - Released(tranches)
                       + Total([i \in Investors |-> Claimable(i)], InvestorCount) <= cash
    BY DEF ClaimsCovered
<1>1. VaultTypeOK /\ CashIsAccounted /\ Roled /\ ClaimedWithin
    BY DEF VaultInv, ClaimInv
<1>2. PICK h, c : h = [i \in Investors |-> Share(i, RoleOf(i))]
                  /\ c = [i \in Investors |-> Claimable(i)]
    OBVIOUS
<1>3. h \in [1 .. InvestorCount -> Nat] /\ Total(h, InvestorCount) <= totalRepaid
    BY <1>1, <1>2, SharesWithin
<1>4. ASSUME NEW i \in Investors
      PROVE  Claimable(i) \in Nat /\ h[i] = claimed[i] + Claimable(i)
  <2>1. Claimable(i) = IF funded[RoleOf(i)] = 0 THEN 0
                       ELSE SatSub(Share(i, RoleOf(i)), claimed[i])
    BY DEF Claimable, Share
  <2>2. Share(i, RoleOf(i)) \in Nat /\ claimed[i] \in Nat
    BY <1>1, Fields, RoleOfIsRole, ShareNat
  <2>3. funded[RoleOf(i)] = 0 => Share(i, RoleOf(i)) = 0
    BY DEF Share
  <2>4. claimed[i] <= Share(i, RoleOf(i))
    BY <1>1 DEF ClaimedWithin
  <2> QED
    BY <1>2, <2>1, <2>2, <2>3, <2>4 DEF SatSub
<1>5. /\ c \in [1 .. InvestorCount -> Nat] /\ claimed \in [1 .. InvestorCount -> Nat]
      /\ InvestorCount \in Nat
    BY <1>1, <1>2, <1>4, Fields, VaultAssumption DEF Investors
<1>6. Total(h, InvestorCount) = Total(claimed, InvestorCount) + Total(c, InvestorCount)
  <2>1. \A i \in 1 .. InvestorCount : h[i] = claimed[i] + c[i]
    BY <1>2, <1>4 DEF Investors
  <2> QED
    BY <1>3, <1>5, <2>1, TotalSum
<1>7. cash + Released(tranches) + Total(claimed, InvestorCount) = raised + totalRepaid
    BY <1>1 DEF CashIsAccounted
<1>8. /\ Total(claimed, InvestorCount) \in Nat /\ Total(c, InvestorCount) \in Nat
      /\ Total(h, InvestorCount) \in Nat
      /\ cash \in Nat /\ raised \in Nat /\ totalRepaid \in Nat /\ Released(tranches) \in Nat
    BY <1>1, <1>3, <1>5, Fields, ReleasedNat, TotalNat
<1> QED
    BY <1>2, <1>3, <1>6, <1>7, <1>8

(* While every investor keeps to one role, nobody's claims and no tranche can   *)
(* ever be blocked by what the others have claimed, in whatever order           *)
(* investments, repayments, claims and tranches come, and though every share    *)
(* is rounded on its own.                                                       *)
THEOREM ClaimsAlwaysCovered == Spec => []ClaimsCovered
<1>1. Spec => [](VaultInv /\ ClaimInv)
  <2>1. Init => VaultInv /\ ClaimInv
    BY InitVaultInv, InitClaimInv
  <2>2. VaultInv /\ ClaimInv /\ [Next]_vars => VaultInv' /\ ClaimInv'
    BY StepVaultInv, StepClaimInv
  <2> QED
    BY <2>1, <2>2, PTL DEF Spec
<1> QED
    BY <1>1, InvCoversClaims, PTL
=============================================================================
