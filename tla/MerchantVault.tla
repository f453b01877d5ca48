--------------------------- MODULE MerchantVault ---------------------------
(* A MerchantVault of the Base contracts (base-contracts/src/MerchantVault.sol  *)
(* with libraries/WaterfallLib.sol): investors fund it, the agent draws it in   *)
(* tranches, repayments are split over the investors' roles, and it ends        *)
(* completed, defaulted or cancelled.                                           *)
(*                                                                              *)
(* A call is atomic and reverts as a whole, so an action is a call that does    *)
(* not revert.  A day of the contract is one unit of time.  Left out: pausing,  *)
(* which only forbids calls; the milestone that lets a tranche go, which the    *)
(* administrator waits for; USDC sent to the vault outside its functions.       *)
EXTENDS Arithmetic, FiniteSets

CONSTANTS
    InvestorCount,
    Invests,        \* amounts one investment can have
    Repayments,     \* amounts one repayment can have
    Target,         \* targetAmount
    Bps,            \* 10_000 in the contract
    InterestBps,    \* interestRateBps over durationSeconds
    FeeBps,         \* platformFeeBps
    LateBps,        \* lateFeeBps
    Tranches,       \* numTranches
    Interval,       \* REPAYMENT_INTERVAL, 30 days
    Periods,        \* durationSeconds / REPAYMENT_INTERVAL
    Grace,          \* gracePeriodSeconds
    Deadline,       \* fundraisingDeadline
    MaxTime         \* bound of time

ASSUME VaultAssumption ==
    /\ InvestorCount \in Nat
    /\ Invests \subseteq Nat \ {0}
    /\ Repayments \subseteq Nat \ {0}
    /\ Target \in Nat \ {0}
    /\ Bps \in Nat \ {0}
    /\ InterestBps \in Nat
    /\ FeeBps \in 0 .. Bps
    /\ LateBps \in Nat
    /\ Tranches \in Nat \ {0}
    /\ Interval \in Nat \ {0}
    /\ Periods \in Nat
    /\ Grace \in Nat
    /\ Deadline \in Nat
    /\ MaxTime \in Nat \ {0}

VARIABLES
    now,
    state,          \* VaultState
    raised,         \* totalRaised
    balances,       \* investorBalances
    seniors,        \* isSeniorInvestor
    pools,          \* isPoolInvestor
    funded,         \* seniorFunded, poolFunded and, once active, userFunded
    tranches,       \* tranchesReleased
    toRepay,        \* totalToRepay
    expected,       \* expectedRepaymentPerPeriod
    activatedAt,
    due,            \* nextPaymentDue, 0 for none
    totalRepaid,
    repaid,         \* totalSeniorRepaid, totalPoolRepaid, totalCommunityRepaid
    claimed,        \* claimedReturns
    snapshot,       \* defaultSnapshotBalance
    cash,           \* the vault's USDC
    given           \* what each investor has put in by each function, for ever

investing == <<raised, balances, seniors, pools, given>>
terms == <<toRepay, expected, activatedAt>>
paying == <<totalRepaid, repaid, due>>
vaultVars == <<now, state, investing, funded, tranches, terms, paying, claimed, snapshot, cash>>

Investors == 1 .. InvestorCount
Roles == {"senior", "pool", "community"}
None == [r \in Roles |-> 0]

Open == state \in {"active", "repaying"}

-----------------------------------------------------------------------------
(* Fundraising *)

(* _activate, with what has been raised and funded by then *)
Starts(sum, by, owed) ==
    LET scheduled == LateBps > 0 /\ Periods > 0
    IN  /\ state' = "active"
        /\ funded' = [by EXCEPT !["community"] = sum - by["senior"] - by["pool"]]
        /\ toRepay' = owed
        /\ activatedAt' = now
        /\ due' = IF scheduled THEN now + Interval ELSE 0
        /\ expected' = IF scheduled THEN owed \div Periods ELSE 0

Activate_InterestOnly(sum, by) == Starts(sum, by, (sum * InterestBps) \div Bps)

Activate(sum, by) == Starts(sum, by, sum + (sum * InterestBps) \div Bps)

StaysOpen(by) ==
    /\ funded' = by
    /\ UNCHANGED <<state, terms, due>>

(* "can't mix tranche roles" *)
MayInvestAs_Unchecked(i, role) == TRUE

MayInvestAs(i, role) ==
    /\ role = "senior" => i \notin pools
    /\ role = "pool" => i \notin seniors

(* invest, investSenior and investFromPool *)
Invest(i, amount, role) ==
    LET by == IF role = "community" THEN funded ELSE [funded EXCEPT ![role] = @ + amount]
    IN  /\ state = "fundraising"
        /\ raised + amount <= Target
        /\ MayInvestAs(i, role)
        /\ raised' = raised + amount
        /\ balances' = [balances EXCEPT ![i] = @ + amount]
        /\ seniors' = IF role = "senior" THEN seniors \cup {i} ELSE seniors
        /\ pools' = IF role = "pool" THEN pools \cup {i} ELSE pools
        /\ given' = [given EXCEPT ![i][role] = @ + amount]
        /\ cash' = cash + amount
        /\ IF raised + amount = Target THEN Activate(Target, by) ELSE StaysOpen(by)
        /\ UNCHANGED <<now, tranches, totalRepaid, repaid, claimed, snapshot>>

Threshold == (Target * 80) \div 100

CompleteFundraisingManual ==
    /\ state = "fundraising"
    /\ raised >= Threshold
    /\ Activate(raised, funded)
    /\ UNCHANGED <<now, investing, tranches, totalRepaid, repaid, claimed, snapshot, cash>>

Cancel ==
    /\ state = "fundraising"
    /\ state' = "cancelled"
    /\ UNCHANGED <<now, investing, funded, tranches, terms, paying, claimed, snapshot, cash>>

Expired ==
    /\ state = "fundraising"
    /\ Deadline # 0 /\ now > Deadline
    /\ raised < Threshold

AutoCancelExpired ==
    /\ Expired
    /\ state' = "cancelled"
    /\ UNCHANGED <<now, investing, funded, tranches, terms, paying, claimed, snapshot, cash>>

-----------------------------------------------------------------------------
(* Draws and repayments *)

(* What the first k tranches come to; the last one has the rest *)
Released(k) == IF k = Tranches THEN raised ELSE k * (raised \div Tranches)

ReleaseTranche ==
    LET amount == Released(tranches + 1) - Released(tranches)
    IN  /\ Open
        /\ tranches < Tranches
        /\ amount <= cash
        /\ tranches' = tranches + 1
        /\ cash' = cash - amount
        /\ UNCHANGED <<now, state, investing, funded, terms, paying, claimed, snapshot>>

Late == LateBps > 0 /\ due > 0 /\ now > due

(* calculateLateFee: on what is missing from the schedule, per day late and for *)
(* an interval at most                                                          *)
LateFee ==
    LET days == Lesser(now - due, Interval)
        soFar == Lesser(((now - activatedAt) \div Interval) * expected, toRepay)
    IN  IF Late THEN (SatSub(soFar, totalRepaid) * LateBps * days) \div Bps ELSE 0

NextDue == IF Late THEN due + ((now - due) \div Interval + 1) * Interval ELSE due

(* WaterfallLib.distribute *)
Distribute_PoolFirst(owed, amount) ==
    LET pool == Lesser(amount, owed["pool"])
        senior == Lesser(amount - pool, owed["senior"])
    IN  [r \in Roles |-> CASE r = "senior" -> senior
                           [] r = "pool" -> pool
                           [] r = "community" -> amount - senior - pool]

Distribute(owed, amount) ==
    LET senior == Lesser(amount, owed["senior"])
        pool == Lesser(amount - senior, owed["pool"])
    IN  [r \in Roles |-> CASE r = "senior" -> senior
                           [] r = "pool" -> pool
                           [] r = "community" -> amount - senior - pool]

Pays(net, kept) ==
    LET parts == Distribute([r \in Roles |-> SatSub(funded[r], repaid[r])], net)
    IN  /\ Open
        /\ toRepay' = toRepay + LateFee
        /\ due' = NextDue
        /\ totalRepaid' = totalRepaid + net
        /\ repaid' = [r \in Roles |-> repaid[r] + parts[r]]
        /\ cash' = cash + kept
        /\ state' = IF totalRepaid + net >= toRepay + LateFee THEN "completed" ELSE "repaying"
        /\ UNCHANGED <<now, investing, funded, tranches, expected, activatedAt, claimed, snapshot>>

Net(amount) == amount - (amount * FeeBps) \div Bps

ProcessRepayment_FeeStays(amount) == Pays(Net(amount), amount)

ProcessRepayment(amount) == Pays(Net(amount), Net(amount))

-----------------------------------------------------------------------------
(* Claims, default and refunds *)

(* The role an investor's whole balance counts as *)
RoleOf(i) ==
    CASE i \in pools /\ funded["pool"] > 0 -> "pool"
      [] i \in seniors /\ funded["senior"] > 0 -> "senior"
      [] OTHER -> "community"

(* _claimableFor *)
Claimable_Again(i) ==
    LET r == RoleOf(i)
    IN  IF funded[r] = 0 THEN 0 ELSE (balances[i] * repaid[r]) \div funded[r]

Claimable(i) ==
    LET r == RoleOf(i)
    IN  IF funded[r] = 0 THEN 0
        ELSE SatSub((balances[i] * repaid[r]) \div funded[r], claimed[i])

ClaimReturns(i) ==
    /\ state \in {"repaying", "completed"}
    /\ Claimable(i) \in 1 .. cash
    /\ claimed' = [claimed EXCEPT ![i] = @ + Claimable(i)]
    /\ cash' = cash - Claimable(i)
    /\ UNCHANGED <<now, state, investing, funded, tranches, terms, paying, snapshot>>

ShouldDefault == Open /\ due # 0 /\ Grace # 0 /\ now > due + Grace

(* markDefault: by anyone if ShouldDefault, by the administrator in any case    *)
MarkDefault(byAdmin) ==
    /\ Open
    /\ ShouldDefault \/ byAdmin
    /\ state' = "defaulted"
    /\ snapshot' = cash
    /\ UNCHANGED <<now, investing, funded, tranches, terms, paying, claimed, cash>>

Refund_OfTheRest(i) ==
    IF state = "cancelled" \/ balances[i] = 0 THEN balances[i]
    ELSE (balances[i] * snapshot) \div Total(balances, InvestorCount)

Refund(i) ==
    IF state = "cancelled" \/ balances[i] = 0 THEN balances[i]
    ELSE (balances[i] * snapshot) \div raised

ClaimRefund(i) ==
    /\ state \in {"cancelled", "defaulted"}
    /\ balances[i] > 0
    /\ Refund(i) <= cash
    /\ balances' = [balances EXCEPT ![i] = 0]
    /\ cash' = cash - Refund(i)
    /\ UNCHANGED <<now, state, raised, seniors, pools, given, funded, tranches, terms,
                   paying, claimed, snapshot>>

Tick ==
    /\ now < MaxTime
    /\ now' = now + 1
    /\ UNCHANGED <<state, investing, funded, tranches, terms, paying, claimed, snapshot, cash>>

-----------------------------------------------------------------------------
States == {"fundraising", "active", "repaying", "completed", "defaulted", "cancelled"}

VaultTypeOK ==
    /\ now \in 1 .. MaxTime
    /\ state \in States
    /\ raised \in 0 .. Target
    /\ balances \in [Investors -> 0 .. Target]
    /\ seniors \subseteq Investors
    /\ pools \subseteq Investors \ seniors
    /\ funded \in [Roles -> 0 .. Target]
    /\ tranches \in 0 .. Tranches
    /\ {toRepay, expected, activatedAt, due, totalRepaid, snapshot, cash} \subseteq Nat
    /\ repaid \in [Roles -> Nat]
    /\ claimed \in [Investors -> Nat]
    /\ given \in [Investors -> [Roles -> 0 .. Target]]

(* Until the vault is closed its USDC is what came in less what went out: no    *)
(* fee, late fee, tranche or claim is counted twice or left uncounted.          *)
CashIsAccounted ==
    state \notin {"cancelled", "defaulted"} =>
        cash + Released(tranches) + Total(claimed, InvestorCount) = raised + totalRepaid

(* Repayments go to the senior role until its principal is back, then to the    *)
(* pools', then to the community, and to nobody else.                           *)
WaterfallOrder ==
    /\ repaid["senior"] + repaid["pool"] + repaid["community"] = totalRepaid
    /\ repaid["pool"] > 0 => repaid["senior"] = funded["senior"]
    /\ repaid["community"] > 0 =>
          repaid["senior"] = funded["senior"] /\ repaid["pool"] = funded["pool"]

(* When a vault completes, whatever fees were taken from the repayments, each   *)
(* role has its principal back.                                                 *)
CompletedMakesWhole == state = "completed" => \A r \in Roles : repaid[r] >= funded[r]

Mixed(i) == Cardinality({r \in Roles : given[i][r] > 0}) > 1

(* If each investor keeps to one role, what investors may claim and what is     *)
(* still to be drawn is there, so neither a claim nor a tranche is ever blocked *)
(* by the others.  (invest does not look at roles, and a senior investor who    *)
(* also invests there claims senior returns on both.)                           *)
ClaimsCovered ==
    state \in {"active", "repaying", "completed"} /\ (\A i \in Investors : ~ Mixed(i)) =>
        raised - Released(tranches) + Total([i \in Investors |-> Claimable(i)], InvestorCount) <= cash

(* After a cancellation or a default every refund that is left can be paid, in  *)
(* whatever order investors come.                                               *)
RefundsCovered ==
    state \in {"cancelled", "defaulted"} => Total([i \in Investors |-> Refund(i)], InvestorCount) <= cash
=============================================================================
