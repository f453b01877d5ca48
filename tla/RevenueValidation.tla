------------------------- MODULE RevenueValidation -------------------------
(* The revenue validation of the Solana program krexa-payment-router, for one   *)
(* merchant: the oracle reports each payment, the program classifies it, keeps  *)
(* it in a ring and credits it or not; later the oracle reviews a payment of    *)
(* the ring or rejects it after all.  One action is one instruction.            *)
(*                                                                              *)
(* Slot k of the model is index k - 1 of the program's arrays.  Left out: what  *)
(* no instruction reads back (timestamp, is_x402 and pattern_score of a         *)
(* payment, payment_count, the destination of an outflow, reason codes),        *)
(* is_active, which nothing clears, and keys and bumps.  The blocklist is       *)
(* shared by all merchants: reviews of other merchants add to it what           *)
(* AddToBlocklist adds.                                                         *)
EXTENDS Arithmetic, FiniteSets, Sequences

CONSTANTS
    Keys,               \* public keys that may pay
    DefaultKey,         \* Pubkey::default(), which nobody holds
    AgentWalletPda,     \* RevenueValidator.agent_wallet_pda
    AgentOwner,         \* RevenueValidator.agent_owner
    Amounts,            \* amounts of payments
    OutflowAmounts,     \* amounts of outflows
    ListedKeys,         \* keys the oracle and the admin put on their lists
    ExpectedRevenues,   \* values of expected_daily_revenue
    Credits,            \* values of total_credit
    Disbursements,      \* values of total_disbursed
    PaymentHistorySize, \* PAYMENT_HISTORY_SIZE
    OutflowHistorySize, \* length of PaymentHistory.outflows
    MaxSources,         \* MAX_REVENUE_SOURCES
    MaxAssociated,      \* MAX_ASSOCIATED_WALLETS
    MaxBlocklist,       \* MAX_BLOCKLIST_SIZE
    MaxWhitelist,       \* MAX_PLATFORM_WHITELIST_SIZE
    MaxViolations,      \* u8::MAX
    U16,                \* 2^16, what `as u16` reduces by
    Day,                \* 86400 and ROUND_TRIP_WINDOW_SECONDS, in clock ticks
    Hour,               \* 3600, in clock ticks
    RapidReturnDays,    \* RAPID_RETURN_WINDOW_DAYS
    MaxTime,            \* bound: the last instant of the clock
    MaxRevenue,         \* bound: revenue credited at one time
    MaxSent,            \* bound: outflows recorded
    MaxListed           \* bound: entries in the four lists together

Bps == 10000
PatternReject == 80
PatternQuarantine == 40
RoundTripSimilarity == 9500
AmountAnomaly == 10
LargePayment == 5000
ExtremeOvershoot == 20
ModerateOvershoot == 5
RapidReturnRatio == 3

Standings == {"verified", "rejected", "quarantined", "pending"}
Decisions == {"approve", "reject", "approveAndWhitelist", "rejectAndBlocklist"}
Slots == 1 .. PaymentHistorySize
OutflowSlots == 1 .. OutflowHistorySize

ASSUME KeysAssumption ==
    /\ DefaultKey \notin Keys
    /\ AgentWalletPda \in Keys \union {DefaultKey}
    /\ AgentOwner \in Keys
    /\ ListedKeys \subseteq Keys
ASSUME AmountsAssumption ==
    /\ Amounts \subseteq Nat \ {0}
    /\ OutflowAmounts \subseteq Nat
    /\ ExpectedRevenues \subseteq Nat
    /\ Credits \subseteq Nat
    /\ Disbursements \subseteq Nat
ASSUME SizesAssumption ==
    /\ PaymentHistorySize \in Nat \ {0}
    /\ OutflowHistorySize \in Nat \ {0}
    /\ MaxSources \in Nat /\ MaxAssociated \in Nat
    /\ MaxBlocklist \in Nat /\ MaxWhitelist \in Nat
    /\ MaxViolations \in Nat /\ U16 \in Nat \ {0}
    /\ Day \in Nat \ {0} /\ Hour \in Nat /\ RapidReturnDays \in Nat
    /\ MaxTime \in Nat /\ MaxRevenue \in Nat /\ MaxSent \in Nat /\ MaxListed \in Nat

VARIABLES
    payments,           \* PaymentHistory.payments
    paymentHead,        \* payment_head + 1
    outflows,           \* PaymentHistory.outflows
    outflowHead,        \* outflow_head + 1
    outflowCount,       \* outflow_count
    registered,         \* registered_sources, as far as num_registered_sources
    associated,         \* associated_wallets
    blocklist,          \* GlobalBlocklist.entries
    blockCount,         \* GlobalBlocklist.count
    whitelist,          \* PlatformWhitelist.entries
    whiteCount,         \* PlatformWhitelist.count
    expectedDaily,      \* expected_daily_revenue
    totalCredit,        \* total_credit
    totalDisbursed,     \* total_disbursed
    cumulative,         \* cumulative_validated_revenue
    violations,         \* revenue_integrity_violations
    paused,             \* RouterConfig.is_paused
    now,                \* Clock::unix_timestamp
    forgotten,          \* history: revenue credited for payments no longer in the ring
    sent                \* history: every outflow recorded

paymentRing == <<payments, paymentHead, forgotten>>
outflowRing == <<outflows, outflowHead, outflowCount, sent>>
lists == <<associated, blocklist, blockCount, whitelist, whiteCount>>
params == <<expectedDaily, totalCredit, totalDisbursed>>
revenue == <<cumulative, violations>>
vars == <<paymentRing, outflowRing, registered, lists, params, revenue, paused, now>>

-----------------------------------------------------------------------------
(* Layer 1: who pays *)

Refused(source) ==
    \/ source = AgentWalletPda
    \/ source = AgentOwner
    \/ source \in associated
    \/ source \in blocklist

IsRegistered(source) == \E i \in 1 .. Len(registered) : registered[i] = source

Trusted(source, isX402) ==
    isX402 \/ IsRegistered(source) \/ source \in whitelist

(* Layer 2: a payment that looks like money coming back *)

Similarity(a, b) == IF a <= b THEN MulDiv(a, Bps, b) ELSE MulDiv(b, Bps, a)

Returns(amount, outflow) ==
    /\ outflow.amount > 0 /\ outflow.time > 0
    /\ outflow.time < now /\ now - outflow.time <= Day
    /\ Similarity(amount, outflow.amount) >= RoundTripSimilarity

OutflowsKept_BelowHead == 1 .. outflowHead - 1

OutflowsKept == 1 .. outflowCount

(* the first outflow in the order of the array that matches decides *)
RoundTripScore(amount) ==
    LET matching == {k \in OutflowsKept : Returns(amount, outflows[k])}
        first    == outflows[CHOOSE k \in matching : \A j \in matching : k <= j]
    IN  IF matching = {} THEN 0
        ELSE (IF Similarity(amount, first.amount) >= 9900 THEN 60 ELSE 40)
             + (IF now - first.time < Hour THEN 40 ELSE 20)

AnomalyScore(amount) ==
    LET ratio == amount \div expectedDaily
    IN  IF expectedDaily = 0 THEN 0
        ELSE IF ratio > 50 THEN 50
        ELSE IF ratio > 20 THEN 30
        ELSE IF ratio > AmountAnomaly THEN 15
        ELSE 0

PatternScore(amount) == RoundTripScore(amount) + AnomalyScore(amount)

(* Layer 3: a payment against the plan; the validator was created at 1 *)

DaysActive == LET days == (now - 1) \div Day IN IF days < 1 THEN 1 ELSE days

DailyAverage(amount) == (cumulative + amount) \div DaysActive

Overshoots(amount, multiplier) ==
    expectedDaily > 0 /\ DailyAverage(amount) \div expectedDaily > multiplier

IsLarge(amount) ==
    totalCredit > 0 /\ MulDiv(amount, Bps, totalCredit) % U16 > LargePayment

IsRapidReturn(amount) ==
    /\ totalDisbursed > 0
    /\ DaysActive <= RapidReturnDays
    /\ (cumulative + amount) \div totalDisbursed >= RapidReturnRatio

(* two of the three flags are up *)
TwoFlags(amount) ==
    \/ IsLarge(amount) /\ (Overshoots(amount, ModerateOvershoot) \/ IsRapidReturn(amount))
    \/ Overshoots(amount, ModerateOvershoot) /\ IsRapidReturn(amount)

Classification(source, amount, isX402) ==
    IF Refused(source) \/ Overshoots(amount, ExtremeOvershoot) THEN "rejected"
    ELSE IF Trusted(source, isX402)
    THEN IF PatternScore(amount) >= 2 * PatternReject THEN "rejected" ELSE "verified"
    ELSE IF PatternScore(amount) >= PatternReject THEN "rejected"
    ELSE IF PatternScore(amount) >= PatternQuarantine \/ TwoFlags(amount)
    THEN "quarantined" ELSE "pending"

(* what a payment in the ring contributes to cumulative_validated_revenue *)
Credited(payment) ==
    IF payment.standing \in {"verified", "pending"} THEN payment.amount ELSE 0

RingCredits == [k \in Slots |-> Credited(payments[k])]

-----------------------------------------------------------------------------
(* create_revenue_validator and create_payment_history *)
Init ==
    /\ payments = [k \in Slots |->
                     [source |-> DefaultKey, amount |-> 0, standing |-> "verified"]]
    /\ paymentHead = 1
    /\ outflows = [k \in OutflowSlots |-> [amount |-> 0, time |-> 0]]
    /\ outflowHead = 1 /\ outflowCount = 0
    /\ registered = <<>>
    /\ associated = {}
    /\ blocklist = {} /\ blockCount = 0
    /\ whitelist = {} /\ whiteCount = 0
    /\ expectedDaily \in ExpectedRevenues
    /\ totalCredit \in Credits
    /\ totalDisbursed = 0
    /\ cumulative = 0 /\ violations = 0
    /\ paused = FALSE
    /\ now = 1
    /\ forgotten = 0 /\ sent = <<>>

(* validate_revenue: the payment takes the place of the oldest in the ring *)
ValidateRevenue(source, amount, isX402) ==
    LET payment == [source |-> source, amount |-> amount,
                    standing |-> Classification(source, amount, isX402)]
    IN  /\ ~ paused
        /\ amount > 0
        /\ cumulative + amount <= MaxRevenue
        /\ payments' = [payments EXCEPT ![paymentHead] = payment]
        /\ paymentHead' = (paymentHead % PaymentHistorySize) + 1
        /\ forgotten' = forgotten + Credited(payments[paymentHead])
        /\ cumulative' = cumulative + Credited(payment)
        /\ UNCHANGED <<outflowRing, registered, lists, params, violations, paused, now>>

NextOutflowSlot == (outflowHead % OutflowHistorySize) + 1

(* record_outflow *)
RecordOutflow(amount) ==
    LET outflow == [amount |-> amount, time |-> now]
    IN  /\ ~ paused
        /\ Len(sent) < MaxSent
        /\ outflows' = [outflows EXCEPT ![outflowHead] = outflow]
        /\ outflowHead' = NextOutflowSlot
        /\ outflowCount' = Lesser(outflowCount + 1, OutflowHistorySize)
        /\ sent' = Append(sent, outflow)
        /\ UNCHANGED <<paymentRing, registered, lists, params, revenue, paused, now>>

(* A payment that was pending was credited when it came in. *)
Accept_Again(k) ==
    /\ payments' = [payments EXCEPT ![k].standing = "verified"]
    /\ cumulative' = cumulative + payments[k].amount
    /\ UNCHANGED violations

Accept(k) ==
    /\ payments' = [payments EXCEPT ![k].standing = "verified"]
    /\ cumulative' = IF payments[k].standing = "pending" THEN cumulative
                                                         ELSE cumulative + payments[k].amount
    /\ UNCHANGED violations

Revoke_Wraps(k) ==
    /\ cumulative' = SatSub(cumulative, payments[k].amount)
    /\ violations' = violations + 1

Revoke(k) ==
    /\ cumulative' = SatSub(cumulative, payments[k].amount)
    /\ violations' = Lesser(violations + 1, MaxViolations)

Refuse(k) ==
    /\ payments' = [payments EXCEPT ![k].standing = "rejected"]
    /\ IF payments[k].standing = "pending" THEN Revoke(k) ELSE UNCHANGED revenue

(* a reviewed source is registered or blocklisted if there is room, without a   *)
(* look whether it is already                                                   *)
RegisterReviewed(source) ==
    registered' = IF Len(registered) < MaxSources THEN Append(registered, source)
                                                  ELSE registered

BlockReviewed(source) ==
    IF blockCount < MaxBlocklist
    THEN /\ blocklist' = blocklist \union {source}
         /\ blockCount' = blockCount + 1
    ELSE UNCHANGED <<blocklist, blockCount>>

(* review_quarantined: the oracle names a slot, whatever payment is in it       *)
ReviewQuarantined(k, decision) ==
    /\ ~ paused
    /\ payments[k].standing \in {"quarantined", "pending"}
    /\ \/ decision \in {"approve", "approveAndWhitelist"} /\ Accept(k)
       \/ decision \in {"reject", "rejectAndBlocklist"} /\ Refuse(k)
    /\ IF decision = "approveAndWhitelist" THEN RegisterReviewed(payments[k].source)
                                           ELSE UNCHANGED registered
    /\ IF decision = "rejectAndBlocklist" THEN BlockReviewed(payments[k].source)
                                          ELSE UNCHANGED <<blocklist, blockCount>>
    /\ UNCHANGED <<paymentHead, forgotten, outflowRing, associated, whitelist, whiteCount,
                   params, paused, now>>

(* retroactive_reject: an empty slot passes for a verified payment of nothing   *)
RetroactiveReject(k) ==
    /\ ~ paused
    /\ payments[k].standing \in {"verified", "pending"}
    /\ payments' = [payments EXCEPT ![k].standing = "rejected"]
    /\ Revoke(k)
    /\ UNCHANGED <<paymentHead, forgotten, outflowRing, registered, lists, params, paused, now>>

-----------------------------------------------------------------------------
(* The lists and the parameters *)

Listed == Len(registered) + Cardinality(associated) + blockCount + whiteCount

(* register_revenue_source *)
RegisterRevenueSource(source) ==
    /\ ~ paused
    /\ Len(registered) < MaxSources
    /\ ~ IsRegistered(source)
    /\ Listed < MaxListed
    /\ registered' = Append(registered, source)
    /\ UNCHANGED <<paymentRing, outflowRing, lists, params, revenue, paused, now>>

(* remove_revenue_source: the last entry takes the place of the first match     *)
RemoveRevenueSource(source) ==
    /\ ~ paused
    /\ \E i \in 1 .. Len(registered) :
          /\ registered[i] = source
          /\ \A j \in 1 .. i - 1 : registered[j] # source
          /\ registered' = SubSeq([registered EXCEPT ![i] = registered[Len(registered)]],
                                  1, Len(registered) - 1)
    /\ UNCHANGED <<paymentRing, outflowRing, lists, params, revenue, paused, now>>

(* add_associated_wallet *)
AddAssociatedWallet(wallet) ==
    /\ ~ paused
    /\ Cardinality(associated) < MaxAssociated
    /\ wallet \notin associated
    /\ Listed < MaxListed
    /\ associated' = associated \union {wallet}
    /\ UNCHANGED <<paymentRing, outflowRing, registered, blocklist, blockCount, whitelist,
                   whiteCount, params, revenue, paused, now>>

(* add_to_blocklist, which looks neither at duplicates nor at the pause *)
AddToBlocklist(wallet) ==
    /\ blockCount < MaxBlocklist
    /\ Listed < MaxListed
    /\ blocklist' = blocklist \union {wallet}
    /\ blockCount' = blockCount + 1
    /\ UNCHANGED <<paymentRing, outflowRing, registered, associated, whitelist, whiteCount,
                   params, revenue, paused, now>>

(* add_to_platform_whitelist *)
AddToPlatformWhitelist(wallet) ==
    /\ whiteCount < MaxWhitelist
    /\ Listed < MaxListed
    /\ whitelist' = whitelist \union {wallet}
    /\ whiteCount' = whiteCount + 1
    /\ UNCHANGED <<paymentRing, outflowRing, registered, associated, blocklist, blockCount,
                   params, revenue, paused, now>>

(* update_validator_params *)
UpdateValidatorParams(expected, credit, disbursed) ==
    /\ ~ paused
    /\ expectedDaily' = expected
    /\ totalCredit' = credit
    /\ totalDisbursed' = disbursed
    /\ UNCHANGED <<paymentRing, outflowRing, registered, lists, revenue, paused, now>>

(* set_paused *)
SetPaused(b) ==
    /\ paused' = b
    /\ UNCHANGED <<paymentRing, outflowRing, registered, lists, params, revenue, now>>

Tick ==
    /\ now < MaxTime
    /\ now' = now + 1
    /\ UNCHANGED <<paymentRing, outflowRing, registered, lists, params, revenue, paused>>

PaymentStep ==
    \/ \E source \in Keys, amount \in Amounts, isX402 \in BOOLEAN :
          ValidateRevenue(source, amount, isX402)
    \/ \E amount \in OutflowAmounts : RecordOutflow(amount)
    \/ \E k \in Slots, decision \in Decisions : ReviewQuarantined(k, decision)
    \/ \E k \in Slots : RetroactiveReject(k)

ListStep ==
    \/ \E source \in ListedKeys :
          \/ RegisterRevenueSource(source)
          \/ AddAssociatedWallet(source)
          \/ AddToBlocklist(source) \/ AddToPlatformWhitelist(source)
    \/ \E source \in Keys : RemoveRevenueSource(source)
    \/ \E expected \in ExpectedRevenues \union {expectedDaily},
          credit \in Credits \union {totalCredit},
          disbursed \in Disbursements \union {totalDisbursed} :
          UpdateValidatorParams(expected, credit, disbursed)
    \/ \E b \in BOOLEAN : SetPaused(b)

Next == PaymentStep \/ ListStep \/ Tick

Spec == Init /\ [][Next]_vars

-----------------------------------------------------------------------------
(* Properties *)

Received == [source : Keys, amount : Nat, standing : Standings]
EmptySlots == [source : {DefaultKey}, amount : {0}, standing : {"verified", "rejected"}]
Payments == Received \union EmptySlots

(* Rings, lists and counters stay in their bounds, and an empty slot is never   *)
(* up for review.                                                               *)
TypeOK ==
    /\ payments \in [Slots -> Payments] /\ paymentHead \in Slots
    /\ outflows \in [OutflowSlots -> [amount : Nat, time : Nat]]
    /\ outflowHead \in OutflowSlots
    /\ outflowCount \in 0 .. OutflowHistorySize
    /\ registered \in Seq(Keys) /\ Len(registered) <= MaxSources
    /\ associated \subseteq Keys
    /\ blocklist \subseteq Keys /\ blockCount \in 0 .. MaxBlocklist
    /\ whitelist \subseteq Keys /\ whiteCount \in 0 .. MaxWhitelist
    /\ expectedDaily \in Nat /\ totalCredit \in Nat /\ totalDisbursed \in Nat
    /\ cumulative \in Nat /\ violations \in 0 .. MaxViolations
    /\ paused \in BOOLEAN /\ now \in Nat
    /\ forgotten \in Nat /\ sent \in Seq([amount : Nat, time : Nat])

(* cumulative_validated_revenue is adjusted when a payment comes in, when it is *)
(* reviewed and when it is rejected after all, by saturating operations and     *)
(* depending on what the call before did.  It is at all times the sum of the    *)
(* payments that stand verified or pending, those the ring has forgotten        *)
(* included: no sequence of calls counts one twice or takes it off twice.       *)
CreditedOnce ==
    cumulative = forgotten + Total(RingCredits, PaymentHistorySize)

(* An unknown source earns nothing by sending back, within a day, 95% or more   *)
(* of any of the latest outflows, as many as the ring holds: neither the ring's *)
(* wrapping, nor a weaker match that comes first in the array, nor any state of *)
(* the plan lets such a payment be credited when it arrives.                    *)
RoundTripEarnsNothing ==
    [][\A source \in Keys, amount \in Amounts :
         /\ ValidateRevenue(source, amount, FALSE)
         /\ ~ Trusted(source, FALSE)
         /\ \E j \in 1 .. Len(sent) : /\ j > Len(sent) - OutflowHistorySize
                                     /\ Returns(amount, sent[j])
         => cumulative' = cumulative]_vars
=============================================================================
