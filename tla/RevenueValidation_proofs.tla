---------------------- MODULE RevenueValidation_proofs ----------------------
(* Proofs about RevenueValidation, for any keys, amounts, list sizes and ring   *)
(* sizes.                                                                       *)
EXTENDS RevenueValidation, Arithmetic_proofs, TLAPS

(* Every payment gets one of the four standings. *)
LEMMA ClassificationType ==
    ASSUME NEW source, NEW amount, NEW isX402
    PROVE  Classification(source, amount, isX402) \in Standings
  BY DEF Classification, Standings

(* The next slot of a ring of n is one of its slots. *)
LEMMA NextSlot ==
    ASSUME NEW n \in Nat \ {0}, NEW h \in 1 .. n
    PROVE  (h % n) + 1 \in 1 .. n
<1>1. h % n \in 0 .. n - 1
  OBVIOUS
<1>. QED BY <1>1

LEMMA InitTypeOK == Init => TypeOK
<1>. SUFFICES ASSUME Init PROVE TypeOK
  OBVIOUS
<1>1. /\ payments \in [Slots -> Payments] /\ paymentHead \in Slots
      /\ outflows \in [OutflowSlots -> [amount : Nat, time : Nat]]
      /\ outflowHead \in OutflowSlots /\ outflowCount \in 0 .. OutflowHistorySize
  BY SizesAssumption DEF Init, Payments, EmptySlots, Slots, OutflowSlots
<1>2. /\ registered \in Seq(Keys) /\ Len(registered) <= MaxSources
      /\ associated \subseteq Keys
      /\ blocklist \subseteq Keys /\ blockCount \in 0 .. MaxBlocklist
      /\ whitelist \subseteq Keys /\ whiteCount \in 0 .. MaxWhitelist
  BY SizesAssumption DEF Init
<1>3. /\ expectedDaily \in Nat /\ totalCredit \in Nat /\ totalDisbursed \in Nat
      /\ cumulative \in Nat /\ violations \in 0 .. MaxViolations
      /\ paused \in BOOLEAN /\ now \in Nat /\ forgotten \in Nat
  <2>1. /\ expectedDaily \in ExpectedRevenues /\ totalCredit \in Credits
        /\ totalDisbursed = 0 /\ cumulative = 0 /\ violations = 0
        /\ paused = FALSE /\ now = 1 /\ forgotten = 0
    BY DEF Init
  <2>2. paused \in BOOLEAN
    BY <2>1
  <2>3. /\ expectedDaily \in Nat /\ totalCredit \in Nat
        /\ violations \in 0 .. MaxViolations
    BY <2>1, SizesAssumption, AmountsAssumption
  <2>. QED BY <2>1, <2>2, <2>3
<1>4. sent \in Seq([amount : Nat, time : Nat])
  <2>. DEFINE R == [amount : Nat, time : Nat]
  <2>1. sent = <<>>
    BY DEF Init
  <2>. HIDE DEF R
  <2>2. sent \in Seq(R)
    BY <2>1
  <2>. QED BY <2>2 DEF R
<1>. QED BY <1>1, <1>2, <1>3, <1>4 DEF TypeOK

-----------------------------------------------------------------------------
(* What the outcomes of a review or a rejection do to the ring and the sum. *)

LEMMA RingCreditsType ==
    ASSUME TypeOK
    PROVE  /\ RingCredits \in [1 .. PaymentHistorySize -> Nat]
           /\ Total(RingCredits, PaymentHistorySize) \in Nat
<1>1. RingCredits \in [1 .. PaymentHistorySize -> Nat]
  BY DEF RingCredits, TypeOK, Payments, Received, EmptySlots, Credited, Slots
<1>. QED BY <1>1, TotalNat, SizesAssumption

(* One slot written: the total of the ring changes by that slot's credit, which *)
(* is at most the total.                                                        *)
LEMMA SlotWritten ==
    ASSUME TypeOK, NEW k \in Slots, NEW p \in Payments,
           payments' = [payments EXCEPT ![k] = p]
    PROVE  /\ Total(RingCredits, PaymentHistorySize) \in Nat
           /\ Credited(payments[k]) \in Nat
           /\ Credited(payments[k]) <= Total(RingCredits, PaymentHistorySize)
           /\ Total(RingCredits, PaymentHistorySize)'
                = Total(RingCredits, PaymentHistorySize) - Credited(payments[k]) + Credited(p)
<1>1. /\ RingCredits \in [1 .. PaymentHistorySize -> Nat]
      /\ Total(RingCredits, PaymentHistorySize) \in Nat
      /\ RingCredits[k] = Credited(payments[k])
      /\ RingCredits[k] \in Nat
      /\ RingCredits[k] <= Total(RingCredits, PaymentHistorySize)
  <2>1. /\ RingCredits \in [1 .. PaymentHistorySize -> Nat]
        /\ Total(RingCredits, PaymentHistorySize) \in Nat
    BY RingCreditsType
  <2>2. k \in 1 .. PaymentHistorySize
    BY DEF Slots
  <2>3. RingCredits[k] = Credited(payments[k])
    BY DEF RingCredits
  <2>. QED BY <2>1, <2>2, <2>3, TermLeqTotal, SizesAssumption
<1>2. Credited(p) \in Nat
  BY DEF Credited, Payments, Received, EmptySlots
<1>3. RingCredits' = [RingCredits EXCEPT ![k] = Credited(p)]
  BY DEF RingCredits, TypeOK
<1>4. Total([RingCredits EXCEPT ![k] = Credited(p)], PaymentHistorySize)
        = Total(RingCredits, PaymentHistorySize) - RingCredits[k] + Credited(p)
  <2>1. PaymentHistorySize \in Nat /\ k \in 1 .. PaymentHistorySize
    BY SizesAssumption DEF Slots
  <2>. QED BY <1>1, <1>2, <2>1, TotalUpdate
<1>5. Total(RingCredits, PaymentHistorySize)' = Total(RingCredits', PaymentHistorySize)
  OBVIOUS
<1>. QED BY <1>1, <1>3, <1>4, <1>5

(* Reviewing or rejecting changes the standing of a payment and nothing else of *)
(* it.                                                                          *)
LEMMA StandingWritten ==
    ASSUME TypeOK, NEW k \in Slots, NEW s \in {"verified", "rejected"},
           payments' = [payments EXCEPT ![k].standing = s]
    PROVE  LET p == [payments[k] EXCEPT !.standing = s]
           IN  /\ p \in Payments /\ p.amount = payments[k].amount /\ p.standing = s
               /\ payments[k].amount \in Nat
               /\ payments' = [payments EXCEPT ![k] = p]
               /\ payments' \in [Slots -> Payments]
<1>. DEFINE p == [payments[k] EXCEPT !.standing = s]
<1>1. payments[k] \in Payments /\ payments \in [Slots -> Payments]
  BY DEF TypeOK
<1>2. /\ p \in Payments /\ p.amount = payments[k].amount /\ p.standing = s
      /\ payments[k].amount \in Nat
  BY <1>1 DEF Payments, Received, EmptySlots, Standings
<1>3. payments' = [payments EXCEPT ![k] = p]
  BY <1>1
<1>4. payments' \in [Slots -> Payments]
  BY <1>1, <1>2, <1>3
<1>. QED BY <1>2, <1>3, <1>4

LEMMA Revoked ==
    ASSUME TypeOK, NEW k \in Slots, Revoke(k), payments[k].amount \in Nat
    PROVE  cumulative' \in Nat /\ violations' \in 0 .. MaxViolations
<1>1. cumulative \in Nat /\ violations \in 0 .. MaxViolations
  BY DEF TypeOK
<1>. QED BY <1>1, SizesAssumption DEF Revoke, SatSub, Lesser

LEMMA StepTypeOK == TypeOK /\ [Next]_vars => TypeOK'
<1>. SUFFICES ASSUME TypeOK, [Next]_vars PROVE TypeOK'
  OBVIOUS
<1>. USE DEF paymentRing, outflowRing, lists, params, revenue
<1>1. ASSUME NEW source \in Keys, NEW amount \in Amounts, NEW isX402 \in BOOLEAN,
             ValidateRevenue(source, amount, isX402)
      PROVE  TypeOK'
  <2>. DEFINE payment == [source |-> source, amount |-> amount,
                          standing |-> Classification(source, amount, isX402)]
  <2>1. payment \in Payments
    BY ClassificationType, AmountsAssumption DEF Payments, Received
  <2>2. Credited(payment) \in Nat /\ Credited(payments[paymentHead]) \in Nat
    BY <2>1 DEF Credited, Payments, Received, EmptySlots, TypeOK
  <2>. HIDE DEF payment
  <2>3. /\ payments' = [payments EXCEPT ![paymentHead] = payment]
        /\ paymentHead' = (paymentHead % PaymentHistorySize) + 1
        /\ forgotten' = forgotten + Credited(payments[paymentHead])
        /\ cumulative' = cumulative + Credited(payment)
    BY <1>1 DEF ValidateRevenue, payment
  <2>4. /\ payments' \in [Slots -> Payments]
        /\ paymentHead' \in Slots
    <3>1. paymentHead' \in Slots
      BY <2>3, NextSlot, SizesAssumption DEF TypeOK, Slots
    <3>. QED BY <3>1, <2>1, <2>3 DEF TypeOK
  <2>5. forgotten' \in Nat /\ cumulative' \in Nat
    BY <2>2, <2>3 DEF TypeOK
  <2>. QED BY <1>1, <2>4, <2>5 DEF TypeOK, ValidateRevenue, Payments
<1>2. ASSUME NEW amount \in OutflowAmounts, RecordOutflow(amount)
      PROVE  TypeOK'
  <2>. DEFINE R == [amount : Nat, time : Nat]
  <2>. DEFINE outflow == [amount |-> amount, time |-> now]
  <2>1. outflow \in R
    BY AmountsAssumption DEF TypeOK
  <2>2. /\ sent \in Seq(R) /\ outflows \in [OutflowSlots -> R]
    BY DEF TypeOK
  <2>3. /\ outflows' = [outflows EXCEPT ![outflowHead] = outflow]
        /\ sent' = Append(sent, outflow)
    BY <1>2 DEF RecordOutflow
  <2>. HIDE DEF R, outflow
  <2>4. sent' \in Seq(R) /\ outflows' \in [OutflowSlots -> R]
    <3>1. sent' \in Seq(R)
      BY <2>1, <2>2, <2>3
    <3>2. outflows' \in [OutflowSlots -> R]
      BY <2>1, <2>2, <2>3
    <3>. QED BY <3>1, <3>2
  <2>5. outflowHead' \in OutflowSlots
    <3>1. /\ outflowHead \in 1 .. OutflowHistorySize
          /\ outflowHead' = (outflowHead % OutflowHistorySize) + 1
      BY <1>2 DEF TypeOK, RecordOutflow, NextOutflowSlot, OutflowSlots
    <3>. QED BY <3>1, NextSlot, SizesAssumption DEF OutflowSlots
  <2>6. outflowCount' \in 0 .. OutflowHistorySize
    <3>1. /\ outflowCount \in 0 .. OutflowHistorySize
          /\ outflowCount' = Lesser(outflowCount + 1, OutflowHistorySize)
      BY <1>2 DEF TypeOK, RecordOutflow
    <3>. QED BY <3>1, SizesAssumption DEF Lesser
  <2>. QED BY <1>2, <2>4, <2>5, <2>6 DEF TypeOK, RecordOutflow, R, Payments
<1>3. ASSUME NEW k \in Slots, NEW decision \in Decisions, ReviewQuarantined(k, decision)
      PROVE  TypeOK'
  <2>1. \E s \in {"verified", "rejected"} : payments' = [payments EXCEPT ![k].standing = s]
    BY <1>3 DEF ReviewQuarantined, Accept, Refuse
  <2>2. payments' \in [Slots -> Payments] /\ payments[k].amount \in Nat
    BY <2>1, StandingWritten
  <2>3. payments[k].source \in Keys
    BY <1>3 DEF ReviewQuarantined, TypeOK, Payments, Received, EmptySlots
  <2>4. /\ cumulative' \in Nat /\ violations' \in 0 .. MaxViolations
    <3>1. CASE Accept(k)
      BY <2>2, <3>1 DEF Accept, TypeOK
    <3>2. CASE Refuse(k)
      BY <2>2, <3>2, Revoked DEF Refuse, TypeOK
    <3>. QED BY <1>3, <3>1, <3>2 DEF ReviewQuarantined
  <2>5. registered' \in Seq(Keys) /\ Len(registered') <= MaxSources
    <3>1. registered \in Seq(Keys) /\ Len(registered) <= MaxSources
      BY DEF TypeOK
    <3>2. \/ registered' = registered
          \/ Len(registered) < MaxSources /\ registered' = Append(registered, payments[k].source)
      BY <1>3 DEF ReviewQuarantined, RegisterReviewed
    <3>. QED BY <2>3, <3>1, <3>2, SizesAssumption
  <2>6. blocklist' \subseteq Keys /\ blockCount' \in 0 .. MaxBlocklist
    BY <1>3, <2>3, SizesAssumption DEF ReviewQuarantined, BlockReviewed, TypeOK
  <2>. QED BY <1>3, <2>2, <2>4, <2>5, <2>6 DEF TypeOK, ReviewQuarantined
<1>4. ASSUME NEW k \in Slots, RetroactiveReject(k)
      PROVE  TypeOK'
  <2>1. payments' = [payments EXCEPT ![k].standing = "rejected"]
    BY <1>4 DEF RetroactiveReject
  <2>2. payments' \in [Slots -> Payments] /\ payments[k].amount \in Nat
    BY <2>1, StandingWritten
  <2>3. cumulative' \in Nat /\ violations' \in 0 .. MaxViolations
    BY <1>4, <2>2, Revoked DEF RetroactiveReject
  <2>. QED BY <1>4, <2>2, <2>3 DEF TypeOK, RetroactiveReject
<1>5. ASSUME NEW source \in Keys,
             RegisterRevenueSource(source) \/ RemoveRevenueSource(source)
      PROVE  TypeOK'
  <2>1. registered \in Seq(Keys) /\ Len(registered) <= MaxSources
    BY DEF TypeOK
  <2>2. CASE RegisterRevenueSource(source)
    <3>1. Len(registered) < MaxSources /\ registered' = Append(registered, source)
      BY <2>2 DEF RegisterRevenueSource
    <3>2. registered' \in Seq(Keys) /\ Len(registered') <= MaxSources
      BY <2>1, <3>1, SizesAssumption
    <3>. QED BY <2>2, <3>2 DEF TypeOK, RegisterRevenueSource
  <2>3. CASE RemoveRevenueSource(source)
    <3>1. PICK i \in 1 .. Len(registered) :
            registered' = SubSeq([registered EXCEPT ![i] = registered[Len(registered)]],
                                 1, Len(registered) - 1)
      BY <2>3 DEF RemoveRevenueSource
    <3>. DEFINE moved == [registered EXCEPT ![i] = registered[Len(registered)]]
    <3>2. moved \in Seq(Keys) /\ Len(moved) = Len(registered) /\ Len(registered) \in Nat
      BY <2>1
    <3>3. SubSeq(moved, 1, Len(moved) - 1) \in Seq(Keys)
          /\ Len(SubSeq(moved, 1, Len(moved) - 1)) <= Len(moved)
      <4>. HIDE DEF moved
      <4>. QED BY <3>2
    <3>4. registered' \in Seq(Keys) /\ Len(registered') <= MaxSources
      BY <2>1, <3>1, <3>2, <3>3, SizesAssumption
    <3>. QED BY <2>3, <3>4 DEF TypeOK, RemoveRevenueSource
  <2>. QED BY <1>5, <2>2, <2>3
<1>6. ASSUME NEW w \in Keys,
             \/ AddAssociatedWallet(w)
             \/ AddToBlocklist(w)
             \/ AddToPlatformWhitelist(w)
      PROVE  TypeOK'
  <2>1. CASE AddAssociatedWallet(w)
    BY <2>1 DEF TypeOK, AddAssociatedWallet
  <2>2. CASE AddToBlocklist(w)
    <3>1. blocklist' \subseteq Keys /\ blockCount' \in 0 .. MaxBlocklist
      BY <2>2, SizesAssumption DEF TypeOK, AddToBlocklist
    <3>. QED BY <2>2, <3>1 DEF TypeOK, AddToBlocklist
  <2>3. CASE AddToPlatformWhitelist(w)
    <3>1. whitelist' \subseteq Keys /\ whiteCount' \in 0 .. MaxWhitelist
      BY <2>3, SizesAssumption DEF TypeOK, AddToPlatformWhitelist
    <3>. QED BY <2>3, <3>1 DEF TypeOK, AddToPlatformWhitelist
  <2>. QED BY <1>6, <2>1, <2>2, <2>3
<1>7. ASSUME NEW expected \in ExpectedRevenues \union {expectedDaily},
             NEW credit \in Credits \union {totalCredit},
             NEW disbursed \in Disbursements \union {totalDisbursed},
             UpdateValidatorParams(expected, credit, disbursed)
      PROVE  TypeOK'
  BY <1>7, AmountsAssumption DEF TypeOK, UpdateValidatorParams
<1>8. ASSUME NEW b \in BOOLEAN, SetPaused(b)
      PROVE  TypeOK'
  BY <1>8 DEF TypeOK, SetPaused
<1>9. CASE Tick
  BY <1>9 DEF TypeOK, Tick
<1>10. CASE UNCHANGED vars
  BY <1>10 DEF TypeOK, vars
<1>. QED BY <1>1, <1>2, <1>3, <1>4, <1>5, <1>6, <1>7, <1>8, <1>9, <1>10, KeysAssumption
     DEF Next, PaymentStep, ListStep

(* Every behaviour has well-typed rings, lists and counters; slots that never   *)
(* held a payment are settled, so that none is ever reviewed.                   *)
THEOREM TypeCorrect == Spec => []TypeOK
<1>. QED BY InitTypeOK, StepTypeOK, PTL DEF Spec

-----------------------------------------------------------------------------
(* Revenue is the sum of the payments that stand. *)

LEMMA InitCreditedOnce == Init => CreditedOnce
<1>. SUFFICES ASSUME Init PROVE CreditedOnce
  OBVIOUS
<1>1. RingCredits = [k \in 1 .. PaymentHistorySize |-> 0]
  BY DEF Init, RingCredits, Credited, Slots
<1>2. Total(RingCredits, PaymentHistorySize) = 0
  BY <1>1, TotalZero, SizesAssumption
<1>. QED BY <1>2 DEF Init, CreditedOnce

(* A payment that was credited and is no longer: the saturating subtraction     *)
(* takes off exactly what it had added.                                         *)
LEMMA RevokeExact ==
    ASSUME TypeOK, CreditedOnce, NEW k \in Slots,
           payments[k].standing \in {"verified", "pending"},
           payments' = [payments EXCEPT ![k].standing = "rejected"],
           Revoke(k), UNCHANGED forgotten
    PROVE  CreditedOnce'
<1>. DEFINE p == [payments[k] EXCEPT !.standing = "rejected"]
<1>1. /\ p \in Payments /\ p.standing = "rejected"
      /\ payments[k].amount \in Nat /\ payments' = [payments EXCEPT ![k] = p]
  BY StandingWritten
<1>2. Credited(p) = 0 /\ Credited(payments[k]) = payments[k].amount
  BY <1>1 DEF Credited
<1>. HIDE DEF p
<1>3. /\ Total(RingCredits, PaymentHistorySize) \in Nat
      /\ payments[k].amount <= Total(RingCredits, PaymentHistorySize)
      /\ Total(RingCredits, PaymentHistorySize)'
           = Total(RingCredits, PaymentHistorySize) - payments[k].amount + 0
  BY <1>1, <1>2, SlotWritten
<1>4. /\ cumulative = forgotten + Total(RingCredits, PaymentHistorySize)
      /\ cumulative' = SatSub(cumulative, payments[k].amount)
      /\ forgotten \in Nat /\ cumulative \in Nat /\ forgotten' = forgotten
  BY DEF CreditedOnce, Revoke, TypeOK
<1>5. cumulative' = forgotten' + Total(RingCredits, PaymentHistorySize)'
  BY <1>1, <1>3, <1>4 DEF SatSub
<1>. QED BY <1>5 DEF CreditedOnce

LEMMA StepCreditedOnce == TypeOK /\ CreditedOnce /\ [Next]_vars => CreditedOnce'
<1>. SUFFICES ASSUME TypeOK, CreditedOnce, [Next]_vars PROVE CreditedOnce'
  OBVIOUS
<1>1. /\ cumulative = forgotten + Total(RingCredits, PaymentHistorySize)
      /\ forgotten \in Nat /\ cumulative \in Nat
  BY DEF CreditedOnce, TypeOK
<1>2. ASSUME NEW source \in Keys, NEW amount \in Amounts, NEW isX402 \in BOOLEAN,
             ValidateRevenue(source, amount, isX402)
      PROVE  CreditedOnce'
  <2>. DEFINE payment == [source |-> source, amount |-> amount,
                          standing |-> Classification(source, amount, isX402)]
  <2>1. payment \in Payments /\ Credited(payment) \in Nat
    BY ClassificationType, AmountsAssumption DEF Payments, Received, Credited
  <2>. HIDE DEF payment
  <2>2. /\ payments' = [payments EXCEPT ![paymentHead] = payment]
        /\ forgotten' = forgotten + Credited(payments[paymentHead])
        /\ cumulative' = cumulative + Credited(payment)
    BY <1>2 DEF ValidateRevenue, payment
  <2>3. paymentHead \in Slots
    BY DEF TypeOK
  <2>4. /\ Total(RingCredits, PaymentHistorySize) \in Nat
        /\ Credited(payments[paymentHead]) \in Nat
        /\ Total(RingCredits, PaymentHistorySize)'
             = Total(RingCredits, PaymentHistorySize) - Credited(payments[paymentHead])
               + Credited(payment)
    BY <2>1, <2>2, <2>3, SlotWritten
  <2>5. cumulative' = forgotten' + Total(RingCredits, PaymentHistorySize)'
    BY <1>1, <2>1, <2>2, <2>4
  <2>. QED BY <2>5 DEF CreditedOnce
<1>3. ASSUME NEW k \in Slots, NEW decision \in Decisions, ReviewQuarantined(k, decision)
      PROVE  CreditedOnce'
  <2>1. /\ payments[k].standing \in {"quarantined", "pending"}
        /\ forgotten' = forgotten
    BY <1>3 DEF ReviewQuarantined
  <2>2. CASE Accept(k)
    <3>. DEFINE p == [payments[k] EXCEPT !.standing = "verified"]
    <3>1. /\ p \in Payments /\ p.amount = payments[k].amount /\ p.standing = "verified"
          /\ payments[k].amount \in Nat /\ payments' = [payments EXCEPT ![k] = p]
      BY <2>2, StandingWritten DEF Accept
    <3>2. Credited(p) = payments[k].amount
      BY <3>1 DEF Credited
    <3>. HIDE DEF p
    <3>3. /\ Total(RingCredits, PaymentHistorySize) \in Nat
          /\ Total(RingCredits, PaymentHistorySize)'
               = Total(RingCredits, PaymentHistorySize) - Credited(payments[k])
                 + payments[k].amount
      BY <3>1, <3>2, SlotWritten
    <3>4. cumulative' + Credited(payments[k]) = cumulative + payments[k].amount
      BY <1>1, <2>1, <2>2, <3>1 DEF Accept, Credited
    <3>5. Credited(payments[k]) \in Nat /\ cumulative' \in Nat
      BY <1>1, <2>2, <3>1 DEF Accept, Credited
    <3>6. cumulative' = forgotten' + Total(RingCredits, PaymentHistorySize)'
      BY <1>1, <2>1, <3>1, <3>3, <3>4, <3>5
    <3>. QED BY <3>6 DEF CreditedOnce
  <2>3. CASE Refuse(k) /\ payments[k].standing = "pending"
    BY <2>1, <2>3, RevokeExact DEF Refuse
  <2>4. CASE Refuse(k) /\ payments[k].standing = "quarantined"
    <3>. DEFINE p == [payments[k] EXCEPT !.standing = "rejected"]
    <3>1. /\ p \in Payments /\ p.standing = "rejected"
          /\ payments' = [payments EXCEPT ![k] = p]
      BY <2>4, StandingWritten DEF Refuse
    <3>2. Credited(p) = 0 /\ Credited(payments[k]) = 0
      BY <2>4, <3>1 DEF Credited
    <3>. HIDE DEF p
    <3>3. /\ Total(RingCredits, PaymentHistorySize) \in Nat
          /\ Total(RingCredits, PaymentHistorySize)'
               = Total(RingCredits, PaymentHistorySize) - 0 + 0
      BY <3>1, <3>2, SlotWritten
    <3>4. cumulative' = cumulative
      BY <2>4 DEF Refuse, revenue
    <3>5. cumulative' = forgotten' + Total(RingCredits, PaymentHistorySize)'
      BY <1>1, <2>1, <3>3, <3>4
    <3>. QED BY <3>5 DEF CreditedOnce
  <2>. QED BY <1>3, <2>1, <2>2, <2>3, <2>4 DEF ReviewQuarantined
<1>4. ASSUME NEW k \in Slots, RetroactiveReject(k)
      PROVE  CreditedOnce'
  BY <1>4, RevokeExact DEF RetroactiveReject
<1>5. ASSUME UNCHANGED <<payments, forgotten, cumulative>>
      PROVE  CreditedOnce'
  <2>1. RingCredits' = RingCredits
    BY <1>5 DEF RingCredits
  <2>. QED BY <1>5, <2>1 DEF CreditedOnce
<1>6. CASE \E amount \in OutflowAmounts : RecordOutflow(amount)
  BY <1>5, <1>6 DEF RecordOutflow, paymentRing, revenue
<1>7. CASE ListStep
  BY <1>5, <1>7 DEF ListStep, RegisterRevenueSource, RemoveRevenueSource, AddAssociatedWallet,
     AddToBlocklist, AddToPlatformWhitelist, UpdateValidatorParams, SetPaused, paymentRing,
     revenue
<1>8. CASE Tick \/ UNCHANGED vars
  BY <1>5, <1>8 DEF Tick, vars, paymentRing, revenue
<1>. QED BY <1>2, <1>3, <1>4, <1>6, <1>7, <1>8 DEF Next, PaymentStep

(* cumulative_validated_revenue is at all times the sum of the payments that    *)
(* stand verified or pending, forgotten ones included.                          *)
THEOREM RevenueCounted == Spec => []CreditedOnce
<1>. QED BY InitCreditedOnce, StepCreditedOnce, TypeCorrect, PTL DEF Spec

-----------------------------------------------------------------------------
(* The ring of outflows holds the latest ones. *)

(* the slot of the outflow recorded d calls before the last one *)
SlotBack(d) ==
    IF d < outflowHead - 1 THEN outflowHead - 1 - d
                           ELSE outflowHead - 1 - d + OutflowHistorySize

RingHoldsLatest ==
    /\ outflowCount = Lesser(Len(sent), OutflowHistorySize)
    /\ Len(sent) < OutflowHistorySize => outflowHead = Len(sent) + 1
    /\ \A d \in 0 .. OutflowHistorySize - 1 :
          d < Len(sent) => outflows[SlotBack(d)] = sent[Len(sent) - d]

LEMMA NextHead ==
    ASSUME NEW n \in Nat \ {0}, NEW h \in 1 .. n
    PROVE  (h % n) + 1 = IF h = n THEN 1 ELSE h + 1
<1>1. CASE h = n
  <2>1. n % n = 0
    OBVIOUS
  <2>. QED BY <1>1, <2>1
<1>2. CASE h # n
  <2>1. h \in Nat /\ h < n
    BY <1>2
  <2>2. h % n = h
    BY <2>1
  <2>. QED BY <1>2, <2>2
<1>. QED BY <1>1, <1>2

LEMMA InitRing == Init => RingHoldsLatest
<1>. SUFFICES ASSUME Init PROVE RingHoldsLatest
  OBVIOUS
<1>1. sent = <<>> /\ outflowCount = 0 /\ outflowHead = 1
  BY DEF Init
<1>2. Len(sent) = 0
  BY <1>1
<1>. QED BY <1>1, <1>2, SizesAssumption DEF RingHoldsLatest, Lesser

LEMMA StepRing == TypeOK /\ RingHoldsLatest /\ [Next]_vars => RingHoldsLatest'
<1>. SUFFICES ASSUME TypeOK, RingHoldsLatest, [Next]_vars PROVE RingHoldsLatest'
  OBVIOUS
<1>. DEFINE N == OutflowHistorySize
<1>1. ASSUME NEW amount \in OutflowAmounts, RecordOutflow(amount)
      PROVE  RingHoldsLatest'
  <2>. DEFINE outflow == [amount |-> amount, time |-> now]
  <2>. DEFINE n == Len(sent)
  <2>1. /\ N \in Nat \ {0} /\ outflowHead \in 1 .. N /\ n \in Nat
        /\ outflows \in [1 .. N -> [amount : Nat, time : Nat]]
    BY SizesAssumption DEF TypeOK, OutflowSlots
  <2>2. /\ outflows' = [outflows EXCEPT ![outflowHead] = outflow]
        /\ outflowHead' = IF outflowHead = N THEN 1 ELSE outflowHead + 1
        /\ outflowCount' = Lesser(outflowCount + 1, N)
    BY <1>1, <2>1, NextHead DEF RecordOutflow, NextOutflowSlot
  <2>3. /\ Len(sent') = n + 1
        /\ sent'[n + 1] = outflow
        /\ \A j \in 1 .. n : sent'[j] = sent[j]
    <3>1. sent' = Append(sent, outflow) /\ sent \in Seq([amount : Nat, time : Nat])
      BY <1>1 DEF RecordOutflow, TypeOK
    <3>. QED BY <3>1
  <2>4. /\ outflowCount = Lesser(n, N)
        /\ n < N => outflowHead = n + 1
        /\ \A d \in 0 .. N - 1 : d < n => outflows[SlotBack(d)] = sent[n - d]
    BY DEF RingHoldsLatest
  <2>. HIDE DEF outflow, n, N
  <2>5. outflowCount' = Lesser(n + 1, N)
    BY <2>1, <2>2, <2>4 DEF Lesser
  <2>6. n + 1 < N => outflowHead' = n + 2
    BY <2>1, <2>2, <2>4
  <2>7. ASSUME NEW d \in 0 .. N - 1, d < n + 1
        PROVE  outflows'[SlotBack(d)'] = sent'[n + 1 - d]
    <3>1. CASE d = 0
      <4>1. SlotBack(d)' = outflowHead
        BY <2>1, <2>2, <3>1 DEF SlotBack, N
      <4>. QED BY <2>1, <2>2, <2>3, <3>1, <4>1
    <3>2. CASE d # 0
      <4>1. d - 1 \in 0 .. N - 1 /\ d - 1 < n
        BY <2>1, <2>7, <3>2
      <4>2. SlotBack(d)' = SlotBack(d - 1) /\ SlotBack(d - 1) # outflowHead
            /\ SlotBack(d - 1) \in 1 .. N
        BY <2>1, <2>2, <3>2 DEF SlotBack, N
      <4>3. outflows'[SlotBack(d)'] = outflows[SlotBack(d - 1)]
        BY <2>1, <2>2, <4>2
      <4>4. outflows[SlotBack(d - 1)] = sent[n - (d - 1)]
        BY <2>4, <4>1
      <4>5. n - (d - 1) = n + 1 - d /\ n + 1 - d \in 1 .. n
        BY <2>1, <2>7, <3>2
      <4>. QED BY <2>3, <4>3, <4>4, <4>5
    <3>. QED BY <3>1, <3>2
  <2>8. Len(sent') < N => outflowHead' = Len(sent') + 1
    BY <2>1, <2>3, <2>6
  <2>9. ASSUME NEW d \in 0 .. N - 1, d < Len(sent')
        PROVE  outflows'[SlotBack(d)'] = sent'[Len(sent') - d]
    <3>1. d < n + 1
      BY <2>3, <2>9
    <3>2. outflows'[SlotBack(d)'] = sent'[n + 1 - d]
      BY <2>7, <3>1
    <3>3. Len(sent') - d = n + 1 - d
      BY <2>1, <2>3
    <3>. QED BY <3>2, <3>3
  <2>10. outflowCount' = Lesser(Len(sent'), N)
    BY <2>3, <2>5
  <2>. QED BY <2>8, <2>9, <2>10 DEF RingHoldsLatest, N
<1>2. ASSUME UNCHANGED outflowRing
      PROVE  RingHoldsLatest'
  BY <1>2 DEF RingHoldsLatest, outflowRing, SlotBack
<1>3. CASE \/ \E source \in Keys, amount \in Amounts, isX402 \in BOOLEAN :
               ValidateRevenue(source, amount, isX402)
           \/ \E k \in Slots, decision \in Decisions : ReviewQuarantined(k, decision)
           \/ \E k \in Slots : RetroactiveReject(k)
  BY <1>2, <1>3 DEF ValidateRevenue, ReviewQuarantined, RetroactiveReject
<1>4. CASE ListStep
  BY <1>2, <1>4 DEF ListStep, RegisterRevenueSource, RemoveRevenueSource, AddAssociatedWallet,
     AddToBlocklist, AddToPlatformWhitelist, UpdateValidatorParams, SetPaused
<1>5. CASE Tick \/ UNCHANGED vars
  BY <1>2, <1>5 DEF Tick, vars
<1>. QED BY <1>1, <1>3, <1>4, <1>5 DEF Next, PaymentStep

-----------------------------------------------------------------------------
(* Pattern scores *)

LEMMA AnomalyRange ==
    ASSUME NEW amount \in Nat
    PROVE  AnomalyScore(amount) \in {0, 15, 30, 50}
  BY DEF AnomalyScore

LEMMA RoundTripRange ==
    ASSUME NEW amount \in Nat
    PROVE  RoundTripScore(amount) \in {0, 60, 80, 100}
  BY DEF RoundTripScore, OutflowsKept

(* One match anywhere in the ring scores, whichever match the array has first. *)
LEMMA MatchScores ==
    ASSUME NEW amount \in Nat, NEW k \in 1 .. outflowCount, Returns(amount, outflows[k])
    PROVE  RoundTripScore(amount) \in {60, 80, 100}
<1>1. {j \in 1 .. outflowCount : Returns(amount, outflows[j])} # {}
  OBVIOUS
<1>. QED BY <1>1 DEF RoundTripScore, OutflowsKept

(* What one of the latest outflows says about a payment, the ring says too. *)
LEMMA LatestInRing ==
    ASSUME TypeOK, RingHoldsLatest, NEW j \in 1 .. Len(sent),
           j > Len(sent) - OutflowHistorySize
    PROVE  \E k \in 1 .. outflowCount : outflows[k] = sent[j]
<1>. DEFINE d == Len(sent) - j
<1>1. /\ Len(sent) \in Nat /\ OutflowHistorySize \in Nat \ {0}
      /\ outflowHead \in 1 .. OutflowHistorySize
  BY SizesAssumption DEF TypeOK, OutflowSlots
<1>2. d \in 0 .. OutflowHistorySize - 1 /\ d < Len(sent) /\ Len(sent) - d = j
  BY <1>1
<1>. HIDE DEF d
<1>3. outflows[SlotBack(d)] = sent[j]
  BY <1>2 DEF RingHoldsLatest
<1>4. SlotBack(d) \in 1 .. outflowCount
  <2>1. /\ outflowCount = IF Len(sent) <= OutflowHistorySize THEN Len(sent)
                                                          ELSE OutflowHistorySize
        /\ Len(sent) < OutflowHistorySize => outflowHead = Len(sent) + 1
    BY DEF RingHoldsLatest, Lesser
  <2>. QED BY <1>1, <1>2, <2>1 DEF SlotBack
<1>. QED BY <1>3, <1>4

(* What the property says of a step, from what the ring holds before it. *)
LEMMA StepEarnsNothing ==
    ASSUME TypeOK, RingHoldsLatest, NEW source \in Keys, NEW amount \in Amounts,
           ValidateRevenue(source, amount, FALSE), ~ Trusted(source, FALSE),
           NEW j \in 1 .. Len(sent), j > Len(sent) - OutflowHistorySize,
           Returns(amount, sent[j])
    PROVE  cumulative' = cumulative
<1>1. amount \in Nat
  BY AmountsAssumption
<1>2. PICK k \in 1 .. outflowCount : outflows[k] = sent[j]
  BY LatestInRing
<1>3. Returns(amount, outflows[k])
  BY <1>2
<1>4. RoundTripScore(amount) \in {60, 80, 100} /\ AnomalyScore(amount) \in {0, 15, 30, 50}
  BY <1>1, <1>3, MatchScores, AnomalyRange
<1>5. PatternScore(amount) >= PatternQuarantine
  BY <1>4 DEF PatternScore, PatternQuarantine
<1>6. Classification(source, amount, FALSE) \in {"rejected", "quarantined"}
  BY <1>5 DEF Classification
<1>7. Credited([source |-> source, amount |-> amount,
                standing |-> Classification(source, amount, FALSE)]) = 0
  BY <1>6 DEF Credited
<1>8. cumulative \in Nat
  BY DEF TypeOK
<1>. QED BY <1>7, <1>8 DEF ValidateRevenue

(* Sending back one of the latest outflows earns an unknown source nothing.     *)
THEOREM RoundTripsEarnNothing == Spec => RoundTripEarnsNothing
<1>1. Spec => [](TypeOK /\ RingHoldsLatest)
  BY TypeCorrect, InitRing, StepRing, PTL DEF Spec
<1>2. TypeOK /\ RingHoldsLatest /\ [Next]_vars =>
        [\A source \in Keys, amount \in Amounts :
           /\ ValidateRevenue(source, amount, FALSE)
           /\ ~ Trusted(source, FALSE)
           /\ \E j \in 1 .. Len(sent) : /\ j > Len(sent) - OutflowHistorySize
                                       /\ Returns(amount, sent[j])
           => cumulative' = cumulative]_vars
  BY StepEarnsNothing
<1>. QED BY <1>1, <1>2, PTL DEF Spec, RoundTripEarnsNothing

(* The highest pattern score is 150: the branch of validate_revenue_on_chain    *)
(* that rejects a trusted source at 160 is never taken, and who pays by x402 or *)
(* is registered or whitelisted, and is not refused as a source, is verified    *)
(* unless the payment overshoots the plan twentyfold.                           *)
THEOREM TrustedAlwaysVerified ==
    ASSUME NEW source \in Keys, NEW amount \in Nat, NEW isX402 \in BOOLEAN,
           Trusted(source, isX402), ~ Refused(source),
           ~ Overshoots(amount, ExtremeOvershoot)
    PROVE  Classification(source, amount, isX402) = "verified"
<1>1. /\ RoundTripScore(amount) \in {0, 60, 80, 100}
      /\ AnomalyScore(amount) \in {0, 15, 30, 50}
  BY RoundTripRange, AnomalyRange
<1>2. ~ (PatternScore(amount) >= 2 * PatternReject)
  BY <1>1 DEF PatternScore, PatternReject
<1>. QED BY <1>2 DEF Classification
=============================================================================
