------------------------- MODULE ServicePlan_proofs -------------------------
(* Proofs about ServicePlan, for any plans, reports and limits.                 *)
EXTENDS ServicePlan, Arithmetic_proofs, FiniteSetTheorems, TLAPS

LEMMA RatioNat ==
    ASSUME NEW revenue \in Nat, NEW target \in Nat \ {0}
    PROVE  /\ RevenueRatio(revenue, target) \in Nat
           /\ RevenueRatio(revenue, target) % U16 \in Nat
           /\ RevenueRatio(revenue, target) % U16 <= RevenueRatio(revenue, target)
<1>1. RevenueRatio(revenue, target) \in Nat
  BY MulDivNat DEF RevenueRatio, Bps
<1>2. \A r \in Nat : r % U16 \in Nat /\ r % U16 <= r
  BY LimitsAssumption
<1>. QED BY <1>1, <1>2

LEMMA ZoneType ==
    ASSUME NEW revenue, NEW target, NEW days
    PROVE  Zone(revenue, target, days) \in Zones
  BY DEF Zone, ZoneOfRatio, Zones

-----------------------------------------------------------------------------
(* What disbursements do to the sums over the milestones. *)

LEMMA MilestoneFacts ==
    ASSUME NEW ms \in Seq(Milestones)
    PROVE  /\ Len(ms) \in Nat
           /\ \A i \in 1 .. Len(ms) : /\ ms[i] \in Milestones
                                      /\ ms[i].amount \in Nat
                                      /\ ms[i].disbursed \in BOOLEAN
<1>1. Len(ms) \in Nat /\ \A i \in 1 .. Len(ms) : ms[i] \in Milestones
  OBVIOUS
<1>2. \A m \in Milestones : m.amount \in Nat /\ m.disbursed \in BOOLEAN
  BY DEF Milestones
<1>. QED BY <1>1, <1>2

LEMMA SumsAreNat ==
    ASSUME NEW ms \in Seq(Milestones)
    PROVE  /\ Amounts(ms) \in [1 .. Len(ms) -> Nat]
           /\ Paid(ms) \in [1 .. Len(ms) -> Nat]
           /\ Total(Amounts(ms), Len(ms)) \in Nat
           /\ Total(Paid(ms), Len(ms)) \in Nat
<1>1. /\ Len(ms) \in Nat
      /\ Amounts(ms) \in [1 .. Len(ms) -> Nat]
      /\ Paid(ms) \in [1 .. Len(ms) -> Nat]
  BY MilestoneFacts DEF Amounts, Paid
<1>. QED BY <1>1, TotalNat

(* What is paid is part of what is planned. *)
LEMMA PaidWithinPlanned ==
    ASSUME NEW ms \in Seq(Milestones)
    PROVE  Total(Paid(ms), Len(ms)) <= Total(Amounts(ms), Len(ms))
<1>. DEFINE open == [i \in 1 .. Len(ms) |-> IF ms[i].disbursed THEN 0 ELSE ms[i].amount]
<1>1. Len(ms) \in Nat /\ open \in [1 .. Len(ms) -> Nat]
  BY MilestoneFacts
<1>2. \A i \in 1 .. Len(ms) : Amounts(ms)[i] = Paid(ms)[i] + open[i]
  BY MilestoneFacts DEF Amounts, Paid
<1>. HIDE DEF open
<1>3. Total(Amounts(ms), Len(ms)) = Total(Paid(ms), Len(ms)) + Total(open, Len(ms))
  BY <1>1, <1>2, SumsAreNat, TotalSum
<1>4. Total(open, Len(ms)) \in Nat
  BY <1>1, TotalNat
<1>. QED BY <1>3, <1>4, SumsAreNat

(* Marking an open milestone adds its amount to what is paid, and to nothing    *)
(* else.                                                                        *)
LEMMA MarkDisbursed ==
    ASSUME NEW ms \in Seq(Milestones), NEW i \in 1 .. Len(ms), ~ ms[i].disbursed,
           NEW marked, marked = [ms EXCEPT ![i].disbursed = TRUE]
    PROVE  /\ marked \in Seq(Milestones)
           /\ Len(marked) = Len(ms)
           /\ Amounts(marked) = Amounts(ms)
           /\ Total(Paid(marked), Len(ms)) = Total(Paid(ms), Len(ms)) + ms[i].amount
<1>1. ms[i] \in Milestones /\ ms[i].amount \in Nat /\ Len(ms) \in Nat
  BY MilestoneFacts
<1>2. /\ marked \in Seq(Milestones) /\ Len(marked) = Len(ms)
      /\ \A k \in 1 .. Len(ms) : marked[k].amount = ms[k].amount
      /\ marked[i].disbursed
      /\ \A k \in 1 .. Len(ms) : k # i => marked[k] = ms[k]
  <2>. DEFINE m == [ms[i] EXCEPT !.disbursed = TRUE]
  <2>1. m \in Milestones /\ m.amount = ms[i].amount /\ m.disbursed
    BY <1>1 DEF Milestones
  <2>2. marked = [ms EXCEPT ![i] = m]
    OBVIOUS
  <2>. HIDE DEF m
  <2>3. /\ marked \in Seq(Milestones) /\ Len(marked) = Len(ms)
        /\ marked[i] = m
        /\ \A k \in 1 .. Len(ms) : k # i => marked[k] = ms[k]
    <3>. DEFINE R == Milestones
    <3>1. ms \in [1 .. Len(ms) -> R] /\ m \in R /\ Len(ms) \in Nat
      BY <1>1, <2>1
    <3>. HIDE DEF R
    <3>2. /\ marked \in [1 .. Len(ms) -> R] /\ marked[i] = m
          /\ \A k \in 1 .. Len(ms) : k # i => marked[k] = ms[k]
      BY <2>2, <3>1
    <3>3. marked \in Seq(R) /\ Len(marked) = Len(ms)
      BY <3>1, <3>2
    <3>. QED BY <3>2, <3>3 DEF R
  <2>. QED BY <2>1, <2>3
<1>3. Amounts(marked) = Amounts(ms)
  BY <1>2 DEF Amounts
<1>4. Paid(marked) = [Paid(ms) EXCEPT ![i] = ms[i].amount]
  BY <1>2 DEF Paid
<1>5. Paid(ms)[i] = 0
  BY DEF Paid
<1>6. Total([Paid(ms) EXCEPT ![i] = ms[i].amount], Len(ms))
        = Total(Paid(ms), Len(ms)) - Paid(ms)[i] + ms[i].amount
  BY <1>1, SumsAreNat, TotalUpdate
<1>. QED BY <1>1, <1>2, <1>3, <1>4, <1>5, <1>6, SumsAreNat

-----------------------------------------------------------------------------
(* The inductive invariant: the counters add up, the milestones were planned    *)
(* within the credit, and once revenue has been reported in a period the zone   *)
(* is that of the figures.                                                      *)

Planned == Total(Amounts(milestones), Len(milestones)) <= totalCredit

ZoneIsCurrent == actual > 0 => health = Zone(actual, projected, zeroDays)

IInv == TypeOK /\ CountersAddUp /\ Planned /\ ZoneIsCurrent

LEMMA ActiveIsFinite ==
    ASSUME TypeOK
    PROVE  IsFiniteSet(ActiveDests) /\ Cardinality(ActiveDests) \in Nat
<1>1. ActiveDests \subseteq Destinations
  BY DEF TypeOK, ActiveDests
<1>. QED BY <1>1, FS_Subset, FS_CardinalityType, LimitsAssumption

LEMMA InitIInv == Init => IInv
<1>. SUFFICES ASSUME Init PROVE IInv
  OBVIOUS
<1>1. /\ milestones = <<>> /\ totalCredit = 0 /\ totalDisbursed = 0
      /\ DOMAIN dests = {} /\ destCount = 0 /\ actual = 0
  BY DEF Init
<1>2. /\ totalCredit \in Nat /\ totalDisbursed \in Nat
      /\ milestones \in Seq(Milestones) /\ Len(milestones) = 0
  BY <1>1
<1>3. TypeOK
  <2>1. /\ projected \in Nat /\ actual \in Nat /\ zeroDays \in Nat /\ health \in Zones
        /\ windDown \in Stages /\ windDownStarted \in Nat /\ now \in Nat
    BY DEF Init, Zones, Stages
  <2>2. paused \in BOOLEAN
    BY DEF Init
  <2>3. Len(milestones) <= MaxMilestones /\ destCount \in 0 .. MaxDestinations
    BY <1>1, <1>2, LimitsAssumption
  <2>. QED BY <1>1, <1>2, <2>1, <2>2, <2>3 DEF TypeOK
<1>4. /\ Total(Amounts(milestones), Len(milestones)) = 0
      /\ Total(Paid(milestones), Len(milestones)) = 0
  <2>1. /\ Amounts(milestones) = [i \in 1 .. 0 |-> 0]
        /\ Paid(milestones) = [i \in 1 .. 0 |-> 0]
    BY <1>2 DEF Amounts, Paid
  <2>2. Total([i \in 1 .. 0 |-> 0], 0) = 0
    <3>. HIDE DEF Total
    <3>1. 0 \in Nat
      OBVIOUS
    <3>. QED BY <3>1, TotalZero, Zenon
  <2>. QED BY <1>2, <2>1, <2>2, Zenon
<1>5. ActiveDests = {}
  BY <1>1 DEF ActiveDests
<1>6. CountersAddUp
  BY <1>1, <1>2, <1>4, <1>5, FS_EmptySet
  DEF CountersAddUp, MilestonesAddUp, DestinationsAddUp
<1>7. Planned /\ ZoneIsCurrent
  BY <1>1, <1>2, <1>4 DEF Planned, ZoneIsCurrent
<1>. QED BY <1>3, <1>6, <1>7 DEF IInv

(* One lemma per group of instructions. *)

LEMMA CreateKeepsIInv ==
    ASSUME IInv, NEW total \in TotalCredits, NEW ms \in MilestonePlans,
           CreatePlan(total, ms)
    PROVE  IInv'
<1>1. /\ totalCredit' = total /\ milestones' = ms /\ total \in Nat /\ total > 0
      /\ Total(Amounts(ms), Len(ms)) <= total
      /\ totalCredit = 0
      /\ UNCHANGED <<paused, totalDisbursed, projected, actual, zeroDays, health, windDown,
                     windDownStarted, destCount, dests, now>>
  BY InputsAssumption DEF CreatePlan, Created, figures, windingDown, expenses, IInv, TypeOK
<1>2. /\ ms \in Seq(Milestones) /\ Len(ms) <= MaxMilestones
      /\ \A i \in 1 .. Len(ms) : ~ ms[i].disbursed
  <2>1. PICK n \in 0 .. MaxMilestones : ms \in [1 .. n -> Milestone]
    BY DEF MilestonePlans
  <2>2. Milestone \subseteq Milestones /\ \A m \in Milestone : ~ m.disbursed
    BY InputsAssumption DEF Milestone, Milestones
  <2>3. n \in Nat /\ n <= MaxMilestones /\ ms \in [1 .. n -> Milestones]
    BY <2>1, <2>2, LimitsAssumption
  <2>4. ms \in Seq(Milestones) /\ Len(ms) = n
    BY <2>3
  <2>. QED BY <2>1, <2>2, <2>3, <2>4
<1>3. Paid(ms) = [i \in 1 .. Len(ms) |-> 0]
  BY <1>2 DEF Paid
<1>4. Total(Paid(ms), Len(ms)) = 0
  BY <1>2, <1>3, TotalZero
<1>5. totalDisbursed = 0
  BY <1>1 DEF IInv, TypeOK, CountersAddUp, MilestonesAddUp
<1>6. TypeOK'
  BY <1>1, <1>2 DEF IInv, TypeOK, Created
<1>7. CountersAddUp'
  BY <1>1, <1>4, <1>5 DEF IInv, CountersAddUp, MilestonesAddUp, DestinationsAddUp, ActiveDests
<1>8. Planned' /\ ZoneIsCurrent'
  BY <1>1 DEF IInv, Planned, ZoneIsCurrent
<1>. QED BY <1>6, <1>7, <1>8 DEF IInv

LEMMA DisburseKeepsIInv ==
    ASSUME IInv, NEW i \in 1 .. Len(milestones), DisburseMilestone(i)
    PROVE  IInv'
<1>1. /\ ~ milestones[i].disbursed
      /\ milestones' = [milestones EXCEPT ![i].disbursed = TRUE]
      /\ totalDisbursed' = totalDisbursed + milestones[i].amount
      /\ UNCHANGED <<paused, totalCredit, projected, actual, zeroDays, health, windDown,
                     windDownStarted, destCount, dests, now>>
  BY DEF DisburseMilestone, figures, windingDown, expenses
<1>2. milestones \in Seq(Milestones) /\ Len(milestones) <= MaxMilestones
      /\ totalCredit \in Nat /\ totalDisbursed \in Nat /\ milestones[i].amount \in Nat
  <2>1. milestones \in Seq(Milestones) /\ Len(milestones) <= MaxMilestones
        /\ totalCredit \in Nat /\ totalDisbursed \in Nat
    BY DEF IInv, TypeOK
  <2>. QED BY <2>1, MilestoneFacts
<1>3. /\ milestones' \in Seq(Milestones)
      /\ Len(milestones') = Len(milestones)
      /\ Amounts(milestones') = Amounts(milestones)
      /\ Total(Paid(milestones'), Len(milestones))
           = Total(Paid(milestones), Len(milestones)) + milestones[i].amount
  BY <1>1, <1>2, MarkDisbursed
<1>4. TypeOK'
  BY <1>1, <1>2, <1>3 DEF IInv, TypeOK, Created
<1>5. Planned' /\ ZoneIsCurrent'
  BY <1>1, <1>3 DEF IInv, Planned, ZoneIsCurrent
<1>6. MilestonesAddUp'
  <2>1. totalDisbursed' = Total(Paid(milestones'), Len(milestones'))
    BY <1>1, <1>2, <1>3 DEF IInv, CountersAddUp, MilestonesAddUp
  <2>5. totalDisbursed' \in Nat /\ totalCredit' \in Nat
    BY <1>1, <1>2
  <2>2. Total(Paid(milestones'), Len(milestones'))
          <= Total(Amounts(milestones'), Len(milestones'))
    BY <1>3, PaidWithinPlanned
  <2>3. Total(Amounts(milestones'), Len(milestones')) \in Nat
    BY <1>3, SumsAreNat
  <2>4. Total(Amounts(milestones'), Len(milestones')) <= totalCredit'
    BY <1>5 DEF Planned
  <2>. QED BY <2>1, <2>2, <2>3, <2>4, <2>5 DEF MilestonesAddUp
<1>7. DestinationsAddUp'
  BY <1>1 DEF IInv, CountersAddUp, DestinationsAddUp, ActiveDests
<1>. QED BY <1>4, <1>5, <1>6, <1>7 DEF IInv, CountersAddUp

LEMMA ExpensesKeepIInv ==
    ASSUME IInv, UNCHANGED <<paused, credit, figures, windingDown, now>>,
           \/ \E d \in Destinations, limit \in ExpenseLimits : AddExpenseDestination(d, limit)
           \/ \E d \in DOMAIN dests : RemoveExpenseDestination(d)
           \/ \E d \in DOMAIN dests, amount \in ExpenseAmounts : ExecuteExpense(d, amount)
    PROVE  IInv'
<1>1. /\ TypeOK /\ destCount = Cardinality(ActiveDests)
      /\ DOMAIN dests \subseteq Destinations
      /\ \A d \in DOMAIN dests : dests[d] \in DestAccounts
      /\ destCount \in Nat
      /\ destCount <= MaxDestinations
      /\ IsFiniteSet(ActiveDests)
  BY ActiveIsFinite, LimitsAssumption
  DEF IInv, TypeOK, CountersAddUp, DestinationsAddUp
<1>2. SUFFICES /\ destCount' \in 0 .. MaxDestinations
               /\ DOMAIN dests' \subseteq Destinations
               /\ \A d \in DOMAIN dests' : dests'[d] \in DestAccounts
               /\ DOMAIN dests' # {} => Created
               /\ destCount' = Cardinality(ActiveDests')
  BY DEF IInv, TypeOK, Created, CountersAddUp, MilestonesAddUp, DestinationsAddUp, Planned,
         ZoneIsCurrent, credit, figures, windingDown
<1>3. ASSUME NEW d \in Destinations, NEW limit \in ExpenseLimits,
             AddExpenseDestination(d, limit)
      PROVE  /\ destCount' \in 0 .. MaxDestinations
             /\ DOMAIN dests' \subseteq Destinations
             /\ \A x \in DOMAIN dests' : dests'[x] \in DestAccounts
             /\ DOMAIN dests' # {} => Created
             /\ destCount' = Cardinality(ActiveDests')
  <2>1. /\ Created /\ destCount < MaxDestinations /\ d \notin DOMAIN dests
        /\ DOMAIN dests' = DOMAIN dests \union {d}
        /\ dests'[d] = [active |-> TRUE, maxAmount |-> limit, sent |-> 0]
        /\ \A x \in DOMAIN dests : dests'[x] = dests[x]
        /\ destCount' = destCount + 1
    BY <1>3 DEF AddExpenseDestination
  <2>2. dests'[d] \in DestAccounts /\ dests'[d].active
    BY <2>1, InputsAssumption, LimitsAssumption DEF DestAccounts
  <2>3. ActiveDests' = ActiveDests \union {d} /\ d \notin ActiveDests
    BY <2>1, <2>2 DEF ActiveDests
  <2>4. Cardinality(ActiveDests') = Cardinality(ActiveDests) + 1
    BY <1>1, <2>3, FS_AddElement
  <2>5. destCount' \in 0 .. MaxDestinations
    BY <1>1, <2>1, LimitsAssumption
  <2>. QED BY <1>1, <2>1, <2>2, <2>4, <2>5
<1>4. ASSUME NEW d \in DOMAIN dests, RemoveExpenseDestination(d)
      PROVE  /\ destCount' \in 0 .. MaxDestinations
             /\ DOMAIN dests' \subseteq Destinations
             /\ \A x \in DOMAIN dests' : dests'[x] \in DestAccounts
             /\ DOMAIN dests' # {} => Created
             /\ destCount' = Cardinality(ActiveDests')
  <2>1. /\ dests[d].active
        /\ DOMAIN dests' = DOMAIN dests
        /\ dests'[d] = [dests[d] EXCEPT !.active = FALSE]
        /\ \A x \in DOMAIN dests : x # d => dests'[x] = dests[x]
        /\ destCount' = SatSub(destCount, 1)
    BY <1>4 DEF RemoveExpenseDestination
  <2>2. dests'[d] \in DestAccounts /\ ~ dests'[d].active
    BY <1>1, <2>1 DEF DestAccounts
  <2>3. ActiveDests' = ActiveDests \ {d} /\ d \in ActiveDests
    BY <2>1, <2>2 DEF ActiveDests
  <2>4. Cardinality(ActiveDests') = Cardinality(ActiveDests) - 1
    BY <1>1, <2>3, FS_RemoveElement
  <2>5. Cardinality(ActiveDests) # 0
    BY <1>1, <2>3, FS_EmptySet
  <2>6. destCount' = destCount - 1 /\ destCount' \in 0 .. MaxDestinations
    BY <1>1, <2>1, <2>5, LimitsAssumption DEF SatSub
  <2>7. DOMAIN dests # {} => Created
    BY <1>1 DEF TypeOK
  <2>. QED BY <1>1, <2>1, <2>2, <2>4, <2>6, <2>7
<1>5. ASSUME NEW d \in DOMAIN dests, NEW amount \in ExpenseAmounts, ExecuteExpense(d, amount)
      PROVE  /\ destCount' \in 0 .. MaxDestinations
             /\ DOMAIN dests' \subseteq Destinations
             /\ \A x \in DOMAIN dests' : dests'[x] \in DestAccounts
             /\ DOMAIN dests' # {} => Created
             /\ destCount' = Cardinality(ActiveDests')
  <2>1. /\ dests[d].sent + amount <= MaxSent
        /\ DOMAIN dests' = DOMAIN dests
        /\ dests'[d] = [dests[d] EXCEPT !.sent = dests[d].sent + amount]
        /\ \A x \in DOMAIN dests : x # d => dests'[x] = dests[x]
        /\ destCount' = destCount
    BY <1>5 DEF ExecuteExpense
  <2>2. dests'[d] \in DestAccounts /\ dests'[d].active = dests[d].active
    BY <1>1, <2>1, InputsAssumption, LimitsAssumption DEF DestAccounts
  <2>3. ActiveDests' = ActiveDests
    BY <2>1, <2>2 DEF ActiveDests
  <2>4. DOMAIN dests # {} => Created
    BY <1>1 DEF TypeOK
  <2>. QED BY <1>1, <2>1, <2>2, <2>3, <2>4
<1>. QED BY <1>3, <1>4, <1>5

(* The other instructions leave the plan's credit and its destinations alone.   *)
LEMMA ReportsKeepIInv ==
    ASSUME IInv, UNCHANGED <<credit, expenses>>,
           /\ paused' \in BOOLEAN
           /\ projected' \in Nat /\ actual' \in Nat /\ zeroDays' \in Nat
           /\ health' \in Zones
           /\ windDown' \in Stages /\ windDownStarted' \in Nat
           /\ now' \in Nat,
           ZoneIsCurrent'
    PROVE  IInv'
<1>1. TypeOK'
  <2>1. UNCHANGED <<totalCredit, totalDisbursed, milestones, destCount, dests>>
    BY DEF credit, expenses
  <2>2. /\ totalCredit \in Nat /\ totalDisbursed \in Nat
        /\ milestones \in Seq(Milestones) /\ Len(milestones) <= MaxMilestones
        /\ destCount \in 0 .. MaxDestinations
        /\ DOMAIN dests \subseteq Destinations
        /\ \A d \in DOMAIN dests : dests[d] \in DestAccounts
        /\ DOMAIN dests # {} => totalCredit > 0
    BY DEF IInv, TypeOK, Created
  <2>3. /\ paused' \in BOOLEAN
        /\ projected' \in Nat /\ actual' \in Nat /\ zeroDays' \in Nat
        /\ health' \in Zones
        /\ windDown' \in Stages /\ windDownStarted' \in Nat
        /\ now' \in Nat
    OBVIOUS
  <2>. HIDE DEF Zones, Stages, Milestones, DestAccounts
  <2>. QED BY <2>1, <2>2, <2>3 DEF TypeOK, Created
<1>2. CountersAddUp' /\ Planned'
  BY DEF IInv, CountersAddUp, MilestonesAddUp, DestinationsAddUp, ActiveDests, Planned,
         credit, expenses
<1>. QED BY <1>1, <1>2 DEF IInv

LEMMA NextKeepsIInv == IInv /\ [Next]_vars => IInv'
<1>. SUFFICES ASSUME IInv, [Next]_vars PROVE IInv'
  OBVIOUS
<1>. USE DEF credit, figures, windingDown, expenses
<1>1. /\ paused \in BOOLEAN
      /\ projected \in Nat /\ actual \in Nat /\ zeroDays \in Nat
      /\ health \in Zones
      /\ windDown \in Stages /\ windDownStarted \in Nat
      /\ now \in Nat
      /\ ZoneIsCurrent
  BY DEF IInv, TypeOK
<1>2. CASE OwnerStep
  <2>1. ASSUME NEW total \in TotalCredits, NEW ms \in MilestonePlans, CreatePlan(total, ms)
        PROVE  IInv'
    BY <2>1, CreateKeepsIInv
  <2>2. CASE \E d \in Destinations, limit \in ExpenseLimits : AddExpenseDestination(d, limit)
    BY <2>2, ExpensesKeepIInv DEF AddExpenseDestination
  <2>3. CASE \E d \in DOMAIN dests : RemoveExpenseDestination(d)
    BY <2>3, ExpensesKeepIInv DEF RemoveExpenseDestination
  <2>4. CASE \E d \in DOMAIN dests, amount \in ExpenseAmounts : ExecuteExpense(d, amount)
    BY <2>4, ExpensesKeepIInv DEF ExecuteExpense
  <2>. QED BY <1>2, <2>1, <2>2, <2>3, <2>4 DEF OwnerStep
<1>3. ASSUME NEW i \in 1 .. Len(milestones), DisburseMilestone(i) PROVE IInv'
  BY <1>3, DisburseKeepsIInv
<1>4. ASSUME NEW amount \in RevenueAmounts, RecordRevenue(amount) PROVE IInv'
  <2>1. ZoneIsCurrent'
    BY <1>4 DEF RecordRevenue, ZoneIsCurrent
  <2>2. actual' \in Nat /\ zeroDays' \in Nat /\ health' \in Zones
    BY <1>1, <1>4, ZoneType, InputsAssumption DEF RecordRevenue
  <2>. QED BY <1>1, <1>4, <2>1, <2>2, ReportsKeepIInv DEF RecordRevenue
<1>5. ASSUME NEW days \in DayCounts, UpdateZeroRevenueDays(days) PROVE IInv'
  <2>1. ZoneIsCurrent'
    BY <1>5 DEF UpdateZeroRevenueDays, ZoneIsCurrent
  <2>2. zeroDays' \in Nat /\ health' \in Zones
    BY <1>1, <1>5, ZoneType, InputsAssumption DEF UpdateZeroRevenueDays
  <2>. QED BY <1>1, <1>5, <2>1, <2>2, ReportsKeepIInv DEF UpdateZeroRevenueDays
<1>6. ASSUME NEW projection \in Projections, SetProjectedRevenue(projection) PROVE IInv'
  <2>1. ZoneIsCurrent' /\ projected' \in Nat /\ actual' \in Nat
    BY <1>6, InputsAssumption DEF SetProjectedRevenue, ZoneIsCurrent
  <2>. QED BY <1>1, <1>6, <2>1, ReportsKeepIInv DEF SetProjectedRevenue
<1>7. CASE StartWindDown
  <2>1. windDown' \in Stages /\ windDownStarted' \in Nat
    BY <1>1, <1>7 DEF StartWindDown, Stages
  <2>. QED BY <1>1, <1>7, <2>1, ReportsKeepIInv DEF StartWindDown, ZoneIsCurrent
<1>8. CASE AdvanceWindDown
  <2>1. windDown' \in Stages
    BY <1>8 DEF AdvanceWindDown, Stages
  <2>. QED BY <1>1, <1>8, <2>1, ReportsKeepIInv DEF AdvanceWindDown, ZoneIsCurrent
<1>9. ASSUME NEW b \in BOOLEAN, SetPaused(b) PROVE IInv'
  BY <1>1, <1>9, ReportsKeepIInv DEF SetPaused, ZoneIsCurrent
<1>10. CASE Tick
  BY <1>1, <1>10, ReportsKeepIInv DEF Tick, ZoneIsCurrent
<1>11. CASE UNCHANGED vars
  BY <1>1, <1>11, ReportsKeepIInv DEF vars, ZoneIsCurrent
<1>. QED BY <1>2, <1>3, <1>4, <1>5, <1>6, <1>7, <1>8, <1>9, <1>10, <1>11
         DEF Next, OracleStep

LEMMA IInvAlways == Spec => []IInv
  BY InitIInv, NextKeepsIInv, PTL DEF Spec

(* Type correctness of ServicePlan.                                             *)
THEOREM TypeCorrect == Spec => []TypeOK
<1>1. IInv => TypeOK
  BY DEF IInv
<1>. QED BY <1>1, IInvAlways, PTL

(* For any plan: each milestone is paid at most once, together they stay within *)
(* the credit, and the count of destinations is that of the active ones.        *)
THEOREM CountersAlwaysAddUp == Spec => []CountersAddUp
<1>1. IInv => CountersAddUp
  BY DEF IInv
<1>. QED BY <1>1, IInvAlways, PTL

(* A zone that allows a release, from figures of any size: the cast to u16 can  *)
(* lower the ratio and never raise it.                                          *)
LEMMA ReleasingZone ==
    ASSUME NEW revenue \in Nat, NEW target \in Nat, NEW days \in Nat,
           Zone(revenue, target, days) \in {"green", "yellow"}
    PROVE  /\ days < OrangeDays
           /\ target > 0 => RevenueRatio(revenue, target) >= YellowBps
           /\ target > 0 /\ Zone(revenue, target, days) = "green" =>
                RevenueRatio(revenue, target) >= GreenBps
<1>1. days < OrangeDays
  BY LimitsAssumption DEF Zone
<1>2. ASSUME target > 0
      PROVE  /\ RevenueRatio(revenue, target) >= YellowBps
             /\ Zone(revenue, target, days) = "green" =>
                  RevenueRatio(revenue, target) >= GreenBps
  <2>. DEFINE ratio == RevenueRatio(revenue, target)
  <2>1. ratio \in Nat /\ ratio % U16 \in Nat /\ ratio % U16 <= ratio
    BY <1>2, RatioNat
  <2>2. Zone(revenue, target, days) = ZoneOfRatio(ratio % U16)
    BY <1>1, <1>2, LimitsAssumption DEF Zone
  <2>. HIDE DEF ratio
  <2>3. /\ ratio % U16 >= YellowBps
        /\ ZoneOfRatio(ratio % U16) = "green" => ratio % U16 >= GreenBps
    BY <2>1, <2>2 DEF ZoneOfRatio, GreenBps, YellowBps
  <2>4. /\ ratio >= YellowBps
        /\ ZoneOfRatio(ratio % U16) = "green" => ratio >= GreenBps
    BY <2>1, <2>3 DEF GreenBps, YellowBps
  <2>. QED BY <2>2, <2>4 DEF ratio
<1>. QED BY <1>1, <1>2

(* No milestone is released against the revenue reported in the period, for any *)
(* plan, projections and reports.                                               *)
THEOREM ReleasedOnRevenueAlways == Spec => ReleasedOnRevenue
<1>1. ASSUME IInv, NEW i \in 1 .. Len(milestones), DisburseMilestone(i), actual > 0
      PROVE  /\ zeroDays < OrangeDays
             /\ projected > 0 =>
                  /\ RevenueRatio(actual, projected) >= YellowBps
                  /\ \/ RevenueRatio(actual, projected) >= GreenBps
                     \/ now >= milestones[i].eligibleAt + YellowDelay
  <2>1. /\ actual \in Nat /\ projected \in Nat /\ zeroDays \in Nat
        /\ health = Zone(actual, projected, zeroDays)
    BY <1>1 DEF IInv, TypeOK, ZoneIsCurrent
  <2>2. /\ health \in {"green", "yellow"}
        /\ health = "yellow" => now >= milestones[i].eligibleAt + YellowDelay
    BY <1>1 DEF DisburseMilestone
  <2>. QED BY <2>1, <2>2, ReleasingZone
<1>2. IInv /\ [Next]_vars
        => [\A i \in 1 .. Len(milestones) :
              DisburseMilestone(i) /\ actual > 0 =>
                /\ zeroDays < OrangeDays
                /\ projected > 0 =>
                     /\ RevenueRatio(actual, projected) >= YellowBps
                     /\ \/ RevenueRatio(actual, projected) >= GreenBps
                        \/ now >= milestones[i].eligibleAt + YellowDelay]_vars
  BY <1>1
<1>. QED BY <1>2, IInvAlways, PTL DEF Spec, ReleasedOnRevenue

(* The cast of the ratio to u16: without a week of silence, revenue from 6.5536  *)
(* to 6.8035 times what was projected puts the plan in the red zone, in which   *)
(* it can be wound down.                                                        *)
THEOREM PlentyLooksRed ==
    ASSUME U16 = 65536, OrangeDays <= RedDays,
           NEW revenue \in Nat, NEW target \in Nat \ {0}, NEW days \in Nat,
           days < OrangeDays,
           RevenueRatio(revenue, target) \in 65536 .. 65536 + OrangeBps - 1
    PROVE  Zone(revenue, target, days) = "red"
<1>. DEFINE ratio == RevenueRatio(revenue, target)
<1>1. ratio % U16 \in 0 .. 2499
  BY DEF OrangeBps
<1>2. \A r \in 0 .. 2499 : ZoneOfRatio(r) = "red"
  BY DEF ZoneOfRatio, GreenBps, YellowBps, OrangeBps
<1>3. Zone(revenue, target, days) = ZoneOfRatio(ratio % U16)
  BY LimitsAssumption DEF Zone
<1>. QED BY <1>1, <1>2, <1>3
=============================================================================
