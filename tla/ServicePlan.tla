---------------------------- MODULE ServicePlan ----------------------------
(* The Solana program krexa-service-plan, for one plan: credit paid out by      *)
(* milestones, approved destinations of expenses, the health zone computed from *)
(* the revenue the oracle reports, and the wind-down.  One action is one        *)
(* instruction.                                                                 *)
(*                                                                              *)
(* The token accounts of a transfer are the caller's choice and are not part of *)
(* the model: a call whose transfer fails has no effect.  Left out: what no     *)
(* instruction reads back (hashes, categories, total_plans, period_start,       *)
(* last_revenue_at and other timestamps), keys, bumps and update_config, which  *)
(* moves keys only.  The slots of the milestone array that are not active are   *)
(* those past the end of the sequence.                                          *)
EXTENDS Arithmetic, FiniteSets, Sequences

CONSTANTS
    Destinations,       \* token accounts that may become destinations
    TotalCredits,       \* values of total_credit
    MilestoneAmounts,   \* amounts of milestones
    EligibleTimes,      \* values of eligible_at
    ExpenseLimits,      \* values of max_amount, 0 for no limit
    ExpenseAmounts,     \* amounts of expenses
    RevenueAmounts,     \* amounts of revenue the oracle reports
    Projections,        \* values of projected_monthly_revenue
    DayCounts,          \* values of zero_revenue_days the oracle reports
    MaxMilestones,      \* MAX_MILESTONES
    MaxDestinations,    \* MAX_EXPENSE_DESTINATIONS
    OrangeDays,         \* ZERO_REVENUE_ORANGE_DAYS
    RedDays,            \* ZERO_REVENUE_RED_DAYS
    YellowDelay,        \* YELLOW_MILESTONE_DELAY_SECONDS, in clock ticks
    Grace,              \* WIND_DOWN_GRACE_SECONDS, in clock ticks
    U16,                \* 2^16, what `as u16` reduces by
    MaxTime,            \* bound: the last instant of the clock
    MaxRevenue,         \* bound: revenue of a period
    MaxSent             \* bound: USDC sent to one destination

Bps == 10000
GreenBps == 8000
YellowBps == 5000
OrangeBps == 2500

Zones == {"green", "yellow", "orange", "red"}
Stages == {"none", "grace", "executing", "completed"}

ASSUME InputsAssumption ==
    /\ TotalCredits \subseteq Nat
    /\ MilestoneAmounts \subseteq Nat
    /\ EligibleTimes \subseteq Int
    /\ ExpenseLimits \subseteq Nat
    /\ ExpenseAmounts \subseteq Nat
    /\ RevenueAmounts \subseteq Nat
    /\ Projections \subseteq Nat
    /\ DayCounts \subseteq Nat
ASSUME LimitsAssumption ==
    /\ IsFiniteSet(Destinations)
    /\ MaxMilestones \in Nat /\ MaxDestinations \in Nat
    /\ OrangeDays \in Nat \ {0} /\ RedDays \in Nat \ {0}
    /\ YellowDelay \in Nat /\ Grace \in Nat
    /\ U16 \in Nat \ {0}
    /\ MaxTime \in Nat /\ MaxRevenue \in Nat /\ MaxSent \in Nat

VARIABLES
    paused,             \* ServicePlanConfig.is_paused
    totalCredit,        \* total_credit, 0 before create_plan
    totalDisbursed,     \* total_disbursed
    milestones,         \* the active slots of milestones
    projected,          \* projected_monthly_revenue
    actual,             \* actual_revenue_this_period
    zeroDays,           \* zero_revenue_days
    health,             \* health
    windDown,           \* wind_down_state
    windDownStarted,    \* wind_down_started_at
    destCount,          \* expense_dest_count
    dests,              \* ExpenseDestination accounts: is_active, max_amount, total_sent
    now                 \* Clock::unix_timestamp

credit == <<totalCredit, totalDisbursed, milestones>>
figures == <<projected, actual, zeroDays, health>>
windingDown == <<windDown, windDownStarted>>
expenses == <<destCount, dests>>
vars == <<paused, credit, figures, windingDown, expenses, now>>

-----------------------------------------------------------------------------
(* compute_health *)

RevenueRatio(revenue, target) == MulDiv(revenue, Bps, target)

ZoneOfRatio(ratio) ==
    IF ratio >= GreenBps THEN "green"
    ELSE IF ratio >= YellowBps THEN "yellow"
    ELSE IF ratio >= OrangeBps THEN "orange"
    ELSE "red"

Zone(revenue, target, days) ==
    IF days >= RedDays THEN "red"
    ELSE IF days >= OrangeDays THEN "orange"
    ELSE IF target = 0 THEN "green"
    ELSE ZoneOfRatio(RevenueRatio(revenue, target) % U16)

-----------------------------------------------------------------------------
Created == totalCredit > 0

(* initialize *)
Init ==
    /\ paused = FALSE
    /\ totalCredit = 0 /\ totalDisbursed = 0 /\ milestones = <<>>
    /\ projected = 0 /\ actual = 0 /\ zeroDays = 0 /\ health = "green"
    /\ windDown = "none" /\ windDownStarted = 0
    /\ destCount = 0 /\ dests = [d \in {} |-> {}]
    /\ now = 1

Milestone == [amount : MilestoneAmounts, eligibleAt : EligibleTimes, disbursed : {FALSE}]

MilestonePlans == UNION {[1 .. n -> Milestone] : n \in 0 .. MaxMilestones}

Amounts(ms) == [i \in 1 .. Len(ms) |-> ms[i].amount]

(* create_plan *)
CreatePlan(total, ms) ==
    /\ ~ paused
    /\ ~ Created
    /\ total > 0
    /\ Total(Amounts(ms), Len(ms)) <= total
    /\ totalCredit' = total
    /\ milestones' = ms
    /\ UNCHANGED <<paused, totalDisbursed, figures, windingDown, expenses, now>>

(* disburse_milestone *)
DisburseMilestone(i) ==
    /\ ~ paused
    /\ windDown = "none"
    /\ health \in {"green", "yellow"}
    /\ ~ milestones[i].disbursed
    /\ now >= milestones[i].eligibleAt
    /\ health = "yellow" => now >= milestones[i].eligibleAt + YellowDelay
    /\ milestones' = [milestones EXCEPT ![i].disbursed = TRUE]
    /\ totalDisbursed' = totalDisbursed + milestones[i].amount
    /\ UNCHANGED <<paused, totalCredit, figures, windingDown, expenses, now>>

AddExpenseDestination_OneMore(d, limit) ==
    /\ ~ paused
    /\ Created
    /\ destCount <= MaxDestinations
    /\ d \notin DOMAIN dests
    /\ dests' = [x \in DOMAIN dests \union {d} |->
                   IF x = d THEN [active |-> TRUE, maxAmount |-> limit, sent |-> 0]
                            ELSE dests[x]]
    /\ destCount' = destCount + 1
    /\ UNCHANGED <<paused, credit, figures, windingDown, now>>

(* add_expense_destination: the account of a destination is created once, and a *)
(* removal does not close it                                                    *)
AddExpenseDestination(d, limit) ==
    /\ ~ paused
    /\ Created
    /\ destCount < MaxDestinations
    /\ d \notin DOMAIN dests
    /\ dests' = [x \in DOMAIN dests \union {d} |->
                   IF x = d THEN [active |-> TRUE, maxAmount |-> limit, sent |-> 0]
                            ELSE dests[x]]
    /\ destCount' = destCount + 1
    /\ UNCHANGED <<paused, credit, figures, windingDown, now>>

RemoveExpenseDestination_Twice(d) ==
    /\ ~ paused
    /\ dests' = [dests EXCEPT ![d].active = FALSE]
    /\ destCount' = SatSub(destCount, 1)
    /\ UNCHANGED <<paused, credit, figures, windingDown, now>>

(* remove_expense_destination *)
RemoveExpenseDestination(d) ==
    /\ ~ paused
    /\ dests[d].active
    /\ dests' = [dests EXCEPT ![d].active = FALSE]
    /\ destCount' = SatSub(destCount, 1)
    /\ UNCHANGED <<paused, credit, figures, windingDown, now>>

(* execute_expense *)
ExecuteExpense(d, amount) ==
    /\ ~ paused
    /\ windDown \in {"none", "grace"}
    /\ dests[d].active
    /\ dests[d].maxAmount > 0 => amount <= dests[d].maxAmount
    /\ dests[d].sent + amount <= MaxSent
    /\ dests' = [dests EXCEPT ![d].sent = @ + amount]
    /\ UNCHANGED <<paused, credit, figures, windingDown, destCount, now>>

(* record_revenue *)
RecordRevenue(amount) ==
    /\ ~ paused
    /\ Created
    /\ actual + amount <= MaxRevenue
    /\ actual' = actual + amount
    /\ zeroDays' = 0
    /\ health' = Zone(actual', projected, zeroDays')
    /\ UNCHANGED <<paused, credit, projected, windingDown, expenses, now>>

(* update_zero_revenue_days *)
UpdateZeroRevenueDays(days) ==
    /\ ~ paused
    /\ Created
    /\ zeroDays' = days
    /\ health' = Zone(actual, projected, zeroDays')
    /\ UNCHANGED <<paused, credit, projected, actual, windingDown, expenses, now>>

SetProjectedRevenue_KeepsActual(projection) ==
    /\ ~ paused
    /\ Created
    /\ projected' = projection
    /\ UNCHANGED <<paused, credit, actual, zeroDays, health, windingDown, expenses, now>>

(* set_projected_revenue: a new period starts with the zone of the last one     *)
SetProjectedRevenue(projection) ==
    /\ ~ paused
    /\ Created
    /\ projected' = projection
    /\ actual' = 0
    /\ UNCHANGED <<paused, credit, zeroDays, health, windingDown, expenses, now>>

(* start_wind_down *)
StartWindDown ==
    /\ ~ paused
    /\ windDown = "none"
    /\ health = "red"
    /\ windDown' = "grace"
    /\ windDownStarted' = now
    /\ UNCHANGED <<paused, credit, figures, expenses, now>>

(* advance_wind_down, which anyone may call, pause or not *)
AdvanceWindDown ==
    /\ \/ windDown = "grace" /\ now >= windDownStarted + Grace /\ windDown' = "executing"
       \/ windDown = "executing" /\ windDown' = "completed"
    /\ UNCHANGED <<paused, credit, figures, windDownStarted, expenses, now>>

(* set_paused *)
SetPaused(b) ==
    /\ paused' = b
    /\ UNCHANGED <<credit, figures, windingDown, expenses, now>>

Tick ==
    /\ now < MaxTime
    /\ now' = now + 1
    /\ UNCHANGED <<paused, credit, figures, windingDown, expenses>>

OwnerStep ==
    \/ \E total \in TotalCredits, ms \in MilestonePlans : CreatePlan(total, ms)
    \/ \E d \in Destinations, limit \in ExpenseLimits : AddExpenseDestination(d, limit)
    \/ \E d \in DOMAIN dests :
          \/ RemoveExpenseDestination(d)
          \/ \E amount \in ExpenseAmounts : ExecuteExpense(d, amount)

OracleStep ==
    \/ \E i \in 1 .. Len(milestones) : DisburseMilestone(i)
    \/ \E amount \in RevenueAmounts : RecordRevenue(amount)
    \/ \E days \in DayCounts : UpdateZeroRevenueDays(days)
    \/ \E projection \in Projections : SetProjectedRevenue(projection)
    \/ StartWindDown

Next ==
    \/ OwnerStep \/ OracleStep
    \/ AdvanceWindDown
    \/ \E b \in BOOLEAN : SetPaused(b)
    \/ Tick

Spec == Init /\ [][Next]_vars

-----------------------------------------------------------------------------
(* Properties *)

Milestones == [amount : Nat, eligibleAt : Int, disbursed : BOOLEAN]
DestAccounts == [active : BOOLEAN, maxAmount : Nat, sent : 0 .. MaxSent]

(* Counters stay in their bounds; no destination is used before the plan        *)
(* exists.                                                                      *)
TypeOK ==
    /\ paused \in BOOLEAN
    /\ totalCredit \in Nat /\ totalDisbursed \in Nat
    /\ milestones \in Seq(Milestones) /\ Len(milestones) <= MaxMilestones
    /\ projected \in Nat /\ actual \in Nat /\ zeroDays \in Nat
    /\ health \in Zones
    /\ windDown \in Stages /\ windDownStarted \in Nat
    /\ destCount \in 0 .. MaxDestinations
    /\ DOMAIN dests \subseteq Destinations
    /\ \A d \in DOMAIN dests : dests[d] \in DestAccounts
    /\ DOMAIN dests # {} => Created
    /\ now \in Nat

Paid(ms) == [i \in 1 .. Len(ms) |-> IF ms[i].disbursed THEN ms[i].amount ELSE 0]

MilestonesAddUp ==
    /\ totalDisbursed = Total(Paid(milestones), Len(milestones))
    /\ totalDisbursed <= totalCredit

ActiveDests == {d \in DOMAIN dests : dests[d].active}

DestinationsAddUp == destCount = Cardinality(ActiveDests)

(* Whatever the order of disbursements and of changes of destinations, each     *)
(* milestone is paid at most once and together they never exceed the credit of  *)
(* the plan; and expense_dest_count, which alone guards the limit of            *)
(* destinations, counts those that are active.                                  *)
CountersAddUp == MilestonesAddUp /\ DestinationsAddUp

(* The zone is a copy of what the oracle last reported, and milestones are      *)
(* released by looking at the copy.  Once revenue has been reported in a        *)
(* period, none is released while that revenue is below half of the projection  *)
(* or a week has gone without any, and below four fifths none is released       *)
(* before the delay, however reports, days and projections follow each other.   *)
(* (Between a new projection and the first report the zone of the last period   *)
(* stands.)                                                                     *)
ReleasedOnRevenue ==
    [][\A i \in 1 .. Len(milestones) :
         DisburseMilestone(i) /\ actual > 0 =>
           /\ zeroDays < OrangeDays
           /\ projected > 0 =>
                /\ RevenueRatio(actual, projected) >= YellowBps
                /\ \/ RevenueRatio(actual, projected) >= GreenBps
                   \/ now >= milestones[i].eligibleAt + YellowDelay]_vars
=============================================================================
