# Krexa, a formal model

Krexa lends USDC to software agents. Liquidity providers (LPs) fund a pool on
Solana; an agent's owner locks collateral in the same pool, the agent draws
credit into a wallet the programs control, spends it under limits, and repays
out of its wallet or out of its customers' payments. An older set of contracts
on Base (EVM) finances merchants through one vault each, and a TypeScript
backend submits payments, indexes events and runs keepers.

This directory holds TLA+ models of that code, TLC runs that check them on small
instances and TLAPS proofs for every instance. Every model is a translation of
the source; `PROJECT.json` maps each definition to its lines, each property to a
mutant of the code that breaks it, and each hazard to the properties that watch
it.

## 1. The system

### Solana programs (`src/solana-programs/programs`)

| Part | State | Operations | What is hard, what makes it correct |
|---|---|---|---|
| `krexa-credit-vault` | `VaultConfig` (totals, three tranches, insurance, pause, caps), `DepositPosition` per LP and per agent's collateral, `CreditLine` per agent, two token accounts | deposit and withdraw (liquidity, collateral), `extend_credit`, `receive_repayment`, `accrue_interest`, `write_off_bad_debt`, pause, config | counters that must agree after any order of floored splits; share price; loss order; a line that is closed with debt or open without |
| `krexa-agent-wallet` | `AgentWallet` with its *copies* of limit, drawn credit, debt and collateral, frozen flag, daily limit; `VenueExposure` | create, deposit, request credit, trade, pay, withdraw, repay, check health, deleverage, liquidate, freeze | copies that go stale while others change the vault; permissionless calls at any moment; who gets what in a liquidation |
| `krexa-agent-registry` | `AgentProfile` (score, KYA tier, level, active) | score and KYA updates, liquidation record, (de)activation | the level is read by the wallet and the vault at different times |
| `krexa-payment-router` | `Settlement` (nonce, split, active credit); `RevenueValidator`, `PaymentHistory`, block- and whitelists | `execute_payment` repays the vault; validation classifies, quarantines, reviews and rejects revenue | stale settlement flag, nonces out of order, rings that forget, quarantine resolved twice |
| `krexa-service-plan` | plan, milestones, expense destinations, revenue, wind-down stage | disburse, expense, revenue, health zones, wind-down | order of wind-down steps against money still moving |
| `krexa-score`, `krexa-venue-whitelist` | one account per agent or venue | update, read | little over time |

The wallet calls the vault (`extend_credit`, `deposit_collateral`,
`receive_repayment`) and the registry within one transaction; the router calls
`receive_repayment` too, **without the wallet**. LPs, owners, the oracle and the
admin call the vault directly. Solana runs a transaction atomically and one at a
time per account, so the interleavings that matter are those of whole
instructions: an action of a model is one instruction with every call it makes.

### Base contracts (`src/base-contracts/src`)

`MerchantVault` (fundraising by investors, seniors and a pool; tranches released
by milestones; a repayment waterfall; late fees, default, refunds),
`LiquidityPool`, `PaymentRouter` (signed payments with nonces),
`MilestoneRegistry`, factories, and agent identity and wallet contracts. Hard:
which claims survive the move from repaying to default, and the same investor in
two tranches.

### Backend (`src/backend/src`, `src/oracle/src`)

`oracle.service` submits payments with two retry mechanisms over a database
record; `solana-indexer` and `indexer.service` copy events into the database by
cursor; `webhook.service` delivers them; `solana-keeper` and `keeper.service`
freeze, liquidate and mark defaults; `idle-capital-manager` invests idle funds.
Hard: crashes between the chain and the record, overlapping timers, cursors that
skip, reads that fail and count as zero.

The backend's callbacks run on one event loop: two of them interleave where one
awaits, and nowhere else. None holds a lock, and an interval does not wait for
its earlier round. What survives a restart is the database and the chain.

How the parts that are modelled meet: `oracle.service` submits to
`PaymentRouter.executePayment`, which routes a part to
`MerchantVault.processRepayment`; the vault's events reach the tables through
`indexer.service` and the outside through `webhook.service`; `keeper.service`
calls `autoCancelExpired`, `markDefault` and `deactivateSettlement`.

Clients (front ends, SDKs, MCP server, skills) keep no state of the protocol.

## 2. Modules

| Module | What it is |
|---|---|
| `Arithmetic` | saturating subtraction, minimum, floored fraction, totals over accounts |
| `LendingPool` | abstract specification: a pool whose holders own shares of its assets; shares are minted and redeemed at a price that never falls but by a loss, and only idle assets leave |
| `CreditVault` | the program `krexa-credit-vault` |
| `AgentCredit` | `krexa-agent-wallet` on top of `CreditVault`, with routed repayments and the registry's profile |
| `RevenueValidation` | the revenue validation of `krexa-payment-router` |
| `ServicePlan` | the program `krexa-service-plan` |
| `OraclePayments` | `oracle.service` with its table, its timers and the router's nonces |
| `WebhookDelivery` | `webhook.service`: dispatch, delivery rounds, retries |
| `EventIndexer` | `indexer.service` on top of `WebhookDelivery` |
| `MerchantVault` | the contract `MerchantVault` with `WaterfallLib` |
| `VaultKeeper` | `MerchantVault` with the router's settlement and `keeper.service` |
| `*_proofs` | the proofs about `Arithmetic`, `CreditVault`, `AgentCredit`, `RevenueValidation`, `ServicePlan`, `OraclePayments`, `VaultKeeper`, `EventIndexer` (webhooks included); `CreditVault_proofs` also shows that `CreditVault` implements `LendingPool` |
| `MC_*` | instances for TLC |

### CreditVault

Variables are the fields of the accounts (the comment at each names the field).
One action is one instruction: `DepositLiquidity`, `DepositCollateral`,
`WithdrawLiquidity`, `WithdrawCollateral`, `ExtendCredit`, `ReceiveRepayment`,
`AccrueInterest`, `WriteOffBadDebt`, `SetPaused`, `UpdateConfig`; `Tick` moves
the clock. Guards are the `require!`s, and the SPL transfers that can fail
because the token account holds less than the books say. `PoolIn` and `PoolOut`
are what the two kinds of deposit and of withdrawal share.

Kept: the split of a repayment into interest and principal, fee, tranche yields,
insurance and surplus; the loss waterfall; the floors; the fact that a write-off
moves no token. Left out: counters that no instruction reads, keys, bumps,
`migrate_config_v2`. u64 overflow is out of range at USDC's supply, and products
go through u128; saturating operations are modelled as such (`SatSub`).

A call that changes nothing because no time has passed (`accrue_interest`) is a
stuttering step and not an action.

### AgentCredit

Extends `CreditVault` with the wallet's fields. A wallet instruction that calls
the vault conjoins the vault's action, so it fails when the vault would. The
wallet's own numbers (`walletLimit`, `walletDrawn`, `walletDebt`,
`cachedShares`) are separate variables from the vault's (`drawn`, `accrued`,
`collateralShares`), as they are in the code; what their divergence can and
cannot cause is what the module is for. `RoutedRepayment` is the router's call,
`UpdateProfile` any registry instruction (the level it computes is an input),
`Earn` USDC that reaches the wallet from outside. `VaultStep` lets everyone else
call the vault directly. `DirectDraw` is the oracle's own call of `extend_credit`,
which asks for no signature but the oracle's, takes any level and collateral value
it is given, and may pay the wallet or another account. `lentUnseen` is history:
the agents whose line was opened that way and whose wallet has not read it since
(it does in `repay` and at the next credit it requests).

Facts of the code a reader may not expect, all modelled:

- The limit and with it the denominator of the NAV is the level's cap, not the
  amount drawn; a wallet that draws little is below its trigger at once.
- `check_health` may be called by anyone and both freezes and unfreezes, also a
  wallet the admin froze or a liquidated one (its NAV is infinite).
- The first collateral cannot come through the wallet: `deposit` demands a
  position that exists.
- The level in the wallet, which selects the NAV trigger, is the one of its
  creation.
- A liquidation clears the wallet's limit and drawn credit even if the vault's
  line stays active with a shortfall.
- After a wipe-out (no deposits, shares left) the next deposit is minted one to
  one and shared with the wiped-out holders.
- `record_liquidation` recomputes the level of a deactivated agent.
- `liquidate` asks the vault for the copied debt. After a routed repayment or a
  write-off that is more than the line owes, or the line is closed, and the vault
  refuses: the wallet can then neither be liquidated nor, while it shows the debt,
  borrow again.
- The oracle can lend to an agent whose wallet is frozen, or shows a debt that the
  router has paid: the wallet is neither asked nor told.

### RevenueValidation

One merchant's validator and history, with the two lists all merchants share. An
action is an instruction; slot `k` of a ring is index `k - 1` of the array.
`ValidateRevenue` computes the standing as the three layers do (`Refused` and
`Trusted`, `PatternScore`, `Overshoots` and `TwoFlags`), writes the record over the
oldest one and credits it or not; `ReviewQuarantined` and `RetroactiveReject` take
an index and act on whatever is there. Lists are sets with the counter of their
entries, since nothing refuses a duplicate there; `registered_sources` is a
sequence, whose removal moves the last entry. Thresholds have the values of the
code. `forgotten` and `sent` are history: the credit of payments that have been
overwritten, and all outflows.

Facts of the code: a pending payment is credited at once; a review approves a
source that is registered already into a second entry, which one removal leaves
there; a full blocklist makes reject-and-blocklist a plain reject; a call of
`validate_revenue` does not say which payment it is about, so a repeated call is a
second payment; `retroactive_reject` accepts an empty slot; no trusted source is
ever rejected for its pattern.

### ServicePlan

One plan with its milestones and destinations; an action is an instruction. The
array of milestones is the sequence of its active slots. `dests` maps the token
accounts that have an `ExpenseDestination` account to its fields: a removal leaves
the account, so a removed destination cannot be added again. `Zone` is
`compute_health` with its cast to 16 bits. The token accounts of a payout are the
caller's choice and not modelled; a transfer that fails undoes the call.

Facts of the code: the zone is computed when the oracle reports and read when a
milestone is released; a new projection sets the revenue of the period to zero and
leaves the zone; a ratio beyond 6.55 wraps; a wind-down once begun is not called off
when revenue returns, reports go on during it, and anyone may advance it during a
pause.

### OraclePayments

A row of the table is a record of payer, nonce, status and attempts. A *worker*
is one running callback of any of the three kinds (request, timer, interval) and
an action is what it does between two awaits: read the nonce, create the row,
check the deadline, mark it submitted, simulate and send, see the receipt. An
exception at any await is `Fails`, with which `markFailed` reads the attempts of
the row; `MarkFailed` is its write, by what it read (`saw`), however the row has
changed between; and `Reschedule` is the timer callback's second look. The three
callbacks differ in whether and when they set a timer. `Restart` ends workers and timers;
transactions already sent go to `pool`, as they do when the receipt times out,
and may still be included (`MineUnwatched`). `ForeignPayment` uses a nonce the
service did not give out. Of time only the order is kept; whether a deadline has
passed is a set, `late`.

Facts of the code: the row is submitted again whatever its status became since it
was read; failed and expired rows keep their nonce, and `getNextNonce` does not
count them; the interval selects only rows that are pending with an attempt, so
rows a restart leaves otherwise are nobody's; attempts are counted after the
deadline has been read, so a chain that does not answer keeps a payment open;
the limit of attempts is looked at after a failure only, and the write that
follows may revive a row that another callback has given up.

### WebhookDelivery and EventIndexer

`outbox` holds the dispatches that are called and not awaited; one that fails
(`DispatchFails`) is logged and lost. A round works on
rows as it read them at its start, one after the other, and rounds overlap: its
`batch` maps the rows that are left to the attempts it read of them. `posts` and `accepted`
count what the endpoint saw and are history; the code does not have them.

A *poller* is one running poll: read the cursor, read the logs, then per event
update the tables and store it, at last write the cursor. What it has left is the
set `todo` of blocks; the next is the first by `Before`, kind by kind as the
queries are made and oldest first within a kind. The interval may start
one while another runs (`overlaps` counts that). `Kinds` are the sorts of events
by what their handler does: `registered` (the agent gets its first score by a
transaction), `created` (the vault's row), `adds` (a column is incremented),
`sets` (a column is overwritten), `score` (the agent's Merchant row). An instance
without a sort takes its events to lie before the first block.

The vault's row has a foreign key on the Merchant row, which only the `score`
handler writes, and that comes last in a poll. A `created` event without it is
`Refused`: the handler throws and the poll ends, with no failure of anything
outside (`thrown` notes it). `Blocked` is a range that does so whenever it is read.

Three failures do not end a poll, and what they leave out is in `missed`: the list
of vaults cannot be read, the database refuses the stored event, or the first score
of an agent cannot be sent (`Score`; also when there is no key to send it, so it is
not counted as a failure). A dispatch that fails does not end one either. All
others, and a restart, end the poll before the cursor.

### MerchantVault and VaultKeeper

One action is one function that does not revert. `funded` and `repaid` are the
three columns of the waterfall by role, `balances` what an investor has in all
roles together, as the contract keeps it; `given` is a history of it by role and
by investor. A day is a unit of time, and rates are per `Bps` as in the contract.

The keeper's two tasks take a step per call to the chain: see the state, read
`shouldDefault`, simulate, have the transaction included, deactivate the
settlement. Anybody else acts in between. `TaskFails` is any call that throws,
`Restart` ends both tasks. `KeeperIsAdmin` says whether the keeper's key is the
vault's administrator, for whom `markDefault` has no condition. The runs take TRUE,
which is how the backend is set up: it sends administrator's transactions with the
keeper's key (`api/routes/vaults.ts:229`), and `base-sepolia.json` has one address
for deployer and oracle. The theorems hold for both. `looked` is history: the due
date at the time the keeper read that the vault should default.
The router's administrator is another role: where the key lacks it, deactivation
is one of the calls that fail.

Left out: `pause`, which only forbids calls; the milestone a tranche waits for;
USDC sent to the vault directly; `LiquidityPool`'s own books (a pool is an
investor).

## 3. Runs

| Run | Shows |
|---|---|
| `vault` | all invariants and action properties of the vault and that it implements `LendingPool` |
| `agent_credit` | the composed system |
| `vault_available` (violation) | available liquidity that is not in the token account |
| `wallet_surplus` (violation) | a surplus paid to the owner before the debt |
| `oracle` | safety of the oracle's payments: two rows, two callbacks, a restart |
| `oracle_live` | payments are decided: one row, two callbacks, three attempts, a restart, a nonce used by others |
| `events` | the indexer's cursor and tables: five blocks, two polls, one failure or restart |
| `events_live` | stored and delivered in the end: three blocks, two delivery rounds that overlap |
| `events_blocked` (violation) | the cursor stands still for ever with no failure |
| `merchant` | the merchant vault, routed repayments and the keeper |
| `revenue` | revenue validation: what is credited stays the sum of what stands |
| `plan` | a service plan: payouts, destinations, reports and wind-down in any order |

What the properties say:

- `LedgersAgree`: three ledgers at once. The two totals are the sums of lines and of
  positions (`DeployedIsOutstanding`, `SharesMatchPositions`), although they are
  updated by saturating differences; and what frees collateral is exactly the end of
  the debt (`LineActiveIffIndebted`). The first is kept only with the last.
- `CashFollowsBooks`: a repayment is split over five counters and two token
  accounts; none of it is lost or counted twice. A write-off is the exception,
  which `vault_available` shows.
- `SharePriceNeverFalls`: roundings never favour who deposits or withdraws.
- `LossWaterfall`: nobody loses before everyone below is wiped out.
- `AccrualNeverOvercharges`: the permissionless accrual never raises a later
  debt. It can lower it, since it floors away what has accrued: a finding.
- `ImplementsLendingPool`: refinement with LPs and collateral positions as one
  list of holders.
- `LimitCoversPrincipal`: while the wallet has a limit its stale copies err to one
  side only: the copied debt covers the copied principal, and that covers what the
  vault has lent. The exception is a line the oracle opened directly, until the
  wallet's next read: a routed repayment closes the old line, the wallet keeps its
  limit and copies, and the draw is larger than they are. That is a finding.
- `CollateralPledged`, `NoDrawOverDebt`: what the vault's flags protect even after
  the wallet has forgotten a shortfall.
- `FrozenPaysOnlyLenders`: with anybody freezing and unfreezing.
- `PaidAtMostOnce`, `ConfirmedWasPaid`: the service itself submits a payment
  several times, at the same time even; the router's nonce is what makes it once,
  and a revert on a used nonce is not taken for a success.
- `AttemptsBounded`: callbacks that overlap on a row pass the documented limit
  of five attempts, and a stale write revives a row that was given up (two findings);
  but each of W callbacks can let in each other
  one once, so a row is tried at most W (W - 1) times more.
- `OnlyRestartStrands`, `DecidedOrStranded`: nobody forgets a payment but a
  restart, and what is not forgotten is decided.
- `StoredUpToCursor`, `AddedNeverBehind`, `StoredInTheEnd`: repeating a range and
  writing an older cursor back lose nothing; `ExactUntilRedone`, `MirrorsChain`
  state when the tables are exact: a range that is repeated makes totals too large,
  which is a finding. An agent whose first score fails is never scored: that is in
  `ExactUntilRedone` too.
- `CatchesUp` is what the backend's README promises of a replay, and false: a range
  that has an agent's first score and its vault throws for ever. `StoredInTheEnd` and
  `ToldInTheEnd` therefore assume that the indexer is not blocked again and again
  (`Blocked`).
- `DecisionsHold`, `SettlesForGood`, `ToldInTheEnd`: two
  rounds overwrite each other's status and attempts, which delays a delivery but
  invents none.
- `CashIsAccounted`, `WaterfallOrder`, `CompletedMakesWhole`: fees, late fees and
  floors at every split.
- `ClaimsCovered`, `RefundsCovered`: whoever comes first leaves enough for the
  others. The first needs investors that keep to one role: `invest` does not look
  at roles, and a senior who also invests there claims senior returns on both.
- `CreditedOnce`: four calls adjust one total depending on what the call before
  made of the payment, with subtractions that would hide an error by saturating.
- `RoundTripEarnsNothing`: no wrap of the ring and no weaker match in front hides
  an outflow from a payment that sends it back. Trusted sources are exempt by the
  code, and older outflows are forgotten by design.
- `CountersAddUp`: destinations come and go and milestones are paid in any order; the
  counters that guard the limits stay the truth.
- `ReleasedOnRevenue`: the copied zone and the cut ratio never release a milestone
  that the reported revenue does not justify.
- `OnlyPaymentsOvertakeKeeper`: the keeper works on a read that is two calls old and
  with a key the contract does not check; of all that can happen meanwhile only a
  repayment makes its default wrong. That it does is a finding.

Bounds. A basis point is scaled to a quarter and a year to one or two ticks: each
floor can round, each split can be non-zero, and interest exceeds a unit within
the bound of the clock. `MaxFunds`, `MaxTime` and `MaxWallet` bound deposits,
shares, time and wallets in the guards. The vault run has two LPs in two tranches
and one agent (collateral is the third, senior, tranche), deposits of three units
and two utilization caps: enough for a second depositor at a price other than
one, for a loss through insurance, junior and mezzanine, and for a deposit after
a wipe-out. The violation run of the vault takes two agents so that a second
line can drain the cash. The composed run has one agent and no LP (its collateral
is the pool's liquidity; `wallet_surplus` has an LP), two profile levels (none and
2) and amounts of one: its states are already those of sixteen more variables, and
agents meet, with each other and with LPs, only through the vault, which the first
run and the proofs cover for several.

The oracle runs scale `MAX_ATTEMPTS` to 2 (a retry and a last one) or 3, the
reservation loop to one try and the batch to 2. Two rows of one payer are what
nonces can be confused over; two callbacks are enough for a stale write, and for a
request, a timer or the interval on one row at a time. `MaxForeign` is 1 in the
smaller run only. Callbacks and rows are interchangeable (each is used only through
equality), so `oracle` declares them symmetric; the run with liveness does not.

The indexer's run has up to five blocks, one for each sort of event or several of
one, and ranges of three, so a range ends inside the chain and a poll is repeated
over what it did; one failure and one overlap at any point. Two polls are enough for
a slow and a fast one. `events_live` drops overlaps, the first scores and the set
column, has ranges of two, and keeps two rounds on one delivery. `events_blocked`
needs three blocks in one range.

The merchant run has two investors, of any two roles or both of one, amounts that
do not divide by the tranches, fees that round, a completion and a default both
within five days; the settlement can be off and on. Three roles held by three
investors, and any number of them, are left to the proofs.

The revenue run has rings of two, so that the third payment and the third outflow
overwrite the first, and a day and an hour of two ticks, so that an outflow can be
near, far or of the same second. Of the amounts, 20 returns an outflow of 20 in
full, 19 in part; against a line of 3, 19 is flagged as large and 20 wraps past
2^16. Lists take one entry besides those a review adds; `MaxRevenue` lets two
payments stand. `DaysActive` is one throughout, so the average never falls: the
theorems cover all values.

The plan run has two milestones of which the pair may exceed the credit, two
destinations of which one may be active, and days at both thresholds. Against a
projection of 10, revenue of 3, 6 and 9 gives orange, yellow and green, 63 is
beyond the target, and 66 wraps to red. The delay is one tick and the grace two;
`MaxSent` lets one expense of two through to each destination.

`MaxRestarts`, `MaxForeign`, `MaxDeliveries`, `MaxFaults`, `MaxOverlaps` and
`MaxTime` bound what would go on for ever. Deadlock is checked in the vault,
wallet, revenue and plan runs: the admin, the oracle or a keeper always has a step. It is
not in the others, where the system comes to rest: all payments decided, all blocks indexed,
the vault closed and the time at its bound.

Fairness. The vault, wallet and merchant runs state safety only: no contract
promises progress by itself, every step needs a caller; so do those of revenue
validation and of plans. The backend does:

- Every await ends, by an answer, an error or a time-out, so a running callback,
  poll or round goes on: weak fairness of its steps.
- A timer that is set fires, and an interval keeps firing: fairness of
  `FireTimer`, `RetryRound`, `ReadCursor`, `Begin`. It is strong because a model
  with two callbacks can be found busy again and again when the event
  loop would simply run one more.
- A deadline passes; time does.
- `CheckDeadline` is strongly fair: the chain does not for ever fail to tell the
  time. Without that assumption `DecidedOrStranded` is false, because no attempt
  is counted before the time is known.
- Nothing is assumed of blocks being mined, of endpoints answering, of requests,
  failures or restarts. Where failures break a promise for good the property
  says so: `missed` in `StoredInTheEnd`, none at all in `ToldInTheEnd`,
  `Stranded` in `DecidedOrStranded`. The first two also suppose that a range
  that throws does not stay so (`[]<>~Blocked`), which the code cannot promise.

## 4. Proofs

`Arithmetic_proofs` has what is needed of `Total` (a recursive function over
`1 .. n`): that it is a natural, how it changes with one account, that each
account is at most the total, the total of two lists one after the other; and
floored fractions: monotone, and two of them together at most that of the sum
and at most one less (`DivSum`, `DivSumBelow`).

`CreditVault_proofs`, from the assumptions named in `CreditVault` (counts and
inputs are naturals, rates lie between 0 and `Bps`):

- The step lemmas are about `AnyNext`, the vault's actions with inputs of any
  size; `NextIsAny` derives them for `Next`.
- `TypeCorrect`: `TypeOK` is inductive because interest, fee, yields and losses
  are at most what they are taken from (`RepaymentSplit`, `InterestSplit`,
  `LossSplit`).
- `LinesConsistent`: inductive with `TypeOK`; its case is a repayment, interest
  first.
- `DeployedCorrect` needs `LineActiveIffIndebted`: without it a draw could
  overwrite a principal.
- `SharesCorrect`: a position never holds more than the total, so the saturating
  subtraction is exact.
- `LedgersAlwaysAgree` states the three together, as the run does.
- `CashFollowsBooksAlways` and `SharePriceMonotone` use all four (`LedgerInv`):
  that a withdrawal takes no more than is idle, and that the floors of shares and
  amounts each favour the pool.
- `LossWaterfallAlways`: what is left of a loss after one level is zero or that
  level is (`LossOrder`), and the stages of `WriteOffBadDebt` chain that.
- `AccrualNeverOverchargesAlways`: the interest of two periods, each floored, is at
  most that of both floored once (`DivSum`).
- `AccrualForgivesLittle` and `EachSecondAccruesNothing` say how far that finding
  goes: one accrual forgives a unit at most, but where a second's interest is below
  one unit, an accrual in each second charges nothing for ever.
- `AvailableWithoutDefault`: the violation `vault_available` shows comes from
  write-offs alone. `CashGap`, what the books say the vault holds beyond its tokens,
  is zero in every behaviour without one.
- `PositionsBacked` and `PositionsBackedByTokens`: the worth of all positions, each
  floored, adds up to no more than `total_deposits` (`TotalShares` with
  `SharesMatchPositions`); without a write-off the tokens and the loans cover it.
- `Implements`: `HolderShares` lists LPs, then agents, and its total is
  `totalShares` by `SharesMatchPositions` (`HolderTotal`). A deposit or withdrawal
  of either kind changes one holder and is `Subscribe` or `Redeem`
  (`PositionStepRefines`); an instruction on a line is `Lend`, `Collect`, `Default`
  or invisible (`LineStepRefines`).

`AgentCredit_proofs`: `SystemIsVault` shows that each step of the composed system
is an `AnyNext` step of the vault or leaves it alone, so `LedgerInv` holds there
too (`SystemLedgerCorrect`). So do what the vault's steps were shown to do: the
system implements the pool (`SystemImplementsPool`), with share price, cash and
loss order (`SystemSharePriceMonotone`, `SystemCashFollowsBooks`,
`SystemLossWaterfall`), although wallet and router call the vault with amounts no
LP would choose; and nothing but a write-off opens the gap of `vault_available`
(`SystemAvailableWithoutDefault`). `NoDrawOverDebtAlways` and
`CollateralPledgedAlways` follow from it, and `LimitCoversPrincipalAlways` is
inductive on top of it: only a draw that passes by the wallet breaks the cover, and
the line remembers it (`lentUnseen`). `WalletTypeCorrect` is needed for the amounts of a
liquidation.
`FrozenPaysOnlyLendersAlways` has to show that a liquidation lowers the debt
although the reward is taken first: a wallet with a limit has a debt
(`LimitMeansDebt`, inductive), and the reward is less than the whole balance
because `LiquidationReward` is below `Bps`.

`OraclePayments_proofs`, for any rows, payers and callbacks and any limits:

- `IInv` is the type invariant with what relates rows, callbacks and chain: what a
  running callback may rely on (`WorkersSound`: its row exists, a receipt that
  says executed means this row was paid, who retries has an attempt counted); a
  row that was paid was paid once and its nonce is used (`PaidSound`); and every
  undecided row is in the hands of a callback, a timer or the interval's query as
  long as there was no restart (`Hands`). None of the properties is inductive
  alone: a second execution is excluded by the used nonce, a false confirmation by
  what a receipt in a callback's hands means, a forgotten row by `Hands`.
- `StepIInv` goes through the actions; `RowWritten` and `RowCreated` say once
  what each kind of row update keeps.
- `AttemptsStayBounded`, for a finite set of W callbacks: once a row has
  `MAX_ATTEMPTS`, only a callback that read fewer and has not written yet (`Behind`)
  can revive it, and none falls behind any more; while a row is pending each callback
  may start on it, and those that did (`Counting`) add one attempt each. So
  `Potential`, attempts plus W per callback behind plus those still to count, never
  grows (`BoundedStays`).

`RevenueValidation_proofs`, for any keys, amounts, rings and lists:

- `RevenueCounted`: every call rewrites one slot (`SlotWritten`), and what it takes
  off is at most the total of the ring, so no subtraction saturates (`RevokeExact`).
- `RoundTripsEarnNothing`: `RingHoldsLatest` says which slot holds the outflow
  recorded `d` calls ago; one match anywhere scores at least 60.
- `TrustedAlwaysVerified`: the score is at most 150, so the rejection at 160 is dead
  code.

`ServicePlan_proofs`, for any amounts, projections, reports and limits:

- `CountersAlwaysAddUp`: a payout changes one term of the sum of what is paid
  (`Total`), and the credit covers all milestones together since `create_plan`.
- `ReleasedOnRevenueAlways`: `ZoneIsCurrent` says that the stored zone is the one of
  the figures stored with it once the period has a report; a wrap can only lower a
  ratio, so yellow and green are never the result of one.
- `PlentyLooksRed`: the other direction, for every projection.

`EventIndexer_proofs`, for any chain, tables, endpoints and polls, with the webhooks:

- `Inv` is `TypeOK` with what the two parts need. None of the properties is inductive
  by itself, because they look at the cursor and the tables while the steps that
  keep them true happen in a poll or a round that may be long out of date.
- Webhooks (`HonestRow`, `HonestRound`): the attempts a round remembers of a row
  were posts of it, and an answer in a round's hands is one post more. So whatever
  round writes last, `attempts` is backed by posts, "delivered" by an acceptance and
  "failed" by the full number of posts, which gives `DecisionsAlwaysHold`.
- Indexer: `Past(poll)` is what a poll is through with, `Applied` what it has brought
  into the tables (one event more between the table and `storeEvent`), `Through` and
  `Seen` the same for all polls and the cursor together. `StoredUpToCursor` is
  `ThroughStored` at the cursor: what any poll is through with is stored or missed,
  and so writing the cursor, an older one too, is safe (`StoredUpToCursorAlways`).
  `SeenAdded` is the same for the totals (`AddedNeverBehindAlways`); it needs
  `VaultKnown`, since an event of a vault without a row is dropped, and that needs
  `CreatedFirst`.
- `ExactUntilRedoneAlways` and `MirrorsChainAlways` need `Alone` (without overlaps
  one poll runs, from the cursor on). The first counts each event once
  (`AppliedOnce`), first scores that failed apart (`ScoredOnce`), and ends with the
  first poll that fails or throws (`Undisturbed`); the second holds across failed polls too, for an overwritten column
  is brought forward again by the repeated range (`OldestFirst`, `SetsCopied`).
- `OnlyLossesLoseEvents`: as long as the process does not restart, no dispatch fails
  and no endpoint is deactivated, every event behind the cursor that somebody
  subscribes to is in a dispatch or has rows, or a failure left it out. This is what
  `ToldInTheEnd` rests on, and which fault can break it.
- `CursorOnlyAhead`: only overlapping polls move the cursor back.

`VaultKeeper_proofs`, for any investors, rates, amounts and schedule:

- `AnyCall` is a step of the vault; `StepIsCall` derives it for `Next`, so keeper
  and router need no case of their own.
- `VaultInv` is the type invariant with: before fundraising ends there is nothing
  but what was invested (`Fundraising`); afterwards the roles' principal adds up to
  what was raised, which `toRepay` covers (`Started`); the upper roles are never
  repaid more than that (`Bounded`); balances add up to what was raised (`Shares`);
  and the accounting, the order and the refunds themselves. Completion needs
  `Started` and the order; refunds need `Shares`, and `TotalShares`, which bounds
  the sum of floored shares.
- `ClaimsAlwaysCovered` needs more: `ClaimInv` says that a balance is the sum of
  what was put in by role, that flags follow from it, and that nobody claimed more
  than the share of today; shares only grow since `repaid` does (`DivMonotone`).
- `KeeperOvertaken` holds whether the keeper is the administrator or not.
  `Overtaken` is inductive: from the time the keeper found the vault overdue, an open
  vault is still overdue or its due date is later than the one it read, because a
  repayment of an overdue vault moves the date past the time (`NextDueLater`) and
  nothing moves it back (`CallKeepsDue`).

Only model-checked: liveness (`DecidedOrStranded`, `StoredInTheEnd`, `SettlesForGood`,
`ToldInTheEnd`), and the three runs that end in a violation. The prover does not handle liveness
under fairness, ENABLED or induction over data, nor recursive operators; none of
the latter is used in the modules that are proved about. Every invariant and action
property of a passing run is stated by a theorem.

## 5. Not modelled, and the plan

What is left, in order of importance:

1. `PaymentRouter` (Solana): settlements, splits and nonces composed with
   `CreditVault`: a payment is refused as a whole when the vault refuses its
   repayment; nonces rise; a settlement that still says credit is active.
2. The Solana keeper over `AgentCredit`: which wallets it skips. Liveness of both
   keepers (an overdue vault is defaulted in the end) would be stated here: for
   the EVM keeper it is false for vaults that never repaid, which is a finding.
3. `solana-indexer`: five programs on one cursor, newest batch only.
4. `LiquidityPool`'s books around `MerchantVault`; milestones.

Not planned: floating-point scoring off chain, external price and yield
adapters, key management, ownership transfer, `migrate_config_v2`, chain
reorganisations, a database that loses what it acknowledged. Most of the
repository's TypeScript is front end, generated contract interfaces, API
descriptions and clients; they hold no protocol state, so a model of the protocol
covers a small part of those lines. Who may sign is an assumption: an action is
taken only by the signer its accounts demand.
