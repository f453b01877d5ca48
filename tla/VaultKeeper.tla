---------------------------- MODULE VaultKeeper ----------------------------
(* A MerchantVault with what acts on it: the payment router that routes part of *)
(* the agent's income to it while its settlement is active                      *)
(* (base-contracts/src/PaymentRouter.sol), and the backend's keeper             *)
(* (backend/src/services/keeper.service), which every five minutes cancels      *)
(* vaults whose fundraising has expired and marks those that default.           *)
(*                                                                              *)
(* The keeper reads the chain, simulates a call, sends it and has it included   *)
(* in separate steps, so what it has read may be stale by then; the two tasks   *)
(* of a cycle run side by side.                                                 *)
EXTENDS MerchantVault

CONSTANTS
    KeeperIsAdmin,  \* whether the keeper's key is the vault's administrator
    MaxFaults       \* bound of calls that fail and of restarts

ASSUME KeeperAssumption ==
    /\ KeeperIsAdmin \in BOOLEAN
    /\ MaxFaults \in Nat

VARIABLES
    settlement,     \* whether the router's settlement for the agent is active
    cancelling,     \* where cancelExpiredVaults is with this vault
    defaulting,     \* where markDefaultedVaults is with this vault
    looked,         \* the due date when it found that the vault should default
    faults          \* failures so far

keeperVars == <<settlement, cancelling, defaulting, looked, faults>>
vars == <<vaultVars, keeperVars>>

-----------------------------------------------------------------------------
(* The router and the administrator *)

(* The part of a payment that the settlement routes; a payment whose part the   *)
(* vault refuses reverts.                                                       *)
RoutePayment(part) ==
    /\ settlement
    /\ ProcessRepayment(part)
    /\ UNCHANGED keeperVars

DeactivateSettlement ==
    /\ settlement
    /\ settlement' = FALSE
    /\ UNCHANGED <<vaultVars, cancelling, defaulting, looked, faults>>

CreateSettlement ==
    /\ ~ settlement
    /\ settlement' = TRUE
    /\ UNCHANGED <<vaultVars, cancelling, defaulting, looked, faults>>

-----------------------------------------------------------------------------
(* The keeper *)

SeesFundraising ==
    /\ cancelling = "idle"
    /\ state = "fundraising"
    /\ cancelling' = "call"
    /\ UNCHANGED <<vaultVars, settlement, defaulting, looked, faults>>

(* The call is simulated first; one that reverts, then or in the block, changes *)
(* nothing.                                                                     *)
CallsCancel ==
    /\ cancelling = "call"
    /\ cancelling' = "idle"
    /\ IF Expired THEN AutoCancelExpired ELSE UNCHANGED vaultVars
    /\ UNCHANGED <<settlement, defaulting, looked, faults>>

(* The task goes on with the vault, or (Leaves) to the next one *)
Task(at, saw) == defaulting' = at /\ looked' = saw

Leaves == Task("idle", 0)

Watched == state = "repaying"

SeesRepaying ==
    /\ defaulting = "idle"
    /\ Watched
    /\ Task("read", 0)
    /\ UNCHANGED <<vaultVars, settlement, cancelling, faults>>

Eligible_Unread == Open

Eligible == ShouldDefault

ReadsShouldDefault ==
    /\ defaulting = "read"
    /\ IF Eligible THEN Task("call", due) ELSE Leaves
    /\ UNCHANGED <<vaultVars, settlement, cancelling, faults>>

(* What markDefault checks, at the simulation and again in the block *)
Defaultable == ShouldDefault \/ (KeeperIsAdmin /\ Open)

SimulatesMarkDefault ==
    /\ defaulting = "call"
    /\ IF Defaultable THEN Task("send", looked) ELSE Leaves
    /\ UNCHANGED <<vaultVars, settlement, cancelling, faults>>

(* The transaction is included.  Whether it reverted there is not looked at:    *)
(* the settlement is deactivated in either case.                                *)
MarkDefaultIncluded ==
    /\ defaulting = "send"
    /\ Task("deactivate", 0)
    /\ IF Defaultable THEN MarkDefault(~ ShouldDefault) ELSE UNCHANGED vaultVars
    /\ UNCHANGED <<settlement, cancelling, faults>>

CallsDeactivate ==
    /\ defaulting = "deactivate"
    /\ Leaves
    /\ settlement' = FALSE
    /\ UNCHANGED <<vaultVars, cancelling, faults>>

(* A call fails.  It ends the task, or is logged and the task goes on: nothing  *)
(* is retried before the next cycle.  A transaction that is sent by then is one *)
(* of the calls anybody can make.                                               *)
TaskFails ==
    /\ faults < MaxFaults
    /\ faults' = faults + 1
    /\ \/ cancelling # "idle" /\ cancelling' = "idle" /\ UNCHANGED <<defaulting, looked>>
       \/ defaulting # "idle" /\ Leaves /\ UNCHANGED cancelling
    /\ UNCHANGED <<vaultVars, settlement>>

Restart ==
    /\ faults < MaxFaults
    /\ faults' = faults + 1
    /\ cancelling' = "idle"
    /\ Leaves
    /\ UNCHANGED <<vaultVars, settlement>>

-----------------------------------------------------------------------------
Init ==
    /\ now = 1
    /\ state = "fundraising"
    /\ raised = 0
    /\ balances = [i \in Investors |-> 0]
    /\ seniors = {}
    /\ pools = {}
    /\ funded = None
    /\ tranches = 0
    /\ toRepay = 0
    /\ expected = 0
    /\ activatedAt = 0
    /\ due = 0
    /\ totalRepaid = 0
    /\ repaid = None
    /\ claimed = [i \in Investors |-> 0]
    /\ snapshot = 0
    /\ cash = 0
    /\ given = [i \in Investors |-> None]
    /\ settlement = TRUE
    /\ cancelling = "idle"
    /\ defaulting = "idle"
    /\ looked = 0
    /\ faults = 0

VaultCalls ==
    \/ \E i \in Investors, amount \in Invests, role \in Roles : Invest(i, amount, role)
    \/ CompleteFundraisingManual \/ Cancel \/ AutoCancelExpired
    \/ ReleaseTranche
    \/ MarkDefault(TRUE)
    \/ MarkDefault(FALSE)
    \/ \E i \in Investors : ClaimReturns(i) \/ ClaimRefund(i)
    \/ Tick

Keeper ==
    \/ SeesFundraising \/ CallsCancel
    \/ SeesRepaying \/ ReadsShouldDefault
    \/ SimulatesMarkDefault \/ MarkDefaultIncluded \/ CallsDeactivate

Next ==
    \/ VaultCalls /\ UNCHANGED keeperVars
    \/ \E part \in Repayments : RoutePayment(part)
    \/ DeactivateSettlement \/ CreateSettlement
    \/ Keeper
    \/ TaskFails \/ Restart

Spec == Init /\ [][Next]_vars

-----------------------------------------------------------------------------
TypeOK ==
    /\ VaultTypeOK
    /\ settlement \in BOOLEAN
    /\ cancelling \in {"idle", "call"}
    /\ defaulting \in {"idle", "read", "call", "send", "deactivate"}
    /\ looked \in Nat
    /\ faults \in 0 .. MaxFaults

KeeperDefaults == defaulting = "send" /\ defaulting' = "deactivate" /\ state' # state

(* The keeper's key is the administrator's where the backend is deployed, and    *)
(* markDefault does not check shouldDefault for the administrator.  Even so the  *)
(* keeper defaults a vault that is not overdue in the block of the call only if  *)
(* a repayment moved its due date after the keeper had read shouldDefault.       *)
OnlyPaymentsOvertakeKeeper == [][KeeperDefaults => ShouldDefault \/ due > looked]_vars
=============================================================================
