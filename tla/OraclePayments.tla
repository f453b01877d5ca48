--------------------------- MODULE OraclePayments ---------------------------
(* The backend's oracle payment service (backend/src/services/oracle.service)   *)
(* over its database table and the Base contract PaymentRouter.                 *)
(*                                                                              *)
(* A payment is a row of OraclePayment.  Three kinds of callbacks work on rows: *)
(* the request that creates one, the timer a failure sets (scheduleRetry), and  *)
(* the interval that picks rows due for a retry.  They share no lock: a worker  *)
(* here is one running callback, and one action is what it does between two     *)
(* awaits.  Workers die in a restart with the timers; rows and transactions     *)
(* already sent survive.                                                        *)
(*                                                                              *)
(* Of time only the order of events is kept: a delay ends at some moment, a     *)
(* deadline passes at some moment.  The database is taken to be up; calls to    *)
(* the chain and the signer may fail at any moment.  Amounts, the settlement    *)
(* (its rate limit, cap and split) and the vault behind it are left out: for    *)
(* any of them a request may be refused and a payment may revert.               *)
EXTENDS Naturals, FiniteSets

CONSTANTS
    Payers,         \* senders of payments
    Ids,            \* rows of OraclePayment
    Workers,        \* callbacks that can run at a time
    MaxAttempts,    \* MAX_ATTEMPTS
    ReserveTries,   \* nonces a request tries, 10 in the code
    BatchSize,      \* rows the interval takes, 5 in the code
    MaxRestarts,    \* bound of restarts
    MaxForeign      \* bound of nonces used by others

ASSUME OracleAssumption ==
    /\ IsFiniteSet(Ids)
    /\ MaxAttempts \in Nat \ {0}
    /\ ReserveTries \in Nat \ {0}
    /\ BatchSize \in Nat \ {0}
    /\ MaxRestarts \in Nat
    /\ MaxForeign \in Nat

VARIABLES
    rows,           \* the table OraclePayment: Ids -> row
    timers,         \* retryTimers: rows with a timer
    workers,        \* running callbacks
    pool,           \* rows whose sent transaction nobody waits for any more
    used,           \* usedNonces of the router: <<payer, nonce>>
    paid,           \* how often the router has executed the payment of a row
    late,           \* rows whose deadline has passed
    restarts        \* restarts so far

vars == <<rows, timers, workers, pool, used, paid, late, restarts>>
chain == <<pool, used, paid>>

None == "none"
Statuses == {"pending", "submitted", "confirmed", "failed", "expired"}
Final == {"confirmed", "failed", "expired"}

NoRow == [payer |-> None, nonce |-> 0, status |-> None, attempts |-> 0]
Idle == [at |-> "idle", kind |-> None, id |-> None, todo |-> {}, tx |-> None,
         saw |-> 0, payer |-> None, nonce |-> 0]

Created == {i \in Ids : rows[i].status # None}
RowsOf(p) == {i \in Created : rows[i].payer = p}

-----------------------------------------------------------------------------
(* The router *)

(* The checks of executePayment that this model keeps                           *)
Executable_NoReplayCheck(i) ==
    /\ i \notin late

Executable(i) ==
    /\ i \notin late
    /\ <<rows[i].payer, rows[i].nonce>> \notin used

Execute(i) ==
    /\ Executable(i)
    /\ used' = used \cup {<<rows[i].payer, rows[i].nonce>>}
    /\ paid' = [paid EXCEPT ![i] = @ + 1]

Revert == UNCHANGED <<used, paid>>

(* A block includes the transaction a worker waits for *)
Mine(w) ==
    LET c == workers[w]
        Mined(outcome) == workers' = [workers EXCEPT ![w].tx = outcome]
    IN  /\ c.tx = "sent"
        /\ \/ Execute(c.id) /\ Mined("executed")
           \/ Revert /\ Mined("reverted")
        /\ UNCHANGED <<rows, timers, pool, late, restarts>>

(* A block includes a transaction nobody waits for, or it is dropped *)
MineUnwatched(i) ==
    /\ i \in pool
    /\ Execute(i) \/ Revert
    /\ pool' = pool \ {i}
    /\ UNCHANGED <<rows, timers, workers, late, restarts>>

(* A payment of the same payer that did not come through this service *)
ForeignPayment(p) ==
    /\ Cardinality(used) < Cardinality({i \in Ids : paid[i] > 0}) + MaxForeign
    /\ \E n \in 1 .. Cardinality(Ids) :
          <<p, n>> \notin used /\ used' = used \cup {<<p, n>>}
    /\ UNCHANGED <<rows, timers, workers, pool, paid, late, restarts>>

-----------------------------------------------------------------------------
(* The service *)

(* What a worker does when it is through with a row: the interval goes on to    *)
(* the next row it has picked, without reading it again.                        *)
Finished(w) ==
    LET c == workers[w]
    IN  IF c.todo = {} THEN {Idle}
        ELSE {[Idle EXCEPT !.at = "check", !.kind = c.kind, !.id = i, !.todo = c.todo \ {i}] :
                 i \in c.todo}

Moves(w, c) == workers' = [workers EXCEPT ![w] = c]

(* getNextNonce *)
NonceCandidates(p) ==
    LET live == {i \in RowsOf(p) : rows[i].status \notin {"failed", "expired"}}
        Unused(n) == <<p, n>> \notin used
    IN  {n \in 1 .. Cardinality(Ids) + Cardinality(used) + 1 :
            /\ Unused(n)
            /\ \A i \in live : rows[i].nonce < n
            /\ \A k \in 1 .. n - 1 : Unused(k) => \E i \in live : rows[i].nonce >= k}

(* processPayment up to the nonce: what is checked here is not checked again    *)
Request(w, p) ==
    /\ workers[w] = Idle
    /\ Cardinality(Created) + Cardinality({v \in Workers : workers[v].at = "reserve"})
          < Cardinality(Ids)
    /\ \E n \in NonceCandidates(p) :
          Moves(w, [Idle EXCEPT !.at = "reserve", !.kind = "request",
                                !.payer = p, !.nonce = n])
    /\ UNCHANGED <<rows, timers, chain, late, restarts>>

(* The nonces a request tries that no row of its payer has: (from, nonce) is    *)
(* unique in the table                                                          *)
FreeNonces(w) ==
    LET c == workers[w]
    IN  {n \in c.nonce .. c.nonce + ReserveTries - 1 :
            \A i \in RowsOf(c.payer) : rows[i].nonce # n}

Reserve(w) ==
    LET c == workers[w]
    IN  /\ c.at = "reserve"
        /\ \E n \in FreeNonces(w), i \in Ids \ Created :
              /\ \A k \in FreeNonces(w) : n <= k
              /\ rows' = [rows EXCEPT ![i] =
                    [payer |-> c.payer, nonce |-> n, status |-> "pending", attempts |-> 0]]
              /\ Moves(w, [Idle EXCEPT !.at = "sign", !.kind = "request", !.id = i])
        /\ UNCHANGED <<timers, chain, late, restarts>>

(* 'Failed to reserve nonce after retries' *)
ReserveFails(w) ==
    /\ workers[w].at = "reserve"
    /\ FreeNonces(w) = {}
    /\ Moves(w, Idle)
    /\ UNCHANGED <<rows, timers, chain, late, restarts>>

(* The timer of a row fires; it leaves a row alone that is not pending          *)
FireTimer(w, i) ==
    /\ workers[w] = Idle
    /\ i \in timers
    /\ timers' = timers \ {i}
    /\ IF rows[i].status = "pending"
       THEN Moves(w, [Idle EXCEPT !.at = "check", !.kind = "timer", !.id = i])
       ELSE UNCHANGED workers
    /\ UNCHANGED <<rows, chain, late, restarts>>

(* nextRetryAt is left out: markFailed has set it for each row that is pending  *)
(* with an attempt, and it comes                                                *)
DueForRetry(i) == rows[i].status = "pending" /\ rows[i].attempts > 0

(* The interval fires, also while an earlier round still runs                   *)
RetryRound(w) ==
    LET due == {i \in Ids : DueForRetry(i)}
    IN  /\ workers[w] = Idle
        /\ due # {}
        /\ \E batch \in SUBSET due :
              /\ Cardinality(batch) = BatchSize \/ (batch = due /\ Cardinality(due) < BatchSize)
              /\ \E i \in batch :
                    Moves(w, [Idle EXCEPT !.at = "check", !.kind = "interval",
                                          !.id = i, !.todo = batch \ {i}])
        /\ UNCHANGED <<rows, timers, chain, late, restarts>>

CheckDeadline_SkipsLate(w) ==
    LET c == workers[w]
    IN  /\ c.at = "check"
        /\ IF c.id \in late
           THEN \E next \in Finished(w) : Moves(w, next)
           ELSE Moves(w, [c EXCEPT !.at = "sign"])
        /\ UNCHANGED <<rows, timers, chain, late, restarts>>

CheckDeadline(w) ==
    LET c == workers[w]
    IN  /\ c.at = "check"
        /\ IF c.id \in late
           THEN /\ rows' = [rows EXCEPT ![c.id].status = "expired"]
                /\ \E next \in Finished(w) : Moves(w, next)
           ELSE /\ Moves(w, [c EXCEPT !.at = "sign"])
                /\ UNCHANGED rows
        /\ UNCHANGED <<timers, chain, late, restarts>>

(* signAndSubmit: sign and mark the row, whatever its status is by now          *)
MarkSubmitted(w) ==
    LET c == workers[w]
    IN  /\ c.at = "sign"
        /\ rows' = [rows EXCEPT ![c.id].status = "submitted", ![c.id].attempts = @ + 1]
        /\ Moves(w, [c EXCEPT !.at = "simulate"])
        /\ UNCHANGED <<timers, chain, late, restarts>>

(* signAndSubmit: the simulation passes and the transaction is sent             *)
Submit(w) ==
    LET c == workers[w]
    IN  /\ c.at = "simulate"
        /\ Executable(c.id)
        /\ Moves(w, [c EXCEPT !.at = "wait", !.tx = "sent"])
        /\ UNCHANGED <<rows, timers, chain, late, restarts>>

(* signAndSubmit: the receipt arrives                                           *)
OutcomeStatus_Confirmed(outcome) == "confirmed"

OutcomeStatus_Unlisted(outcome) == IF outcome = "reverted" THEN "reverted" ELSE "confirmed"

OutcomeStatus(outcome) == IF outcome = "reverted" THEN "failed" ELSE "confirmed"

Receipt(w) ==
    LET c == workers[w]
    IN  /\ c.at = "wait"
        /\ c.tx \in {"executed", "reverted"}
        /\ rows' = [rows EXCEPT ![c.id].status = OutcomeStatus(c.tx)]
        /\ \E next \in Finished(w) : Moves(w, next)
        /\ UNCHANGED <<timers, chain, late, restarts>>

(* A call to the signer or the chain throws, also a simulation that reverts and *)
(* a receipt that does not come in time; the callback catches it and markFailed *)
(* reads how many attempts the row has.                                         *)
Fails(w) ==
    LET c == workers[w]
    IN  /\ c.at \in {"check", "sign", "simulate", "wait"}
        /\ pool' = IF c.tx = "sent" THEN pool \cup {c.id} ELSE pool
        /\ Moves(w, [c EXCEPT !.at = "mark", !.tx = None, !.saw = rows[c.id].attempts])
        /\ UNCHANGED <<rows, timers, used, paid, late, restarts>>

(* markFailed: what it writes, by the attempts it has read                      *)
GivenUp_OneLate(saw) == saw > MaxAttempts

GivenUp(saw) == saw >= MaxAttempts

MarkedFailed_Unrecorded(i, saw) ==
    IF GivenUp(saw) THEN [rows[i] EXCEPT !.status = "failed"] ELSE rows[i]

MarkedFailed(i, saw) ==
    IF GivenUp(saw) THEN [rows[i] EXCEPT !.status = "failed"]
    ELSE [rows[i] EXCEPT !.status = "pending"]

(* The write of markFailed, whatever became of the row since it was read; then  *)
(* the request sets a timer, a timer reads the row once more, and the interval  *)
(* goes on.                                                                     *)
MarkFailed(w) ==
    LET c == workers[w]
    IN  /\ c.at = "mark"
        /\ rows' = [rows EXCEPT ![c.id] = MarkedFailed(c.id, c.saw)]
        /\ timers' = IF c.kind = "request" THEN timers \cup {c.id} ELSE timers
        /\ IF c.kind = "timer" THEN Moves(w, [c EXCEPT !.at = "recheck"])
           ELSE \E next \in Finished(w) : Moves(w, next)
        /\ UNCHANGED <<chain, late, restarts>>

(* The timer's callback sets the next one if the row is still to be tried       *)
Reschedule(w) ==
    LET c == workers[w]
        open == rows[c.id].status = "pending" /\ rows[c.id].attempts < MaxAttempts
    IN  /\ c.at = "recheck"
        /\ timers' = IF open THEN timers \cup {c.id} ELSE timers
        /\ \E next \in Finished(w) : Moves(w, next)
        /\ UNCHANGED <<rows, chain, late, restarts>>

(* The process ends, by a crash or by stopRetryProcessor, and starts again      *)
Restart ==
    /\ restarts < MaxRestarts
    /\ restarts' = restarts + 1
    /\ workers' = [w \in Workers |-> Idle]
    /\ timers' = {}
    /\ pool' = pool \cup {workers[w].id : w \in {v \in Workers : workers[v].tx = "sent"}}
    /\ UNCHANGED <<rows, used, paid, late>>

DeadlinePasses(i) ==
    /\ i \in Created \ late
    /\ late' = late \cup {i}
    /\ UNCHANGED <<rows, timers, workers, chain, restarts>>

-----------------------------------------------------------------------------
Init ==
    /\ rows = [i \in Ids |-> NoRow]
    /\ timers = {}
    /\ workers = [w \in Workers |-> Idle]
    /\ pool = {}
    /\ used = {}
    /\ paid = [i \in Ids |-> 0]
    /\ late = {}
    /\ restarts = 0

Work(w) ==
    \/ Reserve(w) \/ ReserveFails(w)
    \/ CheckDeadline(w) \/ MarkSubmitted(w) \/ Submit(w) \/ Receipt(w)
    \/ Fails(w) \/ MarkFailed(w) \/ Reschedule(w)

Next ==
    \/ \E w \in Workers :
          \/ \E p \in Payers : Request(w, p)
          \/ \E i \in Ids : FireTimer(w, i)
          \/ RetryRound(w)
          \/ Work(w)
          \/ Mine(w)
    \/ \E i \in Ids : MineUnwatched(i) \/ DeadlinePasses(i)
    \/ \E p \in Payers : ForeignPayment(p)
    \/ Restart

Spec == Init /\ [][Next]_vars

(* A callback that runs goes on (each await ends, by a timeout at the latest),  *)
(* deadlines pass, a timer that is set fires and the interval keeps firing.     *)
(* These two are strong: with a fixed number of workers a callback can find none idle *)
(* again and again, which the event loop does not know.  The chain does not     *)
(* fail forever to say what time it is: attempts are counted after that, so a   *)
(* chain that is down keeps a payment open past any number of retries.  Nothing *)
(* is assumed of blocks, requests or restarts.                                  *)
Fairness ==
    /\ \A i \in Ids : WF_vars(DeadlinePasses(i))
    /\ \A w \in Workers : WF_vars(Work(w)) /\ SF_vars(CheckDeadline(w))
    /\ \A i \in Ids : SF_vars(\E w \in Workers : FireTimer(w, i))
    /\ SF_vars(\E w \in Workers : RetryRound(w))

FairSpec == Spec /\ Fairness

-----------------------------------------------------------------------------
Steps == {"idle", "reserve", "check", "sign", "simulate", "wait", "mark", "recheck"}

TypeOK ==
    /\ rows \in [Ids -> [payer : Payers \cup {None}, nonce : Nat,
                         status : Statuses \cup {None}, attempts : Nat]]
    /\ timers \subseteq Ids
    /\ workers \in [Workers -> [at : Steps, kind : {None, "request", "timer", "interval"},
                                id : Ids \cup {None}, todo : SUBSET Ids,
                                tx : {None, "sent", "executed", "reverted"},
                                saw : Nat, payer : Payers \cup {None}, nonce : Nat]]
    /\ pool \subseteq Ids
    /\ used \subseteq Payers \X Nat
    /\ paid \in [Ids -> Nat]
    /\ late \subseteq Ids
    /\ restarts \in Nat

(* However often a payment is submitted, by whichever callbacks, with           *)
(* transactions still in the pool from before a timeout or a restart, the       *)
(* router executes it once.                                                     *)
PaidAtMostOnce == \A i \in Ids : paid[i] <= 1

(* A row says confirmed only if the router executed this very payment, and not  *)
(* another one under the same nonce.                                            *)
ConfirmedWasPaid == \A i \in Ids : rows[i].status = "confirmed" => paid[i] > 0

(* A row can be tried more often than MAX_ATTEMPTS: callbacks overlap on it, and *)
(* one that read its attempts early can set it back to pending after another    *)
(* gave it up, which the interval picks up without looking at attempts.  Yet    *)
(* each callback at a time does so once, and lets in each other one once.       *)
AttemptsBounded ==
    \A i \in Ids :
        rows[i].attempts <= MaxAttempts + Cardinality(Workers) * (Cardinality(Workers) - 1)

Held(i) == \E w \in Workers : workers[w].id = i \/ i \in workers[w].todo

(* No callback, timer or later round of the interval will look at the row again *)
Stranded(i) ==
    /\ rows[i].status \in {"pending", "submitted"}
    /\ ~ Held(i)
    /\ i \notin timers
    /\ ~ DueForRetry(i)

(* Whatever fails and however callbacks overlap, an undecided payment stays in  *)
(* somebody's hands while the process runs.                                     *)
OnlyRestartStrands == \A i \in Ids : Stranded(i) => restarts > 0

(* Every payment is decided, unless a restart strands it.                       *)
DecidedOrStranded ==
    \A i \in Ids : rows[i].status \in {"pending", "submitted"} ~>
                      (rows[i].status \in Final \/ Stranded(i))
=============================================================================
