-------------------------- MODULE WebhookDelivery --------------------------
(* The backend's webhooks (backend/src/services/webhook.service): events are    *)
(* dispatched into the table WebhookDelivery, one row per active endpoint, and  *)
(* an interval posts the rows that are due.                                     *)
(*                                                                              *)
(* The interval does not wait for the round before (15 s against 10 s for each  *)
(* of 20 posts), so rounds overlap: each works on the rows as it read them at   *)
(* its start.  dispatchWebhook is called and not awaited: a call in flight is   *)
(* in outbox and a restart loses it.  Of the backoff only that it ends is kept. *)
EXTENDS Naturals, Sequences, FiniteSets, SequencesExt

CONSTANTS
    Events,         \* what can be dispatched
    Endpoints,      \* subscribers
    Rounds,         \* rounds that can run at a time
    MaxDeliveries,  \* bound of rows
    MaxAttempts,    \* MAX_ATTEMPTS, 5 in the code
    BatchSize,      \* rows a round takes, 20 in the code
    MaxFaults       \* bound of database failures and restarts

ASSUME WebhookAssumption ==
    /\ IsFiniteSet(Events) /\ IsFiniteSet(Endpoints)
    /\ MaxDeliveries \in Nat
    /\ MaxAttempts \in Nat \ {0}
    /\ BatchSize \in Nat \ {0}
    /\ MaxFaults \in Nat

VARIABLES
    outbox,         \* dispatches in flight, in no order: Events -> number
    deliveries,     \* the table, in the order rows were created
    rounds,         \* rounds that run
    posts,          \* for each row, how often it was posted
    accepted,       \* and how often its endpoint accepted it
    active,         \* endpoints that are active
    faults          \* failures so far

webhookVars == <<outbox, deliveries, rounds, posts, accepted, active, faults>>

(* A round has the rows it is still to post, each with the attempts it read     *)
Resting == [at |-> "idle", batch |-> [i \in {} |-> 0]]

(* One dispatch per call, whatever was dispatched before                        *)
Queued(e) == [outbox EXCEPT ![e] = @ + 1]

(* dispatchWebhook *)
Dispatch(e) ==
    LET rows == [k \in 1 .. Cardinality(active) |->
                    [event |-> e, endpoint |-> SetToSeq(active)[k],
                     status |-> "pending", attempts |-> 0]]
    IN  /\ outbox[e] > 0
        /\ Len(deliveries) + Len(rows) <= MaxDeliveries
        /\ outbox' = [outbox EXCEPT ![e] = @ - 1]
        /\ deliveries' = deliveries \o rows
        /\ posts' = posts \o [k \in 1 .. Len(rows) |-> 0]
        /\ accepted' = accepted \o [k \in 1 .. Len(rows) |-> 0]
        /\ UNCHANGED <<rounds, active, faults>>

(* The endpoints cannot be read or the rows not written: the caller logs it and *)
(* the event is told to nobody.                                                 *)
DispatchFails(e) ==
    /\ outbox[e] > 0
    /\ faults < MaxFaults
    /\ faults' = faults + 1
    /\ outbox' = [outbox EXCEPT ![e] = @ - 1]
    /\ UNCHANGED <<deliveries, rounds, posts, accepted, active>>

(* An administrator activates or deactivates an endpoint; its rows stay as they *)
(* are and are still posted.                                                    *)
Toggle(ep) ==
    /\ active' = IF ep \in active THEN active \ {ep} ELSE active \cup {ep}
    /\ UNCHANGED <<outbox, deliveries, rounds, posts, accepted, faults>>

-----------------------------------------------------------------------------
(* processWebhookDeliveries *)

(* The rows that are to be posted.  Failed rows are selected too, but they have *)
(* no nextRetryAt any more and no comparison with the time finds them.          *)
Due_RetriesOnly(i) ==
    /\ deliveries[i].status = "pending"
    /\ deliveries[i].attempts \in 1 .. MaxAttempts - 1

Due(i) ==
    /\ deliveries[i].status = "pending"
    /\ deliveries[i].attempts < MaxAttempts

(* The oldest rows that are due                                                 *)
Taken ==
    LET due == {i \in 1 .. Len(deliveries) : Due(i)}
    IN  {i \in due : Cardinality({j \in due : j < i}) < BatchSize}

Begin(r) ==
    /\ rounds[r] = Resting
    /\ Taken # {}
    /\ rounds' = [rounds EXCEPT ![r] =
          [at |-> "post", batch |-> [i \in Taken |-> deliveries[i].attempts]]]
    /\ UNCHANGED <<outbox, deliveries, posts, accepted, active, faults>>

(* The row a round is at                                                        *)
Current(r) == Min(DOMAIN rounds[r].batch)

(* The endpoint accepts; or it refuses, is not reached, or its answer is lost   *)
Post(r) ==
    LET i == Current(r)
    IN  /\ rounds[r].at = "post"
        /\ posts' = [posts EXCEPT ![i] = @ + 1]
        /\ \/ /\ accepted' = [accepted EXCEPT ![i] = @ + 1]
              /\ \E answer \in {"ok", "error"} : rounds' = [rounds EXCEPT ![r].at = answer]
           \/ /\ rounds' = [rounds EXCEPT ![r].at = "error"]
              /\ UNCHANGED accepted
        /\ UNCHANGED <<outbox, deliveries, active, faults>>

(* What a row says after an answer, by the attempts read when the round began   *)
StatusAfter_AnyAnswer(answer, attempt) ==
    IF attempt >= MaxAttempts /\ answer = "error" THEN "failed" ELSE "delivered"

StatusAfter_OneLate(answer, attempt) ==
    IF answer = "ok" THEN "delivered"
    ELSE IF attempt > MaxAttempts THEN "failed" ELSE "pending"

StatusAfter(answer, attempt) ==
    IF answer = "ok" THEN "delivered"
    ELSE IF attempt >= MaxAttempts THEN "failed" ELSE "pending"

Left(r) == DOMAIN rounds[r].batch \ {Current(r)}

GoOn_PastTheEnd(r) == [at |-> "post", batch |-> Restrict(rounds[r].batch, Left(r))]

GoOn(r) ==
    IF Left(r) = {} THEN Resting
    ELSE [at |-> "post", batch |-> Restrict(rounds[r].batch, Left(r))]

Record(r) ==
    LET i == Current(r)
        answer == rounds[r].at
        attempt == rounds[r].batch[i] + 1
    IN  /\ answer \in {"ok", "error"}
        /\ deliveries' = [deliveries EXCEPT
              ![i].status = StatusAfter(answer, attempt),
              ![i].attempts = attempt]
        /\ rounds' = [rounds EXCEPT ![r] = GoOn(r)]
        /\ UNCHANGED <<outbox, posts, accepted, active, faults>>

(* The database refuses the update: after a success the catch records a failure *)
(* instead, and after a failure the round ends where it is.                     *)
RecordFails(r) ==
    /\ faults < MaxFaults
    /\ faults' = faults + 1
    /\ \/ /\ rounds[r].at = "ok"
          /\ rounds' = [rounds EXCEPT ![r].at = "error"]
       \/ /\ rounds[r].at = "error"
          /\ rounds' = [rounds EXCEPT ![r] = Resting]
    /\ UNCHANGED <<outbox, deliveries, posts, accepted, active>>

(* The process ends and starts again: dispatches and rounds are gone *)
LoseWebhooks ==
    /\ outbox' = [e \in Events |-> 0]
    /\ rounds' = [r \in Rounds |-> Resting]
    /\ UNCHANGED <<deliveries, posts, accepted, active>>

Restart ==
    /\ faults < MaxFaults
    /\ faults' = faults + 1
    /\ LoseWebhooks

-----------------------------------------------------------------------------
WebhookInit ==
    /\ outbox = [e \in Events |-> 0]
    /\ deliveries = <<>>
    /\ rounds = [r \in Rounds |-> Resting]
    /\ posts = <<>>
    /\ accepted = <<>>
    /\ active = Endpoints
    /\ faults = 0

WebhookWork ==
    \/ \E e \in Events : Dispatch(e) \/ DispatchFails(e)
    \/ \E ep \in Endpoints : Toggle(ep)
    \/ \E r \in Rounds : Begin(r) \/ Post(r) \/ Record(r) \/ RecordFails(r)

-----------------------------------------------------------------------------
Rows == [event : Events, endpoint : Endpoints,
         status : {"pending", "delivered", "failed"}, attempts : 0 .. MaxAttempts]

(* A round that runs has rows of the table to go on with                        *)
RoundOK(round) ==
    \E rows \in (SUBSET (1 .. Len(deliveries))) \ {{}} :
        round \in [at : {"post", "ok", "error"}, batch : [rows -> 0 .. MaxAttempts - 1]]

WebhookTypeOK ==
    /\ outbox \in [Events -> Nat]
    /\ deliveries \in Seq(Rows) /\ Len(deliveries) <= MaxDeliveries
    /\ DOMAIN rounds = Rounds
    /\ \A r \in Rounds : rounds[r] = Resting \/ RoundOK(rounds[r])
    /\ posts \in Seq(Nat) /\ Len(posts) = Len(deliveries)
    /\ accepted \in Seq(Nat) /\ Len(accepted) = Len(deliveries)
    /\ active \subseteq Endpoints
    /\ faults \in 0 .. MaxFaults

DeliveredWasAccepted ==
    \A i \in 1 .. Len(deliveries) : deliveries[i].status = "delivered" => accepted[i] > 0

GivenUpWasTried ==
    \A i \in 1 .. Len(deliveries) : deliveries[i].status = "failed" => posts[i] >= MaxAttempts

(* A row says delivered only if the endpoint has accepted it, and failed only   *)
(* after MAX_ATTEMPTS posts of it, whichever of the rounds that overlap on it   *)
(* wrote last: they overwrite each other's status and count of attempts, which  *)
(* may lose an attempt and never invents one.                                   *)
DecisionsHold == DeliveredWasAccepted /\ GivenUpWasTried

(* Rounds that overlap can put a row that was decided back to pending, by what  *)
(* they read before; this comes to an end, and every row stays delivered or     *)
(* given up.                                                                    *)
SettlesForGood ==
    \A i \in 1 .. MaxDeliveries :
        <>[](i <= Len(deliveries) => deliveries[i].status # "pending")
=============================================================================
