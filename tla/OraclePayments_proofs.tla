----------------------- MODULE OraclePayments_proofs -----------------------
(* Proofs about OraclePayments, for any payers, rows, callbacks and bounds.     *)
(*                                                                              *)
(* A callback keeps what it once knew of its row while others write the same    *)
(* row, so the argument rests on what nobody ever takes back: a row's payer and *)
(* nonce, its attempts, the router's used nonces and executed payments          *)
(* (StepKeeps).                                                                 *)
EXTENDS OraclePayments, FiniteSetTheorems, TLAPS

RowType == [payer : Payers \cup {None}, nonce : Nat,
            status : Statuses \cup {None}, attempts : Nat]

WorkerType == [at : Steps, kind : {None, "request", "timer", "interval"},
               id : Ids \cup {None}, todo : SUBSET Ids,
               tx : {None, "sent", "executed", "reverted"},
               saw : Nat, payer : Payers \cup {None}, nonce : Nat]

OnRow == {"check", "sign", "simulate", "wait", "mark", "recheck"}

(* What a callback may rely on *)
Sound(c) ==
    /\ c.at = "reserve" => c.payer \in Payers
    /\ c.at \in OnRow => c.id \in Created /\ c.kind # None
    /\ c.todo \subseteq Created
    /\ c.tx # None => c.at = "wait"
    /\ c.tx = "executed" => paid[c.id] > 0
    /\ c.at \in {"simulate", "wait"} => rows[c.id].attempts > 0
    /\ c.at = "mark" => c.saw <= rows[c.id].attempts
    /\ c.kind = "interval" => /\ c.at \in OnRow => rows[c.id].attempts > 0
                              /\ \A i \in c.todo : rows[i].attempts > 0

WorkersSound == \A w \in Workers : Sound(workers[w])

RowsSound ==
    /\ pool \subseteq Created
    /\ \A i \in Created : rows[i].payer \in Payers

PaidSound ==
    \A i \in Ids :
        paid[i] > 0 => /\ paid[i] = 1
                       /\ i \in Created
                       /\ <<rows[i].payer, rows[i].nonce>> \in used

Submitting == {"simulate", "wait", "mark"}
Untried == {"check", "sign", "mark", "recheck"}

(* Who has an undecided row in hand, as long as there was no restart *)
InHand(i) ==
    /\ rows[i].status = "submitted" =>
          /\ rows[i].attempts > 0
          /\ \E w \in Workers : workers[w].id = i /\ workers[w].at \in Submitting
    /\ rows[i].status = "pending" /\ rows[i].attempts = 0 =>
          i \in timers \/ \E w \in Workers : workers[w].id = i /\ workers[w].at \in Untried

Hands == restarts = 0 => \A i \in Ids : InHand(i)

IInv ==
    /\ TypeOK
    /\ IsFiniteSet(used)
    /\ WorkersSound
    /\ RowsSound
    /\ PaidSound
    /\ ConfirmedWasPaid
    /\ Hands

-----------------------------------------------------------------------------
(* The service starts with IInv. *)
THEOREM InitIInv == Init => IInv
<1> SUFFICES ASSUME Init PROVE IInv
    OBVIOUS
<1>1. TypeOK
    BY DEF Init, TypeOK, NoRow, Idle, None, Statuses, Steps
<1>2. Created = {}
    BY DEF Init, Created, NoRow
<1>3. IsFiniteSet(used)
    BY FS_EmptySet DEF Init
<1>4. WorkersSound
    BY <1>2 DEF Init, WorkersSound, Sound, Idle, None, OnRow
<1>5. RowsSound /\ PaidSound /\ ConfirmedWasPaid
    BY <1>2 DEF Init, RowsSound, PaidSound, ConfirmedWasPaid, NoRow, None
<1>6. Hands
    BY DEF Init, Hands, InHand, NoRow, None
<1> QED
    BY <1>1, <1>3, <1>4, <1>5, <1>6 DEF IInv

(* The row a callback goes on to is one it had picked *)
LEMMA FinishedSound ==
    ASSUME TypeOK, WorkersSound, NEW w \in Workers, workers[w].at \in OnRow,
           NEW c \in Finished(w)
    PROVE  /\ c \in WorkerType
           /\ Sound(c)
           /\ c.tx = None
           /\ c = Idle \/ (c.at = "check" /\ c.id \in workers[w].todo)
<1> DEFINE old == workers[w]
<1>1. old \in WorkerType
    BY DEF TypeOK, WorkerType
<1>2. CASE old.todo = {}
  <2>1. c = Idle
    BY <1>2 DEF Finished
  <2> QED
    BY <2>1 DEF Idle, None, WorkerType, Steps, Sound, OnRow
<1>3. CASE old.todo # {}
  <2>1. PICK i \in old.todo :
          c = [Idle EXCEPT !.at = "check", !.kind = old.kind, !.id = i,
                            !.todo = old.todo \ {i}]
    BY <1>3 DEF Finished
  <2>2. /\ c.at = "check" /\ c.id = i /\ c.todo = old.todo \ {i} /\ c.tx = None
        /\ c.kind = old.kind /\ c \in WorkerType
    BY <1>1, <2>1 DEF Idle, WorkerType, Steps, None
  <2>3. Sound(old)
    BY DEF WorkersSound
  <2>4. i \in Created
    BY <2>3 DEF Sound
  <2>5. c.kind # None
    BY <2>2, <2>3 DEF Sound
  <2>6. Sound(c)
    BY <2>2, <2>3, <2>4, <2>5 DEF Sound, OnRow, None
  <2> QED
    BY <2>2, <2>6
<1> QED
    BY <1>2, <1>3

-----------------------------------------------------------------------------
(* A callback at work on its row writes this row only, and neither its payer    *)
(* nor its nonce.                                                               *)
LEMMA RowWritten ==
    ASSUME IInv, NEW w \in Workers, NEW i, i = workers[w].id,
           CheckDeadline(w) \/ MarkSubmitted(w) \/ Receipt(w) \/ MarkFailed(w)
    PROVE  /\ i \in Created
           /\ rows' \in [Ids -> RowType]
           /\ \A j \in Ids : j # i => rows'[j] = rows[j]
           /\ rows'[i].payer = rows[i].payer
           /\ rows'[i].nonce = rows[i].nonce
           /\ rows'[i].status \in Statuses
           /\ rows'[i].attempts >= rows[i].attempts
<1>1. i \in Created /\ i \in Ids
  <2>1. workers[w].at \in OnRow
    BY DEF CheckDeadline, MarkSubmitted, Receipt, MarkFailed, OnRow
  <2> QED
    BY <2>1 DEF IInv, WorkersSound, Sound, Created
<1>2. /\ rows \in [Ids -> RowType]
      /\ rows[i] \in RowType
      /\ rows[i].attempts \in Nat
      /\ rows[i].status \in Statuses
      /\ workers[w].tx \in {None, "sent", "executed", "reverted"}
    BY <1>1 DEF IInv, TypeOK, RowType, Created
<1>3. CASE CheckDeadline(w)
  <2>1. rows' = [rows EXCEPT ![i].status = "expired"] \/ rows' = rows
    BY <1>3 DEF CheckDeadline
  <2> QED
    BY <1>1, <1>2, <2>1 DEF RowType, Statuses
<1>4. CASE MarkSubmitted(w)
  <2>0. PICK x, n : x = rows[i] /\ n = rows[i].attempts + 1
    OBVIOUS
  <2> DEFINE r == [x EXCEPT !.status = "submitted", !.attempts = n]
  <2>1. rows' = [rows EXCEPT ![i] = r]
    BY <1>1, <1>2, <1>4, <2>0 DEF MarkSubmitted
  <2>2. /\ r \in RowType
        /\ r.payer = rows[i].payer /\ r.nonce = rows[i].nonce
        /\ r.status = "submitted" /\ r.attempts = rows[i].attempts + 1
    <3>1. x \in RowType /\ n \in Nat
      BY <1>2, <2>0
    <3>2. /\ r \in RowType /\ r.payer = x.payer /\ r.nonce = x.nonce
          /\ r.status = "submitted" /\ r.attempts = n
      BY <3>1 DEF RowType, Statuses
    <3> QED
      BY <2>0, <3>2
  <2> HIDE DEF r
  <2>3. /\ rows' \in [Ids -> RowType]
        /\ rows'[i] = r
        /\ \A j \in Ids : j # i => rows'[j] = rows[j]
    BY <1>1, <1>2, <2>1, <2>2
  <2>4. r.attempts >= rows[i].attempts
    BY <1>2, <2>2
  <2> QED
    BY <1>1, <2>2, <2>3, <2>4 DEF Statuses
<1>5. CASE Receipt(w)
  <2>1. PICK s \in {"failed", "confirmed"} : rows' = [rows EXCEPT ![i].status = s]
    BY <1>5 DEF Receipt, OutcomeStatus
  <2> QED
    BY <1>1, <1>2, <2>1 DEF RowType, Statuses
<1>6. CASE MarkFailed(w)
  <2>1. PICK s \in {"failed", "pending"} :
          rows' = [rows EXCEPT ![i] = [rows[i] EXCEPT !.status = s]]
    BY <1>6 DEF MarkFailed, MarkedFailed
  <2> QED
    BY <1>1, <1>2, <2>1 DEF RowType, Statuses
<1> QED
    BY <1>1, <1>3, <1>4, <1>5, <1>6

(* A reservation creates one row, of the payer that asked, pending and untried  *)
LEMMA RowCreated ==
    ASSUME IInv, NEW w \in Workers, Reserve(w)
    PROVE  /\ workers[w].payer \in Payers
           /\ \E i \in Ids \ Created, n \in Nat :
                /\ rows' = [rows EXCEPT ![i] = [payer |-> workers[w].payer, nonce |-> n,
                                                status |-> "pending", attempts |-> 0]]
                /\ rows' \in [Ids -> RowType]
                /\ workers' = [workers EXCEPT ![w] =
                      [Idle EXCEPT !.at = "sign", !.kind = "request", !.id = i]]
<1>1. workers[w].payer \in Payers
    BY DEF Reserve, IInv, WorkersSound, Sound
<1>2. PICK n \in FreeNonces(w), i \in Ids \ Created :
        /\ rows' = [rows EXCEPT ![i] = [payer |-> workers[w].payer, nonce |-> n,
                                        status |-> "pending", attempts |-> 0]]
        /\ workers' = [workers EXCEPT ![w] =
              [Idle EXCEPT !.at = "sign", !.kind = "request", !.id = i]]
    BY DEF Reserve, Moves
<1>3. n \in Nat
  <2>1. workers[w].nonce \in Nat
    BY DEF IInv, TypeOK
  <2> QED
    BY <2>1, OracleAssumption DEF FreeNonces
<1>4. rows' \in [Ids -> RowType]
    BY <1>1, <1>2, <1>3 DEF IInv, TypeOK, RowType, Statuses
<1> QED
    BY <1>1, <1>2, <1>3, <1>4

(* What no step takes back *)
LEMMA StepKeeps ==
    ASSUME IInv, [Next]_vars
    PROVE  /\ rows' \in [Ids -> RowType]
           /\ \A i \in Created : /\ i \in Created'
                                 /\ rows'[i].payer = rows[i].payer
                                 /\ rows'[i].nonce = rows[i].nonce
                                 /\ rows'[i].attempts >= rows[i].attempts
           /\ \A i \in Created' : rows'[i].payer \in Payers
           /\ used \subseteq used'
           /\ paid' \in [Ids -> Nat]
           /\ \A i \in Ids : paid'[i] >= paid[i]
<1> DEFINE RowsKept ==
      /\ rows' \in [Ids -> RowType]
      /\ \A i \in Created : /\ i \in Created'
                            /\ rows'[i].payer = rows[i].payer
                            /\ rows'[i].nonce = rows[i].nonce
                            /\ rows'[i].attempts >= rows[i].attempts
      /\ \A i \in Created' : rows'[i].payer \in Payers
<1>1. /\ rows \in [Ids -> RowType]
      /\ paid \in [Ids -> Nat]
      /\ \A i \in Created : rows[i].payer \in Payers
      /\ \A i \in Ids : rows[i].attempts \in Nat
    BY DEF IInv, TypeOK, RowsSound, RowType
<1>2. ASSUME UNCHANGED rows PROVE RowsKept
    BY <1>1, <1>2 DEF Created
<1>3. ASSUME NEW w \in Workers, Reserve(w) PROVE RowsKept
  <2>1. PICK i \in Ids \ Created, n \in Nat :
          /\ rows' = [rows EXCEPT ![i] = [payer |-> workers[w].payer, nonce |-> n,
                                          status |-> "pending", attempts |-> 0]]
          /\ rows' \in [Ids -> RowType]
          /\ workers[w].payer \in Payers
    BY <1>3, RowCreated
  <2> QED
    BY <1>1, <2>1 DEF Created, None
<1>4. ASSUME NEW w \in Workers,
             CheckDeadline(w) \/ MarkSubmitted(w) \/ Receipt(w) \/ MarkFailed(w)
      PROVE  RowsKept
  <2>1. PICK i \in Created :
          /\ rows' \in [Ids -> RowType]
          /\ \A j \in Ids : j # i => rows'[j] = rows[j]
          /\ rows'[i].payer = rows[i].payer
          /\ rows'[i].nonce = rows[i].nonce
          /\ rows'[i].status \in Statuses
          /\ rows'[i].attempts >= rows[i].attempts
    BY <1>4, RowWritten
  <2> QED
    BY <1>1, <2>1 DEF Created, None, Statuses
<1>5. RowsKept
  <2>1. UNCHANGED rows \/ \E w \in Workers : Reserve(w) \/ CheckDeadline(w) \/ MarkSubmitted(w)
                                                \/ Receipt(w) \/ MarkFailed(w)
    BY DEF Next, vars, Work, Request, FireTimer, RetryRound, ReserveFails, Submit, Mine,
           Fails, Reschedule, MineUnwatched, DeadlinePasses, ForeignPayment, Restart, chain
  <2> QED
    BY <2>1, <1>2, <1>3, <1>4
<1>6. /\ used \subseteq used'
      /\ paid' \in [Ids -> Nat]
      /\ \A i \in Ids : paid'[i] >= paid[i]
  <2>1. UNCHANGED <<used, paid>> \/ (used \subseteq used' /\ UNCHANGED paid)
           \/ \E i \in Ids \cup {None} : Execute(i)
    <3>1. ASSUME NEW w \in Workers, Mine(w)
          PROVE  UNCHANGED <<used, paid>> \/ \E i \in Ids \cup {None} : Execute(i)
      <4>1. workers[w].id \in Ids \cup {None}
        BY DEF IInv, TypeOK
      <4> QED
        BY <3>1, <4>1 DEF Mine, Revert
    <3> QED
      BY <3>1 DEF Next, vars, Work, Request, FireTimer, RetryRound, Reserve, ReserveFails,
             CheckDeadline, MarkSubmitted, Submit, Receipt, Fails, MarkFailed, Reschedule,
             MineUnwatched, Revert, DeadlinePasses, ForeignPayment, Restart, chain
  <2>2. ASSUME NEW i, Execute(i)
        PROVE  /\ used \subseteq used' /\ paid' \in [Ids -> Nat]
               /\ \A j \in Ids : paid'[j] >= paid[j]
    <3>1. paid' = [j \in Ids |-> IF j = i THEN paid[j] + 1 ELSE paid[j]]
      BY <1>1, <2>2 DEF Execute
    <3>2. \A j \in Ids : paid'[j] \in Nat /\ paid'[j] >= paid[j]
      BY <1>1, <3>1
    <3>3. paid' \in [Ids -> Nat]
      BY <3>1, <3>2
    <3> QED
      BY <2>2, <3>2, <3>3 DEF Execute
  <2> QED
    BY <1>1, <2>1, <2>2
<1> QED
    BY <1>5, <1>6

(* What a callback relies on stays true while others act *)
LEMMA SoundKept ==
    ASSUME IInv, [Next]_vars, NEW c \in WorkerType, Sound(c)
    PROVE  Sound(c)'
<1>1. /\ \A i \in Created : i \in Created' /\ rows'[i].attempts >= rows[i].attempts
      /\ paid' \in [Ids -> Nat]
      /\ \A i \in Ids : paid'[i] >= paid[i]
      /\ rows' \in [Ids -> RowType]
    BY StepKeeps
<1>2. /\ paid \in [Ids -> Nat]
      /\ \A i \in Created : rows[i].attempts \in Nat
      /\ Created \subseteq Ids
    BY DEF IInv, TypeOK, Created
<1>3. \A i \in Created : rows'[i].attempts \in Nat
    BY <1>1, <1>2 DEF RowType
<1>4. c.tx = "executed" => c.id \in Ids
    BY <1>2 DEF Sound, None, OnRow
<1>5. \A i \in Ids : paid[i] > 0 => paid'[i] > 0
    BY <1>1, <1>2
<1>6. \A i \in Created : rows[i].attempts > 0 => rows'[i].attempts > 0
    BY <1>1, <1>2, <1>3
<1>7. c.at = "mark" => c.saw <= rows'[c.id].attempts
  <2> SUFFICES ASSUME c.at = "mark" PROVE c.saw <= rows'[c.id].attempts
    OBVIOUS
  <2>1. PICK a, b : a = rows[c.id].attempts /\ b = rows'[c.id].attempts
    OBVIOUS
  <2>2. c.id \in Created /\ c.saw <= a /\ c.saw \in Nat
    BY <2>1 DEF Sound, OnRow, WorkerType
  <2>3. a \in Nat /\ b \in Nat /\ b >= a
    BY <1>1, <1>2, <1>3, <2>1, <2>2
  <2> QED
    BY <2>1, <2>2, <2>3
<1> QED
    BY <1>1, <1>4, <1>5, <1>6, <1>7 DEF Sound, OnRow

(* The table, the timers, the transactions and the counters keep their types,   *)
(* and so does each callback with what it relies on.                            *)
LEMMA CallbacksStep ==
    ASSUME IInv, [Next]_vars
    PROVE  /\ workers' \in [Workers -> WorkerType]
           /\ \A w \in Workers : Sound(workers[w])'
<1> DEFINE Good(c) == c \in WorkerType /\ Sound(c)'
           OneMoves(w) == \E c : workers' = [workers EXCEPT ![w] = c] /\ Good(c)
<1>1. /\ workers \in [Workers -> WorkerType]
      /\ \A w \in Workers : Sound(workers[w])
      /\ rows \in [Ids -> RowType]
      /\ timers \subseteq Ids
      /\ Created \subseteq Ids
    BY DEF IInv, TypeOK, WorkersSound, WorkerType, RowType, Created
<1>2. ASSUME NEW c \in WorkerType, Sound(c) PROVE Good(c)
    BY <1>2, SoundKept
<1>3. ASSUME NEW c, c = Idle PROVE Good(c)
    BY <1>3 DEF Idle, None, WorkerType, Steps, Sound, OnRow
<1>4. ASSUME NEW w \in Workers, workers[w].at \in OnRow, NEW c \in Finished(w) PROVE Good(c)
  <2>1. c \in WorkerType /\ Sound(c)
    BY <1>4, FinishedSound DEF IInv
  <2> QED
    BY <2>1, <1>2
<1>5. ASSUME NEW w \in Workers, NEW p \in Payers, Request(w, p) PROVE OneMoves(w)
  <2>1. PICK n \in NonceCandidates(p) :
          workers' = [workers EXCEPT ![w] = [Idle EXCEPT !.at = "reserve", !.kind = "request",
                                                         !.payer = p, !.nonce = n]]
    BY <1>5 DEF Request, Moves
  <2>2. n \in Nat
    <3>1. Cardinality(Ids) \in Nat /\ Cardinality(used) \in Nat
      BY OracleAssumption, FS_CardinalityType DEF IInv
    <3> QED
      BY <3>1 DEF NonceCandidates
  <2>3. PICK c : c = [Idle EXCEPT !.at = "reserve", !.kind = "request", !.payer = p, !.nonce = n]
    OBVIOUS
  <2>4. Good(c)
    BY <2>2, <2>3 DEF Idle, None, WorkerType, Steps, Sound, OnRow
  <2> QED
    BY <2>1, <2>3, <2>4
<1>6. ASSUME NEW w \in Workers, Reserve(w) PROVE OneMoves(w)
  <2>1. PICK i \in Ids \ Created, n \in Nat :
          /\ rows' = [rows EXCEPT ![i] = [payer |-> workers[w].payer, nonce |-> n,
                                          status |-> "pending", attempts |-> 0]]
          /\ workers' = [workers EXCEPT ![w] =
                [Idle EXCEPT !.at = "sign", !.kind = "request", !.id = i]]
    BY <1>6, RowCreated
  <2>2. PICK c : c = [Idle EXCEPT !.at = "sign", !.kind = "request", !.id = i]
    OBVIOUS
  <2>3. i \in Created'
    BY <1>1, <2>1 DEF Created, None
  <2>4. Good(c)
    BY <2>2, <2>3 DEF Idle, None, WorkerType, Steps, Sound, OnRow
  <2> QED
    BY <2>1, <2>2, <2>4
<1>7. ASSUME NEW w \in Workers, ReserveFails(w) PROVE OneMoves(w)
    BY <1>3, <1>7 DEF ReserveFails, Moves
<1>8. ASSUME NEW w \in Workers, NEW i \in Ids, FireTimer(w, i) PROVE UNCHANGED workers \/ OneMoves(w)
  <2>1. CASE rows[i].status = "pending"
    <3>1. workers' = [workers EXCEPT ![w] = [Idle EXCEPT !.at = "check", !.kind = "timer", !.id = i]]
      BY <1>8, <2>1 DEF FireTimer, Moves
    <3>2. PICK c : c = [Idle EXCEPT !.at = "check", !.kind = "timer", !.id = i]
      OBVIOUS
    <3>3. i \in Created
      BY <2>1 DEF Created, None
    <3>4. c \in WorkerType /\ Sound(c)
      BY <3>2, <3>3 DEF Idle, None, WorkerType, Steps, Sound, OnRow
    <3> QED
      BY <3>1, <3>2, <3>4, <1>2
  <2>2. CASE rows[i].status # "pending"
    BY <1>8, <2>2 DEF FireTimer
  <2> QED
    BY <2>1, <2>2
<1>9. ASSUME NEW w \in Workers, RetryRound(w) PROVE OneMoves(w)
  <2>1. PICK batch, i :
          /\ batch \subseteq {j \in Ids : DueForRetry(j)} /\ i \in batch
          /\ workers' = [workers EXCEPT ![w] = [Idle EXCEPT !.at = "check", !.kind = "interval",
                                                            !.id = i, !.todo = batch \ {i}]]
    BY <1>9 DEF RetryRound, Moves
  <2>2. PICK c : c = [Idle EXCEPT !.at = "check", !.kind = "interval",
                                  !.id = i, !.todo = batch \ {i}]
    OBVIOUS
  <2>3. i \in batch /\ \A j \in batch : j \in Ids /\ j \in Created /\ rows[j].attempts > 0
    BY <2>1 DEF DueForRetry, Created, None
  <2>4. i \in Created /\ i \in Ids /\ batch \ {i} \subseteq Created /\ batch \ {i} \subseteq Ids
    BY <2>3
  <2>5. c \in WorkerType /\ Sound(c)
    BY <2>2, <2>3, <2>4 DEF Idle, None, WorkerType, Steps, Sound, OnRow
  <2> QED
    BY <2>1, <2>2, <2>5, <1>2
<1>10. ASSUME NEW w \in Workers, CheckDeadline(w) PROVE OneMoves(w)
  <2>1. PICK c : /\ workers' = [workers EXCEPT ![w] = c]
                 /\ c \in Finished(w) \/ c = [workers[w] EXCEPT !.at = "sign"]
    BY <1>10 DEF CheckDeadline, Moves
  <2>2. workers[w].at \in OnRow /\ workers[w].at = "check"
    BY <1>10 DEF CheckDeadline, OnRow
  <2>3. ASSUME c = [workers[w] EXCEPT !.at = "sign"] PROVE c \in WorkerType /\ Sound(c)
    BY <1>1, <2>2, <2>3 DEF WorkerType, Steps, Sound, OnRow
  <2> QED
    BY <2>1, <2>2, <2>3, <1>2, <1>4
<1>11. ASSUME NEW w \in Workers, MarkSubmitted(w) PROVE OneMoves(w)
  <2>1. PICK c : /\ workers' = [workers EXCEPT ![w] = c]
                 /\ c = [workers[w] EXCEPT !.at = "simulate"]
    BY <1>11 DEF MarkSubmitted, Moves
  <2>2. PICK old : old = workers[w]
    OBVIOUS
  <2>3. /\ old \in WorkerType /\ Sound(old) /\ old.at = "sign"
        /\ old.id \in Created
    BY <1>1, <1>11, <2>2 DEF MarkSubmitted, Sound, OnRow
  <2>4. Sound(old)'
    BY <2>3, SoundKept
  <2>5. rows'[old.id].attempts > 0
    <3>1. rows[old.id].attempts \in Nat
      BY <1>1, <2>3 DEF RowType
    <3>2. rows'[old.id].attempts = rows[old.id].attempts + 1
      BY <1>1, <1>11, <2>2, <2>3 DEF MarkSubmitted, RowType
    <3> QED
      BY <3>1, <3>2
  <2>6. c = [old EXCEPT !.at = "simulate"]
    BY <2>1, <2>2
  <2>7. Good(c)
    BY <2>3, <2>4, <2>5, <2>6 DEF WorkerType, Steps, Sound, OnRow
  <2> QED
    BY <2>1, <2>7
<1>12. ASSUME NEW w \in Workers, Submit(w) PROVE OneMoves(w)
  <2>1. PICK c : /\ workers' = [workers EXCEPT ![w] = c]
                 /\ c = [workers[w] EXCEPT !.at = "wait", !.tx = "sent"]
    BY <1>12 DEF Submit, Moves
  <2>2. workers[w].at = "simulate"
    BY <1>12 DEF Submit
  <2>3. c \in WorkerType /\ Sound(c)
    BY <1>1, <2>1, <2>2 DEF WorkerType, Steps, Sound, OnRow, None
  <2> QED
    BY <2>1, <2>3, <1>2
<1>13. ASSUME NEW w \in Workers, Receipt(w) \/ MarkFailed(w) \/ Reschedule(w) PROVE OneMoves(w)
  <2>1. workers[w].at \in OnRow
    BY <1>13 DEF Receipt, MarkFailed, Reschedule, OnRow
  <2>2. CASE \E c \in Finished(w) : workers' = [workers EXCEPT ![w] = c]
    BY <2>1, <2>2, <1>4
  <2>3. CASE workers[w].at = "mark" /\ workers' = [workers EXCEPT ![w] =
                                                   [workers[w] EXCEPT !.at = "recheck"]]
    <3>1. PICK c : c = [workers[w] EXCEPT !.at = "recheck"]
      OBVIOUS
    <3>2. c \in WorkerType /\ Sound(c)
      BY <1>1, <2>3, <3>1 DEF WorkerType, Steps, Sound, OnRow
    <3> QED
      BY <2>3, <3>1, <3>2, <1>2
  <2> QED
    BY <1>13, <2>2, <2>3 DEF Receipt, MarkFailed, Reschedule, Moves
<1>19. ASSUME NEW w \in Workers, Fails(w) PROVE OneMoves(w)
  <2>1. PICK old, a : old = workers[w] /\ a = rows[old.id].attempts
    OBVIOUS
  <2>2. PICK c : c = [old EXCEPT !.at = "mark", !.tx = None, !.saw = a]
    OBVIOUS
  <2>3. workers' = [workers EXCEPT ![w] = c] /\ old.at \in OnRow
    BY <1>19, <2>1, <2>2 DEF Fails, Moves, OnRow
  <2>4. old \in WorkerType /\ Sound(old) /\ old.id \in Created
    BY <1>1, <2>1, <2>3 DEF Sound
  <2>5. a \in Nat
    BY <1>1, <2>1, <2>4 DEF RowType
  <2>6. c \in WorkerType
    BY <2>2, <2>4, <2>5 DEF WorkerType, Steps
  <2>7. /\ c.at = "mark" /\ c.tx = None /\ c.saw = a
        /\ c.id = old.id /\ c.kind = old.kind /\ c.todo = old.todo
    BY <2>2, <2>4 DEF WorkerType
  <2>8. Sound(c)
    BY <2>1, <2>3, <2>4, <2>5, <2>7 DEF Sound, OnRow, None
  <2> QED
    BY <2>3, <2>6, <2>8, <1>2
<1>14. ASSUME NEW w \in Workers, Mine(w) PROVE OneMoves(w)
  <2>1. PICK old : old = workers[w]
    OBVIOUS
  <2>2. /\ old \in WorkerType /\ Sound(old) /\ old.tx = "sent" /\ old.at = "wait"
        /\ old.id \in Ids
    BY <1>1, <1>14, <2>1 DEF Mine, Sound, OnRow, None
  <2>3. PICK outcome \in {"executed", "reverted"} :
          /\ workers' = [workers EXCEPT ![w].tx = outcome]
          /\ outcome = "executed" => Execute(old.id)
    BY <1>14, <2>1 DEF Mine
  <2>4. PICK c : c = [old EXCEPT !.tx = outcome]
    OBVIOUS
  <2>5. workers' = [workers EXCEPT ![w] = c]
    BY <1>1, <2>1, <2>3, <2>4
  <2>6. Sound(old)'
    BY <2>2, SoundKept
  <2>7. outcome = "executed" => paid'[old.id] > 0
    <3>1. paid \in [Ids -> Nat]
      BY DEF IInv, TypeOK
    <3> QED
      BY <2>2, <2>3, <3>1 DEF Execute
  <2>8. Good(c)
    BY <2>2, <2>3, <2>4, <2>6, <2>7 DEF WorkerType, Sound, OnRow, None
  <2> QED
    BY <2>5, <2>8
<1>15. CASE UNCHANGED workers
  <2>1. ASSUME NEW w \in Workers PROVE workers'[w] \in WorkerType /\ Sound(workers[w])'
    <3>1. PICK c : c = workers[w]
      OBVIOUS
    <3>2. Good(c)
      BY <1>1, <1>2, <3>1
    <3>3. c = workers'[w]
      BY <1>15, <3>1
    <3> QED
      BY <3>2, <3>3 DEF Sound
  <2> QED
    BY <1>1, <1>15, <2>1
<1>16. CASE \E w \in Workers : OneMoves(w)
  <2>0. PICK w \in Workers : OneMoves(w)
    BY <1>16
  <2>1. PICK c : workers' = [workers EXCEPT ![w] = c] /\ Good(c)
    BY <2>0
  <2>2. ASSUME NEW v \in Workers PROVE workers'[v] \in WorkerType /\ Sound(workers[v])'
    <3>1. PICK d : d = workers[v]
      OBVIOUS
    <3>2. Good(d)
      BY <1>1, <1>2, <3>1
    <3>3. workers'[v] = IF v = w THEN c ELSE d
      BY <1>1, <2>1, <3>1
    <3> QED
      BY <2>1, <3>2, <3>3 DEF Sound
  <2> QED
    BY <1>1, <2>1, <2>2
<1>17. CASE Restart
  <2>1. workers' = [w \in Workers |-> Idle]
    BY <1>17 DEF Restart
  <2> QED
    BY <2>1 DEF Idle, None, WorkerType, Steps, Sound, OnRow
<1>18. UNCHANGED workers \/ Restart \/ \E w \in Workers : OneMoves(w)
  <2>1. ASSUME NEW w \in Workers, Work(w) PROVE OneMoves(w)
    BY <2>1, <1>6, <1>7, <1>10, <1>11, <1>12, <1>13, <1>19 DEF Work
  <2>2. ASSUME NEW i \in Ids, MineUnwatched(i) \/ DeadlinePasses(i) PROVE UNCHANGED workers
    BY <2>2 DEF MineUnwatched, DeadlinePasses
  <2>3. ASSUME NEW p \in Payers, ForeignPayment(p) PROVE UNCHANGED workers
    BY <2>3 DEF ForeignPayment
  <2> HIDE DEF OneMoves
  <2> QED
    BY <2>1, <2>2, <2>3, <1>5, <1>8, <1>9, <1>14 DEF Next, vars
<1> QED
    BY <1>15, <1>16, <1>17, <1>18

LEMMA TypeStep ==
    ASSUME IInv, [Next]_vars
    PROVE  TypeOK' /\ IsFiniteSet(used)' /\ RowsSound'
<1>1. rows' \in [Ids -> RowType] /\ paid' \in [Ids -> Nat]
    BY StepKeeps
<1>2. workers' \in [Workers -> WorkerType]
    BY CallbacksStep
<1>3. /\ \A w \in Workers : workers[w].at \in OnRow => workers[w].id \in Created
      /\ \A w \in Workers : workers[w].tx = "sent" => workers[w].id \in Created
      /\ workers \in [Workers -> WorkerType]
      /\ pool \subseteq Created
      /\ Created \subseteq Ids
      /\ timers \subseteq Ids
      /\ used \subseteq Payers \X Nat
      /\ IsFiniteSet(used)
      /\ late \subseteq Ids
      /\ restarts \in Nat
      /\ \A i \in Created : rows[i] \in RowType /\ rows[i].payer \in Payers
    BY DEF IInv, TypeOK, WorkersSound, Sound, OnRow, None, RowsSound, WorkerType, Created, RowType
<1>4. pool' \subseteq Created
  <2>1. \A w \in Workers : Fails(w) => pool' \subseteq Created
    BY <1>3 DEF Fails, OnRow
  <2>2. Restart => pool' \subseteq Created
    BY <1>3 DEF Restart
  <2>3. \A i \in Ids : MineUnwatched(i) => pool' \subseteq Created
    BY <1>3 DEF MineUnwatched
  <2> QED
    BY <1>3, <2>1, <2>2, <2>3 DEF Next, vars, Work, Request, FireTimer, RetryRound, Reserve,
       ReserveFails, CheckDeadline, MarkSubmitted, Submit, Receipt, MarkFailed, Reschedule, Mine,
       DeadlinePasses, ForeignPayment, chain
<1>5. RowsSound'
  <2>1. Created \subseteq Created' /\ \A i \in Created' : rows'[i].payer \in Payers
    BY StepKeeps
  <2> QED
    BY <1>4, <2>1 DEF RowsSound
<1>6. used' \subseteq Payers \X Nat /\ IsFiniteSet(used)'
  <2>1. UNCHANGED used \/ \E x \in Payers \X Nat : used' = used \cup {x}
    <3>1. ASSUME NEW i \in Created, Execute(i) PROVE \E x \in Payers \X Nat : used' = used \cup {x}
      BY <1>3, <3>1 DEF Execute, RowType
    <3>2. ASSUME NEW w \in Workers, Mine(w)
          PROVE  UNCHANGED used \/ \E x \in Payers \X Nat : used' = used \cup {x}
      BY <1>3, <3>1, <3>2 DEF Mine, Revert
    <3>3. ASSUME NEW i \in Ids, MineUnwatched(i)
          PROVE  UNCHANGED used \/ \E x \in Payers \X Nat : used' = used \cup {x}
      BY <1>3, <3>1, <3>3 DEF MineUnwatched, Revert
    <3>4. ASSUME NEW p \in Payers, ForeignPayment(p)
          PROVE  \E x \in Payers \X Nat : used' = used \cup {x}
      <4>1. PICK n \in 1 .. Cardinality(Ids) : used' = used \cup {<<p, n>>}
        BY <3>4 DEF ForeignPayment
      <4>2. n \in Nat
        BY <4>1, OracleAssumption, FS_CardinalityType
      <4> QED
        BY <4>1, <4>2
    <3> QED
      BY <3>2, <3>3, <3>4 DEF Next, vars, Work, Request, FireTimer, RetryRound, Reserve,
         ReserveFails, CheckDeadline, MarkSubmitted, Submit, Receipt, Fails, MarkFailed,
         Reschedule, DeadlinePasses, Restart, chain
  <2> QED
    BY <1>3, <2>1, FS_AddElement
<1>7. timers' \subseteq Ids
  <2>1. ASSUME NEW w \in Workers, MarkFailed(w) \/ Reschedule(w) PROVE timers' \subseteq Ids
    BY <1>3, <2>1 DEF MarkFailed, Reschedule, OnRow
  <2>2. ASSUME NEW w \in Workers, NEW i \in Ids, FireTimer(w, i) PROVE timers' \subseteq Ids
    BY <1>3, <2>2 DEF FireTimer
  <2>3. Restart => timers' \subseteq Ids
    BY DEF Restart
  <2> QED
    BY <1>3, <2>1, <2>2, <2>3 DEF Next, vars, Work, Request, RetryRound, Reserve, ReserveFails,
       CheckDeadline, MarkSubmitted, Submit, Receipt, Fails, Mine, MineUnwatched,
       DeadlinePasses, ForeignPayment, chain
<1>8. late' \subseteq Ids /\ restarts' \in Nat
  <2>1. \A i \in Ids : DeadlinePasses(i) => late' \subseteq Ids /\ UNCHANGED restarts
    BY <1>3 DEF DeadlinePasses
  <2>2. Restart => UNCHANGED late /\ restarts' = restarts + 1
    BY DEF Restart
  <2>3. UNCHANGED <<late, restarts>> \/ Restart \/ \E i \in Ids : DeadlinePasses(i)
    BY DEF Next, vars, Work, Request, FireTimer, RetryRound, Reserve, ReserveFails,
       CheckDeadline, MarkSubmitted, Submit, Receipt, Fails, MarkFailed, Reschedule, Mine,
       MineUnwatched, ForeignPayment, chain
  <2> QED
    BY <1>3, <2>1, <2>2, <2>3
<1>9. pool' \subseteq Ids
    BY <1>3, <1>4
<1> QED
    BY <1>1, <1>2, <1>5, <1>6, <1>7, <1>8, <1>9 DEF TypeOK, RowType, WorkerType

(* The router has used the nonce of every row it paid, so it pays none again    *)
LEMMA PaidStep ==
    ASSUME IInv, [Next]_vars
    PROVE  PaidSound'
<1>1. /\ paid \in [Ids -> Nat]
      /\ Created \subseteq Ids
      /\ PaidSound
      /\ \A w \in Workers : workers[w].tx = "sent" => workers[w].id \in Created
      /\ pool \subseteq Created
    BY DEF IInv, TypeOK, WorkersSound, Sound, OnRow, None, RowsSound, Created
<1>2. /\ \A i \in Created : /\ i \in Created'
                            /\ rows'[i].payer = rows[i].payer
                            /\ rows'[i].nonce = rows[i].nonce
      /\ used \subseteq used'
    BY StepKeeps
<1>3. CASE UNCHANGED paid
    BY <1>1, <1>2, <1>3 DEF PaidSound
<1>4. ASSUME NEW i \in Created, Execute(i) PROVE PaidSound'
  <2>1. <<rows[i].payer, rows[i].nonce>> \notin used
    BY <1>4 DEF Execute, Executable
  <2>2. paid[i] = 0
    BY <1>1, <2>1 DEF PaidSound
  <2>3. /\ paid'[i] = 1
        /\ \A j \in Ids : j # i => paid'[j] = paid[j]
    BY <1>1, <1>4, <2>2 DEF Execute
  <2>4. <<rows'[i].payer, rows'[i].nonce>> \in used'
    BY <1>2, <1>4 DEF Execute
  <2> QED
    BY <1>1, <1>2, <2>3, <2>4 DEF PaidSound
<1>5. UNCHANGED paid \/ \E i \in Created : Execute(i)
  <2>1. ASSUME NEW w \in Workers, Mine(w) PROVE UNCHANGED paid \/ Execute(workers[w].id)
    BY <2>1 DEF Mine, Revert
  <2>2. \A w \in Workers : Mine(w) => workers[w].tx = "sent"
    BY DEF Mine
  <2>3. ASSUME NEW i \in Ids, MineUnwatched(i) PROVE UNCHANGED paid \/ (i \in pool /\ Execute(i))
    BY <2>3 DEF MineUnwatched, Revert
  <2>4. UNCHANGED paid \/ (\E w \in Workers : Mine(w)) \/ \E i \in Ids : MineUnwatched(i)
    BY DEF Next, vars, Work, Request, FireTimer, RetryRound, Reserve, ReserveFails,
       CheckDeadline, MarkSubmitted, Submit, Receipt, Fails, MarkFailed, Reschedule,
       DeadlinePasses, ForeignPayment, Restart, chain
  <2> QED
    BY <1>1, <2>1, <2>2, <2>3, <2>4
<1> QED
    BY <1>3, <1>4, <1>5

(* Only a receipt of a transaction that was executed confirms a row *)
LEMMA ConfirmedStep ==
    ASSUME IInv, [Next]_vars
    PROVE  ConfirmedWasPaid'
<1>1. /\ rows \in [Ids -> RowType]
      /\ \A i \in Ids : rows[i].status = "confirmed" => paid[i] > 0
      /\ paid \in [Ids -> Nat]
    BY DEF IInv, TypeOK, RowType, ConfirmedWasPaid
<1>2. /\ paid' \in [Ids -> Nat]
      /\ \A i \in Ids : paid'[i] >= paid[i]
    BY StepKeeps
<1>3. SUFFICES ASSUME NEW j \in Ids, rows'[j].status = "confirmed" PROVE paid[j] > 0
    BY <1>1, <1>2 DEF ConfirmedWasPaid
<1>4. CASE UNCHANGED rows
    BY <1>1, <1>3, <1>4
<1>5. ASSUME NEW w \in Workers, Reserve(w) PROVE paid[j] > 0
  <2>1. PICK i \in Ids \ Created, n \in Nat :
          rows' = [rows EXCEPT ![i] = [payer |-> workers[w].payer, nonce |-> n,
                                       status |-> "pending", attempts |-> 0]]
    BY <1>5, RowCreated
  <2> QED
    BY <1>1, <1>3, <2>1
<1>6. ASSUME NEW w \in Workers, CheckDeadline(w) PROVE paid[j] > 0
    BY <1>1, <1>3, <1>6 DEF CheckDeadline, RowType
<1>7. ASSUME NEW w \in Workers, MarkSubmitted(w) PROVE paid[j] > 0
  <2> DEFINE i == workers[w].id
             r == [rows[i] EXCEPT !.status = "submitted", !.attempts = rows[i].attempts + 1]
  <2>1. i \in Ids
    BY <1>7 DEF MarkSubmitted, IInv, WorkersSound, Sound, OnRow, Created
  <2>2. rows' = [rows EXCEPT ![i] = r]
    BY <1>1, <1>7, <2>1 DEF MarkSubmitted
  <2>3. r.status = "submitted"
    BY <1>1, <2>1 DEF RowType
  <2> HIDE DEF i, r
  <2> QED
    BY <1>1, <1>3, <2>1, <2>2, <2>3
<1>8. ASSUME NEW w \in Workers, Receipt(w) PROVE paid[j] > 0
  <2>1. PICK s : /\ s = "confirmed" => workers[w].tx = "executed"
                 /\ rows' = [rows EXCEPT ![workers[w].id].status = s]
    BY <1>8 DEF Receipt, OutcomeStatus
  <2>2. workers[w].tx = "executed" => paid[workers[w].id] > 0
    BY DEF IInv, WorkersSound, Sound
  <2> QED
    BY <1>1, <1>3, <2>1, <2>2 DEF RowType
<1>9. ASSUME NEW w \in Workers, MarkFailed(w) PROVE paid[j] > 0
    BY <1>1, <1>3, <1>9 DEF MarkFailed, MarkedFailed, RowType
<1>10. UNCHANGED rows \/ \E w \in Workers : Reserve(w) \/ CheckDeadline(w) \/ MarkSubmitted(w)
                                                \/ Receipt(w) \/ MarkFailed(w)
    BY DEF Next, vars, Work, Request, FireTimer, RetryRound, ReserveFails, Submit, Mine,
           Fails, Reschedule, MineUnwatched, DeadlinePasses, ForeignPayment, Restart, chain
<1> QED
    BY <1>4, <1>5, <1>6, <1>7, <1>8, <1>9, <1>10

(* Without a restart an undecided row stays in somebody's hands.  A callback    *)
(* lets go of its row undecided only by a failure; after an attempt the row is  *)
(* then due for the interval, and before one it gets a timer, because only the  *)
(* request or a timer can hold a row without an attempt.                        *)
LEMMA HandsStep ==
    ASSUME IInv, [Next]_vars, TypeOK'
    PROVE  Hands'
<1>1. /\ workers \in [Workers -> WorkerType]
      /\ rows \in [Ids -> RowType]
      /\ \A i \in Ids : rows[i].attempts \in Nat
      /\ \A w \in Workers : Sound(workers[w])
      /\ Created \subseteq Ids
      /\ restarts \in Nat /\ restarts' \in Nat
      /\ Hands
    BY DEF IInv, TypeOK, WorkersSound, WorkerType, RowType, Created
<1>2. SUFFICES ASSUME restarts' = 0, NEW i \in Ids PROVE InHand(i)'
    BY DEF Hands
<1>3. ~ Restart /\ restarts = 0
  <2>1. Restart => restarts' = restarts + 1
    BY DEF Restart
  <2>2. ~ Restart
    BY <1>1, <1>2, <2>1
  <2> QED
    BY <1>2, <2>2 DEF Next, vars, Work, Request, FireTimer, RetryRound, Reserve, ReserveFails,
       CheckDeadline, MarkSubmitted, Submit, Receipt, Fails, MarkFailed, Reschedule, Mine,
       MineUnwatched, DeadlinePasses, ForeignPayment, chain
<1>4. InHand(i)
    BY <1>1, <1>3 DEF Hands
<1> DEFINE At(w, steps) == workers[w].id = i /\ workers[w].at \in steps
           StillAt(w, steps) == workers'[w].id = i /\ workers'[w].at \in steps
(* A step that writes no row and takes no timer, by a callback w that stays at  *)
(* its row or had none                                                          *)
<1>5. ASSUME UNCHANGED rows, timers \subseteq timers', NEW w \in Workers, NEW c,
             workers' = [workers EXCEPT ![w] = c],
             workers[w].at \notin OnRow \/
                (c.id = workers[w].id /\
                   \/ c.at = workers[w].at
                   \/ workers[w].at = "check" /\ c.at = "sign"
                   \/ workers[w].at = "simulate" /\ c.at = "wait"
                   \/ c.at = "mark")
      PROVE  InHand(i)'
  <2>1. \A v \in Workers : At(v, Submitting) => StillAt(v, Submitting)
    BY <1>1, <1>5 DEF OnRow, Submitting, Untried
  <2>2. \A v \in Workers : At(v, Untried) => StillAt(v, Untried)
    BY <1>1, <1>5 DEF OnRow, Submitting, Untried
  <2> QED
    BY <1>4, <1>5, <2>1, <2>2 DEF InHand
<1>6. ASSUME UNCHANGED <<rows, timers, workers>> PROVE InHand(i)'
    BY <1>4, <1>6 DEF InHand
<1>7. ASSUME NEW w \in Workers, NEW p \in Payers, Request(w, p) PROVE InHand(i)'
  <2>1. PICK c : workers' = [workers EXCEPT ![w] = c]
    BY <1>7 DEF Request, Moves
  <2>2. workers[w].at \notin OnRow /\ UNCHANGED <<rows, timers>>
    BY <1>7 DEF Request, Idle, OnRow
  <2> QED
    BY <1>5, <2>1, <2>2
<1>8. ASSUME NEW w \in Workers, Reserve(w) PROVE InHand(i)'
  <2>1. PICK j \in Ids \ Created, n \in Nat :
          /\ rows' = [rows EXCEPT ![j] = [payer |-> workers[w].payer, nonce |-> n,
                                          status |-> "pending", attempts |-> 0]]
          /\ workers' = [workers EXCEPT ![w] =
                [Idle EXCEPT !.at = "sign", !.kind = "request", !.id = j]]
    BY <1>8, RowCreated
  <2>2. workers[w].at = "reserve" /\ UNCHANGED timers
    BY <1>8 DEF Reserve
  <2>3. CASE j = i
    <3>1. StillAt(w, Untried)
      BY <1>1, <2>1, <2>3 DEF Idle, Untried
    <3>2. rows'[i].status = "pending"
      BY <1>1, <2>1, <2>3
    <3> QED
      BY <3>1, <3>2 DEF InHand
  <2>4. CASE j # i
    <3>1. \A v \in Workers : v # w => workers'[v] = workers[v]
      BY <1>1, <2>1
    <3>2. rows'[i] = rows[i]
      BY <1>1, <2>1, <2>4
    <3>3. /\ \A v \in Workers : At(v, Submitting) => StillAt(v, Submitting)
          /\ \A v \in Workers : At(v, Untried) => StillAt(v, Untried)
      BY <2>2, <3>1 DEF Submitting, Untried
    <3> QED
      BY <1>4, <2>2, <3>2, <3>3 DEF InHand
  <2> QED
    BY <2>3, <2>4
<1>9. ASSUME rows'[i] = rows[i], timers \subseteq timers', NEW w \in Workers, NEW c,
             workers' = [workers EXCEPT ![w] = c], workers[w].id # i
      PROVE  InHand(i)'
  <2>1. \A v \in Workers : v # w => workers'[v] = workers[v]
    BY <1>1, <1>9
  <2>2. \A v \in Workers : At(v, Submitting) => StillAt(v, Submitting)
    BY <1>9, <2>1
  <2>3. \A v \in Workers : At(v, Untried) => StillAt(v, Untried)
    BY <1>9, <2>1
  <2> QED
    BY <1>4, <1>9, <2>2, <2>3 DEF InHand
<1>10. ASSUME NEW w \in Workers, ReserveFails(w) \/ RetryRound(w) \/ Submit(w) \/ Mine(w)
       PROVE  InHand(i)'
  <2>1. UNCHANGED <<rows, timers>>
    BY <1>10 DEF ReserveFails, RetryRound, Submit, Mine
  <2>2. CASE ReserveFails(w) \/ RetryRound(w)
    <3>1. workers[w].at \notin OnRow
      <4>1. workers[w].at = "reserve" \/ workers[w] = Idle
        BY <2>2 DEF ReserveFails, RetryRound
      <4> QED
        BY <4>1 DEF Idle, OnRow
    <3>2. PICK c : workers' = [workers EXCEPT ![w] = c]
      <4>1. ReserveFails(w) => \E c : workers' = [workers EXCEPT ![w] = c]
        BY DEF ReserveFails, Moves
      <4>2. RetryRound(w) => \E c : workers' = [workers EXCEPT ![w] = c]
        BY DEF RetryRound, Moves
      <4> QED
        BY <2>2, <4>1, <4>2
    <3> QED
      BY <1>5, <2>1, <3>1, <3>2
  <2>3. CASE Submit(w)
    <3>1. PICK c : /\ workers' = [workers EXCEPT ![w] = c]
                   /\ c = [workers[w] EXCEPT !.at = "wait", !.tx = "sent"]
                   /\ workers[w].at = "simulate"
      BY <2>3 DEF Submit, Moves
    <3>2. c.id = workers[w].id /\ c.at = "wait"
      BY <1>1, <3>1 DEF WorkerType
    <3> QED
      BY <1>5, <2>1, <3>1, <3>2
  <2>4. CASE Mine(w)
    <3>1. PICK outcome : workers' = [workers EXCEPT ![w].tx = outcome]
      BY <2>4 DEF Mine
    <3>2. PICK c : c = [workers[w] EXCEPT !.tx = outcome]
      OBVIOUS
    <3>3. workers' = [workers EXCEPT ![w] = c] /\ c.id = workers[w].id /\ c.at = workers[w].at
      BY <1>1, <3>1, <3>2 DEF WorkerType
    <3> QED
      BY <1>5, <2>1, <3>3
  <2> QED
    BY <1>10, <2>2, <2>3, <2>4
<1>11. ASSUME NEW w \in Workers, NEW j \in Ids, FireTimer(w, j) PROVE InHand(i)'
  <2>1. /\ workers[w].at \notin OnRow /\ UNCHANGED rows /\ timers' = timers \ {j}
        /\ \A v \in Workers : v # w => workers'[v] = workers[v]
    BY <1>1, <1>11 DEF FireTimer, Moves, Idle, OnRow
  <2>2. rows[j].status = "pending" => workers'[w].id = j /\ workers'[w].at = "check"
    BY <1>1, <1>11 DEF FireTimer, Moves, Idle
  <2>3. /\ \A v \in Workers : At(v, Submitting) => StillAt(v, Submitting)
        /\ \A v \in Workers : At(v, Untried) => StillAt(v, Untried)
    BY <2>1 DEF OnRow, Submitting, Untried
  <2>4. i \in timers /\ rows[i].status = "pending" =>
           i \in timers' \/ \E v \in Workers : StillAt(v, Untried)
    BY <2>1, <2>2 DEF Untried
  <2> QED
    BY <1>4, <2>1, <2>3, <2>4 DEF InHand
<1>12. ASSUME NEW w \in Workers, CheckDeadline(w) PROVE InHand(i)'
  <2>1. PICK c : workers' = [workers EXCEPT ![w] = c]
    BY <1>12 DEF CheckDeadline, Moves
  <2>2. /\ UNCHANGED timers /\ workers[w].at = "check"
        /\ workers[w].id \in Ids
    BY <1>1, <1>12 DEF CheckDeadline, Sound, OnRow
  <2>3. CASE workers[w].id \notin late
    <3>1. UNCHANGED rows /\ workers' = [workers EXCEPT ![w] = [workers[w] EXCEPT !.at = "sign"]]
      BY <1>12, <2>3 DEF CheckDeadline, Moves
    <3>2. PICK d : d = [workers[w] EXCEPT !.at = "sign"]
      OBVIOUS
    <3>3. d.id = workers[w].id /\ d.at = "sign"
      BY <1>1, <3>2 DEF WorkerType
    <3> QED
      BY <1>5, <2>2, <3>1, <3>2, <3>3
  <2>4. CASE workers[w].id \in late
    <3>1. rows' = [rows EXCEPT ![workers[w].id].status = "expired"]
      BY <1>12, <2>4 DEF CheckDeadline
    <3>2. CASE workers[w].id = i
      <4>1. rows'[i].status = "expired"
        BY <1>1, <3>1, <3>2 DEF RowType
      <4> QED
        BY <4>1 DEF InHand
    <3>3. CASE workers[w].id # i
      BY <1>1, <1>9, <2>1, <2>2, <3>1, <3>3
    <3> QED
      BY <3>2, <3>3
  <2> QED
    BY <2>3, <2>4
<1>13. ASSUME NEW w \in Workers, MarkSubmitted(w) PROVE InHand(i)'
  <2>1. PICK c : /\ workers' = [workers EXCEPT ![w] = c]
                 /\ c = [workers[w] EXCEPT !.at = "simulate"]
    BY <1>13 DEF MarkSubmitted, Moves
  <2>2. /\ UNCHANGED timers /\ workers[w].at = "sign"
        /\ workers[w].id \in Ids
    BY <1>1, <1>13 DEF MarkSubmitted, Sound, OnRow
  <2> DEFINE r == [rows[workers[w].id] EXCEPT !.status = "submitted",
                                              !.attempts = rows[workers[w].id].attempts + 1]
  <2>3. rows' = [rows EXCEPT ![workers[w].id] = r]
    BY <1>1, <1>13, <2>2 DEF MarkSubmitted
  <2>4. r.status = "submitted" /\ r.attempts = rows[workers[w].id].attempts + 1
    BY <1>1, <2>2 DEF RowType
  <2> HIDE DEF r
  <2>5. CASE workers[w].id = i
    <3>1. StillAt(w, Submitting)
      BY <1>1, <2>1, <2>5 DEF WorkerType, Submitting
    <3>2. rows'[i].status = "submitted" /\ rows'[i].attempts > 0
      BY <1>1, <2>2, <2>3, <2>4, <2>5
    <3> QED
      BY <3>1, <3>2 DEF InHand
  <2>6. CASE workers[w].id # i
    BY <1>1, <1>9, <2>1, <2>2, <2>3, <2>6
  <2> QED
    BY <2>5, <2>6
<1>14. ASSUME NEW w \in Workers, Receipt(w) PROVE InHand(i)'
  <2>1. PICK c : workers' = [workers EXCEPT ![w] = c]
    BY <1>14 DEF Receipt, Moves
  <2>2. PICK s \in {"failed", "confirmed"} : rows' = [rows EXCEPT ![workers[w].id].status = s]
    BY <1>14 DEF Receipt, OutcomeStatus
  <2>3. UNCHANGED timers
    BY <1>14 DEF Receipt
  <2>4. CASE workers[w].id = i
    <3>1. rows'[i].status = s
      BY <1>1, <2>2, <2>4 DEF RowType
    <3> QED
      BY <2>2, <3>1 DEF InHand
  <2>5. CASE workers[w].id # i
    BY <1>1, <1>9, <2>1, <2>2, <2>3, <2>5
  <2> QED
    BY <2>4, <2>5
<1>15. ASSUME NEW w \in Workers, Fails(w) PROVE InHand(i)'
  <2>1. PICK a, c : /\ c = [workers[w] EXCEPT !.at = "mark", !.tx = None, !.saw = a]
                    /\ workers' = [workers EXCEPT ![w] = c]
    BY <1>15 DEF Fails, Moves
  <2>2. c.id = workers[w].id /\ c.at = "mark"
    BY <1>1, <2>1 DEF WorkerType
  <2>3. UNCHANGED <<rows, timers>>
    BY <1>15 DEF Fails
  <2> QED
    BY <1>5, <2>1, <2>2, <2>3
<1>17. ASSUME NEW w \in Workers, MarkFailed(w) PROVE InHand(i)'
  <2>1. PICK c : workers' = [workers EXCEPT ![w] = c]
    BY <1>17 DEF MarkFailed, Moves
  <2>2. /\ workers[w].at = "mark"
        /\ rows' = [rows EXCEPT ![workers[w].id] = MarkedFailed(workers[w].id, workers[w].saw)]
        /\ timers \subseteq timers'
    BY <1>17 DEF MarkFailed
  <2>3. CASE workers[w].id = i
    <3>1. PICK s \in {"failed", "pending"} :
            /\ rows'[i] = [rows[i] EXCEPT !.status = s]
            /\ ~ GivenUp(workers[w].saw) => s = "pending"
      BY <1>1, <2>2, <2>3 DEF MarkedFailed
    <3>2. rows'[i].status = s /\ rows'[i].attempts = rows[i].attempts
      BY <1>1, <3>1 DEF RowType
    <3>3. ASSUME rows[i].attempts = 0
          PROVE  i \in timers' \/ StillAt(w, Untried)
      <4>1. workers[w].kind \in {"request", "timer"}
        <5>1. Sound(workers[w])
          BY <1>1
        <5>2. workers[w].kind \in {None, "request", "timer", "interval"}
          BY <1>1 DEF WorkerType
        <5> QED
          BY <2>2, <2>3, <3>3, <5>1, <5>2 DEF Sound, OnRow
      <4>2. CASE workers[w].kind = "request"
        BY <1>17, <2>3, <4>2 DEF MarkFailed
      <4>3. CASE workers[w].kind = "timer"
        <5>1. PICK d : /\ d = [workers[w] EXCEPT !.at = "recheck"]
                       /\ workers' = [workers EXCEPT ![w] = d]
          BY <1>17, <4>3 DEF MarkFailed, Moves
        <5>2. d.id = i /\ d.at = "recheck"
          BY <1>1, <2>3, <5>1 DEF WorkerType
        <5> QED
          BY <1>1, <5>1, <5>2 DEF Untried
      <4> QED
        BY <4>1, <4>2, <4>3
    <3> QED
      BY <3>1, <3>2, <3>3 DEF InHand
  <2>4. CASE workers[w].id # i
    BY <1>1, <1>9, <2>1, <2>2, <2>4
  <2> QED
    BY <2>3, <2>4
<1>18. ASSUME NEW w \in Workers, Reschedule(w) PROVE InHand(i)'
  <2>1. PICK c : workers' = [workers EXCEPT ![w] = c]
    BY <1>18 DEF Reschedule, Moves
  <2>2. workers[w].at = "recheck" /\ UNCHANGED rows /\ timers \subseteq timers'
    BY <1>18 DEF Reschedule
  <2>3. CASE workers[w].id = i
    <3>1. \A v \in Workers : At(v, Submitting) => StillAt(v, Submitting)
      BY <1>1, <2>1, <2>2 DEF Submitting
    <3>2. rows[i].status = "pending" /\ rows[i].attempts = 0 => i \in timers'
      BY <1>18, <2>3, OracleAssumption DEF Reschedule
    <3> QED
      BY <1>4, <2>2, <3>1, <3>2 DEF InHand
  <2>4. CASE workers[w].id # i
    BY <1>1, <1>9, <2>1, <2>2, <2>4
  <2> QED
    BY <2>3, <2>4
<1>16. (\E w \in Workers : \/ \E p \in Payers : Request(w, p)
                           \/ \E j \in Ids : FireTimer(w, j)
                           \/ RetryRound(w) \/ Work(w) \/ Mine(w))
         \/ UNCHANGED <<rows, timers, workers>>
    BY <1>3 DEF Next, vars, MineUnwatched, DeadlinePasses, ForeignPayment
<1> QED
    BY <1>6, <1>7, <1>8, <1>10, <1>11, <1>12, <1>13, <1>14, <1>15, <1>16, <1>17, <1>18 DEF Work

-----------------------------------------------------------------------------
(* No step breaks IInv: requests, callbacks, the sweep, failures, restarts. *)
THEOREM StepIInv == IInv /\ [Next]_vars => IInv'
    BY CallbacksStep, TypeStep, PaidStep, ConfirmedStep, HandsStep DEF IInv, WorkersSound

(* IInv holds in every reachable state. *)
THEOREM InvariantHolds == Spec => []IInv
    BY InitIInv, StepIInv, PTL DEF Spec

(* Every field keeps its type, whatever the bounds and the order of callbacks.  *)
THEOREM TypeCorrect == Spec => []TypeOK
<1>1. IInv => TypeOK
    BY DEF IInv
<1> QED
    BY <1>1, InvariantHolds, PTL

(* The router executes a payment once, for any number of payers, rows, callbacks *)
(* at a time, attempts, failures and restarts.                                  *)
THEOREM PaidOnce == Spec => []PaidAtMostOnce
<1>1. IInv => PaidAtMostOnce
  <2>1. IInv => PaidSound /\ \A i \in Ids : paid[i] \in Nat
    BY DEF IInv, TypeOK
  <2>2. PaidSound => \A i \in Ids : paid[i] > 0 => paid[i] = 1
    BY DEF PaidSound
  <2>3. ASSUME IInv, NEW i \in Ids PROVE paid[i] <= 1
    BY <2>1, <2>2, <2>3
  <2> QED
    BY <2>3 DEF PaidAtMostOnce
<1> QED
    BY <1>1, InvariantHolds, PTL

(* A row says confirmed only if the router executed its payment.                *)
THEOREM ConfirmedCorrect == Spec => []ConfirmedWasPaid
<1>1. IInv => ConfirmedWasPaid
    BY DEF IInv
<1> QED
    BY <1>1, InvariantHolds, PTL

(* An undecided payment leaves everybody's hands only by a restart.             *)
THEOREM NothingIsStranded == Spec => []OnlyRestartStrands
<1>1. ASSUME IInv PROVE OnlyRestartStrands
  <2>0. restarts \in Nat
    BY <1>1 DEF IInv, TypeOK
  <2>1. SUFFICES ASSUME NEW i \in Ids, Stranded(i), restarts = 0 PROVE FALSE
    BY <2>0 DEF OnlyRestartStrands
  <2>2. InHand(i)
    BY <1>1, <2>1 DEF IInv, Hands
  <2>3. rows[i].attempts \in Nat
    BY <1>1 DEF IInv, TypeOK
  <2> QED
    BY <2>1, <2>2, <2>3 DEF Stranded, InHand, Held, DueForRetry
<1> QED
    BY <1>1, InvariantHolds, PTL

-----------------------------------------------------------------------------
(* Attempts.  Once a row has MAX_ATTEMPTS, only a callback that read fewer and   *)
(* has not yet written (Behind) can set it back to pending, and no callback     *)
(* falls behind any more.  While the row is pending each callback may start on  *)
(* it, and those that did (Counting) add one attempt each.  So Potential never  *)
(* grows: a write by one behind opens the row to all W callbacks at most.       *)
Counts(c, i) == (c.id = i /\ c.at \in {"check", "sign"}) \/ i \in c.todo

Counting(i) == {w \in Workers : Counts(workers[w], i)}

IsBehind(c, i) == c.id = i /\ c.at = "mark" /\ ~ GivenUp(c.saw)

Behind(i) == {w \in Workers : IsBehind(workers[w], i)}

Open(i) == IF rows[i].status = "pending" THEN Cardinality(Workers) ELSE Cardinality(Counting(i))

Potential(i) == rows[i].attempts + Cardinality(Workers) * Cardinality(Behind(i)) + Open(i)

Limit == MaxAttempts + Cardinality(Workers) * (Cardinality(Workers) - 1)

Bounded(i) == rows[i].attempts < MaxAttempts \/ Potential(i) <= Limit

AttemptsInv ==
    /\ \A w \in Workers : workers[w].id \notin workers[w].todo
    /\ \A i \in Ids : Bounded(i)

(* How a step may treat a row *)
NoNewcomers(i) ==
    /\ rows'[i].attempts = rows[i].attempts
    /\ Behind(i)' \subseteq Behind(i)
    /\ \/ rows[i].status = "pending"
       \/ rows'[i].status # "pending" /\ Counting(i)' \subseteq Counting(i)

OneCatchesUp(i) ==
    /\ rows'[i].attempts = rows[i].attempts
    /\ \E w \in Behind(i) : Behind(i)' \subseteq Behind(i) \ {w}

OneCounts(i) ==
    /\ rows'[i].attempts = rows[i].attempts + 1
    /\ rows'[i].status # "pending"
    /\ Behind(i)' \subseteq Behind(i)
    /\ Behind(i)' \cap Counting(i)' = {}
    /\ \E w \in Counting(i) : /\ Counting(i)' \subseteq Counting(i) \ {w}
                              /\ w \notin Behind(i)'

LEMMA BoundedStays ==
    ASSUME IsFiniteSet(Workers), NEW i \in Ids, Bounded(i),
           rows[i].attempts \in Nat, rows'[i].attempts \in Nat,
           \/ rows'[i].attempts < MaxAttempts
           \/ NoNewcomers(i)
           \/ OneCatchesUp(i)
           \/ OneCounts(i)
    PROVE  Bounded(i)'
<1>1. PICK W, a, b, B, C, D, E :
        /\ W = Cardinality(Workers) /\ a = rows[i].attempts /\ b = rows'[i].attempts
        /\ B = Behind(i) /\ C = Behind(i)' /\ D = Counting(i) /\ E = Counting(i)'
    OBVIOUS
<1>2. /\ B \in SUBSET Workers /\ C \in SUBSET Workers
      /\ D \in SUBSET Workers /\ E \in SUBSET Workers
      /\ a \in Nat /\ b \in Nat /\ MaxAttempts \in Nat /\ W \in Nat
    BY <1>1, OracleAssumption, FS_CardinalityType DEF Counting, Behind
<1>3. /\ IsFiniteSet(B) /\ IsFiniteSet(C) /\ IsFiniteSet(D) /\ IsFiniteSet(E)
      /\ Cardinality(B) \in Nat /\ Cardinality(C) \in Nat
      /\ Cardinality(D) \in Nat /\ Cardinality(E) \in Nat
      /\ Cardinality(D) <= W /\ Cardinality(E) <= W
    BY <1>1, <1>2, FS_Subset, FS_CardinalityType
<1>4. PICK m, n, d, e, open, next :
        /\ m = Cardinality(B) /\ n = Cardinality(C) /\ d = Cardinality(D) /\ e = Cardinality(E)
        /\ open = Open(i) /\ next = Open(i)'
    OBVIOUS
<1>5. /\ m \in Nat /\ n \in Nat /\ d \in Nat /\ e \in Nat /\ d <= W /\ e <= W
      /\ open \in Nat /\ next \in Nat /\ next <= W
      /\ open = IF rows[i].status = "pending" THEN W ELSE d
      /\ next = IF rows'[i].status = "pending" THEN W ELSE e
    BY <1>1, <1>2, <1>3, <1>4 DEF Open
<1>6. a < MaxAttempts \/ a + W * m + open <= MaxAttempts + W * (W - 1)
    BY <1>1, <1>4 DEF Bounded, Potential, Limit
<1>7. ASSUME b < MaxAttempts \/ b + W * n + next <= MaxAttempts + W * (W - 1) PROVE Bounded(i)'
    BY <1>1, <1>4, <1>7 DEF Bounded, Potential, Limit
<1>8. W * m \in Nat /\ W * n \in Nat /\ W * (W - 1) \in Int
    BY <1>2, <1>5
<1>9. C \subseteq B => W * n <= W * m
  <2>1. C \subseteq B => n <= m
    BY <1>3, <1>4, FS_Subset
  <2> QED
    BY <1>2, <1>5, <2>1, SMTT(30)
<1>10. CASE b < MaxAttempts
    BY <1>7, <1>10
<1>11. CASE NoNewcomers(i)
  <2>1. b = a /\ C \subseteq B
    BY <1>1, <1>11 DEF NoNewcomers
  <2>2. next <= open
    <3>1. CASE rows[i].status = "pending"
      BY <1>5, <3>1
    <3>2. CASE rows[i].status # "pending"
      <4>1. rows'[i].status # "pending" /\ E \subseteq D
        BY <1>1, <1>11, <3>2 DEF NoNewcomers
      <4>2. e <= d
        BY <1>3, <1>4, <4>1, FS_Subset
      <4> QED
        BY <1>5, <3>2, <4>1, <4>2
    <3> QED
      BY <3>1, <3>2
  <2>3. W * n <= W * m
    BY <1>9, <2>1
  <2>4. PICK x, y, z : x = W * m /\ y = W * n /\ z = W * (W - 1)
    OBVIOUS
  <2>5. x \in Nat /\ y \in Nat /\ z \in Int
    BY <1>8, <2>4
  <2>6. a < MaxAttempts \/ a + x + open <= MaxAttempts + z
    BY <1>6, <2>4
  <2>7. b < MaxAttempts \/ b + y + next <= MaxAttempts + z
    BY <1>2, <1>5, <2>1, <2>2, <2>3, <2>4, <2>5, <2>6
  <2> QED
    BY <1>7, <2>4, <2>7
<1>12. CASE OneCatchesUp(i)
  <2>1. PICK w \in B : b = a /\ C \subseteq B \ {w}
    BY <1>1, <1>12 DEF OneCatchesUp
  <2>2. IsFiniteSet(B \ {w}) /\ Cardinality(B \ {w}) = m - 1
    BY <1>3, <1>4, FS_RemoveElement
  <2>3. n <= m - 1
    BY <1>4, <2>1, <2>2, FS_Subset
  <2>4. W * n + W <= W * m
    <3>1. PICK k \in Nat : m = n + 1 + k
      BY <1>5, <2>3
    <3>2. W * m = W * n + W + W * k /\ W * k \in Nat
      BY <1>2, <1>5, <3>1, SMTT(30)
    <3> QED
      BY <1>2, <1>8, <3>2
  <2>5. PICK x, y, z : x = W * m /\ y = W * n /\ z = W * (W - 1)
    OBVIOUS
  <2>6. x \in Nat /\ y \in Nat /\ z \in Int
    BY <1>8, <2>5
  <2>7. a < MaxAttempts \/ a + x + open <= MaxAttempts + z
    BY <1>6, <2>5
  <2>8. y + W <= x
    BY <2>4, <2>5
  <2>9. b < MaxAttempts \/ b + y + next <= MaxAttempts + z
    BY <1>2, <1>5, <2>1, <2>6, <2>7, <2>8
  <2> QED
    BY <1>7, <2>5, <2>9
<1>13. CASE OneCounts(i)
  <2>1. PICK w \in D : /\ b = a + 1 /\ C \subseteq B /\ C \cap E = {}
                       /\ E \subseteq D \ {w} /\ w \notin C
                       /\ rows'[i].status # "pending"
    BY <1>1, <1>13 DEF OneCounts
  <2>2. e <= d - 1
    <3>1. IsFiniteSet(D \ {w}) /\ Cardinality(D \ {w}) = d - 1
      BY <1>3, <1>4, FS_RemoveElement
    <3> QED
      BY <1>4, <2>1, <3>1, FS_Subset
  <2>3. next = e
    BY <1>5, <2>1
  <2>4. PICK x, y, z : x = W * m /\ y = W * n /\ z = W * (W - 1)
    OBVIOUS
  <2>5. x \in Nat /\ y \in Nat /\ z \in Int
    BY <1>8, <2>4
  <2>6. CASE a < MaxAttempts
    <3>1. n + e <= W - 1
      <4>1. C \cup E \subseteq Workers \ {w}
        BY <1>2, <2>1
      <4>2. w \in Workers
        BY <1>2, <2>1
      <4>3. IsFiniteSet(Workers \ {w}) /\ Cardinality(Workers \ {w}) = W - 1
        BY <1>1, <4>2, FS_RemoveElement
      <4>4. Cardinality(C \cup E) <= W - 1
        BY <4>1, <4>3, FS_Subset
      <4>5. Cardinality(C \cup E) = n + e - Cardinality(C \cap E)
        BY <1>3, <1>4, FS_Union
      <4>6. Cardinality(C \cap E) = 0
        BY <2>1, FS_EmptySet
      <4> QED
        BY <1>5, <4>4, <4>5, <4>6
    <3>2. y + e <= z
      <4>1. PICK k \in Nat : W - 1 = n + e + k
        BY <1>2, <1>5, <3>1
      <4>2. W \in Nat /\ W >= 1
        BY <1>2, <1>5, <3>1
      <4>3. z = y + W * e + W * k /\ W * k \in Nat /\ W * e >= e
        BY <1>5, <2>4, <4>1, <4>2, SMTT(30)
      <4>4. W * e \in Nat
        BY <1>2, <1>5
      <4> QED
        BY <1>5, <2>5, <4>3, <4>4
    <3> QED
      BY <1>2, <1>5, <1>7, <2>1, <2>3, <2>4, <2>5, <2>6, <3>2
  <2>7. CASE ~ (a < MaxAttempts)
    <3>1. y <= x
      BY <1>9, <2>1, <2>4
    <3>2. a + x + open <= MaxAttempts + z /\ open >= d
      BY <1>5, <1>6, <2>4, <2>7
    <3>3. b + y + next <= MaxAttempts + z
      BY <1>2, <1>5, <2>1, <2>2, <2>3, <2>5, <3>1, <3>2
    <3> QED
      BY <1>7, <2>4, <3>3
  <2> QED
    BY <2>6, <2>7
<1> QED
    BY <1>1, <1>10, <1>11, <1>12, <1>13

(* One callback moves: who counts for a row, and who is behind, after that *)
LEMMA CallbackMoves ==
    ASSUME IInv, NEW w \in Workers, NEW c, workers' = [workers EXCEPT ![w] = c], NEW i \in Ids
    PROVE  /\ (Counts(c, i) => Counts(workers[w], i)) => Counting(i)' \subseteq Counting(i)
           /\ ~ Counts(c, i) => Counting(i)' \subseteq Counting(i) \ {w}
           /\ ~ IsBehind(c, i) => Behind(i)' \subseteq Behind(i) \ {w}
           /\ w \in Behind(i)' => IsBehind(c, i)
<1>1. DOMAIN workers = Workers
    BY DEF IInv, TypeOK
<1>2. workers'[w] = c /\ \A v \in Workers : v # w => workers'[v] = workers[v]
    BY <1>1
<1> QED
    BY <1>2 DEF Counting, Counts, Behind, IsBehind, GivenUp

LEMMA FinishedCounts ==
    ASSUME IInv, AttemptsInv, NEW w \in Workers, workers[w].at \in OnRow, NEW c \in Finished(w)
    PROVE  /\ c.id \notin c.todo
           /\ c.at # "mark"
           /\ \A i \in Ids : Counts(c, i) => i \in workers[w].todo
<1> DEFINE old == workers[w]
<1>1. old \in WorkerType
    BY DEF IInv, TypeOK, WorkerType
<1>2. CASE old.todo = {}
  <2>1. c = Idle
    BY <1>2 DEF Finished
  <2> QED
    BY <2>1 DEF Idle, None, Counts
<1>3. CASE old.todo # {}
  <2>1. PICK i \in old.todo :
          c = [Idle EXCEPT !.at = "check", !.kind = old.kind, !.id = i,
                            !.todo = old.todo \ {i}]
    BY <1>3 DEF Finished
  <2>2. c.id = i /\ c.todo = old.todo \ {i} /\ c.at = "check"
    BY <1>1, <2>1 DEF Idle, WorkerType
  <2> QED
    BY <2>1, <2>2 DEF Counts
<1> QED
    BY <1>2, <1>3

LEMMA StepAttempts ==
    ASSUME IsFiniteSet(Workers), IInv, AttemptsInv, [Next]_vars
    PROVE  AttemptsInv'
<1> DEFINE Kept(i) == \/ rows'[i].attempts < MaxAttempts
                      \/ NoNewcomers(i)
                      \/ OneCatchesUp(i)
                      \/ OneCounts(i)
<1> DEFINE Own == \A w \in Workers : workers'[w].id \notin workers'[w].todo
<1>1. /\ rows \in [Ids -> RowType] /\ rows' \in [Ids -> RowType]
      /\ workers \in [Workers -> WorkerType]
      /\ \A i \in Ids : rows[i].attempts \in Nat /\ rows'[i].attempts \in Nat
      /\ MaxAttempts \in Nat \ {0}
    BY StepKeeps, OracleAssumption DEF IInv, TypeOK, RowType, WorkerType
<1>2. /\ \A w \in Workers : workers[w].id \notin workers[w].todo
      /\ \A i \in Ids : Bounded(i)
    BY DEF AttemptsInv
<1>3. ASSUME Own, \A i \in Ids : Kept(i) PROVE AttemptsInv'
  <2>1. \A i \in Ids : Bounded(i)'
    BY <1>1, <1>2, <1>3, BoundedStays
  <2> QED
    BY <1>3, <2>1 DEF AttemptsInv
<1>4. ASSUME NEW w \in Workers, NEW c, workers' = [workers EXCEPT ![w] = c], c.id \notin c.todo
      PROVE  Own
    BY <1>1, <1>2, <1>4
<1>5. CASE UNCHANGED <<rows, workers>>
  <2>1. \A i \in Ids : Counting(i)' = Counting(i) /\ Behind(i)' = Behind(i)
    BY <1>5 DEF Counting, Behind
  <2> QED
    BY <1>2, <1>3, <1>5, <2>1 DEF NoNewcomers
(* A callback moves, and one that comes to a row that has its attempts found    *)
(* it pending                                                                   *)
<1>6. ASSUME NEW w \in Workers, NEW c, workers' = [workers EXCEPT ![w] = c], UNCHANGED rows,
             c.id \notin c.todo,
             \A i \in Ids : IsBehind(c, i) => rows[i].attempts < MaxAttempts,
             \A i \in Ids : Counts(c, i) => Counts(workers[w], i) \/ rows[i].status = "pending"
      PROVE  AttemptsInv'
  <2>1. Own
    BY <1>4, <1>6
  <2>2. ASSUME NEW i \in Ids PROVE Kept(i)
    <3>1. CASE rows[i].attempts < MaxAttempts
      BY <1>6, <3>1
    <3>2. CASE ~ (rows[i].attempts < MaxAttempts)
      <4>1. Behind(i)' \subseteq Behind(i)
        BY <1>6, <3>2, CallbackMoves
      <4>2. rows[i].status = "pending" \/ Counting(i)' \subseteq Counting(i)
        BY <1>6, CallbackMoves
      <4> QED
        BY <1>6, <4>1, <4>2 DEF NoNewcomers
    <3> QED
      BY <3>1, <3>2
  <2> QED
    BY <1>3, <2>1, <2>2
<1>7. ASSUME NEW w \in Workers, NEW p \in Payers, Request(w, p) PROVE AttemptsInv'
  <2>1. PICK n : workers' = [workers EXCEPT ![w] =
            [Idle EXCEPT !.at = "reserve", !.kind = "request", !.payer = p, !.nonce = n]]
    BY <1>7 DEF Request, Moves
  <2>2. PICK c : c = [Idle EXCEPT !.at = "reserve", !.kind = "request", !.payer = p, !.nonce = n]
    OBVIOUS
  <2>3. c.todo = {} /\ c.at = "reserve"
    BY <2>2 DEF Idle
  <2>4. UNCHANGED rows
    BY <1>7 DEF Request
  <2> QED
    BY <1>6, <2>1, <2>2, <2>3, <2>4 DEF Counts, IsBehind
<1>8. ASSUME NEW w \in Workers, ReserveFails(w) PROVE AttemptsInv'
  <2>1. workers' = [workers EXCEPT ![w] = Idle] /\ UNCHANGED rows
    BY <1>8 DEF ReserveFails, Moves
  <2>2. Idle.todo = {} /\ Idle.at = "idle"
    BY DEF Idle
  <2> QED
    BY <1>6, <2>1, <2>2 DEF Counts, IsBehind
<1>9. ASSUME NEW w \in Workers, Reserve(w) PROVE AttemptsInv'
  <2>1. PICK j \in Ids \ Created, n \in Nat :
          /\ rows' = [rows EXCEPT ![j] = [payer |-> workers[w].payer, nonce |-> n,
                                          status |-> "pending", attempts |-> 0]]
          /\ workers' = [workers EXCEPT ![w] =
                [Idle EXCEPT !.at = "sign", !.kind = "request", !.id = j]]
    BY <1>9, RowCreated
  <2>2. PICK c : c = [Idle EXCEPT !.at = "sign", !.kind = "request", !.id = j]
    OBVIOUS
  <2>3. c.todo = {} /\ c.id = j /\ c.at = "sign"
    BY <2>2 DEF Idle
  <2>4. Own
    BY <1>4, <2>1, <2>2, <2>3
  <2>5. ASSUME NEW i \in Ids PROVE Kept(i)
    <3>1. CASE i = j
      <4>1. rows'[i].attempts = 0
        BY <1>1, <2>1, <3>1
      <4> QED
        BY <1>1, <4>1
    <3>2. CASE i # j
      <4>1. rows'[i] = rows[i]
        BY <1>1, <2>1, <3>2
      <4>2. ~ Counts(c, i) /\ ~ IsBehind(c, i)
        BY <2>3, <3>2 DEF Counts, IsBehind
      <4>3. Counting(i)' \subseteq Counting(i) /\ Behind(i)' \subseteq Behind(i)
        BY <2>1, <2>2, <4>2, CallbackMoves
      <4> QED
        BY <4>1, <4>3 DEF NoNewcomers
    <3> QED
      BY <3>1, <3>2
  <2> QED
    BY <1>3, <2>4, <2>5
<1>10. ASSUME NEW w \in Workers, NEW j \in Ids, FireTimer(w, j) PROVE AttemptsInv'
  <2>1. CASE rows[j].status # "pending"
    BY <1>5, <1>10, <2>1 DEF FireTimer
  <2>2. CASE rows[j].status = "pending"
    <3>1. PICK c : /\ c = [Idle EXCEPT !.at = "check", !.kind = "timer", !.id = j]
                   /\ workers' = [workers EXCEPT ![w] = c]
      BY <1>10, <2>2 DEF FireTimer, Moves
    <3>2. c.todo = {} /\ c.id = j /\ c.at = "check"
      BY <3>1 DEF Idle
    <3>3. UNCHANGED rows
      BY <1>10 DEF FireTimer
    <3> QED
      BY <1>6, <2>2, <3>1, <3>2, <3>3 DEF Counts, IsBehind
  <2> QED
    BY <2>1, <2>2
<1>11. ASSUME NEW w \in Workers, RetryRound(w) PROVE AttemptsInv'
  <2>0. PICK batch \in SUBSET {i \in Ids : DueForRetry(i)} : \E j \in batch :
          workers' = [workers EXCEPT ![w] =
             [Idle EXCEPT !.at = "check", !.kind = "interval", !.id = j, !.todo = batch \ {j}]]
    BY <1>11 DEF RetryRound, Moves
  <2>1. PICK j \in batch :
          workers' = [workers EXCEPT ![w] =
             [Idle EXCEPT !.at = "check", !.kind = "interval", !.id = j, !.todo = batch \ {j}]]
    BY <2>0
  <2>2. PICK c : c = [Idle EXCEPT !.at = "check", !.kind = "interval", !.id = j,
                                  !.todo = batch \ {j}]
    OBVIOUS
  <2>3. c.id = j /\ c.todo = batch \ {j} /\ c.at = "check"
    BY <2>2 DEF Idle
  <2>4. \A i \in batch : rows[i].status = "pending"
    BY <2>0 DEF DueForRetry
  <2>5. UNCHANGED rows
    BY <1>11 DEF RetryRound
  <2>6. \A i \in Ids : ~ IsBehind(c, i) /\ (Counts(c, i) => rows[i].status = "pending")
    BY <2>1, <2>3, <2>4 DEF Counts, IsBehind
  <2>7. c.id \notin c.todo /\ workers' = [workers EXCEPT ![w] = c]
    BY <2>1, <2>2, <2>3
  <2> QED
    BY <1>6, <2>5, <2>6, <2>7
<1>12. ASSUME NEW w \in Workers, Mine(w) \/ Submit(w) PROVE AttemptsInv'
  <2>1. PICK c : /\ workers' = [workers EXCEPT ![w] = c]
                 /\ \/ \E t \in {"executed", "reverted"} : c = [workers[w] EXCEPT !.tx = t]
                    \/ c = [workers[w] EXCEPT !.at = "wait", !.tx = "sent"]
    BY <1>12 DEF Mine, Submit, Moves
  <2>2. workers[w].at # "mark"
    BY <1>12 DEF Mine, Submit, IInv, WorkersSound, Sound, None
  <2>3. /\ c.id = workers[w].id /\ c.todo = workers[w].todo
        /\ c.at \in {workers[w].at, "wait"}
    BY <1>1, <2>1 DEF WorkerType
  <2>4. UNCHANGED rows
    BY <1>12 DEF Mine, Submit
  <2> QED
    BY <1>2, <1>6, <2>1, <2>2, <2>3, <2>4 DEF Counts, IsBehind
<1>13. ASSUME NEW w \in Workers, MarkSubmitted(w) PROVE AttemptsInv'
  <2>1. PICK j, c : /\ j = workers[w].id /\ c = [workers[w] EXCEPT !.at = "simulate"]
                    /\ workers' = [workers EXCEPT ![w] = c]
    BY <1>13 DEF MarkSubmitted, Moves
  <2>2. c.id = j /\ c.todo = workers[w].todo /\ c.at = "simulate" /\ workers[w].at = "sign"
    BY <1>1, <1>13, <2>1 DEF WorkerType, MarkSubmitted
  <2>3. j \in Ids
    BY <1>13, <2>1, RowWritten DEF Created
  <2>4. Own
    BY <1>2, <1>4, <2>1, <2>2
  <2>5. PICK a : a = rows[j].attempts + 1
    OBVIOUS
  <2>6. rows' = [rows EXCEPT ![j] = [rows[j] EXCEPT !.status = "submitted", !.attempts = a]]
    BY <1>1, <1>13, <2>1, <2>3, <2>5 DEF MarkSubmitted
  <2>7. ASSUME NEW i \in Ids PROVE Kept(i)
    <3>0. ~ IsBehind(c, i)
      BY <2>2 DEF IsBehind
    <3>1. Behind(i)' \subseteq Behind(i) /\ w \notin Behind(i)'
      BY <2>1, <3>0, CallbackMoves
    <3>2. CASE i = j
      <4>1. PICK r : r = [rows[j] EXCEPT !.status = "submitted", !.attempts = a]
        OBVIOUS
      <4>2. r.status = "submitted" /\ r.attempts = a
        BY <1>1, <2>3, <4>1 DEF RowType
      <4>3. rows'[i] = r
        BY <1>1, <2>3, <2>6, <3>2, <4>1
      <4>4. ~ Counts(c, i) /\ Counts(workers[w], i)
        BY <1>2, <2>1, <2>2, <3>2 DEF Counts
      <4>5. w \in Counting(i) /\ Counting(i)' \subseteq Counting(i) \ {w}
        BY <2>1, <4>4, CallbackMoves DEF Counting
      <4>6. Behind(i)' \cap Counting(i)' = {}
        BY <2>4 DEF Behind, Counting, IsBehind, Counts
      <4> QED
        BY <2>5, <3>1, <3>2, <4>2, <4>3, <4>5, <4>6 DEF OneCounts
    <3>3. CASE i # j
      <4>1. rows'[i] = rows[i]
        BY <1>1, <2>6, <3>3
      <4>2. Counting(i)' \subseteq Counting(i)
        BY <2>1, <2>2, CallbackMoves DEF Counts
      <4> QED
        BY <3>1, <4>1, <4>2 DEF NoNewcomers
    <3> QED
      BY <3>2, <3>3
  <2> QED
    BY <1>3, <2>4, <2>7
<1>14. ASSUME NEW w \in Workers, CheckDeadline(w) \/ Receipt(w) \/ MarkFailed(w) PROVE AttemptsInv'
  <2>1. PICK j, c : /\ j = workers[w].id /\ workers' = [workers EXCEPT ![w] = c]
                    /\ \/ c \in Finished(w)
                       \/ workers[w].at = "check" /\ c = [workers[w] EXCEPT !.at = "sign"]
                       \/ c = [workers[w] EXCEPT !.at = "recheck"]
    BY <1>14 DEF CheckDeadline, Receipt, MarkFailed, Moves
  <2>2. j \in Ids /\ \A i \in Ids : i # j => rows'[i] = rows[i]
    BY <1>14, <2>1, RowWritten DEF Created
  <2>3. workers[w].at \in OnRow
    BY <1>14 DEF CheckDeadline, Receipt, MarkFailed, OnRow
  <2>4. /\ c.id \notin c.todo
        /\ c.at # "mark"
        /\ \A i \in Ids : Counts(c, i) => Counts(workers[w], i)
    <3>1. CASE c \in Finished(w)
      BY <2>3, <3>1, FinishedCounts DEF Counts
    <3>2. CASE workers[w].at = "check" /\ c = [workers[w] EXCEPT !.at = "sign"]
      <4>1. c.id = workers[w].id /\ c.todo = workers[w].todo /\ c.at = "sign"
        BY <1>1, <3>2 DEF WorkerType
      <4> QED
        BY <1>2, <3>2, <4>1 DEF Counts
    <3>3. CASE c = [workers[w] EXCEPT !.at = "recheck"]
      <4>1. c.id = workers[w].id /\ c.todo = workers[w].todo /\ c.at = "recheck"
        BY <1>1, <3>3 DEF WorkerType
      <4> QED
        BY <1>2, <4>1 DEF Counts
    <3> QED
      BY <2>1, <3>1, <3>2, <3>3
  <2>5. Own
    BY <1>4, <2>1, <2>4
  <2>6. \A i \in Ids : /\ Counting(i)' \subseteq Counting(i)
                       /\ Behind(i)' \subseteq Behind(i) \ {w}
    BY <2>1, <2>4, CallbackMoves DEF IsBehind
  <2>7. /\ rows'[j].attempts = rows[j].attempts
        /\ \/ rows'[j].status = "pending" => rows[j].status = "pending"
           \/ w \in Behind(j)
    <3>1. CASE CheckDeadline(w)
      <4>1. rows' = [rows EXCEPT ![j].status = "expired"] \/ rows' = rows
        BY <2>1, <3>1 DEF CheckDeadline
      <4> QED
        BY <1>1, <2>2, <4>1 DEF RowType
    <3>2. CASE Receipt(w)
      <4>1. PICK s \in {"failed", "confirmed"} : rows' = [rows EXCEPT ![j].status = s]
        BY <2>1, <3>2 DEF Receipt, OutcomeStatus
      <4> QED
        BY <1>1, <2>2, <4>1 DEF RowType
    <3>3. CASE MarkFailed(w)
      <4>1. PICK s \in {"failed", "pending"} :
              /\ rows' = [rows EXCEPT ![j] = [rows[j] EXCEPT !.status = s]]
              /\ s = "pending" => ~ GivenUp(workers[w].saw)
        <5>1. rows' = [rows EXCEPT ![j] = MarkedFailed(j, workers[w].saw)]
          BY <2>1, <3>3 DEF MarkFailed
        <5>2. CASE GivenUp(workers[w].saw)
          BY <5>1, <5>2 DEF MarkedFailed
        <5>3. CASE ~ GivenUp(workers[w].saw)
          BY <5>1, <5>3 DEF MarkedFailed
        <5> QED
          BY <5>2, <5>3
      <4>2. rows'[j] = [rows[j] EXCEPT !.status = s] /\ rows[j] \in RowType
        BY <1>1, <2>2, <4>1
      <4>3. rows'[j].status = s /\ rows'[j].attempts = rows[j].attempts
        BY <4>2 DEF RowType
      <4>4. ~ GivenUp(workers[w].saw) => w \in Behind(j)
        BY <2>1, <3>3 DEF MarkFailed, Behind, IsBehind
      <4> QED
        BY <4>1, <4>3, <4>4
    <3> QED
      BY <1>14, <3>1, <3>2, <3>3
  <2>8. ASSUME NEW i \in Ids PROVE Kept(i)
    <3>1. Counting(i)' \subseteq Counting(i) /\ Behind(i)' \subseteq Behind(i) \ {w}
      BY <2>6
    <3>2. CASE i = j
      BY <2>7, <3>1, <3>2 DEF NoNewcomers, OneCatchesUp
    <3>3. CASE i # j
      BY <2>2, <3>1, <3>3 DEF NoNewcomers
    <3> QED
      BY <3>2, <3>3
  <2> QED
    BY <1>3, <2>5, <2>8
<1>15. CASE Restart
  <2>1. workers' = [w \in Workers |-> Idle] /\ UNCHANGED rows
    BY <1>15 DEF Restart
  <2>2. Idle.todo = {} /\ Idle.at = "idle"
    BY DEF Idle
  <2>3. Own /\ \A i \in Ids : Counting(i)' = {} /\ Behind(i)' = {}
    BY <2>1, <2>2 DEF Counting, Counts, Behind, IsBehind
  <2>4. ASSUME NEW i \in Ids PROVE NoNewcomers(i)
    BY <2>1, <2>3 DEF NoNewcomers
  <2> QED
    BY <1>3, <2>3, <2>4
<1>16. CASE UNCHANGED vars \/ (\E i \in Ids : MineUnwatched(i) \/ DeadlinePasses(i))
                \/ \E p \in Payers : ForeignPayment(p)
    BY <1>5, <1>16 DEF vars, MineUnwatched, DeadlinePasses, ForeignPayment
<1>17. ASSUME NEW w \in Workers, Fails(w) PROVE AttemptsInv'
  <2>1. PICK old, a : old = workers[w] /\ a = rows[old.id].attempts
    OBVIOUS
  <2>2. PICK c : c = [old EXCEPT !.at = "mark", !.tx = None, !.saw = a]
    OBVIOUS
  <2>3. workers' = [workers EXCEPT ![w] = c] /\ UNCHANGED rows
    BY <1>17, <2>1, <2>2 DEF Fails, Moves
  <2>4. c.id = old.id /\ c.todo = old.todo /\ c.at = "mark" /\ c.saw = a
    BY <1>1, <2>1, <2>2 DEF WorkerType
  <2>5. ASSUME NEW i \in Ids, IsBehind(c, i) PROVE rows[i].attempts < MaxAttempts
    BY <1>1, <2>1, <2>4, <2>5 DEF IsBehind, GivenUp
  <2> QED
    BY <1>2, <1>6, <2>1, <2>3, <2>4, <2>5 DEF Counts
<1>18. ASSUME NEW w \in Workers, Reschedule(w) PROVE AttemptsInv'
  <2>1. PICK c \in Finished(w) : workers' = [workers EXCEPT ![w] = c]
    BY <1>18 DEF Reschedule, Moves
  <2>2. workers[w].at \in OnRow /\ UNCHANGED rows
    BY <1>18 DEF Reschedule, OnRow
  <2>3. c.id \notin c.todo /\ c.at # "mark" /\ \A i \in Ids : Counts(c, i) => Counts(workers[w], i)
    BY <2>1, <2>2, FinishedCounts DEF Counts
  <2> QED
    BY <1>6, <2>1, <2>2, <2>3 DEF IsBehind
<1>19. ASSUME NEW w \in Workers, Work(w) PROVE AttemptsInv'
    BY <1>8, <1>9, <1>12, <1>13, <1>14, <1>17, <1>18, <1>19 DEF Work
<1>20. ASSUME NEW w \in Workers,
              \/ \E p \in Payers : Request(w, p)
              \/ \E i \in Ids : FireTimer(w, i)
              \/ RetryRound(w)
              \/ Mine(w)
       PROVE  AttemptsInv'
    BY <1>7, <1>10, <1>11, <1>12, <1>20
<1>21. \/ \E w \in Workers : \/ \E p \in Payers : Request(w, p)
                             \/ \E i \in Ids : FireTimer(w, i)
                             \/ RetryRound(w)
                             \/ Mine(w)
       \/ \E w \in Workers : Work(w)
       \/ Restart
       \/ UNCHANGED vars \/ (\E i \in Ids : MineUnwatched(i) \/ DeadlinePasses(i))
             \/ \E p \in Payers : ForeignPayment(p)
    BY DEF Next
<1> QED
    BY <1>15, <1>16, <1>19, <1>20, <1>21

(* However many callbacks overlap, however late each of them writes, a row is   *)
(* tried at most W * (W - 1) times beyond MAX_ATTEMPTS if W run at a time.      *)
THEOREM AttemptsStayBounded ==
    ASSUME IsFiniteSet(Workers)
    PROVE  Spec => []AttemptsBounded
<1>1. Init => AttemptsInv
  <2> SUFFICES ASSUME Init PROVE AttemptsInv
    OBVIOUS
  <2>1. \A w \in Workers : workers[w].todo = {}
    BY DEF Init, Idle
  <2>2. \A i \in Ids : rows[i].attempts < MaxAttempts
    BY OracleAssumption DEF Init, NoRow
  <2> QED
    BY <2>1, <2>2 DEF AttemptsInv, Bounded
<1>2. IInv /\ AttemptsInv /\ [Next]_vars => AttemptsInv'
    BY StepAttempts
<1>3. IInv /\ AttemptsInv => AttemptsBounded
  <2> SUFFICES ASSUME IInv, AttemptsInv, NEW i \in Ids PROVE rows[i].attempts <= Limit
    BY DEF AttemptsBounded, Limit
  <2>1. PICK a, W, b, o : /\ a = rows[i].attempts /\ W = Cardinality(Workers)
                          /\ b = Cardinality(Behind(i)) /\ o = Open(i)
    OBVIOUS
  <2>2. Behind(i) \in SUBSET Workers /\ Counting(i) \in SUBSET Workers
    BY DEF Behind, Counting
  <2>3. /\ a \in Nat /\ MaxAttempts \in Nat /\ W \in Nat /\ b \in Nat
        /\ Cardinality(Counting(i)) \in Nat
    BY <2>1, <2>2, OracleAssumption, FS_Subset, FS_CardinalityType DEF IInv, TypeOK
  <2>4. o \in Nat
    BY <2>1, <2>3 DEF Open
  <2>5. W * (W - 1) \in Nat
    <3>1. CASE W = 0
      BY <3>1
    <3>2. CASE W # 0
      BY <2>3, <3>2
    <3> QED
      BY <3>1, <3>2
  <2>6. W * b \in Nat
    BY <2>3
  <2>7. a < MaxAttempts \/ a + W * b + o <= MaxAttempts + W * (W - 1)
    BY <2>1 DEF AttemptsInv, Bounded, Potential, Limit
  <2>8. a <= MaxAttempts + W * (W - 1)
    BY <2>3, <2>4, <2>5, <2>6, <2>7
  <2> QED
    BY <2>1, <2>8 DEF Limit
<1> QED
    BY <1>1, <1>2, <1>3, InvariantHolds, PTL DEF Spec
=============================================================================
