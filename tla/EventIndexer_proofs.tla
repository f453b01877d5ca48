------------------------ MODULE EventIndexer_proofs ------------------------
(* Proofs about EventIndexer and the webhooks it dispatches to, for any number  *)
(* of blocks, polls and rounds that run at a time, failures and restarts.  The  *)
(* webhooks come first, over WebhookWork and Restart; the indexer follows.      *)
EXTENDS EventIndexer, Arithmetic_proofs, FiniteSetTheorems, SequenceTheorems

(* the least of a set of naturals *)
LEMMA MinIs ==
    ASSUME NEW S \in SUBSET Nat, S # {}
    PROVE  Min(S) \in S /\ \A y \in S : Min(S) <= y
<1>1. \E x \in S : \A y \in S : x <= y
    BY LeastNat
<1> QED
    BY <1>1 DEF Min

(* a dispatch makes one row for each active endpoint *)
LEMMA SequenceOf ==
    ASSUME NEW S, IsFiniteSet(S)
    PROVE  Cardinality(S) \in Nat /\ SetToSeq(S) \in [1 .. Cardinality(S) -> S]
<1>1. Cardinality(S) \in Nat /\ ExistsBijection(1 .. Cardinality(S), S)
    BY FS_CardinalityType
<1>2. \E f \in [1 .. Cardinality(S) -> S] : IsInjective(f)
    BY <1>1 DEF ExistsBijection, Bijection, Injection, IsInjective
<1> QED
    BY <1>1, <1>2 DEF SetToSeq

LEMMA FunctionIsSeq ==
    ASSUME NEW S, NEW n \in Nat, NEW f \in [1 .. n -> S]
    PROVE  f \in Seq(S) /\ Len(f) = n
<1>1. f \in Seq(S)
    BY SeqDef
<1>2. Len(f) \in Nat /\ 1 .. n = 1 .. Len(f)
    BY <1>1, LenProperties
<1>3. Len(f) = n
    <2>1. CASE n < Len(f)
        BY <1>2, <2>1, Len(f) \in 1 .. Len(f)
    <2>2. CASE Len(f) < n
        BY <1>2, <2>2, n \in 1 .. n
    <2> QED
        BY <1>2, <2>1, <2>2
<1> QED
    BY <1>1, <1>3

-----------------------------------------------------------------------------
(* Webhooks: the types *)

(* the row a round is at is one of its batch *)
LEMMA CurrentIs ==
    ASSUME WebhookTypeOK, NEW r \in Rounds, rounds[r] # Resting
    PROVE  \E rows \in (SUBSET (1 .. Len(deliveries))) \ {{}} :
              /\ rounds[r] \in [at : {"post", "ok", "error"}, batch : [rows -> 0 .. MaxAttempts - 1]]
              /\ DOMAIN rounds[r].batch = rows
              /\ Current(r) \in rows
<1>1. PICK rows \in (SUBSET (1 .. Len(deliveries))) \ {{}} :
          rounds[r] \in [at : {"post", "ok", "error"}, batch : [rows -> 0 .. MaxAttempts - 1]]
    BY DEF WebhookTypeOK, RoundOK
<1>2. DOMAIN rounds[r].batch = rows
    BY <1>1
<1>3. rows \in SUBSET Nat /\ rows # {}
    BY <1>1
<1>4. Current(r) \in rows
    BY <1>2, <1>3, MinIs DEF Current
<1> QED
    BY <1>1, <1>2, <1>4

(* a round that is at a post or an answer rests no more *)
LEMMA RunsIs ==
    ASSUME NEW round, round.at \in {"post", "ok", "error"}
    PROVE  round # Resting
BY DEF Resting

(* going on to an answer keeps the batch *)
LEMMA RoundLater ==
    ASSUME WebhookTypeOK, NEW r \in Rounds, rounds[r] # Resting, NEW at \in {"post", "ok", "error"}
    PROVE  LET round == [rounds[r] EXCEPT !.at = at]
           IN  /\ RoundOK(round)
               /\ round # Resting
               /\ round.at = at
               /\ round.batch = rounds[r].batch
<1>1. PICK rows \in (SUBSET (1 .. Len(deliveries))) \ {{}} :
          rounds[r] \in [at : {"post", "ok", "error"}, batch : [rows -> 0 .. MaxAttempts - 1]]
    BY CurrentIs
<1>2. [rounds[r] EXCEPT !.at = at]
         \in [at : {"post", "ok", "error"}, batch : [rows -> 0 .. MaxAttempts - 1]]
    BY <1>1
<1>3. [rounds[r] EXCEPT !.at = at].at = at /\ [rounds[r] EXCEPT !.at = at].batch = rounds[r].batch
    BY <1>1
<1> QED
    BY <1>1, <1>2, <1>3, RunsIs DEF RoundOK

(* going on to the next row leaves the rest of the batch as it was read *)
LEMMA GoOnIs ==
    ASSUME WebhookTypeOK, NEW r \in Rounds, rounds[r] # Resting
    PROVE  \/ GoOn(r) = Resting
           \/ /\ RoundOK(GoOn(r))
              /\ GoOn(r) # Resting
              /\ GoOn(r).at = "post"
              /\ DOMAIN GoOn(r).batch \subseteq DOMAIN rounds[r].batch
              /\ \A i \in DOMAIN GoOn(r).batch : GoOn(r).batch[i] = rounds[r].batch[i]
<1>1. PICK rows \in (SUBSET (1 .. Len(deliveries))) \ {{}} :
          /\ rounds[r] \in [at : {"post", "ok", "error"}, batch : [rows -> 0 .. MaxAttempts - 1]]
          /\ DOMAIN rounds[r].batch = rows
    BY CurrentIs
<1> SUFFICES ASSUME Left(r) # {}
             PROVE  /\ RoundOK(GoOn(r))
                    /\ GoOn(r).at = "post"
                    /\ DOMAIN GoOn(r).batch \subseteq DOMAIN rounds[r].batch
                    /\ \A i \in DOMAIN GoOn(r).batch : GoOn(r).batch[i] = rounds[r].batch[i]
    BY RunsIs DEF GoOn
<1>2. GoOn(r) = [at |-> "post", batch |-> [i \in Left(r) |-> rounds[r].batch[i]]]
    BY DEF GoOn, Restrict
<1>3. Left(r) \in (SUBSET (1 .. Len(deliveries))) \ {{}} /\ Left(r) \subseteq rows
    BY <1>1 DEF Left
<1>4. [i \in Left(r) |-> rounds[r].batch[i]] \in [Left(r) -> 0 .. MaxAttempts - 1]
    BY <1>1, <1>3
<1>5. GoOn(r).at = "post" /\ GoOn(r).batch = [i \in Left(r) |-> rounds[r].batch[i]]
    BY <1>2
<1>6. RoundOK(GoOn(r))
    BY <1>2, <1>3, <1>4 DEF RoundOK
<1> QED
    BY <1>1, <1>3, <1>5, <1>6

(* a round that begins takes rows that are due *)
LEMMA TakenIs ==
    ASSUME WebhookTypeOK, Taken # {}
    PROVE  LET round == [at |-> "post", batch |-> [i \in Taken |-> deliveries[i].attempts]]
           IN  /\ RoundOK(round)
               /\ round # Resting
               /\ \A i \in Taken : i \in 1 .. Len(deliveries)
<1> DEFINE batch == [i \in Taken |-> deliveries[i].attempts]
<1>1. /\ Taken \in SUBSET (1 .. Len(deliveries))
      /\ \A i \in Taken : deliveries[i].attempts < MaxAttempts
    BY DEF Taken, Due
<1>2. \A i \in Taken : deliveries[i] \in Rows
    BY <1>1 DEF WebhookTypeOK
<1>3. \A i \in Taken : deliveries[i].attempts \in 0 .. MaxAttempts - 1
    BY <1>1, <1>2, WebhookAssumption DEF Rows
<1>4. batch \in [Taken -> 0 .. MaxAttempts - 1]
    BY <1>3
<1>5. RoundOK([at |-> "post", batch |-> batch])
    <2> HIDE DEF batch
    <2> QED
        BY <1>1, <1>4 DEF RoundOK
<1> QED
    BY <1>1, <1>5, RunsIs

LEMMA StatusIs ==
    ASSUME NEW answer, NEW attempt
    PROVE  /\ StatusAfter(answer, attempt) \in {"pending", "delivered", "failed"}
           /\ StatusAfter(answer, attempt) = "delivered" => answer = "ok"
           /\ StatusAfter(answer, attempt) = "failed" => attempt >= MaxAttempts
BY DEF StatusAfter

(* rows, and the counts of what was posted and accepted, grow together *)
LEMMA DispatchTypes ==
    ASSUME WebhookTypeOK, NEW e \in Events, Dispatch(e)
    PROVE  /\ WebhookTypeOK'
           /\ Len(deliveries') = Len(deliveries) + Cardinality(active)
           /\ Len(deliveries) <= Len(deliveries')
           /\ \A i \in 1 .. Len(deliveries) :
                 /\ deliveries'[i] = deliveries[i]
                 /\ posts'[i] = posts[i] /\ accepted'[i] = accepted[i]
           /\ \A i \in 1 .. Len(deliveries') : i > Len(deliveries) =>
                 /\ deliveries'[i].event = e
                 /\ deliveries'[i].status = "pending" /\ deliveries'[i].attempts = 0
                 /\ posts'[i] = 0
<1> DEFINE n == Cardinality(active)
           rows == [k \in 1 .. n |-> [event |-> e, endpoint |-> SetToSeq(active)[k],
                                      status |-> "pending", attempts |-> 0]]
           zeros == [k \in 1 .. n |-> 0]
<1>1. n \in Nat /\ SetToSeq(active) \in [1 .. n -> active]
    BY SequenceOf, FS_Subset, WebhookAssumption DEF WebhookTypeOK
<1>2. rows \in [1 .. n -> Rows] /\ zeros \in [1 .. n -> Nat]
    <2>1. 0 \in 0 .. MaxAttempts /\ active \subseteq Endpoints
        BY WebhookAssumption DEF WebhookTypeOK
    <2> QED
        BY <1>1, <2>1 DEF Rows
<1>3. /\ rows \in Seq(Rows) /\ Len(rows) = n
      /\ zeros \in Seq(Nat) /\ Len(zeros) = n
      /\ \A k \in 1 .. n : /\ rows[k].event = e
                            /\ rows[k].status = "pending" /\ rows[k].attempts = 0 /\ zeros[k] = 0
    <2>1. \A k \in 1 .. n : rows[k].event = e /\ rows[k].status = "pending" /\ rows[k].attempts = 0 /\ zeros[k] = 0
        OBVIOUS
    <2> HIDE DEF rows, zeros
    <2> QED
        BY <1>1, <1>2, <2>1, FunctionIsSeq
<1>4. /\ outbox' = [outbox EXCEPT ![e] = @ - 1] /\ outbox[e] > 0
      /\ deliveries' = deliveries \o rows
      /\ Len(deliveries) + n <= MaxDeliveries
      /\ posts' = posts \o zeros /\ accepted' = accepted \o zeros
      /\ UNCHANGED <<rounds, active, faults>>
    <2>1. /\ Len(deliveries) + Len(rows) <= MaxDeliveries
          /\ posts' = posts \o [k \in 1 .. Len(rows) |-> 0]
          /\ accepted' = accepted \o [k \in 1 .. Len(rows) |-> 0]
        BY DEF Dispatch
    <2> QED
        BY <1>3, <2>1 DEF Dispatch
<1> HIDE DEF rows, zeros
<1>5. /\ deliveries \in Seq(Rows) /\ Len(deliveries) \in Nat
      /\ posts \in Seq(Nat) /\ Len(posts) = Len(deliveries)
      /\ accepted \in Seq(Nat) /\ Len(accepted) = Len(deliveries)
    BY LenProperties DEF WebhookTypeOK
<1>6. /\ deliveries' \in Seq(Rows) /\ Len(deliveries') = Len(deliveries) + n
      /\ posts' \in Seq(Nat) /\ Len(posts') = Len(deliveries')
      /\ accepted' \in Seq(Nat) /\ Len(accepted') = Len(deliveries')
    <2> HIDE DEF n
    <2>1. deliveries' \in Seq(Rows) /\ Len(deliveries') = Len(deliveries) + n
        BY <1>3, <1>4, <1>5, ConcatProperties
    <2> DEFINE Longer(s) == /\ s \o zeros \in Seq(Nat)
                            /\ Len(s \o zeros) = Len(s) + Len(zeros)
    <2>2. posts' \in Seq(Nat) /\ Len(posts') = Len(posts) + n
        <3>1. Longer(posts)
            BY <1>3, <1>5, ConcatProperties
        <3> QED
            BY <1>3, <1>4, <3>1
    <2>3. accepted' \in Seq(Nat) /\ Len(accepted') = Len(accepted) + n
        <3>1. Longer(accepted)
            BY <1>3, <1>5, ConcatProperties
        <3> QED
            BY <1>3, <1>4, <3>1
    <2> QED
        BY <1>5, <2>1, <2>2, <2>3
<1>7. \A r \in Rounds : rounds'[r] = Resting \/ RoundOK(rounds[r])'
    <2> SUFFICES ASSUME NEW r \in Rounds, rounds[r] # Resting PROVE RoundOK(rounds[r])'
        BY <1>4
    <2>1. RoundOK(rounds[r])
        BY DEF WebhookTypeOK
    <2>2. 1 .. Len(deliveries) \subseteq 1 .. Len(deliveries')
        BY <1>1, <1>5, <1>6
    <2>3. rounds'[r] = rounds[r]
        BY <1>4
    <2> QED
        BY <2>1, <2>2, <2>3 DEF RoundOK
<1>8. WebhookTypeOK'
    <2>1. outbox' \in [Events -> Nat]
        BY <1>4 DEF WebhookTypeOK
    <2> QED
        BY <1>1, <1>4, <1>5, <1>6, <1>7, <2>1 DEF WebhookTypeOK
<1>9. ASSUME NEW i \in 1 .. Len(deliveries')
      PROVE  /\ i <= Len(deliveries) =>
                   /\ deliveries'[i] = deliveries[i]
                   /\ posts'[i] = posts[i] /\ accepted'[i] = accepted[i]
             /\ i > Len(deliveries) =>
                   /\ deliveries'[i] = rows[i - Len(deliveries)]
                   /\ posts'[i] = zeros[i - Len(deliveries)]
                   /\ i - Len(deliveries) \in 1 .. n
    <2> HIDE DEF n
    <2>1. i \in 1 .. Len(deliveries) + n /\ Len(deliveries) \in Nat
        BY <1>5, <1>6
    <2>2. i > Len(deliveries) => i - Len(deliveries) \in 1 .. n
        BY <1>1, <2>1
    <2>3. deliveries'[i] = IF i <= Len(deliveries) THEN deliveries[i] ELSE rows[i - Len(deliveries)]
        BY <1>3, <1>4, <1>5, <2>1, ConcatProperties
    <2>4. posts'[i] = IF i <= Len(posts) THEN posts[i] ELSE zeros[i - Len(posts)]
        BY <1>3, <1>4, <1>5, <2>1, ConcatProperties
    <2>5. accepted'[i] = IF i <= Len(accepted) THEN accepted[i] ELSE zeros[i - Len(accepted)]
        BY <1>3, <1>4, <1>5, <2>1, ConcatProperties
    <2> QED
        BY <1>5, <2>1, <2>2, <2>3, <2>4, <2>5
<1>10. ASSUME NEW i \in 1 .. Len(deliveries)
       PROVE  /\ deliveries'[i] = deliveries[i]
              /\ posts'[i] = posts[i] /\ accepted'[i] = accepted[i]
    <2>1. i \in 1 .. Len(deliveries') /\ i <= Len(deliveries)
        BY <1>1, <1>5, <1>6
    <2> QED
        BY <1>9, <2>1
<1>11. ASSUME NEW i \in 1 .. Len(deliveries'), i > Len(deliveries)
       PROVE  /\ deliveries'[i].event = e
              /\ deliveries'[i].status = "pending" /\ deliveries'[i].attempts = 0
              /\ posts'[i] = 0
    BY <1>3, <1>9, <1>11
<1>12. /\ Len(deliveries') = Len(deliveries) + Cardinality(active)
       /\ Len(deliveries) <= Len(deliveries')
    BY <1>1, <1>5, <1>6
<1> HIDE DEF n
<1> QED
    BY <1>8, <1>10, <1>11, <1>12

-----------------------------------------------------------------------------
(* Webhooks: what rounds and rows remember is backed by posts *)

(* The attempts a round read of a row were posts of it; at an answer the row    *)
(* was posted once more, and accepted if the answer says so.                    *)
HonestRound(r) ==
    /\ \A i \in DOMAIN rounds[r].batch : rounds[r].batch[i] <= posts[i]
    /\ rounds[r].at \in {"ok", "error"} => rounds[r].batch[Current(r)] < posts[Current(r)]
    /\ rounds[r].at = "ok" => accepted[Current(r)] > 0

HonestRow(i) ==
    /\ deliveries[i].attempts <= posts[i]
    /\ deliveries[i].status = "delivered" => accepted[i] > 0
    /\ deliveries[i].status = "failed" => posts[i] >= MaxAttempts

WebhookInv ==
    /\ WebhookTypeOK
    /\ \A i \in 1 .. Len(deliveries) : HonestRow(i)
    /\ \A r \in Rounds : rounds[r] # Resting => HonestRound(r)

LEMMA DecisionsFromInv == WebhookInv => DecisionsHold
BY DEF WebhookInv, HonestRow, DecisionsHold, DeliveredWasAccepted, GivenUpWasTried

(* what a step that leaves table and rounds alone keeps *)
LEMMA WebhookStutter ==
    ASSUME WebhookInv, outbox' \in [Events -> Nat], faults' \in 0 .. MaxFaults,
           active' \subseteq Endpoints,
           UNCHANGED <<deliveries, rounds, posts, accepted>>
    PROVE  WebhookInv'
<1>1. WebhookTypeOK'
    <2>1. \A r \in Rounds : RoundOK(rounds[r])' <=> RoundOK(rounds[r])
        BY DEF RoundOK
    <2> QED
        BY <2>1 DEF WebhookInv, WebhookTypeOK
<1>2. \A i \in 1 .. Len(deliveries)' : HonestRow(i)'
    BY DEF WebhookInv, HonestRow
<1>3. \A r \in Rounds : rounds'[r] # Resting => HonestRound(r)'
    BY DEF WebhookInv, HonestRound, Current
<1> QED
    BY <1>1, <1>2, <1>3 DEF WebhookInv

(* a step of one round that leaves the table alone *)
LEMMA RoundStep ==
    ASSUME WebhookInv, NEW r \in Rounds, NEW round,
           rounds' = [rounds EXCEPT ![r] = round],
           round = Resting \/ (RoundOK(round) /\ HonestRound(r)'),
           posts' \in Seq(Nat), accepted' \in Seq(Nat),
           Len(posts') = Len(posts), Len(accepted') = Len(accepted),
           \A i \in 1 .. Len(deliveries) : posts'[i] >= posts[i] /\ accepted'[i] >= accepted[i],
           faults' \in 0 .. MaxFaults,
           UNCHANGED <<outbox, deliveries, active>>
    PROVE  WebhookInv'
<1>1. /\ DOMAIN rounds' = Rounds /\ rounds'[r] = round
      /\ \A q \in Rounds \ {r} : rounds'[q] = rounds[q]
    BY DEF WebhookInv, WebhookTypeOK
<1>2. WebhookTypeOK'
    <2>1. \A q \in Rounds : rounds'[q] = Resting \/ RoundOK(rounds[q])'
        <3> SUFFICES ASSUME NEW q \in Rounds, rounds'[q] # Resting PROVE RoundOK(rounds[q])'
            OBVIOUS
        <3>1. RoundOK(rounds'[q])
            BY <1>1 DEF WebhookInv, WebhookTypeOK
        <3> QED
            BY <3>1 DEF RoundOK
    <2> QED
        BY <1>1, <2>1 DEF WebhookInv, WebhookTypeOK
<1>3. /\ \A i \in 1 .. Len(deliveries) : posts[i] \in Nat /\ posts'[i] \in Nat
                                         /\ accepted[i] \in Nat /\ accepted'[i] \in Nat
      /\ deliveries \in Seq(Rows) /\ Len(deliveries) \in Nat
    BY <1>2, ElementOfSeq, LenProperties DEF WebhookInv, WebhookTypeOK
<1>4. ASSUME NEW i \in 1 .. Len(deliveries)' PROVE HonestRow(i)'
    <2>1. i \in 1 .. Len(deliveries) /\ deliveries[i] \in Rows
        BY <1>3, ElementOfSeq
    <2>2. deliveries[i].attempts \in Nat
        BY <2>1, WebhookAssumption DEF Rows
    <2>3. HonestRow(i) /\ deliveries'[i] = deliveries[i]
        BY <2>1 DEF WebhookInv
    <2>4. /\ posts[i] \in Nat /\ posts'[i] \in Nat /\ posts'[i] >= posts[i]
          /\ accepted[i] \in Nat /\ accepted'[i] \in Nat /\ accepted'[i] >= accepted[i]
        BY <1>3, <2>1
    <2>5. deliveries[i].attempts <= posts'[i]
        BY <2>2, <2>3, <2>4 DEF HonestRow
    <2>6. deliveries[i].status = "delivered" => accepted'[i] > 0
        BY <2>3, <2>4 DEF HonestRow
    <2>7. deliveries[i].status = "failed" => posts'[i] >= MaxAttempts
        BY <2>3, <2>4, WebhookAssumption DEF HonestRow
    <2> QED
        BY <2>3, <2>5, <2>6, <2>7 DEF HonestRow
<1>5. ASSUME NEW q \in Rounds \ {r}, rounds'[q] # Resting PROVE HonestRound(q)'
    <2>1. rounds[q] # Resting /\ HonestRound(q) /\ rounds'[q] = rounds[q] /\ Current(q)' = Current(q)
        BY <1>1, <1>5 DEF WebhookInv, Current
    <2>2. PICK rows \in (SUBSET (1 .. Len(deliveries))) \ {{}} :
              /\ rounds[q] \in [at : {"post", "ok", "error"}, batch : [rows -> 0 .. MaxAttempts - 1]]
              /\ DOMAIN rounds[q].batch = rows
              /\ Current(q) \in rows
        BY <2>1, CurrentIs DEF WebhookInv
    <2>3. \A i \in rows : rounds[q].batch[i] \in Nat /\ i \in 1 .. Len(deliveries)
        BY <2>2, WebhookAssumption
    <2>4. \A i \in rows : /\ posts[i] \in Nat /\ posts'[i] \in Nat /\ posts'[i] >= posts[i]
                          /\ accepted[i] \in Nat /\ accepted'[i] \in Nat /\ accepted'[i] >= accepted[i]
        BY <1>3, <2>3
    <2>5. /\ \A i \in rows : rounds[q].batch[i] <= posts[i]
          /\ rounds[q].at \in {"ok", "error"} => rounds[q].batch[Current(q)] < posts[Current(q)]
          /\ rounds[q].at = "ok" => accepted[Current(q)] > 0
        BY <2>1, <2>2 DEF HonestRound
    <2>6. \A i \in rows : rounds[q].batch[i] <= posts'[i]
        <3> SUFFICES ASSUME NEW i \in rows PROVE rounds[q].batch[i] <= posts'[i]
            OBVIOUS
        <3> QED
            BY <2>3, <2>4, <2>5
    <2> DEFINE c == Current(q)
    <2>7. c \in rows
        BY <2>2
    <2> HIDE DEF c
    <2>8. /\ rounds[q].batch[c] < posts[c] => rounds[q].batch[c] < posts'[c]
          /\ accepted[c] > 0 => accepted'[c] > 0
        BY <2>3, <2>4, <2>7
    <2> QED
        BY <2>1, <2>2, <2>5, <2>6, <2>8 DEF HonestRound, c
<1> QED
    BY <1>1, <1>2, <1>4, <1>5 DEF WebhookInv

LEMMA BeginKeeps ==
    ASSUME WebhookInv, NEW r \in Rounds, Begin(r)
    PROVE  WebhookInv'
<1> DEFINE round == [at |-> "post", batch |-> [i \in Taken |-> deliveries[i].attempts]]
<1>1. RoundOK(round) /\ \A i \in Taken : i \in 1 .. Len(deliveries)
    BY TakenIs DEF WebhookInv, Begin
<1>2. rounds' = [rounds EXCEPT ![r] = round] /\ rounds'[r] = round
    BY DEF WebhookInv, WebhookTypeOK, Begin
<1>3. HonestRound(r)'
    <2>1. /\ rounds'[r].at = "post"
          /\ DOMAIN rounds'[r].batch = Taken
          /\ \A i \in Taken : rounds'[r].batch[i] = deliveries[i].attempts
        BY <1>2
    <2> QED
        BY <1>1, <2>1 DEF WebhookInv, HonestRow, HonestRound, Begin
<1>4. /\ \A i \in 1 .. Len(deliveries) : posts[i] >= posts[i] /\ accepted[i] >= accepted[i]
      /\ faults \in 0 .. MaxFaults /\ posts \in Seq(Nat) /\ accepted \in Seq(Nat)
    BY ElementOfSeq DEF WebhookInv, WebhookTypeOK
<1> HIDE DEF round
<1> QED
    BY <1>1, <1>2, <1>3, <1>4, RoundStep DEF Begin

LEMMA PostKeeps ==
    ASSUME WebhookInv, NEW r \in Rounds, Post(r)
    PROVE  WebhookInv'
<1> DEFINE i == Current(r)
<1>1. rounds[r] # Resting
    BY RunsIs DEF Post
<1>2. PICK rows \in (SUBSET (1 .. Len(deliveries))) \ {{}} :
          /\ rounds[r] \in [at : {"post", "ok", "error"}, batch : [rows -> 0 .. MaxAttempts - 1]]
          /\ DOMAIN rounds[r].batch = rows
          /\ i \in rows
    BY <1>1, CurrentIs DEF WebhookInv
<1>3. /\ posts \in Seq(Nat) /\ Len(posts) = Len(deliveries)
      /\ accepted \in Seq(Nat) /\ Len(accepted) = Len(deliveries)
      /\ i \in 1 .. Len(deliveries)
      /\ posts[i] \in Nat /\ accepted[i] \in Nat
      /\ faults \in 0 .. MaxFaults
    BY <1>2, ElementOfSeq DEF WebhookInv, WebhookTypeOK
<1> HIDE DEF i
<1>4. /\ posts' = [posts EXCEPT ![i] = posts[i] + 1]
      /\ \E answer \in {"ok", "error"} :
            /\ rounds' = [rounds EXCEPT ![r] = [rounds[r] EXCEPT !.at = answer]]
            /\ \/ accepted' = [accepted EXCEPT ![i] = accepted[i] + 1]
               \/ answer = "error" /\ accepted' = accepted
      /\ UNCHANGED <<outbox, deliveries, active, faults>>
    BY <1>3 DEF Post, i
<1>5. PICK answer \in {"ok", "error"} :
            /\ rounds' = [rounds EXCEPT ![r] = [rounds[r] EXCEPT !.at = answer]]
            /\ \/ accepted' = [accepted EXCEPT ![i] = accepted[i] + 1]
               \/ answer = "error" /\ accepted' = accepted
    BY <1>4
<1> DEFINE round == [rounds[r] EXCEPT !.at = answer]
<1>6. RoundOK(round) /\ round.at = answer /\ round.batch = rounds[r].batch
    BY <1>1, RoundLater DEF WebhookInv
<1>7. rounds' = [rounds EXCEPT ![r] = round] /\ rounds'[r] = round
    BY <1>5 DEF WebhookInv, WebhookTypeOK
<1> HIDE DEF round
<1>8. /\ posts' \in Seq(Nat) /\ Len(posts') = Len(posts)
      /\ posts'[i] = posts[i] + 1
      /\ \A j \in 1 .. Len(deliveries) : j # i => posts'[j] = posts[j]
    BY <1>3, <1>4, ExceptSeq
<1>9. /\ accepted' \in Seq(Nat) /\ Len(accepted') = Len(accepted)
      /\ answer = "ok" => accepted'[i] > 0
      /\ \A j \in 1 .. Len(deliveries) : accepted'[j] >= accepted[j]
    <2>1. \A j \in 1 .. Len(deliveries) : accepted[j] \in Nat
        BY <1>3, ElementOfSeq
    <2>2. CASE accepted' = [accepted EXCEPT ![i] = accepted[i] + 1]
        <3>1. accepted[i] + 1 \in Nat
            BY <1>3
        <3>2. i \in 1 .. Len(accepted)
            BY <1>3
        <3>3. /\ accepted' \in Seq(Nat) /\ Len(accepted') = Len(accepted)
              /\ \A j \in 1 .. Len(accepted) :
                    accepted'[j] = IF j = i THEN accepted[i] + 1 ELSE accepted[j]
            BY <1>3, <2>2, <3>1, <3>2, ExceptSeq
        <3>4. \A j \in 1 .. Len(deliveries) : accepted'[j] >= accepted[j]
            <4> SUFFICES ASSUME NEW j \in 1 .. Len(deliveries) PROVE accepted'[j] >= accepted[j]
                OBVIOUS
            <4>1. accepted'[j] = IF j = i THEN accepted[i] + 1 ELSE accepted[j]
                BY <1>3, <3>3
            <4>2. accepted[j] \in Nat
                BY <2>1
            <4> QED
                BY <4>1, <4>2
        <3> QED
            BY <1>3, <3>2, <3>3, <3>4
    <2>3. CASE answer = "error" /\ accepted' = accepted
        BY <1>3, <2>1, <2>3
    <2> QED
        BY <1>5, <2>2, <2>3
<1>10. \A j \in 1 .. Len(deliveries) : posts[j] \in Nat /\ posts'[j] >= posts[j]
    <2>1. \A j \in 1 .. Len(deliveries) : posts[j] \in Nat
        BY <1>3, ElementOfSeq
    <2> SUFFICES ASSUME NEW j \in 1 .. Len(deliveries) PROVE posts'[j] >= posts[j]
        BY <2>1
    <2>2. posts'[j] = IF j = i THEN posts[j] + 1 ELSE posts[j]
        BY <1>8
    <2> QED
        BY <2>1, <2>2
<1>11. HonestRound(r)'
    <2>1. HonestRound(r)
        BY <1>1 DEF WebhookInv
    <2>2. Current(r)' = i
        BY <1>6, <1>7 DEF Current, i
    <2>3. \A j \in rows : rounds[r].batch[j] \in Nat /\ rounds[r].batch[j] <= posts[j]
        BY <1>2, <2>1, WebhookAssumption DEF HonestRound
    <2>4. \A j \in rows : rounds[r].batch[j] <= posts'[j]
        <3> SUFFICES ASSUME NEW j \in rows PROVE rounds[r].batch[j] <= posts'[j]
            OBVIOUS
        <3>1. j \in 1 .. Len(deliveries)
            BY <1>2
        <3>2. posts[j] \in Nat /\ posts'[j] \in Nat /\ posts'[j] >= posts[j]
            BY <1>3, <1>8, <1>10, <3>1, ElementOfSeq
        <3>3. rounds[r].batch[j] \in Nat /\ rounds[r].batch[j] <= posts[j]
            BY <2>3
        <3> QED
            BY <3>2, <3>3
    <2>5. rounds[r].batch[i] < posts'[i]
        <3>1. rounds[r].batch[i] \in Nat /\ rounds[r].batch[i] <= posts[i]
            BY <1>2, <2>3
        <3>2. posts[i] \in Nat /\ posts'[i] = posts[i] + 1
            BY <1>3, <1>8
        <3> QED
            BY <3>1, <3>2
    <2>6. /\ rounds'[r].at = answer /\ rounds'[r].batch = rounds[r].batch
          /\ DOMAIN rounds[r].batch = rows
        BY <1>2, <1>6, <1>7
    <2>7. rounds'[r].at = "ok" => accepted'[i] > 0
        BY <1>9, <2>6
    <2> QED
        BY <2>2, <2>4, <2>5, <2>6, <2>7 DEF HonestRound
<1> QED
    BY <1>3, <1>4, <1>6, <1>7, <1>8, <1>9, <1>10, <1>11, RoundStep

LEMMA RecordKeeps ==
    ASSUME WebhookInv, NEW r \in Rounds, Record(r)
    PROVE  WebhookInv'
<1>1. PICK i : i = Current(r)
    OBVIOUS
<1> DEFINE attempt == rounds[r].batch[i] + 1
           status == StatusAfter(rounds[r].at, attempt)
<1>2. rounds[r] # Resting
    BY RunsIs DEF Record
<1>3. PICK rows \in (SUBSET (1 .. Len(deliveries))) \ {{}} :
          /\ rounds[r] \in [at : {"post", "ok", "error"}, batch : [rows -> 0 .. MaxAttempts - 1]]
          /\ DOMAIN rounds[r].batch = rows
          /\ i \in rows
    BY <1>1, <1>2, CurrentIs DEF WebhookInv
<1>4. /\ deliveries \in Seq(Rows) /\ Len(deliveries) \in Nat
      /\ i \in 1 .. Len(deliveries)
      /\ deliveries[i] \in Rows
      /\ rounds[r].batch[i] \in 0 .. MaxAttempts - 1
    BY <1>3, ElementOfSeq, LenProperties DEF WebhookInv, WebhookTypeOK
<1>5. attempt \in 0 .. MaxAttempts /\ attempt <= posts[i]
    <2>1. rounds[r].batch[i] < posts[i] /\ posts[i] \in Nat
        BY <1>1, <1>2, <1>4, ElementOfSeq DEF WebhookInv, WebhookTypeOK, HonestRound, Record
    <2> QED
        BY <1>4, <2>1, WebhookAssumption
<1>6. /\ status \in {"pending", "delivered", "failed"}
      /\ status = "delivered" => accepted[i] > 0
      /\ status = "failed" => attempt >= MaxAttempts
    <2>1. rounds[r].at = "ok" => accepted[i] > 0
        BY <1>1, <1>2 DEF WebhookInv, HonestRound
    <2> QED
        BY <2>1, StatusIs
<1> HIDE DEF attempt, status
<1>7. /\ deliveries' = [deliveries EXCEPT ![i] =
                           [[deliveries[i] EXCEPT !.status = status] EXCEPT !.attempts = attempt]]
      /\ rounds' = [rounds EXCEPT ![r] = GoOn(r)]
      /\ UNCHANGED <<outbox, posts, accepted, active, faults>>
    BY <1>1, <1>4 DEF Record, attempt, status
<1> DEFINE row == [[deliveries[i] EXCEPT !.status = status] EXCEPT !.attempts = attempt]
<1>8. row \in Rows /\ row.status = status /\ row.attempts = attempt
    BY <1>4, <1>5, <1>6 DEF Rows
<1>9. deliveries' = [deliveries EXCEPT ![i] = row]
    BY <1>7
<1> HIDE DEF row
<1>10. /\ deliveries' \in Seq(Rows) /\ Len(deliveries') = Len(deliveries)
      /\ deliveries'[i] = row
      /\ \A j \in 1 .. Len(deliveries) : j # i => deliveries'[j] = deliveries[j]
    BY <1>4, <1>8, <1>9, ExceptSeq
<1>11. HonestRow(i)'
    <2>1. posts[i] \in Nat /\ attempt \in Nat /\ MaxAttempts \in Nat
        BY <1>4, <1>5, ElementOfSeq, WebhookAssumption DEF WebhookInv, WebhookTypeOK
    <2>2. deliveries'[i].attempts <= posts'[i]
        BY <1>5, <1>7, <1>8, <1>10
    <2>3. deliveries'[i].status = "delivered" => accepted'[i] > 0
        BY <1>6, <1>7, <1>8, <1>10
    <2>4. deliveries'[i].status = "failed" => posts'[i] >= MaxAttempts
        BY <1>5, <1>6, <1>7, <1>8, <1>10, <2>1
    <2> QED
        BY <2>2, <2>3, <2>4 DEF HonestRow
<1>12. ASSUME NEW j \in 1 .. Len(deliveries)' PROVE HonestRow(j)'
    <2>1. CASE j = i
        BY <1>11, <2>1
    <2>2. CASE j # i
        <3>1. HonestRow(j) /\ deliveries'[j] = deliveries[j]
            BY <1>10, <2>2 DEF WebhookInv
        <3> QED
            BY <1>7, <3>1 DEF HonestRow
    <2> QED
        BY <2>1, <2>2
<1>13. DOMAIN rounds' = Rounds /\ rounds'[r] = GoOn(r) /\ \A q \in Rounds \ {r} : rounds'[q] = rounds[q]
    BY <1>7 DEF WebhookInv, WebhookTypeOK
<1>14. ASSUME NEW q \in Rounds, rounds'[q] # Resting PROVE RoundOK(rounds[q])' /\ HonestRound(q)'
    <2>1. CASE q = r
        <3>1. /\ RoundOK(GoOn(r))
              /\ GoOn(r).at = "post"
              /\ DOMAIN GoOn(r).batch \subseteq DOMAIN rounds[r].batch
              /\ \A k \in DOMAIN GoOn(r).batch : GoOn(r).batch[k] = rounds[r].batch[k]
            BY <1>2, <1>13, <1>14, <2>1, GoOnIs DEF WebhookInv
        <3>2. RoundOK(rounds[q])'
            BY <1>10, <1>13, <2>1, <3>1 DEF RoundOK
        <3>3. HonestRound(r)
            BY <1>2 DEF WebhookInv
        <3> QED
            BY <1>7, <1>13, <2>1, <3>1, <3>2, <3>3 DEF HonestRound
    <2>2. CASE q # r
        <3>1. rounds[q] # Resting /\ rounds'[q] = rounds[q] /\ Current(q)' = Current(q)
            BY <1>13, <1>14, <2>2 DEF Current
        <3>2. RoundOK(rounds[q]) /\ HonestRound(q)
            BY <3>1 DEF WebhookInv, WebhookTypeOK
        <3> QED
            BY <1>7, <1>10, <3>1, <3>2 DEF RoundOK, HonestRound
    <2> QED
        BY <2>1, <2>2
<1>15. WebhookTypeOK'
    BY <1>7, <1>10, <1>13, <1>14 DEF WebhookInv, WebhookTypeOK
<1> QED
    BY <1>12, <1>14, <1>15 DEF WebhookInv

LEMMA RecordFailsKeeps ==
    ASSUME WebhookInv, NEW r \in Rounds, RecordFails(r)
    PROVE  WebhookInv'
<1>1. rounds[r] # Resting
    BY RunsIs DEF RecordFails
<1>2. PICK round : /\ rounds' = [rounds EXCEPT ![r] = round]
                   /\ \/ round = Resting
                      \/ rounds[r].at = "ok" /\ round = [rounds[r] EXCEPT !.at = "error"]
    BY DEF RecordFails
<1>3. round = Resting \/ (RoundOK(round) /\ HonestRound(r)')
    <2> SUFFICES ASSUME rounds[r].at = "ok", round = [rounds[r] EXCEPT !.at = "error"]
                 PROVE  RoundOK(round) /\ HonestRound(r)'
        BY <1>2
    <2>1. RoundOK(round) /\ round.at = "error" /\ round.batch = rounds[r].batch
        BY <1>1, RoundLater DEF WebhookInv
    <2>2. rounds'[r] = round /\ Current(r)' = Current(r)
        BY <1>2, <2>1 DEF WebhookInv, WebhookTypeOK, Current
    <2>3. HonestRound(r)
        BY <1>1 DEF WebhookInv
    <2> QED
        BY <2>1, <2>2, <2>3 DEF HonestRound, RecordFails
<1>4. /\ faults' \in 0 .. MaxFaults
      /\ posts \in Seq(Nat) /\ accepted \in Seq(Nat)
      /\ \A i \in 1 .. Len(deliveries) : posts[i] >= posts[i] /\ accepted[i] >= accepted[i]
    BY WebhookAssumption, ElementOfSeq DEF RecordFails, WebhookInv, WebhookTypeOK
<1> QED
    BY <1>2, <1>3, <1>4, RoundStep DEF RecordFails

LEMMA DispatchKeeps ==
    ASSUME WebhookInv, NEW e \in Events, Dispatch(e)
    PROVE  WebhookInv'
<1>1. /\ WebhookTypeOK' /\ UNCHANGED rounds
      /\ Len(deliveries) <= Len(deliveries')
      /\ \A i \in 1 .. Len(deliveries) :
            /\ deliveries'[i] = deliveries[i]
            /\ posts'[i] = posts[i] /\ accepted'[i] = accepted[i]
      /\ \A i \in 1 .. Len(deliveries') : i > Len(deliveries) =>
            /\ deliveries'[i].status = "pending" /\ deliveries'[i].attempts = 0
            /\ posts'[i] = 0
    BY DispatchTypes DEF WebhookInv, Dispatch
<1>2. Len(deliveries) \in Nat /\ Len(deliveries') \in Nat
    BY <1>1, LenProperties DEF WebhookInv, WebhookTypeOK
<1>3. ASSUME NEW i \in 1 .. Len(deliveries)' PROVE HonestRow(i)'
    <2>1. CASE i <= Len(deliveries)
        <3>1. i \in 1 .. Len(deliveries)
            BY <1>2, <2>1
        <3> QED
            BY <1>1, <3>1 DEF WebhookInv, HonestRow
    <2>2. CASE i > Len(deliveries)
        BY <1>1, <2>2 DEF HonestRow
    <2> QED
        BY <1>2, <2>1, <2>2
<1>4. ASSUME NEW r \in Rounds, rounds'[r] # Resting PROVE HonestRound(r)'
    <2>1. rounds[r] # Resting /\ HonestRound(r) /\ Current(r)' = Current(r)
        BY <1>1, <1>4 DEF WebhookInv, Current
    <2>2. /\ \A i \in DOMAIN rounds[r].batch : i \in 1 .. Len(deliveries)
          /\ Current(r) \in 1 .. Len(deliveries)
        BY <2>1, CurrentIs DEF WebhookInv
    <2> QED
        BY <1>1, <2>1, <2>2 DEF HonestRound
<1> QED
    BY <1>1, <1>3, <1>4 DEF WebhookInv

(* everything the webhooks do keeps the invariant *)
LEMMA WebhookWorkKeeps ==
    ASSUME WebhookInv, WebhookWork PROVE WebhookInv'
<1>1. ASSUME NEW ep \in Endpoints, Toggle(ep) PROVE WebhookInv'
    <2>1. outbox' \in [Events -> Nat] /\ faults' \in 0 .. MaxFaults /\ active' \subseteq Endpoints
        BY <1>1 DEF Toggle, WebhookInv, WebhookTypeOK
    <2> QED
        BY <1>1, <2>1, WebhookStutter DEF Toggle
<1>2. ASSUME NEW e \in Events, DispatchFails(e) PROVE WebhookInv'
    <2>1. /\ outbox' \in [Events -> Nat] /\ active' \subseteq Endpoints
          /\ faults' \in 0 .. MaxFaults
        BY <1>2, WebhookAssumption DEF DispatchFails, WebhookInv, WebhookTypeOK
    <2> QED
        BY <1>2, <2>1, WebhookStutter DEF DispatchFails
<1> QED
    BY <1>1, <1>2, DispatchKeeps, BeginKeeps, PostKeeps, RecordKeeps, RecordFailsKeeps DEF WebhookWork

LEMMA RestartKeeps ==
    ASSUME WebhookInv, Restart PROVE WebhookInv'
<1>1. /\ rounds' = [r \in Rounds |-> Resting]
      /\ outbox' \in [Events -> Nat]
      /\ faults' \in 0 .. MaxFaults
      /\ UNCHANGED <<deliveries, posts, accepted, active>>
    BY WebhookAssumption DEF Restart, LoseWebhooks, WebhookInv, WebhookTypeOK
<1>2. WebhookTypeOK'
    BY <1>1 DEF WebhookInv, WebhookTypeOK
<1>3. \A i \in 1 .. Len(deliveries)' : HonestRow(i)'
    BY <1>1 DEF WebhookInv, HonestRow
<1> QED
    BY <1>1, <1>2, <1>3 DEF WebhookInv

LEMMA WebhookStarts ==
    ASSUME WebhookInit PROVE WebhookInv
<1>1. /\ deliveries = <<>> /\ posts = <<>> /\ accepted = <<>>
      /\ rounds = [r \in Rounds |-> Resting]
      /\ outbox = [e \in Events |-> 0] /\ active = Endpoints /\ faults = 0
    BY DEF WebhookInit
<1>2. Len(deliveries) = 0 /\ 1 .. Len(deliveries) = {}
    BY <1>1
<1>3. WebhookTypeOK
    BY <1>1, <1>2, WebhookAssumption DEF WebhookTypeOK
<1> QED
    BY <1>1, <1>2, <1>3 DEF WebhookInv

-----------------------------------------------------------------------------
(* The order in which a poll handles events *)

LEMMA RankIs ==
    \A k, l \in Kinds : Rank(k) \in Nat /\ (Rank(k) = Rank(l) => k = l)
<1>1. \A k, l \in {"registered", "created", "adds", "sets", "score"} :
          Rank(k) \in Nat /\ (Rank(k) = Rank(l) => k = l)
    BY DEF Rank
<1> QED
    BY <1>1, IndexerAssumption

(* Before orders blocks totally; so the first of some blocks is one of them and *)
(* comes before every other.                                                    *)
LEMMA FirstIs ==
    ASSUME chain \in Seq(Kinds), NEW S \in SUBSET (1 .. Len(chain)), S # {}
    PROVE  /\ FirstOf(S) \in S
           /\ \A c \in S \ {FirstOf(S)} : Before(FirstOf(S), c)
<1>1. \A b \in S : chain[b] \in Kinds /\ b \in Nat
    BY ElementOfSeq, LenProperties
<1> DEFINE ranks == {Rank(chain[b]) : b \in S}
<1>2. ranks \in SUBSET Nat /\ ranks # {}
    <2>1. \A b \in S : Rank(chain[b]) \in Nat
        BY <1>1, RankIs
    <2> QED
        BY <2>1
<1>3. PICK r \in ranks : \A k \in ranks : r <= k
    <2> HIDE DEF ranks
    <2> QED
        BY <1>2, LeastNat
<1> DEFINE T == {b \in S : Rank(chain[b]) = r}
<1>4. T \in SUBSET Nat /\ T # {}
    BY <1>1
<1>5. PICK m \in T : \A k \in T : m <= k
    <2> HIDE DEF T
    <2> QED
        BY <1>4, LeastNat
<1>6. ASSUME NEW c \in S \ {m} PROVE Before(m, c)
    <2>1. r <= Rank(chain[c]) /\ Rank(chain[m]) = r /\ m \in S
        BY <1>3
    <2>2. CASE Rank(chain[c]) = r
        <3>1. c \in T
            BY <2>2
        <3>2. m <= c /\ m # c /\ m \in Nat /\ c \in Nat
            BY <1>1, <1>5, <3>1, <2>1
        <3>3. chain[m] = chain[c]
            BY <1>1, <2>1, <2>2, RankIs
        <3> QED
            BY <3>2, <3>3 DEF Before
    <2>3. CASE Rank(chain[c]) # r
        <3>1. Rank(chain[c]) \in Nat /\ r \in Nat
            BY <1>1, <2>1, RankIs
        <3> QED
            BY <2>1, <2>3, <3>1 DEF Before
    <2> QED
        BY <2>2, <2>3
<1>7. m \in S
    OBVIOUS
<1> QED
    BY <1>6, <1>7 DEF FirstOf

FirstWorks ==
    \A S \in SUBSET (1 .. Len(chain)) : S # {} =>
        /\ FirstOf(S) \in S
        /\ \A c \in S \ {FirstOf(S)} : Before(FirstOf(S), c)

LEMMA FirstOfWorks == chain \in Seq(Kinds) => FirstWorks
BY FirstIs DEF FirstWorks

(* no two blocks come before each other *)
LEMMA BeforeOneWay ==
    ASSUME chain \in Seq(Kinds), NEW b \in 1 .. Len(chain), NEW c \in 1 .. Len(chain),
           Before(b, c)
    PROVE  ~ Before(c, b)
<1>1. chain[b] \in Kinds /\ chain[c] \in Kinds /\ b \in Nat /\ c \in Nat
    BY ElementOfSeq, LenProperties
<1>2. Rank(chain[b]) \in Nat /\ Rank(chain[c]) \in Nat
    BY <1>1, RankIs
<1> QED
    BY <1>1, <1>2 DEF Before

(* blocks that are mined later change nothing about the first of earlier ones *)
LEMMA FirstSame ==
    ASSUME chain \in Seq(Kinds), chain' \in Seq(Kinds), Len(chain) <= Len(chain'),
           \A b \in 1 .. Len(chain) : chain'[b] = chain[b],
           NEW S \in SUBSET (1 .. Len(chain)), S # {}
    PROVE  FirstOf(S)' = FirstOf(S)
<1>1. Len(chain) \in Nat /\ Len(chain') \in Nat /\ S \in SUBSET (1 .. Len(chain'))
    BY LenProperties
<1>2. FirstOf(S) \in S /\ \A c \in S \ {FirstOf(S)} : Before(FirstOf(S), c)
    BY FirstIs
<1>3. FirstOf(S)' \in S /\ \A c \in S \ {FirstOf(S)'} : Before(FirstOf(S), c)'
    <2>1. (chain \in Seq(Kinds))' => FirstWorks'
        BY FirstOfWorks, PTL
    <2> QED
        BY <1>1, <2>1 DEF FirstWorks
<1>4. PICK b, d : b = FirstOf(S) /\ d = FirstOf(S)'
    OBVIOUS
<1>5. b \in S /\ d \in S /\ b \in 1 .. Len(chain) /\ d \in 1 .. Len(chain)
    BY <1>2, <1>3, <1>4
<1> SUFFICES ASSUME b # d PROVE FALSE
    BY <1>4
<1>6. Before(b, d)
    BY <1>2, <1>4, <1>5
<1>7. Before(d, b)
    BY <1>3, <1>4, <1>5 DEF Before
<1> QED
    BY <1>5, <1>6, <1>7, BeforeOneWay

-----------------------------------------------------------------------------
(* The inductive invariant of the indexer *)

(* A poll that runs has the rest of its range to do, behind which its range     *)
(* begins                                                                       *)
PollOK(poll) ==
    \/ poll = Waiting
    \/ /\ poll.at = "scan" /\ poll.from \in 1 .. Len(chain) + 1
       /\ poll.to = 0 /\ poll.todo = {}
    \/ /\ poll.at \in {"update", "store", "advance"} /\ poll.from \in 1 .. poll.to
       /\ poll.todo \subseteq poll.from .. poll.to

(* What a poll is through with, and what it has applied to the tables           *)
Past(poll) == (1 .. poll.from - 1) \cup ((1 .. poll.to) \ poll.todo)

Applied(poll) ==
    IF poll.at = "store" THEN Past(poll) \cup {FirstOf(poll.todo)} ELSE Past(poll)

Through(b) == b <= lastBlock \/ \E p \in Pollers : b \in Past(pollers[p])

Seen(b) == b <= lastBlock \/ \E p \in Pollers : b \in Applied(pollers[p])

(* The vault is created before anything happens to it                           *)
CreatedFirst ==
    "created" \in Kinds =>
        \A b \in Blocks("adds") \cup Blocks("sets") : \E c \in Blocks("created") : c < b

VaultKnown ==
    /\ "created" \notin Kinds => vault.exists
    /\ \A c \in Blocks("created") : Seen(c) => vault.exists

ThroughStored ==
    \A b \in 1 .. Len(chain) \ Blocks("registered") : Through(b) => b \in stored \cup missed

SeenAdds == {b \in Blocks("adds") : Seen(b)}

SeenAdded == vault.added >= Cardinality(SeenAdds \ missed)

(* Without overlaps there is one poll at most, and it is ahead of the cursor    *)
Alone ==
    overlaps = 0 =>
        /\ \A p, q \in Busy : p = q
        /\ \A p \in Busy : pollers[p].from = lastBlock + 1

(* Of the registered agents a poll is through with, one has no score only if    *)
(* its transaction failed                                                       *)
ScoredOnce ==
    /\ \A b \in Events :
          scored[b] = IF b \in Blocks("registered") \ missed /\ Seen(b) THEN 1 ELSE 0
    /\ \A b \in Blocks("registered") \cap missed : Seen(b)

Undisturbed == faults = 0 /\ overlaps = 0 /\ ~ thrown

AppliedOnce == Undisturbed => vault.added = Cardinality(SeenAdds) /\ ScoredOnce

(* A poll copies what the contract's column was oldest first                    *)
Oldest(poll) ==
    \A c, d \in Blocks("sets") :
        c >= poll.from /\ c <= poll.to /\ c \notin poll.todo /\ d \in poll.todo => c < d

OldestFirst == \A p \in Pollers : Oldest(pollers[p])

SetsCopied ==
    /\ vault.set <= SetBy(Len(chain))
    /\ overlaps = 0 /\ Blocks("sets") \cap missed = {} =>
          \A b \in Blocks("sets") : Seen(b) => vault.set >= SetBy(b)

IndexerInv ==
    /\ \A p \in Pollers : PollOK(pollers[p])
    /\ CreatedFirst
    /\ VaultKnown
    /\ ThroughStored
    /\ SeenAdded
    /\ Alone
    /\ AppliedOnce
    /\ OldestFirst
    /\ SetsCopied

Inv == WebhookInv /\ TypeOK /\ IndexerInv

-----------------------------------------------------------------------------
(* What the types say, and what follows from the invariant *)

LEMMA Fields ==
    ASSUME TypeOK
    PROVE  /\ chain \in Seq(Kinds) /\ Len(chain) \in Nat
           /\ Len(chain) <= Cardinality(Events) /\ Cardinality(Events) \in Nat
           /\ \A b \in 1 .. Len(chain) : b \in Nat /\ b \in Events /\ chain[b] \in Kinds
           /\ lastBlock \in Nat /\ lastBlock <= Len(chain)
           /\ vault \in [exists : BOOLEAN, added : Nat, set : Nat, merchant : BOOLEAN]
           /\ stored \subseteq 1 .. Len(chain) /\ missed \subseteq 1 .. Len(chain)
           /\ scored \in [Events -> 0 .. 2]
           /\ DOMAIN pollers = Pollers
           /\ overlaps \in Nat /\ overlaps <= MaxOverlaps /\ MaxOverlaps \in Nat
           /\ thrown \in BOOLEAN
           /\ faults \in Nat /\ MaxFaults \in Nat
<1>1. chain \in Seq(Kinds) /\ Len(chain) \in Nat /\ Len(chain) <= Cardinality(Events)
    BY LenProperties DEF TypeOK
<1>2. Cardinality(Events) \in Nat
    BY FS_CardinalityType, WebhookAssumption
<1>3. \A b \in 1 .. Len(chain) : b \in Nat /\ b \in 1 .. Cardinality(Events) /\ chain[b] \in Kinds
    BY <1>1, <1>2, ElementOfSeq
<1>4. lastBlock \in Nat /\ lastBlock <= Len(chain) /\ overlaps \in Nat /\ overlaps <= MaxOverlaps
      /\ MaxOverlaps \in Nat
    BY <1>1, IndexerAssumption DEF TypeOK
<1>5. faults \in Nat /\ MaxFaults \in Nat
    BY WebhookAssumption DEF TypeOK, WebhookTypeOK
<1>6. vault \in [exists : BOOLEAN, added : Nat, set : Nat, merchant : BOOLEAN]
    BY <1>1 DEF TypeOK
<1>7. stored \subseteq 1 .. Len(chain) /\ missed \subseteq 1 .. Len(chain)
      /\ scored \in [Events -> 0 .. 2] /\ DOMAIN pollers = Pollers /\ thrown \in BOOLEAN
    BY DEF TypeOK
<1>8. \A b \in 1 .. Cardinality(Events) : b \in Events
    BY IndexerAssumption
<1> QED
    BY <1>1, <1>2, <1>3, <1>4, <1>5, <1>6, <1>7, <1>8

PollType == [at : {"idle", "scan", "update", "store", "advance"},
             from : Nat, to : 0 .. Len(chain), todo : SUBSET (1 .. Len(chain))]

LEMMA PollFields ==
    ASSUME TypeOK, NEW p \in Pollers
    PROVE  /\ pollers[p] \in PollType
           /\ pollers[p].from \in Nat
           /\ pollers[p].to \in Nat /\ pollers[p].to <= Len(chain)
           /\ pollers[p].todo \in SUBSET (1 .. Len(chain))
           /\ pollers[p].at \in {"update", "store"} <=> pollers[p].todo # {}
<1>1. pollers[p] \in PollType
    BY DEF TypeOK, PollType
<1>2. Len(chain) \in Nat
    BY Fields
<1>3. pollers[p].at \in {"update", "store"} <=> pollers[p].todo # {}
    BY DEF TypeOK
<1> QED
    BY <1>1, <1>2, <1>3 DEF PollType

(* the event a poll is at is one of those it is still to do *)
LEMMA AtIs ==
    ASSUME TypeOK, NEW p \in Pollers, pollers[p].at \in {"update", "store"}
    PROVE  LET b == FirstOf(pollers[p].todo)
           IN  /\ b \in pollers[p].todo
               /\ b \in 1 .. Len(chain) /\ b \in Nat /\ b \in Events /\ chain[b] \in Kinds
               /\ \A c \in pollers[p].todo \ {b} : Before(b, c)
<1>1. pollers[p].todo \in SUBSET (1 .. Len(chain)) /\ pollers[p].todo # {}
    BY PollFields
<1>2. /\ FirstOf(pollers[p].todo) \in pollers[p].todo
      /\ \A c \in pollers[p].todo \ {FirstOf(pollers[p].todo)} : Before(FirstOf(pollers[p].todo), c)
    BY <1>1, Fields, FirstIs
<1> QED
    BY <1>1, <1>2, Fields

LEMMA WaitingIs ==
    /\ Waiting.at = "idle" /\ Waiting.from = 0 /\ Waiting.to = 0 /\ Waiting.todo = {}
    /\ Past(Waiting) = {} /\ Applied(Waiting) = {}
    /\ Waiting \in PollType <=> 0 \in 0 .. Len(chain)
<1>1. Waiting.at = "idle" /\ Waiting.from = 0 /\ Waiting.to = 0 /\ Waiting.todo = {}
    BY DEF Waiting
<1>2. Past(Waiting) = {}
    BY <1>1 DEF Past
<1>3. Applied(Waiting) = {}
    BY <1>1, <1>2 DEF Applied
<1>4. Waiting \in PollType <=> 0 \in 0 .. Len(chain)
    BY DEF Waiting, PollType
<1> QED
    BY <1>1, <1>2, <1>3, <1>4

LEMMA BlocksIs ==
    ASSUME TypeOK, NEW kind
    PROVE  /\ Blocks(kind) \subseteq 1 .. Len(chain)
           /\ Blocks(kind) \subseteq Nat
           /\ \A S \in SUBSET Blocks(kind) : IsFiniteSet(S) /\ Cardinality(S) \in Nat
<1>1. Len(chain) \in Nat
    BY Fields
<1>2. Blocks(kind) \subseteq 1 .. Len(chain)
    BY DEF Blocks
<1>3. ASSUME NEW S \in SUBSET Blocks(kind) PROVE IsFiniteSet(S) /\ Cardinality(S) \in Nat
    <2>1. S \in SUBSET (1 .. Len(chain)) /\ IsFiniteSet(1 .. Len(chain))
        BY <1>1, <1>2, FS_Interval
    <2>2. IsFiniteSet(S)
        BY <2>1, FS_Subset
    <2> QED
        BY <2>2, FS_CardinalityType
<1> QED
    BY <1>1, <1>2, <1>3

(* the contract's column only goes on *)
LEMMA SetByGrows ==
    ASSUME TypeOK, NEW b \in Nat, NEW c \in Nat, b <= c
    PROVE  SetBy(b) \in Nat /\ SetBy(c) \in Nat /\ SetBy(b) <= SetBy(c)
<1> DEFINE B == {k \in Blocks("sets") : k <= b}
           C == {k \in Blocks("sets") : k <= c}
<1>1. B \in SUBSET C /\ B \in SUBSET Blocks("sets") /\ C \in SUBSET Blocks("sets")
    BY BlocksIs
<1> HIDE DEF B, C
<1>2. IsFiniteSet(C) /\ Cardinality(B) \in Nat /\ Cardinality(C) \in Nat
    BY <1>1, BlocksIs
<1>3. Cardinality(B) <= Cardinality(C)
    BY <1>1, <1>2, FS_Subset
<1> QED
    BY <1>2, <1>3 DEF SetBy, B, C

-----------------------------------------------------------------------------
(* The properties follow from the invariant *)

LEMMA StoredFromInv == Inv => StoredUpToCursor
BY DEF Inv, IndexerInv, ThroughStored, Through, StoredUpToCursor

LEMMA AddedFromInv == Inv => AddedNeverBehind
<1> SUFFICES ASSUME Inv PROVE AddedNeverBehind
    OBVIOUS
<1> DEFINE behind == {b \in Blocks("adds") \ missed : b <= lastBlock}
           seen == SeenAdds \ missed
<1>1. behind \in SUBSET seen /\ seen \in SUBSET Blocks("adds") /\ behind \in SUBSET Blocks("adds")
    BY DEF SeenAdds, Seen
<1> HIDE DEF behind, seen
<1>2. IsFiniteSet(seen) /\ Cardinality(seen) \in Nat /\ Cardinality(behind) \in Nat
    BY <1>1, BlocksIs DEF Inv
<1>3. Cardinality(behind) <= Cardinality(seen)
    BY <1>1, <1>2, FS_Subset
<1>4. vault.added >= Cardinality(seen) /\ vault.added \in Nat
    BY Fields DEF Inv, IndexerInv, SeenAdded, seen
<1> QED
    BY <1>2, <1>3, <1>4 DEF AddedNeverBehind, behind

(* with no poll running, what has been applied is what the cursor is past *)
LEMMA SeenAtRest ==
    ASSUME Busy = {}
    PROVE  \A b : Seen(b) <=> b <= lastBlock
<1>1. \A p \in Pollers : pollers[p] = Waiting
    BY DEF Busy
<1>2. \A p \in Pollers : Applied(pollers[p]) = {}
    BY <1>1, WaitingIs
<1> QED
    BY <1>2 DEF Seen

LEMMA ExactFromInv == Inv => ExactUntilRedone
<1> SUFFICES ASSUME Inv, Undisturbed, Busy = {}
             PROVE  /\ vault.added = Cardinality({b \in Blocks("adds") : b <= lastBlock})
                    /\ \A b \in Blocks("registered") :
                          b <= lastBlock => scored[b] = IF b \in missed THEN 0 ELSE 1
    BY DEF ExactUntilRedone, Undisturbed
<1>1. vault.added = Cardinality(SeenAdds) /\ ScoredOnce
    BY DEF Inv, IndexerInv, AppliedOnce
<1>2. SeenAdds = {b \in Blocks("adds") : b <= lastBlock}
    BY SeenAtRest DEF SeenAdds
<1>3. \A b \in Blocks("registered") : b \in Events
    BY Fields, BlocksIs DEF Inv
<1> QED
    BY <1>1, <1>2, <1>3, SeenAtRest DEF ScoredOnce

LEMMA MirrorsFromInv == Inv => MirrorsChain
<1> SUFFICES ASSUME Inv, Busy = {}, overlaps = 0, lastBlock = Len(chain),
                    Blocks("sets") \cap missed = {}
             PROVE  vault.set = SetBy(lastBlock)
    BY DEF MirrorsChain
<1>1. /\ vault.set <= SetBy(lastBlock)
      /\ \A b \in Blocks("sets") : b <= lastBlock => vault.set >= SetBy(b)
      /\ vault.set \in Nat /\ lastBlock \in Nat
    BY SeenAtRest, Fields DEF Inv, IndexerInv, SetsCopied
<1>2. SetBy(lastBlock) \in Nat
    BY <1>1, SetByGrows DEF Inv
<1>3. CASE Blocks("sets") = {}
    <2>1. {k \in Blocks("sets") : k <= lastBlock} = {}
        BY <1>3
    <2>2. SetBy(lastBlock) = 0
        BY <2>1, FS_EmptySet DEF SetBy
    <2> QED
        BY <1>1, <2>2
<1>4. CASE Blocks("sets") # {}
    <2> DEFINE later == {k \in Nat : \A b \in Blocks("sets") : b <= k}
    <2>1. later \in SUBSET Nat /\ lastBlock \in later
        BY <1>1, BlocksIs, Fields DEF Inv
    <2>2. PICK m \in later : \A k \in later : m <= k
        <3> HIDE DEF later
        <3> QED
            BY <2>1, LeastNat
    <2>3. m \in Blocks("sets")
        <3> SUFFICES ASSUME m \notin Blocks("sets") PROVE FALSE
            OBVIOUS
        <3>1. \A b \in Blocks("sets") : b \in Nat /\ b >= 1 /\ b <= m /\ b # m
            BY BlocksIs, Fields DEF Inv
        <3>2. m - 1 \in later
            BY <1>4, <3>1
        <3> QED
            BY <2>2, <3>2
    <2>4. {k \in Blocks("sets") : k <= m} = {k \in Blocks("sets") : k <= lastBlock}
        BY <2>1
    <2>5. SetBy(m) = SetBy(lastBlock)
        BY <2>4 DEF SetBy
    <2>6. m <= lastBlock
        BY <2>1, <2>2
    <2> QED
        BY <1>1, <1>2, <2>3, <2>5, <2>6
<1> QED
    BY <1>3, <1>4

-----------------------------------------------------------------------------
(* How a poll moves *)

Consistent(poll) ==
    poll \in PollType /\ PollOK(poll) /\ (poll.at \in {"update", "store"} <=> poll.todo # {})

(* every poll is consistent, a waiting one in particular *)
LEMMA PollsConsistent ==
    ASSUME TypeOK, IndexerInv
    PROVE  Consistent(Waiting) /\ \A p \in Pollers : Consistent(pollers[p])
<1>1. Consistent(Waiting)
    <2>1. 0 \in 0 .. Len(chain)
        BY Fields
    <2> QED
        BY <2>1, WaitingIs DEF Consistent, PollOK
<1>2. \A p \in Pollers : Consistent(pollers[p])
    BY PollFields DEF IndexerInv, Consistent
<1> QED
    BY <1>1, <1>2

(* a poll that begins is through with what the cursor is past *)
LEMMA ReadIs ==
    ASSUME TypeOK
    PROVE  LET poll == [Waiting EXCEPT !.at = "scan", !.from = lastBlock + 1]
           IN  /\ Consistent(poll) /\ poll # Waiting
               /\ Applied(poll) = Past(poll) /\ Past(poll) = 1 .. lastBlock
               /\ poll.from = lastBlock + 1 /\ poll.todo = {}
<1> DEFINE poll == [Waiting EXCEPT !.at = "scan", !.from = lastBlock + 1]
<1>1. PICK w \in PollType : w = Waiting
    BY WaitingIs, Fields
<1> DEFINE later == [[w EXCEPT !.at = "scan"] EXCEPT !.from = lastBlock + 1]
<1>2. later.at = "scan" /\ later.from = lastBlock + 1 /\ later.to = 0 /\ later.todo = {}
    BY <1>1, WaitingIs DEF PollType
<1>3. later \in PollType
    <2>1. lastBlock + 1 \in Nat
        BY Fields
    <2> QED
        BY <2>1 DEF PollType
<1>4. poll = later
    BY <1>1
<1> HIDE DEF poll, later
<1>5. PollOK(poll)
    BY <1>2, <1>4, Fields DEF PollOK
<1>6. Past(poll) = 1 .. lastBlock
    BY <1>2, <1>4, Fields DEF Past
<1>7. poll # Waiting
    BY <1>2, <1>4, WaitingIs
<1> QED
    BY <1>2, <1>3, <1>4, <1>5, <1>6, <1>7 DEF Consistent, Applied, poll

(* the end of a range is on the chain *)
LEMMA RangeEndIs ==
    ASSUME TypeOK, NEW from \in Nat, from <= Len(chain), from >= 1
    PROVE  /\ RangeEnd(from) \in Nat /\ RangeEnd(from) <= Len(chain) /\ from <= RangeEnd(from)
           /\ (from .. RangeEnd(from)) \cap (1 .. Len(chain)) = from .. RangeEnd(from)
<1>1. RangeEnd(from) \in Nat /\ RangeEnd(from) <= Len(chain) /\ from <= RangeEnd(from)
    BY Fields, IndexerAssumption DEF RangeEnd
<1> QED
    BY <1>1, Fields

(* a poll that has read its range is through with what is not in the list *)
LEMMA FetchedIs ==
    ASSUME TypeOK, NEW from \in Nat, from >= 1, from <= Len(chain),
           NEW blocks \in SUBSET (from .. RangeEnd(from))
    PROVE  LET poll == [at |-> IF blocks = {} THEN "advance" ELSE "update",
                        from |-> from, to |-> RangeEnd(from), todo |-> blocks]
           IN  /\ Consistent(poll) /\ poll # Waiting
               /\ Applied(poll) = Past(poll)
               /\ Past(poll) = (1 .. from - 1) \cup ((from .. RangeEnd(from)) \ blocks)
               /\ poll.from = from /\ poll.to = RangeEnd(from) /\ poll.todo = blocks
<1> DEFINE to == RangeEnd(from)
           poll == [at |-> IF blocks = {} THEN "advance" ELSE "update",
                    from |-> from, to |-> to, todo |-> blocks]
<1>1. to \in Nat /\ to <= Len(chain) /\ from <= to /\ Len(chain) \in Nat
    BY RangeEndIs, Fields
<1> HIDE DEF to
<1>2. blocks \in SUBSET (from .. to)
    BY DEF to
<1>3. /\ poll.at = IF blocks = {} THEN "advance" ELSE "update"
      /\ poll.from = from /\ poll.to = to /\ poll.todo = blocks
    OBVIOUS
<1>4. poll \in PollType
    <2>1. to \in 0 .. Len(chain) /\ blocks \in SUBSET (1 .. Len(chain))
        BY <1>1, <1>2
    <2> QED
        BY <2>1 DEF PollType
<1> HIDE DEF poll
<1>5. PollOK(poll)
    BY <1>1, <1>2, <1>3 DEF PollOK
<1>6. Past(poll) = (1 .. from - 1) \cup ((from .. to) \ blocks)
    BY <1>1, <1>2, <1>3 DEF Past
<1>7. Applied(poll) = Past(poll) /\ poll # Waiting
    BY <1>3, WaitingIs DEF Applied
<1> QED
    BY <1>3, <1>4, <1>5, <1>6, <1>7 DEF Consistent, poll, to

(* going on to the next event, a poll is through with the one it was at *)
LEMMA RestIs ==
    ASSUME TypeOK, NEW p \in Pollers, Consistent(pollers[p]),
           pollers[p].at \in {"update", "store"}
    PROVE  LET poll == Rest(pollers[p])
               b == FirstOf(pollers[p].todo)
           IN  /\ Consistent(poll) /\ poll # Waiting
               /\ Applied(poll) = Past(poll)
               /\ Past(poll) = Past(pollers[p]) \cup {b}
               /\ poll.from = pollers[p].from /\ poll.to = pollers[p].to
               /\ poll.todo = pollers[p].todo \ {b}
<1> DEFINE old == pollers[p]
           b == FirstOf(old.todo)
           poll == Rest(old)
<1>1. /\ old \in PollType /\ b \in old.todo
      /\ old.from \in 1 .. old.to /\ old.to \in Nat
      /\ old.todo \subseteq old.from .. old.to
    BY AtIs, PollFields, WaitingIs DEF Consistent, PollOK
<1> HIDE DEF old, b
<1>2. poll = [[old EXCEPT !.at = IF old.todo \ {b} = {} THEN "advance" ELSE "update"]
                 EXCEPT !.todo = old.todo \ {b}]
    BY <1>1 DEF Rest, b, PollType
<1>3. poll \in PollType
    BY <1>1, <1>2 DEF PollType
<1>4. /\ poll.at = IF old.todo \ {b} = {} THEN "advance" ELSE "update"
      /\ poll.from = old.from /\ poll.to = old.to /\ poll.todo = old.todo \ {b}
    BY <1>1, <1>2 DEF PollType
<1> HIDE DEF poll
<1>5. PollOK(poll)
    BY <1>1, <1>4 DEF PollOK
<1>6. b \in 1 .. old.to
    BY <1>1
<1>7. Past(poll) = Past(old) \cup {b}
    BY <1>4, <1>6 DEF Past
<1>8. Applied(poll) = Past(poll) /\ poll # Waiting
    BY <1>4, WaitingIs DEF Applied
<1> QED
    BY <1>3, <1>4, <1>5, <1>7, <1>8 DEF Consistent, poll, old, b

(* a poll whose handler has changed the row has its event to store *)
LEMMA StoringIs ==
    ASSUME TypeOK, NEW p \in Pollers, Consistent(pollers[p]), pollers[p].at = "update"
    PROVE  LET poll == [pollers[p] EXCEPT !.at = "store"]
               b == FirstOf(pollers[p].todo)
           IN  /\ Consistent(poll) /\ poll # Waiting
               /\ Applied(poll) = Past(pollers[p]) \cup {b}
               /\ Past(poll) = Past(pollers[p])
               /\ poll.from = pollers[p].from /\ poll.to = pollers[p].to
               /\ poll.todo = pollers[p].todo
<1> DEFINE old == pollers[p]
           poll == [old EXCEPT !.at = "store"]
<1>1. /\ old \in PollType /\ old.todo # {}
      /\ old.from \in 1 .. old.to /\ old.todo \subseteq old.from .. old.to
    BY AtIs, PollFields, WaitingIs DEF Consistent, PollOK
<1> HIDE DEF old
<1>2. poll \in PollType
    BY <1>1 DEF PollType
<1>3. poll.at = "store" /\ poll.from = old.from /\ poll.to = old.to /\ poll.todo = old.todo
    BY <1>1 DEF PollType
<1> HIDE DEF poll
<1>4. PollOK(poll)
    BY <1>1, <1>3 DEF PollOK
<1>5. Past(poll) = Past(old)
    BY <1>3 DEF Past
<1>6. Applied(poll) = Past(old) \cup {FirstOf(old.todo)} /\ poll # Waiting
    BY <1>3, <1>5, WaitingIs DEF Applied
<1> QED
    BY <1>1, <1>2, <1>3, <1>4, <1>5, <1>6 DEF Consistent, poll, old

-----------------------------------------------------------------------------
(* What a move of one poll changes *)

Moves(p, poll) == Consistent(poll) /\ UNCHANGED chain /\ pollers' = [pollers EXCEPT ![p] = poll]

LEMMA MoveTypes ==
    ASSUME TypeOK, WebhookTypeOK', NEW p \in Pollers, NEW poll, Moves(p, poll),
           lastBlock' \in 0 .. Len(chain),
           vault' \in [exists : BOOLEAN, added : Nat, set : 0 .. Len(chain), merchant : BOOLEAN],
           stored' \subseteq 1 .. Len(chain), missed' \subseteq 1 .. Len(chain),
           scored' \in [Events -> 0 .. 2], overlaps' \in 0 .. MaxOverlaps,
           thrown' \in BOOLEAN
    PROVE  TypeOK'
<1>1. pollers \in [Pollers -> PollType] /\ poll \in PollType
      /\ pollers' = [pollers EXCEPT ![p] = poll]
    BY DEF TypeOK, PollType, Moves, Consistent
<1>2. pollers' \in [Pollers -> PollType]
    BY <1>1
<1>3. \A q \in Pollers : pollers'[q].at \in {"update", "store"} <=> pollers'[q].todo # {}
    <2> SUFFICES ASSUME NEW q \in Pollers
                 PROVE  pollers'[q].at \in {"update", "store"} <=> pollers'[q].todo # {}
        OBVIOUS
    <2>1. pollers'[q] = IF q = p THEN poll ELSE pollers[q]
        BY <1>1
    <2>2. poll.at \in {"update", "store"} <=> poll.todo # {}
        BY DEF Moves, Consistent
    <2>3. pollers[q].at \in {"update", "store"} <=> pollers[q].todo # {}
        BY DEF TypeOK
    <2> QED
        BY <2>1, <2>2, <2>3
<1> QED
    BY <1>2, <1>3 DEF TypeOK, PollType, Moves

(* the event a poll has applied stays what it is when blocks are added *)
LEMMA AppliedSame ==
    ASSUME TypeOK, chain' \in Seq(Kinds), Len(chain) <= Len(chain'),
           \A b \in 1 .. Len(chain) : chain'[b] = chain[b],
           NEW poll, Consistent(poll)
    PROVE  Applied(poll)' = Applied(poll)
<1>1. CASE poll.at = "store"
    <2>1. poll.todo \in SUBSET (1 .. Len(chain)) /\ poll.todo # {}
        BY <1>1 DEF Consistent, PollType
    <2>2. FirstOf(poll.todo)' = FirstOf(poll.todo)
        BY <2>1, Fields, FirstSame
    <2> QED
        BY <1>1, <2>2 DEF Applied, Past
<1>2. CASE poll.at # "store"
    BY <1>2 DEF Applied, Past
<1> QED
    BY <1>1, <1>2

(* what is behind the polls after one of them moved *)
LEMMA MoveBehind ==
    ASSUME TypeOK, IndexerInv, NEW p \in Pollers, NEW poll, Moves(p, poll), NEW b
    PROVE  /\ Through(b)' <=> \/ b <= lastBlock'
                              \/ b \in Past(poll)
                              \/ \E q \in Pollers \ {p} : b \in Past(pollers[q])
           /\ Seen(b)' <=> \/ b <= lastBlock'
                           \/ b \in Applied(poll)
                           \/ \E q \in Pollers \ {p} : b \in Applied(pollers[q])
<1>1. \A q \in Pollers : pollers'[q] = IF q = p THEN poll ELSE pollers[q]
    BY Fields DEF Moves
<1>2. chain' \in Seq(Kinds) /\ Len(chain) <= Len(chain') /\ \A k \in 1 .. Len(chain) : chain'[k] = chain[k]
    BY Fields DEF Moves
<1>3. Applied(poll)' = Applied(poll) /\ \A q \in Pollers : Consistent(pollers[q])
    BY <1>2, AppliedSame, PollsConsistent DEF Moves
<1>4. ASSUME NEW q \in Pollers \ {p} PROVE Applied(pollers[q])' = Applied(pollers[q])
    <2>1. PICK other : other = pollers[q]
        OBVIOUS
    <2>2. Applied(other)' = Applied(other)
        BY <1>2, <1>3, <2>1, AppliedSame
    <2>3. pollers'[q] = other
        BY <1>1, <2>1
    <2> QED
        BY <2>1, <2>2, <2>3 DEF Applied, Past
<1>5. Applied(pollers[p])' = Applied(poll)
    BY <1>1, <1>3 DEF Applied, Past
<1>6. Seen(b)' <=> b <= lastBlock' \/ \E q \in Pollers : b \in Applied(pollers[q])'
    BY DEF Seen
<1>7. Through(b)' <=> \/ b <= lastBlock'
                      \/ b \in Past(poll)
                      \/ \E q \in Pollers \ {p} : b \in Past(pollers[q])
    BY <1>1 DEF Through, Past
<1> QED
    BY <1>4, <1>5, <1>6, <1>7

-----------------------------------------------------------------------------
(* What steps that leave the tables alone keep *)

(* Nothing is applied that was not, but for what a failure left out             *)
LEMMA QuietKeeps ==
    ASSUME TypeOK, IndexerInv, TypeOK',
           UNCHANGED <<chain, vault>>,
           stored \subseteq stored', missed \subseteq missed', overlaps' = 0 => overlaps = 0,
           \A b \in 1 .. Len(chain) \ Blocks("registered") :
               Through(b)' => Through(b) \/ b \in stored' \cup missed',
           \A b \in 1 .. Len(chain) \ Blocks("registered") :
               Seen(b)' => Seen(b) \/ (b \in missed' /\ chain[b] \in {"adds", "sets"})
    PROVE  CreatedFirst' /\ VaultKnown' /\ ThroughStored' /\ SeenAdded' /\ SetsCopied'
<1>1. \A kind : Blocks(kind)' = Blocks(kind) /\ Blocks(kind) \subseteq 1 .. Len(chain)
    BY BlocksIs DEF Blocks
<1>2. CreatedFirst'
    BY <1>1 DEF IndexerInv, CreatedFirst
<1>3. VaultKnown'
    <2>1. \A b \in Blocks("created") : chain[b] \notin {"adds", "sets"} /\ b \notin Blocks("registered")
        BY DEF Blocks
    <2>2. \A b \in Blocks("created") : Seen(b)' => Seen(b)
        BY <1>1, <2>1
    <2> QED
        BY <1>1, <2>2 DEF IndexerInv, VaultKnown
<1>4. ThroughStored'
    BY <1>1 DEF IndexerInv, ThroughStored
<1>5. SeenAdded'
    <2>1. SeenAdds' = {b \in Blocks("adds") : Seen(b)'}
        BY <1>1 DEF SeenAdds
    <2> DEFINE new == SeenAdds' \ missed'
               old == SeenAdds \ missed
    <2>2. new \in SUBSET old
        <3> SUFFICES ASSUME NEW b \in Blocks("adds"), Seen(b)', b \notin missed' PROVE b \in old
            BY <2>1
        <3>1. b \notin Blocks("registered")
            BY DEF Blocks
        <3>2. Seen(b)
            BY <1>1, <3>1
        <3> QED
            BY <3>2 DEF SeenAdds
    <2>3. old \in SUBSET Blocks("adds") /\ new \in SUBSET Blocks("adds")
        BY <2>2 DEF SeenAdds
    <2> HIDE DEF new, old
    <2>4. IsFiniteSet(old) /\ Cardinality(old) \in Nat /\ Cardinality(new) \in Nat
        BY <2>3, BlocksIs
    <2>5. Cardinality(new) <= Cardinality(old)
        BY <2>2, <2>4, FS_Subset
    <2>6. vault.added >= Cardinality(old) /\ vault.added \in Nat
        BY Fields DEF IndexerInv, SeenAdded, old
    <2>7. vault'.added >= Cardinality(new)
        BY <2>4, <2>5, <2>6
    <2> QED
        BY <2>7 DEF SeenAdded, new
<1>6. SetsCopied'
    <2>1. \A b : SetBy(b)' = SetBy(b)
        BY <1>1 DEF SetBy
    <2>2. (vault.set <= SetBy(Len(chain)))'
        <3>1. vault.set <= SetBy(Len(chain))
            BY DEF IndexerInv, SetsCopied
        <3> QED
            BY <1>1, <3>1 DEF SetBy
    <2>3. ASSUME overlaps' = 0, Blocks("sets") \cap missed' = {}, NEW b \in Blocks("sets"), Seen(b)'
          PROVE  vault.set >= SetBy(b)
        <3>1. b \notin Blocks("registered")
            BY DEF Blocks
        <3>2. Seen(b)
            BY <1>1, <2>3, <3>1
        <3> QED
            BY <2>3, <3>2 DEF IndexerInv, SetsCopied
    <2> QED
        BY <1>1, <2>1, <2>2, <2>3 DEF SetsCopied
<1> QED
    BY <1>2, <1>3, <1>4, <1>5, <1>6

(* what was counted exactly stays so if what has been applied stays the same *)
LEMMA ExactKeeps ==
    ASSUME TypeOK, IndexerInv, UNCHANGED <<chain, vault, scored>>,
           Undisturbed' =>
               Undisturbed /\ UNCHANGED missed /\ \A b \in 1 .. Len(chain) : Seen(b)' <=> Seen(b)
    PROVE  AppliedOnce'
<1>1. \A kind : Blocks(kind)' = Blocks(kind) /\ Blocks(kind) \subseteq 1 .. Len(chain)
    BY BlocksIs DEF Blocks
<1> SUFFICES ASSUME Undisturbed' PROVE vault.added = Cardinality(SeenAdds') /\ ScoredOnce'
    BY DEF AppliedOnce
<1>2. \A b \in 1 .. Len(chain) : Seen(b)' <=> Seen(b)
    OBVIOUS
<1>3. SeenAdds' = SeenAdds
    BY <1>1, <1>2 DEF SeenAdds
<1>4. vault.added = Cardinality(SeenAdds) /\ ScoredOnce
    BY DEF IndexerInv, AppliedOnce
<1>5. \A b \in Blocks("registered") : Seen(b)' <=> Seen(b)
    BY <1>1, <1>2
<1>6. ScoredOnce'
    BY <1>1, <1>4, <1>5 DEF ScoredOnce
<1> QED
    BY <1>3, <1>4, <1>6

(* a poll that goes on, or ends, where it was alone *)
LEMMA AloneKeeps ==
    ASSUME TypeOK, IndexerInv, NEW p \in Busy, NEW poll, Moves(p, poll), UNCHANGED overlaps,
           \/ poll = Waiting
           \/ poll.from = pollers[p].from /\ UNCHANGED lastBlock
    PROVE  Alone'
<1>1. p \in Pollers /\ \A q \in Pollers : pollers'[q] = IF q = p THEN poll ELSE pollers[q]
    BY Fields DEF Moves, Busy
<1> SUFFICES ASSUME overlaps = 0
             PROVE  /\ \A q, r \in Busy' : q = r
                    /\ \A q \in Busy' : pollers'[q].from = lastBlock' + 1
    BY DEF Alone
<1>2. (\A q \in Busy : q = p) /\ pollers[p].from = lastBlock + 1
    BY DEF IndexerInv, Alone
<1>3. \A q \in Busy' : q = p /\ poll # Waiting
    BY <1>1, <1>2 DEF Busy
<1> QED
    BY <1>1, <1>2, <1>3

LEMMA OldestKeeps ==
    ASSUME TypeOK, IndexerInv, NEW p \in Pollers, NEW poll, Moves(p, poll), Oldest(poll)
    PROVE  OldestFirst'
<1>1. \A q \in Pollers : pollers'[q] = IF q = p THEN poll ELSE pollers[q]
    BY Fields DEF Moves
<1>2. Blocks("sets")' = Blocks("sets")
    BY DEF Moves, Blocks
<1>3. \A q \in Pollers : Oldest(pollers'[q])
    BY <1>1 DEF IndexerInv, OldestFirst
<1> QED
    BY <1>2, <1>3 DEF OldestFirst, Oldest

LEMMA PollsKeep ==
    ASSUME TypeOK, IndexerInv, NEW p \in Pollers, NEW poll, Moves(p, poll)
    PROVE  \A q \in Pollers : PollOK(pollers[q])'
<1>1. \A q \in Pollers : pollers'[q] = IF q = p THEN poll ELSE pollers[q]
    BY Fields DEF Moves
<1>2. \A q \in Pollers : PollOK(pollers'[q])
    BY <1>1 DEF IndexerInv, Moves, Consistent
<1> QED
    BY <1>2 DEF PollOK, Moves

-----------------------------------------------------------------------------
(* Each action of a poll keeps the invariant *)

LEMMA ReadCursorKeeps ==
    ASSUME Inv, WebhookInv', NEW p \in Pollers, ReadCursor(p)
    PROVE  TypeOK' /\ IndexerInv'
<1> DEFINE poll == [Waiting EXCEPT !.at = "scan", !.from = lastBlock + 1]
<1>1. TypeOK /\ IndexerInv /\ WebhookTypeOK' /\ UNCHANGED faults
    BY DEF Inv, WebhookInv, ReadCursor, Reads, webhookVars
<1>2. /\ Consistent(poll) /\ poll # Waiting
      /\ Applied(poll) = Past(poll) /\ Past(poll) = 1 .. lastBlock
      /\ poll.from = lastBlock + 1 /\ poll.todo = {}
    BY <1>1, ReadIs
<1>3. /\ pollers[p] = Waiting
      /\ pollers' = [pollers EXCEPT ![p] = poll]
      /\ \/ Busy = {} /\ UNCHANGED overlaps
         \/ overlaps < MaxOverlaps /\ overlaps' = overlaps + 1
      /\ UNCHANGED <<chain, lastBlock, vault, stored, scored, missed, thrown>>
    BY DEF ReadCursor, Reads, Goes
<1> HIDE DEF poll
<1>4. Moves(p, poll)
    BY <1>2, <1>3 DEF Moves
<1>5. overlaps' \in 0 .. MaxOverlaps /\ (overlaps' = 0 => overlaps = 0 /\ Busy = {})
    BY <1>1, <1>3, Fields
<1>6. TypeOK'
    BY <1>1, <1>3, <1>4, <1>5, MoveTypes DEF TypeOK
<1>7. ASSUME NEW b \in 1 .. Len(chain)
      PROVE  (Through(b)' <=> Through(b)) /\ (Seen(b)' <=> Seen(b))
    <2>1. b \in 1 .. lastBlock <=> b <= lastBlock
        BY <1>1, Fields
    <2>2. Past(pollers[p]) = {} /\ Applied(pollers[p]) = {}
        BY <1>3, WaitingIs
    <2>3. /\ Through(b)' <=> \/ b <= lastBlock' \/ b \in Past(poll)
                             \/ \E q \in Pollers \ {p} : b \in Past(pollers[q])
          /\ Seen(b)' <=> \/ b <= lastBlock' \/ b \in Applied(poll)
                          \/ \E q \in Pollers \ {p} : b \in Applied(pollers[q])
        BY <1>1, <1>4, MoveBehind
    <2>4. Through(b)' <=> b <= lastBlock \/ \E q \in Pollers \ {p} : b \in Past(pollers[q])
        BY <1>2, <1>3, <2>3, <2>1
    <2>5. Seen(b)' <=> b <= lastBlock \/ \E q \in Pollers \ {p} : b \in Applied(pollers[q])
        BY <1>2, <1>3, <2>3, <2>1
    <2>6. Through(b) <=> b <= lastBlock \/ \E q \in Pollers \ {p} : b \in Past(pollers[q])
        BY <2>2 DEF Through
    <2>7. Seen(b) <=> b <= lastBlock \/ \E q \in Pollers \ {p} : b \in Applied(pollers[q])
        BY <2>2 DEF Seen
    <2> QED
        BY <2>4, <2>5, <2>6, <2>7
<1>8. CreatedFirst' /\ VaultKnown' /\ ThroughStored' /\ SeenAdded' /\ SetsCopied'
    BY <1>1, <1>3, <1>5, <1>6, <1>7, QuietKeeps
<1>9. AppliedOnce'
    BY <1>1, <1>3, <1>5, <1>7, ExactKeeps DEF Undisturbed
<1>10. OldestFirst'
    BY <1>1, <1>2, <1>4, OldestKeeps DEF Oldest
<1>11. Alone'
    <2> SUFFICES ASSUME overlaps' = 0
                 PROVE  /\ \A q, r \in Busy' : q = r
                        /\ \A q \in Busy' : pollers'[q].from = lastBlock' + 1
        BY DEF Alone
    <2>1. \A q \in Pollers : pollers'[q] = IF q = p THEN poll ELSE Waiting
        BY <1>1, <1>3, <1>5, Fields DEF Busy
    <2>2. \A q \in Busy' : q = p /\ p \in Pollers
        BY <2>1 DEF Busy
    <2> QED
        BY <1>2, <1>3, <2>1, <2>2
<1> QED
    BY <1>1, <1>4, <1>6, <1>8, <1>9, <1>10, <1>11, PollsKeep DEF IndexerInv

(* a poll that ends: what it was through with counts no more *)
LEMMA EndKeeps ==
    ASSUME Inv, WebhookInv', NEW p \in Busy,
           pollers' = [pollers EXCEPT ![p] = Waiting],
           UNCHANGED <<chain, lastBlock, vault, stored, scored, missed, overlaps>>,
           thrown' \in BOOLEAN,
           \/ faults' > 0
           \/ thrown'
           \/ pollers[p].at = "scan" /\ UNCHANGED <<faults, thrown>>
    PROVE  TypeOK' /\ IndexerInv'
<1>1. TypeOK /\ IndexerInv /\ WebhookTypeOK' /\ p \in Pollers
    BY DEF Inv, WebhookInv, Busy
<1>2. Moves(p, Waiting)
    BY <1>1, PollsConsistent DEF Moves
<1>3. TypeOK'
    BY <1>1, <1>2, MoveTypes DEF TypeOK
<1>4. ASSUME NEW b \in 1 .. Len(chain)
      PROVE  (Through(b)' => Through(b)) /\ (Seen(b)' => Seen(b))
    BY <1>1, <1>2, MoveBehind, WaitingIs DEF Through, Seen
<1>5. CreatedFirst' /\ VaultKnown' /\ ThroughStored' /\ SeenAdded' /\ SetsCopied'
    BY <1>1, <1>3, <1>4, QuietKeeps
<1>6. AppliedOnce'
    <2>1. ASSUME Undisturbed', NEW b \in 1 .. Len(chain)
          PROVE  Seen(b)' <=> Seen(b)
        <3>1. pollers[p].at = "scan" /\ pollers[p].from = lastBlock + 1
            BY <1>3, <2>1, Fields DEF Inv, IndexerInv, Alone, Undisturbed
        <3>2. pollers[p].to = 0 /\ lastBlock \in Nat
            BY <1>1, <3>1, WaitingIs, Fields DEF IndexerInv, PollOK
        <3>3. Applied(pollers[p]) = 1 .. lastBlock
            BY <3>1, <3>2 DEF Applied, Past
        <3>4. b \in Applied(pollers[p]) => b <= lastBlock
            BY <3>2, <3>3
        <3> QED
            BY <1>1, <1>2, <1>4, <3>4, MoveBehind DEF Seen
    <2>2. Undisturbed' => Undisturbed
        BY <1>3, Fields DEF Undisturbed
    <2> QED
        BY <1>1, <2>1, <2>2, ExactKeeps
<1>7. OldestFirst'
    BY <1>1, <1>2, OldestKeeps, WaitingIs DEF Oldest
<1>8. Alone'
    BY <1>1, <1>2, AloneKeeps
<1> QED
    BY <1>1, <1>2, <1>3, <1>5, <1>6, <1>7, <1>8, PollsKeep DEF IndexerInv

LEMMA AdvanceKeeps ==
    ASSUME Inv, WebhookInv', NEW p \in Pollers, Advance(p)
    PROVE  TypeOK' /\ IndexerInv'
<1>1. TypeOK /\ IndexerInv /\ WebhookTypeOK' /\ UNCHANGED faults
    BY DEF Inv, WebhookInv, Advance, webhookVars
<1>2. /\ pollers[p].at = "advance" /\ lastBlock' = pollers[p].to
      /\ pollers' = [pollers EXCEPT ![p] = Waiting]
      /\ UNCHANGED <<chain, vault, stored, scored, missed, overlaps, thrown>>
    BY DEF Advance, Goes
<1>3. Moves(p, Waiting)
    BY <1>1, <1>2, PollsConsistent DEF Moves
<1>4. p \in Busy
    BY <1>2, WaitingIs DEF Busy
<1>5. /\ pollers[p].todo = {} /\ pollers[p].from \in 1 .. pollers[p].to
      /\ pollers[p].to \in Nat /\ pollers[p].to <= Len(chain)
    BY <1>1, <1>2, PollFields, WaitingIs DEF IndexerInv, PollOK
<1>6. Past(pollers[p]) = 1 .. lastBlock' /\ Applied(pollers[p]) = 1 .. lastBlock'
    BY <1>2, <1>5 DEF Past, Applied
<1>7. TypeOK'
    BY <1>1, <1>2, <1>3, <1>5, Fields, MoveTypes DEF TypeOK
<1>8. ASSUME NEW b \in 1 .. Len(chain)
      PROVE  (Through(b)' => Through(b)) /\ (Seen(b)' => Seen(b))
    <2>1. b \in 1 .. lastBlock' <=> b <= lastBlock'
        BY <1>2, <1>5
    <2> QED
        BY <1>1, <1>3, <1>6, <2>1, MoveBehind, WaitingIs DEF Through, Seen
<1>9. CreatedFirst' /\ VaultKnown' /\ ThroughStored' /\ SeenAdded' /\ SetsCopied'
    BY <1>1, <1>2, <1>7, <1>8, QuietKeeps
<1>10. AppliedOnce'
    <2>1. ASSUME overlaps = 0, NEW b \in 1 .. Len(chain), Seen(b)
          PROVE  Seen(b)'
        <3>1. pollers[p].from = lastBlock + 1
            BY <1>4, <2>1 DEF Inv, IndexerInv, Alone
        <3>2. b <= lastBlock => b <= lastBlock'
            BY <1>1, <1>2, <1>5, <3>1, Fields
        <3>3. b \in Applied(pollers[p]) => b <= lastBlock'
            BY <1>2, <1>5, <1>6
        <3> QED
            BY <1>1, <1>3, <2>1, <3>2, <3>3, MoveBehind DEF Seen
    <2> QED
        BY <1>1, <1>2, <1>8, <2>1, ExactKeeps DEF Undisturbed
<1>11. OldestFirst'
    BY <1>1, <1>3, OldestKeeps, WaitingIs DEF Oldest
<1>12. Alone'
    BY <1>1, <1>2, <1>3, <1>4, AloneKeeps
<1> QED
    BY <1>1, <1>3, <1>7, <1>9, <1>10, <1>11, <1>12, PollsKeep DEF IndexerInv

(* a poll that has read its range, but for what a failure lost *)
LEMMA FetchKeeps ==
    ASSUME Inv, WebhookInv', NEW p \in Pollers, pollers[p].at = "scan",
           NEW from, from = pollers[p].from, from <= Len(chain),
           NEW lost \in SUBSET ((from .. RangeEnd(from)) \cap (Blocks("adds") \cup Blocks("sets"))),
           NEW blocks, blocks = (from .. RangeEnd(from)) \ lost,
           Goes(p, [at |-> IF blocks = {} THEN "advance" ELSE "update",
                    from |-> from, to |-> RangeEnd(from), todo |-> blocks]),
           missed' = missed \cup lost,
           \/ lost = {} /\ UNCHANGED faults
           \/ /\ faults' > 0
              /\ lost = (from .. RangeEnd(from)) \cap (Blocks("adds") \cup Blocks("sets")),
           UNCHANGED <<chain, lastBlock, vault, stored, scored, overlaps, thrown>>
    PROVE  TypeOK' /\ IndexerInv'
<1> DEFINE poll == [at |-> IF blocks = {} THEN "advance" ELSE "update",
                    from |-> from, to |-> RangeEnd(from), todo |-> blocks]
<1>1. TypeOK /\ IndexerInv /\ WebhookTypeOK' /\ pollers' = [pollers EXCEPT ![p] = poll]
    BY DEF Inv, WebhookInv, Goes
<1>2. /\ from \in Nat /\ from >= 1 /\ pollers[p].to = 0 /\ pollers[p].todo = {}
      /\ pollers[p] # Waiting /\ p \in Busy
    <2>1. PollOK(pollers[p]) /\ pollers[p] # Waiting /\ Len(chain) \in Nat
        BY <1>1, WaitingIs, Fields DEF IndexerInv
    <2> QED
        BY <2>1 DEF PollOK, Busy
<1>3. /\ Past(pollers[p]) = 1 .. from - 1 /\ Applied(pollers[p]) = 1 .. from - 1
    BY <1>2 DEF Past, Applied
<1>4. /\ Consistent(poll) /\ poll # Waiting
      /\ Applied(poll) = Past(poll)
      /\ Past(poll) = (1 .. from - 1) \cup ((from .. RangeEnd(from)) \ blocks)
      /\ poll.from = from /\ poll.to = RangeEnd(from) /\ poll.todo = blocks
    BY <1>1, <1>2, FetchedIs
<1> HIDE DEF poll
<1>5. Moves(p, poll)
    BY <1>1, <1>4 DEF Moves
<1>6. Past(poll) = Past(pollers[p]) \cup lost /\ Applied(poll) = Applied(pollers[p]) \cup lost
    BY <1>3, <1>4
<1>7. lost \subseteq 1 .. Len(chain) /\ \A b \in lost : chain[b] \in {"adds", "sets"}
    BY DEF Blocks
<1>8. TypeOK'
    BY <1>1, <1>5, <1>7, MoveTypes DEF TypeOK
<1>9. ASSUME NEW b \in 1 .. Len(chain)
      PROVE  (Through(b)' <=> Through(b) \/ b \in lost) /\ (Seen(b)' <=> Seen(b) \/ b \in lost)
    <2>1. /\ Through(b)' <=> \/ b <= lastBlock' \/ b \in Past(poll)
                             \/ \E q \in Pollers \ {p} : b \in Past(pollers[q])
          /\ Seen(b)' <=> \/ b <= lastBlock' \/ b \in Applied(poll)
                          \/ \E q \in Pollers \ {p} : b \in Applied(pollers[q])
        BY <1>1, <1>5, MoveBehind
    <2> QED
        BY <1>6, <2>1 DEF Through, Seen
<1>10. CreatedFirst' /\ VaultKnown' /\ ThroughStored' /\ SeenAdded' /\ SetsCopied'
    <2>1. \A b \in 1 .. Len(chain) \ Blocks("registered") :
             Through(b)' => Through(b) \/ b \in stored' \cup missed'
        BY <1>9
    <2>2. \A b \in 1 .. Len(chain) \ Blocks("registered") :
             Seen(b)' => Seen(b) \/ (b \in missed' /\ chain[b] \in {"adds", "sets"})
        BY <1>7, <1>9
    <2> QED
        BY <1>1, <1>8, <2>1, <2>2, QuietKeeps
<1>11. AppliedOnce'
    <2>1. Undisturbed' => Undisturbed /\ lost = {} /\ missed' = missed
        BY DEF Undisturbed
    <2>2. lost = {} => \A b \in 1 .. Len(chain) : Seen(b)' <=> Seen(b)
        BY <1>9
    <2> QED
        BY <1>1, <2>1, <2>2, ExactKeeps
<1>12. OldestFirst'
    <2>1. ASSUME NEW c \in Blocks("sets"), NEW d \in Blocks("sets"),
                 c >= from, c <= RangeEnd(from), c \notin blocks, d \in blocks
          PROVE  FALSE
        <3>1. c \in from .. RangeEnd(from)
            BY <1>1, <1>2, <2>1, BlocksIs, RangeEndIs
        <3>2. c \in lost /\ d \notin lost /\ d \in from .. RangeEnd(from)
            BY <2>1, <3>1
        <3> QED
            BY <3>2
    <2>2. Oldest(poll)
        BY <1>4, <2>1 DEF Oldest
    <2> QED
        BY <1>1, <1>5, <2>2, OldestKeeps
<1>13. Alone'
    BY <1>1, <1>2, <1>4, <1>5, AloneKeeps
<1> QED
    BY <1>1, <1>5, <1>8, <1>10, <1>11, <1>12, <1>13, PollsKeep DEF IndexerInv

LEMMA ScanKeeps ==
    ASSUME Inv, WebhookInv', NEW p \in Pollers, Scan(p)
    PROVE  TypeOK' /\ IndexerInv'
<1>1. PICK from : from = pollers[p].from
    OBVIOUS
<1>2. /\ pollers[p].at = "scan"
      /\ UNCHANGED <<chain, lastBlock, vault, stored, scored, overlaps, thrown>>
    BY DEF Scan
<1>3. TypeOK /\ IndexerInv
    BY DEF Inv
<1>4. from \in Nat /\ from >= 1 /\ p \in Busy /\ Len(chain) \in Nat
    BY <1>1, <1>2, <1>3, WaitingIs, Fields DEF IndexerInv, PollOK, Busy
<1>5. CASE from > Len(chain)
    <2>1. thrown' \in BOOLEAN /\ UNCHANGED <<missed, faults>> /\ Goes(p, Waiting)
        BY <1>1, <1>2, <1>3, <1>5, Fields DEF Scan
    <2> QED
        BY <1>1, <1>2, <1>4, <2>1, EndKeeps DEF Goes
<1>6. CASE ~ (from > Len(chain))
    <2> DEFINE range == (from .. RangeEnd(from)) \cap (1 .. Len(chain))
               lost == range \cap (Blocks("adds") \cup Blocks("sets"))
               Fetched(blocks) == Goes(p, [at |-> IF blocks = {} THEN "advance" ELSE "update",
                                           from |-> from, to |-> RangeEnd(from), todo |-> blocks])
    <2>1. \/ Fetched(range) /\ UNCHANGED <<missed, faults>>
          \/ faults' = faults + 1 /\ Fetched(range \ lost) /\ missed' = missed \cup lost
        BY <1>1, <1>6 DEF Scan
    <2>2. from <= Len(chain) /\ range = from .. RangeEnd(from)
        BY <1>3, <1>4, <1>6, RangeEndIs
    <2>3. CASE Fetched(range) /\ UNCHANGED <<missed, faults>>
        BY <1>1, <1>2, <2>2, <2>3, FetchKeeps
    <2>4. CASE faults' = faults + 1 /\ Fetched(range \ lost) /\ missed' = missed \cup lost
        <3>1. faults' > 0
            BY <1>3, <2>4, Fields
        <3> QED
            BY <1>1, <1>2, <2>2, <2>4, <3>1, FetchKeeps
    <2> QED
        BY <2>1, <2>3, <2>4
<1> QED
    BY <1>5, <1>6

LEMMA StoreKeeps ==
    ASSUME Inv, WebhookInv', NEW p \in Pollers, Store(p)
    PROVE  TypeOK' /\ IndexerInv'
<1>1. PICK b, poll : b = FirstOf(pollers[p].todo) /\ poll = Rest(pollers[p])
    OBVIOUS
<1>2. TypeOK /\ IndexerInv /\ WebhookTypeOK'
    BY DEF Inv, WebhookInv
<1>3. /\ pollers[p].at = "store" /\ pollers' = [pollers EXCEPT ![p] = poll]
      /\ \/ stored' = stored \cup {b} /\ UNCHANGED <<missed, faults>>
         \/ faults' = faults + 1 /\ missed' = missed \cup {b} /\ UNCHANGED stored
      /\ UNCHANGED <<chain, lastBlock, vault, scored, overlaps, thrown>>
    BY <1>1 DEF Store, Goes
<1>4. /\ Consistent(poll) /\ poll # Waiting
      /\ Applied(poll) = Past(poll)
      /\ Past(poll) = Past(pollers[p]) \cup {b}
      /\ poll.from = pollers[p].from /\ poll.to = pollers[p].to
      /\ poll.todo = pollers[p].todo \ {b}
    BY <1>1, <1>2, <1>3, RestIs, PollsConsistent
<1>5. /\ b \in pollers[p].todo /\ b \in 1 .. Len(chain) /\ b \in Nat
      /\ \A c \in pollers[p].todo \ {b} : Before(b, c)
    BY <1>1, <1>2, <1>3, AtIs
<1>6. Moves(p, poll) /\ p \in Busy
    BY <1>3, <1>4, WaitingIs DEF Moves, Busy
<1>7. stored' \subseteq 1 .. Len(chain) /\ missed' \subseteq 1 .. Len(chain) /\ b \in stored' \cup missed'
    BY <1>2, <1>3, <1>5, Fields
<1>8. TypeOK'
    BY <1>2, <1>3, <1>6, <1>7, MoveTypes DEF TypeOK
<1>9. Applied(pollers[p]) = Past(pollers[p]) \cup {b}
    BY <1>1, <1>3 DEF Applied
<1>10. ASSUME NEW c \in 1 .. Len(chain)
       PROVE  (Through(c)' <=> Through(c) \/ c = b) /\ (Seen(c)' <=> Seen(c))
    <2>1. /\ Through(c)' <=> \/ c <= lastBlock' \/ c \in Past(poll)
                             \/ \E q \in Pollers \ {p} : c \in Past(pollers[q])
          /\ Seen(c)' <=> \/ c <= lastBlock' \/ c \in Applied(poll)
                          \/ \E q \in Pollers \ {p} : c \in Applied(pollers[q])
        BY <1>2, <1>6, MoveBehind
    <2> QED
        BY <1>3, <1>4, <1>9, <2>1 DEF Through, Seen
<1>11. CreatedFirst' /\ VaultKnown' /\ ThroughStored' /\ SeenAdded' /\ SetsCopied'
    <2>1. stored \subseteq stored' /\ missed \subseteq missed'
        BY <1>3
    <2> QED
        BY <1>2, <1>3, <1>7, <1>8, <1>10, <2>1, QuietKeeps
<1>12. AppliedOnce'
    <2>1. Undisturbed' => Undisturbed /\ UNCHANGED missed
        BY <1>2, <1>3, Fields DEF Undisturbed
    <2> QED
        BY <1>2, <1>3, <1>10, <2>1, ExactKeeps
<1>13. Oldest(poll)
    <2>1. ASSUME NEW d \in Blocks("sets"), d \in poll.todo, b \in Blocks("sets") PROVE b < d
        <3>1. Before(b, d) /\ chain[b] = chain[d] /\ chain[d] \in Kinds
            BY <1>2, <1>4, <1>5, <2>1, Fields DEF Blocks
        <3>2. Rank(chain[d]) \in Nat
            BY <3>1, RankIs
        <3> QED
            BY <3>1, <3>2 DEF Before
    <2> QED
        BY <1>2, <1>4, <2>1 DEF Oldest, IndexerInv, OldestFirst
<1>14. OldestFirst' /\ Alone'
    BY <1>2, <1>3, <1>4, <1>6, <1>13, OldestKeeps, AloneKeeps
<1> QED
    BY <1>2, <1>6, <1>8, <1>11, <1>12, <1>14, PollsKeep DEF IndexerInv

(* nothing is applied to the vault before the vault is known *)
LEMMA KnownByThen ==
    ASSUME TypeOK, IndexerInv, NEW p \in Pollers, pollers[p].at = "update",
           NEW b, b = FirstOf(pollers[p].todo), b \in Blocks("adds") \cup Blocks("sets")
    PROVE  vault.exists
<1> SUFFICES ASSUME "created" \in Kinds PROVE vault.exists
    BY DEF IndexerInv, VaultKnown
<1>1. PICK c \in Blocks("created") : c < b
    BY DEF IndexerInv, CreatedFirst
<1>2. /\ b \in pollers[p].todo /\ b \in Nat
      /\ \A d \in pollers[p].todo \ {b} : Before(b, d)
    BY AtIs
<1>3. /\ pollers[p].from \in 1 .. pollers[p].to /\ pollers[p].to \in Nat
      /\ pollers[p].todo \subseteq pollers[p].from .. pollers[p].to
    BY WaitingIs, PollFields DEF IndexerInv, PollOK
<1>4. c \in 1 .. pollers[p].to /\ c # b
    BY <1>1, <1>2, <1>3, BlocksIs
<1>5. c \notin pollers[p].todo
    <2> SUFFICES ASSUME Before(b, c) PROVE FALSE
        BY <1>2, <1>4
    <2>1. chain[c] = "created" /\ chain[b] \in {"adds", "sets"}
        BY DEF Blocks
    <2> QED
        BY <2>1 DEF Before, Rank
<1>6. c \in Applied(pollers[p])
    BY <1>4, <1>5 DEF Applied, Past
<1> QED
    BY <1>6 DEF IndexerInv, VaultKnown, Seen

(* a poll that is alone has not applied an event that it is still to do *)
LEMMA Fresh ==
    ASSUME TypeOK, IndexerInv, NEW p \in Pollers, pollers[p].at = "update", overlaps = 0,
           NEW b \in pollers[p].todo
    PROVE  /\ ~ Seen(b)
           /\ \A c : Seen(c) <=> c <= lastBlock \/ c \in Past(pollers[p])
           /\ b > lastBlock /\ pollers[p].from = lastBlock + 1
<1>1. p \in Busy
    BY WaitingIs DEF Busy
<1>2. pollers[p].from = lastBlock + 1 /\ \A q \in Pollers \ {p} : pollers[q] = Waiting
    BY <1>1 DEF IndexerInv, Alone, Busy
<1>3. /\ pollers[p].to \in Nat
      /\ pollers[p].todo \subseteq pollers[p].from .. pollers[p].to
    BY WaitingIs, PollFields DEF IndexerInv, PollOK
<1>4. \A q \in Pollers \ {p} : Applied(pollers[q]) = {}
    BY <1>2, WaitingIs
<1>5. Applied(pollers[p]) = Past(pollers[p])
    BY DEF Applied
<1>6. \A c : Seen(c) <=> c <= lastBlock \/ c \in Past(pollers[p])
    BY <1>4, <1>5 DEF Seen
<1>7. b > lastBlock /\ b \notin Past(pollers[p]) /\ b \in Nat /\ lastBlock \in Nat
    BY <1>2, <1>3, Fields DEF Past
<1> QED
    BY <1>2, <1>6, <1>7

(* what the handler of an event does to the row, by the sort of the event *)
LEMMA RowIs ==
    ASSUME TypeOK, NEW b \in 1 .. Len(chain), b \notin Blocks("registered"),
           b \in Blocks("adds") \cup Blocks("sets") => vault.exists
    PROVE  LET row == RowAfter(b)
           IN  /\ row \in [exists : BOOLEAN, added : Nat, set : 0 .. Len(chain), merchant : BOOLEAN]
               /\ vault.exists \/ b \in Blocks("created") => row.exists
               /\ row.added = IF b \in Blocks("adds") THEN vault.added + 1 ELSE vault.added
               /\ row.set = IF b \in Blocks("sets") THEN SetBy(b) ELSE vault.set
<1>1. /\ vault \in [exists : BOOLEAN, added : Nat, set : 0 .. Len(chain), merchant : BOOLEAN]
      /\ b \in Nat /\ chain[b] \in Kinds /\ Len(chain) \in Nat
    BY Fields DEF TypeOK
<1>2. chain[b] \in {"created", "adds", "sets", "score"}
    BY <1>1, IndexerAssumption DEF Blocks
<1>3. \A kind : b \in Blocks(kind) <=> chain[b] = kind
    BY DEF Blocks
<1>4. CASE chain[b] = "created"
    <2>1. RowAfter(b) = [vault EXCEPT !.exists = TRUE]
        BY <1>4 DEF RowAfter
    <2>2. /\ RowAfter(b) \in [exists : BOOLEAN, added : Nat, set : 0 .. Len(chain), merchant : BOOLEAN]
          /\ RowAfter(b).exists /\ RowAfter(b).added = vault.added /\ RowAfter(b).set = vault.set
        BY <1>1, <2>1
    <2>3. b \notin Blocks("adds") /\ b \notin Blocks("sets")
        BY <1>3, <1>4
    <2> QED
        BY <2>2, <2>3
<1>5. CASE chain[b] = "adds"
    <2>1. RowAfter(b) = [vault EXCEPT !.added = vault.added + 1]
        BY <1>3, <1>5 DEF RowAfter
    <2> QED
        BY <1>1, <1>3, <1>5, <2>1
<1>6. CASE chain[b] = "sets"
    <2>1. RowAfter(b) = [vault EXCEPT !.set = SetBy(b)]
        BY <1>3, <1>6 DEF RowAfter
    <2>2. SetBy(b) \in 0 .. Len(chain)
        <3> DEFINE K == {k \in Blocks("sets") : k <= b}
               all == 1 .. Len(chain)
        <3>1. K \in SUBSET all
            BY BlocksIs
        <3>2. IsFiniteSet(all) /\ Cardinality(all) \in Nat /\ Cardinality(all) <= Len(chain)
            <4>1. 1 \in Int /\ Len(chain) \in Int
                BY <1>1
            <4>2. IsFiniteSet(all) /\ Cardinality(all) = IF 1 > Len(chain) THEN 0 ELSE Len(chain) - 1 + 1
                BY <4>1, FS_Interval
            <4> QED
                BY <1>1, <4>2
        <3> HIDE DEF K, all
        <3>3. Cardinality(K) <= Cardinality(all)
            BY <3>1, <3>2, FS_Subset
        <3>4. SetBy(b) = Cardinality(K)
            BY DEF SetBy, K
        <3>5. SetBy(b) \in Nat
            BY <1>1, SetByGrows
        <3> QED
            BY <1>1, <3>2, <3>3, <3>4, <3>5
    <2> QED
        BY <1>1, <1>3, <1>6, <2>1, <2>2
<1>7. CASE chain[b] = "score"
    <2>1. RowAfter(b) = [vault EXCEPT !.merchant = TRUE]
        BY <1>7 DEF RowAfter
    <2>2. /\ RowAfter(b) \in [exists : BOOLEAN, added : Nat, set : 0 .. Len(chain), merchant : BOOLEAN]
          /\ RowAfter(b).exists = vault.exists
          /\ RowAfter(b).added = vault.added /\ RowAfter(b).set = vault.set
        BY <1>1, <2>1
    <2>3. b \notin Blocks("created") /\ b \notin Blocks("adds") /\ b \notin Blocks("sets")
        BY <1>3, <1>7
    <2> QED
        BY <2>2, <2>3
<1> QED
    BY <1>2, <1>4, <1>5, <1>6, <1>7

(* one more block counts for one at most *)
LEMMA CountOne ==
    ASSUME NEW S, IsFiniteSet(S), NEW x
    PROVE  Cardinality(S \cup {x}) \in Nat /\ Cardinality(S \cup {x}) <= Cardinality(S) + 1
<1>1. Cardinality(S) \in Nat
    BY FS_CardinalityType
<1>2. Cardinality(S \cup {x}) = IF x \in S THEN Cardinality(S) ELSE Cardinality(S) + 1
    BY FS_AddElement
<1> QED
    BY <1>1, <1>2

(* a registered agent is given its score *)
LEMMA ScoreKeeps ==
    ASSUME Inv, WebhookInv', NEW p \in Pollers, Score(p)
    PROVE  TypeOK' /\ IndexerInv'
<1>1. PICK b, poll : b = FirstOf(pollers[p].todo) /\ poll = Rest(pollers[p])
    OBVIOUS
<1>2. TypeOK /\ IndexerInv /\ WebhookTypeOK'
    BY DEF Inv, WebhookInv
<1>3. /\ pollers[p].at = "update" /\ pollers' = [pollers EXCEPT ![p] = poll]
      /\ chain[b] = "registered"
      /\ \/ /\ scored' = [scored EXCEPT ![b] = IF scored[b] = 0 THEN 1 ELSE 2]
            /\ UNCHANGED missed
         \/ missed' = missed \cup {b} /\ UNCHANGED scored
      /\ UNCHANGED <<chain, lastBlock, vault, stored, overlaps, thrown, faults>>
    BY <1>1 DEF Score, Goes, webhookVars
<1>4. /\ Consistent(poll) /\ poll # Waiting
      /\ Applied(poll) = Past(poll)
      /\ Past(poll) = Past(pollers[p]) \cup {b}
      /\ poll.from = pollers[p].from /\ poll.to = pollers[p].to
      /\ poll.todo = pollers[p].todo \ {b}
    BY <1>1, <1>2, <1>3, RestIs, PollsConsistent
<1>5. /\ b \in pollers[p].todo /\ b \in 1 .. Len(chain) /\ b \in Nat /\ b \in Events
      /\ b \in Blocks("registered") /\ b \notin Blocks("adds") /\ b \notin Blocks("sets")
    BY <1>1, <1>2, <1>3, AtIs DEF Blocks
<1>6. Moves(p, poll) /\ p \in Busy
    BY <1>3, <1>4, WaitingIs DEF Moves, Busy
<1>7. /\ scored' \in [Events -> 0 .. 2] /\ scored \in [Events -> 0 .. 2]
      /\ missed' \subseteq 1 .. Len(chain) /\ missed \subseteq missed'
    BY <1>2, <1>3, <1>5, Fields
<1>8. TypeOK'
    BY <1>2, <1>3, <1>6, <1>7, MoveTypes DEF TypeOK
<1>9. Applied(pollers[p]) = Past(pollers[p])
    BY <1>3 DEF Applied
<1>10. ASSUME NEW c \in 1 .. Len(chain)
       PROVE  (Through(c)' <=> Through(c) \/ c = b) /\ (Seen(c)' <=> Seen(c) \/ c = b)
    <2>1. /\ Through(c)' <=> \/ c <= lastBlock' \/ c \in Past(poll)
                             \/ \E q \in Pollers \ {p} : c \in Past(pollers[q])
          /\ Seen(c)' <=> \/ c <= lastBlock' \/ c \in Applied(poll)
                          \/ \E q \in Pollers \ {p} : c \in Applied(pollers[q])
        BY <1>2, <1>6, MoveBehind
    <2> QED
        BY <1>3, <1>4, <1>9, <2>1 DEF Through, Seen
<1>11. CreatedFirst' /\ VaultKnown' /\ ThroughStored' /\ SeenAdded' /\ SetsCopied'
    BY <1>2, <1>3, <1>5, <1>8, <1>10, QuietKeeps
<1>12. AppliedOnce'
    <2>1. \A kind : Blocks(kind)' = Blocks(kind) /\ Blocks(kind) \subseteq 1 .. Len(chain)
        BY <1>2, <1>3, BlocksIs DEF Blocks
    <2> SUFFICES ASSUME Undisturbed PROVE vault.added = Cardinality(SeenAdds') /\ ScoredOnce'
        BY <1>3 DEF AppliedOnce, Undisturbed
    <2>2. SeenAdds' = SeenAdds
        BY <1>5, <1>10, <2>1 DEF SeenAdds
    <2>3. vault.added = Cardinality(SeenAdds) /\ ScoredOnce
        BY <1>2 DEF IndexerInv, AppliedOnce
    <2>4. ~ Seen(b) /\ b \notin missed
        BY <1>2, <1>3, <1>5, <2>3, Fresh DEF ScoredOnce, Undisturbed
    <2>5. Seen(b)' /\ \A c \in Blocks("registered") \ {b} : Seen(c)' <=> Seen(c)
        BY <1>5, <1>10, <2>1
    <2>6. ASSUME NEW c \in Events
          PROVE  scored'[c] = IF c \in Blocks("registered") \ missed' /\ Seen(c)' THEN 1 ELSE 0
        <3>1. CASE c = b
            <4>1. scored[b] = 0
                BY <1>5, <2>3, <2>4 DEF ScoredOnce
            <4>2. \/ scored'[b] = 1 /\ b \notin missed'
                  \/ scored'[b] = 0 /\ b \in missed'
                BY <1>3, <1>5, <1>7, <2>4, <4>1
            <4> QED
                BY <1>5, <2>5, <3>1, <4>2
        <3>2. CASE c # b
            <4>1. scored'[c] = scored[c] /\ (c \in missed' <=> c \in missed)
                BY <1>3, <1>7, <3>2
            <4>2. c \in Blocks("registered") => (Seen(c)' <=> Seen(c))
                BY <2>5, <3>2
            <4>3. scored[c] = IF c \in Blocks("registered") \ missed /\ Seen(c) THEN 1 ELSE 0
                BY <2>3 DEF ScoredOnce
            <4> QED
                BY <4>1, <4>2, <4>3
        <3> QED
            BY <3>1, <3>2
    <2>7. \A c \in Blocks("registered") \cap missed' : Seen(c)'
        BY <1>3, <2>3, <2>5 DEF ScoredOnce
    <2> QED
        BY <2>1, <2>2, <2>3, <2>6, <2>7 DEF ScoredOnce
<1>13. Oldest(poll)
    BY <1>2, <1>4, <1>5 DEF Oldest, IndexerInv, OldestFirst
<1>14. OldestFirst' /\ Alone'
    BY <1>2, <1>3, <1>4, <1>6, <1>13, OldestKeeps, AloneKeeps
<1> QED
    BY <1>2, <1>6, <1>8, <1>11, <1>12, <1>14, PollsKeep DEF IndexerInv

(* the vault's row is brought up to date *)
LEMMA RowKeeps ==
    ASSUME Inv, WebhookInv', NEW p \in Pollers, Update(p),
           NEW b, b = FirstOf(pollers[p].todo), ~ Refused(b)
    PROVE  TypeOK' /\ IndexerInv'
<1>1. PICK poll : poll = [pollers[p] EXCEPT !.at = "store"]
    OBVIOUS
<1>2. TypeOK /\ IndexerInv /\ WebhookTypeOK'
    BY DEF Inv, WebhookInv
<1>3. /\ pollers[p].at = "update" /\ pollers' = [pollers EXCEPT ![p] = poll]
      /\ vault' = RowAfter(b) /\ chain[b] # "registered"
      /\ UNCHANGED <<chain, lastBlock, scored, stored, missed, overlaps, thrown, faults>>
    BY <1>1 DEF Update, Goes, webhookVars
<1>4. /\ Consistent(poll) /\ poll # Waiting
      /\ Applied(poll) = Past(pollers[p]) \cup {b}
      /\ Past(poll) = Past(pollers[p])
      /\ poll.from = pollers[p].from /\ poll.to = pollers[p].to
      /\ poll.todo = pollers[p].todo
    BY <1>1, <1>2, <1>3, StoringIs, PollsConsistent
<1>5. /\ b \in pollers[p].todo /\ b \in 1 .. Len(chain) /\ b \in Nat
      /\ b \notin Blocks("registered")
    BY <1>2, <1>3, AtIs DEF Blocks
<1>6. Moves(p, poll) /\ p \in Busy
    BY <1>3, <1>4, WaitingIs DEF Moves, Busy
<1>22. vault' \in [exists : BOOLEAN, added : Nat, set : 0 .. Len(chain), merchant : BOOLEAN]
    BY <1>2, <1>3, <1>5, KnownByThen, RowIs
<1>7. /\ vault.exists \/ b \in Blocks("created") => vault'.exists
      /\ vault'.added = IF b \in Blocks("adds") THEN vault.added + 1 ELSE vault.added
      /\ vault'.set = IF b \in Blocks("sets") THEN SetBy(b) ELSE vault.set
    BY <1>2, <1>3, <1>5, KnownByThen, RowIs
<1>8. TypeOK'
    BY <1>2, <1>3, <1>6, <1>22, MoveTypes DEF TypeOK
<1>9. Applied(pollers[p]) = Past(pollers[p])
    BY <1>3 DEF Applied
<1>10. ASSUME NEW c \in 1 .. Len(chain)
       PROVE  (Through(c)' <=> Through(c)) /\ (Seen(c)' <=> Seen(c) \/ c = b)
    <2>1. /\ Through(c)' <=> \/ c <= lastBlock' \/ c \in Past(poll)
                             \/ \E q \in Pollers \ {p} : c \in Past(pollers[q])
          /\ Seen(c)' <=> \/ c <= lastBlock' \/ c \in Applied(poll)
                          \/ \E q \in Pollers \ {p} : c \in Applied(pollers[q])
        BY <1>2, <1>6, MoveBehind
    <2> QED
        BY <1>3, <1>4, <1>9, <2>1 DEF Through, Seen
<1>11. \A kind : Blocks(kind)' = Blocks(kind) /\ Blocks(kind) \subseteq 1 .. Len(chain)
    BY <1>2, <1>3, BlocksIs DEF Blocks
<1>12. CreatedFirst' /\ ThroughStored'
    BY <1>2, <1>3, <1>10, <1>11 DEF IndexerInv, CreatedFirst, ThroughStored
<1>13. VaultKnown'
    BY <1>2, <1>7, <1>10, <1>11 DEF IndexerInv, VaultKnown
<1>14. SeenAdds' = IF b \in Blocks("adds") THEN SeenAdds \cup {b} ELSE SeenAdds
    BY <1>10, <1>11 DEF SeenAdds
<1>15. /\ SeenAdds \in SUBSET Blocks("adds")
       /\ IsFiniteSet(SeenAdds) /\ Cardinality(SeenAdds) \in Nat
       /\ IsFiniteSet(SeenAdds \ missed) /\ Cardinality(SeenAdds \ missed) \in Nat
    <2>1. SeenAdds \in SUBSET Blocks("adds") /\ SeenAdds \ missed \in SUBSET Blocks("adds")
        BY DEF SeenAdds
    <2> QED
        BY <1>2, <2>1, BlocksIs
<1>16. vault.added \in Nat /\ vault.added >= Cardinality(SeenAdds \ missed)
    BY <1>2, Fields DEF IndexerInv, SeenAdded
<1>17. SeenAdded'
    <2> SUFFICES vault'.added >= Cardinality(SeenAdds' \ missed)
        BY <1>3 DEF SeenAdded
    <2>1. CASE b \in Blocks("adds") /\ b \notin missed
        <3>1. SeenAdds' \ missed = (SeenAdds \ missed) \cup {b}
            BY <1>14, <2>1
        <3>2. /\ Cardinality((SeenAdds \ missed) \cup {b}) <= Cardinality(SeenAdds \ missed) + 1
              /\ Cardinality((SeenAdds \ missed) \cup {b}) \in Nat
            BY <1>15, CountOne
        <3>3. vault'.added = vault.added + 1
            BY <1>7, <2>1
        <3> DEFINE before == Cardinality(SeenAdds \ missed)
                   after == Cardinality((SeenAdds \ missed) \cup {b})
        <3>4. /\ before \in Nat /\ after \in Nat /\ after <= before + 1
              /\ vault.added \in Nat /\ vault.added >= before
            BY <1>15, <1>16, <3>2
        <3>5. Cardinality(SeenAdds' \ missed) = after
            BY <3>1
        <3> HIDE DEF before, after
        <3> QED
            BY <3>3, <3>4, <3>5
    <2>2. CASE ~ (b \in Blocks("adds") /\ b \notin missed)
        <3>1. SeenAdds' \ missed = SeenAdds \ missed
            BY <1>14, <2>2
        <3>2. vault'.added >= vault.added /\ vault'.added \in Nat
            BY <1>7, <1>16
        <3> QED
            BY <1>15, <1>16, <3>1, <3>2
    <2> QED
        BY <2>1, <2>2
<1>18. AppliedOnce'
    <2> SUFFICES ASSUME Undisturbed PROVE vault'.added = Cardinality(SeenAdds') /\ ScoredOnce'
        BY <1>3 DEF AppliedOnce, Undisturbed
    <2>1. vault.added = Cardinality(SeenAdds) /\ ScoredOnce
        BY <1>2 DEF IndexerInv, AppliedOnce
    <2>2. ~ Seen(b)
        BY <1>2, <1>3, <1>5, Fresh DEF Undisturbed
    <2>3. vault'.added = Cardinality(SeenAdds')
        <3>1. CASE b \in Blocks("adds")
            <4>1. b \notin SeenAdds
                BY <2>2 DEF SeenAdds
            <4>2. Cardinality(SeenAdds \cup {b}) = Cardinality(SeenAdds) + 1
                BY <1>15, <4>1, FS_AddElement
            <4> QED
                BY <1>7, <1>14, <2>1, <3>1, <4>2
        <3>2. CASE b \notin Blocks("adds")
            BY <1>7, <1>14, <2>1, <3>2
        <3> QED
            BY <3>1, <3>2
    <2>4. \A c \in Blocks("registered") : Seen(c)' <=> Seen(c)
        BY <1>5, <1>10, <1>11
    <2>5. ScoredOnce'
        BY <1>3, <1>11, <2>1, <2>4 DEF ScoredOnce
    <2> QED
        BY <2>3, <2>5
<1>19. SetsCopied'
    <2>1. \A c : SetBy(c)' = SetBy(c)
        BY <1>11 DEF SetBy
    <2>2. vault.set <= SetBy(Len(chain)) /\ vault.set \in Nat /\ SetBy(b) <= SetBy(Len(chain))
        BY <1>2, <1>5, Fields, SetByGrows DEF IndexerInv, SetsCopied
    <2>3. (vault.set <= SetBy(Len(chain)))'
        <3>1. SetBy(Len(chain))' = SetBy(Len(chain))
            BY <1>3, <1>11 DEF SetBy
        <3> QED
            BY <1>7, <2>2, <3>1
    <2>4. ASSUME overlaps = 0, Blocks("sets") \cap missed = {}, NEW c \in Blocks("sets"), Seen(c)'
          PROVE  vault'.set >= SetBy(c)
        <3>1. c \in Nat /\ SetBy(c) \in Nat /\ SetBy(b) \in Nat /\ c \in 1 .. Len(chain)
            BY <1>2, <1>5, <1>11, BlocksIs, SetByGrows
        <3>2. Seen(c) \/ c = b
            BY <1>10, <2>4, <3>1
        <3>3. CASE b \in Blocks("sets")
            <4>1. c <= b
                <5> SUFFICES ASSUME Seen(c) PROVE c <= b
                    BY <1>5, <3>2
                <5>1. /\ c <= lastBlock \/ c \in Past(pollers[p])
                      /\ b > lastBlock /\ pollers[p].from = lastBlock + 1
                    BY <1>2, <1>3, <1>5, <2>4, Fresh
                <5>2. c <= lastBlock => c <= b
                    BY <1>2, <1>5, <3>1, <5>1, Fields
                <5>3. ASSUME c \in (1 .. pollers[p].to) \ pollers[p].todo, c > lastBlock PROVE c < b
                    <6>1. /\ c >= pollers[p].from /\ c <= pollers[p].to /\ c \notin pollers[p].todo
                          /\ b \in pollers[p].todo
                        BY <1>2, <1>5, <3>1, <5>1, <5>3, Fields, PollFields
                    <6> QED
                        BY <1>2, <3>3, <6>1 DEF IndexerInv, OldestFirst, Oldest
                <5>4. c \in 1 .. pollers[p].from - 1 => c <= lastBlock
                    BY <1>2, <3>1, <5>1, Fields
                <5> QED
                    BY <1>2, <1>5, <3>1, <5>1, <5>2, <5>3, <5>4, Fields DEF Past
            <4>2. SetBy(c) <= SetBy(b)
                BY <1>2, <1>5, <3>1, <4>1, SetByGrows
            <4> QED
                BY <1>7, <3>1, <3>3, <4>2
        <3>4. CASE b \notin Blocks("sets")
            BY <1>2, <1>7, <2>4, <3>2, <3>4 DEF IndexerInv, SetsCopied
        <3> QED
            BY <3>3, <3>4
    <2> QED
        BY <1>3, <1>11, <2>1, <2>3, <2>4 DEF SetsCopied
<1>20. Oldest(poll)
    BY <1>2, <1>4 DEF Oldest, IndexerInv, OldestFirst
<1>21. OldestFirst' /\ Alone'
    BY <1>2, <1>3, <1>4, <1>6, <1>20, OldestKeeps, AloneKeeps
<1> QED
    BY <1>2, <1>6, <1>8, <1>12, <1>13, <1>17, <1>18, <1>19, <1>21, PollsKeep DEF IndexerInv

LEMMA UpdateKeeps ==
    ASSUME Inv, WebhookInv', NEW p \in Pollers, Update(p)
    PROVE  TypeOK' /\ IndexerInv'
<1>1. PICK b : b = FirstOf(pollers[p].todo)
    OBVIOUS
<1>2. CASE Refused(b)
    <2>1. /\ pollers' = [pollers EXCEPT ![p] = Waiting] /\ thrown' = TRUE
          /\ pollers[p].at = "update"
          /\ UNCHANGED <<chain, lastBlock, vault, stored, scored, missed, overlaps>>
        BY <1>1, <1>2 DEF Update, Goes
    <2>2. p \in Busy
        BY <2>1, WaitingIs DEF Busy
    <2> QED
        BY <2>1, <2>2, EndKeeps
<1> QED
    BY <1>1, <1>2, RowKeeps

LEMMA PollFailsKeeps ==
    ASSUME Inv, WebhookInv', NEW p \in Pollers, PollFails(p)
    PROVE  TypeOK' /\ IndexerInv'
<1>1. /\ p \in Busy /\ pollers' = [pollers EXCEPT ![p] = Waiting] /\ faults' = faults + 1
      /\ UNCHANGED <<chain, lastBlock, vault, stored, scored, missed, overlaps, thrown>>
    BY DEF PollFails, Goes, Busy
<1>2. faults' > 0 /\ thrown' \in BOOLEAN
    BY <1>1, Fields DEF Inv
<1> QED
    BY <1>1, <1>2, EndKeeps

-----------------------------------------------------------------------------
(* The other steps of the system *)

(* no poll is through with a block that is not there yet *)
LEMMA NoneAhead ==
    ASSUME TypeOK, IndexerInv, NEW b \in Nat, b > Len(chain)
    PROVE  ~ Through(b) /\ ~ Seen(b)
<1>1. Len(chain) \in Nat /\ lastBlock \in Nat /\ lastBlock <= Len(chain)
    BY Fields
<1>2. ASSUME NEW p \in Pollers PROVE b \notin Past(pollers[p]) /\ b \notin Applied(pollers[p])
    <2>1. /\ pollers[p].from \in Nat /\ pollers[p].to \in Nat /\ pollers[p].to <= Len(chain)
          /\ pollers[p].todo \in SUBSET (1 .. Len(chain))
        BY PollFields
    <2>2. pollers[p].from <= Len(chain) + 1
        <3>1. PollOK(pollers[p])
            BY DEF IndexerInv
        <3>2. CASE pollers[p] = Waiting
            BY <1>1, <3>2, WaitingIs
        <3>3. CASE pollers[p].from \in 1 .. Len(chain) + 1
            BY <1>1, <2>1, <3>3
        <3>4. CASE pollers[p].from \in 1 .. pollers[p].to
            BY <1>1, <2>1, <3>4
        <3> QED
            BY <3>1, <3>2, <3>3, <3>4 DEF PollOK
    <2>3. b \notin 1 .. pollers[p].from - 1 /\ b \notin 1 .. pollers[p].to /\ b \notin 1 .. Len(chain)
        BY <1>1, <2>1, <2>2
    <2>4. b \notin Past(pollers[p])
        BY <2>3 DEF Past
    <2>5. pollers[p].at = "store" => FirstOf(pollers[p].todo) # b
        BY <2>3, AtIs
    <2> QED
        BY <2>4, <2>5 DEF Applied
<1>3. ~ (b <= lastBlock)
    BY <1>1
<1> QED
    BY <1>2, <1>3 DEF Through, Seen

LEMMA MineKeeps ==
    ASSUME Inv, WebhookInv', NEW kind \in Kinds, Mine(kind)
    PROVE  TypeOK' /\ IndexerInv'
<1>1. PICK n : n = Len(chain) + 1
    OBVIOUS
<1>2. TypeOK /\ IndexerInv /\ WebhookTypeOK'
    BY DEF Inv, WebhookInv
<1>3. UNCHANGED <<lastBlock, vault, stored, scored, pollers, missed, overlaps, thrown, faults>>
    BY DEF Mine, webhookVars
<1>4. /\ Len(chain) \in Nat /\ n \in Nat /\ n > Len(chain) /\ n <= Cardinality(Events)
      /\ chain' = Append(chain, kind)
    BY <1>1, <1>2, Fields DEF Mine
<1>5. /\ chain' \in Seq(Kinds) /\ Len(chain') = n
      /\ \A b \in 1 .. Len(chain) : chain'[b] = chain[b]
      /\ chain'[n] = kind
    BY <1>1, <1>2, <1>4, Fields, AppendProperties
<1>6. 1 .. n = (1 .. Len(chain)) \cup {n} /\ n \notin 1 .. Len(chain)
    BY <1>1, <1>4
<1>7. \A k : Blocks(k)' = IF k = kind THEN Blocks(k) \cup {n} ELSE Blocks(k)
    BY <1>5, <1>6 DEF Blocks
<1>8. TypeOK'
    <2>1. PollType \subseteq PollType'
        <3>1. 0 .. Len(chain) \subseteq 0 .. Len(chain')
            BY <1>4, <1>5
        <3>2. SUBSET (1 .. Len(chain)) \subseteq SUBSET (1 .. Len(chain'))
            BY <1>5, <1>6
        <3> QED
            BY <3>1, <3>2 DEF PollType
    <2>2. pollers \in [Pollers -> PollType']
        BY <1>2, <2>1 DEF TypeOK, PollType
    <2>3. lastBlock \in 0 .. n
        BY <1>2, <1>4, Fields
    <2>4. vault \in [exists : BOOLEAN, added : Nat, set : 0 .. n, merchant : BOOLEAN]
        <3>1. 0 .. Len(chain) \subseteq 0 .. n
            BY <1>4
        <3> QED
            BY <1>2, <3>1 DEF TypeOK
    <2>5. stored \subseteq 1 .. n /\ missed \subseteq 1 .. n
        BY <1>2, <1>6 DEF TypeOK
    <2>6. /\ scored \in [Events -> 0 .. 2] /\ overlaps \in 0 .. MaxOverlaps /\ thrown \in BOOLEAN
          /\ \A p \in Pollers : pollers[p].at \in {"update", "store"} <=> pollers[p].todo # {}
        BY <1>2 DEF TypeOK
    <2>7. pollers' \in [Pollers -> PollType']
        BY <1>3, <2>2
    <2> QED
        BY <1>2, <1>3, <1>4, <1>5, <2>3, <2>4, <2>5, <2>6, <2>7 DEF TypeOK, PollType
<1>9. \A b : (Through(b)' <=> Through(b)) /\ (Seen(b)' <=> Seen(b))
    <2>1. ASSUME NEW p \in Pollers PROVE Applied(pollers[p])' = Applied(pollers[p])
        <3>1. PICK poll : poll = pollers[p]
            OBVIOUS
        <3>2. Consistent(poll)
            BY <1>2, <3>1, PollsConsistent
        <3>3. Applied(poll)' = Applied(poll)
            BY <1>2, <1>4, <1>5, <3>2, AppliedSame
        <3>4. pollers'[p] = poll
            BY <1>3, <3>1
        <3> QED
            BY <3>1, <3>3, <3>4 DEF Applied, Past
    <2>2. \A b : Seen(b)' <=> Seen(b)
        BY <1>3, <2>1 DEF Seen
    <2>3. \A b : Through(b)' <=> Through(b)
        BY <1>3 DEF Through, Past
    <2> QED
        BY <2>2, <2>3
<1>10. ~ Through(n) /\ ~ Seen(n)
    BY <1>2, <1>4, NoneAhead
<1>11. \A q \in Pollers : PollOK(pollers[q])'
    <2>1. \A q \in Pollers : PollOK(pollers[q])
        BY <1>2 DEF IndexerInv
    <2>2. 1 .. Len(chain) + 1 \subseteq 1 .. Len(chain') + 1
        BY <1>4, <1>5
    <2> QED
        BY <1>3, <2>1, <2>2 DEF PollOK
<1>12. CreatedFirst'
    <2> SUFFICES ASSUME "created" \in Kinds, NEW b \in Blocks("adds")' \cup Blocks("sets")'
                 PROVE  \E c \in Blocks("created")' : c < b
        BY DEF CreatedFirst
    <2>1. CASE b = n
        <3>1. Blocks("created") # {}
            <4>1. b \notin Blocks("adds") \cup Blocks("sets")
                BY <1>2, <1>6, <2>1, BlocksIs
            <4>2. kind \in {"adds", "sets"}
                BY <1>7, <4>1
            <4> QED
                BY <4>2 DEF Mine, Requires
        <3>2. PICK c \in Blocks("created") : c \in 1 .. Len(chain)
            BY <1>2, <3>1, BlocksIs
        <3>3. c < n
            BY <1>4, <3>2
        <3> QED
            BY <1>7, <2>1, <3>2, <3>3
    <2>2. CASE b # n
        <3>1. b \in Blocks("adds") \cup Blocks("sets")
            BY <1>7, <2>2
        <3> QED
            BY <1>2, <1>7, <3>1 DEF IndexerInv, CreatedFirst
    <2> QED
        BY <2>1, <2>2
<1>13. VaultKnown'
    BY <1>2, <1>3, <1>7, <1>9, <1>10 DEF IndexerInv, VaultKnown
<1>14. ThroughStored'
    <2> SUFFICES ASSUME NEW b \in 1 .. n, b \notin Blocks("registered")', Through(b)
                 PROVE  b \in stored \cup missed
        BY <1>3, <1>5, <1>9 DEF ThroughStored
    <2>1. b \in 1 .. Len(chain) /\ b \notin Blocks("registered")
        BY <1>6, <1>7, <1>10
    <2> QED
        BY <1>2, <2>1 DEF IndexerInv, ThroughStored
<1>15. SeenAdds' = SeenAdds
    BY <1>7, <1>9, <1>10 DEF SeenAdds
<1>16. SeenAdded'
    BY <1>2, <1>3, <1>15 DEF IndexerInv, SeenAdded
<1>17. Alone'
    BY <1>2, <1>3 DEF IndexerInv, Alone, Busy
<1>18. AppliedOnce'
    <2>1. \A b : b \in Blocks("registered")' /\ Seen(b)' <=> b \in Blocks("registered") /\ Seen(b)
        BY <1>7, <1>9, <1>10
    <2>2. n \notin missed
        BY <1>2, <1>6, Fields
    <2>3. \A b \in missed : b \in Blocks("registered")' <=> b \in Blocks("registered")
        BY <1>7, <2>2
    <2>4. ScoredOnce => ScoredOnce'
        BY <1>3, <1>9, <2>1, <2>3 DEF ScoredOnce
    <2> QED
        BY <1>2, <1>3, <1>15, <2>4 DEF IndexerInv, AppliedOnce, Undisturbed
<1>19. OldestFirst'
    <2> SUFFICES ASSUME NEW p \in Pollers, NEW c \in Blocks("sets")', NEW d \in Blocks("sets")',
                        c >= pollers[p].from, c <= pollers[p].to, c \notin pollers[p].todo,
                        d \in pollers[p].todo
                 PROVE  c < d
        BY <1>3 DEF OldestFirst, Oldest
    <2>1. /\ pollers[p].to \in Nat /\ pollers[p].to <= Len(chain)
          /\ pollers[p].todo \in SUBSET (1 .. Len(chain))
        BY <1>2, PollFields
    <2>2. c # n
        BY <1>4, <2>1
    <2>3. d # n
        BY <1>6, <2>1
    <2>4. c \in Blocks("sets") /\ d \in Blocks("sets")
        BY <1>7, <2>2, <2>3
    <2> QED
        BY <1>2, <2>4 DEF IndexerInv, OldestFirst, Oldest
<1>20. SetsCopied'
    <2>1. ASSUME NEW b \in 1 .. Len(chain) PROVE SetBy(b)' = SetBy(b)
        <3>1. ~ (n <= b)
            BY <1>4
        <3>2. {k \in Blocks("sets")' : k <= b} = {k \in Blocks("sets") : k <= b}
            BY <1>7, <3>1
        <3> QED
            BY <3>2 DEF SetBy
    <2>2. (vault.set <= SetBy(Len(chain)))'
        <3> DEFINE old == {k \in Blocks("sets") : k <= Len(chain)}
                   new == {k \in Blocks("sets")' : k <= n}
        <3>1. old \in SUBSET new
            <4> SUFFICES ASSUME NEW k \in Blocks("sets"), k <= Len(chain) PROVE k <= n
                BY <1>7
            <4>1. k \in Nat
                BY <1>2, BlocksIs
            <4> QED
                BY <1>4, <4>1
        <3>2. new \in SUBSET (1 .. n) /\ old \in SUBSET Blocks("sets")
            BY <1>2, <1>6, <1>7, BlocksIs
        <3>3. SetBy(Len(chain))' = Cardinality(new) /\ SetBy(Len(chain)) = Cardinality(old)
            BY <1>5 DEF SetBy
        <3> HIDE DEF old, new
        <3>4. IsFiniteSet(new)
            <4>1. 1 \in Int /\ n \in Int
                BY <1>4
            <4> QED
                BY <3>2, <4>1, FS_Interval, FS_Subset
        <3>5. Cardinality(old) <= Cardinality(new) /\ Cardinality(new) \in Nat /\ Cardinality(old) \in Nat
            BY <1>2, <3>1, <3>2, <3>4, FS_Subset, FS_CardinalityType, BlocksIs
        <3>6. vault.set <= SetBy(Len(chain)) /\ vault.set \in Nat
            BY <1>2, Fields DEF IndexerInv, SetsCopied
        <3>7. vault.set <= Cardinality(new)
            BY <3>3, <3>5, <3>6
        <3> QED
            BY <1>3, <3>3, <3>7
    <2>3. ASSUME overlaps = 0, Blocks("sets")' \cap missed = {}, NEW b \in Blocks("sets")', Seen(b)
          PROVE  vault.set >= SetBy(b)'
        <3>1. b \in Blocks("sets") /\ Blocks("sets") \cap missed = {}
            BY <1>7, <1>10, <2>3
        <3>2. b \in 1 .. Len(chain) /\ vault.set >= SetBy(b)
            BY <1>2, <2>3, <3>1, BlocksIs DEF IndexerInv, SetsCopied
        <3> QED
            BY <2>1, <3>2
    <2> QED
        BY <1>3, <1>9, <2>2, <2>3 DEF SetsCopied
<1> QED
    BY <1>8, <1>11, <1>12, <1>13, <1>14, <1>16, <1>17, <1>18, <1>19, <1>20 DEF IndexerInv

(* all polls end at once *)
LEMMA RestartAllKeeps ==
    ASSUME Inv, WebhookInv', RestartAll
    PROVE  TypeOK' /\ IndexerInv'
<1>1. /\ pollers' = [p \in Pollers |-> Waiting] /\ faults' = faults + 1
      /\ UNCHANGED <<chain, lastBlock, vault, stored, scored, missed, overlaps, thrown>>
    BY DEF RestartAll, Restart
<1>2. TypeOK /\ IndexerInv /\ WebhookTypeOK'
    BY DEF Inv, WebhookInv
<1>3. \A p \in Pollers : pollers'[p] = Waiting
    BY <1>1
<1>4. TypeOK'
    <2>1. Waiting \in PollType
        BY <1>2, WaitingIs, Fields
    <2>2. pollers' \in [Pollers -> PollType]
        BY <1>1, <2>1
    <2>3. \A p \in Pollers : pollers'[p].at \in {"update", "store"} <=> pollers'[p].todo # {}
        BY <1>3, WaitingIs
    <2> QED
        BY <1>1, <1>2, <2>2, <2>3 DEF TypeOK, PollType
<1>5. \A b : (Through(b)' => Through(b)) /\ (Seen(b)' => Seen(b))
    <2>1. \A p \in Pollers : Past(pollers[p])' = {} /\ Applied(pollers[p])' = {}
        BY <1>3, WaitingIs DEF Past, Applied
    <2> QED
        BY <1>1, <2>1 DEF Through, Seen
<1>6. CreatedFirst' /\ VaultKnown' /\ ThroughStored' /\ SeenAdded' /\ SetsCopied'
    BY <1>1, <1>2, <1>4, <1>5, QuietKeeps
<1>7. AppliedOnce'
    <2>1. faults' # 0
        BY <1>1, <1>2, Fields
    <2> QED
        BY <2>1 DEF AppliedOnce, Undisturbed
<1>8. \A p \in Pollers : PollOK(pollers[p])'
    BY <1>3 DEF PollOK
<1>9. Alone'
    BY <1>3 DEF Alone, Busy
<1>10. OldestFirst'
    BY <1>3, WaitingIs DEF OldestFirst, Oldest
<1> QED
    BY <1>4, <1>6, <1>7, <1>8, <1>9, <1>10 DEF IndexerInv

(* the webhooks do not touch what the indexer keeps *)
LEMMA IndexerStutter ==
    ASSUME Inv, WebhookInv', UNCHANGED indexerVars, faults' \in {faults, faults + 1}
    PROVE  TypeOK' /\ IndexerInv'
<1>1. TypeOK /\ IndexerInv /\ WebhookTypeOK'
    BY DEF Inv, WebhookInv
<1>2. UNCHANGED <<chain, lastBlock, vault, stored, scored, pollers, missed, overlaps, thrown>>
    BY DEF indexerVars
<1>3. TypeOK'
    BY <1>1, <1>2 DEF TypeOK
<1>4. \A b : (Through(b)' <=> Through(b)) /\ (Seen(b)' <=> Seen(b))
    BY <1>2 DEF Through, Seen, Past, Applied, FirstOf, Before
<1>5. \A kind : Blocks(kind)' = Blocks(kind)
    BY <1>2 DEF Blocks
<1>6. CreatedFirst' /\ VaultKnown' /\ ThroughStored' /\ SeenAdded' /\ SetsCopied'
    BY <1>1, <1>2, <1>3, <1>4, QuietKeeps
<1>7. AppliedOnce'
    <2>1. Undisturbed' => Undisturbed
        BY <1>1, <1>2, Fields DEF Undisturbed
    <2> QED
        BY <1>1, <1>2, <1>4, <2>1, ExactKeeps
<1>8. \A p \in Pollers : PollOK(pollers[p])'
    BY <1>1, <1>2 DEF IndexerInv, PollOK
<1>9. Alone' /\ OldestFirst'
    BY <1>1, <1>2, <1>5 DEF IndexerInv, Alone, Busy, OldestFirst, Oldest
<1> QED
    BY <1>3, <1>6, <1>7, <1>8, <1>9 DEF IndexerInv

LEMMA FaultsCount ==
    ASSUME Inv, WebhookWork PROVE faults' \in {faults, faults + 1}
BY DEF WebhookWork, Dispatch, DispatchFails, Toggle, Begin, Post, Record, RecordFails

(* the indexer touches the webhooks only by what it dispatches *)
LEMMA QueuedIs ==
    ASSUME WebhookInv, NEW e \in Events PROVE Queued(e) \in [Events -> Nat]
BY DEF WebhookInv, WebhookTypeOK, Queued

LEMMA IndexerKeepsWebhooks ==
    ASSUME Inv, NEW p \in Pollers,
           ReadCursor(p) \/ Poll(p) \/ PollFails(p)
    PROVE  WebhookInv'
<1>1. /\ outbox \in [Events -> Nat] /\ faults \in 0 .. MaxFaults /\ active \subseteq Endpoints
      /\ WebhookInv /\ TypeOK
    BY DEF Inv, WebhookInv, WebhookTypeOK
<1>2. ASSUME faults < MaxFaults PROVE faults + 1 \in 0 .. MaxFaults
    BY <1>1, <1>2, Fields
<1>3. CASE ReadCursor(p) \/ Score(p) \/ Update(p) \/ Advance(p)
    <2>1. UNCHANGED <<outbox, deliveries, rounds, posts, accepted, active, faults>>
        BY <1>3 DEF ReadCursor, Reads, Score, Update, Advance, webhookVars
    <2> QED
        BY <1>1, <2>1, WebhookStutter
<1>4. CASE Scan(p) \/ PollFails(p)
    <2>1. UNCHANGED <<outbox, deliveries, rounds, posts, accepted, active>>
        BY <1>4 DEF Scan, PollFails
    <2>2. faults' \in 0 .. MaxFaults
        BY <1>1, <1>2, <1>4 DEF Scan, PollFails
    <2> QED
        BY <1>1, <2>1, <2>2, WebhookStutter
<1>5. CASE Store(p)
    <2>1. PICK b : b = FirstOf(pollers[p].todo)
        OBVIOUS
    <2>2. b \in Events
        BY <1>1, <1>5, <2>1, AtIs DEF Store
    <2>3. outbox' \in [Events -> Nat]
        BY <1>1, <1>5, <2>1, <2>2, QueuedIs DEF Store
    <2>4. faults' \in 0 .. MaxFaults /\ UNCHANGED <<deliveries, rounds, posts, accepted, active>>
        BY <1>1, <1>2, <1>5 DEF Store
    <2> QED
        BY <1>1, <2>3, <2>4, WebhookStutter
<1> QED
    BY <1>3, <1>4, <1>5 DEF Poll

-----------------------------------------------------------------------------
(* Theorems *)

LEMMA InvStarts ==
    ASSUME Init PROVE Inv
<1>1. /\ chain = <<>> /\ lastBlock = 0 /\ stored = {} /\ missed = {} /\ overlaps = 0
      /\ thrown = FALSE
      /\ vault = [exists |-> "created" \notin Kinds, added |-> 0, set |-> 0,
                  merchant |-> "score" \notin Kinds]
      /\ scored = [b \in Events |-> 0]
      /\ pollers = [p \in Pollers |-> Waiting]
    BY DEF Init
<1>2. WebhookInv /\ WebhookTypeOK
    BY WebhookStarts DEF Init, WebhookInv
<1>3. Len(chain) = 0 /\ 1 .. Len(chain) = {} /\ 0 .. Len(chain) = {0}
    BY <1>1
<1>4. \A p \in Pollers : pollers[p] = Waiting
    BY <1>1
<1>5. TypeOK
    <2>1. chain \in Seq(Kinds) /\ Len(chain) <= Cardinality(Events)
        BY <1>1, <1>3, EmptySeq, FS_CardinalityType, WebhookAssumption
    <2>2. pollers \in [Pollers -> PollType]
        BY <1>1, <1>3, WaitingIs
    <2>3. \A p \in Pollers : pollers[p].at \in {"update", "store"} <=> pollers[p].todo # {}
        BY <1>4, WaitingIs
    <2>4. vault \in [exists : BOOLEAN, added : Nat, set : 0 .. Len(chain), merchant : BOOLEAN]
        BY <1>1, <1>3
    <2>5. overlaps \in 0 .. MaxOverlaps /\ lastBlock \in 0 .. Len(chain)
        BY <1>1, <1>3, IndexerAssumption
    <2>6. scored \in [Events -> 0 .. 2]
        BY <1>1
    <2> QED
        BY <1>1, <1>2, <2>1, <2>2, <2>3, <2>4, <2>5, <2>6 DEF TypeOK, PollType
<1>6. \A kind : Blocks(kind) = {}
    BY <1>3 DEF Blocks
<1>7. SeenAdds = {} /\ SeenAdds \ missed = {}
    BY <1>6 DEF SeenAdds
<1>8. SeenAdded /\ AppliedOnce
    <2>1. Cardinality({}) = 0
        BY FS_EmptySet
    <2> QED
        BY <1>1, <1>6, <1>7, <2>1 DEF SeenAdded, AppliedOnce, ScoredOnce
<1>9. SetsCopied
    <2>1. SetBy(Len(chain)) = 0
        <3>1. {k \in Blocks("sets") : k <= Len(chain)} = {}
            BY <1>6
        <3> QED
            BY <3>1, FS_EmptySet DEF SetBy
    <2> QED
        BY <1>1, <1>6, <2>1 DEF SetsCopied
<1>10. CreatedFirst /\ VaultKnown /\ ThroughStored
    BY <1>1, <1>3, <1>6 DEF CreatedFirst, VaultKnown, ThroughStored
<1>11. /\ \A p \in Pollers : PollOK(pollers[p])
       /\ Alone /\ OldestFirst
    BY <1>4, <1>6 DEF PollOK, Alone, Busy, OldestFirst, Oldest
<1> QED
    BY <1>2, <1>5, <1>8, <1>9, <1>10, <1>11 DEF Inv, IndexerInv

LEMMA InvKept ==
    ASSUME Inv, [Next]_vars PROVE Inv'
<1>1. ASSUME NEW kind \in Kinds, Mine(kind) PROVE Inv'
    <2>1. WebhookInv'
        BY <1>1, WebhookStutter DEF Mine, webhookVars, Inv, WebhookInv, WebhookTypeOK
    <2> QED
        BY <1>1, <2>1, MineKeeps DEF Inv
<1>2. ASSUME NEW p \in Pollers, ReadCursor(p) \/ Poll(p) \/ PollFails(p) PROVE Inv'
    <2>1. WebhookInv'
        BY <1>2, IndexerKeepsWebhooks
    <2>2. TypeOK' /\ IndexerInv'
        BY <1>2, <2>1, ReadCursorKeeps, ScanKeeps, ScoreKeeps, UpdateKeeps, StoreKeeps, AdvanceKeeps, PollFailsKeeps
           DEF Poll
    <2> QED
        BY <2>1, <2>2 DEF Inv
<1>3. CASE WebhookWork /\ UNCHANGED indexerVars
    <2>1. WebhookInv'
        BY <1>3, WebhookWorkKeeps DEF Inv
    <2> QED
        BY <1>3, <2>1, FaultsCount, IndexerStutter DEF Inv
<1>4. CASE RestartAll
    <2>1. WebhookInv'
        BY <1>4, RestartKeeps DEF Inv, RestartAll
    <2> QED
        BY <1>4, <2>1, RestartAllKeeps DEF Inv
<1>5. CASE UNCHANGED vars
    <2>1. WebhookInv' /\ UNCHANGED indexerVars /\ UNCHANGED faults
        BY <1>5, WebhookStutter DEF vars, webhookVars, Inv, WebhookInv, WebhookTypeOK
    <2> QED
        BY <2>1, IndexerStutter DEF Inv
<1> QED
    BY <1>1, <1>2, <1>3, <1>4, <1>5 DEF Next

(* The invariant behind the results below: rows and rounds of the webhooks are  *)
(* honest about what was posted, and the cursor, the polls that run and the     *)
(* tables fit together, at every await of every poll and across every failure   *)
(* and restart (indexer.service and webhook.service).                           *)
THEOREM InvHolds == Spec => []Inv
<1>1. Init => Inv
    BY InvStarts
<1>2. Inv /\ [Next]_vars => Inv'
    BY InvKept
<1> QED
    BY <1>1, <1>2, PTL DEF Spec

(* Variables have the values their columns and locals can have: the cursor is   *)
(* on the chain, a poll has blocks of the chain to do exactly while it updates  *)
(* and stores (runPollCycle).                                                   *)
THEOREM TypeCorrect == Spec => []TypeOK
<1>1. Inv => TypeOK
    BY DEF Inv
<1> QED
    BY <1>1, InvHolds, PTL

(* A row says delivered only if its endpoint accepted it, and failed only after *)
(* MAX_ATTEMPTS posts, whichever of the overlapping rounds wrote last           *)
(* (processWebhookDeliveries).                                                  *)
THEOREM DecisionsAlwaysHold == Spec => []DecisionsHold
<1>1. Inv => DecisionsHold
    BY DecisionsFromInv DEF Inv
<1> QED
    BY <1>1, InvHolds, PTL

(* Behind the cursor an event is stored or one of the failures that do not end  *)
(* a poll left it out, although slower polls write the cursor back              *)
(* (runPollCycle, storeEvent).                                                  *)
THEOREM StoredUpToCursorAlways == Spec => []StoredUpToCursor
<1>1. Inv => StoredUpToCursor
    BY StoredFromInv
<1> QED
    BY <1>1, InvHolds, PTL

(* A column that handlers increment never counts less than the events behind    *)
(* the cursor, but for those a failure left out.                                *)
THEOREM AddedNeverBehindAlways == Spec => []AddedNeverBehind
<1>1. Inv => AddedNeverBehind
    BY AddedFromInv
<1> QED
    BY <1>1, InvHolds, PTL

(* Until a poll fails, throws or runs beside another one, between polls each    *)
(* event is counted once and each registered agent was scored once, but for     *)
(* those whose transaction failed (runPollCycle).                               *)
THEOREM ExactUntilRedoneAlways == Spec => []ExactUntilRedone
<1>1. Inv => ExactUntilRedone
    BY ExactFromInv
<1> QED
    BY <1>1, InvHolds, PTL

(* A column that handlers copy is the contract's once the indexer has caught    *)
(* up, polls that failed and were repeated included, as long as no two ran at   *)
(* a time.                                                                      *)
THEOREM MirrorsChainAlways == Spec => []MirrorsChain
<1>1. Inv => MirrorsChain
    BY MirrorsFromInv
<1> QED
    BY <1>1, InvHolds, PTL

-----------------------------------------------------------------------------
(* Events on their way to the endpoints *)

(* A dispatch of b is in flight, or made its rows                               *)
OnItsWay(b) == outbox[b] > 0 \/ \E i \in 1 .. Len(deliveries) : deliveries[i].event = b

StoredOnItsWay == \A b \in stored : chain[b] \in Subscribed => OnItsWay(b)

(* rounds leave a row the row of its event *)
LEMMA RowsStay ==
    ASSUME WebhookInv, NEW r \in Rounds, Begin(r) \/ Post(r) \/ Record(r) \/ RecordFails(r)
    PROVE  /\ UNCHANGED outbox
           /\ Len(deliveries') = Len(deliveries)
           /\ \A i \in 1 .. Len(deliveries) : deliveries'[i].event = deliveries[i].event
<1>1. CASE Begin(r) \/ Post(r) \/ RecordFails(r)
    BY <1>1 DEF Begin, Post, RecordFails
<1>2. CASE Record(r)
    <2>1. PICK i, status, attempts :
              deliveries' = [deliveries EXCEPT ![i].status = status, ![i].attempts = attempts]
        BY <1>2 DEF Record
    <2>2. deliveries \in Seq(Rows) /\ Len(deliveries) \in Nat
        BY LenProperties DEF WebhookInv, WebhookTypeOK
    <2>3. Len(deliveries') = Len(deliveries)
        <3>1. WebhookTypeOK' /\ posts' = posts /\ Len(posts) = Len(deliveries)
            BY <1>2, RecordKeeps DEF WebhookInv, WebhookTypeOK, Record
        <3> QED
            BY <3>1 DEF WebhookTypeOK
    <2>4. ASSUME NEW j \in 1 .. Len(deliveries) PROVE deliveries'[j].event = deliveries[j].event
        <3>1. deliveries[j] \in Rows /\ j \in DOMAIN deliveries
            BY <2>2, ElementOfSeq, LenProperties
        <3> QED
            BY <2>1, <2>2, <3>1 DEF Rows
    <2> QED
        BY <1>2, <2>3, <2>4 DEF Record
<1> QED
    BY <1>1, <1>2

(* a dispatch in flight becomes rows, one at least *)
LEMMA DispatchMakesRows ==
    ASSUME WebhookInv, NEW e \in Events, Dispatch(e), active # {}
    PROVE  \A b \in Events : OnItsWay(b) => OnItsWay(b)'
<1>1. /\ WebhookTypeOK /\ WebhookTypeOK' /\ outbox' = [outbox EXCEPT ![e] = @ - 1]
      /\ Len(deliveries') = Len(deliveries) + Cardinality(active)
      /\ \A i \in 1 .. Len(deliveries) : deliveries'[i] = deliveries[i]
      /\ \A i \in 1 .. Len(deliveries') : i > Len(deliveries) => deliveries'[i].event = e
    BY DispatchTypes DEF WebhookInv, Dispatch
<1>2. Len(deliveries) \in Nat /\ Cardinality(active) \in Nat \ {0}
    <2>1. IsFiniteSet(active)
        BY <1>1, FS_Subset, WebhookAssumption DEF WebhookTypeOK
    <2>2. Cardinality(active) \in Nat /\ Cardinality(active) # 0
        BY <2>1, FS_CardinalityType, FS_EmptySet
    <2> QED
        BY <1>1, <2>2, LenProperties DEF WebhookTypeOK
<1>3. OnItsWay(e)'
    <2>1. Len(deliveries) + 1 \in 1 .. Len(deliveries') /\ Len(deliveries) + 1 > Len(deliveries)
        BY <1>1, <1>2
    <2>2. deliveries'[Len(deliveries) + 1].event = e
        BY <1>1, <2>1
    <2> QED
        BY <2>1, <2>2 DEF OnItsWay
<1>4. ASSUME NEW b \in Events, b # e, OnItsWay(b) PROVE OnItsWay(b)'
    <2>1. 1 .. Len(deliveries) \subseteq 1 .. Len(deliveries')
        BY <1>1, <1>2
    <2>2. outbox'[b] = outbox[b]
        BY <1>1, <1>4 DEF WebhookTypeOK
    <2> QED
        BY <1>1, <1>4, <2>1, <2>2 DEF OnItsWay
<1> QED
    BY <1>3, <1>4

(* What can lose a dispatch in flight                                           *)
Loses == RestartAll \/ \E e \in Events : DispatchFails(e)

LEMMA OnItsWayKept ==
    ASSUME Inv, Next, ~ Loses, active # {}, UNCHANGED active,
           NEW b \in Events, OnItsWay(b)
    PROVE  OnItsWay(b)'
<1>1. WebhookInv /\ outbox \in [Events -> Nat]
    BY DEF Inv, WebhookInv, WebhookTypeOK
<1>2. CASE UNCHANGED <<outbox, deliveries>>
    BY <1>2 DEF OnItsWay
<1>3. ASSUME NEW p \in Pollers, Store(p) PROVE OnItsWay(b)'
    <2>1. PICK c : c = FirstOf(pollers[p].todo)
        OBVIOUS
    <2>2. outbox' = Queued(c) \/ outbox' = outbox
        BY <1>3, <2>1 DEF Store
    <2>3. c \in Events
        BY <1>3, <2>1, AtIs DEF Store, Inv
    <2>4. outbox[b] > 0 => outbox'[b] > 0
        BY <1>1, <2>2, <2>3 DEF Queued
    <2> QED
        BY <1>3, <2>4 DEF OnItsWay, Store
<1>4. ASSUME NEW r \in Rounds, Begin(r) \/ Post(r) \/ Record(r) \/ RecordFails(r) PROVE OnItsWay(b)'
    BY <1>1, <1>4, RowsStay DEF OnItsWay
<1>5. ASSUME NEW e \in Events, Dispatch(e) PROVE OnItsWay(b)'
    BY <1>1, <1>5, DispatchMakesRows
<1>6. ASSUME NEW p \in Pollers, ReadCursor(p) \/ Scan(p) \/ Score(p) \/ Update(p) \/ Advance(p)
               \/ PollFails(p)
      PROVE  UNCHANGED <<outbox, deliveries>>
    BY <1>6 DEF ReadCursor, Reads, Scan, Score, Update, Advance, PollFails, webhookVars
<1>7. ASSUME NEW kind, Mine(kind) PROVE UNCHANGED <<outbox, deliveries>>
    BY <1>7 DEF Mine, webhookVars
<1>8. ASSUME NEW ep, Toggle(ep) PROVE UNCHANGED <<outbox, deliveries>>
    BY <1>8 DEF Toggle
<1> QED
    BY <1>2, <1>3, <1>4, <1>5, <1>6, <1>7, <1>8 DEF Next, Poll, WebhookWork, Loses

(* what is stored was dispatched in the same step *)
LEMMA StoredOnItsWayKept ==
    ASSUME Inv, StoredOnItsWay, Next, ~ Loses, active # {}, UNCHANGED active
    PROVE  StoredOnItsWay'
<1>1. /\ outbox \in [Events -> Nat] /\ TypeOK
      /\ stored \subseteq 1 .. Len(chain) /\ stored \subseteq Events
    BY Fields DEF Inv, WebhookInv, WebhookTypeOK
<1>2. \A b \in stored : chain'[b] = chain[b]
    <2>1. CASE UNCHANGED chain
        BY <2>1
    <2>2. ASSUME NEW kind \in Kinds, Mine(kind) PROVE \A b \in stored : chain'[b] = chain[b]
        BY <1>1, <2>2, Fields, AppendProperties DEF Mine
    <2>3. UNCHANGED chain \/ \E kind \in Kinds : Mine(kind)
        BY DEF Next, Poll, ReadCursor, Reads, Scan, Score, Update, Store, Advance, PollFails,
               indexerVars, Loses
    <2> QED
        BY <2>1, <2>2, <2>3
<1>3. \A b \in stored : chain[b] \in Subscribed => OnItsWay(b)'
    BY <1>1, OnItsWayKept DEF StoredOnItsWay
<1>4. CASE UNCHANGED stored
    BY <1>2, <1>3, <1>4 DEF StoredOnItsWay
<1>5. ASSUME NEW p \in Pollers, Store(p) PROVE StoredOnItsWay'
    <2>1. PICK b : b = FirstOf(pollers[p].todo)
        OBVIOUS
    <2>2. /\ b \in Events /\ stored' \subseteq stored \cup {b} /\ UNCHANGED chain
          /\ chain[b] \in Subscribed => outbox' = Queued(b)
        BY <1>1, <1>5, <2>1, AtIs DEF Store
    <2>3. chain[b] \in Subscribed => OnItsWay(b)'
        BY <1>1, <2>2 DEF OnItsWay, Queued
    <2> QED
        BY <1>3, <2>2, <2>3 DEF StoredOnItsWay
<1>6. UNCHANGED stored \/ \E p \in Pollers : Store(p)
    BY DEF Next, Mine, Poll, ReadCursor, Reads, Scan, Score, Update, Advance, PollFails,
           indexerVars, Loses
<1> QED
    BY <1>4, <1>5, <1>6

(* The safety half of ToldInTheEnd: while the process does not restart, no       *)
(* dispatch fails and nobody deactivates an endpoint, every event behind the    *)
(* cursor that endpoints subscribe to has rows or a dispatch in flight, or a    *)
(* failure left it out, however polls overlap, fail and throw; so only these    *)
(* lose a notification (storeEvent, dispatchWebhook).                           *)
THEOREM OnlyLossesLoseEvents ==
    ASSUME Endpoints # {}
    PROVE  Init /\ [][Next /\ ~ Loses /\ UNCHANGED active]_vars =>
               [](\A b \in 1 .. Len(chain) :
                      b <= lastBlock /\ chain[b] \in Subscribed => b \in missed \/ OnItsWay(b))
<1> DEFINE Sound == Inv /\ active = Endpoints /\ StoredOnItsWay
<1>1. Init => Sound
    BY InvStarts DEF Init, WebhookInit, StoredOnItsWay
<1>2. Sound /\ [Next /\ ~ Loses /\ UNCHANGED active]_vars => Sound'
    <2> SUFFICES ASSUME Sound, [Next /\ ~ Loses /\ UNCHANGED active]_vars PROVE Sound'
        OBVIOUS
    <2>1. Inv'
        BY InvKept
    <2>2. CASE Next /\ ~ Loses /\ UNCHANGED active
        BY <2>1, <2>2, StoredOnItsWayKept
    <2>3. CASE UNCHANGED vars
        BY <2>1, <2>3 DEF vars, indexerVars, webhookVars, StoredOnItsWay, OnItsWay
    <2> QED
        BY <2>2, <2>3
<1>3. Sound => \A b \in 1 .. Len(chain) :
                  b <= lastBlock /\ chain[b] \in Subscribed => b \in missed \/ OnItsWay(b)
    <2> SUFFICES ASSUME Sound, NEW b \in 1 .. Len(chain), b <= lastBlock, chain[b] \in Subscribed
                 PROVE  b \in missed \/ OnItsWay(b)
        OBVIOUS
    <2>1. b \notin Blocks("registered")
        BY IndexerAssumption DEF Blocks
    <2>2. b \in stored \cup missed
        BY <2>1, StoredFromInv DEF StoredUpToCursor
    <2> QED
        BY <2>2 DEF StoredOnItsWay
<1> HIDE DEF Sound
<1> QED
    BY <1>1, <1>2, <1>3, PTL

(* The cursor goes back only by polls that overlap: as long as none have, no    *)
(* range is read again once a poll has moved the cursor past it                 *)
(* (IndexerState.lastBlock).                                                    *)
THEOREM CursorOnlyAhead == Spec => [][overlaps' = 0 => lastBlock' >= lastBlock]_vars
<1>1. ASSUME Inv, Next, overlaps' = 0 PROVE lastBlock' >= lastBlock
    <2>1. TypeOK /\ lastBlock \in Nat
        BY <1>1, Fields DEF Inv
    <2>2. ASSUME NEW p \in Pollers, Advance(p) PROVE lastBlock' >= lastBlock
        <3>1. /\ pollers[p].at = "advance" /\ lastBlock' = pollers[p].to /\ overlaps = 0
            BY <1>1, <2>2 DEF Advance
        <3>2. p \in Busy /\ pollers[p].from \in 1 .. pollers[p].to
            BY <1>1, <3>1, WaitingIs DEF Inv, IndexerInv, PollOK, Busy
        <3>3. pollers[p].from = lastBlock + 1 /\ pollers[p].to \in Nat
            BY <1>1, <2>1, <3>1, <3>2, PollFields DEF Inv, IndexerInv, Alone
        <3> QED
            BY <2>1, <3>1, <3>2, <3>3
    <2>3. UNCHANGED lastBlock \/ \E p \in Pollers : Advance(p)
        BY <1>1 DEF Next, Mine, Poll, ReadCursor, Reads, Scan, Score, Update, Store, PollFails,
                    indexerVars, RestartAll
    <2> QED
        BY <2>1, <2>2, <2>3
<1>2. Inv /\ [Next]_vars => [overlaps' = 0 => lastBlock' >= lastBlock]_vars
    BY <1>1
<1> QED
    BY <1>2, InvHolds, PTL DEF Spec
=============================================================================
