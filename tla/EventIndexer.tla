---------------------------- MODULE EventIndexer ----------------------------
(* The backend's indexer of the Base contracts (backend/src/services/           *)
(* indexer.service): every 15 s a poll reads the blocks after a cursor kept in  *)
(* the database, brings the tables up to date, stores the events and moves the  *)
(* cursor.  Stored events go on to the webhooks (WebhookDelivery).              *)
(*                                                                              *)
(* The interval does not wait for the poll before, and a poll awaits after each *)
(* row: a poller here is one running poll and an action what it does between    *)
(* two awaits.  A poll that fails or throws ends before it moves the cursor, so *)
(* the next one repeats the range.                                              *)
(*                                                                              *)
(* A block has one event at most, of one agent and one vault.  What handlers do *)
(* to the tables is of four sorts: to create the vault's row, to add to one of  *)
(* its columns (totalRepaid, tranchesReleased, poolFunded ...), to set one      *)
(* (state, totalRaised, milestone ...), and to put the agent's score into its   *)
(* Merchant row; here one of each.  Events of a sort that is not in Kinds are   *)
(* taken to have come before the first block.                                   *)
EXTENDS WebhookDelivery

CONSTANTS
    Pollers,        \* polls that can run at a time
    MaxPerPoll,     \* MAX_BLOCKS_PER_POLL
    Kinds,          \* the sorts of events the instance has
    Subscribed,     \* those the endpoints subscribe to
    MaxOverlaps     \* bound of polls that begin while another one runs

ASSUME IndexerAssumption ==
    /\ Events = 1 .. Cardinality(Events)
    /\ Kinds \subseteq {"registered", "created", "adds", "sets", "score"}
    /\ Subscribed \subseteq Kinds \ {"registered"}
    /\ MaxPerPoll \in Nat
    /\ MaxOverlaps \in Nat

VARIABLES
    chain,          \* the events of the blocks so far
    lastBlock,      \* IndexerState.lastBlock
    vault,          \* the vault's row: whether it exists, what was added and set;
                    \* and whether its agent has a Merchant row
    stored,         \* VaultEvent: blocks whose event is stored
    scored,         \* how often the indexer set the score of a registered agent
                    \* (2: twice or more often)
    pollers,        \* polls that run
    missed,         \* events that a failure left out without ending the poll
    overlaps,       \* polls that began while another one ran
    thrown          \* whether a handler has thrown and ended its poll

indexerVars == <<chain, lastBlock, vault, stored, scored, pollers, missed, overlaps, thrown>>
vars == <<indexerVars, webhookVars>>

Waiting == [at |-> "idle", from |-> 0, to |-> 0, todo |-> {}]

Blocks(kind) == {b \in 1 .. Len(chain) : chain[b] = kind}

(* What the contract's column is after block b *)
SetBy(b) == Cardinality({k \in Blocks("sets") : k <= b})

-----------------------------------------------------------------------------
(* The chain *)

(* What must have happened before.  An agent registers once and creates its     *)
(* vault once, with a score that is valid.                                      *)
Requires(kind) ==
    CASE kind = "registered" -> {}
      [] kind = "score" -> {"registered"}
      [] kind = "created" -> {"registered", "score"}
      [] OTHER -> {"created"}

(* A block with an event the contracts can emit next *)
Mine(kind) ==
    /\ Len(chain) < Cardinality(Events)
    /\ kind \in {"registered", "created"} => Blocks(kind) = {}
    /\ \A first \in Requires(kind) \cap Kinds : Blocks(first) # {}
    /\ chain' = Append(chain, kind)
    /\ UNCHANGED <<lastBlock, vault, stored, scored, pollers, missed, overlaps, thrown,
                   webhookVars>>

-----------------------------------------------------------------------------
(* runPollCycle *)

Busy == {p \in Pollers : pollers[p] # Waiting}

Goes(p, poll) == pollers' = [pollers EXCEPT ![p] = poll]

Reads(p, from) ==
    /\ pollers[p] = Waiting
    /\ IF Busy = {} THEN UNCHANGED overlaps
       ELSE overlaps < MaxOverlaps /\ overlaps' = overlaps + 1
    /\ Goes(p, [Waiting EXCEPT !.at = "scan", !.from = from])
    /\ UNCHANGED <<chain, lastBlock, vault, stored, scored, missed, thrown, webhookVars>>

ReadCursor_Again(p) == Reads(p, lastBlock)

ReadCursor_SkipsOne(p) == Reads(p, lastBlock + 2)

ReadCursor(p) == Reads(p, lastBlock + 1)

(* Events are handled kind by kind, within a kind by block *)
Rank(kind) == CASE kind = "registered" -> 0 [] kind = "created" -> 1
                [] kind = "adds" -> 2 [] kind = "sets" -> 3
                [] kind = "score" -> 4

Before_NewestFirst(b, c) ==
    Rank(chain[b]) < Rank(chain[c]) \/ (chain[b] = chain[c] /\ b > c)

Before(b, c) ==
    Rank(chain[b]) < Rank(chain[c]) \/ (chain[b] = chain[c] /\ b < c)

FirstOf(blocks) == CHOOSE b \in blocks : \A c \in blocks \ {b} : Before(b, c)

RangeEnd_PastHead(from) == from + MaxPerPoll

RangeEnd(from) ==
    IF from + MaxPerPoll < Len(chain) THEN from + MaxPerPoll ELSE Len(chain)

(* The end of the range, the vaults and the logs are read.  When the list of    *)
(* vaults cannot be read the poll goes on as if there were none.                *)
Scan(p) ==
    LET from == pollers[p].from
        to == RangeEnd(from)
        range == (from .. to) \cap (1 .. Len(chain))
        Fetched(blocks) == Goes(p, [at |-> IF blocks = {} THEN "advance" ELSE "update",
                                    from |-> from, to |-> to, todo |-> blocks])
        perVault == range \cap (Blocks("adds") \cup Blocks("sets"))
    IN  /\ pollers[p].at = "scan"
        /\ IF from > Len(chain)
           THEN Goes(p, Waiting) /\ UNCHANGED <<missed, faults>>
           ELSE \/ Fetched(range) /\ UNCHANGED <<missed, faults>>
                \/ /\ faults < MaxFaults
                   /\ faults' = faults + 1
                   /\ Fetched(range \ perVault)
                   /\ missed' = missed \cup perVault
        /\ UNCHANGED <<chain, lastBlock, vault, stored, scored, overlaps, thrown,
                       outbox, deliveries, rounds, posts, accepted, active>>

Rest(poll) ==
    LET rest == poll.todo \ {FirstOf(poll.todo)}
    IN  [poll EXCEPT !.at = IF rest = {} THEN "advance" ELSE "update", !.todo = rest]

(* What the handler of an event does to the rows, as they are by now            *)
RowAfter_Overwrites(b) ==
    CASE chain[b] = "created" -> [vault EXCEPT !.exists = TRUE, !.added = 0, !.set = 0]
      [] chain[b] = "adds" -> [vault EXCEPT !.added = @ + 1]
      [] chain[b] = "sets" -> [vault EXCEPT !.set = SetBy(b)]
      [] chain[b] = "score" -> [vault EXCEPT !.merchant = TRUE]

RowAfter(b) ==
    CASE chain[b] = "created" -> [vault EXCEPT !.exists = TRUE]
      [] chain[b] = "adds" /\ vault.exists -> [vault EXCEPT !.added = @ + 1]
      [] chain[b] = "sets" /\ vault.exists -> [vault EXCEPT !.set = SetBy(b)]
      [] chain[b] = "score" -> [vault EXCEPT !.merchant = TRUE]
      [] OTHER -> vault

(* A newly registered agent is given its first score by a transaction.  When it *)
(* cannot be sent, or there is no wallet to send it, the poll goes on.          *)
Score(p) ==
    LET b == FirstOf(pollers[p].todo)
    IN  /\ pollers[p].at = "update"
        /\ chain[b] = "registered"
        /\ \/ /\ scored' = [scored EXCEPT ![b] = IF @ = 0 THEN 1 ELSE 2]
              /\ UNCHANGED missed
           \/ /\ missed' = missed \cup {b}
              /\ UNCHANGED scored
        /\ Goes(p, Rest(pollers[p]))
        /\ UNCHANGED <<chain, lastBlock, vault, stored, overlaps, thrown, webhookVars>>

(* The vault's row refers to the Merchant row of its agent, and is refused when *)
(* there is none: the handler throws and ends the poll.                         *)
Refused(b) == chain[b] = "created" /\ ~vault.merchant

(* Other events update the row *)
Update(p) ==
    LET b == FirstOf(pollers[p].todo)
    IN  /\ pollers[p].at = "update"
        /\ chain[b] # "registered"
        /\ IF Refused(b)
           THEN Goes(p, Waiting) /\ thrown' = TRUE /\ UNCHANGED vault
           ELSE /\ vault' = RowAfter(b)
                /\ Goes(p, [pollers[p] EXCEPT !.at = "store"])
                /\ UNCHANGED thrown
        /\ UNCHANGED <<chain, lastBlock, stored, scored, missed, overlaps, webhookVars>>

(* storeEvent: stored once; dispatched whenever it is called, also when the     *)
(* database refuses the row.                                                    *)
Store(p) ==
    LET poll == pollers[p]
        b == FirstOf(poll.todo)
    IN  /\ poll.at = "store"
        /\ \/ /\ stored' = stored \cup {b}
              /\ UNCHANGED <<missed, faults>>
           \/ /\ faults < MaxFaults
              /\ faults' = faults + 1
              /\ missed' = missed \cup {b}
              /\ UNCHANGED stored
        /\ outbox' = IF chain[b] \in Subscribed THEN Queued(b) ELSE outbox
        /\ Goes(p, Rest(poll))
        /\ UNCHANGED <<chain, lastBlock, vault, scored, overlaps, thrown,
                       deliveries, rounds, posts, accepted, active>>

Advance(p) ==
    LET poll == pollers[p]
    IN  /\ poll.at = "advance"
        /\ lastBlock' = poll.to
        /\ Goes(p, Waiting)
        /\ UNCHANGED <<chain, vault, stored, scored, missed, overlaps, thrown, webhookVars>>

(* The chain or the database fails and the poll with it *)
PollFails(p) ==
    /\ pollers[p] # Waiting
    /\ faults < MaxFaults
    /\ faults' = faults + 1
    /\ Goes(p, Waiting)
    /\ UNCHANGED <<chain, lastBlock, vault, stored, scored, missed, overlaps, thrown,
                   outbox, deliveries, rounds, posts, accepted, active>>

(* The process ends and starts again *)
RestartAll ==
    /\ Restart
    /\ pollers' = [p \in Pollers |-> Waiting]
    /\ UNCHANGED <<chain, lastBlock, vault, stored, scored, missed, overlaps, thrown>>

-----------------------------------------------------------------------------
Init ==
    /\ WebhookInit
    /\ chain = <<>>
    /\ lastBlock = 0
    /\ vault = [exists |-> "created" \notin Kinds, added |-> 0, set |-> 0,
                merchant |-> "score" \notin Kinds]
    /\ stored = {}
    /\ scored = [b \in Events |-> 0]
    /\ pollers = [p \in Pollers |-> Waiting]
    /\ missed = {}
    /\ overlaps = 0
    /\ thrown = FALSE

Poll(p) == Scan(p) \/ Score(p) \/ Update(p) \/ Store(p) \/ Advance(p)

Next ==
    \/ \E kind \in Kinds : Mine(kind)
    \/ \E p \in Pollers : ReadCursor(p) \/ Poll(p) \/ PollFails(p)
    \/ WebhookWork /\ UNCHANGED indexerVars
    \/ RestartAll

Spec == Init /\ [][Next]_vars

(* A poll goes on, since each of its awaits ends, and the interval keeps        *)
(* firing; the webhooks likewise.  Nothing is assumed of blocks and failures.   *)
Fairness ==
    /\ \A p \in Pollers : WF_vars(Poll(p))
    /\ SF_vars(\E p \in Pollers : ReadCursor(p))
    /\ \A b \in Events : WF_vars(Dispatch(b) /\ UNCHANGED indexerVars)
    /\ \A r \in Rounds : WF_vars((Post(r) \/ Record(r)) /\ UNCHANGED indexerVars)
    /\ SF_vars((\E r \in Rounds : Begin(r)) /\ UNCHANGED indexerVars)

FairSpec == Spec /\ Fairness

-----------------------------------------------------------------------------
TypeOK ==
    /\ WebhookTypeOK
    /\ chain \in Seq(Kinds) /\ Len(chain) <= Cardinality(Events)
    /\ lastBlock \in 0 .. Len(chain)
    /\ vault \in [exists : BOOLEAN, added : Nat, set : 0 .. Len(chain), merchant : BOOLEAN]
    /\ stored \subseteq 1 .. Len(chain)
    /\ scored \in [Events -> 0 .. 2]
    /\ pollers \in [Pollers -> [at : {"idle", "scan", "update", "store", "advance"},
                                from : Nat, to : 0 .. Len(chain),
                                todo : SUBSET (1 .. Len(chain))]]
    /\ \A p \in Pollers : pollers[p].at \in {"update", "store"} <=> pollers[p].todo # {}
    /\ missed \subseteq 1 .. Len(chain)
    /\ overlaps \in 0 .. MaxOverlaps
    /\ thrown \in BOOLEAN

(* Behind the cursor nothing is forgotten, although polls overlap, fail at any  *)
(* point and write the cursor back to where they began: an event there is       *)
(* stored, or one of the failures that do not end a poll left it out.           *)
StoredUpToCursor ==
    \A b \in 1 .. Len(chain) \ Blocks("registered") :
        b <= lastBlock => b \in stored \cup missed

(* A column that handlers add to counts every event behind the cursor, however  *)
(* polls overlap, fail and repeat.  (It may count one more than once.)          *)
AddedNeverBehind ==
    vault.added >= Cardinality({b \in Blocks("adds") \ missed : b <= lastBlock})

(* As long as no poll has failed or thrown and none has run beside another,     *)
(* between polls the column counts each event behind the cursor once, and a     *)
(* registered agent had its score set once, unless that transaction failed:     *)
(* then it never has, since nothing tries again.                                *)
ExactUntilRedone ==
    faults = 0 /\ overlaps = 0 /\ ~thrown /\ Busy = {} =>
        /\ vault.added = Cardinality({b \in Blocks("adds") : b <= lastBlock})
        /\ \A b \in Blocks("registered") :
              b <= lastBlock => scored[b] = IF b \in missed THEN 0 ELSE 1

(* A column that handlers set is what the contract has once the indexer has     *)
(* caught up, failed and repeated polls included.  (Not if two have overlapped: *)
(* the slower one writes what it read, and nothing corrects it.)                *)
MirrorsChain ==
    Busy = {} /\ overlaps = 0 /\ lastBlock = Len(chain) /\ Blocks("sets") \cap missed = {} =>
        vault.set = SetBy(lastBlock)

(* The range the next poll reads has the creation of a vault whose agent has no *)
(* Merchant row yet: the poll throws before it comes to the agent's score.      *)
Blocked ==
    \E b \in Blocks("created") :
        Refused(b) /\ b \in lastBlock + 1 .. RangeEnd(lastBlock + 1)

(* Every event of the chain is stored in the end, or a failure left it out,     *)
(* unless a vault's creation blocks the indexer for good.                       *)
StoredInTheEnd ==
    []<>(~Blocked) =>
        \A b \in Events :
            (b \in 1 .. Len(chain) /\ chain[b] # "registered") ~> (b \in stored \cup missed)

(* What the backend's README says of the indexer, that it backtracks from the   *)
(* first block and may replay any: while nothing fails, the cursor passes every *)
(* block.                                                                       *)
CatchesUp ==
    [](faults = 0) => \A b \in Events : b \in 1 .. Len(chain) ~> b <= lastBlock

Told(b) == \E i \in 1 .. Len(deliveries) :
              deliveries[i].event = b /\ deliveries[i].status \in {"delivered", "failed"}

(* From the block to the endpoint: while nothing fails, the indexer is not      *)
(* blocked and the endpoints stay active, every event they subscribe to is      *)
(* delivered or given up in the end.                                            *)
ToldInTheEnd ==
    [](faults = 0 /\ active = Endpoints) /\ []<>(~Blocked) =>
        \A b \in Events : (b \in 1 .. Len(chain) /\ chain[b] \in Subscribed) ~> Told(b)
=============================================================================
