---------------------------- MODULE ValidatorQueue ----------------------------
(***************************************************************************)
(* ValidatorQueueMaterializer (materializers/validator-queue.ts) and       *)
(* ValidatorMaterializer (materializers/validator.ts), the two writers of  *)
(* the staking state.  The queue is replayed from four tables that other   *)
(* materializers fill, each on a cursor of its own; the validators come    *)
(* straight from Ponder's deposit tables.  Both follow BaseMaterializer.   *)
(*                                                                         *)
(* The lifecycle events of all contracts form one history in chain order;  *)
(* a cursor is the position of the last event it covers.  BaseMaterializer *)
(* shows that a cursor and (block, log index) agree, MaterializerService   *)
(* what a reset does to a materializer that lags behind the reset block;   *)
(* here none does.  A poll may follow another at once: the barrier at the  *)
(* end of a cycle only rules behaviours out.                               *)
(***************************************************************************)
EXTENDS Integers, Sequences, FiniteSets

CONSTANTS
    Stakers,      \* pairs of attester and withdrawer, one per attester
    EventKinds,   \* the tables of the four that have rows
    Views,        \* outcomes of getAttesterView when a deposit is indexed
    Collected,    \* stakers whose attester a collector comes across
    BatchSize,    \* LIMIT of fetchBatch
    MaxEvents,    \* bound: length of the history
    MaxFaults,    \* bound: failed polls, failed updates and restarts
    MaxReorgs,    \* bound: reorganisations
    MaxRewinds    \* bound: re-indexes, after which rows are kept

Kinds == {"queued", "deposit", "gse", "failed"}

ASSUME QueueAssumption ==
    /\ EventKinds \subseteq Kinds
    /\ Views \subseteq BOOLEAN
    /\ Collected \subseteq Stakers
    /\ BatchSize \in Nat \ {0}
    /\ MaxEvents \in Nat
    /\ MaxFaults \in Nat
    /\ MaxReorgs \in Nat
    /\ MaxRewinds \in Nat

VARIABLES
    history,      \* lifecycle events of the canonical chain
    arrived,      \* last event each source materializer has copied
    queue,        \* ValidatorQueue rows
    listed,       \* stakers with a Validator row
    validators,   \* activation_date of the row, 0 without row or date
    cursor,       \* checkpoints of the two materializers
    poll,         \* their poll() in progress
    faults, reorgs, rewinds,
    harm          \* what has happened that the replay does not survive

sourceVars == <<history, arrived>>
tableVars == <<queue, listed, validators>>
counters == <<faults, reorgs, rewinds>>
vars == <<sourceVars, tableVars, cursor, poll, counters, harm>>

Replayers == {"queue", "validator"}
Deposits == {"deposit", "gse"}
Event == [kind : EventKinds, staker : Stakers, viewed : BOOLEAN]
Positions == 1 .. Len(history)
Harms == {"late", "repeated", "undone", "torn", "swallowed"}
Entry == [at : 1 .. MaxEvents, staker : Stakers]

Idle == [at |-> "idle"]
Reading(rows) == [at |-> "reading", rows |-> rows]
Applying(todo, upto) == [at |-> "applying", todo |-> todo, upto |-> upto]
Polls ==
    {Idle} \cup [at : {"reading"}, rows : SUBSET Positions]
           \cup [at : {"applying"}, todo : SUBSET Positions, upto : Positions]

TypeOK ==
    /\ history \in Seq(Event) /\ Len(history) <= MaxEvents
    /\ arrived \in [Kinds -> 0 .. Len(history)]
    /\ queue \subseteq Entry
    /\ listed \subseteq Stakers
    /\ validators \in [Stakers -> 0 .. MaxEvents]
    /\ cursor \in [Replayers -> 0 .. Len(history)]
    /\ poll \in [Replayers -> Polls]
    /\ faults \in 0 .. MaxFaults
    /\ reorgs \in 0 .. MaxReorgs
    /\ rewinds \in 0 .. MaxRewinds
    /\ harm \subseteq Harms

Init ==
    /\ history = <<>>
    /\ arrived = [k \in Kinds |-> 0]
    /\ queue = {}
    /\ listed = {}
    /\ validators = [s \in Stakers |-> 0]
    /\ cursor = [c \in Replayers |-> 0]
    /\ poll = [c \in Replayers |-> Idle]
    /\ faults = 0 /\ reorgs = 0 /\ rewinds = 0
    /\ harm = {}

----------------------------------------------------------------------------
(* The queue as a function of the history: an event of kind "queued" adds  *)
(* itself, any other removes the oldest entry of its staker.               *)
Oldest(S) == {p \in S : \A q \in S : p <= q}

Replay ==
    LET after[n \in 0 .. Len(history)] ==
            IF n = 0 THEN {}
            ELSE IF history[n].kind = "queued" THEN after[n - 1] \cup {n}
            ELSE after[n - 1] \ Oldest({p \in after[n - 1] : history[p].staker = history[n].staker})
    IN  after

PositionsOf(entries) == {x.at : x \in entries}
EventsOf(s, kinds) == {p \in Positions : history[p].staker = s /\ history[p].kind \in kinds}

----------------------------------------------------------------------------
(* The chain.  A rollup takes out of its queue, with a deposit or a failed *)
(* deposit, only somebody who is in it.                                    *)
Emit(e) ==
    /\ Len(history) < MaxEvents
    /\ e.kind \in {"deposit", "failed"} =>
        \E p \in Replay[Len(history)] : history[p].staker = e.staker
    /\ e.kind \in Deposits => e.viewed \in Views
    /\ e.kind \notin Deposits => e.viewed
    /\ history' = Append(history, e)
    /\ UNCHANGED <<arrived, tableVars, cursor, poll, counters, harm>>

(* The rows each replayer can read.                                        *)
Visible(c) ==
    IF c = "queue"
    THEN {p \in Positions : p <= arrived[history[p].kind]}
    ELSE {p \in Positions : history[p].kind \in Deposits}

After(c) == {p \in Visible(c) : cursor[c] < p}

(* The last position the next cursor of c will cover.                      *)
Committed(c) == IF poll[c].at = "applying" THEN poll[c].upto ELSE cursor[c]

(* The materializer of table k upserts its next row.  A row that arrives   *)
(* behind the events the queue has fetched is never replayed.              *)
SourceCopies(k) ==
    /\ \E p \in Positions :
        /\ history[p].kind = k /\ arrived[k] < p
        /\ \A q \in Positions : arrived[k] < q /\ q < p => history[q].kind # k
        /\ arrived' = [arrived EXCEPT ![k] = p]
        /\ harm' = IF p <= Committed("queue") THEN harm \cup {"late"} ELSE harm
    /\ UNCHANGED <<history, tableVars, cursor, poll, counters>>

----------------------------------------------------------------------------
(* poll().  ORDER BY block, log LIMIT BatchSize:                           *)
Batch(rows) == {p \in rows : Cardinality({q \in rows : q <= p}) <= BatchSize}
Last(rows) == CHOOSE p \in rows : \A q \in rows : q <= p

StartBatch(c, rows) ==
    poll' = [poll EXCEPT ![c] = IF rows = {} THEN Idle ELSE Applying(rows, Last(rows))]

(* The queue reads its four tables in one statement.                       *)
FetchBatch ==
    /\ poll["queue"] = Idle
    /\ After("queue") # {}
    /\ StartBatch("queue", Batch(After("queue")))
    /\ UNCHANGED <<sourceVars, tableVars, cursor, counters, harm>>

(* The validators are read from two tables in two statements, and Ponder   *)
(* may index events in between: the merged rows are then not all the rows  *)
(* up to the last one.                                                     *)
OfKind(k) == {p \in After("validator") : history[p].kind = k}

ReadDeposits ==
    /\ poll["validator"] = Idle
    /\ poll' = [poll EXCEPT !["validator"] = Reading(Batch(OfKind("deposit")))]
    /\ UNCHANGED <<sourceVars, tableVars, cursor, counters, harm>>

ReadGseDeposits ==
    /\ poll["validator"].at = "reading"
    /\ LET rows == Batch(poll["validator"].rows \cup Batch(OfKind("gse")))
       IN  /\ StartBatch("validator", rows)
           /\ harm' = IF \A p \in After("validator") : p \in rows \/ \A q \in rows : q < p
                      THEN harm ELSE harm \cup {"torn"}
    /\ UNCHANGED <<sourceVars, tableVars, cursor, counters>>

(* The next row of materializeBatch.                                       *)
TakeRow(c, p) ==
    /\ poll[c].at = "applying"
    /\ p \in Oldest(poll[c].todo)
    /\ poll' = [poll EXCEPT ![c].todo = @ \ {p}]
    /\ UNCHANGED <<sourceVars, cursor, reorgs, rewinds>>

(* addToQueue: upsert by transaction hash and log index.                   *)
AddToQueue(p) ==
    /\ TakeRow("queue", p)
    /\ history[p].kind = "queued"
    /\ queue' = queue \cup {[at |-> p, staker |-> history[p].staker]}
    /\ UNCHANGED <<listed, validators, faults, harm>>

(* The update of the activation date after a deposit. Every error of it is *)
(* caught and dropped: without a row there is nothing to update, and a     *)
(* call that fails for another reason leaves an older date for good.       *)
UpdateActivationDate(p) ==
    /\ validators' = IF history[p].kind = "deposit" /\ history[p].staker \in listed
                     THEN [validators EXCEPT ![history[p].staker] = p]
                     ELSE validators
    /\ UNCHANGED <<faults, harm>>

SwallowError(p) ==
    /\ faults < MaxFaults
    /\ history[p].kind = "deposit" /\ history[p].staker \in listed
    /\ faults' = faults + 1
    /\ harm' = harm \cup {"swallowed"}
    /\ UNCHANGED validators

(* Mutant: the newest entry of the staker goes.                            *)
RemoveNewest(p) ==
    /\ TakeRow("queue", p)
    /\ history[p].kind # "queued"
    /\ LET matching == {x \in queue : x.staker = history[p].staker}
       IN  queue' = {x \in queue : x \in matching => \E y \in matching : x.at < y.at}
    /\ UpdateActivationDate(p) \/ SwallowError(p)
    /\ UNCHANGED listed

(* removeFromQueue: findFirst by attester and withdrawer, ordered by       *)
(* queued_at; then the activation date.                                    *)
RemoveFromQueue(p) ==
    /\ TakeRow("queue", p)
    /\ history[p].kind # "queued"
    /\ LET matching == {x \in queue : x.staker = history[p].staker}
       IN  queue' = {x \in queue : x.at \notin Oldest(PositionsOf(matching))}
    /\ UpdateActivationDate(p) \/ SwallowError(p)
    /\ UNCHANGED listed

(* Mutant: the upsert does not update.                                     *)
CreateValidator(p) ==
    /\ TakeRow("validator", p)
    /\ LET s == history[p].staker
       IN  IF history[p].viewed /\ s \notin listed
           THEN listed' = listed \cup {s} /\ validators' = [validators EXCEPT ![s] = p]
           ELSE UNCHANGED <<listed, validators>>
    /\ UNCHANGED <<queue, faults, harm>>

(* ValidatorMaterializer: a deposit without an attester view is skipped.   *)
UpsertValidator(p) ==
    /\ TakeRow("validator", p)
    /\ LET s == history[p].staker
       IN  IF history[p].viewed
           THEN listed' = listed \cup {s} /\ validators' = [validators EXCEPT ![s] = p]
           ELSE UNCHANGED <<listed, validators>>
    /\ UNCHANGED <<queue, faults, harm>>

(* The collectors of indexer-custom upsert the attesters they find at a    *)
(* node or a rollup, whatever Ponder has indexed of them: a new row has no *)
(* activation date, and an existing one keeps its own.                     *)
CollectorUpserts(s) ==
    /\ s \in Collected \ listed
    /\ listed' = listed \cup {s}
    /\ UNCHANGED <<sourceVars, queue, validators, cursor, poll, counters, harm>>

(* Mutant: the cursor is saved first.                                      *)
SaveCursorEarly(c) ==
    /\ poll[c].at = "applying"
    /\ cursor' = [cursor EXCEPT ![c] = poll[c].upto]
    /\ poll' = [poll EXCEPT ![c] = Idle]
    /\ UNCHANGED <<sourceVars, tableVars, counters, harm>>

SaveCursor(c) ==
    /\ poll[c].at = "applying"
    /\ poll[c].todo = {}
    /\ cursor' = [cursor EXCEPT ![c] = poll[c].upto]
    /\ poll' = [poll EXCEPT ![c] = Idle]
    /\ UNCHANGED <<sourceVars, tableVars, counters, harm>>

PollStep(c) ==
    \/ c = "queue" /\ FetchBatch
    \/ c = "validator" /\ (ReadDeposits \/ ReadGseDeposits)
    \/ \E p \in Positions :
        \/ c = "queue" /\ (AddToQueue(p) \/ RemoveFromQueue(p))
        \/ c = "validator" /\ UpsertValidator(p)
    \/ SaveCursor(c)

----------------------------------------------------------------------------
(* Events are applied again.  A removal is not idempotent: it takes a      *)
(* second entry of its staker if there is one.                             *)
QueuedTwice(n) ==
    \E p, q \in 1 .. n :
        /\ p < q
        /\ history[p].kind = "queued" /\ history[q].kind = "queued"
        /\ history[p].staker = history[q].staker

Repeating(n) == IF QueuedTwice(n) THEN {"repeated"} ELSE {}

(* A call throws in one poll, or the process dies in all of them.          *)
Abandon(C) ==
    /\ faults < MaxFaults
    /\ \E c \in C : poll[c] # Idle
    /\ poll' = [c \in Replayers |-> IF c \in C THEN Idle ELSE poll[c]]
    /\ faults' = faults + 1
    /\ harm' = harm \cup (IF "queue" \in C THEN Repeating(Committed("queue")) ELSE {})
    /\ UNCHANGED <<sourceVars, tableVars, cursor, reorgs, rewinds>>

PollFails(c) == Abandon({c})
Restart == Abandon(Replayers)

(* Mutant: no row is deleted.                                              *)
DeleteNothing(b) == queue' = queue

(* deleteAfterBlock of the queue; that of the validators deletes nothing.  *)
DeleteAfter(b) == queue' = {x \in queue : x.at <= b}

(* A recovery resets every materializer between two polls.  The events     *)
(* after n have left the chain, those after b lie above the reset block,   *)
(* those after k in it or above: the checkpoint (block, 0) makes them be   *)
(* read again.                                                             *)
Reached(b) ==
    /\ \A c \in Replayers : poll[c] = Idle /\ \A p \in After(c) : b < p
    /\ \A p \in 1 .. b : p <= arrived[history[p].kind]

Rewound(k) == cursor' = [c \in Replayers |-> k]

Reset(n, b, k) ==
    /\ reorgs < MaxReorgs
    /\ n < Len(history) /\ b <= n /\ k <= b
    /\ Reached(b)
    /\ history' = SubSeq(history, 1, n)
    /\ arrived' = [x \in Kinds |->
         CHOOSE p \in 0 .. b :
            /\ p # 0 => history[p].kind = x
            /\ \A q \in 1 .. b : history[q].kind = x => q <= p]
    /\ DeleteAfter(b)
    /\ Rewound(k)
    /\ reorgs' = reorgs + 1
    /\ harm' = harm \cup Repeating(b) \cup
         (IF \E p \in Replay[b] : p <= k /\ p \notin PositionsOf(queue) THEN {"undone"} ELSE {})
    /\ UNCHANGED <<listed, validators, poll, faults, rewinds>>

(* After a re-index the rows are kept and the cursors rewound.  Ponder     *)
(* indexes the deposits again in order: they can be replayed later than    *)
(* here, and a batch be torn by them as it is by new ones.                 *)
Rewind(k) ==
    /\ rewinds < MaxRewinds
    /\ k < Len(history)
    /\ Reached(k)
    /\ Rewound(k)
    /\ rewinds' = rewinds + 1
    /\ harm' = harm \cup Repeating(Len(history)) \cup
         (IF 1 .. cursor["queue"] \subseteq Visible("queue") THEN {} ELSE {"late"})
    /\ UNCHANGED <<sourceVars, tableVars, poll, faults, reorgs>>

----------------------------------------------------------------------------
Next ==
    \/ \E e \in Event : Emit(e)
    \/ \E k \in Kinds : SourceCopies(k)
    \/ \E s \in Stakers : CollectorUpserts(s)
    \/ \E c \in Replayers : PollStep(c) \/ PollFails(c)
    \/ Restart
    \/ \E n \in 0 .. MaxEvents : \E b \in 0 .. n : \E k \in 0 .. b : Reset(n, b, k)
    \/ \E k \in 0 .. MaxEvents : Rewind(k)

(* Every materializer is polled every few seconds.                         *)
Fairness ==
    /\ \A k \in Kinds : WF_vars(SourceCopies(k))
    /\ \A c \in Replayers : WF_vars(PollStep(c))

Spec == Init /\ [][Next]_vars /\ Fairness

----------------------------------------------------------------------------
CaughtUp ==
    /\ \A p \in Positions : p <= arrived[history[p].kind]
    /\ \A c \in Replayers : poll[c] = Idle /\ After(c) = {}

QueueReplayed == PositionsOf(queue) = Replay[Len(history)]

(* Once everything is caught up the queue is the FIFO replay of the chain, *)
(* crashes, reorganisations and re-indexes notwithstanding, unless a row   *)
(* arrived behind the cursor, removals were repeated while a staker was    *)
(* queued twice, or a reset undid a removal of an older entry.             *)
QueueIsReplay ==
    CaughtUp /\ harm \cap {"late", "repeated", "undone"} = {} => QueueReplayed

(* Whatever happened, an entry is a queued event of the canonical chain.   *)
NoGhostEntry ==
    \A x \in queue :
        /\ x.at \in Positions
        /\ history[x.at].kind = "queued"
        /\ history[x.at].staker = x.staker

(* Two materializers write activation dates, in either order, and          *)
(* collectors add rows without one. When all are caught up, the date is    *)
(* that of the last deposit either writer has seen; it is missing only     *)
(* from somebody whose deposits were never viewed. Excepted are a batch of *)
(* two torn reads, a deposit that arrived behind the queue's cursor (the   *)
(* queue may then write an older date last), one that has left the chain,  *)
(* and an update whose error was swallowed.                                *)
Latest(S) == {p \in S : \A q \in S : q <= p}
ViewedOf(s) == {p \in EventsOf(s, Deposits) : history[p].viewed}
Undated(s) == IF ViewedOf(s) = {} THEN {0} ELSE {}
ActivationIsLastDeposit ==
    CaughtUp /\ reorgs = 0 /\ harm \cap {"late", "torn", "swallowed"} = {} =>
        \A s \in Stakers :
            validators[s] \in Latest(ViewedOf(s)) \cup Latest(EventsOf(s, {"deposit"})) \cup Undated(s)

(* The replay terminates: once the chain and the faults rest, the queue    *)
(* becomes and stays the replay of the whole history, unless harmed.       *)
EventuallyReplayed == <>[](QueueReplayed \/ harm \cap {"late", "repeated", "undone"} # {})

=============================================================================
