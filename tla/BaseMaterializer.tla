--------------------------- MODULE BaseMaterializer ---------------------------
(***************************************************************************)
(* BaseMaterializer (materializers/base.ts) with a direct-copy subclass:   *)
(* poll() reads the cursor, fetches a batch from Ponder, upserts its rows  *)
(* one at a time and saves the cursor, four database calls without a       *)
(* transaction.  The cursor and the table are persistent, the batch is     *)
(* lost when a call throws or the process dies.                            *)
(*                                                                         *)
(* CopySpec is the materializers on their own, over a chain that only      *)
(* grows; ReorgDetector and MaterializerService build on this module.      *)
(***************************************************************************)
EXTENDS PonderLog, EventOrder

CONSTANTS
    BatchSize,   \* LIMIT of fetchBatch
    MaxFaults    \* bound: failed polls, failed checks and restarts

ASSUME BaseAssumption == BatchSize \in Nat \ {0} /\ MaxFaults \in Nat

VARIABLES
    cursor,   \* MaterializerCheckpoint row of each materializer
    table,    \* rows of its Prisma table
    poll,     \* its poll() in progress
    faults    \* failures so far

copyVars == <<cursor, table>>
baseVars == <<ponderVars, cursor, table, poll, faults>>

(* poll(): "idle" between cycles; "writing" inside materializeBatch, todo  *)
(* the rows still to upsert and upto the batch's last row; "done" once the *)
(* call of this cycle has settled.                                         *)
Idle == [at |-> "idle"]
Done == [at |-> "done"]
Writing(todo, upto) == [at |-> "writing", todo |-> todo, upto |-> upto]

WritingState == [at : {"writing"}, todo : SUBSET Event, upto : Event]

BaseTypeOK ==
    /\ PonderTypeOK
    /\ cursor \in [Materializers -> Position]
    /\ table \in [Materializers -> SUBSET Event]
    /\ poll \in [Materializers -> {Idle, Done} \cup WritingState]
    /\ faults \in 0 .. MaxFaults

BaseInit ==
    /\ PonderInit
    /\ cursor = [m \in Materializers |-> [block |-> 0, log |-> 0]]
    /\ table = [m \in Materializers |-> {}]
    /\ poll = [m \in Materializers |-> Idle]
    /\ faults = 0

(* Mutant: the cursor condition forgets the log index.                     *)
AfterBlock(m) == {e \in Events(m) : cursor[m].block < e.block}

After(m) == {e \in Events(m) : Before(cursor[m], e)}

(* ORDER BY block, log LIMIT BatchSize: the earliest rows after the cursor,*)
(* up to some last one.                                                    *)
IsBatch(batch, upto, m) ==
    /\ batch = {e \in After(m) : Covers(upto, e)}
    /\ \/ Cardinality(batch) = BatchSize
       \/ Cardinality(batch) < BatchSize /\ batch = After(m)

(* Mutant: the cursor that is saved is the one that was read.              *)
FetchKeepingCursor(m) ==
    /\ poll[m] = Idle
    /\ \E upto \in After(m) :
        LET batch == {e \in After(m) : Covers(upto, e)}
        IN  /\ IsBatch(batch, upto, m)
            /\ poll' = [poll EXCEPT ![m] = Writing(batch, cursor[m])]
    /\ UNCHANGED <<ponderVars, copyVars, faults>>

FetchBatch(m) ==
    /\ poll[m] = Idle
    /\ \E upto \in After(m) :
        LET batch == {e \in After(m) : Covers(upto, e)}
        IN  /\ IsBatch(batch, upto, m)
            /\ poll' = [poll EXCEPT ![m] = Writing(batch, upto)]
    /\ UNCHANGED <<ponderVars, copyVars, faults>>

(* Nothing after the cursor: the default onIdle() does nothing.            *)
PollNothing(m) ==
    /\ poll[m] = Idle
    /\ After(m) = {}
    /\ poll' = [poll EXCEPT ![m] = Done]
    /\ UNCHANGED <<ponderVars, copyVars, faults>>

(* The next upsert of materializeBatch, in the order of the batch.         *)
UpsertRow(m) ==
    /\ poll[m].at = "writing"
    /\ \E e \in poll[m].todo :
        /\ \A d \in poll[m].todo : Covers(d, e)
        /\ table' = [table EXCEPT ![m] = @ \cup {e}]
        /\ poll' = [poll EXCEPT ![m].todo = @ \ {e}]
    /\ UNCHANGED <<ponderVars, cursor, faults>>

(* Mutant: the log index of the cursor is lost.                            *)
SaveCursorBlock(m) ==
    /\ poll[m].at = "writing"
    /\ poll[m].todo = {}
    /\ cursor' = [cursor EXCEPT ![m] = [block |-> poll[m].upto.block, log |-> 0]]
    /\ poll' = [poll EXCEPT ![m] = Done]
    /\ UNCHANGED <<ponderVars, table, faults>>

SaveCursor(m) ==
    /\ poll[m].at = "writing"
    /\ poll[m].todo = {}
    /\ cursor' = [cursor EXCEPT ![m] = PositionOf(poll[m].upto)]
    /\ poll' = [poll EXCEPT ![m] = Done]
    /\ UNCHANGED <<ponderVars, table, faults>>

(* A database call of poll() throws: allSettled records the rejection and  *)
(* the rows already written stay.                                          *)
PollFails(m) ==
    /\ faults < MaxFaults
    /\ poll[m] # Done
    /\ poll' = [poll EXCEPT ![m] = Done]
    /\ faults' = faults + 1
    /\ UNCHANGED <<ponderVars, copyVars>>

PollStep(m) == FetchBatch(m) \/ PollNothing(m) \/ UpsertRow(m) \/ SaveCursor(m)

(* Mutant: Promise.all in place of allSettled, a rejection ends the loop.  *)
EndCycleUnlessFailed ==
    /\ faults = 0
    /\ \A m \in Materializers : poll[m] = Done
    /\ poll' = [m \in Materializers |-> Idle]
    /\ UNCHANGED <<ponderVars, copyVars, faults>>

(* Promise.allSettled has every result; the next cycle starts after the    *)
(* poll interval.                                                          *)
EndCycle ==
    /\ \A m \in Materializers : poll[m] = Done
    /\ poll' = [m \in Materializers |-> Idle]
    /\ UNCHANGED <<ponderVars, copyVars, faults>>

(* The process dies and is started again: only the database survives.      *)
RestartPolls ==
    /\ faults < MaxFaults
    /\ poll' = [m \in Materializers |-> Idle]
    /\ faults' = faults + 1
    /\ UNCHANGED <<ponderVars, copyVars>>

(* Mutants of the two operators below: the boundary block is deleted too;  *)
(* the checkpoint is not written.                                          *)
DeleteFromBlock(m, b) ==
    table' = [table EXCEPT ![m] = {e \in @ : e.block < b}]

KeepCheckpoint(m, b) == cursor' = cursor

(* The next two belong to resetToBlock, which ReorgDetector calls while no *)
(* poll is running: deleteAfterBlock and resetCheckpoint.                  *)
DeleteAfterBlock(m, b) ==
    table' = [table EXCEPT ![m] = {e \in @ : e.block <= b}]

ResetCheckpoint(m, b) ==
    cursor' = [cursor EXCEPT ![m] = [block |-> b, log |-> 0]]

----------------------------------------------------------------------------
IndexBlock == \E logs \in BlockLogs : IndexNewBlock(logs)

CopyNext ==
    \/ IndexBlock /\ UNCHANGED <<copyVars, poll, faults>>
    \/ \E m \in Materializers : PollStep(m) \/ PollFails(m)
    \/ EndCycle
    \/ RestartPolls

(* The poll loop never stops by itself: while (true) with a 5 s sleep.     *)
CopyFairness == WF_baseVars(EndCycle) /\ \A m \in Materializers : WF_baseVars(PollStep(m))

CopySpec == BaseInit /\ [][CopyNext]_baseVars /\ CopyFairness

----------------------------------------------------------------------------
(* No event is lost: every event Ponder holds at or below a saved cursor   *)
(* is in the table, whatever poll was cut short before it was written.     *)
NoGap(m) == \A e \in Events(m) : Covers(cursor[m], e) => e \in table[m]
NoEventSkipped == \A m \in Materializers : NoGap(m)

(* Why: a cursor is never ahead of Ponder, and a poll in progress has in   *)
(* hand all the events up to its last row that are not written yet.        *)
CursorIndexed(m) == cursor[m].block <= indexed
BatchInHand(m) ==
    poll[m] \in WritingState =>
        /\ Before(cursor[m], poll[m].upto)
        /\ poll[m].upto \in Events(m)
        /\ poll[m].todo \subseteq Events(m)
        /\ \A e \in Events(m) :
            Covers(poll[m].upto, e) => e \in table[m] \cup poll[m].todo

CopyInvariant ==
    /\ BaseTypeOK
    /\ \A m \in Materializers :
        /\ CursorIndexed(m)
        /\ table[m] \subseteq Events(m)
        /\ NoGap(m)
        /\ BatchInHand(m)

(* The materializers implement the copy PrefixCopy promises: the rows come *)
(* from the log, the cursor moves forward and only over copied events.     *)
Abstract == INSTANCE PrefixCopy WITH
    Streams <- Materializers,
    source <- [m \in Materializers |-> Events(m)],
    copied <- table,
    position <- cursor

ImplementsPrefixCopy == Abstract!AbstractSpec

(* Once a block is indexed, its events and those before it reach their     *)
(* tables, whatever polls fail on the way.                                 *)
EveryEventCopied ==
    \A b \in 1 .. MaxBlock :
        indexed >= b ~>
            /\ indexed >= b
            /\ \A m \in Materializers : EventsUpTo(m, b) \subseteq table[m]

=============================================================================
