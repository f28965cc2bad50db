------------------------ MODULE BaseMaterializerProofs ------------------------
(***************************************************************************)
(* What BaseMaterializer guarantees for every batch size, set of streams,  *)
(* chain and number of faults: CopyInvariant is inductive, so no event is  *)
(* skipped, and the four database calls of poll() implement PrefixCopy.    *)
(***************************************************************************)
EXTENDS BaseMaterializer, TLAPS

(* Indexing a block adds events of that block only.                        *)
LEMMA IndexBlockEvents ==
    ASSUME BaseTypeOK, IndexBlock
    PROVE  /\ PonderTypeOK'
           /\ indexed' = indexed + 1
           /\ \A m \in Materializers :
                /\ Events(m) \subseteq Events(m)'
                /\ \A e \in Events(m)' \ Events(m) : e.block = indexed + 1
<1>1. PICK logs \in BlockLogs : IndexNewBlock(logs)
  BY DEF IndexBlock
<1> DEFINE block == [hash |-> forks, logs |-> logs]
<1>2. /\ chain \in Seq(Block)
      /\ indexed \in Nat
      /\ indexed = Len(chain)
      /\ indexed < MaxBlock
      /\ chain' = Append(chain, block)
      /\ indexed' = indexed + 1
      /\ forks' = forks /\ reindexes' = reindexes
  BY <1>1 DEF IndexNewBlock, BaseTypeOK, PonderTypeOK
<1>3. block \in Block
  BY PonderLogAssumption DEF BaseTypeOK, PonderTypeOK, PonderLogAssumption, Block
<1>4. /\ chain' \in Seq(Block)
      /\ Len(chain') = indexed + 1
      /\ \A b \in 1 .. indexed : chain'[b] = chain[b]
  BY <1>2, <1>3
<1>5. PonderTypeOK'
  BY <1>2, <1>4, PonderLogAssumption DEF BaseTypeOK, PonderTypeOK, PonderLogAssumption
<1>6. ASSUME NEW m \in Materializers, NEW e \in Event
      PROVE  /\ e \in Events(m) => e \in Events(m)'
             /\ e \in Events(m)' /\ e \notin Events(m) => e.block = indexed + 1
  <2>1. e.block \in 1 .. MaxBlock
    BY DEF Event
  <2>2. e \in Events(m) <=> /\ e.block <= indexed
                            /\ e.log \in chain[e.block].logs[m]
                            /\ e.hash = chain[e.block].hash
    BY DEF Events, EventsUpTo
  <2>3. e \in Events(m)' <=> /\ e.block <= indexed'
                             /\ e.log \in chain'[e.block].logs[m]
                             /\ e.hash = chain'[e.block].hash
    BY DEF Events, EventsUpTo
  <2> QED
    BY <2>1, <2>2, <2>3, <1>2, <1>4, PonderLogAssumption DEF PonderLogAssumption
<1> QED
  BY <1>2, <1>5, <1>6 DEF Events, EventsUpTo

(* The order of positions, as far as the proofs need it.                   *)
LEMMA OrderFacts ==
    /\ \A e \in Event : PositionOf(e) \in Position
    /\ \A p \in Position, e \in Event : p.block < e.block => ~ Covers(p, e)
    /\ \A e, d \in Event :
        /\ Covers(PositionOf(e), d) <=> Covers(e, d)
        /\ Covers(e, e)
<1>1. ASSUME NEW e \in Event
      PROVE  e.block \in Int /\ e.log \in Int
  <2>1. e.block \in 1 .. MaxBlock /\ e.log \in LogIndexes
    BY DEF Event
  <2>2. LogIndexes \subseteq Nat
    BY PonderLogAssumption
  <2>3. e.log \in Nat
    BY <2>1, <2>2, Zenon
  <2> QED
    BY <2>1, <2>3
<1> QED
  BY <1>1 DEF Position, PositionOf, Covers, Before

LEMMA EventsAreEvents == \A m \in Materializers : Events(m) \subseteq Event
BY DEF Events, EventsUpTo

LEMMA InitInvariant == BaseInit => CopyInvariant
<1> SUFFICES ASSUME BaseInit PROVE CopyInvariant
  OBVIOUS
<1>1. PonderTypeOK
  BY PonderLogAssumption
  DEF BaseInit, PonderInit, PonderTypeOK, PonderLogAssumption, Hashes
<1>2. BaseTypeOK
  BY <1>1, BaseAssumption DEF BaseInit, BaseTypeOK, BaseAssumption, Position, Event
<1>3. \A m \in Materializers : Events(m) = {}
  BY DEF BaseInit, PonderInit, Events, EventsUpTo, Event
<1> QED
  BY <1>2, <1>3
  DEF BaseInit, PonderInit, CopyInvariant, CursorIndexed, NoGap, BatchInHand, Idle,
      WritingState

(* Steps that leave Ponder, the cursors and the tables alone.              *)
LEMMA PollOnlyStep ==
    ASSUME CopyInvariant, UNCHANGED <<ponderVars, copyVars>>, BaseTypeOK',
           \A m \in Materializers :
               poll'[m] = poll[m] \/ poll'[m] \in {Idle, Done}
    PROVE  CopyInvariant'
<1>1. \A m \in Materializers : Events(m)' = Events(m)
  BY DEF ponderVars, Events, EventsUpTo
<1>2. ASSUME NEW m \in Materializers PROVE BatchInHand(m)'
  <2>1. CASE poll'[m] = poll[m]
    BY <1>1, <2>1 DEF CopyInvariant, BatchInHand, copyVars
  <2>2. CASE poll'[m] \in {Idle, Done}
    BY <2>2 DEF BatchInHand, WritingState, Idle, Done
  <2> QED
    BY <2>1, <2>2
<1> QED
  BY <1>1, <1>2 DEF CopyInvariant, CursorIndexed, NoGap, copyVars, ponderVars

LEMMA StepInvariant == CopyInvariant /\ [CopyNext]_baseVars => CopyInvariant'
<1> SUFFICES ASSUME CopyInvariant, [CopyNext]_baseVars PROVE CopyInvariant'
  OBVIOUS
<1> USE EventsAreEvents
<1>1. BaseTypeOK
  BY DEF CopyInvariant
<1>2. CASE IndexBlock /\ UNCHANGED <<copyVars, poll, faults>>
  <2>1. BaseTypeOK'
    BY <1>1, <1>2, IndexBlockEvents DEF BaseTypeOK, copyVars
  <2>2. ASSUME NEW m \in Materializers
        PROVE  CursorIndexed(m)' /\ (table[m] \subseteq Events(m))' /\ NoGap(m)'
    <3>1. cursor[m] \in Position /\ cursor[m].block <= indexed /\ indexed \in Int
      BY <1>1 DEF CopyInvariant, CursorIndexed, BaseTypeOK, PonderTypeOK
    <3>2. \A e \in Events(m)' : Covers(cursor[m], e) => e \in Events(m)
      BY <1>1, <1>2, <3>1, IndexBlockEvents, OrderFacts
      DEF Events, EventsUpTo, Position, Covers, Before
    <3> QED
      BY <1>1, <1>2, <3>1, <3>2, IndexBlockEvents
      DEF CopyInvariant, CursorIndexed, NoGap, copyVars, Position
  <2>3. ASSUME NEW m \in Materializers PROVE BatchInHand(m)'
    <3> SUFFICES ASSUME poll[m] \in WritingState PROVE BatchInHand(m)'
      BY <1>2 DEF BatchInHand
    <3>1. /\ poll[m].upto \in Events(m)
          /\ poll[m].upto \in Event
          /\ poll[m].upto.block <= indexed
          /\ indexed \in Int
      BY <1>1 DEF CopyInvariant, BatchInHand, BaseTypeOK, PonderTypeOK, Events, EventsUpTo
    <3>2. \A e \in Events(m)' : Covers(poll[m].upto, e) => e \in Events(m)
      BY <1>1, <1>2, <3>1, IndexBlockEvents DEF Events, EventsUpTo, Event, Covers, Before
    <3> QED
      BY <1>1, <1>2, <3>1, <3>2, IndexBlockEvents DEF CopyInvariant, BatchInHand, copyVars
  <2> QED
    BY <2>1, <2>2, <2>3 DEF CopyInvariant
<1>3. ASSUME NEW m \in Materializers, FetchBatch(m)
      PROVE  CopyInvariant'
  <2>1. PICK upto \in After(m) :
            poll' = [poll EXCEPT ![m] =
                       Writing({e \in After(m) : Covers(upto, e)}, upto)]
    BY <1>3 DEF FetchBatch
  <2> DEFINE batch == {e \in After(m) : Covers(upto, e)}
  <2>2. UNCHANGED <<ponderVars, copyVars, faults>>
    BY <1>3 DEF FetchBatch
  <2>3. /\ upto \in Events(m)
        /\ Before(cursor[m], upto)
        /\ batch \subseteq Events(m)
    BY <2>1 DEF After
  <2>4. Writing(batch, upto) \in WritingState
    BY <2>3 DEF Writing, WritingState
  <2>5. BaseTypeOK'
    BY <1>1, <2>1, <2>2, <2>4 DEF BaseTypeOK, PonderTypeOK, ponderVars, copyVars
  <2>6. \A n \in Materializers : Events(n)' = Events(n)
    BY <2>2 DEF ponderVars, Events, EventsUpTo
  <2>7. BatchInHand(m)'
    <3>1. poll'[m] = Writing(batch, upto)
      BY <1>1, <2>1 DEF BaseTypeOK
    <3>2. \A e \in Events(m) : Covers(upto, e) => e \in table[m] \cup batch
      BY <2>3 DEF CopyInvariant, NoGap, After, Covers
    <3> QED
      BY <2>2, <2>3, <2>6, <3>1, <3>2 DEF BatchInHand, Writing, copyVars
  <2>8. ASSUME NEW n \in Materializers, n # m PROVE BatchInHand(n)'
    BY <1>1, <2>1, <2>2, <2>6, <2>8 DEF BaseTypeOK, CopyInvariant, BatchInHand, copyVars
  <2> QED
    BY <2>2, <2>5, <2>6, <2>7, <2>8
    DEF CopyInvariant, CursorIndexed, NoGap, copyVars, ponderVars
<1>4. ASSUME NEW m \in Materializers, PollNothing(m)
      PROVE  CopyInvariant'
  BY <1>1, <1>4, PollOnlyStep
  DEF PollNothing, BaseTypeOK, PonderTypeOK, ponderVars, copyVars
<1>5. ASSUME NEW m \in Materializers, UpsertRow(m)
      PROVE  CopyInvariant'
  <2>1. PICK e \in poll[m].todo :
            /\ table' = [table EXCEPT ![m] = @ \cup {e}]
            /\ poll' = [poll EXCEPT ![m].todo = @ \ {e}]
    BY <1>5 DEF UpsertRow
  <2>2. UNCHANGED <<ponderVars, cursor, faults>>
    BY <1>5 DEF UpsertRow
  <2>3. poll[m] \in WritingState
    BY <1>1, <1>5 DEF UpsertRow, BaseTypeOK, Idle, Done
  <2>4. e \in Events(m) /\ e \in Event
    BY <2>1, <2>3 DEF CopyInvariant, BatchInHand
  <2>5. /\ poll'[m] = Writing(poll[m].todo \ {e}, poll[m].upto)
        /\ \A n \in Materializers : n # m => poll'[n] = poll[n]
    BY <1>1, <2>1, <2>3 DEF BaseTypeOK, WritingState, Writing
  <2>6. poll'[m] \in WritingState
    BY <2>3, <2>5 DEF WritingState, Writing
  <2>7. BaseTypeOK'
    <3>1. poll' \in [Materializers -> {Idle, Done} \cup WritingState]
      BY <1>1, <2>1, <2>5, <2>6 DEF BaseTypeOK
    <3>2. table' \in [Materializers -> SUBSET Event]
      BY <1>1, <2>1, <2>4 DEF BaseTypeOK
    <3> QED
      BY <1>1, <2>2, <3>1, <3>2 DEF BaseTypeOK, PonderTypeOK, ponderVars
  <2>8. \A n \in Materializers : Events(n)' = Events(n)
    BY <2>2 DEF ponderVars, Events, EventsUpTo
  <2>9. /\ table'[m] = table[m] \cup {e}
        /\ \A n \in Materializers : n # m => table'[n] = table[n]
    BY <1>1, <2>1 DEF BaseTypeOK
  <2>10. BatchInHand(m)'
    BY <2>2, <2>3, <2>5, <2>8, <2>9 DEF CopyInvariant, BatchInHand, Writing
  <2>11. ASSUME NEW n \in Materializers, n # m PROVE BatchInHand(n)'
    BY <2>2, <2>5, <2>8, <2>9, <2>11 DEF CopyInvariant, BatchInHand
  <2>12. ASSUME NEW n \in Materializers
         PROVE  CursorIndexed(n)' /\ (table[n] \subseteq Events(n))' /\ NoGap(n)'
    BY <2>2, <2>4, <2>8, <2>9 DEF CopyInvariant, CursorIndexed, NoGap, ponderVars
  <2> QED
    BY <2>7, <2>10, <2>11, <2>12 DEF CopyInvariant
<1>6. ASSUME NEW m \in Materializers, SaveCursor(m)
      PROVE  CopyInvariant'
  <2>1. /\ cursor' = [cursor EXCEPT ![m] = PositionOf(poll[m].upto)]
        /\ poll' = [poll EXCEPT ![m] = Done]
        /\ poll[m].todo = {}
        /\ UNCHANGED <<ponderVars, table, faults>>
    BY <1>6 DEF SaveCursor
  <2>2. poll[m] \in WritingState
    BY <1>1, <1>6 DEF SaveCursor, BaseTypeOK, Idle, Done
  <2>3. poll[m].upto \in Events(m) /\ poll[m].upto \in Event
    BY <2>2 DEF CopyInvariant, BatchInHand
  <2>4. BaseTypeOK'
    BY <1>1, <2>1, <2>3, OrderFacts DEF BaseTypeOK, PonderTypeOK, ponderVars
  <2>5. \A n \in Materializers : Events(n)' = Events(n)
    BY <2>1 DEF ponderVars, Events, EventsUpTo
  <2>6. CursorIndexed(m)' /\ NoGap(m)'
    <3>1. cursor'[m] = PositionOf(poll[m].upto)
      BY <1>1, <2>1 DEF BaseTypeOK
    <3>2. CursorIndexed(m)'
      BY <2>1, <2>3, <3>1 DEF CursorIndexed, PositionOf, Events, EventsUpTo, ponderVars
    <3>3. \A e \in Events(m) : Covers(poll[m].upto, e) => e \in table[m]
      BY <2>1, <2>2 DEF CopyInvariant, BatchInHand
    <3> QED
      BY <2>1, <2>3, <2>5, <3>1, <3>2, <3>3, OrderFacts DEF NoGap
  <2>7. ASSUME NEW n \in Materializers, n # m
        PROVE  CursorIndexed(n)' /\ NoGap(n)' /\ BatchInHand(n)'
    BY <1>1, <2>1, <2>5, <2>7
    DEF BaseTypeOK, CopyInvariant, CursorIndexed, NoGap, BatchInHand, ponderVars
  <2>8. BatchInHand(m)'
    BY <1>1, <2>1 DEF BaseTypeOK, BatchInHand, WritingState, Done
  <2> QED
    BY <2>1, <2>4, <2>5, <2>6, <2>7, <2>8 DEF CopyInvariant
<1>7. ASSUME NEW m \in Materializers, PollFails(m)
      PROVE  CopyInvariant'
  BY <1>1, <1>7, PollOnlyStep, BaseAssumption
  DEF PollFails, BaseTypeOK, PonderTypeOK, ponderVars, copyVars, BaseAssumption
<1>8. CASE EndCycle
  BY <1>1, <1>8, PollOnlyStep
  DEF EndCycle, BaseTypeOK, PonderTypeOK, ponderVars, copyVars
<1>9. CASE RestartPolls
  BY <1>1, <1>9, PollOnlyStep, BaseAssumption
  DEF RestartPolls, BaseTypeOK, PonderTypeOK, ponderVars, copyVars, BaseAssumption
<1>10. CASE UNCHANGED baseVars
  BY <1>1, <1>10, PollOnlyStep
  DEF baseVars, BaseTypeOK, PonderTypeOK, ponderVars, copyVars
<1> QED
  BY <1>2, <1>3, <1>4, <1>5, <1>6, <1>7, <1>8, <1>9, <1>10 DEF CopyNext, PollStep

(* The inductive invariant of the copying materializers.                   *)
THEOREM CopyInvariantHolds == CopySpec => []CopyInvariant
BY InitInvariant, StepInvariant, PTL DEF CopySpec

(* Every variable keeps its type: whatever polls fail, poll() is idle,     *)
(* settled or in the middle of a batch of real events.                     *)
THEOREM TypeCorrect == CopySpec => []BaseTypeOK
<1>1. CopyInvariant => BaseTypeOK
  BY DEF CopyInvariant
<1> QED
  BY <1>1, CopyInvariantHolds, PTL

(* No event at or below a saved cursor is missing from its table, whatever *)
(* the batch size and wherever polls and the process were cut short.       *)
THEOREM NothingSkipped == CopySpec => []NoEventSkipped
<1>1. CopyInvariant => NoEventSkipped
  BY DEF CopyInvariant, NoEventSkipped
<1> QED
  BY <1>1, CopyInvariantHolds, PTL

----------------------------------------------------------------------------
(* poll() implements PrefixCopy: a row upserted is an event of the log and *)
(* the cursor moves forward, to an event, once all events up to it are in  *)
(* the table; fetching, failing and restarting change nothing.             *)
THEOREM ImplementsCopy == CopySpec => Abstract!AbstractSpec
<1>1. BaseInit => Abstract!AbstractInit
  BY DEF BaseInit, PonderInit, Abstract!AbstractInit, Events, EventsUpTo, Event
<1>2. CopyInvariant /\ [CopyNext]_baseVars =>
        [Abstract!AbstractNext]_(Abstract!copyVars)
  <2> SUFFICES ASSUME CopyInvariant, [CopyNext]_baseVars
               PROVE  Abstract!AbstractNext \/ UNCHANGED Abstract!copyVars
    OBVIOUS
  <2> USE EventsAreEvents
  <2>1. BaseTypeOK
    BY DEF CopyInvariant
  <2>2. CASE IndexBlock /\ UNCHANGED <<copyVars, poll, faults>>
    <3>1. ASSUME NEW m \in Materializers
          PROVE  /\ Events(m) \subseteq Events(m)'
                 /\ \A e \in Events(m)' \ Events(m) : Before(cursor[m], e)
      <4>1. cursor[m].block \in Int /\ cursor[m].block <= indexed /\ indexed \in Int
        BY <2>1 DEF CopyInvariant, CursorIndexed, BaseTypeOK, PonderTypeOK, Position
      <4> QED
        BY <2>1, <2>2, <4>1, IndexBlockEvents DEF Before
    <3>2. Abstract!Publish
      BY <2>2, <3>1 DEF Abstract!Publish, Abstract!Before, Before, copyVars
    <3> QED
      BY <3>2 DEF Abstract!AbstractNext
  <2>3. ASSUME UNCHANGED <<ponderVars, copyVars>>
        PROVE  UNCHANGED Abstract!copyVars
    BY <2>3 DEF ponderVars, copyVars, Abstract!copyVars, Events, EventsUpTo
  <2>4. ASSUME NEW m \in Materializers, UpsertRow(m)
        PROVE  Abstract!Copy(m)
    <3>1. PICK e \in poll[m].todo : table' = [table EXCEPT ![m] = @ \cup {e}]
      BY <2>4 DEF UpsertRow
    <3>2. poll[m] \in WritingState
      BY <2>1, <2>4 DEF UpsertRow, BaseTypeOK, Idle, Done
    <3>3. e \in Events(m)
      BY <3>1, <3>2 DEF CopyInvariant, BatchInHand
    <3>4. UNCHANGED <<ponderVars, cursor>>
      BY <2>4 DEF UpsertRow
    <3>5. [n \in Materializers |-> Events(n)]' = [n \in Materializers |-> Events(n)]
      BY <3>4 DEF ponderVars, Events, EventsUpTo
    <3> QED
      BY <3>1, <3>3, <3>4, <3>5 DEF Abstract!Copy
  <2>5. ASSUME NEW m \in Materializers, SaveCursor(m)
        PROVE  Abstract!Commit(m)
    <3>1. /\ cursor' = [cursor EXCEPT ![m] = PositionOf(poll[m].upto)]
          /\ poll[m].todo = {}
          /\ UNCHANGED <<ponderVars, table>>
      BY <2>5 DEF SaveCursor
    <3>2. poll[m] \in WritingState
      BY <2>1, <2>5 DEF SaveCursor, BaseTypeOK, Idle, Done
    <3>3. /\ poll[m].upto \in Events(m)
          /\ Before(cursor[m], poll[m].upto)
          /\ \A d \in Events(m) : Covers(poll[m].upto, d) => d \in table[m]
      BY <3>1, <3>2 DEF CopyInvariant, BatchInHand
    <3>4. [n \in Materializers |-> Events(n)]' = [n \in Materializers |-> Events(n)]
      BY <3>1 DEF ponderVars, Events, EventsUpTo
    <3> QED
      BY <3>1, <3>3, <3>4
      DEF Abstract!Commit, Abstract!Before, Abstract!Covers, Abstract!PositionOf,
          Before, Covers, PositionOf
  <2>6. ASSUME NEW m \in Materializers, PollStep(m) \/ PollFails(m)
        PROVE  Abstract!Copy(m) \/ Abstract!Commit(m) \/ UNCHANGED Abstract!copyVars
    BY <2>3, <2>4, <2>5, <2>6 DEF PollStep, PollFails, FetchBatch, PollNothing
  <2>7. CASE EndCycle \/ RestartPolls \/ UNCHANGED baseVars
    BY <2>3, <2>7 DEF EndCycle, RestartPolls, baseVars, copyVars, ponderVars
  <2> QED
    BY <2>2, <2>6, <2>7 DEF CopyNext, Abstract!AbstractNext
<1> QED
  BY <1>1, <1>2, CopyInvariantHolds, PTL DEF CopySpec, Abstract!AbstractSpec

=============================================================================
