-------------------------- MODULE ReorgDetectorProofs --------------------------
(***************************************************************************)
(* What checkAndReset guarantees whatever Ponder does between its database *)
(* calls, for every cache depth, margin and number of streams: the cache   *)
(* is bounded and has one hash per block, and the checkpoint is rewound    *)
(* only when every materializer has been reset.  And what it achieves when *)
(* reorganisations are seen in time: no row of an abandoned fork survives, *)
(* no event is lost but those a reset jumped over, and the cached hashes   *)
(* are those of the chain.                                                 *)
(***************************************************************************)
EXTENDS MaterializerService, NumberLemmas

OneHashPerBlock(rows) ==
    /\ \A x \in rows : x.number \in Nat \ {0}
    /\ \A x, y \in rows : x.number = y.number => x = y

WithinDepth(max) == \A x \in cache : max - x.number <= CacheDepth

(* The materializers outside a set have been reset to below block b.       *)
ResetOutside(left, b) ==
    \A m \in Materializers \ left : cursor[m] = [block |-> ResetBlock(b), log |-> 0]

CheckInvariant ==
    /\ check.at \in {"start", "over", "compare", "insert", "prune", "advance",
                     "reset", "cursor", "invalidate", "rewind"}
    /\ check.at \in {"compare", "insert", "prune", "advance"} => check.max \in Nat
    /\ Recovering => check.block \in Nat
    /\ check.at = "insert" => OneHashPerBlock(check.rows)
    /\ check.at = "advance" => WithinDepth(check.max)
    /\ check.at = "reset" => ResetOutside(check.left, check.block)
    /\ check.at = "cursor" =>
         check.mat \in Materializers /\ ResetOutside(check.left \cup {check.mat}, check.block)
    /\ check.at \in {"invalidate", "rewind"} => ResetOutside({}, check.block)
    /\ check.at = "rewind" => \A x \in cache : x.number < check.block

DetectorInvariant ==
    /\ indexed \in Nat /\ lastCached \in Int
    /\ DOMAIN cursor = Materializers
    /\ OneHashPerBlock(cache)
    /\ CheckInvariant

LEMMA DetectorBegins == Init => DetectorInvariant
  BY DetectorAssumption
  DEF Init, BaseInit, PonderInit, DetectorInit, DetectorInvariant, CheckInvariant,
      OneHashPerBlock, WithinDepth, NotStarted, Recovering

(* block_hash_log has one row per block.                                   *)
LEMMA HashLogRows == indexed \in Nat => OneHashPerBlock(HashLog) /\ PonderMax \in Nat
<1> SUFFICES ASSUME indexed \in Nat PROVE OneHashPerBlock(HashLog) /\ PonderMax \in Nat
  OBVIOUS
<1>1. OneHashPerBlock(HashLog)
  BY DEF OneHashPerBlock, HashLog
<1>2. PonderMax \in Nat
  <2> DEFINE logged == {x \in 1 .. indexed : HasLogs(x)}
  <2>1. CASE logged = {}
    BY <2>1 DEF PonderMax, HighestLogged
  <2>2. CASE logged # {}
    <3>1. \E x \in logged : \A y \in logged : y <= x
      <4>1. logged \subseteq 1 .. indexed /\ indexed \in Int
        OBVIOUS
      <4> HIDE DEF logged
      <4> QED
        BY <2>2, <4>1, GreatestNumber
    <3>2. PonderMax \in logged
      BY <2>2, <3>1 DEF PonderMax, HighestLogged
    <3> QED
      BY <3>2
  <2> QED
    BY <2>1, <2>2
<1> QED
  BY <1>1, <1>2

(* Ponder changes nothing of the detector, and keeps indexed a number.     *)
LEMMA PonderKeepsDetector ==
    ASSUME DetectorInvariant, PonderStep
    PROVE  DetectorInvariant'
<1>1. UNCHANGED <<cursor, lastCached, cache, check>>
  BY DEF PonderStep, copyVars, detectorVars
<1>2. indexed' \in Nat
  <2>1. CASE PonderIndexes
    <3>1. indexed' = indexed + 1
      BY <2>1, Zenon DEF PonderIndexes, IndexBlock, IndexNewBlock, IndexKnownBlock
    <3> QED
      BY <3>1 DEF DetectorInvariant
  <2>2. CASE PonderReorganises
    BY <2>2, PonderLogAssumption
       DEF PonderReorganises, Reorganise, DetectorInvariant, PonderLogAssumption
  <2>3. CASE PonderStartsOver
    BY <2>3 DEF PonderStartsOver, Reindex, ReindexWithContract, StartOver, DetectorInvariant
  <2> QED
    BY <2>1, <2>2, <2>3 DEF PonderStep
<1> QED
  BY <1>1, <1>2
  DEF DetectorInvariant, CheckInvariant, OneHashPerBlock, WithinDepth, ResetOutside, Recovering

(* A poll runs only while no check does.                                   *)
LEMMA PollKeepsDetector ==
    ASSUME DetectorInvariant, NEW m \in Materializers, PollOf(m) \/ PollError(m)
    PROVE  DetectorInvariant'
<1>1. UNCHANGED <<indexed, lastCached, cache, check>> /\ check.at = "over"
  BY DEF PollOf, PollStep, FetchBatch, PollNothing, UpsertRow, SaveCursor, Reconcile, RestoreRow,
         PollError, PollFails, ponderVars, detectorVars, Over
<1>2. DOMAIN cursor' = Materializers
  BY DEF PollOf, PollStep, FetchBatch, PollNothing, UpsertRow, SaveCursor, Reconcile, RestoreRow,
         PollError, PollFails, copyVars, DetectorInvariant
<1> QED
  BY <1>1, <1>2
  DEF DetectorInvariant, CheckInvariant, OneHashPerBlock, WithinDepth, Recovering

LEMMA DetectorKeepsInvariant ==
    ASSUME DetectorInvariant, DetectorStep
    PROVE  DetectorInvariant'
<1> USE DetectorAssumption
    DEF DetectorInvariant, CheckInvariant, OneHashPerBlock, WithinDepth, ResetOutside, Recovering,
        ponderVars, copyVars, detectorDb
<1>1. CASE ReadPonderMax
  BY <1>1, HashLogRows DEF ReadPonderMax, StartReset, Reset, Compare, Over, NotStarted
<1>2. CASE CompareHashes
  <2> DEFINE rows == {x \in HashLog : lastCached < x.number /\ x.number <= check.max}
             differ == Mismatches(rows)
  <2>1. OneHashPerBlock(rows)
    BY HashLogRows
  <2>2. CASE differ = {}
    BY <1>2, <2>1, <2>2 DEF CompareHashes, Insert
  <2>3. CASE differ # {}
    <3>1. (CHOOSE b \in differ : \A d \in differ : b <= d) \in Nat
      <4>1. \A b \in differ : b \in Nat
        BY DEF Mismatches
      <4>2. differ \subseteq Nat
        BY <4>1, Zenon
      <4>3. \E b \in differ : \A d \in differ : b <= d
        BY <2>3, <4>2, LeastNumber
      <4> QED
        BY <4>1, <4>3
    <3>2. check' = StartReset(CHOOSE b \in differ : \A d \in differ : b <= d, FALSE)
      BY <1>2, <2>3 DEF CompareHashes
    <3>3. \E b \in Nat : check' = Reset(b, FALSE, Materializers)
      BY <3>1, <3>2, Zenon DEF StartReset
    <3>4. PICK b \in Nat : check' = Reset(b, FALSE, Materializers)
      BY <3>3
    <3>5. UNCHANGED <<indexed, cursor, lastCached, cache>>
      BY <1>2 DEF CompareHashes
    <3>6. /\ check'.at = "reset" /\ check'.block = b /\ check'.left = Materializers
      BY <3>4 DEF Reset
    <3> HIDE DEF differ, rows
    <3> QED
      BY <3>5, <3>6
  <2> QED
    BY <2>2, <2>3
<1>3. CASE InsertNewHashes
  BY <1>3 DEF InsertNewHashes, Prune
<1>4. CASE PruneCache
  BY <1>4 DEF PruneCache, Advance
<1>5. CASE AdvanceCheckpoint
  BY <1>5 DEF AdvanceCheckpoint, Over
<1>6. ASSUME NEW m \in Materializers, ResetRows(m) PROVE DetectorInvariant'
  BY <1>6 DEF ResetRows, ResetCursor
<1>7. CASE ResetMaterializer
  BY <1>7 DEF ResetMaterializer, ResetCheckpoint, Reset
<1>8. CASE AllReset
  BY <1>8 DEF AllReset, Invalidate
<1>9. CASE InvalidateCache
  BY <1>9 DEF InvalidateCache, Rewind
<1>10. CASE RewindCheckpoint
  BY <1>10 DEF RewindCheckpoint, ResetBlock, Over
<1> QED
  BY <1>1, <1>2, <1>3, <1>4, <1>5, <1>6, <1>7, <1>8, <1>9, <1>10
  DEF DetectorStep, HandleReorg

LEMMA ServiceStepKeepsDetector == DetectorInvariant /\ [Next]_vars => DetectorInvariant'
<1> SUFFICES ASSUME DetectorInvariant, [Next]_vars PROVE DetectorInvariant'
  OBVIOUS
<1>1. CASE NextCycle \/ Restart
  BY <1>1
  DEF NextCycle, EndCycle, Restart, RestartPolls, DetectorInvariant, CheckInvariant, OneHashPerBlock,
      WithinDepth, ponderVars, copyVars, detectorDb, NotStarted, Recovering
<1>2. CASE UNCHANGED vars
  BY <1>2
  DEF vars, baseVars, ponderVars, copyVars, detectorVars, DetectorInvariant, CheckInvariant,
      OneHashPerBlock, WithinDepth, ResetOutside, Recovering
<1> QED
  BY <1>1, <1>2, PonderKeepsDetector, PollKeepsDetector, DetectorKeepsInvariant
  DEF Next, ServiceStep, CheckStep

(* The checkpoint is rewound only when nothing of the reset is left to do. *)
THEOREM RewindComesLast == Spec => []RecoveryComplete
<1>1. DetectorInvariant => RecoveryComplete
  BY DEF DetectorInvariant, CheckInvariant, ResetOutside, RecoveryComplete
<1> QED
  BY <1>1, DetectorBegins, ServiceStepKeepsDetector, PTL DEF Spec

(* The cache stays bounded and holds one hash per block.                   *)
THEOREM CacheStaysBounded == Spec => []CacheBounded
<1>1. DetectorInvariant => CacheBounded
  BY DEF DetectorInvariant, CheckInvariant, OneHashPerBlock, WithinDepth, CacheBounded
<1> QED
  BY <1>1, DetectorBegins, ServiceStepKeepsDetector, PTL DEF Spec

(* A cached block keeps its hash until its row is deleted: only inserts    *)
(* add rows, and they skip the blocks that have one.                       *)
THEOREM HashesAreAppendOnly == Spec => HashesNeverOverwritten
<1>1. ASSUME DetectorInvariant, [Next]_vars
      PROVE  \A x \in cache, y \in cache' : x.number = y.number => x.hash = y.hash
  <2>1. \A x, y \in cache : x.number = y.number => x = y
    BY <1>1 DEF DetectorInvariant, OneHashPerBlock
  <2>2. \A y \in cache' : y \in cache \/ \A x \in cache : x.number # y.number
    BY <1>1
    DEF Next, PonderStep, ServiceStep, CheckStep, PollOf, PollError, NextCycle, Restart, vars,
        detectorVars, detectorDb, DetectorStep, HandleReorg, ReadPonderMax, CompareHashes,
        InsertNewHashes, PruneCache, AdvanceCheckpoint, ResetRows, ResetMaterializer, AllReset,
        InvalidateCache, RewindCheckpoint
  <2> QED
    BY <2>1, <2>2
<1> QED
  BY <1>1, DetectorBegins, ServiceStepKeepsDetector, PTL DEF Spec, HashesNeverOverwritten

----------------------------------------------------------------------------
(* Reorganisations seen in time.  The detector is written for a Ponder     *)
(* that has gone back when it is asked; a reorganisation it then misses is *)
(* one that is deeper than the cache.                                      *)
SeenInTime ==
    /\ Visibility = "prompt"
    /\ MaxReindexes = 0
    /\ \A logs \in BlockLogs : \E m \in Materializers : logs[m] # {}
    /\ MaxBlock <= CacheDepth + 1 \/ MaxForks * MaxReorgDepth <= CacheDepth

RestoringState == [at : {"restoring"}, todo : SUBSET Event]

WorldOK ==
    /\ chain \in Seq(Block)
    /\ indexed = Len(chain) /\ Len(chain) <= MaxBlock
    /\ \A b \in 1 .. Len(chain) : HasLogs(b)
    /\ forks \in Hashes /\ reindexes = 0
    /\ Len(chain) = 0 => forks = 0
    /\ cursor \in [Materializers -> Position]
    /\ table \in [Materializers -> SUBSET Event]
    /\ poll \in [Materializers -> {Idle, Done} \cup WritingState \cup RestoringState]
    /\ jumped \in [Materializers -> BOOLEAN]
    /\ check # Over => \A m \in Materializers : poll[m] = Idle

(* Ponder has gone back to below the detector's checkpoint.                *)
Behind == Len(chain) < lastCached

(* What the detector knows lies no further above the chain than all        *)
(* reorganisations so far can have cut off.                                *)
Slack == forks * MaxReorgDepth
Within(n) == n <= MaxBlock /\ n <= Len(chain) + Slack

Comparing == check.at \in {"compare", "insert", "prune", "advance"}

Bounds ==
    /\ Within(lastCached)
    /\ Comparing =>
        /\ lastCached < check.max /\ Within(check.max)
        /\ Behind \/ check.max <= Len(chain)
    /\ Recovering =>
        /\ Within(check.block)
        /\ Behind => Len(chain) <= check.block
        /\ ~ Behind => lastCached < check.block /\ check.block <= Len(chain)

(* A row, written or in hand, that is not on the chain lies above it.      *)
InHand(m) == IF poll[m].at \in {"writing", "restoring"} THEN poll[m].todo ELSE {}
RowsOf(m) == table[m] \cup InHand(m)
ClearedOutside(left) ==
    \A m \in Materializers \ left : \A e \in table[m] : e.block <= ResetBlock(check.block)

RowsInTime ==
    /\ \A m \in Materializers : \A e \in RowsOf(m) :
        e \in Events(m) \/ (Behind /\ Len(chain) < e.block)
    /\ check.at \in {"reset", "cursor"} => ~ check.keep /\ ClearedOutside(check.left)
    /\ check.at \in {"invalidate", "rewind"} => ClearedOutside({})

StaleInvariant == DetectorInvariant /\ WorldOK /\ Bounds /\ RowsInTime

LEMMA EventNumbers ==
    ASSUME NEW e \in Event
    PROVE  e.block \in 1 .. MaxBlock /\ e.block \in Nat /\ e.log \in Nat
<1>1. e.block \in 1 .. MaxBlock /\ e.log \in LogIndexes
  BY DEF Event
<1>2. LogIndexes \subseteq Nat /\ MaxBlock \in Nat
  BY PonderLogAssumption
<1>3. e.log \in Nat
  BY <1>1, <1>2, Zenon
<1> QED
  BY <1>1, <1>2, <1>3

LEMMA EventFacts ==
    ASSUME NEW m \in Materializers, NEW e \in Events(m)
    PROVE  e \in Event /\ e.block \in 1 .. MaxBlock /\ e.block <= indexed /\ e.log \in Int
  BY EventNumbers DEF Events, EventsUpTo

(* Every block has a row, so that the maximum is the height.               *)
LEMMA DenseLog ==
    WorldOK =>
        /\ PonderMax = Len(chain)
        /\ RegressionPending <=> Behind
        /\ \A x \in HashLog : x.number \in 1 .. Len(chain) /\ x.hash = chain[x.number].hash
        /\ \A b \in 1 .. Len(chain) : [number |-> b, hash |-> chain[b].hash] \in HashLog
<1> SUFFICES ASSUME WorldOK
             PROVE  /\ PonderMax = Len(chain)
                    /\ RegressionPending <=> Behind
                    /\ \A x \in HashLog : x.number \in 1 .. Len(chain) /\ x.hash = chain[x.number].hash
                    /\ \A b \in 1 .. Len(chain) : [number |-> b, hash |-> chain[b].hash] \in HashLog
  OBVIOUS
<1>1. indexed = Len(chain) /\ Len(chain) \in Nat
  BY DEF WorldOK
<1>2. {x \in 1 .. indexed : HasLogs(x)} = 1 .. Len(chain)
  BY <1>1 DEF WorldOK
<1>3. PonderMax = Len(chain)
  <2>1. CASE Len(chain) = 0
    BY <1>1, <1>2, <2>1 DEF PonderMax, HighestLogged
  <2>2. CASE Len(chain) > 0
    <3> DEFINE n == Len(chain)
    <3>1. n \in 1 .. n /\ \A y \in 1 .. n : y <= n
      BY <1>1, <2>2
    <3>2. PonderMax = CHOOSE x \in 1 .. n : \A y \in 1 .. n : y <= x
      BY <1>1, <1>2, <2>2 DEF PonderMax, HighestLogged
    <3>3. \A x \in 1 .. n : (\A y \in 1 .. n : y <= x) => x = n
      BY <1>1, <3>1
    <3> HIDE DEF n
    <3>4. PonderMax = n
      BY <3>1, <3>2, <3>3
    <3> QED
      BY <3>4 DEF n
  <2> QED
    BY <1>1, <2>1, <2>2
<1> QED
  BY <1>1, <1>2, <1>3 DEF RegressionPending, Behind, HashLog

LEMMA SlackFacts ==
    ASSUME WorldOK
    PROVE  /\ Slack \in Nat
           /\ forks = 0 => Slack = 0
           /\ forks' = forks + 1 => Slack' = Slack + MaxReorgDepth
<1>1. forks \in Nat /\ MaxReorgDepth \in Nat
  BY PonderLogAssumption DEF WorldOK, Hashes
<1> QED
  BY <1>1 DEF Slack

(* A block joins the chain: its events are new.                            *)
LEMMA ChainGrows ==
    ASSUME SeenInTime, WorldOK, PonderIndexes, UNCHANGED <<copyVars, poll, faults, detectorVars>>
    PROVE  /\ WorldOK' /\ Len(chain)' = Len(chain) + 1 /\ forks' = forks
           /\ ~ Behind \/ Len(chain) = 0
           /\ \A m \in Materializers : Events(m) \subseteq Events(m)'
           /\ \A m \in Materializers : \A e \in Events(m)' :
                e \in Events(m) \/ e.block = Len(chain) + 1
           /\ \A b \in 1 .. Len(chain) : chain'[b] = chain[b]
<1>1. indexed = Len(chain) /\ Len(chain) \in Nat /\ chain \in Seq(Block)
  BY DEF WorldOK
<1>2. PICK logs \in BlockLogs : IndexNewBlock(logs)
  BY <1>1 DEF PonderIndexes, IndexBlock, IndexKnownBlock
<1>3. [hash |-> forks, logs |-> logs] \in Block
  BY PonderLogAssumption DEF WorldOK, Block
<1>4. /\ chain' = Append(chain, [hash |-> forks, logs |-> logs])
      /\ indexed' = indexed + 1 /\ indexed < MaxBlock
      /\ forks' = forks /\ reindexes' = reindexes
  BY <1>2 DEF IndexNewBlock
<1>5. /\ chain' \in Seq(Block) /\ Len(chain') = Len(chain) + 1
      /\ \A b \in 1 .. Len(chain) : chain'[b] = chain[b]
      /\ chain'[Len(chain) + 1] = [hash |-> forks, logs |-> logs]
  BY <1>1, <1>3, <1>4
<1>6. \A b \in 1 .. Len(chain') : HasLogs(b)'
  <2> SUFFICES ASSUME NEW b \in 1 .. Len(chain') PROVE HasLogs(b)'
    OBVIOUS
  <2>1. CASE b \in 1 .. Len(chain)
    BY <1>5, <2>1 DEF WorldOK, HasLogs
  <2>2. CASE b = Len(chain) + 1
    BY <1>5, <2>2 DEF SeenInTime, HasLogs
  <2> QED
    BY <1>1, <1>5, <2>1, <2>2
<1>7. ~ Behind \/ Len(chain) = 0
  BY DenseLog DEF PonderIndexes, SeenInTime
<1>8. WorldOK'
  BY <1>1, <1>4, <1>5, <1>6, PonderLogAssumption
  DEF WorldOK, copyVars, detectorVars, Hashes, Block, Position
<1>9. ASSUME NEW m \in Materializers
      PROVE  /\ Events(m) \subseteq Events(m)'
             /\ \A e \in Events(m)' : e \in Events(m) \/ e.block = Len(chain) + 1
  <2>1. ASSUME NEW e \in Events(m) PROVE e \in Events(m)'
    <3>1. e \in Event /\ e.block \in 1 .. Len(chain)
      BY <1>1, EventFacts
    <3> QED
      BY <1>1, <1>4, <1>5, <3>1 DEF Events, EventsUpTo
  <2>2. ASSUME NEW e \in Events(m)', e.block # Len(chain) + 1 PROVE e \in Events(m)
    <3>1. e \in Event /\ e.block \in 1 .. MaxBlock /\ e.block <= indexed'
      BY DEF Events, EventsUpTo, Event
    <3>2. MaxBlock \in Nat
      BY PonderLogAssumption
    <3>3. e.block \in 1 .. Len(chain)
      BY <1>1, <1>4, <2>2, <3>1, <3>2
    <3> QED
      BY <1>1, <1>4, <1>5, <3>1, <3>3 DEF Events, EventsUpTo
  <2> QED
    BY <2>1, <2>2
<1> QED
  BY <1>4, <1>5, <1>7, <1>8, <1>9

(* A reorganisation cuts the chain to below the detector's checkpoint.     *)
LEMMA ChainIsCut ==
    ASSUME SeenInTime, WorldOK, PonderReorganises, UNCHANGED <<copyVars, poll, faults, detectorVars>>
    PROVE  /\ WorldOK' /\ Behind'
           /\ Len(chain)' < Len(chain) /\ Len(chain) <= Len(chain)' + MaxReorgDepth
           /\ forks' = forks + 1
           /\ \A m \in Materializers : \A e \in Event :
                e \in Events(m)' <=> e \in Events(m) /\ e.block <= Len(chain)'
           /\ \A b \in 1 .. Len(chain)' : chain'[b] = chain[b]
<1>1. indexed = Len(chain) /\ Len(chain) \in Nat /\ chain \in Seq(Block)
  BY DEF WorldOK
<1>2. PICK c \in 1 .. MaxBlock : Reorganise(c)
  BY DEF PonderReorganises
<1>3. /\ forks < MaxForks /\ c \in 1 .. (Len(chain) - 1) /\ Len(chain) - c <= MaxReorgDepth
      /\ chain' = SubSeq(chain, 1, c) /\ indexed' = IF indexed < c THEN indexed ELSE c
      /\ forks' = forks + 1 /\ reindexes' = reindexes
  BY <1>2 DEF Reorganise
<1>4. /\ chain' \in Seq(Block) /\ Len(chain') = c /\ indexed' = c
      /\ \A b \in 1 .. c : chain'[b] = chain[b]
  BY <1>1, <1>3
<1>5. MaxReorgDepth \in Nat /\ MaxForks \in Nat /\ MaxBlock \in Nat /\ forks \in Nat
  BY PonderLogAssumption DEF WorldOK, Hashes
<1>6. \A b \in 1 .. Len(chain') : HasLogs(b)'
  <2> SUFFICES ASSUME NEW b \in 1 .. Len(chain') PROVE HasLogs(b)'
    OBVIOUS
  <2>1. b \in 1 .. Len(chain) /\ chain'[b] = chain[b]
    BY <1>1, <1>3, <1>4
  <2> QED
    BY <2>1 DEF WorldOK, HasLogs
<1>7. WorldOK'
  <2>1. forks' \in Hashes /\ Len(chain') # 0 /\ Len(chain') <= MaxBlock
    BY <1>1, <1>3, <1>4, <1>5 DEF Hashes, WorldOK
  <2> QED
    BY <1>3, <1>4, <1>6, <2>1 DEF WorldOK, copyVars, detectorVars
<1>8. Behind'
  <2>1. HighestLogged(Len(chain))' = PonderMax'
    BY <1>4 DEF PonderMax, HighestLogged, HasLogs
  <2>2. (PonderMax = Len(chain))'
    BY <1>7, DenseLog, PTL
  <2> QED
    BY <2>1, <2>2 DEF PonderReorganises, SeenInTime, Behind, detectorVars
<1>9. ASSUME NEW m \in Materializers, NEW e \in Event
      PROVE  e \in Events(m)' <=> e \in Events(m) /\ e.block <= Len(chain)'
  <2>1. e.block \in 1 .. MaxBlock
    BY DEF Event
  <2> QED
    BY <1>1, <1>3, <1>4, <1>5, <2>1 DEF Events, EventsUpTo
<1> QED
  BY <1>1, <1>3, <1>4, <1>5, <1>7, <1>8, <1>9

LEMMA StaleBegins == Init => StaleInvariant
<1> SUFFICES ASSUME Init PROVE StaleInvariant
  OBVIOUS
<1>1. /\ chain = <<>> /\ indexed = 0 /\ forks = 0 /\ reindexes = 0
      /\ cursor = [m \in Materializers |-> [block |-> 0, log |-> 0]]
      /\ table = [m \in Materializers |-> {}] /\ poll = [m \in Materializers |-> Idle]
      /\ lastCached = 0 /\ check = NotStarted /\ jumped = [m \in Materializers |-> FALSE]
  BY DEF Init, BaseInit, PonderInit, DetectorInit
<1>2. WorldOK
  BY <1>1, PonderLogAssumption DEF WorldOK, Position, Hashes
<1>3. Bounds
  BY <1>1, <1>2, SlackFacts, PonderLogAssumption
  DEF Bounds, Within, Comparing, Recovering, NotStarted
<1>4. RowsInTime
  BY <1>1 DEF RowsInTime, RowsOf, InHand, Idle, NotStarted
<1> QED
  BY <1>2, <1>3, <1>4, DetectorBegins DEF StaleInvariant

LEMMA PonderKeepsRows ==
    ASSUME SeenInTime, StaleInvariant, PonderStep
    PROVE  StaleInvariant'
<1>1. WorldOK /\ Bounds /\ RowsInTime /\ DetectorInvariant'
  BY PonderKeepsDetector DEF StaleInvariant
<1>2. UNCHANGED <<table, poll, lastCached, cache, check>>
  BY DEF PonderStep, copyVars, detectorVars
<1>3. lastCached \in Int /\ (Comparing => check.max \in Nat) /\ (Recovering => check.block \in Nat)
  BY DEF StaleInvariant, DetectorInvariant, CheckInvariant, Comparing
<1>4. \A m \in Materializers : RowsOf(m) \subseteq Event
  BY <1>1 DEF WorldOK, RowsOf, InHand, Idle, Done, WritingState, RestoringState
<1>5. Len(chain) \in Nat /\ Slack \in Nat /\ MaxReorgDepth \in Nat /\ MaxBlock \in Nat
  BY <1>1, SlackFacts, PonderLogAssumption DEF WorldOK
<1>6. \A m \in Materializers : \A e \in RowsOf(m) : e.block \in Nat
  BY <1>4, <1>5 DEF Event
<1>7. \A m \in Materializers : RowsOf(m)' = RowsOf(m)
  BY <1>2 DEF RowsOf, InHand
<1>8. CASE PonderIndexes
  <2>1. /\ WorldOK' /\ Len(chain)' = Len(chain) + 1 /\ forks' = forks
        /\ ~ Behind \/ Len(chain) = 0
        /\ \A m \in Materializers : Events(m) \subseteq Events(m)'
    BY <1>1, <1>8, ChainGrows DEF PonderStep
  <2>2. ~ Behind /\ ~ Behind'
    BY <1>1, <1>2, <1>3, <1>5, <2>1, SlackFacts DEF WorldOK, Behind, Bounds, Within
  <2>3. Slack' = Slack
    BY <2>1 DEF Slack
  <2>4. Bounds'
    BY <1>1, <1>2, <1>3, <1>5, <2>1, <2>2, <2>3 DEF Bounds, Within, Comparing, Recovering
  <2>5. RowsInTime'
    BY <1>1, <1>2, <1>7, <2>1, <2>2 DEF RowsInTime, ClearedOutside
  <2> QED
    BY <1>1, <2>1, <2>4, <2>5 DEF StaleInvariant
<1>9. CASE PonderReorganises
  <2>1. /\ WorldOK' /\ Behind'
        /\ Len(chain)' < Len(chain) /\ Len(chain) <= Len(chain)' + MaxReorgDepth
        /\ forks' = forks + 1
        /\ \A m \in Materializers : \A e \in Event :
             e \in Events(m)' <=> e \in Events(m) /\ e.block <= Len(chain)'
    BY <1>1, <1>9, ChainIsCut DEF PonderStep
  <2>2. Slack' = Slack + MaxReorgDepth /\ Len(chain)' \in Nat
    BY <1>1, <2>1, SlackFacts DEF WorldOK
  <2>3. Bounds'
    BY <1>1, <1>2, <1>3, <1>5, <2>1, <2>2 DEF Bounds, Within, Comparing, Recovering, Behind
  <2>4. ASSUME NEW m \in Materializers, NEW e \in RowsOf(m)
        PROVE  e \in Events(m)' \/ Len(chain)' < e.block
    BY <1>1, <1>4, <1>5, <1>6, <2>1, <2>2 DEF RowsInTime
  <2>5. RowsInTime'
    BY <1>1, <1>2, <1>7, <2>1, <2>4 DEF RowsInTime, ClearedOutside
  <2> QED
    BY <1>1, <2>1, <2>3, <2>5 DEF StaleInvariant
<1>10. ~ PonderStartsOver
  BY <1>1 DEF PonderStartsOver, Reindex, ReindexWithContract, StartOver, SeenInTime, WorldOK
<1> QED
  BY <1>8, <1>9, <1>10 DEF PonderStep

(* A poll writes only what it has read from Ponder.                        *)
LEMMA PollKeepsRows ==
    ASSUME StaleInvariant, NEW m \in Materializers, PollOf(m) \/ PollError(m)
    PROVE  StaleInvariant'
<1>1. WorldOK /\ Bounds /\ RowsInTime /\ DetectorInvariant'
  BY PollKeepsDetector DEF StaleInvariant
<1>2. UNCHANGED <<chain, indexed, forks, reindexes, lastCached, cache, check, jumped>> /\ check = Over
  BY DEF PollOf, PollStep, FetchBatch, PollNothing, UpsertRow, SaveCursor, Reconcile, RestoreRow,
         PollError, PollFails, ponderVars, detectorVars
<1>3. UNCHANGED <<Behind, Len(chain), Slack>> /\ \A n \in Materializers : Events(n)' = Events(n)
  BY <1>2 DEF Behind, Slack, Events, EventsUpTo
<1>4. Bounds'
  BY <1>1, <1>2, <1>3 DEF Bounds, Within, Comparing, Recovering, Over
<1>5. /\ \A n \in Materializers \ {m} : table'[n] = table[n] /\ poll'[n] = poll[n]
      /\ cursor' \in [Materializers -> Position]
      /\ table' \in [Materializers -> SUBSET Event]
      /\ poll' \in [Materializers -> {Idle, Done} \cup WritingState \cup RestoringState]
      /\ RowsOf(m)' \subseteq RowsOf(m) \cup Events(m)
  <2>0. Events(m) \subseteq Event /\ After(m) \subseteq Events(m)
    BY DEF Events, EventsUpTo, After
  <2>1. CASE FetchBatch(m)
    BY <1>1, <1>2, <2>0, <2>1
    DEF FetchBatch, Writing, WorldOK, RowsOf, InHand, copyVars, Done, Idle, WritingState, RestoringState
  <2>2. CASE PollNothing(m)
    BY <1>1, <1>2, <2>2
    DEF PollNothing, WorldOK, RowsOf, InHand, copyVars, Done, Idle, WritingState, RestoringState
  <2>3. CASE UpsertRow(m)
    BY <1>1, <1>2, <2>3
    DEF UpsertRow, WorldOK, RowsOf, InHand, copyVars, Done, Idle, WritingState, RestoringState
  <2>4. CASE SaveCursor(m)
    <3>1. poll[m] \in WritingState
      BY <1>1, <2>4 DEF SaveCursor, WorldOK, Idle, Done, WritingState, RestoringState
    <3>2. poll[m].upto \in Event
      BY <3>1 DEF WritingState
    <3>3. PositionOf(poll[m].upto) \in Position
      BY <3>2, EventNumbers DEF PositionOf, Position
    <3> QED
      BY <1>1, <1>2, <2>4, <3>3
      DEF SaveCursor, WorldOK, RowsOf, InHand, copyVars, Done, Idle, WritingState, RestoringState
  <2>5. CASE Reconcile(m)
    BY <1>1, <1>2, <2>0, <2>5
    DEF Reconcile, WorldOK, RowsOf, InHand, copyVars, Done, Idle, WritingState, RestoringState
  <2>6. CASE RestoreRow(m)
    BY <1>1, <1>2, <2>6
    DEF RestoreRow, WorldOK, RowsOf, InHand, copyVars, Done, Idle, WritingState, RestoringState
  <2>7. CASE PollFails(m)
    BY <1>1, <1>2, <2>7
    DEF PollFails, WorldOK, RowsOf, InHand, copyVars, Done, Idle, WritingState, RestoringState
  <2>8. FetchBatch(m) \/ PollNothing(m) \/ UpsertRow(m) \/ SaveCursor(m) \/ Reconcile(m)
          \/ RestoreRow(m) \/ PollFails(m)
    BY Zenon DEF PollOf, PollStep, PollError
  <2> QED
    BY <2>1, <2>2, <2>3, <2>4, <2>5, <2>6, <2>7, <2>8, Zenon
<1>6. WorldOK'
  BY <1>1, <1>2, <1>5 DEF WorldOK, HasLogs
<1>7. RowsInTime'
  <2>1. \A n \in Materializers : RowsOf(n)' \subseteq RowsOf(n) \cup Events(n)
    BY <1>5 DEF RowsOf, InHand
  <2> QED
    BY <1>1, <1>2, <1>3, <2>1 DEF RowsInTime, Over
<1> QED
  BY <1>1, <1>4, <1>6, <1>7 DEF StaleInvariant

LEMMA CycleKeepsRows ==
    ASSUME StaleInvariant, NextCycle \/ Restart \/ UNCHANGED vars
    PROVE  StaleInvariant'
<1>1. WorldOK /\ Bounds /\ RowsInTime /\ DetectorInvariant'
  BY ServiceStepKeepsDetector DEF StaleInvariant, Next, ServiceStep
<1>2. UNCHANGED <<chain, indexed, forks, reindexes, cursor, table, lastCached, cache, jumped>>
  BY DEF NextCycle, EndCycle, Restart, RestartPolls, ponderVars, copyVars, detectorDb, vars, baseVars,
         detectorVars
<1>3. UNCHANGED <<Behind, Len(chain), Slack>> /\ \A n \in Materializers : Events(n)' = Events(n)
  BY <1>2 DEF Behind, Slack, Events, EventsUpTo
<1>4. CASE NextCycle \/ Restart
  <2>1. check' = NotStarted /\ poll' = [m \in Materializers |-> Idle]
    BY <1>4 DEF NextCycle, EndCycle, Restart, RestartPolls
  <2>2. WorldOK'
    BY <1>1, <1>2, <2>1 DEF WorldOK, HasLogs
  <2>3. Bounds'
    BY <1>1, <1>2, <1>3, <2>1 DEF Bounds, Within, Comparing, Recovering, NotStarted
  <2>4. \A m \in Materializers : RowsOf(m)' \subseteq RowsOf(m)
    BY <1>2, <2>1 DEF RowsOf, InHand, Idle
  <2>5. RowsInTime'
    BY <1>1, <1>2, <1>3, <2>1, <2>4 DEF RowsInTime, NotStarted
  <2> QED
    BY <1>1, <2>2, <2>3, <2>5 DEF StaleInvariant
<1>5. CASE UNCHANGED vars
  <2>1. UNCHANGED <<poll, check>>
    BY <1>5 DEF vars, baseVars, detectorVars
  <2>2. WorldOK'
    BY <1>1, <1>2, <2>1 DEF WorldOK, HasLogs
  <2>3. Bounds'
    BY <1>1, <1>2, <1>3, <2>1 DEF Bounds, Within, Comparing, Recovering
  <2>4. RowsInTime'
    BY <1>1, <1>2, <1>3, <2>1 DEF RowsInTime, RowsOf, InHand, ClearedOutside
  <2> QED
    BY <1>1, <2>2, <2>3, <2>4 DEF StaleInvariant
<1> QED
  BY <1>4, <1>5

(* A regression is never taken for a re-index.                             *)
LEMMA RegressionIsShallow ==
    ASSUME SeenInTime, WorldOK, Within(lastCached), lastCached \in Int, Len(chain) # 0
    PROVE  lastCached - Len(chain) <= CacheDepth
<1>1. /\ Len(chain) \in Nat /\ forks \in Nat /\ forks <= MaxForks
      /\ MaxForks \in Nat /\ MaxReorgDepth \in Nat /\ MaxBlock \in Nat /\ CacheDepth \in Nat
  BY PonderLogAssumption, DetectorAssumption DEF WorldOK, Hashes
<1>2. CASE MaxBlock <= CacheDepth + 1
  BY <1>1, <1>2 DEF Within
<1>3. CASE MaxForks * MaxReorgDepth <= CacheDepth
  <2>1. forks * MaxReorgDepth <= MaxForks * MaxReorgDepth
    BY <1>1
  <2> QED
    BY <1>1, <1>3, <2>1 DEF Within, Slack
<1> QED
  BY <1>2, <1>3 DEF SeenInTime

LEMMA DetectorKeepsPonder ==
    ASSUME DetectorStep
    PROVE  UNCHANGED <<chain, indexed, forks, reindexes>> /\ check # Over
<1>1. UNCHANGED <<chain, indexed, forks, reindexes>>
  BY DEF DetectorStep, HandleReorg, ReadPonderMax, CompareHashes, InsertNewHashes, PruneCache,
         AdvanceCheckpoint, ResetRows, ResetMaterializer, AllReset, InvalidateCache,
         RewindCheckpoint, ponderVars
<1>2. check = NotStarted \/ check.at # "over"
  BY DEF DetectorStep, HandleReorg, ReadPonderMax, CompareHashes, InsertNewHashes, PruneCache,
         AdvanceCheckpoint, ResetRows, ResetMaterializer, AllReset, InvalidateCache,
         RewindCheckpoint
<1>3. NotStarted.at # "over" /\ Over.at = "over"
  BY DEF NotStarted, Over
<1> QED
  BY <1>1, <1>2, <1>3

LEMMA WhatMaxMeans ==
    ASSUME SeenInTime, WorldOK, Bounds, DetectorInvariant, ReadPonderMax
    PROVE  \/ check' = Over /\ Len(chain) \in {0, lastCached}
           \/ Len(chain) < lastCached /\ check' = Reset(Len(chain), FALSE, Materializers)
           \/ lastCached < Len(chain) /\ check' = Compare(Len(chain))
<1>1. Len(chain) \in Nat /\ lastCached \in Int
  BY DEF WorldOK, DetectorInvariant
<1>2. PonderMax = Len(chain)
  BY DenseLog
<1>3. CASE Len(chain) \in {0, lastCached}
  BY <1>2, <1>3 DEF ReadPonderMax, StartReset, Reset
<1>4. CASE Len(chain) # 0 /\ Len(chain) < lastCached
  <2>1. ~ (lastCached - Len(chain) > CacheDepth)
    BY <1>1, <1>4, RegressionIsShallow, DetectorAssumption DEF Bounds
  <2>2. (lastCached - Len(chain) > CacheDepth) = FALSE
    BY <2>1
  <2>3. check' = StartReset(Len(chain), lastCached - Len(chain) > CacheDepth)
    BY <1>1, <1>2, <1>4 DEF ReadPonderMax
  <2> QED
    BY <1>4, <2>2, <2>3 DEF StartReset
<1>5. CASE Len(chain) > lastCached /\ Len(chain) # 0
  BY <1>1, <1>2, <1>5 DEF ReadPonderMax, StartReset, Reset
<1>6. \/ Len(chain) \in {0, lastCached}
      \/ Len(chain) # 0 /\ Len(chain) < lastCached
      \/ Len(chain) > lastCached /\ Len(chain) # 0
  BY <1>1
<1> QED
  BY <1>3, <1>4, <1>5, <1>6, Zenon

LEMMA CheckKeepsRows ==
    ASSUME SeenInTime, StaleInvariant, DetectorStep, UNCHANGED <<poll, faults>>
    PROVE  StaleInvariant'
<1>1. WorldOK /\ Bounds /\ RowsInTime /\ DetectorInvariant /\ DetectorInvariant'
  BY DetectorKeepsInvariant DEF StaleInvariant
<1>2. UNCHANGED <<chain, indexed, forks, reindexes>> /\ check # Over
  BY DetectorKeepsPonder
<1>3. UNCHANGED <<Len(chain), Slack>> /\ \A n \in Materializers : Events(n)' = Events(n)
  BY <1>2 DEF Slack, Events, EventsUpTo
<1>4. \A m \in Materializers : poll[m] = Idle /\ RowsOf(m) = table[m] /\ RowsOf(m)' = table'[m]
  BY <1>1, <1>2 DEF WorldOK, RowsOf, InHand, Idle
<1>5. /\ Len(chain) \in Nat /\ Slack \in Nat /\ lastCached \in Int
      /\ SafetyMargin \in Nat /\ MaxBlock \in Nat
      /\ Comparing => check.max \in Nat
      /\ Recovering => check.block \in Nat
  BY <1>1, SlackFacts, PonderLogAssumption, DetectorAssumption
  DEF WorldOK, DetectorInvariant, CheckInvariant, Comparing
<1>6. PonderMax = Len(chain) /\ \A x \in HashLog : x.number \in 1 .. Len(chain)
  BY <1>1, DenseLog
<1>7. ASSUME UNCHANGED <<cursor, table, jumped>>
      PROVE  WorldOK'
  BY <1>1, <1>2, <1>4, <1>7 DEF WorldOK, HasLogs
<1>8. CASE ReadPonderMax
  <2>1. check = NotStarted /\ UNCHANGED <<cursor, table, jumped, lastCached>>
    BY <1>8 DEF ReadPonderMax, copyVars, detectorDb
  <2>2. \/ check' = Over
        \/ Len(chain) < lastCached /\ check' = Reset(Len(chain), FALSE, Materializers)
        \/ lastCached < Len(chain) /\ check' = Compare(Len(chain))
    BY <1>1, <1>8, WhatMaxMeans
  <2>3. Bounds'
    BY <1>1, <1>2, <1>3, <1>5, <2>1, <2>2
    DEF Bounds, Within, Behind, Comparing, Recovering, Reset, Compare, Over, WorldOK
  <2>5. RowsInTime'
    BY <1>1, <1>2, <1>3, <1>4, <2>1, <2>2
    DEF RowsInTime, Behind, ClearedOutside, Reset, Compare, Over
  <2> QED
    BY <1>1, <1>7, <2>1, <2>3, <2>5 DEF StaleInvariant
<1>9. CASE CompareHashes
  <2> DEFINE rows == {x \in HashLog : lastCached < x.number /\ x.number <= check.max}
             differ == Mismatches(rows)
  <2>1. check.at = "compare" /\ UNCHANGED <<cursor, table, jumped, lastCached>>
    BY <1>9 DEF CompareHashes, copyVars, detectorDb
  <2>2. CASE differ = {}
    <3>1. check' = Insert(check.max, rows)
      BY <1>9, <2>2 DEF CompareHashes
    <3>2. Bounds'
      BY <1>1, <1>2, <1>3, <1>5, <2>1, <3>1
      DEF Bounds, Within, Behind, Comparing, Recovering, Insert
    <3>3. RowsInTime'
      BY <1>1, <1>2, <1>3, <1>4, <2>1, <3>1 DEF RowsInTime, Behind, Insert
    <3> QED
      BY <1>1, <1>7, <2>1, <3>2, <3>3 DEF StaleInvariant
  <2>3. CASE differ # {}
    <3> DEFINE first == CHOOSE b \in differ : \A d \in differ : b <= d
    <3>1. \A b \in differ : b \in Nat /\ lastCached < b /\ b <= check.max /\ b <= Len(chain)
      BY <1>5, <1>6, <2>1 DEF Mismatches, Comparing
    <3>2. first \in differ
      <4>1. differ \subseteq Nat
        BY <3>1, Zenon
      <4>2. \E b \in differ : \A d \in differ : b <= d
        BY <2>3, <4>1, LeastNumber
      <4> QED
        BY <4>2
    <3>3. check' = Reset(first, FALSE, Materializers)
      BY <1>9, <2>3 DEF CompareHashes, StartReset
    <3> HIDE DEF first, differ
    <3>4. Bounds'
      BY <1>1, <1>2, <1>3, <1>5, <2>1, <3>1, <3>2, <3>3
      DEF Bounds, Within, Behind, Comparing, Recovering, Reset
    <3>5. RowsInTime'
      BY <1>1, <1>2, <1>3, <1>4, <2>1, <3>3 DEF RowsInTime, Behind, Reset, ClearedOutside
    <3> QED
      BY <1>1, <1>7, <2>1, <3>4, <3>5 DEF StaleInvariant
  <2> QED
    BY <2>2, <2>3
<1>10. CASE InsertNewHashes \/ PruneCache
  <2>1. UNCHANGED <<cursor, table, jumped, lastCached>> /\ check.at \in {"insert", "prune"}
    BY <1>10 DEF InsertNewHashes, PruneCache, copyVars
  <2>2. check' \in {Prune(check.max), Advance(check.max)}
    BY <1>10 DEF InsertNewHashes, PruneCache
  <2>3. Bounds'
    BY <1>1, <1>2, <1>3, <1>5, <2>1, <2>2
    DEF Bounds, Within, Behind, Comparing, Recovering, Prune, Advance
  <2>4. RowsInTime'
    BY <1>1, <1>2, <1>3, <1>4, <2>1, <2>2 DEF RowsInTime, Behind, Prune, Advance
  <2> QED
    BY <1>1, <1>7, <2>1, <2>3, <2>4 DEF StaleInvariant
<1>11. CASE AdvanceCheckpoint
  <2>1. /\ UNCHANGED <<cursor, table, jumped>> /\ check.at = "advance"
        /\ lastCached' = check.max /\ check' = Over
    BY <1>11 DEF AdvanceCheckpoint, copyVars
  <2>2. Behind => Behind'
    BY <1>1, <1>2, <1>5, <2>1 DEF Bounds, Behind, Comparing
  <2>3. Bounds'
    BY <1>1, <1>2, <1>3, <1>5, <2>1 DEF Bounds, Within, Behind, Comparing, Recovering, Over
  <2>4. RowsInTime'
    BY <1>1, <1>2, <1>3, <1>4, <2>1, <2>2 DEF RowsInTime, Over
  <2> QED
    BY <1>1, <1>7, <2>1, <2>3, <2>4 DEF StaleInvariant
<1>12. ASSUME NEW m \in Materializers, ResetRows(m) PROVE StaleInvariant'
  <2>1. /\ check.at = "reset" /\ ~ check.keep
        /\ table' = [table EXCEPT ![m] = {e \in @ : e.block <= ResetBlock(check.block)}]
        /\ check' = ResetCursor(check.block, check.keep, check.left \ {m}, m)
        /\ UNCHANGED <<cursor, jumped, lastCached>>
    BY <1>1, <1>12 DEF ResetRows, DeleteAfterBlock, RowsInTime, detectorDb
  <2>2. WorldOK'
    BY <1>1, <1>2, <1>4, <2>1 DEF WorldOK, HasLogs
  <2>3. Bounds'
    BY <1>1, <1>2, <1>3, <1>5, <2>1
    DEF Bounds, Within, Behind, Comparing, Recovering, ResetCursor
  <2>4. /\ \A n \in Materializers : table'[n] \subseteq table[n]
        /\ \A e \in table'[m] : e.block <= ResetBlock(check.block)
    BY <1>1, <2>1 DEF WorldOK
  <2>5. RowsInTime'
    BY <1>1, <1>2, <1>3, <1>4, <2>1, <2>4 DEF RowsInTime, Behind, ResetCursor, ClearedOutside, ResetBlock
  <2> QED
    BY <1>1, <2>2, <2>3, <2>5 DEF StaleInvariant
<1>13. CASE ResetMaterializer
  <2>1. /\ check.at = "cursor"
        /\ cursor' = [cursor EXCEPT ![check.mat] = [block |-> ResetBlock(check.block), log |-> 0]]
        /\ jumped' = [jumped EXCEPT ![check.mat] =
               @ \/ Before(cursor[check.mat], [block |-> ResetBlock(check.block), log |-> 0])]
        /\ check' = Reset(check.block, check.keep, check.left)
        /\ UNCHANGED <<table, lastCached>>
    BY <1>13 DEF ResetMaterializer, ResetCheckpoint, detectorDb
  <2>2. cursor' \in [Materializers -> Position] /\ jumped' \in [Materializers -> BOOLEAN]
    <3> DEFINE moved == jumped[check.mat] \/ Before(cursor[check.mat],
                            [block |-> ResetBlock(check.block), log |-> 0])
    <3>1. cursor' \in [Materializers -> Position]
      <4>1. [block |-> ResetBlock(check.block), log |-> 0] \in Position
        BY <1>5, <2>1 DEF Position, ResetBlock, Recovering
      <4> QED
        BY <1>1, <2>1, <4>1 DEF WorldOK
    <3>2. jumped' = [jumped EXCEPT ![check.mat] = moved] /\ moved \in BOOLEAN
      BY <2>1
    <3> HIDE DEF moved
    <3>3. jumped' \in [Materializers -> BOOLEAN]
      BY <1>1, <3>2, Zenon DEF WorldOK
    <3> QED
      BY <3>1, <3>3
  <2>3. WorldOK'
    BY <1>1, <1>2, <1>4, <2>1, <2>2 DEF WorldOK, HasLogs
  <2>4. Bounds'
    BY <1>1, <1>2, <1>3, <1>5, <2>1 DEF Bounds, Within, Behind, Comparing, Recovering, Reset
  <2>5. RowsInTime'
    BY <1>1, <1>2, <1>3, <1>4, <2>1 DEF RowsInTime, Behind, Reset, ClearedOutside, ResetBlock
  <2> QED
    BY <1>1, <2>3, <2>4, <2>5 DEF StaleInvariant
<1>14. CASE AllReset
  <2>1. /\ check.at = "reset" /\ check.left = {} /\ check' = Invalidate(check.block)
        /\ UNCHANGED <<cursor, table, jumped, lastCached>>
    BY <1>14 DEF AllReset, copyVars, detectorDb
  <2>2. Bounds'
    BY <1>1, <1>2, <1>3, <1>5, <2>1 DEF Bounds, Within, Behind, Comparing, Recovering, Invalidate
  <2>3. RowsInTime'
    BY <1>1, <1>2, <1>3, <1>4, <2>1 DEF RowsInTime, Behind, Invalidate, ClearedOutside, ResetBlock
  <2> QED
    BY <1>1, <1>7, <2>1, <2>2, <2>3 DEF StaleInvariant
<1>15. CASE InvalidateCache
  <2>1. /\ check.at = "invalidate" /\ check' = Rewind(check.block)
        /\ UNCHANGED <<cursor, table, jumped, lastCached>>
    BY <1>15 DEF InvalidateCache, copyVars
  <2>2. Bounds'
    BY <1>1, <1>2, <1>3, <1>5, <2>1 DEF Bounds, Within, Behind, Comparing, Recovering, Rewind
  <2>3. RowsInTime'
    BY <1>1, <1>2, <1>3, <1>4, <2>1 DEF RowsInTime, Behind, Rewind, ClearedOutside, ResetBlock
  <2> QED
    BY <1>1, <1>7, <2>1, <2>2, <2>3 DEF StaleInvariant
<1>16. CASE RewindCheckpoint
  <2>1. /\ check.at = "rewind" /\ check' = Over /\ lastCached' = ResetBlock(check.block)
        /\ UNCHANGED <<cursor, table, jumped>>
    BY <1>16 DEF RewindCheckpoint, copyVars
  <2>2. check.block \in Nat /\ ResetBlock(check.block) \in Int /\ ResetBlock(check.block) <= check.block
    BY <1>5, <2>1 DEF Recovering, ResetBlock
  <2>3. Bounds'
    BY <1>1, <1>2, <1>3, <1>5, <2>1, <2>2 DEF Bounds, Within, Comparing, Recovering, Over, WorldOK
  <2>4. ASSUME NEW m \in Materializers, NEW e \in table[m], e \notin Events(m)
        PROVE  Behind' /\ Len(chain) < e.block
    <3>1. Len(chain) < e.block /\ e.block <= ResetBlock(check.block)
      BY <1>1, <1>4, <2>1, <2>4 DEF RowsInTime, ClearedOutside
    <3>2. e.block \in Nat
      BY <1>1, EventNumbers DEF WorldOK
    <3> QED
      BY <1>2, <1>5, <2>1, <2>2, <3>1, <3>2 DEF Behind
  <2>5. RowsInTime'
    BY <1>2, <1>3, <1>4, <2>1, <2>4 DEF RowsInTime, Over
  <2> QED
    BY <1>1, <1>7, <2>1, <2>3, <2>5 DEF StaleInvariant
<1> QED
  BY <1>8, <1>9, <1>10, <1>11, <1>12, <1>13, <1>14, <1>15, <1>16 DEF DetectorStep, HandleReorg

(* No row of an abandoned fork survives a reorganisation that is seen in   *)
(* time, whatever polls and checks are cut short by a crash: cache depth,  *)
(* margin, streams and the number of faults are arbitrary.                 *)
THEOREM NothingStale ==
    ASSUME SeenInTime
    PROVE  Spec => []NoStaleRow
<1>1. StaleInvariant => NoStaleRow
  <2> SUFFICES ASSUME StaleInvariant, ~ RegressionPending, NEW m \in Materializers
               PROVE  table[m] \subseteq ChainEvents(m)
    BY DEF NoStaleRow
  <2>1. ~ Behind /\ indexed = Len(chain)
    BY DenseLog DEF StaleInvariant, WorldOK
  <2> QED
    BY <2>1 DEF StaleInvariant, RowsInTime, RowsOf, Events, ChainEvents
<1>2. StaleInvariant /\ [Next]_vars => StaleInvariant'
  BY PonderKeepsRows, PollKeepsRows, CycleKeepsRows, CheckKeepsRows DEF Next, ServiceStep, CheckStep
<1> QED
  BY <1>1, <1>2, StaleBegins, PTL DEF Spec

----------------------------------------------------------------------------
(* No event is lost unless a reset jumped over it.                         *)
Kept(m, h) ==
    \/ jumped[m]
    \/ /\ \A e \in Events(m) : e.block <= h /\ Covers(cursor[m], e) => e \in table[m]
       /\ poll[m].at = "writing" =>
            \A e \in Events(m) :
                e.block <= h /\ Covers(poll[m].upto, e) => e \in table[m] \cup poll[m].todo

Whole == \A m \in Materializers, h \in Int : Kept(m, h)
KeptBelow(b) == \A m \in Materializers, h \in Int : h <= ResetBlock(b) => Kept(m, h)

Differs(x) == x.number <= Len(chain) /\ chain[x.number].hash # x.hash

(* What a reset that was cut short has deleted is deleted again by the     *)
(* next check: the hash that started it is still cached.                   *)
ResetAgain ==
    \E x \in cache :
        /\ lastCached < x.number /\ Differs(x)
        /\ check.at = "start" \/ (check.at = "compare" /\ x.number <= check.max)
        /\ KeptBelow(x.number)

NotPast ==
    ~ Behind => \A m \in Materializers :
        /\ cursor[m].block <= Len(chain)
        /\ poll[m].at = "writing" => poll[m].upto.block <= Len(chain)

Gaps ==
    /\ Recovering => KeptBelow(check.block)
    /\ check.at \in {"reset", "cursor"} /\ ~ Behind =>
         \E x \in cache : x.number = check.block /\ Differs(x)
    /\ ~ Recovering /\ Behind => KeptBelow(Len(chain))
    /\ ~ Recovering /\ ~ Behind => Whole \/ ResetAgain

LossInvariant == StaleInvariant /\ NotPast /\ Gaps

LEMMA GapsBegin == Init => LossInvariant
<1> SUFFICES ASSUME Init PROVE LossInvariant
  OBVIOUS
<1>1. /\ chain = <<>> /\ indexed = 0 /\ lastCached = 0 /\ check = NotStarted
      /\ cursor = [m \in Materializers |-> [block |-> 0, log |-> 0]]
      /\ poll = [m \in Materializers |-> Idle]
  BY DEF Init, BaseInit, PonderInit, DetectorInit
<1>2. \A m \in Materializers : Events(m) = {}
  BY <1>1, EventFacts
<1>3. Whole
  BY <1>1, <1>2 DEF Whole, Kept, Idle
<1>4. ~ Behind /\ ~ Recovering /\ check.at = "start"
  BY <1>1 DEF Behind, Recovering, NotStarted
<1> QED
  BY <1>1, <1>3, <1>4, StaleBegins DEF LossInvariant, Gaps, NotPast, Idle

LEMMA PonderKeepsGaps ==
    ASSUME SeenInTime, LossInvariant, PonderStep
    PROVE  LossInvariant'
<1>1. WorldOK /\ Bounds /\ NotPast /\ Gaps /\ StaleInvariant'
  BY PonderKeepsRows DEF LossInvariant, StaleInvariant
<1>2. UNCHANGED <<cursor, table, poll, lastCached, cache, check, jumped>>
  BY DEF PonderStep, copyVars, detectorVars
<1>3. /\ lastCached \in Int /\ (Recovering => check.block \in Nat)
      /\ Len(chain) \in Nat /\ SafetyMargin \in Nat
      /\ \A x \in cache : x.number \in Nat \ {0}
  BY <1>1, DetectorAssumption
  DEF LossInvariant, StaleInvariant, DetectorInvariant, CheckInvariant, WorldOK, OneHashPerBlock
<1>4. CASE PonderIndexes
  <2>1. /\ Len(chain)' = Len(chain) + 1 /\ forks' = forks
        /\ ~ Behind \/ Len(chain) = 0
        /\ \A m \in Materializers : \A e \in Events(m)' :
             e \in Events(m) \/ e.block = Len(chain) + 1
        /\ \A b \in 1 .. Len(chain) : chain'[b] = chain[b]
    BY <1>1, <1>4, ChainGrows DEF PonderStep
  <2>2. ~ Behind /\ ~ Behind'
    BY <1>1, <1>2, <1>3, <2>1, SlackFacts DEF WorldOK, Behind, Bounds, Within
  <2>3. ASSUME NEW m \in Materializers
         PROVE  /\ cursor[m].block \in Int /\ cursor[m].block <= Len(chain)
                /\ poll[m].at = "writing" =>
                     poll[m].upto.block \in Int /\ poll[m].upto.block <= Len(chain)
    <3>1. cursor[m].block \in Int
      BY <1>1 DEF WorldOK, Position
    <3>2. poll[m].at = "writing" => poll[m].upto \in Event
      BY <1>1 DEF WorldOK, Idle, Done, WritingState, RestoringState
    <3> QED
      BY <1>1, <2>2, <3>1, <3>2, EventNumbers DEF NotPast
  <2>4. ASSUME NEW m \in Materializers, NEW h \in Int, Kept(m, h) PROVE Kept(m, h)'
    <3>1. \A e : e.block = Len(chain) + 1 => ~ Covers(cursor[m], e)
      BY <1>3, <2>3 DEF Covers, Before
    <3>2. poll[m].at = "writing" => \A e : e.block = Len(chain) + 1 => ~ Covers(poll[m].upto, e)
      BY <1>3, <2>3 DEF Covers, Before
    <3> QED
      BY <1>2, <2>1, <2>4, <3>1, <3>2 DEF Kept
  <2>5. \A x \in cache : Differs(x) => Differs(x)'
    BY <1>3, <2>1 DEF Differs
  <2>6. NotPast'
    BY <1>2, <1>3, <2>1, <2>3 DEF NotPast
  <2>7. Whole => Whole'
    BY <2>4 DEF Whole
  <2>8. ASSUME NEW b \in Int, KeptBelow(b) PROVE KeptBelow(b)'
    BY <2>4, <2>8 DEF KeptBelow, ResetBlock
  <2>9. ResetAgain => ResetAgain'
    BY <1>2, <1>3, <2>5, <2>8 DEF ResetAgain
  <2>10. Gaps'
    BY <1>1, <1>2, <1>3, <2>2, <2>5, <2>7, <2>8, <2>9 DEF Gaps, Recovering
  <2> QED
    BY <1>1, <2>6, <2>10 DEF LossInvariant
<1>5. CASE PonderReorganises
  <2>1. /\ Behind' /\ Len(chain)' < Len(chain) /\ Len(chain)' \in Nat
        /\ \A m \in Materializers : Events(m)' \subseteq Events(m)
    <3>1. /\ WorldOK' /\ Behind' /\ Len(chain)' < Len(chain)
          /\ \A m \in Materializers : \A e \in Event :
               e \in Events(m)' <=> e \in Events(m) /\ e.block <= Len(chain)'
      BY <1>1, <1>5, ChainIsCut DEF PonderStep
    <3>2. \A m \in Materializers : Events(m)' \subseteq Event
      BY DEF Events, EventsUpTo, Event
    <3> QED
      BY <3>1, <3>2 DEF WorldOK
  <2>2. ASSUME NEW m \in Materializers, NEW h \in Int, Kept(m, h) PROVE Kept(m, h)'
    BY <1>2, <2>1, <2>2 DEF Kept
  <2>3. NotPast'
    BY <2>1 DEF NotPast
  <2>4. Recovering => KeptBelow(check.block)'
    BY <1>1, <1>2, <2>2 DEF Gaps, KeptBelow, ResetBlock
  <2>5. ~ Recovering => KeptBelow(Len(chain))'
    <3>1. CASE Behind /\ ~ Recovering
      BY <1>1, <1>3, <2>1, <2>2, <3>1 DEF Gaps, KeptBelow, ResetBlock
    <3>2. CASE Whole
      BY <2>2, <3>2 DEF Whole, KeptBelow
    <3>3. CASE ~ Behind /\ ResetAgain
      <4>1. PICK x \in cache : lastCached < x.number /\ KeptBelow(x.number)
        BY <3>3 DEF ResetAgain
      <4>2. Len(chain)' < x.number
        BY <1>2, <1>3, <2>1, <4>1 DEF Behind
      <4> QED
        BY <1>3, <2>1, <2>2, <4>1, <4>2 DEF KeptBelow, ResetBlock
    <3> QED
      BY <1>1, <3>1, <3>2, <3>3 DEF Gaps
  <2>6. Gaps'
    BY <1>2, <2>1, <2>4, <2>5 DEF Gaps, Recovering
  <2> QED
    BY <1>1, <2>3, <2>6 DEF LossInvariant
<1>6. ~ PonderStartsOver
  BY <1>1 DEF PonderStartsOver, Reindex, ReindexWithContract, StartOver, SeenInTime, WorldOK
<1> QED
  BY <1>4, <1>5, <1>6 DEF PonderStep

LEMMA PollKeepsGaps ==
    ASSUME LossInvariant, NEW m \in Materializers, PollOf(m) \/ PollError(m)
    PROVE  LossInvariant'
<1>1. WorldOK /\ NotPast /\ Gaps /\ StaleInvariant'
  BY PollKeepsRows DEF LossInvariant, StaleInvariant
<1>2. UNCHANGED <<chain, indexed, lastCached, cache, check, jumped>> /\ check = Over
  BY DEF PollOf, PollStep, FetchBatch, PollNothing, UpsertRow, SaveCursor, Reconcile, RestoreRow,
         PollError, PollFails, ponderVars, detectorVars
<1>3. UNCHANGED <<Behind, Len(chain)>> /\ \A n \in Materializers : Events(n)' = Events(n)
  BY <1>2 DEF Behind, Events, EventsUpTo
<1>4. /\ \A n \in Materializers \ {m} :
           cursor'[n] = cursor[n] /\ table'[n] = table[n] /\ poll'[n] = poll[n]
      /\ \A h \in Int : Kept(m, h) => Kept(m, h)'
      /\ NotPast => /\ ~ Behind => cursor'[m].block <= Len(chain)
                    /\ ~ Behind /\ poll'[m].at = "writing" => poll'[m].upto.block <= Len(chain)
  <2>0. indexed = Len(chain)
    BY <1>1 DEF WorldOK
  <2>1. CASE FetchBatch(m)
    <3>1. PICK upto \in After(m) :
            poll' = [poll EXCEPT ![m] = Writing({e \in After(m) : Covers(upto, e)}, upto)]
      BY <2>1 DEF FetchBatch
    <3>2. poll'[m] = Writing({e \in After(m) : Covers(upto, e)}, upto)
      BY <1>1, <3>1 DEF WorldOK
    <3>3. upto \in Events(m) /\ upto.block <= Len(chain)
      BY <1>1, <2>0, EventFacts DEF After
    <3>4. UNCHANGED <<cursor, table>>
      BY <2>1 DEF FetchBatch, copyVars
    <3>5. \A h \in Int : Kept(m, h) => Kept(m, h)'
      BY <1>2, <1>3, <3>2, <3>4 DEF Kept, Writing, After, Covers
    <3> QED
      BY <1>1, <3>1, <3>2, <3>3, <3>4, <3>5 DEF WorldOK, NotPast, Writing
  <2>2. CASE PollNothing(m) \/ PollFails(m)
    <3>1. UNCHANGED <<cursor, table>> /\ poll' = [poll EXCEPT ![m] = Done]
      BY <2>2 DEF PollNothing, PollFails, copyVars
    <3> QED
      BY <1>1, <1>2, <1>3, <3>1 DEF WorldOK, Kept, NotPast, Done
  <2>3. CASE UpsertRow(m)
    <3>1. PICK e \in poll[m].todo : /\ table' = [table EXCEPT ![m] = @ \cup {e}]
                                    /\ poll' = [poll EXCEPT ![m].todo = @ \ {e}]
      BY <2>3 DEF UpsertRow
    <3>2. /\ table'[m] = table[m] \cup {e} /\ poll'[m].todo = poll[m].todo \ {e}
          /\ poll'[m].at = poll[m].at /\ poll'[m].upto = poll[m].upto
          /\ poll[m].at = "writing" /\ cursor' = cursor
      BY <1>1, <2>3, <3>1 DEF UpsertRow, WorldOK, Idle, Done, WritingState, RestoringState
    <3>3. \A h \in Int : Kept(m, h) => Kept(m, h)'
      BY <1>2, <1>3, <3>2 DEF Kept
    <3> QED
      BY <1>1, <3>1, <3>2, <3>3 DEF WorldOK, NotPast
  <2>4. CASE SaveCursor(m)
    <3>1. /\ cursor'[m] = PositionOf(poll[m].upto) /\ poll'[m] = Done /\ table' = table
          /\ poll[m].at = "writing" /\ poll[m].todo = {}
          /\ \A n \in Materializers \ {m} : cursor'[n] = cursor[n] /\ poll'[n] = poll[n]
      BY <1>1, <2>4 DEF SaveCursor, WorldOK
    <3>2. \A e : Covers(PositionOf(poll[m].upto), e) => Covers(poll[m].upto, e)
      BY DEF Covers, Before, PositionOf
    <3>3. \A h \in Int : Kept(m, h) => Kept(m, h)'
      BY <1>2, <1>3, <3>1, <3>2 DEF Kept, Done
    <3> QED
      BY <3>1, <3>3 DEF NotPast, PositionOf, Done
  <2>5. CASE Reconcile(m)
    <3>1. /\ poll'[m].at = "restoring" /\ UNCHANGED <<cursor, table>>
          /\ \A n \in Materializers \ {m} : poll'[n] = poll[n]
      BY <1>1, <2>5 DEF Reconcile, WorldOK, copyVars
    <3> QED
      BY <1>2, <1>3, <3>1 DEF Kept, NotPast
  <2>6. CASE RestoreRow(m)
    <3>1. /\ poll'[m].at # "writing" /\ cursor' = cursor /\ table[m] \subseteq table'[m]
          /\ \A n \in Materializers \ {m} : table'[n] = table[n] /\ poll'[n] = poll[n]
      BY <1>1, <2>6 DEF RestoreRow, WorldOK, Done
    <3> QED
      BY <1>2, <1>3, <3>1 DEF Kept, NotPast
  <2>7. FetchBatch(m) \/ PollNothing(m) \/ UpsertRow(m) \/ SaveCursor(m) \/ Reconcile(m)
          \/ RestoreRow(m) \/ PollFails(m)
    BY Zenon DEF PollOf, PollStep, PollError
  <2> QED
    BY <2>1, <2>2, <2>3, <2>4, <2>5, <2>6, <2>7, Zenon
<1>5. \A n \in Materializers, h \in Int : Kept(n, h) => Kept(n, h)'
  BY <1>2, <1>3, <1>4 DEF Kept
<1>6. NotPast'
  BY <1>1, <1>3, <1>4 DEF NotPast
<1>7. ~ Recovering /\ ~ ResetAgain
  BY <1>2 DEF Recovering, ResetAgain, Over
<1>8. Gaps'
  BY <1>1, <1>2, <1>3, <1>5, <1>7 DEF Gaps, Whole, KeptBelow, ResetBlock, Recovering, Over
<1> QED
  BY <1>1, <1>6, <1>8 DEF LossInvariant

(* A cursor that was just reset covers nothing above the reset block.      *)
LEMMA KeptAfterReset ==
    ASSUME WorldOK, NEW m \in Materializers, NEW b \in Int,
           cursor[m] = [block |-> ResetBlock(b), log |-> 0], poll[m] = Idle,
           \A h \in Int : h <= ResetBlock(b) => Kept(m, h)
    PROVE  \A h \in Int : Kept(m, h)
<1>1. ResetBlock(b) \in Int
  BY DetectorAssumption DEF ResetBlock
<1>2. ASSUME NEW e \in Events(m), Covers(cursor[m], e) PROVE e.block <= ResetBlock(b)
  BY <1>1, <1>2, EventFacts DEF Covers, Before
<1>3. Kept(m, ResetBlock(b))
  BY <1>1
<1> QED
  BY <1>2, <1>3 DEF Kept, Idle

LEMMA CycleKeepsGaps ==
    ASSUME LossInvariant, NextCycle \/ Restart \/ UNCHANGED vars
    PROVE  LossInvariant'
<1>1. WorldOK /\ Bounds /\ NotPast /\ Gaps /\ StaleInvariant'
  BY CycleKeepsRows DEF LossInvariant, StaleInvariant
<1>2. /\ UNCHANGED <<chain, indexed, lastCached, cursor, table, cache, jumped>>
      /\ \/ UNCHANGED <<poll, check>>
         \/ check' = NotStarted /\ poll' = [n \in Materializers |-> Idle]
  BY DEF NextCycle, EndCycle, Restart, RestartPolls, ponderVars, copyVars, detectorDb, vars, baseVars,
         detectorVars
<1>3. UNCHANGED <<Behind, Len(chain)>> /\ \A n \in Materializers : Events(n)' = Events(n)
  BY <1>2 DEF Behind, Events, EventsUpTo
<1>4. ASSUME NEW m \in Materializers, NEW h \in Int, Kept(m, h) PROVE Kept(m, h)'
  BY <1>2, <1>3, <1>4 DEF Kept, Idle
<1>5. NotPast'
  BY <1>1, <1>2, <1>3 DEF NotPast, Idle
<1>6. \A x \in cache : Differs(x)' <=> Differs(x)
  BY <1>2, <1>3 DEF Differs
<1>7. (Whole => Whole') /\ \A b : KeptBelow(b) => KeptBelow(b)'
  BY <1>4 DEF Whole, KeptBelow, ResetBlock
<1>8. CASE UNCHANGED <<poll, check>>
  BY <1>1, <1>2, <1>3, <1>5, <1>6, <1>7, <1>8
  DEF LossInvariant, Gaps, ResetAgain, Recovering, KeptBelow, ResetBlock
<1>9. CASE check' = NotStarted
  <2> SUFFICES Gaps'
    BY <1>1, <1>5 DEF LossInvariant
  <2>1. ~ Recovering' /\ check'.at = "start"
    BY <1>9 DEF Recovering, NotStarted
  <2>2. CASE ~ Recovering
    BY <1>1, <1>2, <1>3, <1>6, <1>7, <2>1, <2>2 DEF Gaps, ResetAgain, KeptBelow, ResetBlock
  <2>3. CASE Recovering
    <3>1. /\ check.block \in Nat /\ SafetyMargin \in Nat /\ Len(chain) \in Nat
          /\ check.at \in {"invalidate", "rewind"} => ResetOutside({}, check.block)
          /\ \A m \in Materializers : poll[m] = Idle
      BY <1>1, <2>3, DetectorAssumption
      DEF LossInvariant, StaleInvariant, DetectorInvariant, CheckInvariant, WorldOK, Recovering, Over
    <3>2. CASE Behind
      <4>1. KeptBelow(Len(chain))
        BY <1>1, <2>3, <3>1, <3>2 DEF Gaps, Bounds, KeptBelow, ResetBlock
      <4> QED
        BY <1>3, <1>4, <2>1, <3>2, <4>1 DEF Gaps, KeptBelow, ResetBlock
    <3>3. CASE ~ Behind /\ check.at \in {"reset", "cursor"}
      <4>1. PICK x \in cache : x.number = check.block /\ Differs(x)
        BY <1>1, <3>3 DEF Gaps
      <4>2. lastCached < x.number /\ KeptBelow(x.number)
        BY <1>1, <2>3, <3>3, <4>1 DEF Gaps, Bounds
      <4>3. ResetAgain'
        BY <1>2, <1>6, <1>7, <2>1, <4>1, <4>2 DEF ResetAgain
      <4> QED
        BY <1>3, <2>1, <3>3, <4>3 DEF Gaps
    <3>4. CASE ~ Behind /\ check.at \in {"invalidate", "rewind"}
      <4>1. Whole
        <5>1. \A m \in Materializers : \A h \in Int : Kept(m, h)
          BY <1>1, <2>3, <3>1, <3>4, KeptAfterReset DEF Gaps, KeptBelow, ResetOutside
        <5> QED
          BY <5>1 DEF Whole
      <4> QED
        BY <1>3, <1>7, <2>1, <3>4, <4>1 DEF Gaps
    <3> QED
      BY <2>3, <3>2, <3>3, <3>4 DEF Recovering
  <2> QED
    BY <2>2, <2>3
<1> QED
  BY <1>2, <1>8, <1>9

LEMMA CheckKeepsGaps ==
    ASSUME SeenInTime, LossInvariant, DetectorStep, UNCHANGED <<poll, faults>>
    PROVE  LossInvariant'
<1>1. WorldOK /\ Bounds /\ NotPast /\ Gaps /\ DetectorInvariant /\ StaleInvariant'
  BY CheckKeepsRows DEF LossInvariant, StaleInvariant
<1>2. UNCHANGED <<chain, indexed, forks>> /\ check # Over
  BY DetectorKeepsPonder
<1>3. /\ Len(chain)' = Len(chain) /\ \A m \in Materializers : Events(m)' = Events(m)
      /\ \A x : Differs(x)' <=> Differs(x)
  BY <1>2 DEF Events, EventsUpTo, Differs
<1>4. \A m \in Materializers : poll[m] = Idle /\ poll'[m] = Idle
  BY <1>1, <1>2 DEF WorldOK
<1>5. /\ Len(chain) \in Nat /\ Slack \in Nat /\ lastCached \in Int
      /\ SafetyMargin \in Nat /\ MaxBlock \in Nat
      /\ Comparing => check.max \in Nat
      /\ Recovering => check.block \in Nat
      /\ forks = 0 => Slack = 0
      /\ \A x \in cache : x.number \in Nat \ {0}
  BY <1>1, SlackFacts, PonderLogAssumption, DetectorAssumption
  DEF WorldOK, DetectorInvariant, CheckInvariant, Comparing, OneHashPerBlock
<1>6. /\ PonderMax = Len(chain)
      /\ \A x \in HashLog : x.number \in 1 .. Len(chain) /\ x.hash = chain[x.number].hash
      /\ \A b \in 1 .. Len(chain) : [number |-> b, hash |-> chain[b].hash] \in HashLog
  BY <1>1, DenseLog
<1> SUFFICES NotPast' /\ Gaps'
  BY <1>1 DEF LossInvariant
<1>7. ASSUME UNCHANGED <<cursor, table, jumped>>
      PROVE  /\ \A m \in Materializers, h \in Int : Kept(m, h)' <=> Kept(m, h)
             /\ (~ Behind' => ~ Behind) => NotPast'
  <2>1. \A m \in Materializers, h \in Int : Kept(m, h)' <=> Kept(m, h)
    BY <1>3, <1>4, <1>7 DEF Kept, Idle
  <2> QED
    BY <1>1, <1>3, <1>4, <1>7, <2>1 DEF NotPast, Idle
<1>8. ASSUME UNCHANGED <<lastCached, cursor, table, jumped>>
      PROVE  /\ NotPast' /\ (Behind' <=> Behind) /\ (Whole' <=> Whole)
             /\ \A b : KeptBelow(b)' <=> KeptBelow(b)
  BY <1>3, <1>7, <1>8 DEF Behind, Whole, KeptBelow, ResetBlock
<1>9. CASE ReadPonderMax
  <2>1. check = NotStarted /\ UNCHANGED <<cursor, table, jumped, lastCached, cache>>
    BY <1>9 DEF ReadPonderMax, copyVars, detectorDb
  <2>2. ~ Recovering /\ check.at = "start"
    BY <2>1 DEF NotStarted, Recovering
  <2>3. \/ check' = Over /\ Len(chain) \in {0, lastCached}
        \/ Len(chain) < lastCached /\ check' = Reset(Len(chain), FALSE, Materializers)
        \/ lastCached < Len(chain) /\ check' = Compare(Len(chain))
    BY <1>1, <1>9, WhatMaxMeans
  <2>4. CASE check' = Over /\ Len(chain) \in {0, lastCached}
    <3>1. ~ Behind
      BY <1>1, <1>5, <2>4 DEF Behind, Bounds, Within, WorldOK
    <3>2. ~ ResetAgain
      BY <1>5, <2>4 DEF ResetAgain, Differs
    <3>3. Whole
      BY <1>1, <2>2, <3>1, <3>2 DEF Gaps
    <3> QED
      BY <1>8, <2>1, <2>4, <3>1, <3>3 DEF Gaps, Recovering, Over
  <2>5. CASE Len(chain) < lastCached /\ check' = Reset(Len(chain), FALSE, Materializers)
    <3>1. Behind /\ KeptBelow(Len(chain))
      BY <1>1, <2>2, <2>5 DEF Behind, Gaps
    <3>2. KeptBelow(check'.block)
      BY <2>5, <3>1 DEF Reset
    <3>3. Gaps'
      BY <1>7, <1>8, <2>1, <2>5, <3>1, <3>2 DEF Gaps, Recovering, Reset, KeptBelow, ResetBlock
    <3> QED
      BY <1>8, <2>1, <3>3
  <2>6. CASE lastCached < Len(chain) /\ check' = Compare(Len(chain))
    <3>1. ~ Behind
      BY <1>5, <2>6 DEF Behind
    <3>2. ResetAgain => ResetAgain'
      BY <1>3, <1>8, <2>1, <2>6 DEF ResetAgain, Compare, Differs
    <3>3. Gaps'
      BY <1>1, <1>8, <2>1, <2>2, <2>6, <3>1, <3>2 DEF Gaps, Recovering, Compare
    <3> QED
      BY <1>8, <2>1, <3>3
  <2> QED
    BY <2>3, <2>4, <2>5, <2>6
<1>10. CASE CompareHashes
  <2> DEFINE rows == {x \in HashLog : lastCached < x.number /\ x.number <= check.max}
             differ == Mismatches(rows)
  <2>1. check.at = "compare" /\ UNCHANGED <<cursor, table, jumped, lastCached, cache>>
    BY <1>10 DEF CompareHashes, copyVars, detectorDb
  <2>2. ~ Recovering
    BY <2>1 DEF Recovering
  <2>3. \A x \in cache : lastCached < x.number /\ x.number <= check.max /\ Differs(x) => x.number \in differ
    <3> SUFFICES ASSUME NEW x \in cache, lastCached < x.number, x.number <= check.max, Differs(x)
                 PROVE  x.number \in differ
      OBVIOUS
    <3>1. x.number \in 1 .. Len(chain) /\ chain[x.number].hash # x.hash
      BY <1>5 DEF Differs
    <3>2. [number |-> x.number, hash |-> chain[x.number].hash] \in rows
      BY <1>6, <3>1
    <3>3. x.number \in 1 .. MaxBlock
      BY <1>1, <1>5, <3>1 DEF WorldOK
    <3> HIDE DEF rows
    <3> QED
      BY <3>1, <3>2, <3>3 DEF Mismatches
  <2>4. CASE differ = {}
    <3>1. check' = Insert(check.max, rows)
      BY <1>10, <2>4 DEF CompareHashes
    <3>2. ~ ResetAgain
      BY <2>1, <2>3, <2>4 DEF ResetAgain
    <3>3. Gaps'
      BY <1>1, <1>7, <1>8, <1>3, <2>1, <2>2, <3>1, <3>2
      DEF Gaps, Recovering, Insert, KeptBelow, ResetBlock
    <3> QED
      BY <1>8, <2>1, <3>3
  <2>5. CASE differ # {}
    <3> DEFINE first == CHOOSE b \in differ : \A d \in differ : b <= d
    <3>1. \A b \in differ : /\ b \in Nat /\ lastCached < b /\ b <= Len(chain)
                            /\ \E x \in cache : x.number = b /\ Differs(x)
      BY <1>5, <1>6 DEF Mismatches, Differs
    <3>2. first \in differ /\ \A d \in differ : first <= d
      <4>1. differ \subseteq Nat
        BY <3>1, Zenon
      <4>2. \E b \in differ : \A d \in differ : b <= d
        BY <2>5, <4>1, LeastNumber
      <4> QED
        BY <4>2
    <3>3. check' = Reset(first, FALSE, Materializers)
      BY <1>10, <2>5 DEF CompareHashes, StartReset
    <3>4. ~ Behind
      BY <1>5, <3>1, <3>2 DEF Behind
    <3>5. first \in Nat
      BY <3>1, <3>2
    <3>6. KeptBelow(first)
      <4>1. CASE Whole
        BY <4>1 DEF Whole, KeptBelow
      <4>2. CASE ResetAgain
        <5>1. PICK x \in cache : lastCached < x.number /\ x.number <= check.max /\ Differs(x)
                                 /\ KeptBelow(x.number)
          BY <2>1, <4>2 DEF ResetAgain
        <5>2. first <= x.number
          BY <2>3, <3>2, <5>1
        <5> HIDE DEF first
        <5> QED
          BY <1>5, <3>5, <5>1, <5>2 DEF KeptBelow, ResetBlock
      <4> QED
        BY <1>1, <2>2, <3>4, <4>1, <4>2 DEF Gaps
    <3> HIDE DEF first, differ
    <3>7. PICK b \in Nat : /\ check' = Reset(b, FALSE, Materializers) /\ KeptBelow(b)
                           /\ \E x \in cache : x.number = b /\ Differs(x)
      BY <3>1, <3>2, <3>3, <3>5, <3>6
    <3>8. KeptBelow(b)' /\ NotPast' /\ ~ Behind'
      BY <1>8, <2>1, <3>4, <3>7
    <3>9. \E x \in cache' : x.number = b /\ Differs(x)'
      BY <1>3, <2>1, <3>7
    <3>10. Gaps'
      BY <3>7, <3>8, <3>9 DEF Gaps, Recovering, Reset, KeptBelow, ResetBlock
    <3> QED
      BY <3>8, <3>10
  <2> QED
    BY <2>4, <2>5
<1>11. CASE InsertNewHashes \/ PruneCache
  <2>1. /\ UNCHANGED <<cursor, table, jumped, lastCached>>
        /\ check.at \in {"insert", "prune"} /\ check'.at \in {"prune", "advance"}
    BY <1>11 DEF InsertNewHashes, PruneCache, Prune, Advance, copyVars
  <2>2. ~ Recovering /\ ~ Recovering' /\ ~ ResetAgain
    BY <2>1 DEF Recovering, ResetAgain
  <2>3. Behind => KeptBelow(Len(chain))'
    BY <1>1, <1>3, <1>7, <2>1, <2>2 DEF Gaps, KeptBelow, ResetBlock
  <2>4. Gaps'
    BY <1>1, <1>8, <2>1, <2>2, <2>3 DEF Gaps, Recovering
  <2> QED
    BY <1>8, <2>1, <2>4
<1>12. CASE AdvanceCheckpoint
  <2>1. /\ UNCHANGED <<cursor, table, jumped>> /\ check.at = "advance"
        /\ lastCached' = check.max /\ check' = Over
    BY <1>12 DEF AdvanceCheckpoint, copyVars
  <2>2. ~ Recovering /\ ~ Recovering' /\ ~ ResetAgain
    BY <2>1 DEF Recovering, ResetAgain, Over
  <2>3. Behind' <=> Behind
    BY <1>1, <1>3, <1>5, <2>1 DEF Behind, Bounds, Comparing
  <2>4. Behind => KeptBelow(Len(chain))'
    BY <1>1, <1>3, <1>7, <2>1, <2>2 DEF Gaps, KeptBelow, ResetBlock
  <2>5. ~ Behind => Whole'
    BY <1>1, <1>7, <2>1, <2>2 DEF Gaps, Whole
  <2>6. Gaps'
    BY <2>1, <2>2, <2>3, <2>4, <2>5 DEF Gaps, Over
  <2> QED
    BY <1>7, <2>1, <2>3, <2>6
<1>13. ASSUME NEW m \in Materializers, ResetRows(m) PROVE NotPast' /\ Gaps'
  <2>1. /\ check.at = "reset"
        /\ \A n \in Materializers \ {m} : table'[n] = table[n]
        /\ \A e \in table[m] : e.block <= ResetBlock(check.block) => e \in table'[m]
        /\ check' = ResetCursor(check.block, check.keep, check.left \ {m}, m)
        /\ UNCHANGED <<cursor, jumped, lastCached, cache>>
    BY <1>1, <1>13 DEF ResetRows, DeleteAfterBlock, WorldOK, detectorDb
  <2>2. Recovering /\ Recovering' /\ check'.at = "cursor" /\ check'.block = check.block
    BY <2>1 DEF Recovering, ResetCursor
  <2>3. ASSUME NEW n \in Materializers, NEW h \in Int, h <= ResetBlock(check.block), Kept(n, h)
        PROVE  Kept(n, h)'
    <3>1. \A e \in Events(n) : e.block \in Nat
      BY EventNumbers, EventFacts
    <3>2. ResetBlock(check.block) \in Int
      BY <1>5, <2>2 DEF ResetBlock
    <3>3. \A e \in Events(n) : e \in table[n] /\ e.block <= h => e \in table'[n]
      BY <2>1, <2>3, <3>1, <3>2
    <3> QED
      BY <1>3, <1>4, <2>1, <2>3, <3>3 DEF Kept, Idle
  <2>4. KeptBelow(check.block)'
    BY <1>1, <2>2, <2>3 DEF Gaps, KeptBelow, ResetBlock
  <2>5. Behind' <=> Behind
    BY <1>3, <2>1 DEF Behind
  <2>6. Gaps'
    BY <1>1, <1>3, <2>1, <2>2, <2>4, <2>5 DEF Gaps
  <2>7. NotPast'
    BY <1>1, <1>3, <1>4, <2>1, <2>5 DEF NotPast, Idle
  <2> QED
    BY <2>6, <2>7
<1>14. CASE ResetMaterializer
  <2> DEFINE target == [block |-> ResetBlock(check.block), log |-> 0]
  <2>1. /\ check.at = "cursor"
        /\ cursor' = [cursor EXCEPT ![check.mat] = target]
        /\ jumped' = [jumped EXCEPT ![check.mat] = @ \/ Before(cursor[check.mat], target)]
        /\ check' = Reset(check.block, check.keep, check.left)
        /\ UNCHANGED <<table, lastCached, cache>>
    BY <1>14 DEF ResetMaterializer, ResetCheckpoint, detectorDb
  <2>2. Recovering /\ Recovering' /\ check'.at = "reset" /\ check'.block = check.block
    BY <2>1 DEF Recovering, Reset
  <2>3. target \in Position /\ target.block = ResetBlock(check.block) /\ ResetBlock(check.block) \in Int
    BY <1>5, <2>2 DEF Position, ResetBlock
  <2> HIDE DEF target
  <2>4. ASSUME NEW n \in Materializers, NEW h \in Int, Kept(n, h) PROVE Kept(n, h)'
    <3>1. CASE n # check.mat
      BY <1>1, <1>3, <1>4, <2>1, <2>4, <3>1 DEF Kept, Idle, WorldOK
    <3>2. CASE n = check.mat
      <4>1. cursor'[n] = target /\ (jumped'[n] <=> jumped[n] \/ Before(cursor[n], target))
        BY <1>1, <2>1, <3>2 DEF WorldOK
      <4>2. CASE jumped[n] \/ Before(cursor[n], target)
        BY <4>1, <4>2 DEF Kept
      <4>3. CASE ~ jumped[n] /\ ~ Before(cursor[n], target)
        <5>1. cursor[n] \in Position
          BY <1>1 DEF WorldOK
        <5>2. ASSUME NEW e \in Events(n), Covers(target, e) PROVE Covers(cursor[n], e)
          <6>1. e.block \in Int /\ e.log \in Int
            BY EventFacts
          <6>2. /\ target.block \in Int /\ target.log \in Int
                /\ cursor[n].block \in Int /\ cursor[n].log \in Int
            BY <2>3, <5>1 DEF Position
          <6> QED
            BY <4>3, <5>2, <6>1, <6>2 DEF Covers, Before
        <5> QED
          BY <1>3, <1>4, <2>1, <2>4, <4>1, <4>3, <5>2 DEF Kept, Idle
      <4> QED
        BY <4>2, <4>3
    <3> QED
      BY <3>1, <3>2
  <2>5. KeptBelow(check.block)'
    BY <1>1, <2>2, <2>4 DEF Gaps, KeptBelow, ResetBlock
  <2>6. Behind' <=> Behind
    BY <1>3, <2>1 DEF Behind
  <2>7. Gaps'
    BY <1>1, <1>3, <2>1, <2>2, <2>5, <2>6 DEF Gaps
  <2>8. NotPast'
    <3>1. ~ Behind => ResetBlock(check.block) <= Len(chain)
      BY <1>1, <1>5, <2>2 DEF Bounds, ResetBlock
    <3>2. \A n \in Materializers : cursor'[n] = cursor[n] \/ cursor'[n] = target
      BY <1>1, <2>1 DEF WorldOK
    <3> QED
      BY <1>1, <1>3, <1>4, <2>3, <2>6, <3>1, <3>2 DEF NotPast, Idle
  <2> QED
    BY <2>7, <2>8
<1>15. CASE AllReset \/ InvalidateCache
  <2>1. /\ UNCHANGED <<cursor, table, jumped, lastCached>>
        /\ check.at \in {"reset", "invalidate"} /\ check'.at \in {"invalidate", "rewind"}
        /\ check'.block = check.block
    BY <1>15 DEF AllReset, InvalidateCache, Invalidate, Rewind, copyVars, detectorDb
  <2>2. Recovering /\ Recovering'
    BY <2>1 DEF Recovering
  <2>3. KeptBelow(check.block)'
    BY <1>1, <1>7, <2>1, <2>2 DEF Gaps, KeptBelow, ResetBlock
  <2>4. Gaps'
    BY <2>1, <2>2, <2>3 DEF Gaps
  <2> QED
    BY <1>8, <2>1, <2>4
<1>16. CASE RewindCheckpoint
  <2>1. /\ check.at = "rewind" /\ check' = Over /\ lastCached' = ResetBlock(check.block)
        /\ UNCHANGED <<cursor, table, jumped>>
    BY <1>16 DEF RewindCheckpoint, copyVars
  <2>2. Recovering /\ ~ Recovering' /\ check.block \in Nat
    BY <1>5, <2>1 DEF Recovering, Over
  <2>3. \A m \in Materializers : cursor[m] = [block |-> ResetBlock(check.block), log |-> 0]
    BY <1>1, <2>1 DEF DetectorInvariant, CheckInvariant, ResetOutside
  <2>4. Whole
    <3>1. \A m \in Materializers : \A h \in Int : Kept(m, h)
      BY <1>1, <1>4, <2>2, <2>3, KeptAfterReset DEF Gaps, KeptBelow
    <3> QED
      BY <3>1 DEF Whole
  <2>5. Whole'
    BY <1>7, <2>1, <2>4 DEF Whole
  <2>6. Gaps'
    BY <2>1, <2>2, <2>5 DEF Gaps, Whole, KeptBelow, Over
  <2>7. NotPast'
    BY <1>3, <1>4, <1>5, <2>1, <2>2, <2>3 DEF NotPast, Behind, ResetBlock, Idle
  <2> QED
    BY <2>6, <2>7
<1> QED
  BY <1>9, <1>10, <1>11, <1>12, <1>13, <1>14, <1>15, <1>16 DEF DetectorStep, HandleReorg

(* An event that a cursor has left behind is one that a reset jumped over, *)
(* under the same assumptions: polls and checks may be cut short anywhere. *)
THEOREM NothingLost ==
    ASSUME SeenInTime
    PROVE  Spec => []LossOnlyByJump
<1>1. LossInvariant => LossOnlyByJump
  <2> SUFFICES ASSUME LossInvariant, check = Over, ~ RegressionPending, NEW m \in Materializers
               PROVE  jumped[m] \/ NoGap(m)
    BY DEF LossOnlyByJump
  <2>1. ~ Behind /\ ~ Recovering /\ ~ ResetAgain
    BY DenseLog DEF LossInvariant, StaleInvariant, Recovering, ResetAgain, Over
  <2>2. Kept(m, MaxBlock)
    BY <2>1, PonderLogAssumption DEF LossInvariant, Gaps, Whole
  <2>3. \A e \in Events(m) : e.block <= MaxBlock
    BY EventFacts, PonderLogAssumption
  <2> QED
    BY <2>2, <2>3 DEF Kept, NoGap
<1>2. LossInvariant /\ [Next]_vars => LossInvariant'
  BY PonderKeepsGaps, PollKeepsGaps, CycleKeepsGaps, CheckKeepsGaps DEF Next, ServiceStep, CheckStep
<1> QED
  BY <1>1, <1>2, GapsBegin, PTL DEF Spec

----------------------------------------------------------------------------
(* The cache mirrors the chain.  Checks are cut short between their insert,*)
(* their prune and their checkpoint, and a second reorganisation may come  *)
(* while the first is recovered from, so that the cache holds rows above   *)
(* the checkpoint, some of an abandoned fork, and now and then fewer than  *)
(* CacheDepth; but never with a hole that a checkpoint could climb over.   *)
HashRow == [number : Nat \ {0}, hash : Hashes]

Cached(b) == \E x \in cache : x.number = b
AgreesUpTo(h) == \A x \in cache : x.number <= h => ~ Differs(x)
CoveredUpTo(h) == \A x \in cache : \A b \in (x.number + 1) .. h : Cached(b)
WithoutHole == \A x, z \in cache : \A b \in x.number .. z.number : Cached(b)

(* A block so far down that no reorganisation still to come reaches it.    *)
Deep(h) == h <= 1 \/ Within(h + CacheDepth)

(* A comparison found the rows to insert before Ponder could go back.      *)
Fills(rows) ==
    /\ \A r \in rows : lastCached < r.number /\ r.number <= check.max
    /\ \A b \in 1 .. check.max : lastCached < b => \E r \in rows : r.number = b
    /\ CoveredUpTo(lastCached)
    /\ cache = {} => Deep(lastCached + 1)
    /\ cache # {} => \E x \in cache : x.number <= check.max

AtRest ==
    /\ cache \subseteq HashRow
    /\ AgreesUpTo(lastCached)
    /\ CoveredUpTo(IF Behind THEN Len(chain) - 1 ELSE lastCached)
    /\ WithoutHole
    /\ cache # {} => \E x \in cache : Deep(x.number)
    /\ cache = {} => Deep(IF Behind THEN Len(chain) ELSE lastCached + 1)

WhileComparing ==
    /\ Comparing => check.max > 0
    /\ check.at = "compare" /\ cache # {} => \E x \in cache : x.number <= check.max
    /\ check.at = "insert" =>
        /\ check.rows \subseteq HashRow
        /\ \A r \in check.rows : ~ Differs(r)
        /\ (check.rows = {} /\ Behind) \/ Fills(check.rows)
    /\ check.at \in {"insert", "prune", "advance"} => AgreesUpTo(check.max)
    /\ check.at \in {"prune", "advance"} /\ ~ Behind =>
        CoveredUpTo(check.max) /\ Cached(check.max)

WhileRecovering ==
    Recovering =>
        /\ AgreesUpTo(check.block - 1)
        /\ \A x \in cache : \A b \in (x.number + 1) .. Len(chain) : b < check.block => Cached(b)
        /\ cache = {} => Deep(check.block)

MirrorInvariant == StaleInvariant /\ AtRest /\ WhileComparing /\ WhileRecovering

LEMMA DeepFacts ==
    ASSUME WorldOK, NEW h \in Int, NEW g \in Int, g <= h, Deep(h)
    PROVE  Deep(g) /\ (SeenInTime /\ Len(chain) > 0 => h <= Len(chain))
<1>1. /\ Len(chain) \in Nat /\ forks \in Nat /\ forks <= MaxForks /\ Slack \in Nat
      /\ MaxForks \in Nat /\ MaxReorgDepth \in Nat /\ MaxBlock \in Nat /\ CacheDepth \in Nat
  BY SlackFacts, PonderLogAssumption, DetectorAssumption DEF WorldOK, Hashes
<1>2. Deep(g)
  BY <1>1 DEF Deep, Within
<1>3. ASSUME SeenInTime, Len(chain) > 0 PROVE h <= Len(chain)
  <2>1. CASE MaxBlock <= CacheDepth + 1
    BY <1>1, <1>3, <2>1 DEF Deep, Within
  <2>2. CASE MaxForks * MaxReorgDepth <= CacheDepth
    <3>1. forks * MaxReorgDepth <= MaxForks * MaxReorgDepth
      BY <1>1
    <3>2. Slack <= CacheDepth
      BY <1>1, <2>2, <3>1 DEF Slack
    <3> QED
      BY <1>1, <1>3, <3>2 DEF Deep, Within
  <2> QED
    BY <1>3, <2>1, <2>2 DEF SeenInTime
<1> QED
  BY <1>2, <1>3

LEMMA MirrorBegins == Init => MirrorInvariant
<1> SUFFICES ASSUME Init PROVE MirrorInvariant
  OBVIOUS
<1>1. /\ chain = <<>> /\ lastCached = 0 /\ cache = {} /\ check = NotStarted
  BY DEF Init, BaseInit, PonderInit, DetectorInit
<1>2. AtRest
  BY <1>1 DEF AtRest, AgreesUpTo, CoveredUpTo, WithoutHole, Deep, Behind
<1>3. WhileComparing /\ WhileRecovering
  BY <1>1 DEF WhileComparing, WhileRecovering, Comparing, Recovering, NotStarted
<1> QED
  BY <1>2, <1>3, StaleBegins DEF MirrorInvariant

(* What the numbers in the invariant are.                                  *)
LEMMA MirrorNumbers ==
    ASSUME MirrorInvariant
    PROVE  /\ Len(chain) \in Nat /\ lastCached \in Int
           /\ \A x \in cache : x.number \in Nat \ {0}
           /\ Comparing => check.max \in Nat
           /\ Recovering => check.block \in Nat
           /\ check.at = "insert" => \A r \in check.rows : r.number \in Nat \ {0}
  BY DEF MirrorInvariant, AtRest, WhileComparing, HashRow, StaleInvariant, WorldOK,
         DetectorInvariant, CheckInvariant, Comparing

(* The chain grows above all that the detector holds as checked.           *)
LEMMA MirrorWhenIndexed ==
    ASSUME SeenInTime, MirrorInvariant, PonderIndexes, PonderStep
    PROVE  MirrorInvariant'
<1>1. WorldOK /\ Bounds /\ UNCHANGED <<copyVars, poll, faults, detectorVars>>
  BY DEF MirrorInvariant, StaleInvariant, PonderStep
<1>2. UNCHANGED <<lastCached, cache, check>>
  BY <1>1 DEF detectorVars
<1>3. /\ WorldOK' /\ Len(chain)' = Len(chain) + 1 /\ forks' = forks
      /\ ~ Behind \/ Len(chain) = 0
      /\ \A b \in 1 .. Len(chain) : chain'[b] = chain[b]
  BY <1>1, ChainGrows
<1>4. /\ Len(chain) \in Nat /\ lastCached \in Int
      /\ \A x \in cache : x.number \in Nat \ {0}
      /\ Comparing => check.max \in Nat
      /\ Recovering => check.block \in Nat
      /\ check.at = "insert" => \A r \in check.rows : r.number \in Nat \ {0}
      /\ MaxBlock \in Nat /\ CacheDepth \in Nat /\ Slack \in Nat /\ Slack' = Slack
  BY <1>1, <1>3, MirrorNumbers, SlackFacts, PonderLogAssumption, DetectorAssumption
  DEF Slack
<1>5. ~ Behind /\ ~ Behind' /\ lastCached <= Len(chain)
  BY <1>1, <1>2, <1>3, <1>4, SlackFacts DEF WorldOK, Behind, Bounds, Within
<1>6. \A h \in Int : Deep(h) =>
        h <= 1 \/ (h + CacheDepth <= MaxBlock /\ h + CacheDepth <= Len(chain)' + Slack')
  BY <1>3, <1>4 DEF Deep, Within
<1>7. \A x : x.number \in Nat \ {0} /\ x.number <= Len(chain) => (Differs(x)' <=> Differs(x))
  BY <1>3, <1>4 DEF Differs
<1>8. /\ \A b : Cached(b)' <=> Cached(b)
      /\ WithoutHole' <=> WithoutHole
      /\ \A h : CoveredUpTo(h)' <=> CoveredUpTo(h)
  BY <1>2 DEF Cached, WithoutHole, CoveredUpTo
<1>9. \A h \in Int : h <= Len(chain) /\ AgreesUpTo(h) => AgreesUpTo(h)'
  BY <1>2, <1>4, <1>7 DEF AgreesUpTo
<1>10. AtRest'
  <2>1. CoveredUpTo(lastCached)' /\ AgreesUpTo(lastCached)'
    <3>1. CoveredUpTo(lastCached) /\ AgreesUpTo(lastCached)
      BY <1>5 DEF MirrorInvariant, AtRest
    <3> QED
      BY <1>2, <1>4, <1>5, <1>8, <1>9, <3>1 DEF CoveredUpTo, AgreesUpTo
  <2>2. cache # {} => \E x \in cache : Deep(x.number)'
    <3> SUFFICES ASSUME cache # {} PROVE \E x \in cache : Deep(x.number)'
      OBVIOUS
    <3>1. PICK x \in cache : Deep(x.number)
      BY DEF MirrorInvariant, AtRest
    <3>2. x.number \in Int
      BY <1>4
    <3>3. Deep(x.number)'
      BY <1>4, <1>6, <3>1, <3>2 DEF Deep, Within
    <3> QED
      BY <3>3
  <2>3. cache = {} => Deep(lastCached + 1)'
    <3>1. cache = {} => Deep(lastCached + 1)
      BY <1>5 DEF MirrorInvariant, AtRest
    <3> QED
      BY <1>2, <1>3, <1>4, <1>6, <3>1 DEF Deep, Within
  <2>4. WithoutHole' /\ cache' \subseteq HashRow
    BY <1>2, <1>8 DEF MirrorInvariant, AtRest
  <2> QED
    BY <1>2, <1>5, <2>1, <2>2, <2>3, <2>4 DEF AtRest
<1>11. WhileComparing'
  <2>1. Comparing => check.max <= Len(chain)
    BY <1>1, <1>5 DEF Bounds
  <2>2. ASSUME check.at = "insert"
        PROVE  /\ \A r \in check.rows : ~ Differs(r)'
               /\ Fills(check.rows)'
    <3>1. Fills(check.rows) /\ \A r \in check.rows : ~ Differs(r)
      BY <1>5, <2>2 DEF MirrorInvariant, WhileComparing
    <3>2. \A r \in check.rows : ~ Differs(r)'
      BY <1>4, <1>7, <2>1, <2>2, <3>1 DEF Fills, Comparing
    <3>3. cache = {} => Deep(lastCached + 1)'
      BY <1>2, <1>3, <1>4, <1>6, <3>1 DEF Fills, Deep, Within
    <3> QED
      BY <1>2, <1>8, <3>1, <3>2, <3>3 DEF Fills, CoveredUpTo
  <2>3. check.at \in {"insert", "prune", "advance"} => AgreesUpTo(check.max)'
    <3>1. check.at \in {"insert", "prune", "advance"} => AgreesUpTo(check.max) /\ Comparing
      BY DEF MirrorInvariant, WhileComparing, Comparing
    <3> QED
      BY <1>2, <1>4, <1>9, <2>1, <3>1 DEF AgreesUpTo
  <2>4. check.at \in {"prune", "advance"} => CoveredUpTo(check.max)' /\ Cached(check.max)'
    BY <1>2, <1>5, <1>8 DEF MirrorInvariant, WhileComparing, CoveredUpTo, Cached
  <2> QED
    BY <1>2, <2>2, <2>3, <2>4 DEF MirrorInvariant, WhileComparing, Comparing
<1>12. WhileRecovering'
  <2> SUFFICES ASSUME Recovering PROVE WhileRecovering'
    BY <1>2 DEF WhileRecovering, Recovering
  <2>1. check.block \in Nat /\ check.block <= Len(chain)
    BY <1>1, <1>4, <1>5 DEF Bounds
  <2>2. AgreesUpTo(check.block - 1)'
    <3>1. AgreesUpTo(check.block - 1)
      BY DEF MirrorInvariant, WhileRecovering
    <3> QED
      BY <1>2, <1>9, <2>1, <3>1 DEF AgreesUpTo
  <2>3. ASSUME NEW x \in cache, NEW b \in (x.number + 1) .. (Len(chain) + 1), b < check.block
        PROVE  Cached(b)'
    <3>1. b \in (x.number + 1) .. Len(chain)
      BY <1>4, <2>1, <2>3
    <3> QED
      BY <1>8, <2>3, <3>1 DEF MirrorInvariant, WhileRecovering
  <2>4. cache = {} => Deep(check.block)'
    <3>1. cache = {} => Deep(check.block)
      BY DEF MirrorInvariant, WhileRecovering
    <3>2. check.block \in Int /\ (check.block)' = check.block
      BY <1>2, <1>4
    <3> QED
      BY <1>4, <1>6, <3>1, <3>2 DEF Deep, Within
  <2> QED
    BY <1>2, <1>3, <2>2, <2>3, <2>4 DEF WhileRecovering
<1> QED
  BY <1>10, <1>11, <1>12, PonderKeepsRows DEF MirrorInvariant

(* A reorganisation cuts the chain to below the checkpoint, where the      *)
(* cache had been compared with it.                                        *)
LEMMA MirrorWhenCut ==
    ASSUME SeenInTime, MirrorInvariant, PonderReorganises, PonderStep
    PROVE  MirrorInvariant'
<1>1. WorldOK /\ Bounds /\ UNCHANGED <<copyVars, poll, faults, detectorVars>>
  BY DEF MirrorInvariant, StaleInvariant, PonderStep
<1>2. UNCHANGED <<lastCached, cache, check>>
  BY <1>1 DEF detectorVars
<1>3. /\ WorldOK' /\ Behind' /\ Len(chain)' < lastCached
      /\ Len(chain)' < Len(chain) /\ Len(chain) <= Len(chain)' + MaxReorgDepth
      /\ forks' = forks + 1
      /\ \A b \in 1 .. Len(chain)' : chain'[b] = chain[b]
  BY <1>1, <1>2, ChainIsCut DEF Behind
<1>4. /\ Len(chain) \in Nat /\ Len(chain)' \in Nat /\ lastCached \in Int
      /\ \A x \in cache : x.number \in Nat \ {0}
      /\ Comparing => check.max \in Nat
      /\ Recovering => check.block \in Nat
      /\ check.at = "insert" => \A r \in check.rows : r.number \in Nat \ {0}
      /\ MaxBlock \in Nat /\ CacheDepth \in Nat /\ Slack \in Nat
      /\ Slack' = Slack + MaxReorgDepth /\ Slack' \in Nat /\ MaxReorgDepth \in Nat
  BY <1>1, <1>3, MirrorNumbers, SlackFacts, PonderLogAssumption, DetectorAssumption DEF WorldOK
<1>6. \A h \in Int : Deep(h) =>
        h <= 1 \/ (h + CacheDepth <= MaxBlock /\ h + CacheDepth <= Len(chain)' + Slack')
  BY <1>3, <1>4 DEF Deep, Within
<1>7. \A x : x.number \in Nat \ {0} /\ Differs(x)' => Differs(x)
  BY <1>3, <1>4 DEF Differs
<1>8. /\ \A b : Cached(b)' <=> Cached(b)
      /\ WithoutHole' <=> WithoutHole
      /\ \A h : CoveredUpTo(h)' <=> CoveredUpTo(h)
  BY <1>2 DEF Cached, WithoutHole, CoveredUpTo
<1>9. \A h : AgreesUpTo(h) => AgreesUpTo(h)'
  BY <1>2, <1>4, <1>7 DEF AgreesUpTo
<1>10. AtRest'
  <2>1. AgreesUpTo(lastCached)'
    BY <1>2, <1>9 DEF MirrorInvariant, AtRest, AgreesUpTo
  <2>2. CoveredUpTo(Len(chain)' - 1)
    <3>1. CoveredUpTo(IF Behind THEN Len(chain) - 1 ELSE lastCached)
      BY DEF MirrorInvariant, AtRest
    <3>2. CASE Behind
      BY <1>3, <1>4, <3>1, <3>2 DEF CoveredUpTo
    <3>3. CASE ~ Behind
      BY <1>3, <1>4, <3>1, <3>3 DEF CoveredUpTo
    <3> QED
      BY <3>2, <3>3
  <2>3. cache # {} => \E x \in cache : Deep(x.number)'
    <3> SUFFICES ASSUME cache # {} PROVE \E x \in cache : Deep(x.number)'
      OBVIOUS
    <3>1. PICK x \in cache : Deep(x.number)
      BY DEF MirrorInvariant, AtRest
    <3>2. x.number \in Int
      BY <1>4
    <3>3. Deep(x.number)'
      BY <1>4, <1>6, <3>1, <3>2 DEF Deep, Within
    <3> QED
      BY <3>3
  <2>4. cache = {} => Deep(Len(chain))'
    <3>1. cache = {} => Deep(IF Behind THEN Len(chain) ELSE lastCached + 1)
      BY DEF MirrorInvariant, AtRest
    <3>2. ASSUME cache = {} PROVE Deep(Len(chain)')
      <4>1. PICK h \in Int : Deep(h) /\ Len(chain)' <= h
        BY <1>3, <1>4, <3>1, <3>2
      <4> QED
        BY <1>1, <1>4, <4>1, DeepFacts
    <3> QED
      BY <1>4, <1>6, <3>2 DEF Deep, Within
  <2>5. WithoutHole' /\ cache' \subseteq HashRow
    BY <1>2, <1>8 DEF MirrorInvariant, AtRest
  <2>6. CoveredUpTo(Len(chain) - 1)'
    BY <1>2, <2>2 DEF CoveredUpTo, Cached
  <2> QED
    BY <1>2, <1>3, <2>1, <2>3, <2>4, <2>5, <2>6 DEF AtRest
<1>11. WhileComparing'
  <2>1. ASSUME check.at = "insert"
        PROVE  /\ \A r \in check.rows : ~ Differs(r)'
               /\ (check.rows = {} /\ Behind') \/ Fills(check.rows)'
    <3>1. /\ (check.rows = {} /\ Behind) \/ Fills(check.rows)
          /\ \A r \in check.rows : ~ Differs(r)
      BY <2>1 DEF MirrorInvariant, WhileComparing
    <3>2. \A r \in check.rows : ~ Differs(r)'
      BY <1>4, <1>7, <2>1, <3>1
    <3>3. Fills(check.rows) => Fills(check.rows)'
      <4>1. Deep(lastCached + 1) => Deep(lastCached + 1)'
        <5>1. lastCached + 1 \in Int /\ lastCached' = lastCached
          BY <1>2, <1>4
        <5> QED
          BY <1>4, <1>6, <5>1 DEF Deep, Within
      <4>2. CoveredUpTo(lastCached)' <=> CoveredUpTo(lastCached)
        BY <1>2 DEF CoveredUpTo, Cached
      <4> QED
        BY <1>2, <4>1, <4>2 DEF Fills
    <3> QED
      BY <1>2, <1>3, <3>1, <3>2, <3>3
  <2>2. check.at \in {"insert", "prune", "advance"} => AgreesUpTo(check.max)'
    BY <1>2, <1>9 DEF MirrorInvariant, WhileComparing, AgreesUpTo
  <2> QED
    BY <1>2, <1>3, <2>1, <2>2 DEF MirrorInvariant, WhileComparing, Comparing
<1>12. WhileRecovering'
  <2> SUFFICES ASSUME Recovering PROVE WhileRecovering'
    BY <1>2 DEF WhileRecovering, Recovering
  <2>1. AgreesUpTo(check.block - 1)'
    BY <1>2, <1>9 DEF MirrorInvariant, WhileRecovering, AgreesUpTo
  <2>2. ASSUME NEW x \in cache, NEW b \in (x.number + 1) .. Len(chain)', b < check.block
        PROVE  Cached(b)'
    <3>1. b \in (x.number + 1) .. Len(chain)
      BY <1>3, <1>4, <2>2
    <3> QED
      BY <1>8, <2>2, <3>1 DEF MirrorInvariant, WhileRecovering
  <2>3. cache = {} => Deep(check.block)'
    <3>1. cache = {} => Deep(check.block)
      BY DEF MirrorInvariant, WhileRecovering
    <3>2. check.block \in Int /\ (check.block)' = check.block
      BY <1>2, <1>4
    <3> QED
      BY <1>4, <1>6, <3>1, <3>2 DEF Deep, Within
  <2> QED
    BY <1>2, <2>1, <2>2, <2>3 DEF WhileRecovering
<1> QED
  BY <1>10, <1>11, <1>12, PonderKeepsRows DEF MirrorInvariant

(* Polls, and the ends of cycles, leave cache and chain alone; a restart   *)
(* only forgets how far the check had come.                                *)
LEMMA MirrorOutsideChecks ==
    ASSUME MirrorInvariant,
           \/ \E m \in Materializers : PollOf(m) \/ PollError(m)
           \/ NextCycle \/ Restart \/ UNCHANGED vars
    PROVE  MirrorInvariant'
<1>1. StaleInvariant'
  BY PollKeepsRows, CycleKeepsRows DEF MirrorInvariant
<1>2. UNCHANGED <<chain, forks, lastCached, cache>> /\ (check' = check \/ check' = NotStarted)
  BY DEF PollOf, PollStep, FetchBatch, PollNothing, UpsertRow, SaveCursor, Reconcile, RestoreRow,
         PollError, PollFails, NextCycle, EndCycle, Restart, RestartPolls, ponderVars, copyVars,
         detectorDb, vars, baseVars, detectorVars
<1>3. /\ \A h : /\ AgreesUpTo(h)' <=> AgreesUpTo(h)
                /\ CoveredUpTo(h)' <=> CoveredUpTo(h)
                /\ Deep(h)' <=> Deep(h)
                /\ Cached(h)' <=> Cached(h)
      /\ \A x : Differs(x)' <=> Differs(x)
      /\ WithoutHole' <=> WithoutHole
      /\ Behind' <=> Behind
  BY <1>2 DEF AgreesUpTo, CoveredUpTo, Deep, Cached, Differs, WithoutHole, Behind, Within, Slack
<1>4. AtRest'
  BY <1>2, <1>3 DEF MirrorInvariant, AtRest, AgreesUpTo, CoveredUpTo, Deep, Within, Slack
<1>5. CASE check' = check
  <2>1. check.at = "insert" => (Fills(check.rows)' <=> Fills(check.rows))
    BY <1>2, <1>3, <1>5 DEF Fills, CoveredUpTo, Cached, Deep, Within, Slack
  <2>2. WhileComparing'
    BY <1>2, <1>3, <1>5, <2>1
    DEF MirrorInvariant, WhileComparing, Comparing, AgreesUpTo, CoveredUpTo, Cached
  <2>3. WhileRecovering'
    BY <1>2, <1>3, <1>5
    DEF MirrorInvariant, WhileRecovering, Recovering, AgreesUpTo, Deep, Within, Slack
  <2> QED
    BY <1>1, <1>4, <2>2, <2>3 DEF MirrorInvariant
<1>6. CASE check' = NotStarted
  BY <1>1, <1>4, <1>6
  DEF MirrorInvariant, WhileComparing, WhileRecovering, Comparing, Recovering, NotStarted
<1> QED
  BY <1>2, <1>5, <1>6

(* The reset of the materializers touches neither the cache nor the        *)
(* checkpoint.                                                             *)
LEMMA MirrorWhileResetting ==
    ASSUME MirrorInvariant, StaleInvariant',
           (\E m \in Materializers : ResetRows(m)) \/ ResetMaterializer \/ AllReset
    PROVE  MirrorInvariant'
<1>1. /\ UNCHANGED <<chain, forks, lastCached, cache>>
      /\ Recovering /\ Recovering' /\ ~ Comparing' /\ check'.block = check.block
  BY DEF ResetRows, ResetMaterializer, AllReset, ResetCursor, Reset, Invalidate, Recovering, Comparing,
         ponderVars, detectorDb
<1>2. /\ Behind' <=> Behind
      /\ \A x : Differs(x)' <=> Differs(x)
  BY <1>1 DEF Behind, Differs
<1>3. AtRest'
  BY <1>1, <1>2 DEF MirrorInvariant, AtRest, AgreesUpTo, CoveredUpTo, WithoutHole, Cached, Deep, Within,
                    Slack
<1>4. WhileRecovering'
  BY <1>1, <1>2 DEF MirrorInvariant, WhileRecovering, AgreesUpTo, Cached, Deep, Within, Slack
<1>5. WhileComparing'
  BY <1>1 DEF WhileComparing, Comparing
<1> QED
  BY <1>3, <1>4, <1>5 DEF MirrorInvariant

(* A check begins: it has nothing to do, resets below the height it has    *)
(* read, or compares up to it.                                             *)
LEMMA MirrorWhenMaxIsRead ==
    ASSUME SeenInTime, MirrorInvariant, StaleInvariant', ReadPonderMax
    PROVE  MirrorInvariant'
<1>1. WorldOK /\ Bounds /\ DetectorInvariant /\ AtRest /\ PonderMax = Len(chain)
  BY DenseLog DEF MirrorInvariant, StaleInvariant
<1>2. /\ UNCHANGED <<chain, forks, lastCached, cache>>
      /\ \/ check' = Over
         \/ Len(chain) < lastCached /\ check' = Reset(Len(chain), FALSE, Materializers)
         \/ lastCached < Len(chain) /\ Len(chain) # 0 /\ check' = Compare(Len(chain))
  <2>1. check' = Compare(Len(chain)) => Len(chain) # 0
    BY <1>1 DEF ReadPonderMax, Compare, Over
  <2> QED
    BY <1>1, <2>1, WhatMaxMeans DEF ReadPonderMax, ponderVars, detectorDb
<1>3. /\ Len(chain) \in Nat /\ lastCached \in Int
      /\ \A x \in cache : x.number \in Nat \ {0}
  BY MirrorNumbers
<1>4. /\ Behind' <=> Behind
      /\ \A x : Differs(x)' <=> Differs(x)
  BY <1>2 DEF Behind, Differs
<1>5. AtRest'
  BY <1>1, <1>2, <1>4 DEF AtRest, AgreesUpTo, CoveredUpTo, WithoutHole, Cached, Deep, Within, Slack
<1>6. CASE check' = Over
  BY <1>5, <1>6 DEF MirrorInvariant, WhileComparing, WhileRecovering, Comparing, Recovering, Over
<1>7. CASE Len(chain) < lastCached /\ check' = Reset(Len(chain), FALSE, Materializers)
  <2>1. check'.at = "reset" /\ check'.block = Len(chain) /\ Behind
    BY <1>7 DEF Reset, Behind
  <2>2. AgreesUpTo(check.block - 1)'
    <3>1. \A x \in cache : x.number <= lastCached => ~ Differs(x)'
      BY <1>1, <1>4 DEF AtRest, AgreesUpTo
    <3>2. \A x \in cache : x.number <= Len(chain) - 1 => x.number <= lastCached
      BY <1>3, <1>7
    <3> QED
      BY <1>2, <2>1, <3>1, <3>2 DEF AgreesUpTo
  <2>3. ASSUME NEW x \in cache, NEW b \in (x.number + 1) .. Len(chain), b < Len(chain)
        PROVE  Cached(b)'
    BY <1>1, <1>2, <1>3, <2>1, <2>3 DEF AtRest, CoveredUpTo, Cached
  <2>4. cache = {} => Deep(check.block)'
    BY <1>1, <1>2, <2>1 DEF AtRest, Deep, Within, Slack
  <2>5. WhileRecovering'
    BY <1>2, <2>1, <2>2, <2>3, <2>4 DEF WhileRecovering
  <2>6. WhileComparing'
    BY <2>1 DEF WhileComparing, Comparing
  <2> QED
    BY <1>5, <2>5, <2>6 DEF MirrorInvariant
<1>8. CASE lastCached < Len(chain) /\ Len(chain) # 0 /\ check' = Compare(Len(chain))
  <2>1. check'.at = "compare" /\ check'.max = Len(chain)
    BY <1>8 DEF Compare
  <2>2. ASSUME cache # {} PROVE \E x \in cache : x.number <= Len(chain)
    <3>1. PICK x \in cache : Deep(x.number)
      BY <1>1, <2>2 DEF AtRest
    <3>2. x.number <= Len(chain)
      BY <1>1, <1>3, <1>8, <3>1, DeepFacts
    <3> QED
      BY <3>2
  <2>3. WhileComparing' /\ WhileRecovering'
    BY <1>2, <1>3, <1>8, <2>1, <2>2 DEF WhileComparing, WhileRecovering, Comparing, Recovering
  <2> QED
    BY <1>5, <2>3 DEF MirrorInvariant
<1> QED
  BY <1>2, <1>6, <1>7, <1>8

(* The comparison: the rows above the checkpoint agree with the cache, or  *)
(* the earliest difference is the block to reset to, below which they do.  *)
LEMMA MirrorWhenCompared ==
    ASSUME SeenInTime, MirrorInvariant, StaleInvariant', CompareHashes
    PROVE  MirrorInvariant'
<1> DEFINE rows == {x \in HashLog : lastCached < x.number /\ x.number <= check.max}
           differ == Mismatches(rows)
<1>1. /\ WorldOK /\ Bounds /\ AtRest /\ WhileComparing
      /\ check.at = "compare" /\ Comparing /\ lastCached < check.max
      /\ Behind \/ check.max <= Len(chain)
  BY DEF MirrorInvariant, StaleInvariant, CompareHashes, Comparing, Bounds
<1>2. UNCHANGED <<chain, forks, lastCached, cache>>
  BY DEF CompareHashes, ponderVars, detectorDb
<1>3. /\ Len(chain) \in Nat /\ lastCached \in Int /\ check.max \in Nat
      /\ \A x \in cache : x.number \in Nat \ {0}
      /\ MaxBlock \in Nat /\ Len(chain) <= MaxBlock
  BY <1>1, MirrorNumbers, PonderLogAssumption DEF WorldOK
<1>4. /\ \A x \in HashLog : x.number \in 1 .. Len(chain) /\ x.hash = chain[x.number].hash
      /\ \A b \in 1 .. Len(chain) : [number |-> b, hash |-> chain[b].hash] \in HashLog
  BY <1>1, DenseLog
<1>5. /\ Behind' <=> Behind
      /\ \A x : Differs(x)' <=> Differs(x)
  BY <1>2 DEF Behind, Differs
<1>6. AtRest'
  BY <1>1, <1>2, <1>5 DEF AtRest, AgreesUpTo, CoveredUpTo, WithoutHole, Cached, Deep, Within, Slack
<1>7. \A x \in cache : x.number <= check.max /\ Differs(x) => lastCached < x.number /\ x.number \in differ
  <2> SUFFICES ASSUME NEW x \in cache, x.number <= check.max, Differs(x)
               PROVE  lastCached < x.number /\ x.number \in differ
    OBVIOUS
  <2>1. lastCached < x.number
    BY <1>1, <1>3 DEF AtRest, AgreesUpTo
  <2>2. x.number \in 1 .. Len(chain) /\ chain[x.number].hash # x.hash
    BY <1>3 DEF Differs
  <2>3. [number |-> x.number, hash |-> chain[x.number].hash] \in rows
    BY <1>4, <2>1, <2>2
  <2>4. x.number \in 1 .. MaxBlock
    BY <1>3, <2>2
  <2> HIDE DEF rows
  <2> QED
    BY <2>1, <2>2, <2>3, <2>4 DEF Mismatches
<1>8. CASE differ = {}
  <2>1. check' = Insert(check.max, rows)
    BY <1>8 DEF CompareHashes
  <2>2. check'.at = "insert" /\ check'.max = check.max /\ check'.rows = rows
    BY <2>1 DEF Insert
  <2>3. rows \subseteq HashRow
    <3> SUFFICES ASSUME NEW b \in 1 .. indexed
                 PROVE  [number |-> b, hash |-> chain[b].hash] \in HashRow
      BY DEF HashLog
    <3>1. b \in 1 .. Len(chain) /\ chain[b] \in Block
      BY <1>1 DEF WorldOK
    <3> QED
      BY <3>1 DEF HashRow, Block
  <2>4. \A r \in rows : ~ Differs(r)
    BY <1>4 DEF Differs
  <2>5. AgreesUpTo(check.max)
    BY <1>7, <1>8 DEF AgreesUpTo
  <2>6. CASE Behind
    <3>1. rows = {}
      BY <1>3, <1>4, <2>6 DEF Behind
    <3> HIDE DEF rows
    <3>2. WhileComparing'
      BY <1>1, <1>2, <1>5, <2>2, <2>5, <2>6, <3>1 DEF WhileComparing, Comparing, AgreesUpTo
    <3>3. WhileRecovering'
      BY <2>2 DEF WhileRecovering, Recovering
    <3> QED
      BY <1>6, <3>2, <3>3 DEF MirrorInvariant
  <2>7. CASE ~ Behind
    <3>1. \A r \in rows : lastCached < r.number /\ r.number <= check.max
      OBVIOUS
    <3>2. \A b \in 1 .. check.max : lastCached < b => \E r \in rows : r.number = b
      <4> SUFFICES ASSUME NEW b \in 1 .. check.max, lastCached < b PROVE \E r \in rows : r.number = b
        OBVIOUS
      <4>1. [number |-> b, hash |-> chain[b].hash] \in rows
        BY <1>1, <1>3, <1>4, <2>7
      <4> HIDE DEF rows
      <4> QED
        BY <4>1
    <3> HIDE DEF rows
    <3>3. Fills(rows)
      BY <1>1, <2>7, <3>1, <3>2 DEF Fills, AtRest, WhileComparing
    <3>4. Fills(check.rows)'
      BY <1>2, <1>5, <2>2, <3>3 DEF Fills, CoveredUpTo, Cached, Deep, Within, Slack
    <3>5. WhileComparing'
      BY <1>1, <1>2, <1>5, <2>2, <2>3, <2>4, <2>5, <3>4 DEF WhileComparing, Comparing, AgreesUpTo
    <3>6. WhileRecovering'
      BY <2>2 DEF WhileRecovering, Recovering
    <3> QED
      BY <1>6, <3>5, <3>6 DEF MirrorInvariant
  <2> QED
    BY <2>6, <2>7
<1>9. CASE differ # {}
  <2> DEFINE first == CHOOSE b \in differ : \A d \in differ : b <= d
  <2>1. \A b \in differ : b \in Nat /\ b <= check.max /\ Cached(b)
    BY <1>3 DEF Mismatches, Cached
  <2>2. first \in differ /\ \A d \in differ : first <= d
    <3>1. differ \subseteq Nat
      BY <2>1, Zenon
    <3>2. \E b \in differ : \A d \in differ : b <= d
      BY <1>9, <3>1, LeastNumber
    <3> QED
      BY <3>2
  <2>3. check' = Reset(first, FALSE, Materializers)
    BY <1>9 DEF CompareHashes, StartReset
  <2> HIDE DEF first, differ, rows
  <2>4. PICK b \in Nat : /\ b <= check.max /\ Cached(b) /\ check' = Reset(b, FALSE, Materializers)
                         /\ \A d \in differ : b <= d
    BY <2>1, <2>2, <2>3
  <2>5. check'.at = "reset" /\ check'.block = b
    BY <2>4 DEF Reset
  <2>6. \A x \in cache : x.number <= b - 1 => ~ Differs(x)
    BY <1>3, <1>7, <2>4
  <2>7. ASSUME NEW x \in cache, NEW c \in (x.number + 1) .. Len(chain), c < b
        PROVE  Cached(c)
    <3>1. PICK z \in cache : z.number = b
      BY <2>4 DEF Cached
    <3>2. c \in x.number .. z.number
      BY <1>3, <2>7, <3>1
    <3> QED
      BY <1>1, <3>2 DEF AtRest, WithoutHole
  <2>8. cache # {}
    BY <2>4 DEF Cached
  <2>9. WhileRecovering'
    BY <1>2, <1>5, <2>5, <2>6, <2>7, <2>8 DEF WhileRecovering, AgreesUpTo, Cached
  <2>10. WhileComparing'
    BY <2>5 DEF WhileComparing, Comparing
  <2> QED
    BY <1>6, <2>9, <2>10 DEF MirrorInvariant
<1> QED
  BY <1>8, <1>9

(* The insert closes the gap between the checkpoint and the maximum read.  *)
LEMMA MirrorWhenInserted ==
    ASSUME SeenInTime, MirrorInvariant, StaleInvariant', InsertNewHashes
    PROVE  MirrorInvariant'
<1> DEFINE new == {x \in check.rows : \A y \in cache : x.number # y.number}
<1>1. /\ WorldOK /\ Bounds /\ AtRest /\ WhileComparing
      /\ check.at = "insert" /\ Comparing /\ lastCached < check.max /\ check.max > 0
      /\ Behind \/ check.max <= Len(chain)
      /\ check.rows \subseteq HashRow /\ (\A r \in check.rows : ~ Differs(r))
      /\ AgreesUpTo(check.max)
  BY DEF MirrorInvariant, StaleInvariant, InsertNewHashes, Comparing, Bounds, WhileComparing
<1>2. /\ UNCHANGED <<chain, forks, lastCached>> /\ cache' = cache \cup new
      /\ check'.at = "prune" /\ check'.max = check.max
  BY DEF InsertNewHashes, Prune, ponderVars
<1>3. /\ Len(chain) \in Nat /\ lastCached \in Int /\ check.max \in Nat
      /\ \A x \in cache : x.number \in Nat \ {0}
      /\ \A r \in check.rows : r.number \in Nat \ {0}
  BY <1>1, MirrorNumbers
<1>4. /\ Behind' <=> Behind
      /\ \A x : Differs(x)' <=> Differs(x)
      /\ \A h : Deep(h)' <=> Deep(h)
  BY <1>2 DEF Behind, Differs, Deep, Within, Slack
<1>5. ~ Recovering'
  BY <1>2 DEF Recovering
<1>6. \A r \in check.rows : Cached(r.number)'
  BY <1>2 DEF Cached
<1>7. \A b : Cached(b) => Cached(b)'
  BY <1>2 DEF Cached
<1>8. cache' \subseteq HashRow /\ new \subseteq check.rows
  BY <1>1, <1>2 DEF AtRest
<1> HIDE DEF new
<1>9. AgreesUpTo(check.max)' /\ AgreesUpTo(lastCached)'
  BY <1>1, <1>2, <1>3, <1>4, <1>8 DEF AgreesUpTo
<1>10. CASE check.rows = {} /\ Behind
  <2>1. cache' = cache
    BY <1>2, <1>8, <1>10
  <2>2. AtRest'
    BY <1>1, <1>2, <1>4, <2>1
    DEF AtRest, AgreesUpTo, CoveredUpTo, WithoutHole, Cached, Deep, Within, Slack
  <2>3. WhileComparing'
    BY <1>1, <1>2, <1>4, <1>9, <1>10 DEF WhileComparing, Comparing, AgreesUpTo
  <2> QED
    BY <1>5, <2>2, <2>3 DEF MirrorInvariant, WhileRecovering
<1>11. CASE Fills(check.rows)
  <2>1. /\ \A r \in new : lastCached < r.number /\ r.number <= check.max /\ r.number \in Nat \ {0}
        /\ \A b \in 1 .. check.max : lastCached < b => Cached(b)'
    <3>1. \A r \in new : lastCached < r.number /\ r.number <= check.max /\ r.number \in Nat \ {0}
      BY <1>3, <1>8, <1>11 DEF Fills
    <3>2. \A b \in 1 .. check.max : lastCached < b => \E r \in check.rows : r.number = b
      BY <1>11 DEF Fills
    <3> QED
      BY <1>6, <3>1, <3>2
  <2>2. Cached(check.max)' /\ cache' # {}
    <3>1. check.max \in 1 .. check.max /\ (check.max)' = check.max
      BY <1>1, <1>2, <1>3
    <3> QED
      BY <1>1, <2>1, <3>1 DEF Cached
  <2>3. \A x \in cache : \A b \in (x.number + 1) .. lastCached : Cached(b)'
    BY <1>7, <1>11 DEF Fills, CoveredUpTo
  <2>4. \A x \in cache' : \A b \in (x.number + 1) .. check.max : Cached(b)'
    <3> SUFFICES ASSUME NEW x \in cache', NEW b \in (x.number + 1) .. check.max PROVE Cached(b)'
      OBVIOUS
    <3>1. x.number \in Nat /\ b \in 1 .. check.max /\ x.number < b
      BY <1>2, <1>3, <2>1
    <3>2. CASE lastCached < b
      BY <2>1, <3>1, <3>2
    <3>3. CASE ~ (lastCached < b)
      <4>1. x \in cache
        BY <1>2, <1>3, <2>1, <3>1, <3>3
      <4>2. b \in (x.number + 1) .. lastCached
        BY <1>3, <3>1, <3>3
      <4> QED
        BY <2>3, <4>1, <4>2
    <3> QED
      BY <3>2, <3>3
  <2>5. CoveredUpTo(check.max)'
    BY <1>2, <2>4 DEF CoveredUpTo
  <2>6. ASSUME NEW x \in cache', NEW z \in cache', NEW b \in x.number .. z.number
        PROVE  Cached(b)'
    <3>1. x.number \in Nat \ {0} /\ z.number \in Nat \ {0} /\ b \in Nat \ {0}
      BY <1>2, <1>3, <2>1
    <3>2. CASE b = x.number
      BY <3>2 DEF Cached
    <3>3. CASE b # x.number /\ b <= check.max
      <4>1. b \in (x.number + 1) .. check.max
        BY <1>3, <3>1, <3>3
      <4> QED
        BY <2>4, <4>1
    <3>4. CASE check.max < b
      <4>1. z \in cache
        BY <1>2, <1>3, <2>1, <3>1, <3>4
      <4>2. PICK y \in cache : y.number <= check.max
        BY <1>11, <4>1 DEF Fills
      <4>3. b \in y.number .. z.number
        BY <1>3, <3>1, <3>4, <4>2
      <4> QED
        BY <1>1, <1>7, <4>1, <4>2, <4>3 DEF AtRest, WithoutHole
    <3> QED
      BY <1>3, <3>1, <3>2, <3>3, <3>4
  <2>7. WithoutHole'
    BY <2>6 DEF WithoutHole
  <2>8. \E x \in cache' : Deep(x.number)'
    <3>1. CASE cache # {}
      BY <1>1, <1>2, <1>4, <3>1 DEF AtRest
    <3>2. CASE cache = {}
      <4> DEFINE low == IF lastCached < 0 THEN 1 ELSE lastCached + 1
      <4>1. low \in 1 .. check.max /\ lastCached < low
        BY <1>1, <1>3
      <4>2. Deep(low)
        BY <1>3, <1>11, <3>2 DEF Fills, Deep
      <4> HIDE DEF low
      <4>3. PICK r \in check.rows : r.number = low
        BY <1>11, <4>1 DEF Fills
      <4>4. PICK x \in cache' : x.number = low
        BY <1>6, <4>3 DEF Cached
      <4> QED
        BY <1>4, <4>2, <4>4
    <3> QED
      BY <3>1, <3>2
  <2>9. CoveredUpTo(IF Behind THEN Len(chain) - 1 ELSE lastCached)'
    <3>1. \A x \in cache' : \A b \in (x.number + 1) .. lastCached : Cached(b)'
      BY <1>1, <1>2, <1>3, <2>1, <2>4
    <3>2. Behind => Len(chain) - 1 <= lastCached
      BY <1>3 DEF Behind
    <3>3. \A x \in cache' : x.number \in Nat
      BY <1>2, <1>3, <2>1
    <3> QED
      BY <1>2, <1>3, <1>4, <3>1, <3>2, <3>3 DEF CoveredUpTo
  <2>10. AtRest'
    BY <1>8, <1>9, <2>2, <2>7, <2>8, <2>9 DEF AtRest
  <2>11. WhileComparing'
    BY <1>1, <1>2, <1>9, <2>2, <2>5 DEF WhileComparing, Comparing
  <2> QED
    BY <1>5, <2>10, <2>11 DEF MirrorInvariant, WhileRecovering
<1> QED
  BY <1>1, <1>10, <1>11 DEF WhileComparing

(* The prune takes rows from the bottom only, and none that a              *)
(* reorganisation still to come could reach.                               *)
LEMMA MirrorWhenPruned ==
    ASSUME SeenInTime, MirrorInvariant, StaleInvariant', PruneCache
    PROVE  MirrorInvariant'
<1> DEFINE below == check.max - CacheDepth
<1>1. /\ WorldOK /\ Bounds /\ AtRest
      /\ check.at = "prune" /\ Comparing /\ Within(check.max) /\ check.max > 0
      /\ AgreesUpTo(check.max)
      /\ ~ Behind => CoveredUpTo(check.max) /\ Cached(check.max)
  BY DEF MirrorInvariant, StaleInvariant, PruneCache, Comparing, Bounds, WhileComparing
<1>2. /\ Len(chain) \in Nat /\ lastCached \in Int /\ check.max \in Nat /\ CacheDepth \in Nat
      /\ below \in Int
      /\ \A x \in cache : x.number \in Nat \ {0}
  BY <1>1, MirrorNumbers, DetectorAssumption
<1>3. /\ UNCHANGED <<chain, forks, lastCached>>
      /\ cache' = {x \in cache : x.number >= below}
      /\ check'.at = "advance" /\ check'.max = check.max
  BY <1>2 DEF PruneCache, Advance, ponderVars
<1>4. /\ Behind' <=> Behind
      /\ \A x : Differs(x)' <=> Differs(x)
      /\ \A h : Deep(h)' <=> Deep(h)
  BY <1>3 DEF Behind, Differs, Deep, Within, Slack
<1>5. Deep(below)
  BY <1>1, <1>2 DEF Deep
<1> HIDE DEF below
<1>6. /\ cache' \subseteq cache
      /\ \A x \in cache' : x.number >= below
      /\ \A b \in Int : b >= below /\ Cached(b) => Cached(b)'
  BY <1>3 DEF Cached
<1>7. \A h \in Int : AgreesUpTo(h) => \A x \in cache' : x.number <= h => ~ Differs(x)'
  BY <1>4, <1>6 DEF AgreesUpTo
<1>8. \A h \in Int : CoveredUpTo(h) =>
        \A x \in cache' : \A b \in (x.number + 1) .. h : Cached(b)'
  BY <1>2, <1>6 DEF CoveredUpTo
<1>9. WithoutHole'
  BY <1>1, <1>2, <1>6 DEF AtRest, WithoutHole
<1>10. ASSUME cache' # {} PROVE \E x \in cache' : Deep(x.number)'
  <2>1. PICK z \in cache' : TRUE
    BY <1>10
  <2>2. PICK x \in cache : Deep(x.number)
    BY <1>1, <1>6, <2>1 DEF AtRest
  <2>3. CASE x.number >= below
    BY <1>3, <1>4, <2>2, <2>3
  <2>4. CASE x.number < below
    <3>1. below \in x.number .. z.number
      BY <1>2, <1>6, <2>1, <2>4
    <3>2. PICK p \in Int : p = below
      BY <1>2
    <3>3. Cached(p)'
      BY <1>1, <1>2, <1>6, <2>1, <3>1, <3>2 DEF AtRest, WithoutHole
    <3>4. PICK y \in cache' : y.number = p
      BY <3>3 DEF Cached
    <3>5. Deep(y.number)'
      BY <1>4, <1>5, <3>2, <3>4
    <3> QED
      BY <3>5
  <2> QED
    BY <1>2, <2>3, <2>4
<1>11. ASSUME ~ Behind PROVE Cached(check.max)' /\ cache' # {}
  <2>1. check.max >= below /\ (check.max)' = check.max
    BY <1>2, <1>3 DEF below
  <2> QED
    BY <1>1, <1>2, <1>6, <1>11, <2>1 DEF Cached
<1>12. ASSUME cache' = {}, Behind PROVE Deep(Len(chain))
  <2>1. CASE cache = {}
    BY <1>1, <1>12, <2>1 DEF AtRest
  <2>2. CASE cache # {}
    <3>1. PICK x \in cache : TRUE
      BY <2>2
    <3>2. \A y \in cache : y.number < below
      BY <1>2, <1>3, <1>12
    <3>3. Len(chain) - 1 < below
      <4>1. CASE x.number >= Len(chain) - 1
        BY <1>2, <3>1, <3>2, <4>1
      <4>2. CASE x.number < Len(chain) - 1
        <5>1. Len(chain) - 1 \in (x.number + 1) .. (Len(chain) - 1)
          BY <1>2, <3>1, <4>2
        <5>2. Cached(Len(chain) - 1)
          BY <1>1, <1>12, <3>1, <5>1 DEF AtRest, CoveredUpTo
        <5> QED
          BY <3>2, <5>2 DEF Cached
      <4> QED
        BY <1>2, <3>1, <4>1, <4>2
    <3>4. Len(chain) <= below
      BY <1>2, <3>3
    <3> QED
      BY <1>1, <1>2, <1>5, <3>4, DeepFacts
  <2> QED
    BY <2>1, <2>2
<1>13. AtRest'
  <2>1. CoveredUpTo(IF Behind THEN Len(chain) - 1 ELSE lastCached)'
    <3>1. CASE Behind
      <4>1. \A x \in cache' : \A b \in (x.number + 1) .. (Len(chain) - 1) : Cached(b)'
        BY <1>1, <1>2, <1>8, <3>1 DEF AtRest
      <4> QED
        BY <1>3, <1>4, <3>1, <4>1 DEF CoveredUpTo
    <3>2. CASE ~ Behind
      BY <1>1, <1>2, <1>3, <1>4, <1>8, <3>2 DEF AtRest, CoveredUpTo
    <3> QED
      BY <3>1, <3>2
  <2>2. AgreesUpTo(lastCached)'
    BY <1>1, <1>2, <1>3, <1>7 DEF AtRest, AgreesUpTo
  <2>3. cache' = {} => Deep(IF Behind THEN Len(chain) ELSE lastCached + 1)'
    BY <1>3, <1>4, <1>11, <1>12 DEF Deep, Within, Slack
  <2>4. cache' \subseteq HashRow
    BY <1>1, <1>6 DEF AtRest
  <2> QED
    BY <1>9, <1>10, <2>1, <2>2, <2>3, <2>4 DEF AtRest
<1>14. WhileComparing'
  <2>1. AgreesUpTo(check.max)'
    BY <1>1, <1>2, <1>3, <1>7 DEF AgreesUpTo
  <2>2. ~ Behind => CoveredUpTo(check.max)'
    <3>1. ~ Behind => \A x \in cache' : \A b \in (x.number + 1) .. check.max : Cached(b)'
      BY <1>1, <1>2, <1>8
    <3>2. (check.max)' = check.max
      BY <1>3
    <3> QED
      BY <3>1, <3>2 DEF CoveredUpTo
  <2> QED
    BY <1>1, <1>3, <1>4, <1>11, <2>1, <2>2 DEF WhileComparing, Comparing
<1> QED
  BY <1>3, <1>13, <1>14 DEF MirrorInvariant, WhileRecovering, Recovering

(* The checkpoint climbs over what has been compared and filled.           *)
LEMMA MirrorWhenAdvanced ==
    ASSUME SeenInTime, MirrorInvariant, StaleInvariant', AdvanceCheckpoint
    PROVE  MirrorInvariant'
<1>1. /\ WorldOK /\ Bounds /\ AtRest
      /\ check.at = "advance" /\ Comparing /\ lastCached < check.max
      /\ Behind \/ check.max <= Len(chain)
      /\ AgreesUpTo(check.max)
      /\ ~ Behind => CoveredUpTo(check.max) /\ Cached(check.max)
  BY DEF MirrorInvariant, StaleInvariant, AdvanceCheckpoint, Comparing, Bounds, WhileComparing
<1>2. /\ UNCHANGED <<chain, forks, cache>>
      /\ lastCached' = check.max /\ check'.at = "over"
  BY DEF AdvanceCheckpoint, Over, ponderVars, copyVars
<1>3. Len(chain) \in Nat /\ lastCached \in Int /\ check.max \in Nat
  BY <1>1, MirrorNumbers
<1>4. /\ Behind' <=> Behind
      /\ \A x : Differs(x)' <=> Differs(x)
      /\ \A h : Deep(h)' <=> Deep(h)
      /\ \A b : Cached(b)' <=> Cached(b)
      /\ WithoutHole' <=> WithoutHole
  BY <1>1, <1>2, <1>3 DEF Behind, Differs, Deep, Within, Slack, Cached, WithoutHole
<1>5. AgreesUpTo(lastCached)'
  BY <1>1, <1>2, <1>4 DEF AgreesUpTo
<1>6. CoveredUpTo(IF Behind THEN Len(chain) - 1 ELSE lastCached)'
  BY <1>1, <1>2, <1>4 DEF AtRest, CoveredUpTo
<1>7. cache = {} => Deep(IF Behind THEN Len(chain) ELSE lastCached + 1)'
  BY <1>1, <1>2, <1>4 DEF AtRest, Cached, Deep, Within, Slack
<1>8. AtRest'
  BY <1>1, <1>2, <1>4, <1>5, <1>6, <1>7 DEF AtRest
<1> QED
  BY <1>2, <1>8 DEF MirrorInvariant, WhileComparing, WhileRecovering, Comparing, Recovering

(* The invalidation takes the rows from the reorg block up.                *)
LEMMA MirrorWhenInvalidated ==
    ASSUME SeenInTime, MirrorInvariant, StaleInvariant', InvalidateCache
    PROVE  MirrorInvariant'
<1>1. /\ WorldOK /\ Bounds /\ AtRest /\ Recovering
      /\ Behind => Len(chain) <= check.block
      /\ ~ Behind => lastCached < check.block
      /\ AgreesUpTo(check.block - 1)
      /\ \A x \in cache : \A b \in (x.number + 1) .. Len(chain) : b < check.block => Cached(b)
      /\ cache = {} => Deep(check.block)
  BY DEF MirrorInvariant, StaleInvariant, InvalidateCache, Recovering, Bounds, WhileRecovering
<1>2. /\ Len(chain) \in Nat /\ lastCached \in Int /\ check.block \in Nat
      /\ \A x \in cache : x.number \in Nat \ {0}
  BY <1>1, MirrorNumbers
<1>3. /\ UNCHANGED <<chain, forks, lastCached>>
      /\ cache' = {x \in cache : x.number < check.block}
      /\ check'.at = "rewind" /\ check'.block = check.block
  BY DEF InvalidateCache, Rewind, ponderVars, copyVars
<1>4. /\ Behind' <=> Behind
      /\ \A x : Differs(x)' <=> Differs(x)
      /\ \A h : Deep(h)' <=> Deep(h)
  BY <1>3 DEF Behind, Differs, Deep, Within, Slack
<1>5. /\ cache' \subseteq cache
      /\ \A x \in cache' : x.number < check.block
      /\ \A b \in Int : b < check.block /\ Cached(b) => Cached(b)'
  BY <1>3 DEF Cached
<1>6. AgreesUpTo(lastCached)' /\ AgreesUpTo(check.block - 1)'
  BY <1>1, <1>3, <1>4, <1>5 DEF AtRest, AgreesUpTo
<1>7. WithoutHole'
  BY <1>1, <1>2, <1>5 DEF AtRest, WithoutHole
<1>8. CoveredUpTo(IF Behind THEN Len(chain) - 1 ELSE lastCached)'
  <2>1. CASE Behind
    <3>1. \A x \in cache' : \A b \in (x.number + 1) .. (Len(chain) - 1) : Cached(b)'
      BY <1>1, <1>2, <1>5, <2>1 DEF AtRest, CoveredUpTo
    <3> QED
      BY <1>3, <1>4, <2>1, <3>1 DEF CoveredUpTo
  <2>2. CASE ~ Behind
    <3>1. \A x \in cache' : \A b \in (x.number + 1) .. lastCached : Cached(b)'
      BY <1>1, <1>2, <1>5, <2>2 DEF AtRest, CoveredUpTo
    <3> QED
      BY <1>3, <1>4, <2>2, <3>1 DEF CoveredUpTo
  <2> QED
    BY <2>1, <2>2
<1>9. ASSUME cache' # {} PROVE \E x \in cache' : Deep(x.number)'
  <2>1. PICK z \in cache' : z \in cache /\ z.number < check.block
    BY <1>5, <1>9
  <2>2. PICK x \in cache : Deep(x.number)
    BY <1>1, <2>1 DEF AtRest
  <2>3. CASE x.number < check.block
    BY <1>3, <1>4, <2>2, <2>3
  <2>4. CASE x.number >= check.block
    <3>1. Deep(z.number)
      BY <1>1, <1>2, <2>1, <2>2, <2>4, DeepFacts
    <3> QED
      BY <1>4, <2>1, <3>1
  <2> QED
    BY <1>2, <2>3, <2>4
<1>10. ASSUME cache' = {} PROVE Deep(check.block)
  <2>1. CASE cache # {}
    <3>1. PICK x \in cache : Deep(x.number)
      BY <1>1, <2>1 DEF AtRest
    <3>2. x.number >= check.block
      BY <1>2, <1>3, <1>10, <3>1
    <3> QED
      BY <1>1, <1>2, <3>1, <3>2, DeepFacts
  <2> QED
    BY <1>1, <2>1
<1>11. cache' = {} => Deep(IF Behind THEN Len(chain) ELSE lastCached + 1)'
  <2>1. cache' = {} => Deep(IF Behind THEN Len(chain) ELSE lastCached + 1)
    <3>1. CASE Behind
      BY <1>1, <1>2, <1>10, <3>1, DeepFacts
    <3>2. CASE ~ Behind
      <4>1. lastCached + 1 <= check.block /\ lastCached + 1 \in Int
        BY <1>1, <1>2, <3>2
      <4> QED
        BY <1>1, <1>2, <1>10, <3>2, <4>1, DeepFacts
    <3> QED
      BY <3>1, <3>2
  <2> QED
    BY <1>3, <1>4, <2>1 DEF Deep, Within, Slack
<1>12. AtRest'
  BY <1>1, <1>5, <1>6, <1>7, <1>8, <1>9, <1>11 DEF AtRest
<1>13. WhileRecovering'
  <2>1. \A x \in cache' : \A b \in (x.number + 1) .. Len(chain) : b < check.block => Cached(b)'
    BY <1>1, <1>2, <1>5
  <2>2. cache' = {} => Deep(check.block)'
    BY <1>3, <1>10 DEF Deep, Within, Slack
  <2> QED
    BY <1>3, <1>6, <2>1, <2>2 DEF WhileRecovering
<1>14. WhileComparing'
  BY <1>3 DEF WhileComparing, Comparing
<1> QED
  BY <1>12, <1>13, <1>14 DEF MirrorInvariant

(* The checkpoint is put back to below the reorg block: to a block that is *)
(* cached, for the margin is at least the block the invalidation took.     *)
LEMMA MirrorWhenRewound ==
    ASSUME SeenInTime, SafetyMargin > 0, MirrorInvariant, StaleInvariant', RewindCheckpoint
    PROVE  MirrorInvariant'
<1>1. /\ WorldOK /\ Bounds /\ AtRest /\ Recovering
      /\ AgreesUpTo(check.block - 1)
      /\ \A x \in cache : \A b \in (x.number + 1) .. Len(chain) : b < check.block => Cached(b)
      /\ cache = {} => Deep(check.block)
  BY DEF MirrorInvariant, StaleInvariant, RewindCheckpoint, Recovering, WhileRecovering
<1>2. /\ Len(chain) \in Nat /\ lastCached \in Int /\ check.block \in Nat
      /\ \A x \in cache : x.number \in Nat \ {0}
  BY <1>1, MirrorNumbers
<1>3. /\ UNCHANGED <<chain, forks, cache>>
      /\ lastCached' = ResetBlock(check.block) /\ check'.at = "over"
  BY DEF RewindCheckpoint, Over, ponderVars, copyVars
<1>4. lastCached' \in Int /\ lastCached' < check.block
  BY <1>2, <1>3, DetectorAssumption DEF ResetBlock
<1>5. /\ \A x : Differs(x)' <=> Differs(x)
      /\ \A h : Deep(h)' <=> Deep(h)
      /\ \A b : Cached(b)' <=> Cached(b)
      /\ WithoutHole' <=> WithoutHole
      /\ Behind' <=> Len(chain) < lastCached'
  BY <1>3 DEF Differs, Deep, Within, Slack, Cached, WithoutHole, Behind
<1>6. AgreesUpTo(lastCached)'
  BY <1>1, <1>2, <1>3, <1>4, <1>5 DEF AgreesUpTo
<1>7. CoveredUpTo(IF Behind THEN Len(chain) - 1 ELSE lastCached)'
  <2>1. CASE Behind'
    <3>1. \A x \in cache : \A b \in (x.number + 1) .. (Len(chain) - 1) : Cached(b)'
      BY <1>1, <1>2, <1>4, <1>5, <2>1
    <3> QED
      BY <1>3, <2>1, <3>1 DEF CoveredUpTo
  <2>2. CASE ~ Behind'
    BY <1>1, <1>2, <1>3, <1>4, <1>5, <2>2 DEF CoveredUpTo
  <2> QED
    BY <2>1, <2>2
<1>8. cache' = {} => Deep(IF Behind THEN Len(chain) ELSE lastCached + 1)'
  <2>1. ASSUME cache = {} PROVE Deep(IF Len(chain) < lastCached' THEN Len(chain) ELSE lastCached' + 1)
    <3> DEFINE start == IF Len(chain) < lastCached' THEN Len(chain) ELSE lastCached' + 1
    <3>1. start \in Int /\ start <= check.block
      BY <1>2, <1>4
    <3> HIDE DEF start
    <3>2. Deep(start)
      BY <1>1, <1>2, <2>1, <3>1, DeepFacts
    <3> QED
      BY <3>2 DEF start
  <2> QED
    BY <1>3, <1>5, <2>1 DEF Deep, Within, Slack
<1>9. AtRest'
  BY <1>1, <1>3, <1>5, <1>6, <1>7, <1>8 DEF AtRest
<1> QED
  BY <1>3, <1>9 DEF MirrorInvariant, WhileComparing, WhileRecovering, Comparing, Recovering

(* The hashes at or below the checkpoint are those of the chain, and none  *)
(* is missing above the lowest: seen in time, no reorganisation of a       *)
(* checked block can go unnoticed.  Without a margin the block reset to,   *)
(* whose row is deleted, would stay out of the cache.                      *)
THEOREM CacheIsMirror ==
    ASSUME SeenInTime, SafetyMargin > 0
    PROVE  Spec => []CacheMirrorsChain
<1>1. MirrorInvariant => CacheMirrorsChain
  <2> SUFFICES ASSUME MirrorInvariant, ~ RegressionPending
               PROVE  /\ \A x \in cache : x.number <= lastCached => x \in HashLog
                      /\ \A x \in cache, y \in HashLog :
                           x.number < y.number /\ y.number <= lastCached => y \in cache
    BY DEF CacheMirrorsChain
  <2>1. /\ WorldOK /\ AtRest /\ ~ Behind
    BY DenseLog DEF MirrorInvariant, StaleInvariant
  <2>2. /\ \A x \in HashLog : x.number \in 1 .. Len(chain) /\ x.hash = chain[x.number].hash
        /\ \A b \in 1 .. Len(chain) : [number |-> b, hash |-> chain[b].hash] \in HashLog
    BY <2>1, DenseLog
  <2>3. Len(chain) \in Nat /\ lastCached \in Int /\ lastCached <= Len(chain)
    BY <2>1, MirrorNumbers DEF Behind
  <2>4. ASSUME NEW x \in cache, x.number <= lastCached PROVE x \in HashLog
    <3>1. x \in HashRow
      BY <2>1 DEF AtRest
    <3>2. x.number \in 1 .. Len(chain) /\ x = [number |-> x.number, hash |-> x.hash]
      BY <2>3, <2>4, <3>1 DEF HashRow
    <3>3. chain[x.number].hash = x.hash
      BY <2>1, <2>4, <3>2 DEF AtRest, AgreesUpTo, Differs
    <3> QED
      BY <2>2, <3>2, <3>3
  <2>5. ASSUME NEW x \in cache, NEW y \in HashLog, x.number < y.number, y.number <= lastCached
        PROVE  y \in cache
    <3>1. x.number \in Nat /\ y.number \in Nat
      BY <2>2, <2>3, MirrorNumbers
    <3>2. y.number \in (x.number + 1) .. lastCached
      BY <2>3, <2>5, <3>1
    <3>3. PICK z \in cache : z.number = y.number
      BY <2>1, <3>2 DEF AtRest, CoveredUpTo, Cached
    <3>4. z \in HashLog
      BY <2>4, <2>5, <3>3
    <3>5. OneHashPerBlock(HashLog)
      BY <2>1, HashLogRows DEF WorldOK
    <3> QED
      BY <3>3, <3>4, <3>5 DEF OneHashPerBlock
  <2> QED
    BY <2>4, <2>5
<1>2. MirrorInvariant /\ [Next]_vars => MirrorInvariant'
  <2> SUFFICES ASSUME MirrorInvariant, [Next]_vars PROVE MirrorInvariant'
    OBVIOUS
  <2>1. CASE PonderStep
    <3>1. ~ PonderStartsOver
      BY DEF PonderStartsOver, Reindex, ReindexWithContract, StartOver, SeenInTime, WorldOK,
             MirrorInvariant, StaleInvariant
    <3> QED
      BY <2>1, <3>1, MirrorWhenIndexed, MirrorWhenCut DEF PonderStep
  <2>2. CASE CheckStep
    <3>1. StaleInvariant'
      BY <2>2, CheckKeepsRows DEF MirrorInvariant, CheckStep
    <3> QED
      BY <2>2, <3>1, MirrorWhileResetting, MirrorWhenMaxIsRead, MirrorWhenCompared, MirrorWhenInserted,
         MirrorWhenPruned, MirrorWhenAdvanced, MirrorWhenInvalidated, MirrorWhenRewound
      DEF CheckStep, DetectorStep, HandleReorg
  <2> QED
    BY <2>1, <2>2, MirrorOutsideChecks DEF Next, ServiceStep
<1> QED
  BY <1>1, <1>2, MirrorBegins, PTL DEF Spec

=============================================================================
