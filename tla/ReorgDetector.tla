---------------------------- MODULE ReorgDetector ----------------------------
(***************************************************************************)
(* ReorgDetector (services/ReorgDetector.ts).  checkAndReset compares the  *)
(* highest block of Ponder's block_hash_log, then the hashes above its     *)
(* checkpoint, with a cache of hashes of its own, and resets every         *)
(* materializer when they disagree.  Its reads and writes are separate     *)
(* database calls: Ponder goes on between them and the process may die.    *)
(***************************************************************************)
EXTENDS BaseMaterializer

CONSTANTS
    SafetyMargin,   \* SAFETY_MARGIN: blocks reset below the reorg block
    CacheDepth      \* CACHE_DEPTH: blocks of hashes kept

ASSUME DetectorAssumption == SafetyMargin \in Nat /\ CacheDepth \in Nat

VARIABLES
    lastCached,   \* blockNumber of the reorg_detector checkpoint
    cache,        \* rows of BlockHashCache
    check,        \* checkAndReset in progress
    jumped        \* history: a reset moved the materializer's cursor forward

detectorDb == <<lastCached, cache>>
detectorVars == <<lastCached, cache, check, jumped>>

(* checkAndReset: "start", then the read of block_hash_log up to max, then *)
(* "insert", "prune" and "advance", or "reset" (left the materializers     *)
(* still to reset, mat the one whose rows are deleted and whose checkpoint *)
(* is not yet written), "invalidate" and "rewind"; "over" once it returns. *)
NotStarted == [at |-> "start"]
Over == [at |-> "over"]
Compare(max) == [at |-> "compare", max |-> max]
Insert(max, rows) == [at |-> "insert", max |-> max, rows |-> rows]
Prune(max) == [at |-> "prune", max |-> max]
Advance(max) == [at |-> "advance", max |-> max]
Reset(b, keep, left) == [at |-> "reset", block |-> b, keep |-> keep, left |-> left]
ResetCursor(b, keep, left, m) ==
    [at |-> "cursor", block |-> b, keep |-> keep, left |-> left, mat |-> m]
Invalidate(b) == [at |-> "invalidate", block |-> b]
Rewind(b) == [at |-> "rewind", block |-> b]

DetectorInit ==
    /\ lastCached = 0
    /\ cache = {}
    /\ check = NotStarted
    /\ jumped = [m \in Materializers |-> FALSE]

ResetBlock(b) == b - SafetyMargin

StartReset(b, keep) == Reset(b, keep, Materializers)

(* Mutant: every regression is taken for a re-index.                       *)
ReadPonderMaxKeepingRows ==
    /\ check = NotStarted
    /\ check' = CASE PonderMax \in {0, lastCached} -> Over
                  [] PonderMax # 0 /\ PonderMax < lastCached -> StartReset(PonderMax, TRUE)
                  [] PonderMax # 0 /\ PonderMax > lastCached -> Compare(PonderMax)
    /\ UNCHANGED <<ponderVars, copyVars, detectorDb, jumped>>

(* The decision on ponderMax: nothing indexed or nothing new, a regression *)
(* (by more than CacheDepth it is taken for a re-index and keeps the rows) *)
(* or new blocks to compare.                                               *)
ReadPonderMax ==
    /\ check = NotStarted
    /\ check' = CASE PonderMax \in {0, lastCached} -> Over
                  [] PonderMax # 0 /\ PonderMax < lastCached ->
                        StartReset(PonderMax, lastCached - PonderMax > CacheDepth)
                  [] PonderMax # 0 /\ PonderMax > lastCached -> Compare(PonderMax)
    /\ UNCHANGED <<ponderVars, copyVars, detectorDb, jumped>>

Mismatches(rows) ==
    {b \in 1 .. MaxBlock : \E x \in rows, y \in cache :
        x.number = b /\ y.number = b /\ x.hash # y.hash}

(* fetchPonderHashes reads the blocks above the checkpoint, up to the      *)
(* maximum read before; findHashMismatch returns the earliest difference.  *)
CompareHashes ==
    /\ check.at = "compare"
    /\ LET rows == {x \in HashLog : lastCached < x.number /\ x.number <= check.max}
           differ == Mismatches(rows)
       IN  check' = IF differ = {}
                    THEN Insert(check.max, rows)
                    ELSE StartReset(CHOOSE b \in differ : \A d \in differ : b <= d, FALSE)
    /\ UNCHANGED <<ponderVars, copyVars, detectorDb, jumped>>

(* createMany with skipDuplicates.                                         *)
InsertNewHashes ==
    /\ check.at = "insert"
    /\ cache' = cache \cup
                {x \in check.rows : \A y \in cache : x.number # y.number}
    /\ check' = Prune(check.max)
    /\ UNCHANGED <<ponderVars, copyVars, lastCached, jumped>>

(* Mutant: the window is one block too wide.                               *)
PruneOneLess ==
    /\ check.at = "prune"
    /\ cache' = {x \in cache : x.number >= check.max - CacheDepth - 1}
    /\ check' = Advance(check.max)
    /\ UNCHANGED <<ponderVars, copyVars, lastCached, jumped>>

PruneCache ==
    /\ check.at = "prune"
    /\ LET pruneBelow == check.max - CacheDepth
       IN  cache' = IF pruneBelow > 0
                    THEN {x \in cache : x.number >= pruneBelow}
                    ELSE cache
    /\ check' = Advance(check.max)
    /\ UNCHANGED <<ponderVars, copyVars, lastCached, jumped>>

AdvanceCheckpoint ==
    /\ check.at = "advance"
    /\ lastCached' = check.max
    /\ check' = Over
    /\ UNCHANGED <<ponderVars, copyVars, cache, jumped>>

(* resetToBlock(resetBlock, keepRows), first call: the rows.               *)
ResetRows(m) ==
    /\ check.at = "reset"
    /\ m \in check.left
    /\ IF check.keep THEN UNCHANGED table
                     ELSE DeleteAfterBlock(m, ResetBlock(check.block))
    /\ check' = ResetCursor(check.block, check.keep, check.left \ {m}, m)
    /\ UNCHANGED <<ponderVars, cursor, detectorDb, jumped>>

(* resetToBlock, second call: the checkpoint, wherever it was.             *)
ResetMaterializer ==
    /\ check.at = "cursor"
    /\ LET m == check.mat
           target == [block |-> ResetBlock(check.block), log |-> 0]
       IN  /\ ResetCheckpoint(m, ResetBlock(check.block))
           /\ jumped' = [jumped EXCEPT ![m] = @ \/ Before(cursor[m], target)]
    /\ check' = Reset(check.block, check.keep, check.left)
    /\ UNCHANGED <<ponderVars, table, detectorDb>>

(* Mutant: the loop over the materializers is left early.                  *)
NotAllReset ==
    /\ check.at = "reset"
    /\ check' = Invalidate(check.block)
    /\ UNCHANGED <<ponderVars, copyVars, detectorDb, jumped>>

AllReset ==
    /\ check.at = "reset"
    /\ check.left = {}
    /\ check' = Invalidate(check.block)
    /\ UNCHANGED <<ponderVars, copyVars, detectorDb, jumped>>

InvalidateCache ==
    /\ check.at = "invalidate"
    /\ cache' = {x \in cache : x.number < check.block}
    /\ check' = Rewind(check.block)
    /\ UNCHANGED <<ponderVars, copyVars, lastCached, jumped>>

(* Mutants: the checkpoint is rewound to the reorg block, without the      *)
(* margin; or not at all.                                                  *)
RewindWithoutMargin ==
    /\ check.at = "rewind"
    /\ lastCached' = check.block
    /\ check' = Over
    /\ UNCHANGED <<ponderVars, copyVars, cache, jumped>>

RewindNothing ==
    /\ check.at = "rewind"
    /\ check' = Over
    /\ UNCHANGED <<ponderVars, copyVars, detectorDb, jumped>>

RewindCheckpoint ==
    /\ check.at = "rewind"
    /\ lastCached' = ResetBlock(check.block)
    /\ check' = Over
    /\ UNCHANGED <<ponderVars, copyVars, cache, jumped>>

HandleReorg ==
    \/ \E m \in Materializers : ResetRows(m)
    \/ ResetMaterializer
    \/ AllReset
    \/ InvalidateCache
    \/ RewindCheckpoint

DetectorStep ==
    \/ ReadPonderMax
    \/ CompareHashes
    \/ InsertNewHashes
    \/ PruneCache
    \/ AdvanceCheckpoint
    \/ HandleReorg

Recovering == check.at \in {"reset", "cursor", "invalidate", "rewind"}

=============================================================================
