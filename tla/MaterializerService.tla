------------------------- MODULE MaterializerService -------------------------
(***************************************************************************)
(* The main loop of packages/materializer/src/index.ts: each cycle runs    *)
(* checkAndReset, then the poll() of every materializer concurrently, and  *)
(* starts over when all of them have settled.  Ponder runs in a process of *)
(* its own and changes its tables between any two steps.                   *)
(*                                                                         *)
(* Whether a reorganisation is noticed depends on timing that nothing in   *)
(* the code guarantees, so Visibility says what a run assumes of Ponder:   *)
(*   "prompt"  a reorganisation takes Ponder below the detector's          *)
(*             checkpoint, and Ponder indexes nothing more until the       *)
(*             detector has reacted;                                       *)
(*   "late"    it takes Ponder below the checkpoint while no check is      *)
(*             running, and the detector reacts before Ponder is back at   *)
(*             its checkpoint;                                             *)
(*   "any"     no assumption.                                              *)
(***************************************************************************)
EXTENDS ReorgDetector

CONSTANTS
    Reconciling,      \* materializers whose onIdle restores missing rows
    NewContracts,     \* a re-index may add a contract's events
    Visibility        \* see above

ASSUME ServiceAssumption ==
    /\ Reconciling \subseteq Materializers
    /\ NewContracts \in BOOLEAN
    /\ Visibility \in {"prompt", "late", "any"}

vars == <<baseVars, detectorVars>>

Init == BaseInit /\ DetectorInit

----------------------------------------------------------------------------
(* Ponder.                                                                 *)
RegressionPending == PonderMax < lastCached

PonderIndexes ==
    /\ \/ Visibility = "any"
       \/ ~ RegressionPending
       \/ PonderMax = 0
       \/ Visibility = "late" /\ indexed + 1 < lastCached
    /\ IndexBlock \/ IndexKnownBlock

PonderReorganises ==
    /\ \E c \in 1 .. MaxBlock : Reorganise(c)
    /\ Visibility # "any" => HighestLogged(Len(chain))' < lastCached
    /\ Visibility = "late" => check \in {NotStarted, Over}

PonderStartsOver ==
    \E n \in 0 .. MaxBlock :
        \/ Reindex(n)
        \/ /\ NewContracts
           /\ \E m \in Materializers, b \in 1 .. Len(chain), i \in LogIndexes :
                ReindexWithContract(n, m, b, i)

PonderStep ==
    /\ PonderIndexes \/ PonderReorganises \/ PonderStartsOver
    /\ UNCHANGED <<copyVars, poll, faults, detectorVars>>

----------------------------------------------------------------------------
(* The check comes first; a poll starts only once it has returned.         *)
CheckStep == DetectorStep /\ UNCHANGED <<poll, faults>>

(* Mutant: onIdle asks only for the rows after the cursor.                 *)
ReconcileAfterCursor(m) ==
    /\ m \in Reconciling
    /\ poll[m] = Idle
    /\ After(m) \ table[m] # {}
    /\ poll' = [poll EXCEPT ![m] = [at |-> "restoring", todo |-> After(m) \ table[m]]]
    /\ UNCHANGED <<ponderVars, copyVars, faults>>

(* onIdle of CanonicalRollupUpdatedMaterializer, when its 60 s throttle    *)
(* has expired and a row is missing: materializeBatch(missing), after      *)
(* which poll() returns 0 without saving a cursor.                         *)
Reconcile(m) ==
    /\ m \in Reconciling
    /\ poll[m] = Idle
    /\ After(m) = {}
    /\ Events(m) \ table[m] # {}
    /\ poll' = [poll EXCEPT ![m] = [at |-> "restoring", todo |-> Events(m) \ table[m]]]
    /\ UNCHANGED <<ponderVars, copyVars, faults>>

RestoreRow(m) ==
    /\ poll[m].at = "restoring"
    /\ \E e \in poll[m].todo :
        /\ table' = [table EXCEPT ![m] = @ \cup {e}]
        /\ poll' = [poll EXCEPT ![m] =
                      IF @.todo = {e} THEN Done
                                      ELSE [at |-> "restoring", todo |-> @.todo \ {e}]]
    /\ UNCHANGED <<ponderVars, cursor, faults>>

PollOf(m) ==
    /\ check = Over
    /\ PollStep(m) \/ Reconcile(m) \/ RestoreRow(m)
    /\ UNCHANGED detectorVars

PollError(m) ==
    /\ check = Over
    /\ PollFails(m)
    /\ UNCHANGED detectorVars

NextCycle ==
    /\ check = Over
    /\ EndCycle
    /\ check' = NotStarted
    /\ UNCHANGED <<detectorDb, jumped>>

(* The process dies and is restarted; or a database call of checkAndReset  *)
(* throws, and the cycle is abandoned before its polls.                    *)
Restart ==
    /\ RestartPolls
    /\ check' = NotStarted
    /\ UNCHANGED <<detectorDb, jumped>>

ServiceStep ==
    \/ CheckStep
    \/ \E m \in Materializers : PollOf(m)
    \/ NextCycle

Next ==
    \/ PonderStep
    \/ ServiceStep
    \/ \E m \in Materializers : PollError(m)
    \/ Restart

(* The loop never stops, and the throttle of onIdle expires every minute.  *)
Fairness ==
    /\ WF_vars(CheckStep)
    /\ WF_vars(NextCycle)
    /\ \A m \in Materializers : WF_vars(PollOf(m))
    /\ \A m \in Reconciling : SF_vars(check = Over /\ Reconcile(m) /\ UNCHANGED detectorVars)

Spec == Init /\ [][Next]_vars /\ Fairness

----------------------------------------------------------------------------
(* Safety.                                                                 *)

(* When a reorganisation is seen in time, no row of an abandoned fork is   *)
(* left once the reset is over: every row is an event of the chain.        *)
NoStaleRow ==
    ~ RegressionPending /\ ~ Recovering =>
        \A m \in Materializers : table[m] \subseteq ChainEvents(m)

(* The only event a cursor has left behind when a check lets the polls run *)
(* is one that a reset jumped over by moving a cursor forward.             *)
LossOnlyByJump ==
    check = Over /\ ~ RegressionPending =>
        \A m \in Materializers : jumped[m] \/ NoGap(m)

(* A recovery is complete when the detector's checkpoint is rewound: no    *)
(* materializer holds a row above the reset block or a cursor elsewhere,   *)
(* and no hash at or above the reorg block is cached.                      *)
RecoveryComplete ==
    check.at = "rewind" =>
        /\ \A x \in cache : x.number < check.block
        /\ \A m \in Materializers :
            cursor[m] = [block |-> ResetBlock(check.block), log |-> 0]

(* What the detector has checked is the chain: seen in time, no hash of an *)
(* abandoned fork stays cached at or below the checkpoint (above it, the   *)
(* next comparison finds it) and no logged block is missing between the    *)
(* lowest cached one and the checkpoint (a later reorganisation of it      *)
(* would go unnoticed).                                                    *)
CacheMirrorsChain ==
    ~ RegressionPending /\ ~ Recovering =>
        /\ \A x \in cache : x.number <= lastCached => x \in HashLog
        /\ \A x \in cache, y \in HashLog :
            x.number < y.number /\ y.number <= lastCached => y \in cache

(* Cache rows are never overwritten ("append-only" in the class comment):  *)
(* a cached block keeps its hash until the row is deleted.                 *)
HashesNeverOverwritten ==
    [][\A x \in cache, y \in cache' : x.number = y.number => x.hash = y.hash]_vars

(* The cache never holds two hashes of a block and, when the checkpoint    *)
(* moves forward, spans no more than CacheDepth blocks below it, whatever  *)
(* earlier checks were cut short between their insert and their prune.     *)
CacheBounded ==
    /\ \A x, y \in cache : x.number = y.number => x = y
    /\ check.at = "advance" => \A x \in cache : check.max - x.number <= CacheDepth

----------------------------------------------------------------------------
(* Liveness, once the chain, Ponder and the faults have come to rest.      *)

(* The detector does not reset forever.                                    *)
RecoverySettles == <>[] ~ Recovering

(* A materializer that reconciles ends up with every row Ponder has, even  *)
(* those lost behind its cursor.                                           *)
ReconciledComplete == \A m \in Reconciling : <>[](Events(m) \subseteq table[m])

(* A reorganisation noticed late is still undone: each check finds the     *)
(* hashes of the old fork that the previous reset left in the cache and    *)
(* resets further down, until no row of the old fork is left.              *)
OldForkForgotten == <>[] \A m \in Materializers : table[m] \subseteq ChainEvents(m)

(* The others end up with every row unless a reset jumped over some.       *)
EventuallyComplete ==
    \A m \in Materializers : <>[](jumped[m] \/ Events(m) \subseteq table[m])

----------------------------------------------------------------------------
(* Statements of the code's comments that the code does not keep.          *)

(* "catches reorgs where Ponder re-indexed blocks we already cached (same  *)
(* block number, different hash)".                                         *)
Contradicted ==
    \E x \in HashLog, y \in cache : x.number = y.number /\ x.hash # y.hash
CachedReorgCaught == Contradicted ~> (~ Contradicted \/ Recovering)

(* "rewind the cursors": a reset never moves a cursor past an event that   *)
(* is not in the table, for the materializer would never fetch it again.   *)
ResetOnlyRewinds ==
    [][Recovering =>
         \A m \in Materializers : \A e \in Events(m) \ table[m] :
            Covers(cursor'[m], e) => Covers(cursor[m], e)]_vars

=============================================================================
