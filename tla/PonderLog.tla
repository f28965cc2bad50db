------------------------------ MODULE PonderLog ------------------------------
(***************************************************************************)
(* What the materializer sees of the Ponder indexer: the L1 blocks that    *)
(* Ponder has indexed, the event rows its handlers inserted for each of    *)
(* them, and block_hash_log.  The chain and Ponder itself are not part of  *)
(* the repository; the handlers under packages/indexer-ponder/src/events   *)
(* insert one row per log and call logBlockHash, so a block without a      *)
(* watched log has no row in block_hash_log.                               *)
(*                                                                         *)
(* An event is one log of one block of one fork.  Its database id          *)
(* (transaction hash and log index) is abstracted to <<hash, block, log>>: *)
(* a transaction that is mined again after a reorganisation counts as a    *)
(* new event.                                                              *)
(***************************************************************************)
EXTENDS Integers, Sequences, FiniteSets

CONSTANTS
    Materializers,  \* each one copies the event stream of the same name
    LogIndexes,     \* log indexes that occur in a block
    BlockLogs,      \* what one block may hold: the log indexes of each stream
    MaxBlock,       \* bound: length of the chain
    MaxForks,       \* bound: reorganisations
    MaxReorgDepth,  \* blocks one reorganisation replaces at most
    MaxReindexes    \* bound: times Ponder starts over

ASSUME PonderLogAssumption ==
    /\ LogIndexes \subseteq Nat
    /\ BlockLogs \subseteq [Materializers -> SUBSET LogIndexes]
    /\ MaxBlock \in Nat
    /\ MaxForks \in Nat
    /\ MaxReorgDepth \in Nat
    /\ MaxReindexes \in Nat

VARIABLES
    chain,      \* the canonical L1 chain, block b at chain[b]
    indexed,    \* Ponder has indexed blocks 1..indexed
    forks,      \* reorganisations so far, the hash of the blocks mined next
    reindexes   \* times Ponder started over

ponderVars == <<chain, indexed, forks, reindexes>>

Hashes == 0 .. MaxForks
Block == [hash : Hashes, logs : [Materializers -> SUBSET LogIndexes]]
Event == [block : 1 .. MaxBlock, log : LogIndexes, hash : Hashes]

PonderTypeOK ==
    /\ chain \in Seq(Block)
    /\ Len(chain) <= MaxBlock
    /\ indexed \in 0 .. Len(chain)
    /\ forks \in Hashes
    /\ reindexes \in 0 .. MaxReindexes

(* The rows an event stream of the chain has among blocks 1..height.       *)
EventsUpTo(m, height) ==
    {e \in Event : /\ e.block <= height
                   /\ e.log \in chain[e.block].logs[m]
                   /\ e.hash = chain[e.block].hash}

Events(m) == EventsUpTo(m, indexed)           \* rows Ponder holds now
ChainEvents(m) == EventsUpTo(m, Len(chain))   \* rows it will hold once caught up

(* Rows of block_hash_log: one per indexed block that emitted a watched    *)
(* log, whatever the number of logs (onConflictDoNothing).                 *)
HasLogs(b) == \E m \in Materializers : chain[b].logs[m] # {}
HashLog ==
    {[number |-> b, hash |-> chain[b].hash] : b \in {x \in 1 .. indexed : HasLogs(x)}}

(* getPonderMaxBlock: MAX(block_number), 0 when the table is empty.        *)
HighestLogged(height) ==
    LET logged == {x \in 1 .. height : HasLogs(x)}
    IN  IF logged = {} THEN 0 ELSE CHOOSE x \in logged : \A y \in logged : y <= x

PonderMax == HighestLogged(indexed)

PonderInit ==
    /\ chain = <<>>
    /\ indexed = 0
    /\ forks = 0
    /\ reindexes = 0

(* A block is mined and indexed.                                           *)
IndexNewBlock(logs) ==
    /\ indexed = Len(chain)
    /\ indexed < MaxBlock
    /\ chain' = Append(chain, [hash |-> forks, logs |-> logs])
    /\ indexed' = indexed + 1
    /\ UNCHANGED <<forks, reindexes>>

(* Ponder indexes again a block of the chain it lost by starting over.     *)
IndexKnownBlock ==
    /\ indexed < Len(chain)
    /\ indexed' = indexed + 1
    /\ UNCHANGED <<chain, forks, reindexes>>

(* The blocks after c leave the chain: Ponder reverts their rows and goes  *)
(* back to c.  The first indexed events are finalized: a reorganisation    *)
(* never empties block_hash_log.                                           *)
Reorganise(c) ==
    /\ forks < MaxForks
    /\ c \in 1 .. (Len(chain) - 1)
    /\ Len(chain) - c <= MaxReorgDepth
    /\ HighestLogged(c) > 0
    /\ chain' = SubSeq(chain, 1, c)
    /\ indexed' = IF indexed < c THEN indexed ELSE c
    /\ forks' = forks + 1
    /\ UNCHANGED reindexes

(* A deploy makes Ponder index from scratch; it is at block n when the     *)
(* materializer can look again.                                            *)
StartOver(n) ==
    /\ reindexes < MaxReindexes
    /\ n \in 0 .. (indexed - 1)
    /\ indexed' = n
    /\ reindexes' = reindexes + 1
    /\ UNCHANGED forks

Reindex(n) ==
    /\ StartOver(n)
    /\ UNCHANGED chain

(* The same after a contract was added to ponder.config.ts: block b now    *)
(* also yields a log of stream m.                                          *)
ReindexWithContract(n, m, b, i) ==
    /\ StartOver(n)
    /\ i \notin chain[b].logs[m]
    /\ chain' = [chain EXCEPT ![b].logs[m] = @ \cup {i}]

=============================================================================
