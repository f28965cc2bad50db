------------------------- MODULE ValidatorQueueProofs -------------------------
(***************************************************************************)
(* What holds of the validator queue whatever the sources, the failures    *)
(* and the resets do: no entry outlives the event it was made of.  And     *)
(* what the replay amounts to: the queue is that of the chain, and an      *)
(* activation date that of the last deposit, as long as nothing a replay   *)
(* does not survive has happened.                                          *)
(***************************************************************************)
EXTENDS ValidatorQueue, NumberLemmas, FiniteSetTheorems

(* The history stays a sequence; that is all NoGhostEntry needs besides    *)
(* itself.                                                                 *)
GhostInvariant == history \in Seq(Event) /\ NoGhostEntry

(* The events that stay on the chain keep their positions.                 *)
LEMMA HistoryStep ==
    ASSUME history \in Seq(Event)
    PROVE  /\ \A e \in Event : Append(history, e) \in Seq(Event)
           /\ \A e \in Event, p \in Positions :
                /\ p \in 1 .. Len(Append(history, e))
                /\ Append(history, e)[p] = history[p]
           /\ \A n \in 0 .. MaxEvents : n < Len(history) =>
                /\ SubSeq(history, 1, n) \in Seq(Event)
                /\ Len(SubSeq(history, 1, n)) = n
                /\ \A p \in 1 .. n : SubSeq(history, 1, n)[p] = history[p]
  BY QueueAssumption DEF Positions

(* Steps that leave the history alone and add no entry.                    *)
LEMMA EntriesOnlyLeave ==
    ASSUME GhostInvariant, UNCHANGED history, queue' \subseteq queue
    PROVE  GhostInvariant'
  BY DEF GhostInvariant, NoGhostEntry, Positions

LEMMA GhostStep ==
    ASSUME GhostInvariant, [Next]_vars
    PROVE  GhostInvariant'
<1>1. ASSUME NEW e \in Event, Emit(e) PROVE GhostInvariant'
  BY <1>1, HistoryStep DEF Emit, GhostInvariant, NoGhostEntry, Positions, tableVars
<1>2. ASSUME NEW k \in Kinds, SourceCopies(k) PROVE GhostInvariant'
  BY <1>2, EntriesOnlyLeave DEF SourceCopies, tableVars
<1>3. ASSUME NEW c \in Replayers, PollStep(c) PROVE GhostInvariant'
  <2>1. CASE FetchBatch \/ ReadDeposits \/ ReadGseDeposits \/ SaveCursor(c)
    BY <2>1, EntriesOnlyLeave
       DEF FetchBatch, ReadDeposits, ReadGseDeposits, SaveCursor, sourceVars, tableVars
  <2>2. ASSUME NEW p \in Positions, AddToQueue(p) PROVE GhostInvariant'
    <3>1. history' = history
      BY <2>2 DEF AddToQueue, TakeRow, sourceVars
    <3>2. history[p].kind = "queued"
      BY <2>2 DEF AddToQueue
    <3>3. \A x \in queue' : x \in queue \/
            x = [at |-> p, staker |-> history[p].staker]
      BY <2>2 DEF AddToQueue
    <3> QED
      BY <3>1, <3>2, <3>3 DEF GhostInvariant, NoGhostEntry, Positions
  <2>3. ASSUME NEW p \in Positions, RemoveFromQueue(p) PROVE GhostInvariant'
    BY <2>3, EntriesOnlyLeave DEF RemoveFromQueue, TakeRow, sourceVars
  <2>4. ASSUME NEW p \in Positions, UpsertValidator(p) PROVE GhostInvariant'
    BY <2>4, EntriesOnlyLeave DEF UpsertValidator, TakeRow, sourceVars
  <2> QED
    BY <1>3, <2>1, <2>2, <2>3, <2>4 DEF PollStep
<1>4. ASSUME NEW C, Abandon(C) PROVE GhostInvariant'
  BY <1>4, EntriesOnlyLeave DEF Abandon, sourceVars, tableVars
<1>5. ASSUME NEW n \in 0 .. MaxEvents, NEW b \in 0 .. n, NEW k \in 0 .. b, Reset(n, b, k)
      PROVE  GhostInvariant'
  <2>1. n < Len(history) /\ b <= n /\ history' = SubSeq(history, 1, n)
    BY <1>5 DEF Reset
  <2>2. \A x \in queue' : x \in queue /\ x.at <= b
    BY <1>5 DEF Reset, DeleteAfter
  <2>3. \A x \in queue : x.at \in 1 .. Len(history)
    BY DEF GhostInvariant, NoGhostEntry, Positions
  <2>4. \A x \in queue' : x.at \in 1 .. n /\ history'[x.at] = history[x.at]
    BY <2>1, <2>2, <2>3, HistoryStep, QueueAssumption DEF GhostInvariant
  <2> QED
    BY <2>1, <2>2, <2>4, HistoryStep DEF GhostInvariant, NoGhostEntry, Positions
<1>6. ASSUME NEW k, Rewind(k) PROVE GhostInvariant'
  BY <1>6, EntriesOnlyLeave DEF Rewind, sourceVars, tableVars
<1>7. ASSUME NEW s, CollectorUpserts(s) PROVE GhostInvariant'
  BY <1>7, EntriesOnlyLeave DEF CollectorUpserts, sourceVars
<1>8. CASE UNCHANGED vars
  BY <1>8, EntriesOnlyLeave DEF vars, sourceVars, tableVars
<1> QED
  BY <1>1, <1>2, <1>3, <1>4, <1>5, <1>6, <1>7, <1>8 DEF Next, PollFails, Restart

(* Whatever polls failed, whatever was reorganised, re-indexed or read     *)
(* again, an entry of the queue is a queued event of the canonical chain:  *)
(* addToQueue and deleteAfterBlock of validator-queue.ts.                  *)
THEOREM NoGhosts == Spec => []NoGhostEntry
<1>1. Init => GhostInvariant
  BY DEF Init, GhostInvariant, NoGhostEntry
<1>2. GhostInvariant => NoGhostEntry
  BY DEF GhostInvariant
<1> QED
  BY <1>1, <1>2, GhostStep, PTL DEF Spec

----------------------------------------------------------------------------
(* A batch that is not empty has a last row.                               *)
LEMMA LastIsThere ==
    ASSUME history \in Seq(Event), NEW rows \in SUBSET Positions, rows # {}
    PROVE  Last(rows) \in rows
<1>1. Len(history) \in Int /\ rows \subseteq 1 .. Len(history)
  BY DEF Positions
<1>2. \E p \in rows : \A q \in rows : q <= p
  <2> DEFINE n == Len(history)
  <2>1. n \in Int /\ rows \subseteq 1 .. n
    BY <1>1
  <2> HIDE DEF n
  <2> QED
    BY <2>1, GreatestNumber
<1> QED
  BY <1>2 DEF Last

LEMMA BatchStarts ==
    ASSUME TypeOK, NEW c \in Replayers, NEW rows \in SUBSET Positions, StartBatch(c, rows)
    PROVE  poll' \in [Replayers -> Polls]
<1>1. rows # {} => Applying(rows, Last(rows)) \in Polls
  BY LastIsThere DEF TypeOK, Applying, Polls
<1>2. Idle \in Polls
  BY DEF Polls
<1> QED
  BY <1>1, <1>2 DEF TypeOK, StartBatch

(* The steps of a poll.                                                    *)
LEMMA PollTyped ==
    ASSUME TypeOK, NEW c \in Replayers, PollStep(c)
    PROVE  TypeOK'
<1> USE DEF TypeOK
<1>1. UNCHANGED <<history, arrived, reorgs, rewinds>> /\ Positions' = Positions /\ Polls' = Polls
  BY DEF counters, PollStep, FetchBatch, ReadDeposits, ReadGseDeposits, AddToQueue, RemoveFromQueue,
     UpsertValidator, TakeRow, SaveCursor, sourceVars, Positions, Polls
<1>2. poll' \in [Replayers -> Polls]
  <2>1. CASE FetchBatch
    <3>1. Batch(After("queue")) \in SUBSET Positions
      BY DEF Batch, After, Visible
    <3> QED
      BY <2>1, <3>1, BatchStarts DEF FetchBatch, Replayers
  <2>2. CASE ReadDeposits
    <3>1. Batch(OfKind("deposit")) \in SUBSET Positions
      BY DEF Batch, OfKind, After, Visible
    <3>2. Reading(Batch(OfKind("deposit"))) \in Polls
      BY <3>1 DEF Reading, Polls
    <3> QED
      BY <2>2, <3>2 DEF ReadDeposits
  <2>3. CASE ReadGseDeposits
    <3>1. poll["validator"] \in Polls /\ poll["validator"].at = "reading"
      BY <2>3 DEF ReadGseDeposits, Replayers
    <3>2. poll["validator"].rows \in SUBSET Positions
      BY <3>1 DEF Polls, Idle
    <3>3. Batch(poll["validator"].rows \cup Batch(OfKind("gse"))) \in SUBSET Positions
      BY <3>2 DEF Batch, OfKind, After, Visible
    <3> QED
      BY <2>3, <3>3, BatchStarts DEF ReadGseDeposits, Replayers
  <2>4. ASSUME NEW p \in Positions, TakeRow(c, p) PROVE poll' \in [Replayers -> Polls]
    <3>1. poll[c] \in [at : {"applying"}, todo : SUBSET Positions, upto : Positions]
      BY <2>4 DEF TakeRow, Polls, Idle
    <3>2. [poll[c] EXCEPT !.todo = @ \ {p}] \in Polls
      BY <3>1 DEF Polls
    <3> QED
      BY <2>4, <3>2 DEF TakeRow
  <2>5. CASE SaveCursor(c)
    BY <2>5 DEF SaveCursor, Polls
  <2> QED
    BY <2>1, <2>2, <2>3, <2>4, <2>5 DEF PollStep, AddToQueue, RemoveFromQueue, UpsertValidator
<1>3. cursor' \in [Replayers -> 0 .. Len(history)]
  <2>1. CASE SaveCursor(c)
    <3>1. poll[c].upto \in Positions
      BY <2>1 DEF SaveCursor, Polls, Idle
    <3>2. Positions \subseteq 0 .. Len(history)
      BY DEF Positions
    <3> QED
      BY <2>1, <3>1, <3>2 DEF SaveCursor
  <2> QED
    BY <2>1 DEF PollStep, FetchBatch, ReadDeposits, ReadGseDeposits, AddToQueue, RemoveFromQueue,
       UpsertValidator, TakeRow
<1>4. \A p \in Positions : p \in 1 .. MaxEvents /\ history[p].staker \in Stakers
  <2>1. \A p \in Positions : history[p] \in Event /\ p \in 1 .. MaxEvents
    BY QueueAssumption DEF Positions
  <2> QED
    BY <2>1 DEF Event
<1>5. queue' \subseteq Entry
  <2>1. ASSUME NEW p \in Positions, AddToQueue(p) PROVE queue' \subseteq Entry
    <3>1. [at |-> p, staker |-> history[p].staker] \in Entry
      BY <1>4 DEF Entry
    <3> QED
      BY <2>1, <3>1 DEF AddToQueue
  <2>2. ASSUME NEW p \in Positions, RemoveFromQueue(p) PROVE queue' \subseteq Entry
    BY <2>2 DEF RemoveFromQueue
  <2>3. ASSUME NEW p \in Positions, UpsertValidator(p) PROVE queue' \subseteq Entry
    BY <2>3 DEF UpsertValidator
  <2>4. CASE FetchBatch \/ ReadDeposits \/ ReadGseDeposits \/ SaveCursor(c)
    BY <2>4 DEF FetchBatch, ReadDeposits, ReadGseDeposits, SaveCursor, tableVars
  <2> QED
    BY <2>1, <2>2, <2>3, <2>4 DEF PollStep
<1>6. listed' \subseteq Stakers /\ validators' \in [Stakers -> 0 .. MaxEvents]
  <2>1. ASSUME NEW p \in Positions, UpsertValidator(p)
        PROVE  listed' \subseteq Stakers /\ validators' \in [Stakers -> 0 .. MaxEvents]
    <3> DEFINE t == history[p].staker
    <3>1. t \in Stakers /\ p \in 1 .. MaxEvents
      BY <1>4
    <3>2. CASE history[p].viewed
      BY <2>1, <3>1, <3>2 DEF UpsertValidator
    <3>3. CASE ~ history[p].viewed
      BY <2>1, <3>3 DEF UpsertValidator
    <3> QED
      BY <3>2, <3>3
  <2>2. ASSUME NEW p \in Positions, RemoveFromQueue(p)
        PROVE  listed' \subseteq Stakers /\ validators' \in [Stakers -> 0 .. MaxEvents]
    BY <1>4, <2>2 DEF RemoveFromQueue, UpdateActivationDate, SwallowError
  <2> QED
    BY <2>1, <2>2 DEF PollStep, FetchBatch, ReadDeposits, ReadGseDeposits, AddToQueue,
       SaveCursor, tableVars
<1>7. harm' \subseteq Harms /\ faults' \in 0 .. MaxFaults
  <2>1. faults < MaxFaults /\ faults' = faults + 1 => faults' \in 0 .. MaxFaults
    BY QueueAssumption
  <2> QED
    BY <2>1 DEF PollStep, FetchBatch, ReadDeposits, ReadGseDeposits, AddToQueue, RemoveFromQueue,
       UpdateActivationDate, SwallowError, UpsertValidator, SaveCursor, counters, Harms
<1> QED
  BY <1>1, <1>2, <1>3, <1>5, <1>6, <1>7 DEF counters

(* The chain grows or is reorganised, sources copy, polls are abandoned.   *)
LEMMA WorldTyped ==
    ASSUME TypeOK, Next, \A c \in Replayers : ~PollStep(c)
    PROVE  TypeOK'
<1> USE DEF TypeOK, counters, sourceVars, tableVars, Harms
<1>1. ASSUME NEW e \in Event, Emit(e) PROVE TypeOK'
  <2>1. /\ history' \in Seq(Event) /\ Len(history') = Len(history) + 1 /\ Len(history') <= MaxEvents
    BY <1>1, QueueAssumption DEF Emit
  <2>2. Positions \subseteq Positions' /\ Polls \subseteq Polls'
    BY <2>1 DEF Positions, Polls
  <2> QED
    BY <1>1, <2>1, <2>2 DEF Emit
<1>2. ASSUME NEW k \in Kinds, SourceCopies(k) PROVE TypeOK'
  <2>1. Positions' = Positions /\ Polls' = Polls
    BY <1>2 DEF SourceCopies, Positions, Polls
  <2> QED
    BY <1>2, <2>1 DEF SourceCopies, Positions
<1>3. ASSUME NEW C, Abandon(C) PROVE TypeOK'
  <2>1. Positions' = Positions /\ Polls' = Polls /\ Idle \in Polls
    BY <1>3 DEF Abandon, Positions, Polls
  <2>2. harm' \subseteq Harms
    BY <1>3 DEF Abandon, Repeating
  <2>3. faults' \in 0 .. MaxFaults
    BY <1>3, QueueAssumption DEF Abandon
  <2> QED
    BY <1>3, <2>1, <2>2, <2>3 DEF Abandon
<1>4. ASSUME NEW n \in 0 .. MaxEvents, NEW b \in 0 .. n, NEW k \in 0 .. b, Reset(n, b, k)
      PROVE  TypeOK'
  <2>1. /\ history' = SubSeq(history, 1, n) /\ n < Len(history) /\ b <= n
        /\ \A c \in Replayers : poll[c] = Idle
    BY <1>4 DEF Reset, Reached
  <2>2. history' \in Seq(Event) /\ Len(history') = n /\ n <= MaxEvents
    BY <2>1, HistoryStep, QueueAssumption
  <2>3. ASSUME NEW x \in Kinds PROVE arrived'[x] \in 0 .. n
    <3> DEFINE P(p) == /\ p # 0 => history[p].kind = x
                       /\ \A q \in 1 .. b : history[q].kind = x => q <= p
               S == {q \in 1 .. b : history[q].kind = x}
    <3>1. \E p \in 0 .. b : P(p)
      <4>1. CASE S = {}
        <5>1. P(0)
          BY <4>1
        <5> QED
          BY <5>1
      <4>2. CASE S # {}
        <5>1. \E p \in S : \A q \in S : q <= p
          <6>1. S \subseteq 1 .. b /\ b \in Int
            OBVIOUS
          <6> HIDE DEF S
          <6> QED
            BY <4>2, <6>1, GreatestNumber
        <5> QED
          BY <5>1
      <4> QED
        BY <4>1, <4>2
    <3>2. arrived'[x] = CHOOSE p \in 0 .. b : P(p)
      BY <1>4 DEF Reset
    <3>3. arrived'[x] \in 0 .. b
      <4> HIDE DEF P
      <4> QED
        BY <3>1, <3>2
    <3> QED
      BY <2>1, <3>3
  <2>4. arrived' \in [Kinds -> 0 .. n]
    BY <1>4, <2>3 DEF Reset
  <2>5. poll' \in [Replayers -> Polls']
    BY <1>4, <2>1 DEF Reset, Polls
  <2>6. cursor' \in [Replayers -> 0 .. n] /\ queue' \subseteq Entry
    BY <1>4, <2>1 DEF Reset, Rewound, DeleteAfter
  <2>7. harm' \subseteq Harms /\ reorgs' \in 0 .. MaxReorgs
    BY <1>4, QueueAssumption DEF Reset, Repeating
  <2> QED
    BY <1>4, <2>2, <2>4, <2>5, <2>6, <2>7 DEF Reset
<1>5. ASSUME NEW k \in 0 .. MaxEvents, Rewind(k) PROVE TypeOK'
  <2>1. Positions' = Positions /\ Polls' = Polls
    BY <1>5 DEF Rewind, Positions, Polls
  <2>2. harm' \subseteq Harms
    BY <1>5 DEF Rewind, Repeating
  <2> QED
    BY <1>5, <2>1, <2>2, QueueAssumption DEF Rewind, Rewound
<1>6. ASSUME NEW s \in Stakers, CollectorUpserts(s) PROVE TypeOK'
  BY <1>6 DEF CollectorUpserts, Positions, Polls
<1> QED
  BY <1>1, <1>2, <1>3, <1>4, <1>5, <1>6 DEF Next, PollFails, Restart

(* Every variable of the two replayers keeps its type: cursors and rows    *)
(* never point past the history, also when a reorganisation shortens it.   *)
THEOREM QueueTypeCorrect == Spec => []TypeOK
<1>1. Init => TypeOK
  BY QueueAssumption DEF Init, TypeOK, Polls
<1>2. TypeOK /\ [Next]_vars => TypeOK'
  <2>1. ASSUME TypeOK, UNCHANGED vars PROVE TypeOK'
    BY <2>1 DEF TypeOK, vars, sourceVars, tableVars, counters, Polls, Positions
  <2> QED
    BY <2>1, PollTyped, WorldTyped
<1> QED
  BY <1>1, <1>2, PTL DEF Spec

----------------------------------------------------------------------------
(* The replay of a history, step by step.                                  *)
ReplayLaw ==
    /\ Replay[0] = {}
    /\ \A n \in Positions :
         Replay[n] =
           IF history[n].kind = "queued" THEN Replay[n - 1] \cup {n}
           ELSE Replay[n - 1] \ Oldest({p \in Replay[n - 1] :
                                         history[p].staker = history[n].staker})

LEMMA ReplayRuns ==
    ASSUME history \in Seq(Event)
    PROVE  ReplayLaw
<1> DEFINE step == [n \in Nat |-> [S \in SUBSET Nat |->
                IF history[n].kind = "queued" THEN S \cup {n}
                ELSE S \ Oldest({p \in S : history[p].staker = history[n].staker})]]
<1>1. step \in [Nat -> [SUBSET Nat -> SUBSET Nat]]
  OBVIOUS
<1>2. PICK f \in [Nat -> SUBSET Nat] :
        f[0] = {} /\ \A n \in Nat : n # 0 => f[n] = step[n][f[n - 1]]
  <2> DEFINE V == SUBSET Nat
             base == {}
  <2>1. base \in V /\ step \in Steps(V)
    BY <1>1 DEF Steps
  <2> HIDE DEF step, V, base
  <2>2. \E f \in [Nat -> V] : Runs(f, base, step)
    BY <2>1, RecursionOverNat
  <2> QED
    BY <2>2 DEF Runs, V, base
<1> DEFINE Solves(g) == g = [n \in 0 .. Len(history) |->
                IF n = 0 THEN {}
                ELSE IF history[n].kind = "queued" THEN g[n - 1] \cup {n}
                ELSE g[n - 1] \ Oldest({p \in g[n - 1] : history[p].staker = history[n].staker})]
           g == [n \in 0 .. Len(history) |-> f[n]]
<1>3. Solves(g)
  <2>1. ASSUME NEW n \in 1 .. Len(history)
        PROVE  /\ g[n] = step[n][f[n - 1]] /\ g[n - 1] = f[n - 1]
               /\ f[n - 1] \in SUBSET Nat /\ n \in Nat
    <3>1. n \in Nat /\ n - 1 \in Nat /\ n # 0 /\ n \in 0 .. Len(history) /\ n - 1 \in 0 .. Len(history)
      OBVIOUS
    <3> HIDE DEF step
    <3> QED
      BY <1>2, <3>1
  <2>2. g[0] = {}
    BY <1>2
  <2> HIDE DEF g
  <2>3. ASSUME NEW n \in 1 .. Len(history)
        PROVE  g[n] = IF history[n].kind = "queued" THEN g[n - 1] \cup {n}
                ELSE g[n - 1] \ Oldest({p \in g[n - 1] : history[p].staker = history[n].staker})
    BY <2>1
  <2>4. g = [n \in 0 .. Len(history) |-> g[n]]
    BY DEF g
  <2>5. \A n \in 0 .. Len(history) : n # 0 => n \in 1 .. Len(history)
    OBVIOUS
  <2> DEFINE e(n) == IF n = 0 THEN {}
                ELSE IF history[n].kind = "queued" THEN g[n - 1] \cup {n}
                ELSE g[n - 1] \ Oldest({p \in g[n - 1] : history[p].staker = history[n].staker})
  <2>6. \A n \in 0 .. Len(history) : g[n] = e(n)
    BY <2>2, <2>3, <2>5
  <2> HIDE DEF e
  <2>7. g = [n \in 0 .. Len(history) |-> e(n)]
    BY <2>4, <2>6
  <2> QED
    BY <2>7 DEF e
<1>4. Replay = CHOOSE h : Solves(h)
  BY DEF Replay
<1>5. Solves(Replay)
  <2> HIDE DEF Solves, g
  <2> QED
    BY <1>3, <1>4
<1> QED
  <2> HIDE DEF step, g
  <2>1. 0 \in 0 .. Len(history) /\ \A n \in Positions : n \in 0 .. Len(history) /\ n # 0
    BY DEF Positions
  <2>2. Replay[0] = {}
    BY <1>5, <2>1
  <2>3. ASSUME NEW n \in Positions
        PROVE  Replay[n] =
                  IF history[n].kind = "queued" THEN Replay[n - 1] \cup {n}
                  ELSE Replay[n - 1] \ Oldest({p \in Replay[n - 1] :
                                                history[p].staker = history[n].staker})
    BY <1>5, <2>1
  <2> QED
    BY <2>2, <2>3 DEF ReplayLaw

(* Only queued events get in.                                              *)
LEMMA ReplayBounds ==
    ASSUME history \in Seq(Event), NEW n \in 0 .. Len(history)
    PROVE  /\ Replay[n] \subseteq 1 .. n
           /\ \A e \in Replay[n] : history[e].kind = "queued"
<1> DEFINE Ok(m) == \A e \in Replay[m] : e \in 1 .. m /\ history[e].kind = "queued"
           T == {m \in Nat : m <= Len(history) => Ok(m)}
<1>1. 0 \in T
  BY ReplayRuns DEF ReplayLaw
<1>2. ASSUME NEW m \in T PROVE m + 1 \in T
  <2>1. SUFFICES ASSUME m + 1 <= Len(history) PROVE Ok(m + 1)
    OBVIOUS
  <2>2. Ok(m) /\ m + 1 \in Positions /\ (m + 1) - 1 = m
    BY <2>1 DEF Positions
  <2>3. \A e \in Replay[m + 1] :
          e \in Replay[m] \/ (e = m + 1 /\ history[m + 1].kind = "queued")
    BY <2>2, ReplayRuns DEF ReplayLaw
  <2>4. \A e \in 1 .. m : e \in 1 .. m + 1
    OBVIOUS
  <2> QED
    BY <2>2, <2>3, <2>4
<1>3. T = Nat
  <2>1. T \subseteq Nat
    OBVIOUS
  <2> HIDE DEF T
  <2> QED
    BY <1>1, <1>2, <2>1, Induction
<1>4. n \in T
  BY <1>3
<1> QED
  BY <1>4

(* What has gone was removed.                                              *)
Removes(r, e) ==
    /\ history[r].kind # "queued"
    /\ history[r].staker = history[e].staker

LEMMA ReplayRemoved ==
    ASSUME history \in Seq(Event), NEW n \in 0 .. Len(history), NEW m \in 0 .. Len(history),
           n <= m, NEW e \in Replay[n], e \notin Replay[m]
    PROVE  \E r \in Positions : n < r /\ r <= m /\ Removes(r, e)
<1> DEFINE Gone(k) == \E r \in Positions : n < r /\ r <= k /\ Removes(r, e)
           T == {k \in Nat : n <= k /\ k <= Len(history) => e \in Replay[k] \/ Gone(k)}
<1>1. 0 \in T
  OBVIOUS
<1>2. ASSUME NEW k \in T PROVE k + 1 \in T
  <2>1. SUFFICES ASSUME n <= k + 1, k + 1 <= Len(history) PROVE e \in Replay[k + 1] \/ Gone(k + 1)
    OBVIOUS
  <2>2. CASE n = k + 1
    BY <2>2
  <2>3. CASE n # k + 1
    <3>1. k \in Nat /\ n <= k /\ k + 1 \in Positions /\ (k + 1) - 1 = k /\ n < k + 1
      BY <2>1, <2>3 DEF Positions
    <3>2. e \in Replay[k] \/ Gone(k)
      BY <2>1, <3>1
    <3>3. Gone(k) => Gone(k + 1)
      BY <3>1 DEF Positions
    <3>4. e \in Replay[k] => e \in Replay[k + 1] \/ Removes(k + 1, e)
      BY <3>1, ReplayRuns DEF ReplayLaw, Oldest, Removes
    <3> QED
      BY <3>1, <3>2, <3>3, <3>4
  <2> QED
    BY <2>2, <2>3
<1>3. T = Nat
  <2>1. T \subseteq Nat
    OBVIOUS
  <2> HIDE DEF T
  <2> QED
    BY <1>1, <1>2, <2>1, Induction
<1>4. m \in T
  BY <1>3
<1> QED
  BY <1>4

(* The replay of a prefix does not depend on what follows.                 *)
LEMMA ReplayRunsNext ==
    (history \in Seq(Event))' => ReplayLaw'
<1>1. history \in Seq(Event) => ReplayLaw
  BY ReplayRuns
<1> QED
  BY <1>1, PTL

LEMMA ReplayOfPrefix ==
    ASSUME history \in Seq(Event), (history \in Seq(Event))',
           NEW n \in Nat, n <= Len(history), n <= Len(history'),
           \A p \in 1 .. n : history'[p] = history[p]
    PROVE  \A m \in 0 .. n : Replay'[m] = Replay[m]
<1> DEFINE T == {m \in Nat : m <= n => Replay'[m] = Replay[m]}
<1>1. 0 \in T
  BY ReplayRuns, ReplayRunsNext DEF ReplayLaw
<1>2. ASSUME NEW m \in T PROVE m + 1 \in T
  <2>1. SUFFICES ASSUME m + 1 <= n PROVE Replay'[m + 1] = Replay[m + 1]
    OBVIOUS
  <2>2. /\ Replay'[m] = Replay[m]
        /\ m + 1 \in Positions /\ m + 1 \in Positions' /\ (m + 1) - 1 = m
        /\ history'[m + 1] = history[m + 1]
    BY <2>1 DEF Positions
  <2>3. \A p \in Replay[m] : history'[p] = history[p]
    BY <2>1, ReplayBounds
  <2>4. {p \in Replay[m] : history'[p].staker = history[m + 1].staker}
          = {p \in Replay[m] : history[p].staker = history[m + 1].staker}
    BY <2>3
  <2> DEFINE first == Oldest({p \in Replay[m] : history[p].staker = history[m + 1].staker})
  <2>5. Replay[m + 1] = IF history[m + 1].kind = "queued" THEN Replay[m] \cup {m + 1}
                        ELSE Replay[m] \ first
    BY <2>2, ReplayRuns DEF ReplayLaw
  <2>6. Oldest({p \in Replay'[m] : history'[p].staker = history'[m + 1].staker}) = first
    BY <2>2, <2>4 DEF Oldest
  <2>7. Replay'[m + 1] = IF history[m + 1].kind = "queued" THEN Replay[m] \cup {m + 1}
                         ELSE Replay[m] \ first
    <3> HIDE DEF first
    <3> QED
      BY <2>2, <2>6, ReplayRunsNext DEF ReplayLaw
  <2> QED
    BY <2>5, <2>7
<1>3. T = Nat
  <2>1. T \subseteq Nat
    OBVIOUS
  <2> HIDE DEF T
  <2> QED
    BY <1>1, <1>2, <2>1, Induction
<1>4. \A m \in 0 .. n : m \in T
  BY <1>3
<1> QED
  BY <1>4

LEMMA SameReplay ==
    ASSUME history \in Seq(Event), UNCHANGED history
    PROVE  \A m \in 0 .. Len(history) : Replay'[m] = Replay[m]
<1>1. Len(history) \in Nat /\ Len(history') = Len(history) /\ (history \in Seq(Event))'
  OBVIOUS
<1> QED
  BY <1>1, ReplayOfPrefix

(* A batch holds the first rows, one at least.                             *)
LEMMA BatchIsFirst ==
    ASSUME history \in Seq(Event), NEW rows \in SUBSET Positions, rows # {}
    PROVE  /\ \A p \in Batch(rows), q \in rows : q <= p => q \in Batch(rows)
           /\ Last(Batch(rows)) \in Batch(rows)
           /\ \A q \in Batch(rows) : q <= Last(Batch(rows))
<1> DEFINE upTo(p) == {q \in rows : q <= p}
<1>1. IsFiniteSet(Positions) /\ rows \subseteq Nat /\ Len(history) \in Nat
  BY FS_Interval DEF Positions
<1>0. \A p \in rows : p \in Nat
  BY DEF Positions
<1>2. \A p \in rows : IsFiniteSet(upTo(p)) /\ Cardinality(upTo(p)) \in Nat
  BY <1>1, FS_Subset, FS_CardinalityType
<1>3. \A p, q \in rows : q <= p => Cardinality(upTo(q)) <= Cardinality(upTo(p))
  <2> SUFFICES ASSUME NEW p \in rows, NEW q \in rows, q <= p
               PROVE  Cardinality(upTo(q)) <= Cardinality(upTo(p))
    OBVIOUS
  <2>1. upTo(q) \subseteq upTo(p)
    BY <1>0
  <2> HIDE DEF upTo
  <2> QED
    BY <1>2, <2>1, FS_Subset
<1>4. \A p \in rows : p \in Batch(rows) <=> Cardinality(upTo(p)) <= BatchSize
  BY DEF Batch
<1>5. ASSUME NEW p \in Batch(rows), NEW q \in rows, q <= p PROVE q \in Batch(rows)
  <2>1. p \in rows
    BY DEF Batch
  <2> HIDE DEF upTo
  <2> QED
    BY <1>2, <1>3, <1>4, <1>5, <2>1, QueueAssumption
<1>6. Batch(rows) # {}
  <2>1. PICK p \in rows : \A q \in rows : p <= q
    BY <1>1, LeastNumber
  <2>2. upTo(p) = {p}
    BY <1>0, <2>1
  <2>3. Cardinality(upTo(p)) = 1
    BY <2>2, FS_Singleton
  <2> HIDE DEF upTo
  <2> QED
    BY <1>4, <2>3, QueueAssumption
<1>7. PICK p \in Batch(rows) : \A q \in Batch(rows) : q <= p
  <2> DEFINE n == Len(history)
             B == Batch(rows)
  <2>1. n \in Int /\ B \subseteq 1 .. n /\ B # {}
    <3>1. B \subseteq rows /\ rows \subseteq 1 .. n
      BY DEF Batch, Positions
    <3>2. n \in Int
      BY <1>1
    <3>3. B # {}
      BY <1>6
    <3> QED
      BY <3>1, <3>2, <3>3, Zenon
  <2> HIDE DEF n, B
  <2>2. \E p \in B : \A q \in B : q <= p
    BY <2>1, GreatestNumber
  <2> QED
    BY <2>2 DEF B
<1>8. Last(Batch(rows)) \in Batch(rows) /\ \A q \in Batch(rows) : q <= Last(Batch(rows))
  BY <1>7 DEF Last
<1> QED
  BY <1>5, <1>8

----------------------------------------------------------------------------
(* A pass over the events begins at the cursor; v is done when the pass    *)
(* has gone by it.  A batch is complete when no row below its last is      *)
(* neither done nor still to come.                                         *)
Done(c, v) ==
    /\ v <= Committed(c)
    /\ poll[c].at = "applying" => \A t \in poll[c].todo : v < t

Complete(c) ==
    /\ poll[c].at = "reading" => poll[c].rows \subseteq After(c)
    /\ poll[c].at = "applying" =>
        /\ poll[c].todo \subseteq After(c)
        /\ cursor[c] <= poll[c].upto
        /\ \A t \in poll[c].todo : t <= poll[c].upto
        /\ \A p \in After(c) : p <= poll[c].upto =>
             p \in poll[c].todo \/ \A t \in poll[c].todo : p < t

LEMMA PollFacts ==
    ASSUME TypeOK, NEW c \in Replayers
    PROVE  /\ history \in Seq(Event) /\ Len(history) \in Nat
           /\ cursor[c] \in 0 .. Len(history)
           /\ Committed(c) \in 0 .. Len(history)
           /\ poll[c].at = "applying" => poll[c].upto \in Positions /\ poll[c].todo \subseteq Positions
           /\ poll[c].at = "reading" => poll[c].rows \subseteq Positions
           /\ \A p \in Positions : p \in 1 .. Len(history) /\ history[p].kind \in Kinds
           /\ arrived \in [Kinds -> 0 .. Len(history)]
<1>1. history \in Seq(Event) /\ Len(history) \in Nat /\ cursor[c] \in 0 .. Len(history)
      /\ arrived \in [Kinds -> 0 .. Len(history)]
  BY DEF TypeOK
<1>2. poll[c] \in Polls
  BY DEF TypeOK
<1>3. /\ poll[c].at = "applying" => poll[c].upto \in Positions /\ poll[c].todo \subseteq Positions
      /\ poll[c].at = "reading" => poll[c].rows \subseteq Positions
  BY <1>2 DEF Polls, Idle
<1>4. \A p \in Positions : p \in 1 .. Len(history) /\ history[p].kind \in Kinds
  <2>1. \A p \in Positions : p \in 1 .. Len(history) /\ history[p] \in Event
    BY <1>1 DEF Positions
  <2> QED
    BY <2>1, QueueAssumption DEF Event
<1>5. Committed(c) \in 0 .. Len(history)
  BY <1>1, <1>3 DEF Committed, Positions
<1> QED
  BY <1>1, <1>3, <1>4, <1>5

LEMMA QueueFacts ==
    ASSUME TypeOK
    PROVE  /\ history \in Seq(Event) /\ Len(history) \in Nat
           /\ cursor["queue"] \in 0 .. Len(history)
           /\ Committed("queue") \in 0 .. Len(history)
           /\ poll["queue"].at = "applying" =>
                poll["queue"].upto \in Positions /\ poll["queue"].todo \subseteq Positions
           /\ \A p \in Positions : p \in 1 .. Len(history) /\ history[p].kind \in Kinds
           /\ arrived \in [Kinds -> 0 .. Len(history)]
<1>1. "queue" \in Replayers
  BY DEF Replayers
<1> QED
  BY <1>1, PollFacts

(* The steps that leave a pass as it is.                                   *)
LEMMA PassRests ==
    ASSUME TypeOK, NEW c \in Replayers, Complete(c),
           cursor'[c] = cursor[c], poll'[c] = poll[c],
           After(c) \subseteq After(c)',
           \A p \in After(c)' : p <= Committed(c) => p \in After(c)
    PROVE  /\ Complete(c)' /\ Committed(c)' = Committed(c)
           /\ \A v : Done(c, v)' = Done(c, v)
  BY DEF Complete, Committed, Done

(* A batch is fetched that leaves no row out.                              *)
LEMMA BatchFetched ==
    ASSUME TypeOK, NEW c \in Replayers, NEW rows \in SUBSET After(c), StartBatch(c, rows),
           poll[c].at # "applying", UNCHANGED <<history, arrived, cursor>>,
           \A p \in After(c) : p \in rows \/ \A q \in rows : q < p
    PROVE  /\ Complete(c)'
           /\ \A v \in Nat : Done(c, v) => Done(c, v)'
           /\ \A v \in Nat : Done(c, v)' /\ (v <= cursor[c] \/ v \in Visible(c)) => Done(c, v)
<1>1. After(c)' = After(c) /\ \A v : Done(c, v) <=> v <= cursor[c]
  BY DEF After, Visible, Positions, Done, Committed
<1>2. rows \subseteq Positions /\ \A p \in After(c) : p \in Nat /\ cursor[c] < p
  BY PollFacts DEF After, Visible
<1>3. CASE rows = {}
  <2>1. poll'[c] = Idle
    BY <1>3 DEF StartBatch, TypeOK
  <2> QED
    BY <1>1, <2>1 DEF Complete, Done, Committed, Idle
<1>4. CASE rows # {}
  <2>1. Last(rows) \in rows /\ \A q \in rows : q <= Last(rows)
    <3> DEFINE n == Len(history)
    <3>1. n \in Int /\ rows \subseteq 1 .. n
      BY <1>2, PollFacts DEF Positions
    <3> HIDE DEF n
    <3>2. \E p \in rows : \A q \in rows : q <= p
      BY <1>4, <3>1, GreatestNumber
    <3> QED
      BY <3>2 DEF Last
  <2>2. poll'[c] = Applying(rows, Last(rows))
    BY <1>4 DEF StartBatch, TypeOK
  <2>3. /\ poll'[c].at = "applying" /\ poll'[c].todo = rows /\ poll'[c].upto = Last(rows)
    BY <2>2 DEF Applying
  <2>4. \A v : Done(c, v)' <=> v <= Last(rows) /\ \A t \in rows : v < t
    BY <2>3 DEF Done, Committed
  <2>5. Complete(c)'
    BY <1>1, <1>2, <2>1, <2>3, PollFacts DEF Complete
  <2>6. ASSUME NEW v \in Nat, v <= cursor[c] PROVE v <= Last(rows) /\ \A t \in rows : v < t
    BY <1>2, <2>1, <2>6, PollFacts
  <2>7. ASSUME NEW v \in Nat, v <= Last(rows), \A t \in rows : v < t, v \in Visible(c)
        PROVE  v <= cursor[c]
    <3>1. SUFFICES ASSUME cursor[c] < v PROVE FALSE
      BY PollFacts
    <3>2. v \in After(c) /\ v \notin rows
      <4>1. ~ (v < v)
        OBVIOUS
      <4> QED
        BY <2>7, <3>1, <4>1 DEF After
    <3>3. \A q \in rows : q < v
      BY <3>2
    <3> QED
      BY <1>2, <2>1, <2>7, <3>3
  <2> QED
    BY <1>1, <2>4, <2>5, <2>6, <2>7
<1> QED
  BY <1>3, <1>4

(* A row is applied: the pass goes by n.                                   *)
LEMMA TakeFacts ==
    ASSUME TypeOK, NEW c \in Replayers, Complete(c), NEW n \in Positions, TakeRow(c, n)
    PROVE  /\ UNCHANGED <<history, arrived, cursor>> /\ n \in Visible(c)
           /\ cursor[c] <= n - 1 /\ n - 1 \in 0 .. Len(history)
           /\ Done(c, n - 1) /\ (\A v : Done(c, v) => v < n)
           /\ Done(c, n)' /\ \A v : Done(c, v) => Done(c, v)'
           /\ \A v \in Nat : Done(c, v)' /\ (v = 0 \/ v \in Visible(c)) => v = n \/ Done(c, v)
           /\ Complete(c)'
           /\ \A d \in Replayers : d # c => poll'[d] = poll[d]
<1>1. /\ poll[c].at = "applying" /\ n \in Oldest(poll[c].todo)
      /\ UNCHANGED <<history, arrived, cursor>>
      /\ poll' = [poll EXCEPT ![c].todo = @ \ {n}]
  BY DEF TakeRow, sourceVars
<1>2. /\ poll[c].upto \in Positions /\ poll[c].todo \subseteq Positions
      /\ n \in poll[c].todo /\ \A q \in poll[c].todo : n <= q
  BY <1>1, PollFacts DEF Oldest
<1>3. poll'[c] = [poll[c] EXCEPT !.todo = @ \ {n}] /\ \A d \in Replayers : d # c => poll'[d] = poll[d]
  BY <1>1 DEF TypeOK
<1>4. /\ poll'[c].at = "applying" /\ poll'[c].todo = poll[c].todo \ {n}
      /\ poll'[c].upto = poll[c].upto
  <2>1. poll[c] \in [at : {"applying"}, todo : SUBSET Positions, upto : Positions]
    BY <1>1 DEF TypeOK, Polls, Idle
  <2> QED
    BY <1>3, <2>1
<1>5. \A v : (Done(c, v) <=> v <= poll[c].upto /\ \A t \in poll[c].todo : v < t)
             /\ (Done(c, v)' <=> v <= poll[c].upto /\ \A t \in poll[c].todo \ {n} : v < t)
  BY <1>1, <1>4 DEF Done, Committed
<1>6. /\ cursor[c] < n /\ n \in Nat /\ cursor[c] \in Nat /\ n - 1 \in 0 .. Len(history)
      /\ poll[c].upto \in Nat /\ \A t \in poll[c].todo : t \in Nat
      /\ n \in Visible(c) /\ n <= poll[c].upto
  BY <1>1, <1>2, PollFacts DEF Complete, Positions, After
<1>7. Done(c, n - 1) /\ \A v : Done(c, v) => v < n
  <2>1. \A t \in poll[c].todo : n - 1 < t
    BY <1>2, <1>6
  <2>2. n - 1 <= poll[c].upto
    BY <1>6
  <2>3. Done(c, n - 1)
    BY <1>5, <2>1, <2>2
  <2> QED
    BY <1>2, <1>5, <2>3
<1>8. Done(c, n)' /\ \A v : Done(c, v) => Done(c, v)'
  <2>1. \A t \in poll[c].todo \ {n} : n < t
    <3>1. \A t \in poll[c].todo : n \in Nat /\ t \in Nat /\ n <= t
      BY <1>2, <1>6
    <3> QED
      BY <3>1
  <2> QED
    BY <1>5, <1>6, <2>1
<1>9. ASSUME NEW v \in Nat, v = 0 \/ v \in Visible(c), Done(c, v)', v # n PROVE Done(c, v)
  <2>1. SUFFICES ASSUME n < v PROVE FALSE
    BY <1>2, <1>5, <1>6, <1>9
  <2>2. v \in After(c)
    BY <1>6, <1>9, <2>1 DEF After
  <2>3. v \in poll[c].todo \/ \A t \in poll[c].todo : v < t
    BY <1>1, <1>5, <1>9, <2>2 DEF Complete
  <2> QED
    BY <1>2, <1>5, <1>6, <1>9, <2>1, <2>3
<1>10. Complete(c)'
  <2>1. After(c)' = After(c)
    BY <1>1 DEF After, Visible, Positions
  <2>2. ASSUME NEW p \in After(c), p <= poll[c].upto, p \notin poll[c].todo \ {n}
        PROVE  \A t \in poll[c].todo \ {n} : p < t
    <3>1. CASE p = n
      <4>1. \A t \in poll[c].todo : n \in Nat /\ t \in Nat /\ n <= t
        BY <1>2, <1>6
      <4> QED
        BY <3>1, <4>1
    <3>2. CASE p # n
      BY <1>1, <2>2, <3>2 DEF Complete
    <3> QED
      BY <3>1, <3>2
  <2> QED
    BY <1>1, <1>4, <2>1, <2>2 DEF Complete
<1> QED
  BY <1>1, <1>3, <1>6, <1>7, <1>8, <1>9, <1>10

(* The cursor moves over a batch that is done.                             *)
LEMMA CursorSaved ==
    ASSUME TypeOK, NEW c \in Replayers, Complete(c), SaveCursor(c)
    PROVE  /\ Complete(c)' /\ cursor'[c] \in Nat /\ cursor[c] <= cursor'[c]
           /\ \A v : Done(c, v)' = Done(c, v)
           /\ UNCHANGED <<history, arrived, queue, listed, validators>>
           /\ \A d \in Replayers : d # c => poll'[d] = poll[d] /\ cursor'[d] = cursor[d]
<1>1. /\ poll[c].at = "applying" /\ poll[c].todo = {}
      /\ UNCHANGED <<history, arrived, queue, listed, validators>>
      /\ cursor' = [cursor EXCEPT ![c] = poll[c].upto]
      /\ poll' = [poll EXCEPT ![c] = Idle]
  BY DEF SaveCursor, sourceVars, tableVars
<1>2. /\ cursor'[c] = poll[c].upto /\ poll'[c] = Idle
      /\ \A d \in Replayers : d # c => poll'[d] = poll[d] /\ cursor'[d] = cursor[d]
  BY <1>1 DEF TypeOK
<1>3. \A v : Done(c, v)' = Done(c, v)
  BY <1>1, <1>2 DEF Done, Committed, Idle
<1>4. cursor'[c] \in Nat /\ cursor[c] <= cursor'[c]
  BY <1>1, <1>2, PollFacts DEF Complete
<1>5. Complete(c)'
  BY <1>2 DEF Complete, Idle
<1> QED
  BY <1>1, <1>2, <1>3, <1>4, <1>5

(* A source copies a row that is not behind the queue's pass.              *)
LEMMA RowArrives ==
    ASSUME TypeOK, NEW k \in Kinds, SourceCopies(k), "late" \notin harm'
    PROVE  /\ UNCHANGED <<history, queue, listed, validators, cursor, poll, reorgs>>
           /\ \A q \in Positions : q <= Committed("queue") =>
                (q <= arrived'[history[q].kind] <=> q <= arrived[history[q].kind])
           /\ \A q \in Positions : q <= arrived[history[q].kind] => q <= arrived'[history[q].kind]
<1>1. PICK p \in Positions :
        /\ history[p].kind = k /\ arrived[k] < p
        /\ \A q \in Positions : arrived[k] < q /\ q < p => history[q].kind # k
        /\ arrived' = [arrived EXCEPT ![k] = p]
        /\ harm' = IF p <= Committed("queue") THEN harm \cup {"late"} ELSE harm
  BY DEF SourceCopies
<1>2. Committed("queue") < p
  <2>1. ~ (p <= Committed("queue"))
    BY <1>1
  <2> QED
    BY <2>1, QueueFacts
<1>3. \A q \in Positions : q <= arrived'[history[q].kind] => q <= arrived[history[q].kind] \/ q = p
  BY <1>1, QueueFacts
<1>4. \A q \in Positions : q <= arrived[history[q].kind] => q <= arrived'[history[q].kind]
  BY <1>1, QueueFacts
<1> QED
  BY <1>2, <1>3, <1>4, QueueFacts DEF SourceCopies, tableVars, counters


----------------------------------------------------------------------------
LEMMA QueueFetches ==
    ASSUME TypeOK, FetchBatch
    PROVE  /\ Complete("queue")'
           /\ \A v \in Nat : Done("queue", v) => Done("queue", v)'
           /\ \A v \in Nat : Done("queue", v)' /\ (v <= cursor["queue"] \/ v \in Visible("queue"))
                               => Done("queue", v)
<1> DEFINE rows == Batch(After("queue"))
<1>1. /\ poll["queue"] = Idle /\ After("queue") # {} /\ StartBatch("queue", rows)
      /\ UNCHANGED <<history, arrived, cursor>> /\ "queue" \in Replayers
  BY DEF FetchBatch, sourceVars, Replayers
<1>2. After("queue") \in SUBSET Positions
  BY DEF After, Visible
<1>3. /\ rows \in SUBSET After("queue")
      /\ \A p \in rows, q \in After("queue") : q <= p => q \in rows
  BY <1>1, <1>2, BatchIsFirst, QueueFacts DEF Batch
<1>4. ASSUME NEW p \in After("queue") PROVE p \in rows \/ \A q \in rows : q < p
  <2>1. \A q \in After("queue") : q \in Nat
    BY <1>2, QueueFacts
  <2> HIDE DEF rows
  <2> QED
    BY <1>3, <2>1
<1> HIDE DEF rows
<1> QED
  BY <1>1, <1>3, <1>4, BatchFetched DEF Idle

(* A replayer's batches are complete as long as what its reads rely on is: *)
(* the queue on the sources being ahead of it, the validators on the two   *)
(* tables being read at once.                                              *)
LEMMA CompleteStep ==
    ASSUME TypeOK, NEW c \in Replayers, Complete(c), [Next]_vars,
           c = "queue" => "late" \notin harm', c = "validator" => "torn" \notin harm'
    PROVE  Complete(c)'
<1>1. ASSUME After(c)' = After(c), cursor'[c] = cursor[c], poll'[c] = poll[c] PROVE Complete(c)'
  BY <1>1 DEF Complete
<1>2. ASSUME poll'[c] = Idle PROVE Complete(c)'
  BY <1>2 DEF Complete, Idle
<1>3. ASSUME NEW e \in Event, Emit(e) PROVE Complete(c)'
  <2> DEFINE n == Len(history)
  <2>1. history' = Append(history, e) /\ UNCHANGED <<arrived, cursor, poll>>
    BY <1>3 DEF Emit
  <2>2. /\ Len(history') = n + 1 /\ n \in Nat
        /\ \A p \in 1 .. n : history'[p] = history[p]
    BY <2>1, PollFacts
  <2>3. After(c) \subseteq After(c)'
    BY <2>1, <2>2 DEF After, Visible, Positions
  <2>4. \A p \in After(c)' : p <= Committed(c) => p \in After(c)
    <3>1. \A p \in 1 .. n + 1 : p <= Committed(c) => p \in 1 .. n
      BY <2>2, PollFacts
    <3> QED
      BY <2>1, <2>2, <3>1 DEF After, Visible, Positions
  <2> QED
    BY <2>1, <2>3, <2>4, PassRests
<1>4. ASSUME NEW k \in Kinds, SourceCopies(k) PROVE Complete(c)'
  <2>1. CASE c = "queue"
    <3>1. /\ UNCHANGED <<history, queue, listed, validators, cursor, poll, reorgs>>
          /\ \A q \in Positions : q <= Committed("queue") =>
               (q <= arrived'[history[q].kind] <=> q <= arrived[history[q].kind])
          /\ \A q \in Positions : q <= arrived[history[q].kind] => q <= arrived'[history[q].kind]
      BY <1>4, <2>1, RowArrives
    <3>2. After(c) \subseteq After(c)'
      BY <2>1, <3>1 DEF After, Visible, Positions
    <3>3. \A p \in After(c)' : p <= Committed(c) => p \in After(c)
      BY <2>1, <3>1 DEF After, Visible, Positions
    <3> QED
      BY <3>1, <3>2, <3>3, PassRests
  <2>2. CASE c # "queue"
    <3>1. UNCHANGED <<history, cursor, poll>>
      BY <1>4 DEF SourceCopies
    <3> QED
      BY <1>1, <2>2, <3>1 DEF After, Visible, Positions
  <2> QED
    BY <2>1, <2>2
<1>5. ASSUME NEW d \in Replayers, PollStep(d) PROVE Complete(c)'
  <2>1. CASE FetchBatch
    <3> DEFINE rows == Batch(After("queue"))
    <3>1. /\ poll["queue"] = Idle /\ After("queue") # {} /\ StartBatch("queue", rows)
          /\ UNCHANGED <<history, arrived, cursor>>
      BY <2>1 DEF FetchBatch, sourceVars
    <3>2. CASE c = "queue"
      BY <2>1, <3>2, QueueFetches
    <3>3. CASE c # "queue"
      <4>1. poll'[c] = poll[c]
        BY <3>1, <3>3 DEF StartBatch, TypeOK
      <4> QED
        BY <1>1, <3>1, <4>1 DEF After, Visible, Positions
    <3> QED
      BY <3>2, <3>3
  <2>2. CASE ReadDeposits
    <3>1. /\ poll' = [poll EXCEPT !["validator"] = Reading(Batch(OfKind("deposit")))]
          /\ UNCHANGED <<history, arrived, cursor>>
      BY <2>2 DEF ReadDeposits, sourceVars
    <3>2. After(c)' = After(c)
      BY <3>1 DEF After, Visible, Positions
    <3>3. CASE c = "validator"
      <4>1. poll'[c] = Reading(Batch(OfKind("deposit")))
        BY <3>1, <3>3 DEF TypeOK
      <4>2. Batch(OfKind("deposit")) \subseteq After("validator")
        BY DEF Batch, OfKind
      <4> QED
        BY <3>2, <3>3, <4>1, <4>2 DEF Complete, Reading
    <3>4. CASE c # "validator"
      BY <1>1, <3>1, <3>2, <3>4 DEF TypeOK
    <3> QED
      BY <3>3, <3>4
  <2>3. CASE ReadGseDeposits
    <3> DEFINE rows == Batch(poll["validator"].rows \cup Batch(OfKind("gse")))
    <3>1. /\ StartBatch("validator", rows) /\ poll["validator"].at = "reading"
          /\ harm' = IF \A p \in After("validator") : p \in rows \/ \A q \in rows : q < p
                     THEN harm ELSE harm \cup {"torn"}
          /\ UNCHANGED <<history, arrived, cursor>>
      BY <2>3 DEF ReadGseDeposits, sourceVars
    <3>2. CASE c = "validator"
      <4>1. rows \in SUBSET After("validator")
        BY <3>1, <3>2 DEF Complete, Batch, OfKind
      <4>2. \A p \in After("validator") : p \in rows \/ \A q \in rows : q < p
        <5> HIDE DEF rows
        <5> QED
          BY <3>1, <3>2
      <4> HIDE DEF rows
      <4> QED
        BY <3>1, <3>2, <4>1, <4>2, BatchFetched
    <3>3. CASE c # "validator"
      <4>1. poll'[c] = poll[c]
        BY <3>1, <3>3 DEF StartBatch, TypeOK
      <4> QED
        BY <1>1, <3>1, <4>1 DEF After, Visible, Positions
    <3> QED
      BY <3>2, <3>3
  <2>4. CASE SaveCursor(d)
    <3>1. CASE c = d
      BY <2>4, <3>1, CursorSaved
    <3>2. CASE c # d
      <4>1. UNCHANGED <<history, arrived>> /\ poll'[c] = poll[c] /\ cursor'[c] = cursor[c]
        BY <2>4, <3>2 DEF SaveCursor, TypeOK, sourceVars
      <4> QED
        BY <1>1, <4>1 DEF After, Visible, Positions
    <3> QED
      BY <3>1, <3>2
  <2>5. ASSUME NEW p \in Positions, AddToQueue(p) \/ RemoveFromQueue(p) \/ UpsertValidator(p)
        PROVE  \E q \in Replayers : TakeRow(q, p)
    BY <2>5 DEF AddToQueue, RemoveFromQueue, UpsertValidator, Replayers
  <2>6. ASSUME NEW q \in Replayers, NEW p \in Positions, TakeRow(q, p) PROVE Complete(c)'
    <3>1. CASE c = q
      BY <2>6, <3>1, TakeFacts
    <3>2. CASE c # q
      <4>1. UNCHANGED <<history, arrived, cursor>> /\ poll'[c] = poll[c]
        BY <2>6, <3>2 DEF TakeRow, TypeOK, sourceVars
      <4> QED
        BY <1>1, <4>1 DEF After, Visible, Positions
    <3> QED
      BY <3>1, <3>2
  <2> QED
    BY <1>5, <2>1, <2>2, <2>3, <2>4, <2>5, <2>6 DEF PollStep
<1>6. ASSUME NEW C, Abandon(C) PROVE Complete(c)'
  <2>1. UNCHANGED <<history, arrived, cursor>> /\ (poll'[c] = Idle \/ poll'[c] = poll[c])
    BY <1>6 DEF Abandon, sourceVars
  <2> QED
    BY <1>1, <1>2, <2>1 DEF After, Visible, Positions
<1>7. ASSUME NEW n \in 0 .. MaxEvents, NEW b \in 0 .. n, NEW k \in 0 .. b, Reset(n, b, k)
      PROVE  Complete(c)'
  BY <1>2, <1>7 DEF Reset, Reached
<1>8. ASSUME NEW k \in 0 .. MaxEvents, Rewind(k) PROVE Complete(c)'
  BY <1>2, <1>8 DEF Rewind, Reached
<1>9. ASSUME NEW s, CollectorUpserts(s) PROVE Complete(c)'
  BY <1>1, <1>9 DEF CollectorUpserts, sourceVars, After, Visible, Positions
<1>10. CASE UNCHANGED vars
  BY <1>1, <1>10 DEF vars, sourceVars, After, Visible, Positions
<1> QED
  BY <1>3, <1>4, <1>5, <1>6, <1>7, <1>8, <1>9, <1>10 DEF Next, PollFails, Restart

(* What has happened stays known.                                          *)
LEMMA HarmGrows ==
    ASSUME [Next]_vars
    PROVE  harm \subseteq harm'
  BY DEF Next, vars, Emit, SourceCopies, PollStep, FetchBatch, ReadDeposits, ReadGseDeposits,
     AddToQueue, RemoveFromQueue, UpdateActivationDate, SwallowError, UpsertValidator, SaveCursor,
     CollectorUpserts, PollFails, Restart, Abandon, Reset, Rewind

BatchInvariant ==
    /\ TypeOK
    /\ "late" \notin harm => Complete("queue")
    /\ "torn" \notin harm => Complete("validator")

LEMMA BatchStart == Init => BatchInvariant
<1>1. Init => TypeOK
  BY QueueAssumption DEF Init, TypeOK, Polls
<1>2. Init => \A c \in Replayers : poll[c] = Idle
  BY DEF Init
<1> QED
  BY <1>1, <1>2 DEF BatchInvariant, Complete, Idle, Replayers

LEMMA BatchStep ==
    ASSUME BatchInvariant, [Next]_vars
    PROVE  BatchInvariant'
<1>1. TypeOK'
  <2>1. CASE UNCHANGED vars
    BY <2>1 DEF BatchInvariant, TypeOK, vars, sourceVars, tableVars, counters, Polls, Positions
  <2>2. CASE Next
    BY <2>2, PollTyped, WorldTyped DEF BatchInvariant
  <2> QED
    BY <2>1, <2>2
<1>2. "queue" \in Replayers /\ "validator" \in Replayers /\ "queue" # "validator"
  BY DEF Replayers
<1> QED
  BY <1>1, <1>2, CompleteStep, HarmGrows DEF BatchInvariant

----------------------------------------------------------------------------
(* Why the queue ends as the replay of the history.  Done: the pass over   *)
(* the events that began at the cursor has gone by v.  Where no row is     *)
(* missing below v, the entries up to v are then those of the replay, but  *)
(* for some that removals after v, made before or in an earlier pass, have *)
(* already taken; those removals are still to come in this pass, or they   *)
(* are behind it, or they can take nothing else.                           *)
SeenAll(v) == \A p \in 1 .. v : p <= arrived[history[p].kind]

(* No other entry of its staker before r.                                  *)
Once(e, r) ==
    \A p \in 1 .. r : history[p].kind = "queued" /\ history[p].staker = history[e].staker => p = e

NothingKept ==
    \A v \in 0 .. Len(history) : Done("queue", v) /\ SeenAll(v) =>
        \A p \in PositionsOf(queue) : p <= v => p \in Replay[v]

NothingMissed ==
    \A v \in 0 .. Len(history) : cursor["queue"] <= v /\ Done("queue", v) /\ SeenAll(v) =>
        \A e \in Replay[v] \ PositionsOf(queue) :
            \E r \in Positions : v < r /\ Removes(r, e) /\ (Done("queue", r) \/ Once(e, r))

Exact == NothingKept /\ NothingMissed

ReplayInvariant ==
    /\ BatchInvariant
    /\ NoGhostEntry
    /\ harm \cap {"late", "repeated", "undone"} = {} => Exact


(* Steps that move the pass alone.                                         *)
LEMMA PassMoves ==
    ASSUME TypeOK, NothingKept, NothingMissed, UNCHANGED <<history, arrived, queue>>,
           cursor'["queue"] \in Nat, cursor["queue"] <= cursor'["queue"],
           \A v \in 0 .. Len(history) : SeenAll(v) /\ Done("queue", v)' => Done("queue", v),
           \A v \in 0 .. Len(history) : \A e \in Replay[v] : \A r \in Positions :
              cursor["queue"] <= v /\ v < r /\ Done("queue", r) => Done("queue", r)' \/ Once(e, r)
    PROVE  NothingKept' /\ NothingMissed'
<1>1. /\ Positions' = Positions /\ PositionsOf(queue)' = PositionsOf(queue)
      /\ \A v : SeenAll(v)' = SeenAll(v)
      /\ \A r, e : Removes(r, e)' = Removes(r, e) /\ Once(e, r)' = Once(e, r)
  BY DEF Positions, PositionsOf, SeenAll, Removes, Once
<1>2. \A v \in 0 .. Len(history) : Replay'[v] = Replay[v]
  BY SameReplay, QueueFacts
<1>3. NothingKept'
  BY <1>1, <1>2 DEF NothingKept
<1>4. NothingMissed'
  <2> SUFFICES ASSUME NEW v \in 0 .. Len(history), cursor'["queue"] <= v, Done("queue", v)', SeenAll(v),
                      NEW e \in Replay[v], e \notin PositionsOf(queue)
               PROVE  \E r \in Positions : v < r /\ Removes(r, e) /\ (Done("queue", r)' \/ Once(e, r))
    BY <1>1, <1>2 DEF NothingMissed
  <2>1. cursor["queue"] <= v /\ Done("queue", v)
    BY QueueFacts
  <2>2. PICK r \in Positions : v < r /\ Removes(r, e) /\ (Done("queue", r) \/ Once(e, r))
    BY <2>1 DEF NothingMissed
  <2> QED
    BY <2>1, <2>2
<1> QED
  BY <1>3, <1>4

(* Steps of the other replayer.                                            *)
LEMMA OtherReplayer ==
    ASSUME TypeOK, Exact, UNCHANGED <<history, arrived, queue>>,
           cursor'["queue"] = cursor["queue"], poll'["queue"] = poll["queue"]
    PROVE  Exact'
<1>1. \A v : Done("queue", v)' = Done("queue", v)
  BY DEF Committed, Done
<1>2. cursor'["queue"] \in Nat /\ cursor["queue"] <= cursor'["queue"]
  BY QueueFacts
<1> QED
  BY <1>1, <1>2, PassMoves DEF Exact

LEMMA FetchExact ==
    ASSUME TypeOK, Exact, FetchBatch
    PROVE  Exact'
<1>1. UNCHANGED <<history, arrived, queue, cursor>>
  BY DEF FetchBatch, sourceVars, tableVars
<1>2. \A v \in 0 .. Len(history) : SeenAll(v) => v = 0 \/ v \in Visible("queue")
  BY QueueFacts DEF SeenAll, Visible, Positions
<1>3. \A r \in Positions : r \in Nat
  BY QueueFacts
<1>4. cursor'["queue"] \in Nat /\ cursor["queue"] <= cursor'["queue"] /\ 0 <= cursor["queue"]
  BY <1>1, QueueFacts
<1>5. \A v \in 0 .. Len(history) : SeenAll(v) /\ Done("queue", v)' => Done("queue", v)
  BY <1>2, <1>4, QueueFetches
<1> QED
  BY <1>1, <1>3, <1>4, <1>5, QueueFetches, PassMoves DEF Exact

LEMMA SaveExact ==
    ASSUME TypeOK, Exact, Complete("queue"), SaveCursor("queue")
    PROVE  Exact'
<1>1. "queue" \in Replayers
  BY DEF Replayers
<1> QED
  BY <1>1, CursorSaved, PassMoves DEF Exact

LEMMA AbandonExact ==
    ASSUME TypeOK, Exact, Complete("queue"), NEW C, Abandon(C), harm' \cap {"late", "repeated", "undone"} = {}
    PROVE  Exact'
<1>1. UNCHANGED <<history, arrived, queue, cursor>>
  BY DEF Abandon, sourceVars, tableVars
<1>2. CASE "queue" \notin C
  <2>1. poll'["queue"] = poll["queue"]
    BY <1>2 DEF Abandon, Replayers
  <2> QED
    BY <1>1, <2>1, OtherReplayer
<1>3. CASE "queue" \in C
  <2>1. poll'["queue"] = Idle
    BY <1>3 DEF Abandon, Replayers
  <2>2. ~ QueuedTwice(Committed("queue"))
    BY <1>3 DEF Abandon, Repeating
  <2>3. \A v : Done("queue", v)' <=> v <= cursor["queue"]
    BY <1>1, <2>1 DEF Done, Committed, Idle
  <2>4. ASSUME NEW v \in 0 .. Len(history), Done("queue", v)' PROVE Done("queue", v)
    <3>1. v <= cursor["queue"] /\ v \in Nat
      BY <2>3, <2>4
    <3>2. poll["queue"].at = "applying" => v <= poll["queue"].upto /\ \A t \in poll["queue"].todo : v < t
      BY <3>1, QueueFacts DEF Complete, After, Positions
    <3> QED
      BY <3>1, <3>2 DEF Done, Committed
  <2>5. ASSUME NEW v \in 0 .. Len(history), NEW e \in Replay[v], NEW r \in Positions,
               v < r, Done("queue", r)
        PROVE  Once(e, r)
    <3>1. e \in 1 .. v /\ history[e].kind = "queued"
      BY ReplayBounds, QueueFacts
    <3>2. r <= Committed("queue") /\ Committed("queue") \in Nat
      BY <2>5, QueueFacts DEF Done
    <3>3. \A p \in 1 .. r : p \in 1 .. Committed("queue")
      BY <3>2, QueueFacts
    <3>4. e \in 1 .. Committed("queue")
      BY <2>5, <3>1, <3>2, QueueFacts
    <3> QED
      BY <2>2, <3>1, <3>3, <3>4 DEF QueuedTwice, Once
  <2>6. cursor'["queue"] \in Nat /\ cursor["queue"] <= cursor'["queue"]
    BY <1>1, QueueFacts
  <2>7. NothingKept' /\ NothingMissed'
    BY <1>1, <2>4, <2>5, <2>6, PassMoves DEF Exact
  <2> QED
    BY <2>7 DEF Exact
<1> QED
  BY <1>2, <1>3

LEMMA SourceExact ==
    ASSUME TypeOK, Exact, NEW k \in Kinds, SourceCopies(k), harm' \cap {"late", "repeated", "undone"} = {}
    PROVE  Exact'
<1>1. /\ UNCHANGED <<history, queue, listed, validators, cursor, poll, reorgs>>
      /\ \A q \in Positions : q <= Committed("queue") =>
           (q <= arrived'[history[q].kind] <=> q <= arrived[history[q].kind])
  BY RowArrives
<1>2. /\ Positions' = Positions /\ PositionsOf(queue)' = PositionsOf(queue)
      /\ \A v : Done("queue", v)' = Done("queue", v)
      /\ \A r, e : Removes(r, e)' = Removes(r, e) /\ Once(e, r)' = Once(e, r)
      /\ \A v \in 0 .. Len(history) : Replay'[v] = Replay[v]
  BY <1>1, SameReplay, QueueFacts DEF Positions, PositionsOf, Committed, Done, Removes, Once
<1>3. \A v \in 0 .. Len(history) : Done("queue", v) /\ SeenAll(v)' => SeenAll(v)
  <2> SUFFICES ASSUME NEW v \in 0 .. Len(history), Done("queue", v), SeenAll(v)', NEW q \in 1 .. v
               PROVE  q <= arrived[history[q].kind]
    BY DEF SeenAll
  <2>1. q \in Positions /\ q <= Committed("queue")
    BY QueueFacts DEF Done, Positions
  <2>2. q <= arrived'[history[q].kind]
    BY <1>1 DEF SeenAll
  <2> QED
    BY <1>1, <2>1, <2>2
<1>4. NothingKept'
  BY <1>1, <1>2, <1>3 DEF Exact, NothingKept
<1>5. NothingMissed'
  BY <1>1, <1>2, <1>3 DEF Exact, NothingMissed
<1> QED
  BY <1>4, <1>5 DEF Exact

LEMMA EmitExact ==
    ASSUME TypeOK, NoGhostEntry, Exact, NEW e \in Event, Emit(e)
    PROVE  Exact'
<1>1. history' = Append(history, e) /\ UNCHANGED <<arrived, queue, cursor, poll>>
  BY DEF Emit, tableVars
<1> DEFINE n == Len(history)
<1>2. /\ (history \in Seq(Event))' /\ Len(history') = n + 1 /\ n \in Nat
      /\ \A p \in 1 .. n : history'[p] = history[p]
  BY <1>1, QueueFacts
<1>3. \A m \in 0 .. n : Replay'[m] = Replay[m]
  BY <1>2, QueueFacts, ReplayOfPrefix
<1>4. Committed("queue")' = Committed("queue") /\ \A v : Done("queue", v)' = Done("queue", v)
  BY <1>1 DEF Committed, Done
<1>5. \A v \in 0 .. n + 1 : Done("queue", v) => v \in 0 .. n
  BY <1>2, QueueFacts DEF Done
<1>6. PositionsOf(queue)' = PositionsOf(queue)
  BY <1>1 DEF PositionsOf
<1>7. \A v \in 0 .. n : SeenAll(v)' => SeenAll(v)
  BY <1>1, <1>2 DEF SeenAll
<1>8. \A r, x \in 1 .. n : (Removes(r, x) => Removes(r, x)') /\ (Once(x, r) => Once(x, r)')
  BY <1>2 DEF Removes, Once
<1>9. NothingKept'
  <2> SUFFICES ASSUME NEW v \in 0 .. n + 1, Done("queue", v), SeenAll(v)', NEW p \in PositionsOf(queue), p <= v
               PROVE  p \in Replay'[v]
    BY <1>2, <1>4, <1>6 DEF NothingKept
  <2>1. v \in 0 .. n /\ SeenAll(v)
    BY <1>5, <1>7
  <2>2. p \in Replay[v]
    BY <2>1 DEF Exact, NothingKept
  <2> QED
    BY <1>3, <2>1, <2>2
<1>10. NothingMissed'
  <2> SUFFICES ASSUME NEW v \in 0 .. n + 1, cursor["queue"] <= v, Done("queue", v), SeenAll(v)',
                      NEW x \in Replay'[v], x \notin PositionsOf(queue)
               PROVE  \E r \in Positions' : v < r /\ Removes(r, x)' /\ (Done("queue", r)' \/ Once(x, r)')
    BY <1>1, <1>2, <1>4, <1>6 DEF NothingMissed
  <2>1. v \in 0 .. n /\ SeenAll(v) /\ x \in Replay[v]
    BY <1>3, <1>5, <1>7
  <2>2. PICK r \in Positions : v < r /\ Removes(r, x) /\ (Done("queue", r) \/ Once(x, r))
    BY <2>1 DEF Exact, NothingMissed
  <2>3. x \in 1 .. n /\ r \in 1 .. n /\ r \in Positions'
    <3>1. x \in 1 .. v
      BY <2>1, ReplayBounds, QueueFacts
    <3> QED
      BY <1>2, <2>1, <3>1 DEF Positions
  <2> QED
    BY <1>4, <1>8, <2>2, <2>3
<1> QED
  BY <1>9, <1>10 DEF Exact

LEMMA AddExact ==
    ASSUME TypeOK, NoGhostEntry, Exact, Complete("queue"), NEW n \in Positions, AddToQueue(n)
    PROVE  Exact'
<1>1. TakeRow("queue", n) /\ history[n].kind = "queued"
      /\ queue' = queue \cup {[at |-> n, staker |-> history[n].staker]}
  BY DEF AddToQueue
<1>2. /\ UNCHANGED <<history, arrived, cursor>>
      /\ cursor["queue"] <= n - 1 /\ n - 1 \in 0 .. Len(history)
      /\ Done("queue", n - 1) /\ (\A v : Done("queue", v) => v < n)
      /\ Done("queue", n)' /\ \A r : Done("queue", r) => Done("queue", r)'
      /\ \A v \in 0 .. Len(history) : SeenAll(v) /\ Done("queue", v)' => v = n \/ Done("queue", v)
  <2>1. "queue" \in Replayers
    BY DEF Replayers
  <2>2. \A v \in 0 .. Len(history) : v \in Nat /\ (SeenAll(v) => v = 0 \/ v \in Visible("queue"))
    BY QueueFacts DEF SeenAll, Visible, Positions
  <2> QED
    BY <1>1, <2>1, <2>2, TakeFacts
<1>3. PositionsOf(queue)' = PositionsOf(queue) \cup {n}
  <2> DEFINE entry == [at |-> n, staker |-> history[n].staker]
  <2>1. entry.at = n /\ queue' = queue \cup {entry}
    BY <1>1
  <2> HIDE DEF entry
  <2> QED
    BY <2>1 DEF PositionsOf
<1>4. /\ Positions' = Positions
      /\ \A v : SeenAll(v)' = SeenAll(v)
      /\ \A r, e : Removes(r, e)' = Removes(r, e) /\ Once(e, r)' = Once(e, r)
      /\ \A v \in 0 .. Len(history) : Replay'[v] = Replay[v]
  BY <1>2, SameReplay, QueueFacts DEF Positions, SeenAll, Removes, Once
<1>5. Replay[n] = Replay[n - 1] \cup {n}
  BY <1>1, ReplayRuns, QueueFacts DEF ReplayLaw
<1>6. n \in 1 .. Len(history) /\ \A p \in PositionsOf(queue) : p \in Nat
  BY QueueFacts DEF NoGhostEntry, PositionsOf, Positions
<1>7. SeenAll(n) => SeenAll(n - 1)
  BY <1>6 DEF SeenAll
<1>8. NothingKept'
  <2> SUFFICES ASSUME NEW v \in 0 .. Len(history), Done("queue", v)', SeenAll(v),
                      NEW p \in PositionsOf(queue) \cup {n}, p <= v
               PROVE  p \in Replay[v]
    BY <1>2, <1>3, <1>4 DEF NothingKept
  <2>1. CASE v = n
    <3>1. p # n => p \in PositionsOf(queue) /\ p <= n - 1
      BY <1>6, <2>1
    <3>2. p # n => p \in Replay[n - 1]
      BY <1>2, <1>7, <2>1, <3>1 DEF Exact, NothingKept
    <3> QED
      BY <1>5, <2>1, <3>2
  <2>2. CASE v # n
    <3>1. Done("queue", v)
      BY <1>2, <2>2
    <3>2. p # n
      <4>1. v < n
        BY <1>2, <3>1
      <4> QED
        BY <1>6, <4>1
    <3> QED
      BY <3>1, <3>2 DEF Exact, NothingKept
  <2> QED
    BY <2>1, <2>2
<1>9. NothingMissed'
  <2> SUFFICES ASSUME NEW v \in 0 .. Len(history), cursor["queue"] <= v, Done("queue", v)', SeenAll(v),
                      NEW e \in Replay[v], e \notin PositionsOf(queue), e # n
               PROVE  \E r \in Positions : v < r /\ Removes(r, e) /\ (Done("queue", r)' \/ Once(e, r))
    BY <1>2, <1>3, <1>4 DEF NothingMissed
  <2>1. CASE v = n
    <3>1. e \in Replay[n - 1] /\ SeenAll(n - 1)
      BY <1>5, <1>7, <2>1
    <3>2. PICK r \in Positions : n - 1 < r /\ Removes(r, e) /\ (Done("queue", r) \/ Once(e, r))
      BY <1>2, <3>1 DEF Exact, NothingMissed
    <3>3. r # n
      BY <1>1, <3>2 DEF Removes
    <3>4. n < r
      BY <1>6, <3>2, <3>3, QueueFacts
    <3> QED
      BY <1>2, <2>1, <3>2, <3>4
  <2>2. CASE v # n
    BY <1>2, <2>2 DEF Exact, NothingMissed
  <2> QED
    BY <2>1, <2>2
<1> QED
  BY <1>8, <1>9 DEF Exact

LEMMA RemoveExact ==
    ASSUME TypeOK, NoGhostEntry, Exact, Complete("queue"), NEW n \in Positions, RemoveFromQueue(n)
    PROVE  Exact'
<1> DEFINE inQueue == {p \in PositionsOf(queue) : history[p].staker = history[n].staker}
           inReplay == {p \in Replay[n - 1] : history[p].staker = history[n].staker}
<1>1. TakeRow("queue", n) /\ history[n].kind # "queued"
  BY DEF RemoveFromQueue
<1>2. /\ UNCHANGED <<history, arrived, cursor>>
      /\ cursor["queue"] <= n - 1 /\ n - 1 \in 0 .. Len(history)
      /\ Done("queue", n - 1) /\ (\A v : Done("queue", v) => v < n)
      /\ Done("queue", n)' /\ \A r : Done("queue", r) => Done("queue", r)'
      /\ \A v \in 0 .. Len(history) : SeenAll(v) /\ Done("queue", v)' => v = n \/ Done("queue", v)
  <2>1. "queue" \in Replayers
    BY DEF Replayers
  <2>2. \A v \in 0 .. Len(history) : v \in Nat /\ (SeenAll(v) => v = 0 \/ v \in Visible("queue"))
    BY QueueFacts DEF SeenAll, Visible, Positions
  <2> QED
    BY <1>1, <2>1, <2>2, TakeFacts
<1>3. PositionsOf(queue)' = PositionsOf(queue) \ Oldest(inQueue)
  <2>1. PositionsOf({x \in queue : x.staker = history[n].staker}) = inQueue
    BY DEF NoGhostEntry, PositionsOf
  <2>2. queue' = {x \in queue : x.at \notin Oldest(inQueue)}
    BY <2>1 DEF RemoveFromQueue
  <2> HIDE DEF inQueue
  <2> QED
    BY <2>2 DEF PositionsOf
<1>4. /\ Positions' = Positions
      /\ \A v : SeenAll(v)' = SeenAll(v)
      /\ \A r, e : Removes(r, e)' = Removes(r, e) /\ Once(e, r)' = Once(e, r)
      /\ \A v \in 0 .. Len(history) : Replay'[v] = Replay[v]
  BY <1>2, SameReplay, QueueFacts DEF Positions, SeenAll, Removes, Once
<1>5. Replay[n] = Replay[n - 1] \ Oldest(inReplay)
  BY <1>1, ReplayRuns, QueueFacts DEF ReplayLaw
<1>6. n \in 1 .. Len(history) /\ n \in Positions'
      /\ \A p \in PositionsOf(queue) : p \in Nat /\ history[p].kind = "queued"
  BY <1>4, QueueFacts DEF NoGhostEntry, PositionsOf, Positions
<1>7. SeenAll(n) => SeenAll(n - 1)
  BY <1>6 DEF SeenAll
<1>8. \A e \in Replay[n - 1] : e \in 1 .. n - 1 /\ history[e].kind = "queued"
  BY <1>2, ReplayBounds, QueueFacts
(* While nothing is missing, what is queued for the staker up to n is also *)
(* in the replay.                                                          *)
<1>9. SeenAll(n) => \A p \in PositionsOf(queue) : p <= n - 1 => p \in Replay[n - 1]
  BY <1>2, <1>7 DEF Exact, NothingKept
<1>10. NothingKept'
  <2> SUFFICES ASSUME NEW v \in 0 .. Len(history), Done("queue", v)', SeenAll(v),
                      NEW p \in PositionsOf(queue), p \notin Oldest(inQueue), p <= v
               PROVE  p \in Replay[v]
    BY <1>2, <1>3, <1>4 DEF NothingKept
  <2>1. CASE v = n
    <3>1. p <= n - 1
      BY <1>1, <1>6, <2>1
    <3>2. p \in Replay[n - 1]
      BY <1>9, <2>1, <3>1
    <3>3. ASSUME p \in Oldest(inReplay) PROVE FALSE
      <4>1. /\ p \in inReplay /\ history[p].staker = history[n].staker
            /\ \A q \in inReplay : p <= q
        BY <3>3 DEF Oldest
      <4>2. p \in inQueue
        BY <4>1
      <4>3. PICK q \in inQueue : ~ (p <= q)
        BY <4>2 DEF Oldest
      <4>4. q \in PositionsOf(queue) /\ q <= n - 1 /\ history[q].staker = history[n].staker
        BY <1>6, <3>1, <4>3
      <4>5. q \in inReplay
        BY <1>9, <2>1, <4>4
      <4> QED
        BY <4>1, <4>3, <4>5
    <3> QED
      BY <1>5, <2>1, <3>2, <3>3
  <2>2. CASE v # n
    BY <1>2, <2>2 DEF Exact, NothingKept
  <2> QED
    BY <2>1, <2>2
<1>11. NothingMissed'
  <2> SUFFICES ASSUME NEW v \in 0 .. Len(history), cursor["queue"] <= v, Done("queue", v)', SeenAll(v),
                      NEW e \in Replay[v], e \notin PositionsOf(queue) \ Oldest(inQueue)
               PROVE  \E r \in Positions : v < r /\ Removes(r, e) /\ (Done("queue", r)' \/ Once(e, r))
    BY <1>2, <1>3, <1>4 DEF NothingMissed
  (* Of what the replay holds before n, nothing is missing in the queue    *)
  (* but what a removal takes that comes at n or later and is not done.    *)
  <2>1. ASSUME v = n, NEW x \in Replay[n - 1], x \notin PositionsOf(queue)
        PROVE  \E r \in Positions : n <= r /\ Removes(r, x) /\ Once(x, r)
    <3>1. SeenAll(n - 1)
      BY <1>7, <2>1
    <3>2. PICK r \in Positions : n - 1 < r /\ Removes(r, x) /\ (Done("queue", r) \/ Once(x, r))
      BY <1>2, <2>1, <3>1 DEF Exact, NothingMissed
    <3>3. n <= r
      BY <1>6, <3>2, QueueFacts
    <3>4. ~ Done("queue", r)
      BY <1>2, <1>6, <3>3, QueueFacts
    <3> QED
      BY <3>2, <3>3, <3>4
  <2>2. CASE v = n
    <3>1. e \in Replay[n - 1] /\ e \notin Oldest(inReplay)
      BY <1>5, <2>2
    <3>2. CASE e \notin PositionsOf(queue)
      <4>1. PICK r \in Positions : n <= r /\ Removes(r, e) /\ Once(e, r)
        BY <2>1, <2>2, <3>1, <3>2
      <4>2. r # n
        <5>1. ASSUME r = n PROVE e \in Oldest(inReplay)
          <6>1. e \in inReplay
            BY <3>1, <4>1, <5>1 DEF Removes
          <6>2. ASSUME NEW q \in inReplay PROVE q = e
            <7>1. q \in 1 .. n /\ history[q].kind = "queued"
              BY <1>8, <1>6
            <7> QED
              BY <4>1, <5>1, <6>1, <7>1 DEF Once
          <6> QED
            BY <1>8, <3>1, <6>1, <6>2 DEF Oldest
        <5> QED
          BY <3>1, <5>1
      <4> QED
        BY <1>6, <2>2, <4>1, <4>2, QueueFacts
    <3>3. CASE e \in Oldest(inQueue)
      <4>1. /\ history[e].staker = history[n].staker /\ e \in inReplay
            /\ \A q \in inQueue : e <= q
        BY <3>1, <3>3 DEF Oldest
      <4>2. PICK o \in inReplay : ~ (e <= o)
        BY <3>1, <4>1 DEF Oldest
      <4>3. o \in Replay[n - 1] /\ o \notin PositionsOf(queue)
        BY <4>1, <4>2
      <4>4. PICK r \in Positions : n <= r /\ Removes(r, o) /\ Once(o, r)
        BY <2>1, <2>2, <4>3
      <4>5. e \in 1 .. r /\ history[e].kind = "queued"
        BY <1>6, <1>8, <3>1, <4>4, QueueFacts
      <4>6. e = o
        BY <4>1, <4>2, <4>4, <4>5 DEF Once
      <4> QED
        BY <1>8, <3>1, <4>2, <4>6
    <3> QED
      BY <3>2, <3>3
  <2>3. CASE v # n
    <3>1. Done("queue", v)
      BY <1>2, <2>3
    <3>2. CASE e \notin PositionsOf(queue)
      BY <1>2, <3>1, <3>2 DEF Exact, NothingMissed
    <3>3. CASE e \in Oldest(inQueue)
      <4>1. Removes(n, e)
        BY <1>1, <3>3 DEF Removes, Oldest
      <4>2. v < n /\ Done("queue", n)'
        BY <1>2, <3>1
      <4> QED
        BY <4>1, <4>2
    <3> QED
      BY <3>2, <3>3
  <2> QED
    BY <2>2, <2>3
<1> QED
  BY <1>10, <1>11 DEF Exact

(* A pass starts again at k: what was removed after k is removed again,    *)
(* and there is nothing else to remove.                                    *)
LEMMA RemovedOnce ==
    ASSUME TypeOK, NEW k \in 0 .. Len(history), NEW m \in 0 .. Len(history), k <= m,
           ~ QueuedTwice(m), NEW e \in Replay[k], e \notin Replay[m]
    PROVE  \E r \in Positions : k < r /\ r <= m /\ Removes(r, e) /\ Once(e, r)
<1>1. PICK r \in Positions : k < r /\ r <= m /\ Removes(r, e)
  BY ReplayRemoved, QueueFacts
<1>2. e \in 1 .. k /\ history[e].kind = "queued"
  BY ReplayBounds, QueueFacts
<1>3. Once(e, r)
  <2>1. e \in 1 .. m /\ \A p \in 1 .. r : p \in 1 .. m
    BY <1>1, <1>2, QueueFacts
  <2> QED
    BY <1>2, <2>1 DEF QueuedTwice, Once
<1> QED
  BY <1>1, <1>3

LEMMA ReachedFacts ==
    ASSUME TypeOK, NEW b \in 0 .. Len(history), Reached(b)
    PROVE  /\ poll["queue"] = Idle /\ b <= cursor["queue"] /\ SeenAll(b)
           /\ \A v : Done("queue", v) <=> v <= cursor["queue"]
<1>1. poll["queue"] = Idle /\ \A p \in After("queue") : b < p
  BY DEF Reached, Replayers
<1>2. SeenAll(b)
  BY DEF Reached, SeenAll
<1>3. b <= cursor["queue"]
  <2>1. SUFFICES ASSUME cursor["queue"] < b PROVE FALSE
    BY QueueFacts
  <2>2. b \in After("queue")
    BY <1>2, <2>1, QueueFacts DEF After, Visible, SeenAll, Positions
  <2> QED
    BY <1>1, <2>2
<1> QED
  BY <1>1, <1>2, <1>3 DEF Done, Committed, Idle

LEMMA RewindExact ==
    ASSUME TypeOK, Exact, NEW k \in 0 .. MaxEvents, Rewind(k), harm' \cap {"late", "repeated", "undone"} = {}
    PROVE  Exact'
<1>1. /\ k \in 0 .. Len(history) /\ Reached(k)
      /\ UNCHANGED <<history, arrived, queue, poll>>
      /\ cursor' = [c \in Replayers |-> k]
      /\ ~ QueuedTwice(Len(history))
      /\ 1 .. cursor["queue"] \subseteq Visible("queue")
  <2>1. "repeated" \notin harm' /\ "late" \notin harm'
    OBVIOUS
  <2> QED
    BY <2>1, QueueFacts DEF Rewind, Rewound, Repeating, sourceVars, tableVars
<1>2. /\ poll["queue"] = Idle /\ k <= cursor["queue"] /\ SeenAll(k)
      /\ \A v : Done("queue", v) <=> v <= cursor["queue"]
  BY <1>1, ReachedFacts
<1>3. SeenAll(cursor["queue"])
  BY <1>1 DEF SeenAll, Visible
<1>4. cursor'["queue"] = k /\ \A v : Done("queue", v)' <=> v <= k
  BY <1>1, <1>2 DEF Replayers, Done, Committed, Idle
<1>5. /\ Positions' = Positions /\ PositionsOf(queue)' = PositionsOf(queue)
      /\ \A v : SeenAll(v)' = SeenAll(v)
      /\ \A r, e : Removes(r, e)' = Removes(r, e) /\ Once(e, r)' = Once(e, r)
      /\ \A v \in 0 .. Len(history) : Replay'[v] = Replay[v]
  BY <1>1, SameReplay, QueueFacts DEF Positions, PositionsOf, SeenAll, Removes, Once
<1>6. NothingKept'
  <2>1. \A v \in 0 .. Len(history) : v <= k => Done("queue", v)
    BY <1>2, QueueFacts
  <2> QED
    BY <1>1, <1>4, <1>5, <2>1 DEF Exact, NothingKept
<1>7. NothingMissed'
  <2> SUFFICES ASSUME NEW e \in Replay[k], e \notin PositionsOf(queue)
               PROVE  \E r \in Positions : k < r /\ Removes(r, e) /\ Once(e, r)
    <3>1. \A v \in 0 .. Len(history) : k <= v /\ v <= k => v = k
      BY <1>1
    <3> QED
      BY <1>1, <1>4, <1>5, <3>1 DEF NothingMissed
  <2>1. cursor["queue"] \in 0 .. Len(history) /\ Done("queue", cursor["queue"]) /\ cursor["queue"] <= cursor["queue"]
    BY <1>2, QueueFacts
  <2>2. CASE e \in Replay[cursor["queue"]]
    <3>1. PICK r \in Positions : cursor["queue"] < r /\ Removes(r, e) /\ (Done("queue", r) \/ Once(e, r))
      BY <1>3, <2>1, <2>2 DEF Exact, NothingMissed
    <3> QED
      BY <1>1, <1>2, <2>1, <3>1, QueueFacts
  <2>3. CASE e \notin Replay[cursor["queue"]]
    <3>1. ~ QueuedTwice(cursor["queue"])
      BY <1>1, <2>1, QueueFacts DEF QueuedTwice
    <3> QED
      BY <1>1, <1>2, <2>1, <2>3, <3>1, RemovedOnce
  <2> QED
    BY <2>2, <2>3
<1> QED
  BY <1>6, <1>7 DEF Exact

LEMMA ResetExact ==
    ASSUME TypeOK, NoGhostEntry, Exact, NEW n \in 0 .. MaxEvents, NEW b \in 0 .. n, NEW k \in 0 .. b,
           Reset(n, b, k), harm' \cap {"late", "repeated", "undone"} = {}
    PROVE  Exact'
<1>1. /\ n < Len(history) /\ Reached(b)
      /\ history' = SubSeq(history, 1, n)
      /\ queue' = {x \in queue : x.at <= b}
      /\ UNCHANGED poll /\ cursor' = [c \in Replayers |-> k]
      /\ ~ QueuedTwice(b)
      /\ \A p \in Replay[b] : p <= k => p \in PositionsOf(queue)
  BY DEF Reset, Rewound, Repeating, DeleteAfter
<1>2. /\ n \in Nat /\ b \in 0 .. Len(history) /\ k \in 0 .. Len(history) /\ k <= b /\ b <= n
      /\ n \in 0 .. MaxEvents
  BY <1>1, QueueAssumption, QueueFacts
<1>3. /\ (history \in Seq(Event))' /\ Len(history') = n
      /\ \A p \in 1 .. n : history'[p] = history[p]
  BY <1>1, <1>2, HistoryStep, QueueFacts
<1>4. \A v \in 0 .. n : Replay'[v] = Replay[v]
  <2>1. history \in Seq(Event) /\ n <= Len(history) /\ n <= Len(history')
    BY <1>1, <1>2, <1>3, QueueFacts
  <2> QED
    BY <1>2, <1>3, <2>1, ReplayOfPrefix
<1>5. /\ poll["queue"] = Idle /\ b <= cursor["queue"] /\ SeenAll(b)
      /\ \A v : Done("queue", v) <=> v <= cursor["queue"]
  BY <1>1, <1>2, ReachedFacts
<1>6. cursor'["queue"] = k /\ \A v : Done("queue", v)' <=> v <= k
  BY <1>1, <1>5 DEF Replayers, Done, Committed, Idle
<1>7. \A p : p \in PositionsOf(queue)' <=> p \in PositionsOf(queue) /\ p <= b
  BY <1>1 DEF PositionsOf
<1>8. NothingKept'
  <2> SUFFICES ASSUME NEW v \in 0 .. n, v <= k, NEW p \in PositionsOf(queue), p <= v
               PROVE  p \in Replay[v]
    BY <1>3, <1>4, <1>6, <1>7 DEF NothingKept
  <2>1. v \in 0 .. Len(history) /\ Done("queue", v) /\ SeenAll(v)
    BY <1>2, <1>5, QueueFacts DEF SeenAll
  <2> QED
    BY <2>1 DEF Exact, NothingKept
<1>9. NothingMissed'
  <2> SUFFICES ASSUME NEW e \in Replay[k], ~ (e \in PositionsOf(queue) /\ e <= b)
               PROVE  \E r \in Positions' : k < r /\ Removes(r, e)' /\ Once(e, r)'
    <3>1. \A v \in 0 .. n : k <= v /\ v <= k => v = k
      BY <1>2
    <3>2. k \in 0 .. n
      BY <1>2
    <3> QED
      BY <1>3, <1>4, <1>6, <1>7, <3>1, <3>2 DEF NothingMissed
  <2>1. e \in 1 .. k
    BY <1>2, ReplayBounds, QueueFacts
  <2>2. e <= k /\ e <= b /\ e \in 1 .. n
    BY <1>2, <2>1
  <2>3. e \notin Replay[b]
    BY <1>1, <2>2
  <2>4. PICK r \in Positions : k < r /\ r <= b /\ Removes(r, e) /\ Once(e, r)
    BY <1>1, <1>2, <2>3, RemovedOnce
  <2>5. r \in 1 .. n /\ r \in Positions'
    BY <1>2, <1>3, <2>4 DEF Positions
  <2>6. Removes(r, e)' /\ Once(e, r)'
    BY <1>3, <2>2, <2>4, <2>5 DEF Removes, Once
  <2> QED
    BY <2>4, <2>5, <2>6
<1> QED
  BY <1>8, <1>9 DEF Exact

LEMMA ReplayStep ==
    ASSUME ReplayInvariant, [Next]_vars
    PROVE  ReplayInvariant'
<1> USE DEF ReplayInvariant
<1>1. TypeOK /\ BatchInvariant' /\ GhostInvariant'
  BY BatchStep, GhostStep DEF BatchInvariant, GhostInvariant, TypeOK
<1>3. harm \subseteq harm'
  BY HarmGrows
<1>4. SUFFICES ASSUME harm' \cap {"late", "repeated", "undone"} = {} PROVE Exact'
  BY <1>1 DEF GhostInvariant
<1>5. Exact /\ Complete("queue")
  BY <1>3, <1>4 DEF BatchInvariant
<1>6. ASSUME NEW c \in Replayers, PollStep(c) PROVE Exact'
  <2>1. CASE FetchBatch
    BY <1>1, <1>5, <2>1, FetchExact
  <2>2. CASE ReadDeposits \/ ReadGseDeposits
    <3>1. UNCHANGED <<history, arrived, queue, cursor>>
      BY <2>2 DEF ReadDeposits, ReadGseDeposits, sourceVars, tableVars
    <3>2. \E x : poll' = [poll EXCEPT !["validator"] = x]
      BY <2>2 DEF ReadDeposits, ReadGseDeposits, StartBatch
    <3>3. poll'["queue"] = poll["queue"]
      BY <3>2 DEF TypeOK, Replayers
    <3> QED
      BY <1>1, <1>5, <3>1, <3>3, OtherReplayer
  <2>3. ASSUME NEW p \in Positions, AddToQueue(p) PROVE Exact'
    BY <1>1, <1>4, <1>5, <2>3, AddExact
  <2>4. ASSUME NEW p \in Positions, RemoveFromQueue(p) PROVE Exact'
    BY <1>1, <1>4, <1>5, <2>4, RemoveExact
  <2>5. ASSUME NEW p \in Positions, UpsertValidator(p) PROVE Exact'
    BY <1>1, <1>5, <2>5, OtherReplayer DEF UpsertValidator, TakeRow, sourceVars, TypeOK
  <2>6. CASE SaveCursor(c)
    <3>1. CASE c = "queue"
      BY <1>1, <1>5, <2>6, <3>1, SaveExact
    <3>2. CASE c # "queue"
      BY <1>1, <1>5, <2>6, <3>2, OtherReplayer DEF SaveCursor, sourceVars, tableVars, TypeOK
    <3> QED
      BY <3>1, <3>2
  <2> QED
    BY <1>6, <2>1, <2>2, <2>3, <2>4, <2>5, <2>6 DEF PollStep
<1>7. ASSUME NEW s, CollectorUpserts(s) PROVE Exact'
  BY <1>1, <1>5, <1>7, OtherReplayer DEF CollectorUpserts, sourceVars
<1>8. CASE UNCHANGED vars
  BY <1>1, <1>5, <1>8, OtherReplayer DEF vars, sourceVars, tableVars
<1> QED
  BY <1>1, <1>4, <1>5, <1>6, <1>7, <1>8, EmitExact, SourceExact, AbandonExact, ResetExact, RewindExact
     DEF Next, PollFails, Restart

(* Once everything is caught up the queue is the FIFO replay of the chain: *)
(* what validator-queue.ts computes from its four tables, whatever crashes,*)
(* reorganisations and re-indexes came in between, unless the replay was   *)
(* harmed in one of the three ways it does not survive.                    *)
THEOREM QueueIsExact == Spec => []QueueIsReplay
<1>1. Init => ReplayInvariant
  <2> SUFFICES ASSUME Init PROVE ReplayInvariant
    OBVIOUS
  <2>1. TypeOK /\ NoGhostEntry /\ BatchInvariant
    BY BatchStart DEF BatchInvariant, Init, NoGhostEntry
  <2>2. Replay[0] = {}
    BY <2>1, ReplayRuns DEF TypeOK, ReplayLaw
  <2>3. Len(history) = 0 /\ PositionsOf(queue) = {} /\ poll["queue"] = Idle
    BY DEF Init, PositionsOf, Replayers
  <2> QED
    BY <2>1, <2>2, <2>3
       DEF ReplayInvariant, Exact, NothingKept, NothingMissed
<1>2. ReplayInvariant /\ [Next]_vars => ReplayInvariant'
  BY ReplayStep
<1>3. ReplayInvariant => QueueIsReplay
  <2> SUFFICES ASSUME ReplayInvariant, CaughtUp, harm \cap {"late", "repeated", "undone"} = {} PROVE QueueReplayed
    BY DEF QueueIsReplay
  <2> DEFINE n == Len(history)
  <2>1. TypeOK /\ Exact /\ poll["queue"] = Idle /\ After("queue") = {} /\ SeenAll(n) /\ n \in 0 .. n
    BY QueueFacts DEF ReplayInvariant, BatchInvariant, CaughtUp, SeenAll, Positions, Replayers
  <2>2. n <= cursor["queue"]
    <3>1. SUFFICES ASSUME cursor["queue"] < n PROVE FALSE
      BY <2>1, QueueFacts
    <3>2. n \in After("queue")
      BY <2>1, <3>1, QueueFacts DEF After, Visible, SeenAll, Positions
    <3> QED
      BY <2>1, <3>2
  <2>3. cursor["queue"] = n /\ Done("queue", n)
    BY <2>1, <2>2, QueueFacts DEF Done, Committed, Idle
  <2>4. \A p \in PositionsOf(queue) : p <= n
    BY DEF ReplayInvariant, NoGhostEntry, PositionsOf, Positions
  <2>5. PositionsOf(queue) \subseteq Replay[n]
    BY <2>1, <2>3, <2>4 DEF Exact, NothingKept
  <2>6. Replay[n] \subseteq PositionsOf(queue)
    <3>1. \A r \in Positions : ~ (n < r)
      BY DEF Positions
    <3> QED
      BY <2>1, <2>3, <3>1 DEF Exact, NothingMissed
  <2> QED
    BY <2>5, <2>6 DEF QueueReplayed
<1> QED
  BY <1>1, <1>2, <1>3, PTL DEF Spec

----------------------------------------------------------------------------
(* Why activation dates end at the last deposit. A date is in a row, and   *)
(* everybody whose viewed deposit is done has a row; once no pass has a    *)
(* deposit of the staker before it, what was written last is the last      *)
(* deposit of the pass that wrote it, and a date nobody wrote is that of a *)
(* staker no deposit of whom was viewed.                                   *)
Dates(s) == Latest(ViewedOf(s)) \cup Latest(EventsOf(s, {"deposit"})) \cup Undated(s)

Activated(s) ==
    /\ s \notin listed => validators[s] = 0 /\ \A p \in ViewedOf(s) : ~ Done("validator", p)
    /\ /\ \A p \in ViewedOf(s) : Done("validator", p)
       /\ \A p \in EventsOf(s, {"deposit"}) : Done("queue", p) /\ p \in Visible("queue")
       => validators[s] \in Dates(s)

ActivationInvariant ==
    /\ BatchInvariant
    /\ reorgs = 0 /\ harm \cap {"late", "torn", "swallowed"} = {} => \A s \in Stakers : Activated(s)

LEMMA StakerEvents ==
    ASSUME TypeOK, NEW s \in Stakers
    PROVE  /\ ViewedOf(s) \subseteq Visible("validator")
           /\ \A p \in ViewedOf(s) : p \in 1 .. Len(history) /\ history[p].staker = s
           /\ \A p \in EventsOf(s, {"deposit"}) :
                p \in 1 .. Len(history) /\ history[p].staker = s /\ history[p].kind = "deposit"
  BY DEF ViewedOf, EventsOf, Visible, Deposits, Positions

(* Steps that write no date of s, take no row away and do not go by a      *)
(* deposit of s.                                                           *)
LEMMA DatesRest ==
    ASSUME TypeOK, NEW s \in Stakers, Activated(s),
           UNCHANGED history, validators'[s] = validators[s], listed \subseteq listed',
           \A p \in ViewedOf(s) : Done("validator", p)' => Done("validator", p),
           \A p \in EventsOf(s, {"deposit"}) :
              Done("queue", p)' /\ p \in Visible("queue")' => Done("queue", p) /\ p \in Visible("queue")
    PROVE  Activated(s)'
<1>1. ViewedOf(s)' = ViewedOf(s) /\ \A K : EventsOf(s, K)' = EventsOf(s, K)
  BY DEF ViewedOf, EventsOf, Positions
<1> QED
  BY <1>1 DEF Activated, Dates, Undated, Latest

(* A pass is dropped, or its cursor goes back.                             *)
LEMMA PassDropped ==
    ASSUME TypeOK, UNCHANGED <<history, arrived, validators>>, listed \subseteq listed',
           \A c \in Replayers : \A p \in Visible(c) : Done(c, p)' => Done(c, p),
           NEW s \in Stakers, Activated(s)
    PROVE  Activated(s)'
<1>1. Visible("queue")' = Visible("queue") /\ "queue" \in Replayers /\ "validator" \in Replayers
  BY DEF Visible, Positions, Replayers
<1> QED
  BY <1>1, StakerEvents, DatesRest

LEMMA PassStep ==
    ASSUME TypeOK, Complete("queue"), Complete("validator"), Complete("validator")',
           \A s \in Stakers : Activated(s), NEW c \in Replayers, PollStep(c), harm' \cap {"torn", "swallowed"} = {}
    PROVE  \A s \in Stakers : Activated(s)'
<1> SUFFICES ASSUME NEW s \in Stakers PROVE Activated(s)'
  OBVIOUS
<1>0. "queue" \in Replayers /\ "validator" \in Replayers /\ "queue" # "validator"
  BY DEF Replayers
(* The passes that are not concerned.                                      *)
<1>1. ASSUME NEW d \in Replayers, poll'[d] = poll[d], cursor'[d] = cursor[d]
      PROVE  \A v : Done(d, v)' = Done(d, v)
  BY <1>1 DEF Done, Committed
<1>2. \A d \in Replayers : \A p \in Visible(d) : p \in Nat /\ p # 0
  BY PollFacts DEF Visible, Positions
<1>3. CASE FetchBatch
  <2>1. UNCHANGED <<history, arrived, listed, validators, cursor>> /\ poll'["validator"] = poll["validator"]
    BY <1>3 DEF FetchBatch, StartBatch, sourceVars, tableVars, TypeOK, Replayers
  <2>2. \A v : Done("validator", v)' = Done("validator", v)
    BY <1>0, <1>1, <2>1
  <2>3. \A p \in Visible("queue") : Done("queue", p)' => Done("queue", p)
    BY <1>0, <1>2, <1>3, QueueFetches
  <2> QED
    BY <2>1, <2>2, <2>3, PassDropped DEF Replayers
<1>4. CASE ReadDeposits
  <2>1. /\ UNCHANGED <<history, arrived, listed, validators, cursor>> /\ poll["validator"] = Idle
        /\ poll' = [poll EXCEPT !["validator"] = Reading(Batch(OfKind("deposit")))]
    BY <1>4 DEF ReadDeposits, sourceVars, tableVars
  <2>2. poll'["queue"] = poll["queue"] /\ poll'["validator"] = Reading(Batch(OfKind("deposit")))
    BY <2>1 DEF TypeOK, Replayers
  <2>3. \A v : Done("queue", v)' = Done("queue", v)
    BY <1>0, <1>1, <2>1, <2>2
  <2>4. \A v : Done("validator", v)' = Done("validator", v)
    BY <2>1, <2>2 DEF Done, Committed, Idle, Reading
  <2> QED
    BY <2>1, <2>3, <2>4, PassDropped DEF Replayers
<1>5. CASE ReadGseDeposits
  <2> DEFINE rows == Batch(poll["validator"].rows \cup Batch(OfKind("gse")))
  <2>1. /\ StartBatch("validator", rows) /\ poll["validator"].at = "reading"
        /\ harm' = IF \A p \in After("validator") : p \in rows \/ \A q \in rows : q < p
                   THEN harm ELSE harm \cup {"torn"}
        /\ UNCHANGED <<history, arrived, listed, validators, cursor>>
    BY <1>5 DEF ReadGseDeposits, sourceVars, tableVars
  <2>2. rows \in SUBSET After("validator")
    BY <2>1 DEF Complete, Batch, OfKind
  <2>3. poll'["queue"] = poll["queue"]
    BY <2>1 DEF StartBatch, TypeOK, Replayers
  <2> HIDE DEF rows
  <2>4. \A p \in After("validator") : p \in rows \/ \A q \in rows : q < p
    BY <2>1
  <2>5. \A p \in Visible("validator") : Done("validator", p)' => Done("validator", p)
    BY <1>0, <1>2, <2>1, <2>2, <2>4, BatchFetched
  <2>6. \A v : Done("queue", v)' = Done("queue", v)
    BY <1>0, <1>1, <2>1, <2>3
  <2> QED
    BY <2>1, <2>5, <2>6, PassDropped DEF Replayers
<1>6. CASE SaveCursor(c)
  <2>1. /\ \A v : Done(c, v)' = Done(c, v)
        /\ UNCHANGED <<history, arrived, queue, listed, validators>>
        /\ \A d \in Replayers : d # c => poll'[d] = poll[d] /\ cursor'[d] = cursor[d]
    <3>1. Complete(c)
      BY DEF Replayers
    <3> QED
      BY <1>6, <3>1, CursorSaved
  <2>2. \A d \in Replayers : \A v : Done(d, v)' = Done(d, v)
    BY <1>1, <2>1
  <2> QED
    BY <2>1, <2>2, PassDropped
<1>7. ASSUME NEW p \in Positions, AddToQueue(p) PROVE Activated(s)'
  <2>1. TakeRow("queue", p) /\ history[p].kind = "queued" /\ UNCHANGED <<listed, validators>>
    BY <1>7 DEF AddToQueue
  <2>2. /\ UNCHANGED <<history, arrived, cursor>>
        /\ \A v \in Nat : Done("queue", v)' /\ (v = 0 \/ v \in Visible("queue")) => v = p \/ Done("queue", v)
        /\ poll'["validator"] = poll["validator"]
    BY <1>0, <2>1, TakeFacts
  <2>3. \A v : Done("validator", v)' = Done("validator", v)
    BY <1>0, <1>1, <2>2
  <2>4. Visible("queue")' = Visible("queue")
    BY <2>2 DEF Visible, Positions
  <2> QED
    BY <1>0, <1>2, <2>1, <2>2, <2>3, <2>4, StakerEvents, DatesRest
<1>8. ASSUME NEW p \in Positions, RemoveFromQueue(p) PROVE Activated(s)'
  <2>1. /\ TakeRow("queue", p)
        /\ validators' = IF history[p].kind = "deposit" /\ history[p].staker \in listed
                         THEN [validators EXCEPT ![history[p].staker] = p]
                         ELSE validators
        /\ UNCHANGED listed
    BY <1>8 DEF RemoveFromQueue, UpdateActivationDate, SwallowError
  <2>2. /\ UNCHANGED <<history, arrived, cursor>> /\ \A v : Done("queue", v) => v < p
        /\ \A v \in Nat : Done("queue", v)' /\ (v = 0 \/ v \in Visible("queue")) => v = p \/ Done("queue", v)
        /\ poll'["validator"] = poll["validator"]
    BY <1>0, <2>1, TakeFacts
  <2>3. \A v : Done("validator", v)' = Done("validator", v)
    BY <1>0, <1>1, <2>2
  <2>4. Visible("queue")' = Visible("queue")
    BY <2>2 DEF Visible, Positions
  <2>5. CASE p \notin EventsOf(s, {"deposit"})
    <3>1. validators'[s] = validators[s] /\ listed \subseteq listed'
      BY <2>1, <2>5 DEF EventsOf, TypeOK
    <3> QED
      BY <1>0, <1>2, <2>2, <2>3, <2>4, <2>5, <3>1, StakerEvents, DatesRest
  <2>6. CASE p \in EventsOf(s, {"deposit"}) /\ s \notin listed
    <3>1. validators'[s] = 0 /\ s \notin listed' /\ Activated(s)
      BY <2>1, <2>6 DEF EventsOf, Activated
    <3>2. ViewedOf(s)' = ViewedOf(s)
      BY <2>2 DEF ViewedOf, EventsOf, Positions
    <3>3. \A q \in ViewedOf(s)' : ~ Done("validator", q)'
      BY <2>3, <2>6, <3>1, <3>2 DEF Activated
    <3>4. (\A q \in ViewedOf(s)' : Done("validator", q)') => 0 \in Dates(s)'
      BY <3>3 DEF Dates, Undated
    <3> QED
      BY <3>1, <3>3, <3>4 DEF Activated
  <2>7. CASE p \in EventsOf(s, {"deposit"}) /\ s \in listed
    <3>1. validators'[s] = p /\ p \in Nat /\ s \in listed'
      BY <2>1, <2>7, StakerEvents, PollFacts DEF TypeOK
    <3>2. EventsOf(s, {"deposit"})' = EventsOf(s, {"deposit"})
      BY <2>2 DEF EventsOf, Positions
    <3>3. ASSUME \A q \in EventsOf(s, {"deposit"}) : Done("queue", q)' /\ q \in Visible("queue")
          PROVE  p \in Dates(s)'
      <4>1. \A q \in EventsOf(s, {"deposit"}) : q = p \/ q < p
        BY <1>0, <1>2, <2>2, <3>3
      <4>2. p \in Latest(EventsOf(s, {"deposit"}))
        BY <2>7, <3>1, <4>1 DEF Latest
      <4> QED
        BY <3>2, <4>2 DEF Dates, Latest
    <3> QED
      BY <2>4, <3>1, <3>2, <3>3 DEF Activated
  <2> QED
    BY <2>5, <2>6, <2>7
<1>9. ASSUME NEW p \in Positions, UpsertValidator(p) PROVE Activated(s)'
  <2>1. /\ TakeRow("validator", p)
        /\ validators' = IF history[p].viewed THEN [validators EXCEPT ![history[p].staker] = p]
                         ELSE validators
        /\ listed' = IF history[p].viewed THEN listed \cup {history[p].staker} ELSE listed
    BY <1>9 DEF UpsertValidator
  <2>2. /\ UNCHANGED <<history, arrived, cursor>> /\ \A v : Done("validator", v) => v < p
        /\ p \in Visible("validator")
        /\ \A v \in Nat : Done("validator", v)' /\ (v = 0 \/ v \in Visible("validator"))
                            => v = p \/ Done("validator", v)
        /\ poll'["queue"] = poll["queue"]
    BY <1>0, <2>1, TakeFacts
  <2>3. \A v : Done("queue", v)' = Done("queue", v)
    BY <1>0, <1>1, <2>2
  <2>4. Visible("queue")' = Visible("queue")
    BY <2>2 DEF Visible, Positions
  <2>5. CASE p \notin ViewedOf(s)
    <3>1. validators'[s] = validators[s] /\ listed \subseteq listed'
      BY <2>1, <2>2, <2>5 DEF ViewedOf, EventsOf, Visible, TypeOK
    <3> QED
      BY <1>0, <1>2, <2>2, <2>3, <2>4, <2>5, <3>1, StakerEvents, DatesRest
  <2>6. CASE p \in ViewedOf(s)
    <3>1. validators'[s] = p /\ p \in Nat /\ s \in listed'
      BY <2>1, <2>6, StakerEvents, PollFacts DEF TypeOK, ViewedOf
    <3>2. ViewedOf(s)' = ViewedOf(s)
      BY <2>2 DEF ViewedOf, EventsOf, Positions
    <3>3. ASSUME \A q \in ViewedOf(s) : Done("validator", q)'
          PROVE  p \in Dates(s)'
      <4>1. \A q \in ViewedOf(s) : q = p \/ q < p
        BY <1>0, <1>2, <2>2, <3>3, StakerEvents
      <4>2. p \in Latest(ViewedOf(s))
        BY <2>6, <3>1, <4>1 DEF Latest
      <4> QED
        BY <3>2, <4>2 DEF Dates, Latest
    <3> QED
      BY <3>1, <3>2, <3>3 DEF Activated
  <2> QED
    BY <2>5, <2>6
<1> QED
  BY <1>3, <1>4, <1>5, <1>6, <1>7, <1>8, <1>9 DEF PollStep

LEMMA ActivationStep ==
    ASSUME ActivationInvariant, [Next]_vars
    PROVE  ActivationInvariant'
<1>1. TypeOK /\ BatchInvariant /\ BatchInvariant'
  BY BatchStep DEF ActivationInvariant, BatchInvariant
<1>2. SUFFICES ASSUME reorgs' = 0, harm' \cap {"late", "torn", "swallowed"} = {}
               PROVE  \A s \in Stakers : Activated(s)'
  BY <1>1 DEF ActivationInvariant
<1>3. harm \cap {"late", "torn", "swallowed"} = {} /\ "late" \notin harm'
      /\ harm' \cap {"torn", "swallowed"} = {}
  BY <1>2, HarmGrows
<1>4. \A n, b, k : ~ Reset(n, b, k)
  BY <1>1, <1>2 DEF Reset, TypeOK
<1>5. reorgs = 0
  BY <1>2, <1>4 DEF Next, vars, counters, Emit, SourceCopies, PollStep, FetchBatch, ReadDeposits,
     ReadGseDeposits, AddToQueue, RemoveFromQueue, UpsertValidator, TakeRow, SaveCursor,
     CollectorUpserts, PollFails, Restart, Abandon, Rewind
<1>6. /\ \A s \in Stakers : Activated(s)
      /\ Complete("queue") /\ Complete("validator") /\ Complete("validator")'
  BY <1>1, <1>3, <1>5 DEF ActivationInvariant, BatchInvariant
<1>7. ASSUME NEW e \in Event, Emit(e), NEW s \in Stakers PROVE Activated(s)'
  <2> DEFINE n == Len(history)
  <2>1. history' = Append(history, e) /\ UNCHANGED <<arrived, listed, validators, cursor, poll>>
    BY <1>7 DEF Emit, tableVars
  <2>2. /\ Len(history') = n + 1 /\ n \in Nat /\ history'[n + 1] = e
        /\ \A p \in 1 .. n : history'[p] = history[p]
    BY <1>1, <2>1, QueueFacts
  <2>3. \A c \in Replayers : \A v : (Done(c, v)' => v # n + 1) /\ Done(c, v)' = Done(c, v)
    BY <1>1, <2>1, <2>2, PollFacts DEF Done, Committed
  <2>4. \A K : EventsOf(s, K)' = EventsOf(s, K) \cup
                 IF e.staker = s /\ e.kind \in K THEN {n + 1} ELSE {}
    BY <2>2 DEF EventsOf, Positions
  <2>5. \A p \in 1 .. n : p \in Visible("queue")' => p \in Visible("queue")
    BY <2>1, <2>2 DEF Visible, Positions
  <2>6. \A p \in EventsOf(s, Deposits) : p \in 1 .. n
    BY DEF EventsOf, Positions
  <2>7. ViewedOf(s) \subseteq ViewedOf(s)'
    BY <2>2, <2>4, <2>6 DEF ViewedOf
  <2>8. ViewedOf(s)' = ViewedOf(s) \/ n + 1 \in ViewedOf(s)'
    BY <2>2, <2>4, <2>6, <2>7 DEF ViewedOf
  <2>9. EventsOf(s, {"deposit"})' = EventsOf(s, {"deposit"}) \/ n + 1 \in EventsOf(s, {"deposit"})'
    BY <2>4
  <2>10. \A p \in ViewedOf(s)' : p \in ViewedOf(s) \/ p = n + 1
    BY <2>2, <2>4, <2>6 DEF ViewedOf
  <2>11. \A p \in EventsOf(s, {"deposit"}) : p \in 1 .. n
    BY DEF EventsOf, Positions
  <2>12. Activated(s) /\ "queue" \in Replayers /\ "validator" \in Replayers
    BY <1>6 DEF Replayers
  <2>13. s \notin listed' => validators'[s] = 0 /\ \A p \in ViewedOf(s)' : ~ Done("validator", p)'
    <3>1. \A v : Done("validator", v)' => v # n + 1 /\ Done("validator", v)
      BY <2>3, <2>12
    <3> HIDE DEF n
    <3> QED
      BY <2>1, <2>10, <2>12, <3>1 DEF Activated
  <2>14. ASSUME /\ \A p \in ViewedOf(s)' : Done("validator", p)'
                /\ \A p \in EventsOf(s, {"deposit"})' : Done("queue", p)' /\ p \in Visible("queue")'
         PROVE  validators'[s] \in Dates(s)'
    <3>1. ViewedOf(s)' = ViewedOf(s) /\ EventsOf(s, {"deposit"})' = EventsOf(s, {"deposit"})
      <4>1. \A v : (Done("validator", v)' => v # n + 1) /\ (Done("queue", v)' => v # n + 1)
        BY <2>3, <2>12
      <4> HIDE DEF n
      <4> QED
        BY <2>8, <2>9, <2>14, <4>1
    <3>2. validators[s] \in Dates(s)
      BY <2>1, <2>3, <2>5, <2>11, <2>12, <2>14, <3>1 DEF Activated
    <3> QED
      BY <2>1, <3>1, <3>2 DEF Dates, Undated, Latest
  <2> QED
    BY <2>13, <2>14 DEF Activated
<1>8. ASSUME NEW k \in Kinds, SourceCopies(k), NEW s \in Stakers PROVE Activated(s)'
  <2>1. /\ UNCHANGED <<history, queue, listed, validators, cursor, poll, reorgs>>
        /\ \A q \in Positions : q <= Committed("queue") =>
             (q <= arrived'[history[q].kind] <=> q <= arrived[history[q].kind])
    BY <1>1, <1>3, <1>8, RowArrives
  <2>2. \A c, v : Done(c, v)' = Done(c, v)
    BY <2>1 DEF Done, Committed
  <2>3. \A p \in Positions : Done("queue", p) /\ p \in Visible("queue")' => p \in Visible("queue")
    BY <2>1 DEF Visible, Positions, Done
  <2>4. EventsOf(s, {"deposit"}) \subseteq Positions
    BY DEF EventsOf
  <2> QED
    BY <1>1, <1>6, <2>1, <2>2, <2>3, <2>4, DatesRest
<1>9. ASSUME NEW c \in Replayers, PollStep(c) PROVE \A s \in Stakers : Activated(s)'
  BY <1>1, <1>3, <1>6, <1>9, PassStep
<1>10. ASSUME NEW C, Abandon(C), NEW s \in Stakers PROVE Activated(s)'
  <2>1. UNCHANGED <<history, arrived, listed, validators, cursor>>
        /\ \A c \in Replayers : poll'[c] = IF c \in C THEN Idle ELSE poll[c]
    BY <1>10 DEF Abandon, sourceVars, tableVars
  <2>2. ASSUME NEW c \in Replayers, NEW p \in Visible(c), Done(c, p)' PROVE Done(c, p)
    <3>1. CASE c \notin C
      BY <2>1, <2>2, <3>1 DEF Done, Committed
    <3>2. CASE c \in C
      <4>1. p <= cursor[c] /\ p \in Nat
        BY <1>1, <2>1, <2>2, <3>2, PollFacts DEF Done, Committed, Idle, Visible, Positions
      <4>2. Complete(c)
        BY <1>6 DEF Replayers
      <4> QED
        BY <1>1, <4>1, <4>2, PollFacts DEF Done, Committed, Complete, After, Positions
    <3> QED
      BY <3>1, <3>2
  <2> QED
    BY <1>1, <1>6, <2>1, <2>2, PassDropped
<1>11. ASSUME NEW k \in 0 .. MaxEvents, Rewind(k), NEW s \in Stakers PROVE Activated(s)'
  <2>1. /\ UNCHANGED <<history, arrived, listed, validators, poll>>
        /\ \A c \in Replayers : /\ cursor'[c] = k /\ poll[c] = Idle
                                /\ \A p \in After(c) : k < p
    BY <1>11 DEF Rewind, Rewound, Reached, sourceVars, tableVars
  <2>2. ASSUME NEW c \in Replayers, NEW p \in Visible(c), Done(c, p)' PROVE Done(c, p)
    <3>1. p <= k /\ p \in Nat /\ k \in Nat
      BY <1>1, <2>1, <2>2, PollFacts DEF Done, Committed, Idle, Visible, Positions
    <3>2. p \notin After(c)
      <4>1. p \in After(c) => k < p
        BY <2>1
      <4> QED
        BY <3>1, <4>1
    <3>3. p <= cursor[c]
      BY <1>1, <3>1, <3>2, PollFacts DEF After
    <3> QED
      BY <2>1, <3>3 DEF Done, Committed, Idle
  <2> QED
    BY <1>1, <1>6, <2>1, <2>2, PassDropped
<1>12. ASSUME NEW t, CollectorUpserts(t), NEW s \in Stakers PROVE Activated(s)'
  <2>1. UNCHANGED <<history, arrived, validators, cursor, poll>> /\ listed \subseteq listed'
    BY <1>12 DEF CollectorUpserts, sourceVars
  <2>2. \A c, v : Done(c, v)' = Done(c, v)
    BY <2>1 DEF Done, Committed
  <2> QED
    BY <1>1, <1>6, <2>1, <2>2, PassDropped
<1>13. ASSUME UNCHANGED vars, NEW s \in Stakers PROVE Activated(s)'
  <2>1. UNCHANGED <<history, arrived, listed, validators, cursor, poll>>
    BY <1>13 DEF vars, sourceVars, tableVars
  <2>2. \A c, v : Done(c, v)' = Done(c, v)
    BY <2>1 DEF Done, Committed
  <2> QED
    BY <1>1, <1>6, <2>1, <2>2, PassDropped
<1> QED
  BY <1>4, <1>7, <1>8, <1>9, <1>10, <1>11, <1>12, <1>13 DEF Next, PollFails, Restart

(* Two materializers write activation dates, ValidatorMaterializer at each *)
(* viewed deposit, removeFromQueue at each deposit of somebody with a row, *)
(* and collectors may add the row at any time. In whatever order they do,  *)
(* and however often they do it again after a failure or a re-index, the   *)
(* date they leave is that of the last deposit that either writer saw,     *)
(* unless an error of the update was swallowed.                            *)
THEOREM ActivationIsExact == Spec => []ActivationIsLastDeposit
<1>1. Init => ActivationInvariant
  <2> SUFFICES ASSUME Init PROVE \A s \in Stakers : Activated(s)
    BY BatchStart DEF ActivationInvariant
  <2>1. Positions = {} /\ \A s \in Stakers : validators[s] = 0
    BY DEF Init, Positions
  <2> QED
    BY <2>1 DEF Activated, Dates, Undated, ViewedOf, EventsOf
<1>2. ActivationInvariant /\ [Next]_vars => ActivationInvariant'
  BY ActivationStep
<1>3. ActivationInvariant => ActivationIsLastDeposit
  <2> SUFFICES ASSUME ActivationInvariant, CaughtUp, reorgs = 0, harm \cap {"late", "torn", "swallowed"} = {},
                      NEW s \in Stakers
               PROVE  validators[s] \in Dates(s)
    BY DEF ActivationIsLastDeposit, Dates
  <2>1. TypeOK /\ Activated(s)
    BY DEF ActivationInvariant, BatchInvariant
  <2>2. \A c \in Replayers : \A p \in Visible(c) : Done(c, p)
    <3> SUFFICES ASSUME NEW c \in Replayers, NEW p \in Visible(c) PROVE Done(c, p)
      OBVIOUS
    <3>1. poll[c] = Idle /\ p \notin After(c)
      BY DEF CaughtUp
    <3>2. p <= cursor[c]
      BY <2>1, <3>1, PollFacts DEF After, Visible, Positions
    <3> QED
      BY <3>1, <3>2 DEF Done, Committed, Idle
  <2>3. \A p \in EventsOf(s, {"deposit"}) : p \in Visible("queue")
    BY DEF CaughtUp, EventsOf, Visible
  <2>4. "queue" \in Replayers /\ "validator" \in Replayers
    BY DEF Replayers
  <2> QED
    BY <2>1, <2>2, <2>3, <2>4, StakerEvents DEF Activated
<1> QED
  BY <1>1, <1>2, <1>3, PTL DEF Spec

=============================================================================
