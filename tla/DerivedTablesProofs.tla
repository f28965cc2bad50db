-------------------------- MODULE DerivedTablesProofs --------------------------
(***************************************************************************)
(* What holds of every table of the catalogue whatever lags, fails, is     *)
(* reorganised or read again: its rows, its parts and the values in them   *)
(* come from events that are on the chain, if resets cut it, a value once  *)
(* known is kept where the table promises it, and with everything read the *)
(* table is what its events amount to in chain order.                      *)
(***************************************************************************)
EXTENDS DerivedTables, NumberLemmas, FiniteSetTheorems

(* What the catalogue has in common.  A table whose rows stand for several *)
(* events, and that resets cut, writes them whole, in one statement.       *)
WholeOrNone == {Removal, Last(Plain)}
Shape(t) ==
    /\ Len(t.sources) \in Nat \ {0} /\ DOMAIN t.sources = 1 .. Len(t.sources)
    /\ \A i \in DOMAIN t.sources : t.sources[i].kind \in DOMAIN t.does
    /\ t.by \in {"event", "subject"}
    /\ t.cut /\ t.by = "subject" =>
        \A k \in DOMAIN t.does : Len(t.does[k]) = 1 /\ t.does[k][1] \in WholeOrNone

LEMMA CopiesShape == \A h, statements : Shape(Copies(h, statements))
  BY DEF Shape, Copies, Reads

LEMMA CatalogueShape == \A t \in Catalogue : Shape(t)
<1>1. Shape(StakeHistory)
  BY DEF Shape, StakeHistory, Reads, Deposit, GseDeposit, Slashed, WithdrawFinalized, Handler
<1>2. Shape(ProviderTable)
  BY DEF Shape, ProviderTable, Reads, ProviderRegistered, ProviderTakeRateUpdated,
     ProviderRewardsRecipientUpdated, ProviderAdminUpdated, Handler
<1>3. Shape(ProviderValidatorList)
  BY DEF Shape, ProviderValidatorList, WholeOrNone, Reads, AttestersAddedToProvider,
     ProviderQueueDripped, Handler
<1> QED
  BY <1>1, <1>2, <1>3, CopiesShape
  DEF Catalogue, BlockProposedTable, ProofVerifiedTable, StakedWithProviderTable,
      ProviderQueueDripTable, DepositLifecycle, GseDepositLifecycle, FailedDepositLifecycle,
      QueuedLifecycle, WithdrawInitiatedLifecycle, WithdrawFinalizedLifecycle, ProposerVoteTable,
      PayloadSubmittableTable, PayloadSubmittedTable, TallyVoteCastTable, TallyRoundExecutedTable,
      SlashSlashedTable, ProviderAttesterTable

----------------------------------------------------------------------------
(* Where a poll is, and that it only holds events of its table.            *)
Chain == Seq([kind : Kinds, subject : Nat, value : Nat, more : BOOLEAN])
PollInvariant ==
    /\ poll.stage \in {"idle", "reading", "writing"}
    /\ poll.stage = "reading" => poll.next \in Sources /\ poll.got \subseteq Relevant
    /\ poll.stage = "writing" =>
        /\ poll.todo \subseteq Relevant
        /\ Table.cut /\ Table.by = "subject" => poll.step = 1

(* A row of a single event is found by the number of that event.           *)
RowShape(r) ==
    /\ r = [into |-> r.into, key |-> r.key, at |-> r.at, cells |-> r.cells]
    /\ r.cells = [c \in DOMAIN r.cells |-> r.cells[c]]
Anchored(r) ==
    /\ r.at \in 1 .. indexed
    /\ \A c \in DOMAIN r.cells : \E p \in 1 .. r.at : events[p].value = r.cells[c].value
    /\ Table.by = "event" => r.key = r.at
    /\ Table.by = "subject" => DOMAIN r.cells = Plain
RowsInvariant == Table.cut => \A r \in rows : RowShape(r) /\ Anchored(r)

TablesInvariant ==
    /\ case \in TableCases /\ events \in Chain /\ indexed \in 0 .. Len(events)
    /\ arrived \in [Sources -> 0 .. indexed]
    /\ PollInvariant
    /\ RowsInvariant

LEMMA CaseFacts ==
    ASSUME case \in TableCases
    PROVE  Shape(Table) /\ case.chains \subseteq Chain /\ DOMAIN Table.sources = Sources
  BY CatalogueShape, TablesAssumption DEF Table, Chain, Shape, Sources

LEMMA TablesBegin == TablesInit => TablesInvariant
<1> SUFFICES ASSUME TablesInit PROVE TablesInvariant
  OBVIOUS
<1>1. case \in TableCases /\ events \in Chain
  BY CaseFacts DEF TablesInit
<1> QED
  BY <1>1 DEF TablesInit, TablesInvariant, PollInvariant, RowsInvariant, NotPolling, Chain

LEMMA LeastIsThere ==
    ASSUME NEW S, S \subseteq Nat, S # {}
    PROVE  Least(S) \in S
  BY LeastNumber DEF Least

LEMMA RelevantFacts ==
    ASSUME TablesInvariant
    PROVE  /\ \A p \in Relevant : p \in Nat /\ p \in 1 .. indexed /\ p \in 1 .. Len(events)
                                  /\ events[p].kind \in DOMAIN Table.does
           /\ \A i \in Sources : NotRead(i) \subseteq Relevant
<1>1. \A i \in Sources : Table.sources[i].kind \in DOMAIN Table.does /\ arrived[i] \in 0 .. indexed
  BY CaseFacts DEF TablesInvariant, Shape
<1> QED
  BY <1>1 DEF TablesInvariant, Relevant, NotRead, Visible

(* The round whose payload a slash has is not after it.                    *)
LEMMA ExtraIsBefore ==
    ASSUME TablesInvariant, NEW p \in Relevant
    PROVE  p \in 1 .. p /\ ExtraOf(p) \in 1 .. p
<1>1. p \in Nat /\ p \in 1 .. p
  BY RelevantFacts
<1>2. CASE RoundBefore(p) = {}
  BY <1>1, <1>2 DEF ExtraOf
<1>3. CASE RoundBefore(p) # {}
  <2>1. RoundBefore(p) \subseteq 1 .. p
    BY DEF RoundBefore
  <2>2. \E q \in RoundBefore(p) : \A x \in RoundBefore(p) : x <= q
    BY <1>1, <1>3, <2>1, GreatestNumber
  <2>3. Greatest(RoundBefore(p)) \in RoundBefore(p)
    BY <2>2 DEF Greatest
  <2> QED
    BY <1>1, <2>1, <2>3 DEF ExtraOf
<1> QED
  BY <1>1, <1>2, <1>3

(* A value is always that of the event, or of an earlier one.              *)
LEMMA CellIsOfChain ==
    ASSUME TablesInvariant, NEW p \in Relevant, NEW c
    PROVE  \E q \in 1 .. p : events[q].value = Cell(c, p).value
<1>1. p \in 1 .. p /\ ExtraOf(p) \in 1 .. p
  BY ExtraIsBefore
<1>2. Cell(c, p).value \in {events[p].value, events[ExtraOf(p)].value}
  BY DEF Cell
<1> QED
  BY <1>1, <1>2

(* One statement for one event.                                            *)
LEMMA WrittenKeeps ==
    ASSUME TablesInvariant, Table.cut, NEW p \in Relevant, NEW s,
           Table.by = "subject" => s \in WholeOrNone
    PROVE  \A r \in Written(rows, s, p) : RowShape(r) /\ Anchored(r)
<1>1. p \in Nat /\ p \in 1 .. indexed
  BY RelevantFacts
<1>2. \A r \in rows : RowShape(r) /\ Anchored(r)
  BY DEF TablesInvariant, RowsInvariant
<1>3. Table.by \in {"event", "subject"}
  BY CaseFacts DEF TablesInvariant, Shape
<1>4. (RowShape(Created(s, p)) /\ Anchored(Created(s, p))) \/ s = Removal
  <2> DEFINE new == Created(s, p)
  <2>1. /\ new = [into |-> s.into, key |-> KeyOf(p), at |-> p, cells |-> [c \in s.create |-> Cell(c, p)]]
        /\ new.at = p /\ new.key = KeyOf(p) /\ DOMAIN new.cells = s.create
        /\ \A c \in DOMAIN new.cells : new.cells[c] = Cell(c, p)
    BY DEF Created
  <2>2. RowShape(new)
    BY <2>1 DEF RowShape
  <2>3. \A c \in DOMAIN new.cells : \E q \in 1 .. new.at : events[q].value = new.cells[c].value
    BY <2>1, CellIsOfChain
  <2>4. s = Removal \/ (Table.by = "subject" => DOMAIN new.cells = Plain)
    BY <2>1 DEF WholeOrNone, Last, Upsert, Plain
  <2>5. Table.by = "event" => new.key = new.at
    BY <2>1 DEF KeyOf
  <2> QED
    BY <1>1, <2>1, <2>2, <2>3, <2>4, <2>5 DEF Anchored
<1>5. ASSUME NEW r \in rows, SameRow(r, s, p), s # Removal
      PROVE  RowShape(Updated(r, s, p)) /\ Anchored(Updated(r, s, p))
  <2> DEFINE new == Updated(r, s, p)
  <2>1. /\ new.into = r.into /\ new.key = r.key
        /\ new.at = IF s.update = {} THEN r.at ELSE p
        /\ DOMAIN new.cells = DOMAIN r.cells
        /\ \A c \in DOMAIN r.cells :
            new.cells[c] = IF c \in s.update /\ (c \in s.guarded => Cell(c, p).known)
                           THEN Cell(c, p) ELSE r.cells[c]
    BY <1>2 DEF Updated, RowShape
  <2>2. RowShape(new)
    <3> DEFINE cells == [c \in DOMAIN r.cells |->
                  IF c \in s.update /\ (c \in s.guarded => Cell(c, p).known)
                  THEN Cell(c, p) ELSE r.cells[c]]
               at == IF s.update = {} THEN r.at ELSE p
    <3>1. r = [into |-> r.into, key |-> r.key, at |-> r.at, cells |-> r.cells]
      BY <1>2 DEF RowShape
    <3>2. new = [r EXCEPT !.at = at, !.cells = cells]
      BY DEF Updated
    <3> HIDE DEF new, cells, at
    <3>3. new = [into |-> r.into, key |-> r.key, at |-> at, cells |-> cells]
      BY <3>1, <3>2
    <3>4. cells = [c \in DOMAIN cells |-> cells[c]]
      BY DEF cells
    <3> QED
      BY <3>3, <3>4 DEF RowShape
  <2>3. CASE Table.by = "event"
    <3>1. r.key = p /\ r.at = p
      BY <1>2, <1>5, <2>3 DEF SameRow, KeyOf, Anchored
    <3>2. new.at = p
      BY <2>1, <3>1
    <3>3. \A c \in DOMAIN new.cells : \E q \in 1 .. p : events[q].value = new.cells[c].value
      BY <1>2, <2>1, <3>1, CellIsOfChain DEF Anchored
    <3> QED
      BY <1>1, <2>1, <2>2, <2>3, <3>1, <3>2, <3>3 DEF Anchored
  <2>4. CASE Table.by = "subject"
    <3>1. s.update = Plain /\ s.guarded = {}
      BY <1>5, <2>4 DEF WholeOrNone, Last, Upsert
    <3>2. DOMAIN r.cells = Plain
      BY <1>2, <2>4 DEF Anchored
    <3>3. new.at = p /\ \A c \in DOMAIN new.cells : new.cells[c] = Cell(c, p)
      BY <2>1, <3>1, <3>2 DEF Plain
    <3> QED
      BY <1>1, <2>1, <2>2, <2>4, <3>2, <3>3, CellIsOfChain DEF Anchored
  <2> QED
    BY <1>3, <2>3, <2>4
<1>6. s = Removal => s.mode = "remove"
  BY DEF Removal
<1>7. Written(rows, s, p) \subseteq rows \cup {Created(s, p)} \cup
          {Updated(r, s, p) : r \in {x \in rows : SameRow(x, s, p)}}
  BY DEF Written
<1>8. s = Removal => Written(rows, s, p) \subseteq rows
  BY <1>6 DEF Written
<1> QED
  BY <1>2, <1>4, <1>5, <1>7, <1>8

(* A poll reads, writes and ends; the chain is left alone.                 *)
LEMMA PollKeeps ==
    ASSUME TablesInvariant, TableStep \/ WriteCaught \/ PollFails
    PROVE  TablesInvariant'
<1> USE DEF TablesInvariant
<1>1. UNCHANGED <<case, events, indexed, arrived>>
  BY DEF TableStep, FetchFirst, FetchMore, Write, SaveCursor, WriteCaught, PollFails, worldVars
<1>2. Table' = Table /\ Sources' = Sources /\ Relevant' = Relevant
  BY <1>1 DEF Table, Sources, Relevant
<1>3. Shape(Table) /\ DOMAIN Table.sources = Sources
  BY CaseFacts
<1>4. ASSUME UNCHANGED rows PROVE RowsInvariant'
  BY <1>1, <1>2, <1>4 DEF RowsInvariant, Anchored
<1>5. ASSUME NEW next \in Sources, NEW got, got \subseteq Relevant, Fetch(next, got), UNCHANGED rows
      PROVE  TablesInvariant'
  <2> DEFINE more == got \cup Earliest(TableBatch, NotRead(next))
  <2>1. more \subseteq Relevant
    BY <1>5, RelevantFacts DEF Earliest
  <2>2. Earliest(TableBatch, more) \subseteq Relevant
    BY <2>1 DEF Earliest
  <2>3. next < Len(Table.sources) => next + 1 \in Sources
    BY <1>3 DEF Shape, Sources
  <2>4. \/ poll' = NotPolling
        \/ next < Len(Table.sources) /\ poll' = Reading(next + 1, more)
        \/ \E upto : poll' = Writing(Earliest(TableBatch, more), upto, 1)
    BY <1>5 DEF Fetch, Fetched
  <2> HIDE DEF more
  <2>5. ASSUME poll' = NotPolling PROVE PollInvariant'
    BY <2>5 DEF PollInvariant, NotPolling
  <2>6. ASSUME next < Len(Table.sources), poll' = Reading(next + 1, more)
        PROVE  PollInvariant'
    <3>1. poll'.stage = "reading" /\ poll'.next = next + 1 /\ poll'.got = more
      BY <2>6 DEF Reading
    <3> QED
      BY <1>2, <2>1, <2>3, <2>6, <3>1 DEF PollInvariant
  <2>7. ASSUME NEW upto, poll' = Writing(Earliest(TableBatch, more), upto, 1)
        PROVE  PollInvariant'
    <3>1. poll'.stage = "writing" /\ poll'.todo = Earliest(TableBatch, more) /\ poll'.step = 1
      BY <2>7 DEF Writing
    <3> QED
      BY <1>2, <2>2, <3>1 DEF PollInvariant
  <2>8. PollInvariant'
    BY <2>4, <2>5, <2>6, <2>7
  <2> QED
    BY <1>1, <1>2, <1>4, <1>5, <2>8
<1>6. CASE FetchFirst
  <2>1. 1 \in Sources
    BY <1>3, <1>6 DEF FetchFirst, Shape, Sources
  <2> QED
    BY <1>5, <1>6, <2>1 DEF FetchFirst
<1>7. CASE FetchMore
  BY <1>5, <1>7 DEF FetchMore, PollInvariant
<1>8. ASSUME Write \/ WriteCaught PROVE TablesInvariant'
  <2> DEFINE p == NextRow(poll.todo)
             s == Statements(p)[poll.step]
  <2>1. poll.stage = "writing" /\ poll.todo # {} /\ poll.todo \subseteq Relevant
    BY <1>8 DEF Write, WriteCaught, PollInvariant
  <2>2. p \in poll.todo
    BY <2>1, LeastIsThere, RelevantFacts DEF NextRow
  <2>3. Table.cut /\ Table.by = "subject" =>
          poll.step = 1 /\ Len(Statements(p)) = 1 /\ s \in WholeOrNone
    BY <1>3, <2>1, <2>2, RelevantFacts DEF PollInvariant, Shape, Statements
  <2>4. StatementDone(p)
    BY <1>8 DEF Write, WriteCaught
  <2>5. PollInvariant'
    BY <1>2, <2>1, <2>3, <2>4 DEF StatementDone, PollInvariant, Writing
  <2>6. RowsInvariant'
    <3>1. CASE UNCHANGED rows
      BY <1>4, <3>1
    <3>2. CASE rows' = Written(rows, s, p)
      <4>1. Table.cut => \A r \in rows' : RowShape(r) /\ Anchored(r)
        BY <2>1, <2>2, <2>3, <3>2, WrittenKeeps
      <4> QED
        BY <1>1, <1>2, <4>1 DEF RowsInvariant, Anchored
    <3> QED
      BY <1>8, <3>1, <3>2 DEF Write, WriteCaught
  <2> QED
    BY <1>1, <1>2, <2>5, <2>6
<1>9. ASSUME SaveCursor \/ PollFails PROVE TablesInvariant'
  <2>1. poll' = NotPolling /\ UNCHANGED rows
    BY <1>9 DEF SaveCursor, PollFails
  <2> QED
    BY <1>1, <1>2, <1>4, <2>1 DEF PollInvariant, NotPolling
<1> QED
  BY <1>6, <1>7, <1>8, <1>9 DEF TableStep

(* The chain grows, and is copied.                                         *)
LEMMA GrowthKeeps ==
    ASSUME TablesInvariant,
           UpstreamStep \/ \E has \in BOOLEAN, found \in SUBSET PartNames : IndexNext(has, found)
    PROVE  TablesInvariant'
<1> USE DEF TablesInvariant
<1>1. /\ UNCHANGED <<case, events, rows, poll>>
      /\ indexed' \in indexed .. Len(events)
  BY DEF UpstreamStep, CopySource, IndexNext, worldVars
<1>2. Table' = Table /\ Sources' = Sources /\ Relevant \subseteq Relevant'
  BY <1>1 DEF Table, Sources, Relevant
<1>3. arrived' \in [Sources -> 0 .. indexed']
  <2>1. CASE UpstreamStep
    BY <2>1 DEF UpstreamStep, CopySource, worldVars
  <2>2. ASSUME NEW has \in BOOLEAN, NEW found \in SUBSET PartNames, IndexNext(has, found)
        PROVE  arrived' \in [Sources -> 0 .. indexed']
    BY <2>2 DEF IndexNext
  <2> QED
    BY <2>1, <2>2
<1>4. PollInvariant'
  BY <1>1, <1>2 DEF PollInvariant
<1>5. RowsInvariant'
  BY <1>1, <1>2 DEF RowsInvariant, Anchored
<1> QED
  BY <1>1, <1>2, <1>3, <1>4, <1>5

(* What remains of the table is what was written of the common blocks.     *)
LEMMA ForkKeeps ==
    ASSUME TablesInvariant, NEW n \in 0 .. Len(events), NEW h \in case.chains, ForkTo(h, n)
    PROVE  TablesInvariant'
<1> USE DEF TablesInvariant
<1>1. /\ UNCHANGED <<case, poll>> /\ poll = NotPolling
      /\ events' = h /\ indexed' = n /\ n < Len(h) /\ n < indexed
      /\ SubSeq(h, 1, n) = SubSeq(events, 1, n)
      /\ arrived' = [i \in Sources |-> n] /\ rows' = CutAfter(n)
  BY DEF ForkTo, Reached
<1>2. Table' = Table /\ Sources' = Sources /\ h \in Chain
  BY <1>1, CaseFacts DEF Table, Sources
<1>3. \A p \in 1 .. n : h[p] = events[p]
  BY <1>1, <1>2 DEF Chain
<1>4. PollInvariant'
  BY <1>1 DEF PollInvariant, NotPolling
<1>5. RowsInvariant'
  <2> SUFFICES ASSUME Table.cut, NEW r \in rows' PROVE RowShape(r) /\ Anchored(r)'
    BY <1>2 DEF RowsInvariant
  <2>1. r \in rows /\ r.at <= n
    BY <1>1 DEF CutAfter
  <2>2. RowShape(r) /\ Anchored(r)
    BY <2>1 DEF RowsInvariant
  <2>3. r.at \in 1 .. n
    BY <2>1, <2>2 DEF Anchored
  <2>4. \A c \in DOMAIN r.cells : \E p \in 1 .. r.at : events'[p].value = r.cells[c].value
    <3>1. \A p \in 1 .. r.at : p \in 1 .. n
      BY <2>3
    <3> QED
      BY <1>1, <1>3, <2>2, <3>1 DEF Anchored
  <2> QED
    BY <1>1, <1>2, <2>2, <2>3, <2>4 DEF Anchored
<1>6. indexed' \in 0 .. Len(events') /\ arrived' \in [Sources -> 0 .. indexed']
  BY <1>1, <1>2 DEF Chain
<1> QED
  BY <1>1, <1>2, <1>4, <1>5, <1>6

LEMMA TablesKept ==
    ASSUME TablesInvariant, [TablesNext]_tableVars
    PROVE  TablesInvariant'
<1>1. ASSUME NEW n \in 0 .. Len(events), NEW now, NEW parts, RewindTo(n, now, parts) PROVE TablesInvariant'
  <2>1. UNCHANGED <<case, events, indexed, arrived, rows, poll>>
    BY <1>1 DEF RewindTo
  <2> QED
    BY <2>1 DEF TablesInvariant, PollInvariant, RowsInvariant, Anchored, Table, Sources, Relevant
<1>2. CASE UNCHANGED tableVars
  <2>1. UNCHANGED <<case, events, indexed, arrived, rows, poll>>
    BY <1>2 DEF tableVars, worldVars
  <2> QED
    BY <2>1 DEF TablesInvariant, PollInvariant, RowsInvariant, Anchored, Table, Sources, Relevant
<1> QED
  BY <1>1, <1>2, PollKeeps, GrowthKeeps, ForkKeeps DEF TablesNext

(* Whatever failed, lagged or was read again, no row, part or value of a   *)
(* table that resets cut comes from an event that has left the chain: the  *)
(* deletions of deleteAfterBlock go as far as the upserts do.              *)
THEOREM RowsStayOnChain == TablesSpec => []RowsOnChain
<1>1. TablesInvariant => RowsOnChain
  BY DEF TablesInvariant, RowsInvariant, RowsOnChain, Anchored
<1> QED
  BY <1>1, TablesBegin, TablesKept, PTL DEF TablesSpec

----------------------------------------------------------------------------
(* The two tables that keep what Ponder once had: the votes, and the       *)
(* rounds with their parts.  A poll of theirs is at one of the statements. *)
Guarded == {KeepEnriched, Parts("committees", Plain), Parts("actions", Enriched)}
Promises(t) == t.sources[1] \in {VoteCast, RoundExecuted}
GuardedTable(t) ==
    /\ t.cut
    /\ \E n \in Nat \ {0} : \A k \in DOMAIN t.does :
        Len(t.does[k]) = n /\ \A i \in 1 .. n : t.does[k][i] \in Guarded

LEMMA PromiseShape == \A t \in Catalogue : Promises(t) => GuardedTable(t)
<1>1. \A h, statements : Promises(Copies(h, statements)) => h \in {VoteCast, RoundExecuted}
  BY DEF Promises, Copies, Reads
<1>2. /\ GuardedTable(TallyVoteCastTable)
      /\ GuardedTable(TallyRoundExecutedTable)
  BY DEF GuardedTable, TallyVoteCastTable, TallyRoundExecutedTable, Copies, Reads, Guarded,
     VoteCast, RoundExecuted, Handler
<1>3. /\ ~Promises(StakeHistory) /\ ~Promises(ProviderTable) /\ ~Promises(ProviderValidatorList)
  BY DEF Promises, StakeHistory, ProviderTable, ProviderValidatorList, Reads, Deposit,
     ProviderRegistered, AttestersAddedToProvider, Handler, VoteCast, RoundExecuted
<1>4. \A h \in {CheckpointProposed, L2ProofVerified, StakedWithProvider, ProviderQueueDripped, Deposit,
               GseDeposit, FailedDeposit, ValidatorQueued, WithdrawInitiated, WithdrawFinalized,
               SignalCast, PayloadSubmittable, PayloadSubmitted, Slashed,
               AttestersAddedToProvider} : h \notin {VoteCast, RoundExecuted}
  <2>1. \A h, g : h.kind # g.kind => h # g
    OBVIOUS
  <2> QED
    BY <2>1 DEF CheckpointProposed, L2ProofVerified, StakedWithProvider, ProviderQueueDripped,
       Deposit, GseDeposit, FailedDeposit, ValidatorQueued, WithdrawInitiated, WithdrawFinalized,
       SignalCast, PayloadSubmittable, PayloadSubmitted, Slashed, AttestersAddedToProvider,
       VoteCast, RoundExecuted, Handler
<1> QED
  BY <1>1, <1>2, <1>3, <1>4
  DEF Catalogue, BlockProposedTable, ProofVerifiedTable, StakedWithProviderTable,
      ProviderQueueDripTable, DepositLifecycle, GseDepositLifecycle, FailedDepositLifecycle,
      QueuedLifecycle, WithdrawInitiatedLifecycle, WithdrawFinalizedLifecycle, ProposerVoteTable,
      PayloadSubmittableTable, PayloadSubmittedTable, SlashSlashedTable, ProviderAttesterTable

AtStatement ==
    Promising /\ poll.stage = "writing" => \A k \in DOMAIN Table.does : poll.step \in 1 .. Len(Table.does[k])

LEMMA StatementKept ==
    ASSUME TablesInvariant, AtStatement, [TablesNext]_tableVars
    PROVE  AtStatement'
<1>1. UNCHANGED case
  BY DEF TablesNext, IndexNext, UpstreamStep, CopySource, TableStep, FetchFirst, FetchMore, Write,
     SaveCursor, WriteCaught, PollFails, ForkTo, RewindTo, tableVars, worldVars
<1>2. Table' = Table /\ (Promising' <=> Promising)
  BY <1>1 DEF Table, Promising
<1>3. Promising => GuardedTable(Table)
  BY PromiseShape, TablesAssumption DEF Promising, Promises, TablesInvariant, Table
<1>4. \/ poll' = NotPolling \/ UNCHANGED poll
      \/ \E next, got : poll' = Reading(next, got)
      \/ \E todo, upto : poll' = Writing(todo, upto, 1)
      \/ /\ poll.stage = "writing"
         /\ \E p \in Relevant :
            /\ poll.step # Len(Statements(p))
            /\ \E todo, upto : poll' = Writing(todo, upto, poll.step + 1)
  <2>1. ASSUME NEW next, NEW got, Fetch(next, got)
        PROVE  \/ poll' = NotPolling
               \/ \E n, g : poll' = Reading(n, g)
               \/ \E todo, upto : poll' = Writing(todo, upto, 1)
    BY <2>1 DEF Fetch, Fetched
  <2>2. ASSUME Write \/ WriteCaught
        PROVE  LET p == NextRow(poll.todo)
               IN  p \in Relevant /\ StatementDone(p) /\ poll.stage = "writing"
    <3>1. poll.stage = "writing" /\ poll.todo # {} /\ poll.todo \subseteq Relevant
      BY <2>2 DEF Write, WriteCaught, TablesInvariant, PollInvariant
    <3>2. NextRow(poll.todo) \in poll.todo
      BY <3>1, LeastIsThere, RelevantFacts DEF NextRow
    <3> QED
      BY <2>2, <3>1, <3>2 DEF Write, WriteCaught
  <2> QED
    BY <2>1, <2>2 DEF TablesNext, IndexNext, UpstreamStep, CopySource, TableStep, FetchFirst,
       FetchMore, SaveCursor, PollFails, ForkTo, RewindTo, tableVars, StatementDone
<1>5. ASSUME NEW todo, NEW upto, NEW step, poll' = Writing(todo, upto, step)
      PROVE  poll'.stage = "writing" /\ poll'.step = step
  BY <1>5 DEF Writing
<1>6. ASSUME Promising, NEW todo, NEW upto, poll' = Writing(todo, upto, 1) PROVE AtStatement'
  BY <1>2, <1>3, <1>5, <1>6 DEF AtStatement, GuardedTable
<1>7. ASSUME Promising, poll.stage = "writing", NEW p \in Relevant, poll.step # Len(Statements(p)),
             NEW todo, NEW upto, poll' = Writing(todo, upto, poll.step + 1)
      PROVE  AtStatement'
  <2>1. events[p].kind \in DOMAIN Table.does
    BY RelevantFacts
  <2>2. PICK n \in Nat \ {0} : \A k \in DOMAIN Table.does : Len(Table.does[k]) = n
    BY <1>3, <1>7 DEF GuardedTable
  <2>3. poll.step + 1 \in 1 .. n
    BY <1>7, <2>1, <2>2 DEF AtStatement, Statements
  <2> QED
    BY <1>2, <1>5, <1>7, <2>2, <2>3 DEF AtStatement
<1>8. CASE ~Promising \/ poll' = NotPolling \/ \E next, got : poll' = Reading(next, got)
  BY <1>2, <1>8 DEF AtStatement, NotPolling, Reading
<1>9. CASE UNCHANGED poll
  BY <1>2, <1>9 DEF AtStatement
<1> QED
  BY <1>4, <1>6, <1>7, <1>8, <1>9

(* A row goes on knowing what is promised of it.                           *)
Knows(q, r) ==
    /\ q.into = r.into /\ q.key = r.key
    /\ \A c \in Promised(r) : r.cells[c].known => q.cells[c].known

LEMMA GuardedWriteKeeps ==
    ASSUME NEW p, NEW s \in Guarded, \A r \in rows : RowShape(r)
    PROVE  \A r \in rows : \E q \in Written(rows, s, p) : Knows(q, r)
<1> SUFFICES ASSUME NEW r \in rows PROVE \E q \in Written(rows, s, p) : Knows(q, r)
  OBVIOUS
<1>1. Knows(r, r)
  BY DEF Knows
<1>2. /\ s.mode \in {"upsert", "parts"}
      /\ \A c \in s.update : c \in s.guarded \/ c # "extra" \/ s.into = "actions"
  BY DEF Guarded, KeepEnriched, Upsert, Enriched, Plain, Parts
<1>3. CASE ~SameRow(r, s, p)
  BY <1>1, <1>2, <1>3 DEF Written
<1>4. CASE s.mode = "parts" /\ <<p, s.into>> \notin gathered
  BY <1>1, <1>4 DEF Written
<1>5. CASE SameRow(r, s, p) /\ ~(s.mode = "parts" /\ <<p, s.into>> \notin gathered)
  <2>1. Updated(r, s, p) \in Written(rows, s, p)
    BY <1>2, <1>5 DEF Written
  <2> DEFINE new == Updated(r, s, p)
  <2>2. /\ new.into = r.into /\ new.key = r.key
        /\ \A c \in DOMAIN r.cells :
            new.cells[c] = IF c \in s.update /\ (c \in s.guarded => Cell(c, p).known)
                           THEN Cell(c, p) ELSE r.cells[c]
    BY DEF Updated, RowShape
  <2>3. \A c \in s.update : c \in s.guarded \/ s.into = "actions" \/ Cell(c, p).known
    BY <1>2 DEF Cell
  <2>5. s.into = r.into
    BY <1>5 DEF SameRow
  <2>6. \A c \in Promised(r) : c \in DOMAIN r.cells /\ (c \in s.update => c \in s.guarded \/ Cell(c, p).known)
    BY <1>2, <2>5 DEF Promised, Cell
  <2>4. Knows(new, r)
    BY <2>2, <2>6, Zenon DEF Knows
  <2> QED
    BY <2>1, <2>4
<1> QED
  BY <1>3, <1>4, <1>5

(* What Ponder once had of a vote or of a round is not lost to a re-index  *)
(* that lacks it, however often the event is read again; the payload in    *)
(* the slashes of a round is not promised.                                 *)
THEOREM KnownIsKept == TablesSpec => KnownKept
<1> DEFINE Kept == Promising /\ events' = events => \A r \in rows : \E q \in rows' : Knows(q, r)
<1>1. TablesInvariant /\ AtStatement /\ [TablesNext]_tableVars => [Kept]_tableVars
  <2> SUFFICES ASSUME TablesInvariant, AtStatement, TablesNext, Promising, events' = events
               PROVE  \A r \in rows : \E q \in rows' : Knows(q, r)
    OBVIOUS
  <2>1. GuardedTable(Table)
    BY PromiseShape, TablesAssumption DEF Promising, Promises, TablesInvariant, Table
  <2>2. \A r \in rows : RowShape(r)
    BY <2>1 DEF GuardedTable, TablesInvariant, RowsInvariant
  <2>3. CASE UNCHANGED rows
    BY <2>3 DEF Knows
  <2>4. CASE Write
    <3> DEFINE p == NextRow(poll.todo)
               s == Statements(p)[poll.step]
    <3>1. poll.stage = "writing" /\ poll.todo # {} /\ poll.todo \subseteq Relevant
      BY <2>4 DEF Write, TablesInvariant, PollInvariant
    <3>2. p \in poll.todo
      BY <3>1, LeastIsThere, RelevantFacts DEF NextRow
    <3>3. events[p].kind \in DOMAIN Table.does
      BY <3>1, <3>2, RelevantFacts
    <3>4. s \in Guarded
      BY <2>1, <3>1, <3>3 DEF GuardedTable, AtStatement, Statements
    <3>5. rows' = Written(rows, s, p)
      BY <2>4 DEF Write
    <3> QED
      BY <2>2, <3>4, <3>5, GuardedWriteKeeps
  <2>5. ~\E n \in 0 .. Len(events) : \E h \in case.chains : ForkTo(h, n)
    BY DEF ForkTo
  <2> QED
    BY <2>3, <2>4, <2>5 DEF TablesNext, IndexNext, UpstreamStep, CopySource, TableStep, FetchFirst,
       FetchMore, SaveCursor, WriteCaught, PollFails, RewindTo
<1>2. TablesInit => AtStatement
  BY DEF TablesInit, AtStatement, NotPolling
<1>3. TablesSpec => []TablesInvariant
  BY TablesBegin, TablesKept, PTL DEF TablesSpec
<1>4. [Kept]_tableVars => [Promising /\ events' = events =>
        \A r \in rows : \E q \in rows' :
            /\ q.into = r.into /\ q.key = r.key
            /\ \A c \in Promised(r) : r.cells[c].known => q.cells[c].known]_tableVars
  BY DEF Knows
<1> QED
  BY <1>1, <1>2, <1>3, <1>4, StatementKept, PTL DEF TablesSpec, KnownKept
----------------------------------------------------------------------------
(* What a replay amounts to.  The rows are written by the first statement  *)
(* for an event, and by an upsert for the event that creates the row; the  *)
(* others alter one column, but for the list of a provider's validators,   *)
(* whose rows are written or removed as a whole.                           *)
Columns == {"core", "extra", "rate", "recipient", "admin"}
CreatesRow(s) ==
    s.mode = "upsert" /\ s.into = "rows" /\ s.update \subseteq s.create /\ s.create \subseteq Columns
Alters(s) == \E c \in Columns : s = Change(c)
Lasting(t) ==
    /\ t.by = "event" => \A k \in DOMAIN t.does : CreatesRow(t.does[k][1])
    /\ t.by = "subject" =>
        t = ProviderTable /\ \A k \in DOMAIN t.does :
            IF k = ProviderRegistered.kind THEN CreatesRow(t.does[k][1]) ELSE Alters(t.does[k][1])
Replaced(t) ==
    /\ t.by = "subject" /\ t # ProviderTable
    /\ \A k \in DOMAIN t.does : t.does[k][1] \in WholeOrNone
Regular(t) ==
    /\ \A k \in DOMAIN t.does :
        /\ Len(t.does[k]) \in Nat \ {0}
        /\ \A i \in 2 .. Len(t.does[k]) : t.does[k][i].mode = "parts" /\ t.does[k][i].into # "rows"
    /\ Len(t.sources) = 1 => DOMAIN t.does = {t.sources[1].kind} /\ ~t.upstream
    /\ Lasting(t) \/ Replaced(t)

(* Which of the events R are about a row, and which write a column of it.  *)
Statement(p) == Statements(p)[1]
OfRow(k, R) == {p \in R : KeyOf(p) = k}
Writers(k, c, R) == {p \in OfRow(k, R) : c \in Statement(p).create \cup Statement(p).update}
LastOf(x, S) == x \in S /\ \A y \in S : y <= x
TheRows(rs) == {r \in rs : r.into = "rows"}

(* The rows rs after the events S of R: what a row has is of events about  *)
(* it, and when all of those are among S it is of the last one, however    *)
(* many of them were written twice and whatever was written since.         *)
CellHeld(r, c, S, R) ==
    /\ \E q \in Writers(r.key, c, R) : r.cells[c].value = Cell(c, q).value
    /\ Writers(r.key, c, R) \subseteq S =>
        \E q \in R : LastOf(q, Writers(r.key, c, R)) /\ r.cells[c].value = Cell(c, q).value
RowHeld(r, S, R) ==
    /\ RowShape(r)
    /\ r.at \in OfRow(r.key, R)
    /\ OfRow(r.key, R) \subseteq S => LastOf(r.at, OfRow(r.key, R))
    /\ \E f \in OfRow(r.key, R) : CreatesRow(Statement(f)) /\ DOMAIN r.cells = Statement(f).create
    /\ \A c \in DOMAIN r.cells : CellHeld(r, c, S, R)
OneRowEach(rs) == \A r, q \in TheRows(rs) : r.key = q.key => r = q
RowsHeld(rs, S, R) ==
    /\ OneRowEach(rs)
    /\ \A r \in TheRows(rs) : RowHeld(r, S, R)
    /\ \A f \in S : CreatesRow(Statement(f)) => \E r \in TheRows(rs) : r.key = KeyOf(f)

(* The same of the list.                                                   *)
EntryHeld(r, S, R) ==
    /\ RowShape(r) /\ DOMAIN r.cells = Plain
    /\ r.at \in OfRow(r.key, R)
    /\ OfRow(r.key, R) \subseteq S =>
        /\ LastOf(r.at, OfRow(r.key, R)) /\ Statement(r.at) # Removal
        /\ r.cells["core"].value = Cell("core", r.at).value
ListHeld(rs, S, R) ==
    /\ OneRowEach(rs)
    /\ \A r \in TheRows(rs) : EntryHeld(r, S, R)
    /\ \A p \in R :
        LastOf(p, OfRow(KeyOf(p), R)) /\ OfRow(KeyOf(p), R) \subseteq S /\ Statement(p) # Removal =>
            \E r \in TheRows(rs) : r.key = KeyOf(p)

ContentsHeld(rs, S, R) ==
    IF Replaced(Table) THEN ListHeld(rs, S, R) ELSE RowsHeld(rs, S, R)

(* The events written are behind those to write; with a single source, no  *)
(* event is passed over.                                                   *)
PlaceInvariant ==
    /\ cursor \in 0 .. indexed /\ seen \subseteq Relevant
    /\ poll.stage # "writing" => \A q \in seen : q <= cursor
    /\ poll.stage = "reading" => \A q \in poll.got : cursor < q
    /\ poll.stage = "writing" =>
        /\ poll.upto \in cursor .. indexed
        /\ \A p \in poll.todo : cursor < p /\ p <= poll.upto /\ \A q \in seen : q < p
        /\ \A q \in seen : q <= poll.upto
        /\ IF poll.todo = {} THEN poll.step = 1
           ELSE poll.step \in 1 .. Len(Statements(Least(poll.todo)))
NothingPassed ==
    Len(Table.sources) = 1 =>
        /\ poll.stage # "reading"
        /\ poll.stage # "writing" => \A p \in Relevant : p <= cursor => p \in seen
        /\ poll.stage = "writing" => \A p \in Relevant : p <= poll.upto => p \in seen \cup poll.todo

(* The event whose row is written, though not yet its parts, counts too.   *)
Begun == IF poll.stage = "writing" /\ poll.step # 1 THEN {Least(poll.todo)} ELSE {}
ContentInvariant ==
    ~swallowed /\ (reorgs = 0 \/ Table.by = "event") => ContentsHeld(rows, seen \cup Begun, Relevant)

ReplayedInvariant ==
    /\ TablesInvariant /\ events \in case.chains /\ reorgs \in Nat
    /\ PlaceInvariant /\ NothingPassed /\ ContentInvariant

LEMMA CopiesRegular ==
    /\ \A h, s : CreatesRow(s) => Regular(Copies(h, <<s>>))
    /\ \A h, s, a, b :
        CreatesRow(s) /\ a.mode = "parts" /\ a.into # "rows" /\ b.mode = "parts" /\ b.into # "rows"
            => Regular(Copies(h, <<s, a, b>>))
<1>1. ASSUME NEW h, NEW statements, CreatesRow(statements[1]), Len(statements) \in Nat \ {0},
             \A i \in 2 .. Len(statements) : statements[i].mode = "parts" /\ statements[i].into # "rows"
      PROVE  Regular(Copies(h, statements))
  <2> DEFINE t == Copies(h, statements)
  <2>1. t.by = "event" /\ t.sources = <<h>> /\ t.does = [k \in {h.kind} |-> statements] /\ ~t.upstream
    BY DEF Copies, Reads
  <2> HIDE DEF t
  <2>2. t.sources[1] = h /\ DOMAIN t.does = {h.kind} /\ \A k \in DOMAIN t.does : t.does[k] = statements
    BY <2>1
  <2> QED
    BY <1>1, <2>1, <2>2 DEF Regular, Lasting, t
<1>2. ASSUME NEW h, NEW s, CreatesRow(s) PROVE Regular(Copies(h, <<s>>))
  <2>1. CreatesRow(<<s>>[1]) /\ Len(<<s>>) \in Nat \ {0} /\ 2 .. Len(<<s>>) = {}
    BY <1>2
  <2> QED
    BY <1>1, <2>1
<1>3. ASSUME NEW h, NEW s, NEW a, NEW b, CreatesRow(s),
             a.mode = "parts" /\ a.into # "rows" /\ b.mode = "parts" /\ b.into # "rows"
      PROVE  Regular(Copies(h, <<s, a, b>>))
  <2> DEFINE q == <<s, a, b>>
  <2>1. q[1] = s /\ q[2] = a /\ q[3] = b /\ Len(q) = 3 /\ 2 .. Len(q) = {2, 3}
    OBVIOUS
  <2> HIDE DEF q
  <2>2. Regular(Copies(h, q))
    BY <1>1, <1>3, <2>1
  <2> QED
    BY <2>2 DEF q
<1> QED
  BY <1>2, <1>3

LEMMA CatalogueRegular == \A t \in Catalogue : Regular(t)
<1>1. /\ CreatesRow(First(Plain)) /\ CreatesRow(First(Enriched))
      /\ CreatesRow(Last(Plain)) /\ CreatesRow(Last(Enriched)) /\ CreatesRow(KeepEnriched)
  BY DEF CreatesRow, First, Last, KeepEnriched, Upsert, Plain, Enriched, Columns
<1>2. Regular(StakeHistory)
  <2> DEFINE t == StakeHistory
  <2>1. t.by = "event" /\ Len(t.sources) = 4
    BY DEF StakeHistory, Reads
  <2>2. DOMAIN t.does = {"deposit", "slashed", "finalized", "gse"}
        /\ \A k \in DOMAIN t.does : t.does[k] = <<First(Enriched)>> \/ t.does[k] = <<First(Plain)>>
    BY DEF StakeHistory, Reads
  <2> HIDE DEF t
  <2>3. \A k \in DOMAIN t.does : Len(t.does[k]) = 1 /\ CreatesRow(t.does[k][1])
    BY <1>1, <2>2
  <2> QED
    BY <2>1, <2>3 DEF Regular, Lasting, t
<1>3. Regular(ProviderTable)
  <2> DEFINE t == ProviderTable
             all == Upsert({"rate", "recipient", "admin"}, {"rate", "admin"}, {})
  <2>1. t.by = "subject" /\ Len(t.sources) = 4
    BY DEF ProviderTable, Reads
  <2>2. \A k \in DOMAIN t.does :
            IF k = "registered" THEN t.does[k] = <<all>>
            ELSE k \in Columns /\ t.does[k] = <<Change(k)>>
    BY DEF ProviderTable, Reads, Columns
  <2>3. CreatesRow(all)
    BY DEF CreatesRow, Upsert, Columns
  <2>4. ProviderRegistered.kind = "registered"
    BY DEF ProviderRegistered, Handler
  <2> HIDE DEF t, all
  <2>5. \A k \in DOMAIN t.does :
            Len(t.does[k]) = 1 /\ IF k = "registered" THEN CreatesRow(t.does[k][1]) ELSE Alters(t.does[k][1])
    BY <2>2, <2>3 DEF Alters
  <2> QED
    BY <2>1, <2>4, <2>5 DEF Regular, Lasting, t
<1>4. Regular(ProviderValidatorList)
  <2> DEFINE t == ProviderValidatorList
  <2>1. t.by = "subject" /\ Len(t.sources) = 2
    BY DEF ProviderValidatorList, Reads
  <2>2. \A k \in DOMAIN t.does : t.does[k] = <<Last(Plain)>> \/ t.does[k] = <<Removal>>
    BY DEF ProviderValidatorList, Reads
  <2>3. t # ProviderTable
    BY DEF ProviderValidatorList, ProviderTable, Reads
  <2> HIDE DEF t
  <2>4. \A k \in DOMAIN t.does : Len(t.does[k]) = 1 /\ t.does[k][1] \in WholeOrNone
    BY <2>2 DEF WholeOrNone
  <2> QED
    BY <2>1, <2>3, <2>4 DEF Regular, Replaced, t
<1>5. Regular(TallyRoundExecutedTable)
  <2> DEFINE a == Parts("committees", Plain)
             b == Parts("actions", Enriched)
  <2>1. a.mode = "parts" /\ a.into # "rows" /\ b.mode = "parts" /\ b.into # "rows"
    BY DEF Parts
  <2> HIDE DEF a, b
  <2>2. Regular(Copies(RoundExecuted, <<KeepEnriched, a, b>>))
    BY <1>1, <2>1, CopiesRegular
  <2> QED
    BY <2>2 DEF TallyRoundExecutedTable, a, b
<1>6. \A h : /\ Regular(Copies(h, <<First(Plain)>>)) /\ Regular(Copies(h, <<First(Enriched)>>))
             /\ Regular(Copies(h, <<Last(Plain)>>)) /\ Regular(Copies(h, <<Last(Enriched)>>))
             /\ Regular(Copies(h, <<KeepEnriched>>))
  BY <1>1, CopiesRegular
<1> QED
  BY <1>2, <1>3, <1>4, <1>5, <1>6
  DEF Catalogue, BlockProposedTable, ProofVerifiedTable, StakedWithProviderTable,
      ProviderQueueDripTable, DepositLifecycle, GseDepositLifecycle, FailedDepositLifecycle,
      QueuedLifecycle, WithdrawInitiatedLifecycle, WithdrawFinalizedLifecycle, ProposerVoteTable,
      PayloadSubmittableTable, PayloadSubmittedTable, TallyVoteCastTable,
      SlashSlashedTable, ProviderAttesterTable

(* What the events of a table have in common.                              *)
LEMMA EventFacts ==
    ASSUME TablesInvariant, events \in case.chains
    PROVE  /\ \A p \in Relevant :
                /\ p \in Nat /\ KeyOf(p) \in Nat
                /\ Len(Statements(p)) \in Nat \ {0}
                /\ \A i \in 2 .. Len(Statements(p)) :
                    Statements(p)[i].mode = "parts" /\ Statements(p)[i].into # "rows"
           /\ Replaced(Table) => \A p \in Relevant : Statement(p) \in WholeOrNone
           /\ ~Replaced(Table) =>
                /\ \A p \in Relevant : CreatesRow(Statement(p)) \/ Alters(Statement(p))
                /\ \A f, q \in Relevant :
                    CreatesRow(Statement(f)) /\ KeyOf(f) = KeyOf(q) => f <= q
<1>1. Regular(Table) /\ Table \in Catalogue /\ RegisteredFirst(events)
  BY CatalogueRegular, TablesAssumption DEF TablesInvariant, Table
<1>2. \A p \in Relevant : p \in Nat /\ p \in DOMAIN events /\ events[p].kind \in DOMAIN Table.does
                          /\ events[p].subject \in Nat
  <2> SUFFICES ASSUME NEW p \in Relevant
               PROVE  /\ p \in Nat /\ p \in DOMAIN events /\ events[p].kind \in DOMAIN Table.does
                      /\ events[p].subject \in Nat
    OBVIOUS
  <2>1. p \in Nat /\ p \in 1 .. Len(events) /\ events[p].kind \in DOMAIN Table.does
    BY RelevantFacts
  <2> DEFINE Event == [kind : Kinds, subject : Nat, value : Nat, more : BOOLEAN]
  <2>2. events \in Seq(Event)
    BY DEF TablesInvariant, Chain
  <2>3. \A e \in Event : e.subject \in Nat
    OBVIOUS
  <2> HIDE DEF Event
  <2>4. p \in DOMAIN events /\ events[p] \in Event
    BY <2>1, <2>2
  <2> QED
    BY <2>1, <2>3, <2>4
<1>3. Table.by \in {"event", "subject"}
  BY CaseFacts DEF TablesInvariant, Shape
<1>4. ASSUME Lasting(Table), NEW p \in Relevant
      PROVE  CreatesRow(Statement(p)) \/ Alters(Statement(p))
  BY <1>2, <1>3, <1>4 DEF Lasting, Statement, Statements
<1>5. ASSUME Lasting(Table), NEW f \in Relevant, NEW q \in Relevant, CreatesRow(Statement(f)),
             KeyOf(f) = KeyOf(q)
      PROVE  f <= q
  <2>1. CASE Table.by = "event"
    BY <1>2, <1>5, <2>1 DEF KeyOf
  <2>2. CASE Table.by = "subject"
    <3>1. ~Alters(Statement(f))
      BY <1>5 DEF Alters, Change, CreatesRow
    <3>2. Table = ProviderTable /\ events[f].kind = ProviderRegistered.kind
      BY <1>2, <1>5, <2>2, <3>1 DEF Lasting, Statement, Statements
    <3>3. events[f].subject = events[q].subject
      BY <1>5, <2>2 DEF KeyOf
    <3> QED
      BY <1>1, <1>2, <3>2, <3>3 DEF RegisteredFirst
  <2> QED
    BY <1>3, <2>1, <2>2
<1>6. ~Replaced(Table) => Lasting(Table)
  BY <1>1 DEF Regular
<1>7. \A p \in Relevant :
        /\ Len(Statements(p)) \in Nat \ {0}
        /\ \A i \in 2 .. Len(Statements(p)) :
            Statements(p)[i].mode = "parts" /\ Statements(p)[i].into # "rows"
  BY <1>1, <1>2 DEF Regular, Statements
<1>8. Replaced(Table) => \A p \in Relevant : Statement(p) \in WholeOrNone
  BY <1>2 DEF Replaced, Statement, Statements
<1>9. \A p \in Relevant : KeyOf(p) \in Nat
  BY <1>2 DEF KeyOf
<1> QED
  BY <1>2, <1>4, <1>5, <1>6, <1>7, <1>8, <1>9

(* A table with a single source copies Ponder's, which has a row per log.  *)
LEMMA NothingShared ==
    ASSUME TablesInvariant, events \in case.chains, Len(Table.sources) = 1
    PROVE  \A p \in 1 .. Len(events) : ~events[p].more
<1>1. ~Table.upstream
  BY CatalogueRegular, TablesAssumption DEF TablesInvariant, Table, Regular
<1>2. OneRowPerLog(events)
  BY <1>1, TablesAssumption DEF TablesInvariant, Table
<1>3. DOMAIN events = 1 .. Len(events)
  BY DEF TablesInvariant, Chain
<1> QED
  BY <1>2, <1>3 DEF OneRowPerLog

(* A row of other events, one that is created, one that is written again   *)
(* by the event that creates it, and one of which a column is altered.     *)
LEMMA OtherRowHeld ==
    ASSUME NEW R, NEW S, NEW p, NEW r, RowHeld(r, S, R), p \notin OfRow(r.key, R)
    PROVE  RowHeld(r, S \cup {p}, R)
<1>1. \A c : Writers(r.key, c, R) \subseteq OfRow(r.key, R)
  BY DEF Writers
<1>2. \A c \in DOMAIN r.cells : CellHeld(r, c, S \cup {p}, R)
  <2> SUFFICES ASSUME NEW c \in DOMAIN r.cells PROVE CellHeld(r, c, S \cup {p}, R)
    OBVIOUS
  <2>1. CellHeld(r, c, S, R)
    BY DEF RowHeld
  <2>2. Writers(r.key, c, R) \subseteq S \cup {p} => Writers(r.key, c, R) \subseteq S
    BY <1>1
  <2> QED
    BY <2>1, <2>2 DEF CellHeld
<1>3. OfRow(r.key, R) \subseteq S \cup {p} => OfRow(r.key, R) \subseteq S
  OBVIOUS
<1> QED
  BY <1>2, <1>3 DEF RowHeld

LEMMA CreatedHeld ==
    ASSUME NEW R, R \subseteq Nat, NEW S, NEW p \in R, \A q \in S : q < p, CreatesRow(Statement(p))
    PROVE  /\ RowHeld(Created(Statement(p), p), S \cup {p}, R)
           /\ Created(Statement(p), p).key = KeyOf(p) /\ Created(Statement(p), p).into = "rows"
<1> DEFINE s == Statement(p)
           r == Created(s, p)
<1>1. /\ r = [into |-> s.into, key |-> KeyOf(p), at |-> p, cells |-> [c \in s.create |-> Cell(c, p)]]
      /\ r.into = s.into /\ r.at = p /\ r.key = KeyOf(p) /\ DOMAIN r.cells = s.create
      /\ \A c \in DOMAIN r.cells : r.cells[c] = Cell(c, p)
  BY DEF Created
<1>2. s.into = "rows"
  BY DEF CreatesRow
<1>3. RowShape(r)
  BY <1>1 DEF RowShape
<1>4. p \in OfRow(r.key, R)
  BY <1>1 DEF OfRow
<1>5. \A T : p \in T /\ T \subseteq S \cup {p} => LastOf(p, T)
  <2>1. \A q \in S \cup {p} : q \in R => q <= p
    OBVIOUS
  <2>2. \A q \in S : q < p
    OBVIOUS
  <2> SUFFICES ASSUME NEW T, p \in T, T \subseteq S \cup {p}, NEW y \in T PROVE y <= p
    BY DEF LastOf
  <2>3. y = p \/ y \in S
    OBVIOUS
  <2> QED
    BY <2>2, <2>3
<1> HIDE DEF r
<1>6. ASSUME NEW c \in DOMAIN r.cells PROVE CellHeld(r, c, S \cup {p}, R)
  <2>1. p \in Writers(r.key, c, R)
    BY <1>1, <1>4, <1>6 DEF Writers
  <2> QED
    BY <1>1, <1>5, <2>1 DEF CellHeld
<1> QED
  BY <1>1, <1>2, <1>3, <1>4, <1>5, <1>6 DEF RowHeld, r

LEMMA UpdatedShape ==
    ASSUME NEW r, NEW s, NEW p, RowShape(r)
    PROVE  LET new == Updated(r, s, p)
           IN  /\ RowShape(new) /\ new.into = r.into /\ new.key = r.key
               /\ new.at = IF s.update = {} THEN r.at ELSE p
               /\ DOMAIN new.cells = DOMAIN r.cells
               /\ \A c \in DOMAIN r.cells :
                    new.cells[c] = IF c \in s.update /\ (c \in s.guarded => Cell(c, p).known)
                                   THEN Cell(c, p) ELSE r.cells[c]
<1> DEFINE cells == [c \in DOMAIN r.cells |->
                IF c \in s.update /\ (c \in s.guarded => Cell(c, p).known)
                THEN Cell(c, p) ELSE r.cells[c]]
           at == IF s.update = {} THEN r.at ELSE p
           new == Updated(r, s, p)
<1>1. r = [into |-> r.into, key |-> r.key, at |-> r.at, cells |-> r.cells]
  BY DEF RowShape
<1>2. new = [r EXCEPT !.at = at, !.cells = cells]
  BY DEF Updated
<1>3. DOMAIN cells = DOMAIN r.cells /\ cells = [c \in DOMAIN cells |-> cells[c]]
      /\ \A c \in DOMAIN r.cells :
            cells[c] = IF c \in s.update /\ (c \in s.guarded => Cell(c, p).known)
                       THEN Cell(c, p) ELSE r.cells[c]
  OBVIOUS
<1> HIDE DEF new, cells
<1>4. new = [into |-> r.into, key |-> r.key, at |-> at, cells |-> cells]
  BY <1>1, <1>2
<1>5. new.into = r.into /\ new.key = r.key /\ new.at = at /\ new.cells = cells
  BY <1>4
<1>6. RowShape(new)
  BY <1>3, <1>4, <1>5 DEF RowShape
<1> QED
  BY <1>3, <1>5, <1>6 DEF new

LEMMA CreatorHeld ==
    ASSUME NEW R, R \subseteq Nat, NEW S, NEW p \in R, \A q \in S : q < p,
           CreatesRow(Statement(p)), \A q \in OfRow(KeyOf(p), R) : p <= q,
           NEW r, RowHeld(r, S, R), r.key = KeyOf(p)
    PROVE  RowHeld(Updated(r, Statement(p), p), S \cup {p}, R)
<1> DEFINE s == Statement(p)
           new == Updated(r, s, p)
<1>1. RowShape(r)
  BY DEF RowHeld
<1>2. /\ RowShape(new) /\ new.into = r.into /\ new.key = r.key /\ new.at \in {r.at, p}
      /\ DOMAIN new.cells = DOMAIN r.cells
      /\ \A c \in DOMAIN r.cells :
            new.cells[c] = IF c \in s.update /\ (c \in s.guarded => Cell(c, p).known)
                           THEN Cell(c, p) ELSE r.cells[c]
  BY <1>1, UpdatedShape
<1> HIDE DEF new, s
<1>3. p \in OfRow(r.key, R) /\ OfRow(r.key, R) \subseteq Nat
  BY DEF OfRow
<1>4. \A q \in OfRow(r.key, R) : q \in S \cup {p} => q = p
  <2> SUFFICES ASSUME NEW q \in OfRow(r.key, R), q \in S PROVE FALSE
    OBVIOUS
  <2> QED
    BY <1>3
<1>5. \A c : Writers(r.key, c, R) \subseteq OfRow(r.key, R)
  BY DEF Writers
<1>6. new.at \in OfRow(r.key, R) /\ (OfRow(r.key, R) \subseteq S \cup {p} => LastOf(new.at, OfRow(r.key, R)))
  <2>1. r.at \in OfRow(r.key, R)
    BY DEF RowHeld
  <2>2. ASSUME OfRow(r.key, R) \subseteq S \cup {p} PROVE OfRow(r.key, R) = {p}
    BY <1>3, <1>4, <2>2
  <2> QED
    BY <1>2, <1>3, <2>1, <2>2 DEF LastOf
<1>7. ASSUME NEW c \in DOMAIN new.cells PROVE CellHeld(new, c, S \cup {p}, R)
  <2> DEFINE W == Writers(r.key, c, R)
  <2>1. \E q \in W : new.cells[c].value = Cell(c, q).value
    <3>1. CASE c \in s.update
      <4>1. p \in W
        BY <1>3, <3>1 DEF Writers, s
      <4>2. \E q \in W : r.cells[c].value = Cell(c, q).value
        BY <1>2, <1>7 DEF RowHeld, CellHeld
      <4> QED
        BY <1>2, <1>7, <4>1, <4>2
    <3>2. CASE c \notin s.update
      BY <1>2, <1>7, <3>2 DEF RowHeld, CellHeld
    <3> QED
      BY <3>1, <3>2
  <2>2. ASSUME W \subseteq S \cup {p} PROVE W = {p}
    BY <1>4, <1>5, <2>1, <2>2
  <2> HIDE DEF W
  <2>3. ASSUME W \subseteq S \cup {p}
        PROVE  \E q \in R : LastOf(q, W) /\ new.cells[c].value = Cell(c, q).value
    BY <2>1, <2>2, <2>3 DEF LastOf
  <2> QED
    BY <1>2, <2>1, <2>3 DEF CellHeld, W
<1>8. \E f \in OfRow(r.key, R) : CreatesRow(Statement(f)) /\ DOMAIN new.cells = Statement(f).create
  BY <1>2 DEF RowHeld
<1> QED
  BY <1>2, <1>6, <1>7, <1>8 DEF RowHeld, new, s

LEMMA AlteredHeld ==
    ASSUME NEW R, R \subseteq Nat, NEW S, NEW p \in R, \A q \in S : q < p, Alters(Statement(p)),
           NEW r, RowHeld(r, S, R), r.key = KeyOf(p)
    PROVE  RowHeld(Updated(r, Statement(p), p), S \cup {p}, R)
<1> DEFINE s == Statement(p)
           new == Updated(r, s, p)
<1>0. PICK x : s.create = {} /\ s.update = {x} /\ s.guarded = {}
  BY DEF Alters, Change
<1>1. RowShape(r)
  BY DEF RowHeld
<1>2. /\ RowShape(new) /\ new.into = r.into /\ new.key = r.key /\ new.at = p
      /\ DOMAIN new.cells = DOMAIN r.cells
      /\ \A c \in DOMAIN r.cells : new.cells[c] = IF c = x THEN Cell(c, p) ELSE r.cells[c]
  BY <1>0, <1>1, UpdatedShape
<1> HIDE DEF new, s
<1>3. p \in OfRow(r.key, R)
  BY DEF OfRow
<1>4. \A T : p \in T /\ T \subseteq S \cup {p} => LastOf(p, T)
  <2> SUFFICES ASSUME NEW T, p \in T, T \subseteq S \cup {p}, NEW y \in T PROVE y <= p
    BY DEF LastOf
  <2>1. y = p \/ y \in S
    OBVIOUS
  <2> QED
    BY <2>1
<1>5. ASSUME NEW c \in DOMAIN new.cells PROVE CellHeld(new, c, S \cup {p}, R)
  <2> DEFINE W == Writers(r.key, c, R)
  <2>1. CASE c = x
    <3>1. p \in W
      BY <1>0, <1>3, <2>1 DEF Writers, s
    <3>2. new.cells[c] = Cell(c, p)
      BY <1>2, <1>5, <2>1
    <3> QED
      BY <1>2, <1>4, <3>1, <3>2 DEF CellHeld
  <2>2. CASE c # x
    <3>1. p \notin W
      BY <1>0, <2>2 DEF Writers, s
    <3>2. W \subseteq S \cup {p} => W \subseteq S
      BY <3>1
    <3>3. CellHeld(r, c, S, R)
      BY <1>2, <1>5 DEF RowHeld
    <3>4. new.cells[c] = r.cells[c]
      BY <1>2, <1>5, <2>2
    <3> QED
      BY <1>2, <3>2, <3>3, <3>4 DEF CellHeld
  <2> QED
    BY <2>1, <2>2
<1>6. \E f \in OfRow(r.key, R) : CreatesRow(Statement(f)) /\ DOMAIN new.cells = Statement(f).create
  BY <1>2 DEF RowHeld
<1> QED
  BY <1>2, <1>3, <1>4, <1>5, <1>6 DEF RowHeld, new, s

(* The first statement for an event that is behind all that are written.   *)
LEMMA WriteHolds ==
    ASSUME TablesInvariant, events \in case.chains, ~Replaced(Table),
           NEW R, R \subseteq Relevant, NEW S, S \subseteq R, NEW p \in R, \A q \in S : q < p,
           NEW rs, RowsHeld(rs, S, R)
    PROVE  RowsHeld(Written(rs, Statement(p), p), S \cup {p}, R)
<1> DEFINE s == Statement(p)
           old == {r \in rs : SameRow(r, s, p)}
           W == Written(rs, s, p)
<1>1. R \subseteq Nat /\ (CreatesRow(s) \/ Alters(s))
      /\ \A f, q \in R : CreatesRow(Statement(f)) /\ KeyOf(f) = KeyOf(q) => f <= q
  BY EventFacts
<1>2. s.into = "rows" /\ \A x : ~(CreatesRow(s) /\ s = Change(x))
  BY <1>1 DEF CreatesRow, Alters, Change
<1>3. \A r : r \in old <=> r \in TheRows(rs) /\ r.key = KeyOf(p)
  BY <1>2 DEF TheRows, SameRow
<1>4. /\ s.mode \in {"upsert", "change"} /\ (s.mode = "upsert" <=> CreatesRow(s))
      /\ W = (rs \ old) \cup
              (IF old = {} /\ CreatesRow(s) THEN {Created(s, p)} ELSE {Updated(r, s, p) : r \in old})
  <2>1. CASE CreatesRow(s)
    <3>1. s.mode = "upsert"
      BY <2>1 DEF CreatesRow
    <3>2. W = (rs \ old) \cup (IF old = {} THEN {Created(s, p)} ELSE {Updated(r, s, p) : r \in old})
      BY <3>1 DEF Written
    <3> QED
      BY <2>1, <3>1, <3>2
  <2>2. CASE ~CreatesRow(s)
    <3>1. s.mode = "change"
      BY <1>1, <2>2 DEF Alters, Change
    <3>2. W = (rs \ old) \cup {Updated(r, s, p) : r \in old}
      BY <3>1 DEF Written
    <3> QED
      BY <2>2, <3>1, <3>2
  <2> QED
    BY <2>1, <2>2
<1>5. ASSUME NEW r \in old
      PROVE  /\ Updated(r, s, p).into = "rows" /\ Updated(r, s, p).key = KeyOf(p)
             /\ RowHeld(Updated(r, s, p), S \cup {p}, R)
  <2>1. RowHeld(r, S, R) /\ r.key = KeyOf(p) /\ r.into = "rows" /\ RowShape(r)
    BY <1>3, <1>5 DEF RowsHeld, TheRows, RowHeld
  <2>2. Updated(r, s, p).into = r.into /\ Updated(r, s, p).key = r.key
    BY <2>1, UpdatedShape
  <2>3. CASE CreatesRow(s)
    <3>1. \A q \in OfRow(KeyOf(p), R) : p <= q
      BY <1>1, <2>3 DEF OfRow
    <3> QED
      BY <1>1, <2>1, <2>2, <2>3, <3>1, CreatorHeld
  <2>4. CASE Alters(s)
    BY <1>1, <2>1, <2>2, <2>4, AlteredHeld
  <2> QED
    BY <1>1, <2>3, <2>4
<1>6. CreatesRow(s) => /\ RowHeld(Created(s, p), S \cup {p}, R)
                       /\ Created(s, p).key = KeyOf(p) /\ Created(s, p).into = "rows"
  BY <1>1, CreatedHeld
<1>7. ASSUME NEW r \in TheRows(rs), r \notin old
      PROVE  RowHeld(r, S \cup {p}, R) /\ r.key # KeyOf(p)
  <2>1. r.key # KeyOf(p) /\ RowHeld(r, S, R)
    BY <1>3, <1>7 DEF RowsHeld
  <2>2. p \notin OfRow(r.key, R)
    BY <2>1 DEF OfRow
  <2> QED
    BY <2>1, <2>2, OtherRowHeld
<1>8. \A r, q \in old : r = q
  BY <1>3 DEF RowsHeld, OneRowEach
<1> HIDE DEF s, old, W
<1>9. \A r \in TheRows(W) : \/ r \in TheRows(rs) /\ r \notin old
                            \/ r = Created(s, p) /\ CreatesRow(s) /\ old = {}
                            \/ \E q \in old : r = Updated(q, s, p)
  BY <1>4 DEF TheRows
<1>10. OneRowEach(W)
  BY <1>5, <1>6, <1>7, <1>8, <1>9 DEF RowsHeld, OneRowEach
<1>11. \A r \in TheRows(W) : RowHeld(r, S \cup {p}, R)
  BY <1>5, <1>6, <1>7, <1>9
<1>12. ASSUME NEW f \in S \cup {p}, CreatesRow(Statement(f))
       PROVE  \E r \in TheRows(W) : r.key = KeyOf(f)
  <2>1. \A r \in old : Updated(r, s, p) \in TheRows(W)
    BY <1>4, <1>5 DEF TheRows
  <2>2. CASE KeyOf(f) = KeyOf(p) /\ old # {}
    BY <1>5, <2>1, <2>2
  <2>3. CASE f = p /\ old = {}
    <3>1. CreatesRow(s)
      BY <1>12, <2>3 DEF s
    <3>2. Created(s, p) \in TheRows(W)
      BY <1>4, <1>6, <2>3, <3>1 DEF TheRows
    <3> QED
      BY <1>6, <2>3, <3>1, <3>2
  <2>4. CASE f \in S /\ (KeyOf(f) # KeyOf(p) \/ old = {})
    <3>1. PICK r \in TheRows(rs) : r.key = KeyOf(f)
      BY <1>12, <2>4 DEF RowsHeld
    <3>2. r \notin old
      BY <1>3, <2>4, <3>1
    <3>3. r \in TheRows(W)
      BY <1>4, <3>1, <3>2 DEF TheRows
    <3> QED
      BY <3>1, <3>3
  <2> QED
    BY <2>2, <2>3, <2>4
<1> QED
  BY <1>10, <1>11, <1>12 DEF RowsHeld, W, s

LEMMA ListWriteHolds ==
    ASSUME TablesInvariant, events \in case.chains, Replaced(Table),
           NEW R, R \subseteq Relevant, NEW S, S \subseteq R, NEW p \in R, \A q \in S : q < p,
           NEW rs, ListHeld(rs, S, R)
    PROVE  ListHeld(Written(rs, Statement(p), p), S \cup {p}, R)
<1> DEFINE s == Statement(p)
           old == {r \in rs : SameRow(r, s, p)}
           W == Written(rs, s, p)
<1>1. R \subseteq Nat /\ s \in WholeOrNone
  BY EventFacts
<1>2. s.into = "rows" /\ (s # Removal => s = Last(Plain))
  BY <1>1 DEF WholeOrNone, Removal, Last, Upsert
<1>3. \A r : r \in old <=> r \in TheRows(rs) /\ r.key = KeyOf(p)
  BY <1>2 DEF TheRows, SameRow
<1>4. W = (rs \ old) \cup
            (IF s = Removal THEN {}
             ELSE IF old = {} THEN {Created(s, p)} ELSE {Updated(r, s, p) : r \in old})
  <2>1. CASE s = Removal
    BY <2>1 DEF Written, Removal
  <2>2. CASE s # Removal
    <3>1. s.mode = "upsert"
      BY <1>2, <2>2 DEF Last, Upsert
    <3>2. W = (rs \ old) \cup (IF old = {} THEN {Created(s, p)} ELSE {Updated(r, s, p) : r \in old})
      BY <3>1 DEF Written
    <3> QED
      BY <2>2, <3>2
  <2> QED
    BY <2>1, <2>2
<1>5. ASSUME NEW T, p \in T, T \subseteq S \cup {p} PROVE LastOf(p, T)
  <2> SUFFICES ASSUME NEW y \in T PROVE y <= p
    BY <1>5 DEF LastOf
  <2>1. y = p \/ y \in S
    BY <1>5
  <2>2. p \in Nat /\ (y \in S => y \in Nat /\ y < p)
    BY <1>1
  <2> HIDE DEF s
  <2> QED
    BY <2>1, <2>2
<1>6. ASSUME NEW r, RowShape(r), DOMAIN r.cells = Plain, r.at = p, r.key = KeyOf(p), s # Removal,
             r.cells["core"] = Cell("core", p)
      PROVE  EntryHeld(r, S \cup {p}, R)
  <2>1. p \in OfRow(r.key, R)
    BY <1>6 DEF OfRow
  <2> QED
    BY <1>5, <1>6, <2>1 DEF EntryHeld
<1>7. ASSUME NEW r \in old, s # Removal
      PROVE  /\ Updated(r, s, p).into = "rows" /\ Updated(r, s, p).key = KeyOf(p)
             /\ EntryHeld(Updated(r, s, p), S \cup {p}, R)
  <2>1. RowShape(r) /\ DOMAIN r.cells = Plain /\ r.key = KeyOf(p) /\ r.into = "rows"
    BY <1>3, <1>7 DEF ListHeld, EntryHeld, TheRows
  <2>2. s.update = Plain /\ s.guarded = {} /\ "core" \in Plain
    BY <1>2, <1>7 DEF Last, Upsert, Plain
  <2>3. /\ RowShape(Updated(r, s, p)) /\ Updated(r, s, p).into = r.into
        /\ Updated(r, s, p).key = r.key /\ Updated(r, s, p).at = p
        /\ DOMAIN Updated(r, s, p).cells = Plain /\ Updated(r, s, p).cells["core"] = Cell("core", p)
    BY <2>1, <2>2, UpdatedShape
  <2> QED
    BY <1>6, <1>7, <2>1, <2>3
<1>8. ASSUME s # Removal
      PROVE  /\ Created(s, p).into = "rows" /\ Created(s, p).key = KeyOf(p)
             /\ EntryHeld(Created(s, p), S \cup {p}, R)
  <2> DEFINE r == Created(s, p)
  <2>1. s.create = Plain /\ "core" \in Plain
    BY <1>2, <1>8 DEF Last, Upsert, Plain
  <2>2. /\ r = [into |-> s.into, key |-> KeyOf(p), at |-> p, cells |-> [c \in s.create |-> Cell(c, p)]]
        /\ r.into = s.into /\ r.at = p /\ r.key = KeyOf(p) /\ DOMAIN r.cells = s.create
        /\ \A c \in s.create : r.cells[c] = Cell(c, p)
    BY DEF Created
  <2> HIDE DEF r
  <2>3. RowShape(r)
    BY <2>2 DEF RowShape
  <2>4. r.cells["core"] = Cell("core", p) /\ DOMAIN r.cells = Plain
    BY <2>1, <2>2
  <2>5. EntryHeld(r, S \cup {p}, R)
    BY <1>6, <1>8, <2>2, <2>3, <2>4
  <2> QED
    BY <1>2, <2>2, <2>5 DEF r
<1>9. ASSUME NEW r \in TheRows(rs), r \notin old
      PROVE  EntryHeld(r, S \cup {p}, R) /\ r.key # KeyOf(p)
  <2>1. r.key # KeyOf(p) /\ EntryHeld(r, S, R)
    BY <1>3, <1>9 DEF ListHeld
  <2>2. OfRow(r.key, R) \subseteq S \cup {p} => OfRow(r.key, R) \subseteq S
    BY <2>1 DEF OfRow
  <2> QED
    BY <2>1, <2>2 DEF EntryHeld
<1>10. \A r, q \in old : r = q
  BY <1>3 DEF ListHeld, OneRowEach
<1> HIDE DEF s, old, W
<1>11. \A r \in TheRows(W) : \/ r \in TheRows(rs) /\ r \notin old
                             \/ r = Created(s, p) /\ s # Removal /\ old = {}
                             \/ s # Removal /\ \E q \in old : r = Updated(q, s, p)
  BY <1>4 DEF TheRows
<1>12. OneRowEach(W)
  BY <1>7, <1>8, <1>9, <1>10, <1>11 DEF ListHeld, OneRowEach
<1>13. \A r \in TheRows(W) : EntryHeld(r, S \cup {p}, R)
  BY <1>7, <1>8, <1>9, <1>11
<1>14. ASSUME NEW q \in R, LastOf(q, OfRow(KeyOf(q), R)), OfRow(KeyOf(q), R) \subseteq S \cup {p},
              Statement(q) # Removal
       PROVE  \E r \in TheRows(W) : r.key = KeyOf(q)
  <2>1. CASE KeyOf(q) = KeyOf(p)
    <3>1. p <= q /\ q \in S \cup {p}
      BY <1>14, <2>1 DEF LastOf, OfRow
    <3>2. q = p
      BY <1>1, <3>1
    <3>3. s # Removal
      BY <1>14, <3>2 DEF s
    <3>4. CASE old = {}
      <4>1. Created(s, p) \in TheRows(W)
        BY <1>4, <1>8, <3>3, <3>4 DEF TheRows
      <4> QED
        BY <1>8, <2>1, <3>3, <4>1
    <3>5. CASE old # {}
      <4>1. \A r \in old : Updated(r, s, p) \in TheRows(W)
        BY <1>4, <1>7, <3>3, <3>5 DEF TheRows
      <4> QED
        BY <1>7, <2>1, <3>3, <3>5, <4>1
    <3> QED
      BY <3>4, <3>5
  <2>2. CASE KeyOf(q) # KeyOf(p)
    <3>1. OfRow(KeyOf(q), R) \subseteq S
      BY <1>14, <2>2 DEF OfRow
    <3>2. PICK r \in TheRows(rs) : r.key = KeyOf(q)
      BY <1>14, <3>1 DEF ListHeld
    <3>3. r \notin old
      BY <1>3, <2>2, <3>2
    <3>4. r \in TheRows(W)
      BY <1>4, <3>2, <3>3 DEF TheRows
    <3> QED
      BY <3>2, <3>4
  <2> QED
    BY <2>1, <2>2
<1> QED
  BY <1>12, <1>13, <1>14 DEF ListHeld, W, s

(* There may be more events, and fewer of them written.                    *)
LEMMA HeldWeakens ==
    ASSUME NEW rs, NEW S, NEW R, ContentsHeld(rs, S, R), S \subseteq R,
           NEW qs, TheRows(qs) = TheRows(rs), NEW T, T \subseteq S, NEW Q, R \subseteq Q
    PROVE  ContentsHeld(qs, T, Q)
<1>1. \A k : OfRow(k, R) \subseteq OfRow(k, Q) /\ (OfRow(k, Q) \subseteq T =>
          OfRow(k, Q) = OfRow(k, R) /\ OfRow(k, R) \subseteq S)
  BY DEF OfRow
<1>2. \A k, c : Writers(k, c, R) \subseteq Writers(k, c, Q) /\ (Writers(k, c, Q) \subseteq T =>
          Writers(k, c, Q) = Writers(k, c, R) /\ Writers(k, c, R) \subseteq S)
  BY DEF OfRow, Writers
<1>3. OneRowEach(rs) => OneRowEach(qs)
  BY DEF OneRowEach
<1>4. CASE Replaced(Table)
  <2>1. ListHeld(rs, S, R)
    BY <1>4 DEF ContentsHeld
  <2>2. \A r \in TheRows(qs) : EntryHeld(r, T, Q)
    BY <1>1, <2>1 DEF ListHeld, EntryHeld
  <2>3. ASSUME NEW p \in Q, LastOf(p, OfRow(KeyOf(p), Q)), OfRow(KeyOf(p), Q) \subseteq T,
               Statement(p) # Removal
        PROVE  \E r \in TheRows(qs) : r.key = KeyOf(p)
    <3>1. p \in OfRow(KeyOf(p), Q)
      BY DEF OfRow
    <3>2. p \in R /\ LastOf(p, OfRow(KeyOf(p), R)) /\ OfRow(KeyOf(p), R) \subseteq S
      BY <1>1, <2>3, <3>1
    <3> QED
      BY <2>1, <2>3, <3>2 DEF ListHeld
  <2> QED
    BY <1>3, <1>4, <2>1, <2>2, <2>3 DEF ListHeld, ContentsHeld
<1>5. CASE ~Replaced(Table)
  <2>1. RowsHeld(rs, S, R)
    BY <1>5 DEF ContentsHeld
  <2>2. ASSUME NEW r \in TheRows(qs) PROVE RowHeld(r, T, Q)
    <3>1. RowHeld(r, S, R)
      BY <2>1 DEF RowsHeld
    <3>2. \A c \in DOMAIN r.cells : CellHeld(r, c, T, Q)
      BY <1>2, <3>1 DEF RowHeld, CellHeld
    <3> QED
      BY <1>1, <3>1, <3>2 DEF RowHeld
  <2>3. \A f \in T : CreatesRow(Statement(f)) => \E r \in TheRows(qs) : r.key = KeyOf(f)
    BY <2>1 DEF RowsHeld
  <2> QED
    BY <1>3, <1>5, <2>1, <2>2, <2>3 DEF RowsHeld, ContentsHeld
<1> QED
  BY <1>4, <1>5

(* Replay[n] is what its recursive definition says.                        *)
StoredCell == [value : Nat, known : BOOLEAN]
StoredRow ==
    [into : {"rows"}, key : Nat, at : Nat, cells : UNION {[D -> StoredCell] : D \in SUBSET Columns}]

LEMMA WrittenStored ==
    ASSUME TablesInvariant, events \in case.chains, NEW p \in Relevant, NEW rs \in SUBSET StoredRow
    PROVE  Written(rs, Statement(p), p) \in SUBSET StoredRow
<1> DEFINE s == Statement(p)
           cells == [c \in s.create |-> Cell(c, p)]
<1>1. p \in Nat /\ KeyOf(p) \in Nat
      /\ (s = Removal \/ s = Last(Plain) \/ CreatesRow(s) \/ Alters(s))
  BY EventFacts DEF WholeOrNone
<1>2. \A c : Cell(c, p) \in StoredCell
  <2> SUFFICES ASSUME NEW c PROVE Cell(c, p) \in StoredCell
    OBVIOUS
  <2> DEFINE Event == [kind : Kinds, subject : Nat, value : Nat, more : BOOLEAN]
  <2>1. \E q \in 1 .. p : events[q].value = Cell(c, p).value
    BY CellIsOfChain
  <2>2. p \in 1 .. Len(events)
    BY RelevantFacts
  <2>3. events \in Seq(Event)
    BY DEF TablesInvariant, Chain
  <2>4. \A e \in Event : e.value \in Nat
    OBVIOUS
  <2> HIDE DEF Event
  <2>5. Cell(c, p).value \in Nat
    BY <1>1, <2>1, <2>2, <2>3, <2>4
  <2>6. Cell(c, p) = [value |-> Cell(c, p).value, known |-> Cell(c, p).known]
        /\ Cell(c, p).known \in BOOLEAN
    BY DEF Cell
  <2> QED
    BY <2>5, <2>6 DEF StoredCell
<1>3. \A D : \A f : D \in SUBSET Columns /\ f \in [D -> StoredCell]
          => f \in UNION {[E -> StoredCell] : E \in SUBSET Columns}
  OBVIOUS
<1>4. ASSUME s # Removal, ~Alters(s) PROVE Created(s, p) \in StoredRow
  <2>1. s.into = "rows" /\ s.create \in SUBSET Columns
    BY <1>1, <1>4 DEF CreatesRow, Last, Upsert, Plain, Columns
  <2>2. cells \in [s.create -> StoredCell]
    BY <1>2
  <2>3. Created(s, p) = [into |-> s.into, key |-> KeyOf(p), at |-> p, cells |-> cells]
    BY DEF Created
  <2> HIDE DEF cells
  <2> QED
    BY <1>1, <1>3, <2>1, <2>2, <2>3 DEF StoredRow
<1>5. ASSUME NEW r \in rs PROVE Updated(r, s, p) \in StoredRow
  <2> DEFINE new == Updated(r, s, p)
  <2>1. r \in StoredRow
    OBVIOUS
  <2>2. r.into = "rows" /\ r.key \in Nat /\ r.at \in Nat
        /\ \E D \in SUBSET Columns : r.cells \in [D -> StoredCell]
    BY <2>1 DEF StoredRow
  <2>3. PICK D \in SUBSET Columns : r.cells \in [D -> StoredCell]
    BY <2>2
  <2>4. DOMAIN r.cells = D /\ r.cells = [c \in DOMAIN r.cells |-> r.cells[c]]
        /\ \A c \in D : r.cells[c] \in StoredCell
    BY <2>3
  <2>5. r = [into |-> r.into, key |-> r.key, at |-> r.at, cells |-> r.cells]
    BY <2>1 DEF StoredRow
  <2>6. RowShape(r)
    BY <2>4, <2>5 DEF RowShape
  <2>7. /\ RowShape(new) /\ new.into = r.into /\ new.key = r.key /\ new.at \in {r.at, p}
        /\ DOMAIN new.cells = D
        /\ \A c \in D : new.cells[c] \in {Cell(c, p), r.cells[c]}
    BY <2>4, <2>6, UpdatedShape
  <2> HIDE DEF new
  <2>8. new.cells \in [D -> StoredCell]
    BY <1>2, <2>4, <2>7 DEF RowShape
  <2>9. new = [into |-> new.into, key |-> new.key, at |-> new.at, cells |-> new.cells]
    BY <2>7 DEF RowShape
  <2>10. new.into = "rows" /\ new.key \in Nat /\ new.at \in Nat
    BY <1>1, <2>2, <2>7
  <2>11. new.cells \in UNION {[E -> StoredCell] : E \in SUBSET Columns}
    BY <1>3, <2>8
  <2>12. new \in StoredRow
    BY <2>9, <2>10, <2>11 DEF StoredRow
  <2> QED
    BY <2>12 DEF new
<1>6. Written(rs, s, p) \subseteq rs \cup {Updated(r, s, p) : r \in rs} \cup
          (IF s = Removal \/ Alters(s) THEN {} ELSE {Created(s, p)})
  <2> DEFINE old == {r \in rs : SameRow(r, s, p)}
  <2>1. CASE s = Removal
    BY <2>1 DEF Written, Removal
  <2>2. CASE Alters(s)
    <3>1. s.mode = "change"
      BY <2>2 DEF Alters, Change
    <3>2. Written(rs, s, p) = (rs \ old) \cup {Updated(r, s, p) : r \in old}
      BY <3>1 DEF Written
    <3> QED
      BY <3>2
  <2>3. CASE s # Removal /\ ~Alters(s)
    BY <2>3 DEF Written
  <2> QED
    BY <2>1, <2>2, <2>3
<1> HIDE DEF s
<1>7. Written(rs, s, p) \subseteq StoredRow
  BY <1>4, <1>5, <1>6
<1> QED
  BY <1>7 DEF s

ReplayLaw ==
    /\ Replay[0] = {}
    /\ \A n \in Nat : n # 0 =>
        Replay[n] = IF n \in Relevant THEN Written(Replay[n - 1], Statement(n), n) ELSE Replay[n - 1]

LEMMA ReplayRuns ==
    ASSUME TablesInvariant, events \in case.chains
    PROVE  ReplayLaw
<1> DEFINE V == SUBSET StoredRow
           base == {}
           next(n, S) == IF n \in Relevant THEN Written(S, Statement(n), n) ELSE S
           step == [n \in Nat |-> [S \in V |-> next(n, S)]]
<1>1. step \in Steps(V)
  <2>1. ASSUME NEW n \in Nat, NEW S \in V PROVE next(n, S) \in V
    BY WrittenStored
  <2> HIDE DEF V, next
  <2> QED
    BY <2>1 DEF Steps
<1>2. PICK f \in [Nat -> V] : Runs(f, base, step)
  <2>1. base \in V
    OBVIOUS
  <2> HIDE DEF step, V, base
  <2> QED
    BY <1>1, <2>1, RecursionOverNat
<1> DEFINE Solves(g) == g = [n \in Nat |->
                IF n = 0 THEN {}
                ELSE IF n \notin Relevant THEN g[n - 1]
                ELSE Written(g[n - 1], Statements(n)[1], n)]
<1>3. f[0] = {} /\ \A n \in Nat : n # 0 => f[n] = next(n, f[n - 1])
  <2>1. ASSUME NEW n \in Nat, n # 0 PROVE f[n] = next(n, f[n - 1])
    <3>1. n - 1 \in Nat
      BY <2>1
    <3>2. f[n - 1] \in V /\ f[n] = step[n][f[n - 1]]
      <4> HIDE DEF V, step, base
      <4> QED
        BY <1>2, <2>1, <3>1 DEF Runs
    <3> HIDE DEF V, next
    <3> QED
      BY <3>2
  <2>2. f[0] = {}
    BY <1>2 DEF Runs
  <2> QED
    BY <2>1, <2>2
<1>4. Solves(f)
  <2>1. f = [n \in Nat |-> f[n]]
    <3> HIDE DEF V
    <3> QED
      BY <1>2
  <2> DEFINE e(n) == IF n = 0 THEN {}
                     ELSE IF n \notin Relevant THEN f[n - 1]
                     ELSE Written(f[n - 1], Statements(n)[1], n)
  <2>2. \A n \in Nat : f[n] = e(n)
    BY <1>3 DEF Statement
  <2> HIDE DEF e
  <2>3. f = [n \in Nat |-> e(n)]
    BY <2>1, <2>2
  <2> QED
    BY <2>3 DEF e
<1>5. Replay = CHOOSE g : Solves(g)
  BY DEF Replay
<1>6. Solves(Replay)
  <2> HIDE DEF Solves
  <2> QED
    BY <1>4, <1>5
<1>7. Replay[0] = {}
  BY <1>6
<1>8. ASSUME NEW n \in Nat, n # 0
      PROVE  Replay[n] = IF n \in Relevant THEN Written(Replay[n - 1], Statement(n), n)
                         ELSE Replay[n - 1]
  <2>1. Replay[n] = IF n = 0 THEN {}
                    ELSE IF n \notin Relevant THEN Replay[n - 1]
                    ELSE Written(Replay[n - 1], Statements(n)[1], n)
    BY <1>6
  <2> QED
    BY <1>8, <2>1 DEF Statement
<1> QED
  BY <1>7, <1>8 DEF ReplayLaw

(* The replay of the first n events holds what they amount to.             *)
UpTo(n) == {p \in Relevant : p <= n}

LEMMA WriteAdds ==
    ASSUME TablesInvariant, events \in case.chains,
           NEW R, R \subseteq Relevant, NEW S, S \subseteq R, NEW p \in R, \A q \in S : q < p,
           NEW rs, ContentsHeld(rs, S, R)
    PROVE  ContentsHeld(Written(rs, Statement(p), p), S \cup {p}, R)
  BY WriteHolds, ListWriteHolds DEF ContentsHeld

LEMMA ReplayHolds ==
    ASSUME TablesInvariant, events \in case.chains, NEW n \in Nat
    PROVE  ContentsHeld(Replay[n], UpTo(n), UpTo(n))
<1> DEFINE T == {m \in Nat : ContentsHeld(Replay[m], UpTo(m), UpTo(m))}
<1>1. \A p \in Relevant : p \in Nat /\ p # 0
  BY RelevantFacts
<1>2. 0 \in T
  <2>1. UpTo(0) = {}
    BY <1>1 DEF UpTo
  <2>2. TheRows({}) = {}
    BY DEF TheRows
  <2>3. ContentsHeld({}, {}, {})
    BY <2>2 DEF ContentsHeld, RowsHeld, ListHeld, OneRowEach
  <2> QED
    BY <2>1, <2>3, ReplayRuns DEF ReplayLaw
<1>3. ASSUME NEW m \in T PROVE m + 1 \in T
  <2>1. m \in Nat /\ m + 1 \in Nat /\ (m + 1) - 1 = m /\ m + 1 # 0
    OBVIOUS
  <2>2. ContentsHeld(Replay[m], UpTo(m), UpTo(m))
    OBVIOUS
  <2>3. CASE m + 1 \in Relevant
    <3>1. UpTo(m + 1) = UpTo(m) \cup {m + 1} /\ \A q \in UpTo(m) : q < m + 1
      BY <1>1, <2>1, <2>3 DEF UpTo
    <3>2. ContentsHeld(Replay[m], UpTo(m), UpTo(m + 1))
      BY <2>2, <3>1, HeldWeakens
    <3>3. UpTo(m + 1) \subseteq Relevant /\ UpTo(m) \subseteq UpTo(m + 1) /\ m + 1 \in UpTo(m + 1)
      BY <2>1, <3>1 DEF UpTo
    <3>4. ContentsHeld(Written(Replay[m], Statement(m + 1), m + 1), UpTo(m) \cup {m + 1}, UpTo(m + 1))
      BY <3>1, <3>2, <3>3, WriteAdds
    <3>5. Replay[m + 1] = Written(Replay[m], Statement(m + 1), m + 1)
      BY <2>1, <2>3, ReplayRuns DEF ReplayLaw
    <3> QED
      BY <2>1, <3>1, <3>4, <3>5
  <2>4. CASE m + 1 \notin Relevant
    <3>1. UpTo(m + 1) = UpTo(m)
      BY <1>1, <2>1, <2>4 DEF UpTo
    <3>2. Replay[m + 1] = Replay[m]
      BY <2>1, <2>4, ReplayRuns DEF ReplayLaw
    <3> QED
      BY <2>1, <2>2, <3>1, <3>2
  <2> QED
    BY <2>3, <2>4
<1>4. T \subseteq Nat
  OBVIOUS
<1>5. T = Nat
  <2> HIDE DEF T
  <2> QED
    BY <1>2, <1>3, <1>4, Induction
<1> QED
  BY <1>5

(* All of the events written, there is only one thing the rows can be.     *)
LEMMA HeldIsUnique ==
    ASSUME TablesInvariant, events \in case.chains, NEW R, R \subseteq Relevant,
           NEW rs, ContentsHeld(rs, R, R), NEW qs, ContentsHeld(qs, R, R)
    PROVE  Contents(rs) \subseteq Contents(qs)
<1> DEFINE Row(r) == [key |-> r.key, at |-> r.at,
                      values |-> [c \in DOMAIN r.cells |-> r.cells[c].value]]
<1>1. \A x : (x \in Contents(rs) <=> \E r \in TheRows(rs) : x = Row(r))
             /\ (x \in Contents(qs) <=> \E r \in TheRows(qs) : x = Row(r))
  BY DEF Contents, TheRows
<1>2. R \subseteq Nat
  BY RelevantFacts
<1>3. \A S, x, y : S \subseteq R /\ LastOf(x, S) /\ LastOf(y, S) => x = y
  <2> SUFFICES ASSUME NEW S, NEW x, NEW y, S \subseteq R, LastOf(x, S), LastOf(y, S) PROVE x = y
    OBVIOUS
  <2>1. x \in Nat /\ y \in Nat /\ x <= y /\ y <= x
    BY <1>2 DEF LastOf
  <2> QED
    BY <2>1
<1>4. \A k, c : Writers(k, c, R) \subseteq R /\ OfRow(k, R) \subseteq R
  BY DEF Writers, OfRow
<1>5. ASSUME NEW r \in TheRows(rs), NEW q \in TheRows(qs), q.key = r.key, q.at = r.at,
             DOMAIN q.cells = DOMAIN r.cells,
             \A c \in DOMAIN r.cells : q.cells[c].value = r.cells[c].value
      PROVE  Row(r) = Row(q)
  BY <1>5
<1> HIDE DEF Row
<1>6. ASSUME NEW r \in TheRows(rs) PROVE \E q \in TheRows(qs) : Row(r) = Row(q)
  <2>1. CASE Replaced(Table)
    <3>1. ListHeld(rs, R, R) /\ ListHeld(qs, R, R)
      BY <2>1 DEF ContentsHeld
    <3>2. EntryHeld(r, R, R)
      BY <3>1 DEF ListHeld
    <3>3. r.at \in R /\ KeyOf(r.at) = r.key
      BY <3>2 DEF EntryHeld, OfRow
    <3>4. LastOf(r.at, OfRow(r.key, R)) /\ Statement(r.at) # Removal
          /\ r.cells["core"].value = Cell("core", r.at).value /\ DOMAIN r.cells = Plain
      BY <1>4, <3>2 DEF EntryHeld
    <3>5. PICK q \in TheRows(qs) : q.key = r.key
      BY <1>4, <3>1, <3>3, <3>4 DEF ListHeld
    <3>6. EntryHeld(q, R, R)
      BY <3>1 DEF ListHeld
    <3>7. LastOf(q.at, OfRow(r.key, R)) /\ q.cells["core"].value = Cell("core", q.at).value
          /\ DOMAIN q.cells = Plain
      BY <1>4, <3>5, <3>6 DEF EntryHeld
    <3>8. q.at = r.at
      BY <1>3, <1>4, <3>4, <3>7
    <3>9. \A c \in DOMAIN r.cells : q.cells[c].value = r.cells[c].value
      BY <3>4, <3>7, <3>8 DEF Plain
    <3> QED
      BY <1>5, <3>4, <3>5, <3>7, <3>8, <3>9
  <2>2. CASE ~Replaced(Table)
    <3>1. RowsHeld(rs, R, R) /\ RowsHeld(qs, R, R)
      BY <2>2 DEF ContentsHeld
    <3>2. RowHeld(r, R, R)
      BY <3>1 DEF RowsHeld
    <3>3. PICK f \in OfRow(r.key, R) : CreatesRow(Statement(f)) /\ DOMAIN r.cells = Statement(f).create
      BY <3>2 DEF RowHeld
    <3>4. f \in R /\ KeyOf(f) = r.key
      BY <3>3 DEF OfRow
    <3>5. PICK q \in TheRows(qs) : q.key = r.key
      BY <3>1, <3>3, <3>4 DEF RowsHeld
    <3>6. RowHeld(q, R, R)
      BY <3>1 DEF RowsHeld
    <3>7. PICK g \in OfRow(r.key, R) : CreatesRow(Statement(g)) /\ DOMAIN q.cells = Statement(g).create
      BY <3>5, <3>6 DEF RowHeld
    <3>8. g = f
      <4>1. g \in R /\ KeyOf(g) = r.key
        BY <3>7 DEF OfRow
      <4>2. f <= g /\ g <= f
        BY <2>2, <3>3, <3>4, <3>7, <4>1, EventFacts
      <4> QED
        BY <1>2, <3>4, <4>1, <4>2
    <3>9. q.at = r.at
      <4>1. LastOf(r.at, OfRow(r.key, R)) /\ LastOf(q.at, OfRow(r.key, R))
        BY <1>4, <3>2, <3>5, <3>6 DEF RowHeld
      <4> QED
        BY <1>3, <1>4, <4>1
    <3>10. ASSUME NEW c \in DOMAIN r.cells PROVE q.cells[c].value = r.cells[c].value
      <4>1. CellHeld(r, c, R, R) /\ CellHeld(q, c, R, R)
        BY <3>2, <3>3, <3>6, <3>7, <3>8 DEF RowHeld
      <4>2. PICK x \in R : LastOf(x, Writers(r.key, c, R)) /\ r.cells[c].value = Cell(c, x).value
        BY <1>4, <4>1 DEF CellHeld
      <4>3. PICK y \in R : LastOf(y, Writers(r.key, c, R)) /\ q.cells[c].value = Cell(c, y).value
        BY <1>4, <3>5, <4>1 DEF CellHeld
      <4>4. x = y
        BY <1>3, <1>4, <4>2, <4>3
      <4> QED
        BY <4>2, <4>3, <4>4
    <3> QED
      BY <1>5, <3>3, <3>5, <3>7, <3>8, <3>9, <3>10
  <2> QED
    BY <2>1, <2>2
<1> QED
  BY <1>1, <1>6

(* A batch is the first events of what was read.                           *)
LEMMA EarliestFacts ==
    ASSUME TablesInvariant, NEW S, S \subseteq Relevant
    PROVE  /\ Earliest(TableBatch, S) \subseteq S
           /\ \A p \in Earliest(TableBatch, S), q \in S : q <= p => q \in Earliest(TableBatch, S)
           /\ S # {} => /\ Greatest(Earliest(TableBatch, S)) \in Earliest(TableBatch, S)
                        /\ \A q \in Earliest(TableBatch, S) : q <= Greatest(Earliest(TableBatch, S))
<1> DEFINE B == Earliest(TableBatch, S)
           upTo(p) == {q \in S : q <= p}
<1>1. indexed \in Nat /\ S \subseteq 1 .. indexed /\ \A p \in S : p \in Nat
  BY RelevantFacts DEF TablesInvariant, Chain
<1>0. \A p \in S : p \in Nat
  BY <1>1
<1>2. IsFiniteSet(1 .. indexed)
  BY <1>1, FS_Interval
<1>3. \A p \in S : IsFiniteSet(upTo(p)) /\ Cardinality(upTo(p)) \in Nat
  BY <1>1, <1>2, FS_Subset, FS_CardinalityType
<1>4. \A p, q \in S : q <= p => Cardinality(upTo(q)) <= Cardinality(upTo(p))
  <2> SUFFICES ASSUME NEW p \in S, NEW q \in S, q <= p
               PROVE  Cardinality(upTo(q)) <= Cardinality(upTo(p))
    OBVIOUS
  <2>1. upTo(q) \subseteq upTo(p)
    BY <1>0
  <2> HIDE DEF upTo
  <2> QED
    BY <1>3, <2>1, FS_Subset
<1>5. \A p : p \in B <=> p \in S /\ Cardinality(upTo(p)) <= TableBatch
  BY DEF Earliest
<1>6. ASSUME NEW p \in B, NEW q \in S, q <= p PROVE q \in B
  <2> HIDE DEF upTo, B
  <2> QED
    BY <1>3, <1>4, <1>5, <1>6, TablesAssumption DEF TablesAssumption
<1>7. ASSUME S # {} PROVE B # {}
  <2>1. PICK p \in S : \A q \in S : p <= q
    BY <1>1, <1>7, LeastNumber
  <2>2. upTo(p) = {p}
    BY <1>0, <2>1
  <2>3. Cardinality(upTo(p)) = 1
    BY <2>2, FS_Singleton
  <2> HIDE DEF upTo
  <2> QED
    BY <1>5, <2>3, TablesAssumption DEF TablesAssumption
<1>8. ASSUME S # {} PROVE Greatest(B) \in B /\ \A q \in B : q <= Greatest(B)
  <2>1. indexed \in Int /\ B \subseteq 1 .. indexed /\ B # {}
    <3>1. indexed \in Int
      BY <1>1
    <3>2. B \subseteq S
      BY <1>5
    <3> HIDE DEF B
    <3> QED
      BY <1>1, <1>7, <1>8, <3>1, <3>2, Zenon
  <2> HIDE DEF B
  <2>2. \E p \in B : \A q \in B : q <= p
    BY <2>1, GreatestNumber
  <2> QED
    BY <2>2 DEF Greatest
<1> QED
  BY <1>5, <1>6, <1>8

LEMMA FetchKeepsPlace ==
    ASSUME TablesInvariant, events \in case.chains, PlaceInvariant, NothingPassed,
           poll.stage # "writing", NEW next \in Sources,
           NEW got, got \subseteq Relevant, \A q \in got : cursor < q,
           Len(Table.sources) = 1 => got = {},
           Fetch(next, got), UNCHANGED <<case, events, indexed, cursor, seen>>
    PROVE  PlaceInvariant' /\ NothingPassed'
<1> DEFINE first == Earliest(TableBatch, NotRead(next))
           more == got \cup first
           batch == Earliest(TableBatch, more)
           upto == Greatest(batch)
<1>1. Table' = Table /\ Relevant' = Relevant /\ \A p : Statements(p)' = Statements(p)
  BY DEF Table, Relevant, Statements
<1>2. cursor \in 0 .. indexed /\ cursor \in Nat /\ indexed \in Nat
      /\ \A p \in Relevant : p \in Nat /\ p \in 1 .. indexed
  BY RelevantFacts DEF PlaceInvariant, TablesInvariant, Chain
<1>3. first \subseteq NotRead(next) /\ NotRead(next) \subseteq Relevant
      /\ \A p \in first, q \in NotRead(next) : q <= p => q \in first
  BY EarliestFacts, RelevantFacts
<1>4. more \subseteq Relevant /\ \A q \in more : cursor < q
  BY <1>3 DEF NotRead
<1>5. batch \subseteq more /\ (\A p \in batch, q \in more : q <= p => q \in batch)
      /\ (more # {} => upto \in batch /\ \A q \in batch : q <= upto)
  <2> HIDE DEF more
  <2> QED
    BY <1>4, EarliestFacts
<1>6. \/ poll' = NotPolling
      \/ next < Len(Table.sources) /\ poll' = Reading(next + 1, more)
      \/ ~(next < Len(Table.sources)) /\ more # {} /\ poll' = Writing(batch, upto, 1)
  BY DEF Fetch, Fetched
<1> HIDE DEF first, more, batch, upto
<1>7. CASE poll' = NotPolling
  BY <1>1, <1>7 DEF PlaceInvariant, NothingPassed, NotPolling
<1>8. CASE next < Len(Table.sources) /\ poll' = Reading(next + 1, more)
  <2>1. poll'.stage = "reading" /\ poll'.got = more
    BY <1>8 DEF Reading
  <2>2. Len(Table.sources) # 1
    <3>1. Len(Table.sources) \in Nat
      BY CaseFacts DEF Shape, TablesInvariant
    <3>2. next \in 1 .. Len(Table.sources) /\ next < Len(Table.sources)
      BY <1>8 DEF Sources
    <3>3. next \in Int /\ 1 <= next
      BY <3>1, <3>2
    <3>4. \A n \in Nat, m \in Int : 1 <= m /\ m < n => n # 1
      OBVIOUS
    <3> QED
      BY <3>1, <3>2, <3>3, <3>4, Zenon
  <2> QED
    BY <1>1, <1>4, <2>1, <2>2 DEF PlaceInvariant, NothingPassed
<1>9. CASE ~(next < Len(Table.sources)) /\ more # {} /\ poll' = Writing(batch, upto, 1)
  <2>1. poll'.stage = "writing" /\ poll'.todo = batch /\ poll'.upto = upto /\ poll'.step = 1
    BY <1>9 DEF Writing
  <2>2. upto \in batch /\ upto \in Relevant /\ upto \in cursor .. indexed
    BY <1>2, <1>4, <1>5, <1>9
  <2>3. \A q \in seen : q \in Nat /\ q <= cursor
    BY <1>2 DEF PlaceInvariant
  <2>4. \A p \in batch : p \in Relevant /\ cursor < p /\ p <= upto /\ \A q \in seen : q < p
    BY <1>2, <1>4, <1>5, <1>9, <2>3
  <2>5. \A q \in seen : q <= upto
    BY <1>2, <2>2, <2>3
  <2>6. Least(batch) \in batch
    <3>1. batch \subseteq Nat /\ batch # {}
      BY <1>2, <2>2, <2>4
    <3> QED
      BY <3>1, LeastIsThere
  <2>7. 1 \in 1 .. Len(Statements(Least(batch)))
    BY <2>4, <2>6, EventFacts
  <2>8. PlaceInvariant'
    BY <1>1, <2>1, <2>2, <2>4, <2>5, <2>7 DEF PlaceInvariant
  <2>9. ASSUME Len(Table.sources) = 1, NEW p \in Relevant, p <= upto
        PROVE  p \in seen \cup batch
    <3>1. CASE p <= cursor
      BY <2>9, <3>1 DEF NothingPassed
    <3>2. CASE cursor < p
      <4>1. next = 1 /\ Sources = {1} /\ DOMAIN Table.does = {Table.sources[1].kind}
        BY <2>9, CatalogueRegular, TablesAssumption DEF Sources, Regular, TablesInvariant, Table
      <4>2. more = first
        BY <2>9 DEF more
      <4>3. upto \in NotRead(1)
        BY <1>3, <1>5, <2>2, <4>1, <4>2
      <4>4. events[p].kind = Table.sources[1].kind
        BY <4>1, RelevantFacts
      <4>7. ~LogCovered(p)
        <5>1. p \in cursor + 1 .. p /\ p \in 1 .. Len(events)
          BY <1>2, <2>9, <3>2, RelevantFacts
        <5> QED
          BY <2>9, <5>1, NothingShared DEF LogCovered
      <4>5. p \in NotRead(1)
        BY <1>2, <2>9, <3>2, <4>1, <4>3, <4>4, <4>7 DEF NotRead, Visible, TablesInvariant
      <4>6. p \in first
        BY <1>3, <1>5, <2>2, <2>9, <4>1, <4>2, <4>5
      <4> QED
        BY <1>5, <2>2, <2>9, <4>2, <4>6
    <3> QED
      BY <1>2, <3>1, <3>2
  <2> QED
    BY <1>1, <2>1, <2>8, <2>9 DEF NothingPassed
<1> QED
  BY <1>6, <1>7, <1>8, <1>9

LEMMA WriteKeepsPlace ==
    ASSUME TablesInvariant, events \in case.chains, PlaceInvariant, NothingPassed,
           poll.stage = "writing", poll.todo # {}, StatementDone(Least(poll.todo)),
           UNCHANGED <<case, events, indexed, cursor>>
    PROVE  PlaceInvariant' /\ NothingPassed'
<1> DEFINE p == Least(poll.todo)
           todo == poll.todo \ {p}
<1>1. Table' = Table /\ Relevant' = Relevant /\ \A q : Statements(q)' = Statements(q)
  BY DEF Table, Relevant, Statements
<1>2. poll.todo \subseteq Relevant /\ poll.todo \subseteq Nat
      /\ p \in poll.todo /\ \A q \in poll.todo : p <= q
  <2>1. poll.todo \subseteq Relevant /\ poll.todo \subseteq Nat
    BY RelevantFacts DEF TablesInvariant, PollInvariant
  <2>2. \E x \in poll.todo : \A y \in poll.todo : x <= y
    BY <2>1, LeastNumber
  <2> QED
    BY <2>1, <2>2 DEF Least
<1>3. p \in Relevant /\ p \in Nat /\ Len(Statements(p)) \in Nat \ {0}
      /\ poll.step \in 1 .. Len(Statements(p)) /\ p <= poll.upto
  BY <1>2, EventFacts DEF PlaceInvariant
<1>4. CASE poll.step = Len(Statements(p))
  <2>1. poll' = Writing(todo, poll.upto, 1) /\ seen' = seen \cup {p}
    BY <1>4 DEF StatementDone
  <2>2. poll'.stage = "writing" /\ poll'.todo = todo /\ poll'.upto = poll.upto /\ poll'.step = 1
    BY <2>1 DEF Writing
  <2>3. \A q \in todo : q \in Nat /\ p < q
    BY <1>2
  <2>4. todo # {} => 1 \in 1 .. Len(Statements(Least(todo)))
    <3>1. todo \subseteq Nat /\ todo \subseteq Relevant
      BY <1>2
    <3> HIDE DEF todo
    <3>2. todo # {} => Least(todo) \in Relevant
      BY <3>1, LeastIsThere
    <3> QED
      BY <3>2, EventFacts
  <2>5. todo \subseteq poll.todo /\ poll.todo \subseteq todo \cup {p}
    OBVIOUS
  <2> HIDE DEF todo, p
  <2>6. PlaceInvariant'
    BY <1>1, <1>3, <2>1, <2>2, <2>3, <2>4, <2>5 DEF PlaceInvariant
  <2>7. NothingPassed'
    BY <1>1, <2>1, <2>2, <2>5 DEF NothingPassed
  <2> QED
    BY <2>6, <2>7
<1>5. CASE poll.step # Len(Statements(p))
  <2>1. poll' = Writing(poll.todo, poll.upto, poll.step + 1) /\ seen' = seen
    BY <1>5 DEF StatementDone
  <2>2. poll'.stage = "writing" /\ poll'.todo = poll.todo /\ poll'.upto = poll.upto
        /\ poll'.step = poll.step + 1
    BY <2>1 DEF Writing
  <2>3. poll.step + 1 \in 1 .. Len(Statements(p))
    BY <1>3, <1>5
  <2>4. PlaceInvariant'
    BY <1>1, <2>1, <2>2, <2>3 DEF PlaceInvariant
  <2>5. NothingPassed'
    BY <1>1, <2>1, <2>2 DEF NothingPassed
  <2> QED
    BY <2>4, <2>5
<1> QED
  BY <1>4, <1>5

(* A poll that ends, and a cursor that is set back.                        *)
LEMMA RestKeepsPlace ==
    ASSUME TablesInvariant, PlaceInvariant, NothingPassed, poll' = NotPolling, UNCHANGED case,
           events' \in Chain, indexed' \in Nat,
           \/ /\ poll.stage = "writing" /\ poll.todo = {}
              /\ cursor' = poll.upto /\ UNCHANGED <<events, indexed, seen>>
           \/ /\ cursor' = cursor /\ UNCHANGED <<events, indexed>>
              /\ seen' = {p \in seen : p <= cursor}
           \/ /\ poll.stage = "idle" /\ cursor' <= cursor /\ cursor' \in 0 .. indexed'
              /\ indexed' <= indexed
              /\ \A p \in 1 .. indexed' : events'[p] = events[p]
              /\ seen' = {p \in seen : p <= cursor'}
    PROVE  PlaceInvariant' /\ NothingPassed'
<1>1. Table' = Table /\ poll'.stage = "idle"
  BY DEF Table, NotPolling
<1>2. cursor \in Nat /\ indexed \in Nat /\ \A p \in Relevant : p \in Nat
  BY RelevantFacts DEF PlaceInvariant, TablesInvariant, Chain
<1>3. CASE poll.stage = "writing" /\ poll.todo = {}
           /\ cursor' = poll.upto /\ UNCHANGED <<events, indexed, seen>>
  <2>1. Relevant' = Relevant
    BY <1>1, <1>3 DEF Relevant
  <2>2. poll.upto \in 0 .. indexed
    BY <1>2, <1>3 DEF PlaceInvariant
  <2> QED
    BY <1>1, <1>3, <2>1, <2>2 DEF PlaceInvariant, NothingPassed
<1>4. CASE cursor' = cursor /\ UNCHANGED <<events, indexed>> /\ seen' = {p \in seen : p <= cursor}
  <2>1. Relevant' = Relevant
    BY <1>1, <1>4 DEF Relevant
  <2>2. PlaceInvariant'
    BY <1>1, <1>4, <2>1 DEF PlaceInvariant
  <2>3. ASSUME Len(Table.sources) = 1, NEW p \in Relevant, p <= cursor PROVE p \in seen'
    <3>1. CASE poll.stage = "writing"
      <4>1. p <= poll.upto
        BY <1>2, <2>3, <3>1 DEF PlaceInvariant
      <4>2. p \notin poll.todo
        BY <1>2, <2>3, <3>1 DEF PlaceInvariant
      <4> QED
        BY <1>4, <2>3, <3>1, <4>1, <4>2 DEF NothingPassed
    <3>2. CASE poll.stage # "writing"
      BY <1>4, <2>3, <3>2 DEF NothingPassed
    <3> QED
      BY <3>1, <3>2
  <2> QED
    BY <1>1, <1>4, <2>1, <2>2, <2>3 DEF NothingPassed
<1>5. CASE /\ poll.stage = "idle" /\ cursor' <= cursor /\ cursor' \in 0 .. indexed'
           /\ indexed' <= indexed
           /\ \A p \in 1 .. indexed' : events'[p] = events[p]
           /\ seen' = {p \in seen : p <= cursor'}
  <2>1. Relevant' = {p \in Relevant : p \in 1 .. indexed'}
    <3>1. \A p \in 1 .. indexed' : p \in 1 .. indexed
      BY <1>2, <1>5
    <3> QED
      BY <1>1, <1>5, <3>1 DEF Relevant
  <2>2. \A p \in Relevant : p <= cursor' => p \in 1 .. indexed' /\ p <= cursor
    <3>1. \A p \in Relevant : p \in 1 .. indexed
      BY DEF Relevant
    <3> QED
      BY <1>2, <1>5, <3>1
  <2>3. PlaceInvariant'
    BY <1>1, <1>5, <2>1, <2>2 DEF PlaceInvariant
  <2>4. NothingPassed'
    BY <1>1, <1>5, <2>1, <2>2 DEF NothingPassed
  <2> QED
    BY <2>3, <2>4
<1> QED
  BY <1>3, <1>4, <1>5

LEMMA PlaceKept ==
    ASSUME TablesInvariant, events \in case.chains, PlaceInvariant, NothingPassed,
           [TablesNext]_tableVars
    PROVE  events' \in case'.chains /\ PlaceInvariant' /\ NothingPassed'
<1>1. cursor \in Nat /\ indexed \in Nat /\ Len(events) \in Nat /\ events \in Chain
      /\ \A p \in Relevant : p \in Nat
  BY RelevantFacts DEF PlaceInvariant, TablesInvariant, Chain
<1>2. UNCHANGED case
  BY DEF TablesNext, IndexNext, UpstreamStep, CopySource, TableStep, FetchFirst, FetchMore, Write,
     SaveCursor, WriteCaught, PollFails, ForkTo, RewindTo, tableVars, worldVars
<1>3. CASE UpstreamStep \/ UNCHANGED tableVars
  <2>1. UNCHANGED <<case, events, indexed, cursor, poll, seen>>
    BY <1>3 DEF UpstreamStep, CopySource, tableVars, worldVars
  <2> QED
    BY <2>1 DEF PlaceInvariant, NothingPassed, Relevant, Table, Statements
<1>4. ASSUME NEW has \in BOOLEAN, NEW found \in SUBSET PartNames, IndexNext(has, found)
      PROVE  events' \in case'.chains /\ PlaceInvariant' /\ NothingPassed'
  <2>1. UNCHANGED <<case, events, cursor, poll, seen>> /\ indexed' = indexed + 1
    BY <1>4 DEF IndexNext
  <2>2. Table' = Table /\ \A p : Statements(p)' = Statements(p)
    BY <2>1 DEF Table, Statements
  <2>3. Relevant \subseteq Relevant' /\ \A p \in Relevant' : p \in Relevant \/ p = indexed + 1
    BY <1>1, <2>1, <2>2 DEF Relevant
  <2>4. PlaceInvariant'
    BY <1>1, <2>1, <2>2, <2>3 DEF PlaceInvariant
  <2>5. NothingPassed'
    <3>1. cursor <= indexed /\ (poll.stage = "writing" => poll.upto \in Int /\ poll.upto <= indexed)
      BY <1>1 DEF PlaceInvariant
    <3> QED
      BY <1>1, <2>1, <2>2, <2>3, <3>1 DEF NothingPassed
  <2> QED
    BY <2>1, <2>4, <2>5
<1>5. CASE FetchFirst
  <2>1. Fetch(1, {}) /\ poll = NotPolling /\ UNCHANGED <<case, events, indexed, cursor, seen>>
    BY <1>5 DEF FetchFirst, worldVars
  <2>2. 1 \in Sources
    BY <1>5, CaseFacts DEF FetchFirst, Shape, Sources, TablesInvariant
  <2>3. poll.stage # "writing"
    BY <2>1 DEF NotPolling
  <2> QED
    BY <2>1, <2>2, <2>3, FetchKeepsPlace
<1>6. CASE FetchMore
  <2>1. Fetch(poll.next, poll.got) /\ poll.stage = "reading"
        /\ UNCHANGED <<case, events, indexed, cursor, seen>>
    BY <1>6 DEF FetchMore, worldVars
  <2>2. poll.next \in Sources /\ poll.got \subseteq Relevant /\ \A q \in poll.got : cursor < q
    BY <2>1 DEF TablesInvariant, PollInvariant, PlaceInvariant
  <2>3. Len(Table.sources) # 1
    BY <2>1 DEF NothingPassed
  <2> QED
    BY <2>1, <2>2, <2>3, FetchKeepsPlace
<1>7. CASE Write \/ WriteCaught
  <2>1. poll.stage = "writing" /\ poll.todo # {} /\ StatementDone(Least(poll.todo))
        /\ UNCHANGED <<case, events, indexed, cursor>>
    BY <1>7 DEF Write, WriteCaught, NextRow, worldVars
  <2> QED
    BY <2>1, WriteKeepsPlace
<1>8. CASE SaveCursor \/ PollFails
  <2>1. poll' = NotPolling /\ UNCHANGED <<case, events, indexed>>
        /\ \/ poll.stage = "writing" /\ poll.todo = {} /\ cursor' = poll.upto /\ seen' = seen
           \/ cursor' = cursor /\ seen' = {p \in seen : p <= cursor}
    BY <1>8 DEF SaveCursor, PollFails, worldVars
  <2> QED
    BY <1>1, <2>1, RestKeepsPlace
<1>9. ASSUME NEW n \in 0 .. Len(events), NEW h \in case.chains, ForkTo(h, n)
      PROVE  events' \in case'.chains /\ PlaceInvariant' /\ NothingPassed'
  <2>1. /\ events' = h /\ indexed' = n /\ cursor' = n /\ seen' = {p \in seen : p <= n}
        /\ poll = NotPolling /\ poll' = poll /\ n <= cursor /\ n < indexed
        /\ n < Len(h) /\ SubSeq(h, 1, n) = SubSeq(events, 1, n)
    BY <1>9 DEF ForkTo, Reached, ResetPosition
  <2>2. h \in Chain
    BY CaseFacts DEF TablesInvariant
  <2>3. \A p \in 1 .. n : h[p] = events[p]
    BY <1>1, <2>1, <2>2 DEF Chain
  <2>4. poll.stage = "idle" /\ n \in Nat /\ n \in 0 .. n
    BY <1>1, <2>1 DEF NotPolling
  <2> QED
    BY <1>1, <1>2, <2>1, <2>2, <2>3, <2>4, RestKeepsPlace
<1>10. ASSUME NEW n \in 0 .. Len(events), NEW now, NEW parts, RewindTo(n, now, parts)
       PROVE  events' \in case'.chains /\ PlaceInvariant' /\ NothingPassed'
  <2>1. /\ UNCHANGED <<case, events, indexed, poll>> /\ poll = NotPolling
        /\ n <= cursor /\ cursor' = n /\ seen' = {p \in seen : p <= n}
    BY <1>10 DEF RewindTo, Reached, ResetPosition
  <2>2. poll.stage = "idle" /\ n \in 0 .. indexed
    BY <1>1, <2>1 DEF NotPolling, PlaceInvariant
  <2> QED
    BY <1>1, <2>1, <2>2, RestKeepsPlace
<1> QED
  BY <1>3, <1>4, <1>5, <1>6, <1>7, <1>8, <1>9, <1>10 DEF TablesNext, TableStep

(* A step that leaves what the events say of the rows.                     *)
LEMMA HeldNext ==
    ASSUME UNCHANGED case, (seen \cup Begun)' \subseteq Relevant',
           \A p \in Relevant' :
                /\ KeyOf(p)' = KeyOf(p) /\ Statement(p)' = Statement(p)
                /\ \A c : (Cell(c, p).value)' = Cell(c, p).value,
           ContentsHeld(rows', (seen \cup Begun)', Relevant')
    PROVE  ContentsHeld(rows, seen \cup Begun, Relevant)'
<1> DEFINE R == Relevant'
           S == (seen \cup Begun)'
           rs == rows'
<1>1. Table' = Table /\ (Replaced(Table)' <=> Replaced(Table))
  BY DEF Table
<1>2. \A k : OfRow(k, Relevant)' = OfRow(k, R) /\ OfRow(k, R) \subseteq R
  BY DEF OfRow
<1>3. \A k, c : Writers(k, c, Relevant)' = Writers(k, c, R) /\ Writers(k, c, R) \subseteq R
  BY <1>2 DEF Writers
<1>4. \A p \in R : KeyOf(p)' = KeyOf(p) /\ Statement(p)' = Statement(p)
        /\ \A c : (Cell(c, p).value)' = Cell(c, p).value
  OBVIOUS
<1>5. S \subseteq R /\ ContentsHeld(rs, S, R)
  OBVIOUS
<1>6. CASE Replaced(Table)
  <2>1. ListHeld(rs, S, R)
    BY <1>5, <1>6 DEF ContentsHeld
  <2> HIDE DEF R, S, rs
  <2>2. OneRowEach(rows)'
    BY <2>1 DEF ListHeld, OneRowEach, TheRows, rs
  <2>3. ASSUME NEW r \in TheRows(rs) PROVE EntryHeld(r, seen \cup Begun, Relevant)'
    <3>1. EntryHeld(r, S, R)
      BY <2>1, <2>3 DEF ListHeld
    <3> QED
      BY <1>2, <1>4, <3>1 DEF EntryHeld, R, S, LastOf
  <2>4. ASSUME NEW p \in R, LastOf(p, (OfRow(KeyOf(p), Relevant))'),
               (OfRow(KeyOf(p), Relevant))' \subseteq S, Statement(p)' # Removal
        PROVE  \E r \in TheRows(rs) : r.key = KeyOf(p)'
    <3>1. LastOf(p, OfRow(KeyOf(p), R)) /\ OfRow(KeyOf(p), R) \subseteq S
          /\ Statement(p) # Removal
      BY <1>2, <1>4, <2>4 DEF R
    <3> QED
      BY <1>4, <2>1, <3>1 DEF ListHeld
  <2>5. ListHeld(rows, seen \cup Begun, Relevant)'
    BY <2>2, <2>3, <2>4 DEF ListHeld, TheRows, LastOf, R, S, rs
  <2> QED
    BY <1>1, <1>6, <2>5 DEF ContentsHeld
<1>7. CASE ~Replaced(Table)
  <2>1. RowsHeld(rs, S, R)
    BY <1>5, <1>7 DEF ContentsHeld
  <2> HIDE DEF R, S, rs
  <2>2. OneRowEach(rows)'
    BY <2>1 DEF RowsHeld, OneRowEach, TheRows, rs
  <2>3. ASSUME NEW r \in TheRows(rs) PROVE RowHeld(r, seen \cup Begun, Relevant)'
    <3>1. RowHeld(r, S, R)
      BY <2>1, <2>3 DEF RowsHeld
    <3>2. ASSUME NEW c \in DOMAIN r.cells PROVE CellHeld(r, c, seen \cup Begun, Relevant)'
      <4>1. CellHeld(r, c, S, R)
        BY <3>1, <3>2 DEF RowHeld
      <4> QED
        BY <1>3, <1>4, <4>1 DEF CellHeld, R, S, LastOf
    <3> QED
      BY <1>2, <1>4, <3>1, <3>2 DEF RowHeld, R, S, LastOf
  <2>4. ASSUME NEW f \in S, CreatesRow(Statement(f)') PROVE \E r \in TheRows(rs) : r.key = KeyOf(f)'
    BY <1>4, <1>5, <2>1, <2>4 DEF RowsHeld
  <2>5. RowsHeld(rows, seen \cup Begun, Relevant)'
    BY <2>2, <2>3, <2>4 DEF RowsHeld, TheRows, CreatesRow, R, S, rs
  <2> QED
    BY <1>1, <1>7, <2>5 DEF ContentsHeld
<1> QED
  BY <1>6, <1>7

(* A reset cuts every table but that of the providers.                     *)
CutOrSingle(t) ==
    t.cut \/ (t.by = "subject" /\ \A k \in DOMAIN t.does : Len(t.does[k]) = 1)

LEMMA CatalogueCut == \A t \in Catalogue : CutOrSingle(t)
<1>1. \A h, statements : CutOrSingle(Copies(h, statements))
  BY DEF CutOrSingle, Copies, Reads
<1>2. CutOrSingle(StakeHistory) /\ CutOrSingle(ProviderValidatorList)
  BY DEF CutOrSingle, StakeHistory, ProviderValidatorList, Reads
<1>3. CutOrSingle(ProviderTable)
  BY DEF CutOrSingle, ProviderTable, Reads
<1> QED
  BY <1>1, <1>2, <1>3
  DEF Catalogue, BlockProposedTable, ProofVerifiedTable, StakedWithProviderTable,
      ProviderQueueDripTable, DepositLifecycle, GseDepositLifecycle, FailedDepositLifecycle,
      QueuedLifecycle, WithdrawInitiatedLifecycle, WithdrawFinalizedLifecycle, ProposerVoteTable,
      PayloadSubmittableTable, PayloadSubmittedTable, TallyVoteCastTable, TallyRoundExecutedTable,
      SlashSlashedTable, ProviderAttesterTable

(* A row that is a part is not one of the table's own.                     *)
LEMMA PartsApart ==
    ASSUME TablesInvariant, events \in case.chains, Table.cut, NEW p \in Relevant,
           NEW i \in 2 .. Len(Statements(p))
    PROVE  TheRows(Written(rows, Statements(p)[i], p)) = TheRows(rows)
<1> DEFINE s == Statements(p)[i]
           old == {r \in rows : SameRow(r, s, p)}
<1>1. s.mode = "parts" /\ s.into # "rows"
  BY EventFacts
<1> HIDE DEF s
<1>2. \A r \in old : RowShape(r) /\ r.into = s.into
  BY DEF TablesInvariant, RowsInvariant, SameRow
<1>3. \A r \in old : Updated(r, s, p).into # "rows"
  BY <1>1, <1>2, UpdatedShape
<1>4. Created(s, p).into # "rows"
  BY <1>1 DEF Created
<1>5. Written(rows, s, p) = rows
      \/ Written(rows, s, p) = (rows \ old)
            \cup (IF old = {} THEN {Created(s, p)} ELSE {Updated(r, s, p) : r \in old})
  BY <1>1 DEF Written
<1> HIDE DEF old
<1>6. CASE Written(rows, s, p) = rows
  BY <1>6 DEF s
<1>7. CASE Written(rows, s, p) = (rows \ old)
            \cup (IF old = {} THEN {Created(s, p)} ELSE {Updated(r, s, p) : r \in old})
  <2>1. \A r \in Written(rows, s, p) : r.into = "rows" => r \in rows
    BY <1>3, <1>4, <1>7
  <2>2. \A r \in rows : r.into = "rows" => r \notin old
    BY <1>1, <1>2
  <2> QED
    BY <1>7, <2>1, <2>2 DEF TheRows, s
<1> QED
  BY <1>5, <1>6, <1>7

(* The events being what they were, a row holds what it held.              *)
LEMMA HeldNextOfSame ==
    ASSUME UNCHANGED <<case, events>>, (seen \cup Begun)' \subseteq Relevant',
           ContentsHeld(rows', (seen \cup Begun)', Relevant')
    PROVE  ContentsHeld(rows, seen \cup Begun, Relevant)'
<1>1. \A p : KeyOf(p)' = KeyOf(p) /\ Statement(p)' = Statement(p)
  BY DEF KeyOf, Statement, Statements, Table
<1>2. \A p : ExtraOf(p)' = ExtraOf(p)
  BY DEF ExtraOf, RoundBefore, Greatest
<1>3. \A p, c : (Cell(c, p).value)' = Cell(c, p).value
  BY <1>2 DEF Cell
<1> QED
  BY <1>1, <1>3, HeldNext

(* A step that writes no row, after which there may be more events, and    *)
(* fewer of them count as written.                                         *)
LEMMA ContentStays ==
    ASSUME ContentInvariant, seen \cup Begun \subseteq Relevant,
           UNCHANGED <<case, events, reorgs>>, swallowed => swallowed',
           TheRows(rows') = TheRows(rows), (seen \cup Begun)' \subseteq seen \cup Begun,
           Relevant \subseteq Relevant'
    PROVE  ContentInvariant'
<1> SUFFICES ASSUME ~swallowed', reorgs' = 0 \/ Table'.by = "event"
             PROVE  ContentsHeld(rows, seen \cup Begun, Relevant)'
  BY DEF ContentInvariant
<1>1. ContentsHeld(rows, seen \cup Begun, Relevant)
  BY DEF ContentInvariant, Table
<1>2. ContentsHeld(rows', (seen \cup Begun)', Relevant')
  BY <1>1, HeldWeakens
<1>3. (seen \cup Begun)' \subseteq Relevant'
  OBVIOUS
<1> QED
  BY <1>2, <1>3, HeldNextOfSame

LEMMA WriteKeepsContent ==
    ASSUME TablesInvariant, events \in case.chains, PlaceInvariant, ContentInvariant, Write
    PROVE  ContentInvariant'
<1> DEFINE p == Least(poll.todo)
           todo == poll.todo \ {p}
<1>1. /\ poll.stage = "writing" /\ poll.todo # {} /\ StatementDone(p)
      /\ rows' = Written(rows, Statements(p)[poll.step], p)
      /\ UNCHANGED <<case, events, indexed, swallowed, reorgs>>
  BY DEF Write, NextRow, worldVars, tableBounds
<1>2. poll.todo \subseteq Relevant /\ poll.todo \subseteq Nat /\ p \in poll.todo
  <2>1. poll.todo \subseteq Relevant /\ poll.todo \subseteq Nat
    BY <1>1, RelevantFacts DEF TablesInvariant, PollInvariant
  <2> QED
    BY <1>1, <2>1, LeastIsThere
<1>3. /\ p \in Relevant /\ Len(Statements(p)) \in Nat \ {0}
      /\ poll.step \in 1 .. Len(Statements(p))
      /\ \A q \in seen : q < p
      /\ seen \subseteq Relevant
  BY <1>1, <1>2, EventFacts DEF PlaceInvariant
<1>4. Relevant' = Relevant
  BY <1>1 DEF Relevant, Table
<1>5. \/ /\ poll.step = Len(Statements(p)) /\ poll' = Writing(todo, poll.upto, 1)
         /\ seen' = seen \cup {p}
      \/ /\ poll.step # Len(Statements(p)) /\ poll' = Writing(poll.todo, poll.upto, poll.step + 1)
         /\ seen' = seen
  BY <1>1 DEF StatementDone
<1>6. (seen \cup Begun)' = seen \cup {p}
  <2>1. CASE /\ poll' = Writing(todo, poll.upto, 1) /\ seen' = seen \cup {p}
    BY <2>1 DEF Begun, Writing
  <2>2. CASE poll' = Writing(poll.todo, poll.upto, poll.step + 1) /\ seen' = seen
    <3>1. poll'.stage = "writing" /\ poll'.todo = poll.todo /\ poll'.step = poll.step + 1
      BY <2>2 DEF Writing
    <3>2. poll.step + 1 # 1
      BY <1>3
    <3>3. Begun' = {p}
      BY <3>1, <3>2 DEF Begun, Least
    <3> QED
      BY <2>2, <3>3
  <2> QED
    BY <1>5, <2>1, <2>2
<1> SUFFICES ASSUME ~swallowed', reorgs' = 0 \/ Table'.by = "event"
             PROVE  ContentsHeld(rows, seen \cup Begun, Relevant)'
  BY DEF ContentInvariant
<1>7. ContentsHeld(rows, seen \cup Begun, Relevant)
  BY <1>1 DEF ContentInvariant, Table
<1> HIDE DEF p, todo
<1>8. ContentsHeld(rows', seen \cup {p}, Relevant)
  <2>1. CASE poll.step = 1
    <3>1. Begun = {}
      BY <2>1 DEF Begun
    <3>2. ContentsHeld(rows, seen, Relevant)
      BY <1>7, <3>1
    <3>3. rows' = Written(rows, Statement(p), p)
      BY <1>1, <2>1 DEF Statement
    <3> QED
      BY <1>3, <3>2, <3>3, WriteAdds
  <2>2. CASE poll.step # 1
    <3>1. poll.step \in 2 .. Len(Statements(p))
      BY <1>3, <2>2
    <3>2. Table.cut
      <4>1. CutOrSingle(Table)
        BY CatalogueCut, TablesAssumption DEF TablesInvariant, Table
      <4>2. events[p].kind \in DOMAIN Table.does
        BY <1>3, RelevantFacts
      <4>3. Len(Statements(p)) # 1
        <5>1. poll.step \in Nat /\ 2 <= poll.step /\ poll.step <= Len(Statements(p))
              /\ Len(Statements(p)) \in Nat
          BY <1>3, <3>1
        <5>2. \A a, b \in Nat : 2 <= a /\ a <= b => b # 1
          OBVIOUS
        <5> QED
          BY <5>1, <5>2, Zenon
      <4> QED
        BY <4>1, <4>2, <4>3 DEF CutOrSingle, Statements
    <3>3. TheRows(rows') = TheRows(rows)
      BY <1>1, <1>3, <3>1, <3>2, PartsApart
    <3>4. Begun = {p}
      BY <1>1, <2>2 DEF Begun, p
    <3>5. seen \cup {p} \subseteq Relevant
      BY <1>3
    <3> QED
      BY <1>7, <3>3, <3>4, <3>5, HeldWeakens
  <2> QED
    BY <2>1, <2>2
<1>9. seen \cup {p} \subseteq Relevant
  BY <1>3
<1> QED
  BY <1>1, <1>4, <1>6, <1>8, <1>9, HeldNextOfSame

LEMMA ForkKeepsContent ==
    ASSUME TablesInvariant, events \in case.chains, PlaceInvariant, ContentInvariant,
           reorgs \in Nat, NEW n \in 0 .. Len(events), NEW h \in case.chains, ForkTo(h, n)
    PROVE  ContentInvariant'
<1>1. /\ events' = h /\ indexed' = n /\ seen' = {p \in seen : p <= n} /\ rows' = CutAfter(n)
      /\ poll = NotPolling /\ reorgs' = reorgs + 1 /\ n < indexed /\ n < Len(h)
      /\ SubSeq(h, 1, n) = SubSeq(events, 1, n) /\ UNCHANGED <<case, poll, swallowed>>
  BY DEF ForkTo, Reached, ResetPosition
<1>2. /\ events \in Chain /\ h \in Chain /\ indexed \in Nat /\ n \in Nat /\ n <= indexed
      /\ n <= Len(events) /\ n <= Len(h)
  <2>1. events \in Chain /\ h \in Chain
    BY CaseFacts DEF TablesInvariant
  <2>2. Len(events) \in Nat /\ Len(h) \in Nat
    BY <2>1 DEF Chain
  <2>3. indexed \in Nat
    BY <2>2 DEF TablesInvariant
  <2> QED
    BY <1>1, <2>1, <2>2, <2>3
<1>3. \A q \in 1 .. n : h[q] = events[q]
  <2>1. \A q \in 1 .. n : SubSeq(h, 1, n)[q] = h[q] /\ SubSeq(events, 1, n)[q] = events[q]
    BY <1>2 DEF Chain
  <2> QED
    BY <1>1, <2>1
<1>4. Table' = Table /\ Begun' = {} /\ Begun = {}
  BY <1>1 DEF Table, Begun, NotPolling
<1>5. \A p \in Relevant : p \in Nat /\ p \in 1 .. indexed
  BY RelevantFacts
<1>6. Relevant' = {p \in Relevant : p <= n}
  <2>1. \A p \in 1 .. n : p \in 1 .. indexed /\ p <= n
    BY <1>2
  <2>2. \A p \in Relevant : p <= n => p \in 1 .. n
    BY <1>2, <1>5
  <2> QED
    BY <1>1, <1>3, <1>4, <2>1, <2>2 DEF Relevant
<1>7. seen' \subseteq Relevant' /\ seen' \subseteq seen
  BY <1>1, <1>6 DEF PlaceInvariant
<1> SUFFICES ASSUME ~swallowed', reorgs' = 0 \/ Table'.by = "event"
             PROVE  ContentsHeld(rows, seen \cup Begun, Relevant)'
  BY DEF ContentInvariant
<1>8. Table.by = "event" /\ ~swallowed
  BY <1>1, <1>4
<1>9. ~Replaced(Table) /\ Table.cut
  <2>1. CutOrSingle(Table)
    BY CatalogueCut, TablesAssumption DEF TablesInvariant, Table
  <2> QED
    BY <1>8, <2>1 DEF Replaced, CutOrSingle
<1>10. RowsHeld(rows, seen, Relevant)
  BY <1>4, <1>8, <1>9 DEF ContentInvariant, ContentsHeld
<1>11. rows' = {r \in rows : r.at <= n}
  BY <1>1, <1>9 DEF CutAfter
<1>12. \A p : KeyOf(p) = p
  BY <1>8 DEF KeyOf
<1>13. \A k : OfRow(k, Relevant') = {p \in OfRow(k, Relevant) : p <= n}
  BY <1>6 DEF OfRow
<1>14. ASSUME NEW r \in TheRows(rows') PROVE RowHeld(r, seen', Relevant')
  <2>1. RowHeld(r, seen, Relevant) /\ r.at <= n
    BY <1>10, <1>11 DEF RowsHeld, TheRows
  <2>2. r.at = r.key /\ r.at \in Relevant /\ r.at \in Relevant'
    BY <1>6, <1>12, <2>1 DEF RowHeld, OfRow
  <2>3. OfRow(r.key, Relevant') = {r.key} /\ OfRow(r.key, Relevant) = {r.key}
    BY <1>12, <2>2 DEF OfRow
  <2>4. \A c : Writers(r.key, c, Relevant') = Writers(r.key, c, Relevant)
               /\ Writers(r.key, c, Relevant) \subseteq {r.key}
    BY <2>3 DEF Writers
  <2>5. LastOf(r.at, OfRow(r.key, Relevant'))
    BY <1>5, <2>2, <2>3 DEF LastOf
  <2>6. ASSUME NEW c \in DOMAIN r.cells PROVE CellHeld(r, c, seen', Relevant')
    <3>1. CellHeld(r, c, seen, Relevant)
      BY <2>1 DEF RowHeld
    <3>2. PICK q \in Writers(r.key, c, Relevant) : r.cells[c].value = Cell(c, q).value
      BY <3>1 DEF CellHeld
    <3>3. q = r.key /\ q \in Relevant' /\ LastOf(q, Writers(r.key, c, Relevant))
      BY <1>5, <2>2, <2>4 DEF LastOf
    <3> QED
      BY <2>4, <3>2, <3>3 DEF CellHeld
  <2> QED
    BY <2>1, <2>2, <2>3, <2>5, <2>6 DEF RowHeld
<1>15. ASSUME NEW f \in seen', CreatesRow(Statement(f))
       PROVE  \E r \in TheRows(rows') : r.key = KeyOf(f)
  <2>1. PICK r \in TheRows(rows) : r.key = f
    BY <1>7, <1>10, <1>12, <1>15 DEF RowsHeld
  <2>2. r.at = f
    BY <1>10, <1>12, <2>1 DEF RowsHeld, RowHeld, OfRow
  <2> QED
    BY <1>1, <1>11, <1>12, <2>1, <2>2 DEF TheRows
<1>16. OneRowEach(rows')
  BY <1>10, <1>11 DEF RowsHeld, OneRowEach, TheRows
<1>17. ContentsHeld(rows', (seen \cup Begun)', Relevant')
  BY <1>4, <1>9, <1>14, <1>15, <1>16 DEF ContentsHeld, RowsHeld
<1>18. ASSUME NEW p \in Relevant'
       PROVE  /\ KeyOf(p)' = KeyOf(p) /\ Statement(p)' = Statement(p)
              /\ \A c : (Cell(c, p).value)' = Cell(c, p).value
  <2>1. p \in 1 .. n /\ p \in Relevant /\ \A q \in 1 .. p : q \in 1 .. n
    BY <1>2, <1>5, <1>6
  <2>2. \A q \in 1 .. p : events'[q] = events[q]
    BY <1>1, <1>3, <2>1
  <2>3. p \in 1 .. p /\ ExtraOf(p) \in 1 .. p
    BY <1>5, <2>1, ExtraIsBefore
  <2>4. RoundBefore(p)' = RoundBefore(p)
    BY <2>2 DEF RoundBefore
  <2>5. ExtraOf(p)' = ExtraOf(p)
    BY <2>2, <2>3, <2>4 DEF ExtraOf, Greatest
  <2>6. \A c : (Cell(c, p).value)' = Cell(c, p).value
    BY <2>2, <2>3, <2>5 DEF Cell
  <2> QED
    BY <1>4, <2>2, <2>3, <2>6 DEF KeyOf, Statement, Statements
<1>19. (seen \cup Begun)' \subseteq Relevant'
  BY <1>4, <1>7
<1> QED
  BY <1>1, <1>17, <1>18, <1>19, HeldNext

LEMMA ReplayedKept ==
    ASSUME ReplayedInvariant, [TablesNext]_tableVars
    PROVE  ReplayedInvariant'
<1>1. /\ TablesInvariant /\ events \in case.chains /\ reorgs \in Nat
      /\ PlaceInvariant /\ NothingPassed /\ ContentInvariant
  BY DEF ReplayedInvariant
<1>2. /\ TablesInvariant' /\ events' \in case'.chains /\ PlaceInvariant' /\ NothingPassed'
  BY <1>1, TablesKept, PlaceKept
<1>3. seen \cup Begun \subseteq Relevant
  <2>1. poll.stage = "writing" => poll.todo \subseteq Relevant /\ poll.todo \subseteq Nat
    BY <1>1, RelevantFacts DEF TablesInvariant, PollInvariant
  <2>2. poll.stage = "writing" /\ poll.step # 1 => poll.todo # {}
    BY <1>1 DEF PlaceInvariant
  <2>3. Begun \subseteq Relevant
    BY <2>1, <2>2, LeastIsThere DEF Begun
  <2> QED
    BY <1>1, <2>3 DEF PlaceInvariant
<1>4. reorgs' \in Nat
  BY <1>1 DEF TablesNext, IndexNext, UpstreamStep, CopySource, TableStep, FetchFirst, FetchMore,
     Write, SaveCursor, WriteCaught, PollFails, ForkTo, RewindTo, tableVars, tableBounds
<1> SUFFICES ContentInvariant'
  BY <1>2, <1>4 DEF ReplayedInvariant
<1>5. CASE UpstreamStep \/ UNCHANGED tableVars
  <2>1. UNCHANGED <<case, events, indexed, rows, poll, seen, swallowed, reorgs>>
    BY <1>5 DEF UpstreamStep, CopySource, tableVars, worldVars, tableBounds
  <2>2. Begun' = Begun /\ Relevant' = Relevant /\ TheRows(rows') = TheRows(rows)
    BY <2>1 DEF Begun, Relevant, Table, Least
  <2>3. (seen \cup Begun)' \subseteq seen \cup Begun /\ Relevant \subseteq Relevant'
    BY <2>1, <2>2
  <2> QED
    BY <1>1, <1>3, <2>1, <2>2, <2>3, ContentStays
<1>6. ASSUME NEW has \in BOOLEAN, NEW found \in SUBSET PartNames, IndexNext(has, found)
        PROVE  ContentInvariant'
  <2>1. UNCHANGED <<case, events, rows, poll, seen, swallowed, reorgs>> /\ indexed' = indexed + 1
    BY <1>6 DEF IndexNext, tableBounds
  <2>2. Begun' = Begun /\ TheRows(rows') = TheRows(rows)
    BY <2>1 DEF Begun, Least
  <2>3. Relevant \subseteq Relevant'
    <3>1. indexed \in Nat
      BY <1>1 DEF PlaceInvariant, TablesInvariant, Chain
    <3> QED
      BY <2>1, <3>1 DEF Relevant, Table
  <2> QED
    BY <1>1, <1>3, <2>1, <2>2, <2>3, ContentStays
<1>7. CASE FetchFirst \/ FetchMore
  <2>1. /\ UNCHANGED <<case, events, indexed, rows, seen, swallowed, reorgs>>
        /\ \E next, got : Fetch(next, got)
    BY <1>7 DEF FetchFirst, FetchMore, worldVars, tableBounds
  <2>2. Begun' = {}
    <3>1. PICK next, got : poll' = Fetched(next, got)
      BY <2>1 DEF Fetch
    <3>2. poll'.stage = "writing" => poll'.step = 1
      BY <3>1 DEF Fetched, Reading, Writing, NotPolling
    <3> QED
      BY <3>2 DEF Begun
  <2>3. Relevant' = Relevant /\ TheRows(rows') = TheRows(rows)
    BY <2>1 DEF Relevant, Table
  <2>4. (seen \cup Begun)' \subseteq seen \cup Begun /\ Relevant \subseteq Relevant'
    BY <2>1, <2>2, <2>3
  <2> QED
    BY <1>1, <1>3, <2>1, <2>3, <2>4, ContentStays
<1>8. CASE Write
  BY <1>1, <1>8, WriteKeepsContent
<1>9. CASE WriteCaught
  BY <1>9 DEF WriteCaught, ContentInvariant
<1>10. CASE SaveCursor \/ PollFails
  <2>1. UNCHANGED <<case, events, indexed, rows, swallowed, reorgs>> /\ poll' = NotPolling
        /\ seen' \subseteq seen
    BY <1>10 DEF SaveCursor, PollFails, worldVars, tableBounds
  <2>2. Relevant' = Relevant /\ TheRows(rows') = TheRows(rows) /\ Begun' = {}
    BY <2>1 DEF Relevant, Table, Begun, NotPolling
  <2>3. (seen \cup Begun)' \subseteq seen \cup Begun /\ Relevant \subseteq Relevant'
    BY <2>1, <2>2
  <2> QED
    BY <1>1, <1>3, <2>1, <2>2, <2>3, ContentStays
<1>11. ASSUME NEW n \in 0 .. Len(events), NEW h \in case.chains, ForkTo(h, n)
       PROVE  ContentInvariant'
  BY <1>1, <1>11, ForkKeepsContent
<1>12. ASSUME NEW n \in 0 .. Len(events), NEW now, NEW parts, RewindTo(n, now, parts) PROVE ContentInvariant'
  <2>1. UNCHANGED <<case, events, indexed, rows, poll, swallowed, reorgs>> /\ poll = NotPolling
        /\ seen' \subseteq seen
    BY <1>12 DEF RewindTo, Reached, ResetPosition
  <2>2. Relevant' = Relevant /\ TheRows(rows') = TheRows(rows) /\ Begun' = {}
    BY <2>1 DEF Relevant, Table, Begun, NotPolling
  <2>3. (seen \cup Begun)' \subseteq seen \cup Begun /\ Relevant \subseteq Relevant'
    BY <2>1, <2>2
  <2> QED
    BY <1>1, <1>3, <2>1, <2>2, <2>3, ContentStays
<1> QED
  BY <1>5, <1>6, <1>7, <1>8, <1>9, <1>10, <1>11, <1>12 DEF TablesNext, TableStep

LEMMA ReplayedBegins == TablesInit => ReplayedInvariant
<1> SUFFICES ASSUME TablesInit PROVE ReplayedInvariant
  OBVIOUS
<1>1. TablesInvariant /\ events \in case.chains /\ reorgs \in Nat
  BY TablesBegin DEF TablesInit
<1>2. Relevant = {} /\ seen = {} /\ Begun = {} /\ cursor = 0 /\ indexed = 0 /\ poll.stage = "idle"
  BY DEF TablesInit, Relevant, Begun, NotPolling
<1>3. PlaceInvariant /\ NothingPassed
  BY <1>2 DEF PlaceInvariant, NothingPassed
<1>4. ContentsHeld(rows, {}, {})
  <2>1. TheRows(rows) = {}
    BY DEF TablesInit, TheRows
  <2> QED
    BY <2>1 DEF ContentsHeld, RowsHeld, ListHeld, OneRowEach
<1> QED
  BY <1>1, <1>2, <1>3, <1>4 DEF ReplayedInvariant, ContentInvariant

(* With everything read, a table holds what its events amount to in chain  *)
(* order, whatever was fetched late, failed half-way, was read again after *)
(* a rewind or cut by a reorganisation: the upserts, the sorted batches    *)
(* and deleteAfterBlock of every materializer of one table.                *)
THEOREM TablesAreReplayed == TablesSpec => []TablesReplayed
<1>1. ReplayedInvariant => TablesReplayed
  <2> SUFFICES ASSUME ReplayedInvariant, CaughtUp, ~swallowed, reorgs = 0 \/ Table.by = "event",
                      Relevant \ seen = {} \/ ~(Len(Table.sources) > 1)
               PROVE  Contents(rows) = Contents(Replay[indexed])
    BY DEF TablesReplayed
  <2>1. TablesInvariant /\ events \in case.chains /\ PlaceInvariant /\ NothingPassed
        /\ ContentInvariant
    BY DEF ReplayedInvariant
  <2>2. poll.stage = "idle" /\ Begun = {}
    BY DEF CaughtUp, NotPolling, Begun
  <2>3. \A p \in Relevant : p \in Nat /\ p \in 1 .. indexed /\ events[p].kind \in DOMAIN Table.does
    BY <2>1, RelevantFacts
  <2>4. indexed \in Nat /\ cursor \in 0 .. indexed /\ seen \subseteq Relevant
    BY <2>1 DEF TablesInvariant, PlaceInvariant, Chain
  <2>5. Relevant \subseteq seen
    <3>1. CASE Relevant \ seen = {}
      BY <3>1
    <3>2. CASE ~(Len(Table.sources) > 1)
      <4>1. Regular(Table) /\ Shape(Table)
        BY <2>1, CatalogueRegular, CatalogueShape, TablesAssumption DEF TablesInvariant, Table
      <4>2. Len(Table.sources) = 1
        <5>1. Len(Table.sources) \in Nat \ {0}
          BY <4>1 DEF Shape
        <5>2. \A n \in Nat \ {0} : ~(n > 1) => n = 1
          OBVIOUS
        <5> QED
          BY <3>2, <5>1, <5>2
      <4>3. DOMAIN Table.does = {Table.sources[1].kind} /\ 1 \in Sources
        BY <4>1, <4>2 DEF Regular, Sources
      <4>5. ASSUME NEW p \in Relevant, cursor < p PROVE ~LogCovered(p)
        <5>1. p \in cursor + 1 .. p /\ p \in 1 .. Len(events)
          BY <2>1, <2>4, <4>5, RelevantFacts
        <5> QED
          BY <2>1, <4>2, <5>1, NothingShared DEF LogCovered
      <4>4. \A p \in Relevant : p <= cursor
        BY <2>3, <2>4, <4>3, <4>5 DEF CaughtUp, NotRead, Visible
      <4> QED
        BY <2>1, <2>2, <4>2, <4>4 DEF NothingPassed
    <3> QED
      BY <3>1, <3>2
  <2>6. seen = Relevant /\ UpTo(indexed) = Relevant
    BY <2>3, <2>4, <2>5 DEF UpTo
  <2>7. ContentsHeld(rows, Relevant, Relevant)
    BY <2>1, <2>2, <2>6 DEF ContentInvariant
  <2>8. ContentsHeld(Replay[indexed], Relevant, Relevant)
    BY <2>1, <2>4, <2>6, ReplayHolds
  <2>9. Relevant \subseteq Relevant
    OBVIOUS
  <2>10. Contents(rows) \subseteq Contents(Replay[indexed])
    BY <2>1, <2>7, <2>8, <2>9, HeldIsUnique
  <2>11. Contents(Replay[indexed]) \subseteq Contents(rows)
    BY <2>1, <2>7, <2>8, <2>9, HeldIsUnique
  <2> QED
    BY <2>10, <2>11
<1> QED
  BY <1>1, ReplayedBegins, ReplayedKept, PTL DEF TablesSpec

----------------------------------------------------------------------------
(* No row without a column, and none there twice: a statement that may     *)
(* create a row has columns for it, and looks for the row first.           *)
Founded(s) == s.mode \in {"change", "remove"} \/ s.create # {}
FoundedTable(t) == \A k \in DOMAIN t.does : \A i \in 1 .. Len(t.does[k]) : Founded(t.does[k][i])

LEMMA CatalogueFounded == \A t \in Catalogue : FoundedTable(t)
<1>1. /\ Founded(First(Plain)) /\ Founded(First(Enriched)) /\ Founded(Last(Plain))
      /\ Founded(Last(Enriched)) /\ Founded(KeepEnriched)
      /\ \A name : Founded(Parts(name, Plain)) /\ Founded(Parts(name, Enriched))
  BY DEF Founded, First, Last, KeepEnriched, Upsert, Plain, Enriched, Parts
<1>2. ASSUME NEW h, NEW s, Founded(s) PROVE FoundedTable(Copies(h, <<s>>))
  <2> DEFINE q == <<s>>
             t == Copies(h, q)
  <2>1. DOMAIN t.does = {h.kind} /\ \A k \in DOMAIN t.does : t.does[k] = q
    BY DEF Copies, Reads
  <2>2. Len(q) = 1 /\ \A i \in 1 .. Len(q) : q[i] = s
    OBVIOUS
  <2> HIDE DEF q, t
  <2>3. FoundedTable(t)
    BY <1>2, <2>1, <2>2 DEF FoundedTable
  <2> QED
    BY <2>3 DEF t, q
<1>3. FoundedTable(TallyRoundExecutedTable)
  <2> DEFINE q == <<KeepEnriched, Parts("committees", Plain), Parts("actions", Enriched)>>
             t == TallyRoundExecutedTable
  <2>1. \A k \in DOMAIN t.does : t.does[k] = q
    BY DEF TallyRoundExecutedTable, Copies, Reads
  <2>2. \A i \in 1 .. Len(q) : Founded(q[i])
    BY <1>1
  <2> HIDE DEF q, t
  <2>3. FoundedTable(t)
    BY <2>1, <2>2 DEF FoundedTable
  <2> QED
    BY <2>3 DEF t
<1>4. FoundedTable(StakeHistory)
  <2> DEFINE t == StakeHistory
  <2>1. \A k \in DOMAIN t.does : t.does[k] = <<First(Enriched)>> \/ t.does[k] = <<First(Plain)>>
    BY DEF StakeHistory, Reads
  <2> HIDE DEF t
  <2>2. FoundedTable(t)
    BY <1>1, <2>1 DEF FoundedTable
  <2> QED
    BY <2>2 DEF t
<1>5. FoundedTable(ProviderTable)
  <2> DEFINE t == ProviderTable
             all == Upsert({"rate", "recipient", "admin"}, {"rate", "admin"}, {})
  <2>1. \A k \in DOMAIN t.does : t.does[k] = <<all>> \/ t.does[k] = <<Change(k)>>
    BY DEF ProviderTable, Reads
  <2>2. Founded(all) /\ \A k : Founded(Change(k))
    BY DEF Founded, Upsert, Change
  <2> HIDE DEF t, all
  <2>3. FoundedTable(t)
    BY <2>1, <2>2 DEF FoundedTable
  <2> QED
    BY <2>3 DEF t
<1>6. FoundedTable(ProviderValidatorList)
  <2> DEFINE t == ProviderValidatorList
  <2>1. \A k \in DOMAIN t.does : t.does[k] = <<Last(Plain)>> \/ t.does[k] = <<Removal>>
    BY DEF ProviderValidatorList, Reads
  <2>2. Founded(Removal)
    BY DEF Founded, Removal
  <2> HIDE DEF t
  <2>3. FoundedTable(t)
    BY <1>1, <2>1, <2>2 DEF FoundedTable
  <2> QED
    BY <2>3 DEF t
<1> QED
  BY <1>1, <1>2, <1>3, <1>4, <1>5, <1>6
  DEF Catalogue, BlockProposedTable, ProofVerifiedTable, StakedWithProviderTable,
      ProviderQueueDripTable, DepositLifecycle, GseDepositLifecycle, FailedDepositLifecycle,
      QueuedLifecycle, WithdrawInitiatedLifecycle, WithdrawFinalizedLifecycle, ProposerVoteTable,
      PayloadSubmittableTable, PayloadSubmittedTable, TallyVoteCastTable,
      SlashSlashedTable, ProviderAttesterTable

RowTyped(r) == RowShape(r) /\ r.at \in Nat \ {0} /\ DOMAIN r.cells # {}
RowsApart(rs) == \A r, q \in rs : r.into = q.into /\ r.key = q.key => r = q
TypedInvariant ==
    /\ (\A r \in rows : RowTyped(r)) /\ RowsApart(rows)
    /\ enriched \subseteq 1 .. indexed /\ gathered \subseteq (1 .. indexed) \X PartNames
    /\ rewound \in Nat /\ swallowed \in BOOLEAN

LEMMA WrittenTyped ==
    ASSUME NEW rs, \A r \in rs : RowTyped(r), RowsApart(rs), NEW s, Founded(s),
           NEW p \in Nat \ {0}
    PROVE  (\A r \in Written(rs, s, p) : RowTyped(r)) /\ RowsApart(Written(rs, s, p))
<1> DEFINE old == {r \in rs : SameRow(r, s, p)}
           new == Created(s, p)
<1>1. ASSUME NEW r \in rs
      PROVE  RowTyped(Updated(r, s, p)) /\ Updated(r, s, p).into = r.into /\ Updated(r, s, p).key = r.key
  <2>1. RowTyped(r) /\ RowShape(r)
    BY DEF RowTyped
  <2>2. LET z == Updated(r, s, p)
        IN  /\ RowShape(z) /\ z.into = r.into /\ z.key = r.key /\ z.at \in {r.at, p}
            /\ DOMAIN z.cells = DOMAIN r.cells
    BY <2>1, UpdatedShape
  <2> QED
    BY <2>1, <2>2 DEF RowTyped
<1>2. ASSUME s.create # {} PROVE RowTyped(new) /\ new.into = s.into /\ new.key = KeyOf(p)
  BY <1>2 DEF Created, RowTyped, RowShape
<1>3. \A r \in rs : r \in old <=> r.into = s.into /\ r.key = KeyOf(p)
  BY DEF SameRow
<1>4. ASSUME NEW qs, qs = (rs \ old) \cup {Updated(r, s, p) : r \in old}
      PROVE  (\A r \in qs : RowTyped(r)) /\ RowsApart(qs)
  <2>1. \A z \in qs : \E r \in rs : z \in {r, Updated(r, s, p)} /\ (z = r <=> r \notin old \/ Updated(r, s, p) = r)
                                    /\ (r \in old => z = Updated(r, s, p))
    BY <1>4
  <2>2. \A r \in qs : RowTyped(r)
    BY <1>1, <2>1
  <2>3. ASSUME NEW y \in qs, NEW z \in qs, y.into = z.into, y.key = z.key PROVE y = z
    <3>1. PICK r \in rs : y = IF r \in old THEN Updated(r, s, p) ELSE r
      BY <2>1
    <3>2. PICK q \in rs : z = IF q \in old THEN Updated(q, s, p) ELSE q
      BY <2>1
    <3>3. r.into = y.into /\ r.key = y.key /\ q.into = z.into /\ q.key = z.key
      BY <1>1, <3>1, <3>2
    <3>4. r = q
      BY <2>3, <3>3 DEF RowsApart
    <3> QED
      BY <3>1, <3>2, <3>4
  <2> QED
    BY <2>2, <2>3 DEF RowsApart
<1>5. ASSUME s.create # {}, old = {}
      PROVE  (\A r \in rs \cup {new} : RowTyped(r)) /\ RowsApart(rs \cup {new})
  BY <1>2, <1>3, <1>5, Zenon DEF RowsApart
<1>6. CASE s.mode = "remove"
  BY <1>6 DEF Written, RowsApart
<1>7. CASE s.mode = "change"
  <2>1. Written(rs, s, p) = (rs \ old) \cup {Updated(r, s, p) : r \in old}
    BY <1>7 DEF Written
  <2> QED
    BY <1>4, <2>1
<1>8. CASE s.mode \notin {"remove", "change"}
  <2>1. \/ Written(rs, s, p) = rs
        \/ old = {} /\ Written(rs, s, p) = rs \cup {new}
        \/ Written(rs, s, p) = (rs \ old) \cup {Updated(r, s, p) : r \in old}
    BY <1>8 DEF Written
  <2>2. s.create # {}
    BY <1>8 DEF Founded
  <2> HIDE DEF old, new
  <2> QED
    BY <1>4, <1>5, <2>1, <2>2
<1> QED
  BY <1>6, <1>7, <1>8

LEMMA TypedBegins == TablesInit => TypedInvariant
<1> SUFFICES ASSUME TablesInit PROVE TypedInvariant
  OBVIOUS
<1>1. rows = {} /\ enriched = {} /\ gathered = {} /\ rewound = 0 /\ swallowed = FALSE
  BY DEF TablesInit
<1> QED
  BY <1>1 DEF TypedInvariant, RowsApart

LEMMA TypedKept ==
    ASSUME ReplayedInvariant, TypedInvariant, [TablesNext]_tableVars
    PROVE  TypedInvariant'
<1>1. TablesInvariant /\ PlaceInvariant /\ case \in TableCases /\ indexed \in Nat
  BY DEF ReplayedInvariant, TablesInvariant, Chain
<1>2. CASE UNCHANGED <<case, rows, enriched, gathered, indexed, rewound>> /\ swallowed' \in {swallowed, TRUE}
  BY <1>2 DEF TypedInvariant, RowsApart, PartNames, Table
<1>3. ASSUME NEW has \in BOOLEAN, NEW found \in SUBSET PartNames, IndexNext(has, found)
      PROVE  TypedInvariant'
  <2>1. /\ UNCHANGED <<case, rows, rewound, swallowed>> /\ indexed' = indexed + 1
        /\ enriched' \subseteq enriched \cup {indexed + 1}
        /\ gathered' = gathered \cup {indexed + 1} \X found
    BY <1>3 DEF IndexNext
  <2>2. PartNames' = PartNames
    BY <2>1 DEF PartNames, Table
  <2>3. \A p \in 1 .. indexed : p \in 1 .. indexed'
    BY <1>1, <2>1
  <2>4. indexed + 1 \in 1 .. indexed'
    BY <1>1, <2>1
  <2>5. enriched' \subseteq 1 .. indexed' /\ gathered' \subseteq (1 .. indexed') \X PartNames
    BY <2>1, <2>3, <2>4 DEF TypedInvariant
  <2> QED
    BY <2>1, <2>2, <2>5 DEF TypedInvariant, RowsApart
<1>4. CASE Write
  <2> DEFINE p == Least(poll.todo)
             s == Statements(p)[poll.step]
  <2>1. /\ poll.stage = "writing" /\ poll.todo # {} /\ rows' = Written(rows, s, p)
        /\ UNCHANGED <<case, enriched, gathered, indexed, rewound, swallowed>>
    BY <1>4 DEF Write, NextRow, worldVars
  <2>2. p \in Relevant
    BY <1>1, <2>1, RelevantFacts, LeastIsThere DEF TablesInvariant, PollInvariant
  <2>3. p \in Nat \ {0} /\ events[p].kind \in DOMAIN Table.does
    BY <1>1, <2>2, RelevantFacts
  <2>4. poll.step \in 1 .. Len(Statements(p))
    BY <1>1, <2>1 DEF PlaceInvariant
  <2>5. Founded(s)
    BY <1>1, <2>3, <2>4, CatalogueFounded, TablesAssumption DEF FoundedTable, Statements, Table
  <2> HIDE DEF p, s
  <2> QED
    BY <2>1, <2>3, <2>5, WrittenTyped DEF TypedInvariant, PartNames, Table
<1>5. ASSUME NEW n \in 0 .. Len(events), NEW h \in case.chains, ForkTo(h, n) PROVE TypedInvariant'
  <2>1. /\ rows' \subseteq rows /\ enriched' = {p \in enriched : p <= n} /\ indexed' = n
        /\ gathered' = {part \in gathered : part[1] <= n}
        /\ UNCHANGED <<case, rewound, swallowed>>
    BY <1>5 DEF ForkTo, CutAfter
  <2>2. n \in Nat
    BY <1>1 DEF TablesInvariant, Chain
  <2>3. enriched' \subseteq 1 .. n
    <3>1. \A p \in enriched : p \in 1 .. indexed
      BY DEF TypedInvariant
    <3> QED
      BY <1>1, <2>1, <2>2, <3>1
  <2>4. (\A r \in rows' : RowTyped(r)) /\ RowsApart(rows')
    BY <2>1 DEF TypedInvariant, RowsApart
  <2>5. gathered' \subseteq (1 .. n) \X PartNames
    <3> SUFFICES ASSUME NEW part \in gathered' PROVE part \in (1 .. n) \X PartNames
      OBVIOUS
    <3>1. part \in (1 .. indexed) \X PartNames /\ part[1] <= n
      BY <2>1 DEF TypedInvariant
    <3>2. part[1] \in 1 .. n
      BY <1>1, <2>2, <3>1
    <3> QED
      BY <3>1, <3>2
  <2>6. PartNames' = PartNames
    BY <2>1 DEF PartNames, Table
  <2> QED
    BY <2>1, <2>3, <2>4, <2>5, <2>6 DEF TypedInvariant
<1>6. ASSUME NEW n \in 0 .. Len(events), NEW now \in SUBSET (1 .. indexed),
             NEW parts \in SUBSET ((1 .. indexed) \X PartNames), RewindTo(n, now, parts)
      PROVE  TypedInvariant'
  <2>1. enriched' = now /\ gathered' = parts /\ rewound' = n
        /\ UNCHANGED <<case, indexed, rows, swallowed>>
    BY <1>6 DEF RewindTo
  <2>2. n \in Nat
    BY <1>1 DEF TablesInvariant, Chain
  <2>3. now \subseteq 1 .. indexed /\ parts \subseteq (1 .. indexed) \X PartNames
    OBVIOUS
  <2>4. PartNames' = PartNames
    BY <2>1 DEF PartNames, Table
  <2> QED
    BY <2>1, <2>2, <2>3, <2>4 DEF TypedInvariant, RowsApart
<1> QED
  BY <1>2, <1>3, <1>4, <1>5, <1>6
     DEF TablesNext, UpstreamStep, CopySource, TableStep, FetchFirst, FetchMore, SaveCursor,
         WriteCaught, PollFails, tableVars, worldVars

LEMMA TablesTyped == ReplayedInvariant /\ TypedInvariant => TablesTypeOK
<1> SUFFICES ASSUME ReplayedInvariant, TypedInvariant PROVE TablesTypeOK
  OBVIOUS
<1>1. TablesInvariant /\ PlaceInvariant
  BY DEF ReplayedInvariant
<1>2. /\ indexed \in 0 .. Len(events) /\ \A i \in Sources : arrived[i] \in 0 .. indexed
      /\ cursor \in 0 .. indexed /\ seen \subseteq Relevant
  BY <1>1 DEF TablesInvariant, PlaceInvariant
<1> QED
  BY <1>2 DEF TypedInvariant, RowTyped, RowsApart, TablesTypeOK

=============================================================================
