----------------------------- MODULE DerivedTables -----------------------------
(***************************************************************************)
(* The materializers of one table, or of one event and its parts: what the *)
(* Ponder handlers insert, what each materializer reads in how many        *)
(* statements, how it writes a row that is there already, and what a reset *)
(* deletes.  The materializers differ in data only, so they are records of *)
(* a catalogue, and the actions are those of BaseMaterializer.poll() with  *)
(* the differences taken from the record.                                  *)
(*                                                                         *)
(* Events are numbered in chain order, a cursor is the number of the last  *)
(* event it covers, one event is one block, and a reorganisation is one    *)
(* step with the reset that follows it.                                    *)
(***************************************************************************)
EXTENDS Integers, Sequences, FiniteSets

(* A handler inserts one row per log.  Some enrich it with calls whose     *)
(* failure leaves a default in the row.                                    *)
Handler(kind, lacks) == [kind |-> kind, lacks |-> lacks]

CheckpointProposed == Handler("block", TRUE)
L2ProofVerified == Handler("proof", TRUE)
Deposit == Handler("deposit", TRUE)
GseDeposit == Handler("gse", TRUE)
FailedDeposit == Handler("failed", FALSE)
ValidatorQueued == Handler("queued", FALSE)
WithdrawInitiated == Handler("initiated", FALSE)
WithdrawFinalized == Handler("finalized", FALSE)
Slashed == Handler("slashed", FALSE)
SignalCast == Handler("signal", FALSE)
PayloadSubmittable == Handler("submittable", FALSE)
PayloadSubmitted == Handler("submitted", FALSE)
VoteCast == Handler("vote", TRUE)
RoundExecuted == Handler("round", TRUE)
StakedWithProvider == Handler("staked", FALSE)
ProviderQueueDripped == Handler("drip", FALSE)
AttestersAddedToProvider == Handler("add", FALSE)
ProviderRegistered == Handler("registered", FALSE)
ProviderTakeRateUpdated == Handler("rate", FALSE)
ProviderRewardsRecipientUpdated == Handler("recipient", FALSE)
ProviderAdminUpdated == Handler("admin", FALSE)

----------------------------------------------------------------------------
(* The statements for one event.  An upsert creates some columns of a row  *)
(* and updates some of one that exists, keeping what it has in a guarded   *)
(* one when Ponder has null; the parts of an event are written, all their  *)
(* columns, if Ponder has them.  The errors of parts and changes are       *)
(* caught and logged.                                                      *)
Upsert(create, update, guarded) ==
    [mode |-> "upsert", into |-> "rows", create |-> create, update |-> update, guarded |-> guarded]
First(columns) == Upsert(columns, {}, {})
Last(columns) == Upsert(columns, columns, {})

Parts(name, columns) ==
    [mode |-> "parts", into |-> name, create |-> columns, update |-> columns, guarded |-> {}]
Change(column) ==
    [mode |-> "change", into |-> "rows", create |-> {}, update |-> {column}, guarded |-> {}]
Removal == [mode |-> "remove", into |-> "rows", create |-> {}, update |-> {}, guarded |-> {}]

(* sources in reading order; by: rows are found by event, or by subject;   *)
(* cut: a reset deletes rows; upstream: the sources are the tables of      *)
(* other materializers.                                                    *)
Reads(sources, does, by, cut, upstream) ==
    [sources |-> sources, does |-> does, by |-> by, cut |-> cut, upstream |-> upstream]
Copies(handler, statements) ==
    Reads(<<handler>>, [k \in {handler.kind} |-> statements], "event", TRUE, FALSE)

Plain == {"core"}
Enriched == {"core", "extra"}

BlockProposedTable == Copies(CheckpointProposed, <<Last(Enriched)>>)
ProofVerifiedTable == Copies(L2ProofVerified, <<Last(Enriched)>>)
StakedWithProviderTable == Copies(StakedWithProvider, <<Last(Plain)>>)
ProviderQueueDripTable == Copies(ProviderQueueDripped, <<Last(Plain)>>)
DepositLifecycle == Copies(Deposit, <<First(Plain)>>)
GseDepositLifecycle == Copies(GseDeposit, <<First(Enriched)>>)
FailedDepositLifecycle == Copies(FailedDeposit, <<First(Plain)>>)
QueuedLifecycle == Copies(ValidatorQueued, <<First(Plain)>>)
WithdrawInitiatedLifecycle == Copies(WithdrawInitiated, <<First(Plain)>>)
WithdrawFinalizedLifecycle == Copies(WithdrawFinalized, <<First(Plain)>>)
ProposerVoteTable == Copies(SignalCast, <<Last(Plain)>>)
PayloadSubmittableTable == Copies(PayloadSubmittable, <<Last(Plain)>>)
PayloadSubmittedTable == Copies(PayloadSubmitted, <<Last(Plain)>>)
ProviderAttesterTable == Copies(AttestersAddedToProvider, <<Last(Plain)>>)
SlashSlashedTable == Copies(Slashed, <<Last(Enriched)>>)

(* "Only overwrite enriched fields if Ponder actually has them".  Mutant:  *)
(* they are overwritten.                                                   *)
OverwriteEnriched == Last(Enriched)
KeepEnriched == Upsert(Enriched, Enriched, {"extra"})

TallyVoteCastTable == Copies(VoteCast, <<KeepEnriched>>)
TallyRoundExecutedTable ==
    Copies(RoundExecuted, <<KeepEnriched, Parts("committees", Plain), Parts("actions", Enriched)>>)

StakeHistory ==
    LET copied == [k \in {"deposit", "slashed", "finalized"} |-> <<First(Plain)>>]
    IN  Reads(<<Deposit, GseDeposit, Slashed, WithdrawFinalized>>,
              [k \in DOMAIN copied \cup {"gse"} |->
                  IF k = "gse" THEN <<First(Enriched)>> ELSE copied[k]],
              "event", TRUE, FALSE)

(* The update of an existing provider leaves its recipient alone.          *)
ProviderTable ==
    Reads(<<ProviderRegistered, ProviderTakeRateUpdated, ProviderRewardsRecipientUpdated,
            ProviderAdminUpdated>>,
          [k \in {"registered", "rate", "recipient", "admin"} |->
              IF k = "registered" THEN <<Upsert({"rate", "recipient", "admin"}, {"rate", "admin"}, {})>>
              ELSE <<Change(k)>>],
          "subject", FALSE, FALSE)

ProviderValidatorList ==
    Reads(<<AttestersAddedToProvider, ProviderQueueDripped>>,
          [k \in {"add", "drip"} |-> IF k = "add" THEN <<Last(Plain)>> ELSE <<Removal>>],
          "subject", TRUE, TRUE)

Catalogue ==
    {BlockProposedTable, ProofVerifiedTable, StakedWithProviderTable, ProviderQueueDripTable,
     DepositLifecycle, GseDepositLifecycle, FailedDepositLifecycle, QueuedLifecycle,
     WithdrawInitiatedLifecycle, WithdrawFinalizedLifecycle, StakeHistory, ProposerVoteTable,
     PayloadSubmittableTable, PayloadSubmittedTable, TallyVoteCastTable, TallyRoundExecutedTable,
     SlashSlashedTable, ProviderTable, ProviderAttesterTable, ProviderValidatorList}

----------------------------------------------------------------------------
CONSTANTS
    TableCases,  \* a materializer, its chains, and the bounds of a behaviour:
                 \* failed calls, reorganisations, times Ponder starts over
    TableBatch   \* LIMIT of each statement and of the merged batch

Kinds == {"block", "proof", "deposit", "gse", "failed", "queued", "initiated", "finalized",
          "slashed", "signal", "submittable", "submitted", "vote", "round", "staked", "drip",
          "add", "registered", "rate", "recipient", "admin"}

(* The staking registry gives a provider its number when it registers, so  *)
(* that is the first event of the provider, and there is one of it.        *)
RegisteredFirst(h) ==
    \A p, q \in DOMAIN h :
        /\ h[p].kind = ProviderRegistered.kind /\ h[q].kind \in DOMAIN ProviderTable.does
        /\ h[p].subject = h[q].subject
        => p <= q

(* The table another materializer has written may have several rows of one *)
(* log: AttestersAddedToProvider names many attesters.  Those after the    *)
(* first are further events, marked as more of the same log.               *)
OneRowPerLog(h) == \A p \in DOMAIN h : ~h[p].more

ASSUME TablesAssumption ==
    /\ TableBatch \in Nat \ {0}
    /\ \A x \in TableCases :
        /\ x.table \in Catalogue
        /\ x.chains \subseteq Seq([kind : Kinds, subject : Nat, value : Nat, more : BOOLEAN])
        /\ \A h \in x.chains : RegisteredFirst(h) /\ (x.table.upstream \/ OneRowPerLog(h))
        /\ x.faults \in Nat /\ x.reorgs \in Nat /\ x.rewinds \in Nat

VARIABLES
    case,       \* the materializer and its bounds
    events,    \* the chain
    indexed,     \* Ponder has indexed 1..indexed
    enriched,   \* those whose enrichment Ponder has
    gathered,   \* the parts of events that Ponder has
    arrived,    \* how far each source shows the chain
    rows,       \* the table, and its parts
    cursor,     \* the checkpoint
    poll,       \* poll() in progress
    seen,       \* the events applied at or below the cursor or by this poll
    rewound,    \* where the last rewind went, 0 without one
    swallowed,  \* a caught error has left an event unapplied
    faults, reorgs, rewinds

worldVars == <<case, events, indexed, enriched, gathered>>
tableBounds == <<faults, reorgs, rewinds>>
tableVars == <<worldVars, arrived, rows, cursor, poll, seen, rewound, swallowed, tableBounds>>

Table == case.table
Sources == 1 .. Len(Table.sources)
Statements(p) == Table.does[events[p].kind]

(* A cursor on a row covers the whole log.                                 *)
Visible(i) == {p \in 1 .. arrived[i] : events[p].kind = Table.sources[i].kind}
LogCovered(p) == \A q \in cursor + 1 .. p : events[q].more
NotRead(i) == {p \in Visible(i) : cursor < p /\ ~LogCovered(p)}
Relevant == {p \in 1 .. indexed : events[p].kind \in DOMAIN Table.does}
Earliest(n, S) == {p \in S : Cardinality({q \in S : q <= p}) <= n}
Least(S) == CHOOSE p \in S : \A q \in S : p <= q
Greatest(S) == CHOOSE p \in S : \A q \in S : q <= p

NotPolling == [stage |-> "idle"]
Reading(next, got) == [stage |-> "reading", next |-> next, got |-> got]
Writing(todo, upto, step) == [stage |-> "writing", todo |-> todo, upto |-> upto, step |-> step]

TablesInit ==
    /\ case \in TableCases
    /\ events \in case.chains
    /\ indexed = 0
    /\ enriched = {} /\ gathered = {}
    /\ arrived = [i \in Sources |-> 0]
    /\ rows = {} /\ cursor = 0 /\ poll = NotPolling /\ seen = {}
    /\ rewound = 0 /\ swallowed = FALSE
    /\ faults = 0 /\ reorgs = 0 /\ rewinds = 0

----------------------------------------------------------------------------
MayLack(p) == \E i \in Sources : Table.sources[i].kind = events[p].kind /\ Table.sources[i].lacks

(* A round is indexed for every kind of case: the payloads of slashes are  *)
(* taken from it, and it may lack one.                                     *)
LacksExtra(p) == MayLack(p) \/ events[p].kind = RoundExecuted.kind

(* getTally looks for the committees of a round and for its slashes, and   *)
(* for the payload if it has the slashes; each call fails on its own.      *)
PartNames == IF Table = TallyRoundExecutedTable THEN {"committees", "actions"} ELSE {}
SlashesFirst(got, parts) == PartNames # {} => \A p \in got : <<p, "actions">> \in parts

IndexNext(has, found) ==
    /\ indexed < Len(events)
    /\ indexed' = indexed + 1
    /\ has \/ LacksExtra(indexed + 1)
    /\ enriched' = IF has THEN enriched \cup {indexed + 1} ELSE enriched
    /\ gathered' = gathered \cup {indexed + 1} \X found
    /\ SlashesFirst(enriched', gathered')
    /\ arrived' = IF Table.upstream THEN arrived ELSE [i \in Sources |-> indexed + 1]
    /\ UNCHANGED <<case, events, rows, cursor, poll, seen, rewound, swallowed, tableBounds>>

(* Another materializer writes a row of the table that is source i; the    *)
(* rows of one log are upserted one by one.                                *)
CopySource(i) ==
    /\ arrived[i] < indexed
    /\ arrived' = [arrived EXCEPT ![i] = @ + 1]
    /\ UNCHANGED <<worldVars, rows, cursor, poll, seen, rewound, swallowed, tableBounds>>

----------------------------------------------------------------------------
(* One statement per source, each with the LIMIT, then sort and slice.     *)
Fetched(next, got) ==
    IF next < Len(Table.sources) THEN Reading(next + 1, got)
    ELSE IF got = {} THEN NotPolling
    ELSE LET batch == Earliest(TableBatch, got) IN Writing(batch, Greatest(batch), 1)

Fetch(next, got) ==
    poll' = Fetched(next, got \cup Earliest(TableBatch, NotRead(next)))

FetchFirst ==
    /\ poll = NotPolling
    /\ \E i \in Sources : NotRead(i) # {}
    /\ Fetch(1, {})
    /\ UNCHANGED <<worldVars, arrived, rows, cursor, seen, rewound, swallowed, tableBounds>>

FetchMore ==
    /\ poll.stage = "reading"
    /\ Fetch(poll.next, poll.got)
    /\ UNCHANGED <<worldVars, arrived, rows, cursor, seen, rewound, swallowed, tableBounds>>

(* The payload of a slash is that of the latest round, which comes with    *)
(* its transaction, or before it.                                          *)
RoundBefore(p) == {q \in 1 .. p : events[q].kind = RoundExecuted.kind}
ExtraOf(p) ==
    IF events[p].kind # Slashed.kind \/ RoundBefore(p) = {} THEN p ELSE Greatest(RoundBefore(p))

Cell(c, p) ==
    LET from == IF c = "extra" THEN ExtraOf(p) ELSE p
    IN  [value |-> events[from].value,
         known |-> c # "extra" \/ (from \in enriched /\ (from = p => events[p].kind # Slashed.kind))]

KeyOf(p) == IF Table.by = "event" THEN p ELSE events[p].subject
SameRow(r, s, p) == r.into = s.into /\ r.key = KeyOf(p)

Created(s, p) ==
    [into |-> s.into, key |-> KeyOf(p), at |-> p, cells |-> [c \in s.create |-> Cell(c, p)]]
Updated(r, s, p) ==
    [r EXCEPT
        !.at = IF s.update = {} THEN @ ELSE p,
        !.cells = [c \in DOMAIN @ |->
            IF c \in s.update /\ (c \in s.guarded => Cell(c, p).known) THEN Cell(c, p) ELSE @[c]]]

(* The rows after statement s for event p.  Mutant: create, not upsert.    *)
InsertedAlways(rs, s, p) ==
    IF s.mode = "remove" THEN {r \in rs : ~SameRow(r, s, p)} ELSE rs \cup {Created(s, p)}

Written(rs, s, p) ==
    LET old == {r \in rs : SameRow(r, s, p)}
    IN  CASE s.mode = "remove" -> rs \ old
          [] s.mode = "change" -> (rs \ old) \cup {Updated(r, s, p) : r \in old}
          [] s.mode = "parts" /\ <<p, s.into>> \notin gathered -> rs
          [] OTHER -> (rs \ old) \cup
                (IF old = {} THEN {Created(s, p)} ELSE {Updated(r, s, p) : r \in old})

(* The batch is sorted.  Mutant: the rows of each source in turn.          *)
SourceBySource(todo) ==
    LET of(i) == {p \in todo : events[p].kind = Table.sources[i].kind}
    IN  Least(of(Least({i \in Sources : of(i) # {}})))

NextRow(todo) == Least(todo)

(* The next statement of materializeBatch is over.                         *)
StatementDone(p) ==
    LET last == poll.step = Len(Statements(p))
    IN  /\ poll' = IF last THEN Writing(poll.todo \ {p}, poll.upto, 1)
                   ELSE Writing(poll.todo, poll.upto, poll.step + 1)
        /\ seen' = IF last THEN seen \cup {p} ELSE seen

Write ==
    /\ poll.stage = "writing" /\ poll.todo # {}
    /\ LET p == NextRow(poll.todo)
       IN  rows' = Written(rows, Statements(p)[poll.step], p) /\ StatementDone(p)
    /\ UNCHANGED <<worldVars, arrived, cursor, rewound, swallowed, tableBounds>>

(* A database error in a try block that goes on.                           *)
WriteCaught ==
    /\ poll.stage = "writing" /\ poll.todo # {}
    /\ faults < case.faults
    /\ LET p == NextRow(poll.todo)
       IN  Statements(p)[poll.step].mode \in {"parts", "change"} /\ StatementDone(p)
    /\ swallowed' = TRUE
    /\ faults' = faults + 1
    /\ UNCHANGED <<worldVars, arrived, rows, cursor, rewound, reorgs, rewinds>>

SaveCursor ==
    /\ poll.stage = "writing" /\ poll.todo = {}
    /\ cursor' = poll.upto
    /\ poll' = NotPolling
    /\ UNCHANGED <<worldVars, arrived, rows, seen, rewound, swallowed, tableBounds>>

(* A call throws, or the process dies: the rows written stay.              *)
PollFails ==
    /\ poll # NotPolling
    /\ faults < case.faults
    /\ poll' = NotPolling
    /\ seen' = {p \in seen : p <= cursor}
    /\ faults' = faults + 1
    /\ UNCHANGED <<worldVars, arrived, rows, cursor, rewound, swallowed, reorgs, rewinds>>

----------------------------------------------------------------------------
(* resetToBlock between two cycles, of a materializer that has reached the *)
(* block (one that has not is the subject of MaterializerService).  The    *)
(* mutants: no row is deleted; the checkpoint is not written.              *)
CutNothing(n) == rows
CutAfter(n) == IF Table.cut THEN {r \in rows : r.at <= n} ELSE rows

KeepPosition(n) == cursor' = cursor /\ seen' = seen
ResetPosition(n) == cursor' = n /\ seen' = {p \in seen : p <= n}

Reached(n) ==
    /\ poll = NotPolling
    /\ n <= cursor /\ n < indexed /\ ~events[n + 1].more
    /\ \A i \in Sources : n <= arrived[i]

(* The events after n leave the chain.                                     *)
ForkTo(h, n) ==
    /\ reorgs < case.reorgs
    /\ Reached(n) /\ n < Len(h) /\ SubSeq(h, 1, n) = SubSeq(events, 1, n) /\ h # events
    /\ ~h[n + 1].more
    /\ events' = h /\ indexed' = n
    /\ enriched' = {p \in enriched : p <= n}
    /\ gathered' = {part \in gathered : part[1] <= n}
    /\ arrived' = [i \in Sources |-> n]
    /\ rows' = CutAfter(n)
    /\ ResetPosition(n)
    /\ reorgs' = reorgs + 1
    /\ UNCHANGED <<case, poll, rewound, swallowed, faults, rewinds>>

(* Ponder starts over and enriches every event anew, and better or worse   *)
(* than before; it is back where it was, but seen at n on the way, and the *)
(* checkpoint is rewound to n without deleting a row.                      *)
RewindTo(n, now, parts) ==
    /\ rewinds < case.rewinds
    /\ Reached(n)
    /\ \A p \in (1 .. indexed) \ now : LacksExtra(p)
    /\ SlashesFirst(now, parts)
    /\ enriched' = now /\ gathered' = parts
    /\ ResetPosition(n)
    /\ rewound' = n
    /\ rewinds' = rewinds + 1
    /\ UNCHANGED <<case, events, indexed, arrived, rows, poll, swallowed, faults, reorgs>>

----------------------------------------------------------------------------
TableStep == FetchFirst \/ FetchMore \/ Write \/ SaveCursor
UpstreamStep == Table.upstream /\ \E i \in Sources : CopySource(i)

TablesNext ==
    \/ \E has \in BOOLEAN, found \in SUBSET PartNames : IndexNext(has, found)
    \/ UpstreamStep
    \/ TableStep
    \/ WriteCaught \/ PollFails
    \/ \E n \in 0 .. Len(events) :
        \/ \E h \in case.chains : ForkTo(h, n)
        \/ \E now \in SUBSET (1 .. indexed), parts \in SUBSET ((1 .. indexed) \X PartNames) :
                RewindTo(n, now, parts)

(* Ponder follows the chain, and every materializer polls for ever.        *)
TablesFairness ==
    /\ WF_tableVars(\E has \in BOOLEAN, found \in SUBSET PartNames : IndexNext(has, found))
    /\ WF_tableVars(UpstreamStep)
    /\ WF_tableVars(TableStep)

TablesSpec == TablesInit /\ [][TablesNext]_tableVars /\ TablesFairness

----------------------------------------------------------------------------
TablesTypeOK ==
    /\ indexed \in 0 .. Len(events)
    /\ enriched \subseteq 1 .. indexed /\ gathered \subseteq (1 .. indexed) \X PartNames
    /\ \A i \in Sources : arrived[i] \in 0 .. indexed
    /\ cursor \in 0 .. indexed /\ rewound \in Nat
    /\ seen \subseteq Relevant /\ swallowed \in BOOLEAN
    /\ \A r \in rows : r.at \in Nat \ {0} /\ DOMAIN r.cells # {}
    /\ \A r, q \in rows : r.into = q.into /\ r.key = q.key => r = q

(* The whole history applied in order, and what a reader sees of it.       *)
Replay[n \in Nat] ==
    IF n = 0 THEN {}
    ELSE IF n \notin Relevant THEN Replay[n - 1]
    ELSE Written(Replay[n - 1], Statements(n)[1], n)

Contents(rs) ==
    {[key |-> r.key, at |-> r.at, values |-> [c \in DOMAIN r.cells |-> r.cells[c].value]] :
        r \in {x \in rs : x.into = "rows"}}

CaughtUp == poll = NotPolling /\ \A i \in Sources : arrived[i] = indexed /\ NotRead(i) = {}

(* With everything read, a table holds what its events amount to in chain  *)
(* order, after failed polls and rewinds that wrote some of them twice,    *)
(* and after reorganisations if its rows are those of single events.  Only *)
(* a table that is read in several statements ever misses an event: one a  *)
(* later statement does not show yet, or a further row of a log covered.   *)
TablesReplayed ==
    CaughtUp /\ ~swallowed /\ (reorgs = 0 \/ Table.by = "event") =>
        \/ Relevant \ seen # {} /\ Len(Table.sources) > 1
        \/ Contents(rows) = Contents(Replay[indexed])

(* No row, part or value of a table that resets cut comes from an event    *)
(* that has left the chain.                                                *)
RowsOnChain ==
    Table.cut => \A r \in rows :
        /\ r.at <= indexed
        /\ \A c \in DOMAIN r.cells : \E p \in 1 .. r.at : events[p].value = r.cells[c].value

(* What Ponder once had of a vote or of a round is not lost to a re-index  *)
(* that lacks it: no row and no part goes, and the guarded columns of the  *)
(* row keep what is known.  It does not hold of the payload in the slashes *)
(* of a round, whose upsert is not guarded.                                *)
Promising == Table.sources[1] \in {VoteCast, RoundExecuted}
Promised(r) == {c \in DOMAIN r.cells : r.into = "actions" => c # "extra"}
KnownKept ==
    [][Promising /\ events' = events =>
        \A r \in rows : \E q \in rows' :
            /\ q.into = r.into /\ q.key = r.key
            /\ \A c \in Promised(r) : r.cells[c].known => q.cells[c].known]_tableVars

(* What a re-index has found for an event that is read again reaches the   *)
(* row and the parts for good, in every table but those that write a row   *)
(* once; so a lacking value is repaired, however polls fail.               *)
Repaired(p) ==
    \A i \in DOMAIN Statements(p) :
        LET s == Statements(p)[i]
        IN  "core" \in s.update /\ (s.mode = "parts" => <<p, s.into>> \in gathered) =>
                \E r \in rows :
                    /\ SameRow(r, s, p)
                    /\ "extra" \in DOMAIN r.cells /\ ExtraOf(p) \in enriched => r.cells["extra"].known

EventuallyRepaired ==
    <>[](swallowed \/ Table.by = "subject" \/ \A p \in Relevant : rewound < p => Repaired(p))

=============================================================================
