---------------------------- MODULE GovernanceViews ----------------------------
(***************************************************************************)
(* What the web site shows of governance rounds.  Four queries derive the  *)
(* status of a payload from tables that materializers of their own fill:   *)
(* the rounds and their payloads (db/queries/historical-governance.ts),    *)
(* the dashboard (voting-overview.ts) and the matrix (signaling-matrix/,   *)
(* services/governance).  A view is of some rollups, which stands for a    *)
(* range of blocks: from the switch to a rollup to the switch from it.     *)
(*                                                                         *)
(* The matrix also counts the slots and the signals of the providers'      *)
(* active sequencers.  Who is active, and which slots have been attended   *)
(* to, it reads from tables that collectors fill in their own time, with   *)
(* gaps.                                                                   *)
(*                                                                         *)
(* The chain has one slot and at most one event per block.  The queries of *)
(* a view are taken at one moment.  Searching, sorting, pages, names and   *)
(* the leading payload are left out.                                       *)
(***************************************************************************)
EXTENDS Integers, Sequences, FiniteSets, FiniteSetsExt

CONSTANTS
    Sequencers,  \* a sequence: they propose in turn
    RoundSize,
    Quorum,
    Lifetime,    \* rounds in which a payload may be submitted after its own
    Electorates  \* the payloads, the providers by sequencer, whether the site is
                 \* configured with the newest rollup, the sequencers whose status
                 \* changes, and as bounds, the numbers of blocks, of switches to
                 \* another rollup, of blocks by which a table is behind the chain,
                 \* and of slots that lack their row

AllSequencers == {Sequencers[i] : i \in DOMAIN Sequencers}
Independent == "independent"
Tables == {"votes", "submittable", "submitted", "registry"}

ASSUME GovernanceAssumption ==
    /\ Sequencers \in Seq(AllSequencers) /\ Sequencers # <<>>
    /\ RoundSize \in Nat \ {0} /\ Quorum \in Nat \ {0} /\ Lifetime \in Nat \ {0}
    /\ \A e \in Electorates :
        /\ {e.blocks, e.switches, e.lag, e.missing} \subseteq Nat /\ e.follows \in BOOLEAN
        /\ \A s \in AllSequencers : IsFiniteSet(e.providers[s])

VARIABLES
    electorate,
    chain,       \* the event of every block
    shown,       \* the block up to which each table is filled
    attested,    \* the slots of which the collectors have written the proposer's row
    active       \* the sequencers whose validator is of status ACTIVE

governanceVars == <<electorate, chain, shown, attested, active>>

Now == Len(chain)
Round(b) == b \div RoundSize
Proposer(b) == Sequencers[(b % Len(Sequencers)) + 1]
Is(b, kind) == chain[b].kind = kind
Switches == {0} \cup {b \in 1 .. Now : chain[b].switch # "no"}
RollupAt(b) == Max({v \in Switches : v < b \/ (v = b /\ chain[b].switch = "before")})

Signals(p, r) == {b \in 1 .. Now : Is(b, "signal") /\ chain[b].payload = p /\ Round(b) = r}
ReachesQuorum(b) ==
    Is(b, "signal") /\ Cardinality({c \in Signals(chain[b].payload, Round(b)) : c <= b}) = Quorum

Filled(table) == 1 .. shown[table]
VoteRows == {b \in Filled("votes") : Is(b, "signal")}
SubmittableRows(p, r) ==
    {b \in Filled("submittable") : ReachesQuorum(b) /\ chain[b].payload = p /\ Round(b) = r}
SubmittedRows(p, r) ==
    {b \in Filled("submitted") : Is(b, "submit") /\ chain[b].payload = p /\ chain[b].round = r}

----------------------------------------------------------------------------
(* The contracts.  A block may also bring the switch to another rollup,    *)
(* before or after its event: the slot, and its signal, are of the rollup  *)
(* that is canonical then.                                                 *)
SwitchNow ==
    IF Cardinality(Switches) > electorate.switches THEN {"no"} ELSE {"no", "before", "after"}
Happens(event) ==
    /\ Now < electorate.blocks
    /\ \A t \in Tables : Now + 1 - shown[t] <= electorate.lag
    /\ chain' = Append(chain, event)
    /\ attested' \in {attested, attested \cup {Now + 1}}
    /\ Cardinality((1 .. Now + 1) \ attested') <= electorate.missing
    /\ UNCHANGED <<electorate, shown, active>>

Signal(p) ==
    \E s \in SwitchNow : Happens([kind |-> "signal", payload |-> p, switch |-> s])
PassBlock ==
    \E s \in SwitchNow : Happens([kind |-> "nothing", switch |-> s])
Submit(p, r) ==
    /\ \E b \in Signals(p, r) : ReachesQuorum(b)
    /\ Round(Now + 1) \in r + 1 .. r + Lifetime
    /\ \A b \in 1 .. Now : Is(b, "submit") => chain[b].payload # p \/ chain[b].round # r
    /\ \E s \in SwitchNow :
        Happens([kind |-> "submit", payload |-> p, round |-> r, switch |-> s])

(* A materializer gets on by a block.                                      *)
Fill(table) ==
    /\ shown[table] < Now
    /\ shown' = [shown EXCEPT ![table] = @ + 1]
    /\ UNCHANGED <<electorate, chain, attested, active>>

(* A collector writes what the proposer of a slot did with it, with the    *)
(* block or later and in whatever order, or the status of a validator.     *)
RecordSlot(b) ==
    /\ b \notin attested
    /\ attested' = attested \cup {b}
    /\ UNCHANGED <<electorate, chain, shown, active>>
ChangeStatus(s) ==
    /\ active' = IF s \in active THEN active \ {s} ELSE active \cup {s}
    /\ UNCHANGED <<electorate, chain, shown, attested>>

GovernanceInit ==
    /\ electorate \in Electorates
    /\ chain = <<>>
    /\ shown = [t \in Tables |-> 0]
    /\ attested = {}
    /\ active = AllSequencers

GovernanceNext ==
    \/ \E p \in electorate.payloads : Signal(p) \/ \E r \in 0 .. Round(Now) : Submit(p, r)
    \/ PassBlock
    \/ \E t \in Tables : Fill(t)
    \/ \E b \in 1 .. Now : RecordSlot(b)
    \/ \E s \in electorate.leave : ChangeStatus(s)

GovernanceSpec == GovernanceInit /\ [][GovernanceNext]_governanceVars

----------------------------------------------------------------------------
(* The rollups of the registry, by the block of the switch to them; the    *)
(* first is there from the start.  One that the site is configured with    *)
(* but the registry lacks starts where the newest known one does.          *)
Known == {b \in Switches : b <= shown["registry"]}
Ahead == IF electorate.follows THEN {Max(Switches)} \ Known ELSE {}
Rollups == Known \cup Ahead

Open == electorate.blocks + 1
StartOf(v) == IF v \in Known THEN v ELSE Max(Known)
EndOf(v) ==
    LET later == {b \in Known : b > v} IN IF later = {} THEN Open ELSE Min(later)

RangeOf(selected) ==
    [start |-> Min({StartOf(v) : v \in selected}), end |-> Max({EndOf(v) : v \in selected})]

(* The block of a switch belongs to the later rollup.                      *)
Within(b, range) == range.start <= b /\ b < range.end
Select(rows, range) == {b \in rows : Within(b, range)}

----------------------------------------------------------------------------
(* The status of a payload.  Mutant: what is old has expired.              *)
AgeFirst(isSubmitted, isSubmittable, tooOld) ==
    IF tooOld THEN "Expired" ELSE IF isSubmitted THEN "Submitted"
    ELSE IF isSubmittable THEN "Submittable" ELSE "Active"
PayloadStatus(isSubmitted, isSubmittable, tooOld) ==
    IF isSubmitted THEN "Submitted" ELSE IF tooOld THEN "Expired"
    ELSE IF isSubmittable THEN "Submittable" ELSE "Active"

TooOld(r) == Round(Now) > r + Lifetime
VotesIn(r, range) == {b \in Select(VoteRows, range) : Round(b) = r}
PayloadsIn(r, range) == {chain[b].payload : b \in VotesIn(r, range)}

(* The payloads of a round: only submissions of the range are shown, but   *)
(* any submission ends a payload's being submittable.                      *)
ListStatus(p, r, range) ==
    PayloadStatus(Select(SubmittedRows(p, r), range) # {},
                  Select(SubmittableRows(p, r), range) # {} /\ SubmittedRows(p, r) = {},
                  TooOld(r))

(* The summary of a round counts; what is old is counted by what it was.   *)
(* Mutant: a submitted payload stays submittable.                          *)
SubmittableBoth(p, r, range) == Select(SubmittableRows(p, r), range) # {}
SummarySubmittable(p, r, range) ==
    Select(SubmittableRows(p, r), range) # {} /\ Select(SubmittedRows(p, r), range) = {}

Summary(r, range) ==
    LET submitted == {p \in PayloadsIn(r, range) : Select(SubmittedRows(p, r), range) # {}}
        submittable == {p \in PayloadsIn(r, range) : SummarySubmittable(p, r, range)}
        nSubmittable == Cardinality(submittable)
        nActive == Cardinality(PayloadsIn(r, range) \ (submitted \cup submittable))
    IN  [Submitted |-> Cardinality(submitted),
         Submittable |-> IF TooOld(r) THEN 0 ELSE nSubmittable,
         Active |-> IF TooOld(r) THEN 0 ELSE nActive,
         Expired |-> IF TooOld(r) THEN nActive + nSubmittable ELSE 0]

(* The dashboard lists what is submitted and what is submittable, of any   *)
(* age and unless the payload was submitted in whatever round.             *)
OverviewSubmitted(p, r, range) == Select(SubmittedRows(p, r), range) # {}
OverviewSubmittable(p, r, range) ==
    /\ Select(SubmittableRows(p, r), range) # {}
    /\ \A other \in 0 .. Round(Now) : SubmittedRows(p, other) = {}

(* The matrix does not select the submissions by the range.                *)
MatrixStatus(p, r) ==
    PayloadStatus(SubmittedRows(p, r) # {},
                  SubmittableRows(p, r) # {} /\ SubmittedRows(p, r) = {}, TooOld(r))

----------------------------------------------------------------------------
(* The matrix: the slots that have a row are selected by the address of    *)
(* the rollup, signals by the range.  Mutant: the last slot of the round   *)
(* is left out.                                                            *)
StartSlot(r) == r * RoundSize
EndSlot(r) == StartSlot(r) + RoundSize - 1
InRoundButLast(slot, r) == StartSlot(r) <= slot /\ slot < EndSlot(r)
InRound(slot, r) == StartSlot(r) <= slot /\ slot <= EndSlot(r)

SlotsOf(s, r, selected) ==
    {b \in attested : Proposer(b) = s /\ InRound(b, r) /\ RollupAt(b) \in selected}
SignalsOf(s, r, range) == {b \in VotesIn(r, range) : Proposer(b) = s}

(* An active sequencer is listed with every provider it was ever added to. *)
ProvidersOf(s) ==
    IF s \notin active THEN {}
    ELSE IF electorate.providers[s] = {} THEN {Independent} ELSE electorate.providers[s]
AllProviders == UNION {ProvidersOf(s) : s \in AllSequencers}
MembersOf(provider) == {s \in AllSequencers : provider \in ProvidersOf(s)}

(* Who has no slots in the rows is not counted, whatever it has signalled. *)
ProposerSlots(provider, r, selected) ==
    SumFunction([s \in MembersOf(provider) |-> Cardinality(SlotsOf(s, r, selected))])
TotalSignals(provider, r, selected) ==
    SumFunction([s \in {x \in MembersOf(provider) : SlotsOf(x, r, selected) # {}} |->
                    Cardinality(SignalsOf(s, r, RangeOf(selected)))])
----------------------------------------------------------------------------
Rounds == 0 .. Round(Now)
Selections == (SUBSET Rollups) \ {{}}

(* A payload is handled in the range when all of its rows are in it: not   *)
(* so one that is submitted after the switch to another rollup.            *)
Inside(rows, range) == rows = Select(rows, range)
HandledIn(p, r, range) ==
    Inside(SubmittedRows(p, r), range) /\ Inside(SubmittableRows(p, r), range)

(* All views show the same status of a payload that was handled in the     *)
(* range, whatever tables lag, except that the dashboard may still list as *)
(* submittable what has expired, and leaves out what was submitted in      *)
(* another round; and the summary counts what the list shows.              *)
ListShows(r, range, status) == {p \in PayloadsIn(r, range) : ListStatus(p, r, range) = status}
ViewsAgree ==
    \A selected \in Selections, r \in Rounds :
        LET range == RangeOf(selected)
            handled == {p \in PayloadsIn(r, range) : HandledIn(p, r, range)}
        IN  /\ \A p \in handled :
                /\ ListStatus(p, r, range) = MatrixStatus(p, r)
                /\ OverviewSubmitted(p, r, range) <=> ListStatus(p, r, range) = "Submitted"
                /\ OverviewSubmittable(p, r, range)
                    => ListStatus(p, r, range) \in {"Submittable", "Expired"}
                /\ ListStatus(p, r, range) = "Submittable"
                    => \/ OverviewSubmittable(p, r, range)
                       \/ \E other \in Rounds : SubmittedRows(p, other) # {}
            /\ handled = PayloadsIn(r, range) =>
                \A status \in DOMAIN Summary(r, range) :
                    Summary(r, range)[status] = Cardinality(ListShows(r, range, status))

(* What a view has said of a payload it does not take back: a status only  *)
(* ever goes on, while the registry is unchanged and the payload is        *)
(* handled in the range.  Submissions may still come for what has expired. *)
Rank == [Active |-> 0, Submittable |-> 1, Expired |-> 2, Submitted |-> 3]
StatusGoesOn ==
    [][Rollups' = Rollups =>
        \A selected \in Selections, r \in Rounds :
            \A p \in PayloadsIn(r, RangeOf(selected)) :
                /\ HandledIn(p, r, RangeOf(selected))'
                    => Rank[ListStatus(p, r, RangeOf(selected))] <= Rank[ListStatus(p, r, RangeOf(selected))']
                /\ Rank[MatrixStatus(p, r)] <= Rank[MatrixStatus(p, r)']]_governanceVars

(* The signals shown of the providers are signals of the range, counted    *)
(* once each unless a sequencer has been added to two.  While the registry *)
(* knows every switch, the selected rollups follow one another and each of *)
(* their slots in the round has its row, no provider has more signals than *)
(* slots to signal in, and none of the signals is missing if all who       *)
(* signalled are active.  A signal in the block of a switch, but before    *)
(* it, is the one that counts for the next rollup.                         *)
FollowEachOther(selected) ==
    \A v \in Rollups : Min(selected) < v /\ v < Max(selected) => v \in selected
Recorded(r, selected) ==
    \A b \in 1 .. Now : Round(b) = r /\ RollupAt(b) \in selected => b \in attested
OneListEach == \A s \in AllSequencers : \A p, q \in ProvidersOf(s) : p = q
SwitchesSeen ==
    Known = Switches /\ \A b \in 1 .. Now : Is(b, "signal") => chain[b].switch # "after"

ProvidersAddUp ==
    \A selected \in Selections, r \in Rounds :
        LET votes == VotesIn(r, RangeOf(selected))
            shares == SumFunction([q \in AllProviders |-> TotalSignals(q, r, selected)])
        IN  /\ OneListEach => shares <= Cardinality(votes)
            /\ SwitchesSeen /\ FollowEachOther(selected) /\ Recorded(r, selected) =>
                /\ \A q \in AllProviders : TotalSignals(q, r, selected) <= ProposerSlots(q, r, selected)
                /\ {Proposer(b) : b \in votes} \subseteq active => shares >= Cardinality(votes)
=============================================================================
