---------------------------- MODULE RollupMembership ----------------------------
(***************************************************************************)
(* Which validators belong to which rollup: ValidatorRollup rows are       *)
(* created from deposits (materializers/validator-rollup.ts), and derived  *)
(* for every rollup that becomes canonical later (services/                *)
(* validator-rollup-sync.ts), which registry.ts triggers too.  Their       *)
(* status depends on withdrawals that two other materializers copy, and on *)
(* Validator.rollup_address, which ValidatorMaterializer and another       *)
(* process's ValidatorListCollector write in turn.                         *)
(*                                                                         *)
(* As in ValidatorQueue, events are numbered in chain order, a cursor is   *)
(* the number of the last event it covers, and a reorganisation is one     *)
(* step with the reset that follows it.  One event is one block.           *)
(***************************************************************************)
EXTENDS Integers, Sequences, FiniteSets

CONSTANTS
    Cases,       \* the chains that may be indexed, does the collector run, and as
                 \* bounds, failed calls and restarts, reorganisations and rewinds
    Attesters,   \* addresses, which are numbers: they are ordered
    Rollups,
    Current      \* ROLLUP_CONTRACT_ADDRESS of the collectors

Bonus == "bonus"      \* the GSE's address for "whichever rollup is the latest"
Absent == "absent"

ASSUME MembershipAssumption ==
    /\ Current \in Rollups /\ {Bonus, Absent} \cap Rollups = {}
    /\ Attesters \subseteq Nat
    /\ \A x \in Cases :
        /\ x.collector \in BOOLEAN /\ x.faults \in Nat /\ x.resets \in Nat
        /\ x.chains \subseteq Seq([kind : {"deposit", "gse", "canonical", "initiated", "finalized"},
                                   who : Attesters, rollup : Rollups, moves : BOOLEAN])

VARIABLES
    limits,       \* the case
    history,      \* the chain
    height,       \* Ponder has indexed 1..height
    withdrawn,    \* the event up to which each of two withdrawal tables is filled
    registry,     \* CanonicalRollupUpdated rows
    members,      \* ValidatorRollup rows
    directory,    \* Validator.rollup_address
    listing,      \* what the ValidatorListCollector is about to write
    memberCursor, \* cursors of the other materializers
    memberPoll,   \* poll() of the two that share members
    memberFaults, memberResets

chainVars == <<limits, history, height>>
sharedVars == <<withdrawn, registry, directory, listing>>
memberBounds == <<memberFaults, memberResets>>
memberVars == <<chainVars, sharedVars, members, memberCursor, memberPoll, memberBounds>>

Syncers == {"rollup", "canonical"}
Events(kinds, n) == {p \in 1 .. n : history[p].kind \in kinds}

Resting == [stage |-> "idle", rows |-> {}, upto |-> 0]
Stage(stage, rows, upto) == [stage |-> stage, rows |-> rows, upto |-> upto]

MembershipInit ==
    /\ limits \in Cases
    /\ history \in limits.chains
    /\ height = 0
    /\ withdrawn = [k \in {"initiated", "finalized"} |-> 0]
    /\ registry = {}
    /\ members = {}
    /\ directory = [a \in Attesters |-> Absent]
    /\ listing = {}
    /\ memberCursor = [c \in Syncers \cup {"validator"} |-> 0]
    /\ memberPoll = [c \in Syncers |-> Resting]
    /\ memberFaults = 0 /\ memberResets = 0

----------------------------------------------------------------------------
IndexEvent ==
    /\ height < Len(history)
    /\ height' = height + 1
    /\ UNCHANGED <<limits, history, sharedVars, members, memberCursor, memberPoll, memberBounds>>

(* WithdrawInitiated- and WithdrawFinalizedLifecycleMaterializer.  What    *)
(* they read again after a rewind is in their tables already.              *)
NextOf(kinds, after) ==
    {p \in Events(kinds, height) :
        after < p /\ \A q \in Events(kinds, height) : q <= after \/ p <= q}

CopyWithdrawal(k) ==
    /\ \E p \in NextOf({k}, withdrawn[k]) : withdrawn' = [withdrawn EXCEPT ![k] = p]
    /\ UNCHANGED <<chainVars, registry, directory, listing, members, memberCursor, memberPoll, memberBounds>>

(* The rows of the first n events.                                         *)
Withdrew(k, m, n) ==
    \E p \in Events({k}, n) : p <= withdrawn[k] /\ history[p].who = m.who /\ history[p].rollup = m.rollup

(* ValidatorMaterializer: the instance address as it is, sentinel or not.  *)
(* It skips a deposit for which Ponder's look at the attester has failed.  *)
RegisterDeposit ==
    /\ \E p \in NextOf({"deposit", "gse"}, memberCursor["validator"]) :
        /\ \/ /\ directory' = [directory EXCEPT ![history[p].who] =
                                IF history[p].moves THEN Bonus ELSE history[p].rollup]
              /\ UNCHANGED memberFaults
           \/ /\ memberFaults < limits.faults
              /\ memberFaults' = memberFaults + 1
              /\ UNCHANGED directory
        /\ memberCursor' = [memberCursor EXCEPT !["validator"] = p]
    /\ UNCHANGED <<chainVars, withdrawn, registry, listing, members, memberPoll, memberResets>>

----------------------------------------------------------------------------
Latest(S) == CHOOSE p \in S : \A q \in S : q <= p

(* The deposit handlers: the sentinel is resolved to what was canonical.   *)
RollupOf(p) ==
    LET before == Events({"canonical"}, p)
    IN  IF ~history[p].moves THEN history[p].rollup
        ELSE IF before = {} THEN Current
        ELSE history[Latest(before)].rollup

(* The chain: a validator is on the rollup of its last deposit, or, if     *)
(* that moves, on the latest one, until its withdrawal is final.           *)
ActiveOn(a) ==
    LET mine(kinds) == {p \in Events(kinds, height) : history[p].who = a}
        canonical == Events({"canonical"}, height)
        last == Latest(mine({"deposit", "gse"}))
    IN  IF mine({"deposit", "gse"}) = {} \/ \E w \in mine({"finalized"}) : w > last THEN Absent
        ELSE IF history[last].moves /\ canonical # {} THEN history[Latest(canonical)].rollup
        ELSE RollupOf(last)

(* fetchAttesterViewsWithFallback: who is not on the current rollup is     *)
(* looked for on those of the registry; if a call for it fails, or the     *)
(* registry cannot be read, the current rollup is assumed.                 *)
FetchViews(lost) ==
    LET listed == {a \in Attesters : directory[a] # Absent \/ ActiveOn(a) = Current}
        known == {history[p].rollup : p \in registry}
        found(a) == IF ActiveOn(a) \in known /\ a \notin lost THEN ActiveOn(a) ELSE Current
    IN  /\ limits.collector
        /\ listing = {} /\ listed # {}
        /\ listing' = {[who |-> a, rollup |-> found(a)] : a \in listed}
        /\ memberFaults' = IF lost = {} THEN memberFaults ELSE memberFaults + 1
        /\ memberFaults' <= limits.faults
        /\ UNCHANGED <<chainVars, withdrawn, registry, directory, members, memberCursor, memberPoll,
                       memberResets>>

(* batchProcessValidatorsFromAttesterViews.                                *)
UpsertViews ==
    /\ listing # {}
    /\ directory' = [a \in Attesters |->
         IF \E x \in listing : x.who = a THEN (CHOOSE x \in listing : x.who = a).rollup
         ELSE directory[a]]
    /\ listing' = {}
    /\ UNCHANGED <<chainVars, withdrawn, registry, members, memberCursor, memberPoll, memberBounds>>

----------------------------------------------------------------------------
(* poll() of the two materializers; a batch is what one LIMIT returns.     *)
Moved(c, p) == memberPoll' = [memberPoll EXCEPT ![c] = p]
Unread(kind, c) == {p \in Events({kind}, height) : memberCursor[c] < p}

(* The deposits are read in two statements; on an empty chain nothing that *)
(* follows does anything.                                                  *)
ReadDeposits ==
    /\ height > 0
    /\ memberPoll["rollup"] = Resting
    /\ Moved("rollup", Stage("reading", Unread("deposit", "rollup"), 0))
    /\ UNCHANGED <<chainVars, sharedVars, members, memberCursor, memberBounds>>

(* Mutant: nothing is done when there are no rows.                         *)
NoSync(rows) ==
    Moved("rollup", IF rows = {} THEN Resting ELSE Stage("writing", rows, Latest(rows)))

(* onIdle goes on to the backfill, at most once a minute.                  *)
SyncWhenIdle(rows) ==
    Moved("rollup", IF rows = {} THEN Stage("syncing", {}, memberCursor["rollup"])
                    ELSE Stage("writing", rows, Latest(rows)))

ReadGseDeposits ==
    /\ memberPoll["rollup"].stage = "reading"
    /\ SyncWhenIdle(memberPoll["rollup"].rows \cup Unread("gse", "rollup"))
    /\ UNCHANGED <<chainVars, sharedVars, members, memberCursor, memberBounds>>

ReadCanonical ==
    /\ memberPoll["canonical"] = Resting
    /\ LET rows == Unread("canonical", "canonical")
       IN  rows # {} /\ Moved("canonical", Stage("writing", rows, Latest(rows)))
    /\ UNCHANGED <<chainVars, sharedVars, members, memberCursor, memberBounds>>

(* The next upsert of a batch; a row that exists is left as it is.         *)
TakeNext(c, p) ==
    /\ memberPoll[c].stage = "writing"
    /\ p \in memberPoll[c].rows /\ \A q \in memberPoll[c].rows : p <= q
    /\ Moved(c, IF memberPoll[c].rows = {p} THEN Stage("syncing", {}, memberPoll[c].upto)
                ELSE Stage("writing", memberPoll[c].rows \ {p}, memberPoll[c].upto))

IsMember(a, r) == \E m \in members : m.who = a /\ m.rollup = r

UpsertMember(p) ==
    /\ TakeNext("rollup", p)
    /\ members' = IF IsMember(history[p].who, RollupOf(p)) THEN members
                  ELSE members \cup {[who |-> history[p].who, rollup |-> RollupOf(p),
                        by |-> "deposit", at |-> p, index |-> 0, status |-> "active"]}
    /\ UNCHANGED <<chainVars, sharedVars, memberCursor, memberBounds>>

UpsertCanonical(p) ==
    /\ TakeNext("canonical", p)
    /\ registry' = registry \cup {p}
    /\ UNCHANGED <<chainVars, withdrawn, directory, listing, members, memberCursor, memberBounds>>

(* backfillMigratedValidators: a row for every deposit on every canonical  *)
(* rollup after it, unless the validator has one or has begun to withdraw. *)
(* Mutant: the block of the deposit is not compared.                       *)
MigratesEver(m, p) ==
    /\ m.by = "deposit"
    /\ history[p].rollup # m.rollup
    /\ ~IsMember(m.who, history[p].rollup)
    /\ ~Withdrew("initiated", m, height)

Migrates(m, p) ==
    /\ m.by = "deposit"
    /\ m.at < p
    /\ history[p].rollup # m.rollup
    /\ ~IsMember(m.who, history[p].rollup)
    /\ ~Withdrew("initiated", m, height)

(* The synthetic log index: (transaction, index) is unique too.  Mutant:   *)
(* numbered from the same base in every run.                               *)
FixedBase(p) == 0

LastIndex(p) ==
    LET used == {m.index : m \in {x \in members : x.at = p}}
    IN  IF used = {} THEN 0 ELSE Latest(used)

MigrationRows ==
    LET migrating(p) == {m \in members : Migrates(m, p)}
        row(m, p) == [who |-> m.who, rollup |-> history[p].rollup, by |-> "migration", at |-> p,
                      index |-> LastIndex(p) + Cardinality({x \in migrating(p) : x.who <= m.who}),
                      status |-> "active"]
    IN  UNION {{row(m, p) : m \in migrating(p)} : p \in registry}

(* INSERT ... SELECT works on a snapshot, ON CONFLICT DO NOTHING skips     *)
(* what collides with a row that is there by then.                         *)
Collide(m, n) ==
    \/ m.who = n.who /\ m.rollup = n.rollup
    \/ m.at = n.at /\ m.index = n.index

BackfillSelect(c) ==
    /\ memberPoll[c].stage = "syncing"
    /\ Moved(c, Stage("inserting", MigrationRows, memberPoll[c].upto))
    /\ UNCHANGED <<chainVars, sharedVars, members, memberCursor, memberBounds>>

BackfillInsert(c) ==
    LET rows == memberPoll[c].rows
        free == {m \in rows : \A n \in members : ~Collide(m, n)}
        Fits(S) == \A m, n \in S : Collide(m, n) => m = n
    IN  /\ memberPoll[c].stage = "inserting"
        /\ \E S \in SUBSET free :
            /\ Fits(S) /\ \A m \in free \ S : ~Fits(S \cup {m})
            /\ members' = members \cup S
        /\ Moved(c, Stage("refreshing", {}, memberPoll[c].upto))
        /\ UNCHANGED <<chainVars, sharedVars, memberCursor, memberBounds>>

(* refreshMigrationStatus: exited > exiting > migrated > active, for those *)
(* with a Validator row.                                                   *)
StatusOf(m, n) ==
    IF directory[m.who] = Absent THEN m.status
    ELSE IF Withdrew("finalized", m, n) THEN "exited"
    ELSE IF Withdrew("initiated", m, n) THEN "exiting"
    ELSE IF directory[m.who] # m.rollup THEN "migrated"
    ELSE "active"

Refreshed(rows, n) == {[m EXCEPT !.status = StatusOf(m, n)] : m \in rows}

RefreshStatus(c) ==
    /\ memberPoll[c].stage = "refreshing"
    /\ members' = Refreshed(members, height)
    /\ Moved(c, Stage("saving", {}, memberPoll[c].upto))
    /\ UNCHANGED <<chainVars, sharedVars, memberCursor, memberBounds>>

SaveMemberCursor(c) ==
    /\ memberPoll[c].stage = "saving"
    /\ memberCursor' = [memberCursor EXCEPT ![c] = memberPoll[c].upto]
    /\ Moved(c, Resting)
    /\ UNCHANGED <<chainVars, sharedVars, members, memberBounds>>

----------------------------------------------------------------------------
(* A call of one poll throws; the materializer, or the collector, dies.    *)
Abandon(polls, list) ==
    /\ memberFaults < limits.faults
    /\ memberPoll' = polls /\ listing' = list
    /\ polls # memberPoll \/ list # listing
    /\ memberFaults' = memberFaults + 1
    /\ UNCHANGED <<chainVars, withdrawn, registry, directory, members, memberCursor, memberResets>>

PollThrows(c) == Abandon([memberPoll EXCEPT ![c] = Resting], listing)
MaterializerDies == Abandon([c \in Syncers |-> Resting], listing)
CollectorDies == Abandon(memberPoll, {})

(* Only resets that find no materializer lagging behind the reset block.   *)
AllReached(n) ==
    /\ \A c \in Syncers : memberPoll[c] = Resting
    /\ \A p \in 1 .. n :
        CASE history[p].kind = "canonical" -> p <= memberCursor["canonical"]
          [] history[p].kind \in {"deposit", "gse"} ->
                p <= memberCursor["rollup"] /\ p <= memberCursor["validator"]
          [] OTHER -> p <= withdrawn[history[p].kind]

ResetCursors(n) ==
    /\ memberResets < limits.resets
    /\ AllReached(n)
    /\ memberCursor' = [c \in DOMAIN memberCursor |-> n]
    /\ memberResets' = memberResets + 1

(* The events after n leave the chain, and each table is cut at block n;   *)
(* that of the validators is not.                                          *)
UpToBlock(n) == {m \in members : m.at <= n}

ReorganiseTo(h, n) ==
    /\ n < height /\ n < Len(h) /\ h # history
    /\ SubSeq(h, 1, n) = SubSeq(history, 1, n)
    /\ ResetCursors(n)
    /\ history' = h
    /\ height' = n
    /\ withdrawn' = [k \in DOMAIN withdrawn |-> n]
    /\ registry' = registry \cap 1 .. n
    /\ members' = Refreshed(UpToBlock(n), n)
    /\ UNCHANGED <<limits, directory, listing, memberPoll, memberFaults>>

(* After a re-index the rows are kept.                                     *)
RewindMembers(n) ==
    /\ n < height
    /\ ResetCursors(n)
    /\ UNCHANGED <<chainVars, sharedVars, members, memberPoll, memberFaults>>

----------------------------------------------------------------------------
MemberStep(c) ==
    \/ c = "rollup" /\ (ReadDeposits \/ ReadGseDeposits)
    \/ c = "canonical" /\ ReadCanonical
    \/ \E p \in 1 .. height :
        \/ c = "rollup" /\ UpsertMember(p)
        \/ c = "canonical" /\ UpsertCanonical(p)
    \/ BackfillSelect(c) \/ BackfillInsert(c) \/ RefreshStatus(c) \/ SaveMemberCursor(c)

MembershipNext ==
    \/ IndexEvent
    \/ \E k \in DOMAIN withdrawn : CopyWithdrawal(k)
    \/ RegisterDeposit
    \/ \E lost \in SUBSET Attesters : FetchViews(lost)
    \/ UpsertViews
    \/ \E c \in Syncers : MemberStep(c) \/ PollThrows(c)
    \/ MaterializerDies \/ CollectorDies
    \/ \E n \in 0 .. Len(history) :
        RewindMembers(n) \/ \E h \in limits.chains : ReorganiseTo(h, n)

(* Polls every five seconds, collections every few minutes.                *)
MembershipFairness ==
    /\ WF_memberVars(IndexEvent)
    /\ \A k \in {"initiated", "finalized"} : WF_memberVars(CopyWithdrawal(k))
    /\ WF_memberVars(RegisterDeposit)
    /\ WF_memberVars(FetchViews({}))
    /\ WF_memberVars(UpsertViews)
    /\ \A c \in Syncers : WF_memberVars(MemberStep(c))

MembershipSpec == MembershipInit /\ [][MembershipNext]_memberVars /\ MembershipFairness

----------------------------------------------------------------------------
MembershipTypeOK ==
    /\ height \in 0 .. Len(history)
    /\ withdrawn \in [{"initiated", "finalized"} -> 0 .. Len(history)]
    /\ registry \subseteq Events({"canonical"}, height)
    /\ \A m \in members :
        m \in [who : Attesters, rollup : Rollups, by : {"deposit", "migration"}, at : 1 .. height,
               index : Nat, status : {"active", "migrated", "exiting", "exited"}]
    /\ \A m, n \in members : Collide(m, n) => m = n \/ m.index = 0
    /\ directory \in [Attesters -> Rollups \cup {Bonus, Absent}]
    /\ memberCursor \in [Syncers \cup {"validator"} -> 0 .. Len(history)]

(* A derived row rests on the chain as it is now: a rollup that became     *)
(* canonical in that block, and a deposit elsewhere, before it, whose row  *)
(* is there; through reorganisations that take any of the three away.      *)
MigrationsJustified ==
    \A m \in members :
        /\ m.at <= height /\ RollupOf(m.at) = m.rollup
        /\ m.by = "deposit" => history[m.at].who = m.who
        /\ m.by = "migration" =>
            /\ history[m.at].kind = "canonical"
            /\ \E d \in members :
                d.by = "deposit" /\ d.who = m.who /\ d.rollup # m.rollup /\ d.at < m.at

(* Every validator with a deposit row and no withdrawal from that rollup   *)
(* comes to be, for good, on every rollup that became canonical later,     *)
(* whichever of the two materializers was first and whatever they dropped. *)
EventuallyMigrated ==
    <>[](\A m \in members, p \in Events({"canonical"}, height) :
            \/ m.by = "migration" \/ p < m.at
            \/ IsMember(m.who, history[p].rollup)
            \/ \E w \in Events({"initiated"}, height) :
                    history[w].who = m.who /\ history[w].rollup = m.rollup)

(* The statuses come to agree for good with the withdrawals of the chain   *)
(* and with the directory, which two processes write.                      *)
EventuallyCurrent ==
    <>[](/\ members = Refreshed(members, height)
         /\ \A a \in Attesters :
                limits.collector => directory[a] \in {Absent, Current, ActiveOn(a)})

=============================================================================
