---------------------------- MODULE MembershipProofs ----------------------------
(***************************************************************************)
(* What holds of the members of every rollup whatever fails, dies and is   *)
(* reorganised: each of them rests on the chain as it is; and, with the    *)
(* other derived tables, that the rows keep their types and are not there  *)
(* twice.                                                                  *)
(***************************************************************************)
EXTENDS MCDerived, DerivedTablesProofs

(* The rows, and what a poll is about to write: a row of a deposit or of a *)
(* migration that the chain, and the rows, still account for.              *)
MemberRow(m) ==
    m \in [who : Attesters, rollup : Rollups, by : {"deposit", "migration"}, at : 1 .. height,
           index : Nat, status : {"active", "migrated", "exiting", "exited"}]
Justified(m) ==
    /\ m.at <= height /\ RollupOf(m.at) = m.rollup
    /\ m.by = "deposit" => history[m.at].who = m.who
    /\ m.by = "migration" =>
        /\ history[m.at].kind = "canonical"
        /\ \E d \in members :
            d.by = "deposit" /\ d.who = m.who /\ d.rollup # m.rollup /\ d.at < m.at

MembersInvariant ==
    /\ IsFiniteSet(members)
    /\ \A m \in members : MemberRow(m) /\ Justified(m)
    /\ \A m, n \in members : Collide(m, n) => m = n \/ m.index = 0

KindsOf(c) == IF c = "rollup" THEN {"deposit", "gse"} ELSE {"canonical"}
PollRow(c, x) ==
    /\ x = Stage(x.stage, x.rows, x.upto)
    /\ x.stage \in {"idle", "reading", "writing", "syncing", "inserting", "refreshing", "saving"}
    /\ x.upto \in 0 .. height
    /\ x.stage \in {"reading", "writing"} => x.rows \subseteq Events(KindsOf(c), height)
    /\ x.stage = "inserting" =>
        IsFiniteSet(x.rows) /\ \A m \in x.rows : MemberRow(m) /\ Justified(m)
PollsInvariant ==
    /\ memberPoll = [c \in Syncers |-> memberPoll[c]]
    /\ \A c \in Syncers : PollRow(c, memberPoll[c])

WorldInvariant ==
    /\ limits \in Cases /\ history \in limits.chains
    /\ height \in 0 .. Len(history)
    /\ withdrawn \in [{"initiated", "finalized"} -> 0 .. height]
    /\ registry \subseteq Events({"canonical"}, height)
    /\ directory \in [Attesters -> Rollups \cup {Bonus, Absent}]
    /\ \A x \in listing : x.who \in Attesters /\ x.rollup \in Rollups
    /\ memberCursor \in [Syncers \cup {"validator"} -> 0 .. height]

MembershipInvariant == WorldInvariant /\ PollsInvariant /\ MembersInvariant

LEMMA ChainFacts ==
    ASSUME WorldInvariant
    PROVE  /\ Len(history) \in Nat /\ height \in Nat
           /\ Attesters \subseteq Nat /\ Current \in Rollups
           /\ \A p \in 1 .. Len(history) : history[p].who \in Attesters /\ history[p].rollup \in Rollups
<1> DEFINE Event == [kind : {"deposit", "gse", "canonical", "initiated", "finalized"},
                     who : Attesters, rollup : Rollups, moves : BOOLEAN]
<1>1. history \in Seq(Event)
  BY MembershipAssumption DEF WorldInvariant
<1> HIDE DEF Event
<1>2. Len(history) \in Nat /\ \A p \in 1 .. Len(history) : history[p] \in Event
  BY <1>1
<1> QED
  BY <1>2, MembershipAssumption DEF WorldInvariant, Event

LEMMA LatestIsThere ==
    ASSUME NEW n \in Nat, NEW S, S \subseteq 1 .. n, S # {}
    PROVE  Latest(S) \in S /\ \A q \in S : q <= Latest(S)
<1>1. \E x \in S : \A q \in S : q <= x
  BY n \in Int, GreatestNumber, Zenon
<1> QED
  BY <1>1, Zenon DEF Latest

LEMMA RollupOfIsRollup ==
    ASSUME WorldInvariant, NEW p \in 1 .. Len(history)
    PROVE  RollupOf(p) \in Rollups /\ (history[p].kind = "canonical" => RollupOf(p) = history[p].rollup)
<1> DEFINE before == Events({"canonical"}, p)
<1>1. before \subseteq 1 .. p /\ p \in Nat /\ before \subseteq 1 .. Len(history)
  BY ChainFacts DEF Events
<1>2. before # {} => Latest(before) \in before /\ \A q \in before : q <= Latest(before)
  BY <1>1, LatestIsThere
<1>3. history[p].kind = "canonical" => p \in before
  BY ChainFacts DEF Events
<1>4. history[p].kind = "canonical" => Latest(before) = p
  BY <1>1, <1>2, <1>3
<1> HIDE DEF before
<1> QED
  BY <1>1, <1>2, <1>3, <1>4, ChainFacts DEF RollupOf, before

LEMMA MembersBegin == MembershipInit => MembershipInvariant
<1> SUFFICES ASSUME MembershipInit PROVE MembershipInvariant
  OBVIOUS
<1>1. history \in Seq([kind : {"deposit", "gse", "canonical", "initiated", "finalized"},
                       who : Attesters, rollup : Rollups, moves : BOOLEAN])
  BY MembershipAssumption DEF MembershipInit
<1>2. WorldInvariant
  BY <1>1 DEF MembershipInit, WorldInvariant, Events
<1>3. PollsInvariant
  BY DEF MembershipInit, PollsInvariant, PollRow, Resting, Stage
<1>4. MembersInvariant
  BY FS_EmptySet DEF MembershipInit, MembersInvariant
<1> QED
  BY <1>2, <1>3, <1>4 DEF MembershipInvariant

----------------------------------------------------------------------------
(* A row stays justified while the chain grows and the deposits stay.      *)
DepositsStay ==
    /\ history' = history /\ height <= height' /\ height' \in Nat
    /\ \A d \in members : d.by = "deposit" =>
        \E e \in members' : e.by = "deposit" /\ e.who = d.who /\ e.rollup = d.rollup /\ e.at = d.at

LEMMA JustifiedStays ==
    ASSUME DepositsStay, height \in Nat, NEW m, MemberRow(m), Justified(m)
    PROVE  MemberRow(m)' /\ Justified(m)'
<1>1. RollupOf(m.at)' = RollupOf(m.at)
  BY DEF DepositsStay, RollupOf, Events
<1>2. m.at \in 1 .. height /\ m.at <= height'
  BY DEF MemberRow, DepositsStay
<1>3. MemberRow(m)'
  BY <1>2 DEF MemberRow, DepositsStay
<1> QED
  BY <1>1, <1>2, <1>3 DEF Justified, DepositsStay

LEMMA PollStays ==
    ASSUME DepositsStay, height \in Nat, NEW c, NEW x, PollRow(c, x)
    PROVE  PollRow(c, x)'
<1>1. x.upto \in 0 .. height' /\ Events(KindsOf(c), height) \subseteq Events(KindsOf(c), height)'
  BY DEF PollRow, DepositsStay, Events
<1> QED
  BY <1>1, JustifiedStays DEF PollRow

LEMMA RestingIsPoll ==
    ASSUME height \in Nat, NEW c PROVE PollRow(c, Resting)
  BY DEF PollRow, Resting, Stage

(* Steps that leave the rows alone, and move polls only to sound ones.     *)
LEMMA MembersUntouched ==
    ASSUME MembershipInvariant, WorldInvariant', UNCHANGED <<history, members>>, height <= height',
           memberPoll' = [c \in Syncers |-> memberPoll'[c]],
           \A c \in Syncers : \E x :
                memberPoll'[c] = x /\ (x = memberPoll[c] \/ PollRow(c, x)')
    PROVE  MembershipInvariant'
<1>1. DepositsStay /\ height \in Nat
  BY ChainFacts DEF MembershipInvariant, WorldInvariant, DepositsStay
<1>2. PollsInvariant'
  <2>1. ASSUME NEW c \in Syncers PROVE PollRow(c, memberPoll[c])'
    <3>1. PICK x : memberPoll'[c] = x /\ (x = memberPoll[c] \/ PollRow(c, x)')
      OBVIOUS
    <3>2. PollRow(c, x)'
      <4>1. CASE x = memberPoll[c]
        BY <1>1, <4>1, PollStays DEF MembershipInvariant, PollsInvariant
      <4> QED
        BY <3>1, <4>1
    <3> QED
      BY <3>1, <3>2 DEF PollRow, MemberRow, Justified
  <2> QED
    BY <2>1 DEF PollsInvariant
<1>3. MembersInvariant'
  <2>1. \A m \in members : MemberRow(m)' /\ Justified(m)'
    BY <1>1, JustifiedStays DEF MembershipInvariant, MembersInvariant
  <2> QED
    BY <2>1 DEF MembershipInvariant, MembersInvariant, Collide
<1> QED
  BY <1>2, <1>3 DEF MembershipInvariant

----------------------------------------------------------------------------
LEMMA WorldKeepsMembers ==
    ASSUME MembershipInvariant,
           \/ IndexEvent
           \/ \E k \in DOMAIN withdrawn : CopyWithdrawal(k)
           \/ RegisterDeposit
           \/ \E lost \in SUBSET Attesters : FetchViews(lost)
           \/ UpsertViews
    PROVE  MembershipInvariant'
<1>1. /\ UNCHANGED <<limits, history, members, memberPoll>>
      /\ height' = height \/ (height < Len(history) /\ height' = height + 1)
      /\ height' # height => UNCHANGED <<withdrawn, registry, directory, listing, memberCursor>>
  BY DEF IndexEvent, CopyWithdrawal, RegisterDeposit, FetchViews, UpsertViews, chainVars, sharedVars
<1>2. Len(history) \in Nat /\ height \in Nat
  BY ChainFacts DEF MembershipInvariant
<1>3. WorldInvariant'
  <2> USE DEF MembershipInvariant
  <2>1. CASE IndexEvent
    BY <1>1, <1>2, <2>1 DEF WorldInvariant, IndexEvent, sharedVars, Events
  <2>2. ASSUME NEW k \in DOMAIN withdrawn, CopyWithdrawal(k) PROVE WorldInvariant'
    <3>1. PICK p \in NextOf({k}, withdrawn[k]) : withdrawn' = [withdrawn EXCEPT ![k] = p]
      BY <2>2 DEF CopyWithdrawal
    <3>2. p \in 0 .. height
      BY <1>2 DEF NextOf, Events
    <3>3. UNCHANGED <<limits, history, height, registry, directory, listing, memberCursor>>
      BY <2>2 DEF CopyWithdrawal, chainVars
    <3> QED
      BY <3>1, <3>2, <3>3 DEF WorldInvariant, Events
  <2>3. CASE RegisterDeposit
    <3>1. PICK p \in NextOf({"deposit", "gse"}, memberCursor["validator"]) :
            /\ \/ directory' = [directory EXCEPT ![history[p].who] =
                                  IF history[p].moves THEN Bonus ELSE history[p].rollup]
               \/ directory' = directory
            /\ memberCursor' = [memberCursor EXCEPT !["validator"] = p]
      BY <2>3 DEF RegisterDeposit
    <3>2. p \in 1 .. Len(history) /\ p \in 0 .. height
      BY <1>2 DEF NextOf, Events, WorldInvariant
    <3>3. history[p].who \in Attesters /\ history[p].rollup \in Rollups
      BY <3>2, ChainFacts
    <3>4. UNCHANGED <<limits, history, height, withdrawn, registry, listing>>
      BY <2>3 DEF RegisterDeposit, chainVars
    <3> QED
      BY <3>1, <3>2, <3>3, <3>4 DEF WorldInvariant, Events
  <2>4. ASSUME NEW lost \in SUBSET Attesters, FetchViews(lost) PROVE WorldInvariant'
    <3> DEFINE listed == {a \in Attesters : directory[a] # Absent \/ ActiveOn(a) = Current}
               known == {history[p].rollup : p \in registry}
               found(a) == IF ActiveOn(a) \in known /\ a \notin lost THEN ActiveOn(a) ELSE Current
    <3>1. listing' = {[who |-> a, rollup |-> found(a)] : a \in listed}
      BY <2>4 DEF FetchViews
    <3>2. known \subseteq Rollups
      BY ChainFacts DEF WorldInvariant, Events
    <3>3. \A a \in listed : a \in Attesters /\ found(a) \in Rollups
      BY <3>2, ChainFacts
    <3> HIDE DEF listed, known, found
    <3>4. \A x \in listing' : x.who \in Attesters /\ x.rollup \in Rollups
      BY <3>1, <3>3
    <3>5. UNCHANGED <<limits, history, height, withdrawn, registry, directory, memberCursor>>
      BY <2>4 DEF FetchViews, chainVars
    <3> QED
      BY <3>4, <3>5 DEF WorldInvariant, Events
  <2>5. CASE UpsertViews
    <3>1. \A a \in Attesters : (\E x \in listing : x.who = a) =>
            (CHOOSE x \in listing : x.who = a).rollup \in Rollups
      <4> SUFFICES ASSUME NEW a \in Attesters, \E x \in listing : x.who = a
                   PROVE  (CHOOSE x \in listing : x.who = a).rollup \in Rollups
        OBVIOUS
      <4>1. (CHOOSE x \in listing : x.who = a) \in listing
        OBVIOUS
      <4> QED
        BY <4>1 DEF WorldInvariant
    <3>2. listing' = {} /\ directory' = [a \in Attesters |->
             IF \E x \in listing : x.who = a THEN (CHOOSE x \in listing : x.who = a).rollup
             ELSE directory[a]]
      BY <2>5 DEF UpsertViews
    <3>3. directory' \in [Attesters -> Rollups \cup {Bonus, Absent}]
      BY <3>1, <3>2 DEF WorldInvariant
    <3>4. UNCHANGED <<limits, history, height, withdrawn, registry, memberCursor>>
      BY <2>5 DEF UpsertViews, chainVars
    <3> QED
      BY <3>2, <3>3, <3>4 DEF WorldInvariant, Events
  <2> QED
    BY <2>1, <2>2, <2>3, <2>4, <2>5
<1> QED
  BY <1>1, <1>2, <1>3, MembersUntouched DEF MembershipInvariant, PollsInvariant

----------------------------------------------------------------------------
(* The steps of a poll that write no row.                                  *)
LEMMA MovedFacts ==
    ASSUME PollsInvariant, NEW c \in Syncers, NEW x, Moved(c, x)
    PROVE  /\ memberPoll' = [d \in Syncers |-> memberPoll'[d]]
           /\ memberPoll'[c] = x
           /\ \A d \in Syncers : d # c => memberPoll'[d] = memberPoll[d]
  BY DEF PollsInvariant, Moved

LEMMA QuietPollKeepsMembers ==
    ASSUME MembershipInvariant, NEW c \in Syncers, NEW x, Moved(c, x), PollRow(c, x),
           UNCHANGED <<limits, history, height, withdrawn, directory, listing, members>>,
           registry' \subseteq Events({"canonical"}, height),
           memberCursor' \in [Syncers \cup {"validator"} -> 0 .. height]
    PROVE  MembershipInvariant'
<1>1. WorldInvariant'
  BY DEF MembershipInvariant, WorldInvariant, Events
<1>2. DepositsStay /\ height \in Nat
  BY ChainFacts DEF MembershipInvariant, WorldInvariant, DepositsStay
<1>3. PollRow(c, x)'
  BY <1>2, PollStays
<1>4. \A d \in Syncers : \E y : memberPoll'[d] = y /\ (y = memberPoll[d] \/ PollRow(d, y)')
  BY <1>3, MovedFacts DEF MembershipInvariant
<1> QED
  BY <1>1, <1>2, <1>4, MovedFacts, MembersUntouched DEF MembershipInvariant

LEMMA PollFactsOf ==
    ASSUME MembershipInvariant, NEW c \in Syncers
    PROVE  /\ height \in Nat /\ Len(history) \in Nat /\ height <= Len(history)
           /\ PollRow(c, memberPoll[c])
           /\ memberCursor[c] \in 0 .. height
           /\ \A S : S \subseteq 1 .. height /\ S # {} => Latest(S) \in S /\ Latest(S) \in 0 .. height
<1>1. height \in Nat /\ Len(history) \in Nat /\ height <= Len(history)
  BY ChainFacts DEF MembershipInvariant, WorldInvariant
<1>2. ASSUME NEW S, S \subseteq 1 .. height, S # {}
      PROVE  Latest(S) \in S /\ Latest(S) \in 0 .. height
  <2>1. Latest(S) \in S
    BY <1>1, <1>2, LatestIsThere, Zenon
  <2>2. Latest(S) \in 1 .. height
    BY <1>2, <2>1
  <2> QED
    BY <1>1, <2>1, <2>2
<1> QED
  BY <1>1, <1>2 DEF MembershipInvariant, PollsInvariant, WorldInvariant

LEMMA ReadKeepsMembers ==
    ASSUME MembershipInvariant, ReadDeposits \/ ReadGseDeposits \/ ReadCanonical
    PROVE  MembershipInvariant'
<1>1. UNCHANGED <<limits, history, height, withdrawn, registry, directory, listing, members, memberCursor>>
  BY DEF ReadDeposits, ReadGseDeposits, ReadCanonical, chainVars, sharedVars
<1>2. /\ registry' \subseteq Events({"canonical"}, height)
      /\ memberCursor' \in [Syncers \cup {"validator"} -> 0 .. height]
  BY <1>1 DEF MembershipInvariant, WorldInvariant
<1>3. "rollup" \in Syncers /\ "canonical" \in Syncers
  BY DEF Syncers
<1>4. \A S, n : Events(S, n) \subseteq 1 .. n
  BY DEF Events
<1>5. CASE ReadDeposits
  <2> DEFINE got == Unread("deposit", "rollup")
             x == Stage("reading", got, 0)
  <2>1. got \subseteq Events(KindsOf("rollup"), height) /\ height \in Nat
    BY <1>3, PollFactsOf DEF Unread, Events, KindsOf
  <2> HIDE DEF got
  <2>2. PollRow("rollup", x)
    BY <2>1 DEF PollRow, Stage
  <2> USE DEF got
  <2> QED
    BY <1>1, <1>2, <1>3, <1>5, <2>2, QuietPollKeepsMembers DEF ReadDeposits
<1>6. CASE ReadGseDeposits
  <2> DEFINE all == memberPoll["rollup"].rows \cup Unread("gse", "rollup")
             x == IF all = {} THEN Stage("syncing", {}, memberCursor["rollup"])
                  ELSE Stage("writing", all, Latest(all))
  <2>1. all \subseteq Events(KindsOf("rollup"), height)
    BY <1>3, <1>6, PollFactsOf DEF ReadGseDeposits, PollRow, Unread, Events, KindsOf
  <2>2. all # {} => Latest(all) \in 0 .. height
    BY <1>3, <1>4, <2>1, PollFactsOf
  <2>3. Moved("rollup", x)
    BY <1>6 DEF ReadGseDeposits, SyncWhenIdle
  <2> HIDE DEF all
  <2>4. PollRow("rollup", x)
    BY <1>3, <2>1, <2>2, PollFactsOf DEF PollRow, Stage
  <2> QED
    BY <1>1, <1>2, <1>3, <2>3, <2>4, QuietPollKeepsMembers
<1>7. CASE ReadCanonical
  <2> DEFINE all == Unread("canonical", "canonical")
             x == Stage("writing", all, Latest(all))
  <2>1. all \subseteq Events(KindsOf("canonical"), height) /\ all # {}
    BY <1>7 DEF ReadCanonical, Unread, Events, KindsOf
  <2>2. Latest(all) \in 0 .. height
    BY <1>3, <1>4, <2>1, PollFactsOf
  <2>3. Moved("canonical", x)
    BY <1>7 DEF ReadCanonical
  <2> HIDE DEF all
  <2>4. PollRow("canonical", x)
    BY <1>3, <2>1, <2>2, PollFactsOf DEF PollRow, Stage
  <2> QED
    BY <1>1, <1>2, <1>3, <2>3, <2>4, QuietPollKeepsMembers
<1> QED
  BY <1>5, <1>6, <1>7

(* What TakeNext moves the poll to.                                        *)
AfterUpsert(c, p) ==
    IF memberPoll[c].rows = {p} THEN Stage("syncing", {}, memberPoll[c].upto)
    ELSE Stage("writing", memberPoll[c].rows \ {p}, memberPoll[c].upto)

LEMMA TakenFacts ==
    ASSUME MembershipInvariant, NEW c \in Syncers, NEW p, TakeNext(c, p)
    PROVE  /\ PollRow(c, AfterUpsert(c, p)) /\ Moved(c, AfterUpsert(c, p))
           /\ p \in Events(KindsOf(c), height)
<1>1. PollRow(c, memberPoll[c]) /\ memberPoll[c].stage = "writing" /\ p \in memberPoll[c].rows
  BY PollFactsOf DEF TakeNext
<1>2. PollRow(c, AfterUpsert(c, p))
  BY <1>1 DEF PollRow, AfterUpsert, Stage
<1>3. p \in Events(KindsOf(c), height)
  BY <1>1 DEF PollRow
<1> QED
  BY <1>2, <1>3 DEF TakeNext, AfterUpsert

(* The rows that a backfill selects.                                       *)
LEMMA MigrationsSound ==
    ASSUME MembershipInvariant
    PROVE  /\ IsFiniteSet(MigrationRows)
           /\ \A z \in MigrationRows : MemberRow(z) /\ Justified(z)
<1> DEFINE migrating(p) == {m \in members : Migrates(m, p)}
           row(m, p) == [who |-> m.who, rollup |-> history[p].rollup, by |-> "migration", at |-> p,
                         index |-> LastIndex(p) + Cardinality({x \in migrating(p) : x.who <= m.who}),
                         status |-> "active"]
           pairs == members \X registry
           f == [x \in pairs |-> row(x[1], x[2])]
<1>1. \A z \in MigrationRows : \E p \in registry : \E m \in migrating(p) : z = row(m, p)
  BY DEF MigrationRows
<1>2. registry \subseteq 1 .. height /\ height \in Nat /\ height <= Len(history)
      /\ Len(history) \in Nat
  BY ChainFacts DEF MembershipInvariant, WorldInvariant, Events
<1>3. IsFiniteSet(pairs)
  <2>1. IsFiniteSet(1 .. height)
    BY <1>2, FS_Interval
  <2>2. IsFiniteSet(registry)
    BY <1>2, <2>1, FS_Subset
  <2> QED
    BY <2>2, FS_Product DEF MembershipInvariant, MembersInvariant
<1>4. MigrationRows \subseteq {f[x] : x \in pairs}
  <2> SUFFICES ASSUME NEW z \in MigrationRows PROVE \E x \in pairs : z = f[x]
    OBVIOUS
  <2>1. PICK p \in registry : \E m \in migrating(p) : z = row(m, p)
    BY <1>1
  <2> PICK m \in migrating(p) : z = row(m, p)
    BY <2>1
  <2>2. <<m, p>> \in pairs /\ f[<<m, p>>] = row(m, p)
    OBVIOUS
  <2> QED
    BY <2>1, <2>2
<1>5. IsFiniteSet(MigrationRows)
  <2> HIDE DEF f, pairs
  <2> QED
    BY <1>3, <1>4, ImageIsFinite
<1>6. ASSUME NEW p \in registry, NEW m \in migrating(p)
      PROVE  MemberRow(row(m, p)) /\ Justified(row(m, p))
  <2>1. p \in 1 .. Len(history) /\ history[p].kind = "canonical" /\ p \in 1 .. height
    BY <1>2 DEF MembershipInvariant, WorldInvariant, Events
  <2>2. m \in members /\ MemberRow(m) /\ Migrates(m, p)
    BY DEF MembershipInvariant, MembersInvariant
  <2>3. LastIndex(p) \in Nat
    <3> DEFINE there == {x \in members : x.at = p}
               used == {x.index : x \in there}
    <3>1. used \subseteq Nat
      BY DEF MembershipInvariant, MembersInvariant, MemberRow
    <3>2. IsFiniteSet(there)
      BY FS_Subset DEF MembershipInvariant, MembersInvariant
    <3>3. IsFiniteSet(used)
      <4> DEFINE g == [x \in there |-> x.index]
      <4>1. used \subseteq {g[x] : x \in there}
        OBVIOUS
      <4> HIDE DEF there, used, g
      <4> QED
        BY <3>2, <4>1, ImageIsFinite
    <3> HIDE DEF used
    <3>4. used # {} => Latest(used) \in used
      BY <3>1, <3>3, GreatestOfFinite, Zenon DEF Latest
    <3>5. LastIndex(p) = IF used = {} THEN 0 ELSE Latest(used)
      BY DEF LastIndex, used
    <3> QED
      BY <3>1, <3>4, <3>5, 0 \in Nat, Zenon
  <2>4. Cardinality({x \in migrating(p) : x.who <= m.who}) \in Nat
    <3>1. IsFiniteSet({x \in migrating(p) : x.who <= m.who})
      BY FS_Subset DEF MembershipInvariant, MembersInvariant
    <3> QED
      BY <3>1, FS_CardinalityType
  <2> DEFINE index == LastIndex(p) + Cardinality({x \in migrating(p) : x.who <= m.who})
             z == [who |-> m.who, rollup |-> history[p].rollup, by |-> "migration", at |-> p,
                   index |-> index, status |-> "active"]
  <2>5. index \in Nat
    BY <2>3, <2>4
  <2> HIDE DEF index
  <2>6. history[p].rollup \in Rollups /\ RollupOf(p) = history[p].rollup
    BY <2>1, ChainFacts, RollupOfIsRollup DEF MembershipInvariant
  <2>7. MemberRow(z)
    BY <2>1, <2>2, <2>5, <2>6 DEF MemberRow
  <2>8. Justified(z)
    BY <1>2, <2>1, <2>2, <2>6 DEF Justified, Migrates
  <2> QED
    BY <2>7, <2>8 DEF index
<1> HIDE DEF row
<1> QED
  BY <1>1, <1>5, <1>6

LEMMA QuietStepsKeepMembers ==
    ASSUME MembershipInvariant,
           \/ \E p \in 1 .. height : UpsertCanonical(p)
           \/ \E c \in Syncers : BackfillSelect(c) \/ SaveMemberCursor(c)
    PROVE  MembershipInvariant'
<1>1. ASSUME NEW p \in 1 .. height, UpsertCanonical(p) PROVE MembershipInvariant'
  <2>1. "canonical" \in Syncers
    BY DEF Syncers
  <2>2. /\ PollRow("canonical", AfterUpsert("canonical", p))
        /\ Moved("canonical", AfterUpsert("canonical", p))
        /\ p \in Events({"canonical"}, height)
    BY <1>1, <2>1, TakenFacts DEF UpsertCanonical, KindsOf
  <2>3. /\ UNCHANGED <<limits, history, height, withdrawn, directory, listing, members, memberCursor>>
        /\ registry' = registry \cup {p}
    BY <1>1 DEF UpsertCanonical, chainVars
  <2>4. /\ registry' \subseteq Events({"canonical"}, height)
        /\ memberCursor' \in [Syncers \cup {"validator"} -> 0 .. height]
    BY <2>2, <2>3 DEF MembershipInvariant, WorldInvariant
  <2> QED
    BY <2>1, <2>2, <2>3, <2>4, QuietPollKeepsMembers
<1>2. ASSUME NEW c \in Syncers, SaveMemberCursor(c) PROVE MembershipInvariant'
  <2>1. /\ UNCHANGED <<limits, history, height, withdrawn, registry, directory, listing, members>>
        /\ memberCursor' = [memberCursor EXCEPT ![c] = memberPoll[c].upto]
        /\ Moved(c, Resting)
    BY <1>2 DEF SaveMemberCursor, chainVars, sharedVars
  <2>2. memberPoll[c].upto \in 0 .. height /\ height \in Nat
    BY PollFactsOf DEF PollRow
  <2>3. /\ registry' \subseteq Events({"canonical"}, height)
        /\ memberCursor' \in [Syncers \cup {"validator"} -> 0 .. height]
    BY <2>1, <2>2 DEF MembershipInvariant, WorldInvariant
  <2>4. PollRow(c, Resting)
    BY <2>2, RestingIsPoll
  <2> QED
    BY <2>1, <2>3, <2>4, QuietPollKeepsMembers
<1>3. ASSUME NEW c \in Syncers, BackfillSelect(c) PROVE MembershipInvariant'
  <2> DEFINE x == Stage("inserting", MigrationRows, memberPoll[c].upto)
  <2>1. /\ UNCHANGED <<limits, history, height, withdrawn, registry, directory, listing, members,
                       memberCursor>>
        /\ Moved(c, x)
    BY <1>3 DEF BackfillSelect, chainVars, sharedVars
  <2>2. PollRow(c, x)
    BY PollFactsOf, MigrationsSound DEF PollRow, Stage
  <2>3. /\ registry' \subseteq Events({"canonical"}, height)
        /\ memberCursor' \in [Syncers \cup {"validator"} -> 0 .. height]
    BY <2>1 DEF MembershipInvariant, WorldInvariant
  <2> QED
    BY <2>1, <2>2, <2>3, QuietPollKeepsMembers
<1> QED
  BY <1>1, <1>2, <1>3

----------------------------------------------------------------------------
(* The steps that write rows: the deposits stay among them.                *)
LEMMA RowsWritten ==
    ASSUME MembershipInvariant, DepositsStay, MembersInvariant',
           NEW c \in Syncers, NEW x, Moved(c, x), PollRow(c, x)',
           UNCHANGED <<limits, history, height, withdrawn, registry, directory, listing, memberCursor>>
    PROVE  MembershipInvariant'
<1>1. WorldInvariant'
  BY DEF MembershipInvariant, WorldInvariant, Events
<1>2. height \in Nat
  BY ChainFacts DEF MembershipInvariant
<1>3. ASSUME NEW d \in Syncers PROVE PollRow(d, memberPoll[d])'
  <2>1. PICK y : memberPoll'[d] = y /\ (y = memberPoll[d] \/ (d = c /\ y = x))
    BY MovedFacts DEF MembershipInvariant
  <2>2. PollRow(d, y)'
    <3>1. CASE y = memberPoll[d]
      <4>1. PollRow(d, y)
        BY <3>1 DEF MembershipInvariant, PollsInvariant
      <4> QED
        BY <1>2, <4>1, PollStays
    <3> QED
      BY <2>1, <3>1
  <2> QED
    BY <2>1, <2>2 DEF PollRow, MemberRow, Justified
<1>4. PollsInvariant'
  BY <1>3, MovedFacts DEF MembershipInvariant, PollsInvariant
<1> QED
  BY <1>1, <1>4 DEF MembershipInvariant

LEMMA UpsertKeepsMembers ==
    ASSUME MembershipInvariant, NEW p \in 1 .. height, UpsertMember(p)
    PROVE  MembershipInvariant'
<1> DEFINE new == [who |-> history[p].who, rollup |-> RollupOf(p), by |-> "deposit", at |-> p,
                   index |-> 0, status |-> "active"]
<1> PICK x : x = AfterUpsert("rollup", p)
  OBVIOUS
<1>1. "rollup" \in Syncers /\ height \in Nat /\ p \in 1 .. Len(history)
  BY ChainFacts DEF Syncers, MembershipInvariant, WorldInvariant
<1>2. /\ UNCHANGED <<limits, history, height, withdrawn, registry, directory, listing, memberCursor>>
      /\ members' = IF IsMember(history[p].who, RollupOf(p)) THEN members ELSE members \cup {new}
  BY DEF UpsertMember, chainVars, sharedVars
<1>3. Moved("rollup", x) /\ PollRow("rollup", x)
  BY <1>1, TakenFacts DEF UpsertMember
<1>4. MemberRow(new) /\ Justified(new)
  <2>1. history[p].who \in Attesters /\ RollupOf(p) \in Rollups
    BY <1>1, ChainFacts, RollupOfIsRollup DEF MembershipInvariant
  <2> QED
    BY <1>1, <2>1 DEF MemberRow, Justified
<1>5. new.who = history[p].who /\ new.rollup = RollupOf(p) /\ new.index = 0
  OBVIOUS
<1> HIDE DEF new
<1>6. DepositsStay
  BY <1>1, <1>2 DEF DepositsStay
<1>7. MembersInvariant'
  <2>1. IsFiniteSet(members')
    BY <1>2, FS_AddElement DEF MembershipInvariant, MembersInvariant
  <2>2. \A m \in members' : MemberRow(m)' /\ Justified(m)'
    BY <1>1, <1>2, <1>4, <1>6, JustifiedStays DEF MembershipInvariant, MembersInvariant
  <2>3. \A m, n \in members' : Collide(m, n) => m = n \/ m.index = 0
    BY <1>2, <1>5 DEF MembershipInvariant, MembersInvariant, Collide, IsMember
  <2> QED
    BY <2>1, <2>2, <2>3 DEF MembersInvariant, Collide
<1>8. PollRow("rollup", x)'
  BY <1>1, <1>3, <1>6, PollStays
<1> QED
  BY <1>1, <1>2, <1>3, <1>6, <1>7, <1>8, RowsWritten

LEMMA InsertKeepsMembers ==
    ASSUME MembershipInvariant, NEW c \in Syncers, BackfillInsert(c)
    PROVE  MembershipInvariant'
<1> PICK x : x = Stage("refreshing", {}, memberPoll[c].upto)
  OBVIOUS
<1> DEFINE free == {m \in memberPoll[c].rows : \A n \in members : ~Collide(m, n)}
<1>1. /\ UNCHANGED <<limits, history, height, withdrawn, registry, directory, listing, memberCursor>>
      /\ Moved(c, x) /\ memberPoll[c].stage = "inserting"
  BY DEF BackfillInsert, chainVars, sharedVars
<1>2. PICK S \in SUBSET free :
        /\ \A m, n \in S : Collide(m, n) => m = n
        /\ members' = members \cup S
  BY DEF BackfillInsert
<1>3. /\ PollRow(c, memberPoll[c]) /\ PollRow(c, x) /\ height \in Nat
      /\ IsFiniteSet(memberPoll[c].rows)
      /\ \A m \in memberPoll[c].rows : MemberRow(m) /\ Justified(m)
  BY <1>1, PollFactsOf DEF PollRow, Stage
<1>4. DepositsStay
  BY <1>1, <1>2, <1>3 DEF DepositsStay
<1>5. MembersInvariant'
  <2>1. IsFiniteSet(members')
    <3>1. IsFiniteSet(S)
      BY <1>3, FS_Subset
    <3> QED
      BY <1>2, <3>1, FS_Union DEF MembershipInvariant, MembersInvariant
  <2>2. \A m \in members' : MemberRow(m)' /\ Justified(m)'
    BY <1>2, <1>3, <1>4, JustifiedStays DEF MembershipInvariant, MembersInvariant
  <2>3. \A m, n \in members' : Collide(m, n) => m = n \/ m.index = 0
    BY <1>2 DEF MembershipInvariant, MembersInvariant, Collide
  <2> QED
    BY <2>1, <2>2, <2>3 DEF MembersInvariant, Collide
<1>6. PollRow(c, x)'
  BY <1>3, <1>4, PollStays
<1> QED
  BY <1>1, <1>4, <1>5, <1>6, RowsWritten

(* A refresh changes nothing of a row but its status.                      *)
SameButStatus(m, z) ==
    /\ z.who = m.who /\ z.rollup = m.rollup /\ z.by = m.by /\ z.at = m.at /\ z.index = m.index
    /\ MemberRow(m) => MemberRow(z)

LEMMA RefreshFacts ==
    ASSUME NEW R, IsFiniteSet(R), \A m \in R : MemberRow(m), NEW n
    PROVE  /\ IsFiniteSet(Refreshed(R, n))
           /\ \A m \in R : \E z \in Refreshed(R, n) : SameButStatus(m, z)
           /\ \A z \in Refreshed(R, n) : \E m \in R :
                SameButStatus(m, z) /\ z = [m EXCEPT !.status = StatusOf(m, n)]
<1> DEFINE f == [m \in R |-> [m EXCEPT !.status = StatusOf(m, n)]]
<1>1. IsFiniteSet(Refreshed(R, n))
  <2>1. Refreshed(R, n) \subseteq {f[m] : m \in R}
    BY DEF Refreshed
  <2> HIDE DEF f
  <2> QED
    BY <2>1, ImageIsFinite
<1>2. ASSUME NEW m \in R PROVE SameButStatus(m, [m EXCEPT !.status = StatusOf(m, n)])
  <2>1. MemberRow(m)
    OBVIOUS
  <2>2. StatusOf(m, n) \in {"active", "migrated", "exiting", "exited"}
    BY <2>1 DEF StatusOf, MemberRow
  <2> QED
    BY <2>1, <2>2 DEF SameButStatus, MemberRow
<1> QED
  BY <1>1, <1>2 DEF Refreshed

LEMMA RefreshKeepsMembers ==
    ASSUME MembershipInvariant, NEW c \in Syncers, RefreshStatus(c)
    PROVE  MembershipInvariant'
<1> PICK x : x = Stage("saving", {}, memberPoll[c].upto)
  OBVIOUS
<1>1. /\ UNCHANGED <<limits, history, height, withdrawn, registry, directory, listing, memberCursor>>
      /\ Moved(c, x) /\ members' = Refreshed(members, height)
  BY DEF RefreshStatus, chainVars, sharedVars
<1>2. PollRow(c, x) /\ height \in Nat
  BY PollFactsOf DEF PollRow, Stage
<1>3. /\ IsFiniteSet(members')
      /\ \A m \in members : \E z \in members' : SameButStatus(m, z)
      /\ \A z \in members' : \E m \in members :
            SameButStatus(m, z) /\ z = [m EXCEPT !.status = StatusOf(m, height)]
  BY <1>1, RefreshFacts DEF MembershipInvariant, MembersInvariant
<1>4. DepositsStay
  BY <1>1, <1>2, <1>3 DEF DepositsStay, SameButStatus
<1>5. MembersInvariant'
  <2>1. ASSUME NEW z \in members' PROVE MemberRow(z)' /\ Justified(z)'
    <3>1. PICK m \in members : SameButStatus(m, z)
      BY <1>3
    <3>2. MemberRow(m) /\ MemberRow(z) /\ Justified(z)
      BY <3>1 DEF MembershipInvariant, MembersInvariant, SameButStatus, Justified
    <3> QED
      BY <1>2, <1>4, <3>2, JustifiedStays
  <2>2. ASSUME NEW z \in members', NEW y \in members', Collide(z, y) PROVE z = y \/ z.index = 0
    <3>1. PICK m \in members :
            SameButStatus(m, z) /\ z = [m EXCEPT !.status = StatusOf(m, height)]
      BY <1>3
    <3>2. PICK n \in members :
            SameButStatus(n, y) /\ y = [n EXCEPT !.status = StatusOf(n, height)]
      BY <1>3
    <3>3. m = n \/ m.index = 0
      BY <2>2, <3>1, <3>2 DEF MembershipInvariant, MembersInvariant, Collide, SameButStatus
    <3> QED
      BY <3>1, <3>2, <3>3 DEF SameButStatus
  <2> QED
    BY <1>3, <2>1, <2>2 DEF MembersInvariant, Collide
<1>6. PollRow(c, x)'
  BY <1>2, <1>4, PollStays
<1> QED
  BY <1>1, <1>4, <1>5, <1>6, RowsWritten

----------------------------------------------------------------------------
(* A poll that is abandoned leaves its rows as they are.                   *)
LEMMA AbandonKeepsMembers ==
    ASSUME MembershipInvariant, (\E c \in Syncers : PollThrows(c)) \/ MaterializerDies \/ CollectorDies
    PROVE  MembershipInvariant'
<1>1. PICK polls, list :
        /\ Abandon(polls, list) /\ list \in {listing, {}}
        /\ polls = [c \in Syncers |-> polls[c]]
        /\ \A c \in Syncers : polls[c] = memberPoll[c] \/ polls[c] = Resting
  <2>1. memberPoll = [c \in Syncers |-> memberPoll[c]]
    BY DEF MembershipInvariant, PollsInvariant
  <2>2. CASE \E c \in Syncers : PollThrows(c)
    <3>1. PICK c \in Syncers : Abandon([memberPoll EXCEPT ![c] = Resting], listing)
      BY <2>2 DEF PollThrows
    <3> QED
      BY <2>1, <3>1
  <2>3. CASE MaterializerDies
    BY <2>3 DEF MaterializerDies
  <2>4. CASE CollectorDies
    BY <2>1, <2>4 DEF CollectorDies
  <2> QED
    BY <2>2, <2>3, <2>4
<1>2. /\ UNCHANGED <<limits, history, height, withdrawn, registry, directory, members, memberCursor>>
      /\ memberPoll' = polls /\ listing' = list
  BY <1>1 DEF Abandon, chainVars
<1>3. height \in Nat
  BY ChainFacts DEF MembershipInvariant
<1>4. WorldInvariant'
  BY <1>1, <1>2 DEF MembershipInvariant, WorldInvariant, Events
<1>5. DepositsStay
  BY <1>2, <1>3 DEF DepositsStay
<1>6. \A c \in Syncers : PollRow(c, Resting)'
  BY <1>3, <1>5, RestingIsPoll, PollStays DEF Resting
<1>7. ASSUME NEW c \in Syncers
      PROVE  \E x : memberPoll'[c] = x /\ (x = memberPoll[c] \/ PollRow(c, x)')
  <2>1. CASE polls[c] = memberPoll[c]
    BY <1>2, <2>1
  <2>2. CASE polls[c] = Resting
    <3>1. PICK x : x = Resting
      OBVIOUS
    <3>2. PollRow(c, x)'
      BY <1>6, <3>1 DEF Resting
    <3> QED
      BY <1>2, <2>2, <3>1, <3>2
  <2> QED
    BY <1>1, <2>1, <2>2
<1> QED
  BY <1>1, <1>2, <1>3, <1>4, <1>7, MembersUntouched

(* A reset between two polls: the rows above it go, with a reorganisation, *)
(* and what is left rests on the part of the chain that stays.             *)
LEMMA ResetKeepsMembers ==
    ASSUME MembershipInvariant, NEW n \in 0 .. Len(history),
           RewindMembers(n) \/ \E h \in limits.chains : ReorganiseTo(h, n)
    PROVE  MembershipInvariant'
<1>1. /\ n < height /\ \A c \in Syncers : memberPoll[c] = Resting
      /\ memberCursor' = [c \in DOMAIN memberCursor |-> n]
      /\ UNCHANGED <<limits, directory, listing, memberPoll>>
  BY DEF RewindMembers, ReorganiseTo, ResetCursors, AllReached, chainVars, sharedVars
<1>2. Len(history) \in Nat /\ height \in Nat /\ height <= Len(history) /\ n \in Nat
  BY ChainFacts DEF MembershipInvariant, WorldInvariant
<1>3. CASE RewindMembers(n)
  <2>1. UNCHANGED <<history, height, withdrawn, registry, members>>
    BY <1>3 DEF RewindMembers, chainVars, sharedVars
  <2>2. WorldInvariant'
    BY <1>1, <1>2, <2>1 DEF MembershipInvariant, WorldInvariant, Events
  <2>3. memberPoll' = [c \in Syncers |-> memberPoll'[c]]
    BY <1>1 DEF MembershipInvariant, PollsInvariant
  <2> QED
    BY <1>1, <1>2, <2>1, <2>2, <2>3, MembersUntouched
<1>4. ASSUME NEW h \in limits.chains, ReorganiseTo(h, n) PROVE MembershipInvariant'
  <2>1. /\ history' = h /\ height' = n /\ n < Len(h)
        /\ SubSeq(h, 1, n) = SubSeq(history, 1, n)
        /\ withdrawn' = [k \in DOMAIN withdrawn |-> n]
        /\ registry' = registry \cap 1 .. n
        /\ members' = Refreshed(UpToBlock(n), n)
    BY <1>4 DEF ReorganiseTo
  <2>2. Len(h) \in Nat /\ \A p \in 1 .. n : h[p] = history[p]
    <3> DEFINE Event == [kind : {"deposit", "gse", "canonical", "initiated", "finalized"},
                         who : Attesters, rollup : Rollups, moves : BOOLEAN]
    <3>1. h \in Seq(Event) /\ history \in Seq(Event)
      BY MembershipAssumption DEF MembershipInvariant, WorldInvariant
    <3> HIDE DEF Event
    <3> QED
      BY <1>2, <2>1, <3>1
  <2>3. \A kinds, q : q \in 0 .. n => Events(kinds, q)' = Events(kinds, q)
    BY <1>2, <2>1, <2>2 DEF Events
  <2>4. ASSUME NEW p \in 1 .. n PROVE RollupOf(p)' = RollupOf(p)
    <3> PICK before : before = Events({"canonical"}, p)
      OBVIOUS
    <3>1. p \in Nat /\ p \in 0 .. n /\ history'[p] = history[p]
      BY <1>2, <2>1, <2>2
    <3>2. Events({"canonical"}, p)' = before
      BY <2>3, <3>1
    <3>3. before \subseteq 1 .. p
      BY DEF Events
    <3>4. before # {} => Latest(before) \in before
      BY <3>1, <3>3, LatestIsThere
    <3>5. before # {} => history'[Latest(before)] = history[Latest(before)]
      BY <1>2, <2>1, <2>2, <3>1, <3>3, <3>4
    <3>6. RollupOf(p) = IF ~history[p].moves THEN history[p].rollup
                        ELSE IF before = {} THEN Current ELSE history[Latest(before)].rollup
      BY DEF RollupOf
    <3>7. RollupOf(p)' = IF ~history'[p].moves THEN history'[p].rollup
                         ELSE IF before = {} THEN Current ELSE history'[Latest(before)].rollup
      <4>1. RollupOf(p)' =
                IF ~history'[p].moves THEN history'[p].rollup
                ELSE IF Events({"canonical"}, p)' = {} THEN Current
                ELSE history'[Latest(Events({"canonical"}, p)')].rollup
        BY DEF RollupOf
      <4> QED
        BY <3>2, <4>1
    <3> QED
      BY <3>1, <3>5, <3>6, <3>7
  <2>5. WorldInvariant'
    <3>1. registry' \subseteq Events({"canonical"}, n)'
      BY <1>2, <2>1, <2>2 DEF MembershipInvariant, WorldInvariant, Events
    <3> QED
      BY <1>1, <1>2, <2>1, <2>2, <3>1 DEF MembershipInvariant, WorldInvariant
  <2>6. PollsInvariant'
    <3>1. \A c \in Syncers : PollRow(c, memberPoll[c])'
      BY <1>1, <1>2, <2>1 DEF PollRow, Resting, Stage
    <3> QED
      BY <1>1, <3>1 DEF MembershipInvariant, PollsInvariant
  <2>7. /\ UpToBlock(n) \subseteq members /\ IsFiniteSet(UpToBlock(n))
        /\ \A m \in UpToBlock(n) : MemberRow(m) /\ Justified(m) /\ m.at <= n
    BY FS_Subset DEF UpToBlock, MembershipInvariant, MembersInvariant
  <2>8. /\ IsFiniteSet(members')
        /\ \A m \in UpToBlock(n) : \E z \in members' : SameButStatus(m, z)
        /\ \A z \in members' : \E m \in UpToBlock(n) :
            SameButStatus(m, z) /\ z = [m EXCEPT !.status = StatusOf(m, n)]
    BY <2>1, <2>7, RefreshFacts
  <2>9. ASSUME NEW z \in members' PROVE MemberRow(z)' /\ Justified(z)'
    <3>1. PICK m \in UpToBlock(n) : SameButStatus(m, z)
      BY <2>8
    <3>2. MemberRow(m) /\ MemberRow(z) /\ Justified(m) /\ m.at <= n /\ m \in members
      BY <2>7, <3>1 DEF SameButStatus
    <3>3. z.at \in 1 .. n /\ z.at = m.at
      BY <1>2, <3>1, <3>2 DEF MemberRow, SameButStatus
    <3>4. MemberRow(z)'
      BY <2>1, <3>2, <3>3 DEF MemberRow
    <3>5. ASSUME z.by = "migration"
          PROVE  \E d \in members' :
                    d.by = "deposit" /\ d.who = z.who /\ d.rollup # z.rollup /\ d.at < z.at
      <4>1. PICK d \in members :
                d.by = "deposit" /\ d.who = m.who /\ d.rollup # m.rollup /\ d.at < m.at
        BY <3>1, <3>2, <3>5 DEF Justified, SameButStatus
      <4>2. d.at \in Nat
        BY <1>2, <4>1 DEF MembershipInvariant, MembersInvariant, MemberRow
      <4>3. d \in UpToBlock(n)
        BY <3>2, <3>3, <4>1, <4>2 DEF UpToBlock
      <4>4. PICK e \in members' : SameButStatus(d, e)
        BY <2>8, <4>3
      <4> QED
        BY <3>1, <4>1, <4>4 DEF SameButStatus
    <3>6. Justified(z)'
      BY <1>2, <2>1, <2>2, <2>4, <3>1, <3>2, <3>3, <3>5 DEF Justified, SameButStatus
    <3> QED
      BY <3>4, <3>6
  <2>10. ASSUME NEW z \in members', NEW y \in members', Collide(z, y) PROVE z = y \/ z.index = 0
    <3>1. PICK m \in UpToBlock(n) :
            SameButStatus(m, z) /\ z = [m EXCEPT !.status = StatusOf(m, n)]
      BY <2>8
    <3>2. PICK k \in UpToBlock(n) :
            SameButStatus(k, y) /\ y = [k EXCEPT !.status = StatusOf(k, n)]
      BY <2>8
    <3>3. m = k \/ m.index = 0
      BY <2>7, <2>10, <3>1, <3>2 DEF MembershipInvariant, MembersInvariant, Collide, SameButStatus
    <3> QED
      BY <3>1, <3>2, <3>3 DEF SameButStatus
  <2>11. MembersInvariant'
    BY <2>8, <2>9, <2>10 DEF MembersInvariant, Collide
  <2> QED
    BY <2>5, <2>6, <2>11 DEF MembershipInvariant
<1> QED
  BY <1>3, <1>4

LEMMA MembersKept ==
    ASSUME MembershipInvariant, [MembershipNext]_memberVars
    PROVE  MembershipInvariant'
<1>1. ASSUME NEW c \in Syncers, MemberStep(c) PROVE MembershipInvariant'
  BY <1>1, ReadKeepsMembers, QuietStepsKeepMembers, UpsertKeepsMembers, InsertKeepsMembers,
     RefreshKeepsMembers DEF MemberStep
<1>2. CASE UNCHANGED memberVars
  <2>1. UNCHANGED <<limits, history, height, withdrawn, registry, directory, listing, members,
                    memberCursor, memberPoll>>
    BY <1>2 DEF memberVars, chainVars, sharedVars
  <2>2. WorldInvariant'
    BY <2>1 DEF MembershipInvariant, WorldInvariant, Events
  <2>3. height \in Nat /\ memberPoll' = [c \in Syncers |-> memberPoll'[c]]
    BY <2>1, ChainFacts DEF MembershipInvariant, PollsInvariant
  <2> QED
    BY <2>1, <2>2, <2>3, MembersUntouched
<1> QED
  BY <1>1, <1>2, WorldKeepsMembers, AbandonKeepsMembers, ResetKeepsMembers DEF MembershipNext

(* Each row of a deposit or of a migration rests on the chain as it is,    *)
(* through failed polls, deaths and reorganisations: the resolution of the *)
(* sentinel, backfillMigratedValidators and deleteAfterBlock together.     *)
THEOREM MigrationsRest == MembershipSpec => []MigrationsJustified
<1>1. MembershipInvariant => MigrationsJustified
  BY DEF MembershipInvariant, MembersInvariant, MigrationsJustified, Justified
<1> QED
  BY <1>1, MembersBegin, MembersKept, PTL DEF MembershipSpec

(* The types, and that a validator is on a rollup once.                    *)
LEMMA MembersTyped == MembershipInvariant => MembershipTypeOK
<1> SUFFICES ASSUME MembershipInvariant PROVE MembershipTypeOK
  OBVIOUS
<1>1. 0 .. height \subseteq 0 .. Len(history)
  BY ChainFacts DEF MembershipInvariant, WorldInvariant
<1> QED
  BY <1>1 DEF MembershipInvariant, WorldInvariant, MembersInvariant, MembershipTypeOK, MemberRow

(* No table has a row without a column, or twice; no validator is on a     *)
(* rollup twice: upserts look for the row that the last attempt has left.  *)
THEOREM DerivedTypes == DerivedSpec => []DerivedTypeOK
<1> DEFINE Inv == MembershipInvariant /\ ReplayedInvariant /\ TypedInvariant
<1>1. DerivedInit => Inv
  BY MembersBegin, ReplayedBegins, TypedBegins DEF DerivedInit
<1>2. Inv /\ [DerivedNext]_<<memberVars, tableVars>> => Inv'
  <2>1. [DerivedNext]_<<memberVars, tableVars>> =>
            [MembershipNext]_memberVars /\ [TablesNext]_tableVars
    BY DEF DerivedNext
  <2> QED
    BY <2>1, MembersKept, ReplayedKept, TypedKept
<1>3. Inv => DerivedTypeOK
  BY MembersTyped, TablesTyped DEF DerivedTypeOK
<1> QED
  BY <1>1, <1>2, <1>3, PTL DEF DerivedSpec

=============================================================================
