---------------------------- MODULE CollectorProofs ----------------------------
(***************************************************************************)
(* What the flag of BaseCollector guarantees for any number of collectors  *)
(* and runs, that the collectors of the epochs keep to it, what it does    *)
(* for the statuses they save, and what a full score says of an epoch.     *)
(***************************************************************************)
EXTENDS EpochStats, FiniteSetTheorems, TLAPS

(* Each flag follows its runs: while no error was awaited, the flag is set *)
(* exactly while there is a run, and there is at most one.                 *)
FlagFollowsRuns ==
    \A c \in Collectors : ~awaited[c] =>
        /\ \A r \in Runs : phase[c][r] # "reporting"
        /\ ~isRunning[c] => InProgress(c) = {}

CollectorInvariant ==
    /\ CollectorTypeOK
    /\ FlagFollowsRuns
    /\ NoOverlapUnlessAwaited

LEMMA CollectorBegins == CollectorInit => CollectorInvariant
  BY DEF CollectorInit, CollectorInvariant, CollectorTypeOK, FlagFollowsRuns,
         NoOverlapUnlessAwaited, InProgress

LEMMA CollectorStep ==
    ASSUME CollectorInvariant, [CollectorNext]_collectorVars
    PROVE  CollectorInvariant'
<1> USE DEF CollectorInvariant, CollectorTypeOK, FlagFollowsRuns, NoOverlapUnlessAwaited, InProgress
<1>1. ASSUME NEW c \in Collectors, NEW r \in Runs, StartRun(c, r) PROVE CollectorInvariant'
  BY <1>1 DEF StartRun
<1>2. ASSUME NEW c \in Collectors, NEW r \in Runs, RecordSuccess(c, r) PROVE CollectorInvariant'
  BY <1>2 DEF RecordSuccess, Collecting
<1>3. ASSUME NEW c \in Collectors, NEW r \in Runs, RecordError(c, r) PROVE CollectorInvariant'
  BY <1>3 DEF RecordError, Collecting
<1>4. ASSUME NEW c \in Collectors, NEW r \in Runs, ErrorReported(c, r) PROVE CollectorInvariant'
  BY <1>4 DEF ErrorReported
<1>5. ASSUME RestartCollectors PROVE CollectorInvariant'
  BY <1>5 DEF RestartCollectors
<1>6. ASSUME UNCHANGED collectorVars PROVE CollectorInvariant'
  BY <1>6 DEF collectorVars
<1> QED
  BY <1>1, <1>2, <1>3, <1>4, <1>5, <1>6 DEF CollectorNext

(* FlagHasRun on its own: every step that sets the flag leaves a run       *)
(* collecting, and every step that ends one clears the flag.               *)
LEMMA FlagStep ==
    ASSUME CollectorTypeOK, FlagHasRun, [CollectorNext]_collectorVars
    PROVE  FlagHasRun'
<1> USE DEF CollectorTypeOK, FlagHasRun, Collecting
<1>1. ASSUME NEW c \in Collectors, NEW r \in Runs,
             StartRun(c, r) \/ RecordSuccess(c, r) \/ RecordError(c, r) \/ ErrorReported(c, r)
      PROVE  FlagHasRun'
  BY <1>1 DEF StartRun, RecordSuccess, RecordError, ErrorReported
<1>2. ASSUME RestartCollectors PROVE FlagHasRun'
  BY <1>2 DEF RestartCollectors
<1>3. ASSUME UNCHANGED collectorVars PROVE FlagHasRun'
  BY <1>3 DEF collectorVars
<1> QED
  BY <1>1, <1>2, <1>3 DEF CollectorNext

(* Runs of one collector overlap only after an error that it awaited.      *)
THEOREM NoOverlap == CollectorSpec => []NoOverlapUnlessAwaited
<1>1. CollectorInvariant => NoOverlapUnlessAwaited
  BY DEF CollectorInvariant
<1> QED
  BY <1>1, CollectorBegins, CollectorStep, PTL DEF CollectorSpec

(* No collector is skipped for ever: a set flag belongs to a run.          *)
THEOREM FlagIsCleared == CollectorSpec => []FlagHasRun
<1>1. CollectorInit => FlagHasRun
  BY DEF CollectorInit, FlagHasRun
<1>2. CollectorInvariant => CollectorTypeOK
  BY DEF CollectorInvariant
<1> QED
  BY <1>1, <1>2, CollectorBegins, CollectorStep, FlagStep, PTL DEF CollectorSpec

----------------------------------------------------------------------------
(* Every step of the three collectors is a step of the flag or leaves it   *)
(* alone.                                                                  *)
LEMMA EpochStepIsCollectorStep ==
    ASSUME [EpochNext]_epochVars
    PROVE  [CollectorNext]_collectorVars
<1>1. ASSUME NEW c \in Collectors, NEW r \in Runs, Start(c, r) \/ Fail(c, r) \/ RunStep(c, r)
      PROVE  [CollectorNext]_collectorVars
  <2>1. CASE Start(c, r) \/ Fail(c, r)
    BY <2>1 DEF Start, Fail, CollectorNext
  <2>2. CASE Finish(c, r) \/ Report(c, r)
    BY <2>2 DEF Finish, Report, CollectorNext
  <2>3. CASE \/ c = "stats" /\ Ask(r, {})
             \/ c = "aggregates" /\ ListMembers(r)
             \/ c = "integrity" /\ Analyze(r)
             \/ \E v \in epoch.committee : ReadStatuses(c, r, v)
             \/ ReadCounts(c, r)
    BY <2>3 DEF Ask, ListMembers, Analyze, ReadStatuses, ReadCounts
  <2>4. CASE \E w \in WritesOf(c, r) : UpsertCounts(w) \/ UpdateTotals(w) \/ SaveScore(w)
    BY <2>4 DEF UpsertCounts, UpdateTotals, SaveScore, runVars
  <2> QED
    BY <1>1, <2>1, <2>2, <2>3, <2>4 DEF RunStep
<1>2. ASSUME NEW c \in Collectors, NEW r \in Runs, NEW v, MemberFails(c, r, v)
      PROVE  UNCHANGED collectorVars
  BY <1>2 DEF MemberFails
<1>3. ASSUME NEW r, NEW lost, Ask(r, lost)
      PROVE  UNCHANGED collectorVars
  BY <1>3 DEF Ask
<1>4. ASSUME NEW s, SaveStep(s)
      PROVE  UNCHANGED collectorVars
  BY <1>4 DEF SaveStep, SaveChecks, SaveWrites, runVars
<1>5. ASSUME NEW w, WriteFails(w)
      PROVE  UNCHANGED collectorVars
  BY <1>5 DEF WriteFails, runVars
<1>6. ASSUME NEW d, NEW s, NodeRecords(d, s)
      PROVE  UNCHANGED collectorVars
  BY <1>6 DEF NodeRecords, runVars
<1>7. CASE EpochPasses \/ Replicate \/ UNCHANGED epochVars
  BY <1>7 DEF EpochPasses, Replicate, epochVars, runVars
<1>8. CASE Restart
  BY <1>8 DEF Restart, CollectorNext
<1> QED
  BY <1>1, <1>2, <1>3, <1>4, <1>5, <1>6, <1>7, <1>8 DEF EpochNext

(* The collectors of the epochs run within the flag's protocol.            *)
THEOREM EpochsImplementCollectors == EpochSpec => CollectorSpec
<1>1. EpochInit => CollectorInit
  BY DEF EpochInit
<1> QED
  BY <1>1, EpochStepIsCollectorStep, PTL DEF EpochSpec, CollectorSpec

(* So the two properties of the flag hold of them, as the run checks.      *)
THEOREM EpochRunsKeepFlag == EpochSpec => [](NoOverlapUnlessAwaited /\ FlagHasRun)
  BY EpochsImplementCollectors, NoOverlap, FlagIsCleared, PTL

----------------------------------------------------------------------------
(* The rounding of the score forgives no missing block in an epoch of less *)
(* than sixty slots, and no member of a committee that is too large.       *)
LEMMA PenaltyBounds ==
    ASSUME NEW slots \in Nat \ {0}, NEW expected \in Nat \ {0}, NEW validators \in Nat,
           NEW blocks \in Nat, NEW present \in Nat, NEW attestations \in Nat,
           NEW missedBlocks \in Nat
    PROVE  Penalty(slots, expected, validators, blocks, present, attestations, missedBlocks)
             >= 30 * (expected * Distance(blocks, slots))
             + IF validators > expected THEN 40 * (slots * expected) ELSE 0
<1> DEFINE wanted == present * (expected - 1)
           absent == IF validators < expected THEN expected - validators ELSE 0
<1>1. wanted \in Int /\ absent \in Nat /\ slots * expected \in Nat
  OBVIOUS
<1>2. Distance(attestations, wanted) \in Nat /\ Distance(blocks, slots) \in Nat
  BY <1>1 DEF Distance
<1>3. slots * absent \in Nat /\ expected * Distance(blocks, slots) \in Nat
  BY <1>1, <1>2
<1>4. /\ 20 * slots * absent = 20 * (slots * absent)
      /\ 30 * expected * Distance(blocks, slots) = 30 * (expected * Distance(blocks, slots))
      /\ 40 * slots * expected = 40 * (slots * expected)
  BY <1>1, <1>2
<1> HIDE DEF wanted, absent
<1> QED
  BY <1>1, <1>2, <1>3, <1>4 DEF Penalty, wanted, absent

THEOREM FullScoreMissesNoBlock ==
    ASSUME NEW slots \in 1 .. 59, NEW expected \in Nat \ {0}, NEW validators \in Nat,
           NEW blocks \in Nat, NEW present \in Nat, NEW attestations \in Nat,
           NEW missedBlocks \in Nat,
           FullScore(slots, expected, validators, blocks, present, attestations, missedBlocks)
    PROVE  blocks = slots /\ validators <= expected
<1> DEFINE gap == Distance(blocks, slots)
           extra == IF validators > expected THEN 40 * (slots * expected) ELSE 0
           penalty == Penalty(slots, expected, validators, blocks, present, attestations,
                              missedBlocks)
<1>1. slots * expected \in Nat \ {0} /\ gap \in Nat /\ expected * gap \in Nat
  BY DEF Distance
<1>2. penalty \in Int
  BY DEF Penalty, Distance
<1>3. penalty >= 30 * (expected * gap) + extra
  <2>1. slots \in Nat \ {0}
    OBVIOUS
  <2> QED
    BY <2>1, PenaltyBounds, Zenon
<1>4. 2 * penalty <= slots * expected
  BY DEF FullScore
<1>5. extra = 0
  <2> HIDE DEF gap, penalty
  <2> QED
    BY <1>1, <1>2, <1>3, <1>4
<1>6. 60 * (expected * gap) <= slots * expected
  <2> HIDE DEF gap, penalty, extra
  <2> QED
    BY <1>1, <1>2, <1>3, <1>4, <1>5
<1>7. gap = 0
  <2>1. SUFFICES ASSUME gap >= 1 PROVE FALSE
    BY <1>1
  <2> HIDE DEF gap
  <2>2. expected * gap >= expected
    BY <1>1, <2>1
  <2>3. slots * expected <= 59 * expected
    OBVIOUS
  <2> QED
    BY <1>1, <1>6, <2>2, <2>3
<1> QED
  BY <1>1, <1>5, <1>7 DEF Distance

----------------------------------------------------------------------------
(* A status that a run has fetched may be written late.  What keeps it     *)
(* from replacing a newer one is that a run waits for its saves: those of  *)
(* a validator it still waits for, and of no other, are its own, and while *)
(* runs do not overlap no newer status of the same duty can be about.      *)
Statuses == BlockStatus \cup AttestationStatus \cup {None}
Saves == [run : Runs \cup {"stray"}, duty : epoch.duties, status : Statuses, checked : BOOLEAN]
ProgressRows ==
    [stage : {"none", "begun", "members", "summing"}, todo : SUBSET epoch.committee,
     touched : BOOLEAN]

EpochTypeOK ==
    /\ epoch \in Deployments
    /\ node \in [epoch.duties -> Statuses]
    /\ "statuses" \in DOMAIN store /\ store.statuses \in [epoch.duties -> Statuses]
    /\ saves \subseteq Saves
    /\ progress \in [Collectors -> [Runs -> ProgressRows]]

(* A block is only taken for mined when the node says so.                  *)
MinedIsMined ==
    /\ \A d \in epoch.duties : store.statuses[d] = "mined" => node[d] = "mined"
    /\ \A s \in saves : s.status = "mined" => node[s.duty] = "mined"
SavesAwaited ==
    \A s \in saves : s.run # "stray" =>
        /\ At("stats", s.run, "members")
        /\ s.duty.who \in progress["stats"][s.run].todo
NothingNewer ==
    ~awaited["stats"] =>
        \A s \in saves : s.run # "stray" /\ s.status # "mined" =>
            /\ store.statuses[s.duty] # "mined"
            /\ \A z \in saves : z.duty = s.duty => z.status # "mined"
SaveInvariant == EpochTypeOK /\ MinedIsMined /\ SavesAwaited /\ NothingNewer

(* Steps that leave alone what the invariant is about.                     *)
LEMMA SavesUntouched ==
    ASSUME SaveInvariant, UNCHANGED <<epoch, node, saves>>,
           awaited["stats"] => awaited'["stats"],
           "statuses" \in DOMAIN store', store'.statuses = store.statuses,
           progress' \in [Collectors -> [Runs -> ProgressRows]],
           \A s \in saves : s.run # "stray" =>
                /\ phase'["stats"][s.run] = phase["stats"][s.run]
                /\ progress'["stats"][s.run].stage = progress["stats"][s.run].stage
                /\ s.duty.who \in progress'["stats"][s.run].todo
    PROVE  SaveInvariant'
<1>1. EpochTypeOK'
  BY DEF SaveInvariant, EpochTypeOK, Saves, ProgressRows
<1>2. MinedIsMined'
  BY DEF SaveInvariant, MinedIsMined
<1>3. SavesAwaited'
  BY DEF SaveInvariant, SavesAwaited, At, Collecting
<1>4. NothingNewer'
  BY DEF SaveInvariant, NothingNewer
<1> QED
  BY <1>1, <1>2, <1>3, <1>4 DEF SaveInvariant

LEMMA NodeKeepsSaves ==
    ASSUME SaveInvariant, NEW d \in epoch.duties, NEW s \in BlockStatus \cup AttestationStatus,
           NodeRecords(d, s)
    PROVE  SaveInvariant'
<1>1. /\ UNCHANGED <<epoch, store, saves, progress, phase, awaited>>
      /\ node' = [node EXCEPT ![d] = s] /\ node[d] # "mined"
  BY DEF NodeRecords, runVars, callVars, epochAt, collectorVars, None
<1>2. EpochTypeOK'
  BY <1>1 DEF SaveInvariant, EpochTypeOK, Saves, ProgressRows, Statuses
<1>3. MinedIsMined'
  BY <1>1 DEF SaveInvariant, MinedIsMined, EpochTypeOK
<1>4. SavesAwaited' /\ NothingNewer'
  BY <1>1 DEF SaveInvariant, SavesAwaited, NothingNewer, At, Collecting
<1> QED
  BY <1>2, <1>3, <1>4 DEF SaveInvariant

LEMMA AskKeepsSaves ==
    ASSUME SaveInvariant, CollectorInvariant, NEW r \in Runs, NEW lost, Ask(r, lost)
    PROVE  SaveInvariant'
<1> DEFINE known == {d \in epoch.duties : ~past /\ node[d] # None /\ d.who \notin lost}
           fresh == {[run |-> r, duty |-> d, status |-> node[d], checked |-> FALSE] : d \in known}
           row == [stage |-> "members", todo |-> {d.who : d \in known}, touched |-> FALSE]
<1>1. /\ UNCHANGED <<epoch, node, store, phase, awaited>> /\ At("stats", r, "begun")
      /\ saves' = saves \cup fresh
      /\ progress' = [progress EXCEPT !["stats"][r] = row]
  BY DEF Ask, Move, epochAt, collectorVars
<1>2. "stats" \in Collectors /\ \A d \in epoch.duties : d.who \in epoch.committee
  BY EpochAssumption DEF SaveInvariant, EpochTypeOK
<1>3. row \in ProgressRows /\ row.stage = "members" /\ row.todo = {d.who : d \in known}
  BY <1>2 DEF ProgressRows
<1>4. \A s \in fresh : /\ s.run = r /\ s.duty \in known /\ s.status = node[s.duty]
                       /\ s \in Saves
  <2> SUFFICES ASSUME NEW d \in known
               PROVE  [run |-> r, duty |-> d, status |-> node[d], checked |-> FALSE] \in Saves
    OBVIOUS
  <2>1. d \in epoch.duties /\ node[d] \in Statuses
    BY DEF SaveInvariant, EpochTypeOK
  <2> QED
    BY <2>1 DEF Saves
<1>5. known \subseteq epoch.duties
  OBVIOUS
<1> HIDE DEF known, fresh, row
<1>6. progress' \in [Collectors -> [Runs -> ProgressRows]]
      /\ progress'["stats"][r] = row
      /\ \A q \in Runs : q # r => progress'["stats"][q] = progress["stats"][q]
  BY <1>1, <1>2, <1>3 DEF SaveInvariant, EpochTypeOK
<1>7. EpochTypeOK'
  BY <1>1, <1>4, <1>6 DEF SaveInvariant, EpochTypeOK, Saves, ProgressRows
<1>8. MinedIsMined'
  BY <1>1, <1>4, <1>5 DEF SaveInvariant, MinedIsMined
<1>9. \A s \in saves : s.run # "stray" => s.run # r /\ s.run \in Runs
  BY <1>1 DEF SaveInvariant, SavesAwaited, EpochTypeOK, Saves, At
<1>10. SavesAwaited'
  <2> SUFFICES ASSUME NEW s \in saves', s.run # "stray"
               PROVE  /\ At("stats", s.run, "members")'
                      /\ s.duty.who \in progress'["stats"][s.run].todo
    BY DEF SavesAwaited
  <2>1. CASE s \in saves
    BY <1>1, <1>6, <1>9, <2>1 DEF SaveInvariant, SavesAwaited, At, Collecting
  <2>2. CASE s \in fresh
    BY <1>1, <1>3, <1>4, <1>6, <2>2 DEF At, Collecting
  <2> QED
    BY <1>1, <2>1, <2>2
<1>11. NothingNewer'
  <2> SUFFICES ASSUME ~awaited["stats"], NEW s \in saves', s.run # "stray", s.status # "mined"
               PROVE  /\ store.statuses[s.duty] # "mined"
                      /\ \A z \in saves' : z.duty = s.duty => z.status # "mined"
    BY <1>1 DEF NothingNewer
  <2>1. s \in fresh
    <3>1. ASSUME s \in saves PROVE FALSE
      <4>1. s.run \in InProgress("stats") /\ r \in InProgress("stats") /\ s.run # r
        BY <1>1, <1>9, <3>1 DEF InProgress, At, Collecting, SaveInvariant, SavesAwaited
      <4> QED
        BY <1>2, <4>1 DEF CollectorInvariant, NoOverlapUnlessAwaited
    <3> QED
      BY <1>1, <3>1
  <2>2. node[s.duty] # "mined" /\ s.duty \in epoch.duties
    BY <1>4, <1>5, <2>1
  <2> QED
    BY <1>1, <1>4, <2>2 DEF SaveInvariant, MinedIsMined
<1> QED
  BY <1>7, <1>8, <1>10, <1>11 DEF SaveInvariant

LEMMA SaveKeepsSaves ==
    ASSUME SaveInvariant, NEW s \in saves, SaveStep(s)
    PROVE  SaveInvariant'
<1>1. UNCHANGED <<epoch, node, progress, phase, awaited>>
  BY DEF SaveStep, SaveChecks, SaveWrites, runVars, epochAt, collectorVars
<1>2. s \in Saves
  BY DEF SaveInvariant, EpochTypeOK
<1>3. CASE SaveChecks(s)
  <2> DEFINE z == [s EXCEPT !.checked = TRUE]
  <2>1. z \in Saves /\ z.run = s.run /\ z.duty = s.duty /\ z.status = s.status
    BY <1>2 DEF Saves
  <2>2. saves' \subseteq saves \cup {z} /\ store' = store
    BY <1>3 DEF SaveChecks
  <2> HIDE DEF z
  <2>3. EpochTypeOK'
    BY <1>1, <2>1, <2>2 DEF SaveInvariant, EpochTypeOK, Saves, ProgressRows
  <2>4. MinedIsMined'
    BY <1>1, <2>1, <2>2 DEF SaveInvariant, MinedIsMined
  <2>5. SavesAwaited'
    BY <1>1, <2>1, <2>2 DEF SaveInvariant, SavesAwaited, At, Collecting
  <2>6. NothingNewer'
    BY <1>1, <2>1, <2>2 DEF SaveInvariant, NothingNewer
  <2> QED
    BY <2>3, <2>4, <2>5, <2>6 DEF SaveInvariant
<1>4. CASE SaveWrites(s)
  <2>1. saves' \subseteq saves /\ store' = [store EXCEPT !.statuses[s.duty] = s.status]
    BY <1>4 DEF SaveWrites
  <2>2. s.duty \in epoch.duties /\ s.status \in Statuses
    BY <1>2 DEF Saves
  <2>3. /\ "statuses" \in DOMAIN store' /\ store'.statuses \in [epoch.duties -> Statuses]
        /\ \A d \in epoch.duties :
            store'.statuses[d] = IF d = s.duty THEN s.status ELSE store.statuses[d]
    BY <2>1, <2>2 DEF SaveInvariant, EpochTypeOK
  <2>4. EpochTypeOK'
    BY <1>1, <2>1, <2>3 DEF SaveInvariant, EpochTypeOK, Saves, ProgressRows
  <2>5. MinedIsMined'
    BY <1>1, <2>1, <2>3 DEF SaveInvariant, MinedIsMined
  <2>6. SavesAwaited'
    BY <1>1, <2>1 DEF SaveInvariant, SavesAwaited, At, Collecting
  <2>7. \A z \in saves : z.duty \in epoch.duties
    BY DEF SaveInvariant, EpochTypeOK, Saves
  <2>8. NothingNewer'
    BY <1>1, <2>1, <2>3, <2>7 DEF SaveInvariant, NothingNewer
  <2> QED
    BY <2>4, <2>5, <2>6, <2>8 DEF SaveInvariant
<1> QED
  BY <1>3, <1>4 DEF SaveStep

(* What a run's own step leaves of the other runs.                         *)
LEMMA MoveKeepsOthers ==
    ASSUME SaveInvariant, NEW c \in Collectors, NEW r \in Runs,
           NEW row \in ProgressRows, Move(c, r, row)
    PROVE  /\ progress' \in [Collectors -> [Runs -> ProgressRows]]
           /\ progress'[c][r] = row
           /\ \A b \in Collectors, q \in Runs :
                b # c \/ q # r => progress'[b][q] = progress[b][q]
  BY DEF Move, SaveInvariant, EpochTypeOK

(* A run that is not collecting, or waits for nobody, has nothing to save. *)
LEMMA NothingToSave ==
    ASSUME SaveInvariant, NEW r \in Runs,
           \/ phase["stats"][r] # "collecting"
           \/ progress["stats"][r].stage # "members"
           \/ progress["stats"][r].todo = {}
    PROVE  \A s \in saves : s.run # "stray" => s.run # r
  BY DEF SaveInvariant, SavesAwaited, At, Collecting

(* The steps that start and end a run.                                     *)
LEMMA FlagKeepsSaves ==
    ASSUME SaveInvariant, CollectorInvariant, NEW c \in Collectors, NEW r \in Runs,
           Start(c, r) \/ Finish(c, r) \/ Fail(c, r) \/ Report(c, r)
    PROVE  SaveInvariant'
<1>1. /\ UNCHANGED <<epoch, node, store, saves>>
      /\ awaited["stats"] => awaited'["stats"]
      /\ \A b \in Collectors, q \in Runs : b # c \/ q # r => phase'[b][q] = phase[b][q]
  BY EpochAssumption
     DEF Start, Finish, Fail, Report, StartRun, RecordSuccess, RecordError, ErrorReported,
         epochAt, callVars, CollectorInvariant, CollectorTypeOK
<1>2. c = "stats" => \A s \in saves : s.run # "stray" => s.run # r
  <2>1. c = "stats" => \/ phase["stats"][r] # "collecting"
                       \/ progress["stats"][r].stage # "members"
                       \/ progress["stats"][r].todo = {}
    BY DEF Start, Finish, Fail, Report, StartRun, ErrorReported, At, Settled
  <2> QED
    BY <2>1, NothingToSave
<1>3. /\ progress' \in [Collectors -> [Runs -> ProgressRows]]
      /\ \A b \in Collectors, q \in Runs : b # c \/ q # r => progress'[b][q] = progress[b][q]
  <2>1. NotRunning \in ProgressRows /\ Begun \in ProgressRows
    BY DEF NotRunning, Begun, ProgressRows
  <2>2. Move(c, r, NotRunning) \/ Move(c, r, Begun) \/ progress' = progress
    BY DEF Start, Finish, Fail, Report
  <2>3. progress \in [Collectors -> [Runs -> ProgressRows]]
    BY DEF SaveInvariant, EpochTypeOK
  <2> QED
    BY <2>1, <2>2, <2>3, MoveKeepsOthers
<1>4. \A s \in saves : s.run # "stray" => s.run \in Runs
  BY DEF SaveInvariant, EpochTypeOK, Saves
<1>5. \A s \in saves : s.run # "stray" =>
            /\ phase'["stats"][s.run] = phase["stats"][s.run]
            /\ progress'["stats"][s.run] = progress["stats"][s.run]
            /\ s.duty.who \in progress["stats"][s.run].todo
  BY <1>1, <1>2, <1>3, <1>4, EpochAssumption DEF SaveInvariant, SavesAwaited
<1>6. "statuses" \in DOMAIN store' /\ store'.statuses = store.statuses
  BY <1>1 DEF SaveInvariant, EpochTypeOK
<1> QED
  BY <1>1, <1>3, <1>5, <1>6, SavesUntouched

(* The other steps of a run: it reads, counts and sums.                    *)
LEMMA RunKeepsSaves ==
    ASSUME SaveInvariant, NEW c \in Collectors, NEW r \in Runs,
           \/ c = "aggregates" /\ ListMembers(r)
           \/ c = "integrity" /\ Analyze(r)
           \/ \E v \in epoch.committee : ReadStatuses(c, r, v)
           \/ ReadCounts(c, r)
           \/ \E w \in WritesOf(c, r) : UpsertCounts(w) \/ UpdateTotals(w) \/ SaveScore(w)
    PROVE  SaveInvariant'
<1> DEFINE known == {d.who : d \in {x \in epoch.duties : Seen.statuses[x] # None}}
<1>1. /\ UNCHANGED <<epoch, node, saves, phase, awaited>>
      /\ "statuses" \in DOMAIN store' /\ store'.statuses = store.statuses
  <2>1. UNCHANGED <<epoch, node, saves, phase, awaited>>
    BY DEF ListMembers, Analyze, ReadStatuses, ReadCounts, UpsertCounts, UpdateTotals,
           SaveScore, collectorVars, callVars, runVars, epochAt
  <2>2. \/ store' = store
        \/ \E value : \/ store' = [store EXCEPT !.counts = value]
                      \/ store' = [store EXCEPT !.totals = value]
                      \/ store' = [store EXCEPT !.full = value]
    BY DEF ListMembers, Analyze, ReadStatuses, ReadCounts, UpsertCounts, UpdateTotals,
           SaveScore
  <2> QED
    BY <2>1, <2>2 DEF SaveInvariant, EpochTypeOK
<1>2. progress[c][r] \in ProgressRows /\ \A d \in epoch.duties : d.who \in epoch.committee
  BY EpochAssumption DEF SaveInvariant, EpochTypeOK
<1>3. SUFFICES ASSUME progress' # progress
               PROVE  \E row \in ProgressRows :
                        /\ Move(c, r, row)
                        /\ c = "stats" =>
                            \A s \in saves : s.run = r /\ s.run # "stray" =>
                                /\ row.stage = progress[c][r].stage
                                /\ s.duty.who \in row.todo
  <2>1. /\ progress' \in [Collectors -> [Runs -> ProgressRows]]
        /\ \A s \in saves : s.run # "stray" =>
            /\ progress'["stats"][s.run].stage = progress["stats"][s.run].stage
            /\ s.duty.who \in progress'["stats"][s.run].todo
    <3>1. CASE progress' = progress
      BY <3>1 DEF SaveInvariant, EpochTypeOK, SavesAwaited
    <3>2. CASE progress' # progress
      <4>1. PICK row \in ProgressRows :
                /\ Move(c, r, row)
                /\ c = "stats" =>
                    \A s \in saves : s.run = r /\ s.run # "stray" =>
                        /\ row.stage = progress[c][r].stage
                        /\ s.duty.who \in row.todo
        BY <1>3, <3>2
      <4>2. \A s \in saves : s.run # "stray" =>
                s.run \in Runs /\ s.duty.who \in progress["stats"][s.run].todo
        BY DEF SaveInvariant, EpochTypeOK, SavesAwaited, Saves
      <4> QED
        BY <4>1, <4>2, MoveKeepsOthers, EpochAssumption
    <3> QED
      BY <3>1, <3>2
  <2> QED
    BY <1>1, <2>1, SavesUntouched
<1>4. CASE c = "aggregates" /\ ListMembers(r)
  <2>1. known \subseteq epoch.committee
    BY <1>2
  <2> HIDE DEF known
  <2>2. [stage |-> "members", todo |-> known, touched |-> known # {}] \in ProgressRows
    BY <2>1 DEF ProgressRows
  <2>3. Move(c, r, [stage |-> "members", todo |-> known, touched |-> known # {}])
    BY <1>4 DEF ListMembers, known
  <2> QED
    BY <1>4, <2>2, <2>3
<1>5. CASE c = "integrity" /\ Analyze(r)
  <2>1. [Begun EXCEPT !.stage = "summing"] \in ProgressRows
    BY DEF Begun, ProgressRows
  <2> QED
    BY <1>5, <2>1 DEF Analyze
<1>6. ASSUME NEW v \in epoch.committee, ReadStatuses(c, r, v)
      PROVE  \E row \in ProgressRows :
                /\ Move(c, r, row)
                /\ c = "stats" =>
                    \A s \in saves : s.run = r /\ s.run # "stray" =>
                        /\ row.stage = progress[c][r].stage
                        /\ s.duty.who \in row.todo
  <2> DEFINE row == [progress[c][r] EXCEPT !.todo = @ \ {v}]
  <2>1. /\ row \in ProgressRows /\ row.stage = progress[c][r].stage
        /\ row.todo = progress[c][r].todo \ {v}
    BY <1>2 DEF ProgressRows
  <2>2. Move(c, r, row) /\ (c = "stats" => SavesOf(r, v) = {})
    BY <1>6 DEF ReadStatuses
  <2> HIDE DEF row
  <2> QED
    BY <2>1, <2>2 DEF SavesOf, SaveInvariant, SavesAwaited
<1>7. CASE ReadCounts(c, r)
  <2>1. [progress[c][r] EXCEPT !.stage = "summing"] \in ProgressRows
    BY <1>2 DEF ProgressRows
  <2>2. Move(c, r, [progress[c][r] EXCEPT !.stage = "summing"]) /\ progress[c][r].todo = {}
    BY <1>7 DEF ReadCounts, Settled
  <2> QED
    BY <2>1, <2>2, NothingToSave
<1>8. ASSUME NEW w \in WritesOf(c, r), UpsertCounts(w)
      PROVE  \E row \in ProgressRows :
                /\ Move(c, r, row)
                /\ c = "stats" =>
                    \A s \in saves : s.run = r /\ s.run # "stray" =>
                        /\ row.stage = progress[c][r].stage
                        /\ s.duty.who \in row.todo
  <2> DEFINE row == [progress[c][r] EXCEPT !.touched = TRUE]
  <2>1. /\ row \in ProgressRows /\ row.stage = progress[c][r].stage
        /\ row.todo = progress[c][r].todo
    BY <1>2 DEF ProgressRows
  <2>2. Move(c, r, row)
    BY <1>8 DEF UpsertCounts, WritesOf
  <2> HIDE DEF row
  <2> QED
    BY <2>1, <2>2 DEF SaveInvariant, SavesAwaited
<1>9. ASSUME NEW w, UpdateTotals(w) \/ SaveScore(w) PROVE progress' = progress
  BY <1>9 DEF UpdateTotals, SaveScore, runVars
<1> QED
  BY <1>3, <1>4, <1>5, <1>6, <1>7, <1>8, <1>9

(* A failed call of a validator: its other saves go on by themselves, and  *)
(* the run waits for the validator no longer.                              *)
LEMMA FailKeepsSaves ==
    ASSUME SaveInvariant, NEW c \in Collectors, NEW r \in Runs, NEW v,
           MemberFails(c, r, v)
    PROVE  SaveInvariant'
<1> DEFINE failed == IF c = "stats" THEN SavesOf(r, v) ELSE {}
           row == [progress[c][r] EXCEPT !.todo = @ \ {v}]
           Stray(s) == [s EXCEPT !.run = "stray"]
<1>1. /\ UNCHANGED <<epoch, node, store, phase, awaited>> /\ Move(c, r, row)
      /\ \/ failed = {} /\ saves' = saves
         \/ \E f \in failed : saves' = (saves \ failed) \cup {Stray(s) : s \in failed \ {f}}
  BY DEF MemberFails, collectorVars, epochAt
<1>2. \A z \in saves' : \/ z \in saves \ failed
                        \/ \E s \in failed : z = Stray(s)
  BY <1>1
<1>3. /\ row \in ProgressRows /\ row.stage = progress[c][r].stage
      /\ row.todo = progress[c][r].todo \ {v}
  <2>1. progress[c][r] \in ProgressRows
    BY DEF SaveInvariant, EpochTypeOK
  <2> QED
    BY <2>1 DEF ProgressRows
<1>4. \A s \in saves : /\ s \in Saves /\ Stray(s) \in Saves /\ Stray(s).run = "stray"
                       /\ Stray(s).duty = s.duty /\ Stray(s).status = s.status
  BY DEF SaveInvariant, EpochTypeOK, Saves
<1>5. \A s \in failed : s \in saves
  BY DEF SavesOf
<1>6. c = "stats" => \A s \in saves \ failed : s.run = r => s.duty.who # v
  BY DEF SavesOf
<1> HIDE DEF failed, row, Stray
<1>7. \A z \in saves' : z \in Saves /\
        \E s \in saves : /\ z.duty = s.duty /\ z.status = s.status
                         /\ z.run # "stray" => z = s /\ s \notin failed
  BY <1>2, <1>4, <1>5
<1>8. /\ progress' \in [Collectors -> [Runs -> ProgressRows]]
      /\ progress'[c][r] = row
      /\ \A b \in Collectors, q \in Runs : b # c \/ q # r => progress'[b][q] = progress[b][q]
  BY <1>1, <1>3, MoveKeepsOthers
<1>9. EpochTypeOK'
  BY <1>1, <1>7, <1>8 DEF SaveInvariant, EpochTypeOK, Saves, ProgressRows
<1>10. MinedIsMined'
  BY <1>1, <1>7 DEF SaveInvariant, MinedIsMined
<1>11. SavesAwaited'
  <2> SUFFICES ASSUME NEW s \in saves', s.run # "stray"
               PROVE  /\ At("stats", s.run, "members")'
                      /\ s.duty.who \in progress'["stats"][s.run].todo
    BY DEF SavesAwaited
  <2>1. s \in saves /\ s \notin failed /\ s.run \in Runs
    BY <1>7 DEF Saves
  <2>2. /\ phase["stats"][s.run] = "collecting"
        /\ progress["stats"][s.run].stage = "members"
        /\ s.duty.who \in progress["stats"][s.run].todo
    BY <2>1 DEF SaveInvariant, SavesAwaited, At, Collecting
  <2>3. /\ progress'["stats"][s.run].stage = progress["stats"][s.run].stage
        /\ s.duty.who \in progress'["stats"][s.run].todo
    BY <1>3, <1>6, <1>8, <2>1, <2>2, EpochAssumption
  <2> QED
    BY <1>1, <2>2, <2>3 DEF At, Collecting
<1>12. NothingNewer'
  BY <1>1, <1>7 DEF SaveInvariant, NothingNewer
<1> QED
  BY <1>9, <1>10, <1>11, <1>12 DEF SaveInvariant

LEMMA EpochKeepsSaves ==
    ASSUME SaveInvariant, CollectorInvariant, [EpochNext]_epochVars
    PROVE  SaveInvariant'
<1>1. CASE \E d \in epoch.duties, s \in BlockStatus \cup AttestationStatus : NodeRecords(d, s)
  BY <1>1, NodeKeepsSaves
<1>2. ASSUME NEW c \in Collectors, NEW r \in Runs,
             Start(c, r) \/ RunStep(c, r) \/ Fail(c, r)
      PROVE  SaveInvariant'
  BY <1>2, FlagKeepsSaves, RunKeepsSaves, AskKeepsSaves DEF RunStep
<1>3. ASSUME NEW c \in Collectors, NEW r \in Runs, NEW v, MemberFails(c, r, v)
      PROVE  SaveInvariant'
  BY <1>3, FailKeepsSaves
<1>4. ASSUME NEW r \in Runs, NEW lost, Ask(r, lost) PROVE SaveInvariant'
  BY <1>4, AskKeepsSaves
<1>5. ASSUME NEW s \in saves, SaveStep(s) PROVE SaveInvariant'
  BY <1>5, SaveKeepsSaves
<1>6. CASE Restart
  <2>1. /\ UNCHANGED <<epoch, node, store>> /\ saves' = {}
        /\ progress' = [c \in Collectors |-> [r \in Runs |-> NotRunning]]
    BY <1>6 DEF Restart, epochAt
  <2>2. NotRunning \in ProgressRows
    BY DEF NotRunning, ProgressRows
  <2>3. EpochTypeOK'
    BY <2>1, <2>2 DEF SaveInvariant, EpochTypeOK, ProgressRows
  <2>4. MinedIsMined' /\ SavesAwaited' /\ NothingNewer'
    BY <2>1 DEF SaveInvariant, MinedIsMined, SavesAwaited, NothingNewer
  <2> QED
    BY <2>3, <2>4 DEF SaveInvariant
<1>7. CASE EpochPasses \/ Replicate \/ (\E w \in writes : WriteFails(w)) \/ UNCHANGED epochVars
  <2>1. UNCHANGED <<epoch, node, store, saves, progress, phase, awaited>>
    BY <1>7 DEF EpochPasses, Replicate, WriteFails, epochVars, runVars, callVars, epochAt,
                collectorVars
  <2> QED
    BY <2>1, SavesUntouched DEF SaveInvariant, EpochTypeOK, SavesAwaited
<1> QED
  BY <1>1, <1>2, <1>3, <1>4, <1>5, <1>6, <1>7 DEF EpochNext

LEMMA EpochBegins == EpochInit => SaveInvariant
<1> SUFFICES ASSUME EpochInit PROVE SaveInvariant
  OBVIOUS
<1>1. NotRunning \in ProgressRows /\ None \in Statuses /\ None # "mined"
  BY DEF NotRunning, ProgressRows, Statuses, None
<1>2. EpochTypeOK
  BY <1>1 DEF EpochInit, EpochTypeOK
<1>3. MinedIsMined /\ SavesAwaited /\ NothingNewer
  BY <1>1 DEF EpochInit, MinedIsMined, SavesAwaited, NothingNewer
<1> QED
  BY <1>2, <1>3 DEF SaveInvariant

(* A status goes back to an older one only by a save that its run stopped  *)
(* waiting for, or after an error was awaited.                             *)
THEOREM StatusesGoOn == EpochSpec => NoRegression
<1> DEFINE KeptMined ==
        \A d \in epoch.duties :
            store.statuses[d] = "mined" /\ store'.statuses[d] # "mined" =>
                \E s \in saves : s.duty = d /\ (s.run = "stray" \/ awaited["stats"])
<1>1. ASSUME SaveInvariant, [EpochNext]_epochVars PROVE KeptMined
  <2> SUFFICES ASSUME NEW d \in epoch.duties,
                      store.statuses[d] = "mined", store'.statuses[d] # "mined"
               PROVE  \E s \in saves : s.duty = d /\ (s.run = "stray" \/ awaited["stats"])
    OBVIOUS
  <2>1. PICK s \in saves : SaveWrites(s)
    <3>1. ASSUME NEW c \in Collectors, NEW r \in Runs, RunStep(c, r)
          PROVE  store'.statuses = store.statuses
      <4>1. \/ store' = store
            \/ \E value : \/ store' = [store EXCEPT !.counts = value]
                          \/ store' = [store EXCEPT !.totals = value]
                          \/ store' = [store EXCEPT !.full = value]
        BY <3>1 DEF RunStep, Ask, ListMembers, Analyze, ReadStatuses, ReadCounts, UpsertCounts,
                    UpdateTotals, SaveScore, Finish, Report
      <4> QED
        BY <1>1, <4>1 DEF SaveInvariant, EpochTypeOK
    <3> QED
      BY <1>1, <3>1
         DEF EpochNext, NodeRecords, EpochPasses, Replicate, Start, Fail, MemberFails, Ask,
             SaveStep, SaveChecks, WriteFails, Restart, epochVars
  <2>2. s.status # "mined" /\ s.duty = d
    BY <1>1, <2>1 DEF SaveWrites, SaveInvariant, EpochTypeOK, Saves
  <2> QED
    BY <1>1, <2>1, <2>2 DEF SaveInvariant, NothingNewer
<1>2. EpochInit => CollectorInvariant
  BY CollectorBegins DEF EpochInit
<1>3. CollectorInvariant /\ [EpochNext]_epochVars => CollectorInvariant'
  BY CollectorStep, EpochStepIsCollectorStep
<1>4. SaveInvariant /\ CollectorInvariant /\ [EpochNext]_epochVars => SaveInvariant'
  BY EpochKeepsSaves
<1>5. SaveInvariant /\ [EpochNext]_epochVars => [KeptMined]_epochVars
  BY <1>1
<1> QED
  BY <1>2, <1>3, <1>4, <1>5, EpochBegins, PTL DEF EpochSpec, NoRegression

----------------------------------------------------------------------------
(* Why a full score means a complete epoch.  What is stored of a duty is   *)
(* what the node knows or knew, so that a slot with a block keeps it.      *)
Fits(status, d) ==
    /\ status \in StatusOf(d)
    /\ status = node[d] \/ (status = "proposed" /\ node[d] = "mined")
Agrees(statuses) ==
    \A d \in epoch.duties : statuses[d] # None => Fits(statuses[d], d)
HasBlock(statuses, slot) ==
    \E p \in epoch.duties : p.slot = slot /\ p.proposes /\ statuses[p] \in {"proposed", "mined"}
NodeLaw ==
    \A d \in epoch.duties : node[d] # None =>
        node[d] \in StatusOf(d) /\ (d.proposes \/ HasBlock(node, d.slot))
Records(statuses) == {d \in epoch.duties : statuses[d] # None}

FrozenInvariant ==
    /\ NodeLaw
    /\ Agrees(store.statuses)
    /\ replica.statuses \in [epoch.duties -> Statuses] /\ Agrees(replica.statuses)
    /\ Records(replica.statuses) \subseteq Records(store.statuses)
    /\ \A s \in saves : Fits(s.status, s.duty)
    /\ {"statuses", "counts", "totals", "full"} \subseteq DOMAIN store
    /\ \A w \in writes : w.what = "score" /\ w.value => Complete(store.statuses)
    /\ store.full => Complete(store.statuses)

LEMMA EpochFacts ==
    ASSUME EpochTypeOK
    PROVE  /\ epoch.slots \in Nat \ {0}
           /\ IsFiniteSet(epoch.committee) /\ IsFiniteSet(epoch.duties)
           /\ "sum" \notin epoch.committee /\ "score" \notin epoch.committee
           /\ \A x \in epoch.duties :
                x.slot \in 1 .. epoch.slots /\ x.who \in epoch.committee /\ x.proposes \in BOOLEAN
           /\ \A x, y \in epoch.duties :
                x.slot = y.slot /\ (x.who = y.who \/ (x.proposes /\ y.proposes)) => x = y
           /\ \A S \in SUBSET epoch.duties : IsFiniteSet(S) /\ Cardinality(S) \in Nat
           /\ Cardinality(epoch.committee) \in Nat \ {0}
<1>1. epoch \in Deployments
  BY DEF EpochTypeOK
<1>2. /\ epoch.slots \in Nat \ {0}
      /\ IsFiniteSet(epoch.committee) /\ IsFiniteSet(epoch.duties)
      /\ epoch.committee \cap {"sum", "score"} = {}
  BY <1>1, EpochAssumption
<1>3. /\ \A x \in epoch.duties :
           x.slot \in 1 .. epoch.slots /\ x.who \in epoch.committee /\ x.proposes \in BOOLEAN
      /\ \A x, y \in epoch.duties :
           x.slot = y.slot /\ (x.who = y.who \/ (x.proposes /\ y.proposes)) => x = y
  BY <1>1, EpochAssumption
<1>4. \A S \in SUBSET epoch.duties : IsFiniteSet(S) /\ Cardinality(S) \in Nat
  BY <1>2, FS_Subset, FS_CardinalityType
<1>5. Cardinality(epoch.committee) \in Nat \ {0}
  <2>1. epoch.committee # {}
    BY <1>1, EpochAssumption
  <2> QED
    BY <1>2, <2>1, FS_CardinalityType, FS_EmptySet
<1> QED
  BY <1>2, <1>3, <1>4, <1>5

LEMMA PenaltyOfAttestations ==
    ASSUME NEW slots \in Nat \ {0}, NEW expected \in Nat \ {0}, NEW validators \in Nat,
           NEW blocks \in Nat, NEW present \in Nat, NEW attestations \in Nat,
           NEW missedBlocks \in Nat,
           FullScore(slots, expected, validators, blocks, present, attestations, missedBlocks),
           NEW wanted, wanted = present * (expected - 1)
    PROVE  wanted \in Nat /\ (attestations <= wanted => 50 * (wanted - attestations) <= slots * expected)
<1> DEFINE absent == IF validators < expected THEN expected - validators ELSE 0
           penalty == Penalty(slots, expected, validators, blocks, present, attestations, missedBlocks)
           extra == IF validators > expected THEN 40 * slots * expected ELSE 0
           gap == 30 * expected * Distance(blocks, slots)
           loss == IF wanted > 0 THEN 25 * Distance(attestations, wanted) ELSE 0
           empty == IF missedBlocks = 0 THEN 20 * slots * absent ELSE 0
<1>1. wanted \in Nat /\ absent \in Nat /\ slots * expected \in Nat
  OBVIOUS
<1>2. Distance(attestations, wanted) \in Nat /\ Distance(blocks, slots) \in Nat
  BY <1>1 DEF Distance
<1>3. slots * absent \in Nat /\ expected * Distance(blocks, slots) \in Nat
  BY <1>1, <1>2
<1>4. /\ 20 * slots * absent = 20 * (slots * absent)
      /\ 30 * expected * Distance(blocks, slots) = 30 * (expected * Distance(blocks, slots))
      /\ 40 * slots * expected = 40 * (slots * expected)
  BY <1>1, <1>2
<1>5. extra \in Nat /\ gap \in Nat /\ loss \in Nat /\ empty \in Nat
  <2> HIDE DEF absent
  <2> QED
    BY <1>1, <1>2, <1>3, <1>4
<1>6. penalty = extra + gap + loss + empty
  BY DEF Penalty
<1>7. 2 * penalty <= slots * expected
  BY DEF FullScore
<1>8. 2 * loss <= slots * expected
  <2> HIDE DEF penalty, extra, gap, loss, empty
  <2> QED
    BY <1>1, <1>5, <1>6, <1>7
<1> HIDE DEF penalty, extra, gap, empty
<1>9. ASSUME attestations <= wanted PROVE 50 * (wanted - attestations) <= slots * expected
  <2>1. CASE wanted = attestations
    BY <2>1, <1>1
  <2>2. CASE attestations < wanted
    BY <2>2, <1>1, <1>8 DEF Distance
  <2> QED
    BY <1>9, <1>1, <2>1, <2>2
<1> QED
  BY <1>1, <1>9

LEMMA FullScoreHasBlocks ==
    ASSUME NEW slots \in Nat \ {0}, NEW expected \in Nat \ {0}, NEW validators \in Nat,
           NEW blocks \in Nat, NEW present \in Nat, NEW attestations \in Nat,
           NEW missedBlocks \in Nat, slots < 60,
           FullScore(slots, expected, validators, blocks, present, attestations, missedBlocks)
    PROVE  blocks = slots
<1>1. slots \in 1 .. 59
  OBVIOUS
<1> QED
  BY <1>1, FullScoreMissesNoBlock, Zenon

LEMMA FirstNumbers ==
    ASSUME NEW n \in Nat \ {0}
    PROVE  IsFiniteSet(1 .. n) /\ Cardinality(1 .. n) = n
<1>1. n \in Int /\ 1 \in Int /\ ~(1 > n) /\ n - 1 + 1 = n
  OBVIOUS
<1> QED
  BY <1>1, FS_Interval

(* What the score is computed of: a full one misses no block, and at most  *)
(* one attestation in fifty.                                               *)
LEMMA FullIsComplete ==
    ASSUME EpochTypeOK, epoch.slots < 60, NodeLaw,
           NEW st \in [epoch.duties -> Statuses], Agrees(st), Full(st)
    PROVE  Complete(st)
<1> DEFINE S == epoch.slots
           E == Cardinality(epoch.committee)
           Rows(T) == {d \in epoch.duties : st[d] \in T}
           blocks == Rows(BlockStatus)
           present == Rows({"proposed", "mined"})
           attested == Rows(AttestationStatus)
           seen == {d.who : d \in {x \in epoch.duties : st[x] # None}}
           lacking == Lacking(st)
           wanted == Cardinality(present) * (E - 1)
<1>1. /\ S \in 1 .. 59 /\ S \in Int /\ E \in Nat /\ E \in Nat \ {0}
      /\ Cardinality(blocks) \in Nat /\ Cardinality(present) \in Nat
      /\ Cardinality(attested) \in Nat /\ Cardinality(Rows({"missed"})) \in Nat
      /\ Cardinality(lacking) \in Nat
  BY EpochFacts DEF Lacking
<1>2. IsFiniteSet(seen) /\ Cardinality(seen) \in Nat
  <2>1. seen \in SUBSET epoch.committee
    BY EpochFacts
  <2> QED
    BY <2>1, EpochFacts, FS_Subset, FS_CardinalityType
<1>3. \A d \in epoch.duties :
        /\ st[d] \in BlockStatus <=> d.proposes /\ st[d] # None
        /\ st[d] \in AttestationStatus <=> ~d.proposes /\ st[d] # None
  <2> SUFFICES ASSUME NEW d \in epoch.duties
               PROVE  /\ st[d] \in BlockStatus <=> d.proposes /\ st[d] # None
                      /\ st[d] \in AttestationStatus <=> ~d.proposes /\ st[d] # None
    OBVIOUS
  <2>1. st[d] # None => st[d] \in StatusOf(d)
    BY DEF Agrees, Fits
  <2>2. d.proposes \in BOOLEAN
    BY EpochFacts
  <2> QED
    BY <2>1, <2>2 DEF StatusOf, BlockStatus, AttestationStatus, None
<1>4. FullScore(S, E, Cardinality(seen), Cardinality(blocks), Cardinality(present),
                Cardinality(attested), Cardinality(Rows({"missed"})))
  BY DEF Full
<1>5. Cardinality(blocks) = S
  <2>1. S \in Nat \ {0} /\ E \in Nat \ {0} /\ S < 60
    BY EpochFacts
  <2> HIDE DEF S, E, seen, blocks, present, attested, Rows
  <2> QED
    BY <1>1, <1>2, <1>4, <2>1, FullScoreHasBlocks
<1>6. \A slot \in 1 .. S : \E p \in epoch.duties : p.slot = slot /\ p.proposes /\ st[p] # None
  <2> DEFINE f == [p \in blocks |-> p.slot]
  <2>1. f \in Injection(blocks, 1 .. S)
    <3>1. \A p \in blocks : p \in epoch.duties /\ p.proposes /\ p.slot \in 1 .. S
      BY <1>3, EpochFacts
    <3>2. \A p, q \in blocks : p.slot = q.slot => p = q
      BY <3>1, EpochFacts
    <3> QED
      BY <3>1, <3>2 DEF Injection, IsInjective
  <2>2. IsFiniteSet(1 .. S) /\ Cardinality(1 .. S) = S
    BY EpochFacts, FirstNumbers
  <2>3. f \in Surjection(blocks, 1 .. S)
    <3> HIDE DEF f, blocks, S
    <3> QED
      BY <1>5, <2>1, <2>2, FS_Injection
  <2>4. \A slot \in 1 .. S : \E p \in blocks : f[p] = slot
    BY <2>3 DEF Surjection
  <2> QED
    BY <1>3, <2>4
(* The attestations that may be there, and those that are.                 *)
<1> DEFINE owed == {d \in epoch.duties : ~d.proposes /\ HasBlock(st, d.slot)}
<1>7. attested \subseteq owed
  <2> SUFFICES ASSUME NEW d \in attested PROVE HasBlock(st, d.slot)
    BY <1>3
  <2>1. d \in epoch.duties /\ ~d.proposes /\ st[d] # None /\ node[d] # None
    BY <1>3 DEF Agrees, Fits, AttestationStatus, None
  <2>2. PICK p \in epoch.duties : p.slot = d.slot /\ p.proposes /\ node[p] \in {"proposed", "mined"}
    BY <2>1 DEF NodeLaw, HasBlock
  <2>3. PICK q \in epoch.duties : q.slot = d.slot /\ q.proposes /\ st[q] # None
    BY <1>6, <2>1, EpochFacts
  <2>4. p = q
    BY <2>2, <2>3, EpochFacts
  <2>5. st[p] \in {"proposed", "mined"}
    BY <2>2, <2>3, <2>4 DEF Agrees, Fits
  <2> QED
    BY <2>2, <2>5 DEF HasBlock
<1>8. lacking = owed \ attested
  BY <1>3 DEF Lacking, HasBlock
<1>9. /\ IsFiniteSet(owed) /\ Cardinality(owed) \in Nat
      /\ Cardinality(lacking) = Cardinality(owed) - Cardinality(attested)
      /\ Cardinality(attested) <= Cardinality(owed)
  <2>1. owed \in SUBSET epoch.duties /\ attested \in SUBSET epoch.duties /\ lacking \in SUBSET epoch.duties
    BY DEF Lacking
  <2>2. /\ IsFiniteSet(owed) /\ IsFiniteSet(attested) /\ IsFiniteSet(lacking)
        /\ Cardinality(owed) \in Nat /\ Cardinality(attested) \in Nat /\ Cardinality(lacking) \in Nat
    BY <2>1, EpochFacts
  <2>3. owed = lacking \cup attested /\ lacking \cap attested = {}
    BY <1>7, <1>8
  <2>5. Cardinality(lacking \cap attested) = 0
    BY <2>3, FS_EmptySet
  <2> HIDE DEF owed, attested, lacking
  <2>4. Cardinality(owed) = Cardinality(lacking) + Cardinality(attested) - Cardinality(lacking \cap attested)
    BY <2>2, <2>3, FS_Union
  <2> QED
    BY <2>2, <2>4, <2>5
<1>10. Cardinality(owed) <= wanted
  <2> DEFINE all == owed \cup present
             blocksAt == {p.slot : p \in present}
             f == [d \in all |-> <<d.slot, d.who>>]
             g == [p \in present |-> p.slot]
  <2>1. \A p \in present : p \in epoch.duties /\ p.proposes
    BY <1>3 DEF BlockStatus, None
  <2>2. owed \cap present = {}
    BY <2>1
  <2>3. \A d \in all : d \in epoch.duties /\ d.slot \in blocksAt /\ d.who \in epoch.committee
    <3>1. ASSUME NEW d \in owed PROVE d.slot \in blocksAt
      BY DEF HasBlock
    <3> QED
      BY <2>1, <3>1, EpochFacts
  <2>4. f \in Injection(all, blocksAt \X epoch.committee)
    <3>1. \A d \in all : <<d.slot, d.who>> \in blocksAt \X epoch.committee
      BY <2>3
    <3>2. \A x, y \in all : <<x.slot, x.who>> = <<y.slot, y.who>> => x = y
      BY <2>3, EpochFacts
    <3> HIDE DEF all, blocksAt
    <3> QED
      BY <3>1, <3>2 DEF Injection, IsInjective
  <2>5. IsFiniteSet(present) /\ IsFiniteSet(epoch.committee)
    BY EpochFacts
  <2>6. g \in Surjection(present, blocksAt)
    BY DEF Surjection
  <2>7. IsFiniteSet(blocksAt) /\ Cardinality(blocksAt) <= Cardinality(present)
    <3> HIDE DEF present, blocksAt, g
    <3> QED
      BY <2>5, <2>6, FS_Surjection
  <2>8. /\ IsFiniteSet(blocksAt \X epoch.committee)
        /\ Cardinality(blocksAt \X epoch.committee) = Cardinality(blocksAt) * E
    <3> HIDE DEF blocksAt
    <3> QED
      BY <2>5, <2>7, FS_Product
  <2>9. Cardinality(all) <= Cardinality(blocksAt \X epoch.committee)
    <3> HIDE DEF all, blocksAt, f
    <3> QED
      BY <2>4, <2>8, FS_Injection
  <2>10. Cardinality(all) = Cardinality(owed) + Cardinality(present)
    <3>1. Cardinality(all) = Cardinality(owed) + Cardinality(present) - Cardinality(owed \cap present)
      <4> HIDE DEF owed, present
      <4> QED
        BY <1>9, <2>5, FS_Union
    <3>2. Cardinality(owed \cap present) = 0
      BY <2>2, FS_EmptySet
    <3> QED
      BY <1>1, <1>9, <3>1, <3>2
  <2>11. Cardinality(blocksAt) \in Nat /\ Cardinality(all) \in Nat
    BY <1>1, <1>9, <2>7, <2>10, FS_CardinalityType
  <2> DEFINE n == Cardinality(present)
             m == Cardinality(blocksAt)
             k == Cardinality(owed)
  <2>12. /\ n \in Nat /\ m \in Nat /\ k \in Nat /\ E \in Nat /\ m <= n /\ k + n <= m * E
    BY <1>1, <1>9, <2>7, <2>8, <2>9, <2>10, <2>11
  <2> HIDE DEF n, m, k, E
  <2>13. m * E <= n * E /\ n * (E - 1) = n * E - n /\ m * E \in Nat /\ n * E \in Nat
    BY <2>12
  <2>14. k <= n * (E - 1)
    BY <2>12, <2>13
  <2> QED
    BY <2>14 DEF n, k
<1>11. 50 * Cardinality(lacking) <= S * E
  <2>1. wanted \in Nat /\ (Cardinality(attested) <= wanted => 50 * (wanted - Cardinality(attested)) <= S * E)
    <3>1. S \in Nat \ {0} /\ E \in Nat \ {0}
      BY EpochFacts
    <3> HIDE DEF S, E, seen, blocks, present, attested, Rows
    <3> QED
      BY <1>1, <1>2, <1>4, <3>1, PenaltyOfAttestations
  <2>2. S * E \in Nat
    BY <1>1
  <2> HIDE DEF lacking, owed, attested, wanted, S, E
  <2> QED
    BY <1>1, <1>9, <1>10, <2>1, <2>2
<1> QED
  BY <1>6, <1>11 DEF Complete

(* What agrees with the node and has at least the records of a complete    *)
(* epoch is complete.                                                      *)
LEMMA CompleteStays ==
    ASSUME EpochTypeOK,
           NEW old \in [epoch.duties -> Statuses], Agrees(old), Complete(old),
           NEW new \in [epoch.duties -> Statuses], Agrees(new),
           Records(old) \subseteq Records(new)
    PROVE  Complete(new)
<1>1. \A d \in epoch.duties : old[d] # None => new[d] # None
  BY DEF Records
<1>2. \A slot \in 1 .. epoch.slots : \E p \in epoch.duties :
        p.slot = slot /\ p.proposes /\ new[p] # None
  BY <1>1 DEF Complete
<1>3. Lacking(new) \subseteq Lacking(old)
  <2> SUFFICES ASSUME NEW d \in Lacking(new)
               PROVE  \E p \in epoch.duties :
                        p.slot = d.slot /\ p.proposes /\ old[p] \in {"proposed", "mined"}
    BY <1>1 DEF Lacking
  <2>1. PICK p \in epoch.duties : p.slot = d.slot /\ p.proposes /\ new[p] \in {"proposed", "mined"}
    BY DEF Lacking
  <2>2. PICK q \in epoch.duties : q.slot = d.slot /\ q.proposes /\ old[q] # None
    BY EpochFacts DEF Complete, Lacking
  <2>3. p = q
    BY <2>1, <2>2, EpochFacts
  <2>4. Fits(old[p], p) /\ Fits(new[p], p)
    BY <2>1, <2>2, <2>3 DEF Agrees, None
  <2>5. old[p] \in {"proposed", "mined"}
    BY <2>1, <2>4 DEF Fits
  <2> QED
    BY <2>1, <2>5
<1>4. /\ IsFiniteSet(Lacking(old)) /\ Cardinality(Lacking(old)) \in Nat
      /\ Cardinality(Lacking(new)) \in Nat
  BY EpochFacts DEF Lacking
<1>5. Cardinality(Lacking(new)) <= Cardinality(Lacking(old))
  BY <1>3, <1>4, FS_Subset, Lacking(new) \in SUBSET Lacking(old)
<1>6. epoch.slots * Cardinality(epoch.committee) \in Nat
  BY EpochFacts
<1>7. 50 * Cardinality(Lacking(old)) <= epoch.slots * Cardinality(epoch.committee)
  BY DEF Complete
<1>8. 50 * Cardinality(Lacking(new)) <= epoch.slots * Cardinality(epoch.committee)
  BY <1>4, <1>5, <1>6, <1>7
<1> QED
  BY <1>2, <1>8 DEF Complete

LEMMA FrozenBegins == EpochInit => FrozenInvariant
<1> SUFFICES ASSUME EpochInit PROVE FrozenInvariant
  OBVIOUS
<1>1. /\ node = [d \in epoch.duties |-> None]
      /\ store = [statuses |-> node, counts |-> node, totals |-> node, full |-> FALSE]
      /\ replica = store /\ saves = {} /\ writes = {}
  BY DEF EpochInit
<1>2. NodeLaw /\ Agrees(store.statuses) /\ Agrees(replica.statuses)
  BY <1>1 DEF NodeLaw, Agrees
<1>3. replica.statuses \in [epoch.duties -> Statuses]
  BY <1>1 DEF Statuses
<1>4. Records(replica.statuses) \subseteq Records(store.statuses)
  BY <1>1
<1>5. {"statuses", "counts", "totals", "full"} \subseteq DOMAIN store /\ ~store.full
  BY <1>1
<1> QED
  BY <1>1, <1>2, <1>3, <1>4, <1>5 DEF FrozenInvariant

(* The steps that leave the statuses and the score alone.                  *)
LEMMA FrozenUntouched ==
    ASSUME FrozenInvariant, UNCHANGED <<epoch, node, replica>>,
           DOMAIN store' = DOMAIN store, store'.statuses = store.statuses, store'.full = store.full,
           \A s \in saves' : \E z \in saves : s.status = z.status /\ s.duty = z.duty,
           \A w \in writes' : w \in writes \/ w.what # "score"
    PROVE  FrozenInvariant'
<1>1. NodeLaw'
  BY DEF FrozenInvariant, NodeLaw, HasBlock
<1>2. \A status, d : Fits(status, d)' <=> Fits(status, d)
  BY DEF Fits
<1>3. Agrees(store.statuses)' /\ Agrees(replica.statuses)'
  BY <1>2 DEF FrozenInvariant, Agrees
<1>4. /\ replica'.statuses \in [epoch'.duties -> Statuses]
      /\ (Records(replica.statuses) \subseteq Records(store.statuses))'
      /\ {"statuses", "counts", "totals", "full"} \subseteq DOMAIN store'
  BY DEF FrozenInvariant, Records
<1>5. \A s \in saves' : Fits(s.status, s.duty)'
  BY <1>2 DEF FrozenInvariant
<1>6. Complete(store.statuses)' <=> Complete(store.statuses)
  BY DEF Complete, Lacking
<1>7. \A w \in writes' : w.what = "score" /\ w.value => Complete(store.statuses)'
  BY <1>6 DEF FrozenInvariant
<1>8. store'.full => Complete(store.statuses)'
  BY <1>6 DEF FrozenInvariant
<1> QED
  BY <1>1, <1>3, <1>4, <1>5, <1>7, <1>8 DEF FrozenInvariant

LEMMA NodeKeepsFrozen ==
    ASSUME EpochTypeOK, FrozenInvariant, NEW d \in epoch.duties,
           NEW new \in BlockStatus \cup AttestationStatus, NodeRecords(d, new)
    PROVE  FrozenInvariant'
<1>1. /\ UNCHANGED <<callVars, epochAt, store, replica>>
      /\ node' = [node EXCEPT ![d] = new]
      /\ new \in StatusOf(d)
      /\ node[d] = None \/ (node[d] = "proposed" /\ new = "mined")
  <2>1. /\ node' = [node EXCEPT ![d] = new]
        /\ new \in StatusOf(d)
        /\ UNCHANGED <<runVars, callVars, epochAt, store, replica, epochFaults>>
    BY Zenon DEF NodeRecords
  <2>2. node[d] = None \/ (node[d] = "proposed" /\ new = "mined")
    BY Zenon DEF NodeRecords
  <2> QED
    BY <2>1, <2>2
<1>2. UNCHANGED <<epoch, store, replica, saves, writes>>
  BY <1>1 DEF callVars, epochAt
<1>3. d.proposes \/ HasBlock(node, d.slot)
  BY Zenon DEF NodeRecords, HasBlock
<1>4. node'[d] = new /\ \A x \in epoch.duties : x # d => node'[x] = node[x]
  BY <1>1, <1>2 DEF EpochTypeOK
<1>5. NodeLaw'
  <2>1. ASSUME NEW slot, HasBlock(node, slot) PROVE HasBlock(node, slot)'
    BY <1>1, <1>2, <1>4, <2>1 DEF HasBlock, None
  <2> QED
    BY <1>1, <1>2, <1>4, <1>3, <2>1 DEF FrozenInvariant, NodeLaw
<1>6. ASSUME NEW status, NEW x \in epoch.duties, Fits(status, x)
      PROVE  Fits(status, x)'
  <2>1. status # None
    BY <1>6 DEF Fits, StatusOf, BlockStatus, AttestationStatus, None
  <2> QED
    BY <1>1, <1>2, <1>4, <1>6, <2>1 DEF Fits, StatusOf, None
<1>7. Agrees(store.statuses)' /\ Agrees(replica.statuses)'
  BY <1>1, <1>2, <1>6 DEF FrozenInvariant, Agrees
<1>8. /\ replica'.statuses \in [epoch'.duties -> Statuses]
      /\ (Records(replica.statuses) \subseteq Records(store.statuses))'
      /\ {"statuses", "counts", "totals", "full"} \subseteq DOMAIN store'
  BY <1>1, <1>2 DEF FrozenInvariant, Records
<1>9. \A s \in saves' : Fits(s.status, s.duty)'
  <2>1. \A s \in saves : s.duty \in epoch.duties /\ Fits(s.status, s.duty)
    BY DEF FrozenInvariant, EpochTypeOK, Saves
  <2> QED
    BY <1>1, <1>2, <1>6, <2>1
<1>10. Complete(store.statuses)' <=> Complete(store.statuses)
  BY <1>1, <1>2 DEF Complete, Lacking
<1>11. /\ \A w \in writes' : w.what = "score" /\ w.value => Complete(store.statuses)'
       /\ store'.full => Complete(store.statuses)'
  BY <1>1, <1>2, <1>10 DEF FrozenInvariant
<1> QED
  BY <1>5, <1>7, <1>8, <1>9, <1>11 DEF FrozenInvariant

LEMMA ReplicaKeepsFrozen ==
    ASSUME EpochTypeOK, FrozenInvariant, Replicate
    PROVE  FrozenInvariant'
<1>1. UNCHANGED <<epoch, store, node, saves, writes>> /\ replica' = store
  BY DEF Replicate, callVars, epochAt
<1>2. NodeLaw'
  BY <1>1 DEF FrozenInvariant, NodeLaw, HasBlock
<1>3. \A status, d : Fits(status, d)' <=> Fits(status, d)
  BY <1>1 DEF Fits
<1>4. Agrees(store.statuses)' /\ Agrees(replica.statuses)'
  BY <1>1, <1>3 DEF FrozenInvariant, Agrees
<1>5. /\ replica'.statuses \in [epoch'.duties -> Statuses]
      /\ (Records(replica.statuses) \subseteq Records(store.statuses))'
      /\ {"statuses", "counts", "totals", "full"} \subseteq DOMAIN store'
  BY <1>1 DEF FrozenInvariant, Records, EpochTypeOK
<1>6. \A s \in saves' : Fits(s.status, s.duty)'
  BY <1>1, <1>3 DEF FrozenInvariant
<1>7. Complete(store.statuses)' <=> Complete(store.statuses)
  BY <1>1 DEF Complete, Lacking
<1>8. /\ \A w \in writes' : w.what = "score" /\ w.value => Complete(store.statuses)'
      /\ store'.full => Complete(store.statuses)'
  BY <1>1, <1>7 DEF FrozenInvariant
<1> QED
  BY <1>2, <1>4, <1>5, <1>6, <1>8 DEF FrozenInvariant

LEMMA AskKeepsFrozen ==
    ASSUME EpochTypeOK, FrozenInvariant, NEW r, NEW lost, Ask(r, lost)
    PROVE  FrozenInvariant'
<1> DEFINE known == {d \in epoch.duties : ~past /\ node[d] # None /\ d.who \notin lost}
           fresh == {[run |-> r, duty |-> d, status |-> node[d], checked |-> FALSE] : d \in known}
<1>1. UNCHANGED <<epoch, store, node, replica, writes>> /\ saves' = saves \cup fresh
  BY DEF Ask, epochAt
<1>2. NodeLaw'
  BY <1>1 DEF FrozenInvariant, NodeLaw, HasBlock
<1>3. \A status, d : Fits(status, d)' <=> Fits(status, d)
  BY <1>1 DEF Fits
<1>4. Agrees(store.statuses)' /\ Agrees(replica.statuses)'
  BY <1>1, <1>3 DEF FrozenInvariant, Agrees
<1>5. /\ replica'.statuses \in [epoch'.duties -> Statuses]
      /\ (Records(replica.statuses) \subseteq Records(store.statuses))'
      /\ {"statuses", "counts", "totals", "full"} \subseteq DOMAIN store'
  BY <1>1 DEF FrozenInvariant, Records
<1>6. \A s \in saves' : Fits(s.status, s.duty)'
  <2>1. \A s \in fresh : Fits(s.status, s.duty)
    BY DEF FrozenInvariant, NodeLaw, Fits
  <2> QED
    BY <1>1, <1>3, <2>1 DEF FrozenInvariant
<1>7. Complete(store.statuses)' <=> Complete(store.statuses)
  BY <1>1 DEF Complete, Lacking
<1>8. /\ \A w \in writes' : w.what = "score" /\ w.value => Complete(store.statuses)'
      /\ store'.full => Complete(store.statuses)'
  BY <1>1, <1>7 DEF FrozenInvariant
<1> QED
  BY <1>2, <1>4, <1>5, <1>6, <1>8 DEF FrozenInvariant

LEMMA SaveKeepsFrozen ==
    ASSUME EpochTypeOK, FrozenInvariant, NEW s \in saves, SaveWrites(s)
    PROVE  FrozenInvariant'
<1> DEFINE new == store'.statuses
<1>1. /\ UNCHANGED <<epoch, node, replica, writes>> /\ saves' \subseteq saves
      /\ store' = [store EXCEPT !.statuses[s.duty] = s.status]
  BY DEF SaveWrites, epochAt
<1>2. s.duty \in epoch.duties /\ s.status \in Statuses /\ Fits(s.status, s.duty)
  BY DEF EpochTypeOK, Saves, FrozenInvariant
<1>3. /\ new = [store.statuses EXCEPT ![s.duty] = s.status]
      /\ DOMAIN store' = DOMAIN store /\ store'.full = store.full
  BY <1>1 DEF FrozenInvariant
<1>4. /\ new \in [epoch.duties -> Statuses] /\ new[s.duty] = s.status
      /\ \A x \in epoch.duties : x # s.duty => new[x] = store.statuses[x]
  BY <1>2, <1>3 DEF EpochTypeOK
<1> HIDE DEF new
<1>5. s.status # None
  BY <1>2 DEF Fits, StatusOf, BlockStatus, AttestationStatus, None
<1>6. Agrees(new) /\ Records(store.statuses) \subseteq Records(new)
  BY <1>2, <1>4, <1>5 DEF FrozenInvariant, Agrees, Records
<1>7. Complete(store.statuses) => Complete(new)
  BY <1>4, <1>6, CompleteStays DEF FrozenInvariant, EpochTypeOK
<1>8. NodeLaw'
  BY <1>1 DEF FrozenInvariant, NodeLaw, HasBlock
<1>9. \A status, d : Fits(status, d)' <=> Fits(status, d)
  BY <1>1 DEF Fits
<1>10. Agrees(store.statuses)' /\ Agrees(replica.statuses)'
  BY <1>1, <1>6, <1>9 DEF FrozenInvariant, Agrees, new
<1>11. /\ replica'.statuses \in [epoch'.duties -> Statuses]
       /\ (Records(replica.statuses) \subseteq Records(store.statuses))'
       /\ {"statuses", "counts", "totals", "full"} \subseteq DOMAIN store'
  <2>1. Records(replica.statuses)' = Records(replica.statuses) /\ Records(store.statuses)' = Records(new)
    BY <1>1 DEF Records, new
  <2> QED
    BY <1>1, <1>3, <1>6, <2>1 DEF FrozenInvariant
<1>12. \A z \in saves' : Fits(z.status, z.duty)'
  BY <1>1, <1>9 DEF FrozenInvariant
<1>13. Complete(store.statuses)' <=> Complete(new)
  BY <1>1 DEF Complete, Lacking, new
<1>14. /\ \A w \in writes' : w.what = "score" /\ w.value => Complete(store.statuses)'
       /\ store'.full => Complete(store.statuses)'
  BY <1>1, <1>3, <1>7, <1>13 DEF FrozenInvariant
<1> QED
  BY <1>8, <1>10, <1>11, <1>12, <1>14 DEF FrozenInvariant

LEMMA AnalysisKeepsFrozen ==
    ASSUME EpochTypeOK, FrozenInvariant, epoch.slots < 60, NEW r, Analyze(r)
    PROVE  FrozenInvariant'
<1> DEFINE score == [by |-> "integrity", run |-> r, what |-> "score", value |-> Full(Seen.statuses)]
<1>1. /\ UNCHANGED <<epoch, node, store, replica, saves>> /\ writes' = writes \cup {score}
  BY DEF Analyze, epochAt
<1>2. score.value = Full(Seen.statuses)
  OBVIOUS
<1> HIDE DEF score
<1>3. /\ Seen.statuses \in [epoch.duties -> Statuses] /\ Agrees(Seen.statuses)
      /\ Records(Seen.statuses) \subseteq Records(store.statuses)
  BY DEF Seen, FrozenInvariant, EpochTypeOK
<1>4. Full(Seen.statuses) => Complete(store.statuses)
  <2> SUFFICES ASSUME Full(Seen.statuses) PROVE Complete(store.statuses)
    OBVIOUS
  <2>1. Complete(Seen.statuses)
    BY <1>3, FullIsComplete DEF FrozenInvariant
  <2> QED
    BY <1>3, <2>1, CompleteStays DEF FrozenInvariant, EpochTypeOK
<1>5. NodeLaw'
  BY <1>1 DEF FrozenInvariant, NodeLaw, HasBlock
<1>6. \A status, d : Fits(status, d)' <=> Fits(status, d)
  BY <1>1 DEF Fits
<1>7. Agrees(store.statuses)' /\ Agrees(replica.statuses)'
  BY <1>1, <1>6 DEF FrozenInvariant, Agrees
<1>8. /\ replica'.statuses \in [epoch'.duties -> Statuses]
      /\ (Records(replica.statuses) \subseteq Records(store.statuses))'
      /\ {"statuses", "counts", "totals", "full"} \subseteq DOMAIN store'
  BY <1>1 DEF FrozenInvariant, Records
<1>9. \A s \in saves' : Fits(s.status, s.duty)'
  BY <1>1, <1>6 DEF FrozenInvariant
<1>10. Complete(store.statuses)' <=> Complete(store.statuses)
  BY <1>1 DEF Complete, Lacking
<1>11. /\ \A w \in writes' : w.what = "score" /\ w.value => Complete(store.statuses)'
       /\ store'.full => Complete(store.statuses)'
  <2>1. \A w \in writes : w.what = "score" /\ w.value => Complete(store.statuses)
    BY DEF FrozenInvariant
  <2>2. score.value => Complete(store.statuses)
    BY <1>2, <1>4
  <2> QED
    BY <1>1, <1>10, <2>1, <2>2 DEF FrozenInvariant
<1> QED
  BY <1>5, <1>7, <1>8, <1>9, <1>11 DEF FrozenInvariant

LEMMA ScoreKeepsFrozen ==
    ASSUME FrozenInvariant, NEW w \in writes, SaveScore(w)
    PROVE  FrozenInvariant'
<1>1. /\ UNCHANGED <<epoch, node, replica, saves>> /\ writes' \subseteq writes
      /\ w.what = "score" /\ store' = [store EXCEPT !.full = w.value]
  BY DEF SaveScore, epochAt
<1>2. /\ store'.statuses = store.statuses /\ DOMAIN store' = DOMAIN store
      /\ store'.full = w.value
  BY <1>1 DEF FrozenInvariant
<1>3. NodeLaw'
  BY <1>1 DEF FrozenInvariant, NodeLaw, HasBlock
<1>4. \A status, d : Fits(status, d)' <=> Fits(status, d)
  BY <1>1 DEF Fits
<1>5. Agrees(store.statuses)' /\ Agrees(replica.statuses)'
  BY <1>1, <1>2, <1>4 DEF FrozenInvariant, Agrees
<1>6. /\ replica'.statuses \in [epoch'.duties -> Statuses]
      /\ (Records(replica.statuses) \subseteq Records(store.statuses))'
      /\ {"statuses", "counts", "totals", "full"} \subseteq DOMAIN store'
  BY <1>1, <1>2 DEF FrozenInvariant, Records
<1>7. \A s \in saves' : Fits(s.status, s.duty)'
  BY <1>1, <1>4 DEF FrozenInvariant
<1>8. Complete(store.statuses)' <=> Complete(store.statuses)
  BY <1>1, <1>2 DEF Complete, Lacking
<1>9. /\ \A x \in writes' : x.what = "score" /\ x.value => Complete(store.statuses)'
      /\ store'.full => Complete(store.statuses)'
  BY <1>1, <1>2, <1>8 DEF FrozenInvariant
<1> QED
  BY <1>3, <1>5, <1>6, <1>7, <1>9 DEF FrozenInvariant

LEMMA OthersKeepFrozen ==
    ASSUME EpochTypeOK, FrozenInvariant, NEW c, NEW r,
           \/ Start(c, r) \/ Finish(c, r) \/ Fail(c, r) \/ Report(c, r)
           \/ ListMembers(r) \/ ReadCounts(c, r)
           \/ \E v \in epoch.committee : ReadStatuses(c, r, v)
           \/ \E v \in epoch.committee : MemberFails(c, r, v)
           \/ \E w \in writes : UpsertCounts(w) \/ UpdateTotals(w) \/ WriteFails(w)
           \/ \E s \in saves : SaveChecks(s)
           \/ EpochPasses \/ Restart \/ UNCHANGED epochVars
    PROVE  FrozenInvariant'
<1>1. UNCHANGED <<epoch, node, replica>>
  BY DEF Start, Finish, Fail, Report, ListMembers, ReadCounts, ReadStatuses, MemberFails,
         UpsertCounts, UpdateTotals, WriteFails, SaveChecks, EpochPasses, Restart, epochVars,
         epochAt
<1>2. DOMAIN store' = DOMAIN store /\ store'.statuses = store.statuses /\ store'.full = store.full
  <2>1. \/ store' = store
        \/ \E value : \/ store' = [store EXCEPT !.counts = value]
                      \/ store' = [store EXCEPT !.totals = value]
    BY DEF Start, Finish, Fail, Report, ListMembers, ReadCounts, ReadStatuses, MemberFails,
           UpsertCounts, UpdateTotals, WriteFails, SaveChecks, EpochPasses, Restart, epochVars
  <2> QED
    BY <2>1 DEF FrozenInvariant
<1>3. \A s \in saves' : \E z \in saves : s.status = z.status /\ s.duty = z.duty
  <2>1. CASE saves' \subseteq saves
    BY <2>1
  <2>2. ASSUME NEW s \in saves, SaveChecks(s)
        PROVE  \A x \in saves' : \E z \in saves : x.status = z.status /\ x.duty = z.duty
    <3>1. [s EXCEPT !.checked = TRUE].status = s.status /\ [s EXCEPT !.checked = TRUE].duty = s.duty
      BY DEF EpochTypeOK, Saves
    <3> QED
      BY <2>2, <3>1 DEF SaveChecks
  <2>3. ASSUME NEW v, MemberFails(c, r, v)
        PROVE  \A x \in saves' : \E z \in saves : x.status = z.status /\ x.duty = z.duty
    <3>1. \A s \in saves : /\ [s EXCEPT !.run = "stray"].status = s.status
                           /\ [s EXCEPT !.run = "stray"].duty = s.duty
      BY DEF EpochTypeOK, Saves
    <3>2. \A x \in saves' : x \in saves \/ \E s \in saves : x = [s EXCEPT !.run = "stray"]
      BY <2>3 DEF MemberFails, SavesOf
    <3> QED
      BY <3>1, <3>2
  <2> QED
    BY <2>1, <2>2, <2>3
    DEF Start, Finish, Fail, Report, ListMembers, ReadCounts, ReadStatuses, UpsertCounts,
        UpdateTotals, WriteFails, EpochPasses, Restart, epochVars, callVars
<1>4. \A w \in writes' : w \in writes \/ w.what # "score"
  <2>1. CASE writes' \subseteq writes
    BY <2>1
  <2>2. ASSUME NEW v \in epoch.committee, ReadStatuses(c, r, v)
        PROVE  \A w \in writes' : w \in writes \/ w.what # "score"
    BY <2>2, EpochFacts DEF ReadStatuses
  <2>3. CASE ReadCounts(c, r)
    BY <2>3 DEF ReadCounts
  <2> QED
    BY <2>1, <2>2, <2>3
    DEF Start, Finish, Fail, Report, ListMembers, UpsertCounts, MemberFails, SaveChecks,
        UpdateTotals, WriteFails, EpochPasses, Restart, epochVars, callVars
<1> QED
  BY <1>1, <1>2, <1>3, <1>4, FrozenUntouched

LEMMA FrozenStep ==
    ASSUME SaveInvariant, FrozenInvariant, epoch.slots < 60, [EpochNext]_epochVars
    PROVE  FrozenInvariant'
<1> USE DEF SaveInvariant
<1>1. CASE \E d \in epoch.duties, s \in BlockStatus \cup AttestationStatus : NodeRecords(d, s)
  BY <1>1, NodeKeepsFrozen
<1>2. CASE Replicate
  BY <1>2, ReplicaKeepsFrozen
<1>3. ASSUME NEW c, NEW r,
             \/ Start(c, r) \/ RunStep(c, r) \/ Fail(c, r)
             \/ \E v \in epoch.committee : MemberFails(c, r, v)
      PROVE  FrozenInvariant'
  <2>1. CASE \/ Start(c, r) \/ Fail(c, r) \/ Finish(c, r) \/ Report(c, r)
             \/ ListMembers(r) \/ ReadCounts(c, r)
             \/ \E v \in epoch.committee : ReadStatuses(c, r, v)
             \/ \E v \in epoch.committee : MemberFails(c, r, v)
    BY <2>1, OthersKeepFrozen
  <2>2. CASE Ask(r, {})
    BY <2>2, AskKeepsFrozen
  <2>3. CASE Analyze(r)
    BY <2>3, AnalysisKeepsFrozen
  <2>4. ASSUME NEW w \in WritesOf(c, r), UpsertCounts(w) \/ UpdateTotals(w) \/ SaveScore(w)
        PROVE  FrozenInvariant'
    BY <2>4, OthersKeepFrozen, ScoreKeepsFrozen DEF WritesOf
  <2> QED
    BY <1>3, <2>1, <2>2, <2>3, <2>4 DEF RunStep
<1>4. ASSUME NEW r, NEW lost, Ask(r, lost) PROVE FrozenInvariant'
  BY <1>4, AskKeepsFrozen
<1>5. ASSUME NEW s \in saves, SaveStep(s) PROVE FrozenInvariant'
  BY <1>5, SaveKeepsFrozen, OthersKeepFrozen DEF SaveStep
<1>6. CASE EpochPasses \/ Restart \/ (\E w \in writes : WriteFails(w)) \/ UNCHANGED epochVars
  BY <1>6, OthersKeepFrozen
<1> QED
  BY <1>1, <1>2, <1>3, <1>4, <1>5, <1>6 DEF EpochNext

(* An epoch of less than sixty slots is frozen only when every slot has    *)
(* the record of its block, and all but a few of its attestations theirs.  *)
THEOREM FrozenIsComplete ==
    ASSUME \A d \in Deployments : d.slots < 60
    PROVE  EpochSpec => []FrozenComplete
<1>1. EpochInit => CollectorInvariant
  BY CollectorBegins DEF EpochInit
<1>2. CollectorInvariant /\ [EpochNext]_epochVars => CollectorInvariant'
  BY CollectorStep, EpochStepIsCollectorStep
<1>3. SaveInvariant /\ CollectorInvariant /\ [EpochNext]_epochVars => SaveInvariant'
  BY EpochKeepsSaves
<1>4. SaveInvariant /\ FrozenInvariant /\ [EpochNext]_epochVars => FrozenInvariant'
  <2>1. SaveInvariant => epoch.slots < 60
    BY DEF SaveInvariant, EpochTypeOK
  <2> QED
    BY <2>1, FrozenStep
<1>5. FrozenInvariant => FrozenComplete
  BY DEF FrozenInvariant, FrozenComplete
<1> QED
  BY <1>1, <1>2, <1>3, <1>4, <1>5, EpochBegins, FrozenBegins, PTL DEF EpochSpec

=============================================================================
