------------------------------ MODULE EpochStats ------------------------------
(***************************************************************************)
(* The three collectors that share an epoch's rows.  ValidatorStats copies *)
(* the statuses of a node (EpochService.saveValidatorAttestation), counts  *)
(* them per validator and sums the counts up; EpochAggregates counts and   *)
(* sums again what is stored, to repair what a lagging replica spoilt; and *)
(* EpochIntegrity scores the epoch, of which a full score freezes the      *)
(* statuses.  Every write goes to the primary, and every read to a read    *)
(* replica if there is one.                                                *)
(*                                                                         *)
(* A count, or a sum, is represented by the statuses it was taken of.  The *)
(* epoch stays among those that the last two look at.                      *)
(***************************************************************************)
EXTENDS CollectorRuns

CONSTANTS
    Deployments  \* an epoch, the collectors that run, is there a replica; and as
                 \* bounds, the runs at once, the number of failed calls and
                 \* restarts, and does the epoch ever pass?

(* In each slot one validator of the committee is to propose a block, and  *)
(* the others to attest it.                                                *)
BlockStatus == {"proposed", "mined", "missed"}
AttestationStatus == {"sent", "absent"}
None == "none"

(* A row's key is its slot and validator, and a slot has one proposer.     *)
ASSUME EpochAssumption ==
    /\ Collectors = {"stats", "aggregates", "integrity"}
    /\ \A d \in Deployments :
        /\ d.collectors \subseteq Collectors /\ d.replicated \in BOOLEAN
        /\ d.runs \subseteq Runs /\ d.faults \in Nat /\ d.passes \in BOOLEAN
        /\ d.slots \in Nat \ {0}
        /\ IsFiniteSet(d.committee) /\ IsFiniteSet(d.duties)
        /\ d.committee # {} /\ d.committee \cap {"sum", "score"} = {}
        /\ \A x \in d.duties :
            x.slot \in 1 .. d.slots /\ x.who \in d.committee /\ x.proposes \in BOOLEAN
        /\ \A x, y \in d.duties :
            x.slot = y.slot /\ (x.who = y.who \/ (x.proposes /\ y.proposes)) => x = y

VARIABLES
    epoch,       \* the deployment and its epoch
    past,        \* is it older than VALIDATOR_STATS_MAX_PAST_EPOCHS?
    node,        \* statuses the node has recorded
    store,       \* rows on the primary: [statuses, counts, totals, full]
    replica,     \* an earlier state of them
    progress,    \* where each run is
    saves,       \* saveValidatorAttestation calls in flight
    writes,      \* counts, sums and scores read and not yet written
    epochFaults

epochAt == <<epoch, past>>
runVars == <<collectorVars, progress>>
callVars == <<saves, writes>>
epochVars == <<runVars, callVars, epochAt, node, store, replica, epochFaults>>

Seen == IF epoch.replicated THEN replica ELSE store
Duties(v) == {d \in epoch.duties : d.who = v}
StatusOf(d) == IF d.proposes THEN BlockStatus ELSE AttestationStatus

NotRunning == [stage |-> "none", todo |-> {}, touched |-> FALSE]
Begun == [stage |-> "begun", todo |-> {}, touched |-> FALSE]

EpochInit ==
    /\ CollectorInit
    /\ epoch \in Deployments
    /\ past = FALSE
    /\ node = [d \in epoch.duties |-> None]
    /\ store = [statuses |-> node, counts |-> node, totals |-> node, full |-> FALSE]
    /\ replica = store
    /\ progress = [c \in Collectors |-> [r \in Runs |-> NotRunning]]
    /\ saves = {}
    /\ writes = {}
    /\ epochFaults = 0

----------------------------------------------------------------------------
(* The score of analyzeEpochIntegrity, as the penalties in units of        *)
(* 1 / (slots * expected); Math.round makes it 100 when they are at most   *)
(* half a point.                                                           *)
Distance(a, b) == IF a < b THEN b - a ELSE a - b

Penalty(slots, expected, validators, blocks, present, attestations, missedBlocks) ==
    LET wanted == present * (expected - 1)
        absent == IF validators < expected THEN expected - validators ELSE 0
    IN  (IF validators > expected THEN 40 * slots * expected ELSE 0)
        + 30 * expected * Distance(blocks, slots)
        + (IF wanted > 0 THEN 25 * Distance(attestations, wanted) ELSE 0)
        + (IF missedBlocks = 0 THEN 20 * slots * absent ELSE 0)

(* Mutant: the distribution of the attestations is not looked at.          *)
FullOfBlocks(slots, expected, validators, blocks, present, attestations, missedBlocks) ==
    blocks = slots

FullScore(slots, expected, validators, blocks, present, attestations, missedBlocks) ==
    2 * Penalty(slots, expected, validators, blocks, present, attestations, missedBlocks)
        <= slots * expected

Full(statuses) ==
    LET rows(S) == Cardinality({d \in epoch.duties : statuses[d] \in S})
        seen == {d.who : d \in {x \in epoch.duties : statuses[x] # None}}
    IN  FullScore(epoch.slots, Cardinality(epoch.committee), Cardinality(seen),
            rows(BlockStatus), rows({"proposed", "mined"}), rows(AttestationStatus),
            rows({"missed"}))

----------------------------------------------------------------------------
(* The node: a proposed block may turn out to be mined later; there is     *)
(* nothing to attest in a slot without a block.                            *)
NodeRecords(d, s) ==
    /\ \/ node[d] = None
       \/ node[d] = "proposed" /\ s = "mined"
    /\ d.proposes \/ \E p \in epoch.duties :
            p.slot = d.slot /\ p.proposes /\ node[p] \in {"proposed", "mined"}
    /\ s \in StatusOf(d)
    /\ node' = [node EXCEPT ![d] = s]
    /\ UNCHANGED <<runVars, callVars, epochAt, store, replica, epochFaults>>

EpochPasses ==
    /\ epoch.passes
    /\ past' = TRUE
    /\ UNCHANGED <<runVars, callVars, epoch, node, store, replica, epochFaults>>

Replicate ==
    /\ epoch.replicated
    /\ replica' = store
    /\ UNCHANGED <<runVars, callVars, epochAt, node, store, epochFaults>>

----------------------------------------------------------------------------
At(c, r, stage) == Collecting(c, r) /\ progress[c][r].stage = stage
Move(c, r, p) == progress' = [progress EXCEPT ![c][r] = p]
WritesOf(c, r) == {w \in writes : w.by = c /\ w.run = r}
SavesOf(r, v) == {s \in saves : s.run = r /\ s.duty.who = v}

(* Runs of a collector are alike: the next one takes the first free name.  *)
Start(c, r) ==
    /\ c \in epoch.collectors
    /\ r \in epoch.runs
    /\ StartRun(c, r)
    /\ r = CHOOSE free \in epoch.runs : phase[c][free] = "none"
    /\ Move(c, r, Begun)
    /\ UNCHANGED <<callVars, epochAt, node, store, replica, epochFaults>>

(* The node answers getValidatorsStats; the validators in lost fail before *)
(* anything of them is saved.                                              *)
Ask(r, lost) ==
    LET known == {d \in epoch.duties : ~past /\ node[d] # None /\ d.who \notin lost}
    IN  /\ At("stats", r, "begun")
        /\ Move("stats", r, [stage |-> "members", todo |-> {d.who : d \in known}, touched |-> FALSE])
        /\ saves' = saves \cup
             {[run |-> r, duty |-> d, status |-> node[d], checked |-> FALSE] : d \in known}
        /\ epochFaults' = IF lost = {} THEN epochFaults ELSE epochFaults + 1
        /\ epochFaults' <= epoch.faults
        /\ UNCHANGED <<collectorVars, writes, epochAt, node, store, replica>>

(* getValidatorsForEpochs: the validators with rows on the replica.        *)
ListMembers(r) ==
    LET known == {d.who : d \in {x \in epoch.duties : Seen.statuses[x] # None}}
    IN  /\ At("aggregates", r, "begun")
        /\ Move("aggregates", r, [stage |-> "members", todo |-> known, touched |-> known # {}])
        /\ UNCHANGED <<collectorVars, callVars, epochAt, node, store, replica, epochFaults>>

(* saveValidatorAttestation: the score is looked up, then the row upserted.*)
SaveChecks(s) ==
    /\ ~s.checked
    /\ saves' = (saves \ {s}) \cup (IF Seen.full THEN {} ELSE {[s EXCEPT !.checked = TRUE]})
    /\ UNCHANGED <<runVars, writes, epochAt, node, store, replica, epochFaults>>

(* Mutant: the upsert does not update.                                     *)
SaveCreates(s) ==
    /\ s.checked
    /\ saves' = saves \ {s}
    /\ store' = IF store.statuses[s.duty] = None
                THEN [store EXCEPT !.statuses[s.duty] = s.status] ELSE store
    /\ UNCHANGED <<runVars, writes, epochAt, node, replica, epochFaults>>

SaveWrites(s) ==
    /\ s.checked
    /\ saves' = saves \ {s}
    /\ store' = [store EXCEPT !.statuses[s.duty] = s.status]
    /\ UNCHANGED <<runVars, writes, epochAt, node, replica, epochFaults>>

(* updateValidatorEpochPerformance, when all saves of v have succeeded.    *)
ReadStatuses(c, r, v) ==
    /\ At(c, r, "members")
    /\ v \in progress[c][r].todo
    /\ c = "stats" => SavesOf(r, v) = {}
    /\ Move(c, r, [progress[c][r] EXCEPT !.todo = @ \ {v}])
    /\ writes' = writes \cup {[by |-> c, run |-> r, what |-> v,
                               value |-> [d \in Duties(v) |-> Seen.statuses[d]]]}
    /\ UNCHANGED <<collectorVars, saves, epochAt, node, store, replica, epochFaults>>

(* Mutant: the upsert does not update.                                     *)
CreateCounts(w) ==
    /\ w.what \in epoch.committee
    /\ store' = [store EXCEPT !.counts =
         [d \in epoch.duties |-> IF d \in Duties(w.what) /\ @[d] = None THEN w.value[d] ELSE @[d]]]
    /\ writes' = writes \ {w}
    /\ Move(w.by, w.run, [progress[w.by][w.run] EXCEPT !.touched = TRUE])
    /\ UNCHANGED <<collectorVars, saves, epochAt, node, replica, epochFaults>>

UpsertCounts(w) ==
    /\ w.what \in epoch.committee
    /\ store' = [store EXCEPT !.counts =
         [d \in epoch.duties |-> IF d \in Duties(w.what) THEN w.value[d] ELSE @[d]]]
    /\ writes' = writes \ {w}
    /\ Move(w.by, w.run, [progress[w.by][w.run] EXCEPT !.touched = TRUE])
    /\ UNCHANGED <<collectorVars, saves, epochAt, node, replica, epochFaults>>

(* A call for v fails.  Promise.all rejects at once: the other saves of v  *)
(* go on, but nothing waits for them.                                      *)
MemberFails(c, r, v) ==
    LET pending == {w \in WritesOf(c, r) : w.what = v}
        failed == IF c = "stats" THEN SavesOf(r, v) ELSE {}
    IN  /\ At(c, r, "members")
        /\ v \in progress[c][r].todo \/ pending # {}
        /\ Move(c, r, [progress[c][r] EXCEPT !.todo = @ \ {v}])
        /\ writes' = writes \ pending
        /\ \/ failed = {} /\ UNCHANGED saves
           \/ \E f \in failed :
                saves' = (saves \ failed) \cup {[s EXCEPT !.run = "stray"] : s \in failed \ {f}}
        /\ epochFaults < epoch.faults
        /\ epochFaults' = epochFaults + 1
        /\ UNCHANGED <<collectorVars, epochAt, node, store, replica>>

(* updateEpochAggregates, when every validator has settled.                *)
Settled(c, r) == progress[c][r].todo = {} /\ WritesOf(c, r) = {}

ReadCounts(c, r) ==
    /\ At(c, r, "members")
    /\ Settled(c, r)
    /\ progress[c][r].touched
    /\ Move(c, r, [progress[c][r] EXCEPT !.stage = "summing"])
    /\ writes' = writes \cup {[by |-> c, run |-> r, what |-> "sum", value |-> Seen.counts]}
    /\ UNCHANGED <<collectorVars, saves, epochAt, node, store, replica, epochFaults>>

UpdateTotals(w) ==
    /\ w.what = "sum"
    /\ store' = [store EXCEPT !.totals = w.value]
    /\ writes' = writes \ {w}
    /\ UNCHANGED <<runVars, saves, epochAt, node, replica, epochFaults>>

(* analyzeAndSave.                                                         *)
Analyze(r) ==
    /\ At("integrity", r, "begun")
    /\ Move("integrity", r, [Begun EXCEPT !.stage = "summing"])
    /\ writes' = writes \cup {[by |-> "integrity", run |-> r, what |-> "score",
                               value |-> Full(Seen.statuses)]}
    /\ UNCHANGED <<collectorVars, saves, epochAt, node, store, replica, epochFaults>>

SaveScore(w) ==
    /\ w.what = "score"
    /\ store' = [store EXCEPT !.full = w.value]
    /\ writes' = writes \ {w}
    /\ UNCHANGED <<runVars, saves, epochAt, node, replica, epochFaults>>

(* A sum or a score that cannot be written is only logged.                 *)
WriteFails(w) ==
    /\ w.what \in {"sum", "score"}
    /\ epochFaults < epoch.faults
    /\ writes' = writes \ {w}
    /\ epochFaults' = epochFaults + 1
    /\ UNCHANGED <<runVars, saves, epochAt, node, store, replica>>

Finish(c, r) ==
    /\ \/ At(c, r, "members") /\ ~progress[c][r].touched
       \/ At(c, r, "summing")
    /\ Settled(c, r)
    /\ RecordSuccess(c, r)
    /\ Move(c, r, NotRunning)
    /\ UNCHANGED <<callVars, epochAt, node, store, replica, epochFaults>>

(* The first call of a run throws; the integrity collector catches it.     *)
Fail(c, r) ==
    /\ c # "integrity"
    /\ At(c, r, "begun")
    /\ epochFaults < epoch.faults
    /\ RecordError(c, r)
    /\ Move(c, r, NotRunning)
    /\ epochFaults' = epochFaults + 1
    /\ UNCHANGED <<callVars, epochAt, node, store, replica>>

Report(c, r) ==
    /\ ErrorReported(c, r)
    /\ UNCHANGED <<progress, callVars, epochAt, node, store, replica, epochFaults>>

Restart ==
    /\ epochFaults < epoch.faults
    /\ RestartCollectors
    /\ progress' = [c \in Collectors |-> [r \in Runs |-> NotRunning]]
    /\ saves' = {} /\ writes' = {}
    /\ epochFaults' = epochFaults + 1
    /\ UNCHANGED <<epochAt, node, store, replica>>

----------------------------------------------------------------------------
RunStep(c, r) ==
    \/ c = "stats" /\ Ask(r, {})
    \/ c = "aggregates" /\ ListMembers(r)
    \/ c = "integrity" /\ Analyze(r)
    \/ \E v \in epoch.committee : ReadStatuses(c, r, v)
    \/ ReadCounts(c, r)
    \/ \E w \in WritesOf(c, r) : UpsertCounts(w) \/ UpdateTotals(w) \/ SaveScore(w)
    \/ Finish(c, r)
    \/ Report(c, r)

SaveStep(s) == SaveChecks(s) \/ SaveWrites(s)

EpochNext ==
    \/ \E d \in epoch.duties, s \in BlockStatus \cup AttestationStatus : NodeRecords(d, s)
    \/ EpochPasses
    \/ Replicate
    \/ \E c \in Collectors, r \in Runs :
        \/ Start(c, r) \/ RunStep(c, r) \/ Fail(c, r)
        \/ \E v \in epoch.committee : MemberFails(c, r, v)
    \/ \E r \in Runs, lost \in SUBSET epoch.committee : Ask(r, lost)
    \/ \E s \in saves : SaveStep(s)
    \/ \E w \in writes : WriteFails(w)
    \/ Restart

(* Timers keep firing, calls end, the replica follows.                     *)
Members == UNION {d.committee : d \in Deployments}

EpochFairness ==
    /\ WF_epochVars(Replicate)
    /\ \A c \in Collectors :
        /\ WF_epochVars(\E r \in Runs : Start(c, r))
        /\ \A r \in Runs : WF_epochVars(RunStep(c, r))
    /\ \A v \in Members, r \in Runs \cup {"stray"} :
        WF_epochVars(\E s \in SavesOf(r, v) : SaveStep(s))

EpochSpec == EpochInit /\ [][EpochNext]_epochVars /\ EpochFairness

----------------------------------------------------------------------------
(* An epoch is frozen only when every slot has the record of its block,    *)
(* and of the attestations of these blocks no more are missing than the    *)
(* rounding to a full score hides: one for fifty that the epoch may have.  *)
Lacking(statuses) ==
    {d \in epoch.duties :
        /\ ~d.proposes /\ statuses[d] = None
        /\ \E p \in epoch.duties :
            p.slot = d.slot /\ p.proposes /\ statuses[p] \in {"proposed", "mined"}}

Complete(statuses) ==
    /\ \A slot \in 1 .. epoch.slots : \E p \in epoch.duties :
        p.slot = slot /\ p.proposes /\ statuses[p] # None
    /\ 50 * Cardinality(Lacking(statuses)) <= epoch.slots * Cardinality(epoch.committee)

FrozenComplete == store.full => Complete(store.statuses)

(* A status goes back to an older one only by a save that outlived its run *)
(* or by one of two runs that overlapped after an error.                   *)
NoRegression ==
    [][\A d \in epoch.duties :
         store.statuses[d] = "mined" /\ store'.statuses[d] # "mined" =>
            \E s \in saves : s.duty = d /\ (s.run = "stray" \/ awaited["stats"])]_epochVars

(* The counts and sums come to agree with the statuses for good, whatever  *)
(* the lag of the replica and the writers' order have done to them; once   *)
(* the epoch has passed, because EpochAggregates repairs them.             *)
EventuallyCounted ==
    <>[](\/ store.counts = store.statuses /\ store.totals = store.counts
         \/ past /\ "aggregates" \notin epoch.collectors)

(* The statuses come to be the node's for good, unless the epoch is frozen *)
(* or has passed.                                                          *)
EventuallyStored == <>[](store.statuses = node \/ store.full \/ past)

=============================================================================
