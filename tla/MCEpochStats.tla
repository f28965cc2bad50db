------------------------------ MODULE MCEpochStats ------------------------------
(* Epochs and collectors for the run of EpochStats: one validator that     *)
(* proposes in two slots, and two validators that share one slot.          *)
EXTENDS EpochStats

CONSTANTS v1, v2, r1, r2

ThreeCollectors == {"stats", "aggregates", "integrity"}
StatsAwaits == {"stats"}

Proposer(slot, v) == [slot |-> slot, who |-> v, proposes |-> TRUE]
Attester(slot, v) == [slot |-> slot, who |-> v, proposes |-> FALSE]

(* Saves only, of one validator with two slots.                            *)
SavesOfOne ==
    [slots |-> 2, committee |-> {v1}, duties |-> {Proposer(1, v1), Proposer(2, v1)},
     collectors |-> {"stats"}, replicated |-> FALSE, runs |-> {r1, r2}, faults |-> 1, passes |-> FALSE]
(* The score of a slot that two validators share.                          *)
ScoreOfTwo ==
    [slots |-> 1, committee |-> {v1, v2}, duties |-> {Proposer(1, v1), Attester(1, v2)},
     collectors |-> {"stats", "integrity"}, replicated |-> TRUE, runs |-> {r1}, faults |-> 0, passes |-> FALSE]
(* The counts of one validator.                                            *)
CountsOfOne ==
    [slots |-> 1, committee |-> {v1}, duties |-> {Proposer(1, v1)},
     collectors |-> {"stats", "aggregates"}, replicated |-> TRUE, runs |-> {r1}, faults |-> 1, passes |-> TRUE]
ThreeDeployments == {SavesOfOne, ScoreOfTwo, CountsOfOne}
=============================================================================
