--------------------------- MODULE MCValidatorQueue ---------------------------
(* Stakers and tables for the runs of ValidatorQueue.                      *)
EXTENDS ValidatorQueue

CONSTANTS s1, s2

OneStaker == {s1}
TwoStakers == {s1, s2}
QueueAndDeposit == {"queued", "deposit"}
QueueAndFailed == {"queued", "failed"}
QueueAndDeposits == {"queued", "deposit", "gse"}
Viewed == {TRUE}
BothViews == {TRUE, FALSE}

(* All histories of three events, and of four those with two deposits from *)
(* the queue, both viewed: two writers of a date may disagree on them.     *)
TwoDeposits ==
    [p \in 1 .. 4 |-> [kind |-> IF p < 3 THEN "queued" ELSE "deposit", staker |-> s1, viewed |-> TRUE]]
SettlingNext == Next /\ (Len(history') > 3 => history' = TwoDeposits)
SettlingSpec == Init /\ [][SettlingNext]_vars /\ Fairness
=============================================================================
