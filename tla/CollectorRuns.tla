----------------------------- MODULE CollectorRuns -----------------------------
(***************************************************************************)
(* BaseCollector (lib/BaseCollector.ts) and the frame of collectData of    *)
(* its subclasses: a timer starts a run unless metrics.isRunning is set,   *)
(* and every way out of a run clears the flag, some of them twice.         *)
(***************************************************************************)
EXTENDS Integers, FiniteSets

CONSTANTS
    Collectors,  \* the collectors of one process
    Awaiting,    \* those whose catch block awaits recordError
    Runs         \* bound: as many runs of a collector at once

ASSUME CollectorAssumption == Awaiting \subseteq Collectors /\ Runs # {}

VARIABLES
    isRunning,   \* metrics.isRunning
    phase,       \* the runs in progress
    awaited      \* has the collector awaited recordError since it started?

collectorVars == <<isRunning, phase, awaited>>

CollectorTypeOK ==
    /\ isRunning \in [Collectors -> BOOLEAN]
    /\ phase \in [Collectors -> [Runs -> {"none", "collecting", "reporting"}]]
    /\ awaited \in [Collectors -> BOOLEAN]

CollectorInit ==
    /\ isRunning = [c \in Collectors |-> FALSE]
    /\ phase = [c \in Collectors |-> [r \in Runs |-> "none"]]
    /\ awaited = [c \in Collectors |-> FALSE]

Collecting(c, r) == phase[c][r] = "collecting"

(* Mutant: the flag is not looked at.                                      *)
StartUnguarded(c, r) ==
    /\ phase[c][r] = "none"
    /\ phase' = [phase EXCEPT ![c][r] = "collecting"]
    /\ isRunning' = [isRunning EXCEPT ![c] = TRUE]
    /\ UNCHANGED awaited

(* setInterval calls collectData: skip if a run is in progress.            *)
StartRun(c, r) ==
    /\ ~isRunning[c]
    /\ phase[c][r] = "none"
    /\ phase' = [phase EXCEPT ![c][r] = "collecting"]
    /\ isRunning' = [isRunning EXCEPT ![c] = TRUE]
    /\ UNCHANGED awaited

(* recordSuccess clears the flag, and so does the finally after it.        *)
RecordSuccess(c, r) ==
    /\ Collecting(c, r)
    /\ phase' = [phase EXCEPT ![c][r] = "none"]
    /\ isRunning' = [isRunning EXCEPT ![c] = FALSE]
    /\ UNCHANGED awaited

(* recordError clears the flag and then inserts an AppErrorLog row; the    *)
(* collectors that await it reach the finally only after the insert.       *)
RecordError(c, r) ==
    /\ Collecting(c, r)
    /\ isRunning' = [isRunning EXCEPT ![c] = FALSE]
    /\ phase' = [phase EXCEPT ![c][r] = IF c \in Awaiting THEN "reporting" ELSE "none"]
    /\ awaited' = [awaited EXCEPT ![c] = @ \/ c \in Awaiting]

(* The insert has ended, well or not, and the finally runs.                *)
ErrorReported(c, r) ==
    /\ phase[c][r] = "reporting"
    /\ phase' = [phase EXCEPT ![c][r] = "none"]
    /\ isRunning' = [isRunning EXCEPT ![c] = FALSE]
    /\ UNCHANGED awaited

(* The process dies and is started again.                                  *)
RestartCollectors ==
    /\ isRunning' = [c \in Collectors |-> FALSE]
    /\ phase' = [c \in Collectors |-> [r \in Runs |-> "none"]]
    /\ awaited' = [c \in Collectors |-> FALSE]

CollectorNext ==
    \/ \E c \in Collectors, r \in Runs :
        StartRun(c, r) \/ RecordSuccess(c, r) \/ RecordError(c, r) \/ ErrorReported(c, r)
    \/ RestartCollectors

CollectorSpec == CollectorInit /\ [][CollectorNext]_collectorVars

----------------------------------------------------------------------------
InProgress(c) == {r \in Runs : phase[c][r] # "none"}

(* The flag keeps two collections of one collector from overlapping until  *)
(* the first error it awaits: then the flag is cleared twice, and the      *)
(* second time may be while another run relies on it.                      *)
NoOverlapUnlessAwaited ==
    \A c \in Collectors : ~awaited[c] => \A r, s \in InProgress(c) : r = s

(* The flag never stays set without a run that will clear it: no collector *)
(* is skipped for ever.                                                    *)
FlagHasRun == \A c \in Collectors : isRunning[c] => \E r \in Runs : Collecting(c, r)

=============================================================================
