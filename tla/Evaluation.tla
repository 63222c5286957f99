------------------------------ MODULE Evaluation ------------------------------
(* The evaluation tools, each on its own: a behaviour is one of the part it *)
(* is named by.  The one-shot protocol has its own variables; the others,   *)
(* of which a behaviour has only one, share x1 to x8.  MCEvaluation gives   *)
(* the constants values for TLC, the theorems of EvaluationProofs hold for  *)
(* all values.                                                              *)
EXTENDS HoldoutOnce, FiniteSets

CONSTANTS
    Fingerprints, MaxCommits, MaxOps,                       \* HoldoutProvenance
    EditsDuringFreeze, EditsDuringPreflight,
    Engines, Configs, Repetitions, None, MaxMeddling, MaxSuites,   \* DevelopmentRuns
    MaxSplit,                                               \* EvalMetrics
    Values, PartOf, Wordy, Amounts, MaxValues,              \* ExtractionScore
    Ids, MaxCases, Protocol                                 \* DatasetGate

\* Every configuration is run at least once, and they are numbered from 1.
ASSUME RunsAssumption ==
    /\ Repetitions \in Nat \ {0}
    /\ Cardinality(Configs) \in Nat \ {0} /\ Configs = 1 .. Cardinality(Configs)

VARIABLES part, x1, x2, x3, x4, x5, x6, x7, x8

rest8 == <<x8>>
rest4 == <<x4, x5, x6, x7, rest8>>
rest3 == <<x3, rest4>>
shared == <<x1, x2, rest3>>

\* The variables a part does not use.
Unused8 == x8 = 0
Unused4 == x4 = 0 /\ x5 = 0 /\ x6 = 0 /\ x7 = 0 /\ Unused8
Unused3 == x3 = 0 /\ Unused4

Provenance == INSTANCE HoldoutProvenance
    WITH Engines <- Fingerprints, Absent <- Nobody,
         disk <- x1, commits <- x2, head <- x3, ops <- x4, freezer <- x5, pc <- x6,
         evidence <- x7, loaded <- x8

\* All configurations run once, or the only one run several times.
Resume == INSTANCE DevelopmentRuns
    WITH Repetitions <- 1,
         engine <- x1, meddling <- x2, artifacts <- x3, suite <- x4, suites <- x5,
         comparison <- x6, final <- x7, frozen <- x8
Repeat == INSTANCE DevelopmentRuns
    WITH Configs <- {1},
         engine <- x1, meddling <- x2, artifacts <- x3, suite <- x4, suites <- x5,
         comparison <- x6, final <- x7, frozen <- x8

Metrics == INSTANCE EvalMetrics WITH MaxCases <- MaxSplit, cases <- x1, counts <- x2, raw <- x3

Score == INSTANCE ExtractionScore
    WITH type <- x1, expected <- x2, cited <- x3, actual <- x4, unmatched <- x5,
         truePositive <- x6, decisions <- x7

Gate == INSTANCE DatasetGate WITH cases <- x1, targets <- x2

EvaluationInit ==
    /\ Init
    /\ part = "once" \/ disk = Attested
    /\ \/ part = "once" /\ x1 = 0 /\ x2 = 0 /\ Unused3
       \/ part = "provenance" /\ Provenance!Init
       \/ part = "resume" /\ Resume!Init
       \/ part = "repeat" /\ Repeat!Init
       \/ part = "metrics" /\ Metrics!Init /\ Unused4
       \/ part = "score" /\ Score!Init /\ Unused8
       \/ part = "gate" /\ Gate!Init /\ Unused3

EvaluationNext ==
    /\ UNCHANGED part
    /\ \/ part = "once" /\ Next /\ UNCHANGED shared
       \/ /\ UNCHANGED vars
          /\ \/ part = "provenance" /\ Provenance!Next
             \/ part = "resume" /\ Resume!Next
             \/ part = "repeat" /\ Repeat!Next
             \/ part = "metrics" /\ Metrics!Next /\ UNCHANGED rest4
             \/ part = "score" /\ Score!Next /\ UNCHANGED rest8
             \/ part = "gate" /\ Gate!Next /\ UNCHANGED rest3

evaluationVars == <<part, vars, shared>>

EvaluationSpec == EvaluationInit /\ [][EvaluationNext]_evaluationVars
-----------------------------------------------------------------------------
(* The engine about to be measured is the one committed before the freeze  *)
(* commit (_verify_engine_commit).                                         *)
ClaimedEngineIsFrozen == part = "provenance" => Provenance!ClaimedEngineIsFrozen

(* The dataset is committed strictly after the freeze commit.              *)
DatasetFollowsFreeze == part = "provenance" => Provenance!DatasetFollowsFreeze

(* Whatever was edited, discarded, interrupted or resumed, the frozen      *)
(* configuration is the only best one and decided the same in every one of *)
(* its runs.                                                               *)
WinnerIsReproducible ==
    /\ part = "resume" => Resume!WinnerIsReproducible
    /\ part = "repeat" => Repeat!WinnerIsReproducible

(* The recorded artifact recalculates to the reported metrics.             *)
CountsRecalculate == part = "metrics" => Metrics!CountsRecalculate

(* A passing split has cases of each kind that were measured.              *)
PassIsEarned == part = "metrics" => Metrics!PassIsEarned

(* No extracted value is counted for two gold values, and taking the first *)
(* match costs at most half of what the best assignment would earn.        *)
FirstMatchIsGood == part = "score" => Score!FirstMatchIsGood

(* A dataset the gate opens can be recalculated, stays in scope, pairs its *)
(* citations and counts every case once.                                   *)
OpenedIsMeasurable == part = "gate" => Gate!OpenedIsMeasurable
=============================================================================
