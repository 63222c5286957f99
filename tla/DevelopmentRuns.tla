--------------------------- MODULE DevelopmentRuns ---------------------------
(***************************************************************************)
(* How the frozen configuration is chosen: the strategy comparison         *)
(* (src/evals/strategy_benchmark_v3.py) runs every registered              *)
(* configuration several times on two partitions and selects one; the      *)
(* final runtime (finalize_answer_v3.py) repeats the winner and must       *)
(* reproduce its decisions; the evidence check of freeze.py accepts the    *)
(* result.  The engine may be edited, an artifact discarded and a run      *)
(* interrupted between any two of their steps, and the comparison resumed. *)
(*                                                                         *)
(* A run decides by the engine its process loaded at its start, and signs  *)
(* with the fingerprint of the engine on disk at its end                   *)
(* (evaluate_manifest, runner.py).  An artifact keeps both and an outcome: *)
(* the decisions, whose quality is the outcome's rank, or errors.          *)
(***************************************************************************)
EXTENDS Naturals, Sequences

CONSTANTS Engines, Configs, Repetitions,
          None,          \* a file that does not exist
          MaxMeddling,   \* bound: edits of the engine and discarded artifacts
          MaxSuites      \* bound: starts of the comparison

Partitions == <<"calibration", "selection">>
Errors == 0                           \* the outcome of a run with errors
Outcomes == {Errors, 1, 2}
Reps == 1 .. Repetitions
Artifacts == [ran : Engines, engine : Engines, outcome : Outcomes]

VARIABLES engine, meddling,
          artifacts,   \* artifacts[c][p][r]
          suite,       \* the comparison: where it is and what it aggregated
          suites,      \* its starts so far
          comparison,  \* comparison.json
          final,       \* the final runtime: where it is and its output
          frozen       \* the evidence a freeze rests on, and the engine it records

vars == <<engine, meddling, artifacts, suite, suites, comparison, final, frozen>>

NoRuns == [c \in Configs |-> [p \in 1 .. 2 |-> <<>>]]

\* loaded: the engine of the run under way, in a process of its own.
NoSuite == [pc |-> "idle", resume |-> FALSE, config |-> 1, part |-> 1, loaded |-> None,
            runs |-> NoRuns]

Init == /\ engine \in Engines
        /\ meddling = 0
        /\ artifacts = [c \in Configs |-> [p \in 1 .. 2 |-> [r \in Reps |-> None]]]
        /\ suite = NoSuite
        /\ suites = 0
        /\ comparison = None
        /\ final = [pc |-> "start", loaded |-> None, engine |-> None, source |-> None,
                    runs |-> <<<<>>, <<>>>>]
        /\ frozen = None
-----------------------------------------------------------------------------
(* _aggregate: runs are stable when their decisions are one.  *)
Stable(runs) == \A i, j \in DOMAIN runs : runs[i].outcome = runs[j].outcome
Failed(runs) == \E i \in DOMAIN runs : runs[i].outcome = Errors

(* A form the definition below must not take. *)
RejectedOnErrors(runs) == Failed(runs)

(* The calibration gate of run_suite.  *)
Rejected(runs) == ~ Stable(runs) \/ Failed(runs)

(* _select_configuration: among stable, error-free selections the best;    *)
(* a tie selects nothing and raises.                                       *)
Eligible(entries) == {c \in Configs : /\ Len(entries[c][2]) > 0
                                      /\ Stable(entries[c][2])
                                      /\ ~ Failed(entries[c][2])}
Quality(entries, c) == entries[c][2][1].outcome
Best(entries) == {c \in Eligible(entries) :
                     \A d \in Eligible(entries) : Quality(entries, d) <= Quality(entries, c)}
Tied(entries) == \E c, d \in Best(entries) : c # d
Selected(entries) == IF Eligible(entries) = {} THEN None
                     ELSE CHOOSE c \in Best(entries) : TRUE
-----------------------------------------------------------------------------
EditEngine == /\ meddling < MaxMeddling
              /\ engine' \in Engines \ {engine}
              /\ meddling' = meddling + 1
              /\ UNCHANGED <<artifacts, suite, suites, comparison, final, frozen>>

Discard == /\ meddling < MaxMeddling
           /\ \E c \in Configs, p \in 1 .. 2, r \in Reps :
                 /\ artifacts[c][p][r] # None
                 /\ artifacts' = [artifacts EXCEPT ![c][p][r] = None]
           /\ meddling' = meddling + 1
           /\ UNCHANGED <<engine, suite, suites, comparison, final, frozen>>

StartSuite == /\ suite.pc = "idle"
              /\ suites < MaxSuites
              /\ suites' = suites + 1
              /\ \E resume \in BOOLEAN :
                    suite' = [NoSuite EXCEPT !.pc = "run", !.resume = resume]
              /\ UNCHANGED <<engine, meddling, artifacts, comparison, final, frozen>>

(* The suite raises, or its process or the subprocess of a run dies.  *)
SuiteEnds == suite' = NoSuite

InterruptSuite == /\ suite.pc # "idle"
                  /\ SuiteEnds
                  /\ UNCHANGED <<engine, meddling, artifacts, suites, comparison, final, frozen>>

Runs == suite.runs[suite.config][suite.part]
Artifact == artifacts[suite.config][suite.part][Len(Runs) + 1]
Due == suite.pc = "run" /\ suite.loaded = None /\ Len(Runs) < Repetitions
Collect(a) == suite' = [suite EXCEPT !.loaded = None,
                                     !.runs[suite.config][suite.part] = Append(@, a)]

(* _execute_if_needed: an existing artifact is taken up only on resume and *)
(* only if it is signed by the engine as it is now; if not, the suite      *)
(* raises.                                                                 *)
Resumable(a) == suite.resume /\ a.engine = engine

TakeUp == /\ Due
          /\ Artifact # None
          /\ IF Resumable(Artifact) THEN Collect(Artifact) ELSE SuiteEnds
          /\ UNCHANGED <<engine, meddling, artifacts, suites, comparison, final, frozen>>

StartRun == /\ Due
            /\ Artifact = None
            /\ suite' = [suite EXCEPT !.loaded = engine]
            /\ UNCHANGED <<engine, meddling, artifacts, suites, comparison, final, frozen>>

EndRun ==
    /\ suite.loaded # None
    /\ \E o \in Outcomes :
          LET a == [ran |-> suite.loaded, engine |-> engine, outcome |-> o]
          IN  /\ artifacts' = [artifacts EXCEPT ![suite.config][suite.part][Len(Runs) + 1] = a]
              /\ Collect(a)
    /\ UNCHANGED <<engine, meddling, suites, comparison, final, frozen>>

ExecuteIfNeeded == TakeUp \/ StartRun \/ EndRun

(* The partition is aggregated: a rejected calibration skips selection.    *)
NextPartition ==
    /\ suite.pc = "run"
    /\ Len(Runs) = Repetitions
    /\ LET skip == suite.part = 1 /\ Rejected(Runs)
       IN  IF suite.part = 1 /\ ~ skip
           THEN suite' = [suite EXCEPT !.part = 2]
           ELSE IF suite.config + 1 \in Configs
                THEN suite' = [suite EXCEPT !.config = @ + 1, !.part = 1]
                ELSE suite' = [suite EXCEPT !.pc = "select"]
    /\ UNCHANGED <<engine, meddling, artifacts, suites, comparison, final, frozen>>

(* The comparison is written over an older one, under the fingerprint of   *)
(* the engine as it is at the end.                                         *)
WriteComparison ==
    /\ suite.pc = "select"
    /\ SuiteEnds
    /\ comparison' = IF Tied(suite.runs) THEN comparison
                     ELSE [engine |-> engine, runs |-> suite.runs,
                           selected |-> Selected(suite.runs)]
    /\ UNCHANGED <<engine, meddling, artifacts, suites, final, frozen>>

Suite == StartSuite \/ InterruptSuite \/ ExecuteIfNeeded \/ NextPartition \/ WriteComparison
-----------------------------------------------------------------------------
(* _validate_strategy_comparison: the comparison is of engine e, its runs  *)
(* are the artifacts on disk and of e too, its gates and its selection are *)
(* what the rules give.                                                    *)
RunsOfEngine(e, entries) ==
    \A c \in Configs, p \in 1 .. 2 : \A r \in DOMAIN entries[c][p] : entries[c][p][r].engine = e

Valid(e) ==
    /\ comparison # None
    /\ comparison.engine = e
    /\ RunsOfEngine(e, comparison.runs)
    /\ \A c \in Configs, p \in 1 .. 2 :
          \A r \in DOMAIN comparison.runs[c][p] : artifacts[c][p][r] = comparison.runs[c][p][r]
    /\ \A c \in Configs : Rejected(comparison.runs[c][1]) <=> comparison.runs[c][2] = <<>>
    /\ ~ Tied(comparison.runs)
    /\ comparison.selected # None
    /\ comparison.selected = Selected(comparison.runs)

(* finalize runs in a process of its own, which makes every run, and reads *)
(* the fingerprint first.  A failure before the output directory is made   *)
(* leaves nothing behind.                                                  *)
LoadFinal ==
    /\ final.pc = "start"
    /\ final' = [final EXCEPT !.loaded = engine]
    /\ UNCHANGED <<engine, meddling, artifacts, suite, suites, comparison, frozen>>

BeginFinal ==
    /\ final.pc = "start"
    /\ final.loaded # None
    /\ Valid(engine)
    /\ final' = [final EXCEPT !.pc = "run", !.engine = engine, !.source = comparison]
    /\ UNCHANGED <<engine, meddling, artifacts, suite, suites, comparison, frozen>>

(* One repetition.  A run signed by another engine ends the attempt, whose output *)
(* directory then blocks every later one.                                  *)
Fresh(a) == a.engine = final.engine

FinalRun ==
    /\ final.pc = "run"
    /\ \E p \in 1 .. 2, o \in Outcomes :
          LET a == [ran |-> final.loaded, engine |-> engine, outcome |-> o]
          IN  /\ Len(final.runs[p]) < Repetitions
              /\ p = 2 => Len(final.runs[1]) = Repetitions
              /\ final' = IF Fresh(a) THEN [final EXCEPT !.runs[p] = Append(@, a)]
                                      ELSE [final EXCEPT !.pc = "failed"]
    /\ UNCHANGED <<engine, meddling, artifacts, suite, suites, comparison, frozen>>

(* The decisions must be those of the comparison's artifacts, as they are  *)
(* on disk now; the summary is written last.                               *)
OutcomesOf(runs) == [r \in DOMAIN runs |-> runs[r].outcome]
CoreReproduced ==
    \A p \in 1 .. 2 : \A r \in Reps :
        LET original == artifacts[final.source.selected][p][r]
        IN  original # None /\ final.runs[p][r].outcome = original.outcome

Summarize ==
    /\ final.pc = "run"
    /\ \A p \in 1 .. 2 : Len(final.runs[p]) = Repetitions
    /\ final' = [final EXCEPT !.pc = IF CoreReproduced THEN "summary" ELSE "failed"]
    /\ UNCHANGED <<engine, meddling, artifacts, suite, suites, comparison, frozen>>

InterruptFinal ==
    /\ final.pc = "run"
    /\ final' = [final EXCEPT !.pc = "failed"]
    /\ UNCHANGED <<engine, meddling, artifacts, suite, suites, comparison, frozen>>

Finalize == LoadFinal \/ BeginFinal \/ FinalRun \/ Summarize \/ InterruptFinal
-----------------------------------------------------------------------------
(* _validate_development_evidence, under the engine the configuration      *)
(* selected, which must be the current one.                                *)
Freezable ==
    /\ Valid(engine)
    /\ final.pc = "summary"
    /\ final.engine = engine
    /\ final.source.selected = comparison.selected
    /\ \A p \in 1 .. 2 : \A r \in Reps : final.runs[p][r].engine = engine
    /\ \A p \in 1 .. 2 :
          OutcomesOf(final.runs[p]) = OutcomesOf(comparison.runs[comparison.selected][p])

CheckEvidence ==
    /\ frozen = None
    /\ Freezable
    /\ frozen' = [engine |-> None, comparison |-> comparison, runs |-> final.runs]
    /\ UNCHANGED <<engine, meddling, artifacts, suite, suites, comparison, final>>

(* The record reads the fingerprint again, unless a path is not clean.     *)
RecordFreeze ==
    /\ frozen # None /\ frozen.engine = None
    /\ \/ frozen' = [frozen EXCEPT !.engine = engine]
       \/ frozen' = None
    /\ UNCHANGED <<engine, meddling, artifacts, suite, suites, comparison, final>>

Freeze == CheckEvidence \/ RecordFreeze

Next == EditEngine \/ Discard \/ Suite \/ Finalize \/ Freeze

Spec == Init /\ [][Next]_vars
-----------------------------------------------------------------------------
(* The evidence a freeze rests on was decided by the engine it is signed   *)
(* with.  It does not hold: a run is signed when it ends.                  *)
EvidenceIsOfSignedEngine ==
    frozen # None =>
        \A p \in 1 .. 2 :
           /\ \A c \in Configs : \A r \in DOMAIN frozen.comparison.runs[c][p] :
                 frozen.comparison.runs[c][p][r].ran = frozen.comparison.runs[c][p][r].engine
           /\ \A r \in Reps : frozen.runs[p][r].ran = frozen.runs[p][r].engine

(* The frozen configuration passed calibration, is the only best one, and  *)
(* decided the same in every one of its runs.                              *)
WinnerIsReproducible ==
    frozen # None =>
        LET c == frozen.comparison.selected
            runs == frozen.comparison.runs
        IN  /\ Best(runs) = {c}
            /\ \A p \in 1 .. 2 : \A r \in Reps :
                  /\ runs[c][p][r].outcome # Errors
                  /\ runs[c][p][r].outcome = runs[c][p][1].outcome
                  /\ frozen.runs[p][r].outcome = runs[c][p][r].outcome
-----------------------------------------------------------------------------
(* What keeps the last true at every step: the comparison goes through the *)
(* configurations in order and completes each, a summary has all its runs. *)
Complete(runs) == Len(runs[1]) = Repetitions /\ Len(runs[2]) \in {0, Repetitions}

ArtifactsInv == artifacts \in [Configs -> [1 .. 2 -> [Reps -> Artifacts \cup {None}]]]

SuiteInv ==
    /\ suite \in [pc : {"idle", "run", "select"}, resume : BOOLEAN, config : Configs,
                  part : 1 .. 2, loaded : Engines \cup {None}, runs : [Configs -> [1 .. 2 -> Seq(Artifacts)]]]
    /\ \A c \in Configs :
          /\ c < suite.config \/ suite.pc = "select" => Complete(suite.runs[c])
          /\ c > suite.config => \A p \in 1 .. 2 : suite.runs[c][p] = <<>>
    /\ suite.loaded # None => suite.pc = "run" /\ Len(Runs) < Repetitions
    /\ suite.pc # "select" => /\ Len(Runs) <= Repetitions
                              /\ suite.part = 1 => suite.runs[suite.config][2] = <<>>
                              /\ suite.part = 2 => Len(suite.runs[suite.config][1]) = Repetitions

ComparisonInv ==
    comparison # None => /\ comparison.runs \in [Configs -> [1 .. 2 -> Seq(Artifacts)]]
                         /\ \A c \in Configs : Complete(comparison.runs[c])

FinalInv ==
    /\ final = [pc |-> final.pc, loaded |-> final.loaded, engine |-> final.engine,
                source |-> final.source, runs |-> final.runs]
    /\ final.loaded \in Engines \cup {None}
    /\ final.runs \in [1 .. 2 -> Seq(Artifacts)]
    /\ final.pc = "start" => \A p \in 1 .. 2 : final.runs[p] = <<>>
    /\ final.pc # "start" => final.loaded \in Engines
    /\ final.pc = "summary" => \A p \in 1 .. 2 : Len(final.runs[p]) = Repetitions

RunsInv ==
    /\ engine \in Engines
    /\ ArtifactsInv
    /\ SuiteInv
    /\ ComparisonInv
    /\ FinalInv
    /\ WinnerIsReproducible
==============================================================================
