------------------------ MODULE DevelopmentRunsProofs ------------------------
(* How the frozen configuration is chosen keeps RunsInv, step by step, for   *)
(* every number of configurations, of repetitions and of starts, and under   *)
(* every edit, discarded artifact and interruption.  EvaluationProofs makes  *)
(* theorems of the whole specification of it.                                *)
EXTENDS DevelopmentRuns, SequenceTheorems, TLAPS

\* Configurations are numbered, as the comparison takes them in turn.
Numbered == /\ Repetitions \in Nat
            /\ \E n \in Nat : n >= 1 /\ Configs = 1 .. n

Entries == [Configs -> [1 .. 2 -> Seq(Artifacts)]]

\* Nothing was frozen by the step.
LEMMA FrozenStands ==
    ASSUME RunsInv, UNCHANGED frozen
    PROVE  WinnerIsReproducible'
<1>1. WinnerIsReproducible' = WinnerIsReproducible
  BY DEF WinnerIsReproducible, Best, Eligible, Quality, Stable, Failed
<1> QED BY <1>1 DEF RunsInv

LEMMA SuiteStands ==
    ASSUME SuiteInv, UNCHANGED suite
    PROVE  SuiteInv'
BY DEF SuiteInv, Runs

LEMMA NoSuiteFits ==
    ASSUME Numbered, NEW resume \in BOOLEAN, NEW pc \in {"idle", "run"},
           suite' = [pc |-> pc, resume |-> resume, config |-> 1, part |-> 1, loaded |-> None,
                     runs |-> NoRuns]
    PROVE  SuiteInv'
<1>1. NoRuns \in Entries /\ \A c \in Configs, p \in 1 .. 2 : NoRuns[c][p] = <<>>
  BY DEF NoRuns, Entries
<1>2. 1 \in Configs /\ Repetitions \in Nat /\ \A c \in Configs : ~ (c < 1)
  BY DEF Numbered
<1>3. Len(<<>>) = 0
  OBVIOUS
<1>4. /\ suite'.pc = pc /\ suite'.config = 1 /\ suite'.part = 1 /\ suite'.runs = NoRuns
      /\ suite'.loaded = None
      /\ suite' \in [pc : {"idle", "run", "select"}, resume : BOOLEAN, config : Configs,
                     part : 1 .. 2, loaded : Engines \cup {None}, runs : Entries]
  BY <1>1, <1>2
<1>5. Runs' = <<>>
  BY <1>1, <1>2, <1>4 DEF Runs
<1> QED BY <1>1, <1>2, <1>3, <1>4, <1>5 DEF SuiteInv, Entries

LEMMA SuiteEndsFits == Numbered /\ SuiteEnds => SuiteInv'
BY NoSuiteFits DEF SuiteEnds, NoSuite

\* One more run of the configuration and partition at hand.
LEMMA CollectFits ==
    ASSUME Numbered, SuiteInv, suite.pc = "run", Len(Runs) < Repetitions,
           NEW a \in Artifacts, Collect(a)
    PROVE  SuiteInv'
<1> DEFINE c == suite.config
           p == suite.part
           more == Append(Runs, a)
<1>1. /\ c \in Configs /\ p \in 1 .. 2 /\ suite.runs \in Entries
      /\ Runs = suite.runs[c][p] /\ Runs \in Seq(Artifacts) /\ Repetitions \in Nat
      /\ suite \in [pc : {"idle", "run", "select"}, resume : BOOLEAN, config : Configs,
                    part : 1 .. 2, loaded : Engines \cup {None}, runs : Entries]
  BY DEF SuiteInv, Entries, Runs, Numbered
<1>2. more \in Seq(Artifacts) /\ Len(more) = Len(Runs) + 1 /\ Len(more) <= Repetitions
  <2>1. Len(Runs) \in Nat
    BY <1>1
  <2> QED BY <1>1, <2>1
<1>3. suite' = [suite EXCEPT !.loaded = None,
                        !.runs = [suite.runs EXCEPT ![c] = [suite.runs[c] EXCEPT ![p] = more]]]
  BY <1>1 DEF Collect
<1> HIDE DEF more
<1>4. /\ suite'.pc = "run" /\ suite'.resume = suite.resume
      /\ suite'.config = c /\ suite'.part = p /\ suite'.loaded = None
      /\ suite'.runs = [suite.runs EXCEPT ![c] = [suite.runs[c] EXCEPT ![p] = more]]
      /\ suite' = [pc |-> suite'.pc, resume |-> suite'.resume, config |-> c, part |-> p,
                   loaded |-> None, runs |-> suite'.runs]
  BY <1>1, <1>3
<1>5. /\ suite'.runs \in Entries /\ suite'.runs[c][p] = more
      /\ \A d \in Configs : d # c => suite'.runs[d] = suite.runs[d]
      /\ \A q \in 1 .. 2 : q # p => suite'.runs[c][q] = suite.runs[c][q]
  BY <1>1, <1>2, <1>4 DEF Entries
<1>6. suite' \in [pc : {"idle", "run", "select"}, resume : BOOLEAN, config : Configs,
                  part : 1 .. 2, loaded : Engines \cup {None}, runs : Entries]
  BY <1>1, <1>4, <1>5
<1>7. \A d \in Configs : /\ d < c => Complete(suite'.runs[d])
                         /\ d > c => \A q \in 1 .. 2 : suite'.runs[d][q] = <<>>
  <2>1. c \in Nat /\ \A d \in Configs : d \in Nat
    BY <1>1 DEF Numbered
  <2> QED BY <1>5, <2>1 DEF SuiteInv
<1>8. /\ Runs' = more
      /\ p = 1 => suite'.runs[c][2] = <<>>
      /\ p = 2 => Len(suite'.runs[c][1]) = Repetitions
  BY <1>4, <1>5 DEF SuiteInv, Runs
<1> HIDE DEF c, p
<1> QED BY <1>2, <1>4, <1>6, <1>7, <1>8 DEF SuiteInv, Entries

\* On to the next partition, to the next configuration or to the selection.
LEMMA NextPartitionFits ==
    ASSUME Numbered, SuiteInv, NextPartition
    PROVE  SuiteInv'
<1> DEFINE c == suite.config
<1>1. /\ c \in Configs /\ suite.part \in 1 .. 2 /\ suite.runs \in Entries
      /\ Runs = suite.runs[c][suite.part] /\ Len(Runs) = Repetitions /\ Repetitions \in Nat
      /\ suite \in [pc : {"idle", "run", "select"}, resume : BOOLEAN, config : Configs,
                    part : 1 .. 2, loaded : Engines \cup {None}, runs : Entries]
      /\ suite.pc = "run" /\ suite.loaded = None
  BY DEF SuiteInv, Entries, Runs, Numbered, NextPartition
<1>2. /\ \A d \in Configs : /\ d < c => Complete(suite.runs[d])
                            /\ d > c => \A p \in 1 .. 2 : suite.runs[d][p] = <<>>
      /\ suite.part = 1 => suite.runs[c][2] = <<>>
      /\ suite.part = 2 => Len(suite.runs[c][1]) = Repetitions
  BY <1>1 DEF SuiteInv
<1>3. PICK n \in Nat : n >= 1 /\ Configs = 1 .. n
  BY DEF Numbered
<1>4. CASE suite' = [suite EXCEPT !.part = 2] /\ suite.part = 1
  <2>1. /\ suite'.pc = "run" /\ suite'.config = c /\ suite'.part = 2 /\ suite'.runs = suite.runs
        /\ suite'.loaded = None
        /\ suite' \in [pc : {"idle", "run", "select"}, resume : BOOLEAN, config : Configs,
                       part : 1 .. 2, loaded : Engines \cup {None}, runs : Entries]
    BY <1>1, <1>4
  <2>2. Runs' = <<>> /\ Len(<<>>) = 0 /\ Len(suite.runs[c][1]) = Repetitions
    BY <1>1, <1>2, <1>4, <2>1 DEF Runs
  <2> QED BY <1>1, <1>2, <2>1, <2>2 DEF SuiteInv, Entries
<1>5. ASSUME suite.part = 2 \/ Rejected(Runs)
      PROVE  Complete(suite.runs[c])
  <2>1. CASE suite.part = 1
    BY <1>1, <1>2, <2>1 DEF Complete
  <2>2. CASE suite.part = 2
    BY <1>1, <1>2, <2>2 DEF Complete
  <2> QED BY <1>1, <2>1, <2>2
<1>6. CASE /\ suite' = [suite EXCEPT !.config = @ + 1, !.part = 1]
           /\ suite.config + 1 \in Configs
           /\ suite.part = 2 \/ Rejected(Runs)
  <2>1. /\ suite'.pc = "run" /\ suite'.config = c + 1 /\ suite'.part = 1
        /\ suite'.runs = suite.runs /\ suite'.loaded = None
        /\ suite' \in [pc : {"idle", "run", "select"}, resume : BOOLEAN, config : Configs,
                       part : 1 .. 2, loaded : Engines \cup {None}, runs : Entries]
    <3>1. suite' = [pc |-> "run", resume |-> suite.resume, config |-> c + 1, part |-> 1,
                    loaded |-> None, runs |-> suite.runs]
      BY <1>1, <1>6
    <3> QED BY <1>1, <1>6, <3>1
  <2>2. \A d \in Configs : /\ d < c + 1 => d < c \/ d = c
                           /\ d > c + 1 => d > c
    BY <1>1, <1>3
  <2>3. c + 1 > c
    BY <1>1, <1>3
  <2>4. Runs' = <<>> /\ Len(<<>>) = 0 /\ suite'.runs[c + 1][2] = <<>>
    BY <1>2, <1>6, <2>1, <2>3 DEF Runs
  <2>5. \A d \in Configs : /\ d < c + 1 => Complete(suite.runs[d])
                           /\ d > c + 1 => \A p \in 1 .. 2 : suite.runs[d][p] = <<>>
    BY <1>2, <1>5, <1>6, <2>2
  <2> HIDE DEF c
  <2> QED BY <1>1, <2>1, <2>4, <2>5 DEF SuiteInv, Entries
<1>7. CASE /\ suite' = [suite EXCEPT !.pc = "select"]
           /\ suite.config + 1 \notin Configs
           /\ suite.part = 2 \/ Rejected(Runs)
  <2>1. /\ suite'.pc = "select" /\ suite'.config = c /\ suite'.runs = suite.runs
        /\ suite'.loaded = None
        /\ suite' \in [pc : {"idle", "run", "select"}, resume : BOOLEAN, config : Configs,
                       part : 1 .. 2, loaded : Engines \cup {None}, runs : Entries]
    BY <1>1, <1>7
  <2>2. \A d \in Configs : d < c \/ d = c
    BY <1>1, <1>3, <1>7
  <2>3. \A d \in Configs : Complete(suite.runs[d])
    BY <1>2, <1>5, <1>7, <2>2
  <2> QED BY <1>2, <2>1, <2>3 DEF SuiteInv, Entries
<1> QED BY <1>1, <1>4, <1>5, <1>6, <1>7 DEF NextPartition
-----------------------------------------------------------------------------
(* An outcome is an error or one of two qualities, so there is a best one   *)
(* among the eligible configurations, and only one when there is no tie.    *)
LEMMA SelectedIsTheBest ==
    ASSUME NEW entries \in Entries, ~ Tied(entries), Selected(entries) # None
    PROVE  Selected(entries) \in Eligible(entries) /\ Best(entries) = {Selected(entries)}
<1>1. Eligible(entries) # {} /\ Selected(entries) = CHOOSE c \in Best(entries) : TRUE
  BY DEF Selected
<1>2. \A c \in Eligible(entries) : c \in Configs /\ Quality(entries, c) \in {1, 2}
  <2> SUFFICES ASSUME NEW c \in Eligible(entries)
               PROVE  c \in Configs /\ Quality(entries, c) \in {1, 2}
    OBVIOUS
  <2> DEFINE runs == entries[c][2]
  <2>1. c \in Configs /\ Len(runs) > 0 /\ ~ Failed(runs) /\ runs \in Seq(Artifacts)
    BY DEF Eligible, Entries
  <2> HIDE DEF runs
  <2>2. 1 \in DOMAIN runs /\ runs[1] \in Artifacts
    BY <2>1
  <2>3. runs[1].outcome \in Outcomes /\ runs[1].outcome # Errors
    BY <2>1, <2>2 DEF Failed, Artifacts
  <2>4. runs[1].outcome \in {1, 2}
    BY <2>3 DEF Outcomes, Errors
  <2> QED BY <2>1, <2>4 DEF runs, Quality
<1>3. Best(entries) # {}
  <2>1. CASE \E c \in Eligible(entries) : Quality(entries, c) = 2
    <3> PICK c \in Eligible(entries) : Quality(entries, c) = 2
      BY <2>1
    <3>1. \A d \in Eligible(entries) : Quality(entries, d) <= Quality(entries, c)
      BY <1>2
    <3> QED BY <3>1 DEF Best
  <2>2. CASE \A c \in Eligible(entries) : Quality(entries, c) # 2
    <3> PICK c : c \in Eligible(entries)
      BY <1>1
    <3>1. \A d \in Eligible(entries) : Quality(entries, d) <= Quality(entries, c)
      BY <1>2, <2>2
    <3> QED BY <3>1 DEF Best
  <2> QED BY <2>1, <2>2
<1>4. Selected(entries) \in Best(entries)
  BY <1>1, <1>3
<1>5. \A c \in Best(entries) : c = Selected(entries)
  BY <1>4 DEF Tied
<1>6. Best(entries) \subseteq Eligible(entries)
  BY DEF Best
<1> QED BY <1>4, <1>5, <1>6

\* What the evidence check accepts is an untied winner that ran to the end on both partitions.
LEMMA ValidWinner ==
    ASSUME ComparisonInv, Repetitions \in Nat, NEW e, Valid(e)
    PROVE  LET c == comparison.selected
               runs == comparison.runs
           IN  /\ c \in Configs /\ Best(runs) = {c}
               /\ \A p \in 1 .. 2 : /\ runs[c][p] \in Seq(Artifacts)
                                    /\ Len(runs[c][p]) = Repetitions
                                    /\ Stable(runs[c][p]) /\ ~ Failed(runs[c][p])
<1> DEFINE c == comparison.selected
           runs == comparison.runs
<1>1. /\ runs \in Entries /\ \A d \in Configs : Complete(runs[d])
      /\ \A d \in Configs : Rejected(runs[d][1]) <=> runs[d][2] = <<>>
      /\ ~ Tied(runs) /\ c # None /\ c = Selected(runs)
  BY DEF Valid, ComparisonInv, Entries
<1> HIDE DEF c, runs
<1>2. c \in Eligible(runs) /\ Best(runs) = {c}
  BY <1>1, SelectedIsTheBest
<1>3. c \in Configs /\ Len(runs[c][2]) > 0 /\ Stable(runs[c][2]) /\ ~ Failed(runs[c][2])
  BY <1>2 DEF Eligible
<1>4. Len(runs[c][2]) = Repetitions /\ Len(runs[c][1]) = Repetitions
  BY <1>1, <1>3 DEF Complete
<1>5. Len(<<>>) = 0
  OBVIOUS
<1>6. runs[c][2] # <<>>
  BY <1>3, <1>5
<1>7. Stable(runs[c][1]) /\ ~ Failed(runs[c][1])
  BY <1>1, <1>3, <1>6 DEF Rejected
<1>8. \A p \in 1 .. 2 : p = 1 \/ p = 2
  OBVIOUS
<1>9. \A p \in 1 .. 2 : runs[c][p] \in Seq(Artifacts)
  BY <1>1, <1>3 DEF Entries
<1> QED BY <1>2, <1>3, <1>4, <1>7, <1>8, <1>9 DEF c, runs

LEMMA EvidenceKeeps ==
    ASSUME Numbered, RunsInv, CheckEvidence
    PROVE  RunsInv'
<1>1. /\ ComparisonInv /\ FinalInv /\ Repetitions \in Nat /\ Freezable
      /\ UNCHANGED <<engine, artifacts, suite, comparison, final>>
      /\ frozen' = [engine |-> None, comparison |-> comparison, runs |-> final.runs]
  BY DEF RunsInv, Numbered, CheckEvidence
<1>2. engine' \in Engines /\ ArtifactsInv' /\ SuiteInv' /\ ComparisonInv' /\ FinalInv'
  BY <1>1, SuiteStands DEF RunsInv, ArtifactsInv, ComparisonInv, Complete, FinalInv
<1> DEFINE c == comparison.selected
           runs == comparison.runs
<1>4. /\ c \in Configs /\ Best(runs) = {c}
      /\ \A p \in 1 .. 2 : /\ runs[c][p] \in Seq(Artifacts) /\ Len(runs[c][p]) = Repetitions
                           /\ Stable(runs[c][p]) /\ ~ Failed(runs[c][p])
  BY <1>1, ValidWinner DEF Freezable
<1>5. \A p \in 1 .. 2 : /\ final.runs[p] \in Seq(Artifacts) /\ Len(final.runs[p]) = Repetitions
                        /\ OutcomesOf(final.runs[p]) = OutcomesOf(runs[c][p])
  BY <1>1 DEF Freezable, FinalInv
<1>6. frozen'.comparison.selected = c /\ frozen'.comparison.runs = runs
      /\ frozen'.runs = final.runs
  BY <1>1
<1> HIDE DEF c, runs
<1>7. ASSUME NEW p \in 1 .. 2, NEW r \in Reps
      PROVE  /\ runs[c][p][r].outcome # Errors
             /\ runs[c][p][r].outcome = runs[c][p][1].outcome
             /\ final.runs[p][r].outcome = runs[c][p][r].outcome
  <2>1. r \in DOMAIN runs[c][p] /\ 1 \in DOMAIN runs[c][p]
    BY <1>1, <1>4 DEF Reps
  <2>2. r \in DOMAIN final.runs[p]
    BY <1>1, <1>5 DEF Reps
  <2>3. OutcomesOf(final.runs[p])[r] = OutcomesOf(runs[c][p])[r]
    BY <1>5
  <2>4. final.runs[p][r].outcome = runs[c][p][r].outcome
    BY <2>1, <2>2, <2>3 DEF OutcomesOf
  <2> QED BY <1>4, <2>1, <2>4 DEF Stable, Failed
<1>8. WinnerIsReproducible'
  <2> DEFINE e == frozen'.comparison.runs
  <2>1. Best(e) = {c}
    BY <1>4, <1>6
  <2>2. Best(frozen.comparison.runs)' = Best(e)
    BY DEF Best, Eligible, Quality, Stable, Failed
  <2> QED BY <1>6, <1>7, <2>1, <2>2 DEF WinnerIsReproducible
<1> QED BY <1>2, <1>8 DEF RunsInv

\* The evidence stands, with the engine of the record, or is dropped.
LEMMA RecordKeeps ==
    ASSUME Numbered, RunsInv, RecordFreeze
    PROVE  RunsInv'
<1>1. /\ UNCHANGED <<engine, artifacts, suite, comparison, final>>
      /\ frozen # None
      /\ frozen' = [frozen EXCEPT !.engine = engine] \/ frozen' = None
  BY DEF RecordFreeze
<1>2. engine' \in Engines /\ ArtifactsInv' /\ SuiteInv' /\ ComparisonInv' /\ FinalInv'
  BY <1>1, SuiteStands DEF RunsInv, ArtifactsInv, ComparisonInv, Complete, FinalInv
<1>3. CASE frozen' = None
  BY <1>2, <1>3 DEF RunsInv, WinnerIsReproducible
<1>4. CASE frozen' = [frozen EXCEPT !.engine = engine]
  <2>1. frozen'.comparison = frozen.comparison /\ frozen'.runs = frozen.runs
    BY <1>4
  <2> DEFINE runs == frozen.comparison.runs
             won == frozen.comparison.selected
  <2>2. /\ Best(runs) = {won}
        /\ \A p \in 1 .. 2 : \A r \in Reps :
              /\ runs[won][p][r].outcome # Errors
              /\ runs[won][p][r].outcome = runs[won][p][1].outcome
              /\ frozen.runs[p][r].outcome = runs[won][p][r].outcome
    <3>1. WinnerIsReproducible
      BY DEF RunsInv
    <3> QED BY <1>1, <3>1, Zenon DEF WinnerIsReproducible
  <2>3. frozen'.comparison.runs = runs /\ frozen'.comparison.selected = won
    BY <2>1
  <2>4. Best(frozen.comparison.runs)' = Best(frozen'.comparison.runs)
    BY DEF Best, Eligible, Quality, Stable, Failed
  <2> HIDE DEF runs, won
  <2>5. WinnerIsReproducible'
    BY <2>1, <2>2, <2>3, <2>4 DEF WinnerIsReproducible
  <2> QED BY <1>2, <2>5 DEF RunsInv
<1> QED BY <1>1, <1>3, <1>4
-----------------------------------------------------------------------------
\* The comparison collects what is on disk, or what it just put there.
LEMMA ExecuteFits ==
    ASSUME Numbered, RunsInv, ExecuteIfNeeded
    PROVE  ArtifactsInv' /\ SuiteInv'
<1> DEFINE c == suite.config
           p == suite.part
           r == Len(Runs) + 1
<1>1. /\ SuiteInv /\ ArtifactsInv /\ engine \in Engines /\ suite.pc = "run"
      /\ Len(Runs) < Repetitions
  BY DEF RunsInv, ExecuteIfNeeded, TakeUp, StartRun, EndRun, Due, SuiteInv
<1>2. c \in Configs /\ p \in 1 .. 2 /\ Runs \in Seq(Artifacts) /\ Repetitions \in Nat
  BY <1>1 DEF SuiteInv, Runs, Numbered
<1>3. r \in Reps
  <2>1. Len(Runs) \in Nat
    BY <1>2
  <2> QED BY <1>1, <1>2, <2>1 DEF Reps
<1>4. artifacts[c][p][r] \in Artifacts \cup {None}
  BY <1>1, <1>2, <1>3 DEF ArtifactsInv
<1> HIDE DEF c, p, r
<1>5. CASE TakeUp
  <2>1. artifacts[c][p][r] # None /\ UNCHANGED artifacts
        /\ (Collect(artifacts[c][p][r]) \/ SuiteEnds)
    BY <1>5 DEF TakeUp, Artifact, c, p, r
  <2>2. ArtifactsInv'
    BY <1>1, <2>1 DEF ArtifactsInv
  <2> QED BY <1>1, <1>4, <2>1, <2>2, CollectFits, SuiteEndsFits
<1>6. CASE StartRun
  <2>1. ArtifactsInv'
    BY <1>1, <1>6 DEF ArtifactsInv, StartRun
  <2>2. suite' = [suite EXCEPT !.loaded = engine]
    BY <1>6 DEF StartRun
  <2>3. suite' = [pc |-> suite.pc, resume |-> suite.resume, config |-> suite.config,
                  part |-> suite.part, loaded |-> engine, runs |-> suite.runs]
    BY <1>1, <2>2 DEF SuiteInv
  <2>4. Runs' = Runs
    BY <2>3 DEF Runs
  <2> QED BY <1>1, <2>1, <2>3, <2>4 DEF SuiteInv
<1>7. CASE EndRun
  <2>1. PICK o \in Outcomes :
           LET a == [ran |-> suite.loaded, engine |-> engine, outcome |-> o]
           IN  artifacts' = [artifacts EXCEPT ![c][p][r] = a] /\ Collect(a)
    BY <1>7 DEF EndRun, c, p, r
  <2> DEFINE a == [ran |-> suite.loaded, engine |-> engine, outcome |-> o]
  <2>2. a \in Artifacts
    BY <1>1, <1>7 DEF Artifacts, SuiteInv, EndRun
  <2>3. artifacts' = [artifacts EXCEPT ![c][p][r] = a] /\ Collect(a)
    BY <2>1
  <2> HIDE DEF a
  <2>4. ArtifactsInv'
    BY <1>1, <1>2, <1>3, <2>2, <2>3 DEF ArtifactsInv
  <2> QED BY <1>1, <2>2, <2>3, <2>4, CollectFits
<1> QED BY <1>5, <1>6, <1>7 DEF ExecuteIfNeeded

LEMMA SuiteKeeps ==
    ASSUME Numbered, RunsInv, Suite
    PROVE  RunsInv'
<1>0. UNCHANGED <<engine, final, frozen>>
  <2>1. CASE StartSuite \/ InterruptSuite \/ NextPartition \/ WriteComparison
    BY <2>1, Zenon DEF StartSuite, InterruptSuite, NextPartition, WriteComparison
  <2>2. CASE TakeUp \/ StartRun
    BY <2>2 DEF TakeUp, StartRun
  <2>3. CASE EndRun
    BY <2>3, Zenon DEF EndRun
  <2> QED BY <2>1, <2>2, <2>3 DEF Suite, ExecuteIfNeeded
<1>1. /\ UNCHANGED <<engine, final, frozen>> /\ Repetitions \in Nat
      /\ FinalInv /\ SuiteInv /\ ArtifactsInv /\ ComparisonInv /\ engine \in Engines
  BY <1>0 DEF RunsInv, Numbered
<1>2. FinalInv' = FinalInv /\ engine' = engine
  BY <1>1 DEF FinalInv
<1>3. WinnerIsReproducible'
  BY <1>1, FrozenStands
<1>4. UNCHANGED artifacts => ArtifactsInv'
  BY <1>1 DEF ArtifactsInv
<1>5. UNCHANGED comparison => ComparisonInv'
  BY <1>1 DEF ComparisonInv, Complete
<1>6. CASE StartSuite
  <2>1. SuiteInv'
    BY <1>6, NoSuiteFits DEF StartSuite, NoSuite
  <2> QED BY <1>1, <1>2, <1>3, <1>4, <1>5, <1>6, <2>1 DEF RunsInv, StartSuite
<1>7. CASE InterruptSuite
  <2>1. SuiteInv'
    BY <1>7, SuiteEndsFits DEF InterruptSuite
  <2> QED BY <1>1, <1>2, <1>3, <1>4, <1>5, <1>7, <2>1 DEF RunsInv, InterruptSuite
<1>8. CASE ExecuteIfNeeded
  <2>1. SuiteInv' /\ ArtifactsInv'
    BY <1>8, ExecuteFits
  <2>2. UNCHANGED comparison
    BY <1>8 DEF ExecuteIfNeeded, TakeUp, StartRun, EndRun
  <2> QED BY <1>1, <1>2, <1>3, <1>5, <2>1, <2>2 DEF RunsInv
<1>9. CASE NextPartition
  <2>1. SuiteInv'
    BY <1>1, <1>9, NextPartitionFits
  <2> QED BY <1>1, <1>2, <1>3, <1>4, <1>5, <1>9, <2>1 DEF RunsInv, NextPartition
<1>10. CASE WriteComparison
  <2>1. SuiteInv'
    BY <1>10, SuiteEndsFits DEF WriteComparison
  <2>2. suite.runs \in Entries /\ \A c \in Configs : Complete(suite.runs[c])
    BY <1>1, <1>10 DEF SuiteInv, Entries, WriteComparison
  <2>3. ComparisonInv'
    <3>1. CASE UNCHANGED comparison
      BY <1>5, <3>1
    <3>2. CASE comparison' = [engine |-> engine, runs |-> suite.runs,
                              selected |-> Selected(suite.runs)]
      BY <2>2, <3>2 DEF ComparisonInv, Complete, Entries
    <3> QED BY <1>10, <3>1, <3>2 DEF WriteComparison
  <2> QED BY <1>1, <1>2, <1>3, <1>4, <1>10, <2>1, <2>3 DEF RunsInv, WriteComparison
<1> QED BY <1>6, <1>7, <1>8, <1>9, <1>10 DEF Suite
-----------------------------------------------------------------------------
\* The runs of the final runtime are of the engine its process loaded.
LEMMA FinalizeKeeps ==
    ASSUME Numbered, RunsInv, Finalize
    PROVE  RunsInv'
<1>1. /\ UNCHANGED <<engine, artifacts, suite, comparison, frozen>> /\ Repetitions \in Nat
      /\ FinalInv /\ SuiteInv /\ ArtifactsInv /\ ComparisonInv /\ engine \in Engines
  BY DEF RunsInv, Numbered, Finalize, LoadFinal, BeginFinal, FinalRun, Summarize, InterruptFinal
<1>2. engine' \in Engines /\ ArtifactsInv' /\ SuiteInv' /\ ComparisonInv'
  BY <1>1, SuiteStands DEF ArtifactsInv, ComparisonInv, Complete
<1> DEFINE Is(pc, loaded, e, source, runs) ==
               final' = [pc |-> pc, loaded |-> loaded, engine |-> e, source |-> source,
                         runs |-> runs]
<1>3. final = [pc |-> final.pc, loaded |-> final.loaded, engine |-> final.engine,
               source |-> final.source, runs |-> final.runs]
  BY <1>1 DEF FinalInv
<1>11. ASSUME LoadFinal PROVE FinalInv'
  <2>1. Is("start", engine, final.engine, final.source, final.runs) /\ final.pc = "start"
    BY <1>3, <1>11 DEF LoadFinal
  <2> QED BY <1>1, <2>1 DEF FinalInv
<1>4. ASSUME BeginFinal PROVE FinalInv'
  <2>1. /\ Is("run", final.loaded, engine, comparison, final.runs)
        /\ final.pc = "start" /\ final.loaded # None
    BY <1>3, <1>4 DEF BeginFinal
  <2> QED BY <1>1, <2>1 DEF FinalInv
<1> HIDE DEF Is
<1>5. ASSUME NEW pc \in {"summary", "failed"}, final.pc # "start",
             Is(pc, final.loaded, final.engine, final.source, final.runs),
             pc = "summary" => \A p \in 1 .. 2 : Len(final.runs[p]) = Repetitions
      PROVE  FinalInv'
  <2>1. /\ final'.pc = pc /\ final'.loaded = final.loaded /\ final'.engine = final.engine
        /\ final'.runs = final.runs /\ final'.source = final.source
    BY <1>5 DEF Is
  <2> QED BY <1>1, <1>5, <2>1 DEF FinalInv, Is
<1>6. ASSUME FinalRun PROVE FinalInv'
  <2>1. PICK p \in 1 .. 2, o \in Outcomes :
           LET a == [ran |-> final.loaded, engine |-> engine, outcome |-> o]
           IN  final' = IF Fresh(a) THEN [final EXCEPT !.runs[p] = Append(@, a)]
                                    ELSE [final EXCEPT !.pc = "failed"]
    BY <1>6 DEF FinalRun
  <2> DEFINE a == [ran |-> final.loaded, engine |-> engine, outcome |-> o]
             more == Append(final.runs[p], a)
  <2>2. final.pc = "run" /\ final.loaded \in Engines
    BY <1>1, <1>6 DEF FinalRun, FinalInv
  <2>3. a \in Artifacts /\ final.runs[p] \in Seq(Artifacts)
    BY <1>1, <2>2 DEF Artifacts, FinalInv
  <2>4. CASE ~ Fresh(a)
    <3>1. Is("failed", final.loaded, final.engine, final.source, final.runs)
      BY <1>3, <2>1, <2>4 DEF Is
    <3> QED BY <1>5, <2>2, <3>1
  <2>5. CASE Fresh(a)
    <3> DEFINE runs == [final.runs EXCEPT ![p] = more]
    <3>1. Is("run", final.loaded, final.engine, final.source, runs)
      BY <1>3, <2>1, <2>2, <2>5 DEF Is
    <3> HIDE DEF a
    <3>2. more \in Seq(Artifacts)
      BY <2>3
    <3> HIDE DEF more
    <3>3. runs \in [1 .. 2 -> Seq(Artifacts)]
      BY <1>1, <3>2 DEF FinalInv
    <3> HIDE DEF runs
    <3>4. /\ final'.pc = "run" /\ final'.loaded = final.loaded /\ final'.engine = final.engine
          /\ final'.runs = runs /\ final'.source = final.source
      BY <3>1 DEF Is
    <3> QED BY <2>2, <3>1, <3>3, <3>4 DEF FinalInv, Is
  <2> QED BY <2>4, <2>5
<1>7. ASSUME Summarize PROVE FinalInv'
  <2>1. PICK pc \in {"summary", "failed"} : final' = [final EXCEPT !.pc = pc]
    BY <1>7 DEF Summarize
  <2>2. Is(pc, final.loaded, final.engine, final.source, final.runs)
    BY <1>3, <2>1 DEF Is
  <2>3. final.pc # "start" /\ (pc = "summary" => \A p \in 1 .. 2 : Len(final.runs[p]) = Repetitions)
    BY <1>7 DEF Summarize
  <2> QED BY <1>5, <2>2, <2>3
<1>8. ASSUME InterruptFinal PROVE FinalInv'
  <2>1. Is("failed", final.loaded, final.engine, final.source, final.runs) /\ final.pc # "start"
    BY <1>3, <1>8 DEF Is, InterruptFinal
  <2> QED BY <1>5, <2>1
<1>9. FinalInv'
  BY <1>4, <1>6, <1>7, <1>8, <1>11 DEF Finalize
<1>10. WinnerIsReproducible'
  BY <1>1, FrozenStands
<1> QED BY <1>2, <1>9, <1>10 DEF RunsInv

\* An edit or a discarded artifact, or nothing at all.
LEMMA MeddlingKeeps ==
    ASSUME Numbered, RunsInv, EditEngine \/ Discard \/ UNCHANGED vars
    PROVE  RunsInv'
<1>1. /\ UNCHANGED <<suite, comparison, final, frozen>> /\ Repetitions \in Nat
      /\ FinalInv /\ SuiteInv /\ ArtifactsInv /\ ComparisonInv /\ engine \in Engines
  BY DEF RunsInv, Numbered, EditEngine, Discard, vars
<1>2. SuiteInv' /\ ComparisonInv' /\ FinalInv'
  BY <1>1, SuiteStands DEF ComparisonInv, Complete, FinalInv
<1>3. WinnerIsReproducible'
  BY <1>1, FrozenStands
<1>4. engine' \in Engines
  BY <1>1 DEF EditEngine, Discard, vars
<1>5. ArtifactsInv'
  <2>1. CASE UNCHANGED artifacts
    BY <1>1, <2>1 DEF ArtifactsInv
  <2>2. CASE Discard
    <3> PICK c \in Configs, p \in 1 .. 2, r \in Reps :
           artifacts' = [artifacts EXCEPT ![c][p][r] = None]
      BY <2>2 DEF Discard
    <3> QED BY <1>1 DEF ArtifactsInv
  <2> QED BY <2>1, <2>2 DEF EditEngine, vars
<1> QED BY <1>2, <1>3, <1>4, <1>5 DEF RunsInv

LEMMA RunsInit == Numbered /\ Init => RunsInv
<1> SUFFICES ASSUME Numbered, Init PROVE RunsInv
  OBVIOUS
<1>1. engine \in Engines /\ ArtifactsInv
  BY DEF Init, ArtifactsInv
<1>2. NoRuns \in Entries /\ \A c \in Configs, p \in 1 .. 2 : NoRuns[c][p] = <<>>
  BY DEF NoRuns, Entries
<1>3. 1 \in Configs /\ Repetitions \in Nat /\ \A c \in Configs : ~ (c < 1)
  BY DEF Numbered
<1>4. Len(<<>>) = 0
  OBVIOUS
<1>5. /\ suite.pc = "idle" /\ suite.config = 1 /\ suite.part = 1 /\ suite.runs = NoRuns
      /\ suite.loaded = None
      /\ suite \in [pc : {"idle", "run", "select"}, resume : BOOLEAN, config : Configs,
                    part : 1 .. 2, loaded : Engines \cup {None}, runs : Entries]
  BY <1>2, <1>3 DEF Init, NoSuite
<1>6. Runs = <<>>
  BY <1>2, <1>3, <1>5 DEF Runs
<1>7. SuiteInv
  BY <1>2, <1>3, <1>4, <1>5, <1>6 DEF SuiteInv, Entries
<1>8. /\ final.pc = "start" /\ final.loaded = None /\ final.runs = <<<<>>, <<>>>>
      /\ final = [pc |-> final.pc, loaded |-> final.loaded, engine |-> final.engine,
                  source |-> final.source, runs |-> final.runs]
  BY DEF Init
<1>9. /\ <<<<>>, <<>>>> \in [1 .. 2 -> Seq(Artifacts)]
      /\ \A p \in 1 .. 2 : <<<<>>, <<>>>>[p] = <<>> /\ DOMAIN <<<<>>, <<>>>>[p] = {}
  <2>1. 1 .. 2 = {1, 2} /\ DOMAIN <<<<>>, <<>>>> = 1 .. 2
    OBVIOUS
  <2>2. <<<<>>, <<>>>>[1] = <<>> /\ <<<<>>, <<>>>>[2] = <<>> /\ <<>> \in Seq(Artifacts)
    OBVIOUS
  <2> DEFINE none == <<<<>>, <<>>>>
  <2>3. DOMAIN none = {1, 2} /\ none = [p \in DOMAIN none |-> none[p]]
    OBVIOUS
  <2>4. DOMAIN <<>> = {}
    OBVIOUS
  <2>5. none[1] = <<>> /\ none[2] = <<>>
    OBVIOUS
  <2> HIDE DEF none
  <2>6. none \in [{1, 2} -> Seq(Artifacts)]
    BY <2>2, <2>3, <2>5
  <2>7. \A p \in {1, 2} : none[p] = <<>> /\ DOMAIN none[p] = {}
    BY <2>4, <2>5
  <2> QED BY <2>1, <2>6, <2>7 DEF none
<1>10. FinalInv
  BY <1>8, <1>9 DEF FinalInv
<1> QED BY <1>1, <1>7, <1>8, <1>10
        DEF Init, RunsInv, ComparisonInv, WinnerIsReproducible

LEMMA RunsStep == Numbered /\ RunsInv /\ [Next]_vars => RunsInv'
BY SuiteKeeps, FinalizeKeeps, EvidenceKeeps, RecordKeeps, MeddlingKeeps DEF Next, Freeze
=============================================================================
