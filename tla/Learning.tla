------------------------------- MODULE Learning -------------------------------
(***************************************************************************)
(* The first half of Analyze (internal/brain/predictor.go): the short-term *)
(* memory feeds the baseline.  Each tick inserts the new reading, learns   *)
(* the one Analyze takes out of the memory, and only then measures that    *)
(* reading against the baseline, which holds it already.                   *)
(*                                                                         *)
(* Bound: a process learns at most MaxSamples readings before it is        *)
(* restarted, so that the arithmetic of Baseline stays exact.              *)
(***************************************************************************)
EXTENDS ShortTermMemory, Baseline, SequencesExt

CONSTANT MaxSamples     \* bound on the readings learnt by one process

ASSUME VectorAssumption == \A r \in Reading : \A j \in Vars : r[j] \in Int

\* No division in Update leaves a remainder.
ASSUME ExactAssumption ==
  MaxSamples \in Nat /\ \A n \in 1 .. MaxSamples - 1 : Scale % (n * (n + 1)) = 0

VARIABLES
  baseline,       \* pc.welford
  distance,       \* the squared distance of the last Analyze, or NoDistance
  learnt          \* history: the readings learnt, in order

learnVars == <<data, head, count, analysed, baseline, distance, learnt>>

LearnInit ==
  /\ MemInit
  /\ baseline = NewBaseline
  /\ distance = NoDistance
  /\ learnt = <<>>

\* Slip: the reading is measured against the baseline as it was before.
LearnJudgingFirst(x) ==
  /\ baseline' = Update(baseline, x)
  /\ distance' = Judged(baseline, x)
  /\ learnt' = Append(learnt, x)

\* Slip: the baseline is that of the readings still in memory.
LearnFromWindow(x) ==
  /\ baseline' = FoldLeft(Update, NewBaseline, Chronological')
  /\ distance' = Judged(baseline', x)
  /\ learnt' = Append(learnt, x)

Learn(x) ==
  /\ baseline' = Update(baseline, x)
  /\ distance' = Judged(baseline', x)
  /\ learnt' = Append(learnt, x)

\* Analyze returns before it learns while the memory holds a single reading.
LearnTick(r) ==
  /\ baseline.n < MaxSamples
  /\ MemTick(r)
  /\ IF count' > 1 THEN Learn(analysed') ELSE UNCHANGED <<baseline, distance, learnt>>

LearnRestart ==
  /\ MemRestart
  /\ baseline' = NewBaseline
  /\ distance' = NoDistance
  /\ learnt' = <<>>

LearnNext == (\E r \in Reading : LearnTick(r)) \/ LearnRestart

LearnSpec == LearnInit /\ [][LearnNext]_learnVars

-----------------------------------------------------------------------------
(* Properties.                                                             *)

\* Learning one reading at a time gives the mean and the covariance that
\* linalg/statistics.go computes from all of them: the short formula of Update
\* drifts in no sequence of readings.
BaselineIsBatch ==
  /\ baseline.n = Len(learnt)
  /\ learnt # <<>> => /\ baseline.mean = MeanVector(learnt)
                      /\ baseline.m2 = CentredProducts(learnt)

\* A process that has judged one reading judges every later one: Analyze falls
\* back into its cold start at no later sequence of readings, however constant.
\* PredictiveCortex relies on it where it allows a cold start only at first.
JudgedForGood ==
  [][distance # NoDistance /\ baseline'.n > 0 => distance' # NoDistance]_learnVars

\* A variable that never changes, as that of a probe that was skipped, keeps the
\* covariance singular: as long as one is constant the agent judges nothing and
\* stays in its cold start, whatever the other variables do.
ConstantVariableBlinds ==
  (\E j \in Vars : \A i, k \in DOMAIN learnt : learnt[i][j] = learnt[k][j])
    => distance = NoDistance

\* A reading is part of the baseline it is measured against, so its squared
\* distance never exceeds (n - 1)^2 / n.  With the default thresholds no single
\* reading is far enough for Containment before the 33rd sample, or for Survival
\* before the 146th, however extreme it is.
DistanceBounded ==
  distance # NoDistance =>
    /\ distance.den > 0
    /\ distance.num \in 0 .. ((baseline.n - 1) * distance.den) \div baseline.n

=============================================================================
