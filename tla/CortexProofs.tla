---------------------------- MODULE CortexProofs ----------------------------
(***************************************************************************)
(* Proofs about the Predictive Cortex, for every set of distances, every   *)
(* configuration and every hysteresis depth.                               *)
(*                                                                         *)
(* Argument.  CounterIsCalmRun says what belowCount counts.  Together with *)
(* the types it is inductive: each of the four branches of classify either *)
(* pushes a reading that is not calm at the resulting level and resets the *)
(* counter, or extends the calm run by one.  From it, a branch of classify *)
(* is taken exactly when HysteresisLevel takes the matching step.          *)
(*                                                                         *)
(* The first section speaks of PredictiveCortex alone, without the history *)
(* variable; the proofs about the agent use it too.                        *)
(***************************************************************************)
EXTENDS CortexHysteresis, TLAPS

-----------------------------------------------------------------------------
(* The operators of PredictiveCortex, for every configuration.             *)

\* A configured depth that is not positive selects 5, so the depth is positive.
LEMMA DepthPositive == HysteresisDown \in Nat \ {0}
  BY CfgAssumption DEF HysteresisDown, OrDefault

\* Each analysis is stamped with a parity.
LEMMA NextStampType ==
  ASSUME prev \in StressReading \cup {NoReading}
  PROVE  NextStamp \in Stamp
<1>1. CASE prev = NoReading
  BY <1>1 DEF NextStamp, Stamp
<1>2. CASE prev # NoReading
  <2>1. prev.stamp \in Stamp  BY <1>2 DEF StressReading
  <2>2. QED  BY <1>2, <2>1 DEF NextStamp, Stamp
<1>3. QED  BY <1>1, <1>2

\* The highest level of a non-empty set of levels exists.
LEMMA MaxLevel ==
  ASSUME NEW S \in SUBSET Level, S # {}
  PROVE  Max(S) \in S /\ \A l \in S : Max(S) >= l
<1>1. \E m \in S : \A l \in S : m >= l
  <2> USE DEF Level, LevelHomeostasis, LevelSurvival
  <2>1. CASE 4 \in S  BY <2>1
  <2>2. CASE 4 \notin S /\ 3 \in S  BY <2>2
  <2>3. CASE 4 \notin S /\ 3 \notin S /\ 2 \in S  BY <2>3
  <2>4. CASE 4 \notin S /\ 3 \notin S /\ 2 \notin S /\ 1 \in S  BY <2>4
  <2>5. CASE 4 \notin S /\ 3 \notin S /\ 2 \notin S /\ 1 \notin S
    <3>1. \A l \in S : l = 0  BY <2>5
    <3>2. 0 \in S  BY <3>1
    <3>3. QED  BY <3>1, <3>2
  <2>6. QED  BY <2>1, <2>2, <2>3, <2>4, <2>5
<1>2. QED  BY <1>1 DEF Max

\* The magnitude of a reading, with or without the derivative, demands a level,
\* and the derivative never lowers the demand.
LEMMA DemandIsLevel ==
  ASSUME NEW dm \in DMs, NEW trend \in Trend
  PROVE  /\ MagnitudeLevel(dm) \in Level
         /\ DemandedLevel(dm, trend) \in Level
         /\ DemandedLevel(dm, trend) >= MagnitudeLevel(dm)
<1>1. MagnitudeLevel(dm) \in Level
  <2> DEFINE S == {LevelHomeostasis} \cup {l \in DOMAIN Threshold : dm >= Threshold[l]}
  <2>1. S \in SUBSET Level /\ S # {}
    <3>1. DOMAIN Threshold = Level \ {LevelHomeostasis}  BY DEF Threshold
    <3>2. LevelHomeostasis \in Level
      BY DEF Level, LevelHomeostasis, LevelSurvival
    <3>3. QED  BY <3>1, <3>2
  <2> HIDE DEF S
  <2>2. Max(S) \in S  BY <2>1, MaxLevel
  <2>3. QED  BY <2>1, <2>2 DEF MagnitudeLevel, S
<1>2. QED
  BY <1>1 DEF DemandedLevel, Level, LevelHomeostasis, LevelSurvival

\* Every branch of classify leaves a level, and a counter below the depth.
LEMMA ClassifyType ==
  ASSUME currentLevel \in Level,
         belowCount \in 0 .. (HysteresisDown - 1),
         NEW demand \in Level, NEW relaxes \in BOOLEAN,
         Classify(demand, relaxes)
  PROVE  currentLevel' \in Level /\ belowCount' \in 0 .. (HysteresisDown - 1)
  BY DepthPositive DEF Classify, Rise, Hold, Wait, Fall

\* classify lowers the level only on the reading that completes the calm run.
LEMMA DescentIsFall ==
  ASSUME currentLevel \in Level,
         belowCount \in 0 .. (HysteresisDown - 1),
         NEW demand \in Level, NEW relaxes \in BOOLEAN,
         Classify(demand, relaxes),
         currentLevel' < currentLevel
  PROVE  belowCount = HysteresisDown - 1
  BY DepthPositive
  DEF Classify, Rise, Hold, Wait, Fall, Level, LevelHomeostasis, LevelSurvival

-----------------------------------------------------------------------------
(* One step of classify, whichever branch it takes.                        *)

\* The inductive invariant.
HInv == HTypeOK /\ CounterIsCalmRun

\* The abstract specification speaks of the same levels.
LEMMA AbstractLevel == Abstract!Level = Level
  BY DEF Abstract!Level, Abstract!LevelHomeostasis, Abstract!LevelSurvival,
         Level, LevelHomeostasis, LevelSurvival

\* Analyze keeps the shape of the state: the new level is the old one or the
\* demand, and the counter stays below the depth.
LEMMA AnalyzeType ==
  ASSUME HTypeOK, NEW dm \in DMs, NEW dt \in Elapsed, HAnalyze(dm, dt)
  PROVE  HTypeOK'
<1> DEFINE trend == TrendOf(dm, dt)
           demand == DemandedLevel(dm, trend)
           entry == [demand |-> demand, relaxes |-> trend.relaxes, held |-> currentLevel]
<1>1. trend \in Trend
  BY DEF TrendOf, Trend
<1>2. demand \in Level
  BY <1>1, DemandIsLevel
<1>3. HysteresisDown \in Nat \ {0}
  BY DepthPositive
<1>4. Classify(demand, trend.relaxes)
  BY DEF HAnalyze, Analyze
<1> HIDE DEF trend, demand
<1>5. currentLevel' \in Level /\ belowCount' \in 0 .. (HysteresisDown - 1)
  <2>1. trend.relaxes \in BOOLEAN
    BY <1>1 DEF Trend
  <2>2. currentLevel \in Level /\ belowCount \in 0 .. (HysteresisDown - 1)
    BY DEF HTypeOK
  <2>3. QED  BY <1>2, <1>4, <2>1, <2>2, ClassifyType
<1>6. prev' \in StressReading
  <2>1. prev' = [dm |-> dm, trend |-> trend, level |-> currentLevel', stamp |-> NextStamp]
    BY DEF HAnalyze, Analyze, trend
  <2>2. NextStamp \in Stamp
    BY NextStampType DEF HTypeOK
  <2>3. QED  BY <1>1, <1>5, <2>1, <2>2 DEF StressReading
<1>7. window' \in [1 .. HysteresisDown -> Abstract!Entry]
  <2>1. entry \in Abstract!Entry
    BY <1>1, <1>2, AbstractLevel DEF HTypeOK, Abstract!Entry, Trend
  <2>2. window' = [i \in 1 .. HysteresisDown |-> IF i = 1 THEN entry ELSE window[i - 1]]
    BY DEF HAnalyze, Abstract!Push, trend, demand
  <2> HIDE DEF entry
  <2>3. \A i \in 1 .. HysteresisDown : i # 1 => window[i - 1] \in Abstract!Entry
    BY <1>3 DEF HTypeOK
  <2>4. QED  BY <2>1, <2>2, <2>3
<1>8. readings' \in 0 .. MinSamples
  BY DEF HAnalyze, Analyze, HTypeOK
<1>9. QED  BY <1>5, <1>6, <1>7, <1>8 DEF HTypeOK

\* The four branches of classify, in terms of the run of calm readings: what
\* belowCount counts is preserved, and the level moves as the counter-free
\* specification moves it.
LEMMA AnalyzeStep ==
  ASSUME HInv, NEW dm \in DMs, NEW dt \in Elapsed, HAnalyze(dm, dt)
  PROVE  CounterIsCalmRun' /\ Abstract!Next
<1> DEFINE trend == TrendOf(dm, dt)
           demand == DemandedLevel(dm, trend)
           relaxes == trend.relaxes
           entry == [demand |-> demand, relaxes |-> relaxes, held |-> currentLevel]
           H == HysteresisDown
           l == currentLevel
<1>1. demand \in Level /\ relaxes \in BOOLEAN
  <2>1. trend \in Trend  BY DEF TrendOf, Trend
  <2>2. QED  BY <2>1, DemandIsLevel DEF Trend
<1>2. Classify(demand, relaxes)
  BY DEF HAnalyze, Analyze
<1>3. window' = [i \in 1 .. H |-> IF i = 1 THEN entry ELSE window[i - 1]]
  BY DEF HAnalyze, Abstract!Push
<1>4. /\ H \in Nat \ {0}
      /\ l \in Level
      /\ belowCount \in 0 .. (H - 1)
      /\ \A i \in 1 .. belowCount : Abstract!Calm(window[i], l)
      /\ ~Abstract!Calm(window[belowCount + 1], l)
  BY DepthPositive DEF HInv, HTypeOK, CounterIsCalmRun
<1> HIDE DEF trend, demand, relaxes, H
<1>5. /\ window'[1] = entry
      /\ \A i \in 2 .. H : window'[i] = window[i - 1]
  BY <1>3, <1>4
<1>6. entry.demand = demand /\ entry.relaxes = relaxes /\ entry.held = l
  OBVIOUS
<1> HIDE DEF entry
<1>7. SUFFICES /\ CounterIsCalmRun'
               /\ currentLevel' = IF demand >= l \/ \A i \in 1 .. H : Abstract!Calm(window'[i], l)
                                    THEN demand ELSE l
  <2>1. window' = Abstract!Push([demand |-> demand, relaxes |-> relaxes, held |-> l])
    BY DEF HAnalyze, trend, demand, relaxes
  <2>2. Abstract!Observe(demand, relaxes)
    BY <1>7, <2>1 DEF Abstract!Observe, H
  <2>3. QED  BY <1>1, <1>7, <2>2, AbstractLevel DEF Abstract!Next
<1>8. CASE Rise(demand)
  <2>1. demand >= l /\ l' = demand /\ belowCount' = 0  BY <1>8 DEF Rise
  <2>2. ~Abstract!Calm(window'[1], l')
    BY <1>1, <1>4, <1>5, <1>6, <2>1 DEF Abstract!Calm, Level, LevelHomeostasis, LevelSurvival
  <2>3. QED  BY <1>4, <2>1, <2>2 DEF CounterIsCalmRun
<1>9. CASE Hold(demand, relaxes)
  <2>1. ~Abstract!Calm(window'[1], l)  BY <1>5, <1>6, <1>9 DEF Hold, Abstract!Calm
  <2>2. ~(demand >= l) /\ l' = l /\ belowCount' = 0
    BY <1>1, <1>4, <1>9 DEF Hold, Level, LevelHomeostasis, LevelSurvival
  <2>3. QED  BY <1>4, <2>1, <2>2 DEF CounterIsCalmRun
<1>10. CASE Wait(demand, relaxes)
  <2>1. Abstract!Calm(window'[1], l)  BY <1>5, <1>6, <1>10 DEF Wait, Abstract!Calm
  <2>2. belowCount' = belowCount + 1 /\ belowCount' < H /\ l' = l
    BY <1>4, <1>10 DEF Wait, H
  <2>3. \A i \in 1 .. belowCount' : Abstract!Calm(window'[i], l)
    BY <1>4, <1>5, <2>1, <2>2
  <2>4. ~Abstract!Calm(window'[belowCount' + 1], l)
    BY <1>4, <1>5, <2>2
  <2>5. ~(demand >= l)
    BY <1>1, <1>4, <1>10 DEF Wait, Level, LevelHomeostasis, LevelSurvival
  <2>6. \E i \in 1 .. H : ~Abstract!Calm(window'[i], l)
    BY <1>4, <2>2, <2>4
  <2>7. QED  BY <2>2, <2>3, <2>4, <2>5, <2>6 DEF CounterIsCalmRun
<1>11. CASE Fall(demand, relaxes)
  <2>1. belowCount = H - 1 /\ belowCount' = 0 /\ l' = demand
    BY <1>4, <1>11 DEF Fall, H
  <2>2. Abstract!Calm(window'[1], l)  BY <1>5, <1>6, <1>11 DEF Fall, Abstract!Calm
  <2>3. \A i \in 1 .. H : Abstract!Calm(window'[i], l)
    BY <1>4, <1>5, <2>1, <2>2
  <2>4. ~Abstract!Calm(window'[1], demand)
    BY <1>1, <1>5, <1>6 DEF Abstract!Calm, Level, LevelHomeostasis, LevelSurvival
  <2>5. QED  BY <1>4, <2>1, <2>3, <2>4 DEF CounterIsCalmRun
<1>12. QED  BY <1>2, <1>8, <1>9, <1>10, <1>11 DEF Classify

-----------------------------------------------------------------------------
(* Theorems of the specification.                                          *)

\* HTypeOK and CounterIsCalmRun hold in every reachable state.
THEOREM HysteresisInvariant == HSpec => []HInv
<1>1. HInit => HInv
  <2> SUFFICES ASSUME HInit PROVE HInv  OBVIOUS
  <2>1. Abstract!Blank \in Abstract!Entry
    BY AbstractLevel DEF Abstract!Blank, Abstract!Entry, Abstract!LevelHomeostasis,
       Level, LevelHomeostasis, LevelSurvival
  <2>2. HTypeOK
    BY <2>1, DepthPositive, MinSamplesAssumption
    DEF HInit, Init, HTypeOK, Level, LevelHomeostasis, LevelSurvival
  <2>3. ~Abstract!Calm(window[1], currentLevel)
    BY DepthPositive DEF HInit, Abstract!Calm, Abstract!Blank
  <2>4. CounterIsCalmRun
    BY <2>3 DEF HInit, Init, CounterIsCalmRun
  <2>5. QED  BY <2>2, <2>4 DEF HInv
<1>2. HInv /\ [HNext]_hvars => HInv'
  <2> SUFFICES ASSUME HInv, [HNext]_hvars PROVE HInv'  OBVIOUS
  <2>1. CASE HColdStart
    <3>1. HTypeOK'
      BY <2>1, MinSamplesAssumption DEF HInv, HTypeOK, HColdStart, AnalyzeColdStart
    <3>2. CounterIsCalmRun'
      BY <2>1 DEF HInv, CounterIsCalmRun, HColdStart, AnalyzeColdStart
    <3>3. QED  BY <3>1, <3>2 DEF HInv
  <2>2. ASSUME NEW dm \in DMs, NEW dt \in Elapsed, HAnalyze(dm, dt)
        PROVE  HInv'
    BY <2>2, AnalyzeType, AnalyzeStep DEF HInv
  <2>3. CASE UNCHANGED hvars
    BY <2>3 DEF HInv, HTypeOK, CounterIsCalmRun, hvars
  <2>4. QED  BY <2>1, <2>2, <2>3 DEF HNext
<1>3. QED  BY <1>1, <1>2, PTL DEF HSpec

\* In every reachable state belowCount is the length of the calm run that ends
\* now and was taken entirely at the current level.
THEOREM CounterTheorem == HSpec => [](HTypeOK /\ CounterIsCalmRun)
  BY HysteresisInvariant, PTL DEF HInv

\* Level, counter and stress reading stay well typed.
THEOREM CortexTypes == HSpec => []HTypeOK
  BY CounterTheorem, PTL

\* The cortex implements the counter-free hysteresis: it escalates at once and
\* descends exactly after HysteresisDown calm readings taken at one level.
THEOREM HysteresisRefinement == HSpec => ImplementsHysteresis
<1>1. HInit => Abstract!Init
  BY DEF HInit, Init, Abstract!Init, LevelHomeostasis, Abstract!LevelHomeostasis
<1>2. HInv /\ [HNext]_hvars => [Abstract!Next]_<<currentLevel, window>>
  <2> SUFFICES ASSUME HInv, [HNext]_hvars PROVE [Abstract!Next]_<<currentLevel, window>>
    OBVIOUS
  <2>1. CASE HColdStart
    BY <2>1 DEF HColdStart, AnalyzeColdStart
  <2>2. ASSUME NEW dm \in DMs, NEW dt \in Elapsed, HAnalyze(dm, dt)
        PROVE  Abstract!Next
    BY <2>2, AnalyzeStep
  <2>3. CASE UNCHANGED hvars
    BY <2>3 DEF hvars
  <2>4. QED  BY <2>1, <2>2, <2>3 DEF HNext
<1>3. QED
  BY <1>1, <1>2, HysteresisInvariant, PTL DEF HSpec, ImplementsHysteresis, Abstract!Spec

\* No reading leaves the agent below the level its magnitude demands.
THEOREM ReactionTheorem == HSpec => []NeverUnderReacts
<1>1. HInit => NeverUnderReacts
  BY DEF HInit, Init, NeverUnderReacts
<1>2. HInv /\ NeverUnderReacts /\ [HNext]_hvars => NeverUnderReacts'
  <2> SUFFICES ASSUME HInv, NeverUnderReacts, [HNext]_hvars PROVE NeverUnderReacts'
    OBVIOUS
  <2>1. CASE HColdStart
    BY <2>1 DEF HColdStart, AnalyzeColdStart, NeverUnderReacts
  <2>2. ASSUME NEW dm \in DMs, NEW dt \in Elapsed, HAnalyze(dm, dt)
        PROVE  NeverUnderReacts'
    <3> DEFINE trend == TrendOf(dm, dt)
               demand == DemandedLevel(dm, trend)
    <3>1. trend \in Trend  BY DEF TrendOf, Trend
    <3>2. /\ MagnitudeLevel(dm) \in Level
          /\ demand \in Level
          /\ demand >= MagnitudeLevel(dm)
      BY <3>1, DemandIsLevel
    <3>3. /\ Classify(demand, trend.relaxes)
          /\ prev' = [dm |-> dm, trend |-> trend, level |-> currentLevel', stamp |-> NextStamp]
      BY <2>2 DEF HAnalyze, Analyze
    <3> HIDE DEF trend, demand
    <3>4. currentLevel' >= demand /\ currentLevel' \in Level
      BY <3>2, <3>3 DEF Classify, Rise, Hold, Wait, Fall, HInv, HTypeOK, Level, LevelHomeostasis, LevelSurvival
    <3>5. prev'.dm = dm /\ prev'.level = currentLevel'
      BY <3>3
    <3>6. MagnitudeLevel(dm)' = MagnitudeLevel(dm)
      BY DEF MagnitudeLevel
    <3>7. QED
      BY <3>2, <3>4, <3>5 DEF NeverUnderReacts, MagnitudeLevel, Level, LevelHomeostasis, LevelSurvival
  <2>3. CASE UNCHANGED hvars
    BY <2>3 DEF hvars, NeverUnderReacts
  <2>4. QED  BY <2>1, <2>2, <2>3 DEF HNext
<1>3. QED  BY <1>1, <1>2, HysteresisInvariant, PTL DEF HSpec

=============================================================================
