-------------------------- MODULE PredictiveCortex --------------------------
(***************************************************************************)
(* The Predictive Cortex (internal/brain/predictor.go): one call of        *)
(* Analyze per tick turns the smoothed Mahalanobis distance and its        *)
(* derivative into an alert level, with hysteresis on the way down.        *)
(*                                                                         *)
(* What is abstracted.  The smoothed distance is any member of DMs: it is  *)
(* an exponential average of raw distances the environment is free to      *)
(* choose.  The derivative is NOT free: it is the difference to the        *)
(* previous distance over the elapsed time, compared with the thresholds   *)
(* in exact integer arithmetic.  One unit of DMs and of the thresholds is  *)
(* half a unit of the program, so that 3.5, 5.5 and 0.5 are integers.      *)
(***************************************************************************)
EXTENDS AlertLevels, Integers, FiniteSetsExt

CONSTANTS
  DMs,            \* the values the smoothed distance takes
  Elapsed,        \* seconds between two analyses; 0 when the clock stood still
  NoReading,      \* pc.prev = nil: no analysis has been completed yet
  MinSamples,     \* detection.min_samples
  CfgVigilance,   \* PredictorConfig as main.go fills it in; a value <= 0
  CfgContainment, \*   means "not set" and selects the package default
  CfgProtection,
  CfgSurvival,
  CfgEscalate,
  CfgRelax,
  CfgHysteresisDown

ASSUME DMsAssumption == DMs \subseteq Nat
ASSUME ElapsedAssumption == Elapsed \subseteq Nat
ASSUME MinSamplesAssumption == MinSamples \in Nat \ {0, 1}
ASSUME CfgAssumption ==
  /\ CfgVigilance \in Int /\ CfgContainment \in Int /\ CfgProtection \in Int
  /\ CfgSurvival \in Int /\ CfgEscalate \in Int /\ CfgRelax \in Int
  /\ CfgHysteresisDown \in Int

VARIABLES
  readings,       \* readings inserted in the buffer, counted up to MinSamples
  prev,           \* the last StressReading, or NoReading
  currentLevel,   \* pc.currentLevel
  belowCount      \* pc.belowCount

vars == <<readings, prev, currentLevel, belowCount>>

-----------------------------------------------------------------------------
(* Configuration: a field that is not positive falls back to its default.  *)

OrDefault(configured, default) == IF configured <= 0 THEN default ELSE configured

\* The distance from which each level above Homeostasis is demanded.
Threshold ==
  [l \in Level \ {LevelHomeostasis} |->
     CASE l = LevelVigilance   -> OrDefault(CfgVigilance, 7)
       [] l = LevelContainment -> OrDefault(CfgContainment, 11)
       [] l = LevelProtection  -> OrDefault(CfgProtection, 16)
       [] l = LevelSurvival    -> OrDefault(CfgSurvival, 24)]

Escalate       == OrDefault(CfgEscalate, 4)
Relax          == OrDefault(CfgRelax, 1)
HysteresisDown == OrDefault(CfgHysteresisDown, 5)

-----------------------------------------------------------------------------
(* The decision stage.                                                     *)

Trend == [escalates : BOOLEAN, relaxes : BOOLEAN]

\* stamp is the parity of the timestamps taken so far: it tells a reading from
\* the one before it even when nothing else does.
Stamp == {0, 1}

StressReading == [dm : DMs, trend : Trend, level : Level, stamp : Stamp]

ASSUME NoReadingAssumption == NoReading \notin StressReading

\* The derivative of the distance, seen through the two thresholds it is
\* compared with.  It is 0 on the first analysis and when no time elapsed.
TrendOf(dm, dt) ==
  LET rise == IF prev = NoReading \/ dt = 0 THEN 0 ELSE dm - prev.dm
      span == IF prev = NoReading \/ dt = 0 THEN 1 ELSE dt
  IN  [escalates |-> rise > Escalate * span, relaxes |-> rise < Relax * span]

\* The parity of the time this analysis is stamped with.
NextStamp == IF prev = NoReading THEN 0 ELSE 1 - prev.stamp

\* The highest level whose threshold the distance reaches.
MagnitudeLevel(dm) ==
  Max({LevelHomeostasis} \cup {l \in DOMAIN Threshold : dm >= Threshold[l]})

\* Slip: a relaxing distance takes one level off the magnitude.
DemandedLevelEased(dm, trend) ==
  LET base == MagnitudeLevel(dm)
  IN  IF trend.relaxes /\ base > LevelHomeostasis THEN base - 1 ELSE base

\* A fast rise demands one level more, up to Survival.
DemandedLevel(dm, trend) ==
  LET base == MagnitudeLevel(dm)
  IN  IF trend.escalates /\ base < LevelSurvival THEN base + 1 ELSE base

\* The level follows a demand upwards at once.
Rise(demand) ==
  /\ demand >= currentLevel
  /\ currentLevel' = demand
  /\ belowCount' = 0

\* Slip: a restless reading does not restart the count.
HoldKeepsCount(demand, relaxes) ==
  /\ demand < currentLevel
  /\ ~relaxes
  /\ UNCHANGED <<belowCount, currentLevel>>

\* A lower demand that is not calm restarts the count.
Hold(demand, relaxes) ==
  /\ demand < currentLevel
  /\ ~relaxes
  /\ belowCount' = 0
  /\ UNCHANGED currentLevel

\* Slip: the counter is compared before it is incremented.
WaitTooLong(demand, relaxes) ==
  /\ demand < currentLevel
  /\ relaxes
  /\ belowCount < HysteresisDown
  /\ belowCount' = belowCount + 1
  /\ UNCHANGED currentLevel

\* Slip: the calm reading is recognised but not counted.
WaitUncounted(demand, relaxes) ==
  /\ demand < currentLevel
  /\ relaxes
  /\ belowCount + 1 < HysteresisDown
  /\ UNCHANGED <<belowCount, currentLevel>>

\* A lower and calm demand is counted ...
Wait(demand, relaxes) ==
  /\ demand < currentLevel
  /\ relaxes
  /\ belowCount + 1 < HysteresisDown
  /\ belowCount' = belowCount + 1
  /\ UNCHANGED currentLevel

\* Slip: one calm reading too few.
FallEarly(demand, relaxes) ==
  /\ demand < currentLevel
  /\ relaxes
  /\ belowCount + 1 >= HysteresisDown - 1
  /\ belowCount' = 0
  /\ currentLevel' = demand

\* ... until it has been seen HysteresisDown times in a row; then the level
\* falls straight to the demand of this last reading.
Fall(demand, relaxes) ==
  /\ demand < currentLevel
  /\ relaxes
  /\ belowCount + 1 >= HysteresisDown
  /\ belowCount' = 0
  /\ currentLevel' = demand

Classify(demand, relaxes) ==
  \/ Rise(demand)
  \/ Hold(demand, relaxes)
  \/ Wait(demand, relaxes)
  \/ Fall(demand, relaxes)

-----------------------------------------------------------------------------
(* Analyze, once per tick, after the reading was inserted in the buffer.   *)

Init ==
  /\ readings = 0
  /\ prev = NoReading
  /\ currentLevel = LevelHomeostasis
  /\ belowCount = 0

\* Too few readings (the first one is not even learnt), or a covariance that
\* is still singular: Analyze returns 0, 0, Homeostasis and touches nothing
\* of the level machine.  The covariance sums positive semi-definite terms,
\* so once it has been inverted it stays invertible.
AnalyzeColdStart ==
  /\ prev = NoReading
  /\ readings' = IF readings < MinSamples THEN readings + 1 ELSE readings
  /\ UNCHANGED <<prev, currentLevel, belowCount>>

Analyze(dm, dt) ==
  LET trend == TrendOf(dm, dt)
  IN  /\ readings >= MinSamples
      /\ Classify(DemandedLevel(dm, trend), trend.relaxes)
      /\ prev' = [dm |-> dm, trend |-> trend, level |-> currentLevel', stamp |-> NextStamp]
      /\ UNCHANGED readings

\* What the last call of Analyze returned as the level.
ReturnedLevel == IF prev = NoReading THEN LevelHomeostasis ELSE prev.level

Next ==
  \/ AnalyzeColdStart
  \/ \E dm \in DMs, dt \in Elapsed : Analyze(dm, dt)

Spec == Init /\ [][Next]_vars

=============================================================================
