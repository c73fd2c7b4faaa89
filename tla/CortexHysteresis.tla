-------------------------- MODULE CortexHysteresis --------------------------
(***************************************************************************)
(* The Predictive Cortex with a history variable: the last HysteresisDown  *)
(* readings.  It relates the counter of the code to what the counter is    *)
(* for, and shows that the cortex implements HysteresisLevel.              *)
(***************************************************************************)
EXTENDS PredictiveCortex

VARIABLE window

hvars == <<readings, prev, currentLevel, belowCount, window>>

Abstract == INSTANCE HysteresisLevel WITH H <- HysteresisDown, level <- currentLevel

HInit == Init /\ window = [i \in 1 .. HysteresisDown |-> Abstract!Blank]

\* The reading is remembered with the level in force when it was taken.
HAnalyze(dm, dt) ==
  LET trend == TrendOf(dm, dt)
  IN  /\ Analyze(dm, dt)
      /\ window' = Abstract!Push([demand  |-> DemandedLevel(dm, trend),
                                  relaxes |-> trend.relaxes,
                                  held    |-> currentLevel])

HColdStart == AnalyzeColdStart /\ UNCHANGED window

HNext == HColdStart \/ \E dm \in DMs, dt \in Elapsed : HAnalyze(dm, dt)

\* The main loop never stops ticking while the agent runs.
HFairness == WF_hvars(\E dm \in DMs, dt \in Elapsed : HAnalyze(dm, dt))

HSpec == HInit /\ [][HNext]_hvars

FairHSpec == HSpec /\ HFairness

-----------------------------------------------------------------------------
(* Properties.                                                             *)

\* The state of the cortex and of its history has the declared shape, and the
\* counter never stays at the limit that makes the level fall.
HTypeOK ==
  /\ readings \in 0 .. MinSamples
  /\ prev \in StressReading \cup {NoReading}
  /\ currentLevel \in Level
  /\ belowCount \in 0 .. (HysteresisDown - 1)
  /\ window \in [1 .. HysteresisDown -> Abstract!Entry]

\* pc.belowCount is the length of the run of calm readings that ends now and
\* was taken entirely at the current level: neither a reading taken at an
\* earlier level nor one before a restless reading is ever counted.
CounterIsCalmRun ==
  /\ \A i \in 1 .. belowCount : Abstract!Calm(window[i], currentLevel)
  /\ ~Abstract!Calm(window[belowCount + 1], currentLevel)

\* The level in force is at least the one the magnitude of the last reading
\* demands, and it is the level Analyze returned: no mixture of derivative,
\* hold and descent ever leaves the agent under-reacting to a reading.
NeverUnderReacts ==
  prev # NoReading => /\ currentLevel = prev.level
                      /\ currentLevel >= MagnitudeLevel(prev.dm)

\* Every behaviour of the cortex is one of the counter-free specification:
\* immediate escalation, and descent only after H calm readings at one level.
ImplementsHysteresis == Abstract!Spec

CalmAnalyze ==
  \E dm \in DMs, dt \in Elapsed :
     LET trend == TrendOf(dm, dt)
     IN  HAnalyze(dm, dt) /\ DemandedLevel(dm, trend) = LevelHomeostasis /\ trend.relaxes

\* If from some point on every reading is calm and demands nothing, the agent
\* comes back to Homeostasis and stays there.
CalmEndsInHomeostasis ==
  (<>[][CalmAnalyze]_hvars) => <>[](currentLevel = LevelHomeostasis)

=============================================================================
