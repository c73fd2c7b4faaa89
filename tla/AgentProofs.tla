----------------------------- MODULE AgentProofs -----------------------------
(***************************************************************************)
(* Proofs about the agent, for every configuration, every set of distances *)
(* and every set of faults.                                                *)
(*                                                                         *)
(* Argument.  The properties of HosaAgent speak of a running or a stopped  *)
(* process; what makes them inductive is what links the parts: the level   *)
(* in force is the one Analyze last returned (LevelAgrees), and a process  *)
(* that ended left no memory behind (NoMemory).  Each tick then rests on   *)
(* three independent facts, about the cortex, the limits and the survival  *)
(* motor, which are the lemmas below.  Of CortexProofs they use the facts  *)
(* about classify; its history variable plays no part in AgentSpec.        *)
(***************************************************************************)
EXTENDS HosaAgent, CortexProofs

\* Between two ticks the cortex holds the level it returned.
LevelAgrees == currentLevel = ReturnedLevel

\* A process that ended forgot everything.
NoMemory ==
  process # "running" =>
    prev = NoReading /\ lastLevel = LevelHomeostasis /\ ~active /\ ~link

\* The inductive invariant.
IInv ==
  /\ TypeOK
  /\ LevelAgrees
  /\ NoMemory
  /\ LimitsMatchLevel
  /\ SurvivalMatchesLevel
  /\ GracefulShutdownRestores

\* The part of TypeOK about the cortex.
CortexTypeOK ==
  /\ readings \in 0 .. MinSamples
  /\ prev \in StressReading \cup {NoReading}
  /\ currentLevel \in Level
  /\ belowCount \in 0 .. (HysteresisDown - 1)

-----------------------------------------------------------------------------
(* The cortex.                                                             *)

\* A completed analysis leaves the cortex well typed, with the level it returned.
LEMMA AnalyzeCortex ==
  ASSUME CortexTypeOK, NEW dm \in DMs, NEW dt \in Elapsed, Analyze(dm, dt)
  PROVE  /\ CortexTypeOK'
         /\ ReturnedLevel' = currentLevel'
         /\ currentLevel' < currentLevel => belowCount = HysteresisDown - 1
<1> DEFINE trend == TrendOf(dm, dt)
           demand == DemandedLevel(dm, trend)
<1>1. trend \in Trend /\ trend.relaxes \in BOOLEAN
  BY DEF TrendOf, Trend
<1>2. demand \in Level
  BY <1>1, DemandIsLevel
<1>3. /\ Classify(demand, trend.relaxes)
      /\ prev' = [dm |-> dm, trend |-> trend, level |-> currentLevel', stamp |-> NextStamp]
      /\ readings' = readings
  BY DEF Analyze
<1> HIDE DEF trend, demand
<1>4. currentLevel' \in Level /\ belowCount' \in 0 .. (HysteresisDown - 1)
  BY <1>1, <1>2, <1>3, ClassifyType DEF CortexTypeOK
<1>5. prev' \in StressReading
  <2>1. NextStamp \in Stamp
    BY NextStampType DEF CortexTypeOK
  <2>2. QED  BY <1>1, <1>3, <1>4, <2>1 DEF StressReading
<1>6. ReturnedLevel' = currentLevel'
  BY <1>3, <1>5, NoReadingAssumption DEF ReturnedLevel
<1>7. currentLevel' < currentLevel => belowCount = HysteresisDown - 1
  BY <1>1, <1>2, <1>3, DescentIsFall DEF CortexTypeOK
<1>8. QED
  BY <1>3, <1>4, <1>5, <1>6, <1>7 DEF CortexTypeOK

\* A calibrating analysis changes the count of readings only.
LEMMA ColdStartCortex ==
  ASSUME CortexTypeOK, AnalyzeColdStart
  PROVE  CortexTypeOK' /\ ReturnedLevel' = ReturnedLevel /\ currentLevel' = currentLevel
  BY MinSamplesAssumption DEF CortexTypeOK, AnalyzeColdStart, ReturnedLevel

-----------------------------------------------------------------------------
(* The memory limits.                                                      *)

\* The settled limits are those of the level, or of the level that Containment
\* was entered from.
LimitsOK ==
  /\ limitsSettled => high = Motor!HighFor(lastLevel)
  /\ limitsSettled /\ lastLevel # LevelContainment => max = Motor!MaxFor(lastLevel)
  /\ lastLevel = LevelContainment /\ origin # Unknown => max = Motor!MaxFor(origin)

\* Homeostasis asks for no limit.
LEMMA HomeostasisUnlimited == Motor!HighFor(0) = "none"
  BY DEF Motor!HighFor, Motor!LevelHomeostasis, Motor!LevelVigilance,
         Motor!LevelContainment, Motor!LevelProtection, Motor!LevelSurvival

\* Applying a level, whichever writes fail, leaves limits of the declared kind,
\* those of that level if none failed, and at Containment the memory.max of the
\* level it was entered from if that one's had not.
LEMMA LimitStep ==
  ASSUME lastLevel \in Level, high \in Motor!HighLimit, max \in Motor!MaxLimit,
         limitsSettled \in BOOLEAN, origin \in Level \cup {Unknown}, LimitsOK,
         NEW level \in Level, Limit(level)
  PROVE  /\ lastLevel' = level
         /\ high' \in Motor!HighLimit /\ max' \in Motor!MaxLimit
         /\ limitsSettled' \in BOOLEAN /\ origin' \in Level \cup {Unknown}
         /\ LimitsOK'
<1> USE DEF Level, LevelHomeostasis, LevelVigilance, LevelContainment,
            LevelProtection, LevelSurvival,
            Motor!LevelHomeostasis, Motor!LevelVigilance, Motor!LevelContainment,
            Motor!LevelProtection, Motor!LevelSurvival
<1>1. CASE Motor!ApplySame(level) /\ UNCHANGED <<limitsSettled, origin>>
  <2>1. UNCHANGED <<lastLevel, high, max, limitsSettled, origin>> /\ level = lastLevel
    BY <1>1 DEF Motor!ApplySame
  <2>2. QED  BY <2>1 DEF LimitsOK, Motor!HighFor, Motor!MaxFor
<1>2. ASSUME NEW done \in 0 .. Motor!Writes(level), Motor!ApplyChange(level, done),
             limitsSettled' = (done = Motor!Writes(level)), origin' = Entered(level)
      PROVE  /\ lastLevel' = level
             /\ high' \in Motor!HighLimit /\ max' \in Motor!MaxLimit
             /\ limitsSettled' \in BOOLEAN /\ origin' \in Level \cup {Unknown}
             /\ LimitsOK'
  <2>1. /\ lastLevel' = level /\ level # lastLevel
        /\ high' = IF done >= 1 THEN Motor!HighFor(level) ELSE high
        /\ max' = IF done >= 2 THEN Motor!MaxFor(level) ELSE max
    BY <1>2 DEF Motor!ApplyChange
  <2>2. Motor!HighFor(level) \in Motor!HighLimit /\ Motor!MaxFor(level) \in Motor!MaxLimit
    BY DEF Motor!HighFor, Motor!HighLimit, Motor!MaxFor, Motor!MaxLimit
  <2>3. Motor!Writes(level) = IF level = LevelContainment THEN 1 ELSE 2
    BY DEF Motor!Writes
  <2>4. high' \in Motor!HighLimit /\ max' \in Motor!MaxLimit /\ limitsSettled' \in BOOLEAN
    BY <1>2, <2>1, <2>2
  <2>5. ASSUME limitsSettled' PROVE high' = Motor!HighFor(level)
    <3>1. done = Motor!Writes(level)  BY <1>2, <2>5
    <3>2. QED  BY <2>1, <2>3, <3>1
  <2>6. ASSUME limitsSettled', level # LevelContainment PROVE max' = Motor!MaxFor(level)
    <3>1. done = Motor!Writes(level)  BY <1>2, <2>6
    <3>2. QED  BY <2>1, <2>3, <2>6, <3>1
  <2>7. origin' \in Level \cup {Unknown}
    BY <1>2 DEF Entered
  <2>8. ASSUME level = LevelContainment, origin' # Unknown PROVE max' = Motor!MaxFor(origin')
    <3>1. limitsSettled /\ origin' = lastLevel  BY <1>2, <2>8 DEF Entered
    <3>2. max' = max  BY <2>1, <2>3, <2>8
    <3>3. max = Motor!MaxFor(lastLevel)  BY <2>1, <2>8, <3>1 DEF LimitsOK
    <3>4. QED  BY <3>1, <3>2, <3>3
  <2>9. LimitsOK'
    <3>1. limitsSettled' => high' = Motor!HighFor(lastLevel')  BY <2>1, <2>5
    <3>2. limitsSettled' /\ lastLevel' # LevelContainment => max' = Motor!MaxFor(lastLevel')
      BY <2>1, <2>6
    <3>3. lastLevel' = LevelContainment /\ origin' # Unknown => max' = Motor!MaxFor(origin')
      BY <2>1, <2>8
    <3>4. QED  BY <3>1, <3>2, <3>3 DEF LimitsOK, Motor!HighFor, Motor!MaxFor
  <2>10. QED  BY <2>1, <2>4, <2>7, <2>9
<1>3. QED  BY <1>1, <1>2 DEF Limit

-----------------------------------------------------------------------------
(* The survival motor.                                                     *)

\* The part of TypeOK about the survival motor.
SurvivalTypeOK ==
  /\ active \in BOOLEAN /\ link \in BOOLEAN /\ knobsSettled \in BOOLEAN
  /\ knobs \in [Survival!Knob -> Survival!Setting]

\* The settled knobs are those of an active, or of an idle, motor.
KnobsOK ==
  knobsSettled =>
    IF active THEN \A k \in Survival!EngageKnobs : knobs[k] = "survival"
              ELSE \A k \in Survival!ReleaseKnobs : knobs[k] # "survival"

\* Engaging, whichever writes fail, leaves the motor active and its knobs right.
LEMMA EngageStep ==
  ASSUME SurvivalTypeOK, Engage
  PROVE  SurvivalTypeOK' /\ KnobsOK' /\ active' = TRUE
<1>1. PICK broken \in Faults, linked \in BOOLEAN :
         /\ Survival!Engage(Survival!EngageKnobs \ broken, linked)
         /\ knobsSettled' = (broken \cap Survival!EngageKnobs = {})
  BY DEF Engage
<1>2. /\ active' = TRUE /\ link' = linked
      /\ knobs' = [k \in Survival!Knob |->
                     IF k \in Survival!EngageKnobs \ broken THEN "survival" ELSE knobs[k]]
  BY <1>1 DEF Survival!Engage, Survival!Written
<1>3. SurvivalTypeOK'
  BY <1>1, <1>2 DEF SurvivalTypeOK, Survival!Setting
<1>4. Survival!EngageKnobs \subseteq Survival!Knob
  BY DEF Survival!EngageKnobs, Survival!ReleaseKnobs, Survival!Knob
<1>5. ASSUME knobsSettled', NEW k \in Survival!EngageKnobs
      PROVE  knobs'[k] = "survival"
  <2>1. broken \cap Survival!EngageKnobs = {}  BY <1>1, <1>5
  <2>2. QED  BY <1>2, <1>4, <2>1
<1>6. QED  BY <1>2, <1>3, <1>5 DEF KnobsOK, Survival!EngageKnobs, Survival!ReleaseKnobs

\* Releasing, whichever writes fail, leaves the motor idle, the scheduler link
\* closed and the knobs it manages right.
LEMMA ReleaseStep ==
  ASSUME SurvivalTypeOK, Release
  PROVE  SurvivalTypeOK' /\ KnobsOK' /\ active' = FALSE /\ link' = FALSE
<1>1. PICK broken \in Faults :
         /\ Survival!Release(Survival!ReleaseKnobs \ broken)
         /\ knobsSettled' = (broken \cap Survival!ReleaseKnobs = {})
  BY DEF Release
<1>2. /\ active' = FALSE /\ link' = FALSE
      /\ knobs' = [k \in Survival!Knob |->
                     IF k \in Survival!ReleaseKnobs \ broken THEN "default" ELSE knobs[k]]
  BY <1>1 DEF Survival!Release, Survival!Written
<1>3. SurvivalTypeOK'
  BY <1>1, <1>2 DEF SurvivalTypeOK, Survival!Setting
<1>4. Survival!ReleaseKnobs \subseteq Survival!Knob
  BY DEF Survival!ReleaseKnobs, Survival!Knob
<1>5. ASSUME knobsSettled', NEW k \in Survival!ReleaseKnobs
      PROVE  knobs'[k] # "survival"
  <2>1. broken \cap Survival!ReleaseKnobs = {}  BY <1>1, <1>5
  <2>2. knobs'[k] = "default"  BY <1>2, <1>4, <2>1
  <2>3. QED  BY <2>2
<1>6. QED  BY <1>2, <1>3, <1>5 DEF KnobsOK, Survival!EngageKnobs, Survival!ReleaseKnobs

\* The survival motor follows the level it is given, from any earlier level.
LEMMA SurviveStep ==
  ASSUME SurvivalTypeOK, KnobsOK, link => active, active => Phase2,
         NEW level \in Level, Survive(level)
  PROVE  /\ SurvivalTypeOK' /\ KnobsOK'
         /\ link' => active'
         /\ active' <=> (Phase2 /\ level = LevelSurvival)
<1>1. CASE Phase2 /\ level = LevelSurvival /\ Engage
  BY <1>1, EngageStep
<1>2. CASE Phase2 /\ level < LevelSurvival /\ Release
  <2>1. level # LevelSurvival
    BY <1>2 DEF Level, LevelHomeostasis, LevelSurvival
  <2>2. QED  BY <1>2, <2>1, ReleaseStep
<1>3. CASE (~Phase2 \/ active = (level = LevelSurvival)) /\ KeepSurvival
  <2>1. UNCHANGED <<active, link, knobs, knobsSettled>>
    BY <1>3 DEF KeepSurvival
  <2>2. SurvivalTypeOK' /\ KnobsOK' /\ (link' => active')
    BY <2>1 DEF SurvivalTypeOK, KnobsOK, Survival!EngageKnobs, Survival!ReleaseKnobs
  <2>3. active <=> (Phase2 /\ level = LevelSurvival)
    BY <1>3 DEF SurvivalTypeOK
  <2>4. QED  BY <2>1, <2>2, <2>3
<1>4. QED  BY <1>1, <1>2, <1>3 DEF Survive

-----------------------------------------------------------------------------
(* The steps of the agent.                                                 *)

\* What IInv says of a running process, part by part.
LEMMA RunningParts ==
  ASSUME IInv, process = "running"
  PROVE  /\ CortexTypeOK /\ currentLevel = ReturnedLevel
         /\ lastLevel \in Level /\ lastLevel = ReturnedLevel
         /\ high \in Motor!HighLimit /\ max \in Motor!MaxLimit
         /\ limitsSettled \in BOOLEAN /\ origin \in Level \cup {Unknown} /\ LimitsOK
         /\ SurvivalTypeOK /\ KnobsOK /\ (link => active) /\ (active => Phase2)
         /\ active <=> (Phase2 /\ lastLevel = LevelSurvival)
  BY DEF IInv, TypeOK, LevelAgrees, LimitsMatchLevel, SurvivalMatchesLevel,
         CortexTypeOK, LimitsOK, SurvivalTypeOK, KnobsOK

\* Reacting to the level just returned restores the invariant, whichever of
\* the two ticks it ends.
LEMMA ReactStep ==
  ASSUME IInv, process = "running", process' = "running",
         CortexTypeOK', currentLevel' = ReturnedLevel', React(ReturnedLevel')
  PROVE  IInv'
<1>1. PICK level \in Level : level = ReturnedLevel'
  BY DEF CortexTypeOK
<1>2. Limit(level) /\ Survive(level)
  BY <1>1 DEF React
<1>3. /\ lastLevel' = level
      /\ high' \in Motor!HighLimit /\ max' \in Motor!MaxLimit
      /\ limitsSettled' \in BOOLEAN /\ origin' \in Level \cup {Unknown}
      /\ LimitsOK'
  BY <1>2, RunningParts, LimitStep
<1>4. /\ SurvivalTypeOK' /\ KnobsOK'
      /\ link' => active'
      /\ active' <=> (Phase2 /\ level = LevelSurvival)
  BY <1>2, RunningParts, SurviveStep
<1>5. TypeOK'
  BY <1>3, <1>4 DEF TypeOK, CortexTypeOK, SurvivalTypeOK
<1>6. LevelAgrees' /\ NoMemory' /\ GracefulShutdownRestores'
  BY DEF LevelAgrees, NoMemory, GracefulShutdownRestores
<1>7. LimitsMatchLevel'
  BY <1>3 DEF LimitsMatchLevel, LimitsOK
<1>8. SurvivalMatchesLevel'
  BY <1>1, <1>3, <1>4 DEF SurvivalMatchesLevel, KnobsOK
<1>9. QED  BY <1>5, <1>6, <1>7, <1>8 DEF IInv

\* A tick of the calibrating cortex.
LEMMA TickColdStartStep == IInv /\ TickColdStart => IInv'
<1> SUFFICES ASSUME IInv, TickColdStart PROVE IInv'  OBVIOUS
<1>1. process = "running" /\ process' = "running" /\ AnalyzeColdStart /\ React(ReturnedLevel')
  BY DEF TickColdStart
<1>2. CortexTypeOK' /\ currentLevel' = ReturnedLevel'
  BY <1>1, RunningParts, ColdStartCortex
<1>3. QED  BY <1>1, <1>2, ReactStep

\* A tick that completes an analysis.
LEMMA TickStep ==
  ASSUME IInv, NEW dm \in DMs, NEW dt \in Elapsed, Tick(dm, dt)
  PROVE  IInv'
<1>1. process = "running" /\ process' = "running" /\ Analyze(dm, dt) /\ React(ReturnedLevel')
  BY DEF Tick
<1>2. CortexTypeOK' /\ currentLevel' = ReturnedLevel'
  BY <1>1, RunningParts, AnalyzeCortex
<1>3. QED  BY <1>1, <1>2, ReactStep

\* A process that has just ended: well typed, and without memory.
LEMMA Forgotten ==
  ASSUME ForgetCortex, lastLevel' = LevelHomeostasis, active' = FALSE, link' = FALSE
  PROVE  CortexTypeOK' /\ LevelAgrees' /\ NoMemory' /\ lastLevel' \in Level
  BY DepthPositive, MinSamplesAssumption
  DEF ForgetCortex, CortexTypeOK, LevelAgrees, NoMemory, ReturnedLevel,
      Level, LevelHomeostasis, LevelSurvival

\* A graceful stop.
LEMMA ShutdownStep == IInv /\ Shutdown => IInv'
<1> SUFFICES ASSUME IInv, Shutdown PROVE IInv'  OBVIOUS
<1>1. /\ process = "running" /\ process' = "stopped"
      /\ Limit(LevelHomeostasis) /\ ForgetCortex
      /\ Release \/ (Survival!ReleaseIdle /\ UNCHANGED knobsSettled)
  BY DEF Shutdown
<1>2. LevelHomeostasis \in Level
  BY DEF Level, LevelHomeostasis, LevelSurvival
<1>3. /\ lastLevel' = LevelHomeostasis
      /\ high' \in Motor!HighLimit /\ max' \in Motor!MaxLimit
      /\ limitsSettled' \in BOOLEAN /\ origin' \in Level \cup {Unknown}
      /\ limitsSettled' => high' = Motor!HighFor(LevelHomeostasis) /\ max' = "none"
  <2>1. /\ lastLevel' = LevelHomeostasis
        /\ high' \in Motor!HighLimit /\ max' \in Motor!MaxLimit
        /\ limitsSettled' \in BOOLEAN /\ origin' \in Level \cup {Unknown}
        /\ LimitsOK'
    BY <1>1, <1>2, RunningParts, LimitStep
  <2>2. LevelHomeostasis # LevelContainment /\ Motor!MaxFor(LevelHomeostasis) = "none"
    BY DEF LevelHomeostasis, LevelContainment, Motor!MaxFor, Motor!LevelProtection,
           Motor!LevelSurvival
  <2>3. QED  BY <2>1, <2>2 DEF LimitsOK
<1>4. SurvivalTypeOK' /\ KnobsOK' /\ active' = FALSE /\ link' = FALSE
  <2>1. CASE Release
    BY <1>1, <2>1, RunningParts, ReleaseStep
  <2>2. CASE Survival!ReleaseIdle /\ UNCHANGED knobsSettled
    BY <1>1, <2>2, RunningParts
    DEF Survival!ReleaseIdle, SurvivalTypeOK, KnobsOK, Survival!EngageKnobs, Survival!ReleaseKnobs
  <2>3. QED  BY <1>1, <2>1, <2>2
<1>5. CortexTypeOK' /\ LevelAgrees' /\ NoMemory' /\ lastLevel' \in Level
  BY <1>1, <1>3, <1>4, Forgotten
<1>6. TypeOK'
  BY <1>1, <1>3, <1>4, <1>5 DEF TypeOK, CortexTypeOK, SurvivalTypeOK
<1>7. LimitsMatchLevel' /\ SurvivalMatchesLevel'
  BY <1>1 DEF LimitsMatchLevel, SurvivalMatchesLevel
<1>8. GracefulShutdownRestores'
  <2>1. Motor!HighFor(LevelHomeostasis) = "none"
    BY HomeostasisUnlimited DEF LevelHomeostasis
  <2>2. QED  BY <1>3, <1>4, <2>1 DEF GracefulShutdownRestores, KnobsOK
<1>9. QED  BY <1>5, <1>6, <1>7, <1>8 DEF IInv

\* A crash.
LEMMA CrashStep == IInv /\ Crash => IInv'
<1> SUFFICES ASSUME IInv, Crash PROVE IInv'  OBVIOUS
<1>1. CortexTypeOK' /\ LevelAgrees' /\ NoMemory' /\ lastLevel' \in Level
  BY Forgotten DEF Crash
<1>2. TypeOK'
  BY <1>1 DEF Crash, IInv, TypeOK, CortexTypeOK, Unknown
<1>3. LimitsMatchLevel' /\ SurvivalMatchesLevel' /\ GracefulShutdownRestores'
  BY DEF Crash, LimitsMatchLevel, SurvivalMatchesLevel, GracefulShutdownRestores
<1>4. QED  BY <1>1, <1>2, <1>3 DEF IInv

\* A new process, whatever files it finds.
LEMMA StartStep == IInv /\ Start => IInv'
<1> SUFFICES ASSUME IInv, Start PROVE IInv'  OBVIOUS
<1>1. /\ process' = "running"
      /\ limitsSettled' = (high = "none" /\ max = "none")
      /\ knobsSettled' = (\A k \in Survival!ReleaseKnobs : knobs[k] # "survival")
      /\ UNCHANGED <<readings, prev, currentLevel, belowCount>>
      /\ UNCHANGED <<lastLevel, high, max, active, link, knobs, origin>>
  BY DEF Start, vars
<1>2. prev = NoReading /\ lastLevel = LevelHomeostasis /\ active = FALSE /\ link = FALSE
  BY DEF IInv, NoMemory, TypeOK, Start
<1>3. TypeOK'
  BY <1>1 DEF IInv, TypeOK
<1>4. LevelAgrees' /\ NoMemory' /\ GracefulShutdownRestores'
  BY <1>1 DEF IInv, LevelAgrees, ReturnedLevel, NoMemory, GracefulShutdownRestores
<1>5. LimitsMatchLevel'
  <2>1. limitsSettled' => high' = "none" /\ max' = "none"
    BY <1>1
  <2>2. /\ Motor!HighFor(lastLevel') = "none"
        /\ Motor!MaxFor(lastLevel') = "none"
        /\ lastLevel' # LevelContainment
    BY <1>1, <1>2, HomeostasisUnlimited
    DEF LevelHomeostasis, LevelContainment, Motor!MaxFor, Motor!LevelProtection,
        Motor!LevelSurvival
  <2>3. QED  BY <2>1, <2>2 DEF LimitsMatchLevel
<1>6. SurvivalMatchesLevel'
  <2>1. lastLevel' = ReturnedLevel'
    BY <1>1, <1>2 DEF ReturnedLevel
  <2>2. active' = FALSE /\ link' = FALSE /\ lastLevel' # LevelSurvival
    BY <1>1, <1>2 DEF LevelHomeostasis, LevelSurvival
  <2>3. knobsSettled' => \A k \in Survival!ReleaseKnobs' : knobs'[k] # "survival"
    BY <1>1 DEF Survival!ReleaseKnobs
  <2>4. QED  BY <2>1, <2>2, <2>3 DEF SurvivalMatchesLevel
<1>7. QED  BY <1>3, <1>4, <1>5, <1>6 DEF IInv

-----------------------------------------------------------------------------
(* Theorems of the specification.                                          *)

\* IInv, and with it every safety invariant of the agent, holds in every
\* reachable state.
THEOREM AgentInvariant == AgentSpec => []IInv
<1>1. AgentInit => IInv
  <2> SUFFICES ASSUME AgentInit PROVE IInv  OBVIOUS
  <2>1. prev = NoReading /\ currentLevel = 0 /\ readings = 0 /\ belowCount = 0
    BY DEF AgentInit, Init, LevelHomeostasis
  <2>2. /\ process = "running" /\ lastLevel = 0 /\ high = "none" /\ max = "none"
        /\ active = FALSE /\ link = FALSE /\ limitsSettled = TRUE /\ knobsSettled = TRUE
        /\ origin = Unknown
        /\ knobs = [k \in Survival!Knob |-> "prior"]
    BY DEF AgentInit, Motor!Init, Survival!Init, Motor!LevelHomeostasis
  <2>3. TypeOK
    <3>1. readings \in 0 .. MinSamples /\ belowCount \in 0 .. (HysteresisDown - 1)
      BY <2>1, DepthPositive, MinSamplesAssumption
    <3>2. currentLevel \in Level /\ lastLevel \in Level
      BY <2>1, <2>2 DEF Level, LevelHomeostasis, LevelSurvival
    <3>3. knobs \in [Survival!Knob -> Survival!Setting]
      BY <2>2 DEF Survival!Setting
    <3>4. high \in Motor!HighLimit /\ max \in Motor!MaxLimit
      BY <2>2 DEF Motor!HighLimit, Motor!MaxLimit
    <3>5. QED  BY <2>1, <2>2, <3>1, <3>2, <3>3, <3>4 DEF TypeOK
  <2>4. LevelAgrees /\ NoMemory /\ GracefulShutdownRestores
    BY <2>1, <2>2 DEF LevelAgrees, ReturnedLevel, NoMemory, GracefulShutdownRestores, LevelHomeostasis
  <2>5. LimitsMatchLevel
    BY <2>2, HomeostasisUnlimited
    DEF LimitsMatchLevel, LevelContainment, Motor!MaxFor, Motor!LevelProtection,
        Motor!LevelSurvival
  <2>6. SurvivalMatchesLevel
    <3>1. \A k \in Survival!ReleaseKnobs : knobs[k] # "survival"
      BY <2>2 DEF Survival!ReleaseKnobs, Survival!Knob
    <3>2. QED
      BY <2>1, <2>2, <3>1 DEF SurvivalMatchesLevel, ReturnedLevel, LevelHomeostasis, LevelSurvival
  <2>7. QED  BY <2>3, <2>4, <2>5, <2>6 DEF IInv
<1>2. IInv /\ [AgentNext]_agentVars => IInv'
  <2> SUFFICES ASSUME IInv, [AgentNext]_agentVars PROVE IInv'  OBVIOUS
  <2>1. CASE TickColdStart  BY <2>1, TickColdStartStep
  <2>2. ASSUME NEW dm \in DMs, NEW dt \in Elapsed, Tick(dm, dt) PROVE IInv'
    BY <2>2, TickStep
  <2>3. CASE Shutdown  BY <2>3, ShutdownStep
  <2>4. CASE Crash  BY <2>4, CrashStep
  <2>5. CASE Start  BY <2>5, StartStep
  <2>6. CASE UNCHANGED agentVars
    BY <2>6
    DEF agentVars, vars, IInv, TypeOK, LevelAgrees, ReturnedLevel, NoMemory, LimitsMatchLevel,
        SurvivalMatchesLevel, GracefulShutdownRestores, Motor!HighFor, Motor!MaxFor,
        Survival!EngageKnobs, Survival!ReleaseKnobs
  <2>7. QED  BY <2>1, <2>2, <2>3, <2>4, <2>5, <2>6 DEF AgentNext
<1>3. QED  BY <1>1, <1>2, PTL DEF AgentSpec

\* In every state of a running process, under any pattern of failing writes,
\* stops and crashes, a change of level whose writes took effect leaves the
\* memory.high of its level and, but at Containment, its memory.max; Containment
\* keeps the memory.max of the level it was entered from, where that had settled.
THEOREM LimitsTheorem == AgentSpec => []LimitsMatchLevel
  BY AgentInvariant, PTL DEF IInv

\* The cortex, the motors and the kernel files agree about the level.
THEOREM SurvivalTheorem == AgentSpec => []SurvivalMatchesLevel
  BY AgentInvariant, PTL DEF IInv

\* A graceful stop whose writes took effect leaves nothing behind.
THEOREM ShutdownTheorem == AgentSpec => []GracefulShutdownRestores
  BY AgentInvariant, PTL DEF IInv

\* The state of the agent has the declared shape.
THEOREM TypeTheorem == AgentSpec => []TypeOK
  BY AgentInvariant, PTL DEF IInv

\* The step LoosenedOnlyAfterCalm is about.
Loosens ==
  \/ limitsSettled /\ Severity(high') < Severity(high)
  \/ limitsSettled /\ Severity(max') < Severity(max)
  \/ active /\ ~active'

\* A tick that returns a level not below the one in force loosens nothing.
LEMMA LooseningLowers ==
  ASSUME IInv, process = "running", NEW level \in Level,
         Limit(level), Survive(level), Loosens
  PROVE  level < lastLevel
<1> USE DEF Level, LevelHomeostasis, LevelVigilance, LevelContainment,
            LevelProtection, LevelSurvival
<1>1. /\ lastLevel \in Level
      /\ high \in Motor!HighLimit /\ max \in Motor!MaxLimit
      /\ LimitsOK /\ SurvivalTypeOK
      /\ active <=> (Phase2 /\ lastLevel = LevelSurvival)
  BY RunningParts
<1>2. SUFFICES ASSUME level >= lastLevel PROVE FALSE
  BY <1>1
<1>3. ~(active /\ ~active')
  <2>1. SUFFICES ASSUME active, ~active' PROVE FALSE  OBVIOUS
  <2>2. Phase2 /\ level = LevelSurvival  BY <1>1, <1>2, <2>1
  <2>3. CASE Engage  BY <2>1, <2>3 DEF Engage, Survival!Engage
  <2>4. CASE KeepSurvival  BY <2>1, <2>4 DEF KeepSurvival
  <2>5. QED  BY <2>2, <2>3, <2>4 DEF Survive
<1>4. ASSUME limitsSettled
      PROVE  Severity(high') >= Severity(high) /\ Severity(max') >= Severity(max)
  <2>1. CASE Motor!ApplySame(level)
    <3>1. high' = high /\ max' = max  BY <2>1 DEF Motor!ApplySame
    <3>2. Severity(high) \in Nat /\ Severity(max) \in Nat
      BY <1>1 DEF Severity, Motor!HighLimit, Motor!MaxLimit
    <3>3. QED  BY <3>1, <3>2
  <2>2. ASSUME NEW done \in 0 .. Motor!Writes(level), Motor!ApplyChange(level, done)
        PROVE  Severity(high') >= Severity(high) /\ Severity(max') >= Severity(max)
    <3> USE DEF Motor!LevelHomeostasis, Motor!LevelVigilance, Motor!LevelContainment,
                Motor!LevelProtection, Motor!LevelSurvival
    <3>1. high' = high \/ high' = Motor!HighFor(level)  BY <2>2 DEF Motor!ApplyChange
    <3>2. \/ max' = max
          \/ max' = Motor!MaxFor(level) /\ level # LevelContainment
      BY <2>2 DEF Motor!ApplyChange, Motor!Writes
    <3>3. high = Motor!HighFor(lastLevel)  BY <1>1, <1>4 DEF LimitsOK
    <3>4. Severity(Motor!HighFor(level)) >= Severity(Motor!HighFor(lastLevel))
      BY <1>1, <1>2 DEF Motor!HighFor, Severity
    <3>5. Severity(high) \in Nat /\ Severity(max) \in Nat
      BY <1>1 DEF Severity, Motor!HighLimit, Motor!MaxLimit
    <3>6. Severity(high') >= Severity(high)
      BY <3>1, <3>3, <3>4, <3>5
    <3>7. level # LevelContainment => Severity(Motor!MaxFor(level)) >= Severity(max)
      BY <1>1, <1>2, <1>4 DEF LimitsOK, Motor!MaxFor, Motor!MaxLimit, Severity
    <3>8. Severity(max') >= Severity(max)
      BY <3>2, <3>5, <3>7
    <3>9. QED  BY <3>6, <3>8
  <2>3. QED  BY <2>1, <2>2 DEF Limit
<1>5. ASSUME limitsSettled
      PROVE  ~(Severity(high') < Severity(high)) /\ ~(Severity(max') < Severity(max))
  <2>1. high' \in Motor!HighLimit /\ max' \in Motor!MaxLimit
    BY <1>1, LimitStep DEF IInv, TypeOK
  <2>2. /\ Severity(high) \in Nat /\ Severity(max) \in Nat
        /\ Severity(high') \in Nat /\ Severity(max') \in Nat
    BY <1>1, <2>1 DEF Severity, Motor!HighLimit, Motor!MaxLimit
  <2>3. QED  BY <1>4, <1>5, <2>2
<1>6. QED  BY <1>3, <1>5 DEF Loosens

\* While the agent runs, nothing that was correctly applied is loosened before
\* HysteresisDown calm readings in a row.
THEOREM LooseningTheorem == AgentSpec => LoosenedOnlyAfterCalm
<1> DEFINE Late == process = "running" /\ process' = "running" /\ Loosens
                     => belowCount = HysteresisDown - 1
<1>1. ASSUME IInv, [AgentNext]_agentVars, process = "running", process' = "running", Loosens
      PROVE  belowCount = HysteresisDown - 1
  <2>1. CASE TickColdStart
    <3>1. AnalyzeColdStart /\ React(ReturnedLevel')  BY <2>1 DEF TickColdStart
    <3>2. CortexTypeOK' /\ ReturnedLevel' = ReturnedLevel
      BY <1>1, <3>1, RunningParts, ColdStartCortex
    <3>3. lastLevel \in Level /\ ReturnedLevel' = lastLevel
      BY <1>1, <3>2, RunningParts
    <3>4. Limit(lastLevel) /\ Survive(lastLevel)
      BY <3>1, <3>3 DEF React
    <3>5. lastLevel < lastLevel
      <4>1. PICK level \in Level : level = lastLevel  BY <3>3
      <4>2. Limit(level) /\ Survive(level)  BY <3>4, <4>1
      <4>3. QED  BY <1>1, <4>1, <4>2, LooseningLowers
    <3>6. QED  BY <3>3, <3>5 DEF Level
  <2>2. ASSUME NEW dm \in DMs, NEW dt \in Elapsed, Tick(dm, dt)
        PROVE  belowCount = HysteresisDown - 1
    <3>1. Analyze(dm, dt) /\ React(ReturnedLevel')  BY <2>2 DEF Tick
    <3>2. /\ CortexTypeOK' /\ ReturnedLevel' = currentLevel'
          /\ currentLevel' < currentLevel => belowCount = HysteresisDown - 1
      BY <1>1, <3>1, RunningParts, AnalyzeCortex
    <3>3. PICK level \in Level : level = currentLevel'
      BY <3>2 DEF CortexTypeOK
    <3>4. Limit(level) /\ Survive(level)
      BY <3>1, <3>2, <3>3 DEF React
    <3>5. level < lastLevel
      BY <1>1, <3>4, LooseningLowers
    <3>6. lastLevel = currentLevel
      BY <1>1, RunningParts
    <3>7. QED  BY <3>2, <3>3, <3>5, <3>6
  <2>3. CASE Shutdown  BY <1>1, <2>3 DEF Shutdown
  <2>4. CASE Crash  BY <1>1, <2>4 DEF Crash
  <2>5. CASE Start  BY <1>1, <2>5 DEF Start
  <2>6. CASE UNCHANGED agentVars
    <3>1. high' = high /\ max' = max /\ active' = active
      BY <2>6 DEF agentVars
    <3>2. Severity(high) \in Nat /\ Severity(max) \in Nat
      BY <1>1 DEF IInv, TypeOK, Severity, Motor!HighLimit, Motor!MaxLimit
    <3>3. QED  BY <1>1, <3>1, <3>2 DEF Loosens
  <2>7. QED  BY <1>1, <2>1, <2>2, <2>3, <2>4, <2>5, <2>6 DEF AgentNext
<1>2. IInv /\ [AgentNext]_agentVars => [Late]_agentVars
  BY <1>1
<1>3. QED
  BY <1>2, AgentInvariant, PTL DEF AgentSpec, LoosenedOnlyAfterCalm, Loosens

=============================================================================
