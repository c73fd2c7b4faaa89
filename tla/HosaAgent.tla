------------------------------ MODULE HosaAgent ------------------------------
(***************************************************************************)
(* The agent (cmd/hosa/main.go): one goroutine that ticks, analyses and    *)
(* reacts, composed of the Predictive Cortex and the two motors, and the   *)
(* life of its process under systemd: graceful stop, crash, restart.       *)
(*                                                                         *)
(* The memory of the process (cortex, lastLevel, active, link) is reset    *)
(* when the process ends; the cgroup files stay as they are.  Every write  *)
(* to a cgroup file may fail.  A crash in the middle of a tick leaves the  *)
(* files as a tick whose remaining writes failed, followed by Crash.       *)
(***************************************************************************)
EXTENDS PredictiveCortex

CONSTANTS
  Targets, CacheGroups, SchedExt,   \* see SurvivalMotor
  Phase2,         \* survival.enabled, and the survival motor was created
  Faults          \* the sets of knobs whose writes may fail together

VARIABLES
  process,        \* "running"; "stopped" by a signal; "dead" by a crash
  lastLevel, high, max,             \* see CgroupMotor
  active, link, knobs,              \* see SurvivalMotor
  limitsSettled,  \* history: the last change of level wrote all its limits
  origin,         \* history: where Containment was entered from, if settled
  knobsSettled    \* history: the last Engage or Release wrote all its knobs

Motor    == INSTANCE CgroupMotor
Survival == INSTANCE SurvivalMotor

agentVars == <<process, vars, lastLevel, high, max, active, link, knobs,
               limitsSettled, origin, knobsSettled>>

ASSUME Phase2Assumption == Phase2 \in BOOLEAN
ASSUME TargetsAssumption == Targets \subseteq {"offender", "vital"}
ASSUME CacheGroupsAssumption == CacheGroups \in Nat
ASSUME SchedExtAssumption == SchedExt \in BOOLEAN
ASSUME FaultsAssumption == {} \in Faults /\ Faults \subseteq SUBSET Survival!Knob

-----------------------------------------------------------------------------
(* React: first the memory limits, then the survival motor.                *)

\* The level Containment is entered from, when its limits are known.
Unknown == -1
Entered(level) == IF level = LevelContainment /\ limitsSettled THEN lastLevel ELSE Unknown

Limit(level) ==
  \/ Motor!ApplySame(level) /\ UNCHANGED <<limitsSettled, origin>>
  \/ \E done \in 0 .. Motor!Writes(level) :
       /\ Motor!ApplyChange(level, done)
       /\ limitsSettled' = (done = Motor!Writes(level))
       /\ origin' = Entered(level)

Engage ==
  \E broken \in Faults, linked \in BOOLEAN :
    /\ Survival!Engage(Survival!EngageKnobs \ broken, linked)
    /\ knobsSettled' = (broken \cap Survival!EngageKnobs = {})

Release ==
  \E broken \in Faults :
    /\ Survival!Release(Survival!ReleaseKnobs \ broken)
    /\ knobsSettled' = (broken \cap Survival!ReleaseKnobs = {})

KeepSurvival == UNCHANGED <<active, link, knobs, knobsSettled>>

\* Slip: the survival motor is released by a shutdown only.
SurviveForever(level) ==
  \/ Phase2 /\ level = LevelSurvival /\ Engage
  \/ ~active /\ level < LevelSurvival /\ KeepSurvival
  \/ active /\ KeepSurvival

Survive(level) ==
  \/ Phase2 /\ level = LevelSurvival /\ Engage
  \/ Phase2 /\ level < LevelSurvival /\ Release
  \/ (~Phase2 \/ active = (level = LevelSurvival)) /\ KeepSurvival

React(level) == Limit(level) /\ Survive(level)

-----------------------------------------------------------------------------
(* The process.                                                            *)

\* The cortex of the next process starts from Init.
ForgetCortex ==
  /\ readings' = 0
  /\ prev' = NoReading
  /\ currentLevel' = LevelHomeostasis
  /\ belowCount' = 0

AgentInit ==
  /\ process = "running"
  /\ Init
  /\ Motor!Init
  /\ Survival!Init
  /\ high = "none"
  /\ max = "none"
  /\ knobs = [k \in Survival!Knob |-> "prior"]
  /\ limitsSettled = TRUE
  /\ origin = Unknown
  /\ knobsSettled = TRUE

\* A tick of the main loop while the cortex is still calibrating.
TickColdStart ==
  /\ process = "running"
  /\ AnalyzeColdStart
  /\ React(ReturnedLevel')
  /\ UNCHANGED process

\* A tick of the main loop.
Tick(dm, dt) ==
  /\ process = "running"
  /\ Analyze(dm, dt)
  /\ React(ReturnedLevel')
  /\ UNCHANGED process

\* Slip: the shutdown leaves the survival motor as it is.
ShutdownWithoutRelease ==
  /\ process = "running"
  /\ process' = "stopped"
  /\ active' = FALSE /\ link' = FALSE
  /\ UNCHANGED <<knobs, knobsSettled>>
  /\ Limit(LevelHomeostasis)
  /\ ForgetCortex

\* SIGTERM or SIGINT: release the survival motor, apply Homeostasis, return.
Shutdown ==
  /\ process = "running"
  /\ process' = "stopped"
  /\ \/ Release
     \/ Survival!ReleaseIdle /\ UNCHANGED knobsSettled
  /\ Limit(LevelHomeostasis)
  /\ ForgetCortex

\* A panic, SIGKILL, or the SIGHUP of "systemctl reload", which nothing
\* handles: no file is restored, and the kernel closes the scheduler link.
Crash ==
  /\ process = "running"
  /\ process' = "dead"
  /\ ForgetCortex
  /\ lastLevel' = LevelHomeostasis
  /\ active' = FALSE
  /\ link' = FALSE
  /\ origin' = Unknown
  /\ UNCHANGED <<high, max, knobs, limitsSettled, knobsSettled>>

\* Restart=always, or an operator: a new process over the files it finds.
Start ==
  /\ process # "running"
  /\ process' = "running"
  /\ limitsSettled' = (high = "none" /\ max = "none")
  /\ knobsSettled' = (\A k \in Survival!ReleaseKnobs : knobs[k] # "survival")
  /\ UNCHANGED <<vars, lastLevel, high, max, active, link, knobs, origin>>

AgentNext ==
  \/ TickColdStart
  \/ \E dm \in DMs, dt \in Elapsed : Tick(dm, dt)
  \/ Shutdown
  \/ Crash
  \/ Start

AgentSpec == AgentInit /\ [][AgentNext]_agentVars

\* The main loop ticks as long as the process runs, and systemd restarts a
\* process that died.  Nothing obliges anybody to restart a stopped agent.
AgentFairness ==
  /\ WF_agentVars(\E dm \in DMs, dt \in Elapsed : Tick(dm, dt))
  /\ WF_agentVars(Start /\ process = "dead")

FairAgentSpec == AgentSpec /\ AgentFairness

-----------------------------------------------------------------------------
(* Properties.                                                             *)

\* The memory of the process and the files it manages have the declared shape.
TypeOK ==
  /\ process \in {"running", "stopped", "dead"}
  /\ readings \in 0 .. MinSamples
  /\ prev \in StressReading \cup {NoReading}
  /\ currentLevel \in Level
  /\ belowCount \in 0 .. (HysteresisDown - 1)
  /\ lastLevel \in Level
  /\ high \in Motor!HighLimit
  /\ max \in Motor!MaxLimit
  /\ active \in BOOLEAN
  /\ link \in BOOLEAN
  /\ knobs \in [Survival!Knob -> Survival!Setting]
  /\ limitsSettled \in BOOLEAN
  /\ origin \in Level \cup {Unknown}
  /\ knobsSettled \in BOOLEAN

\* Where the last change of level wrote all its files, the limits it writes are
\* those of the level, whatever levels were visited and whatever failed before.
\* Containment writes memory.high only: memory.max is still that of the level it
\* was entered from, which coming down from Protection is the limit that kills;
\* and nothing is known of it when that level's own writes had failed, or a dead
\* process had left its limits.
LimitsMatchLevel ==
  process = "running" =>
    /\ limitsSettled => high = Motor!HighFor(lastLevel)
    /\ limitsSettled /\ lastLevel # LevelContainment => max = Motor!MaxFor(lastLevel)
    /\ lastLevel = LevelContainment /\ origin # Unknown => max = Motor!MaxFor(origin)

\* The two motors and the cortex agree: the motor applied the level Analyze
\* returned, the survival motor is active exactly at Survival, its knobs say
\* so where their writes took effect, and the survival scheduler is in force
\* only then.
SurvivalMatchesLevel ==
  process = "running" =>
    /\ lastLevel = ReturnedLevel
    /\ active <=> (Phase2 /\ lastLevel = LevelSurvival)
    /\ link => active
    /\ knobsSettled =>
         IF active THEN \A k \in Survival!EngageKnobs : knobs[k] = "survival"
                   ELSE \A k \in Survival!ReleaseKnobs : knobs[k] # "survival"

\* After a graceful stop whose writes took effect nothing of the intervention
\* is left but the CPU sets, from whatever level the agent was stopped.
GracefulShutdownRestores ==
  process = "stopped" =>
    /\ limitsSettled => high = "none" /\ max = "none"
    /\ knobsSettled => \A k \in Survival!ReleaseKnobs : knobs[k] # "survival"
    /\ ~link

Severity(limit) == CASE limit = "none" -> 0 [] limit = "contain" -> 1 [] limit = "protect" -> 2

\* While the agent runs, a limit that was correctly applied is loosened, and
\* the survival motor released, only by the reading that completes a run of
\* HysteresisDown calm ones.
LoosenedOnlyAfterCalm ==
  [][ /\ process = "running" /\ process' = "running"
      /\ \/ limitsSettled /\ Severity(high') < Severity(high)
         \/ limitsSettled /\ Severity(max') < Severity(max)
         \/ active /\ ~active'
      => belowCount = HysteresisDown - 1 ]_agentVars

QuietTick ==
  \E dm \in DMs, dt \in Elapsed :
    LET trend == TrendOf(dm, dt)
    IN  Tick(dm, dt) /\ DemandedLevel(dm, trend) = LevelHomeostasis /\ trend.relaxes

\* If from some point on the agent runs undisturbed on calm readings, both
\* motors end in their rest position, and the limits are gone if the last
\* writes took effect.
EventuallyRestored ==
  (<>[][QuietTick]_agentVars) =>
     <>[](/\ lastLevel = LevelHomeostasis
          /\ ~active
          /\ limitsSettled => high = "none" /\ max = "none")

-----------------------------------------------------------------------------
(* What the documentation says of the agent, and the code does not do.     *)

\* cgroups.go:7, "Nível 0 (Homeostase) -> sem ação, limites removidos": an
\* agent that is past its calibration and at Homeostasis holds no limit.
HomeostasisHasNoLimits ==
  process = "running" /\ prev # NoReading /\ lastLevel = LevelHomeostasis =>
    high = "none" /\ max = "none"

\* survival.go:122, of Release: "restaurando o estado pré-Survival".  Once
\* released, with every write successful, no knob keeps its emergency value.
ReleaseLeavesNothing ==
  process = "running" /\ knobsSettled /\ ~active =>
    \A k \in Survival!Knob : knobs[k] # "survival"

=============================================================================
