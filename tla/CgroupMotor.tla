----------------------------- MODULE CgroupMotor -----------------------------
(***************************************************************************)
(* The Phase 1 actuator (internal/motor/cgroups.go): it turns an alert     *)
(* level into the memory.high and memory.max limits of the monitored       *)
(* cgroup.  The limits live in the kernel and outlive the process;         *)
(* lastLevel is the motor's memory.                                        *)
(*                                                                         *)
(* A level writes its files in a fixed order and stops at the first write  *)
(* that fails, so an application is described by how many writes took      *)
(* effect.                                                                 *)
(***************************************************************************)
EXTENDS AlertLevels

VARIABLES
  lastLevel,    \* m.lastLevel
  high,         \* memory.high of the cgroup
  max           \* memory.max of the cgroup

HighLimit == {"none", "contain", "protect"}
MaxLimit  == {"none", "protect"}

\* What a level writes to memory.high; Survival applies the Protection floor.
HighFor(level) ==
  CASE level \in {LevelHomeostasis, LevelVigilance} -> "none"
    [] level = LevelContainment                     -> "contain"
    [] level \in {LevelProtection, LevelSurvival}   -> "protect"

\* What a level writes to memory.max when it writes it at all.
MaxFor(level) == IF level \in {LevelProtection, LevelSurvival} THEN "protect" ELSE "none"

\* Slip: release forgets memory.max.
WritesHighOnly(level) == IF level <= LevelContainment THEN 1 ELSE 2

\* release and protect write memory.high and then memory.max; contain writes
\* memory.high only.
Writes(level) == IF level = LevelContainment THEN 1 ELSE 2

Init == lastLevel = LevelHomeostasis

\* Apply at the level already applied: nothing is written.
ApplySame(level) ==
  /\ level = lastLevel
  /\ UNCHANGED <<lastLevel, high, max>>

\* Apply at another level.  The level is recorded before the first write, so
\* a write that fails is not attempted again at this level.
ApplyChange(level, done) ==
  /\ level # lastLevel
  /\ lastLevel' = level
  /\ high' = IF done >= 1 THEN HighFor(level) ELSE high
  /\ max' = IF done >= 2 THEN MaxFor(level) ELSE max

=============================================================================
