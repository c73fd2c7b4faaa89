---------------------------- MODULE SurvivalEpisode ----------------------------
(***************************************************************************)
(* Where the tasks of the offender and of the vital cgroup run: the walk   *)
(* of CacheTopology, the CPU sets that Engage writes from it (internal/    *)
(* motor/survival.go and cpuset.go), and the survival scheduler between    *)
(* Engage and Release.  The other control files are in SurvivalMotor.      *)
(*                                                                         *)
(* Engage writes the CPU sets before it attaches the scheduler, and while  *)
(* that is attached nothing changes them.  A CPU that comes or goes throws *)
(* the scheduler out, as it has no callback for that; so does the kernel's *)
(* watchdog.  The motor holds its link all the same.                       *)
(*                                                                         *)
(* The two cgroups may be siblings, or the vital one may lie inside the    *)
(* offender's, which is how the default paths have it.                     *)
(***************************************************************************)
EXTENDS CacheTopology, SurvivalScheduler

CONSTANTS
  OffenderTasks,  \* the tasks of the offender cgroup
  VitalTasks      \* the tasks of the vital cgroup

ASSUME CgroupAssumption ==
  /\ OffenderTasks \cup VitalTasks \subseteq Task
  /\ OffenderTasks \cap VitalTasks = {}

\* The scheduler and the walk are on one node.
ASSUME NodeAssumption == CPUs = Cpu

VARIABLES
  active,         \* sm.active
  link,           \* sm.schedExtFD >= 0
  nested,         \* the vital cgroup lies inside the offender's; never changes
  cpuset,         \* cpuset.cpus of each cgroup, {} when never written
  pinned          \* history: the last Engage wrote both CPU sets, from a steady walk

motorVars == <<active, link, nested, cpuset, pinned>>
vars == <<topologyVars, schedVars, motorVars>>

Init ==
  /\ TopologyInit
  /\ SchedInit
  /\ active = FALSE
  /\ link = FALSE
  /\ nested \in BOOLEAN
  /\ cpuset = [cgroup \in {"offender", "vital"} |-> {}]
  /\ pinned = FALSE

-----------------------------------------------------------------------------
(* The motor.                                                              *)

\* What the kernel makes of the file of a cgroup: those of its CPUs that the
\* parent has, or else all that the parent has.
Effective(file, parent) ==
  IF ParseCPUList(file) \cap parent = {} THEN parent ELSE ParseCPUList(file) \cap parent

\* The CPUs each task has.
AllowedBy(inside, files, cpus) ==
  LET offenderCPUs == Effective(files["offender"], cpus)
      vitalCPUs == Effective(files["vital"], IF inside THEN offenderCPUs ELSE cpus)
  IN  [t \in Task |-> CASE t \in OffenderTasks -> offenderCPUs
                         [] t \in VitalTasks -> vitalCPUs
                         [] OTHER -> cpus]

\* Slip: the offender is given the same group.
SelectFirstCPUs == IF Len(CacheGroups) < 2 THEN {} ELSE CacheGroups[1]

SelectOffenderCPUs == IF Len(CacheGroups) < 2 THEN {} ELSE CacheGroups[2]

SelectCacheWarmCPUs == IF CacheGroups = <<>> THEN {} ELSE CacheGroups[1]

\* SetCgroupCPUSet, which may fail; it is not called without CPUs.
Written(cgroup, cpus) ==
  {cpuset[cgroup]} \cup (IF cpus = {} THEN {} ELSE {CPUList(cpus)})

\* applyFallback.
PinCPUs ==
  \E offenderSet \in Written("offender", SelectOffenderCPUs),
     vitalSet \in Written("vital", SelectCacheWarmCPUs) :
    /\ cpuset' = [offender |-> offenderSet, vital |-> vitalSet]
    /\ pinned' = (/\ steady
                  /\ SelectOffenderCPUs # {}
                  /\ offenderSet = CPUList(SelectOffenderCPUs)
                  /\ vitalSet = CPUList(SelectCacheWarmCPUs))
    /\ allowed' = AllowedBy(nested, cpuset', online)

\* Then loadSchedExt attaches the scheduler or fails.
Engage ==
  /\ ~Walking
  /\ ~active
  /\ active' = TRUE
  /\ PinCPUs
  /\ \/ Attach /\ link' = TRUE
     \/ UNCHANGED <<link, scx, ctrlVars, placeVars>>
  /\ UNCHANGED <<nested, topologyVars>>

\* The scheduler is gone, if it was in force.
Gone == IF scx THEN Detach ELSE UNCHANGED <<scx, ctrlVars, placeVars>>

\* The CPU sets stay.
Release ==
  /\ active
  /\ active' = FALSE
  /\ link' = FALSE
  /\ Gone
  /\ UNCHANGED <<nested, cpuset, pinned, allowed, topologyVars>>

\* The process dies with its link, and its successor discovers the caches anew.
Crash ==
  /\ active' = FALSE
  /\ link' = FALSE
  /\ Gone
  /\ Rediscover
  /\ UNCHANGED <<nested, cpuset, pinned, allowed>>

-----------------------------------------------------------------------------
(* The kernel.                                                             *)

Eject == scx /\ Detach /\ UNCHANGED <<allowed, topologyVars, motorVars>>

ChangeCPUs(cpu) ==
  /\ Hotplug(cpu)
  /\ Gone
  /\ allowed' = AllowedBy(nested, cpuset, online')
  /\ UNCHANGED motorVars

Run(cpu) == cpu \in online /\ Dispatch(cpu) /\ UNCHANGED <<topologyVars, motorVars>>

TaskStep ==
  /\ \/ \E cpu \in Cpu : Block(cpu)
     \/ \E t \in Task, last \in Cpu : Wake(t, last)
     \/ WriteControl
  /\ UNCHANGED <<topologyVars, motorVars>>

-----------------------------------------------------------------------------

Next ==
  \/ ReadCache /\ UNCHANGED <<schedVars, motorVars>>
  \/ Engage \/ Release \/ Crash \/ Eject
  \/ \E cpu \in Cpu : ChangeCPUs(cpu) \/ Run(cpu)
  \/ TaskStep

\* A CPU with a reason to dispatch does.  Nothing is assumed of the tasks, of
\* the motor or of the watchdog.
Spec == Init /\ [][Next]_vars /\ \A c \in Cpu : WF_vars(Due(c) /\ Run(c))

-----------------------------------------------------------------------------
(* Properties.                                                             *)

\* A task is on one CPU, or at one position of one queue, or asleep.
OnePlace(t) ==
  /\ \A c, d \in CPUs : running[c] = t /\ running[d] = t => c = d
  /\ \A p, q \in Queue : \A i \in DOMAIN dsq[p], k \in DOMAIN dsq[q] :
       dsq[p][i] = t /\ dsq[q][k] = t => p = q /\ i = k
  /\ Running(t) => ~Queued(t)
  /\ t \in asleep => ~Running(t) /\ ~Queued(t)

\* Types; no task is in two places; a scheduler in force is one the motor still
\* holds; and no two groups of a walk that nothing disturbed share a CPU.
TypeOK ==
  /\ online \subseteq Cpu /\ 0 \in online
  /\ scx => link
  /\ link => active
  /\ offender \in Suspect \cup {NoTask} /\ {starving, active, link, nested, pinned} \subseteq BOOLEAN
  /\ ~scx => dsq = EmptyQueues /\ running = NoneRunning
  /\ \A t \in Task : OnePlace(t)
  /\ steady => \A i, j \in DOMAIN groups :
                 i # j => CacheGroups[i] \cap CacheGroups[j] = {}

\* Predictive Cache Affinity: once both CPU sets are written from a walk that no
\* change of the CPUs disturbed, and as long as each names a CPU on line, siblings
\* are apart: no task of the offender runs, or may run, on a CPU the vital tasks
\* have.  With the vital cgroup inside the offender's, as by default, it is the
\* reverse: the vital tasks have the offender's CPUs and no other.
OffenderOffVitalCaches ==
  (/\ pinned
   /\ \A cgroup \in {"offender", "vital"} : ParseCPUList(cpuset[cgroup]) \cap online # {})
    => \A t \in OffenderTasks, u \in VitalTasks :
         /\ nested => allowed[u] = allowed[t]
         /\ ~nested => /\ allowed[t] \cap allowed[u] = {}
                       /\ \A cpu \in allowed[u] : running[cpu] # t

\* Targeted starvation: an armed offender that has lost its CPU does not get one
\* back while the scheduler is in force and stays armed against it, however
\* often it sleeps and wakes.
ArmedOffenderStaysOut ==
  [][\A t \in Task :
       /\ scx /\ starving /\ offender = t /\ ~Queued(t) /\ ~Running(t)
       /\ scx' /\ starving' /\ offender' = t
       => ~Queued(t)' /\ ~Running(t)']_vars

\* Nobody else pays for it: a task that waits gets a CPU, or the scheduler goes,
\* although only CPUs with a reason to look for work are sure to do so.
OthersRun == \A t \in Task : Queued(t) ~> Running(t) \/ ~scx

=============================================================================
