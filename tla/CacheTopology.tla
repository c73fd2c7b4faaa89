----------------------------- MODULE CacheTopology -----------------------------
(***************************************************************************)
(* What the agent knows of the caches (internal/sensor/proprioception.go): *)
(* once, at start, it walks the directories of the CPUs in sysfs and lists *)
(* the groups of CPUs that share a level 3 cache, each group once, in the  *)
(* order in which it meets them.                                           *)
(*                                                                         *)
(* The walk is not one step: a CPU may be taken off line or brought back   *)
(* between two directories, and the kernel's list of the CPUs that share a *)
(* cache names those on line at the moment it is read.                     *)
(***************************************************************************)
EXTENDS Integers, SequencesExt

CONSTANTS
  Directories,    \* the CPUs, in the order of the names of their directories
  Layouts,        \* the hardware there may be: the cache of each CPU, or NoCache
  NoCache,
  MaxHotplug      \* bound on the changes of the CPUs on line

Cpu == {Directories[i] : i \in DOMAIN Directories}

ASSUME CpuAssumption == Directories \in Seq(Nat) /\ 0 \in Cpu

VARIABLES
  hardware,       \* the level 3 cache of each CPU
  online,         \* the CPUs on line
  hotplugs,       \* how often that has changed
  walked,         \* how many directories have been read
  groups,         \* the keys of the cache groups, in order of discovery
  steady          \* history: no CPU came or went during the walk

topologyVars == <<hardware, online, hotplugs, walked, groups, steady>>

-----------------------------------------------------------------------------
(* "0-3,5,7" has the ranges <<0, 3>>, <<5, 5>> and <<7, 7>>.  Whoever       *)
(* writes a list puts them in ascending order, so their set says it all.   *)

\* The list the kernel, and CPUSet.String, write for a set of CPUs: consecutive
\* ones are joined.
CPUList(cpus) ==
  {range \in cpus \X cpus :
     LET first == range[1]
         last == range[2]
     IN  first <= last /\ first .. last \subseteq cpus
           /\ first - 1 \notin cpus /\ last + 1 \notin cpus}

ParseCPUList(list) == UNION {range[1] .. range[2] : range \in list}

-----------------------------------------------------------------------------

TopologyInit ==
  /\ hardware \in Layouts
  /\ online = Cpu
  /\ hotplugs = 0
  /\ walked = 0
  /\ groups = <<>>
  /\ steady = TRUE

Walking == walked < Len(Directories)

SharedCPUList(cpu) == CPUList({c \in online : hardware[c] = hardware[cpu]})

\* Slip: a group is listed once for each of its CPUs.
MeetRepeatedly(list) == Append(groups, list)

\* A list met before is not taken again.
Meet(list) == IF Contains(groups, list) THEN groups ELSE Append(groups, list)

\* The next directory: one without a level 3 cache, as that of a CPU off line,
\* is skipped.
ReadCache ==
  /\ Walking
  /\ walked' = walked + 1
  /\ LET cpu == Directories[walked + 1]
     IN  groups' = IF cpu \in online /\ hardware[cpu] # NoCache
                     THEN Meet(SharedCPUList(cpu))
                     ELSE groups
  /\ UNCHANGED <<hardware, online, hotplugs, steady>>

\* The operator takes a CPU off line or brings it back; the first one stays.
Hotplug(cpu) ==
  /\ cpu # 0
  /\ hotplugs < MaxHotplug
  /\ hotplugs' = hotplugs + 1
  /\ online' = IF cpu \in online THEN online \ {cpu} ELSE online \cup {cpu}
  /\ steady' = (steady /\ ~Walking)
  /\ UNCHANGED <<hardware, walked, groups>>

\* A new process walks again.
Rediscover ==
  /\ walked' = 0
  /\ groups' = <<>>
  /\ steady' = TRUE
  /\ UNCHANGED <<hardware, online, hotplugs>>

\* topo.CacheGroups: the CPUs each key stands for.
CacheGroups == [i \in DOMAIN groups |-> ParseCPUList(groups[i])]

=============================================================================
