------------------------- MODULE FragmentationMonitor -------------------------
(***************************************************************************)
(* The fragmentation monitor (internal/sensor/fragmentation.go).  Once per *)
(* tick it reads how fragmented the free memory is, and asks the kernel to *)
(* compact it when that exceeds a threshold and the CPU is in a trough.    *)
(*                                                                         *)
(* What Sample is given as the load of the CPU is the first component of   *)
(* the reading, which counts every wakeup since the probe was attached and *)
(* never falls; a component whose lookup fails reads as zero.  Nothing     *)
(* validates the trough it is compared with.  Whether the kernel obeys     *)
(* changes a line of the log and a total of the benchmarks only.           *)
(***************************************************************************)
EXTENDS Integers

CONSTANTS
  Frag,           \* HFragNorm, in units that keep it an integer
  FragThreshold,  \* FragConfig.Threshold
  Trough,         \* FragConfig.CPUTroughThreshold, rounded down to whole wakeups
  MaxCount        \* bound: counts above the trough are all alike

ASSUME FragAssumption == Frag \subseteq Nat /\ 0 \in Frag /\ FragThreshold \in Nat
ASSUME TroughAssumption == Trough \in Int
ASSUME MaxCountAssumption == MaxCount \in Nat \ {0} /\ MaxCount > Trough

VARIABLES
  counter,        \* the kernel's count of wakeups, MaxCount for any more
  lastFrag,       \* p2.lastFragState.HFragNorm
  asked,          \* Sample asked for a compaction in the last tick
  due             \* history: it saw fragmentation in a tick without a wakeup

fragVars == <<counter, lastFrag, asked, due>>

FragInit ==
  /\ counter = 0
  /\ lastFrag = 0
  /\ asked = FALSE
  /\ due = FALSE

\* The tasks woken since the last tick; none, if the probe is not attached.
Count(woken) == counter' = IF counter + woken > MaxCount THEN MaxCount ELSE counter + woken

\* reading[0] of this tick.
RunQueue(missed) == IF missed THEN 0 ELSE counter'

\* Sample in a tick that saw h in the free memory.
Sample(h, cpuQueueRate) ==
  /\ lastFrag' = h
  /\ asked' = (h > FragThreshold /\ cpuQueueRate <= Trough)

\* The free memory cannot be read: the last value stays.
SampleFails ==
  /\ asked' = FALSE
  /\ UNCHANGED lastFrag

\* One tick: the wakeups since the last one, the lookup, and the sample.
FragTick ==
  \E woken \in 0 .. MaxCount, missed \in BOOLEAN :
    /\ Count(woken)
    /\ \/ \E h \in Frag :
            /\ Sample(h, RunQueue(missed))
            /\ due' = (h > FragThreshold /\ woken = 0 /\ Trough >= 0)
       \/ SampleFails /\ due' = FALSE

\* A new process attaches its probe to a new map.
FragRestart ==
  /\ counter' = 0
  /\ lastFrag' = 0
  /\ asked' = FALSE
  /\ due' = FALSE

=============================================================================
