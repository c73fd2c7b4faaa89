# Verification of HOSA

HOSA is an agent that watches one Linux node. Once per tick it reads four kernel
counters, judges how far they are from normal, and reacts: it throttles a cgroup
through its memory limits, in an emergency it also starves an offender, shields
vital processes and replaces the CPU scheduler, and it says what it does in a log
and through a webhook. This directory holds TLA+ models of that program, the TLC
runs that check them, and proofs checked by TLAPS.

Paths such as `predictor.go:146` are relative to the package they belong to under
`internal/`, `main.go` is `cmd/hosa/main.go`.

## 1. The system

| Component | State it keeps | Operations | Interacts with |
|---|---|---|---|
| Predictive Cortex (`brain/predictor.go`) | baseline statistics, smoothed distance, previous reading, current level, count of calm cycles | `Analyze` (cold start, derivative, `classify`) | reads the short-term memory; its level drives everything else |
| Short-term memory (`state/memory.go`) | ring buffer of 300 readings: data, head, count | `Insert`, `Snapshot`, `IsReady` | written by the main loop, read by the cortex |
| Statistics (`brain/welford.go`, `brain/mahalanobis.go`, `linalg/`) | sample count, mean, sums of products | `Update`, `Covariance`, `Inverse`, `CalculateStress` | called by the cortex |
| Cgroup motor (`motor/cgroups.go`, `syscgroup/`) | last level applied; in the kernel: `memory.high`, `memory.max` | `Apply` (release, contain, protect) | called by `react` and by the shutdown |
| Survival motor (`motor/survival.go`, `motor/cpuset.go`) | active flag, scheduler link; in the kernel: weight, swappiness, swap limit and CPU set of two cgroups | `Engage`, `Release` | called by `react` and by the shutdown; uses topology and BPF loader |
| Main loop (`main.go`) | tick count, interval | tick, `react`, shutdown | calls everything, in one goroutine |
| Thalamic Filter (`brain/thalamic_filter.go`) | last level, time of the last heartbeat | `Observe`, `NotifyContainment`, `NotifySurvival` | called by the main loop |
| Webhook (`telemetry/webhook.go`) | highest level posted | `Notify`, one goroutine per post | called by the main loop |
| Telemetry server (`telemetry/server.go`, `state.go`) | one snapshot under a lock | two HTTP handlers | snapshot written by the main loop |
| Sensor collector (`sensor/collector.go`, `bpf/sensors.c`) | descriptors of map, programs, events; four counters in the kernel | `Start`, `ReadMetrics`, `Close` | uses the BPF loader |
| BPF loader (`sysbpf/`) | none | parse ELF, relocate, create, load, attach, link | used by collector and survival motor |
| Survival scheduler (`bpf/survival_scheduler.c`) | control map, dispatch queues (kernel) | enqueue, dispatch, select CPU | loaded by the survival motor |
| Topology (`sensor/proprioception.go`) | none after start | `DiscoverTopology` | cache groups used by the survival motor |
| Fragmentation monitor (`sensor/fragmentation.go`) | count of compactions | `Sample` | called by the main loop with Phase 2 |
| Configuration (`config/`) | none after start | `LoadWithFlags`, `Validate` | read once by `main` |

What is hard about it:

* **Memory of the process against memory of the kernel.** The motors act on
  *changes* of level. What they remember is lost with the process, what they wrote
  is not; any write may fail; and what is in force after a sequence of levels
  depends on which files each level writes.
* **Hysteresis.** Three rules (magnitude, derivative, a counter of calm cycles)
  are applied in order; a counter that mixes readings of two levels, or an
  off-by-one, shows only in particular sequences.
* **Age of data.** The cortex picks its reading by position in the snapshot.
* **Three memories of the last level** (motor, filter, webhook) that have to tell
  one story.
* **Numbers that are reused.** Descriptors are plain integers; one kept after its
  close names someone else's object later.
* **Endings**: graceful stop, crash, reload, restart, from every level and after
  every failure.

Thread interleaving is confined to the edges: the HTTP handlers and the webhook's
posts run beside the one goroutine of the loop, and in the kernel the callbacks of
the scheduler run on every CPU. The rest of the nondeterminism is in the
environment: readings, elapsed time, failing writes, CPUs that come and go, the
end of the process.

What makes each component correct: the cortex never under-reacts and relaxes only
after the full run of calm readings, and then does relax; limits, knobs and
scheduler always correspond to the level; a stop restores them; the memory is a
window of the last readings, and what is learnt of them is what a batch computation
would give; the log tells the level, and on time; a request sees one snapshot, and
holds up neither the motors nor the shutdown; sensor and
scheduler hold exactly the descriptors they remember; the offender is kept off the
caches of vital tasks and off the CPU, and nobody else is; what was validated is
what is in force. `PROJECT.json` lists the hazards one by one with the properties that watch them.

## 2. The modules

| Module | Models |
|---|---|
| `AlertLevels` | the five levels shared by brain and motor |
| `PredictiveCortex` | the decision stage of the cortex: cold start, derivative, `classify` |
| `HysteresisLevel` | **abstract**: what the cortex promises about the level, without a counter |
| `CortexHysteresis` | the cortex with a history of its last readings; properties; refinement |
| `CgroupMotor` | the Phase 1 actuator and its two files |
| `SurvivalMotor` | the Phase 2 actuator, its six knobs and the scheduler link |
| `HosaAgent` | composes the cortex with both motors under the main loop and the life of the process |
| `RecentReadings` | **abstract**: a window of the last readings |
| `ShortTermMemory` | the ring buffer, and the row the cortex takes from it |
| `Baseline` | what is learnt of readings and how one is measured against it: Welford's sums, the batch sums, the distance, as pure operators on exact integers |
| `Learning` | composes memory and baseline: the first half of `Analyze` |
| `Reporting` | Thalamic Filter and webhook |
| `Descriptors` | the descriptor table of the process under `Collector.Start`/`closeAll` and `loadSchedExt`/`Release` |
| `Configuration` | file and command line, `Validate`, and the values in force behind the components' fallbacks |
| `SnapshotRegister` | **abstract**: an atomic register of snapshots |
| `FragmentationMonitor` | `Sample`, the load it is given, the compaction |
| `Telemetry` | composes the loop's snapshot, the lock, the requests, the shutdown and the fragmentation monitor |
| `CacheTopology` | the walk over sysfs that finds the cache groups, and the format of CPU lists |
| `SurvivalScheduler` | the `sched_ext` scheduler: control map, queues, CPUs |
| `SurvivalEpisode` | composes topology, CPU sets and scheduler under `Engage` and `Release` |
| `MC*` | small instances for TLC |
| `CortexProofs`, `AgentProofs`, `LearningProofs`, `ReportingProofs`, `DescriptorProofs`, `TelemetryProofs`, `ConfigurationProofs`, `EpisodeProofs` | proofs |

Operators whose comment begins with "Slip" are wrong variants of the operator that
follows them. No specification uses them; they exist to confirm that each property
notices a plausible mistake (`mutants` in `PROJECT.json`).

### Cortex

`PredictiveCortex` keeps the names of the code: `prev`, `currentLevel`,
`belowCount`. `Classify` has one disjunct per branch of `classify`: `Rise` (the
demand is not lower: follow it, reset), `Hold` (lower but not calm: reset), `Wait`
(lower and calm: count), `Fall` (the count reaches the depth: fall straight to the
demand of this reading).

Abstractions, and why they are sound for the properties:

* The smoothed distance is any member of `DMs`. It is an exponential average of a
  Mahalanobis distance of readings the environment chooses; nothing in the decision
  stage depends on how it came about. One unit is half a unit of the program, so
  the default thresholds 3.5, 5.5, 8.0, 12.0, 2.0 and 0.5 are integers.
* The derivative is *not* free. It is the difference to the previous distance over
  the elapsed seconds; `rise > threshold * span` is the division of the code
  without rounding. It is 0 on the first analysis and when no time elapsed.
* Cold start: `Analyze` returns early while there are too few readings or the
  covariance is singular. The covariance sums positive semi-definite terms, so once
  inverted it stays invertible; the model therefore allows a cold start only until
  the first completed analysis. The first reading is not learnt (the buffer is not
  ready with one row), hence one reading more than `MinSamples`.
* `Analyze` and `Insert` return errors for a wrong dimension only; the dimension is
  the constant 4 throughout, so these paths are unreachable.
* A reading carries the parity of its time stamp. The program compares stamps only
  through the elapsed time, but without it a tick that finds everything as it was
  would be a stuttering step, and fairness of the tick would force the readings out
  of a steady state instead of letting the clock run in it.
* The configuration fallbacks (`<= 0` selects a default) are kept. `CfgSurvival` is
  always unset in the agent, as `main.go:77` does not pass it.

### Agent

`HosaAgent` has one action per thing that happens to the process: a tick while
calibrating, a tick, a signal, a crash, a start. A tick is the whole body of the
loop: `Analyze`, then `React`, which limits memory and then engages or releases the
survival motor in the order of the code. An application of a level is described by
the number `done` of writes that took effect, because the code stops at the first
failure; `Engage` and `Release` by the set of writes that took effect, because they
go on. `Faults` names which survival knobs may fail together; those of the
memory limits fail freely.

A crash in the middle of a tick needs no action of its own: it leaves the files as
a tick whose remaining writes failed, followed by `Crash`. `Crash` stands for a
panic, SIGKILL, and the SIGHUP that `ExecReload` of the service file sends and
nothing handles. `Start` is `Restart=always`, or an operator; it resets nothing in
the kernel. Sampling intervals only select the elapsed time, which is an input.

History variables, which no action of the code reads: `limitsSettled` (the last
change of level wrote everything it had to) and `knobsSettled` (likewise for the
last `Engage` or `Release`). They let the properties say what holds when writes
succeed without assuming that they always do. `origin` is the level Containment was
entered from, as long as that level's own writes had taken effect: Containment writes
`memory.high` only, so `memory.max` is still what that level left, and after a failed
release or under a dead process's limits nothing is known of it (`Unknown`).

### Memory

`ShortTermMemory` models rows, `head` and `count`; a reading is a value. `Analyse`
takes row `count - 1` of the snapshot, whose rows are in memory order.
`Chronological` is the refinement mapping to `RecentReadings`.

`Learning` adds what `Analyze` does with the row: `Update` the baseline, then measure
that same row against it. `baseline` is `pc.welford` with its count, mean and sums of
products; `distance` is the raw distance, squared and kept as a quotient, because it
is only ever compared. `learnt` is a history of the readings learnt, so that the
incremental baseline can be compared with `MeanVector` and `CentredProducts`, which
translate `linalg/statistics.go`.

* Arithmetic is exact where the program's is floating point. A number is an integer
  in units of `1 / Scale`; with `Scale = 420` and at most seven samples no division
  has a remainder, which is why `MaxSamples` bounds the readings one process learns.
  So the run shows the *formulas* right; rounding and NaN are not modelled.
* Two variables of four: the inverse is written out (`SquaredDistance`), and
  singularity is a zero determinant, which is when Gauss-Jordan with exact
  arithmetic finds a column without pivot.
* `JudgedForGood` justifies a decision of `PredictiveCortex`, which allows a cold
  start only until the first completed analysis.

### Reporting

Level, slope and time of a tick are inputs. Filter, cgroup motor, survival motor and
webhook each keep a memory of the level (`tfLevel`, `lastLevel`, `active`, `fired`) and
report by comparing with their own. `HeartbeatPunctual` is about the ticks: right after
one, the last heartbeat is less than an interval old, so a silence lasts an interval and
one tick at most.
A post is a goroutine that ends at any time; its outcome is ignored, as in the code.
`told`, `sinceLine`, `posts`, `early` and `edge` are history variables.

### Descriptors

The table is the kernel's: a new descriptor is the lowest free number, so numbers
are reused as soon as they are closed. `Start` and `loadSchedExt` are cut at the
calls that can fail, and every call may fail at any time. `mapFD`, `progFDs`,
`eventFDs`, `active` and `schedExtFD` are fields of the code; `ctrlMap`,
`lastProgFD` and `progCount` are the locals of `loadSchedExt` and vanish when it
returns. `Deferred` is its deferred function, with its condition on a field that an
earlier episode set.

* The descriptors of the kernel's BTF and of the struct_ops map are open only
  during the last calls of a load, and closed on every path. They are folded into `Link` (which takes the third free number), `LinkFails` and
  `LoadFails`.
* `close` succeeds on an open descriptor. Other files of the process come and go
  within one call and keep no number, the listener of the telemetry server keeps
  one from before the first episode; both are left out, as nothing depends on which
  numbers are free.
* `Restart` is any end of the process: the kernel closes everything.
* `RunningSensorIsComplete` and the knobs of `SurvivalMotor` do not meet: that module
  takes the load as one step that succeeds or fails.

### Configuration

One action starts a process: whatever file is there and whatever flags it is given,
`LoadWithFlags` and `Validate` run to the end, and the agent runs or refuses. A file
is a partial function from settings to values, one of which does not parse; a
malformed file stands for an unreadable one too. `config` is what `Validate` saw,
`inForce` what the components make of it: `Wired` is the list of fields `main.go`
passes (all but the threshold of Survival) followed by the fallbacks of `classify`,
`NewPredictiveCortex`, `contain` and `protect`. The two differ, which is the point
of the properties. A flag can only hold a value that parses: any other ends the
process in `flag.Parse`.

### Telemetry

`Telemetry` cuts the loop at the places where requests can interfere: the timer
(`Sense`: read, analyse, sample, build the snapshot), the lock, each field written,
the unlock, the motors (`React`), and the shutdown with its deadline. A request asks,
copies each field under the read lock, and then sends for as long as its client
likes. A struct copy is not one step, so fields are copied in any order; two fields
stand for the six. The lock is Go's `RWMutex`: a writer that waits keeps new readers
out, and on unlocking the readers that waited go first. The state vector is shared
by reference, but `main.go:204` makes a new copy for each snapshot, so it is a value.

* `Seen` and `published` map it to `SnapshotRegister`: the register changes when
  `Set` unlocks, and a request is answered when `Get` does.
* `Shutdown` waits for requests and gives up after three seconds: `Drained`,
  `Deadline`. The deadline is an action; that it passes is a fairness assumption.
* The webhook is handed a copy of the snapshot and is in `Reporting`.
* `Sample` is given `reading[0]`. That is the total of wakeups since the probe was
  attached (`ReadMetrics` copies the kernel's counter), not a rate, and 0 when its
  lookup fails. It is compared with `Trough`, a setting that nothing validates: the
  default of 0.10 lets only 0 pass, which is `Trough = 0` in whole wakeups. `counter`
  saturates at `MaxCount`, above the trough. `due` is a history: the tick saw memory
  fragmented above the threshold and no task was woken since the tick before.

### Survival episode

`CacheTopology` is the walk of `buildCacheGroups`, one directory a step, in the order
in which `ReadDir` gives them (by name: `cpu10` before `cpu9`). The kernel's list of
the CPUs that share a cache names those on line at that moment, so a CPU that comes
or goes during the walk changes the key by which groups are told apart. `CPUList` and
`ParseCPUList` translate `CPUSet.String` and `parseCPUList`. A list is the set of its
ranges: both writers, the code and the kernel, put them in ascending order, so the set
is all there is to know of one.

`SurvivalScheduler` has a step per callback: `Enqueue`, `Dispatch` (consume the
vital queue first, if starvation is on, then the global one), `Role` (which never
says vital). The kernel's side is external: a task that wakes, blocks or ends its
slice; a CPU that has a reason to call dispatch; attaching and throwing out.

* The control map is written entry by entry by someone the repository does not
  contain: no Go code writes it, and with an empty map no task is ever starved. The
  properties hold for every writer, that one included. `Suspect` are the tasks it may
  name.
* A slice may end at any time, so `Dispatch` of a busy CPU is always possible. An
  idle CPU calls dispatch only when it is kicked; `hosa_select_cpu` returns the
  previous CPU and kicks nobody else, so the model does not assume that idle CPUs
  find waiting tasks.
* `Effective` is what the cpuset controller makes of a file: those of its CPUs that
  the parent has, or, if there are none, all the parent has. `nested` says whether the
  vital cgroup lies inside the offender's, as the default paths of `config.go:197` have
  it, or beside it. That the kernel lets a cgroup with both tasks and children have all
  the controllers the motor writes to is taken for granted.

`SurvivalEpisode` puts the two together under `Engage` (CPU sets first, each write
may fail, then the scheduler, which may fail) and `Release` (the scheduler only). The
kernel may eject the scheduler, and does when a CPU comes or goes; the motor keeps
its link (`scx => link`, not the reverse). The other knobs are in `SurvivalMotor`.

## 3. The runs

Passing runs:

| Run | States | Checks |
|---|---|---|
| `cortex` | 16 875 | `CounterIsCalmRun`: the counter is the length of the run of calm readings taken at the present level. `NeverUnderReacts`: the level is never below the magnitude of the last reading. `ImplementsHysteresis`: refinement of `HysteresisLevel`. `CalmEndsInHomeostasis`: calm readings for ever end in Homeostasis |
| `agent` | 16 310 | `LimitsMatchLevel`, `SurvivalMatchesLevel`: files, motors and cortex agree; at Containment `memory.max` is that of the level before. `GracefulShutdownRestores`. `LoosenedOnlyAfterCalm`: nothing correctly applied is loosened before the full run of calm readings. `EventuallyRestored`: an undisturbed agent on calm readings ends at rest |
| `memory` | 22 101 | `ImplementsRecentReadings`: the buffer is a window of the last readings. `AnalysedAge`: exactly how old the judged reading is. `BaselineIsBatch`: learning one reading at a time gives the batch mean and covariance. `JudgedForGood`: once a distance exists it never disappears again. `ConstantVariableBlinds`: while one variable is constant nothing is judged. `DistanceBounded`: a reading is part of the baseline it is measured against, so its squared distance is at most (n - 1)^2 / n; with the default thresholds no distance reaches that of Containment before the 33rd sample, of Protection before the 66th, of Survival before the 146th (a steep rise may demand one level more than the distance does) |
| `reporting` | 15 526 | `LogTellsLevel`, `HeartbeatPunctual` (neither late nor early), `ActionsExplained`: lines about actions and lines about levels, which come from separate memories, explain each other. `PostsAtMostOncePerLevel` |
| `descriptors` | 33 765 | `SensorHoldsWhatItRemembers`: nothing stays behind however `Start` fails, and survival episodes never touch the sensor. `RunningSensorIsComplete`. `LinkIsRemembered`: the scheduler's link is never lost nor closed twice. `LossPerProgram`: the only descriptors ever lost are one per program loaded |
| `configuration` | 58 017 | `OrderInForce`: of the order `Validate` asks for, thresholds, fractions and intervals, exactly what is left in the values in force. `FlagInForce`: every flag that is given wins, also one that repeats the default, but for the threshold of Survival and a hysteresis that is not positive |
| `telemetry` | 55 608 | `ImplementsRegister`: a request is answered with one snapshot, published while it asked. `LoopNeverBlocked`: the loop gets past the lock whatever clients do. `StopReachesRestore`: a signal leads to the restoration although requests may hang |
| `episode` | 269 368 | `OffenderOffVitalCaches`: with both CPU sets written from an undisturbed walk, no offender task runs, or may run, where vital tasks of a sibling cgroup may; those of a nested cgroup have exactly the offender's CPUs. `ArmedOffenderStaysOut`: an armed offender that lost its CPU gets none back. `OthersRun`: every task that waits gets a CPU, or the scheduler goes |

`LossPerProgram` is a bound, not an absence: each survival episode with the scheduler
does lose descriptors (the control map on success, programs on every path), and the
run goes on until the table is full and no load succeeds any more; the next episode
then runs on cgroups alone.

Each also checks the type invariant of its module.

Runs that find a disagreement between the code and what the repository says of it:

| Run | Property | What it shows |
|---|---|---|
| `agent_limits` | `HomeostasisHasNoLimits` (`cgroups.go:7`) | the level is recorded before the writes, so a failed release is never retried; limits of a crashed process are not removed by its successor |
| `agent_cpuset` | `ReleaseLeavesNothing` (`survival.go:122`) | `cpuset.cpus` is never restored |
| `telemetry_trough` | `CompactsInTroughs` (`README.md:120`, `config.go:127`) | the load `Sample` is given never falls: once any task was woken, no tick counts as a trough under the default |
| `reporting_edge` | `EveryEdgePosted` (`README.md:305`) | after a first episode, later escalations to the same level are never posted |

Disagreements that a passing run shows, because its property states exactly what the
code does instead (all but the last are findings in `PROJECT.json`):

* `AnalysedAge`: `predictor.go:133` says `Analyze` takes the most recent reading. Once
  the buffer wraps, it takes one as old as the head says: the newest on one tick in 300.
* `OffenderOffVitalCaches`: `README.md:119` promises vital processes dedicated cores. The
  default vital cgroup is nested in the offender's, the CPU sets of the two are disjoint,
  and so the kernel gives the vital tasks the offender's CPUs.
* `OrderInForce`: `config.go:95` calls `ThresholdSurvival` the trigger of Survival and
  wants it above Protection. `main.go:77` does not pass it: protection at 13 and survival
  at 15 are accepted, and Survival is triggered at 12, below Protection.
* `FlagInForce`: `config.go:321` says a flag that repeats the default does not override
  the file, "which is the correct behavior". `flag.Visit` visits every flag that was
  given, so it does.
* `LimitsMatchLevel`: `hosa.toml:71` says of Containment that processes are not killed.
  On the way down from Protection it keeps `memory.max`, the limit that kills.
* `survival_scheduler.c:7` promises an offender zero CPU cycles. One that is running
  when it is armed runs on until it is preempted for another task, which nobody has to
  provide; and one that was dropped is not handed over again when starvation is lifted
  (`:138`), only when the scheduler is gone. `ArmedOffenderStaysOut` says what is left.

Bounds, and why they are enough:

* `cortex`: for each of the four thresholds the value at it and the one below it,
  zero and a value far above; elapsed times 0, 1 and 10 give every combination of
  escalating, neutral and relaxing derivative; hysteresis depth 3 lets the counter
  be zero, in between, and at the limit.
* `agent`: one distance per level and elapsed times 1 and 10 connect every pair of
  levels in both directions; failures hit one knob of each cgroup, or all.
* `memory`: four rows, two values for each of two variables, three samples before
  judging and seven in all: the buffer wraps, each row can differ from its neighbours,
  readings are learnt twice because of their age, and the covariance is singular for
  every reason there is (constant, or both variables alike). The proofs lift all of
  these but the number of variables.
* `reporting`: an interval of 3 and ticks of 1 or 2 seconds, so that a heartbeat
  falls due on a tick or between two. The counters `sinceBeat` and `sinceLine`
  saturate at the interval, `posts` at 2; no property distinguishes larger values.
* `descriptors`: four probes and the five programs of the scheduler's object, as in
  the code, and a table of 30 numbers: the sensor takes nine, a successful episode
  loses five of the rest, so the table runs full in the fourth, at every point of a
  load.
* `configuration`: files of two settings and one flag on top. Every rule of
  `Validate` compares two settings at most, so two values in a file, or one in the
  file and one flag, meet or break each of them; the values lie on both sides of the
  neighbours' defaults, and at and beyond the ends of each range. The proof is for
  whatever integers are written and any number of them.

* `telemetry`: two requests, two levels and two measurements: a request can copy while
  another waits for the writer, and a torn copy shows. The proof lifts all three. The
  trough is one wakeup of at most two (`MaxCount`), so that a count passes it at zero
  and above; in `telemetry_trough` it is zero, the default.
* `episode`: three CPUs, 0, 9 and 10, whose directories do not sort as their numbers
  do; four layouts (no level 3 cache, a common one, two whose lists are a range or are
  none); the cgroups nested or not; one task of the offender, one vital, one of neither;
  one change of the CPUs on line, before, during or after the walk and in every state of
  an episode. The proofs lift the CPUs, their caches, the tasks and the number of changes;
  what is left to these bounds is `OthersRun`.

Deadlock is checked in every run.

Fairness. `WF` of a completed analysis, in both liveness runs: the loop of
`main.go` waits on a timer and never blocks, and once the calibration can end a
tick completes an analysis. `WF` of `Start` for a dead process only:
`Restart=always`. Nothing is assumed of an agent that was stopped, of the writes
(they may fail for ever), or of the readings; the liveness properties assume calm
readings in their own premise. In `telemetry`, `WF` of the loop's steps and of the
copies under the lock: goroutines that can run do, and the three seconds pass;
clients may take for ever, and the timer and signals need never come. In `episode`,
`WF` of the dispatch of a CPU that is busy, because slices end, or was kicked, because
the kernel then calls dispatch; tasks, motor, writer and watchdog are free.

## 4. The proofs

For every value of the constants the named assumptions allow: every set of distances,
every configuration, depth, topology and failure pattern. Each type invariant, safety
invariant, safety action property and refinement a passing run checks is stated by a
theorem; `PROJECT.json` lists them.

* `CortexProofs`. The inductive invariant is `HTypeOK /\ CounterIsCalmRun`. A bound on
  `belowCount` is not enough to show that a descent is justified: it must be known
  *what* was counted. Each branch of `classify` either pushes a reading that is not
  calm at the resulting level and resets, or extends the run by one. From it follow
  the refinement (`HysteresisRefinement`) and `ReactionTheorem`.
* `AgentProofs`, on top of `CortexProofs`. The inductive invariant adds to the three
  safety properties the types, the agreement of `currentLevel` with the level last returned, and that a
  process that ended forgot everything; without the last two `Start` and `Shutdown`
  would not preserve the rest. One lemma per action; limits and knobs are
  independent and have lemmas of their own. `LimitsTheorem` includes `memory.max` at
  Containment: a change to it starts from settled limits, whose `memory.max` is known,
  or from others, and then `origin` says so. `LooseningTheorem` adds that only the
  `Fall` branch lowers the level.
* `DescriptorProofs`, for every size of the table and number of probes and programs.
  The sensor's numbers and the loader's refer to objects of disjoint kinds, and a
  load is under way only while the loop runs, the motor is inactive and no link is
  held; both are inductive with the types, and show that the deferred close always
  happens on failure (`DeferredCloses`). `LossTheorem` counts: a link that is made
  loses the control map and closes the last program, which was lost until then.

  `CompletenessTheorem` needs one fact more, that no number is remembered twice: a
  new descriptor is free, so it is none of those that hold a probe or an event.
* `LearningProofs`, for every capacity, set of readings and number of samples. The
  memory first: the modulus is unfolded to "at most one lap" once (`RowValue`); then
  filling and sliding are two cases of one refinement step (`MemoryRefinement`), and
  `MemoryInvariant` fixes the age of the judged reading. `Learning` implements the
  memory alone (`LearningKeepsMemory`), so these hold under it.

  `ConstantVariableTheorem` strengthens "while a variable is constant nothing is
  judged" to *why*: its mean is that constant and its row and column of sums are zero,
  hence the determinant is. It holds for every scale.

  `DistanceTheorem`, `JudgingTheorem` and `BatchTheorem` are of exact arithmetic:
  `ExactAssumption` makes the scale a common multiple of all n (n + 1) up to the last
  sample, so that no division has a remainder. A sample adds the square of its distance
  to a form that is never negative (`ExactInvariant`), so the determinant grows by what
  the distance is measured with. That gives the bound (n - 1)^2 / n, and shows that
  what was judged once is judged for good. For the batch sums, the totals of the learnt
  readings and of their products are part of the invariant (`BatchInvariant`); each
  sample appends a term to both. The total is a recursive function, and what it computes is shown by a
  smallest counterexample (`LeastNatural`) in the place of the induction theorems.
* `ReportingProofs`, for every heartbeat interval and rhythm of ticks. `HeartbeatPunctual`
  is not inductive: one must know that at Homeostasis the heartbeat's age is the age of
  the last line. `ActionsExplained` needs that both motors remember what the filter does:
  the cgroup motor its level, the survival motor whether it is Survival.
* `TelemetryProofs`, for any number of requests. The invariant says what the lock
  protects: fields written so far are those of the new snapshot, fields copied so far
  those of the published one, which cannot change while anyone copies. With it each
  step is one of the register or a stutter (`RegisterRefinement`).
* `ConfigurationProofs`. `OrderInForce` and `FlagInForce` do not say where the values
  in force come from. The invariant does: an agent that runs has accepted its file
  overridden by its flags, and uses what `Wired` makes of that. What remains is one
  comparison of `Validate` with the fallbacks per pair of settings, and, for a flag,
  that no fallback replaces a value `Validate` accepted (the depth of the hysteresis
  excepted, which it does not check).
* `EpisodeProofs`. A CPU list says exactly what it was written for, whatever the set
  (`ParsedList`): this is where the ranges of the format are proved right, joined
  neighbours included. During an undisturbed walk every group is the list of one cache,
  so different lists share no CPU. This is kept after the walk, when CPUs come and go,
  because from then on the invariant speaks of the lists and not of who is on line.
  `AffinityTheorem` combines it with what the kernel makes of the two files, once for
  siblings and once for a nested cgroup.

  For the scheduler, no task is ever in two places (`OnePlace`, in the type invariant),
  with one lemma per callback (`PlaceWake`, `PlaceDispatch` ...): dispatch takes one task
  out of a queue and may put another one in. `StarvationTheorem` goes through every way
  to the CPU: an offender that is out is in no queue, so no dispatch finds it, and
  whoever hands it to `Enqueue`, a wakeup or the dispatch of another, it is dropped.

Left to TLC: the liveness properties `CalmEndsInHomeostasis`, `EventuallyRestored`,
`LoopNeverBlocked`, `StopReachesRestore` and `OthersRun`, as TLAPS does not reason about
`ENABLED` here, and the four runs that show a violation, which are counterexamples.

## 5. Not modelled, and the plan

Not modelled: floating point (rounding, NaN), so the smoothed distance is an input of
the decision stage; the elimination steps of the inverse, of which the model has the
result; the entropy of the free lists; the bytes of ELF and BTF, and whether the
kernel accepts what is loaded (no code fills the struct_ops map, and the relocation
handles one section: both are hazards without a property); HTTP, Prometheus and log
formats; memory size, cores, NUMA nodes and hypervisor of the topology, which are read
once for the boot line and for sizes; `signals.go`, `EnsureVitalCgroup` and
`SurvivalActionSummary`, which nothing calls; the increments of the probes in the
kernel, whose totals are the readings.

What would extend it:

1. *Proofs of the measures liveness rests on*: each calm reading above Homeostasis adds
   to the counter or lowers the level; each step of a stopping loop brings it nearer to
   the restoration, and no step of a request takes it back.
2. *One model* of memory, distance and decision stage, with the distance of `Baseline`
   as the input of `PredictiveCortex`, for the levels an aged reading can cause.
3. *The cgroup hierarchy* of the kernel for the weights and the memory limits too, which
   a nested vital cgroup also shares with the offender's (the CPU sets are modelled).
