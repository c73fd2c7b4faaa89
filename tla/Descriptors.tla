---------------------------- MODULE Descriptors ----------------------------
(***************************************************************************)
(* The file descriptors of one agent process: those of the sensor          *)
(* collector (internal/sensor/collector.go), which opens them once, and    *)
(* those of the survival scheduler (loadSchedExt in                        *)
(* internal/motor/survival.go), opened anew in every survival episode.     *)
(*                                                                         *)
(* The table is the kernel's: a descriptor is the lowest number that is    *)
(* free, and stays open until it is closed or the process ends.  Any call  *)
(* may fail.  Start and loadSchedExt are split at the calls that can fail; *)
(* everything happens in the one goroutine of the main loop, so that no    *)
(* two of these operations overlap.                                        *)
(***************************************************************************)
EXTENDS Integers, Sequences, FiniteSets, Functions

CONSTANTS
  LastFd,         \* the highest descriptor the process may hold (RLIMIT_NOFILE)
  Probes,         \* the number of tracepoints in the list probes
  Programs        \* the number of struct_ops/ sections of the scheduler's object

ASSUME LastFdAssumption == LastFd \in Nat \ (0 .. 3)
ASSUME ProbesAssumption == Probes \in Nat \ {0}
ASSUME ProgramsAssumption == Programs \in Nat

\* 0, 1 and 2 are the standard streams.
Fd == 3 .. LastFd

\* What a descriptor refers to; the first three belong to the collector.
SensorKind == {"map", "probe", "event"}
Kind == SensorKind \cup {"ctrl", "ops_prog", "link"}

VARIABLES
  table,          \* what each descriptor refers to, or "free"
  stage,          \* how far the collector is: new, probing, running, closed, failed
  probe,          \* the probe Start is at
  mapFD,          \* Collector.mapFD, 0 when there is none
  progFDs,        \* Collector.progFDs
  eventFDs,       \* Collector.eventFDs
  active,         \* SurvivalMotor.active
  schedExtFD,     \* SurvivalMotor.schedExtFD
  ctrlMap,        \* loadSchedExt: the control map, -1 when no load is under way
  lastProgFD,     \* loadSchedExt: the last program loaded
  progCount       \* loadSchedExt: how many were loaded

collector == <<stage, probe, mapFD, progFDs, eventFDs>>
locals    == <<ctrlMap, lastProgFD, progCount>>
survival  == <<active, schedExtFD, ctrlMap, lastProgFD, progCount>>
vars      == <<table, stage, probe, mapFD, progFDs, eventFDs, active, schedExtFD,
               ctrlMap, lastProgFD, progCount>>

-----------------------------------------------------------------------------
(* The kernel's table.                                                     *)

Free == {fd \in Fd : table[fd] = "free"}

Of(kinds) == {fd \in Fd : table[fd] \in kinds}

\* What the table becomes when the lowest free descriptor is taken.
Open(fd, kind) ==
  /\ fd \in Free /\ \A other \in Free : fd <= other
  /\ table' = [table EXCEPT ![fd] = kind]

Without(fds) == [fd \in Fd |-> IF fd \in fds THEN "free" ELSE table[fd]]

-----------------------------------------------------------------------------
(* The collector.                                                          *)

NoSensor == mapFD = 0 /\ progFDs = << >> /\ eventFDs = << >>

NoLoad == ctrlMap = -1 /\ lastProgFD = -1 /\ progCount = 0

Init ==
  /\ table = [fd \in Fd |-> "free"]
  /\ stage = "new" /\ probe = 1
  /\ NoSensor
  /\ active = FALSE /\ schedExtFD = -1
  /\ NoLoad

\* Start reads the object and creates the map.
CreateMap ==
  /\ stage = "new"
  /\ \E fd \in Fd : Open(fd, "map") /\ mapFD' = fd
  /\ stage' = "probing"
  /\ UNCHANGED <<probe, progFDs, eventFDs, survival>>

\* Without object or map Start returns before it holds anything; a map that
\* could not be created leaves -1 in the field.
CreateMapFails ==
  /\ stage = "new"
  /\ mapFD' \in {0, -1}
  /\ stage' = "failed"
  /\ UNCHANGED <<table, probe, progFDs, eventFDs, survival>>

\* Slip: one probe more than the list has.
AtProbeTooFar == stage = "probing" /\ probe <= Probes + 1 /\ Len(progFDs) = Len(eventFDs)

\* Start is about to begin with a probe, or about to attach the one it loaded.
AtProbe == stage = "probing" /\ probe <= Probes /\ Len(progFDs) = Len(eventFDs)
ProbeHeld == stage = "probing" /\ Len(progFDs) > Len(eventFDs)

SkipProbe ==
  /\ AtProbe
  /\ probe' = probe + 1
  /\ UNCHANGED <<table, stage, mapFD, progFDs, eventFDs, survival>>

LoadProbe ==
  /\ AtProbe
  /\ \E fd \in Fd : Open(fd, "probe") /\ progFDs' = Append(progFDs, fd)
  /\ UNCHANGED <<stage, probe, mapFD, eventFDs, survival>>

AttachProbe ==
  /\ ProbeHeld
  /\ \E fd \in Fd : Open(fd, "event") /\ eventFDs' = Append(eventFDs, fd)
  /\ probe' = probe + 1
  /\ UNCHANGED <<stage, mapFD, progFDs, survival>>

\* Slip: the programs are left to the events that use them.
CloseAllKeepingPrograms ==
  /\ table' = Without(Range(eventFDs) \cup {mapFD})
  /\ mapFD' = 0 /\ progFDs' = << >> /\ eventFDs' = << >>

CloseAll ==
  /\ table' = Without(Range(eventFDs) \cup Range(progFDs) \cup {mapFD})
  /\ mapFD' = 0 /\ progFDs' = << >> /\ eventFDs' = << >>

\* A relocation, a verification or an attachment failed, or no probe of the
\* list was found in the object.
StartFails ==
  /\ AtProbe \/ ProbeHeld \/ (stage = "probing" /\ probe > Probes /\ eventFDs = << >>)
  /\ CloseAll
  /\ stage' = "failed"
  /\ UNCHANGED <<probe, survival>>

\* Slip: a sensor without a single probe is accepted.
StartSucceedsBlind ==
  /\ stage = "probing" /\ probe > Probes /\ Len(progFDs) = Len(eventFDs)
  /\ stage' = "running"
  /\ UNCHANGED <<table, probe, mapFD, progFDs, eventFDs, survival>>

StartSucceeds ==
  /\ stage = "probing" /\ probe > Probes /\ eventFDs # << >>
  /\ stage' = "running"
  /\ UNCHANGED <<table, probe, mapFD, progFDs, eventFDs, survival>>

\* The deferred Close of main, after the loop has ended.
Close ==
  /\ stage = "running" /\ ctrlMap = -1 /\ ~active
  /\ CloseAll
  /\ stage' = "closed"
  /\ UNCHANGED <<probe, survival>>

-----------------------------------------------------------------------------
(* The scheduler, engaged and released by the main loop.                   *)

MayEngage == stage = "running" /\ ~active /\ ctrlMap = -1

\* There is no scheduler to load, or its object or control map is missing.
EngageWithoutScheduler ==
  /\ MayEngage
  /\ active' = TRUE
  /\ UNCHANGED <<table, collector, schedExtFD, locals>>

CreateCtrlMap ==
  /\ MayEngage
  /\ \E fd \in Fd : Open(fd, "ctrl") /\ ctrlMap' = fd
  /\ UNCHANGED <<collector, active, schedExtFD, lastProgFD, progCount>>

LoadProgram ==
  /\ ctrlMap # -1 /\ progCount < Programs
  /\ \E fd \in Fd : Open(fd, "ops_prog") /\ lastProgFD' = fd
  /\ progCount' = progCount + 1
  /\ UNCHANGED <<collector, active, schedExtFD, ctrlMap>>

\* loadSchedExt returns: its locals are gone and Engage marks itself active.
ReturnFromLoad ==
  /\ ctrlMap' = -1 /\ lastProgFD' = -1 /\ progCount' = 0
  /\ active' = TRUE
  /\ UNCHANGED collector

\* What the deferred function of loadSchedExt closes: the control map, as long
\* as the motor holds no link.
Deferred == {fd \in {ctrlMap} : schedExtFD < 0}

\* Slip: the control map is not closed on the way out.
LoadFailsKeepingCtrlMap ==
  /\ ctrlMap # -1
  /\ UNCHANGED table
  /\ ReturnFromLoad
  /\ UNCHANGED schedExtFD

\* A relocation, a program or the BTF of the kernel failed, or there was no
\* program, or its BTF has no sched_ext_ops: only the control map is closed.
LoadFails ==
  /\ ctrlMap # -1
  /\ table' = Without(Deferred)
  /\ ReturnFromLoad
  /\ UNCHANGED schedExtFD

\* The struct_ops map or the link failed: the last program is closed too.
LinkFails ==
  /\ ctrlMap # -1 /\ progCount = Programs /\ Programs > 0
  /\ Free # {}
  /\ table' = Without(Deferred \cup {lastProgFD})
  /\ ReturnFromLoad
  /\ UNCHANGED schedExtFD

\* While the link is made the BTF and the struct_ops map are open as well, so
\* it gets the third free number; they and the last program are closed at once.
Link ==
  /\ ctrlMap # -1 /\ progCount = Programs /\ Programs > 0
  /\ \E fd \in Free :
       /\ Cardinality({lower \in Free : lower < fd}) = 2
       /\ table' = [Without({lastProgFD}) EXCEPT ![fd] = "link"]
       /\ schedExtFD' = fd
  /\ ReturnFromLoad

\* Slip: the link is closed but its number is kept.
ReleaseKeepingNumber ==
  /\ active /\ stage = "running"
  /\ table' = Without({schedExtFD})
  /\ active' = FALSE
  /\ UNCHANGED <<collector, schedExtFD, locals>>

Release ==
  /\ active /\ stage = "running"
  /\ table' = Without({schedExtFD})
  /\ schedExtFD' = -1
  /\ active' = FALSE
  /\ UNCHANGED <<collector, locals>>

\* The process ends, in whatever state, and another one starts.
Restart ==
  /\ table' = [fd \in Fd |-> "free"]
  /\ stage' = "new" /\ probe' = 1
  /\ mapFD' = 0 /\ progFDs' = << >> /\ eventFDs' = << >>
  /\ active' = FALSE /\ schedExtFD' = -1
  /\ ctrlMap' = -1 /\ lastProgFD' = -1 /\ progCount' = 0

Next ==
  \/ CreateMap \/ CreateMapFails
  \/ SkipProbe \/ LoadProbe \/ AttachProbe
  \/ StartFails \/ StartSucceeds \/ Close
  \/ EngageWithoutScheduler \/ CreateCtrlMap \/ LoadProgram
  \/ LoadFails \/ LinkFails \/ Link \/ Release
  \/ Restart

Spec == Init /\ [][Next]_vars

-----------------------------------------------------------------------------
(* Properties.                                                             *)

\* The numbers the collector remembers.
Remembered == Range(progFDs) \cup Range(eventFDs) \cup ({mapFD} \ {0, -1})

\* Every variable has its type.
TypeOK ==
  /\ table \in [Fd -> Kind \cup {"free"}]
  /\ stage \in {"new", "probing", "running", "closed", "failed"}
  /\ probe \in 1 .. (Probes + 1)
  /\ mapFD \in Fd \cup {0, -1}
  /\ progFDs \in Seq(Fd) /\ eventFDs \in Seq(Fd)
  /\ Len(eventFDs) <= Len(progFDs) /\ Len(progFDs) <= Probes
  /\ active \in BOOLEAN
  /\ schedExtFD \in Fd \cup {-1}
  /\ ctrlMap \in Fd \cup {-1} /\ lastProgFD \in Fd \cup {-1}
  /\ progCount \in 0 .. Programs

\* What the collector remembers is what it holds open, each under the right
\* number: however Start fails, nothing stays behind, and survival episodes,
\* which reuse numbers, never touch the sensor.
SensorHoldsWhatItRemembers ==
  /\ Of(SensorKind) = Remembered
  /\ \A i \in DOMAIN progFDs : table[progFDs[i]] = "probe"
  /\ \A i \in DOMAIN eventFDs : table[eventFDs[i]] = "event"
  /\ mapFD > 0 => table[mapFD] = "map"

\* Whenever the loop runs the sensor is complete: one map, and as many events
\* attached as programs loaded, at least one.
RunningSensorIsComplete ==
  stage = "running" =>
    /\ Of({"map"}) # {} /\ Of({"event"}) # {}
    /\ Cardinality(Of({"event"})) = Cardinality(Of({"probe"}))

\* The survival scheduler replaces the kernel's exactly while the motor
\* remembers a link, and then the motor is active, so that it will be closed.
LinkIsRemembered ==
  /\ Of({"link"}) = {schedExtFD} \ {-1}
  /\ schedExtFD # -1 => active

\* Descriptors that nothing will ever close.
Lost == Of({"ctrl", "ops_prog"}) \ {ctrlMap}

\* Each program loaded costs one descriptor at most, and nothing else ever
\* costs one: an episode loses no more than the scheduler has programs,
\* whichever way loadSchedExt returns.
LossPerProgram ==
  [][ Cardinality(Lost') <= Cardinality(Lost) + (IF progCount' > progCount THEN 1 ELSE 0) ]_vars
=============================================================================
