-------------------------- MODULE DescriptorProofs --------------------------
(***************************************************************************)
(* Proofs about the descriptors, for every size of the table, every number *)
(* of probes and every number of programs of the scheduler.                *)
(*                                                                         *)
(* Argument.  The collector's numbers and the loader's numbers refer to    *)
(* objects of disjoint kinds, so that neither can close what the other     *)
(* holds; and a load is under way only while the loop runs and the motor   *)
(* is not active.  Both are inductive together with the types.             *)
(***************************************************************************)
EXTENDS Descriptors, FiniteSetTheorems, TLAPS

-----------------------------------------------------------------------------
(* The inductive invariant.                                                *)

\* How far Start is, in terms of what it has recorded.
StartProgress ==
  /\ stage = "new" => NoSensor /\ probe = 1
  /\ stage = "probing" =>
       /\ mapFD > 0
       /\ Len(eventFDs) < probe
       /\ Len(progFDs) \in {Len(eventFDs), Len(eventFDs) + 1}
       /\ ProbeHeld => probe <= Probes
  /\ stage = "running" => mapFD > 0 /\ eventFDs # << >> /\ Len(progFDs) = Len(eventFDs)

\* A load is under way only in a running, inactive motor, and its locals refer
\* to what it opened.
LoadProgress ==
  /\ active \/ ctrlMap # -1 => stage = "running"
  /\ ctrlMap # -1 => ~active /\ table[ctrlMap] = "ctrl"
  /\ ctrlMap = -1 => NoLoad
  /\ progCount = 0 => lastProgFD = -1
  /\ progCount > 0 => lastProgFD # -1 /\ table[lastProgFD] = "ops_prog"

DescriptorInv ==
  /\ TypeOK
  /\ SensorHoldsWhatItRemembers
  /\ LinkIsRemembered
  /\ StartProgress
  /\ LoadProgress

-----------------------------------------------------------------------------
(* Frames: who may touch what.                                             *)

\* A step that changes no descriptor of the sensor, and none of its numbers.
LEMMA SensorFrame ==
  ASSUME TypeOK, SensorHoldsWhatItRemembers, UNCHANGED <<mapFD, progFDs, eventFDs>>,
         \A f \in Fd : table[f] \in SensorKind \/ table'[f] \in SensorKind => table'[f] = table[f]
  PROVE  SensorHoldsWhatItRemembers'
<1>1. Of(SensorKind)' = Of(SensorKind)
  BY DEF Of
<1>2. Remembered' = Remembered
  BY DEF Remembered
<1>3. \A i \in DOMAIN progFDs : table'[progFDs[i]] = "probe"
  BY DEF SensorHoldsWhatItRemembers, TypeOK, SensorKind
<1>4. \A i \in DOMAIN eventFDs : table'[eventFDs[i]] = "event"
  BY DEF SensorHoldsWhatItRemembers, TypeOK, SensorKind
<1>5. mapFD > 0 => table'[mapFD] = "map"
  BY DEF SensorHoldsWhatItRemembers, TypeOK, SensorKind
<1>6. QED  BY <1>1, <1>2, <1>3, <1>4, <1>5 DEF SensorHoldsWhatItRemembers

\* A step that changes no link and not the motor's memory of it.
LEMMA LinkFrame ==
  ASSUME LinkIsRemembered, UNCHANGED schedExtFD, active => active',
         \A f \in Fd : table[f] = "link" <=> table'[f] = "link"
  PROVE  LinkIsRemembered'
  BY DEF LinkIsRemembered, Of

\* What closeAll leaves: nothing of the sensor, and everything else.
LEMMA CloseAllEffect ==
  ASSUME DescriptorInv, CloseAll
  PROVE  /\ table' \in [Fd -> Kind \cup {"free"}]
         /\ \A f \in Fd : table'[f] = IF table[f] \in SensorKind THEN "free" ELSE table[f]
         /\ mapFD' = 0 /\ progFDs' = << >> /\ eventFDs' = << >>
         /\ SensorHoldsWhatItRemembers'
<1>1. \A f \in Fd : table'[f] = IF table[f] \in SensorKind THEN "free" ELSE table[f]
  <2> SUFFICES ASSUME NEW f \in Fd
               PROVE  f \in Range(eventFDs) \cup Range(progFDs) \cup {mapFD} <=> table[f] \in SensorKind
    BY DEF CloseAll, Without
  <2>1. f # 0 /\ f # -1
    BY LastFdAssumption DEF Fd
  <2>2. table[f] \in SensorKind <=> f \in Remembered
    BY DEF DescriptorInv, SensorHoldsWhatItRemembers, Of
  <2>3. QED  BY <2>1, <2>2 DEF Remembered
<1>2. mapFD' = 0 /\ progFDs' = << >> /\ eventFDs' = << >>
  BY DEF CloseAll
<1>3. table' \in [Fd -> Kind \cup {"free"}]
  BY DEF CloseAll, Without, DescriptorInv, TypeOK
<1>4. Of(SensorKind)' = {}
  BY <1>1 DEF Of, SensorKind
<1>5. Remembered' = {}
  BY <1>2 DEF Remembered, Range
<1>6. QED  BY <1>1, <1>2, <1>3, <1>4, <1>5 DEF SensorHoldsWhatItRemembers

-----------------------------------------------------------------------------
(* The collector.                                                          *)

\* The map is the first thing the sensor holds.
LEMMA CreateMapStep ==
  ASSUME DescriptorInv, CreateMap
  PROVE  DescriptorInv'
<1>1. PICK fd \in Fd : Open(fd, "map") /\ mapFD' = fd
  BY DEF CreateMap
<1>2. /\ table[fd] = "free" /\ table' = [table EXCEPT ![fd] = "map"]
      /\ fd > 0
  BY <1>1 DEF Open, Free, Fd
<1>3. NoSensor /\ probe = 1 /\ Of(SensorKind) = {}
  BY DEF DescriptorInv, StartProgress, CreateMap, SensorHoldsWhatItRemembers, Remembered, NoSensor, Range
<1>4. TypeOK'
  BY <1>1, <1>2 DEF DescriptorInv, TypeOK, CreateMap, survival, Kind, SensorKind
<1>5. SensorHoldsWhatItRemembers'
  <2>1. Of(SensorKind)' = {fd}
    BY <1>1, <1>2, <1>3 DEF Of, SensorKind, DescriptorInv, TypeOK
  <2>2. Remembered' = {fd}
    BY <1>1, <1>2, <1>3 DEF Remembered, Range, CreateMap, NoSensor
  <2>3. QED  BY <1>1, <1>2, <1>3, <2>1, <2>2
             DEF SensorHoldsWhatItRemembers, CreateMap, NoSensor, DescriptorInv, TypeOK
<1>6. LinkIsRemembered'
  BY <1>2, LinkFrame DEF DescriptorInv, TypeOK, CreateMap, survival
<1>7. StartProgress'
  BY <1>1, <1>2, <1>3, ProbesAssumption DEF StartProgress, CreateMap, NoSensor, ProbeHeld
<1>8. LoadProgress'
  BY <1>1, <1>2 DEF DescriptorInv, LoadProgress, CreateMap, survival, NoLoad, TypeOK
<1>9. QED  BY <1>4, <1>5, <1>6, <1>7, <1>8 DEF DescriptorInv

\* Without a map there is nothing to hold.
LEMMA CreateMapFailsStep ==
  ASSUME DescriptorInv, CreateMapFails
  PROVE  DescriptorInv'
<1>1. NoSensor
  BY DEF DescriptorInv, StartProgress, CreateMapFails
<1>2. SensorHoldsWhatItRemembers'
  BY <1>1 DEF DescriptorInv, SensorHoldsWhatItRemembers, CreateMapFails, NoSensor, Of, Remembered, Range
<1>3. QED
  BY <1>1, <1>2 DEF DescriptorInv, TypeOK, LinkIsRemembered, StartProgress, LoadProgress,
                    CreateMapFails, survival, NoSensor, NoLoad, ProbeHeld, Of

\* A probe that is not in the object is passed over.
LEMMA SkipProbeStep ==
  ASSUME DescriptorInv, SkipProbe
  PROVE  DescriptorInv'
<1> USE DEF DescriptorInv, SkipProbe, AtProbe, survival
<1>1. TypeOK'
  BY ProbesAssumption DEF TypeOK
<1>2. SensorHoldsWhatItRemembers'
  BY SensorFrame
<1>3. LinkIsRemembered'
  BY LinkFrame
<1>4. StartProgress'
  BY DEF StartProgress, ProbeHeld, TypeOK
<1>5. LoadProgress'
  BY DEF LoadProgress, NoLoad
<1>6. QED  BY <1>1, <1>2, <1>3, <1>4, <1>5

\* The range of an appended sequence.
LEMMA AppendedRange ==
  ASSUME NEW s \in Seq(Fd), NEW fd \in Fd
  PROVE  /\ Append(s, fd) \in Seq(Fd) /\ Len(Append(s, fd)) = Len(s) + 1
         /\ Range(Append(s, fd)) = Range(s) \cup {fd}
         /\ \A i \in DOMAIN Append(s, fd) :
              IF i \in DOMAIN s THEN Append(s, fd)[i] = s[i] ELSE Append(s, fd)[i] = fd
<1>1. /\ Append(s, fd) \in Seq(Fd) /\ Len(Append(s, fd)) = Len(s) + 1
      /\ DOMAIN Append(s, fd) = 1 .. (Len(s) + 1) /\ DOMAIN s = 1 .. Len(s)
      /\ \A i \in 1 .. Len(s) : Append(s, fd)[i] = s[i]
      /\ Append(s, fd)[Len(s) + 1] = fd
      /\ Len(s) \in Nat
  OBVIOUS
<1>2. Range(Append(s, fd)) = Range(s) \cup {fd}
  BY <1>1 DEF Range
<1>3. QED  BY <1>1, <1>2

\* A loaded program is recorded before it is attached.
LEMMA LoadProbeStep ==
  ASSUME DescriptorInv, LoadProbe
  PROVE  DescriptorInv'
<1>1. PICK fd \in Fd : Open(fd, "probe") /\ progFDs' = Append(progFDs, fd)
  BY DEF LoadProbe
<1>2. table[fd] = "free" /\ table' = [table EXCEPT ![fd] = "probe"]
  BY <1>1 DEF Open, Free
<1>3. progFDs \in Seq(Fd) /\ Len(progFDs) = Len(eventFDs) /\ Len(eventFDs) \in Nat
  BY DEF DescriptorInv, TypeOK, LoadProbe, AtProbe
<1>4. /\ progFDs' \in Seq(Fd) /\ Len(progFDs') = Len(progFDs) + 1
      /\ Range(progFDs') = Range(progFDs) \cup {fd}
      /\ \A i \in DOMAIN progFDs' : IF i \in DOMAIN progFDs THEN progFDs'[i] = progFDs[i] ELSE progFDs'[i] = fd
  BY <1>1, <1>3, AppendedRange
<1>5. TypeOK'
  <2>1. table' \in [Fd -> Kind \cup {"free"}]
    BY <1>2 DEF DescriptorInv, TypeOK, Kind, SensorKind
  <2>2. Len(progFDs') <= Probes /\ Len(eventFDs) <= Len(progFDs')
    BY <1>3, <1>4, ProbesAssumption DEF DescriptorInv, LoadProbe, AtProbe, StartProgress, TypeOK
  <2>3. QED  BY <1>4, <2>1, <2>2 DEF DescriptorInv, TypeOK, LoadProbe, survival
<1>6. SensorHoldsWhatItRemembers'
  <2>1. Of(SensorKind)' = Of(SensorKind) \cup {fd}
    BY <1>2 DEF Of, SensorKind, DescriptorInv, TypeOK
  <2>2. Remembered' = Remembered \cup {fd}
    BY <1>4 DEF Remembered, LoadProbe
  <2>3. \A f \in Fd : table[f] # "free" => table'[f] = table[f]
    BY <1>2 DEF DescriptorInv, TypeOK
  <2>4. table'[fd] = "probe"
    BY <1>2 DEF DescriptorInv, TypeOK
  <2>5. \A i \in DOMAIN progFDs' : table'[progFDs'[i]] = "probe"
    BY <1>3, <1>4, <2>3, <2>4 DEF DescriptorInv, SensorHoldsWhatItRemembers
  <2>6. \A i \in DOMAIN eventFDs : table'[eventFDs[i]] = "event"
    BY <2>3 DEF DescriptorInv, SensorHoldsWhatItRemembers, TypeOK
  <2>7. mapFD > 0 => table'[mapFD] = "map"
    BY <2>3 DEF DescriptorInv, SensorHoldsWhatItRemembers, TypeOK
  <2>8. QED  BY <2>1, <2>2, <2>5, <2>6, <2>7 DEF DescriptorInv, SensorHoldsWhatItRemembers, LoadProbe
<1>7. LinkIsRemembered'
  BY <1>2, LinkFrame DEF DescriptorInv, TypeOK, LoadProbe, survival
<1>8. StartProgress'
  BY <1>3, <1>4 DEF DescriptorInv, StartProgress, LoadProbe, AtProbe, ProbeHeld, TypeOK
<1>9. LoadProgress'
  BY <1>2 DEF DescriptorInv, LoadProgress, LoadProbe, AtProbe, survival, NoLoad, TypeOK
<1>10. QED  BY <1>5, <1>6, <1>7, <1>8, <1>9 DEF DescriptorInv

\* An attached event completes its probe.
LEMMA AttachProbeStep ==
  ASSUME DescriptorInv, AttachProbe
  PROVE  DescriptorInv'
<1>1. PICK fd \in Fd : Open(fd, "event") /\ eventFDs' = Append(eventFDs, fd)
  BY DEF AttachProbe
<1>2. table[fd] = "free" /\ table' = [table EXCEPT ![fd] = "event"]
  BY <1>1 DEF Open, Free
<1>3. /\ eventFDs \in Seq(Fd) /\ Len(eventFDs) \in Nat
      /\ Len(progFDs) = Len(eventFDs) + 1 /\ probe <= Probes
  BY DEF DescriptorInv, TypeOK, AttachProbe, ProbeHeld, StartProgress
<1>4. /\ eventFDs' \in Seq(Fd) /\ Len(eventFDs') = Len(eventFDs) + 1
      /\ Range(eventFDs') = Range(eventFDs) \cup {fd}
      /\ \A i \in DOMAIN eventFDs' : IF i \in DOMAIN eventFDs THEN eventFDs'[i] = eventFDs[i] ELSE eventFDs'[i] = fd
  BY <1>1, <1>3, AppendedRange
<1>5. TypeOK'
  <2>1. table' \in [Fd -> Kind \cup {"free"}]
    BY <1>2 DEF DescriptorInv, TypeOK, Kind, SensorKind
  <2>2. /\ Len(progFDs) <= Probes /\ Len(eventFDs') <= Len(progFDs)
        /\ probe' \in 1 .. (Probes + 1)
    BY <1>3, <1>4, ProbesAssumption DEF DescriptorInv, AttachProbe, TypeOK
  <2>3. QED  BY <1>4, <2>1, <2>2 DEF DescriptorInv, TypeOK, AttachProbe, survival
<1>6. SensorHoldsWhatItRemembers'
  <2>1. Of(SensorKind)' = Of(SensorKind) \cup {fd}
    BY <1>2 DEF Of, SensorKind, DescriptorInv, TypeOK
  <2>2. Remembered' = Remembered \cup {fd}
    BY <1>4 DEF Remembered, AttachProbe
  <2>3. \A f \in Fd : table[f] # "free" => table'[f] = table[f]
    BY <1>2 DEF DescriptorInv, TypeOK
  <2>4. table'[fd] = "event"
    BY <1>2 DEF DescriptorInv, TypeOK
  <2>5. \A i \in DOMAIN progFDs : table'[progFDs[i]] = "probe"
    BY <2>3 DEF DescriptorInv, SensorHoldsWhatItRemembers, TypeOK
  <2>6. \A i \in DOMAIN eventFDs' : table'[eventFDs'[i]] = "event"
    BY <1>3, <1>4, <2>3, <2>4 DEF DescriptorInv, SensorHoldsWhatItRemembers
  <2>7. mapFD > 0 => table'[mapFD] = "map"
    BY <2>3 DEF DescriptorInv, SensorHoldsWhatItRemembers, TypeOK
  <2>8. QED  BY <2>1, <2>2, <2>5, <2>6, <2>7 DEF DescriptorInv, SensorHoldsWhatItRemembers, AttachProbe
<1>7. LinkIsRemembered'
  BY <1>2, LinkFrame DEF DescriptorInv, TypeOK, AttachProbe, survival
<1>8. StartProgress'
  BY <1>3, <1>4 DEF DescriptorInv, StartProgress, AttachProbe, ProbeHeld, TypeOK
<1>9. LoadProgress'
  BY <1>2 DEF DescriptorInv, LoadProgress, AttachProbe, ProbeHeld, survival, NoLoad, TypeOK
<1>10. QED  BY <1>5, <1>6, <1>7, <1>8, <1>9 DEF DescriptorInv

\* closeAll, from whatever Start had reached or from a running sensor.
LEMMA CloseStep ==
  ASSUME DescriptorInv, CloseAll, stage' \in {"failed", "closed"},
         ~active, ctrlMap = -1, UNCHANGED <<probe, survival>>
  PROVE  DescriptorInv'
<1>1. TypeOK'
  <2>1. progFDs' \in Seq(Fd) /\ eventFDs' \in Seq(Fd) /\ Len(eventFDs') = 0 /\ Len(progFDs') = 0
    BY CloseAllEffect
  <2>2. Len(eventFDs') <= Len(progFDs') /\ Len(progFDs') <= Probes
    BY <2>1, ProbesAssumption
  <2>3. QED  BY <2>1, <2>2, CloseAllEffect DEF DescriptorInv, TypeOK, survival
<1>2. SensorHoldsWhatItRemembers'
  BY CloseAllEffect
<1>3. LinkIsRemembered'
  BY CloseAllEffect, LinkFrame DEF DescriptorInv, survival, SensorKind
<1>4. StartProgress'
  BY DEF StartProgress
<1>5. LoadProgress'
  BY DEF DescriptorInv, LoadProgress, NoLoad, survival
<1>6. QED  BY <1>1, <1>2, <1>3, <1>4, <1>5 DEF DescriptorInv

\* The two ways Start ends, and the end of the loop.
LEMMA StartEndsStep ==
  ASSUME DescriptorInv, StartFails \/ StartSucceeds \/ Close
  PROVE  DescriptorInv'
<1>1. CASE StartFails
  <2>1. stage = "probing"
    BY <1>1 DEF StartFails, AtProbe, ProbeHeld
  <2>2. ~active /\ ctrlMap = -1
    BY <2>1 DEF DescriptorInv, LoadProgress
  <2>3. QED  BY <1>1, <2>2, CloseStep DEF StartFails
<1>2. CASE Close
  BY <1>2, CloseStep DEF Close
<1>3. CASE StartSucceeds
  <2> USE <1>3 DEF DescriptorInv, StartSucceeds, survival
  <2>1. TypeOK'
    BY DEF TypeOK
  <2>2. SensorHoldsWhatItRemembers'
    BY SensorFrame
  <2>3. LinkIsRemembered'
    BY LinkFrame
  <2>4. StartProgress'
    <3>1. Len(progFDs) = Len(eventFDs)
      BY ProbesAssumption DEF StartProgress, ProbeHeld, TypeOK
    <3>2. mapFD > 0
      BY DEF StartProgress
    <3>3. QED  BY <3>1, <3>2 DEF StartProgress
  <2>5. LoadProgress'
    BY DEF LoadProgress, NoLoad
  <2>6. QED  BY <2>1, <2>2, <2>3, <2>4, <2>5
<1>4. QED  BY <1>1, <1>2, <1>3

-----------------------------------------------------------------------------
(* The scheduler.                                                          *)

\* Engaging without a scheduler only marks the motor active.
LEMMA EngageWithoutSchedulerStep ==
  ASSUME DescriptorInv, EngageWithoutScheduler
  PROVE  DescriptorInv'
<1> USE DEF DescriptorInv, EngageWithoutScheduler, MayEngage, collector, locals
<1>1. TypeOK'
  BY DEF TypeOK
<1>2. SensorHoldsWhatItRemembers'
  BY SensorFrame
<1>3. LinkIsRemembered'
  BY LinkFrame
<1>4. StartProgress'
  BY DEF StartProgress, NoSensor, ProbeHeld
<1>5. LoadProgress'
  BY DEF LoadProgress, NoLoad
<1>6. QED  BY <1>1, <1>2, <1>3, <1>4, <1>5

\* The control map is opened first.
LEMMA CreateCtrlMapStep ==
  ASSUME DescriptorInv, CreateCtrlMap
  PROVE  DescriptorInv'
<1> USE DEF DescriptorInv, CreateCtrlMap, MayEngage, collector
<1>1. PICK fd \in Fd : Open(fd, "ctrl") /\ ctrlMap' = fd
  OBVIOUS
<1>2. /\ table[fd] = "free" /\ table' = [table EXCEPT ![fd] = "ctrl"] /\ fd # -1
  BY <1>1 DEF Open, Free, Fd
<1>3. TypeOK'
  BY <1>1, <1>2 DEF TypeOK, Kind
<1>4. SensorHoldsWhatItRemembers'
  BY <1>2, SensorFrame DEF TypeOK, SensorKind
<1>5. LinkIsRemembered'
  BY <1>2, LinkFrame DEF TypeOK
<1>6. StartProgress'
  BY DEF StartProgress, NoSensor, ProbeHeld
<1>7. LoadProgress'
  BY <1>1, <1>2 DEF LoadProgress, NoLoad, TypeOK
<1>8. QED  BY <1>3, <1>4, <1>5, <1>6, <1>7

\* A program is loaded next to the control map.
LEMMA LoadProgramStep ==
  ASSUME DescriptorInv, LoadProgram
  PROVE  DescriptorInv'
<1> USE DEF DescriptorInv, LoadProgram, collector
<1>1. PICK fd \in Fd : Open(fd, "ops_prog") /\ lastProgFD' = fd
  OBVIOUS
<1>2. /\ table[fd] = "free" /\ table' = [table EXCEPT ![fd] = "ops_prog"] /\ fd # -1
  BY <1>1 DEF Open, Free, Fd
<1>3. progCount' = progCount + 1 /\ progCount' \in 0 .. Programs /\ progCount' > 0
  BY ProgramsAssumption DEF TypeOK
<1>4. TypeOK'
  BY <1>1, <1>2, <1>3 DEF TypeOK, Kind
<1>5. SensorHoldsWhatItRemembers'
  BY <1>2, SensorFrame DEF TypeOK, SensorKind
<1>6. LinkIsRemembered'
  BY <1>2, LinkFrame DEF TypeOK
<1>7. StartProgress'
  BY DEF StartProgress, NoSensor, ProbeHeld
<1>8. LoadProgress'
  BY <1>1, <1>2, <1>3 DEF LoadProgress, NoLoad, TypeOK
<1>9. QED  BY <1>4, <1>5, <1>6, <1>7, <1>8

\* A load starts without a link, so that the deferred close always happens.
LEMMA DeferredCloses ==
  ASSUME DescriptorInv, ctrlMap # -1
  PROVE  Deferred = {ctrlMap}
BY DEF DescriptorInv, LoadProgress, LinkIsRemembered, Deferred

\* The ways loadSchedExt returns without a link.
LEMMA LoadEndsStep ==
  ASSUME DescriptorInv, LoadFails \/ LinkFails
  PROVE  DescriptorInv'
<1> USE DEF DescriptorInv, ReturnFromLoad, collector
<1>1. /\ ctrlMap # -1 /\ ReturnFromLoad /\ UNCHANGED schedExtFD
      /\ stage = "running" /\ table[ctrlMap] = "ctrl"
  BY DEF LoadFails, LinkFails, LoadProgress
<1>2. PICK closed : /\ table' = Without(closed)
                    /\ \A f \in closed : f \in Fd => table[f] \in {"ctrl", "ops_prog"}
  <2>1. CASE LoadFails
    BY <1>1, <2>1, DeferredCloses DEF LoadFails
  <2>2. CASE LinkFails
    <3>1. progCount > 0
      BY <2>2, ProgramsAssumption DEF LinkFails
    <3>2. table[lastProgFD] = "ops_prog"
      BY <3>1 DEF LoadProgress
    <3>3. QED  BY <1>1, <2>2, <3>2, DeferredCloses DEF LinkFails
  <2>3. QED  BY <2>1, <2>2
<1>3. \A f \in Fd : table'[f] = table[f] \/ (table'[f] = "free" /\ table[f] \in {"ctrl", "ops_prog"})
  BY <1>2 DEF Without
<1>4. TypeOK'
  BY <1>1, <1>2, ProgramsAssumption DEF TypeOK, Without
<1>5. SensorHoldsWhatItRemembers'
  BY <1>1, <1>3, SensorFrame DEF SensorKind
<1>6. LinkIsRemembered'
  BY <1>1, <1>3, LinkFrame
<1>7. StartProgress'
  BY <1>1 DEF StartProgress, NoSensor, ProbeHeld
<1>8. LoadProgress'
  BY <1>1 DEF LoadProgress, NoLoad
<1>9. QED  BY <1>4, <1>5, <1>6, <1>7, <1>8

\* The scheduler is linked, and the motor is active at once.
LEMMA LinkStep ==
  ASSUME DescriptorInv, Link
  PROVE  DescriptorInv'
<1> USE DEF DescriptorInv, ReturnFromLoad, collector
<1>1. PICK fd \in Free : /\ table' = [Without({lastProgFD}) EXCEPT ![fd] = "link"]
                         /\ schedExtFD' = fd
  BY DEF Link
<1>2. fd \in Fd /\ table[fd] = "free" /\ fd # -1
  BY <1>1 DEF Free, Fd
<1>3. ctrlMap # -1 /\ ReturnFromLoad /\ stage = "running" /\ ~active
  BY DEF Link, LoadProgress
<1>4. table[lastProgFD] = "ops_prog"
  BY ProgramsAssumption DEF Link, LoadProgress
<1>5. \A f \in Fd : table'[f] = IF f = fd THEN "link" ELSE IF f = lastProgFD THEN "free" ELSE table[f]
  BY <1>1, <1>2 DEF Without
<1>6. TypeOK'
  <2>1. table' \in [Fd -> Kind \cup {"free"}]
    BY <1>1, <1>2 DEF TypeOK, Without, Kind
  <2>2. schedExtFD' \in Fd \cup {-1} /\ active' \in BOOLEAN
    BY <1>1, <1>2, <1>3
  <2>3. ctrlMap' = -1 /\ lastProgFD' = -1 /\ progCount' \in 0 .. Programs
    BY <1>3, ProgramsAssumption
  <2>4. QED  BY <1>3, <2>1, <2>2, <2>3 DEF TypeOK
<1>7. SensorHoldsWhatItRemembers'
  BY <1>2, <1>3, <1>4, <1>5, SensorFrame DEF SensorKind
<1>8. LinkIsRemembered'
  <2>1. Of({"link"}) = {}
    BY <1>3 DEF LinkIsRemembered
  <2>2. Of({"link"})' = {fd}
    BY <1>2, <1>5, <2>1 DEF Of
  <2>3. QED  BY <1>1, <1>2, <1>3, <2>2 DEF LinkIsRemembered
<1>9. StartProgress'
  BY <1>3 DEF StartProgress, NoSensor, ProbeHeld
<1>10. LoadProgress'
  BY <1>3 DEF LoadProgress, NoLoad
<1>11. QED  BY <1>6, <1>7, <1>8, <1>9, <1>10

\* Release closes the link and forgets it.
LEMMA ReleaseStep ==
  ASSUME DescriptorInv, Release
  PROVE  DescriptorInv'
<1> USE DEF DescriptorInv, Release, collector, locals
<1>1. Of({"link"}) = {schedExtFD} \ {-1}
  BY DEF LinkIsRemembered
<1>2. \A f \in Fd : table'[f] = IF table[f] = "link" THEN "free" ELSE table[f]
  BY <1>1, LastFdAssumption DEF Without, Of, Fd
<1>3. TypeOK'
  BY DEF TypeOK, Without
<1>4. SensorHoldsWhatItRemembers'
  BY <1>2, SensorFrame DEF SensorKind
<1>5. LinkIsRemembered'
  BY <1>2 DEF LinkIsRemembered, Of
<1>6. StartProgress'
  BY DEF StartProgress, NoSensor, ProbeHeld
<1>7. LoadProgress'
  BY DEF LoadProgress, NoLoad
<1>8. QED  BY <1>3, <1>4, <1>5, <1>6, <1>7

-----------------------------------------------------------------------------
(* The theorems.                                                           *)

\* A collector that holds nothing.
LEMMA EmptySequence == << >> \in Seq(Fd) /\ Len(<< >>) = 0
  OBVIOUS

\* The invariant holds when the process starts, and again after a restart.
LEMMA FreshProcess ==
  ASSUME Init
  PROVE  DescriptorInv
<1> USE DEF Init, NoSensor, NoLoad
<1>1. TypeOK
  <2>1. table \in [Fd -> Kind \cup {"free"}]
    OBVIOUS
  <2>2. Len(eventFDs) <= Len(progFDs) /\ Len(progFDs) <= Probes
    BY EmptySequence, ProbesAssumption
  <2>3. probe \in 1 .. (Probes + 1) /\ progCount \in 0 .. Programs
    BY ProbesAssumption, ProgramsAssumption
  <2>4. QED  BY <2>1, <2>2, <2>3, EmptySequence DEF TypeOK
<1>2. SensorHoldsWhatItRemembers
  BY DEF SensorHoldsWhatItRemembers, Of, SensorKind, Remembered, Range
<1>3. LinkIsRemembered
  BY DEF LinkIsRemembered, Of
<1>4. StartProgress /\ LoadProgress
  BY DEF StartProgress, LoadProgress
<1>5. QED  BY <1>1, <1>2, <1>3, <1>4 DEF DescriptorInv

\* Every step keeps the invariant.
LEMMA DescriptorStep ==
  ASSUME DescriptorInv, [Next]_vars
  PROVE  DescriptorInv'
<1>1. CASE CreateMap  BY <1>1, CreateMapStep
<1>2. CASE CreateMapFails  BY <1>2, CreateMapFailsStep
<1>3. CASE SkipProbe  BY <1>3, SkipProbeStep
<1>4. CASE LoadProbe  BY <1>4, LoadProbeStep
<1>5. CASE AttachProbe  BY <1>5, AttachProbeStep
<1>6. CASE StartFails \/ StartSucceeds \/ Close  BY <1>6, StartEndsStep
<1>7. CASE EngageWithoutScheduler  BY <1>7, EngageWithoutSchedulerStep
<1>8. CASE CreateCtrlMap  BY <1>8, CreateCtrlMapStep
<1>9. CASE LoadProgram  BY <1>9, LoadProgramStep
<1>10. CASE LoadFails \/ LinkFails  BY <1>10, LoadEndsStep
<1>11. CASE Link  BY <1>11, LinkStep
<1>12. CASE Release  BY <1>12, ReleaseStep
<1>13. CASE Restart
  <2>1. TypeOK'
    <3>1. table' \in [Fd -> Kind \cup {"free"}]
      BY <1>13 DEF Restart
    <3>2. Len(eventFDs') <= Len(progFDs') /\ Len(progFDs') <= Probes
      BY <1>13, EmptySequence, ProbesAssumption DEF Restart
    <3>3. probe' \in 1 .. (Probes + 1) /\ progCount' \in 0 .. Programs
      BY <1>13, ProbesAssumption, ProgramsAssumption DEF Restart
    <3>4. QED  BY <1>13, <3>1, <3>2, <3>3, EmptySequence DEF Restart, TypeOK
  <2>2. SensorHoldsWhatItRemembers'
    BY <1>13 DEF Restart, SensorHoldsWhatItRemembers, Of, SensorKind, Remembered, Range
  <2>3. LinkIsRemembered'
    BY <1>13 DEF Restart, LinkIsRemembered, Of
  <2>4. StartProgress' /\ LoadProgress'
    BY <1>13 DEF Restart, StartProgress, LoadProgress, NoSensor, NoLoad
  <2>5. QED  BY <2>1, <2>2, <2>3, <2>4 DEF DescriptorInv
<1>14. CASE UNCHANGED vars
  BY <1>14 DEF vars, DescriptorInv, TypeOK, SensorHoldsWhatItRemembers, LinkIsRemembered,
               StartProgress, LoadProgress, NoSensor, NoLoad, ProbeHeld, Of, Remembered
<1>15. QED
  BY <1>1, <1>2, <1>3, <1>4, <1>5, <1>6, <1>7, <1>8, <1>9, <1>10, <1>11, <1>12, <1>13, <1>14 DEF Next

\* The invariant of the descriptors of a process.
THEOREM DescriptorInvariant == Spec => []DescriptorInv
  BY FreshProcess, DescriptorStep, PTL DEF Spec

\* Nothing of the sensor is open but what the collector remembers, under the
\* right numbers, whatever fails and however many survival episodes pass.
THEOREM SensorTheorem == Spec => []SensorHoldsWhatItRemembers
  BY DescriptorInvariant, PTL DEF DescriptorInv

\* The kernel runs the survival scheduler exactly while an active motor
\* remembers the link that ends it.
THEOREM LinkTheorem == Spec => []LinkIsRemembered
  BY DescriptorInvariant, PTL DEF DescriptorInv

-----------------------------------------------------------------------------
(* What is lost.                                                           *)

\* A step loses nothing if everything lost after it was lost before it.
LEMMA NoNewLoss ==
  ASSUME Lost' \subseteq Lost, IsFiniteSet(Lost)
  PROVE  Cardinality(Lost') <= Cardinality(Lost) + (IF progCount' > progCount THEN 1 ELSE 0)
<1>1. Cardinality(Lost') <= Cardinality(Lost) /\ Cardinality(Lost) \in Nat /\ Cardinality(Lost') \in Nat
  BY FS_Subset, FS_CardinalityType
<1>2. QED  BY <1>1

\* Loading a program loses at most its descriptor, and no other step loses any.
THEOREM LossTheorem == Spec => LossPerProgram
<1> DEFINE Bound == Cardinality(Lost') <= Cardinality(Lost) + (IF progCount' > progCount THEN 1 ELSE 0)
<1>1. DescriptorInv /\ DescriptorInv' /\ [Next]_vars => [Bound]_vars
  <2> SUFFICES ASSUME DescriptorInv, DescriptorInv', Next PROVE Bound
    OBVIOUS
  <2>1. IsFiniteSet(Lost) /\ IsFiniteSet(Lost') /\ Cardinality(Lost) \in Nat
    <3>1. IsFiniteSet(Fd)
      BY LastFdAssumption, FS_Interval DEF Fd
    <3>2. Lost \subseteq Fd /\ Lost' \subseteq Fd
      BY DEF Lost, Of
    <3>3. QED  BY <3>1, <3>2, FS_Subset, FS_CardinalityType
  <2>2. CASE LoadProgram
    <3>1. PICK fd \in Fd : table' = [table EXCEPT ![fd] = "ops_prog"]
      BY <2>2 DEF LoadProgram, Open
    <3>2. Lost' \subseteq Lost \cup {fd}
      BY <2>2, <3>1 DEF Lost, Of, LoadProgram, DescriptorInv, TypeOK
    <3>3. IsFiniteSet(Lost \cup {fd}) /\ Cardinality(Lost \cup {fd}) <= Cardinality(Lost) + 1
      <4>1. IsFiniteSet(Lost \cup {fd})
        BY <2>1, FS_AddElement
      <4>2. CASE fd \in Lost
        <5>1. Cardinality(Lost \cup {fd}) = Cardinality(Lost)
          BY <2>1, <4>2, FS_AddElement
        <5> QED  BY <2>1, <4>1, <5>1
      <4>3. CASE fd \notin Lost
        <5>1. Cardinality(Lost \cup {fd}) = Cardinality(Lost) + 1
          BY <2>1, <4>3, FS_AddElement
        <5> QED  BY <2>1, <4>1, <5>1
      <4> QED  BY <4>2, <4>3
    <3>4. /\ Cardinality(Lost') <= Cardinality(Lost \cup {fd})
          /\ Cardinality(Lost \cup {fd}) \in Nat /\ Cardinality(Lost') \in Nat
      <4>1. Cardinality(Lost') <= Cardinality(Lost \cup {fd})
        BY <3>2, <3>3, FS_Subset
      <4>2. Cardinality(Lost \cup {fd}) \in Nat
        BY <3>3, FS_CardinalityType
      <4>3. Cardinality(Lost') \in Nat
        BY <2>1, FS_CardinalityType
      <4> QED  BY <4>1, <4>2, <4>3
    <3>5. progCount' > progCount
      BY <2>2 DEF LoadProgram, DescriptorInv, TypeOK
    <3>6. QED  BY <2>1, <3>3, <3>4, <3>5
  <2>3. CASE Link
    <3>1. PICK fd \in Free : table' = [Without({lastProgFD}) EXCEPT ![fd] = "link"]
      BY <2>3 DEF Link
    <3>2. /\ table[lastProgFD] = "ops_prog" /\ table[ctrlMap] = "ctrl" /\ ctrlMap' = -1
          /\ lastProgFD \in Fd /\ ctrlMap \in Fd
      BY <2>3, ProgramsAssumption DEF Link, DescriptorInv, LoadProgress, ReturnFromLoad, TypeOK
    <3>3. lastProgFD \in Lost /\ ctrlMap \notin Lost
      BY <3>2 DEF Lost, Of
    <3>4. Lost' \subseteq (Lost \ {lastProgFD}) \cup {ctrlMap}
      BY <3>1, <3>2 DEF Lost, Of, Without, Free
    <3> DEFINE rest == Lost \ {lastProgFD}
    <3>5. IsFiniteSet(rest) /\ Cardinality(rest) = Cardinality(Lost) - 1
      BY <2>1, <3>3, FS_RemoveElement
    <3>6. IsFiniteSet(rest \cup {ctrlMap}) /\ Cardinality(rest \cup {ctrlMap}) = Cardinality(rest) + 1
      BY <3>3, <3>5, FS_AddElement
    <3>7. Cardinality(Lost') <= Cardinality(rest \cup {ctrlMap}) /\ Cardinality(Lost') \in Nat
      BY <2>1, <3>4, <3>6, FS_Subset, FS_CardinalityType
    <3>8. QED  BY <2>1, <3>5, <3>6, <3>7
  <2>4. CASE ~(LoadProgram \/ Link)
    <3>1. Lost' \subseteq Lost
      <4>1. CASE CreateMap \/ LoadProbe \/ AttachProbe
        BY <4>1 DEF CreateMap, LoadProbe, AttachProbe, Open, Free, survival, Lost, Of, DescriptorInv, TypeOK
      <4>2. CASE CreateMapFails \/ SkipProbe \/ StartSucceeds \/ EngageWithoutScheduler
        BY <4>2 DEF CreateMapFails, SkipProbe, StartSucceeds, EngageWithoutScheduler, survival, locals, Lost, Of
      <4>3. CASE StartFails \/ Close
        BY <4>3 DEF StartFails, Close, CloseAll, Without, survival, Lost, Of
      <4>4. CASE CreateCtrlMap
        <5>1. PICK fd \in Fd : table' = [table EXCEPT ![fd] = "ctrl"] /\ ctrlMap' = fd
          BY <4>4 DEF CreateCtrlMap, Open
        <5>2. \A f \in Fd \ {fd} : table'[f] = table[f]
          BY <5>1 DEF DescriptorInv, TypeOK
        <5>3. ctrlMap = -1 /\ -1 \notin Fd
          BY <4>4, LastFdAssumption DEF CreateCtrlMap, MayEngage, Fd
        <5>4. QED  BY <5>1, <5>2, <5>3 DEF Lost, Of
      <4>5. CASE LoadFails \/ LinkFails
        <5>1. ctrlMap' = -1 /\ \A f \in Fd : table'[f] \in {"free", table[f]}
          BY <4>5 DEF LoadFails, LinkFails, Without, ReturnFromLoad
        <5>2. ctrlMap \in Fd => table'[ctrlMap] = "free"
          BY <4>5, DeferredCloses DEF LoadFails, LinkFails, Without
        <5>3. QED  BY <5>1, <5>2 DEF Lost, Of
      <4>6. CASE Release \/ Restart
        BY <4>6 DEF Release, Restart, Without, locals, Lost, Of
      <4>7. QED  BY <2>4, <4>1, <4>2, <4>3, <4>4, <4>5, <4>6 DEF Next
    <3>2. QED  BY <2>1, <3>1, NoNewLoss
  <2>5. QED  BY <2>2, <2>3, <2>4
<1>2. QED  BY <1>1, DescriptorInvariant, PTL DEF Spec, LossPerProgram

-----------------------------------------------------------------------------
(* Types, and the completeness of a running sensor.                        *)

\* Every variable keeps its type, in tables of every size.
THEOREM DescriptorTypes == Spec => []TypeOK
  BY DescriptorInvariant, PTL DEF DescriptorInv

\* No number is remembered twice.
Distinct == IsInjective(progFDs) /\ IsInjective(eventFDs)

\* A new descriptor is none of those that hold something.
LEMMA AppendDistinct ==
  ASSUME NEW s \in Seq(Fd), IsInjective(s), NEW fd \in Free,
         \A i \in DOMAIN s : table[s[i]] # "free"
  PROVE  IsInjective(Append(s, fd))
<1>1. table[fd] = "free"
  BY DEF Free
<1>2. \A i \in DOMAIN s : s[i] # fd
  BY <1>1
<1>3. QED  BY <1>2 DEF IsInjective

LEMMA DistinctStep == DescriptorInv /\ Distinct /\ [Next]_vars => Distinct'
<1> SUFFICES ASSUME DescriptorInv, Distinct, [Next]_vars PROVE Distinct'
  OBVIOUS
<1>1. CASE LoadProbe
  <2>1. PICK fd \in Free : progFDs' = Append(progFDs, fd)
    BY <1>1 DEF LoadProbe, Open
  <2>2. \A i \in DOMAIN progFDs : table[progFDs[i]] # "free"
    BY DEF DescriptorInv, SensorHoldsWhatItRemembers
  <2>3. IsInjective(progFDs')
    BY <2>1, <2>2, AppendDistinct DEF DescriptorInv, TypeOK, Distinct
  <2>4. QED  BY <1>1, <2>3 DEF LoadProbe, Distinct
<1>2. CASE AttachProbe
  <2>1. PICK fd \in Free : eventFDs' = Append(eventFDs, fd)
    BY <1>2 DEF AttachProbe, Open
  <2>2. \A i \in DOMAIN eventFDs : table[eventFDs[i]] # "free"
    BY DEF DescriptorInv, SensorHoldsWhatItRemembers
  <2>3. IsInjective(eventFDs')
    BY <2>1, <2>2, AppendDistinct DEF DescriptorInv, TypeOK, Distinct
  <2>4. QED  BY <1>2, <2>3 DEF AttachProbe, Distinct
<1>3. CASE StartFails \/ Close \/ Restart
  BY <1>3 DEF StartFails, Close, Restart, CloseAll, Distinct, IsInjective
<1>4. CASE ~(LoadProbe \/ AttachProbe \/ StartFails \/ Close \/ Restart)
  <2>1. UNCHANGED <<progFDs, eventFDs>>
    BY <1>4 DEF Next, vars, CreateMap, CreateMapFails, SkipProbe, StartSucceeds,
                EngageWithoutScheduler, CreateCtrlMap, LoadProgram, LoadFails, LinkFails,
                Link, Release, ReturnFromLoad, collector
  <2>2. QED  BY <2>1 DEF Distinct
<1>5. QED  BY <1>1, <1>2, <1>3, <1>4

\* A sequence without repetitions has as many elements as its length says.
LEMMA RangeCardinality ==
  ASSUME NEW s \in Seq(Fd), IsInjective(s)
  PROVE  Cardinality(Range(s)) = Len(s)
<1>1. s \in Bijection(1 .. Len(s), Range(s))
  BY DEF Bijection, Injection, Surjection, Range
<1>2. Len(s) \in Nat /\ ExistsBijection(1 .. Len(s), Range(s))
  BY <1>1 DEF ExistsBijection
<1>3. QED  BY <1>2, FS_CountingElements

\* The agent never runs with a sensor that lacks its map, has no event, or has
\* a program without one.
THEOREM CompletenessTheorem == Spec => []RunningSensorIsComplete
<1>1. Init => Distinct
  BY DEF Init, NoSensor, Distinct, IsInjective
<1>2. DescriptorInv /\ Distinct => RunningSensorIsComplete
  <2> SUFFICES ASSUME DescriptorInv, Distinct, stage = "running"
               PROVE  /\ Of({"map"}) # {} /\ Of({"event"}) # {}
                      /\ Cardinality(Of({"event"})) = Cardinality(Of({"probe"}))
    BY DEF RunningSensorIsComplete
  <2>1. mapFD > 0 /\ eventFDs # << >> /\ Len(progFDs) = Len(eventFDs)
    BY DEF DescriptorInv, StartProgress
  <2>2. /\ progFDs \in Seq(Fd) /\ eventFDs \in Seq(Fd) /\ mapFD \in Fd
        /\ table[mapFD] = "map"
        /\ \A i \in DOMAIN progFDs : table[progFDs[i]] = "probe"
        /\ \A i \in DOMAIN eventFDs : table[eventFDs[i]] = "event"
        /\ Of(SensorKind) = Range(progFDs) \cup Range(eventFDs) \cup {mapFD}
    BY <2>1 DEF DescriptorInv, TypeOK, SensorHoldsWhatItRemembers, Remembered
  <2>3. Of({"event"}) = Range(eventFDs)
    BY <2>2 DEF Of, SensorKind, Range
  <2>4. Of({"probe"}) = Range(progFDs)
    BY <2>2 DEF Of, SensorKind, Range
  <2>5. mapFD \in Of({"map"})
    BY <2>2 DEF Of
  <2>6. Range(eventFDs) # {}
    BY <2>1, <2>2 DEF Range
  <2>7. QED  BY <2>1, <2>2, <2>3, <2>4, <2>5, <2>6, RangeCardinality DEF Distinct
<1>3. QED  BY <1>1, <1>2, DistinctStep, DescriptorInvariant, PTL DEF Spec

=============================================================================
