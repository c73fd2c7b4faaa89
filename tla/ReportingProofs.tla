---------------------------- MODULE ReportingProofs ----------------------------
(***************************************************************************)
(* For every heartbeat interval and every rhythm of the ticks: what the    *)
(* log tells, when a heartbeat is due, and what the webhook posts.         *)
(*                                                                         *)
(* The properties are inductive together with four facts about the state:  *)
(* at Homeostasis the last line of the filter was a heartbeat or the       *)
(* restoration, so both ages agree; the cgroup motor remembers the level   *)
(* the filter does, and the survival motor is active exactly at Survival,  *)
(* so the three memories agree; and a post under way was counted.          *)
(***************************************************************************)
EXTENDS Reporting, TLAPS

Remembered ==
  /\ tfLevel = LevelHomeostasis => sinceBeat = sinceLine
  /\ lastLevel = tfLevel
  /\ active = (Phase2 /\ tfLevel = LevelSurvival)
  /\ \A l \in Level : inflight[l] <= posts[l]

IInv ==
  /\ TypeOK
  /\ Remembered
  /\ LogTellsLevel
  /\ HeartbeatPunctual
  /\ PostsAtMostOncePerLevel
  /\ ActionsExplained

Action == {"containment_applied", "protection_applied", "survival_engaged"}

-----------------------------------------------------------------------------

USE DEF Level, LevelHomeostasis, LevelVigilance, LevelContainment,
        LevelProtection, LevelSurvival

\* Observe logs nothing, or one line that is not about an action; it is silent
\* only where the level stays.
LEMMA ObservedCases ==
  ASSUME NEW level \in Level, NEW age \in Nat, tfLevel \in Level
  PROVE  LET seen == Observed(level, age)
         IN  /\ seen = <<>> => level = tfLevel
             /\ seen = <<>> \/ \E e \in EventType \ Action : seen = <<e>>
             /\ level # tfLevel /\ level > LevelHomeostasis <=>
                  seen \in {<<"anomaly_detected">>, <<"level_change">>}
             /\ seen = <<"heartbeat">> =>
                  tfLevel = LevelHomeostasis /\ level = LevelHomeostasis /\ age >= HeartbeatInterval
             /\ level = LevelHomeostasis /\ ~Beats(seen) =>
                  tfLevel = LevelHomeostasis /\ seen = <<>> /\ age < HeartbeatInterval
BY HeartbeatAssumption DEF Observed, EventType, Action, Beats

\* Only a change of level, to one with an action, makes a motor report.
LEMMA ContainedCases ==
  ASSUME NEW level \in Level, tfLevel \in Level, Remembered
  PROVE  \/ /\ level = tfLevel \/ level < LevelContainment
            /\ Contained(level) = <<>>
         \/ /\ level # tfLevel /\ level > LevelHomeostasis
            /\ \E a \in Action : Contained(level) = <<a>>
BY DEF Contained, Action, Remembered

LEMMA EngagedCases ==
  ASSUME NEW level \in Level, NEW clean \in BOOLEAN, tfLevel \in Level, Remembered
  PROVE  \/ Engaged(level, clean) = <<>>
         \/ /\ level # tfLevel /\ level > LevelHomeostasis
            /\ Engaged(level, clean) = <<"survival_engaged">>
BY Phase2Assumption DEF Engaged, Remembered

\* What is needed of sequences of no and of one element.
LEMMA EmptySequence ==
  /\ Len(<<>>) = 0 /\ <<>> \in Seq(EventType)
  /\ \A e \in EventType :
       Len(<<e>>) = 1 /\ <<e>> # <<>> /\ <<e>>[1] = e /\ <<e>> \in Seq(EventType)
<1>1. Len(<<>>) = 0 /\ <<>> \in Seq(EventType)
  OBVIOUS
<1>2. ASSUME NEW e \in EventType
      PROVE  Len(<<e>>) = 1 /\ <<e>> # <<>> /\ <<e>>[1] = e /\ <<e>> \in Seq(EventType)
  <2>1. Len(<<e>>) = 1 /\ <<e>>[1] = e /\ <<e>> \in Seq(EventType)
    OBVIOUS
  <2> QED  BY <1>1, <2>1
<1> QED  BY <1>1, <1>2

-----------------------------------------------------------------------------

LEMMA InitInvariant == ReportInit => IInv
<1> SUFFICES ASSUME ReportInit PROVE IInv
  OBVIOUS
<1>1. TypeOK
  <2>1. fired \in Level \cup {-1} /\ sinceBeat \in 0 .. HeartbeatInterval
        /\ sinceLine \in 0 .. HeartbeatInterval
    BY HeartbeatAssumption DEF ReportInit
  <2>2. inflight \in [Level -> 0 .. 1] /\ posts \in [Level -> 0 .. 2]
    BY DEF ReportInit
  <2>3. tfLevel \in Level /\ lastLevel \in Level /\ told \in Level
    BY DEF ReportInit
  <2>4. active \in BOOLEAN /\ early \in BOOLEAN /\ edge \in BOOLEAN
    BY DEF ReportInit
  <2>5. events \in Seq(EventType)
    BY EmptySequence DEF ReportInit
  <2> QED  BY <2>1, <2>2, <2>3, <2>4, <2>5 DEF TypeOK
<1>2. Remembered
  <2>1. active = (Phase2 /\ tfLevel = LevelSurvival)
    <3>1. active = FALSE /\ tfLevel # LevelSurvival
      BY DEF ReportInit
    <3> QED  BY <3>1, Zenon
  <2>2. sinceBeat = sinceLine /\ lastLevel = tfLevel
        /\ \A l \in Level : inflight[l] <= posts[l]
    BY DEF ReportInit
  <2> QED  BY <2>1, <2>2 DEF Remembered
<1>3. LogTellsLevel /\ HeartbeatPunctual /\ PostsAtMostOncePerLevel
  BY HeartbeatAssumption
  DEF ReportInit, LogTellsLevel, HeartbeatPunctual, PostsAtMostOncePerLevel
<1>4. ActionsExplained
  BY EmptySequence DEF ReportInit, ActionsExplained
<1> QED  BY <1>1, <1>2, <1>3, <1>4 DEF IInv

\* A tick logs events, and explains those about actions.
LEMMA TickEvents ==
  ASSUME IInv, NEW level \in Level, NEW steep \in Steep, NEW clean \in BOOLEAN,
         NEW time \in TickTimes, ReportTick(level, steep, clean, time)
  PROVE  events' \in Seq(EventType) /\ ActionsExplained'
<1> DEFINE seen == Observed(level, sinceBeat + time)
           contained == Contained(level)
           engaged == Engaged(level, clean)
<1>1. sinceBeat + time \in Nat /\ tfLevel \in Level
  BY TickTimesAssumption, HeartbeatAssumption DEF IInv, TypeOK
<1>2. events' = seen \o contained \o engaged
  BY DEF ReportTick
<1>3. /\ seen = <<>> \/ \E e \in EventType \ Action : seen = <<e>>
      /\ level # tfLevel /\ level > LevelHomeostasis <=>
           seen \in {<<"anomaly_detected">>, <<"level_change">>}
      /\ tfLevel' = level
  BY <1>1, ObservedCases DEF ReportTick
<1>4. \/ /\ level = tfLevel \/ level < LevelContainment
         /\ contained = <<>>
      \/ /\ level # tfLevel /\ level > LevelHomeostasis
         /\ \E a \in Action : contained = <<a>>
  BY <1>1, ContainedCases DEF IInv
<1>5. \/ engaged = <<>>
      \/ /\ level # tfLevel /\ level > LevelHomeostasis
         /\ engaged = <<"survival_engaged">>
  BY <1>1, EngagedCases DEF IInv
<1> HIDE DEF seen, contained, engaged
<1>6. /\ seen \in Seq(EventType) /\ Len(seen) <= 1
      /\ Len(seen) = 1 => seen[1] \in EventType \ Action
  <2>1. CASE seen = <<>>
    BY <2>1, EmptySequence
  <2>2. ASSUME NEW e \in EventType \ Action, seen = <<e>>
        PROVE  seen \in Seq(EventType) /\ Len(seen) = 1 /\ seen[1] = e
    BY <2>2, EmptySequence
  <2>3. CASE seen # <<>>
    <3>1. PICK e \in EventType \ Action : seen = <<e>>
      BY <1>3, <2>3
    <3> QED  BY <3>1, <2>2
  <2> QED  BY <2>1, <2>3
<1>7. /\ contained \in Seq(EventType) /\ engaged \in Seq(EventType)
      /\ (Len(contained) > 0 \/ Len(engaged) > 0) =>
           Len(seen) = 1 /\ seen[1] \in {"anomaly_detected", "level_change"}
  <2>1. \A a \in Action \cup {"anomaly_detected", "level_change"} : a \in EventType
    BY DEF Action, EventType
  <2>2. contained \in Seq(EventType) /\ engaged \in Seq(EventType)
    BY <1>4, <1>5, <2>1, EmptySequence DEF Action
  <2>3. Len(contained) > 0 \/ Len(engaged) > 0 =>
          level # tfLevel /\ level > LevelHomeostasis
    BY <1>4, <1>5, EmptySequence
  <2> QED  BY <1>3, <2>1, <2>2, <2>3, EmptySequence
<1>8. /\ events' \in Seq(EventType)
      /\ Len(events') = Len(seen) + Len(contained) + Len(engaged)
      /\ Len(seen) = 1 => events'[1] = seen[1]
  BY <1>2, <1>6, <1>7
<1>9. Len(seen) \in Nat /\ Len(contained) \in Nat /\ Len(engaged) \in Nat
  BY <1>6, <1>7
<1>10. ASSUME NEW i \in 1 .. Len(events'), events'[i] \in Action
       PROVE  i > 1 /\ events'[1] \in {"anomaly_detected", "level_change"}
  <2>1. CASE Len(seen) = 1
    <3>1. i # 1
      BY <1>6, <1>8, <1>10, <2>1
    <3>2. Len(events') \in Nat
      BY <1>8, <1>9
    <3>3. i > 1 /\ Len(events') > 1
      BY <1>10, <3>1, <3>2
    <3> QED  BY <1>7, <1>8, <1>9, <2>1, <3>3
  <2>2. CASE Len(seen) # 1
    <3>1. ~(Len(contained) > 0) /\ ~(Len(engaged) > 0)
      BY <1>7, <2>2
    <3>2. Len(seen) <= 1
      BY <1>6
    <3>3. \A n \in Nat : (~(n > 0) => n = 0) /\ (n <= 1 /\ n # 1 => n = 0)
      OBVIOUS
    <3>4. Len(contained) = 0 /\ Len(engaged) = 0 /\ Len(seen) = 0
      BY <1>9, <2>2, <3>1, <3>2, <3>3
    <3>5. Len(events') = 0
      BY <1>8, <3>4
    <3> QED  BY <1>10, <3>5
  <2> QED  BY <2>1, <2>2
<1>11. ASSUME Len(events') = 1, events'[1] \in {"anomaly_detected", "level_change"}
       PROVE  tfLevel' < LevelContainment
  <2>1. Len(seen) = 1 /\ Len(contained) = 0
    BY <1>6, <1>7, <1>8, <1>9, <1>11
  <2>2. contained = <<>>
    BY <1>4, <2>1, EmptySequence DEF Action, EventType
  <2>3. seen \in {<<"anomaly_detected">>, <<"level_change">>}
    <3>1. PICK e \in EventType \ Action : seen = <<e>>
      BY <1>3, <2>1, EmptySequence
    <3>2. e = events'[1]
      BY <1>8, <2>1, <3>1, EmptySequence
    <3> QED  BY <1>11, <3>1, <3>2
  <2>4. level < LevelContainment
    <3>1. \A a \in Action : a \in EventType
      BY DEF Action, EventType
    <3> QED  BY <1>3, <1>4, <2>2, <2>3, <3>1, EmptySequence
  <2> QED  BY <1>3, <2>4
<1> QED  BY <1>8, <1>10, <1>11 DEF ActionsExplained, Action

LEMMA TickInvariant ==
  ASSUME IInv, NEW level \in Level, NEW steep \in Steep, NEW clean \in BOOLEAN,
         NEW time \in TickTimes, ReportTick(level, steep, clean, time)
  PROVE  IInv'
<1> DEFINE seen == Observed(level, sinceBeat + time)
<1>1. /\ sinceBeat + time \in Nat /\ time \in Nat \ {0} /\ HeartbeatInterval \in Nat \ {0}
      /\ tfLevel \in Level /\ sinceBeat \in 0 .. HeartbeatInterval
      /\ sinceLine \in 0 .. HeartbeatInterval
  BY TickTimesAssumption, HeartbeatAssumption DEF IInv, TypeOK
<1>2. /\ seen = <<>> => level = tfLevel
      /\ seen = <<"heartbeat">> =>
           tfLevel = LevelHomeostasis /\ level = LevelHomeostasis
           /\ sinceBeat + time >= HeartbeatInterval
      /\ level = LevelHomeostasis /\ ~Beats(seen) =>
           tfLevel = LevelHomeostasis /\ seen = <<>> /\ sinceBeat + time < HeartbeatInterval
  BY <1>1, ObservedCases
<1>3. /\ tfLevel' = level /\ lastLevel' = level
      /\ sinceBeat' = IF Beats(seen) THEN 0 ELSE Capped(sinceBeat + time, HeartbeatInterval)
      /\ active' = (Phase2 /\ level = LevelSurvival)
      /\ told' = IF seen = << >> THEN told ELSE level
      /\ sinceLine' = IF seen = << >> THEN Capped(sinceLine + time, HeartbeatInterval) ELSE 0
      /\ early' = (seen = <<"heartbeat">> /\ sinceLine + time < HeartbeatInterval)
      /\ edge' = (steep /\ level > tfLevel /\ ~Fires(level, steep))
  BY DEF ReportTick, Apply
<1>4. Beats(seen) => seen # <<>>
  BY EmptySequence DEF Beats, EventType
<1> HIDE DEF seen
<1>5. LogTellsLevel'
  BY <1>2, <1>3 DEF IInv, LogTellsLevel
<1>6. /\ sinceBeat' \in 0 .. HeartbeatInterval /\ sinceLine' \in 0 .. HeartbeatInterval
      /\ tfLevel' = LevelHomeostasis => sinceBeat' = sinceLine'
  BY <1>1, <1>2, <1>3, <1>4 DEF IInv, Remembered, Capped
<1>7. HeartbeatPunctual'
  <2>1. level = LevelHomeostasis => sinceBeat' < HeartbeatInterval
    BY <1>1, <1>2, <1>3 DEF Capped
  <2>2. ~early'
    <3>1. CASE seen = <<"heartbeat">>
      <4>1. sinceBeat = sinceLine
        BY <1>2, <3>1 DEF IInv, Remembered
      <4>2. ~(sinceLine + time < HeartbeatInterval)
        BY <1>1, <1>2, <3>1, <4>1
      <4> QED  BY <1>3, <4>2
    <3>2. CASE seen # <<"heartbeat">>
      BY <1>3, <3>2
    <3> QED  BY <3>1, <3>2
  <2> QED  BY <1>3, <2>1, <2>2 DEF HeartbeatPunctual
<1>8. /\ fired' \in Level \cup {-1}
      /\ inflight' \in [Level -> 0 .. 1]
      /\ posts' \in [Level -> 0 .. 2]
      /\ \A l \in Level : inflight'[l] <= posts'[l]
      /\ PostsAtMostOncePerLevel'
  <2>1. /\ fired \in Level \cup {-1} /\ inflight \in [Level -> 0 .. 1]
        /\ posts \in [Level -> 0 .. 2]
        /\ \A l \in Level : inflight[l] <= posts[l]
        /\ \A l \in Level : posts[l] <= 1 /\ (posts[l] = 1 => l <= fired)
    BY DEF IInv, TypeOK, Remembered, PostsAtMostOncePerLevel
  <2>2. CASE Fires(level, steep)
    <3>1. /\ fired' = level /\ level > fired
          /\ inflight' = [inflight EXCEPT ![level] = @ + 1]
          /\ posts' = [posts EXCEPT ![level] = Capped(@ + 1, 2)]
      BY <2>2 DEF ReportTick, Notify, Fires
    <3>2. posts[level] = 0 /\ inflight[level] = 0
      BY <2>1, <3>1
    <3> QED  BY <2>1, <3>1, <3>2 DEF PostsAtMostOncePerLevel, Capped
  <2>3. CASE ~Fires(level, steep)
    BY <2>1, <2>3 DEF ReportTick, Notify, PostsAtMostOncePerLevel
  <2> QED  BY <2>2, <2>3
<1>9. events' \in Seq(EventType) /\ ActionsExplained'
  BY TickEvents
<1>10. Remembered'
  BY <1>3, <1>6, <1>8 DEF Remembered
<1>11. active' \in BOOLEAN /\ early' \in BOOLEAN /\ edge' \in BOOLEAN /\ told' \in Level
  BY <1>3 DEF IInv, TypeOK, Steep
<1>12. TypeOK'
  BY <1>3, <1>6, <1>8, <1>9, <1>11 DEF TypeOK
<1> QED
  BY <1>5, <1>7, <1>8, <1>9, <1>10, <1>12 DEF IInv

LEMMA StepInvariant == IInv /\ [ReportNext]_reportVars => IInv'
<1> SUFFICES ASSUME IInv, [ReportNext]_reportVars PROVE IInv'
  OBVIOUS
<1>1. ASSUME NEW level \in Level, NEW steep \in Steep, NEW clean \in BOOLEAN,
             NEW time \in TickTimes, ReportTick(level, steep, clean, time)
      PROVE  IInv'
  BY <1>1, TickInvariant
<1>2. ASSUME NEW level \in Level, PostEnds(level) PROVE IInv'
  <2>1. /\ inflight' \in [Level -> 0 .. 1]
        /\ \A l \in Level : inflight'[l] <= inflight[l]
    BY <1>2 DEF IInv, TypeOK, PostEnds
  <2>2. \A l \in Level : inflight'[l] <= posts'[l]
    BY <1>2, <2>1 DEF IInv, TypeOK, Remembered, PostEnds
  <2> QED
    BY <1>2, <2>1, <2>2
    DEF PostEnds, IInv, TypeOK, Remembered, LogTellsLevel, HeartbeatPunctual,
        PostsAtMostOncePerLevel, ActionsExplained
<1>3. CASE UNCHANGED reportVars
  BY <1>3
  DEF reportVars, IInv, TypeOK, Remembered, LogTellsLevel, HeartbeatPunctual,
      PostsAtMostOncePerLevel, ActionsExplained
<1> QED  BY <1>1, <1>2, <1>3 DEF ReportNext

-----------------------------------------------------------------------------

\* The invariant of the reports holds for every interval and rhythm of ticks.
THEOREM ReportInvariant == ReportSpec => []IInv
BY InitInvariant, StepInvariant, PTL DEF ReportSpec

\* The state of the filter and the webhook stays well typed.
THEOREM ReportTypeTheorem == ReportSpec => []TypeOK
<1>1. IInv => TypeOK
  BY DEF IInv
<1> QED  BY <1>1, ReportInvariant, PTL

\* No change of level is silent in the log of the filter.
THEOREM LogTheorem == ReportSpec => []LogTellsLevel
<1>1. IInv => LogTellsLevel
  BY DEF IInv
<1> QED  BY <1>1, ReportInvariant, PTL

\* Heartbeats of the filter are neither late nor early.
THEOREM HeartbeatTheorem == ReportSpec => []HeartbeatPunctual
<1>1. IInv => HeartbeatPunctual
  BY DEF IInv
<1> QED  BY <1>1, ReportInvariant, PTL

\* The webhook posts each level at most once.
THEOREM PostTheorem == ReportSpec => []PostsAtMostOncePerLevel
<1>1. IInv => PostsAtMostOncePerLevel
  BY DEF IInv
<1> QED  BY <1>1, ReportInvariant, PTL

\* Every line about an action follows the line about its change of level.
THEOREM ActionTheorem == ReportSpec => []ActionsExplained
<1>1. IInv => ActionsExplained
  BY DEF IInv
<1> QED  BY <1>1, ReportInvariant, PTL

=============================================================================
