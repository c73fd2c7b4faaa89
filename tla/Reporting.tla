------------------------------ MODULE Reporting ------------------------------
(***************************************************************************)
(* What the agent tells the world: the structured log of the Thalamic      *)
(* Filter (internal/brain/thalamic_filter.go) and the webhook of the       *)
(* telemetry package (internal/telemetry/webhook.go).  Once per tick the   *)
(* main loop calls Notify, Observe and, through react, NotifyContainment   *)
(* and NotifySurvival.  Each webhook POST runs in a goroutine of its own,  *)
(* so posts overlap, overtake one another and fail.                        *)
(*                                                                         *)
(* The level, the slope and the time of a tick are inputs.  The filter,    *)
(* the cgroup motor, the survival motor and the webhook each keep a memory *)
(* of their own of the level, and report by comparing with it.             *)
(***************************************************************************)
EXTENDS AlertLevels, Integers, Sequences

CONSTANTS
  HeartbeatInterval,  \* thalamus.heartbeat_interval_s
  TickTimes,          \* seconds between two ticks
  Phase2              \* survival.enabled, and the survival motor was created

ASSUME HeartbeatAssumption == HeartbeatInterval \in Nat \ {0}
ASSUME TickTimesAssumption == TickTimes \subseteq Nat \ {0}
ASSUME Phase2Assumption == Phase2 \in BOOLEAN

VARIABLES
  tfLevel,        \* tf.currentLevel
  sinceBeat,      \* now - tf.lastHeartbeat, up to HeartbeatInterval
  lastLevel,      \* m.lastLevel of the cgroup motor
  active,         \* the survival motor
  fired,          \* w.lastLevel; -1 when nothing was posted yet
  inflight,       \* per level, the posts under way
  events,         \* the events of the last tick, in order
  told,           \* history: the level in the last event of Observe
  sinceLine,      \* history: time since the last event of Observe, likewise
  posts,          \* history: per level, the posts ever started, up to 2
  early,          \* history: the last tick beat less than an interval after that
  edge            \* history: the last tick was a steep rise, and was not posted

reportVars == <<tfLevel, sinceBeat, lastLevel, active, fired, inflight, events,
                told, sinceLine, posts, early, edge>>

EventType == {"heartbeat", "anomaly_detected", "level_change", "homeostasis_restored",
              "containment_applied", "protection_applied", "survival_engaged"}

Capped(n, limit) == IF n > limit THEN limit ELSE n

ReportInit ==
  /\ tfLevel = LevelHomeostasis
  /\ sinceBeat = 0
  /\ lastLevel = LevelHomeostasis
  /\ active = FALSE
  /\ fired = -1
  /\ inflight = [l \in Level |-> 0]
  /\ events = << >>
  /\ told = LevelHomeostasis
  /\ sinceLine = 0
  /\ posts = [l \in Level |-> 0]
  /\ early = FALSE
  /\ edge = FALSE

-----------------------------------------------------------------------------
(* The Thalamic Filter.                                                    *)

\* Slip: a change between two alert levels is reported upwards only.
ObservedUpOnly(level, age) ==
  CASE level = LevelHomeostasis /\ tfLevel = LevelHomeostasis ->
         IF age >= HeartbeatInterval THEN <<"heartbeat">> ELSE << >>
    [] level > LevelHomeostasis /\ tfLevel = LevelHomeostasis -> <<"anomaly_detected">>
    [] level > tfLevel /\ tfLevel > LevelHomeostasis -> <<"level_change">>
    [] level = LevelHomeostasis /\ tfLevel > LevelHomeostasis -> <<"homeostasis_restored">>
    [] OTHER -> << >>

\* Slip: the heartbeat needs more than an interval.
ObservedLate(level, age) ==
  CASE level = LevelHomeostasis /\ tfLevel = LevelHomeostasis ->
         IF age > HeartbeatInterval THEN <<"heartbeat">> ELSE << >>
    [] level > LevelHomeostasis /\ tfLevel = LevelHomeostasis -> <<"anomaly_detected">>
    [] level # tfLevel /\ level > LevelHomeostasis /\ tfLevel > LevelHomeostasis ->
         <<"level_change">>
    [] level = LevelHomeostasis /\ tfLevel > LevelHomeostasis -> <<"homeostasis_restored">>
    [] OTHER -> << >>

\* Observe: at most one event, by the last two levels; age is the time since
\* the last heartbeat.
Observed(level, age) ==
  CASE level = LevelHomeostasis /\ tfLevel = LevelHomeostasis ->
         IF age >= HeartbeatInterval THEN <<"heartbeat">> ELSE << >>
    [] level > LevelHomeostasis /\ tfLevel = LevelHomeostasis -> <<"anomaly_detected">>
    [] level # tfLevel /\ level > LevelHomeostasis /\ tfLevel > LevelHomeostasis ->
         <<"level_change">>
    [] level = LevelHomeostasis /\ tfLevel > LevelHomeostasis -> <<"homeostasis_restored">>
    [] OTHER -> << >>

\* The events of Observe that restart the heartbeat.
Beats(seen) == seen \in {<<"heartbeat">>, <<"homeostasis_restored">>}

-----------------------------------------------------------------------------
(* The motors.                                                             *)

\* Slip: Survival, whose limits are those of Protection, is recorded as such.
ApplyFloor(level) == lastLevel' = IF level = LevelSurvival THEN LevelProtection ELSE level

\* Apply of the cgroup motor: the level is recorded, whatever becomes of the writes.
Apply(level) == lastLevel' = level

\* NotifyContainment, called when Apply changed to a level with an action.
Contained(level) ==
  CASE level = lastLevel \/ level < LevelContainment -> << >>
    [] level # lastLevel /\ level = LevelContainment -> <<"containment_applied">>
    [] level # lastLevel /\ level = LevelProtection  -> <<"protection_applied">>
    [] level # lastLevel /\ level = LevelSurvival    -> <<"survival_engaged">>

\* NotifySurvival, called when Engage reported no error.
Engaged(level, clean) ==
  IF Phase2 /\ level = LevelSurvival /\ ~active /\ clean
    THEN <<"survival_engaged">> ELSE << >>

-----------------------------------------------------------------------------
(* The webhook.                                                            *)

Steep == {TRUE, FALSE}      \* snap.DMDot > w.threshold

\* Slip: the level is compared with < instead of <=.
FiresAgain(level, steep) == steep /\ level >= fired

Fires(level, steep) == steep /\ level > fired

Notify(level, steep) ==
  IF Fires(level, steep)
    THEN /\ fired' = level
         /\ inflight' = [inflight EXCEPT ![level] = @ + 1]
         /\ posts' = [posts EXCEPT ![level] = Capped(@ + 1, 2)]
    ELSE UNCHANGED <<fired, inflight, posts>>

\* A goroutine ends: its POST was answered, refused or timed out.  Nobody
\* looks at the result.
PostEnds(level) ==
  /\ inflight[level] > 0
  /\ inflight' = [inflight EXCEPT ![level] = @ - 1]
  /\ UNCHANGED <<tfLevel, sinceBeat, lastLevel, active, fired, events, told, sinceLine,
                 posts, early, edge>>

-----------------------------------------------------------------------------
(* One tick, from the reporting side.                                      *)

ReportTick(level, steep, clean, time) ==
  LET seen == Observed(level, sinceBeat + time)
  IN  /\ Notify(level, steep)
      /\ tfLevel' = level
      /\ sinceBeat' = IF Beats(seen) THEN 0 ELSE Capped(sinceBeat + time, HeartbeatInterval)
      /\ Apply(level)
      /\ active' = (Phase2 /\ level = LevelSurvival)
      /\ events' = seen \o Contained(level) \o Engaged(level, clean)
      /\ told' = IF seen = << >> THEN told ELSE level
      /\ sinceLine' = IF seen = << >> THEN Capped(sinceLine + time, HeartbeatInterval) ELSE 0
      /\ early' = (seen = <<"heartbeat">> /\ sinceLine + time < HeartbeatInterval)
      /\ edge' = (steep /\ level > tfLevel /\ ~Fires(level, steep))

ReportNext ==
  \/ \E level \in Level, steep \in Steep, clean \in BOOLEAN, time \in TickTimes :
       ReportTick(level, steep, clean, time)
  \/ \E level \in Level : PostEnds(level)

ReportSpec == ReportInit /\ [][ReportNext]_reportVars

-----------------------------------------------------------------------------
(* Properties.                                                             *)

\* The state of the filter and of the webhook has the declared shape; the
\* webhook remembers the highest level it posted, and posts end.
TypeOK ==
  /\ tfLevel \in Level
  /\ sinceBeat \in 0 .. HeartbeatInterval
  /\ lastLevel \in Level
  /\ active \in BOOLEAN
  /\ fired \in Level \cup {-1}
  /\ inflight \in [Level -> 0 .. 1]
  /\ events \in Seq(EventType)
  /\ told \in Level
  /\ sinceLine \in 0 .. HeartbeatInterval
  /\ posts \in [Level -> 0 .. 2]
  /\ early \in BOOLEAN
  /\ edge \in BOOLEAN

\* Somebody who reads the log of the filter, and nothing else, always knows
\* the level: no change of level, up or down, by one or by many, is silent.
LogTellsLevel == told = tfLevel

\* After a tick at Homeostasis the last heartbeat is less than an interval old,
\* so the filter stays silent for an interval and one tick at most; and a
\* heartbeat comes no sooner than an interval after the line before it, be that
\* a heartbeat or the restoration of homeostasis.
HeartbeatPunctual ==
  /\ tfLevel = LevelHomeostasis => sinceBeat < HeartbeatInterval
  /\ ~early

\* The memories of the filter and of the two motors agree in the log: every line
\* about an action follows, in the same tick, the line about the change of level
\* that caused it, so a level that merely persists announces no action; and a
\* line about a change to a level with an action is followed by that action.
ActionsExplained ==
  /\ \A i \in 1 .. Len(events) :
       events[i] \in {"containment_applied", "protection_applied", "survival_engaged"} =>
         i > 1 /\ events[1] \in {"anomaly_detected", "level_change"}
  /\ Len(events) = 1 /\ events[1] \in {"anomaly_detected", "level_change"} =>
       tfLevel < LevelContainment

\* The webhook posts each level at most once and never below one it posted,
\* so a level that flickers around a threshold cannot flood its target.
PostsAtMostOncePerLevel == \A l \in Level : posts[l] <= 1 /\ (posts[l] = 1 => l <= fired)

-----------------------------------------------------------------------------
(* What the documentation says, and the code does not do.                  *)

\* README.md:305, "HOSA fires a single HTTP POST per escalation edge (level
\* increase) when dD/dt exceeds the threshold": a steep rise is posted.
EveryEdgePosted == ~edge

=============================================================================
