--------------------------- MODULE Configuration ---------------------------
(***************************************************************************)
(* From the configuration file and the command line to the values the      *)
(* agent runs with: config.LoadWithFlags and Validate (internal/config),   *)
(* and then the fallbacks of the components main.go hands the values to.   *)
(*                                                                         *)
(* Only the settings that some rule compares or replaces are modelled; the *)
(* paths, addresses and formats are copied.  Numbers are scaled so that    *)
(* the defaults are integers: distances in halves, fractions in hundredths.*)
(* A switch is 0 or 1.  What a component makes of a value never changes     *)
(* while the process runs: inForce is that value.                          *)
(***************************************************************************)
EXTENDS Integers, FiniteSets

CONSTANTS
  NoFile,         \* there is no configuration file
  Malformed,      \* a file with a line that is no comment, section or key=value
  Invalid,        \* a value that does not parse as the setting's type
  Written,        \* the values an operator may give to each setting
  MaxEntries,     \* how many settings a file may mention
  MaxFlags        \* how many flags a command line may have

Threshold == {"vigilance", "containment", "protection", "survival"}
Setting == Threshold \cup
  {"survival_enabled", "alpha", "min_samples", "escalate", "relax", "hysteresis",
   "normal_ms", "vigilance_ms", "containment_frac", "high_frac", "max_frac",
   "frag_entropy", "cpu_weight"}

\* The settings with a command-line flag.
Flag == Threshold \cup
  {"survival_enabled", "alpha", "min_samples", "hysteresis", "normal_ms", "vigilance_ms",
   "frag_entropy"}

ASSUME WrittenAssumption == \A s \in Setting : Written[s] \subseteq Int
ASSUME BoundsAssumption == MaxEntries \in Nat /\ MaxFlags \in Nat
ASSUME MarksAssumption ==
  /\ Invalid \notin UNION {Written[s] : s \in Setting}
  /\ NoFile # Malformed

\* What files and command lines say: some settings, each with some value.
Mentioning(values, most) ==
  UNION { {f \in [m -> UNION {values[s] : s \in m}] : \A s \in m : f[s] \in values[s]}
          : m \in {m \in SUBSET DOMAIN values : Cardinality(m) <= most} }

File == {NoFile, Malformed}
        \cup Mentioning([s \in Setting |-> Written[s] \cup {Invalid}], MaxEntries)
Flags == Mentioning([s \in Flag |-> Written[s]], MaxFlags)

VARIABLES
  file,           \* the configuration file this process found
  flags,          \* the command line, as given to this process
  agent,          \* "down", "running" or "refused"
  config,         \* cfg as Validate saw it
  inForce         \* the values the components use

vars == <<file, flags, agent, config, inForce>>

-----------------------------------------------------------------------------
(* LoadWithFlags.                                                          *)

Default ==
  [s \in Setting |->
     CASE s = "vigilance" -> 7         [] s = "containment" -> 11
       [] s = "protection" -> 16       [] s = "survival" -> 24
       [] s = "survival_enabled" -> 0  [] s = "alpha" -> 20
       [] s = "min_samples" -> 30      [] s = "escalate" -> 4
       [] s = "relax" -> 1             [] s = "hysteresis" -> 5
       [] s = "normal_ms" -> 1000      [] s = "vigilance_ms" -> 100
       [] s = "containment_frac" -> 75 [] s = "high_frac" -> 50
       [] s = "max_frac" -> 90         [] s = "frag_entropy" -> 78
       [] s = "cpu_weight" -> 1]

\* A setting the file does not mention, or whose value does not parse, keeps
\* its default.
Loaded(f) ==
  [s \in Setting |->
     IF f # NoFile /\ s \in DOMAIN f /\ f[s] # Invalid THEN f[s] ELSE Default[s]]

\* Slip: a flag counts only when it differs from the default.
OverriddenIfDifferent(cfg, given) ==
  [s \in Setting |-> IF s \in DOMAIN given /\ given[s] # Default[s] THEN given[s] ELSE cfg[s]]

\* Every flag on the command line replaces the value of the file.
Overridden(cfg, given) ==
  [s \in Setting |-> IF s \in DOMAIN given THEN given[s] ELSE cfg[s]]

ValidSampling(cfg) ==
  /\ cfg["normal_ms"] > 0
  /\ cfg["vigilance_ms"] > 0 /\ cfg["vigilance_ms"] <= cfg["normal_ms"]

\* Slip: the lowest threshold is not checked.
ValidDetectionLax(cfg) ==
  /\ cfg["containment"] > cfg["vigilance"]
  /\ cfg["protection"] > cfg["containment"]
  /\ cfg["alpha"] > 0 /\ cfg["alpha"] <= 100
  /\ cfg["min_samples"] >= 2

ValidDetection(cfg) ==
  /\ cfg["vigilance"] > 0
  /\ cfg["containment"] > cfg["vigilance"]
  /\ cfg["protection"] > cfg["containment"]
  /\ cfg["alpha"] > 0 /\ cfg["alpha"] <= 100
  /\ cfg["min_samples"] >= 2

ValidMotor(cfg) ==
  /\ cfg["containment_frac"] > 0 /\ cfg["containment_frac"] < 100
  /\ cfg["high_frac"] < cfg["containment_frac"]

ValidSurvival(cfg) ==
  cfg["survival_enabled"] = 1 =>
    /\ cfg["survival"] > cfg["protection"]
    /\ cfg["frag_entropy"] > 0 /\ cfg["frag_entropy"] <= 100
    /\ cfg["cpu_weight"] >= 1 /\ cfg["cpu_weight"] <= 10000

Validate(cfg) == ValidDetection(cfg) /\ ValidSampling(cfg) /\ ValidMotor(cfg) /\ ValidSurvival(cfg)

-----------------------------------------------------------------------------
(* What the components make of it.                                         *)

\* The settings whose component replaces a value that is not positive: the
\* cortex (NewPredictiveCortex, classify) and the cgroup motor (contain,
\* protect).  The smoothing factor also has a largest value.  The fragmentation
\* monitor replaces its threshold too, but is built only when survival is
\* enabled, and then Validate has ruled such a value out.
Replaced == {"vigilance", "containment", "protection", "alpha", "escalate", "relax",
             "hysteresis", "containment_frac", "high_frac", "max_frac"}

Unusable(s, value) == value <= 0 \/ (s = "alpha" /\ value > 100)

\* Slip: the components use what they are given.
WiredAsGiven(cfg) == [s \in Setting |-> IF s = "survival" THEN Default[s] ELSE cfg[s]]

\* main.go does not pass the threshold of Survival: the cortex finds 0 and
\* takes its default.
Wired(cfg) ==
  [s \in Setting |->
     IF s = "survival" \/ (s \in Replaced /\ Unusable(s, cfg[s])) THEN Default[s] ELSE cfg[s]]

\* The interval react chooses; an alert of any level samples fast.
Interval(alert) == IF alert THEN inForce["vigilance_ms"] ELSE inForce["normal_ms"]

-----------------------------------------------------------------------------
(* The life of the process.                                                *)

NoFlags == [s \in {} |-> 0]

Init ==
  /\ agent = "down"
  /\ file = NoFile
  /\ flags = NoFlags
  /\ config = Default
  /\ inForce = Default

\* A process starts with some command line, reads whatever the operator has
\* left on the disk by then, and runs or refuses to.
Boot ==
  /\ agent = "down"
  /\ \E found \in File, given \in Flags :
       /\ file' = found
       /\ flags' = given
       /\ IF found = Malformed
            THEN agent' = "refused" /\ UNCHANGED <<config, inForce>>
            ELSE LET cfg == Overridden(Loaded(found), given)
                 IN  /\ config' = cfg
                     /\ IF Validate(cfg)
                          THEN agent' = "running" /\ inForce' = Wired(cfg)
                          ELSE agent' = "refused" /\ UNCHANGED inForce

\* A process that refused has ended; one that runs may end, on a signal or by
\* itself.  What it had read is gone: a changed file takes effect this way only.
End ==
  /\ agent # "down"
  /\ agent' = "down"
  /\ file' = NoFile
  /\ flags' = NoFlags
  /\ config' = Default
  /\ inForce' = Default

Next == Boot \/ End

Spec == Init /\ [][Next]_vars

-----------------------------------------------------------------------------
(* Properties.                                                             *)

\* A value of the right kind for every setting, and one the components can use
\* for every setting they would otherwise replace (classify, contain, protect).
TypeOK ==
  /\ agent \in {"down", "running", "refused"}
  /\ file \in File /\ flags \in Flags
  /\ config \in [Setting -> Int]
  /\ inForce \in [Setting -> Int]
  /\ \A s \in Replaced : ~Unusable(s, inForce[s])

\* The order Validate asks of the file's thresholds, fractions and intervals is
\* the order of the values in force, whatever the components replaced, with two
\* exceptions, each stated with all that makes it true.  Survival lies above
\* Protection only where Protection is below the default of Survival: the
\* threshold Validate compares is not the one main.go makes the cortex use.  And
\* memory.high is lower at Protection than at Containment unless its fraction is
\* not positive, which Validate lets pass, and the default that the motor takes
\* instead is not below the other.
OrderInForce ==
  agent = "running" =>
    /\ 0 < inForce["vigilance"]
    /\ inForce["vigilance"] < inForce["containment"]
    /\ inForce["containment"] < inForce["protection"]
    /\ inForce["protection"] < inForce["survival"]
         <=> config["protection"] < Default["survival"]
    /\ inForce["high_frac"] < inForce["containment_frac"]
         <=> config["high_frac"] > 0 \/ Default["high_frac"] < config["containment_frac"]
    /\ 0 < Interval(TRUE) /\ Interval(TRUE) <= Interval(FALSE)

\* What the command line says is what the agent does: no value of the file, no
\* default and no fallback of a component stands in its way, but for the threshold
\* of Survival, which main.go does not pass, and a hysteresis that is not positive.
\* It does so also when the flag repeats the default, of which the comment at
\* config.go:321 says the opposite: such a flag "won't override a different TOML
\* value - which is the correct behavior".  flag.Visit visits every flag that was
\* given, with whatever value.
FlagInForce ==
  agent = "running" =>
    \A s \in DOMAIN flags :
      inForce[s] = IF s = "survival" \/ (s = "hysteresis" /\ flags[s] <= 0)
                     THEN Default[s] ELSE flags[s]

=============================================================================
