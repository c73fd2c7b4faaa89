------------------------- MODULE ConfigurationProofs -------------------------
(***************************************************************************)
(* Proofs about the configuration, for every set of values an operator may *)
(* write, every number of entries in a file and of flags.                  *)
(*                                                                         *)
(* Argument.  None of the three properties is inductive, as none says      *)
(* where the values in force come from.  ConfigInv does: a process that    *)
(* runs has accepted the file overridden by the flags, and uses what the   *)
(* components make of that.  The rest compares the rules of Validate with  *)
(* the fallbacks of the components, setting by setting.                    *)
(***************************************************************************)
EXTENDS Configuration, FiniteSetTheorems, TLAPS

\* The inductive invariant.
ConfigInv ==
  /\ TypeOK
  /\ agent = "running" => /\ config = Overridden(Loaded(file), flags)
                          /\ Validate(config)
                          /\ inForce = Wired(config)

-----------------------------------------------------------------------------
(* Files, flags and what they make of the defaults.                        *)

\* What a file or a command line says of a setting is one of its values.
LEMMA MentionedValue ==
  ASSUME NEW values, NEW most, NEW f \in Mentioning(values, most)
  PROVE  DOMAIN f \subseteq DOMAIN values /\ \A s \in DOMAIN f : f[s] \in values[s]
  BY DEF Mentioning

\* An empty command line is one of the command lines.
LEMMA NoFlagsGiven == NoFlags \in Flags
<1> DEFINE values == [s \in Flag |-> Written[s]]
<1>1. {} \in {m \in SUBSET DOMAIN values : Cardinality(m) <= MaxFlags}
  BY FS_EmptySet, BoundsAssumption
<1>2. NoFlags \in {f \in [{} -> UNION {values[s] : s \in {}}] : \A s \in {} : f[s] \in values[s]}
  BY DEF NoFlags
<1> HIDE DEF values
<1>3. NoFlags \in Mentioning(values, MaxFlags)
  BY <1>1, <1>2 DEF Mentioning
<1> QED  BY <1>3 DEF Flags, values

\* The command line mentions settings that have a flag, with integers.
LEMMA GivenValues ==
  ASSUME NEW given \in Flags
  PROVE  DOMAIN given \subseteq Flag /\ \A s \in DOMAIN given : given[s] \in Int
<1> DEFINE values == [s \in Flag |-> Written[s]]
<1>1. given \in Mentioning(values, MaxFlags)
  BY DEF Flags
<1>2. DOMAIN given \subseteq DOMAIN values /\ \A s \in DOMAIN given : given[s] \in values[s]
  BY <1>1, MentionedValue
<1>3. Flag \subseteq Setting
  BY DEF Flag, Setting, Threshold
<1> QED  BY <1>2, <1>3, WrittenAssumption

\* The defaults have values, and the components can use them.
LEMMA DefaultUsable ==
  /\ Default \in [Setting -> Int]
  /\ \A s \in Replaced : s \in Setting /\ ~Unusable(s, Default[s])
  BY DEF Default, Setting, Threshold, Replaced, Unusable

\* A file that is well formed leaves an integer for every setting.
LEMMA LoadedType ==
  ASSUME NEW f \in File, f # Malformed
  PROVE  Loaded(f) \in [Setting -> Int]
<1> DEFINE values == [s \in Setting |-> Written[s] \cup {Invalid}]
<1> SUFFICES ASSUME NEW s \in Setting, f # NoFile, s \in DOMAIN f, f[s] # Invalid
             PROVE  f[s] \in Int
  BY DefaultUsable DEF Loaded
<1>1. f \in Mentioning(values, MaxEntries)
  BY DEF File
<1>2. f[s] \in values[s]
  BY <1>1, MentionedValue
<1> QED  BY <1>2, WrittenAssumption

\* Overriding keeps the type.
LEMMA OverriddenType ==
  ASSUME NEW cfg \in [Setting -> Int], NEW given \in Flags
  PROVE  Overridden(cfg, given) \in [Setting -> Int]
  BY GivenValues DEF Overridden

\* The components run with integers, none of which they cannot use.
LEMMA WiredType ==
  ASSUME NEW cfg \in [Setting -> Int]
  PROVE  /\ Wired(cfg) \in [Setting -> Int]
         /\ \A s \in Replaced : ~Unusable(s, Wired(cfg)[s])
<1>1. Wired(cfg) \in [Setting -> Int]
  BY DefaultUsable DEF Wired
<1>2. "survival" \notin Replaced
  BY DEF Replaced
<1> QED  BY <1>1, <1>2, DefaultUsable DEF Wired

-----------------------------------------------------------------------------
(* The invariant.                                                          *)

LEMMA ConfigInit == Init => ConfigInv
  BY NoFlagsGiven, DefaultUsable DEF Init, ConfigInv, TypeOK, File

LEMMA ConfigStep == ConfigInv /\ [Next]_vars => ConfigInv'
<1> SUFFICES ASSUME ConfigInv, [Next]_vars PROVE ConfigInv'
  OBVIOUS
<1>1. CASE Boot
  <2>1. PICK found \in File, given \in Flags :
          /\ file' = found
          /\ flags' = given
          /\ IF found = Malformed
               THEN agent' = "refused" /\ UNCHANGED <<config, inForce>>
               ELSE LET cfg == Overridden(Loaded(found), given)
                    IN  /\ config' = cfg
                        /\ IF Validate(cfg)
                             THEN agent' = "running" /\ inForce' = Wired(cfg)
                             ELSE agent' = "refused" /\ UNCHANGED inForce
    BY <1>1 DEF Boot
  <2>2. CASE found = Malformed
    BY <2>1, <2>2 DEF ConfigInv, TypeOK
  <2>3. CASE found # Malformed
    <3> DEFINE cfg == Overridden(Loaded(found), given)
    <3>1. cfg \in [Setting -> Int]
      BY <2>3, LoadedType, OverriddenType
    <3>2. config' = cfg /\ file' = found /\ flags' = given
      BY <2>1, <2>3
    <3>3. CASE Validate(cfg)
      <4>1. agent' = "running" /\ inForce' = Wired(cfg)
        BY <2>1, <2>3, <3>3
      <4> QED  BY <3>1, <3>2, <3>3, <4>1, WiredType DEF ConfigInv, TypeOK
    <3>4. CASE ~Validate(cfg)
      <4>1. agent' = "refused" /\ inForce' = inForce
        BY <2>1, <2>3, <3>4
      <4> QED  BY <3>1, <3>2, <4>1 DEF ConfigInv, TypeOK
    <3> QED  BY <3>3, <3>4
  <2> QED  BY <2>2, <2>3
<1>2. CASE End
  BY <1>2, NoFlagsGiven, DefaultUsable DEF End, ConfigInv, TypeOK, File
<1>3. CASE UNCHANGED vars
  BY <1>3 DEF vars, ConfigInv, TypeOK
<1> QED  BY <1>1, <1>2, <1>3 DEF Next

\* A running process uses what its components make of a configuration that was
\* accepted and comes from this file and this command line.
THEOREM ConfigInvariant == Spec => []ConfigInv
  BY ConfigInit, ConfigStep, PTL DEF Spec

\* The settings are integers throughout, and the components never run with a
\* value they would have to replace.
THEOREM ConfigTypes == Spec => []TypeOK
<1>1. ConfigInv => TypeOK
  BY DEF ConfigInv
<1> QED  BY <1>1, ConfigInvariant, PTL

\* The order that Validate asks of the file is the order in force, after all
\* fallbacks of the components and for every file and command line, but for the
\* two pairs of which it says exactly when it is not.
THEOREM OrderTheorem == Spec => []OrderInForce
<1>1. ConfigInv => OrderInForce
  <2> SUFFICES ASSUME ConfigInv, agent = "running" PROVE OrderInForce
    BY DEF OrderInForce
  <2>1. config \in [Setting -> Int] /\ Validate(config) /\ inForce = Wired(config)
    BY DEF ConfigInv, TypeOK
  <2>2. /\ inForce["vigilance"] = config["vigilance"]
        /\ inForce["containment"] = config["containment"]
        /\ inForce["protection"] = config["protection"]
        /\ inForce["survival"] = Default["survival"]
        /\ inForce["containment_frac"] = config["containment_frac"]
        /\ inForce["high_frac"] = IF config["high_frac"] <= 0 THEN Default["high_frac"]
                                                             ELSE config["high_frac"]
        /\ inForce["vigilance_ms"] = config["vigilance_ms"]
        /\ inForce["normal_ms"] = config["normal_ms"]
    BY <2>1 DEF Wired, Unusable, Replaced, Setting, Threshold,
                Validate, ValidDetection, ValidMotor
  <2>3. Default["survival"] \in Int /\ Default["high_frac"] \in Int
    BY DefaultUsable DEF Setting, Threshold
  <2>4. \A s \in {"vigilance", "containment", "protection", "survival", "containment_frac",
                  "high_frac", "vigilance_ms", "normal_ms"} : config[s] \in Int
    BY <2>1 DEF Setting, Threshold
  <2>5. inForce["high_frac"] < inForce["containment_frac"]
          <=> config["high_frac"] > 0 \/ Default["high_frac"] < config["containment_frac"]
    <3>1. config["high_frac"] < config["containment_frac"]
      BY <2>1 DEF Validate, ValidMotor
    <3> QED  BY <2>2, <2>3, <2>4, <3>1
  <2>6. inForce["protection"] < inForce["survival"]
          <=> config["protection"] < Default["survival"]
    BY <2>2
  <2> QED  BY <2>1, <2>2, <2>4, <2>5, <2>6
           DEF OrderInForce, Interval, Validate, ValidDetection, ValidSampling
<1> QED  BY <1>1, ConfigInvariant, PTL

\* What the command line says is what the components do, for every flag but the
\* threshold of Survival and a hysteresis that is not positive, which leave the
\* default in force; whether or not the flag repeats its default.
THEOREM FlagTheorem == Spec => []FlagInForce
<1>1. ConfigInv => FlagInForce
  <2> SUFFICES ASSUME ConfigInv, agent = "running", NEW s \in DOMAIN flags
               PROVE  inForce[s] = IF s = "survival" \/ (s = "hysteresis" /\ flags[s] <= 0)
                                     THEN Default[s] ELSE flags[s]
    BY DEF FlagInForce
  <2>1. /\ config \in [Setting -> Int] /\ Validate(config) /\ inForce = Wired(config)
        /\ config = Overridden(Loaded(file), flags)
        /\ flags \in Flags
    BY DEF ConfigInv, TypeOK
  <2>2. s \in Flag /\ s \in Setting /\ flags[s] \in Int
    BY <2>1, GivenValues DEF Flag, Setting, Threshold
  <2>3. config[s] = flags[s]
    BY <2>1, <2>2 DEF Overridden
  <2>4. CASE s = "survival"
    BY <2>1, <2>2, <2>4 DEF Wired
  <2>5. CASE s # "survival" /\ s \notin Replaced
    <3>1. s # "hysteresis"
      BY <2>5 DEF Replaced
    <3> QED  BY <2>1, <2>2, <2>3, <2>5, <3>1 DEF Wired
  <2>6. CASE s # "survival" /\ s \in Replaced
    <3>1. s \in {"vigilance", "containment", "protection", "alpha", "hysteresis"}
      BY <2>2, <2>6 DEF Flag, Replaced, Threshold
    <3>2. CASE s = "hysteresis"
      BY <2>1, <2>2, <2>3, <2>6, <3>2 DEF Wired, Unusable
    <3>3. CASE s # "hysteresis"
      <4>1. \A r \in {"vigilance", "containment", "protection", "alpha"} : config[r] \in Int
        BY <2>1 DEF Setting, Threshold
      <4>2. ~Unusable(s, config[s])
        BY <2>1, <3>1, <3>3, <4>1 DEF Validate, ValidDetection, Unusable
      <4> QED  BY <2>1, <2>2, <2>3, <2>6, <3>3, <4>2 DEF Wired
    <3> QED  BY <3>2, <3>3
  <2> QED  BY <2>4, <2>5, <2>6
<1> QED  BY <1>1, ConfigInvariant, PTL

=============================================================================
