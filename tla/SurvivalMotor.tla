---------------------------- MODULE SurvivalMotor ----------------------------
(***************************************************************************)
(* The Phase 2 actuator (internal/motor/survival.go): at level Survival it *)
(* starves the offender cgroup, shields the vital cgroup and, where the    *)
(* kernel allows, replaces the scheduler through a BPF link; on the way    *)
(* down it writes the kernel defaults back.                                *)
(*                                                                         *)
(* Engage and Release go on after a write that fails, so each is described *)
(* by the set of writes that took effect.  The knobs live in the kernel    *)
(* and outlive the process; the link dies with the process that holds it.  *)
(***************************************************************************)
EXTENDS Naturals

CONSTANTS
  Targets,        \* the cgroups configured: a subset of {"offender", "vital"}
  CacheGroups,    \* cache groups of the topology; 0 when it is unknown
  SchedExt        \* the kernel has sched_ext and an object is configured

VARIABLES
  active,         \* sm.active
  link,           \* sm.schedExtFD >= 0: the survival scheduler is in force
  knobs           \* the control file of each knob

Knob == {"offender.cpu.weight", "offender.swappiness", "offender.cpuset",
         "vital.swap.max", "vital.swappiness", "vital.cpuset"}

\* "prior" is what the operator had configured, "survival" the emergency
\* value, "default" the kernel default that Release writes.
Setting == {"prior", "survival", "default"}

\* What Release restores: never the CPU sets.
ReleaseKnobs ==
  (IF "offender" \in Targets THEN {"offender.cpu.weight", "offender.swappiness"} ELSE {})
    \cup (IF "vital" \in Targets THEN {"vital.swap.max", "vital.swappiness"} ELSE {})

\* applyFallback: the CPU sets are written only when the topology gives the
\* groups to choose from.
EngageKnobs ==
  ReleaseKnobs
    \cup (IF "offender" \in Targets /\ CacheGroups > 1 THEN {"offender.cpuset"} ELSE {})
    \cup (IF "vital" \in Targets /\ CacheGroups > 0 THEN {"vital.cpuset"} ELSE {})

Written(set, setting) == [k \in Knob |-> IF k \in set THEN setting ELSE knobs[k]]

Init == active = FALSE /\ link = FALSE

\* Active is set even when every write and the scheduler link failed.
Engage(written, linked) ==
  /\ ~active
  /\ written \subseteq EngageKnobs
  /\ linked => SchedExt
  /\ active' = TRUE
  /\ link' = linked
  /\ knobs' = Written(written, "survival")

\* Slip: Release leaves the link open.
ReleaseKeepsLink(written) ==
  /\ active
  /\ written \subseteq ReleaseKnobs
  /\ active' = FALSE
  /\ knobs' = Written(written, "default")
  /\ UNCHANGED link

\* Closing the link gives the CPUs back to the regular scheduler.
Release(written) ==
  /\ active
  /\ written \subseteq ReleaseKnobs
  /\ active' = FALSE
  /\ link' = FALSE
  /\ knobs' = Written(written, "default")

ReleaseIdle ==
  /\ ~active
  /\ UNCHANGED <<active, link, knobs>>

=============================================================================
