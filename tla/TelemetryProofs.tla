---------------------------- MODULE TelemetryProofs ----------------------------
(***************************************************************************)
(* For any number of requests, levels and measurements: what Telemetry     *)
(* keeps behind the lock is well formed, and what requests see of it is    *)
(* an atomic register.                                                     *)
(*                                                                         *)
(* TypeOK is not inductive without knowing what the lock protects: the     *)
(* fields written so far are those of the new snapshot, and the fields a   *)
(* request has copied are those of the snapshot that is published, which   *)
(* cannot change while it copies.                                          *)
(***************************************************************************)
EXTENDS Telemetry, TLAPS

Guarded ==
  /\ loop # "write" => state = published
  /\ loop = "write" => \A f \in Field \ unwritten : state[f] = snap[f]
  /\ \A h \in Handler :
       /\ handler[h] = "copy" => \A f \in Field \ uncopied[h] : copy[h][f] = published[f]
       /\ handler[h] = "wait" => uncopied[h] = Field

IInv == TypeOK /\ Guarded

-----------------------------------------------------------------------------

\* Two snapshots that agree in every field are the same.
LEMMA SnapshotEquality ==
  ASSUME NEW s \in Snapshot, NEW u \in Snapshot, \A f \in Field : s[f] = u[f]
  PROVE  s = u
BY DEF Snapshot, Field

\* A snapshot with one field taken from another is a snapshot.
LEMMA FieldUpdate ==
  ASSUME NEW s \in Snapshot, NEW u \in Snapshot, NEW f \in Field
  PROVE  /\ [s EXCEPT ![f] = u[f]] \in Snapshot
         /\ [s EXCEPT ![f] = u[f]][f] = u[f]
         /\ \A g \in Field \ {f} : [s EXCEPT ![f] = u[f]][g] = s[g]
BY DEF Snapshot, Field

\* Nothing is published before the first tick.
LEMMA NoSnapshotType == NoSnapshot \in Snapshot
BY LevelAssumption, FragAssumption DEF NoSnapshot, Snapshot

\* The monitor of a new process is well typed.
LEMMA FragEmptyType == 0 \in 0 .. MaxCount /\ 0 \in Frag
BY FragAssumption, MaxCountAssumption

LEMMA InitInvariant == Init => IInv
<1> SUFFICES ASSUME Init PROVE IInv
  OBVIOUS
<1>1. NoSnapshot \in Snapshot
  BY NoSnapshotType
<1>2. TypeOK
  BY <1>1, FragEmptyType DEF Init, NoRequest, FragInit, TypeOK, Stages, Field
<1>3. Guarded
  BY DEF Init, NoRequest, Guarded
<1> QED
  BY <1>2, <1>3 DEF IInv

\* A tick leaves the monitor well typed, and what it measured fits a snapshot.
LEMMA FragTickType ==
  ASSUME FragTick, counter \in 0 .. MaxCount, lastFrag \in Frag
  PROVE  /\ counter' \in 0 .. MaxCount /\ lastFrag' \in Frag
         /\ asked' \in BOOLEAN /\ due' \in BOOLEAN
<1>1. PICK woken \in 0 .. MaxCount, missed \in BOOLEAN :
        /\ Count(woken)
        /\ \/ \E h \in Frag : /\ Sample(h, RunQueue(missed))
                             /\ due' = (h > FragThreshold /\ woken = 0 /\ Trough >= 0)
           \/ SampleFails /\ due' = FALSE
  BY DEF FragTick
<1>2. counter' \in 0 .. MaxCount
  BY <1>1, MaxCountAssumption DEF Count
<1> QED
  BY <1>1, <1>2 DEF Sample, SampleFails

\* Every step of the loop, of a client and of a request keeps the invariant.
LEMMA StepInvariant == IInv /\ [Next]_vars => IInv'
<1> SUFFICES ASSUME IInv, [Next]_vars PROVE IInv'
  OBVIOUS
<1>a. TypeOK /\ Guarded
  BY DEF IInv
<1>b. NoSnapshot \in Snapshot
  BY NoSnapshotType
<1>1. CASE Sense
  <2>1. PICK l \in Level : snap' = [level |-> l, frag |-> lastFrag']
    BY <1>1 DEF Sense
  <2>2. /\ counter' \in 0 .. MaxCount /\ lastFrag' \in Frag
        /\ asked' \in BOOLEAN /\ due' \in BOOLEAN
    BY <1>1, <1>a, FragTickType DEF Sense, TypeOK
  <2>3. snap' \in Snapshot
    BY <2>1, <2>2 DEF Snapshot
  <2>4. TypeOK'
    BY <1>1, <1>a, <2>2, <2>3 DEF Sense, TypeOK, Stages, requestVars
  <2>5. Guarded'
    BY <1>1, <1>a DEF Sense, Guarded, requestVars
  <2> QED  BY <2>4, <2>5 DEF IInv
<1>2. CASE Lock
  <2>1. TypeOK'
    BY <1>2, <1>a DEF Lock, Readers, TypeOK, Stages, requestVars, fragVars
  <2>2. Guarded'
    BY <1>2, <1>a DEF Lock, Readers, Guarded, requestVars
  <2> QED  BY <2>1, <2>2 DEF IInv
<1>3. ASSUME NEW f \in Field, Write(f) PROVE IInv'
  <2>1. state \in Snapshot /\ snap \in Snapshot
    BY <1>a DEF TypeOK
  <2>2. /\ state' \in Snapshot
        /\ state'[f] = snap[f]
        /\ \A g \in Field \ {f} : state'[g] = state[g]
    <3>1. state' = [state EXCEPT ![f] = snap[f]]
      BY <1>3 DEF Write
    <3>2. /\ [state EXCEPT ![f] = snap[f]] \in Snapshot
          /\ [state EXCEPT ![f] = snap[f]][f] = snap[f]
          /\ \A g \in Field \ {f} : [state EXCEPT ![f] = snap[f]][g] = state[g]
      BY <2>1, FieldUpdate
    <3> QED  BY <3>1, <3>2
  <2>3. TypeOK'
    BY <1>3, <1>a, <2>2 DEF Write, TypeOK, requestVars, fragVars
  <2>4. Guarded'
    BY <1>3, <1>a, <2>2 DEF Write, TypeOK, Guarded, requestVars
  <2> QED  BY <2>3, <2>4 DEF IInv
<1>4. CASE Unlock
  <2>1. \A f \in Field : state[f] = snap[f]
    BY <1>4, <1>a DEF Unlock, Guarded
  <2>2. state = snap
    BY <2>1, <1>a, SnapshotEquality DEF TypeOK
  <2>3. TypeOK'
    BY <1>4, <1>a DEF Unlock, TypeOK, Stages, fragVars
  <2>4. Guarded'
    BY <1>4, <1>a, <2>2 DEF Unlock, Guarded, TypeOK
  <2> QED  BY <2>3, <2>4 DEF IInv
<1>5. CASE React \/ Signal \/ Stop \/ Drained \/ Deadline
  <2>1. TypeOK'
    BY <1>5, <1>a
    DEF React, Signal, Stop, Drained, Deadline, AllIdle, TypeOK, Stages, requestVars, fragVars
  <2>2. Guarded'
    BY <1>5, <1>a DEF React, Signal, Stop, Drained, Deadline, Guarded, TypeOK, requestVars
  <2> QED  BY <2>1, <2>2 DEF IInv
<1>6. CASE Restore
  <2>1. TypeOK'
    BY <1>6, <1>a, <1>b DEF Restore, TypeOK, Stages, fragVars
  <2>2. Guarded'
    BY <1>6, <1>a DEF Restore, Guarded
  <2> QED  BY <2>1, <2>2 DEF IInv
<1>7. CASE Start
  <2>1. TypeOK'
    BY <1>7, <1>a, <1>b, FragEmptyType DEF Start, FragRestart, TypeOK, Stages, requestVars
  <2>2. Guarded'
    BY <1>7, <1>a DEF Start, Guarded, requestVars
  <2> QED  BY <2>1, <2>2 DEF IInv
<1>8. ASSUME NEW h \in Handler, Ask(h) PROVE IInv'
  <2>1. TypeOK'
    BY <1>8, <1>a DEF Ask, TypeOK, Stages, loopVars, fragVars
  <2>2. Guarded'
    BY <1>8, <1>a DEF Ask, TypeOK, Guarded, loopVars
  <2> QED  BY <2>1, <2>2 DEF IInv
<1>9. ASSUME NEW h \in Handler, NEW f \in Field, Copy(h, f) PROVE IInv'
  <2>1. copy[h] \in Snapshot /\ state \in Snapshot
    BY <1>a DEF TypeOK
  <2>2. /\ copy' \in [Handler -> Snapshot]
        /\ copy'[h][f] = state[f]
        /\ \A g \in Field \ {f} : copy'[h][g] = copy[h][g]
        /\ \A other \in Handler \ {h} : copy'[other] = copy[other]
    <3>1. copy \in [Handler -> Snapshot]
      BY <1>a DEF TypeOK
    <3>2. copy' = [copy EXCEPT ![h] = [copy[h] EXCEPT ![f] = state[f]]]
      BY <1>9, <3>1 DEF Copy
    <3>3. /\ [copy[h] EXCEPT ![f] = state[f]] \in Snapshot
          /\ [copy[h] EXCEPT ![f] = state[f]][f] = state[f]
          /\ \A g \in Field \ {f} : [copy[h] EXCEPT ![f] = state[f]][g] = copy[h][g]
      BY <2>1, FieldUpdate
    <3> QED  BY <3>1, <3>2, <3>3
  <2>3. state = published
    BY <1>9, <1>a DEF Copy, TypeOK, Guarded
  <2>4. TypeOK'
    BY <1>9, <1>a, <2>2 DEF Copy, TypeOK, loopVars, fragVars
  <2>5. Guarded'
    BY <1>9, <1>a, <2>2, <2>3 DEF Copy, TypeOK, Guarded, loopVars
  <2> QED  BY <2>4, <2>5 DEF IInv
<1>10. ASSUME NEW h \in Handler, Copied(h) \/ Sent(h) PROVE IInv'
  <2>1. TypeOK'
    BY <1>10, <1>a, <1>b DEF Copied, Sent, TypeOK, loopVars, fragVars
  <2>2. Guarded'
    BY <1>10, <1>a DEF Copied, Sent, TypeOK, Guarded, loopVars
  <2> QED  BY <2>1, <2>2 DEF IInv
<1>11. CASE UNCHANGED vars
  BY <1>11, <1>a
  DEF vars, loopVars, requestVars, fragVars, IInv, TypeOK, Guarded
<1> QED
  BY <1>1, <1>2, <1>3, <1>4, <1>5, <1>6, <1>7, <1>8, <1>9, <1>10, <1>11
  DEF Next, LoopStep, GetStep

\* Behind the lock everything is what it seems, whoever holds it.
THEOREM TelemetryInvariant == Spec => []IInv
<1>1. Init => IInv
  BY InitInvariant
<1>2. IInv /\ [Next]_vars => IInv'
  BY StepInvariant
<1> QED
  BY <1>1, <1>2, PTL DEF Spec

\* The snapshot, the loop and the requests are well typed, and the main loop
\* and a request never hold the lock together.
THEOREM TypeTheorem == Spec => []TypeOK
<1>1. IInv => TypeOK
  BY DEF IInv
<1> QED
  BY <1>1, TelemetryInvariant, PTL

-----------------------------------------------------------------------------
(* The refinement.                                                         *)

\* A step of the server is a step of the register, or leaves it alone.
LEMMA RegisterStep ==
  ASSUME IInv, [Next]_vars
  PROVE  [Register!Next]_<<published, Seen>>
<1>a. TypeOK /\ Guarded
  BY DEF IInv
<1>1. CASE \/ Sense \/ Lock \/ React \/ Signal \/ Stop \/ Drained \/ Deadline \/ Start
           \/ \E f \in Field : Write(f)
  BY <1>1
  DEF Sense, Lock, React, Signal, Stop, Drained, Deadline, Start, Write, Seen, requestVars
<1>2. CASE Unlock
  <2>1. Seen' = Seen
    BY <1>2, <1>a DEF Unlock, TypeOK, Seen
  <2>2. Register!Publish(snap)
    BY <1>2, <2>1 DEF Unlock, Register!Publish
  <2> QED  BY <2>2, <1>a DEF Register!Next, TypeOK
<1>3. CASE Restore
  <2>1. Register!Vanish
    BY <1>3 DEF Restore, Seen, Register!Vanish, Register!Idle
  <2> QED  BY <2>1 DEF Register!Next
<1>4. ASSUME NEW h \in Handler, Ask(h) PROVE Register!Ask(h)
  BY <1>4, <1>a DEF Ask, Seen, TypeOK, loopVars, Register!Ask, Register!Idle, Register!Asked
<1>5. ASSUME NEW h \in Handler, NEW f \in Field, Copy(h, f) PROVE UNCHANGED <<published, Seen>>
  BY <1>5, <1>a DEF Copy, Seen, TypeOK, loopVars
<1>6. ASSUME NEW h \in Handler, Copied(h) PROVE Register!Answer(h)
  <2>1. copy[h] = published
    BY <1>6, <1>a, SnapshotEquality DEF Copied, TypeOK, Guarded
  <2> QED
    BY <1>6, <1>a, <2>1
    DEF Copied, Seen, TypeOK, loopVars, Register!Answer, Register!Asked, Register!Answered
<1>7. ASSUME NEW h \in Handler, Sent(h) PROVE Register!Sent(h)
  BY <1>7, <1>a DEF Sent, Seen, TypeOK, loopVars, Register!Sent, Register!Idle
<1>8. CASE UNCHANGED vars
  BY <1>8 DEF vars, Seen, loopVars, requestVars
<1> QED
  BY <1>1, <1>2, <1>3, <1>4, <1>5, <1>6, <1>7, <1>8
  DEF Next, LoopStep, GetStep, Register!Next

\* The snapshot under its lock is an atomic register: whatever requests overlap
\* with whatever writes, each gets one snapshot that was published while it
\* asked, for any number of requests.
THEOREM RegisterRefinement == Spec => ImplementsRegister
<1>1. Init => Register!Empty
  BY DEF Init, NoRequest, Seen, Register!Empty, Register!Idle
<1>2. IInv /\ [Next]_vars => [Register!Next]_<<published, Seen>>
  BY RegisterStep
<1> QED
  BY <1>1, <1>2, TelemetryInvariant, PTL DEF Spec, ImplementsRegister, Register!Spec

=============================================================================
