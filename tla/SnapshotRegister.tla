--------------------------- MODULE SnapshotRegister ---------------------------
(***************************************************************************)
(* What the telemetry server promises: an atomic register.  The main loop  *)
(* publishes one snapshot at a time; a request is answered with the one    *)
(* snapshot that is published at some moment between its arrival and its   *)
(* answer, never with parts of two.                                        *)
(***************************************************************************)
CONSTANTS Handler, Snapshot, NoSnapshot

VARIABLES
  current,        \* the snapshot published last
  request         \* per handler: idle, asked, or answered with a snapshot

Idle == [stage |-> "idle", answer |-> NoSnapshot]
Asked == [stage |-> "asked", answer |-> NoSnapshot]
Answered(s) == [stage |-> "answered", answer |-> s]

Empty ==
  /\ current = NoSnapshot
  /\ request = [h \in Handler |-> Idle]

Publish(s) == current' = s /\ UNCHANGED request

Ask(h) ==
  /\ request[h] = Idle
  /\ request' = [request EXCEPT ![h] = Asked]
  /\ UNCHANGED current

Answer(h) ==
  /\ request[h] = Asked
  /\ request' = [request EXCEPT ![h] = Answered(current)]
  /\ UNCHANGED current

Sent(h) ==
  /\ request[h].stage = "answered"
  /\ request' = [request EXCEPT ![h] = Idle]
  /\ UNCHANGED current

\* The process ends: whatever was under way is cut, and its successor has
\* nothing to show yet.
Vanish ==
  /\ current' = NoSnapshot
  /\ request' = [h \in Handler |-> Idle]

Next ==
  \/ \E s \in Snapshot : Publish(s)
  \/ \E h \in Handler : Ask(h) \/ Answer(h) \/ Sent(h)
  \/ Vanish

Spec == Empty /\ [][Next]_<<current, request>>

=============================================================================
