------------------------------- MODULE Telemetry -------------------------------
(***************************************************************************)
(* The snapshot between the main loop and the HTTP handlers (internal/     *)
(* telemetry/state.go, server.go, and the loop of cmd/hosa/main.go): the   *)
(* loop writes it once per tick, every request copies it, each in a        *)
(* goroutine of its own, under a sync.RWMutex.  On a signal the loop shuts *)
(* the server down, waits for the requests under way at most until a       *)
(* deadline, restores the system and ends.                                 *)
(*                                                                         *)
(* A struct is not copied in one step: it is written and read field by     *)
(* field, in any order.  Two fields stand for the six of Snapshot.  The    *)
(* state vector is a reference, but to a copy that nothing writes again,   *)
(* so it behaves as its value.                                             *)
(*                                                                         *)
(* The lock is that of Go: a writer that waits keeps new readers out, and  *)
(* when it unlocks, the readers that wait for it get the lock first.       *)
(***************************************************************************)
EXTENDS FragmentationMonitor

CONSTANTS
  Handler,        \* requests the server can have under way at a time
  Level           \* the alert levels

Snapshot == [level : Level, frag : Frag]
Field == {"level", "frag"}

ASSUME LevelAssumption == 0 \in Level
NoSnapshot == [level |-> 0, frag |-> 0]

VARIABLES
  loop,           \* where the main loop is
  signalled,      \* SIGINT or SIGTERM has arrived
  serving,        \* the listener is open
  state,          \* telState.s
  snap,           \* the loop's snapshot of this tick
  unwritten,      \* the fields of it that are not yet written
  handler,        \* where each request is
  copy,           \* what it has copied of the snapshot
  uncopied,       \* the fields it has not copied yet
  published       \* history: the last snapshot that was written completely

loopVars == <<loop, signalled, serving, snap, unwritten, published>>
requestVars == <<handler, copy, uncopied>>
vars == <<loopVars, state, requestVars, fragVars>>

NoRequest ==
  /\ handler = [h \in Handler |-> "idle"]
  /\ copy = [h \in Handler |-> NoSnapshot]
  /\ uncopied = [h \in Handler |-> {}]

\* The address may be unset, or already in use: the agent runs without a server.
Init ==
  /\ loop = "wait"
  /\ signalled = FALSE
  /\ serving \in BOOLEAN
  /\ state = NoSnapshot
  /\ snap = NoSnapshot
  /\ unwritten = {}
  /\ published = NoSnapshot
  /\ NoRequest
  /\ FragInit

-----------------------------------------------------------------------------
(* The main loop.                                                          *)

\* The timer fires: read, analyse, sample, and build the snapshot.
Sense ==
  /\ loop = "wait"
  /\ loop' = "lock"
  /\ FragTick
  /\ \E l \in Level : snap' = [level |-> l, frag |-> lastFrag']
  /\ UNCHANGED <<signalled, serving, unwritten, published, state, requestVars>>

\* Slip: a request keeps the lock until its client has the answer.
ReadersSlow == {h \in Handler : handler[h] \in {"copy", "send"}}

\* Slip: Get does not lock.
ReadersUnlocked == {}

\* The requests that hold the lock.
Readers == {h \in Handler : handler[h] = "copy"}

\* Set gets the lock once no request holds it.
Lock ==
  /\ loop = "lock"
  /\ Readers = {}
  /\ loop' = "write"
  /\ unwritten' = Field
  /\ UNCHANGED <<signalled, serving, snap, published, state, requestVars, fragVars>>

Write(f) ==
  /\ loop = "write"
  /\ f \in unwritten
  /\ state' = [state EXCEPT ![f] = snap[f]]
  /\ unwritten' = unwritten \ {f}
  /\ UNCHANGED <<loop, signalled, serving, snap, published, requestVars, fragVars>>

\* Set unlocks; the requests that waited for it hold the lock now.
Unlock ==
  /\ loop = "write"
  /\ unwritten = {}
  /\ loop' = "react"
  /\ published' = snap
  /\ handler' = [h \in Handler |-> IF handler[h] = "wait" THEN "copy" ELSE handler[h]]
  /\ UNCHANGED <<signalled, serving, snap, unwritten, state, copy, uncopied, fragVars>>

\* The motors act; back at the select, a signal that came meanwhile is ready and
\* the new timer is not.
React ==
  /\ loop = "react"
  /\ loop' = IF signalled THEN "stop" ELSE "wait"
  /\ UNCHANGED <<signalled, serving, snap, unwritten, published, state, requestVars, fragVars>>

Signal ==
  /\ loop # "ended"
  /\ ~signalled
  /\ signalled' = TRUE
  /\ loop' = IF loop = "wait" THEN "stop" ELSE loop
  /\ UNCHANGED <<serving, snap, unwritten, published, state, requestVars, fragVars>>

\* Shutdown closes the listener.
Stop ==
  /\ loop = "stop"
  /\ loop' = "drain"
  /\ serving' = FALSE
  /\ UNCHANGED <<signalled, snap, unwritten, published, state, requestVars, fragVars>>

AllIdle == \A h \in Handler : handler[h] = "idle"

\* Shutdown returns once no request is under way.
Drained ==
  /\ loop = "drain"
  /\ AllIdle
  /\ loop' = "restore"
  /\ UNCHANGED <<signalled, serving, snap, unwritten, published, state, requestVars, fragVars>>

\* Slip: Shutdown is given a context that never expires.
NoDeadline ==
  /\ loop = "expired"
  /\ UNCHANGED vars

\* The deadline passes while some request is still under way.
Deadline ==
  /\ loop = "drain"
  /\ ~AllIdle
  /\ loop' = "restore"
  /\ UNCHANGED <<signalled, serving, snap, unwritten, published, state, requestVars, fragVars>>

\* The motors are released and the process ends; requests are cut.
Restore ==
  /\ loop = "restore"
  /\ loop' = "ended"
  /\ handler' = [h \in Handler |-> "idle"]
  /\ copy' = [h \in Handler |-> NoSnapshot]
  /\ uncopied' = [h \in Handler |-> {}]
  /\ state' = NoSnapshot
  /\ published' = NoSnapshot
  /\ UNCHANGED <<signalled, serving, snap, unwritten, fragVars>>

Start ==
  /\ loop = "ended"
  /\ loop' = "wait"
  /\ signalled' = FALSE
  /\ serving' \in BOOLEAN
  /\ snap' = NoSnapshot
  /\ FragRestart
  /\ UNCHANGED <<unwritten, published, state, requestVars>>

-----------------------------------------------------------------------------
(* A request.                                                              *)

\* Slip: the lock does not keep new readers out of a write.
AskIgnoringWriter(h) ==
  /\ serving
  /\ handler[h] = "idle"
  /\ handler' = [handler EXCEPT ![h] = "copy"]
  /\ uncopied' = [uncopied EXCEPT ![h] = Field]
  /\ UNCHANGED <<loopVars, state, copy, fragVars>>

\* A client asks; Get gets the lock unless Set holds it or waits for it.
Ask(h) ==
  /\ serving
  /\ handler[h] = "idle"
  /\ handler' = [handler EXCEPT ![h] = IF loop \in {"lock", "write"} THEN "wait" ELSE "copy"]
  /\ uncopied' = [uncopied EXCEPT ![h] = Field]
  /\ UNCHANGED <<loopVars, state, copy, fragVars>>

Copy(h, f) ==
  /\ handler[h] = "copy"
  /\ f \in uncopied[h]
  /\ copy' = [copy EXCEPT ![h][f] = state[f]]
  /\ uncopied' = [uncopied EXCEPT ![h] = @ \ {f}]
  /\ UNCHANGED <<loopVars, state, handler, fragVars>>

\* Get unlocks; what follows works on the copy.
Copied(h) ==
  /\ handler[h] = "copy"
  /\ uncopied[h] = {}
  /\ handler' = [handler EXCEPT ![h] = "send"]
  /\ UNCHANGED <<loopVars, state, copy, uncopied, fragVars>>

\* The client has the answer, or is gone.
Sent(h) ==
  /\ handler[h] = "send"
  /\ handler' = [handler EXCEPT ![h] = "idle"]
  /\ copy' = [copy EXCEPT ![h] = NoSnapshot]
  /\ UNCHANGED <<loopVars, state, uncopied, fragVars>>

-----------------------------------------------------------------------------

LoopStep ==
  \/ Lock \/ Unlock \/ React \/ Stop \/ Drained \/ Deadline \/ Restore
  \/ \E f \in Field : Write(f)

GetStep(h) == Copied(h) \/ \E f \in Field : Copy(h, f)

Next ==
  \/ LoopStep
  \/ Sense \/ Signal \/ Start
  \/ \E h \in Handler : Ask(h) \/ GetStep(h) \/ Sent(h)

\* Goroutines that can run do run, and the deadline passes.  Nothing is assumed
\* of the clients: one may take for ever to receive its answer.
Fairness == WF_vars(LoopStep) /\ \A h \in Handler : WF_vars(GetStep(h))

Spec == Init /\ [][Next]_vars /\ Fairness

-----------------------------------------------------------------------------
(* Properties.                                                             *)

Stages == {"wait", "lock", "write", "react", "stop", "drain", "restore", "ended"}

\* Types; fields are left to write only under the lock, a request waits only for
\* a writer, and writer and readers never hold the lock together.
TypeOK ==
  /\ loop \in Stages /\ signalled \in BOOLEAN /\ serving \in BOOLEAN
  /\ {state, snap, published} \subseteq Snapshot
  /\ unwritten \subseteq Field /\ (unwritten # {} => loop = "write")
  /\ handler \in [Handler -> {"idle", "wait", "copy", "send"}]
  /\ copy \in [Handler -> Snapshot]
  /\ uncopied \in [Handler -> SUBSET Field]
  /\ \A h \in Handler : handler[h] = "wait" => loop \in {"lock", "write"}
  /\ loop = "write" => \A h \in Handler : handler[h] # "copy"
  /\ counter \in 0 .. MaxCount /\ lastFrag \in Frag /\ {asked, due} \subseteq BOOLEAN

\* What a client can tell of its request.
Seen ==
  [h \in Handler |->
     [stage |-> CASE handler[h] = "idle" -> "idle"
                  [] handler[h] = "send" -> "answered"
                  [] OTHER -> "asked",
      answer |-> IF handler[h] = "send" THEN copy[h] ELSE NoSnapshot]]

Register == INSTANCE SnapshotRegister WITH current <- published, request <- Seen

\* state.go:20, AtomicState: a request gets one snapshot, the one in force at a
\* moment while it was asking, whatever loop and other requests do meanwhile.
ImplementsRegister == Register!Spec

\* The reflex arc does not wait for clients: once the loop asks for the lock it
\* gets on to the motors, even if no client ever takes its answer and new
\* requests keep coming.
LoopNeverBlocked == loop = "lock" ~> loop = "react"

\* main.go:165: a signal leads to the restoration of the system, although
\* requests under way may never end.
StopReachesRestore == signalled ~> loop = "ended"

-----------------------------------------------------------------------------
(* What the documentation says of the monitor, and the code does not do.   *)

\* README.md:120, "Performs micro-dosed preemptive compaction during CPU
\* troughs": a tick in which no task was woken, and which sees fragmentation
\* above the threshold, asks for a compaction.
CompactsInTroughs == due => asked

=============================================================================
