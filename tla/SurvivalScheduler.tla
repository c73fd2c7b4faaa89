--------------------------- MODULE SurvivalScheduler ---------------------------
(***************************************************************************)
(* The scheduler that replaces the kernel's own while the survival link is *)
(* open (internal/bpf/survival_scheduler.c).  Tasks that can run wait in a *)
(* queue that all CPUs consume; the offender named in the control map is   *)
(* dropped as long as starvation is on.                                    *)
(*                                                                         *)
(* The two entries of the control map are written one at a time, by        *)
(* whoever holds the map.  No Go code of the repository writes them, so a  *)
(* control map that stays empty is one of the behaviours, not the only.    *)
(*                                                                         *)
(* The kernel's part: a task that is preempted or wakes up is handed to    *)
(* enqueue; a CPU whose slice ends, whose task blocks, or that is idle and *)
(* is kicked because a task that was last on it wakes up, calls dispatch.  *)
(* An idle CPU that nobody kicks need not look.  A task that is dropped    *)
(* stays out until the scheduler is gone.                                  *)
(***************************************************************************)
EXTENDS Integers, SequencesExt

CONSTANTS
  CPUs,           \* the CPUs of the node
  Task,
  NoTask,
  Suspect         \* the tasks the control map may come to name

ASSUME TaskAssumption ==
  IsFiniteSet(Task) /\ NoTask \notin Task /\ Suspect \subseteq Task

VARIABLES
  scx,            \* the scheduler is in force
  offender,       \* hosa_sched_ctrl[0], or NoTask for zero
  starving,       \* hosa_sched_ctrl[1] is not zero
  dsq,            \* the tasks in each dispatch queue
  running,        \* the task on each CPU
  asleep,         \* the tasks that do not want to run
  allowed,        \* the CPUs the kernel lets each task run on
  kicked          \* the CPUs that have a reason to call dispatch

ctrlVars == <<offender, starving>>
placeVars == <<dsq, running, asleep, kicked>>
schedVars == <<scx, ctrlVars, placeVars, allowed>>

Queue == {"global", "vital"}
EmptyQueues == [q \in Queue |-> <<>>]
NoneRunning == [c \in CPUs |-> NoTask]

SchedInit ==
  /\ scx = FALSE
  /\ offender = NoTask
  /\ starving = FALSE
  /\ dsq = EmptyQueues
  /\ running = NoneRunning
  /\ asleep \in SUBSET Task
  /\ kicked = {}
  /\ allowed = [t \in Task |-> CPUs]

-----------------------------------------------------------------------------

\* Slip: every task that is not the offender is vital.
RoleVital(t) == IF t = offender THEN "offender" ELSE "vital"

\* task_role: no task is ever vital.
Role(t) == IF t = offender THEN "offender" ELSE "normal"

\* Slip: the offender falls through to the global queue.
EnqueueFallsThrough(queues, t) ==
  IF starving /\ Role(t) = "vital"
    THEN [queues EXCEPT !["vital"] = Append(@, t)]
    ELSE [queues EXCEPT !["global"] = Append(@, t)]

\* hosa_enqueue.
Enqueue(queues, t) ==
  IF starving /\ Role(t) = "offender"
    THEN queues
    ELSE [queues EXCEPT ![IF starving /\ Role(t) = "vital" THEN "vital" ELSE "global"] =
            Append(@, t)]

\* The positions of the tasks in a queue that CPU c can consume.
Eligible(q, c) == {i \in DOMAIN dsq[q] : c \in allowed[dsq[q][i]]}

\* hosa_dispatch: the queue that CPU c consumes, the vital one first.
Consumable(c) ==
  IF starving /\ Eligible("vital", c) # {} THEN {"vital"}
  ELSE {q \in {"global"} : Eligible(q, c) # {}}

\* The task whose slice is over goes to enqueue.
Requeue(queues, prev) == IF prev = NoTask THEN queues ELSE Enqueue(queues, prev)

\* CPU c needs a task: it takes the first it can, and the one before goes to
\* enqueue; if there is none, the one before runs on.
Dispatch(c) ==
  /\ scx
  /\ kicked' = kicked \ {c}
  /\ \/ \E q \in Consumable(c) :
          \E i \in {Min(Eligible(q, c))} :
             /\ running' = [running EXCEPT ![c] = dsq[q][i]]
             /\ dsq' = Requeue([dsq EXCEPT ![q] = RemoveAt(@, i)], running[c])
     \/ Consumable(c) = {} /\ UNCHANGED <<dsq, running>>
  /\ UNCHANGED <<scx, ctrlVars, asleep, allowed>>

\* The task on CPU c has nothing more to do.
Block(c) ==
  /\ running[c] # NoTask
  /\ asleep' = asleep \cup {running[c]}
  /\ running' = [running EXCEPT ![c] = NoTask]
  /\ kicked' = kicked \cup {c}
  /\ UNCHANGED <<scx, ctrlVars, dsq, allowed>>

\* hosa_select_cpu gives back the CPU t was last on, whether it is idle or not.
Wake(t, last) ==
  /\ t \in asleep
  /\ last \in allowed[t]
  /\ asleep' = asleep \ {t}
  /\ IF scx
       THEN dsq' = Enqueue(dsq, t) /\ kicked' = kicked \cup {last}
       ELSE UNCHANGED <<dsq, kicked>>
  /\ UNCHANGED <<scx, ctrlVars, running, allowed>>

\* Someone writes one entry of the control map.
WriteControl ==
  /\ scx
  /\ \/ offender' \in Suspect \cup {NoTask} /\ UNCHANGED starving
     \/ starving' \in BOOLEAN /\ UNCHANGED offender
  /\ UNCHANGED <<scx, placeVars, allowed>>

\* The link is created: the control map is new, and every task that can run is
\* handed to enqueue.
Attach ==
  /\ ~scx
  /\ scx' = TRUE
  /\ \E order \in SetToSeqs(Task \ asleep) : dsq' = [dsq EXCEPT !["global"] = order]
  /\ kicked' = CPUs
  /\ UNCHANGED <<ctrlVars, running, asleep>>

\* The link is closed, or the kernel throws the scheduler out: the regular one
\* has every task again.
Detach ==
  /\ scx' = FALSE
  /\ offender' = NoTask
  /\ starving' = FALSE
  /\ dsq' = EmptyQueues
  /\ running' = NoneRunning
  /\ kicked' = {}
  /\ UNCHANGED asleep

-----------------------------------------------------------------------------

Queued(t) == \E q \in Queue : Contains(dsq[q], t)
Running(t) == \E c \in CPUs : running[c] = t

\* The CPUs that will call dispatch.
Due(c) == running[c] # NoTask \/ c \in kicked

=============================================================================
