------------------------------- MODULE Scheduler -------------------------------
(***************************************************************************)
(* The queue and the worker slots of src/src/core/coordinator.ts over      *)
(* several tasks: #kick, the part of #run that is not #execute, and what   *)
(* the store says of each task.  TaskExecution describes one #execute from *)
(* inside; here a run is seen by when it starts its worker, settles its    *)
(* task and leaves.                                                        *)
(*                                                                         *)
(* #kick is not called under the admission lock.  It starts a pump unless  *)
(* one is there already; the pump waits for the lock, fills the free slots *)
(* and clears itself only in a later continuation, so a kick in between is *)
(* swallowed.  Where the code kicks in the continuation that follows a     *)
(* change, the change and the kick are one step here.                      *)
(***************************************************************************)
EXTENDS Naturals, FiniteSets, SequencesExt

CONSTANTS
  Tasks,          \* task ids
  Keys,           \* request keys
  Intents,        \* the material intents clients submit under them
  NoKey,
  NoIntent,
  MaxWorkers      \* policy.max_workers

VARIABLES
  task,           \* the durable request and control of each task
  frozen,         \* the store's freeze, and the coordinator's
  started,        \* history: the tasks whose worker was ever started
  queue,          \* #queue
  stage,          \* the stage of each entry of #entries; "none" without one
  aborted,        \* entries whose controller is aborted
  active,         \* #active
  pump,           \* #pump: absent, waiting for the lock, or settling
  lock            \* is the admission lock held across an await

diskVars == <<task, frozen, started>>
queueVars == <<queue, stage, aborted, active, pump>>

Forms == {"none", "plain", "coordinated"}
Phases == {"none", "queued", "running", "stopping", "attention", "terminal"}

\* native: the native state is no longer not_started; recovered: the attention
\* text of a recovered queue entry; link: coordination-link.json exists.
Task == [form : Forms, key : Keys \cup {NoKey}, intent : Intents \cup {NoIntent},
         phase : Phases, native : BOOLEAN, cancel : BOOLEAN,
         recovered : BOOLEAN, link : BOOLEAN]

NoTask == [form |-> "none", key |-> NoKey, intent |-> NoIntent, phase |-> "none",
           native |-> FALSE, cancel |-> FALSE, recovered |-> FALSE, link |-> FALSE]

NewTask(form, k, i) == [NoTask EXCEPT !.form = form, !.key = k, !.intent = i,
                                      !.phase = "queued"]

OnDisk(t) == task[t].form # "none"
Unsettled(t) == OnDisk(t) /\ task[t].phase # "terminal"
NeverStarted(t) == Unsettled(t) /\ ~task[t].native
Entries == {t \in Tasks : stage[t] # "none"}
Queued(t) == stage[t] = "queued"
Running == {t \in Tasks : stage[t] \in {"running", "settling"}}

SchedulerTypeOK ==
  /\ task \in [Tasks -> Task]
  /\ frozen \in BOOLEAN
  /\ started \in SUBSET Tasks
  /\ queue \in Seq(Tasks)
  /\ ToSet(queue) = {t \in Tasks : Queued(t)}
  /\ stage \in [Tasks -> {"none", "queued", "running", "settling"}]
  /\ aborted \in SUBSET Tasks
  /\ active \in Nat
  /\ pump \in {"none", "pending", "ran"}
  /\ lock \in BOOLEAN

SchedulerInit ==
  /\ task = [t \in Tasks |-> NoTask]
  /\ frozen = FALSE
  /\ started = {}
  /\ queue = <<>>
  /\ stage = [t \in Tasks |-> "none"]
  /\ aborted = {}
  /\ active = 0
  /\ pump = "none"
  /\ lock = FALSE

-----------------------------------------------------------------------------

Kick == pump' = IF pump = "none" THEN "pending" ELSE pump

Push(t) ==
  /\ queue' = Append(queue, t)
  /\ stage' = [stage EXCEPT ![t] = "queued"]

\* What is in the queue and could leave it now.
Startable ==
  \/ \E t \in ToSet(queue) : t \in aborted
  \/ ~frozen /\ queue # <<>> /\ active < MaxWorkers

\* #queue without the entries that are aborted, in its order.
Waiting ==
  {w \in SetToSeqs(ToSet(queue) \ aborted) :
     \A i, j \in DOMAIN queue, m, n \in DOMAIN w :
       queue[i] = w[m] /\ queue[j] = w[n] /\ i < j => m < n}

\* The pump under the lock: aborted entries run without a slot, to be settled;
\* the others in order while there are slots and nothing is frozen.
Pump ==
  /\ pump = "pending"
  /\ ~lock
  /\ \E waiting \in Waiting :
       LET free == IF frozen \/ active >= MaxWorkers THEN 0 ELSE MaxWorkers - active
           slots == Min({free, Len(waiting)})
           starting == SubSeq(waiting, 1, slots)
       IN /\ queue' = SubSeq(waiting, slots + 1, Len(waiting))
          /\ stage' = [t \in Tasks |->
                         IF t \in ToSet(starting) THEN "running"
                         ELSE IF Queued(t) /\ t \in aborted THEN "settling" ELSE stage[t]]
          /\ active' = active + Cardinality(ToSet(starting))
  /\ pump' = "ran"
  /\ UNCHANGED <<diskVars, aborted, lock>>

\* MUTANT: the pump clears itself and does not look again.
PumpClearedOnly ==
  /\ pump = "ran"
  /\ pump' = "none"
  /\ UNCHANGED <<diskVars, queue, stage, aborted, active, lock>>

\* Its finally: #pump is cleared, and kicked again if there is still work.
PumpCleared ==
  /\ pump = "ran"
  /\ pump' = IF Startable THEN "pending" ELSE "none"
  /\ UNCHANGED <<diskVars, queue, stage, aborted, active, lock>>

\* #execute commits the start after it looked for a cancellation once more.
StartWorker(t) ==
  /\ stage[t] = "running"
  /\ t \notin aborted
  /\ task[t].phase = "queued" /\ ~task[t].cancel
  /\ task' = [task EXCEPT ![t].phase = "running", ![t].native = TRUE]
  /\ started' = started \cup {t}
  /\ UNCHANGED <<frozen, queueVars, lock>>

\* #execute writes the result and makes the task terminal.
SettleRun(t) ==
  /\ t \in Running
  /\ task[t].phase \in {"queued", "running", "stopping"}
  /\ task' = [task EXCEPT ![t].phase = "terminal"]
  /\ UNCHANGED <<frozen, started, queueVars, lock>>

\* A run whose native evidence stays uncertain freezes the repository.
FreezeRun(t) ==
  /\ t \in Running
  /\ task[t].phase \in {"running", "stopping"} /\ task[t].native
  /\ task' = [task EXCEPT ![t].phase = "attention"]
  /\ frozen' = TRUE
  /\ UNCHANGED <<started, queueVars, lock>>

\* MUTANT: the slot is given back by entries that never had one.
LeaveRunAlwaysCounted(t) ==
  /\ t \in Running
  /\ task[t].phase \in {"terminal", "attention"}
  /\ ~lock
  /\ stage' = [stage EXCEPT ![t] = "none"]
  /\ active' = IF active > 0 THEN active - 1 ELSE 0
  /\ aborted' = aborted \ {t}
  /\ Kick
  /\ UNCHANGED <<diskVars, queue, lock>>

\* The finally of #run: the entry and its slot are given back, then a kick.
LeaveRun(t) ==
  /\ t \in Running
  /\ task[t].phase \in {"terminal", "attention"}
  /\ ~lock
  /\ stage' = [stage EXCEPT ![t] = "none"]
  /\ active' = IF stage[t] = "running" THEN active - 1 ELSE active
  /\ aborted' = aborted \ {t}
  /\ Kick
  /\ UNCHANGED <<diskVars, queue, lock>>

-----------------------------------------------------------------------------
(* dispatchCommittedCancellation, once the cancellation is durable. *)

\* The entry is looked up under the lock; its abort drops it from the queue.
AbortEntry(t) ==
  /\ ~lock
  /\ stage[t] # "none"
  /\ aborted' = aborted \cup {t}
  /\ Kick
  /\ UNCHANGED <<diskVars, queue, stage, active, lock>>

\* Without an entry a never-started task is settled here: a recovered plain
\* task, or a coordinated one whose link is settled.  A cancellation that comes
\* before the link is retained for the link's own settlement.
CancelledAlone(t) ==
  task' = [task EXCEPT ![t].phase =
    IF ~(task[t].cancel /\ NeverStarted(t)) THEN @
    ELSE IF task[t].form = "plain" THEN IF task[t].recovered THEN "terminal" ELSE @
    ELSE IF task[t].link THEN "terminal" ELSE "attention"]
=============================================================================
