# Passeur: a TLA+ verification development

Passeur lets several front ends hand tasks to coding agents through one shared
service per repository. This directory holds TLA+ modules for the parts of it
whose correctness depends on order: who may write the repository, what a task's
durable record says after any interleaving of clients, worker, crash and
recovery, and when the service may end. Module and definition names follow the
source; paths below are relative to `src/src/`.

## 1. Inventory

| Component | State | Operations | Hard part |
|---|---|---|---|
| Repository lease, `core/lease.ts` | lock file, candidate files, guard file, helper process | acquire, reclaim a dead owner, release, heartbeat | races between reclaimers, inode reuse, death at every step |
| Service, `service/server.ts` | connections, lanes, closing flag, epoch, endpoint descriptor | connect, request, reserve, stop, empty check, drain, publish | check-then-act over awaits; exit exactly when empty |
| Runtime, `core/repository-runtime.ts` | store, active operations, preparations, frozen flag, wakes | prepare, submit, reconcile, stopAdmission, drain, shutdown | admission against drain; a coordinator composed after the drain |
| Coordinator, `core/coordinator.ts` | queue, active runs, request keys, reservations | submit, reserve/commit/settle/activate, kick, run, cancel dispatch, shutdown | queue against cancel, settlement on late evidence, partial failure |
| Task control, `core/task-control.ts` | the durable control record, receipts, waiters, locks | cancel, adopt, release, requestInput, admitCompletion, wait, publication | cancel against completion, idempotent retries |
| Input broker, `core/input-broker.ts` | pending native requests | request, claim, dismiss, answer, withdraw, settleTurn | durable intent before delivery, abort in between |
| Recovery, `core/recovery.ts`, `store/task-store.ts` | records and result files | reconcileStoredTasks, acknowledgeStoppedTask | uncertain runs must not be replayed or closed |
| Request capacity and transport, `service/request-capacity.ts`, `service/transport.ts` | lanes, frames, callbacks | acquire, release, send, consume | limits |
| Election and client, `service/bootstrap.ts`, `service/client.ts` | flock, descriptor, connection | elect, connect, retry | racing starters, stale descriptors |
| Coordination, `coordination/`, `store/coordination-store.ts` | the control record: works, cases, notes (proposals), applications, receipts | register, share, retire, claim, select, propose, acknowledge, withdraw, apply, integrate, release | Git inspection and the file effect of an application happen outside the mutex that orders the record; a publication may have an unknown outcome; receipts run out |
| Observation, `observation/monitor.ts`, `store/observation-store.ts` | watchers, quiet timer, queue and run per workspace; reports, notices and a floor on disk | attach, invalidate, capture, publish, pull, acknowledge, refresh, detach | edits between two generations of watchers; captures overtaken by a change of the work; reports and notices pruned under readers |
| Disposition and workspaces, `core/disposition.ts`, `workspace/` | worktrees | create, inspect, dispose | Git is external |
| Agents, `agents/`, `muse/` | one native session per run | run, cancel, answer | external protocols |
| MCP server, CLI, installer, diagnostics, approvals, contracts | none, or files at install time | | translation only |

**How they interact.** A client connects to the service over a local socket; a
request occupies a lane and calls the runtime. The runtime holds the lease,
owns the store and one coordinator. The coordinator queues a task and, with a
free worker slot, runs an adapter for it. The adapter calls back: events go to
`Coordinator.#event`, requests for input to the broker. Every durable change of
a task goes through `TaskControls` under the task's lock, and what it publishes
is what recovery finds after a crash. When a task settles, the coordinator
tells the runtime and the runtime tells the service, which checks whether it is
empty and may end.

**What makes each correct.** Lease: at most one holder, and nobody removes a
living holder's lock (the code keeps this as long as no file number is reused
under a reclaimer, see section 3). Service: it never exits with clients or work,
begins no admission after draining, a stop ends it, an idle service ends. Task: a durable
cancel is never followed by a completed result, every terminal task has one
result that agrees with its record, nothing is replayed, an uncertain run
freezes the repository, an answer is delivered once at most and only after its
intent is durable, receipts tell the truth to a client that retries.
Coordination: nothing a case has selected is removed, a case whose files are
being written stands still, files are written at most once and only under an
agreement of all members that is still in force, an outcome that is not known is
never given as one, and the lead can always afford the way out. Observation: a
notice has its report, a reader is told of everything or told of a gap, a
refresh is answered from captures taken after it was asked for, and a monitor at
rest has seen the last edit.

## 2. Modules

| Module | Models | Correspondence |
|---|---|---|
| `Lease` | `core/lease.ts` | one process per `acquireRepositoryLease` call; `pc` is where it stands between awaits; `named` is the owner read from the record and not yet asked for; `helper` and `guard` are the reclaim program under flock; `reused` is a history variable: a file number was handed out again under a validation |
| `TaskControl` | `core/task-control.ts` | `control`, `receipts`, `inputs` are the durable record; operators give the record after each operation |
| `InputBroker` | `core/input-broker.ts` | `request` per native request, from reservation to delivery |
| `TaskExecution` | `Coordinator.#execute`, `#event`, `#run`, cancel dispatch, queue, shutdown | `pc` is the await `#execute` stands at, one action for what runs between two awaits |
| `TaskLifecycle` | composition of the three with clients, crash, restart and operator acknowledgement | `Crash` clears what is in memory; `Restart` is `reconcileStoredTasks` |
| `TaskContract` | abstract specification of one task | stop promised, result published once, closed only with its result |
| `Scheduler` | `Coordinator.#kick`, `#run`, the records of several tasks | `queue`, `stage`, `aborted`, `active`, `pump` are the coordinator's fields; a run is seen from outside |
| `LinkRecovery` | `#reconcileStartupCoordinated` and `cancelTask` in `core/repository-runtime.ts` | each loop over `#startupCoordinatedQueue` is a `sweep`; `dispatch` is where a cancellation stands |
| `Admission` | `Coordinator.submit`, `submitCoordinated`, the bindings of `coordination/control.ts`, recovery of several tasks | `op` is the await `submitCoordinated` stands at; `binding` is the metadata store, `task` the task store |
| `AdmissionContract` | abstract specification of admission | a key is given one task and one intent for ever; a task comes from absent over accepted, ready and started to ended, and is never started or ended before it is ready (linked) |
| `Service` | `service/server.ts` and what it calls in the runtime | `request` is the await the request of a client stands at, with `submitCoordinated` by its own stages; `check` is `maybeExit`, `stopper` and `closer` are `beginStop` and `close`; `coordinator`, `reserved` and `subject` are what a stop meets in the runtime |
| `Coordination` | `coordination/control.ts`, `store/coordination-store.ts`, the application of a proposal in `coordination/peer-application.ts` and `core/repository-runtime.ts`, retirements of `core/disposition.ts` | `ledger` is the control record, one action per command under its mutex; `source` is a suspended selection or integration, `app[k]` the await an application stands at, `intent` the task store's peer operation |
| `ObservationStore` | `store/observation-store.ts` | `state` is `state.json`, `files` the report files, `put` the publish in its critical section; `owed` is a history variable: what a reader was neither shown nor warned of |
| `Observation` | `observation/monitor.ts` and `#scheduleObservation`, `structuralRefresh`, `#observation`, `#forgetObservation` of the runtime, over `ObservationStore` | `mon` is the monitor's state of one workspace, `run` the await `#run` stands at, `op` and `waiting` the serialized attachments; the generation and epoch counters are the fields `fate` and `stale`, because they are only compared |
| `MCLease`, `MCTaskLifecycle`, `MCService`, `MCAdmission`, `MCCoordination`, `MCObservation` | instances for TLC | symmetry sets, client-to-owner maps, scenarios |
| `LeaseProofs`, `TaskLifecycleProofs`, `TaskContractProofs`, `TaskRecordProofs`, `AdmissionProofs`, `ServiceProofs`, `CoordinationProofs`, `ObservationProofs` | theorems | see section 5 |

Atomicity follows Node's run to completion: a step is what runs from one await
to the next. Where the code holds a keyed mutex across awaits (a task's lock)
and nothing outside the lock reads what changes inside, the critical section is
one action; where it does not (acknowledgement, result writing, settlement) the
durable writes are separate actions and a crash may fall between any two.

## 3. Runs

| Run | Bounds | Shows |
|---|---|---|
| `lease` | 3 processes, all living or one dead from the start (`Former`), 3 inodes, fair | exclusion with two reclaimers racing while a third holds, starts or has left its lock, until a file number is reused under a validation; the lock always names an owner; the reclaim guard is always given back; three inodes are enough for one to be reused while two are named |
| `task_inputs` | 2 owners with a client each, 3 operation keys, 1 input, 1 crash, 1 turn | record invariants under adopt, cancel, answer, abort, crash and recovery |
| `task_runs` | 2 clients, 2 keys, an operation of the agent, 2 turns, 2 crashes, fair | completion rests on standing evidence; refinement of `TaskContract`; an accepted cancel, but for the one the code loses, and a returned worker are worked off |
| `service` | 2 clients that share all kinds of request and both coordinate, 1 task, 2 connections, failing store, fair | exit only when empty, what a drain leaves open, a stop ends the service, an overtaken check is made again |
| `admission_queue` | 2 keys, 2 tasks, 1 owner, room for one task, failing stores, 1 crash | queue, capacity and link order while both kinds of submission compete |
| `admission_keys` | 1 key, 2 owners, 2 tasks, failing stores, 1 crash | refinement of `AdmissionContract` (one task per key, linked before it starts or ends, never forgotten), agreement of the two stores, cancellations end |
| `admission_retry` | 1 key, 2 intents of one owner, 1 crash | **violated**: see findings |
| `admission_restart` | 1 coordinated submission, 2 crashes | **violated**: see findings |
| `service_idle` | 1 client, 1 task | **violated**: see findings |
| `coordination` | 2 works, 2 cases, 1 note, 2 keys, 13 receipts, 1 trouble | selection against retirement, application against every command that may move its case, receipts at their limit, unknown outcomes |
| `observation` | 2 files in 2 batches, 3 contents, 1 reader, 2 reports, 2 notices, pages of 1, 8 scenarios | pruning, lost outcomes and crashes against readers; edits against captures, watchers, refreshes and changes of the work |
| `observation_pull` | the scenario with readers alone | **violated**: see findings |

Bounds are named constants: `MaxTurns` (native turns of a run), `MaxCrashes`,
`MaxReceipts` of a task (the record's receipt list; the code's limit is larger, the
behaviour at the limit is the same), `MaxPending` (requests waiting for an
answer), `MaxWorkers` and `MaxQueued` (the pool; with room for one task every
second submission meets the limit, and what is only reserved has to count),
`MaxConnects` (connections over the life of a service) and the sets
`Keys`, `Inputs`, `Operations`. `task_runs` has two crashes because the second
meets what the first recovery left; one more repeats it. One input never meets
`MaxPending`; that bound is proved instead (`PendingIsBounded`). `Asks` gives each
client of `Service` its kinds of request: one of them submits plainly and stops,
the other prepares and reconciles. `Keys` is symmetric because keys are only
compared. `CHECK_DEADLOCK FALSE` stands in every configuration because the
modelled systems do stop: a settled task, a dead process, a closed service.

`Coordination`: `MaxReceipts` is `limits.receipts`, which the code never
reclaims; `MaxTroubles` counts service deaths, publications not acknowledged and
moves from outside. So that the limit is met in few steps the run begins late:
`Earlier` receipts are spent, the cases `Started` may be claimed already with
everything selected, the proposals `Agreed` may be acknowledged, and the cases
`Selecting` still select. Each of these is a state the record reaches from empty
by the commands it would take, and since every property of the run is also
proved for all values of these constants, the small instance only has to make
each of its cases happen.

`Observation`: `MaxReports`, `MaxNotices` and `MaxPull` are the code's bounds,
small enough that the second notice meets a page and the third a pruning;
`MaxRevision` bounds publications of the state; `Batches` are the pages of one
analysis after the other. `Budgets` are the scenarios of the world: each says how
many edits, refreshes, changes of the work and troubles (lost outcomes, failed
writes, crashes) there are and whether readers act. Two at a time of these
interfere, all at once only multiply; the sum of the scenarios has every pair
that shares state.

### Fairness

Only continuations are fair: a Node process that is up resumes every await
whose promise is settled (`RunStep`, `CancelStep`, `BrokerStep`, the lease
steps, the service's own steps). What waits for the coordinator's admission
lock is strongly fair: `Mutex` (`core/async.ts:5`) serves in order of arrival,
so a client that keeps asking cannot starve the queue. `Coordination` and
`Observation` state no fairness: their properties are of safety. No client, worker, operator or crash is fair,
with one exception: a worker whose signal was aborted returns, because
the adapters bound their cleanup. The flock helper runs because the kernel runs
it.

### Findings

`service_idle` (property `IdleExits`): when the last task settles with no client
left, `Coordinator.#run` notifies the runtime, whose `onTaskSettled`
(`core/repository-runtime.ts:2285`) first starts tracked work (binding the
terminal case, waking cases) and then asks the service to check. `maybeExit`
(`service/server.ts:65`) sees that work as an obligation and gives up; when the
work ends nobody asks again (`#track`, `core/repository-runtime.ts:445`). The
service stays although it is empty, which `docs/shared-service.md:25` says it
does not.

`admission_retry` (property `OriginalKeyReconciles`): the service dies after the
binding was published and before the task. A submission of other intent by the
same owner under the same key then reserves the binding's task id
(`core/repository-runtime.ts:2473`) before it is compared with the binding
(`:2498`), and the comparison throws where nothing releases the reservation. The
original submission, which `docs/coordination.md:830` says reconciles the crash,
is refused until the service is restarted.

`admission_restart` (property `NeverStartedKept`): a coordinated task found
without its link gets an attention text of its own (`core/recovery.ts:113`). The
new service settles the link and leaves the text; the next start then takes the
task for one that may have run (`:135`), sets its native state to unknown and
freezes the repository. `docs/task-lifecycle.md:33` says never-started work
stays as it is until it is cancelled.

`observation_pull` (property `NothingLost`): `pull` answers with a page of
`OBSERVATION_MAX_PULL` notices (`store/observation-store.ts:181`), but with a
cursor behind all of them (`:191`). When a notice that the page did not hold is
pruned, the next pull compares that cursor with a floor that does not exceed it
and reports no gap. `docs/recovery.md:111` says a notice is repeated until it is
acknowledged and a pruned cursor returns a gap. What does hold, for a notice
that came after the last pull, is `GapTruthful`.

### Known gaps that no run decides

A reclaimer reads the owner from the lock it found (`core/lease.ts:273`) and
asks only after another await whether that process lives (`:275`). If the owner,
alive when it was read, releases and exits in between, and a third process links
a file that was given the same number, then the judgement and the comparison
that follows (`:277`) both pass, and the helper removes the lock of a living
owner: two processes hold the lease. `Lease` has both reads as steps
(`ReadOwner`, `JudgeOwner`), so without `reused` in them `OneHolder` fails after
25 steps and `OwnerKeepsLock` earlier, with three living processes. What is
checked and proved is that nothing else breaks them.

`submitCoordinated` asks whether admission is closed once, on entry
(`core/repository-runtime.ts:2463`), and not again after preparation and
composition as `submit` does (`:2358`). A stop in between finds no coordinator to
close, and `drain` returns at once (`:3210`, `:3211`), though
`docs/shared-service.md:27` says that a stop closes admission and drains. The
coordinator composed afterwards is open; a submission whose key is bound
already needs nothing else and is queued after the drain. In `Service` that
takes 13 steps. `DrainIsFinal` states what is left: no submission begins to be
admitted after the drain, and at most one, coordinated and entered before the
stop, is still on its way. Its entry does not outlive the service unseen: `close`
waits for it (`StopEnds`, `CloseRuntime`).

A cancellation of a task that was recovered from the queue is lost when the
service dies again between its receipt and its dispatch. The next recovery knows
the task by its attention text as one that never started and does not freeze
(`core/recovery.ts:135`), only coordinated tasks are queued again
(`core/repository-runtime.ts:515`), and nobody dispatches; a client that repeats
the cancellation settles it. `CancelSettles` leaves out exactly this task, by
`CutOff`, and with two crashes `task_runs` shows the rest.

A cancellation that finds no coordinator runs the recovery loop itself
(`core/repository-runtime.ts:3181`), beside the loop of the start; each shifts
the head of the shared queue, so the queue may be empty while a task of it is
still in work. And a cancellation that found no coordinator does nothing when
one was composed meanwhile (`:3178`): `LinkRecovery` marks it `missed`, and
`CancelEnds` promises nothing for it, because only the client's repetition helps.

In coordination, a waiting member is looked at again when its case changes, but
not while the case is reserved (`coordination/control.ts:1111`), and nobody looks
again when the reservation ends; the slots kept for settlement count outcomes
and announcements in one place only (`contracts/coordination-control.ts:540`);
an operation key is found taken while its first use is still pending
(`coordination/control.ts:962`).

In observation, `#replaceWatchers` opens its watchers after awaits without asking
whether the workspace is still attached (`observation/monitor.ts:404`): they stay
open and counted. A work left out for capacity is tried again when a slot is
free, but its failure may be recorded after the slots were filled
(`core/repository-runtime.ts:1124`). And a publication refused because the work
changed returns without a word (`:631`), which the monitor records as published;
`RefreshSeesEdits` holds because the refresh checks the work again.

## 4. What is only model-checked

Every invariant and every action property of a passing run is proved, and so are
the two refinements. What stays with TLC is liveness, because leads-to under
fairness and `ENABLED` are beyond the prover: `CancelSettles` and `ReturnSettles`
of the task, `GuardReturns` of the lease, `StopEnds` and `CheckExits` of the
service, `CancelEnds` of admission. The four findings are violations that TLC
shows on an instance, and there is nothing about them to prove.

No module declares recursion. What `SelectSeq`, a recursive definition, keeps of a
queue could not be proved by induction, so `Pump` does not use it: `Waiting` is
the sequences over the entries that are not aborted which have them in the
order of the queue. An entry stands in the queue once (`QueueIsExact`), so there is
at most one; that there is one is the part induction would be needed for.

## 5. What is proved

For every value of the constants allowed by the named assumptions
(`LeaseConstants`, `AdmissionConstants`, `CoordinationConstants`, `NoneIsNoNote`,
`ObservationConstants`, `MonitorConstants`, `MonitorIdle`, `ServiceConstants`,
and those of `TaskControl`, `InputBroker`, `TaskExecution` and `TaskLifecycle`).
`MonitorIdle` says that the record for "nothing there" is none of the records of
a run or a monitor; TLC evaluates it as it does the others.

* **Lease** (`LeaseProofs`). `OneHolder` is not inductive: it needs that a
  process past its link owns the path, that a helper which compared identities
  still holds the guard, that what its parent validated is the lock of a dead
  process or gone, and that an inode some path names is not handed out again.
  The part about what a parent validated (`Undisturbed`) holds until a file
  number is reused under it, so `LeaseInvariant` is `Always` with `reused \/
  Undisturbed`. `LockIsOwned` and the types need only `Always` and hold whatever is
  reused; `OneHolder` and `OwnerKeepsLock` say of themselves that they may end
  with `reused`. The step proof has one step per action.
* **Task types** (`TaskLifecycleProofs`). `TypeOK` over the three components.
* **Task contract** (`TaskContractProofs`). The inductive invariant relates
  `pc`, the durable record, the result file and the acknowledgement in progress:
  which settlement a run may still write, that an uncertain run was started,
  that a decided record excludes a later admission. From it `CancelWins`,
  `TerminalHasResult`, `RecordDecodes`, `NeverReplayed`, and `KeepsContract`:
  each step of `TaskLifecycle` is a step of `TaskContract` or a stutter.
* **Task record** (`TaskRecordProofs`), each on top of that invariant.
  `ClaimsCurrent`, `ReceiptsTruthful` and `CancelAlwaysFits` hold together
  (`RecordMove` is what a step that no client takes may do to claims and
  receipts). `AnswerAfterIntent` needs that a waiter which still waits was given
  nothing and that the answer being released is the recorded one (`AnswersHold`).
  `PendingBounded`, which no run meets, holds because every other step than a
  reservation leaves the waiting requests alone or ends some (`WaitingMoves`).
  `ResultAgrees` needs that there is no settlement before the decision, and that
  the run writes the status it was settled with (`SettledHolds`).
  `CompletionProven` needs in addition that evidence, once a completion was
  admitted on it, stands or changes the settlement, and that it is looked at
  last before the result is written (`EvidenceHolds`). `UncertaintyFreezes` needs
  that a run leaves only from a terminal phase or a frozen repository, and that
  an operator lifts the freeze from a terminal task (`FreezeHolds`).
* **Admission** (`AdmissionProofs`). `OneTaskPerKey` and `StoresAgree`, for any
  finite set of tasks and any keys, intents and owners. Neither is inductive:
  `AdmissionInvariant` adds what an admission has published when it stands at a
  step (`OpHolds`), that a reservation, also one an interrupted attempt left
  behind, names a task id of its own key and owner and shares it with no other
  (`ReservationsHold`), that absent records are empty and plain tasks unbound
  (`Records`), and that the recovery sweeps hold only published coordinated
  tasks (`SweepsHold`). Steps that publish nothing are settled by lemmas over
  what they leave alone; binding, publishing and releasing have one each.
  The queue is a second invariant over the first (`QueueInvariant`), because its
  parts need one another. `LinkedBeforeQueued` needs that whoever is about to
  settle a link, an admission or one of the sweeps, has settled the binding, and
  that whoever goes on from it has settled the link (`WaysHold`). `CapacityKept`
  needs that what a commit publishes was reserved before, that an entry which is
  settled without a slot gives none back, and that a restart reopens no task
  that had ended: it would if one had ended without its link. `NoLostKick` needs
  that only queued entries are in the queue (`EntriesHold`); that all of them are,
  each once, is `QueueIsExact`. The proofs go by what
  a step may do, `TasksMove` to records and `QueueMoves` to entries and slots,
  with one lemma per action that says it does no more.
  `KeepsContract` follows from the same: only the restart is about more than one
  task, and it takes none further (`NextAlone`, `RestartStays`); a task comes
  from one stage of its life to the next (`LifeComes`); and a key that appears is
  not in use, since a published task keeps its key and keys are unique after the
  step (`NamesKept`).
* **Service** (`ServiceProofs`). The check reads the store over an await, and the
  epoch tells it of what happened meanwhile. `ExitsEmpty` needs what the epoch
  stands for: as long as nothing has moved it, there is still no connection, no
  request and no entry, and the store's answer still holds (`CheckHolds`).
  `DrainIsFinal` needs that a drained stop has left no plain submission between
  its question and its admission (`DrainHolds`), and that coordinated submissions
  come one after the other (`OneLinking`), so that one at most had entered.
* **Coordination** (`CoordinationProofs`). All seven properties of the run, for
  any works, cases, notes, keys and bounds. A selection is safe because one whose
  versions still match after its inspection has seen no removal (`SourceHolds`),
  so that what cases hold is registered and kept (`SelectionsHold`). A reservation
  is safe because it belongs to one application and to an active case
  (`ReservedApart`, `RunningApart`), whose revision the application has captured
  (`ApplicationHolds`). An effect is single because the intent in the task store,
  the pending record and the place in the call agree (`EffectHolds`) and no two
  applications of a case are unresolved (`OneUnresolved`). `WayOutFits` needs on
  top that every command leaves the slots its own undoing takes (`FitsKept`).
  `ReservedStill` and `EffectConsented` are action properties from the same
  invariant.
* **Observation** (`ObservationProofs`). `NoticesBacked` is not inductive: the
  report file is written before the state that lists it, so it must still be
  there at that step (`PutHolds`). `GapTruthful` rests on `StreamWhole`, that the
  retained notices are exactly those above the floor, which holds because the
  floor covers the greatest number dropped and everything up to it goes
  (`RaisedCovers`, `PrunedWhole`), and on what is owed having been numbered
  (`OwedNumbered`). Steps of the monitor touch none of it but the beginning and
  the end of a publication, and are settled by one lemma (`Undisturbed`).
  `RestIsCurrent` and `RefreshSeesEdits` need the monitor (`MInv`): a run is
  superseded only by what has its workspace run again (`RunCurrent`), what it took
  under open watchers with nothing to deliver is what the file holds (`TakenHolds`),
  the newest report of a path it has published is its own (`StoredTruth`,
  `PutOfRun`), and what an attachment waits for was held by the file since it was
  asked (`HeldHolds`).

## 6. What is not modelled

`TaskExecution` leaves out peer deliveries, private Git publication, the link of
a coordinated task and turn-correlated evidence; lost authority shows as a
crash. `Lease` leaves out directory locks of older releases and a helper killed
from outside. `Service` gives each client one tracked request at a time, and
sees a task as its queue entry, its record and its settlement. Of a coordinated
submission it has the order of reservation, durable task and queueing; the
binding is left open, since any key may have been bound in an earlier life of the
service, and `Admission` has it. Observation requests have no outcome there.
Of the store writes in a task's settlement only the result's may fail in
`TaskExecution`. `Admission`
leaves out announcements (an inline assignment stands for both kinds), failures
of the stores outside the admission steps, and `Coordinator.shutdown`, which
`TaskExecution` has for one task.

`Coordination` lets one call per operation key be under way, has all cases claim
one target, and takes a case's commands to be the present lead's, so that the
case generation is left out. Sharing is the flag that somebody reads the work.
Announcements, replies, the waiters of members and the delivery of observations
to a case are left out. A counter-proposal that supersedes an acknowledged one
needs a second note: the proofs cover it, the run with its single note does not
reach it.

`Observation` has one external work, with control generation 0; managed works,
which publish under their task's lock, and adoption are left out. A report's
identity is the revision that first lists it; the real one is a hash over a
capture that never repeats, and for the same reason the "unchanged" batch
(`evidenceByBatch`) does not occur. Watchers are opened for all directories or,
where one cannot be read or a limit is met, count as not opened. The byte bound on reports is abstracted to
keeping any number of the newest. Left out are page order and path priorities,
the slots for several works, the correspondence and capture indexes, and the
analysis helper with its process. `RestIsCurrent` speaks of the batch captured
under the open watchers: with more paths than one analysis takes, an edit to an
earlier batch while the next run replaces the watchers is only found by the
sweep of every 60 seconds.

The request lanes, the election and the client, the MCP server, the adapters,
the installer and the command line have no module. The lanes and the election
are planned; the others keep no state whose order matters beyond the worker
events that `TaskExecution` already allows. The qualification scripts under
`scripts/` exercise sandboxes of agents and are no part of the service.

## 7. Plan

1. `Fence`: `withTaskMutation`, `withTaskPublication`, waiters.
2. A property over the two recovery loops of `LinkRecovery`; `Scheduler`
   composed with `TaskExecution` through its queue actions.
3. `Election`: bootstrap flock, descriptor, client reconnection, over `Lease`.
4. `RequestCapacity` and `Transport`: lanes, callbacks, late answers.
5. `Coordination`: announcements, replies and waiters; the delivery of
   observations to a case; `PeerDelivery` joins it to `TaskExecution`.
6. `Observation`: several works over the bound of 32, managed works, the
   correspondence index; `Disposition` with its intents and receipts.
7. Proofs: that the order of the queue is the order of arrival, once a property
   speaks of it; the fence and the election with their modules.
