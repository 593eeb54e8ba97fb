------------------------------- MODULE Admission -------------------------------
(***************************************************************************)
(* How a task is admitted (Coordinator.submit, and the coordinated path of *)
(* RepositoryRuntime.submitCoordinated), over two durable stores.          *)
(*                                                                         *)
(* A coordinated submission reserves a task id and capacity in memory,     *)
(* publishes a binding in the coordination metadata, publishes the task in *)
(* the task store, settles the binding, settles the link in the task store *)
(* and only then queues the task.  Any step may fail, before or after its  *)
(* effect, and the service may die between any two; the next submission    *)
(* under the same request key, or the start of the next service, picks the *)
(* pieces up.  Plain submissions under the same keys, cancellations and    *)
(* the queue go on meanwhile.                                              *)
(*                                                                         *)
(* Announcements are left out: an inline assignment stands for both kinds. *)
(* Store failures are those of the admission steps themselves.             *)
(***************************************************************************)
EXTENDS LinkRecovery

CONSTANTS
  OwnerOf,        \* the owner of each intent
  MaxQueued,      \* policy.max_queued_tasks
  FormsOf,        \* the kinds of submission clients send under each key
  MaxCrashes      \* bound on deaths of the service

ASSUME AdmissionConstants ==
  /\ NoKey \notin Keys /\ NoIntent \notin Intents /\ NoTaskId \notin Tasks
  /\ Boot \notin Tasks
  /\ IsFiniteSet(Tasks)
  /\ DOMAIN OwnerOf = Intents
  /\ MaxWorkers \in Nat \ {0} /\ MaxQueued \in Nat
  /\ FormsOf \in [Keys -> SUBSET {"plain", "coordinated"}]
  /\ StoreFails \in BOOLEAN
  /\ MaxCrashes \in Nat

VARIABLES
  reserved,       \* #reservations, by request key
  op,             \* the submission that holds #coordinatedAdmission
  up, closing,
  crashes

admissionVars == <<reserved, op, up, closing, crashes>>
vars == <<diskVars, queueVars, lock, recoveryVars, admissionVars>>

NoReservation == [id |-> NoTaskId, intent |-> NoIntent]
Steps == {"bind", "commit", "release", "unreserve", "settle", "activate", "linked", "enqueue"}
NoOp == [at |-> "none", key |-> NoKey, intent |-> NoIntent, id |-> NoTaskId]

TypeOK ==
  /\ LinkTypeOK
  /\ reserved \in [Keys -> {NoReservation} \cup [id : Tasks, intent : Intents]]
  /\ op \in {NoOp} \cup [at : Steps, key : Keys, intent : Intents, id : Tasks]
  /\ lock <=> op.at \in {"linked", "enqueue"}
  /\ up \in BOOLEAN /\ closing \in BOOLEAN
  /\ crashes \in 0 .. MaxCrashes

Init ==
  /\ LinkInit
  /\ reserved = [k \in Keys |-> NoReservation]
  /\ op = NoOp
  /\ up = TRUE /\ closing = FALSE
  /\ crashes = 0

-----------------------------------------------------------------------------

Find(k) == {t \in Tasks : task[t].key = k}
ReservedIds == {reserved[k].id : k \in Keys} \ {NoTaskId}
\* The ids randomUUID may give.
Unused == {t \in Tasks : /\ ~OnDisk(t) /\ binding[t].state = "none"
                          /\ t \notin ReservedIds}

\* MUTANT: a reservation does not count until its task is published.
HasRoomOnDisk ==
  Cardinality({t \in Tasks : Unsettled(t)}) < MaxWorkers + MaxQueued

HasRoom ==
  Cardinality(ReservedIds \cup {t \in Tasks : Unsettled(t)}) < MaxWorkers + MaxQueued

MutationAllowed == ~frozen /\ ~closing

\* submissionBindingByRequestKey: bindings are looked up for one owner.
BindingsOf(k, i) == {t \in Tasks : /\ binding[t].key = k
                                   /\ OwnerOf[binding[t].intent] = OwnerOf[i]}
Existing(k, i) == {t \in BindingsOf(k, i) : binding[t].state # "released"}
Burnt(k, i) == BindingsOf(k, i) # {} /\ Existing(k, i) = {}

Goto(at) == op' = [op EXCEPT !.at = at]
Done == op' = NoOp
Own == reserved[op.key] = [id |-> op.id, intent |-> op.intent]

-----------------------------------------------------------------------------
(* Coordinator.submit *)

\* MUTANT: a retried key is not looked up.
SubmitTwice(k, i) ==
  /\ composed /\ ~lock /\ MutationAllowed
  /\ reserved[k] = NoReservation
  /\ HasRoom
  /\ \E t \in Unused :
       /\ task' = [task EXCEPT ![t] = NewTask("plain", k, i)]
       /\ Push(t)
  /\ Kick
  /\ UNCHANGED <<frozen, started, aborted, active, lock, recoveryVars, admissionVars>>

\* A key that is known, or reserved, is answered without effect.
Submit(k, i) ==
  /\ composed /\ ~lock /\ MutationAllowed
  /\ reserved[k] = NoReservation /\ Find(k) = {}
  /\ HasRoom
  /\ \E t \in Unused :
       /\ task' = [task EXCEPT ![t] = NewTask("plain", k, i)]
       /\ Push(t)
  /\ Kick
  /\ UNCHANGED <<frozen, started, aborted, active, lock, recoveryVars, admissionVars>>

\* The task was published but the caller of the store saw a failure: it is
\* accepted on disk and this service never queues it.
SubmitUnanswered(k, i) ==
  /\ StoreFails
  /\ composed /\ ~lock /\ MutationAllowed
  /\ reserved[k] = NoReservation /\ Find(k) = {}
  /\ HasRoom
  /\ \E t \in Unused : task' = [task EXCEPT ![t] = NewTask("plain", k, i)]
  /\ UNCHANGED <<frozen, started, queueVars, lock, recoveryVars, admissionVars>>

-----------------------------------------------------------------------------
(* submitCoordinated: #assertCoordinatedReconciled, the metadata's binding *)
(* of the key, and the reservation. *)

MayBegin(k, i) ==
  /\ composed /\ op = NoOp /\ ~lock /\ MutationAllowed
  /\ startup = <<>> /\ ~startupFailed
  /\ ~Burnt(k, i)

\* The metadata's binding must be this submission's; without one, bind first.
Continue(k, i, t) ==
  IF Existing(k, i) = {} THEN op' = [at |-> "bind", key |-> k, intent |-> i, id |-> t]
  ELSE IF binding[t].intent = i
       THEN op' = [at |-> "commit", key |-> k, intent |-> i, id |-> t]
       ELSE Done

\* The task was admitted before: the submission is completed, not repeated.
BeginAdmitted(k, i) ==
  /\ MayBegin(k, i)
  /\ \E t \in Find(k) :
       /\ task[t].form = "coordinated" /\ task[t].intent = i
       /\ Existing(k, i) \subseteq {t}
       /\ Continue(k, i, t)
  /\ UNCHANGED reserved

\* A reservation an earlier attempt left behind is taken up.
BeginReserved(k, i) ==
  /\ MayBegin(k, i)
  /\ Find(k) = {}
  /\ reserved[k].intent = i
  /\ Existing(k, i) \subseteq {reserved[k].id}
  /\ Continue(k, i, reserved[k].id)
  /\ UNCHANGED reserved

\* A fresh reservation, under the id of an interrupted binding if there is one.
\* A binding of another intent ends the attempt with the reservation in place.
BeginFresh(k, i) ==
  /\ MayBegin(k, i)
  /\ Find(k) = {} /\ reserved[k] = NoReservation
  /\ HasRoom
  /\ \E t \in IF Existing(k, i) = {} THEN Unused ELSE Existing(k, i) :
       /\ reserved' = [reserved EXCEPT ![k] = [id |-> t, intent |-> i]]
       /\ Continue(k, i, t)

Begin(k, i) ==
  /\ BeginAdmitted(k, i) \/ BeginReserved(k, i) \/ BeginFresh(k, i)
  /\ UNCHANGED <<diskVars, queueVars, lock, recoveryVars, up, closing, crashes>>

-----------------------------------------------------------------------------
(* Its steps.  A lost reply ends the attempt and keeps what was reserved. *)

Bound == [binding EXCEPT ![op.id] =
            [state |-> "bound", key |-> op.key, intent |-> op.intent]]
Disposed(state) == [binding EXCEPT ![op.id].state = state]
Dropped == [reserved EXCEPT ![op.key] = NoReservation]

\* bindSubmission succeeded, or the binding is found after it failed.
Bind ==
  /\ op.at = "bind"
  /\ binding' = Bound
  /\ Goto("commit")
  /\ UNCHANGED <<task, queue, stage, pump, lock, reserved>>

\* The decision changed: no binding is found and the reservation is released.
BindRefused ==
  /\ op.at = "bind"
  /\ ~lock
  /\ IF Own THEN reserved' = Dropped ELSE UNCHANGED reserved
  /\ Done
  /\ UNCHANGED <<task, queue, stage, pump, lock, binding>>

BindUnanswered ==
  /\ StoreFails
  /\ op.at = "bind"
  /\ binding' \in {binding, Bound}
  /\ Done
  /\ UNCHANGED <<task, queue, stage, pump, lock, reserved>>

Committable == ~OnDisk(op.id) /\ Find(op.key) = {} /\ MutationAllowed /\ Own
Committed == [task EXCEPT ![op.id] = NewTask("coordinated", op.key, op.intent)]

\* MUTANT: the task is queued as soon as it is published.
CommitAndQueue ==
  /\ op.at = "commit"
  /\ Committable
  /\ ~lock
  /\ task' = Committed
  /\ Push(op.id)
  /\ Kick
  /\ Goto("settle")
  /\ UNCHANGED <<lock, binding, reserved>>

\* commitReserved publishes the task, or finds it published.
Commit ==
  /\ op.at = "commit"
  /\ ~lock
  /\ IF OnDisk(op.id) THEN UNCHANGED task ELSE Committable /\ task' = Committed
  /\ Goto("settle")
  /\ UNCHANGED <<queue, stage, pump, lock, binding, reserved>>

\* MUTANT: any failure releases the binding, published or not.
CommitRefusedUnread ==
  /\ op.at = "commit"
  /\ ~lock
  /\ ~OnDisk(op.id)
  /\ StoreFails
  /\ task' \in {task, Committed}
  /\ Goto("release")
  /\ UNCHANGED <<queue, stage, pump, lock, binding, reserved>>

\* It failed and the store, read again, has no such task.
CommitRefused ==
  /\ op.at = "commit"
  /\ ~lock
  /\ ~OnDisk(op.id)
  /\ StoreFails \/ ~Committable
  /\ Goto("release")
  /\ UNCHANGED <<task, queue, stage, pump, lock, binding, reserved>>

\* It failed and the store has the task, or cannot be read.
CommitUnanswered ==
  /\ StoreFails
  /\ op.at = "commit"
  /\ ~lock
  /\ \/ Committable /\ task' = Committed
     \/ UNCHANGED task
  /\ Done
  /\ UNCHANGED <<queue, stage, pump, lock, binding, reserved>>

Release ==
  /\ op.at = "release"
  /\ binding' = Disposed("released")
  /\ Goto("unreserve")
  /\ UNCHANGED <<task, queue, stage, pump, lock, reserved>>

ReleaseUnanswered ==
  /\ StoreFails
  /\ op.at = "release"
  /\ binding' \in {binding, Disposed("released")}
  /\ Done
  /\ UNCHANGED <<task, queue, stage, pump, lock, reserved>>

\* releaseUnadmitted
Unreserve ==
  /\ op.at = "unreserve"
  /\ ~lock
  /\ IF Own /\ ~OnDisk(op.id) THEN reserved' = Dropped ELSE UNCHANGED reserved
  /\ Done
  /\ UNCHANGED <<task, queue, stage, pump, lock, binding>>

\* settleSubmission, only while the binding is not settled.
Settle ==
  /\ op.at = "settle"
  /\ binding' = IF binding[op.id].state = "bound" THEN Disposed("settled") ELSE binding
  /\ Goto("activate")
  /\ UNCHANGED <<task, queue, stage, pump, lock, reserved>>

SettleUnanswered ==
  /\ StoreFails
  /\ op.at = "settle"
  /\ binding[op.id].state = "bound"
  /\ binding' \in {binding, Disposed("settled")}
  /\ Done
  /\ UNCHANGED <<task, queue, stage, pump, lock, reserved>>

-----------------------------------------------------------------------------
(* activateLinked, under the admission lock across its awaits. *)

Link ==
  /\ op.at = "activate"
  /\ ~lock
  /\ task' = [task EXCEPT ![op.id].link = TRUE]
  /\ lock' = TRUE
  /\ Goto("linked")
  /\ UNCHANGED <<queue, stage, pump, binding, reserved>>

LinkFails ==
  /\ StoreFails
  /\ op.at = "activate"
  /\ Done
  /\ UNCHANGED <<task, queue, stage, pump, lock, binding, reserved>>

\* settleNeverStartedCoordinatedCancellation: a cancellation that came before.
FinishCancelled ==
  /\ op.at = "linked"
  /\ CancelledAlone(op.id)
  /\ Goto("enqueue")
  /\ UNCHANGED <<queue, stage, pump, lock, binding, reserved>>

\* Only the service that reserved the task queues it, and only while no
\* cancellation has moved it on.
Enqueue ==
  /\ op.at = "enqueue"
  /\ LET mine == reserved[op.key].id = op.id /\ stage[op.id] = "none"
     IN /\ IF mine /\ task[op.id].phase = "queued" /\ ~task[op.id].native
           THEN Push(op.id) ELSE UNCHANGED <<queue, stage>>
        /\ IF mine THEN reserved' = Dropped ELSE UNCHANGED reserved
  /\ lock' = FALSE
  /\ Kick
  /\ Done
  /\ UNCHANGED <<task, binding>>

OpStep ==
  /\ \/ Bind \/ BindRefused \/ BindUnanswered
     \/ Commit \/ CommitRefused \/ CommitUnanswered
     \/ Release \/ ReleaseUnanswered \/ Unreserve
     \/ Settle \/ SettleUnanswered
     \/ Link \/ LinkFails \/ FinishCancelled \/ Enqueue
  /\ UNCHANGED <<frozen, started, aborted, active, composed, startup, startupFailed,
                 sweep, dispatch, up, closing, crashes>>

-----------------------------------------------------------------------------
(* The end of a service and the start of the next. *)

\* #terminalBinding, tracked after a task became terminal; it is not retried.
TerminalBinding(t) ==
  /\ task[t].phase = "terminal" /\ task[t].link
  /\ binding[t].state = "settled"
  /\ binding' = [binding EXCEPT ![t].state = "terminal"]
  /\ UNCHANGED <<diskVars, queueVars, lock, composed, startup, startupFailed, sweep,
                 dispatch, admissionVars>>

\* #execution: the coordinator is made for the first submission.
Compose ==
  /\ ~composed
  /\ MutationAllowed
  /\ composed' = TRUE
  /\ UNCHANGED <<diskVars, queueVars, lock, binding, startup, startupFailed, sweep,
                 dispatch, admissionVars>>

CloseAdmission ==
  /\ ~closing
  /\ closing' = TRUE
  /\ UNCHANGED <<diskVars, queueVars, lock, recoveryVars, reserved, op, up, crashes>>

Crash ==
  /\ up
  /\ crashes < MaxCrashes
  /\ crashes' = crashes + 1
  /\ up' = FALSE
  /\ queue' = <<>>
  /\ stage' = [t \in Tasks |-> "none"]
  /\ aborted' = {} /\ active' = 0 /\ pump' = "none" /\ lock' = FALSE
  /\ composed' = FALSE
  /\ startup' = <<>> /\ startupFailed' = FALSE
  /\ sweep' = [s \in Sweeps |-> Idle]
  /\ dispatch' = [t \in Tasks |-> "none"]
  /\ reserved' = [k \in Keys |-> NoReservation]
  /\ op' = NoOp
  /\ closing' = FALSE
  /\ UNCHANGED <<diskVars, binding>>

\* reconcileStoredTasks: what it makes of each record.
AwaitsLink(r) == r.form = "coordinated" /\ ~r.link
QueueRecovered(r) == ~r.native /\ (r.phase = "queued" \/ r.recovered)

Reconciled(r) ==
  IF r.form = "none" \/ (r.phase = "terminal" /\ ~AwaitsLink(r)) THEN r
  ELSE IF AwaitsLink(r) \/ CancelRetained(r)
       THEN [r EXCEPT !.phase = "attention", !.recovered = FALSE]
  ELSE IF QueueRecovered(r)
       THEN [r EXCEPT !.phase = "attention", !.recovered = TRUE]
  ELSE [r EXCEPT !.phase = "attention", !.recovered = FALSE, !.native = TRUE]

FreezesAt(r) ==
  /\ r.form # "none" /\ r.phase # "terminal"
  /\ ~AwaitsLink(r) /\ ~CancelRetained(r) /\ ~QueueRecovered(r)

Restart ==
  /\ ~up
  /\ up' = TRUE
  /\ task' = [t \in Tasks |-> Reconciled(task[t])]
  /\ frozen' = (frozen \/ \E t \in Tasks : FreezesAt(task[t]))
  /\ startup' \in SetToSeqs({t \in Tasks : /\ task[t].form = "coordinated"
                                          /\ \/ ~task[t].link \/ task[t].phase = "terminal"
                                             \/ CancelRetained(task[t])})
  /\ sweep' = [sweep EXCEPT ![Boot] = NextOf(startup')]
  /\ UNCHANGED <<started, queueVars, lock, binding, composed, startupFailed, dispatch,
                 reserved, op, closing, crashes>>

-----------------------------------------------------------------------------

Client ==
  \/ \E k \in Keys, i \in Intents :
       \/ "plain" \in FormsOf[k] /\ (Submit(k, i) \/ SubmitUnanswered(k, i))
       \/ "coordinated" \in FormsOf[k] /\ Begin(k, i)
  \/ Compose \/ CloseAdmission

RunStep(t) == StartWorker(t) \/ SettleRun(t) \/ FreezeRun(t) \/ LeaveRun(t)

QueueStep ==
  /\ Pump \/ PumpCleared \/ \E t \in Tasks : RunStep(t)
  /\ UNCHANGED <<recoveryVars, admissionVars>>

RecoveryStep ==
  /\ SweepStep \/ SweepFails \/ \E t \in Tasks : Cancel(t) \/ DispatchStep(t)
  /\ UNCHANGED admissionVars

Next ==
  \/ up /\ \/ Client \/ OpStep \/ QueueStep \/ RecoveryStep
           \/ \E t \in Tasks : TerminalBinding(t)
  \/ Crash
  \/ Restart

Spec == Init /\ [][Next]_vars

Inner(A) == up /\ A /\ UNCHANGED <<recoveryVars, admissionVars>>

\* Continuations of a living service are run.  The lock is first come, first
\* served, so what waits for it gets it however often others take it.  A worker
\* need not return; a run that was aborted, or has no worker, is settled by the
\* coordinator itself.
Fairness ==
  /\ WF_vars(up /\ OpStep)
  /\ \A s \in Sweeps : WF_vars(up /\ SweepOn(s) /\ UNCHANGED admissionVars)
  /\ SF_vars(Inner(Pump)) /\ WF_vars(Inner(PumpCleared))
  /\ \A t \in Tasks :
       /\ SF_vars(up /\ DispatchStep(t) /\ UNCHANGED admissionVars)
       /\ SF_vars(Inner(LeaveRun(t)))
       /\ WF_vars(Inner(t \in aborted /\ SettleRun(t)))

FairSpec == Spec /\ Fairness

\* A client that goes on asking under the key and with the intent of a binding.
Persistent ==
  \A t \in Tasks :
    SF_vars(up /\ \E k \in Keys, i \in Intents :
              binding[t].key = k /\ binding[t].intent = i /\ Begin(k, i))

RetrySpec == FairSpec /\ Persistent

-----------------------------------------------------------------------------
(* Properties. *)

\* A request key names one task for ever, whichever path admitted it, however
\* often it was retried and whatever was lost in between.
OneTaskPerKey ==
  \A t, u \in Tasks : OnDisk(t) /\ OnDisk(u) /\ task[t].key = task[u].key => t = u

\* How far a task has come, for AdmissionContract.
Life(t) ==
  IF ~OnDisk(t) THEN "absent"
  ELSE IF task[t].phase = "terminal" THEN "ended"
  ELSE IF t \in started THEN "started"
  ELSE IF task[t].form = "coordinated" /\ ~task[t].link THEN "accepted"
  ELSE "ready"

Contract == INSTANCE AdmissionContract WITH
  key <- [t \in Tasks |-> task[t].key],
  intent <- [t \in Tasks |-> task[t].intent],
  life <- [t \in Tasks |-> Life(t)]

\* Two stores, retries under the same key, lost replies and deaths of the
\* service keep the promises of AdmissionContract.
KeepsContract == Contract!Spec

\* The metadata and the task store agree on what was admitted: a binding that
\* was settled has its task, one that was released never has, and every
\* coordinated task has the binding it was admitted under.
StoresAgree ==
  \A t \in Tasks :
    /\ binding[t].state \in {"settled", "terminal"} => OnDisk(t)
    /\ binding[t].state = "released" => ~OnDisk(t)
    /\ task[t].form = "coordinated" =>
         binding[t].key = task[t].key /\ binding[t].intent = task[t].intent

\* A coordinated task is queued and started only after its binding and its
\* link were both settled, and it ends only then.
LinkedBeforeQueued ==
  \A t \in Tasks :
    task[t].form = "coordinated" /\ (stage[t] # "none" \/ t \in started
                                     \/ task[t].phase = "terminal") =>
      task[t].link /\ binding[t].state \in {"settled", "terminal"}

\* No more work is accepted or reserved than there are slots and places, and
\* the slots that are counted are those of the running entries.
CapacityKept ==
  /\ Cardinality(ReservedIds \cup {t \in Tasks : Unsettled(t)}) <= MaxWorkers + MaxQueued
  /\ active = Cardinality({t \in Tasks : stage[t] = "running"})
  /\ active <= MaxWorkers

\* Whenever something in the queue could leave it, a pump is there to look: a
\* kick is swallowed only by a pump that will see what it was for.
NoLostKick == Startable => pump # "none"

\* An accepted cancellation of a linked task that never started ends it, from
\* wherever its admission, its dispatch and the queue had come to.
CancelEnds ==
  \A t \in Tasks :
    (up /\ task[t].link /\ task[t].cancel /\ NeverStarted(t))
      ~> (task[t].phase = "terminal" \/ ~up \/ startupFailed \/ dispatch[t] = "missed")

\* An interrupted admission is reconciled through its original request key:
\* whoever goes on asking gets it admitted, or released.
OriginalKeyReconciles ==
  \A t \in Tasks :
    (up /\ binding[t].state = "bound" /\ ~OnDisk(t))
      ~> (OnDisk(t) \/ binding[t].state = "released" \/ ~up \/ closing \/ frozen)

\* Work that never started is not taken for work that might have run.
NeverStartedKept == \A t \in Tasks : task[t].native => t \in started
=============================================================================
