------------------------------ MODULE LinkRecovery ------------------------------
(***************************************************************************)
(* What src/src/core/repository-runtime.ts does for coordinated tasks when *)
(* no submission is at work: #reconcileStartupCoordinated, and the part of *)
(* cancelTask that finds no coordinator yet.                               *)
(*                                                                         *)
(* The tasks to reconcile stand in one queue.  The loop that the start of  *)
(* a service begins is not the only one over it: a cancellation runs the   *)
(* same loop for itself, so that several sweeps take the head of the queue *)
(* and shift it.                                                           *)
(***************************************************************************)
EXTENDS Scheduler

CONSTANTS
  NoTaskId,
  Boot,           \* the sweep of the start; the others are named by their task
  StoreFails      \* may a publication fail or lose its reply

VARIABLES
  binding,        \* the metadata binding of each task id
  composed,       \* is there a #coordinator
  startup,        \* #startupCoordinatedQueue
  startupFailed,
  sweep,          \* the task each sweep is at, and how far it came with it
  dispatch        \* where the dispatch of each task's cancellation stands

recoveryVars == <<binding, composed, startup, startupFailed, sweep, dispatch>>

BindingStates == {"none", "bound", "settled", "released", "terminal"}
NoBinding == [state |-> "none", key |-> NoKey, intent |-> NoIntent]

Sweeps == Tasks \cup {Boot}
Idle == [at |-> "idle", task |-> NoTaskId]

LinkTypeOK ==
  /\ SchedulerTypeOK
  /\ binding \in [Tasks -> [state : BindingStates, key : Keys \cup {NoKey},
                            intent : Intents \cup {NoIntent}]]
  /\ composed \in BOOLEAN /\ startupFailed \in BOOLEAN
  /\ startup \in Seq(Tasks)
  /\ sweep \in [Sweeps -> {Idle} \cup
                  [at : {"read", "settle", "link", "cancel", "close"}, task : Tasks]]
  /\ dispatch \in [Tasks -> {"none", "asked", "alone", "detached", "missed"}]

LinkInit ==
  /\ SchedulerInit
  /\ binding = [t \in Tasks |-> NoBinding]
  /\ composed = FALSE
  /\ startup = <<>> /\ startupFailed = FALSE
  /\ sweep = [s \in Sweeps |-> Idle]
  /\ dispatch = [t \in Tasks |-> "none"]

-----------------------------------------------------------------------------

CancelRetained(r) == r.form = "coordinated" /\ r.cancel /\ ~r.native /\ r.phase # "terminal"
NeedsLink(t) == ~task[t].link \/ CancelRetained(task[t])

NextOf(q) == IF q = <<>> THEN Idle ELSE [at |-> "read", task |-> Head(q)]
SweepGoto(s, at) == sweep' = [sweep EXCEPT ![s].at = at]

SweepRead(s) ==
  /\ sweep[s].at = "read"
  /\ SweepGoto(s, IF NeedsLink(sweep[s].task) THEN "settle" ELSE "close")
  /\ UNCHANGED <<task, binding, startup>>

\* settleSubmission unless it is settled; any other state stops the sweep.
SweepSettle(s) ==
  /\ sweep[s].at = "settle"
  /\ binding[sweep[s].task].state \in {"bound", "settled", "terminal"}
  /\ binding' = [binding EXCEPT ![sweep[s].task].state = IF @ = "bound" THEN "settled" ELSE @]
  /\ SweepGoto(s, "link")
  /\ UNCHANGED <<task, startup>>

\* reconcileCoordinatedRecord: the link, then a cancellation that came before.
SweepLink(s) ==
  /\ sweep[s].at = "link"
  /\ task' = [task EXCEPT ![sweep[s].task].link = TRUE]
  /\ SweepGoto(s, "cancel")
  /\ UNCHANGED <<binding, startup>>

SweepCancel(s) ==
  /\ sweep[s].at = "cancel"
  /\ task' = [task EXCEPT ![sweep[s].task].phase =
                IF CancelRetained(task[sweep[s].task]) THEN "terminal" ELSE @]
  /\ SweepGoto(s, "close")
  /\ UNCHANGED <<binding, startup>>

\* The terminal binding; then whatever is at the head is shifted.
SweepClose(s) ==
  /\ sweep[s].at = "close"
  /\ binding' = [binding EXCEPT ![sweep[s].task].state =
       IF task[sweep[s].task].phase = "terminal" /\ @ = "settled" THEN "terminal" ELSE @]
  /\ startup' = IF startup = <<>> THEN startup ELSE Tail(startup)
  /\ sweep' = [sweep EXCEPT ![s] = NextOf(startup')]
  /\ UNCHANGED task

SweepOn(s) ==
  /\ SweepRead(s) \/ SweepSettle(s) \/ SweepLink(s) \/ SweepCancel(s) \/ SweepClose(s)
  /\ UNCHANGED <<frozen, started, queueVars, lock, composed, startupFailed, dispatch>>

SweepStep == \E s \in Sweeps : SweepOn(s)

\* Only the failure of the start's own sweep is kept; a cancellation's is told
\* to its client.
SweepFails ==
  /\ StoreFails
  /\ \E s \in Sweeps :
       /\ sweep[s] # Idle
       /\ sweep' = [sweep EXCEPT ![s] = Idle]
       /\ startupFailed' = (startupFailed \/ s = Boot)
       /\ dispatch' = [t \in Tasks |-> IF t = s THEN "missed" ELSE dispatch[t]]
  /\ UNCHANGED <<diskVars, queueVars, lock, binding, composed, startup>>

-----------------------------------------------------------------------------
(* cancelTask *)

\* The stop is durable, or was; its dispatch follows.
Cancel(t) ==
  /\ OnDisk(t) /\ dispatch[t] \in {"none", "missed"} /\ sweep[t] = Idle
  /\ Unsettled(t) \/ task[t].cancel
  /\ task' = IF task[t].cancel THEN task
             ELSE [task EXCEPT ![t].cancel = TRUE, ![t].phase = "stopping"]
  /\ dispatch' = [dispatch EXCEPT ![t] = "asked"]
  /\ UNCHANGED <<frozen, started, queueVars, lock, binding, composed, startup,
                 startupFailed, sweep>>

DispatchGoto(t, to) == dispatch' = [dispatch EXCEPT ![t] = to]

DispatchToEntry(t) ==
  /\ dispatch[t] = "asked" /\ composed
  /\ AbortEntry(t)
  /\ DispatchGoto(t, "none")
  /\ UNCHANGED <<binding, composed, startup, startupFailed, sweep>>

DispatchFindsNone(t) ==
  /\ dispatch[t] = "asked" /\ composed
  /\ ~lock
  /\ stage[t] = "none"
  /\ DispatchGoto(t, "alone")
  /\ UNCHANGED <<diskVars, queueVars, lock, binding, composed, startup, startupFailed, sweep>>

\* MUTANT: the link is not looked at; the stop waits for the link's settlement.
DispatchAloneRetained(t) ==
  /\ dispatch[t] = "alone"
  /\ task' = [task EXCEPT ![t].phase =
       IF task[t].cancel /\ NeverStarted(t) /\ task[t].form = "coordinated"
       THEN "attention" ELSE @]
  /\ DispatchGoto(t, "none")
  /\ Kick
  /\ UNCHANGED <<frozen, started, queue, stage, aborted, active, lock, binding, composed,
                 startup, startupFailed, sweep>>

DispatchAlone(t) ==
  /\ dispatch[t] = "alone"
  /\ CancelledAlone(t)
  /\ DispatchGoto(t, "none")
  /\ Kick
  /\ UNCHANGED <<frozen, started, queue, stage, aborted, active, lock, binding, composed,
                 startup, startupFailed, sweep>>

\* There is no coordinator to dispatch to.
DispatchDetached(t) ==
  /\ dispatch[t] = "asked" /\ ~composed
  /\ DispatchGoto(t, "detached")
  /\ UNCHANGED <<diskVars, queueVars, lock, binding, composed, startup, startupFailed, sweep>>

\* One was composed meanwhile: the call returns and nothing was dispatched.
DispatchMissed(t) ==
  /\ dispatch[t] = "detached" /\ composed
  /\ DispatchGoto(t, "missed")
  /\ UNCHANGED <<diskVars, queueVars, lock, binding, composed, startup, startupFailed, sweep>>

\* A coordinated task that never started is swept; a recovered plain one ends.
DispatchSweep(t) ==
  /\ dispatch[t] = "detached" /\ ~composed
  /\ task[t].form = "coordinated" /\ NeverStarted(t)
  /\ startup' = IF t \in ToSet(startup) THEN startup ELSE Append(startup, t)
  /\ sweep' = [sweep EXCEPT ![t] = NextOf(startup')]
  /\ DispatchGoto(t, "none")
  /\ UNCHANGED <<diskVars, queueVars, lock, binding, composed, startupFailed>>

DispatchSettle(t) ==
  /\ dispatch[t] = "detached" /\ ~composed
  /\ ~(task[t].form = "coordinated" /\ NeverStarted(t))
  /\ task' = [task EXCEPT ![t].phase =
       IF ~task[t].native /\ task[t].recovered /\ Unsettled(t) THEN "terminal" ELSE @]
  /\ DispatchGoto(t, "none")
  /\ UNCHANGED <<frozen, started, queueVars, lock, binding, composed, startup,
                 startupFailed, sweep>>

DispatchStep(t) ==
  \/ DispatchToEntry(t) \/ DispatchFindsNone(t) \/ DispatchAlone(t)
  \/ DispatchDetached(t) \/ DispatchMissed(t) \/ DispatchSweep(t) \/ DispatchSettle(t)
=============================================================================
