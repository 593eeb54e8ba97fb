---------------------------- MODULE TaskLifecycle ----------------------------
(***************************************************************************)
(* One accepted task from its queueing to its terminal state: the clients, *)
(* the run and the worker of TaskExecution, the death of the service at    *)
(* any step, reconciliation when it starts again, and an operator's        *)
(* acknowledgement (src/core/recovery.ts).                                 *)
(*                                                                         *)
(* What is durable: control, inputs, receipts, result, reconciled, frozen. *)
(* Everything else is the memory of one service process.                   *)
(***************************************************************************)
EXTENDS TaskExecution

CONSTANT MaxCrashes      \* bound on deaths of the service

ASSUME CrashConstants == MaxCrashes \in Nat

VARIABLES
  service,        \* "up" once reconciliation is done, "down" after a death
  crashes,        \* history: deaths so far
  reconciled,     \* resource.stop_reconciled: an operator vouched for the stop
  ack             \* where the operator's acknowledgement stands

lifeVars == <<service, crashes, reconciled, ack>>
vars == <<controlVars, brokerVars, execVars, lifeVars>>

TypeOK ==
  /\ ControlTypeOK
  /\ BrokerTypeOK
  /\ ExecTypeOK
  /\ service \in {"up", "down"}
  /\ crashes \in 0..MaxCrashes
  /\ reconciled \in BOOLEAN
  /\ ack \in {"none", "settled", "result", "resource", "safety"}

Init ==
  /\ ControlInit
  /\ BrokerInit
  /\ ExecInit
  /\ service = "up"
  /\ crashes = 0
  /\ reconciled = FALSE
  /\ ack = "none"

-----------------------------------------------------------------------------
(* Death and restart. *)

Crash ==
  /\ service = "up"
  /\ crashes < MaxCrashes
  /\ service' = "down"
  /\ crashes' = crashes + 1
  /\ ack' = "none"
  /\ lock' = "free"
  /\ requests' = [i \in Inputs |-> "closed"]
  /\ answering' = NoInput
  /\ undelivered' = {}
  /\ pc' = "idle"
  /\ run' = [run EXCEPT !.generation = 0, !.issue = FALSE, !.nativeIssue = FALSE]
  /\ aborted' = FALSE
  /\ stopCall' = "none"
  /\ settling' = 0
  /\ late' = FALSE
  /\ UNCHANGED <<control, inputs, receipts, released, result, frozen, starts, reconciled>>

Uncertain == {i \in Inputs : inputs[i].state \in {"delivery_unknown", "answer_intent"}}
StopProven == result.stop # "unconfirmed" \/ reconciled

\* Branches of reconcileStoredTasks, in the code's order.
AfterConflict == control.attention = "conflict"
AfterCancelledResult == result.status = "cancelled" /\ StopProven /\ Uncertain = {}
AfterProvenResult ==
  result.status # "none" /\ StopProven /\ (Uncertain = {} \/ reconciled)
QueuedBefore ==
  /\ control.native = "not_started"
  /\ control.phase = "queued" \/ control.attention = "recovered"

KeepFrozen == frozen' = TRUE /\ UNCHANGED <<control, inputs>>

FinishAs(outcome, finished) ==
  /\ control' = IF finished THEN control
                ELSE [control EXCEPT !.phase = "terminal", !.outcome = outcome]
  /\ inputs' = IF finished THEN inputs
               ELSE [i \in Inputs |-> Withdrawn(inputs[i])]
  /\ UNCHANGED frozen

LeaveUncertain ==
  /\ control' = [control EXCEPT !.phase = "needs_attention",
       !.attention = IF QueuedBefore THEN "recovered" ELSE "other",
       !.native = IF QueuedBefore THEN @ ELSE "unknown"]
  /\ inputs' = [i \in Inputs |-> Abandoned(inputs[i])]
  /\ frozen' = (frozen \/ ~QueuedBefore)

\* reconcileStoredTasks runs under the lease, before admission; it never
\* starts a worker.  A death before it ends leaves it to the next start, which
\* takes the same branch again.
Restart ==
  /\ service = "down"
  /\ service' = "up"
  /\ IF AfterConflict THEN KeepFrozen
     ELSE IF AfterCancelledResult
          THEN FinishAs("cancelled",
                        control.phase = "terminal" /\ control.outcome = "cancelled")
     ELSE IF AfterProvenResult
          THEN IF control.cancel /\ result.status = "completed" THEN KeepFrozen
               ELSE FinishAs(result.status, control.phase = "terminal")
     ELSE IF control.phase = "terminal" /\ result = NoResult THEN KeepFrozen
     ELSE LeaveUncertain
  /\ UNCHANGED <<receipts, lock, brokerVars, pc, run, aborted, stopCall, settling,
                 late, result, starts, crashes, reconciled, ack>>

-----------------------------------------------------------------------------
(* acknowledgeStoppedTask, under the task's mutex: four durable writes. *)

\* Mutant: the acknowledgement writes its own result over an existing one.
AckBeginAnew ==
  /\ ack = "none"
  /\ lock = "free"
  /\ stopCall = "none"
  /\ pc \in {"idle", "retaining"}
  /\ lock' = "operator"
  /\ control' = [control EXCEPT !.settled = "interrupted"]
  /\ ack' = "settled"
  /\ UNCHANGED <<inputs, receipts, brokerVars, execVars, service, crashes, reconciled>>

\* A task with a live entry is refused.  A missing result is settled first.
AckBegin ==
  /\ ack = "none"
  /\ lock = "free"
  /\ stopCall = "none"
  /\ pc \in {"idle", "retaining"}
  /\ lock' = "operator"
  /\ IF result = NoResult
     THEN control' = [control EXCEPT !.settled = "interrupted"] /\ ack' = "settled"
     ELSE ack' = "result" /\ UNCHANGED control
  /\ UNCHANGED <<inputs, receipts, brokerVars, execVars, service, crashes, reconciled>>

AckResult ==
  /\ ack = "settled"
  /\ result' = [status |-> "interrupted", stop |-> "unconfirmed"]
  /\ ack' = "result"
  /\ UNCHANGED <<controlVars, brokerVars, pc, run, aborted, stopCall, settling, late,
                 frozen, starts, service, crashes, reconciled>>

AckResource ==
  /\ ack = "result"
  /\ reconciled' = TRUE
  /\ ack' = "resource"
  /\ UNCHANGED <<controlVars, brokerVars, execVars, service, crashes>>

AckTerminal ==
  /\ ack = "resource"
  /\ control' = [control EXCEPT !.phase = "terminal", !.outcome = result.status]
  /\ inputs' = [i \in Inputs |-> Withdrawn(inputs[i])]
  /\ ack' = "safety"
  /\ UNCHANGED <<receipts, lock, brokerVars, execVars, service, crashes, reconciled>>

\* The freeze is lifted when no other task still needs it.
AckSafety ==
  /\ ack = "safety"
  /\ frozen' \in {frozen, FALSE}
  /\ lock' = "free"
  /\ ack' = "none"
  /\ UNCHANGED <<control, inputs, receipts, brokerVars, pc, run, aborted, stopCall,
                 settling, late, result, starts, service, crashes, reconciled>>

-----------------------------------------------------------------------------

ClientStep ==
  \E c \in Clients :
    \/ \E k \in Keys : ClientCancel(c, k) \/ ClientAdopt(c, k)
    \/ ClientCancelAgain(c)
    \/ ReleaseClient(c) /\ UNCHANGED <<brokerVars, execVars>>
    \/ \E i \in Inputs :
         /\ \/ Claim(c, i) \/ Dismiss(c, i)
            \/ \E k \in Keys : Answer(c, i, k)
         /\ UNCHANGED execVars

BrokerStep ==
  /\ \/ Release
     \/ \E i \in Inputs :
          \/ Publish(i) \/ PublishRefused(i)
          \/ WithdrawAborted(i) \/ RecordUndelivered(i)
  /\ UNCHANGED execVars

\* The worker's requests; it can only ask once it was started.
WorkerAsks ==
  /\ starts > 0
  /\ \E i \in Inputs : Reserve(i) \/ AbortRequest(i) \/ NativeWithdraw(i)
  /\ UNCHANGED execVars

WorkerReports ==
  \/ TurnStarted \/ TurnSettled \/ SettleTurn \/ ProcessObserved \/ RuntimeUnknown
  \/ LateEvent \/ EventDuringWrite
  \/ \E o \in Operations : OperationStarted(o) \/ OperationFinished(o)

\* The service's own continuations.
RunStep ==
  \/ Pump \/ RetainQueued \/ BeginPrepare \/ PrepareWorkspace \/ CommitStart
  \/ RunWorker \/ ReadEvidence \/ Admit \/ FinishRun \/ Recheck \/ BeginResult
  \/ WriteResult \/ FailResult \/ SettleResult \/ FreezeRun \/ LeaveRun

CancelStep == DispatchCancel \/ SettleRecoveredCancel

OperatorStep == AckBegin \/ AckResult \/ AckResource \/ AckTerminal \/ AckSafety

Next ==
  \/ /\ service = "up"
     /\ \/ ClientStep \/ BrokerStep \/ WorkerAsks \/ WorkerReports
        \/ RunStep \/ CancelStep \/ WorkerReturns \/ WorkerThrows
        \/ DropQueued \/ FreezeElsewhere
     /\ UNCHANGED lifeVars
  \/ service = "up" /\ OperatorStep
  \/ Crash
  \/ Restart

Spec == Init /\ [][Next]_vars

Up(A) == service = "up" /\ A /\ UNCHANGED lifeVars

\* Continuations of one Node process run unless the process dies; a worker
\* whose signal is aborted returns within its bounded cleanup.
Fairness ==
  /\ WF_vars(Up(RunStep))
  /\ WF_vars(Up(CancelStep))
  /\ WF_vars(Up(BrokerStep))
  /\ WF_vars(Up(aborted /\ WorkerReturns))

FairSpec == Spec /\ Fairness

-----------------------------------------------------------------------------
(* Properties. *)

\* The record every change publishes is one its schema accepts: an outcome
\* exactly when terminal, no unsettled input then, no cancelled completion.
\* A change that broke this would throw and leave the task stuck.
RecordDecodes ==
  /\ control.phase = "terminal" <=> control.outcome # "none"
  /\ control.phase = "terminal" => Unsettled(inputs) = {}
  /\ ~(control.cancel /\ control.outcome = "completed")

\* A claim is only held on a pending input, under the current generation and
\* owner: no adoption, cancellation or disconnect leaves a stale presenter.
ClaimsCurrent ==
  \A i \in Inputs : inputs[i].claim # NoClient =>
    /\ inputs[i].state = "pending"
    /\ inputs[i].claimGeneration = control.generation
    /\ OwnerOf[inputs[i].claim] = control.owner
    /\ ~control.cancel

\* The receipts tell the truth: "accepted" exactly for the stop intent in
\* force, "already_terminal" only once the outcome was decided.
ReceiptsTruthful ==
  /\ control.cancel <=> \E k \in Keys : receipts[k] = "accepted"
  /\ (\E k \in Keys : receipts[k] = "already_terminal") => Decided

\* However many adoptions and answers a task has seen, an undecided task can
\* still record its first cancellation.
CancelAlwaysFits ==
  ~control.cancel /\ ~Decided => Cardinality(Used) < MaxReceipts

\* An accepted cancellation is never overtaken by the worker's own outcome.
CancelWins ==
  control.cancel => result.status \in {"none", "cancelled", "interrupted"}

\* The saved result and the accepted settlement agree; a reader that found
\* them different would quarantine the task.
ResultAgrees ==
  result.status # "none" /\ control.settled # "none" =>
    result.status = control.settled

\* A terminal task has its immutable result, with the same outcome.
TerminalHasResult == control.phase = "terminal" => result.status = control.outcome

\* A saved completion rests on native evidence that still stands, or on
\* evidence that a late event contradicted and the record says so.
CompletionProven ==
  result.status = "completed" =>
    \/ control.attention = "conflict"
    \/ /\ control.coverage = "turn_scoped"
       /\ control.obligations = {}
       /\ Unsettled(inputs) = {}

\* An answer reaches its native waiter once at most, and only after its
\* intent is durable; a request withdrawn without an answer was not answered.
AnswerAfterIntent ==
  \A i \in Inputs :
    /\ released[i] <= 1
    /\ released[i] = 1 => /\ inputs[i].state \notin {"absent", "pending"}
                          /\ \E k \in Keys : receipts[k] = "answer_intent"

\* The worker of a task is started once in its life, and work that recovery
\* offers for cancellation and resubmission was never started.
NeverReplayed ==
  /\ starts <= 1
  /\ control.attention = "recovered" => starts = 0

\* A task that may have run and that no run owns any more is terminal or
\* keeps the whole repository frozen.
UncertaintyFreezes ==
  service = "up" /\ pc = "idle" /\ lock = "free" =>
    \/ control.phase = "terminal"
    \/ control.native = "not_started" /\ starts = 0
    \/ frozen

\* TaskLifecycle keeps the promises of TaskContract.
Contract == INSTANCE TaskContract WITH
  stopPromised <- control.cancel,
  published <- result.status,
  closed <- control.phase = "terminal"

KeepsContract == Contract!Spec

\* An accepted cancellation ends in a result, in a freeze that asks for an
\* operator, or in the death of the service.  One is left out: a task recovered
\* from the queue, whose cancellation was cut off by another death between its
\* receipt and its dispatch.  Such a task is neither queued nor frozen by the
\* next recovery, and waits for a client that repeats the cancellation
\* (recoverTask, #initialize).
CutOff == control.attention = "recovered" /\ stopCall = "none"

CancelSettles ==
  (control.cancel /\ ~CutOff) ~> (result.status # "none" \/ frozen \/ service = "down")

\* A worker's return is always worked off: the entry leaves the coordinator.
ReturnSettles == pc = "returned" ~> pc = "idle"
=============================================================================
