---------------------------- MODULE TaskExecution ----------------------------
(***************************************************************************)
(* The run of one task inside the service: Coordinator.#execute from the   *)
(* queue to the immutable result, the native events of its worker, and the *)
(* dispatch of accepted cancellations (src/core/coordinator.ts).           *)
(*                                                                         *)
(* #execute awaits between its steps, so clients, events and cancellation  *)
(* interleave with it everywhere except while it holds the task's mutex    *)
(* for the result (`lock' = "result").  `pc' says where the task's entry   *)
(* stands; "idle" means the coordinator has no entry for it.               *)
(*                                                                         *)
(* A native event is a step the worker may take at any time after it was   *)
(* started, also after it returned: that is what the code guards against.  *)
(***************************************************************************)
EXTENDS InputBroker

CONSTANT MaxTurns        \* bound on native turns

ASSUME TurnsConstants == MaxTurns \in Nat

VARIABLES
  pc,             \* where #execute stands
  run,            \* the locals of #execute that decide its result
  aborted,        \* entry.controller.signal.aborted
  stopCall,       \* where the call that accepted a cancellation stands
  settling,       \* the turn whose answers settleTurn has still to settle
  late,           \* a native event hit the publication, or its write failed
  result,         \* result.json: written once
  frozen,         \* the repository's safety freeze
  starts          \* history: how often a native worker was started

execVars == <<pc, run, aborted, stopCall, settling, late, result, frozen, starts>>
allVars == <<controlVars, brokerVars, execVars>>

Steps == {"idle", "queued", "retaining", "preparing", "workspace", "ready",
          "launching", "running", "returned", "evidence", "admitted", "closing",
          "fenced", "writing", "written", "freezing", "leaving"}
Stops == {"not_started", "confirmed", "unconfirmed"}
NoResult == [status |-> "none", stop |-> "not_started"]

ExecTypeOK ==
  /\ pc \in Steps
  /\ run \in [status : Outcomes, stop : Stops, generation : Nat,
              issue : BOOLEAN, nativeIssue : BOOLEAN]
  /\ aborted \in BOOLEAN
  /\ stopCall \in {"none", "committed", "result_written"}
  /\ settling \in Nat
  /\ late \in BOOLEAN
  /\ result \in [status : Outcomes \cup {"none"}, stop : Stops]
  /\ frozen \in BOOLEAN
  /\ starts \in Nat

ExecInit ==
  /\ pc = "queued"
  /\ run = [status |-> "failed", stop |-> "not_started", generation |-> 0,
            issue |-> FALSE, nativeIssue |-> FALSE]
  /\ aborted = FALSE
  /\ stopCall = "none"
  /\ settling = 0
  /\ late = FALSE
  /\ result = NoResult
  /\ frozen = FALSE
  /\ starts = 0

\* Runs that only move pc: everything else of the execution stays.
Goto(step) ==
  /\ pc' = step
  /\ UNCHANGED <<aborted, stopCall, settling, late, starts>>

\* The catch of #execute.
Caught(stop) ==
  /\ run' = [run EXCEPT !.status = IF aborted THEN "cancelled" ELSE "failed",
                        !.stop = stop]
  /\ Goto("closing")
  /\ UNCHANGED <<result, frozen>>

-----------------------------------------------------------------------------
(* Cancellation: the accepted receipt is durable, its dispatch is not. *)

\* cancelTask holds the task's association until its dispatch is done.
ClientCancel(c, k) ==
  /\ stopCall = "none"
  /\ \/ CancelTooLate(c, k) /\ UNCHANGED stopCall
     \/ CancelAccepted(c, k) /\ stopCall' = "committed"
  /\ UNCHANGED <<pc, run, aborted, settling, late, result, frozen, starts, brokerVars>>

\* A repeated cancel returns the saved receipt and dispatches the intent again.
ClientCancelAgain(c) ==
  /\ stopCall = "none"
  /\ lock = "free"
  /\ OwnerOf[c] = control.owner
  /\ control.cancel
  /\ stopCall' = "committed"
  /\ UNCHANGED <<pc, run, aborted, settling, late, result, frozen, starts,
                 controlVars, brokerVars>>

RecoveredQueue == control.native = "not_started" /\ control.attention = "recovered"

\* Mutant: only recovered tasks are stopped; a live entry is not aborted.
DispatchCancelWithoutAbort ==
  /\ stopCall = "committed"
  /\ stopCall' = "none"
  /\ UNCHANGED <<pc, run, aborted, settling, late, result, frozen, starts,
                 controlVars, brokerVars>>

\* dispatchCommittedCancellation: abort a live entry, else settle a recovered
\* never-started task, else leave it to reconciliation.  A result that exists
\* and differs makes the write fail.
DispatchCancel ==
  /\ stopCall = "committed"
  /\ IF pc \notin {"idle", "retaining"}
     THEN aborted' = TRUE /\ stopCall' = "none" /\ UNCHANGED result
     ELSE /\ UNCHANGED aborted
          /\ IF RecoveredQueue /\ result = NoResult
                  /\ control.settled \in {"none", "cancelled"}
             THEN /\ result' = [status |-> "cancelled", stop |-> "not_started"]
                  /\ stopCall' = "result_written"
             ELSE /\ stopCall' = IF RecoveredQueue /\ result.status = "cancelled"
                                 THEN "result_written" ELSE "none"
                  /\ UNCHANGED result
  /\ UNCHANGED <<pc, run, settling, late, frozen, starts, controlVars, brokerVars>>

SettleRecoveredCancel ==
  /\ stopCall = "result_written"
  /\ lock = "free"
  /\ control' = [control EXCEPT !.phase = "terminal", !.outcome = "cancelled",
                                !.attention = "none"]
  /\ stopCall' = "none"
  /\ UNCHANGED <<inputs, receipts, lock, pc, run, aborted, settling, late, result,
                 frozen, starts, brokerVars>>

\* attachTask and cancelTask exclude each other through the task association.
ClientAdopt(c, k) ==
  /\ stopCall = "none"
  /\ Adopt(c, k)
  /\ UNCHANGED <<execVars, brokerVars>>

-----------------------------------------------------------------------------
(* From the queue to the native start. *)

\* #kick: an aborted entry needs no slot; a frozen service starts nothing.
Pump ==
  /\ pc = "queued"
  /\ aborted \/ ~frozen
  /\ Goto("preparing")
  /\ UNCHANGED <<run, result, frozen, controlVars, brokerVars>>

\* shutdown of a frozen service drops the queue, then marks each task.
DropQueued ==
  /\ pc = "queued"
  /\ frozen
  /\ Goto("retaining")
  /\ UNCHANGED <<run, result, frozen, controlVars, brokerVars>>

RetainQueued ==
  /\ pc = "retaining"
  /\ lock = "free"
  /\ control' = IF control.outcome = "none"      \* else the schema refuses it
                THEN [control EXCEPT !.phase = "needs_attention",
                                     !.attention = "recovered"]
                ELSE control
  /\ Goto("idle")
  /\ UNCHANGED <<run, result, frozen, inputs, receipts, lock, brokerVars>>

BeginPrepare ==
  /\ pc = "preparing"
  /\ IF aborted
     THEN Caught("not_started") /\ UNCHANGED control
     ELSE /\ lock = "free"
          /\ control' = IF control.cancel THEN control
                        ELSE [control EXCEPT !.phase = "starting"]
          /\ IF control.cancel
             THEN Caught("not_started")
             ELSE Goto("workspace") /\ UNCHANGED <<run, result, frozen>>
  /\ UNCHANGED <<inputs, receipts, lock, brokerVars>>

\* Worktree preparation and the source digests: Git work that may fail, and
\* does when the signal is aborted.
PrepareWorkspace ==
  /\ pc = "workspace"
  /\ \/ ~aborted /\ Goto("ready") /\ UNCHANGED <<run, result, frozen>>
     \/ \E stop \in {"not_started", "unconfirmed"} : Caught(stop)
  /\ UNCHANGED <<controlVars, brokerVars>>

\* The run intent is durable before startup; the change refuses a cancelled task.
CommitStart ==
  /\ pc = "ready"
  /\ lock = "free"
  /\ IF aborted \/ control.cancel
     THEN Caught("not_started") /\ UNCHANGED control
     ELSE /\ control' = [control EXCEPT !.native = "unknown", !.phase = "active"]
          /\ run' = [run EXCEPT !.stop = "unconfirmed"]
          /\ Goto("launching")
          /\ UNCHANGED <<result, frozen>>
  /\ UNCHANGED <<inputs, receipts, lock, brokerVars>>

RunWorker ==
  /\ pc = "launching"
  /\ pc' = "running"
  /\ starts' = starts + 1
  /\ UNCHANGED <<run, aborted, stopCall, settling, late, result, frozen,
                 controlVars, brokerVars>>

-----------------------------------------------------------------------------
(* The worker: an external actor.  It reports, asks, and returns or throws. *)

WorkerReturns ==
  /\ pc = "running"
  /\ \E status \in Outcomes, stop \in Stops :
       run' = [run EXCEPT !.status = status, !.stop = stop]
  /\ Goto("returned")
  /\ UNCHANGED <<result, frozen, controlVars, brokerVars>>

WorkerThrows ==
  /\ pc = "running"
  /\ Caught("unconfirmed")
  /\ UNCHANGED <<controlVars, brokerVars>>

\* A native fact reported while the task is undecided.
Report(update) ==
  /\ starts > 0
  /\ lock = "free"
  /\ ~Decided
  /\ control' = update
  /\ UNCHANGED <<inputs, receipts, lock, brokerVars, pc, run, aborted, stopCall,
                 late, result, frozen, starts>>

TurnStarted ==
  /\ control.turn < MaxTurns
  /\ control.obligations = {}
  /\ \A i \in Inputs : inputs[i].state # "pending"
  /\ Report([control EXCEPT !.turn = @ + 1, !.native = "observed_live",
                            !.coverage = "unknown",
                            !.phase = IF control.cancel THEN @ ELSE "active"])
  /\ UNCHANGED settling

\* turn_settled: the coverage and the settlement of its answers are two changes.
TurnSettled ==
  /\ control.turn > 0
  /\ settling = 0
  /\ Report([control EXCEPT !.coverage = "turn_scoped"])
  /\ settling' = control.turn

SettleTurn ==
  /\ settling # 0
  /\ SettleAnswers(settling)
  /\ settling' = 0
  /\ UNCHANGED <<pc, run, aborted, stopCall, late, result, frozen, starts>>

OperationStarted(o) ==
  /\ o \notin control.obligations
  /\ Report([control EXCEPT !.obligations = @ \cup {o}])
  /\ UNCHANGED settling

OperationFinished(o) ==
  /\ o \in control.obligations
  /\ Report([control EXCEPT !.obligations = @ \ {o}])
  /\ UNCHANGED settling

ProcessObserved ==
  /\ Report([control EXCEPT !.native = "observed_live"])
  /\ UNCHANGED settling

RuntimeUnknown ==
  /\ Report([control EXCEPT !.native = "unknown", !.limitation = "unknown",
                 !.phase = IF control.cancel THEN @ ELSE "needs_attention"])
  /\ UNCHANGED settling

\* Any native event after the completion was decided but before its result.
LateEvent ==
  /\ starts > 0
  /\ lock = "free"
  /\ control.settled # "none"
  /\ control.phase # "terminal"
  /\ IF result = NoResult
     THEN /\ control' = [control EXCEPT !.native = "unknown", !.coverage = "unknown",
                           !.limitation = "late", !.phase = "needs_attention",
                           !.settled = "interrupted", !.attention = "other"]
          /\ UNCHANGED frozen
     ELSE frozen' = TRUE /\ UNCHANGED control
  /\ UNCHANGED <<inputs, receipts, lock, brokerVars, pc, run, aborted, stopCall,
                 settling, late, result, starts>>

\* Any native event while the immutable result is being written.
EventDuringWrite ==
  /\ pc \in {"writing", "written"}
  /\ starts > 0
  /\ late' = TRUE
  /\ UNCHANGED <<controlVars, brokerVars, pc, run, aborted, stopCall, settling,
                 result, frozen, starts>>

-----------------------------------------------------------------------------
(* From the worker's return to the immutable result. *)

\* The evidence is read here and used by the admission after further awaits.
ReadEvidence ==
  /\ pc = "returned"
  /\ lock = "free"
  /\ run' = [run EXCEPT !.generation = control.generation, !.status =
       IF control.cancel THEN "cancelled"
       ELSE IF @ = "completed" /\ ~EvidenceComplete THEN "failed"
       ELSE @]
  /\ Goto("evidence")
  /\ UNCHANGED <<result, frozen, controlVars, brokerVars>>

\* The mutex is first come, first served: the record of an undelivered answer
\* queues when the answer releases it, so evidence read complete after that
\* reaches the mutex later, and so does every step after this one.
Admit ==
  /\ pc = "evidence"
  /\ run.status = "completed" => undelivered = {}
  /\ AdmitCompletion(run.status, run.generation)
  /\ LET outcome == AdmittedOutcome(run.status, run.generation)
         nativeIncomplete == /\ control.settled = "none"
                             /\ run.status = "completed"
                             /\ ~EvidenceComplete
     IN run' = [run EXCEPT !.status = outcome,
                  !.issue = /\ outcome # run.status
                            /\ ~nativeIncomplete
                            /\ control.generation # run.generation]
  /\ Goto("admitted")
  /\ UNCHANGED <<result, frozen, brokerVars>>

\* Mutant: finalization waits for the freeze to be lifted.
FinishRunUnfrozen ==
  /\ pc = "admitted"
  /\ ~frozen
  /\ Goto("closing")
  /\ frozen' = (run.stop = "unconfirmed")
  /\ UNCHANGED <<run, result, controlVars, brokerVars>>

\* An unconfirmed stop freezes; otherwise the delivery is observed in Git.
FinishRun ==
  /\ pc = "admitted"
  /\ \/ /\ run.stop = "unconfirmed"
        /\ frozen' = TRUE
        /\ Goto("closing")
        /\ UNCHANGED <<run, result>>
     \/ /\ run.stop # "unconfirmed"
        /\ \/ Goto("closing") /\ UNCHANGED <<run, result, frozen>>
           \/ \E stop \in {run.stop, "unconfirmed"} : Caught(stop)
  /\ UNCHANGED <<controlVars, brokerVars>>

\* Mutant: the admission is not checked again.
RecheckedNever(r) == r

\* recheckCompletion: native facts that changed after the admission.
Rechecked(r) ==
  IF control.limitation = "late"
  THEN [r EXCEPT !.nativeIssue = TRUE,
                 !.status = IF @ = "completed" THEN "interrupted" ELSE @]
  ELSE IF r.status # "completed" THEN r
  ELSE IF \/ control.coverage # "turn_scoped"
          \/ control.obligations # {}
          \/ control.native = "unknown"
       THEN [r EXCEPT !.nativeIssue = TRUE, !.status = "interrupted"]
  ELSE IF control.settled # "completed"
       THEN [r EXCEPT !.issue = TRUE, !.status = "interrupted"]
  ELSE r

\* The second check and the last word of an accepted cancellation.
Recheck ==
  /\ pc = "closing"
  /\ lock = "free"
  /\ undelivered = {}
  /\ LET entering == [run EXCEPT !.status =
           IF run.stop = "unconfirmed" /\ @ = "completed" THEN "interrupted" ELSE @]
         checked == Rechecked(entering)
         status == IF control.cancel THEN "cancelled" ELSE checked.status
     IN /\ run' = [checked EXCEPT !.status = status]
        /\ control' = [control EXCEPT !.phase = "finalizing", !.settled = status]
  /\ Goto("fenced")
  /\ UNCHANGED <<inputs, receipts, lock, result, frozen, brokerVars>>

\* Mutant: a settlement that changed meanwhile is not written back.
BeginResultAsAdmitted ==
  /\ pc = "fenced"
  /\ lock = "free"
  /\ run' = Rechecked(run)
  /\ lock' = "result"
  /\ Goto("writing")
  /\ UNCHANGED <<control, inputs, receipts, result, frozen, brokerVars>>

\* withTaskMutation: the last check holds the mutex until the task is settled.
BeginResult ==
  /\ pc = "fenced"
  /\ lock = "free"
  /\ LET checked == Rechecked(run)
     IN /\ run' = checked
        /\ control' = [control EXCEPT !.phase = "finalizing",
                                      !.settled = checked.status]
  /\ lock' = "result"
  /\ Goto("writing")
  /\ UNCHANGED <<inputs, receipts, result, frozen, brokerVars>>

WriteResult ==
  /\ pc = "writing"
  /\ pc' = "written"
  /\ LET written == [status |-> run.status, stop |-> run.stop]
     IN IF result = NoResult
        THEN result' = written /\ late' \in {late, TRUE}   \* may fail once in place
        ELSE /\ UNCHANGED result                            \* RESULT_IMMUTABLE
             /\ late' = (late \/ result # written)
  /\ UNCHANGED <<run, aborted, stopCall, settling, frozen, starts,
                 controlVars, brokerVars>>

\* Mutant: the failed write is ignored.
FailResultIgnored ==
  /\ pc = "writing"
  /\ pc' = "written"
  /\ UNCHANGED <<run, aborted, stopCall, settling, late, result, frozen, starts,
                 controlVars, brokerVars>>

\* The write fails and leaves no file: #run freezes the service.
FailResult ==
  /\ pc = "writing"
  /\ lock' = "free"
  /\ late' = FALSE
  /\ pc' = "freezing"
  /\ UNCHANGED <<run, aborted, stopCall, settling, result, frozen, starts,
                 control, inputs, receipts, brokerVars>>

FinalNative ==
  IF control.limitation = "late" THEN "unknown"
  ELSE CASE run.stop = "confirmed" -> "stopped"
         [] run.stop = "not_started" -> "not_started"
         [] OTHER -> "unknown"

\* What keeps a written result from making the task terminal.
Unresolved(ins) ==
  \/ run.issue
  \/ run.nativeIssue
  \/ run.stop = "unconfirmed"
  \/ \E i \in Inputs : ins[i].state = "delivery_unknown"

\* The final control record, and the release of the mutex.
SettleResult ==
  /\ pc = "written"
  /\ lock' = "free"
  /\ late' = FALSE
  /\ LET final == [i \in Inputs |-> Abandoned(inputs[i])]
     IN IF late
        THEN /\ control' = [control EXCEPT !.native = "unknown", !.coverage = "unknown",
                  !.limitation = "unknown", !.phase = "needs_attention",
                  !.outcome = "none", !.attention = "conflict"]
             /\ UNCHANGED inputs
             /\ pc' = "freezing"
        ELSE /\ inputs' = final
             /\ IF Unresolved(final)
                THEN /\ control' = [control EXCEPT !.native = FinalNative,
                          !.phase = "needs_attention",
                          !.attention = IF run.nativeIssue /\ ~run.issue
                                        THEN "conflict" ELSE "other"]
                     /\ pc' = "freezing"
                ELSE /\ control' = [control EXCEPT !.native = FinalNative,
                          !.phase = "terminal", !.outcome = run.status]
                     /\ pc' = "leaving"
  /\ UNCHANGED <<receipts, brokerVars, run, aborted, stopCall, settling, result,
                 frozen, starts>>

\* Mutant: the unresolved task is left without a freeze.
FreezeRunForgotten ==
  /\ pc = "freezing"
  /\ Goto("leaving")
  /\ UNCHANGED <<run, result, frozen, controlVars, brokerVars>>

FreezeRun ==
  /\ pc = "freezing"
  /\ frozen' = TRUE
  /\ Goto("leaving")
  /\ UNCHANGED <<run, result, controlVars, brokerVars>>

\* Mutant: the entry is put back into the queue.
LeaveRunToQueue ==
  /\ pc = "leaving"
  /\ Goto("queued")
  /\ UNCHANGED <<run, result, frozen, controlVars, brokerVars>>

\* #run: the entry leaves the coordinator.
LeaveRun ==
  /\ pc = "leaving"
  /\ Goto("idle")
  /\ UNCHANGED <<run, result, frozen, controlVars, brokerVars>>

\* Another task of the repository froze the service.
FreezeElsewhere ==
  /\ ~frozen
  /\ frozen' = TRUE
  /\ UNCHANGED <<pc, run, aborted, stopCall, settling, late, result, starts,
                 controlVars, brokerVars>>
=============================================================================
