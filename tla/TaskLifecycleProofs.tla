------------------------- MODULE TaskLifecycleProofs -------------------------
(***************************************************************************)
(* Type correctness of a task's life for all clients, keys, inputs,        *)
(* operations and bounds: one lemma per group of actions, each with one    *)
(* step per action.                                                        *)
(***************************************************************************)
EXTENDS TaskLifecycle, TLAPS

-----------------------------------------------------------------------------
(* Type correctness *)

\* The members of the enumerated sets, so that proofs need not expand them.
LEMMA Names ==
  /\ \A s \in {"queued", "starting", "active", "awaiting_input", "needs_attention",
               "stopping", "finalizing", "terminal"} : s \in Phases
  /\ \A s \in {"completed", "blocked", "failed", "cancelled", "interrupted"} :
       s \in Outcomes
  /\ \A s \in {"not_started", "observed_live", "stopped", "unknown"} : s \in NativeStates
  /\ \A s \in {"absent", "pending", "answer_intent", "delivery_unknown",
               "settled", "withdrawn"} : s \in InputStates
  /\ \A s \in {"accepted", "already_terminal", "adopted", "answer_intent"} :
       s \in ReceiptKinds
  /\ \A s \in {"none", "late", "unknown"} : s \in Limitations
  /\ \A s \in {"none", "recovered", "conflict", "other"} : s \in Attentions
  /\ \A s \in {"idle", "reserved", "published", "aborting", "closed"} :
       s \in RequestStates
  /\ \A s \in {"not_started", "confirmed", "unconfirmed"} : s \in Stops
BY DEF Phases, Outcomes, NativeStates, InputStates, ReceiptKinds, Limitations,
       Attentions, RequestStates, Stops

\* The steps of a run that proofs name are steps.
LEMMA StepNames ==
  \A s \in {"idle", "queued", "retaining", "preparing", "workspace", "ready",
            "launching", "running", "returned", "evidence", "admitted", "closing",
            "fenced", "writing", "written", "freezing", "leaving"} : s \in Steps
BY DEF Steps

\* Giving up a claim keeps an input well typed.
LEMMA UnclaimedType == ASSUME NEW in \in Input PROVE Unclaimed(in) \in Input
BY DEF Unclaimed, Input

\* Abandoning an input keeps it well typed.
LEMMA AbandonedType == ASSUME NEW in \in Input PROVE Abandoned(in) \in Input
BY UnclaimedType DEF Abandoned, Input, InputStates

\* Withdrawing an input keeps it well typed.
LEMMA WithdrawnType == ASSUME NEW in \in Input PROVE Withdrawn(in) \in Input
BY UnclaimedType DEF Withdrawn, Input, InputStates

\* Changing the state of one input keeps all inputs well typed.
LEMMA SetStateType ==
  ASSUME NEW in \in Input, NEW s \in InputStates
  PROVE  [in EXCEPT !.state = s] \in Input
BY DEF Input

\* A claim of a client keeps the inputs well typed.
LEMMA ClaimType ==
  ASSUME NEW in \in Input, NEW c \in Clients, NEW g \in Nat
  PROVE  [in EXCEPT !.claim = c, !.claimGeneration = g] \in Input
BY DEF Input

\* An adoption keeps the record well typed.
LEMMA AdoptedType ==
  ASSUME NEW r \in Control, NEW o \in Owners, NEW g \in Nat \ {0}
  PROVE  [r EXCEPT !.owner = o, !.generation = g] \in Control
BY DEF Control

\* A new turn keeps the record well typed.
LEMMA TurnType ==
  ASSUME NEW r \in Control, NEW t \in Nat, NEW ph \in Phases
  PROVE  [r EXCEPT !.turn = t, !.native = "observed_live", !.coverage = "unknown",
                   !.phase = ph] \in Control
BY Names DEF Control

\* The two records that lose their native evidence: a late event's and the
\* one of a publication that conflicts.
LEMMA EvidenceLostType ==
  ASSUME NEW r \in Control, NEW l \in Limitations
  PROVE  /\ [r EXCEPT !.native = "unknown", !.coverage = "unknown",
                !.limitation = l, !.phase = "needs_attention",
                !.settled = "interrupted", !.attention = "other"] \in Control
         /\ [r EXCEPT !.native = "unknown", !.coverage = "unknown",
                !.limitation = l, !.phase = "needs_attention",
                !.outcome = "none", !.attention = "conflict"] \in Control
<1> DEFINE lost == [r EXCEPT !.native = "unknown", !.coverage = "unknown",
                             !.limitation = l]
<1>1. lost \in Control BY Names DEF Control
<1> HIDE DEF lost
<1>2. /\ [lost EXCEPT !.phase = "needs_attention", !.settled = "interrupted",
                      !.attention = "other"] \in Control
      /\ [lost EXCEPT !.phase = "needs_attention", !.outcome = "none",
                      !.attention = "conflict"] \in Control
  BY <1>1, Names DEF Control
<1> QED BY <1>2 DEF lost

\* The records of a start, of a decision and of an end.
LEMMA DecidedType ==
  ASSUME NEW r \in Control, NEW o \in Outcomes \cup {"none"}
  PROVE  /\ [r EXCEPT !.native = "unknown", !.phase = "active"] \in Control
         /\ [r EXCEPT !.phase = "finalizing", !.settled = o] \in Control
         /\ [r EXCEPT !.phase = "terminal", !.outcome = o] \in Control
<1>1. [r EXCEPT !.native = "unknown", !.phase = "active"] \in Control
  BY Names DEF Control
<1>2. [r EXCEPT !.phase = "finalizing", !.settled = o] \in Control
  BY Names DEF Control
<1>3. [r EXCEPT !.phase = "terminal", !.outcome = o] \in Control
  BY Names DEF Control
<1> QED BY <1>1, <1>2, <1>3

\* A task just accepted is well typed.
LEMMA InitType == Init => TypeOK
<1> SUFFICES ASSUME Init PROVE TypeOK
  OBVIOUS
<1> USE Names, StepNames DEF Init
<1>1. control \in Control BY DEF ControlInit, Control, Owners
<1>2. NewInput \in Input BY DEF NewInput, Input
<1>3. ControlTypeOK BY <1>1, <1>2 DEF ControlInit, ControlTypeOK
<1>4. BrokerTypeOK BY DEF BrokerInit, BrokerTypeOK
<1>5. ExecTypeOK BY DEF ExecInit, ExecTypeOK, NoResult
<1>6. 0 \in 0..MaxCrashes BY CrashConstants
<1> QED BY <1>3, <1>4, <1>5, <1>6 DEF TypeOK

\* What clients do keeps the types.
LEMMA ClientType ==
  ASSUME TypeOK, ClientStep, UNCHANGED lifeVars
  PROVE  TypeOK'
<1> USE TaskConstants, Names
    DEF TypeOK, ControlTypeOK, BrokerTypeOK, ExecTypeOK, lifeVars, controlVars,
        brokerVars, execVars
<1>1. ASSUME NEW c \in Clients, NEW k \in Keys, ClientCancel(c, k) PROVE TypeOK'
  <2>1. CASE CancelTooLate(c, k) BY <1>1, <2>1 DEF ClientCancel, CancelTooLate
  <2>2. CASE CancelAccepted(c, k)
    <3>1. control' \in Control BY <2>2 DEF CancelAccepted, Control
    <3>2. inputs' \in [Inputs -> Input]
      BY <2>2, UnclaimedType, SetStateType DEF CancelAccepted, Input
    <3> QED BY <1>1, <2>2, <3>1, <3>2 DEF ClientCancel, CancelAccepted
  <2> QED BY <1>1, <2>1, <2>2 DEF ClientCancel
<1>2. ASSUME NEW c \in Clients, NEW k \in Keys, ClientAdopt(c, k) PROVE TypeOK'
  <2>1. OwnerOf[c] \in Owners /\ control.generation + 1 \in Nat \ {0}
    BY DEF Owners, Control
  <2>2. control' \in Control BY <1>2, <2>1, AdoptedType DEF ClientAdopt, Adopt
  <2>3. inputs' \in [Inputs -> Input] BY <1>2, UnclaimedType DEF ClientAdopt, Adopt
  <2> QED BY <1>2, <2>2, <2>3 DEF ClientAdopt, Adopt
<1>3. ASSUME NEW c \in Clients, ClientCancelAgain(c) PROVE TypeOK'
  BY <1>3 DEF ClientCancelAgain
<1>4. ASSUME NEW c \in Clients, ReleaseClient(c), UNCHANGED <<brokerVars, execVars>>
      PROVE TypeOK'
  BY <1>4, UnclaimedType DEF ReleaseClient
<1>5. ASSUME NEW c \in Clients, NEW i \in Inputs, Claim(c, i), UNCHANGED execVars
      PROVE TypeOK'
  <2>1. control.generation \in Nat BY DEF Control
  <2>2. inputs' \in [Inputs -> Input] BY <1>5, <2>1, ClaimType DEF Claim
  <2> QED BY <1>5, <2>2 DEF Claim
<1>6. ASSUME NEW c \in Clients, NEW i \in Inputs, Dismiss(c, i), UNCHANGED execVars
      PROVE TypeOK'
  BY <1>6, UnclaimedType DEF Dismiss
<1>7. ASSUME NEW c \in Clients, NEW i \in Inputs, NEW k \in Keys, Answer(c, i, k),
             UNCHANGED execVars
      PROVE TypeOK'
  <2>1. control' \in Control BY <1>7 DEF Answer, Control
  <2>2. inputs' \in [Inputs -> Input] BY <1>7, UnclaimedType, SetStateType DEF Answer
  <2> QED BY <1>7, <2>1, <2>2 DEF Answer
<1> QED BY <1>1, <1>2, <1>3, <1>4, <1>5, <1>6, <1>7 DEF ClientStep

\* The continuations of requests and answers keep the types.
LEMMA BrokerType ==
  ASSUME TypeOK, BrokerStep \/ WorkerAsks, UNCHANGED lifeVars
  PROVE  TypeOK'
<1> USE Names
    DEF TypeOK, ControlTypeOK, BrokerTypeOK, ExecTypeOK, lifeVars, controlVars,
        brokerVars, execVars
<1>1. ASSUME Release, UNCHANGED execVars PROVE TypeOK'
  BY <1>1 DEF Release
<1>2. ASSUME NEW i \in Inputs, Publish(i), UNCHANGED execVars PROVE TypeOK'
  <2>1. PICK attention \in BOOLEAN : PublishRequest(i, attention)
    BY <1>2 DEF Publish
  <2>2. control' \in Control BY <2>1 DEF PublishRequest, Control
  <2>3. [NewInput EXCEPT !.state = "pending", !.turn = control.turn] \in Input
    BY DEF NewInput, Input, Control
  <2>4. inputs' \in [Inputs -> Input] BY <2>1, <2>3 DEF PublishRequest
  <2> QED BY <1>2, <2>1, <2>2, <2>4 DEF Publish, PublishRequest
<1>3. ASSUME NEW i \in Inputs, PublishRefused(i), UNCHANGED execVars PROVE TypeOK'
  BY <1>3 DEF PublishRefused
<1>4. ASSUME NEW i \in Inputs, WithdrawAborted(i), UNCHANGED execVars PROVE TypeOK'
  <2>1. inputs' \in [Inputs -> Input]
    BY <1>4, UnclaimedType, SetStateType DEF WithdrawAborted
  <2> QED BY <1>4, <2>1 DEF WithdrawAborted
<1>5. ASSUME NEW i \in Inputs, RecordUndelivered(i), UNCHANGED execVars PROVE TypeOK'
  <2>1. control' \in Control BY <1>5 DEF RecordUndelivered, Control
  <2>2. inputs' \in [Inputs -> Input] BY <1>5, SetStateType DEF RecordUndelivered
  <2> QED BY <1>5, <2>1, <2>2 DEF RecordUndelivered
<1>6. ASSUME NEW i \in Inputs, Reserve(i) \/ AbortRequest(i), UNCHANGED execVars
      PROVE  TypeOK'
  BY <1>6 DEF Reserve, AbortRequest
<1>7. ASSUME NEW i \in Inputs, NativeWithdraw(i), UNCHANGED execVars PROVE TypeOK'
  <2>1. inputs' \in [Inputs -> Input]
    BY <1>7, UnclaimedType, SetStateType DEF NativeWithdraw
  <2> QED BY <1>7, <2>1 DEF NativeWithdraw
<1> QED BY <1>1, <1>2, <1>3, <1>4, <1>5, <1>6, <1>7 DEF BrokerStep, WorkerAsks

\* What the worker asks and reports keeps the types.
LEMMA WorkerType ==
  ASSUME TypeOK, WorkerReports, UNCHANGED lifeVars
  PROVE  TypeOK'
<1> USE Names
    DEF TypeOK, ControlTypeOK, BrokerTypeOK, ExecTypeOK, lifeVars, controlVars,
        brokerVars, execVars
<1>1. ASSUME NEW update, Report(update), update \in Control, settling' \in Nat
      PROVE  TypeOK'
  BY <1>1 DEF Report
<1>2. CASE TurnStarted
  <2>1. /\ control.turn + 1 \in Nat
        /\ (IF control.cancel THEN control.phase ELSE "active") \in Phases
    BY DEF Control
  <2>2. [control EXCEPT !.turn = @ + 1, !.native = "observed_live",
           !.coverage = "unknown",
           !.phase = IF control.cancel THEN @ ELSE "active"] \in Control
    BY <2>1, TurnType
  <2> QED BY <1>1, <1>2, <2>2 DEF TurnStarted
<1>3. CASE TurnSettled
  <2>1. [control EXCEPT !.coverage = "turn_scoped"] \in Control /\ control.turn \in Nat
    BY DEF Control
  <2> QED BY <1>1, <1>3, <2>1 DEF TurnSettled
<1>4. CASE SettleTurn
  <2>1. inputs' \in [Inputs -> Input]
    BY <1>4, SetStateType DEF SettleTurn, SettleAnswers
  <2> QED BY <1>4, <2>1 DEF SettleTurn, SettleAnswers
<1>5. CASE ProcessObserved
  <2>1. [control EXCEPT !.native = "observed_live"] \in Control BY DEF Control
  <2> QED BY <1>1, <1>5, <2>1 DEF ProcessObserved
<1>6. CASE RuntimeUnknown
  <2>1. [control EXCEPT !.native = "unknown", !.limitation = "unknown",
           !.phase = IF control.cancel THEN @ ELSE "needs_attention"] \in Control
    BY DEF Control
  <2> QED BY <1>1, <1>6, <2>1 DEF RuntimeUnknown
<1>7. CASE LateEvent
  <2> DEFINE lost == [control EXCEPT !.native = "unknown", !.coverage = "unknown",
                           !.limitation = "late", !.phase = "needs_attention",
                           !.settled = "interrupted", !.attention = "other"]
  <2>1. lost \in Control BY EvidenceLostType
  <2>2. control' \in {control, lost} BY <1>7 DEF LateEvent
  <2> HIDE DEF lost
  <2>3. control' \in Control BY <2>1, <2>2
  <2>4. /\ frozen' \in BOOLEAN
        /\ UNCHANGED <<inputs, receipts, lock, brokerVars, pc, run, aborted, stopCall,
                       settling, late, result, starts>>
    BY <1>7 DEF LateEvent
  <2> QED BY <2>3, <2>4
<1>8. CASE EventDuringWrite BY <1>8 DEF EventDuringWrite
<1>9. ASSUME NEW o \in Operations, OperationStarted(o) PROVE TypeOK'
  <2>1. [control EXCEPT !.obligations = @ \cup {o}] \in Control BY DEF Control
  <2> QED BY <1>1, <1>9, <2>1 DEF OperationStarted
<1>10. ASSUME NEW o \in Operations, OperationFinished(o) PROVE TypeOK'
  <2>1. [control EXCEPT !.obligations = @ \ {o}] \in Control BY DEF Control
  <2> QED BY <1>1, <1>10, <2>1 DEF OperationFinished
<1> QED BY <1>2, <1>3, <1>4, <1>5, <1>6, <1>7, <1>8, <1>9, <1>10 DEF WorkerReports

\* A failed run is settled with a well-typed run.
LEMMA CaughtType ==
  ASSUME TypeOK, NEW stop \in Stops, Caught(stop)
  PROVE  ExecTypeOK'
<1>1. run' \in [status : Outcomes, stop : Stops, generation : Nat,
               issue : BOOLEAN, nativeIssue : BOOLEAN]
  BY Names DEF TypeOK, ExecTypeOK, Caught
<1> QED BY <1>1, StepNames DEF TypeOK, ExecTypeOK, Caught, Goto

\* The second check of a completion yields a well-typed run.
LEMMA RecheckedType ==
  ASSUME TypeOK,
         NEW r \in [status : Outcomes, stop : Stops, generation : Nat,
                    issue : BOOLEAN, nativeIssue : BOOLEAN]
  PROVE  Rechecked(r) \in [status : Outcomes, stop : Stops, generation : Nat,
                           issue : BOOLEAN, nativeIssue : BOOLEAN]
BY Names DEF Rechecked

\* The durable fence admits an outcome.
LEMMA AdmittedType ==
  ASSUME TypeOK, NEW requested \in Outcomes, NEW seen \in Nat
  PROVE  AdmittedOutcome(requested, seen) \in Outcomes
BY Names DEF AdmittedOutcome, TypeOK, ControlTypeOK, Control

\* Every continuation of the run keeps the types.
LEMMA RunType ==
  ASSUME TypeOK, RunStep \/ DropQueued \/ WorkerReturns \/ WorkerThrows
                 \/ FreezeElsewhere,
         UNCHANGED lifeVars
  PROVE  TypeOK'
<1> USE Names, StepNames
    DEF TypeOK, ControlTypeOK, BrokerTypeOK, ExecTypeOK, lifeVars, controlVars,
        brokerVars, execVars, Goto
<1>1. CASE Pump \/ DropQueued \/ RunWorker \/ FreezeRun \/ LeaveRun \/ FreezeElsewhere
  <2>1. CASE Pump BY <2>1 DEF Pump
  <2>2. CASE DropQueued BY <2>2 DEF DropQueued
  <2>3. CASE RunWorker BY <2>3 DEF RunWorker
  <2>4. CASE FreezeRun BY <2>4 DEF FreezeRun
  <2>5. CASE LeaveRun BY <2>5 DEF LeaveRun
  <2>6. CASE FreezeElsewhere BY <2>6 DEF FreezeElsewhere
  <2> QED BY <1>1, <2>1, <2>2, <2>3, <2>4, <2>5, <2>6
<1>2. CASE RetainQueued
  <2>1. control' \in Control BY <1>2 DEF RetainQueued, Control
  <2> QED BY <1>2, <2>1 DEF RetainQueued
<1>3. CASE BeginPrepare
  <2>1. control' \in Control BY <1>3 DEF BeginPrepare, Control
  <2>2. ExecTypeOK' BY <1>3, CaughtType DEF BeginPrepare
  <2> QED BY <1>3, <2>1, <2>2 DEF BeginPrepare
<1>4. CASE PrepareWorkspace
  <2>2. ExecTypeOK' BY <1>4, CaughtType DEF PrepareWorkspace
  <2> QED BY <1>4, <2>2 DEF PrepareWorkspace
<1>5. CASE CommitStart
  <2>1. control' \in Control BY <1>5, DecidedType DEF CommitStart
  <2>2. CASE aborted \/ control.cancel
    <3>1. ExecTypeOK' BY <1>5, <2>2, CaughtType DEF CommitStart
    <3> QED BY <1>5, <2>1, <3>1 DEF CommitStart
  <2>3. CASE ~(aborted \/ control.cancel)
    BY <1>5, <2>1, <2>3 DEF CommitStart
  <2> QED BY <2>2, <2>3
<1>6. CASE WorkerReturns
  <2>1. run' \in [status : Outcomes, stop : Stops, generation : Nat,
                  issue : BOOLEAN, nativeIssue : BOOLEAN]
    BY <1>6 DEF WorkerReturns
  <2>2. UNCHANGED <<aborted, stopCall, settling, late, starts, result, frozen,
                    controlVars, brokerVars>> /\ pc' = "returned"
    BY <1>6 DEF WorkerReturns
  <2> QED BY <2>1, <2>2
<1>7. CASE WorkerThrows
  <2>1. ExecTypeOK' BY <1>7, CaughtType DEF WorkerThrows
  <2>2. UNCHANGED <<controlVars, brokerVars>> BY <1>7 DEF WorkerThrows
  <2> QED BY <2>1, <2>2
<1>8. CASE ReadEvidence
  <2>1. control.generation \in Nat BY DEF Control
  <2>2. PICK status \in Outcomes :
          run' = [run EXCEPT !.generation = control.generation, !.status = status]
    BY <1>8 DEF ReadEvidence
  <2>3. run' \in [status : Outcomes, stop : Stops, generation : Nat,
                  issue : BOOLEAN, nativeIssue : BOOLEAN]
    BY <2>1, <2>2
  <2>4. pc' \in Steps /\ UNCHANGED <<aborted, stopCall, settling, late, result, frozen, starts,
                                    controlVars, brokerVars>>
    BY <1>8 DEF ReadEvidence
  <2> QED BY <2>3, <2>4
<1>9. CASE Admit
  <2>1. AdmittedOutcome(run.status, run.generation) \in Outcomes BY AdmittedType
  <2>2. control' \in Control BY <1>9, <2>1, DecidedType DEF Admit, AdmitCompletion
  <2>3. PICK issue \in BOOLEAN :
          run' = [run EXCEPT !.status = AdmittedOutcome(run.status, run.generation),
                             !.issue = issue]
    BY <1>9 DEF Admit
  <2>4. run' \in [status : Outcomes, stop : Stops, generation : Nat,
                  issue : BOOLEAN, nativeIssue : BOOLEAN]
    BY <2>1, <2>3
  <2>5. pc' \in Steps /\ UNCHANGED <<aborted, stopCall, settling, late, result, frozen, starts,
                                    inputs, receipts, lock, brokerVars>>
    BY <1>9 DEF Admit, AdmitCompletion
  <2> QED BY <2>2, <2>4, <2>5
<1>10. CASE FinishRun
  <2>1. CASE run.stop = "unconfirmed" /\ frozen' = TRUE /\ Goto("closing")
             /\ UNCHANGED <<run, result>>
    BY <1>10, <2>1 DEF FinishRun
  <2>2. CASE Goto("closing") /\ UNCHANGED <<run, result, frozen>>
    BY <1>10, <2>2 DEF FinishRun
  <2>3. ASSUME NEW stop \in {run.stop, "unconfirmed"}, Caught(stop) PROVE TypeOK'
    <3>1. ExecTypeOK' BY <2>3, CaughtType
    <3> QED BY <1>10, <3>1 DEF FinishRun
  <2> QED BY <1>10, <2>1, <2>2, <2>3 DEF FinishRun
<1>11. CASE Recheck
  <2> DEFINE entering == [run EXCEPT !.status =
                 IF run.stop = "unconfirmed" /\ @ = "completed"
                 THEN "interrupted" ELSE @]
             status == IF control.cancel THEN "cancelled"
                       ELSE Rechecked(entering).status
  <2>1. entering \in [status : Outcomes, stop : Stops, generation : Nat,
                      issue : BOOLEAN, nativeIssue : BOOLEAN]
    OBVIOUS
  <2>2. Rechecked(entering) \in [status : Outcomes, stop : Stops, generation : Nat,
                                 issue : BOOLEAN, nativeIssue : BOOLEAN]
    BY <2>1, RecheckedType
  <2>3. status \in Outcomes BY <2>2
  <2>4. /\ run' = [Rechecked(entering) EXCEPT !.status = status]
        /\ control' = [control EXCEPT !.phase = "finalizing", !.settled = status]
    BY <1>11 DEF Recheck
  <2> HIDE DEF entering, status
  <2>5. run' \in [status : Outcomes, stop : Stops, generation : Nat,
                  issue : BOOLEAN, nativeIssue : BOOLEAN]
    BY <2>2, <2>3, <2>4
  <2>6. control' \in Control BY <2>3, <2>4 DEF Control
  <2> QED BY <1>11, <2>5, <2>6 DEF Recheck
<1>12. CASE BeginResult
  <2>1. Rechecked(run) \in [status : Outcomes, stop : Stops, generation : Nat,
                            issue : BOOLEAN, nativeIssue : BOOLEAN]
    BY RecheckedType
  <2>2. control' \in Control BY <1>12, <2>1, DecidedType DEF BeginResult
  <2> QED BY <1>12, <2>1, <2>2 DEF BeginResult
<1>13. CASE WriteResult
  <2>1. [status |-> run.status, stop |-> run.stop]
          \in [status : Outcomes \cup {"none"}, stop : Stops]
    OBVIOUS
  <2>2. result' \in {result, [status |-> run.status, stop |-> run.stop]}
    BY <1>13 DEF WriteResult
  <2>3. result' \in [status : Outcomes \cup {"none"}, stop : Stops]
    BY <2>1, <2>2
  <2>4. late' \in BOOLEAN
    BY <1>13 DEF WriteResult
  <2>5. pc' \in Steps /\ UNCHANGED <<run, aborted, stopCall, settling, frozen, starts,
                                    controlVars, brokerVars>>
    BY <1>13 DEF WriteResult
  <2> QED BY <2>3, <2>4, <2>5
<1>14. CASE FailResult
  <2>1. ControlTypeOK' BY <1>14 DEF FailResult
  <2>2. BrokerTypeOK' BY <1>14 DEF FailResult
  <2>3. ExecTypeOK' BY <1>14 DEF FailResult
  <2> QED BY <2>1, <2>2, <2>3
<1>15. CASE SettleResult
  <2>1. FinalNative \in NativeStates BY DEF FinalNative
  <2> DEFINE lost == [control EXCEPT !.native = "unknown", !.coverage = "unknown",
                  !.limitation = "unknown", !.phase = "needs_attention",
                  !.outcome = "none", !.attention = "conflict"]
             kept(a) == [control EXCEPT !.native = FinalNative,
                  !.phase = "needs_attention", !.attention = a]
             done == [control EXCEPT !.native = FinalNative, !.phase = "terminal",
                  !.outcome = run.status]
  <2>2. lost \in Control BY EvidenceLostType
  <2>3. kept("conflict") \in Control /\ kept("other") \in Control
    BY <2>1 DEF Control
  <2>4. done \in Control BY <2>1 DEF Control
  <2>5. control' \in {lost, kept("conflict"), kept("other"), done}
    BY <1>15, ZenonT(30) DEF SettleResult
  <2>6. /\ inputs' \in {inputs, [i \in Inputs |-> Abandoned(inputs[i])]}
        /\ pc' \in {"freezing", "leaving"}
        /\ lock' = "free" /\ late' = FALSE
        /\ UNCHANGED <<receipts, brokerVars, run, aborted, stopCall, settling, result,
                       frozen, starts>>
    BY <1>15, ZenonT(30) DEF SettleResult
  <2> HIDE DEF lost, kept, done
  <2>7. control' \in Control BY <2>2, <2>3, <2>4, <2>5
  <2>8. inputs' \in [Inputs -> Input] BY <2>6, AbandonedType
  <2>9. ControlTypeOK' BY <2>6, <2>7, <2>8
  <2>10. BrokerTypeOK' BY <2>6
  <2>11. ExecTypeOK' BY <2>6
  <2> QED BY <2>9, <2>10, <2>11
<1> QED BY <1>1, <1>2, <1>3, <1>4, <1>5, <1>6, <1>7, <1>8, <1>9, <1>10, <1>11,
           <1>12, <1>13, <1>14, <1>15
        DEF RunStep

\* The dispatch of a cancellation keeps the types.
LEMMA CancelType ==
  ASSUME TypeOK, CancelStep, UNCHANGED lifeVars
  PROVE  TypeOK'
<1> USE Names
    DEF TypeOK, ControlTypeOK, BrokerTypeOK, ExecTypeOK, lifeVars, controlVars,
        brokerVars
<1>1. CASE DispatchCancel
  <2>1. result' \in [status : Outcomes \cup {"none"}, stop : Stops]
    BY <1>1 DEF DispatchCancel
  <2>2. stopCall' \in {"none", "result_written"} /\ aborted' \in BOOLEAN
    BY <1>1 DEF DispatchCancel
  <2> QED BY <1>1, <2>1, <2>2 DEF DispatchCancel
<1>2. CASE SettleRecoveredCancel
  <2>1. control' \in Control BY <1>2 DEF SettleRecoveredCancel, Control
  <2> QED BY <1>2, <2>1 DEF SettleRecoveredCancel
<1> QED BY <1>1, <1>2 DEF CancelStep

\* The acknowledgement of an operator keeps the types.
LEMMA OperatorType ==
  ASSUME TypeOK, OperatorStep
  PROVE  TypeOK'
<1> USE Names
    DEF TypeOK, ControlTypeOK, BrokerTypeOK, ExecTypeOK, controlVars, brokerVars,
        execVars
<1>1. CASE AckBegin
  <2>1. control' \in Control BY <1>1 DEF AckBegin, Control
  <2> QED BY <1>1, <2>1 DEF AckBegin
<1>2. CASE AckResult BY <1>2 DEF AckResult
<1>3. CASE AckResource BY <1>3 DEF AckResource
<1>4. CASE AckTerminal
  <2>1. control' \in Control BY <1>4, DecidedType DEF AckTerminal
  <2>2. inputs' \in [Inputs -> Input] BY <1>4, WithdrawnType DEF AckTerminal
  <2>3. ack' = "safety" /\ UNCHANGED <<receipts, lock, brokerVars, execVars, service, crashes,
                                       reconciled>>
    BY <1>4 DEF AckTerminal
  <2> QED BY <2>1, <2>2, <2>3
<1>5. CASE AckSafety
  <2>1. frozen' \in BOOLEAN /\ lock' = "free" /\ ack' = "none"
    BY <1>5 DEF AckSafety
  <2>2. UNCHANGED <<control, inputs, receipts, brokerVars, pc, run, aborted, stopCall, settling,
                    late, result, starts, service, crashes, reconciled>>
    BY <1>5 DEF AckSafety
  <2>3. ControlTypeOK' BY <2>1, <2>2
  <2>4. BrokerTypeOK' BY <2>2
  <2>5. ExecTypeOK' BY <2>1, <2>2
  <2> QED BY <2>1, <2>2, <2>3, <2>4, <2>5
<1> QED BY <1>1, <1>2, <1>3, <1>4, <1>5 DEF OperatorStep

\* The death of the service keeps the types.
LEMMA CrashType == ASSUME TypeOK, Crash PROVE TypeOK'
<1> USE Names, StepNames DEF TypeOK, ControlTypeOK, BrokerTypeOK, ExecTypeOK
<1>1. run' \in [status : Outcomes, stop : Stops, generation : Nat,
                  issue : BOOLEAN, nativeIssue : BOOLEAN]
  BY DEF Crash
<1>2. crashes' \in 0..MaxCrashes BY CrashConstants DEF Crash
<1>3. ControlTypeOK' BY DEF Crash
<1>4. BrokerTypeOK' BY DEF Crash
<1>5. ExecTypeOK' BY <1>1 DEF Crash
<1> QED BY <1>2, <1>3, <1>4, <1>5 DEF Crash

\* Finishing a task in recovery keeps the types.
LEMMA FinishType ==
  ASSUME TypeOK, NEW outcome \in Outcomes \cup {"none"}, NEW finished \in BOOLEAN,
         FinishAs(outcome, finished)
  PROVE  control' \in Control /\ inputs' \in [Inputs -> Input] /\ frozen' \in BOOLEAN
<1>1. control' \in Control
  BY Names DEF TypeOK, ControlTypeOK, ExecTypeOK, FinishAs, Control
<1>2. inputs' \in [Inputs -> Input]
  BY WithdrawnType DEF TypeOK, ControlTypeOK, ExecTypeOK, FinishAs
<1> QED BY <1>1, <1>2 DEF TypeOK, ExecTypeOK, FinishAs

\* Reconciliation keeps the types.
LEMMA RestartType == ASSUME TypeOK, Restart PROVE TypeOK'
<1> USE Names DEF TypeOK, ControlTypeOK, BrokerTypeOK, ExecTypeOK, brokerVars
<1>1. CASE KeepFrozen BY <1>1 DEF KeepFrozen, Restart
<1>2. ASSUME NEW outcome \in Outcomes \cup {"none"}, NEW finished \in BOOLEAN,
             FinishAs(outcome, finished)
      PROVE  TypeOK'
  <2>1. /\ control' \in Control
        /\ inputs' \in [Inputs -> Input]
        /\ frozen' \in BOOLEAN
    BY <1>2, FinishType
  <2> QED BY <2>1 DEF Restart
<1>3. CASE LeaveUncertain
  <2>1. control' \in Control BY <1>3 DEF LeaveUncertain, Control
  <2>2. inputs' \in [Inputs -> Input] BY <1>3, AbandonedType DEF LeaveUncertain
  <2>3. frozen' \in BOOLEAN BY <1>3 DEF LeaveUncertain
  <2> QED BY <2>1, <2>2, <2>3 DEF Restart
<1> QED
  <2>1. KeepFrozen \/ LeaveUncertain
        \/ FinishAs("cancelled", control.phase = "terminal" /\ control.outcome = "cancelled")
        \/ FinishAs(result.status, control.phase = "terminal")
    BY DEF Restart
  <2> QED BY <1>1, <1>2, <1>3, <2>1

\* Every step of a task's life keeps the types.
LEMMA StepType == TypeOK /\ [Next]_vars => TypeOK'
<1> SUFFICES ASSUME TypeOK, [Next]_vars PROVE TypeOK'
  OBVIOUS
<1>1. CASE UNCHANGED vars
  BY <1>1 DEF vars, controlVars, brokerVars, execVars, lifeVars, TypeOK,
       ControlTypeOK, BrokerTypeOK, ExecTypeOK
<1>2. CASE Next
  BY <1>2, ClientType, BrokerType, WorkerType, RunType, CancelType, OperatorType,
     CrashType, RestartType DEF Next
<1> QED BY <1>1, <1>2

\* Every reachable state of a task's life is well typed.
THEOREM LifecycleTypeCorrect == Spec => []TypeOK
<1>1. TypeOK /\ [Next]_vars => TypeOK' BY StepType
<1> QED BY InitType, <1>1, PTL DEF Spec
=============================================================================
