--------------------------- MODULE TaskRecordProofs ---------------------------
(***************************************************************************)
(* Proofs about what a task's record tells its clients and the repository: *)
(* claims, receipts and answers, the agreement of result and settlement,   *)
(* the evidence under a completion, and the freeze that an uncertain run   *)
(* leaves behind.  Each property has its own inductive invariant on top of *)
(* IInv of TaskContractProofs, from which the order of the steps is known. *)
(***************************************************************************)
EXTENDS TaskContractProofs, FiniteSetTheorems

-----------------------------------------------------------------------------
(* What a step that no client takes may do to claims, receipts and requests. *)

SameClaims ==
  /\ control'.owner = control.owner
  /\ control'.generation = control.generation
  /\ control'.cancel = control.cancel

Rests(i) == inputs'[i].claim = inputs[i].claim /\ inputs'[i].state = inputs[i].state
            /\ inputs'[i].claimGeneration = inputs[i].claimGeneration
Closes(i) ==
  /\ inputs'[i].claim = NoClient
  /\ \/ inputs'[i].state = inputs[i].state
     \/ /\ inputs[i].state # "absent"
        /\ inputs'[i].state \in {"withdrawn", "delivery_unknown", "settled"}
Ends(i) ==
  /\ inputs[i].state = "answer_intent"
  /\ inputs'[i].claim = inputs[i].claim
  /\ inputs'[i].state \in {"withdrawn", "delivery_unknown", "settled"}
Appears(i) ==
  /\ requests[i] = "reserved" /\ requests'[i] = "published"
  /\ inputs'[i].claim = NoClient /\ inputs'[i].state = "pending"

InputMove(i) == Rests(i) \/ Closes(i) \/ Ends(i) \/ Appears(i)

Open == {"idle", "reserved", "published"}
RequestMove(i) == requests'[i] \in Open => requests[i] \in Open

RecordMove ==
  /\ SameClaims
  /\ receipts' = receipts
  /\ \A i \in Inputs : InputMove(i) /\ RequestMove(i)
  /\ lock = "answer" => inputs' = inputs
  /\ answering' \in {answering, NoInput}

\* Steps that leave inputs and requests alone.
LEMMA UntouchedMove ==
  ASSUME SameClaims, UNCHANGED <<inputs, receipts, requests, answering>>
  PROVE  RecordMove
BY DEF RecordMove, InputMove, Rests, RequestMove

\* Steps that also leave the record alone.
LEMMA UnreadMove ==
  ASSUME UNCHANGED <<controlVars, requests, answering>>
  PROVE  RecordMove
BY UntouchedMove DEF SameClaims, controlVars

\* What the closing operations leave of an input.
LEMMA ClosedInput ==
  ASSUME NEW in \in Input
  PROVE  /\ Unclaimed(in).claim = NoClient
         /\ Unclaimed(in).state = in.state
         /\ \A s : [Unclaimed(in) EXCEPT !.state = s].claim = NoClient
         /\ \A s : [Unclaimed(in) EXCEPT !.state = s].state = s
         /\ Abandoned(in).claim = NoClient
         /\ Withdrawn(in).claim = NoClient
         /\ Withdrawn(in).claimGeneration = in.claimGeneration
<1>1. /\ Unclaimed(in) \in Input
      /\ Unclaimed(in).claim = NoClient
      /\ Unclaimed(in).state = in.state
      /\ Unclaimed(in).claimGeneration = in.claimGeneration
  BY UnclaimedType DEF Unclaimed, Input
<1>2. \A s : /\ [Unclaimed(in) EXCEPT !.state = s].claim = NoClient
             /\ [Unclaimed(in) EXCEPT !.state = s].state = s
             /\ [Unclaimed(in) EXCEPT !.state = s].claimGeneration = in.claimGeneration
  BY <1>1 DEF Input
<1>3. Abandoned(in).claim = NoClient BY <1>2 DEF Abandoned
<1>4. Withdrawn(in).claim = NoClient /\ Withdrawn(in).claimGeneration = in.claimGeneration
  BY <1>2 DEF Withdrawn
<1> QED BY <1>1, <1>2, <1>3, <1>4

\* The broker and the worker's requests.
LEMMA BrokerMoves ==
  ASSUME IInv, BrokerStep \/ WorkerAsks
  PROVE  RecordMove /\ (released' = released \/ Release)
<1>1. /\ control \in Control /\ inputs \in [Inputs -> Input]
      /\ requests \in [Inputs -> RequestStates]
  BY DEF IInv, TypeOK, ControlTypeOK, BrokerTypeOK
<1>2. ASSUME NEW i \in Inputs, UNCHANGED <<control, receipts, answering>>, lock = "free",
             requests' = [requests EXCEPT ![i] = "closed"],
             inputs' \in {inputs, [inputs EXCEPT ![i] =
                                     [Unclaimed(@) EXCEPT !.state = "withdrawn"]]},
             inputs[i].state = "pending" \/ UNCHANGED inputs
      PROVE  RecordMove
  <2>1. \A j \in Inputs : j # i => inputs'[j] = inputs[j] /\ requests'[j] = requests[j]
    BY <1>1, <1>2
  <2>2. requests'[i] = "closed" BY <1>1, <1>2
  <2>3. inputs'[i] = inputs[i] \/ Closes(i)
    <3>1. CASE inputs' = inputs BY <3>1
    <3>2. CASE /\ inputs[i].state = "pending"
               /\ inputs' = [inputs EXCEPT ![i] =
                               [Unclaimed(@) EXCEPT !.state = "withdrawn"]]
      <4>1. inputs'[i] = [Unclaimed(inputs[i]) EXCEPT !.state = "withdrawn"]
        BY <1>1, <3>2
      <4> QED BY <1>1, <3>2, <4>1, ClosedInput DEF Closes
    <3> QED BY <1>2, <3>1, <3>2
  <2>4. \A j \in Inputs : InputMove(j) /\ RequestMove(j)
    BY <2>1, <2>2, <2>3 DEF InputMove, Rests, RequestMove, Open
  <2> QED BY <1>2, <2>4 DEF RecordMove, SameClaims
<1>3. CASE Release
  <2>1. /\ UNCHANGED <<control, inputs, receipts>> /\ answering' = NoInput
        /\ requests' \in {requests, [requests EXCEPT ![answering] = "closed"]}
    BY <1>3 DEF Release
  <2>2. \A j \in Inputs : InputMove(j) /\ RequestMove(j)
    BY <1>1, <2>1 DEF InputMove, Rests, RequestMove, Open
  <2> QED BY <1>3, <2>1, <2>2 DEF RecordMove, SameClaims
<1>4. ASSUME NEW i \in Inputs, Publish(i) PROVE RecordMove /\ released' = released
  <2>1. PICK attention \in BOOLEAN : PublishRequest(i, attention)
    BY <1>4 DEF Publish
  <2>2. /\ requests[i] = "reserved" /\ UNCHANGED <<answering, released, receipts>>
        /\ requests' = [requests EXCEPT ![i] = "published"] /\ lock = "free"
        /\ inputs' = [inputs EXCEPT ![i] = [NewInput EXCEPT !.state = "pending",
                                                            !.turn = control.turn]]
    BY <1>4, <2>1 DEF Publish, PublishRequest
  <2>3. PICK ph : control' = [control EXCEPT !.phase = ph]
    BY <2>1 DEF PublishRequest
  <2>4. SameClaims BY <1>1, <2>3 DEF Control, SameClaims
  <2>5. Appears(i) BY <1>1, <2>2 DEF Appears, NewInput
  <2>6. \A j \in Inputs : InputMove(j) /\ RequestMove(j)
    BY <1>1, <2>2, <2>5 DEF InputMove, Rests, RequestMove, Open
  <2> QED BY <2>2, <2>4, <2>6 DEF RecordMove
<1>5. ASSUME NEW i \in Inputs, PublishRefused(i) PROVE RecordMove /\ released' = released
  BY <1>2, <1>5 DEF PublishRefused, controlVars
<1>6. ASSUME NEW i \in Inputs, WithdrawAborted(i) PROVE RecordMove /\ released' = released
  BY <1>2, <1>6 DEF WithdrawAborted
<1>7. ASSUME NEW i \in Inputs, NativeWithdraw(i) PROVE RecordMove /\ released' = released
  BY <1>2, <1>7 DEF NativeWithdraw
<1>8. ASSUME NEW i \in Inputs, RecordUndelivered(i) PROVE RecordMove /\ released' = released
  <2>1. /\ UNCHANGED <<receipts, requests, answering, released>> /\ lock = "free"
        /\ control' \in {control, [control EXCEPT !.phase = "needs_attention"]}
        /\ \/ UNCHANGED inputs
           \/ /\ inputs[i].state = "answer_intent"
              /\ inputs' = [inputs EXCEPT ![i] = [@ EXCEPT !.state = "delivery_unknown"]]
    BY <1>8 DEF RecordUndelivered
  <2>2. SameClaims BY <1>1, <2>1 DEF Control, SameClaims
  <2>3. CASE UNCHANGED inputs BY <2>1, <2>2, <2>3, UntouchedMove
  <2>4. CASE /\ inputs[i].state = "answer_intent"
             /\ inputs' = [inputs EXCEPT ![i] = [@ EXCEPT !.state = "delivery_unknown"]]
    <3>1. Ends(i) BY <1>1, <2>4 DEF Ends, Input
    <3>2. \A j \in Inputs : InputMove(j) /\ RequestMove(j)
      BY <1>1, <2>1, <2>4, <3>1 DEF InputMove, Rests, RequestMove
    <3> QED BY <2>1, <2>2, <3>2 DEF RecordMove
  <2> QED BY <2>1, <2>3, <2>4
<1>9. ASSUME NEW i \in Inputs, Reserve(i) \/ AbortRequest(i)
      PROVE  RecordMove /\ released' = released
  <2>1. /\ UNCHANGED <<control, inputs, receipts, answering, released>>
        /\ \A j \in Inputs : requests'[j] # requests[j] => requests[j] \in Open
    BY <1>1, <1>9 DEF Reserve, AbortRequest, controlVars, Open
  <2>2. \A j \in Inputs : InputMove(j) /\ RequestMove(j)
    BY <2>1 DEF InputMove, Rests, RequestMove
  <2> QED BY <2>1, <2>2 DEF RecordMove, SameClaims
<1> QED BY <1>3, <1>4, <1>5, <1>6, <1>7, <1>8, <1>9 DEF BrokerStep, WorkerAsks

\* What the worker reports.
LEMMA WorkerMoves ==
  ASSUME IInv, WorkerReports
  PROVE  RecordMove /\ released' = released
<1>1. control \in Control /\ inputs \in [Inputs -> Input]
  BY DEF IInv, TypeOK, ControlTypeOK
<1>2. ASSUME NEW update, Report(update), update.owner = control.owner,
             update.generation = control.generation, update.cancel = control.cancel
      PROVE  RecordMove /\ released' = released
  BY <1>2, UntouchedMove DEF Report, SameClaims, brokerVars
<1>3. CASE TurnStarted
  <2>1. PICK ph : Report([control EXCEPT !.turn = @ + 1, !.native = "observed_live",
                                         !.coverage = "unknown", !.phase = ph])
    BY <1>3 DEF TurnStarted
  <2> QED BY <1>1, <1>2, <2>1 DEF Control
<1>4. CASE TurnSettled BY <1>1, <1>2, <1>4 DEF TurnSettled, Control
<1>5. CASE SettleTurn
  <2>1. /\ UNCHANGED <<control, receipts, brokerVars>> /\ lock = "free"
        /\ inputs' = [i \in Inputs |->
             IF inputs[i].turn = settling /\ inputs[i].state = "answer_intent"
             THEN [inputs[i] EXCEPT !.state = "settled"] ELSE inputs[i]]
    BY <1>5 DEF SettleTurn, SettleAnswers
  <2>2. \A i \in Inputs : Rests(i) \/ Ends(i)
    BY <1>1, <2>1 DEF Rests, Ends, Input
  <2> QED BY <2>1, <2>2 DEF RecordMove, InputMove, RequestMove, SameClaims, brokerVars
<1>6. CASE ProcessObserved BY <1>1, <1>2, <1>6 DEF ProcessObserved, Control
<1>7. CASE RuntimeUnknown
  <2>1. PICK ph : Report([control EXCEPT !.native = "unknown", !.limitation = "unknown",
                                         !.phase = ph])
    BY <1>7 DEF RuntimeUnknown
  <2> QED BY <1>1, <1>2, <2>1 DEF Control
<1>8. CASE LateEvent
  <2>1. /\ UNCHANGED <<inputs, receipts, brokerVars>>
        /\ \/ UNCHANGED control
           \/ control' = [control EXCEPT !.native = "unknown", !.coverage = "unknown",
                           !.limitation = "late", !.phase = "needs_attention",
                           !.settled = "interrupted", !.attention = "other"]
    BY <1>8 DEF LateEvent
  <2>2. SameClaims BY <1>1, <2>1 DEF Control, SameClaims
  <2> QED BY <2>1, <2>2, UntouchedMove DEF brokerVars
<1>9. CASE EventDuringWrite
  BY <1>9, UnreadMove DEF EventDuringWrite, brokerVars
<1>10. ASSUME NEW o \in Operations, OperationStarted(o) \/ OperationFinished(o)
       PROVE  RecordMove /\ released' = released
  <2>1. PICK os : Report([control EXCEPT !.obligations = os])
    BY <1>10 DEF OperationStarted, OperationFinished
  <2> QED BY <1>1, <1>2, <2>1 DEF Control
<1> QED BY <1>3, <1>4, <1>5, <1>6, <1>7, <1>8, <1>9, <1>10 DEF WorkerReports

\* The continuations of the run.
LEMMA RunMoves ==
  ASSUME IInv, RunStep \/ DropQueued \/ WorkerReturns \/ WorkerThrows \/ FreezeElsewhere
  PROVE  RecordMove /\ released' = released
<1>1. control \in Control /\ inputs \in [Inputs -> Input]
  BY DEF IInv, TypeOK, ControlTypeOK
<1>2. ASSUME UNCHANGED <<controlVars, brokerVars>>
      PROVE  RecordMove /\ released' = released
  BY <1>2, UnreadMove DEF brokerVars
<1>3. ASSUME UNCHANGED <<inputs, receipts, brokerVars>>, SameClaims
      PROVE  RecordMove /\ released' = released
  BY <1>3, UntouchedMove DEF brokerVars
<1>4. CASE Pump \/ DropQueued \/ PrepareWorkspace \/ RunWorker \/ ReadEvidence
           \/ FinishRun \/ WriteResult \/ FreezeRun \/ LeaveRun
           \/ WorkerReturns \/ WorkerThrows \/ FreezeElsewhere
  <2>1. UNCHANGED <<controlVars, brokerVars>>
    BY <1>4 DEF Pump, DropQueued, PrepareWorkspace, RunWorker, ReadEvidence, FinishRun,
                WriteResult, FreezeRun, LeaveRun, WorkerReturns, WorkerThrows,
                FreezeElsewhere
  <2> QED BY <1>2, <2>1
<1>5. CASE FailResult
  BY <1>3, <1>5 DEF FailResult, SameClaims
<1>6. CASE RetainQueued
  BY <1>1, <1>3, <1>6 DEF RetainQueued, SameClaims, Control
<1>7. CASE BeginPrepare
  BY <1>1, <1>3, <1>7 DEF BeginPrepare, SameClaims, Control
<1>8. CASE CommitStart
  BY <1>1, <1>3, <1>8 DEF CommitStart, SameClaims, Control
<1>9. CASE Admit
  BY <1>1, <1>3, <1>9 DEF Admit, AdmitCompletion, SameClaims, Control
<1>10. CASE Recheck \/ BeginResult
  <2>1. PICK o : control' = [control EXCEPT !.phase = "finalizing", !.settled = o]
    BY <1>10 DEF Recheck, BeginResult
  <2>2. SameClaims BY <1>1, <2>1 DEF SameClaims, Control
  <2> QED BY <1>3, <1>10, <2>2 DEF Recheck, BeginResult
<1>11. CASE SettleResult
  <2>1. /\ lock = "result" /\ UNCHANGED <<receipts, brokerVars>>
        /\ inputs' \in {inputs, [i \in Inputs |-> Abandoned(inputs[i])]}
    BY <1>11 DEF SettleResult, IInv, LockOwned
  <2>2. \/ control' = [control EXCEPT !.native = "unknown", !.coverage = "unknown",
                  !.limitation = "unknown", !.phase = "needs_attention",
                  !.outcome = "none", !.attention = "conflict"]
        \/ \E a : control' = [control EXCEPT !.native = FinalNative,
                  !.phase = "needs_attention", !.attention = a]
        \/ control' = [control EXCEPT !.native = FinalNative, !.phase = "terminal",
                  !.outcome = run.status]
    BY <1>11 DEF SettleResult
  <2>3. SameClaims BY <1>1, <2>2 DEF SameClaims, Control
  <2>4. CASE inputs' = inputs BY <1>3, <2>1, <2>3, <2>4
  <2>5. CASE inputs' = [i \in Inputs |-> Abandoned(inputs[i])]
    <3>1. \A i \in Inputs : Closes(i)
      BY <1>1, <2>5, AbandonedState, ClosedInput DEF Closes
    <3> QED BY <2>1, <2>3, <3>1 DEF RecordMove, InputMove, RequestMove, brokerVars
  <2> QED BY <2>1, <2>4, <2>5
<1> QED BY <1>4, <1>5, <1>6, <1>7, <1>8, <1>9, <1>10, <1>11 DEF RunStep

\* The dispatch of a cancellation, the operator, death and recovery.
LEMMA OtherMoves ==
  ASSUME IInv, CancelStep \/ OperatorStep \/ Crash \/ Restart
  PROVE  RecordMove /\ released' = released
<1>1. control \in Control /\ inputs \in [Inputs -> Input]
  BY DEF IInv, TypeOK, ControlTypeOK
<1>2. ASSUME UNCHANGED <<inputs, receipts, brokerVars>>, SameClaims
      PROVE  RecordMove /\ released' = released
  BY <1>2, UntouchedMove DEF brokerVars
<1>3. ASSUME UNCHANGED <<receipts, brokerVars>>, SameClaims, lock # "answer",
             \/ UNCHANGED inputs
             \/ inputs' = [i \in Inputs |-> Withdrawn(inputs[i])]
             \/ inputs' = [i \in Inputs |-> Abandoned(inputs[i])]
      PROVE  RecordMove /\ released' = released
  <2>1. CASE inputs' = [i \in Inputs |-> Withdrawn(inputs[i])]
    <3>1. \A i \in Inputs : Closes(i)
      BY <1>1, <2>1, WithdrawnState, ClosedInput DEF Closes
    <3> QED BY <1>3, <3>1 DEF RecordMove, InputMove, RequestMove, brokerVars
  <2>2. CASE inputs' = [i \in Inputs |-> Abandoned(inputs[i])]
    <3>1. \A i \in Inputs : Closes(i)
      BY <1>1, <2>2, AbandonedState, ClosedInput DEF Closes
    <3> QED BY <1>3, <3>1 DEF RecordMove, InputMove, RequestMove, brokerVars
  <2> QED BY <1>2, <1>3, <2>1, <2>2
<1>4. CASE DispatchCancel BY <1>2, <1>4 DEF DispatchCancel, controlVars, SameClaims
<1>5. CASE SettleRecoveredCancel
  BY <1>1, <1>2, <1>5 DEF SettleRecoveredCancel, SameClaims, Control
<1>6. CASE AckBegin
  BY <1>1, <1>2, <1>6 DEF AckBegin, SameClaims, Control
<1>7. CASE AckResult \/ AckResource
  BY <1>2, <1>7 DEF AckResult, AckResource, controlVars, SameClaims
<1>8. CASE AckTerminal
  <2>1. lock = "operator" /\ UNCHANGED <<receipts, brokerVars>>
        /\ inputs' = [i \in Inputs |-> Withdrawn(inputs[i])]
    BY <1>8 DEF AckTerminal, IInv, LockOwned
  <2>2. SameClaims BY <1>1, <1>8 DEF AckTerminal, SameClaims, Control
  <2> QED BY <1>3, <2>1, <2>2
<1>9. CASE AckSafety BY <1>2, <1>9 DEF AckSafety, SameClaims
<1>10. CASE Crash
  BY <1>10 DEF Crash, RecordMove, SameClaims, InputMove, Rests, RequestMove, Open
<1>11. CASE Restart
  <2>1. lock = "free" /\ UNCHANGED <<receipts, brokerVars>>
    BY <1>11 DEF Restart, IInv, DownForgets
  <2>2. \/ KeepFrozen \/ LeaveUncertain
        \/ \E outcome : \E finished \in BOOLEAN : FinishAs(outcome, finished)
    BY <1>11 DEF Restart
  <2>3. CASE KeepFrozen BY <1>2, <2>1, <2>3 DEF KeepFrozen, SameClaims
  <2>4. CASE LeaveUncertain
    <3>1. PICK a, n : control' = [control EXCEPT !.phase = "needs_attention",
                                     !.attention = a, !.native = n]
      BY <2>4 DEF LeaveUncertain
    <3>2. SameClaims BY <1>1, <3>1 DEF SameClaims, Control
    <3> QED BY <1>3, <2>1, <2>4, <3>2 DEF LeaveUncertain
  <2>5. ASSUME NEW outcome, NEW finished \in BOOLEAN, FinishAs(outcome, finished)
        PROVE  RecordMove /\ released' = released
    <3>1. SameClaims BY <1>1, <2>5 DEF FinishAs, SameClaims, Control
    <3> QED BY <1>3, <2>1, <2>5, <3>1 DEF FinishAs
  <2> QED BY <2>2, <2>3, <2>4, <2>5
<1> QED BY <1>4, <1>5, <1>6, <1>7, <1>8, <1>9, <1>10, <1>11
        DEF CancelStep, OperatorStep

-----------------------------------------------------------------------------
(* What was decided stays decided. *)

\* No step takes a decision back.
LEMMA DecisionStays ==
  ASSUME IInv, [Next]_vars, Decided
  PROVE  Decided'
<1> USE DEF Decided
<1>1. TypeOK BY DEF IInv
<1>2. CASE UNCHANGED vars BY <1>2 DEF vars, controlVars
<1>3. CASE ClientStep BY <1>1, <1>3, ClientSteps DEF SameDecision
<1>4. CASE BrokerStep \/ WorkerAsks
  BY <1>1, <1>4, BrokerSteps DEF SameDecision, IInv, TerminalComplete
<1>5. CASE WorkerReports BY <1>1, <1>5, WorkerSteps DEF SameDecision
<1>6. CASE RunStep \/ DropQueued \/ WorkerReturns \/ WorkerThrows \/ FreezeElsewhere
  <2>1. CASE Calm BY <2>1 DEF Calm, IInv, TerminalComplete
  <2>2. CASE RetainQueued
    <3>1. control \in Control BY <1>1 DEF TypeOK, ControlTypeOK
    <3> QED BY <2>2, <3>1 DEF RetainQueued, Control, IInv, TerminalComplete
  <2>3. CASE RunWorker BY <2>3 DEF RunWorker, controlVars
  <2>4. CASE Recheck \/ BeginResult
    <3>1. TypeOK'
      <4>1. CASE service = "up" /\ UNCHANGED lifeVars BY <1>1, <1>6, <4>1, RunType
      <4>2. QED BY <1>1, StepType
    <3> QED BY <2>4, <3>1, FenceSteps
  <2>5. CASE WriteResult \/ FailResult BY <2>5, WriteSteps
  <2>6. CASE SettleResult
    BY <2>6, SettleSteps DEF IInv, FenceDecides, Fencing
  <2> QED BY <1>1, <1>6, <2>1, <2>2, <2>3, <2>4, <2>5, <2>6, CalmSteps DEF RunStep
<1>7. CASE DispatchCancel BY <1>7, DispatchSteps
<1>8. CASE SettleRecoveredCancel
  <2>1. control \in Control BY <1>1 DEF TypeOK, ControlTypeOK
  <2> QED BY <1>8, <2>1 DEF SettleRecoveredCancel, Control
<1>9. CASE OperatorStep BY <1>9, OperatorSteps
<1>10. CASE Crash BY <1>10 DEF Crash
<1>11. CASE Restart BY <1>11, RestartSteps
<1> QED BY <1>2, <1>3, <1>4, <1>5, <1>6, <1>7, <1>8, <1>9, <1>10, <1>11
        DEF Next, CancelStep

-----------------------------------------------------------------------------
(* Claims. *)

\* A task just accepted has no claims.
LEMMA InitClaims == Init => ClaimsCurrent
BY DEF Init, ControlInit, NewInput, ClaimsCurrent

\* A step that no client takes leaves no stale claim.
LEMMA MoveClaims ==
  ASSUME ClaimsCurrent, RecordMove
  PROVE  ClaimsCurrent'
BY DEF ClaimsCurrent, RecordMove, SameClaims, InputMove, Rests, Closes, Ends, Appears

\* A client claims under the present generation and owner; who adopts or
\* cancels takes every claim away.
LEMMA ClientClaims ==
  ASSUME IInv, ClaimsCurrent, ClientStep
  PROVE  ClaimsCurrent'
<1>1. control \in Control /\ inputs \in [Inputs -> Input]
  BY DEF IInv, TypeOK, ControlTypeOK
<1>2. ASSUME \A i \in Inputs : inputs'[i].claim = NoClient PROVE ClaimsCurrent'
  BY <1>2 DEF ClaimsCurrent
<1>3. ASSUME UNCHANGED control,
             \A i \in Inputs : inputs'[i] = inputs[i] \/ inputs'[i].claim = NoClient
      PROVE  ClaimsCurrent'
  BY <1>3 DEF ClaimsCurrent
<1>4. ASSUME NEW c \in Clients, NEW k \in Keys, ClientCancel(c, k) PROVE ClaimsCurrent'
  <2>1. CASE CancelTooLate(c, k) BY <1>3, <2>1 DEF CancelTooLate
  <2>2. CASE CancelAccepted(c, k)
    <3>1. ASSUME NEW i \in Inputs PROVE inputs'[i].claim = NoClient
      <4>1. PICK s : inputs'[i] = [Unclaimed(inputs[i]) EXCEPT !.state = s]
        BY <2>2 DEF CancelAccepted
      <4> QED BY <1>1, <4>1, ClosedInput
    <3> QED BY <1>2, <3>1
  <2> QED BY <1>4, <2>1, <2>2 DEF ClientCancel
<1>5. ASSUME NEW c \in Clients, NEW k \in Keys, ClientAdopt(c, k) PROVE ClaimsCurrent'
  <2>1. \A i \in Inputs : inputs'[i].claim = NoClient
    BY <1>1, <1>5, ClosedInput DEF ClientAdopt, Adopt
  <2> QED BY <1>2, <2>1
<1>6. ASSUME NEW c \in Clients, ClientCancelAgain(c) PROVE ClaimsCurrent'
  BY <1>3, <1>6 DEF ClientCancelAgain, controlVars
<1>7. ASSUME NEW c \in Clients, ReleaseClient(c) PROVE ClaimsCurrent'
  BY <1>1, <1>3, <1>7, ClosedInput DEF ReleaseClient
<1>8. ASSUME NEW c \in Clients, NEW i \in Inputs, Claim(c, i) PROVE ClaimsCurrent'
  <2>1. /\ OwnerOf[c] = control.owner /\ ~control.cancel /\ UNCHANGED control
        /\ inputs[i].state = "pending"
        /\ inputs' = [inputs EXCEPT ![i] =
             [@ EXCEPT !.claim = c, !.claimGeneration = control.generation]]
    BY <1>8 DEF Claim, Presentable
  <2>2. /\ inputs'[i].claim = c /\ inputs'[i].state = "pending"
        /\ inputs'[i].claimGeneration = control.generation
    BY <1>1, <2>1 DEF Input
  <2>3. \A j \in Inputs : j # i => inputs'[j] = inputs[j] BY <1>1, <2>1
  <2> QED BY <2>1, <2>2, <2>3 DEF ClaimsCurrent
<1>9. ASSUME NEW c \in Clients, NEW i \in Inputs, Dismiss(c, i) PROVE ClaimsCurrent'
  BY <1>1, <1>3, <1>9, ClosedInput DEF Dismiss
<1>10. ASSUME NEW c \in Clients, NEW i \in Inputs, NEW k \in Keys, Answer(c, i, k)
       PROVE  ClaimsCurrent'
  <2>1. PICK ph : control' = [control EXCEPT !.phase = ph] BY <1>10 DEF Answer
  <2>2. SameClaims BY <1>1, <2>1 DEF Control, SameClaims
  <2>3. \A j \in Inputs : inputs'[j] = inputs[j] \/ inputs'[j].claim = NoClient
    BY <1>1, <1>10, ClosedInput DEF Answer
  <2> QED BY <2>2, <2>3 DEF SameClaims, ClaimsCurrent
<1> QED BY <1>4, <1>5, <1>6, <1>7, <1>8, <1>9, <1>10 DEF ClientStep

\* Every step that is not a client's is a move of the record.
LEMMA NextMoves ==
  ASSUME IInv, [Next]_vars
  PROVE  \/ ClientStep
         \/ RecordMove /\ (released' = released \/ Release)
<1>1. CASE UNCHANGED vars
  BY <1>1, UnreadMove DEF vars, brokerVars
<1> QED BY <1>1, BrokerMoves, WorkerMoves, RunMoves, OtherMoves DEF Next

\* No adoption, cancellation or disconnect leaves a stale presenter.
THEOREM ClaimsStayCurrent == Spec => []ClaimsCurrent
<1>1. IInv /\ ClaimsCurrent /\ [Next]_vars => ClaimsCurrent'
  BY NextMoves, MoveClaims, ClientClaims
<1> QED BY InitClaims, <1>1, LifecycleInvariant, PTL DEF Spec

-----------------------------------------------------------------------------
(* Receipts. *)

\* A receipt written into a free slot, the reserve left alone.
Records(k, kind, reserve) ==
  /\ receipts[k] = "unused"
  /\ Cardinality(Used) < MaxReceipts - reserve
  /\ receipts' = [receipts EXCEPT ![k] = kind]

ReceiptMove ==
  \/ receipts' = receipts /\ control'.cancel = control.cancel
  \/ \E k \in Keys : Records(k, "already_terminal", 0) /\ Decided /\ UNCHANGED control
  \/ \E k \in Keys : Records(k, "accepted", 0) /\ ~control.cancel /\ control'.cancel
  \/ \E k \in Keys, kind \in {"adopted", "answer_intent"} :
       Records(k, kind, 1) /\ control'.cancel = control.cancel

\* Only clients write receipts: one at a time, and the record says why.
LEMMA ReceiptMoves ==
  ASSUME IInv, [Next]_vars
  PROVE  ReceiptMove
<1>1. control \in Control BY DEF IInv, TypeOK, ControlTypeOK
<1>2. CASE RecordMove BY <1>2 DEF RecordMove, SameClaims, ReceiptMove
<1>3. CASE ClientStep
  <2> USE DEF ReceiptMove, Records
  <2>1. ASSUME UNCHANGED receipts, UNCHANGED control PROVE ReceiptMove
    BY <2>1
  <2>2. ASSUME NEW c \in Clients, NEW k \in Keys, ClientCancel(c, k) PROVE ReceiptMove
    <3>1. CASE CancelTooLate(c, k) BY <3>1 DEF CancelTooLate, FreshReceipt
    <3>2. CASE CancelAccepted(c, k)
      <4>1. control'.cancel BY <1>1, <3>2 DEF CancelAccepted, Control
      <4> QED BY <3>2, <4>1 DEF CancelAccepted, FreshReceipt
    <3> QED BY <2>2, <3>1, <3>2 DEF ClientCancel
  <2>3. ASSUME NEW c \in Clients, NEW k \in Keys, ClientAdopt(c, k) PROVE ReceiptMove
    <3>1. Records(k, "adopted", 1) BY <2>3 DEF ClientAdopt, Adopt
    <3>2. control'.cancel = control.cancel
      BY <1>1, <2>3 DEF ClientAdopt, Adopt, Control
    <3> QED BY <3>1, <3>2
  <2>4. ASSUME NEW c \in Clients,
               ClientCancelAgain(c) \/ ReleaseClient(c)
               \/ \E i \in Inputs : Claim(c, i) \/ Dismiss(c, i)
        PROVE  ReceiptMove
    BY <2>1, <2>4 DEF ClientCancelAgain, ReleaseClient, Claim, Dismiss, controlVars
  <2>5. ASSUME NEW c \in Clients, NEW i \in Inputs, NEW k \in Keys, Answer(c, i, k)
        PROVE  ReceiptMove
    <3>1. Records(k, "answer_intent", 1) BY <2>5 DEF Answer, FreshReceipt
    <3>2. PICK ph : control' = [control EXCEPT !.phase = ph] BY <2>5 DEF Answer
    <3>3. control'.cancel = control.cancel BY <1>1, <3>2 DEF Control
    <3> QED BY <3>1, <3>3
  <2> QED BY <1>3, <2>2, <2>3, <2>4, <2>5 DEF ClientStep
<1> QED BY <1>2, <1>3, NextMoves

\* The receipts tell the truth about the stop intent and about decisions.
THEOREM ReceiptsTellTheTruth == Spec => []ReceiptsTruthful
<1>1. Init => ReceiptsTruthful
  BY DEF Init, ControlInit, ReceiptsTruthful
<1>2. ASSUME IInv, ReceiptsTruthful, [Next]_vars PROVE ReceiptsTruthful'
  <2>1. receipts \in [Keys -> ReceiptKinds \cup {"unused"}]
    BY <1>2 DEF IInv, TypeOK, ControlTypeOK
  <2>2. ReceiptMove BY <1>2, ReceiptMoves
  <2>3. Decided => Decided' BY <1>2, DecisionStays
  <2>4. CASE receipts' = receipts /\ control'.cancel = control.cancel
    BY <1>2, <2>3, <2>4 DEF ReceiptsTruthful
  <2>5. ASSUME NEW k \in Keys, Records(k, "already_terminal", 0), Decided,
               UNCHANGED control
        PROVE  ReceiptsTruthful'
    BY <1>2, <2>1, <2>3, <2>5 DEF ReceiptsTruthful, Records
  <2>6. ASSUME NEW k \in Keys, Records(k, "accepted", 0), control'.cancel
        PROVE  ReceiptsTruthful'
    BY <1>2, <2>1, <2>3, <2>6 DEF ReceiptsTruthful, Records
  <2>7. ASSUME NEW k \in Keys, NEW kind \in {"adopted", "answer_intent"},
               Records(k, kind, 1), control'.cancel = control.cancel
        PROVE  ReceiptsTruthful'
    BY <1>2, <2>1, <2>3, <2>7 DEF ReceiptsTruthful, Records
  <2> QED BY <2>2, <2>4, <2>5, <2>6, <2>7 DEF ReceiptMove
<1> QED BY <1>1, <1>2, LifecycleInvariant, PTL DEF Spec

\* The receipts in use are a finite set: one for each key at most.
LEMMA UsedFinite == IsFiniteSet(Used) /\ Cardinality(Used) \in Nat
<1>1. Used \subseteq Keys BY DEF Used
<1> QED BY <1>1, TaskConstants, FS_Subset, FS_CardinalityType

\* A receipt takes one slot.
LEMMA RecordsTakesOne ==
  ASSUME receipts \in [Keys -> ReceiptKinds \cup {"unused"}],
         NEW k \in Keys, NEW kind \in ReceiptKinds, NEW reserve, Records(k, kind, reserve)
  PROVE  Cardinality(Used') = Cardinality(Used) + 1
<1>1. kind # "unused" BY DEF ReceiptKinds
<1>2. Used' = Used \cup {k} /\ k \notin Used BY <1>1 DEF Records, Used
<1> QED BY <1>2, UsedFinite, FS_AddElement

\* Adoptions and answers never take the slot of the first cancellation.
THEOREM CancellationFits == Spec => []CancelAlwaysFits
<1>1. Init => CancelAlwaysFits
  <2>1. ASSUME Init PROVE Used = {} BY <2>1 DEF Init, ControlInit, Used
  <2> QED BY <2>1, FS_EmptySet, TaskConstants DEF CancelAlwaysFits
<1>2. ASSUME IInv, CancelAlwaysFits, [Next]_vars PROVE CancelAlwaysFits'
  <2> SUFFICES ASSUME ~control'.cancel, ~Decided' PROVE Cardinality(Used') < MaxReceipts
    BY DEF CancelAlwaysFits
  <2>1. receipts \in [Keys -> ReceiptKinds \cup {"unused"}]
    BY <1>2 DEF IInv, TypeOK, ControlTypeOK
  <2>2. ~Decided BY <1>2, DecisionStays
  <2>3. CASE receipts' = receipts /\ control'.cancel = control.cancel
    BY <1>2, <2>2, <2>3 DEF CancelAlwaysFits, Used
  <2>4. ASSUME NEW k \in Keys, NEW kind \in {"adopted", "answer_intent"}, Records(k, kind, 1)
        PROVE  Cardinality(Used') < MaxReceipts
    <3>1. Cardinality(Used') = Cardinality(Used) + 1
      BY <2>1, <2>4, RecordsTakesOne DEF ReceiptKinds
    <3> QED BY <2>4, <3>1, UsedFinite, TaskConstants DEF Records
  <2> QED BY <1>2, <2>2, <2>3, <2>4, ReceiptMoves DEF ReceiptMove
<1> QED BY <1>1, <1>2, LifecycleInvariant, PTL DEF Spec

-----------------------------------------------------------------------------
(* Answers. *)

\* A native waiter that still waits was given nothing; one that was answered
\* has its intent in the record, and so has the answer being released.
AnswersHold ==
  /\ \A i \in Inputs :
       /\ requests[i] \in Open => released[i] = 0
       /\ released[i] <= 1
       /\ released[i] = 1 => inputs[i].state \notin {"absent", "pending"}
       /\ released[i] = 1 \/ answering = i => \E k \in Keys : receipts[k] = "answer_intent"
  /\ answering # NoInput => inputs[answering].state = "answer_intent"

\* A client's step needs the free mutex.  It presents, answers or withdraws a
\* pending input, and what it answers is in the record.
LEMMA ClientAnswers ==
  ASSUME IInv, ClientStep
  PROVE  /\ lock = "free"
         /\ UNCHANGED <<requests, released>>
         /\ \A i \in Inputs : \/ inputs'[i].state = inputs[i].state
                              \/ inputs'[i].state \in {"withdrawn", "answer_intent"}
         /\ \/ answering' = answering
            \/ /\ answering' \in Inputs /\ inputs'[answering'].state = "answer_intent"
               /\ \E k \in Keys : receipts'[k] = "answer_intent"
<1>1. /\ inputs \in [Inputs -> Input]
      /\ receipts \in [Keys -> ReceiptKinds \cup {"unused"}]
  BY DEF IInv, TypeOK, ControlTypeOK
<1> DEFINE Kept == \A i \in Inputs : \/ inputs'[i].state = inputs[i].state
                                     \/ inputs'[i].state \in {"withdrawn", "answer_intent"}
<1>2. ASSUME NEW c \in Clients, NEW k \in Keys, ClientCancel(c, k)
      PROVE  lock = "free" /\ UNCHANGED brokerVars /\ Kept
  <2>1. CASE CancelTooLate(c, k)
    BY <1>2, <2>1 DEF CancelTooLate, FreshReceipt, ClientCancel
  <2>2. CASE CancelAccepted(c, k)
    <3>1. ASSUME NEW i \in Inputs
          PROVE  inputs'[i].state \in {inputs[i].state, "withdrawn"}
      <4>1. PICK s \in {inputs[i].state, "withdrawn"} :
              inputs'[i] = [Unclaimed(inputs[i]) EXCEPT !.state = s]
        BY <2>2 DEF CancelAccepted
      <4> QED BY <1>1, <4>1, ClosedInput
    <3> QED BY <1>2, <2>2, <3>1 DEF CancelAccepted, FreshReceipt, ClientCancel
  <2> QED BY <1>2, <2>1, <2>2 DEF ClientCancel
<1>3. ASSUME NEW c \in Clients, NEW k \in Keys, ClientAdopt(c, k)
      PROVE  lock = "free" /\ UNCHANGED brokerVars /\ Kept
  BY <1>1, <1>3, ClosedInput DEF ClientAdopt, Adopt
<1>4. ASSUME NEW c \in Clients, ClientCancelAgain(c)
      PROVE  lock = "free" /\ UNCHANGED brokerVars /\ Kept
  BY <1>4 DEF ClientCancelAgain, controlVars
<1>5. ASSUME NEW c \in Clients, ReleaseClient(c), UNCHANGED brokerVars
      PROVE  lock = "free" /\ UNCHANGED brokerVars /\ Kept
  BY <1>1, <1>5, ClosedInput DEF ReleaseClient
<1>6. ASSUME NEW c \in Clients, NEW i \in Inputs, Claim(c, i)
      PROVE  lock = "free" /\ UNCHANGED brokerVars /\ Kept
  BY <1>1, <1>6 DEF Claim, Presentable, Input
<1>7. ASSUME NEW c \in Clients, NEW i \in Inputs, Dismiss(c, i)
      PROVE  lock = "free" /\ UNCHANGED brokerVars /\ Kept
  BY <1>1, <1>7, ClosedInput DEF Dismiss
<1>8. ASSUME NEW c \in Clients, NEW i \in Inputs, NEW k \in Keys, Answer(c, i, k)
      PROVE  /\ lock = "free" /\ UNCHANGED <<requests, released>> /\ Kept
             /\ answering' \in Inputs /\ inputs'[answering'].state = "answer_intent"
             /\ \E key \in Keys : receipts'[key] = "answer_intent"
  <2>1. /\ lock = "free" /\ answering' = i /\ UNCHANGED <<requests, released>>
        /\ inputs' = [inputs EXCEPT ![i] =
             [Unclaimed(@) EXCEPT !.state = "answer_intent"]]
        /\ receipts' = [receipts EXCEPT ![k] = "answer_intent"]
    BY <1>8 DEF Answer, Presentable
  <2>2. inputs'[i].state = "answer_intent" BY <1>1, <2>1, ClosedInput
  <2>3. \A j \in Inputs : j # i => inputs'[j] = inputs[j] BY <1>1, <2>1
  <2>4. receipts'[k] = "answer_intent" BY <1>1, <2>1
  <2> QED BY <2>1, <2>2, <2>3, <2>4
<1> QED BY <1>2, <1>3, <1>4, <1>5, <1>6, <1>7, <1>8 DEF ClientStep, brokerVars

\* An answer's receipt is never overwritten.
LEMMA AnswerReceiptsStay ==
  ASSUME IInv, [Next]_vars, NEW k \in Keys, receipts[k] = "answer_intent"
  PROVE  receipts'[k] = "answer_intent"
<1>1. receipts \in [Keys -> ReceiptKinds \cup {"unused"}]
  BY DEF IInv, TypeOK, ControlTypeOK
<1> QED BY <1>1, ReceiptMoves DEF ReceiptMove, Records

\* Answers keep their accounts.
LEMMA AnswersStep ==
  ASSUME IInv, AnswersHold, [Next]_vars
  PROVE  AnswersHold'
<1>1. /\ inputs \in [Inputs -> Input] /\ requests \in [Inputs -> RequestStates]
      /\ released \in [Inputs -> Nat] /\ answering \in Inputs \cup {NoInput}
      /\ NoInput \notin Inputs
  BY BrokerConstants DEF IInv, TypeOK, ControlTypeOK, BrokerTypeOK
<1>2. (\E k \in Keys : receipts[k] = "answer_intent")
        => \E k \in Keys : receipts'[k] = "answer_intent"
  BY AnswerReceiptsStay
<1>3. answering # NoInput => lock = "answer" BY DEF IInv, LockOwned
<1>4. CASE ClientStep
  <2>1. \A i \in Inputs : released[i] = 1 =>
          inputs'[i].state \notin {"absent", "pending"}
    BY <1>4, ClientAnswers DEF AnswersHold
  <2> QED BY <1>1, <1>2, <1>3, <1>4, <2>1, ClientAnswers DEF AnswersHold
<1>5. ASSUME RecordMove PROVE \A i \in Inputs : released[i] = 1 =>
                                inputs'[i].state \notin {"absent", "pending"}
  BY <1>5 DEF RecordMove, InputMove, Rests, Closes, Ends, Appears, AnswersHold, Open
<1>6. CASE RecordMove /\ released' = released
  <2>1. answering' # NoInput => answering' = answering /\ inputs' = inputs
    BY <1>3, <1>6 DEF RecordMove
  <2> QED BY <1>1, <1>2, <1>5, <1>6, <2>1 DEF RecordMove, RequestMove, AnswersHold
<1>7. CASE RecordMove /\ Release
  <2>1. /\ answering \in Inputs /\ answering' = NoInput
        /\ UNCHANGED inputs
        /\ \A i \in Inputs : i # answering =>
             requests'[i] = requests[i] /\ released'[i] = released[i]
    BY <1>1, <1>7 DEF Release
  <2>2. CASE answering \in Waiting
    <3>1. requests'[answering] = "closed" /\ released'[answering] = 1
      BY <1>1, <1>7, <2>1, <2>2 DEF Release, Waiting, AnswersHold, Open
    <3> QED BY <1>1, <1>2, <2>1, <3>1 DEF AnswersHold, Open
  <2>3. CASE answering \notin Waiting
    <3>1. UNCHANGED <<released, requests>> BY <1>7, <2>3 DEF Release
    <3> QED BY <1>1, <1>2, <2>1, <3>1 DEF AnswersHold
  <2> QED BY <2>2, <2>3
<1> QED BY <1>4, <1>6, <1>7, NextMoves

\* A native waiter gets one answer at most, and its intent is durable first.
THEOREM AnswersFollowIntent == Spec => []AnswerAfterIntent
<1>1. Init => AnswersHold
  BY BrokerConstants DEF Init, ControlInit, BrokerInit, AnswersHold
<1>2. IInv /\ AnswersHold /\ [Next]_vars => AnswersHold' BY AnswersStep
<1>3. AnswersHold => AnswerAfterIntent BY DEF AnswersHold, AnswerAfterIntent
<1> QED BY <1>1, <1>2, <1>3, LifecycleInvariant, PTL DEF Spec

-----------------------------------------------------------------------------
(* The bound on what waits. *)

\* Everything but Reserve leaves the waiting requests alone or ends some.
LEMMA WaitingMoves ==
  ASSUME IInv, [Next]_vars
  PROVE  Waiting' \subseteq Waiting \/ \E i \in Inputs : Reserve(i)
<1>1. requests \in [Inputs -> RequestStates]
  BY DEF IInv, TypeOK, BrokerTypeOK
<1>2. ASSUME requests' = requests PROVE Waiting' \subseteq Waiting
  BY <1>2 DEF Waiting
<1>3. ASSUME NEW i \in Inputs, NEW s, requests' = [requests EXCEPT ![i] = s],
             s \notin {"reserved", "published"} \/ i \in Waiting
      PROVE  Waiting' \subseteq Waiting
  BY <1>1, <1>3 DEF Waiting
<1>4. CASE BrokerStep
  <2>1. CASE Release
    <3>1. CASE answering \in Waiting
      BY <1>3, <2>1, <3>1 DEF Release, Waiting
    <3>2. CASE answering \notin Waiting
      BY <1>2, <2>1, <3>2 DEF Release
    <3> QED BY <3>1, <3>2
  <2>2. ASSUME NEW i \in Inputs,
               Publish(i) \/ PublishRefused(i) \/ WithdrawAborted(i) \/ RecordUndelivered(i)
        PROVE  Waiting' \subseteq Waiting
    BY <1>2, <1>3, <2>2
      DEF Publish, PublishRefused, WithdrawAborted, RecordUndelivered, Waiting
  <2> QED BY <1>4, <2>1, <2>2 DEF BrokerStep
<1>5. CASE WorkerAsks
  BY <1>3, <1>5 DEF WorkerAsks, AbortRequest, NativeWithdraw
<1>6. CASE ClientStep
  BY <1>2, <1>6, ClientAnswers
<1>7. CASE WorkerReports
  BY <1>2, <1>7 DEF WorkerReports, TurnStarted, TurnSettled, SettleTurn, SettleAnswers,
    ProcessObserved, RuntimeUnknown, LateEvent, EventDuringWrite, OperationStarted,
    OperationFinished, Report, brokerVars
<1>8. CASE RunStep \/ WorkerReturns \/ WorkerThrows \/ DropQueued \/ FreezeElsewhere
  BY <1>2, <1>8 DEF RunStep, Pump, RetainQueued, BeginPrepare, PrepareWorkspace, CommitStart,
    RunWorker, ReadEvidence, Admit, FinishRun, Recheck, BeginResult, WriteResult, FailResult,
    SettleResult, FreezeRun, LeaveRun, WorkerReturns, WorkerThrows, DropQueued, FreezeElsewhere,
    brokerVars
<1>9. CASE CancelStep \/ OperatorStep \/ Restart
  BY <1>2, <1>9 DEF CancelStep, DispatchCancel, SettleRecoveredCancel, OperatorStep, AckBegin,
    AckResult, AckResource, AckTerminal, AckSafety, Restart, brokerVars
<1>10. CASE Crash
  BY <1>10 DEF Crash, Waiting
<1>11. CASE UNCHANGED vars
  BY <1>2, <1>11 DEF vars, brokerVars
<1> QED BY <1>4, <1>5, <1>6, <1>7, <1>8, <1>9, <1>10, <1>11 DEF Next

\* #pending never holds more native requests than max_pending_inputs, those that
\* are still being published included (InputBroker.request).
PendingBounded == IsFiniteSet(Waiting) /\ Cardinality(Waiting) <= MaxPending

\* However many requests the worker raises at once, the table keeps its bound.
THEOREM PendingIsBounded == Spec => []PendingBounded
<1>1. Init => PendingBounded
  <2>1. ASSUME Init PROVE Waiting = {}
    BY <2>1 DEF Init, BrokerInit, Waiting
  <2> QED BY <2>1, FS_EmptySet, BrokerConstants DEF PendingBounded
<1>2. ASSUME IInv, PendingBounded, [Next]_vars PROVE PendingBounded'
  <2>1. Cardinality(Waiting) \in Nat BY <1>2, FS_CardinalityType DEF PendingBounded
  <2>2. CASE Waiting' \subseteq Waiting
    <3>1. /\ IsFiniteSet(Waiting') /\ Cardinality(Waiting') \in Nat
          /\ Cardinality(Waiting') <= Cardinality(Waiting)
      BY <1>2, <2>2, FS_Subset, FS_CardinalityType DEF PendingBounded
    <3> QED BY <1>2, <2>1, <3>1, BrokerConstants DEF PendingBounded
  <2>3. ASSUME NEW i \in Inputs, Reserve(i) PROVE PendingBounded'
    <3>1. Waiting' = Waiting \cup {i} /\ i \notin Waiting
      BY <1>2, <2>3 DEF Reserve, Waiting, IInv, TypeOK, BrokerTypeOK
    <3>2. IsFiniteSet(Waiting') /\ Cardinality(Waiting') = Cardinality(Waiting) + 1
      BY <1>2, <3>1, FS_AddElement DEF PendingBounded
    <3>3. Cardinality(Waiting) < MaxPending BY <2>3 DEF Reserve
    <3> QED BY <2>1, <3>2, <3>3, BrokerConstants DEF PendingBounded
  <2> QED BY <1>2, <2>2, <2>3, WaitingMoves
<1> QED BY <1>1, <1>2, LifecycleInvariant, PTL DEF Spec

-----------------------------------------------------------------------------
(* The settlement and the result. *)

Before == {"queued", "preparing", "workspace", "ready", "launching", "running",
           "returned", "evidence"}
After == {"admitted", "closing", "fenced", "writing", "written"}

\* The admission decides first, the result follows the decision, and the only
\* other writers of a result are those of a task no run owns.
SettledHolds ==
  /\ ResultAgrees
  /\ pc \in {"writing", "written"} => control.settled = run.status
  /\ pc \in Before => control.settled = "none"
  /\ pc \in Before \cup (After \ {"written"}) => result = NoResult
  /\ ack = "settled" => control.settled = "interrupted"

\* The settlement changes when a late event contradicts it before there is a
\* result, and otherwise only by its run or its operator.
LEMMA WorkerSettles ==
  ASSUME TypeOK, WorkerReports
  PROVE  /\ UNCHANGED <<run, pc, result>>
         /\ \/ control'.settled = control.settled
            \/ /\ lock = "free" /\ result = NoResult /\ control.settled # "none"
               /\ control'.settled = "interrupted"
<1>1. UNCHANGED <<run, pc, result>> BY WorkerSteps
<1>2. control \in Control BY DEF TypeOK, ControlTypeOK
<1>3. CASE LateEvent
  <2>1. CASE UNCHANGED control BY <1>1, <2>1
  <2>2. CASE result = NoResult /\ lock = "free" /\ control.settled # "none"
             /\ control' = [control EXCEPT !.native = "unknown", !.coverage = "unknown",
                             !.limitation = "late", !.phase = "needs_attention",
                             !.settled = "interrupted", !.attention = "other"]
    <3>1. control'.settled = "interrupted" BY <1>2, <2>2 DEF Control
    <3> QED BY <1>1, <2>2, <3>1
  <2> QED BY <1>3, <2>1, <2>2 DEF LateEvent
<1>4. CASE SettleTurn \/ EventDuringWrite
  BY <1>1, <1>4 DEF SettleTurn, SettleAnswers, EventDuringWrite, controlVars
<1>5. ASSUME NEW update, Report(update) PROVE control'.settled = control.settled
  <2>1. ~Decided BY <1>5 DEF Report
  <2> QED BY <2>1, WorkerSteps DEF Decided, SameDecision
<1>6. CASE TurnStarted \/ TurnSettled \/ ProcessObserved \/ RuntimeUnknown
           \/ \E o \in Operations : OperationStarted(o) \/ OperationFinished(o)
  <2>1. \E update : Report(update)
    BY <1>6 DEF TurnStarted, TurnSettled, ProcessObserved, RuntimeUnknown,
                OperationStarted, OperationFinished
  <2> QED BY <1>1, <1>5, <2>1
<1> QED BY <1>3, <1>4, <1>6 DEF WorkerReports

\* Of the calm steps only the admission settles.
LEMMA CalmSettles ==
  ASSUME TypeOK,
         \/ Pump \/ DropQueued \/ BeginPrepare \/ PrepareWorkspace \/ CommitStart
         \/ WorkerReturns \/ WorkerThrows \/ ReadEvidence \/ Admit \/ FinishRun
         \/ FreezeRun \/ LeaveRun \/ FreezeElsewhere
  PROVE  control'.settled = control.settled \/ pc' = "admitted"
<1>1. control \in Control BY DEF TypeOK, ControlTypeOK
<1>2. CASE Admit BY <1>2 DEF Admit, Goto
<1>3. CASE Pump \/ DropQueued \/ PrepareWorkspace \/ WorkerReturns \/ WorkerThrows
           \/ ReadEvidence \/ FinishRun \/ FreezeRun \/ LeaveRun \/ FreezeElsewhere
  BY <1>3 DEF Pump, DropQueued, PrepareWorkspace, WorkerReturns, WorkerThrows,
              ReadEvidence, FinishRun, FreezeRun, LeaveRun, FreezeElsewhere, controlVars
<1>4. CASE BeginPrepare BY <1>1, <1>4 DEF BeginPrepare, Control
<1>5. CASE CommitStart BY <1>1, <1>5 DEF CommitStart, Control
<1> QED BY <1>2, <1>3, <1>4, <1>5

\* Every step keeps result and settlement in agreement.
LEMMA SettledStep ==
  ASSUME IInv, SettledHolds, [Next]_vars
  PROVE  SettledHolds'
<1> USE DEF SettledHolds, ResultAgrees
<1>1. TypeOK /\ control \in Control /\ run.status \in Outcomes
  BY DEF IInv, TypeOK, ControlTypeOK, ExecTypeOK
<1>2. ASSUME UNCHANGED <<run, pc, result, ack>>, control'.settled = control.settled
      PROVE  SettledHolds'
  BY <1>2
<1>3. CASE UNCHANGED vars
  BY <1>2, <1>3 DEF vars, controlVars, execVars, lifeVars
<1>4. ASSUME UNCHANGED lifeVars, ClientStep \/ BrokerStep \/ WorkerAsks
      PROVE  SettledHolds'
  <2>1. UNCHANGED <<run, pc, result>> /\ control'.settled = control.settled
    BY <1>1, <1>4, ClientSteps, BrokerSteps DEF SameDecision
  <2> QED BY <1>2, <1>4, <2>1 DEF lifeVars
<1>5. ASSUME UNCHANGED lifeVars, WorkerReports PROVE SettledHolds'
  <2>1. lock = "free" => pc \notin {"writing", "written"} /\ ack = "none"
    BY DEF IInv, LockOwned
  <2> QED BY <1>1, <1>5, <2>1, WorkerSettles DEF lifeVars, NoResult
<1>6. ASSUME UNCHANGED lifeVars, RunStep \/ DropQueued \/ WorkerReturns \/ WorkerThrows
                                 \/ FreezeElsewhere
      PROVE  SettledHolds'
  <2>1. CASE \/ Pump \/ DropQueued \/ BeginPrepare \/ PrepareWorkspace \/ CommitStart
             \/ WorkerReturns \/ WorkerThrows \/ ReadEvidence \/ Admit \/ FinishRun
             \/ FreezeRun \/ LeaveRun \/ FreezeElsewhere
    <3>1. Calm /\ (control'.settled = control.settled \/ pc' = "admitted")
      BY <1>1, <2>1, CalmSteps, CalmSettles
    <3>2. ack = "settled" => pc \in {"idle", "retaining"} BY DEF IInv, AckInOrder
    <3>3. pc' = "admitted" => result = NoResult
      BY <3>1 DEF Calm, CalmMove, Before, After
    <3>4. pc' = "admitted" => pc \in {"evidence", "admitted"}
      BY <3>1 DEF Calm, CalmMove
    <3> QED BY <1>6, <3>1, <3>2, <3>3, <3>4
            DEF Calm, CalmMove, Before, After, lifeVars, NoResult
  <2>2. CASE RetainQueued
    <3>1. control'.settled = control.settled BY <1>1, <2>2 DEF RetainQueued, Control
    <3> QED BY <1>6, <2>2, <3>1 DEF RetainQueued, Goto, Before, After, lifeVars
  <2>3. CASE RunWorker
    BY <1>6, <2>3 DEF RunWorker, controlVars, Before, After, lifeVars
  <2>4. CASE Recheck
    <3>1. pc = "closing" /\ pc' = "fenced" /\ lock = "free" /\ UNCHANGED result
      BY <2>4 DEF Recheck, Goto
    <3>2. result = NoResult /\ ack = "none" BY <3>1 DEF After, IInv, LockOwned
    <3> QED BY <1>6, <3>1, <3>2 DEF Before, After, lifeVars, NoResult
  <2>5. CASE BeginResult
    <3>1. pc = "fenced" /\ pc' = "writing" /\ lock = "free" /\ UNCHANGED result
          /\ control' = [control EXCEPT !.phase = "finalizing", !.settled = run'.status]
      BY <2>5 DEF BeginResult, Goto
    <3>2. result = NoResult /\ ack = "none" BY <3>1 DEF After, IInv, LockOwned
    <3>3. control'.settled = run'.status BY <1>1, <3>1 DEF Control
    <3> QED BY <1>6, <3>1, <3>2, <3>3 DEF Before, After, lifeVars, NoResult
  <2>6. CASE WriteResult \/ FailResult
    <3>1. pc = "writing" /\ UNCHANGED <<control, run>> BY <2>6, WriteSteps
    <3>2. result = NoResult /\ control.settled = run.status BY <3>1 DEF After
    <3>3. /\ pc' \in {"written", "freezing"}
          /\ result' \in {result, [status |-> run.status, stop |-> run.stop]}
      BY <2>6, WriteSteps
    <3> QED BY <1>6, <3>1, <3>2, <3>3 DEF Before, After, lifeVars, NoResult
  <2>7. CASE SettleResult
    BY <1>6, <2>7, SettleSteps DEF Before, After, lifeVars
  <2> QED BY <1>6, <2>1, <2>2, <2>3, <2>4, <2>5, <2>6, <2>7 DEF RunStep
<1>7. ASSUME UNCHANGED lifeVars, DispatchCancel PROVE SettledHolds'
  <2>1. UNCHANGED <<control, run, pc>>
        /\ \/ UNCHANGED result
           \/ /\ pc \in {"idle", "retaining"} /\ control.settled \in {"none", "cancelled"}
              /\ result' = [status |-> "cancelled", stop |-> "not_started"]
    BY <1>7 DEF DispatchCancel, controlVars
  <2> QED BY <1>7, <2>1 DEF Before, After, lifeVars
<1>8. ASSUME UNCHANGED lifeVars, SettleRecoveredCancel PROVE SettledHolds'
  <2>1. control'.settled = control.settled
    BY <1>1, <1>8 DEF SettleRecoveredCancel, Control
  <2> QED BY <1>2, <1>8, <2>1 DEF SettleRecoveredCancel, lifeVars
<1>9. CASE OperatorStep
  <2>1. pc \in {"idle", "retaining"} /\ UNCHANGED <<pc, run>> BY <1>9, OperatorSteps
  <2>2. CASE AckBegin
    <3>1. \/ UNCHANGED control /\ ack' = "result"
          \/ control'.settled = "interrupted" /\ result = NoResult
      BY <1>1, <2>2 DEF AckBegin, Control
    <3> QED BY <2>1, <2>2, <3>1 DEF AckBegin, execVars, Before, After, NoResult
  <2>3. CASE AckResult
    BY <2>1, <2>3 DEF AckResult, controlVars, Before, After
  <2>4. CASE AckResource \/ AckSafety
    BY <2>1, <2>4 DEF AckResource, AckSafety, controlVars, execVars, Before, After
  <2>5. CASE AckTerminal
    <3>1. control'.settled = control.settled BY <1>1, <2>5 DEF AckTerminal, Control
    <3> QED BY <2>1, <2>5, <3>1 DEF AckTerminal, execVars, Before, After
  <2> QED BY <1>9, <2>2, <2>3, <2>4, <2>5 DEF OperatorStep
<1>10. CASE Crash BY <1>10 DEF Crash, Before, After
<1>11. CASE Restart BY <1>2, <1>11, RestartSteps
<1> QED BY <1>3, <1>4, <1>5, <1>6, <1>7, <1>8, <1>9, <1>10, <1>11 DEF Next, CancelStep

\* A reader never finds a result that differs from the accepted settlement.
THEOREM ResultsAgree == Spec => []ResultAgrees
<1>1. Init => SettledHolds
  BY DEF Init, ControlInit, ExecInit, SettledHolds, ResultAgrees, NoResult, Before, After
<1>2. IInv /\ SettledHolds /\ [Next]_vars => SettledHolds' BY SettledStep
<1>3. SettledHolds => ResultAgrees BY DEF SettledHolds
<1> QED BY <1>1, <1>2, <1>3, LifecycleInvariant, PTL DEF Spec

-----------------------------------------------------------------------------
(* Uncertainty and the freeze. *)

\* A terminal task stays terminal.
LEMMA TerminalStays ==
  ASSUME IInv, [Next]_vars, control.phase = "terminal"
  PROVE  control'.phase = "terminal"
<1> USE DEF IInv, TerminalComplete
<1>1. TypeOK /\ control \in Control BY DEF TypeOK, ControlTypeOK
<1>2. CASE UNCHANGED vars BY <1>2 DEF vars, controlVars
<1>3. CASE ClientStep BY <1>1, <1>3, ClientSteps DEF Decided
<1>4. CASE BrokerStep \/ WorkerAsks BY <1>1, <1>4, BrokerSteps
<1>5. CASE WorkerReports BY <1>1, <1>5, WorkerSteps DEF Decided
<1>6. CASE RunStep \/ DropQueued \/ WorkerReturns \/ WorkerThrows \/ FreezeElsewhere
  <2>1. CASE Calm BY <2>1 DEF Calm
  <2>2. CASE RetainQueued BY <1>1, <2>2 DEF RetainQueued
  <2>3. CASE RunWorker BY <2>3 DEF RunWorker, controlVars
  <2>4. CASE Recheck \/ BeginResult
    BY <2>4 DEF Recheck, BeginResult, Owned, Steps
  <2>5. CASE WriteResult \/ FailResult BY <2>5, WriteSteps
  <2>6. CASE SettleResult BY <2>6, SettleSteps DEF Owned, Steps
  <2> QED BY <1>1, <1>6, <2>1, <2>2, <2>3, <2>4, <2>5, <2>6, CalmSteps DEF RunStep
<1>7. CASE DispatchCancel BY <1>7, DispatchSteps
<1>8. CASE SettleRecoveredCancel BY <1>1, <1>8 DEF SettleRecoveredCancel, Control
<1>9. CASE OperatorStep BY <1>9, OperatorSteps
<1>10. CASE Crash BY <1>10 DEF Crash
<1>11. CASE Restart BY <1>11, RestartSteps
<1> QED BY <1>2, <1>3, <1>4, <1>5, <1>6, <1>7, <1>8, <1>9, <1>10, <1>11
        DEF Next, CancelStep

\* A task that may have run and has no entry is terminal or keeps the freeze,
\* which an operator only lifts from a terminal task.
FreezeHolds ==
  /\ service = "up" /\ pc = "idle" =>
       \/ control.phase = "terminal"
       \/ control.native = "not_started" /\ starts = 0
       \/ frozen
  /\ pc \in Unstarted \ {"launching"} => control.native = "not_started"
  /\ pc = "leaving" => control.phase = "terminal" \/ frozen
  /\ ack = "safety" => control.phase = "terminal"

\* What clients, requests and answers leave alone.
LEMMA ClientFreezes ==
  ASSUME TypeOK, ClientStep \/ BrokerStep \/ WorkerAsks
  PROVE  UNCHANGED <<pc, starts, frozen>> /\ control'.native = control.native
<1>1. control \in Control BY DEF TypeOK, ControlTypeOK
<1>2. UNCHANGED <<pc, starts>> BY ClientSteps, BrokerSteps
<1>3. ASSUME NEW ph, control' \in {control, [control EXCEPT !.phase = ph]}
      PROVE  control'.native = control.native
  BY <1>1, <1>3 DEF Control
<1>4. CASE ClientStep
  <2>1. ASSUME NEW c \in Clients, NEW k \in Keys, ClientCancel(c, k)
        PROVE  UNCHANGED frozen /\ control'.native = control.native
    BY <1>1, <2>1 DEF ClientCancel, CancelTooLate, CancelAccepted, Control
  <2>2. ASSUME NEW c \in Clients, NEW k \in Keys, ClientAdopt(c, k)
        PROVE  UNCHANGED frozen /\ control'.native = control.native
    BY <1>1, <2>2 DEF ClientAdopt, Adopt, Control, execVars
  <2>3. ASSUME NEW c \in Clients,
               \/ ClientCancelAgain(c)
               \/ ReleaseClient(c) /\ UNCHANGED execVars
               \/ \E i \in Inputs : (Claim(c, i) \/ Dismiss(c, i)) /\ UNCHANGED execVars
        PROVE  UNCHANGED frozen /\ control'.native = control.native
    BY <2>3 DEF ClientCancelAgain, ReleaseClient, Claim, Dismiss, controlVars, execVars
  <2>4. ASSUME NEW c \in Clients, NEW i \in Inputs, NEW k \in Keys, Answer(c, i, k)
        PROVE  control'.native = control.native
    BY <1>3, <2>4 DEF Answer
  <2> QED BY <1>2, <1>4, <2>1, <2>2, <2>3, <2>4 DEF ClientStep, execVars
<1>5. CASE BrokerStep
  <2>1. UNCHANGED frozen BY <1>5 DEF BrokerStep, execVars
  <2>2. \E ph : control' \in {control, [control EXCEPT !.phase = ph]}
    BY <1>5 DEF BrokerStep, Release, Publish, PublishRequest, PublishRefused,
                WithdrawAborted, RecordUndelivered, controlVars
  <2> QED BY <1>2, <1>3, <2>1, <2>2
<1>6. CASE WorkerAsks
  BY <1>2, <1>6 DEF WorkerAsks, Reserve, AbortRequest, NativeWithdraw, controlVars, execVars
<1> QED BY <1>4, <1>5, <1>6

\* What the worker reports about a task that is not terminal.
LEMMA WorkerFreezes ==
  ASSUME TypeOK, WorkerReports
  PROVE  /\ UNCHANGED <<pc, starts>> /\ (frozen => frozen')
         /\ UNCHANGED control \/ (starts > 0 /\ control.phase # "terminal")
<1>1. UNCHANGED <<pc, starts>> BY WorkerSteps
<1>2. UNCHANGED control \/ (starts > 0 /\ control.phase # "terminal")
  BY WorkerSteps DEF Decided
<1>3. frozen => frozen'
  <2>1. ASSUME NEW update, Report(update) PROVE UNCHANGED frozen BY <2>1 DEF Report
  <2>2. CASE LateEvent BY <2>2 DEF LateEvent
  <2>3. CASE SettleTurn \/ EventDuringWrite BY <2>3 DEF SettleTurn, EventDuringWrite
  <2> QED BY <2>1, <2>2, <2>3 DEF WorkerReports, TurnStarted, TurnSettled,
             ProcessObserved, RuntimeUnknown, OperationStarted, OperationFinished
<1> QED BY <1>1, <1>2, <1>3

\* What the continuations of the run do to the freeze and to native.
LEMMA RunFreezes ==
  ASSUME IInv, RunStep \/ DropQueued \/ WorkerReturns \/ WorkerThrows \/ FreezeElsewhere
  PROVE  /\ frozen => frozen'
         /\ \/ /\ pc \in Unstarted \ {"launching"}
               /\ pc' \in (Unstarted \ {"launching"}) \cup {"closing"}
               /\ UNCHANGED <<starts, control>> \/ control'.native = control.native
            \/ /\ pc = "retaining" /\ pc' = "idle" /\ UNCHANGED starts
               /\ control'.native = control.native
            \/ /\ pc \notin {"idle", "retaining", "leaving"}
               /\ pc' \notin (Unstarted \ {"launching"}) \cup {"idle", "leaving"}
            \/ pc' = "leaving" /\ (frozen' \/ control'.phase = "terminal")
            \/ pc = "leaving" /\ pc' = "idle" /\ UNCHANGED <<control, frozen, starts>>
            \/ UNCHANGED <<pc, control, starts>>
<1> USE DEF Unstarted
<1>1. control \in Control BY DEF IInv, TypeOK, ControlTypeOK
<1>2. CASE Pump \/ DropQueued \/ PrepareWorkspace
  BY <1>2 DEF Pump, DropQueued, PrepareWorkspace, Goto, Caught, controlVars
<1>3. CASE RetainQueued
  <2>1. control'.native = control.native BY <1>1, <1>3 DEF RetainQueued, Control
  <2> QED BY <1>3, <2>1 DEF RetainQueued, Goto
<1>4. CASE BeginPrepare
  <2>1. control'.native = control.native BY <1>1, <1>4 DEF BeginPrepare, Control
  <2> QED BY <1>4, <2>1 DEF BeginPrepare, Goto, Caught
<1>5. CASE CommitStart
  BY <1>5 DEF CommitStart, Goto, Caught
<1>6. CASE RunWorker BY <1>6 DEF RunWorker
<1>7. CASE WorkerReturns \/ WorkerThrows \/ ReadEvidence \/ Admit \/ FinishRun \/ Recheck
           \/ BeginResult
  <2>1. /\ pc \in {"running", "returned", "evidence", "admitted", "closing", "fenced"}
        /\ pc' \in {"returned", "closing", "evidence", "admitted", "fenced", "writing"}
    BY <1>7 DEF WorkerReturns, WorkerThrows, ReadEvidence, Admit, FinishRun, Recheck,
                BeginResult, Goto, Caught
  <2>2. frozen => frozen'
    BY <1>7 DEF WorkerReturns, WorkerThrows, ReadEvidence, Admit, FinishRun, Recheck,
                BeginResult, Caught
  <2> QED BY <2>1, <2>2
<1>8. CASE WriteResult \/ FailResult
  <2>1. UNCHANGED frozen BY <1>8 DEF WriteResult, FailResult
  <2>2. pc = "writing" /\ pc' \in {"written", "freezing"} BY <1>8, WriteSteps
  <2> QED BY <2>1, <2>2
<1>9. CASE SettleResult
  <2>1. UNCHANGED frozen BY <1>9 DEF SettleResult
  <2> QED BY <1>9, <2>1, SettleSteps
<1>10. CASE FreezeRun BY <1>10 DEF FreezeRun, Goto
<1>11. CASE LeaveRun BY <1>11 DEF LeaveRun, Goto, controlVars
<1>12. CASE FreezeElsewhere BY <1>12 DEF FreezeElsewhere, controlVars
<1> QED BY <1>2, <1>3, <1>4, <1>5, <1>6, <1>7, <1>8, <1>9, <1>10, <1>11, <1>12
        DEF RunStep

\* Recovery leaves a task terminal, never started, or the repository frozen.
LEMMA RestartFreezes ==
  ASSUME IInv, Restart
  PROVE  /\ pc' = "idle" /\ ack' = "none"
         /\ \/ control'.phase = "terminal"
            \/ control'.native = "not_started" /\ starts' = 0
            \/ frozen'
<1>1. control \in Control BY DEF IInv, TypeOK, ControlTypeOK
<1>2. pc = "idle" /\ ack = "none" /\ UNCHANGED <<pc, ack, starts>>
  BY RestartSteps DEF IInv, DownForgets, Restart
<1>3. CASE KeepFrozen BY <1>2, <1>3 DEF KeepFrozen
<1>4. CASE control'.phase = "terminal" BY <1>2, <1>4
<1>5. CASE LeaveUncertain
  <2>1. CASE QueuedBefore
    <3>1. control'.native = "not_started" BY <1>1, <1>5, <2>1 DEF LeaveUncertain, QueuedBefore, Control
    <3>2. starts = 0
      BY <2>1 DEF QueuedBefore, IInv, NothingBeforeStart, RecoveredUnstarted
    <3> QED BY <1>2, <3>1, <3>2
  <2>2. CASE ~QueuedBefore BY <1>2, <1>5, <2>2 DEF LeaveUncertain
  <2> QED BY <2>1, <2>2
<1>6. CASE FinishAs("cancelled", control.phase = "terminal" /\ control.outcome = "cancelled")
  <2>1. control'.phase = "terminal" BY <1>1, <1>6 DEF FinishAs, Control
  <2> QED BY <1>4, <2>1
<1>7. CASE FinishAs(result.status, control.phase = "terminal")
  <2>1. control'.phase = "terminal" BY <1>1, <1>7 DEF FinishAs, Control
  <2> QED BY <1>4, <2>1
<1> QED BY <1>3, <1>5, <1>6, <1>7 DEF Restart

\* Every step keeps the freeze over an uncertain task.
LEMMA FreezeStep ==
  ASSUME IInv, FreezeHolds, [Next]_vars
  PROVE  FreezeHolds'
<1> USE DEF FreezeHolds
<1>1. TypeOK /\ control \in Control BY DEF IInv, TypeOK, ControlTypeOK
<1>2. control.phase = "terminal" => control'.phase = "terminal" BY TerminalStays
<1>3. ASSUME UNCHANGED <<pc, starts, service, ack>>, frozen => frozen',
             control'.native = control.native
      PROVE  FreezeHolds'
  BY <1>2, <1>3
<1>4. CASE UNCHANGED vars BY <1>4 DEF vars, controlVars, execVars, lifeVars
<1>5. ASSUME UNCHANGED lifeVars, ClientStep \/ BrokerStep \/ WorkerAsks
      PROVE  FreezeHolds'
  BY <1>1, <1>3, <1>5, ClientFreezes DEF lifeVars
<1>6. ASSUME UNCHANGED lifeVars, WorkerReports PROVE FreezeHolds'
  <2>1. starts > 0 => pc \notin Unstarted BY DEF IInv, NothingBeforeStart
  <2>2. ack = "safety" => control.phase = "terminal" OBVIOUS
  <2>3. CASE UNCHANGED control BY <1>1, <1>3, <1>6, <2>3, WorkerFreezes DEF lifeVars
  <2>4. CASE starts > 0 /\ control.phase # "terminal"
    BY <1>1, <1>6, <2>1, <2>4, WorkerFreezes DEF lifeVars
  <2> QED BY <1>1, <1>6, <2>3, <2>4, WorkerFreezes
<1>7. ASSUME UNCHANGED lifeVars, RunStep \/ DropQueued \/ WorkerReturns \/ WorkerThrows
                                 \/ FreezeElsewhere
      PROVE  FreezeHolds'
  <2>1. pc \in Unstarted => starts = 0 BY DEF IInv, NothingBeforeStart
  <2> QED BY <1>2, <1>7, <2>1, RunFreezes DEF lifeVars, Unstarted
<1>8. ASSUME UNCHANGED lifeVars, CancelStep PROVE FreezeHolds'
  <2>1. UNCHANGED <<pc, starts, frozen>> /\ control'.native = control.native
    BY <1>1, <1>8 DEF CancelStep, DispatchCancel, SettleRecoveredCancel, controlVars, Control
  <2> QED BY <1>3, <1>8, <2>1 DEF lifeVars
<1>9. CASE OperatorStep
  <2>1. UNCHANGED <<pc, starts, service>> BY <1>9, OperatorSteps
  <2>2. control'.native = control.native
    BY <1>1, <1>9 DEF OperatorStep, AckBegin, AckResult, AckResource, AckTerminal,
                      AckSafety, controlVars, Control
  <2>3. ack' = "safety" => control'.phase = "terminal"
    BY <1>2, <1>9, OperatorSteps
  <2>4. frozen /\ ~frozen' => control.phase = "terminal"
    BY <1>9 DEF OperatorStep, AckBegin, AckResult, AckResource, AckTerminal, AckSafety,
                execVars
  <2> QED BY <1>2, <2>1, <2>2, <2>3, <2>4, <1>9, OperatorSteps DEF Unstarted
<1>10. CASE Crash BY <1>10 DEF Crash, Unstarted
<1>11. CASE Restart BY <1>11, RestartFreezes DEF Unstarted
<1> QED BY <1>4, <1>5, <1>6, <1>7, <1>8, <1>9, <1>10, <1>11 DEF Next

\* Nothing that may still run natively is left behind without a freeze.
THEOREM UncertaintyKeepsTheFreeze == Spec => []UncertaintyFreezes
<1>1. Init => FreezeHolds
  BY DEF Init, ControlInit, ExecInit, FreezeHolds, Unstarted
<1>2. IInv /\ FreezeHolds /\ [Next]_vars => FreezeHolds' BY FreezeStep
<1>3. FreezeHolds => UncertaintyFreezes BY DEF FreezeHolds, UncertaintyFreezes
<1> QED BY <1>1, <1>2, <1>3, LifecycleInvariant, PTL DEF Spec

-----------------------------------------------------------------------------
(* The evidence under a completion. *)

\* No input is open, no answer is under way and none is still to be recorded.
Quiet == Unsettled(inputs) = {} /\ undelivered = {} /\ answering = NoInput

Proven == control.coverage = "turn_scoped" /\ control.obligations = {}

\* A completion is admitted on evidence; while its run goes on the evidence
\* stands or the settlement changes, and what is written was checked last.
EvidenceHolds ==
  /\ pc \in After /\ control.settled = "completed" =>
       control.phase = "finalizing" /\ Quiet
  /\ pc \in Before => ~run.issue /\ ~run.nativeIssue
  /\ pc \in After /\ run.status = "completed" => ~run.issue /\ ~run.nativeIssue
  /\ pc \in Fencing /\ run.status = "completed" => run.stop # "unconfirmed"
  /\ pc \in {"writing", "written"} /\ run.status = "completed" => Proven
  /\ result.status = "completed" =>
       /\ control.settled = "completed" /\ result.stop # "unconfirmed"
       /\ \/ control.attention = "conflict"
          \/ control.phase \in {"finalizing", "terminal"} /\ Quiet /\ Proven

SameEvidence ==
  /\ control'.settled = control.settled
  /\ control'.attention = control.attention
  /\ control'.coverage = control.coverage
  /\ control'.obligations = control.obligations

\* After a completion was settled a client changes no evidence.
LEMMA ClientEvidence ==
  ASSUME IInv, ClientStep, control.settled = "completed"
  PROVE  SameEvidence /\ control'.phase = control.phase /\ (Quiet => Quiet')
<1>1. TypeOK /\ control \in Control BY DEF IInv, TypeOK, ControlTypeOK
<1>2. Decided BY DEF Decided
<1>3. /\ SameDecision /\ OnlySettles /\ UNCHANGED answering
      /\ control'.phase = control.phase /\ control'.attention = control.attention
  <2>1. CASE control.cancel /\ UNCHANGED <<control, inputs, answering>>
    BY <2>1 DEF SameDecision, OnlySettles
  <2> QED BY <1>1, <1>2, <2>1, ClientSteps
<1>4. /\ control'.coverage = control.coverage /\ control'.obligations = control.obligations
      /\ UNCHANGED undelivered
  <2>1. ASSUME NEW c \in Clients, NEW k \in Keys, ClientCancel(c, k)
        PROVE  UNCHANGED <<control, undelivered>>
    BY <1>2, <2>1 DEF ClientCancel, CancelTooLate, CancelAccepted, brokerVars
  <2>2. ASSUME NEW c \in Clients, NEW k \in Keys, ClientAdopt(c, k)
        PROVE  /\ control'.coverage = control.coverage
               /\ control'.obligations = control.obligations /\ UNCHANGED undelivered
    BY <1>1, <2>2 DEF ClientAdopt, Adopt, Control, brokerVars
  <2>3. ASSUME NEW c \in Clients,
               \/ ClientCancelAgain(c)
               \/ ReleaseClient(c) /\ UNCHANGED brokerVars
               \/ \E i \in Inputs : Claim(c, i) \/ Dismiss(c, i)
        PROVE  UNCHANGED <<control, undelivered>>
    BY <2>3 DEF ClientCancelAgain, ReleaseClient, Claim, Dismiss, controlVars, brokerVars
  <2>4. ASSUME NEW c \in Clients, NEW i \in Inputs, NEW k \in Keys, Answer(c, i, k)
        PROVE  FALSE
    BY <1>2, <2>4 DEF Answer, Presentable
  <2> QED BY <2>1, <2>2, <2>3, <2>4 DEF ClientStep
<1> QED BY <1>3, <1>4 DEF SameEvidence, SameDecision, Quiet, OnlySettles

\* Requests and answers leave a quiet, finalizing task alone.
LEMMA BrokerEvidence ==
  ASSUME IInv, BrokerStep \/ WorkerAsks
  PROVE  /\ SameEvidence
         /\ control.phase \in {"finalizing", "terminal"} /\ Quiet =>
              control'.phase = control.phase /\ Quiet'
<1>1. TypeOK /\ control \in Control BY DEF IInv, TypeOK, ControlTypeOK
<1>2. SameEvidence
  <2>1. PICK ph : control' \in {control, [control EXCEPT !.phase = ph]}
    BY DEF BrokerStep, WorkerAsks, Release, Publish, PublishRequest, PublishRefused,
           WithdrawAborted, RecordUndelivered, Reserve, AbortRequest, NativeWithdraw,
           controlVars
  <2> QED BY <1>1, <2>1 DEF SameEvidence, Control
<1>3. ASSUME control.phase \in {"finalizing", "terminal"}, Quiet
      PROVE  control'.phase = control.phase /\ Quiet'
  <2>1. UNCHANGED <<control, undelivered, answering>>
    <3>1. CASE BrokerStep
      BY <1>3, <3>1 DEF BrokerStep, Release, Publish, PublishRequest, PublishRefused,
                        WithdrawAborted, RecordUndelivered, controlVars, Quiet
    <3>2. CASE WorkerAsks
      BY <3>2 DEF WorkerAsks, Reserve, AbortRequest, NativeWithdraw, controlVars
    <3> QED BY <3>1, <3>2
  <2>2. OnlySettles
    <3>1. ~(control'.phase \in {"needs_attention", "awaiting_input"}) BY <1>3, <2>1
    <3>2. CASE UNCHANGED inputs BY <3>2 DEF OnlySettles
    <3> QED BY <1>1, <1>3, <2>1, <3>1, <3>2, BrokerSteps
  <2> QED BY <1>3, <2>1, <2>2 DEF Quiet, OnlySettles
<1> QED BY <1>2, <1>3

\* What the worker reports of a settled completion contradicts it, or waits.
LEMMA WorkerEvidence ==
  ASSUME IInv, WorkerReports, control.settled = "completed"
  PROVE  /\ Quiet => Quiet'
         /\ \/ UNCHANGED control
            \/ /\ lock = "free" /\ result = NoResult
               /\ control'.settled = "interrupted"
<1>1. TypeOK BY DEF IInv
<1>2. ASSUME NEW update, Report(update) PROVE FALSE BY <1>2 DEF Report, Decided
<1>3. CASE SettleTurn \/ EventDuringWrite
  <2>1. UNCHANGED <<control, brokerVars>>
    BY <1>3 DEF SettleTurn, SettleAnswers, EventDuringWrite, controlVars
  <2> QED BY <1>1, <2>1, WorkerSteps DEF Quiet, OnlySettles, brokerVars
<1>4. CASE LateEvent
  <2>1. UNCHANGED <<inputs, brokerVars>> BY <1>4 DEF LateEvent
  <2>2. \/ UNCHANGED control
        \/ lock = "free" /\ result = NoResult
    BY <1>4 DEF LateEvent
  <2> QED BY <1>1, <1>4, <2>1, <2>2, WorkerSettles, WorkerSteps
          DEF Quiet, brokerVars, Decided, LateEvent
<1> QED BY <1>2, <1>3, <1>4 DEF WorkerReports, TurnStarted, TurnSettled, ProcessObserved,
        RuntimeUnknown, OperationStarted, OperationFinished

\* A completion that is checked again rests on evidence and is left as it is.
LEMMA RecheckedCompleted ==
  ASSUME NEW r \in [status : Outcomes, stop : Stops, generation : Nat,
                    issue : BOOLEAN, nativeIssue : BOOLEAN],
         Rechecked(r).status = "completed"
  PROVE  Rechecked(r) = r /\ Proven /\ control.settled = "completed"
<1>1. [r EXCEPT !.nativeIssue = TRUE,
          !.status = IF @ = "completed" THEN "interrupted" ELSE @].status # "completed"
  OBVIOUS
<1>2. /\ [r EXCEPT !.nativeIssue = TRUE, !.status = "interrupted"].status # "completed"
      /\ [r EXCEPT !.issue = TRUE, !.status = "interrupted"].status # "completed"
  OBVIOUS
<1> QED BY <1>1, <1>2 DEF Rechecked, Proven

\* A step that leaves the run, the result and the evidence alone.
LEMMA EvidenceKept ==
  ASSUME EvidenceHolds, SettledHolds, UNCHANGED <<run, pc, result>>,
         control.settled # "completed" => control'.settled # "completed",
         control.settled = "completed" =>
           /\ SameEvidence
           /\ control.phase \in {"finalizing", "terminal"} /\ Quiet =>
                control'.phase = control.phase /\ Quiet'
  PROVE  EvidenceHolds'
BY DEF EvidenceHolds, SettledHolds, SameEvidence, Proven, After, Fencing

\* The worker's own steps and its return.
LEMMA EarlyEvidence ==
  ASSUME IInv, SettledHolds, EvidenceHolds,
         \/ Pump \/ DropQueued \/ BeginPrepare \/ PrepareWorkspace \/ CommitStart
         \/ RunWorker \/ WorkerReturns \/ WorkerThrows \/ ReadEvidence \/ RetainQueued
  PROVE  EvidenceHolds'
<1> DEFINE Early == {"queued", "retaining", "preparing", "workspace", "ready",
                     "launching", "running", "returned"}
<1>1. /\ control \in Control
      /\ run \in [status : Outcomes, stop : Stops, generation : Nat,
                  issue : BOOLEAN, nativeIssue : BOOLEAN]
  BY DEF IInv, TypeOK, ControlTypeOK, ExecTypeOK
<1>2. pc \in Early /\ UNCHANGED result
  BY DEF Pump, DropQueued, BeginPrepare, PrepareWorkspace, CommitStart, RunWorker,
         WorkerReturns, WorkerThrows, ReadEvidence, RetainQueued, Caught
<1>3. result.status # "completed"
  BY <1>2 DEF IInv, ResultOfRun, Unwritten, Steps
<1>4. CASE pc = "retaining"
  BY <1>2, <1>3, <1>4 DEF Pump, DropQueued, BeginPrepare, PrepareWorkspace, CommitStart,
     RunWorker, WorkerReturns, WorkerThrows, ReadEvidence, RetainQueued, Goto,
     EvidenceHolds, Before, After, Fencing
<1>5. CASE pc # "retaining"
  <2>1. control.settled = "none" /\ ~run.issue /\ ~run.nativeIssue
    BY <1>2, <1>5 DEF SettledHolds, EvidenceHolds, Before
  <2>2. control'.settled = "none"
    <3>1. CASE RunWorker BY <2>1, <3>1 DEF RunWorker, controlVars
    <3>2. CASE BeginPrepare BY <1>1, <2>1, <3>2 DEF BeginPrepare, Control
    <3>3. CASE CommitStart BY <1>1, <2>1, <3>3 DEF CommitStart, Control
    <3> QED BY <1>5, <2>1, <3>1, <3>2, <3>3 DEF Pump, DropQueued, PrepareWorkspace,
            WorkerReturns, WorkerThrows, ReadEvidence, RetainQueued, controlVars
  <2>3. ASSUME NEW stop, Caught(stop)
        PROVE  pc' = "closing" /\ run'.status # "completed"
    BY <1>1, <2>3 DEF Caught, Goto
  <2>4. \/ /\ pc' \in Before \cup {"retaining"}
           /\ run'.issue = run.issue /\ run'.nativeIssue = run.nativeIssue
        \/ pc' = "closing" /\ run'.status # "completed"
    <3>1. CASE Pump \/ DropQueued \/ RunWorker
      BY <3>1 DEF Pump, DropQueued, RunWorker, Goto, Before
    <3>2. CASE WorkerReturns
      BY <1>1, <3>2 DEF WorkerReturns, Goto, Before
    <3>3. CASE ReadEvidence
      BY <1>1, <3>3 DEF ReadEvidence, Goto, Before
    <3>4. CASE CommitStart
      BY <1>1, <2>3, <3>4 DEF CommitStart, Goto, Before
    <3>5. CASE BeginPrepare \/ PrepareWorkspace \/ WorkerThrows
      BY <2>3, <3>5 DEF BeginPrepare, PrepareWorkspace, WorkerThrows, Goto, Before
    <3> QED BY <1>5, <3>1, <3>2, <3>3, <3>4, <3>5 DEF RetainQueued
  <2> QED BY <1>2, <1>3, <2>1, <2>2, <2>4 DEF EvidenceHolds, Before, After, Fencing
<1> QED BY <1>4, <1>5

\* The admission of a completion finds the evidence complete.
LEMMA AdmitEvidence ==
  ASSUME IInv, SettledHolds, EvidenceHolds, Admit
  PROVE  EvidenceHolds'
<1>1. /\ control \in Control
      /\ run \in [status : Outcomes, stop : Stops, generation : Nat,
                  issue : BOOLEAN, nativeIssue : BOOLEAN]
  BY DEF IInv, TypeOK, ControlTypeOK, ExecTypeOK
<1>2. /\ pc = "evidence" /\ pc' = "admitted" /\ lock = "free"
      /\ run.status = "completed" => undelivered = {}
      /\ UNCHANGED <<inputs, result, brokerVars>>
  BY DEF Admit, AdmitCompletion, Goto
<1>3. control.settled = "none" /\ result = NoResult /\ ~run.issue /\ ~run.nativeIssue
  BY <1>2 DEF SettledHolds, EvidenceHolds, Before
<1>4. answering = NoInput BY <1>2 DEF IInv, LockOwned
<1> DEFINE o == AdmittedOutcome(run.status, run.generation)
<1>5. o = "completed" => run.status = "completed" /\ EvidenceComplete
  BY <1>3 DEF AdmittedOutcome
<1>6. PICK issue : /\ run' = [run EXCEPT !.status = o, !.issue = issue]
                   /\ o = run.status => ~issue
  BY DEF Admit
<1>7. run'.status = o /\ run'.nativeIssue = run.nativeIssue
      /\ (o = run.status => ~run'.issue)
  BY <1>1, <1>6
<1>8. control'.phase = "finalizing" /\ control'.settled = o
  <2>1. control' = [control EXCEPT !.phase = "finalizing", !.settled = o]
    BY <1>3 DEF Admit, AdmitCompletion
  <2> QED BY <1>1, <2>1 DEF Control
<1>9. o = "completed" => Quiet'
  BY <1>2, <1>4, <1>5 DEF Quiet, EvidenceComplete, brokerVars
<1> QED BY <1>2, <1>3, <1>5, <1>7, <1>8, <1>9
        DEF EvidenceHolds, After, Before, Fencing, NoResult

\* The two checks before the result let a completion pass only on evidence.
LEMMA FenceEvidence ==
  ASSUME IInv, SettledHolds, EvidenceHolds, Recheck \/ BeginResult
  PROVE  EvidenceHolds'
<1> DEFINE R == [status : Outcomes, stop : Stops, generation : Nat,
                 issue : BOOLEAN, nativeIssue : BOOLEAN]
<1>1. TypeOK /\ control \in Control /\ run \in R
  BY DEF IInv, TypeOK, ControlTypeOK, ExecTypeOK
<1>2. /\ pc \in {"closing", "fenced"} /\ pc' \in {"fenced", "writing"}
      /\ UNCHANGED <<inputs, result, brokerVars>>
  BY DEF Recheck, BeginResult, Goto
<1>3. result = NoResult BY <1>2 DEF SettledHolds, After
<1>4. PICK o : control' = [control EXCEPT !.phase = "finalizing", !.settled = o]
  BY DEF Recheck, BeginResult
<1>5. /\ control'.phase = "finalizing" /\ control'.settled = run'.status
      /\ control'.coverage = control.coverage
      /\ control'.obligations = control.obligations
  <2>1. /\ control'.phase = "finalizing" /\ control'.settled = o
        /\ control'.coverage = control.coverage
        /\ control'.obligations = control.obligations
    BY <1>1, <1>4 DEF Control
  <2>2. CASE Recheck
    <3>1. PICK checked, status :
            /\ checked \in R
            /\ run' = [checked EXCEPT !.status = status]
            /\ control' = [control EXCEPT !.phase = "finalizing", !.settled = status]
      <4>1. [run EXCEPT !.status = IF run.stop = "unconfirmed" /\ @ = "completed"
                                   THEN "interrupted" ELSE @] \in R
        BY <1>1 DEF Outcomes
      <4> QED BY <1>1, <2>2, <4>1, RecheckedType DEF Recheck
    <3> QED BY <1>1, <3>1 DEF Control
  <2>3. CASE BeginResult
    <3>1. control' = [control EXCEPT !.phase = "finalizing", !.settled = run'.status]
      BY <2>3 DEF BeginResult
    <3> QED BY <1>1, <2>1, <3>1 DEF Control
  <2> QED BY <2>1, <2>2, <2>3
<1>6. run'.status = "completed" =>
        /\ run.status = "completed" /\ run.stop # "unconfirmed" /\ run'.stop = run.stop
        /\ run'.issue = run.issue /\ run'.nativeIssue = run.nativeIssue
        /\ Proven /\ control.settled = "completed"
  <2> SUFFICES ASSUME run'.status = "completed"
      PROVE  /\ run.status = "completed" /\ run.stop # "unconfirmed" /\ run'.stop = run.stop
             /\ run'.issue = run.issue /\ run'.nativeIssue = run.nativeIssue
             /\ Proven /\ control.settled = "completed"
    OBVIOUS
  <2>1. CASE Recheck
    <3> DEFINE entering == [run EXCEPT !.status =
                 IF run.stop = "unconfirmed" /\ @ = "completed" THEN "interrupted" ELSE @]
    <3>1. entering \in R BY <1>1 DEF Outcomes
    <3>2. Rechecked(entering) \in R BY <1>1, <3>1, RecheckedType
    <3>3. PICK status : /\ run' = [Rechecked(entering) EXCEPT !.status = status]
                        /\ status \in {"cancelled", Rechecked(entering).status}
      BY <2>1 DEF Recheck
    <3>4. status = "completed" BY <3>2, <3>3
    <3>5. Rechecked(entering).status = "completed" BY <3>3, <3>4
    <3> HIDE DEF entering
    <3>6. Rechecked(entering) = entering /\ Proven /\ control.settled = "completed"
      BY <3>1, <3>5, RecheckedCompleted
    <3>7. /\ run'.stop = entering.stop /\ run'.issue = entering.issue
          /\ run'.nativeIssue = entering.nativeIssue /\ entering.status = "completed"
      BY <3>1, <3>3, <3>5, <3>6
    <3> QED BY <1>1, <3>6, <3>7 DEF entering
  <2>2. CASE BeginResult
    <3>1. run' = Rechecked(run) /\ pc = "fenced" BY <2>2 DEF BeginResult
    <3>2. Rechecked(run) = run /\ Proven /\ control.settled = "completed"
      BY <1>1, <3>1, RecheckedCompleted
    <3> QED BY <3>1, <3>2 DEF EvidenceHolds, Fencing
  <2> QED BY <2>1, <2>2
<1>7. run'.status = "completed" => Quiet'
  BY <1>2, <1>6 DEF EvidenceHolds, After, Quiet, brokerVars
<1> QED BY <1>2, <1>3, <1>5, <1>6, <1>7
        DEF EvidenceHolds, After, Before, Fencing, NoResult, Proven

\* The end of the run: a completion is published and closed as it was checked.
LEMMA LateEvidence ==
  ASSUME IInv, SettledHolds, EvidenceHolds,
         \/ FinishRun \/ WriteResult \/ FailResult \/ SettleResult \/ FreezeRun
         \/ LeaveRun \/ FreezeElsewhere
  PROVE  EvidenceHolds'
<1>1. /\ control \in Control /\ inputs \in [Inputs -> Input]
      /\ run \in [status : Outcomes, stop : Stops, generation : Nat,
                  issue : BOOLEAN, nativeIssue : BOOLEAN]
  BY DEF IInv, TypeOK, ControlTypeOK, ExecTypeOK
<1>2. ASSUME UNCHANGED <<control, inputs, answering, undelivered>>
      PROVE  SameEvidence /\ control'.phase = control.phase /\ Quiet' = Quiet
             /\ Proven' = Proven
  BY <1>2 DEF SameEvidence, Quiet, Unsettled, Proven
<1>3. CASE FinishRun
  <2>1. /\ pc = "admitted" /\ pc' = "closing"
        /\ UNCHANGED <<control, inputs, answering, undelivered, result>>
    BY <1>3 DEF FinishRun, Goto, Caught, controlVars, brokerVars
  <2>2. UNCHANGED run \/ run'.status # "completed"
    <3>1. ASSUME NEW stop, Caught(stop) PROVE run'.status # "completed"
      BY <1>1, <3>1 DEF Caught
    <3> QED BY <1>3, <3>1 DEF FinishRun
  <2> QED BY <1>2, <2>1, <2>2 DEF EvidenceHolds, SettledHolds, SameEvidence, After, Before,
          Fencing, NoResult
<1>4. CASE WriteResult
  <2>1. /\ pc = "writing" /\ pc' = "written"
        /\ UNCHANGED <<control, inputs, run, answering, undelivered>>
    BY <1>4 DEF WriteResult, controlVars, brokerVars
  <2>2. result = NoResult /\ control.settled = run.status
    BY <2>1 DEF SettledHolds, After
  <2>3. result' = [status |-> run.status, stop |-> run.stop]
    BY <1>4, <2>2 DEF WriteResult
  <2> QED BY <1>2, <2>1, <2>2, <2>3 DEF EvidenceHolds, SameEvidence, After, Before, Fencing
<1>5. CASE FailResult \/ FreezeRun \/ LeaveRun
  <2>1. /\ pc' \in {"freezing", "leaving", "idle"}
        /\ UNCHANGED <<control, inputs, answering, undelivered, result>>
    BY <1>5 DEF FailResult, FreezeRun, LeaveRun, Goto, controlVars, brokerVars
  <2> QED BY <1>2, <2>1 DEF EvidenceHolds, SameEvidence, After, Before, Fencing
<1>6. CASE FreezeElsewhere
  <2>1. UNCHANGED <<run, pc, result, control, inputs, answering, undelivered>>
    BY <1>6 DEF FreezeElsewhere, controlVars, brokerVars
  <2> QED BY <1>2, <2>1, EvidenceKept DEF SameEvidence
<1>7. CASE SettleResult
  <2>1. /\ pc = "written" /\ pc' \in {"freezing", "leaving"}
        /\ UNCHANGED <<result, answering, undelivered>>
    BY <1>7 DEF SettleResult, brokerVars
  <2> SUFFICES ASSUME result.status = "completed"
      PROVE  /\ control'.settled = "completed" /\ result.stop # "unconfirmed"
             /\ \/ control'.attention = "conflict"
                \/ control'.phase \in {"finalizing", "terminal"} /\ Quiet' /\ Proven'
    BY <2>1 DEF EvidenceHolds, After, Before, Fencing
  <2>2. /\ control.settled = "completed" /\ result.stop # "unconfirmed"
        /\ run.status = "completed" /\ Quiet /\ ~run.issue /\ ~run.nativeIssue /\ Proven
        /\ run.stop # "unconfirmed"
    BY <2>1 DEF EvidenceHolds, SettledHolds, After, Fencing
  <2>3. control'.settled = "completed" BY <1>7, <2>2, SettleSteps
  <2>4. CASE late
    <3>1. control'.attention = "conflict"
      <4>1. control' = [control EXCEPT !.native = "unknown", !.coverage = "unknown",
                  !.limitation = "unknown", !.phase = "needs_attention",
                  !.outcome = "none", !.attention = "conflict"]
        BY <1>7, <2>4 DEF SettleResult
      <4> QED BY <1>1, <4>1 DEF Control
    <3> QED BY <2>2, <2>3, <3>1
  <2>5. CASE ~late
    <3> DEFINE final == [i \in Inputs |-> Abandoned(inputs[i])]
    <3>1. Unsettled(final) = {}
      BY <1>1, <2>2, AbandonedState DEF Quiet, Unsettled
    <3>2. ~Unresolved(final) BY <2>2, <3>1 DEF Unresolved, Unsettled
    <3>3. /\ inputs' = final
          /\ control' = [control EXCEPT !.native = FinalNative, !.phase = "terminal",
                                        !.outcome = run.status]
      BY <1>7, <2>5, <3>2 DEF SettleResult
    <3>4. /\ control'.phase = "terminal" /\ control'.coverage = control.coverage
          /\ control'.obligations = control.obligations
      BY <1>1, <3>3 DEF Control
    <3>5. Quiet' /\ Proven' BY <2>1, <2>2, <3>1, <3>3, <3>4 DEF Quiet, Proven
    <3> QED BY <2>2, <2>3, <3>4, <3>5
  <2> QED BY <2>4, <2>5
<1> QED BY <1>3, <1>4, <1>5, <1>6, <1>7

\* The dispatch of a cancellation, the operator, death and recovery.
LEMMA OtherEvidence ==
  ASSUME IInv, SettledHolds, EvidenceHolds,
         CancelStep \/ OperatorStep \/ Crash \/ Restart
  PROVE  EvidenceHolds'
<1> DEFINE Standing == \/ control.attention = "conflict"
                       \/ control.phase \in {"finalizing", "terminal"} /\ Quiet /\ Proven
<1>1. control \in Control /\ inputs \in [Inputs -> Input]
  BY DEF IInv, TypeOK, ControlTypeOK
<1>2. ASSUME pc' \in {"idle", "retaining"},
             result'.status = "completed" =>
               /\ result = result' /\ control'.settled = control.settled
               /\ Standing => Standing'
      PROVE  EvidenceHolds'
  BY <1>2 DEF EvidenceHolds, Before, After, Fencing
<1>3. CASE DispatchCancel
  <2>1. UNCHANGED <<run, pc, control, inputs, undelivered, answering>>
    BY <1>3 DEF DispatchCancel, controlVars, brokerVars
  <2>2. CASE UNCHANGED result
    BY <2>1, <2>2, EvidenceKept DEF SameEvidence, Quiet
  <2>3. CASE pc \in {"idle", "retaining"} /\ result'.status = "cancelled"
    BY <1>2, <2>1, <2>3
  <2> QED BY <1>3, <2>2, <2>3 DEF DispatchCancel
<1>4. CASE SettleRecoveredCancel
  <2>1. pc = "idle" /\ result.status = "cancelled"
    BY <1>4 DEF SettleRecoveredCancel, IInv, StopCallsServe
  <2> QED BY <1>2, <1>4, <2>1 DEF SettleRecoveredCancel
<1>5. CASE OperatorStep
  <2>1. pc' \in {"idle", "retaining"} BY <1>5, OperatorSteps
  <2>2. ASSUME result'.status = "completed"
        PROVE  /\ result = result' /\ control'.settled = control.settled
               /\ Standing => Standing'
    <3>1. CASE AckBegin
      BY <2>2, <3>1 DEF AckBegin, NoResult, execVars, brokerVars, Quiet, Proven
    <3>2. CASE AckResult BY <2>2, <3>2 DEF AckResult
    <3>3. CASE AckResource \/ AckSafety
      BY <3>3 DEF AckResource, AckSafety, controlVars, brokerVars, execVars, Quiet, Proven
    <3>4. CASE AckTerminal
      <4>1. /\ control'.settled = control.settled
            /\ control'.attention = control.attention
            /\ control'.phase = "terminal" /\ (Proven => Proven')
        BY <1>1, <3>4 DEF AckTerminal, Control, Proven
      <4>2. Unsettled(inputs') = {}
        BY <1>1, <3>4, WithdrawnState DEF AckTerminal, Unsettled
      <4> QED BY <3>4, <4>1, <4>2 DEF AckTerminal, brokerVars, execVars, Quiet
    <3> QED BY <1>5, <3>1, <3>2, <3>3, <3>4 DEF OperatorStep
  <2> QED BY <1>2, <2>1, <2>2
<1>6. CASE Crash
  BY <1>2, <1>6 DEF Crash, Quiet, Proven, Unsettled
<1>7. CASE Restart
  <2>1. /\ pc' = "idle" /\ UNCHANGED <<result, undelivered, answering>>
        /\ control'.settled = control.settled
    BY <1>7, RestartSteps DEF Restart, brokerVars, IInv, DownForgets
  <2>2. ASSUME result.status = "completed" PROVE Standing'
    <3>1. result.stop # "unconfirmed" /\ Standing BY <2>2 DEF EvidenceHolds
    <3>2. CASE KeepFrozen
      BY <2>1, <3>1, <3>2 DEF KeepFrozen, Quiet, Proven
    <3>3. CASE control.attention # "conflict"
      <4>1. control.phase \in {"finalizing", "terminal"} /\ Quiet /\ Proven
        BY <3>1, <3>3
      <4>2. ~AfterConflict /\ ~AfterCancelledResult /\ AfterProvenResult
        BY <2>2, <3>1, <3>3, <4>1 DEF AfterConflict, AfterCancelledResult, AfterProvenResult,
           StopProven, Uncertain, Quiet, Unsettled
      <4>3. KeepFrozen \/ FinishAs(result.status, control.phase = "terminal")
        BY <1>7, <4>2 DEF Restart
      <4>4. CASE FinishAs(result.status, control.phase = "terminal")
        <5>1. control'.phase = "terminal" /\ Proven'
          BY <1>1, <4>1, <4>4 DEF FinishAs, Control, Proven
        <5>2. Unsettled(inputs') = {}
          BY <1>1, <4>1, <4>4, WithdrawnState DEF FinishAs, Unsettled, Quiet
        <5> QED BY <2>1, <4>1, <5>1, <5>2 DEF Quiet
      <4> QED BY <3>2, <4>3, <4>4
    <3>4. CASE control.attention = "conflict"
      BY <1>7, <3>2, <3>4 DEF Restart, AfterConflict
    <3> QED BY <3>3, <3>4
  <2> QED BY <1>2, <2>1, <2>2
<1> QED BY <1>3, <1>4, <1>5, <1>6, <1>7 DEF CancelStep

\* Every step keeps the evidence under a completion.
LEMMA EvidenceStep ==
  ASSUME IInv, SettledHolds, EvidenceHolds, [Next]_vars
  PROVE  EvidenceHolds'
<1>1. TypeOK BY DEF IInv
<1>2. CASE UNCHANGED vars
  BY <1>2, EvidenceKept DEF vars, controlVars, brokerVars, execVars, SameEvidence, Quiet
<1>3. CASE ClientStep
  <2>1. UNCHANGED <<run, pc, result>> BY <1>1, <1>3, ClientSteps
  <2>2. control'.settled = control.settled BY <1>1, <1>3, ClientSteps DEF SameDecision
  <2> QED BY <1>3, <2>1, <2>2, ClientEvidence, EvidenceKept
<1>4. CASE BrokerStep \/ WorkerAsks
  <2>1. UNCHANGED <<run, pc, result>> BY <1>1, <1>4, BrokerSteps
  <2> QED BY <1>4, <2>1, BrokerEvidence, EvidenceKept DEF SameEvidence
<1>5. CASE WorkerReports
  <2>1. UNCHANGED <<run, pc, result>> BY <1>1, <1>5, WorkerSteps
  <2>2. CASE control.settled # "completed"
    <3>1. control'.settled # "completed" BY <1>1, <1>5, <2>2, WorkerSettles
    <3> QED BY <2>1, <2>2, <3>1, EvidenceKept
  <2>3. CASE control.settled = "completed" /\ UNCHANGED control
    <3>1. SameEvidence BY <2>3 DEF SameEvidence
    <3> QED BY <1>5, <2>1, <2>3, <3>1, WorkerEvidence, EvidenceKept
  <2>4. CASE lock = "free" /\ result = NoResult /\ control'.settled = "interrupted"
    <3>1. pc \notin {"writing", "written"} BY <2>4 DEF IInv, LockOwned
    <3> QED BY <2>1, <2>4, <3>1 DEF EvidenceHolds, NoResult
  <2> QED BY <1>5, <2>2, <2>3, <2>4, WorkerEvidence
<1>6. CASE RunStep \/ DropQueued \/ WorkerReturns \/ WorkerThrows \/ FreezeElsewhere
  BY <1>6, EarlyEvidence, AdmitEvidence, FenceEvidence, LateEvidence DEF RunStep
<1> QED BY <1>2, <1>3, <1>4, <1>5, <1>6, OtherEvidence DEF Next

\* A saved completion rests on native evidence that still stands, or the
\* record says that a late event contradicted it.
THEOREM CompletionsAreProven == Spec => []CompletionProven
<1>1. Init => SettledHolds /\ EvidenceHolds
  BY DEF Init, ControlInit, ExecInit, SettledHolds, ResultAgrees, EvidenceHolds, NoResult,
         Before, After, Fencing
<1>2. IInv /\ SettledHolds /\ EvidenceHolds /\ [Next]_vars => SettledHolds' /\ EvidenceHolds'
  BY SettledStep, EvidenceStep
<1>3. EvidenceHolds => CompletionProven
  BY DEF EvidenceHolds, CompletionProven, Quiet, Proven
<1> QED BY <1>1, <1>2, <1>3, LifecycleInvariant, PTL DEF Spec
=============================================================================
