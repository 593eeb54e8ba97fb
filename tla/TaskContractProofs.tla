-------------------------- MODULE TaskContractProofs --------------------------
(***************************************************************************)
(* Proofs that a task's life keeps the promises of TaskContract, for all   *)
(* clients, keys, inputs and bounds.  IInv is the inductive invariant; it  *)
(* is the conjunction of what the five writers of the record and of the    *)
(* result know about each other: the run, the dispatch of a cancellation,  *)
(* recovery, the operator and the clients.                                 *)
(***************************************************************************)
EXTENDS TaskLifecycleProofs

Fencing == {"fenced", "writing", "written"}
Unstarted == {"queued", "retaining", "preparing", "workspace", "ready", "launching"}
Owned == Steps \ {"idle", "retaining", "leaving"}
Unwritten == Steps \ {"idle", "written", "freezing", "leaving"}

\* From the fence on, the run's outcome is decided and obeys a cancellation.
FenceDecides ==
  pc \in Fencing =>
    /\ control.settled # "none"
    /\ control.cancel => run.status \in {"cancelled", "interrupted"}
    /\ control.phase # "queued"

\* A result leaves no room for a first cancellation.
ResultDecides == result.status # "none" /\ ~control.cancel => Decided

\* The result appears when its writer is done, and says what the run said.
ResultOfRun ==
  /\ result.status = "none" => result = NoResult
  /\ pc = "written" => result.status # "none"
  /\ pc = "written" /\ ~late => result.status = run.status /\ result.stop = run.stop
  /\ pc \in Unwritten => result.status \in {"none", "interrupted"}

\* Who keeps the mutex across steps.
LockOwned ==
  /\ pc \in {"writing", "written"} => lock = "result"
  /\ answering # NoInput => lock = "answer"
  /\ ack # "none" => lock = "operator"

\* A dispatch serves an accepted cancellation.
StopCallsServe ==
  /\ stopCall # "none" => control.cancel
  /\ stopCall = "result_written" =>
       /\ pc = "idle"
       /\ control.attention = "recovered"
       /\ result.status = "cancelled"

\* How far the operator's acknowledgement has come.
AckInOrder ==
  /\ ack # "none" => stopCall = "none" /\ pc \in {"idle", "retaining"}
  /\ ack = "settled" => control.settled # "none" /\ result.status = "none"
  /\ ack \in {"result", "resource", "safety"} => result.status # "none"
  /\ ack \in {"resource", "safety"} => reconciled

\* A terminal record is complete, and only tasks without a running entry are.
TerminalComplete ==
  /\ control.phase = "terminal" <=> control.outcome # "none"
  /\ control.phase = "terminal" =>
       /\ pc \notin Owned
       /\ result.status = control.outcome
       /\ Unsettled(inputs) = {}
       /\ StopProven

\* Before the worker starts nothing native exists.
NothingBeforeStart ==
  /\ starts <= 1
  /\ pc \in Unstarted => starts = 0
  /\ control.phase = "queued" => starts = 0 /\ result.status \in {"none", "interrupted"}
  /\ pc = "launching" => control.phase # "queued"
  /\ starts = 0 => \A i \in Inputs : /\ inputs[i].state = "absent"
                                     /\ requests[i] \in {"idle", "closed"}

\* A task offered as recovered was never started.
RecoveredUnstarted ==
  control.attention = "recovered" =>
    /\ starts = 0
    /\ pc = "idle"
    /\ control.phase # "queued"
    /\ result.status = "cancelled" => result.stop = "not_started"

\* A dead service has no memory.
DownForgets ==
  service = "down" =>
    pc = "idle" /\ lock = "free" /\ ack = "none" /\ stopCall = "none"

IInv ==
  /\ TypeOK
  /\ CancelWins
  /\ FenceDecides
  /\ ResultDecides
  /\ ResultOfRun
  /\ LockOwned
  /\ StopCallsServe
  /\ AckInOrder
  /\ TerminalComplete
  /\ NothingBeforeStart
  /\ RecoveredUnstarted
  /\ DownForgets

-----------------------------------------------------------------------------

\* A task just accepted satisfies the inductive invariant.
LEMMA InitInv == Init => IInv
<1> SUFFICES ASSUME Init PROVE IInv
  OBVIOUS
<1>1. TypeOK BY InitType
<1> QED
  BY <1>1
  DEF Init, ControlInit, BrokerInit, ExecInit, NewInput, NoResult, IInv, CancelWins,
      FenceDecides, ResultDecides, ResultOfRun, LockOwned, StopCallsServe, AckInOrder,
      TerminalComplete, NothingBeforeStart, RecoveredUnstarted, DownForgets, Fencing,
      Unwritten, Owned, Steps

-----------------------------------------------------------------------------
(* What the steps do to the state the invariant reads. *)

SameDecision ==
  /\ control'.cancel = control.cancel
  /\ control'.settled = control.settled
  /\ control'.outcome = control.outcome

\* No input gains an obligation, and none appears.
OnlySettles ==
  /\ Unsettled(inputs') \subseteq Unsettled(inputs)
  /\ \A i \in Inputs : inputs[i].state = "absent" => inputs'[i].state = "absent"

\* Giving up a claim leaves the state of an input alone.
LEMMA UnclaimedState ==
  ASSUME NEW in \in Input
  PROVE  Unclaimed(in).state = in.state
BY DEF Unclaimed, Input

\* Setting the state of an input sets just that state.
LEMMA NewStates ==
  ASSUME NEW in \in Input, NEW s
  PROVE  [in EXCEPT !.state = s].state = s
BY DEF Input

\* Abandoning closes a pending input and leaves an open intent unknown.
LEMMA AbandonedState ==
  ASSUME NEW in \in Input
  PROVE  Abandoned(in).state = CASE in.state = "pending" -> "withdrawn"
                                 [] in.state = "answer_intent" -> "delivery_unknown"
                                 [] OTHER -> in.state
BY UnclaimedType, NewStates DEF Abandoned

\* A withdrawal leaves only absent and settled inputs as they were.
LEMMA WithdrawnState ==
  ASSUME NEW in \in Input
  PROVE  Withdrawn(in).state = IF in.state \in {"absent", "settled"}
                               THEN in.state ELSE "withdrawn"
BY UnclaimedType, NewStates DEF Withdrawn

\* Clients decide nothing: they accept a stop while nothing is decided, start
\* a dispatch, answer a pending input, or only touch claims and receipts.
LEMMA ClientSteps ==
  ASSUME TypeOK, ClientStep
  PROVE  /\ UNCHANGED <<run, pc, result, late, starts, requests>>
         /\ \/ /\ SameDecision /\ OnlySettles
               /\ control'.phase = control.phase
               /\ control'.attention = control.attention
               /\ UNCHANGED <<lock, answering, stopCall>>
            \/ /\ ~Decided /\ ~control.cancel /\ lock = "free" /\ OnlySettles
               /\ control'.cancel /\ control'.phase = "stopping"
               /\ control'.settled = control.settled
               /\ control'.outcome = control.outcome
               /\ control'.attention = control.attention
               /\ stopCall' = "committed" /\ UNCHANGED <<lock, answering>>
            \/ /\ control.cancel /\ lock = "free" /\ stopCall' = "committed"
               /\ UNCHANGED <<control, inputs, lock, answering>>
            \/ /\ ~Decided /\ lock = "free" /\ SameDecision
               /\ \E i \in Inputs : inputs[i].state = "pending"
               /\ control'.phase \in {control.phase, "active"}
               /\ control'.attention = control.attention
               /\ lock' = "answer" /\ UNCHANGED stopCall
<1>1. control \in Control /\ inputs \in [Inputs -> Input]
  BY DEF TypeOK, ControlTypeOK
<1>2. ASSUME UNCHANGED inputs PROVE OnlySettles
  BY <1>2 DEF OnlySettles
<1>3. ASSUME \A i \in Inputs : inputs'[i].state = inputs[i].state PROVE OnlySettles
  BY <1>3 DEF OnlySettles, Unsettled
<1>4. ASSUME UNCHANGED control PROVE SameDecision
  BY <1>4 DEF SameDecision
<1>5. ASSUME NEW c \in Clients, NEW k \in Keys, ClientCancel(c, k)
      PROVE  /\ UNCHANGED <<run, pc, result, late, starts, requests, answering>>
             /\ \/ CancelTooLate(c, k) /\ UNCHANGED stopCall
                \/ CancelAccepted(c, k) /\ stopCall' = "committed"
  <2>1. UNCHANGED <<pc, run, aborted, settling, late, result, frozen, starts, brokerVars>>
    BY <1>5 DEF ClientCancel
  <2>2. \/ CancelTooLate(c, k) /\ UNCHANGED stopCall
        \/ CancelAccepted(c, k) /\ stopCall' = "committed"
    BY <1>5 DEF ClientCancel
  <2> QED BY <2>1, <2>2 DEF brokerVars
<1>6. ASSUME NEW c \in Clients, NEW k \in Keys, CancelTooLate(c, k)
      PROVE  UNCHANGED <<control, inputs, lock>>
  BY <1>6 DEF CancelTooLate
<1>7. ASSUME NEW c \in Clients, NEW k \in Keys, CancelAccepted(c, k)
      PROVE  /\ ~Decided /\ ~control.cancel /\ lock = "free" /\ OnlySettles
             /\ control'.cancel /\ control'.phase = "stopping"
             /\ control'.settled = control.settled
             /\ control'.outcome = control.outcome
             /\ control'.attention = control.attention
             /\ UNCHANGED lock
  <2>1. /\ control' = [control EXCEPT !.cancel = TRUE, !.phase = "stopping"]
        /\ inputs' = [i \in Inputs |->
             [Unclaimed(inputs[i]) EXCEPT !.state =
                IF inputs[i].state = "pending" THEN "withdrawn" ELSE inputs[i].state]]
        /\ ~Decided /\ ~control.cancel /\ FreshReceipt(c, k, 0) /\ UNCHANGED lock
    BY <1>7 DEF CancelAccepted
  <2>2. \A i \in Inputs : inputs'[i].state =
          IF inputs[i].state = "pending" THEN "withdrawn" ELSE inputs[i].state
    BY <2>1, <1>1, UnclaimedType, NewStates
  <2>3. OnlySettles BY <2>2 DEF OnlySettles, Unsettled
  <2>4. lock = "free" BY <2>1 DEF FreshReceipt
  <2>5. /\ control'.cancel /\ control'.phase = "stopping"
        /\ control'.settled = control.settled
        /\ control'.outcome = control.outcome
        /\ control'.attention = control.attention
    BY <2>1, <1>1 DEF Control
  <2> QED BY <2>1, <2>3, <2>4, <2>5
<1>8. ASSUME NEW c \in Clients, NEW k \in Keys, ClientAdopt(c, k)
      PROVE  /\ SameDecision /\ OnlySettles
             /\ control'.phase = control.phase
             /\ control'.attention = control.attention
             /\ UNCHANGED <<run, pc, result, late, starts, requests, lock, answering,
                            stopCall>>
  <2>1. /\ control' = [control EXCEPT !.owner = OwnerOf[c], !.generation = @ + 1]
        /\ inputs' = [i \in Inputs |-> Unclaimed(inputs[i])]
        /\ UNCHANGED <<execVars, brokerVars, lock>>
    BY <1>8 DEF ClientAdopt, Adopt
  <2>2. /\ control'.phase = control.phase
        /\ control'.attention = control.attention
        /\ SameDecision
    BY <2>1, <1>1 DEF Control, SameDecision
  <2>3. \A i \in Inputs : inputs'[i].state = inputs[i].state
    BY <2>1, <1>1, UnclaimedState
  <2> QED BY <2>1, <2>2, <2>3, <1>3 DEF execVars, brokerVars
<1>9. ASSUME NEW c \in Clients, ClientCancelAgain(c)
      PROVE  /\ control.cancel /\ lock = "free" /\ stopCall' = "committed"
             /\ UNCHANGED <<control, inputs, lock, answering, run, pc, result, late,
                            starts, requests>>
  BY <1>9 DEF ClientCancelAgain, controlVars, brokerVars
<1>10. ASSUME NEW c \in Clients,
              \/ ReleaseClient(c) /\ UNCHANGED brokerVars
              \/ \E i \in Inputs : Claim(c, i) \/ Dismiss(c, i)
       PROVE  /\ UNCHANGED <<control, lock, answering, requests>>
              /\ \A i \in Inputs : inputs'[i].state = inputs[i].state
  <2>1. CASE ReleaseClient(c) /\ UNCHANGED brokerVars
    BY <2>1, <1>1, UnclaimedState DEF ReleaseClient, brokerVars
  <2>2. ASSUME NEW i \in Inputs, Claim(c, i)
        PROVE  /\ UNCHANGED <<control, lock, answering, requests>>
               /\ \A j \in Inputs : inputs'[j].state = inputs[j].state
    <3>1. [inputs[i] EXCEPT !.claim = c, !.claimGeneration = control.generation].state
            = inputs[i].state
      BY <1>1 DEF Input
    <3> QED BY <2>2, <3>1, <1>1 DEF Claim, brokerVars
  <2>3. ASSUME NEW i \in Inputs, Dismiss(c, i)
        PROVE  /\ UNCHANGED <<control, lock, answering, requests>>
               /\ \A j \in Inputs : inputs'[j].state = inputs[j].state
    BY <2>3, <1>1, UnclaimedState DEF Dismiss, brokerVars
  <2> QED BY <1>10, <2>1, <2>2, <2>3
<1>11. ASSUME NEW c \in Clients, NEW i \in Inputs, NEW k \in Keys, Answer(c, i, k)
       PROVE  /\ ~Decided /\ lock = "free" /\ SameDecision
              /\ inputs[i].state = "pending"
              /\ control'.phase \in {control.phase, "active"}
              /\ control'.attention = control.attention
              /\ lock' = "answer" /\ UNCHANGED requests
  <2>1. /\ ~Decided /\ lock = "free" /\ inputs[i].state = "pending"
        /\ lock' = "answer" /\ UNCHANGED requests
    BY <1>11 DEF Answer, Presentable
  <2>2. PICK ph \in {control.phase, "active"} : control' = [control EXCEPT !.phase = ph]
    BY <1>11 DEF Answer
  <2>3. /\ control'.phase = ph
        /\ control'.attention = control.attention
        /\ SameDecision
    BY <2>2, <1>1 DEF Control, SameDecision
  <2> QED BY <2>1, <2>3
<1>12. CASE \E c \in Clients, k \in Keys : ClientCancel(c, k)
  BY <1>2, <1>4, <1>5, <1>6, <1>7, <1>12
<1>13. CASE \E c \in Clients, k \in Keys : ClientAdopt(c, k)
  BY <1>8, <1>13
<1>14. CASE \E c \in Clients : ClientCancelAgain(c)
  BY <1>9, <1>14
<1>15. CASE \E c \in Clients :
              \/ ReleaseClient(c) /\ UNCHANGED <<brokerVars, execVars>>
              \/ \E i \in Inputs : (Claim(c, i) \/ Dismiss(c, i)) /\ UNCHANGED execVars
  BY <1>3, <1>4, <1>10, <1>15 DEF execVars
<1>16. CASE \E c \in Clients, i \in Inputs, k \in Keys : Answer(c, i, k) /\ UNCHANGED execVars
  BY <1>11, <1>16 DEF execVars
<1> QED BY <1>12, <1>13, <1>14, <1>15, <1>16 DEF ClientStep

\* The broker's own changes, and what the worker asks it: requests come and go
\* and inputs settle; only a reserved request adds an obligation.
LEMMA BrokerSteps ==
  ASSUME TypeOK, BrokerStep \/ WorkerAsks
  PROVE  /\ UNCHANGED <<run, pc, result, late, starts, stopCall>>
         /\ SameDecision
         /\ control'.attention = control.attention
         /\ \/ /\ OnlySettles /\ UNCHANGED <<lock, answering>>
               /\ \A i \in Inputs : requests'[i] \in {requests[i], "closed"}
               /\ \/ control'.phase = control.phase
                  \/ control.outcome = "none" /\ control'.phase = "needs_attention"
            \/ /\ answering # NoInput /\ lock' = "free" /\ answering' = NoInput
               /\ UNCHANGED <<control, inputs>>
               /\ \A i \in Inputs : requests'[i] \in {requests[i], "closed"}
            \/ /\ \E i \in Inputs : requests[i] = "reserved"
               /\ control.phase # "terminal"
               /\ control'.phase \in {"needs_attention", "awaiting_input"}
               /\ UNCHANGED <<lock, answering>>
            \/ /\ starts > 0
               /\ UNCHANGED <<control, inputs, lock, answering>>
<1>1. /\ control \in Control /\ inputs \in [Inputs -> Input]
      /\ requests \in [Inputs -> RequestStates]
  BY DEF TypeOK, ControlTypeOK, BrokerTypeOK
<1>2. ASSUME UNCHANGED inputs PROVE OnlySettles
  BY <1>2 DEF OnlySettles
<1>3. ASSUME NEW i \in Inputs,
             NEW s \in {"withdrawn", "delivery_unknown"},
             inputs[i].state \in {"pending", "answer_intent"},
             \A j \in Inputs :
               inputs'[j].state = IF j = i THEN s ELSE inputs[j].state
      PROVE  OnlySettles
  BY <1>3 DEF OnlySettles, Unsettled
<1>4. ASSUME UNCHANGED control
      PROVE  /\ SameDecision
             /\ control'.phase = control.phase
             /\ control'.attention = control.attention
  BY <1>4 DEF SameDecision
<1>5. ASSUME NEW ph, control' = [control EXCEPT !.phase = ph]
      PROVE  /\ SameDecision
             /\ control'.phase = ph
             /\ control'.attention = control.attention
  BY <1>1, <1>5 DEF Control, SameDecision
<1>6. CASE Release /\ UNCHANGED execVars
  <2>1. \A i \in Inputs : requests'[i] \in {requests[i], "closed"}
    BY <1>1, <1>6 DEF Release
  <2> QED BY <1>4, <1>6, <2>1 DEF Release, execVars
<1>7. ASSUME NEW i \in Inputs, Publish(i), UNCHANGED execVars
      PROVE  /\ SameDecision /\ requests[i] = "reserved"
             /\ control'.attention = control.attention
             /\ control.phase # "terminal"
             /\ control'.phase \in {"needs_attention", "awaiting_input"}
             /\ UNCHANGED <<lock, answering, execVars>>
  <2>1. PICK attention \in BOOLEAN : PublishRequest(i, attention)
    BY <1>7 DEF Publish
  <2>2. PICK ph \in {"needs_attention", "awaiting_input"} :
          control' = [control EXCEPT !.phase = ph]
    BY <2>1 DEF PublishRequest
  <2>3. control.phase # "terminal" /\ UNCHANGED lock
    BY <2>1 DEF PublishRequest
  <2> QED BY <1>5, <1>7, <2>2, <2>3 DEF Publish
<1>8. ASSUME NEW i \in Inputs, PublishRefused(i), UNCHANGED execVars
      PROVE  /\ UNCHANGED <<control, inputs, lock, answering, execVars>>
             /\ \A j \in Inputs : requests'[j] \in {requests[j], "closed"}
  BY <1>1, <1>8 DEF PublishRefused, controlVars
<1>9. ASSUME NEW i \in Inputs, WithdrawAborted(i) \/ NativeWithdraw(i), UNCHANGED execVars
      PROVE  /\ OnlySettles /\ UNCHANGED <<control, lock, answering, execVars>>
             /\ \A j \in Inputs : requests'[j] \in {requests[j], "closed"}
  <2>1. /\ UNCHANGED <<control, lock, answering, execVars>>
        /\ requests' = [requests EXCEPT ![i] = "closed"]
        /\ \/ UNCHANGED inputs
           \/ /\ inputs[i].state = "pending"
              /\ inputs' = [inputs EXCEPT ![i] =
                              [Unclaimed(@) EXCEPT !.state = "withdrawn"]]
    BY <1>9 DEF WithdrawAborted, NativeWithdraw
  <2>2. CASE UNCHANGED inputs BY <1>1, <1>2, <2>1, <2>2
  <2>3. CASE /\ inputs[i].state = "pending"
             /\ inputs' = [inputs EXCEPT ![i] =
                             [Unclaimed(@) EXCEPT !.state = "withdrawn"]]
    <3>1. \A j \in Inputs :
            inputs'[j].state = IF j = i THEN "withdrawn" ELSE inputs[j].state
      BY <1>1, <2>3, UnclaimedType, NewStates
    <3> QED BY <1>1, <1>3, <2>1, <2>3, <3>1
  <2> QED BY <2>1, <2>2, <2>3
<1>10. ASSUME NEW i \in Inputs, RecordUndelivered(i), UNCHANGED execVars
       PROVE  /\ OnlySettles /\ SameDecision
              /\ control'.attention = control.attention
              /\ UNCHANGED <<lock, answering, requests, execVars>>
              /\ \/ control'.phase = control.phase
                 \/ control.outcome = "none" /\ control'.phase = "needs_attention"
  <2>1. UNCHANGED <<lock, answering, requests, execVars>>
    BY <1>10 DEF RecordUndelivered
  <2>2. CASE UNCHANGED <<control, inputs>> BY <1>2, <1>4, <2>1, <2>2
  <2>3. CASE control.outcome = "none"
    <3>1. control' = [control EXCEPT !.phase = "needs_attention"]
      BY <1>10, <2>3 DEF RecordUndelivered
    <3>2. CASE UNCHANGED inputs BY <1>2, <1>5, <2>1, <2>3, <3>1, <3>2
    <3>3. CASE inputs[i].state = "answer_intent"
      <4>1. inputs' = [inputs EXCEPT ![i] = [@ EXCEPT !.state = "delivery_unknown"]]
        BY <1>10, <2>3, <3>3 DEF RecordUndelivered
      <4>2. \A j \in Inputs :
              inputs'[j].state = IF j = i THEN "delivery_unknown" ELSE inputs[j].state
        BY <1>1, <4>1, NewStates
      <4> QED BY <1>3, <1>5, <2>1, <2>3, <3>1, <3>3, <4>2
    <3> QED BY <1>10, <2>3, <3>2, <3>3 DEF RecordUndelivered
  <2> QED BY <1>10, <2>2, <2>3 DEF RecordUndelivered
<1>11. ASSUME NEW i \in Inputs, starts > 0, Reserve(i) \/ AbortRequest(i)
       PROVE  UNCHANGED <<control, inputs, lock, answering>>
  BY <1>11 DEF Reserve, AbortRequest, controlVars
<1>12. CASE WorkerAsks
  <2>1. PICK i \in Inputs : Reserve(i) \/ AbortRequest(i) \/ NativeWithdraw(i)
    BY <1>12 DEF WorkerAsks
  <2>2. starts > 0 /\ UNCHANGED execVars BY <1>12 DEF WorkerAsks
  <2>3. CASE NativeWithdraw(i) BY <1>4, <1>9, <2>2, <2>3 DEF execVars
  <2>4. CASE Reserve(i) \/ AbortRequest(i) BY <1>4, <1>11, <2>2, <2>4 DEF execVars
  <2> QED BY <2>1, <2>3, <2>4
<1>13. CASE BrokerStep /\ ~Release
  <2>1. PICK i \in Inputs : \/ Publish(i) \/ PublishRefused(i)
                           \/ WithdrawAborted(i) \/ RecordUndelivered(i)
    BY <1>13 DEF BrokerStep
  <2>2. UNCHANGED execVars BY <1>13 DEF BrokerStep
  <2>3. CASE Publish(i) BY <1>7, <2>2, <2>3 DEF execVars
  <2>4. CASE PublishRefused(i) BY <1>2, <1>4, <1>8, <2>2, <2>4 DEF execVars
  <2>5. CASE WithdrawAborted(i) BY <1>4, <1>9, <2>2, <2>5 DEF execVars
  <2>6. CASE RecordUndelivered(i)
    <3>1. \A j \in Inputs : requests'[j] \in {requests[j], "closed"}
      BY <1>10, <2>2, <2>6
    <3> QED BY <1>10, <2>2, <2>6, <3>1 DEF execVars
  <2> QED BY <2>1, <2>3, <2>4, <2>5, <2>6
<1> QED BY <1>6, <1>12, <1>13 DEF BrokerStep

\* What the worker reports decides nothing but a late contradiction.
LEMMA WorkerSteps ==
  ASSUME TypeOK, WorkerReports
  PROVE  /\ UNCHANGED <<run, pc, result, starts, stopCall, lock, answering, requests>>
         /\ OnlySettles
         /\ \/ UNCHANGED control /\ late' \in {late, TRUE}
            \/ /\ starts > 0 /\ ~Decided /\ SameDecision
               /\ control'.phase \in {control.phase, "active", "needs_attention"}
               /\ control'.attention = control.attention
               /\ UNCHANGED late
            \/ /\ starts > 0 /\ control.settled # "none" /\ control.phase # "terminal"
               /\ control'.cancel = control.cancel
               /\ control'.outcome = control.outcome
               /\ control'.settled = "interrupted"
               /\ control'.phase = "needs_attention"
               /\ control'.attention = "other"
               /\ UNCHANGED late
<1>1. control \in Control /\ inputs \in [Inputs -> Input]
  BY DEF TypeOK, ControlTypeOK
<1>2. ASSUME UNCHANGED inputs PROVE OnlySettles
  BY <1>2 DEF OnlySettles
<1>3. ASSUME NEW update, Report(update)
      PROVE  /\ starts > 0 /\ ~Decided /\ control' = update /\ OnlySettles
             /\ UNCHANGED <<run, pc, result, late, starts, stopCall, lock, answering,
                            requests>>
  BY <1>2, <1>3 DEF Report, brokerVars
<1>4. CASE TurnStarted
  <2>1. PICK ph \in {control.phase, "active"} :
          Report([control EXCEPT !.turn = @ + 1, !.native = "observed_live",
                                 !.coverage = "unknown", !.phase = ph])
    BY <1>4 DEF TurnStarted
  <2>2. control' = [control EXCEPT !.turn = @ + 1, !.native = "observed_live",
                                   !.coverage = "unknown", !.phase = ph]
    BY <1>3, <2>1
  <2>3. /\ control'.phase = ph /\ SameDecision
        /\ control'.attention = control.attention
    BY <1>1, <2>2 DEF Control, SameDecision
  <2> QED BY <1>3, <2>1, <2>3
<1>5. CASE TurnSettled
  <2>1. Report([control EXCEPT !.coverage = "turn_scoped"])
    BY <1>5 DEF TurnSettled
  <2>2. /\ control'.phase = control.phase /\ SameDecision
        /\ control'.attention = control.attention
    BY <1>1, <1>3, <2>1 DEF Control, SameDecision
  <2> QED BY <1>3, <2>1, <2>2
<1>6. CASE SettleTurn
  <2>1. inputs' = [i \in Inputs |->
          IF inputs[i].turn = settling /\ inputs[i].state = "answer_intent"
          THEN [inputs[i] EXCEPT !.state = "settled"] ELSE inputs[i]]
    BY <1>6 DEF SettleTurn, SettleAnswers
  <2>2. \A i \in Inputs : \/ inputs'[i].state = inputs[i].state
                           \/ /\ inputs[i].state = "answer_intent"
                              /\ inputs'[i].state = "settled"
    BY <1>1, <2>1, NewStates
  <2>3. OnlySettles BY <2>2 DEF OnlySettles, Unsettled
  <2> QED BY <1>6, <2>3 DEF SettleTurn, SettleAnswers, brokerVars
<1>7. CASE ProcessObserved
  <2>1. Report([control EXCEPT !.native = "observed_live"])
    BY <1>7 DEF ProcessObserved
  <2>2. /\ control'.phase = control.phase /\ SameDecision
        /\ control'.attention = control.attention
    BY <1>1, <1>3, <2>1 DEF Control, SameDecision
  <2> QED BY <1>3, <2>1, <2>2
<1>8. CASE RuntimeUnknown
  <2>1. PICK ph \in {control.phase, "needs_attention"} :
          Report([control EXCEPT !.native = "unknown", !.limitation = "unknown",
                                 !.phase = ph])
    BY <1>8 DEF RuntimeUnknown
  <2>2. control' = [control EXCEPT !.native = "unknown", !.limitation = "unknown",
                                   !.phase = ph]
    BY <1>3, <2>1
  <2>3. /\ control'.phase = ph /\ SameDecision
        /\ control'.attention = control.attention
    BY <1>1, <2>2 DEF Control, SameDecision
  <2> QED BY <1>3, <2>1, <2>3
<1>9. CASE LateEvent
  <2>1. /\ starts > 0 /\ control.settled # "none" /\ control.phase # "terminal"
        /\ UNCHANGED <<inputs, lock, brokerVars, pc, run, stopCall, late, result, starts>>
        /\ \/ UNCHANGED control
           \/ control' = [control EXCEPT !.native = "unknown", !.coverage = "unknown",
                           !.limitation = "late", !.phase = "needs_attention",
                           !.settled = "interrupted", !.attention = "other"]
    BY <1>9 DEF LateEvent
  <2>2. CASE UNCHANGED control BY <1>2, <2>1, <2>2 DEF brokerVars
  <2>3. CASE control' = [control EXCEPT !.native = "unknown", !.coverage = "unknown",
                           !.limitation = "late", !.phase = "needs_attention",
                           !.settled = "interrupted", !.attention = "other"]
    <3>1. /\ control'.cancel = control.cancel
          /\ control'.outcome = control.outcome
          /\ control'.settled = "interrupted"
          /\ control'.phase = "needs_attention"
          /\ control'.attention = "other"
      BY <1>1, <2>3 DEF Control
    <3> QED BY <1>2, <2>1, <3>1 DEF brokerVars
  <2> QED BY <2>1, <2>2, <2>3
<1>10. CASE EventDuringWrite
  BY <1>2, <1>10 DEF EventDuringWrite, controlVars, brokerVars
<1>11. ASSUME NEW o \in Operations, OperationStarted(o) \/ OperationFinished(o)
       PROVE  /\ starts > 0 /\ ~Decided /\ SameDecision /\ OnlySettles
              /\ control'.phase = control.phase
              /\ control'.attention = control.attention
              /\ UNCHANGED <<run, pc, result, late, starts, stopCall, lock, answering,
                             requests>>
  <2>1. PICK os : Report([control EXCEPT !.obligations = os])
    BY <1>11 DEF OperationStarted, OperationFinished
  <2>2. /\ control'.phase = control.phase /\ SameDecision
        /\ control'.attention = control.attention
    BY <1>1, <1>3, <2>1 DEF Control, SameDecision
  <2> QED BY <1>3, <2>1, <2>2
<1> QED BY <1>4, <1>5, <1>6, <1>7, <1>8, <1>9, <1>10, <1>11 DEF WorkerReports

-----------------------------------------------------------------------------
(* Every step preserves the invariant. *)

\* What clients do preserves the invariant.
LEMMA ClientInv ==
  ASSUME IInv, TypeOK', ClientStep, service = "up", UNCHANGED lifeVars
  PROVE  IInv'
<1> USE DEF IInv, CancelWins, FenceDecides, ResultDecides, ResultOfRun, LockOwned,
      StopCallsServe, AckInOrder, TerminalComplete, NothingBeforeStart,
      RecoveredUnstarted, DownForgets, Decided, StopProven, SameDecision, OnlySettles,
      lifeVars
<1> QED BY ClientSteps

\* The continuations of requests and answers preserve the invariant.
LEMMA BrokerInv ==
  ASSUME IInv, TypeOK', BrokerStep \/ WorkerAsks, service = "up", UNCHANGED lifeVars
  PROVE  IInv'
<1> USE DEF IInv, CancelWins, FenceDecides, ResultDecides, ResultOfRun, LockOwned,
      StopCallsServe, AckInOrder, TerminalComplete, NothingBeforeStart,
      RecoveredUnstarted, DownForgets, Decided, StopProven, SameDecision, OnlySettles,
      lifeVars
<1> QED BY BrokerSteps

\* What the worker asks and reports preserves the invariant.
LEMMA WorkerInv ==
  ASSUME IInv, TypeOK', WorkerReports, service = "up", UNCHANGED lifeVars
  PROVE  IInv'
<1> USE DEF IInv, CancelWins, FenceDecides, ResultDecides, ResultOfRun, LockOwned,
      StopCallsServe, AckInOrder, TerminalComplete, NothingBeforeStart,
      RecoveredUnstarted, DownForgets, Decided, StopProven, SameDecision, OnlySettles,
      lifeVars
<1>1. /\ UNCHANGED <<run, pc, result, starts, stopCall, lock, answering, requests>>
      /\ OnlySettles
  BY WorkerSteps
<1>2. CASE UNCHANGED control /\ late' \in {late, TRUE}
  <2>1. UNCHANGED <<control.cancel, control.settled, control.outcome, control.phase,
                    control.attention>>
    BY <1>2
  <2>2. CASE UNCHANGED late BY <1>1, <2>1, <2>2
  <2>3. CASE late' = TRUE BY <1>1, <2>1, <2>3
  <2> QED BY <1>2, <2>2, <2>3
<1>3. CASE /\ starts > 0 /\ ~Decided /\ SameDecision
           /\ control'.phase \in {control.phase, "active", "needs_attention"}
           /\ control'.attention = control.attention
           /\ UNCHANGED late
  BY <1>1, <1>3
<1>4. CASE /\ starts > 0 /\ control.settled # "none" /\ control.phase # "terminal"
           /\ control'.cancel = control.cancel
           /\ control'.outcome = control.outcome
           /\ control'.settled = "interrupted"
           /\ control'.phase = "needs_attention"
           /\ control'.attention = "other"
           /\ UNCHANGED late
  BY <1>1, <1>4
<1> QED BY <1>2, <1>3, <1>4, WorkerSteps

\* The steps of the run before its fence, after its result, and the freezes:
\* they move pc and at most name a phase.
CalmMove ==
  \/ pc' = pc
  \/ pc = "queued" /\ pc' \in {"preparing", "retaining"}
  \/ pc = "preparing" /\ pc' \in {"workspace", "closing"}
  \/ pc = "workspace" /\ pc' \in {"ready", "closing"}
  \/ pc = "ready" /\ pc' = "closing"
  \/ pc = "ready" /\ pc' = "launching" /\ control'.phase = "active"
  \/ pc = "running" /\ pc' \in {"returned", "closing"}
  \/ pc = "returned" /\ pc' = "evidence"
  \/ pc = "evidence" /\ pc' = "admitted"
  \/ pc = "admitted" /\ pc' = "closing"
  \/ pc = "freezing" /\ pc' = "leaving"
  \/ pc = "leaving" /\ pc' = "idle"

Calm ==
  /\ CalmMove
  /\ pc' = pc => UNCHANGED run
  /\ control'.cancel = control.cancel
  /\ control.settled # "none" => control'.settled # "none"
  /\ control'.outcome = control.outcome
  /\ control'.attention = control.attention
  /\ \/ control'.phase = control.phase
     \/ control'.phase \in {"starting", "active", "finalizing"} /\ pc \in Owned
  /\ UNCHANGED <<inputs, result, late, lock, answering, stopCall, starts, requests>>

\* A failed run moves to its settlement and touches nothing else.
LEMMA CaughtMove ==
  ASSUME NEW stop, Caught(stop)
  PROVE  /\ pc' = "closing"
         /\ UNCHANGED <<aborted, stopCall, settling, late, starts, result, frozen>>
BY DEF Caught, Goto

\* Each step of a run is calm or one of the steps that write a decision.
LEMMA CalmSteps ==
  ASSUME TypeOK,
         \/ Pump \/ DropQueued \/ BeginPrepare \/ PrepareWorkspace \/ CommitStart
         \/ WorkerReturns \/ WorkerThrows \/ ReadEvidence \/ Admit \/ FinishRun
         \/ FreezeRun \/ LeaveRun \/ FreezeElsewhere
  PROVE  Calm
<1>1. control \in Control
  BY DEF TypeOK, ControlTypeOK
<1>2. ASSUME NEW ph, control' \in {control, [control EXCEPT !.phase = ph]}
      PROVE  /\ control'.cancel = control.cancel
             /\ control'.settled = control.settled
             /\ control'.outcome = control.outcome
             /\ control'.attention = control.attention
             /\ control'.phase \in {control.phase, ph}
  BY <1>1, <1>2 DEF Control
<1>3. CASE UNCHANGED controlVars /\ UNCHANGED brokerVars
           /\ CalmMove /\ (pc' = pc => UNCHANGED run)
           /\ UNCHANGED <<result, late, stopCall, starts>>
  BY <1>3 DEF Calm, controlVars, brokerVars
<1> USE DEF Goto, CalmMove
<1>4. CASE Pump BY <1>3, <1>4 DEF Pump
<1>5. CASE DropQueued BY <1>3, <1>5 DEF DropQueued
<1>6. CASE BeginPrepare
  <2>1. pc = "preparing" /\ UNCHANGED <<inputs, receipts, lock, brokerVars>>
    BY <1>6 DEF BeginPrepare
  <2>2. /\ pc' \in {"workspace", "closing"}
        /\ UNCHANGED <<result, late, stopCall, starts>>
    BY <1>6, CaughtMove DEF BeginPrepare
  <2>3. control' \in {control, [control EXCEPT !.phase = "starting"]}
    BY <1>6 DEF BeginPrepare
  <2> QED BY <1>2, <2>1, <2>2, <2>3 DEF Calm, brokerVars, Owned, Steps
<1>7. CASE PrepareWorkspace
  BY <1>3, <1>7, CaughtMove DEF PrepareWorkspace
<1>8. CASE CommitStart
  <2>1. pc = "ready" /\ UNCHANGED <<inputs, receipts, lock, brokerVars>>
    BY <1>8 DEF CommitStart
  <2>2. CASE aborted \/ control.cancel
    <3>1. Caught("not_started") /\ UNCHANGED control
      BY <1>8, <2>2 DEF CommitStart
    <3> QED BY <1>3, <2>1, <3>1, CaughtMove DEF controlVars
  <2>3. CASE ~(aborted \/ control.cancel)
    <3>1. /\ control' = [control EXCEPT !.native = "unknown", !.phase = "active"]
          /\ pc' = "launching"
          /\ UNCHANGED <<result, late, stopCall, starts>>
      BY <1>8, <2>3 DEF CommitStart
    <3>2. /\ control'.cancel = control.cancel
          /\ control'.settled = control.settled
          /\ control'.outcome = control.outcome
          /\ control'.attention = control.attention
          /\ control'.phase = "active"
      BY <1>1, <3>1 DEF Control
    <3> QED BY <2>1, <3>1, <3>2 DEF Calm, brokerVars, Owned, Steps
  <2> QED BY <2>2, <2>3
<1>9. CASE WorkerReturns
  <2>1. pc = "running" /\ pc' = "returned"
        /\ UNCHANGED <<result, late, stopCall, starts, controlVars, brokerVars>>
    BY <1>9 DEF WorkerReturns
  <2> QED BY <1>3, <2>1
<1>10. CASE WorkerThrows BY <1>3, <1>10, CaughtMove DEF WorkerThrows
<1>11. CASE ReadEvidence BY <1>3, <1>11 DEF ReadEvidence
<1>12. CASE Admit
  <2>1. /\ pc = "evidence" /\ pc' = "admitted"
        /\ UNCHANGED <<inputs, receipts, lock, result, late, stopCall, starts, brokerVars>>
    BY <1>12 DEF Admit, AdmitCompletion
  <2>2. AdmittedOutcome(run.status, run.generation) \in Outcomes
    BY AdmittedType DEF TypeOK, ExecTypeOK
  <2>3. PICK o \in Outcomes :
          control' \in {control, [control EXCEPT !.phase = "finalizing", !.settled = o]}
    BY <1>12, <2>2 DEF Admit, AdmitCompletion
  <2>4. /\ control'.cancel = control.cancel
        /\ control'.settled \in {control.settled, o}
        /\ control'.outcome = control.outcome
        /\ control'.attention = control.attention
        /\ control'.phase \in {control.phase, "finalizing"}
    BY <1>1, <2>3 DEF Control
  <2>5. o # "none" BY DEF Outcomes
  <2> QED BY <2>1, <2>4, <2>5 DEF Calm, brokerVars, Owned, Steps
<1>13. CASE FinishRun
  <2>1. /\ pc = "admitted" /\ pc' = "closing"
        /\ UNCHANGED <<result, late, stopCall, starts, controlVars, brokerVars>>
    BY <1>13, CaughtMove DEF FinishRun
  <2> QED BY <1>3, <2>1
<1>14. CASE FreezeRun BY <1>3, <1>14 DEF FreezeRun
<1>15. CASE LeaveRun BY <1>3, <1>15 DEF LeaveRun
<1>16. CASE FreezeElsewhere BY <1>3, <1>16 DEF FreezeElsewhere
<1> QED BY <1>4, <1>5, <1>6, <1>7, <1>8, <1>9, <1>10, <1>11, <1>12, <1>13, <1>14,
           <1>15, <1>16

\* A calm step preserves the invariant.
LEMMA CalmInv ==
  ASSUME IInv, TypeOK', Calm, service = "up", UNCHANGED lifeVars
  PROVE  IInv'
<1> USE DEF Calm, CalmMove, IInv, lifeVars
<1>1. CancelWins' BY DEF CancelWins
<1>2. FenceDecides' BY DEF FenceDecides, Fencing
<1>3. ResultDecides' BY DEF ResultDecides, Decided, TerminalComplete, Owned
<1>4. ResultOfRun' BY DEF ResultOfRun, Unwritten, Steps
<1>5. LockOwned' BY DEF LockOwned
<1>6. StopCallsServe' BY DEF StopCallsServe
<1>7. AckInOrder' BY DEF AckInOrder
<1>8. TerminalComplete' BY DEF TerminalComplete, Owned, Steps, StopProven
<1>9. NothingBeforeStart' BY DEF NothingBeforeStart, Unstarted
<1>10. RecoveredUnstarted' BY DEF RecoveredUnstarted
<1>11. DownForgets' BY DEF DownForgets
<1> QED BY <1>1, <1>2, <1>3, <1>4, <1>5, <1>6, <1>7, <1>8, <1>9, <1>10, <1>11

\* Marking a queued task at shutdown preserves the invariant.
LEMMA RetainInv ==
  ASSUME IInv, TypeOK', RetainQueued, service = "up", UNCHANGED lifeVars
  PROVE  IInv'
<1>1. control \in Control BY DEF IInv, TypeOK, ControlTypeOK
<1>2. /\ pc = "retaining" /\ pc' = "idle" /\ lock = "free"
      /\ UNCHANGED <<inputs, lock, run, result, late, answering, requests, stopCall, starts>>
  BY DEF RetainQueued, Goto, brokerVars
<1>3. /\ control'.cancel = control.cancel
      /\ control'.settled = control.settled
      /\ control'.outcome = control.outcome
      /\ \/ /\ control.outcome = "none"
            /\ control'.phase = "needs_attention" /\ control'.attention = "recovered"
         \/ /\ control.outcome # "none"
            /\ control'.phase = control.phase /\ control'.attention = control.attention
  BY <1>1 DEF RetainQueued, Control
<1> USE DEF IInv, lifeVars
<1>4. CancelWins' BY <1>2, <1>3 DEF CancelWins
<1>5. FenceDecides' BY <1>2 DEF FenceDecides, Fencing
<1>6. ResultDecides' BY <1>2, <1>3 DEF ResultDecides, Decided, TerminalComplete
<1>7. ResultOfRun' BY <1>2 DEF ResultOfRun, Unwritten, Steps
<1>8. LockOwned' BY <1>2 DEF LockOwned
<1>9. StopCallsServe' BY <1>2, <1>3 DEF StopCallsServe
<1>10. AckInOrder' BY <1>2, <1>3 DEF AckInOrder
<1>11. TerminalComplete'
  BY <1>2, <1>3 DEF TerminalComplete, Owned, Steps, StopProven
<1>12. NothingBeforeStart' BY <1>2, <1>3 DEF NothingBeforeStart, Unstarted
<1>13. RecoveredUnstarted'
  BY <1>2, <1>3 DEF RecoveredUnstarted, NothingBeforeStart, Unstarted, ResultOfRun,
                    Unwritten, Steps
<1>14. DownForgets' BY <1>2 DEF DownForgets
<1> QED BY <1>4, <1>5, <1>6, <1>7, <1>8, <1>9, <1>10, <1>11, <1>12, <1>13, <1>14

\* The native start preserves the invariant.
LEMMA StartInv ==
  ASSUME IInv, TypeOK', RunWorker, service = "up", UNCHANGED lifeVars
  PROVE  IInv'
<1>1. /\ pc = "launching" /\ pc' = "running" /\ starts' = starts + 1 /\ starts \in Nat
      /\ UNCHANGED <<control, inputs, lock, run, result, late, answering, requests,
                     stopCall>>
  BY DEF RunWorker, controlVars, brokerVars, IInv, TypeOK, ExecTypeOK
<1> USE <1>1 DEF IInv, lifeVars
<1>2. CancelWins' BY DEF CancelWins
<1>3. FenceDecides' BY DEF FenceDecides, Fencing
<1>4. ResultDecides' BY DEF ResultDecides, Decided
<1>5. ResultOfRun' BY DEF ResultOfRun, Unwritten, Steps
<1>6. LockOwned' BY DEF LockOwned
<1>7. StopCallsServe' BY DEF StopCallsServe
<1>8. AckInOrder' BY DEF AckInOrder
<1>9. TerminalComplete' BY DEF TerminalComplete, Owned, Steps, StopProven
<1>10. NothingBeforeStart' BY DEF NothingBeforeStart, Unstarted
<1>11. RecoveredUnstarted' BY DEF RecoveredUnstarted
<1>12. DownForgets' BY DEF DownForgets
<1> QED BY <1>2, <1>3, <1>4, <1>5, <1>6, <1>7, <1>8, <1>9, <1>10, <1>11, <1>12

\* A second look at the evidence only ever downgrades a completion.
LEMMA RecheckedStatus ==
  ASSUME TypeOK,
         NEW r \in [status : Outcomes, stop : Stops, generation : Nat,
                    issue : BOOLEAN, nativeIssue : BOOLEAN]
  PROVE  /\ Rechecked(r).status \in {r.status, "interrupted"}
         /\ Rechecked(r).status \in Outcomes
BY Names DEF Rechecked

\* Both fences decide the task and obey a cancellation.
LEMMA FenceSteps ==
  ASSUME IInv, TypeOK', Recheck \/ BeginResult
  PROVE  /\ \/ pc = "closing" /\ pc' = "fenced" /\ UNCHANGED lock
            \/ pc = "fenced" /\ pc' = "writing" /\ lock' = "result"
         /\ lock = "free"
         /\ control'.phase = "finalizing" /\ control'.settled # "none"
         /\ control'.cancel => run'.status \in {"cancelled", "interrupted"}
         /\ control'.cancel = control.cancel
         /\ control'.outcome = control.outcome
         /\ control'.attention = control.attention
         /\ UNCHANGED <<inputs, result, late, answering, requests, stopCall, starts>>
<1>1. /\ TypeOK /\ control \in Control
      /\ run \in [status : Outcomes, stop : Stops, generation : Nat,
                   issue : BOOLEAN, nativeIssue : BOOLEAN]
  BY DEF IInv, TypeOK, ControlTypeOK, ExecTypeOK
<1>2. "none" \notin Outcomes BY DEF Outcomes
<1>3. CASE Recheck
  <2> DEFINE entering == [run EXCEPT !.status =
                 IF run.stop = "unconfirmed" /\ @ = "completed"
                 THEN "interrupted" ELSE @]
             status == IF control.cancel THEN "cancelled"
                       ELSE Rechecked(entering).status
  <2>1. entering \in [status : Outcomes, stop : Stops, generation : Nat,
                      issue : BOOLEAN, nativeIssue : BOOLEAN]
    BY <1>1, Names
  <2>2. /\ Rechecked(entering) \in [status : Outcomes, stop : Stops, generation : Nat,
                                    issue : BOOLEAN, nativeIssue : BOOLEAN]
        /\ status \in Outcomes
    BY <1>1, <2>1, RecheckedType, Names
  <2>3. /\ run' = [Rechecked(entering) EXCEPT !.status = status]
        /\ control' = [control EXCEPT !.phase = "finalizing", !.settled = status]
        /\ pc = "closing" /\ pc' = "fenced" /\ lock = "free"
        /\ UNCHANGED <<inputs, lock, result, late, stopCall, starts, brokerVars>>
    BY <1>3 DEF Recheck, Goto
  <2>4. control.cancel => status = "cancelled" OBVIOUS
  <2> HIDE DEF entering, status
  <2>5. run'.status = status BY <2>2, <2>3
  <2>6. /\ control'.phase = "finalizing" /\ control'.settled = status
        /\ control'.cancel = control.cancel
        /\ control'.outcome = control.outcome
        /\ control'.attention = control.attention
    BY <1>1, <2>3 DEF Control
  <2> QED BY <1>2, <2>2, <2>3, <2>4, <2>5, <2>6 DEF brokerVars
<1>4. CASE BeginResult
  <2>1. /\ run' = Rechecked(run)
        /\ control' = [control EXCEPT !.phase = "finalizing",
                                      !.settled = Rechecked(run).status]
        /\ pc = "fenced" /\ pc' = "writing" /\ lock = "free" /\ lock' = "result"
        /\ UNCHANGED <<inputs, result, late, stopCall, starts, brokerVars>>
    BY <1>4 DEF BeginResult, Goto
  <2>2. /\ Rechecked(run).status \in {run.status, "interrupted"}
        /\ Rechecked(run).status \in Outcomes
    BY <1>1, RecheckedStatus
  <2>3. /\ control'.phase = "finalizing" /\ control'.settled = Rechecked(run).status
        /\ control'.cancel = control.cancel
        /\ control'.outcome = control.outcome
        /\ control'.attention = control.attention
    BY <1>1, <2>1 DEF Control
  <2>4. control.cancel => run.status \in {"cancelled", "interrupted"}
    BY <2>1 DEF IInv, FenceDecides, Fencing
  <2> QED BY <1>2, <2>1, <2>2, <2>3, <2>4 DEF brokerVars
<1> QED BY <1>3, <1>4

\* The two checks before the result preserve the invariant.
LEMMA FenceInv ==
  ASSUME IInv, TypeOK', Recheck \/ BeginResult, service = "up", UNCHANGED lifeVars
  PROVE  IInv'
<1> USE FenceSteps DEF IInv, lifeVars
<1>1. CancelWins' BY DEF CancelWins
<1>2. FenceDecides' BY DEF FenceDecides, Fencing
<1>3. ResultDecides' BY DEF ResultDecides, Decided
<1>4. ResultOfRun' BY DEF ResultOfRun, Unwritten, Steps
<1>5. LockOwned' BY DEF LockOwned
<1>6. StopCallsServe' BY DEF StopCallsServe
<1>7. AckInOrder' BY DEF AckInOrder
<1>8. TerminalComplete' BY DEF TerminalComplete, Owned, Steps
<1>9. NothingBeforeStart' BY DEF NothingBeforeStart, Unstarted
<1>10. RecoveredUnstarted' BY DEF RecoveredUnstarted
<1>11. DownForgets' BY DEF DownForgets
<1> QED BY <1>1, <1>2, <1>3, <1>4, <1>5, <1>6, <1>7, <1>8, <1>9, <1>10, <1>11

\* What the write of the result changes, done or failed.
LEMMA WriteSteps ==
  ASSUME WriteResult \/ FailResult
  PROVE  /\ UNCHANGED <<control, inputs, run, answering, requests, stopCall, starts>>
         /\ pc = "writing"
         /\ \/ /\ pc' = "written" /\ UNCHANGED lock
               /\ \/ /\ result = NoResult
                     /\ result' = [status |-> run.status, stop |-> run.stop]
                  \/ /\ result # NoResult /\ UNCHANGED result
                     /\ ~late' => result = [status |-> run.status, stop |-> run.stop]
            \/ /\ pc' = "freezing" /\ lock' = "free" /\ UNCHANGED result
<1>1. CASE WriteResult
  <2>1. /\ UNCHANGED <<control, inputs, run, answering, requests, stopCall, starts, lock>>
        /\ pc = "writing" /\ pc' = "written"
    BY <1>1 DEF WriteResult, controlVars, brokerVars
  <2>2. CASE result = NoResult BY <1>1, <2>1, <2>2 DEF WriteResult
  <2>3. CASE result # NoResult
    <3>1. /\ UNCHANGED result
          /\ late' = (late \/ result # [status |-> run.status, stop |-> run.stop])
      BY <1>1, <2>3 DEF WriteResult
    <3> QED BY <2>1, <2>3, <3>1
  <2> QED BY <2>2, <2>3
<1>2. CASE FailResult BY <1>2 DEF FailResult, brokerVars
<1> QED BY <1>1, <1>2

\* The write of the immutable result preserves the invariant.
LEMMA WriteInv ==
  ASSUME IInv, TypeOK', WriteResult \/ FailResult, service = "up", UNCHANGED lifeVars
  PROVE  IInv'
<1>1. /\ UNCHANGED <<control, inputs, run, answering, requests, stopCall, starts>>
      /\ pc = "writing"
      /\ \/ /\ pc' = "written" /\ UNCHANGED lock
            /\ \/ /\ result = NoResult
                  /\ result' = [status |-> run.status, stop |-> run.stop]
               \/ /\ result # NoResult /\ UNCHANGED result
                  /\ ~late' => result = [status |-> run.status, stop |-> run.stop]
         \/ /\ pc' = "freezing" /\ lock' = "free" /\ UNCHANGED result
  BY WriteSteps
<1>2. /\ run.status \in Outcomes /\ "none" \notin Outcomes
      /\ [status |-> run.status, stop |-> run.stop].status = run.status
      /\ [status |-> run.status, stop |-> run.stop].stop = run.stop
  BY DEF IInv, TypeOK, ExecTypeOK, Outcomes
<1>3. NoResult.status = "none" BY DEF NoResult
<1>4. /\ control.settled # "none" /\ control.phase # "queued"
      /\ control.cancel => run.status \in {"cancelled", "interrupted"}
      /\ control.phase # "terminal" /\ control.attention # "recovered"
      /\ lock = "result" /\ ack = "none" /\ answering = NoInput
      /\ stopCall # "result_written"
  BY <1>1 DEF IInv, FenceDecides, Fencing, TerminalComplete, Owned, Steps, LockOwned,
              RecoveredUnstarted, StopCallsServe, AckInOrder
<1>5. result'.status \in {result.status, run.status}
  BY <1>1, <1>2
<1> USE <1>4 DEF IInv, lifeVars
<1>6. CancelWins' BY <1>1, <1>5 DEF CancelWins
<1>7. FenceDecides' BY <1>1 DEF FenceDecides, Fencing
<1>8. ResultDecides' BY <1>1 DEF ResultDecides, Decided
<1>9. ResultOfRun' BY <1>1, <1>2, <1>3 DEF ResultOfRun, Unwritten, Steps
<1>10. LockOwned' BY <1>1 DEF LockOwned
<1>11. StopCallsServe' BY <1>1 DEF StopCallsServe
<1>12. AckInOrder' BY <1>1 DEF AckInOrder
<1>13. TerminalComplete' BY <1>1 DEF TerminalComplete
<1>14. NothingBeforeStart' BY <1>1 DEF NothingBeforeStart, Unstarted
<1>15. RecoveredUnstarted' BY <1>1 DEF RecoveredUnstarted
<1>16. DownForgets' BY <1>1 DEF DownForgets
<1> QED BY <1>6, <1>7, <1>8, <1>9, <1>10, <1>11, <1>12, <1>13, <1>14, <1>15, <1>16

\* The final record: terminal only with nothing unresolved.
LEMMA SettleSteps ==
  ASSUME IInv, SettleResult
  PROVE  /\ pc = "written" /\ lock' = "free"
         /\ UNCHANGED <<run, result, answering, requests, stopCall, starts>>
         /\ OnlySettles \/ control'.phase = "needs_attention"
         /\ \A i \in Inputs : inputs[i].state = "absent" => inputs'[i].state = "absent"
         /\ control'.cancel = control.cancel
         /\ control'.settled = control.settled
         /\ control'.attention # "recovered"
         /\ \/ /\ pc' = "freezing" /\ control'.phase = "needs_attention"
               /\ control'.outcome = "none"
            \/ /\ pc' = "leaving" /\ control'.phase = "terminal" /\ ~late
               /\ control'.outcome = run.status
               /\ run.stop # "unconfirmed" /\ Unsettled(inputs') = {}
<1>1. /\ control \in Control /\ inputs \in [Inputs -> Input]
      /\ control.outcome = "none" /\ control.attention # "recovered"
      /\ pc = "written" /\ lock' = "free"
      /\ UNCHANGED <<run, result, answering, requests, stopCall, starts>>
  BY DEF IInv, TypeOK, ControlTypeOK, SettleResult, brokerVars, TerminalComplete, Owned,
         Steps, RecoveredUnstarted
<1> DEFINE final == [i \in Inputs |-> Abandoned(inputs[i])]
<1>2. \A i \in Inputs : final[i].state =
        CASE inputs[i].state = "pending" -> "withdrawn"
          [] inputs[i].state = "answer_intent" -> "delivery_unknown"
          [] OTHER -> inputs[i].state
  BY <1>1, AbandonedState
<1>3. CASE late
  <2>1. /\ control' = [control EXCEPT !.native = "unknown", !.coverage = "unknown",
                  !.limitation = "unknown", !.phase = "needs_attention",
                  !.outcome = "none", !.attention = "conflict"]
        /\ UNCHANGED inputs /\ pc' = "freezing"
    BY <1>3 DEF SettleResult
  <2>2. /\ control'.phase = "needs_attention" /\ control'.outcome = "none"
        /\ control'.cancel = control.cancel /\ control'.settled = control.settled
        /\ control'.attention = "conflict"
    BY <1>1, <2>1 DEF Control
  <2> QED BY <1>1, <2>1, <2>2
<1>4. CASE ~late /\ Unresolved(final)
  <2>1. /\ inputs' = final /\ pc' = "freezing"
        /\ \E a \in {"conflict", "other"} :
             control' = [control EXCEPT !.native = FinalNative,
                           !.phase = "needs_attention", !.attention = a]
    BY <1>4 DEF SettleResult
  <2>2. /\ control'.phase = "needs_attention" /\ control'.outcome = "none"
        /\ control'.cancel = control.cancel /\ control'.settled = control.settled
        /\ control'.attention # "recovered"
    BY <1>1, <2>1 DEF Control
  <2> HIDE DEF final
  <2> QED BY <1>1, <1>2, <2>1, <2>2
<1>5. CASE ~late /\ ~Unresolved(final)
  <2>1. /\ inputs' = final /\ pc' = "leaving"
        /\ control' = [control EXCEPT !.native = FinalNative,
                          !.phase = "terminal", !.outcome = run.status]
    BY <1>5 DEF SettleResult
  <2>2. /\ control'.phase = "terminal" /\ control'.outcome = run.status
        /\ control'.cancel = control.cancel /\ control'.settled = control.settled
        /\ control'.attention = control.attention
    BY <1>1, <2>1 DEF Control
  <2>3. /\ run.stop # "unconfirmed"
        /\ \A i \in Inputs : final[i].state # "delivery_unknown"
    BY <1>5 DEF Unresolved
  <2> HIDE DEF final
  <2>4. Unsettled(final) = {} BY <1>2, <2>3 DEF Unsettled
  <2>5. OnlySettles BY <1>2, <2>1, <2>4 DEF OnlySettles
  <2> QED BY <1>1, <1>2, <1>5, <2>1, <2>2, <2>3, <2>4, <2>5
<1> QED BY <1>3, <1>4, <1>5

\* The final control record of a run preserves the invariant.
LEMMA SettleInv ==
  ASSUME IInv, TypeOK', SettleResult, service = "up", UNCHANGED lifeVars
  PROVE  IInv'
<1> USE SettleSteps DEF IInv, lifeVars
<1>1. run.status \in Outcomes /\ "none" \notin Outcomes
  BY DEF TypeOK, ExecTypeOK, Outcomes
<1>2. CancelWins' BY DEF CancelWins
<1>3. FenceDecides' BY DEF FenceDecides, Fencing
<1>4. ResultDecides' BY DEF ResultDecides, Decided, FenceDecides, Fencing
<1>5. ResultOfRun' BY DEF ResultOfRun, Unwritten, Steps
<1>6. LockOwned' BY DEF LockOwned
<1>7. StopCallsServe' BY DEF StopCallsServe
<1>8. AckInOrder' BY DEF AckInOrder
<1>9. TerminalComplete'
  BY <1>1 DEF TerminalComplete, Owned, Steps, StopProven, ResultOfRun
<1>10. NothingBeforeStart' BY DEF NothingBeforeStart, Unstarted
<1>11. RecoveredUnstarted' BY DEF RecoveredUnstarted
<1>12. DownForgets' BY DEF DownForgets
<1> QED BY <1>2, <1>3, <1>4, <1>5, <1>6, <1>7, <1>8, <1>9, <1>10, <1>11, <1>12

\* What the dispatch of a cancellation changes.
LEMMA DispatchSteps ==
  ASSUME IInv, DispatchCancel
  PROVE  /\ UNCHANGED <<control, inputs, lock, run, pc, late, answering, requests, starts>>
         /\ stopCall = "committed" /\ ack = "none"
         /\ \/ UNCHANGED result /\ stopCall' = "none"
            \/ /\ pc = "idle" /\ control.attention = "recovered"
               /\ stopCall' = "result_written"
               /\ \/ UNCHANGED result /\ result.status = "cancelled"
                  \/ /\ result = NoResult
                     /\ result' = [status |-> "cancelled", stop |-> "not_started"]
<1>1. /\ UNCHANGED <<control, inputs, lock, run, pc, late, answering, requests, starts>>
      /\ stopCall = "committed"
  BY DEF DispatchCancel, controlVars, brokerVars
<1>2. CASE pc \notin {"idle", "retaining"}
  BY <1>1, <1>2 DEF DispatchCancel, IInv, AckInOrder
<1>3. CASE pc \in {"idle", "retaining"}
  <2>1. CASE RecoveredQueue /\ result = NoResult
               /\ control.settled \in {"none", "cancelled"}
    BY <1>1, <1>3, <2>1
       DEF DispatchCancel, RecoveredQueue, IInv, AckInOrder, RecoveredUnstarted
  <2>2. CASE ~(RecoveredQueue /\ result = NoResult
               /\ control.settled \in {"none", "cancelled"})
    <3>1. /\ UNCHANGED result
          /\ stopCall' = IF RecoveredQueue /\ result.status = "cancelled"
                         THEN "result_written" ELSE "none"
      BY <1>3, <2>2 DEF DispatchCancel
    <3> QED BY <1>1, <3>1 DEF RecoveredQueue, IInv, AckInOrder, RecoveredUnstarted
  <2> QED BY <2>1, <2>2
<1> QED BY <1>2, <1>3

\* The dispatch of a cancellation preserves the invariant.
LEMMA DispatchInv ==
  ASSUME IInv, TypeOK', DispatchCancel, service = "up", UNCHANGED lifeVars
  PROVE  IInv'
<1>1. /\ UNCHANGED <<control, inputs, lock, run, pc, late, answering, requests, starts>>
      /\ stopCall = "committed" /\ ack = "none"
      /\ \/ UNCHANGED result /\ stopCall' = "none"
         \/ /\ pc = "idle" /\ control.attention = "recovered"
            /\ stopCall' = "result_written"
            /\ \/ UNCHANGED result /\ result.status = "cancelled"
               \/ /\ result = NoResult
                  /\ result' = [status |-> "cancelled", stop |-> "not_started"]
  BY DispatchSteps
<1>2. NoResult.status = "none" BY DEF NoResult
<1>3. result'.status \in {result.status, "cancelled"}
  BY <1>1
<1>4. control.cancel
  BY <1>1 DEF IInv, StopCallsServe
<1> USE <1>1 DEF IInv, lifeVars
<1>5. CancelWins' BY <1>3 DEF CancelWins
<1>6. FenceDecides' BY DEF FenceDecides, Fencing
<1>7. ResultDecides' BY <1>4 DEF ResultDecides
<1>8. ResultOfRun' BY <1>2 DEF ResultOfRun, Unwritten, Steps
<1>9. LockOwned' BY DEF LockOwned
<1>10. StopCallsServe' BY <1>4 DEF StopCallsServe
<1>11. AckInOrder' BY DEF AckInOrder
<1>12. TerminalComplete' BY <1>2 DEF TerminalComplete, StopProven, TypeOK, ControlTypeOK, Control
<1>13. NothingBeforeStart' BY DEF NothingBeforeStart, RecoveredUnstarted
<1>14. RecoveredUnstarted' BY DEF RecoveredUnstarted
<1>15. DownForgets' BY DEF DownForgets
<1> QED BY <1>5, <1>6, <1>7, <1>8, <1>9, <1>10, <1>11, <1>12, <1>13, <1>14, <1>15

\* A task recovered from the queue has no input that could be unsettled.
LEMMA RecoveredSettled ==
  ASSUME IInv, starts = 0
  PROVE  Unsettled(inputs) = {}
BY DEF IInv, NothingBeforeStart, Unsettled

\* The settlement of a recovered task's cancellation preserves the invariant.
LEMMA SettleCancelInv ==
  ASSUME IInv, TypeOK', SettleRecoveredCancel, service = "up", UNCHANGED lifeVars
  PROVE  IInv'
<1>1. control \in Control BY DEF IInv, TypeOK, ControlTypeOK
<1>2. /\ stopCall = "result_written" /\ stopCall' = "none"
      /\ control' = [control EXCEPT !.phase = "terminal", !.outcome = "cancelled",
                                    !.attention = "none"]
      /\ UNCHANGED <<inputs, lock, run, pc, result, late, answering, requests, starts>>
  BY DEF SettleRecoveredCancel, brokerVars
<1>3. /\ control'.phase = "terminal" /\ control'.outcome = "cancelled"
      /\ control'.attention = "none"
      /\ control'.cancel = control.cancel /\ control'.settled = control.settled
  BY <1>1, <1>2 DEF Control
<1>4. /\ pc = "idle" /\ result.status = "cancelled" /\ result.stop = "not_started"
      /\ starts = 0
  BY <1>2 DEF IInv, StopCallsServe, RecoveredUnstarted
<1>5. Unsettled(inputs) = {} BY <1>4, RecoveredSettled
<1> USE <1>2, <1>3, <1>4, <1>5 DEF IInv, lifeVars
<1>6. CancelWins' BY DEF CancelWins
<1>7. FenceDecides' BY DEF FenceDecides, Fencing
<1>8. ResultDecides' BY DEF ResultDecides, Decided
<1>9. ResultOfRun' BY DEF ResultOfRun, Unwritten, Steps
<1>10. LockOwned' BY DEF LockOwned
<1>11. StopCallsServe' BY DEF StopCallsServe
<1>12. AckInOrder' BY DEF AckInOrder
<1>13. TerminalComplete' BY DEF TerminalComplete, StopProven, Owned
<1>14. NothingBeforeStart' BY DEF NothingBeforeStart, Unstarted
<1>15. RecoveredUnstarted' BY DEF RecoveredUnstarted
<1>16. DownForgets' BY DEF DownForgets
<1> QED BY <1>6, <1>7, <1>8, <1>9, <1>10, <1>11, <1>12, <1>13, <1>14, <1>15, <1>16

\* The operator's steps: an order is kept, and only the last but one closes.
LEMMA OperatorSteps ==
  ASSUME IInv, OperatorStep
  PROVE  /\ pc \in {"idle", "retaining"}
         /\ UNCHANGED <<pc, run, late, answering, requests, stopCall, starts, service>>
         /\ control'.cancel = control.cancel
         /\ control'.attention = control.attention
         /\ \/ /\ ack = "none" /\ ack' = "settled" /\ lock = "free" /\ lock' = "operator"
               /\ stopCall = "none" /\ result = NoResult
               /\ control'.settled # "none"
               /\ control'.phase = control.phase /\ control'.outcome = control.outcome
               /\ UNCHANGED <<inputs, result, reconciled>>
            \/ /\ ack = "none" /\ ack' = "result" /\ lock = "free" /\ lock' = "operator"
               /\ stopCall = "none" /\ result # NoResult
               /\ UNCHANGED <<control, inputs, result, reconciled>>
            \/ /\ ack = "settled" /\ ack' = "result"
               /\ result' = [status |-> "interrupted", stop |-> "unconfirmed"]
               /\ UNCHANGED <<control, inputs, lock, reconciled>>
            \/ /\ ack = "result" /\ ack' = "resource" /\ reconciled' = TRUE
               /\ UNCHANGED <<control, inputs, lock, result>>
            \/ /\ ack = "resource" /\ ack' = "safety"
               /\ control'.phase = "terminal" /\ control'.outcome = result.status
               /\ control'.settled = control.settled
               /\ Unsettled(inputs') = {}
               /\ \A i \in Inputs : inputs[i].state = "absent" => inputs'[i].state = "absent"
               /\ UNCHANGED <<lock, result, reconciled>>
            \/ /\ ack = "safety" /\ ack' = "none" /\ lock' = "free"
               /\ UNCHANGED <<control, inputs, result, reconciled>>
<1>1. /\ control \in Control /\ inputs \in [Inputs -> Input]
      /\ ack # "none" => pc \in {"idle", "retaining"}
  BY DEF IInv, TypeOK, ControlTypeOK, AckInOrder
<1>2. CASE AckBegin
  <2>1. /\ ack = "none" /\ lock = "free" /\ lock' = "operator" /\ stopCall = "none"
        /\ pc \in {"idle", "retaining"}
        /\ UNCHANGED <<inputs, result, pc, run, late, answering, requests, stopCall,
                       starts, service, reconciled>>
        /\ \/ /\ result = NoResult /\ ack' = "settled"
              /\ control' = [control EXCEPT !.settled = "interrupted"]
           \/ result # NoResult /\ ack' = "result" /\ UNCHANGED control
    BY <1>2 DEF AckBegin, brokerVars, execVars
  <2>2. CASE result # NoResult BY <2>1, <2>2
  <2>3. CASE result = NoResult
    <3>1. /\ control'.settled = "interrupted" /\ control'.phase = control.phase
          /\ control'.outcome = control.outcome /\ control'.cancel = control.cancel
          /\ control'.attention = control.attention
      BY <1>1, <2>1, <2>3 DEF Control
    <3> QED BY <2>1, <2>3, <3>1
  <2> QED BY <2>2, <2>3
<1>3. CASE AckResult BY <1>1, <1>3 DEF AckResult, controlVars, brokerVars
<1>4. CASE AckResource BY <1>1, <1>4 DEF AckResource, controlVars, brokerVars, execVars
<1>5. CASE AckTerminal
  <2>1. /\ ack = "resource" /\ ack' = "safety"
        /\ control' = [control EXCEPT !.phase = "terminal", !.outcome = result.status]
        /\ inputs' = [i \in Inputs |-> Withdrawn(inputs[i])]
        /\ UNCHANGED <<lock, result, pc, run, late, answering, requests, stopCall,
                       starts, service, reconciled>>
    BY <1>5 DEF AckTerminal, brokerVars, execVars
  <2>2. /\ control'.phase = "terminal" /\ control'.outcome = result.status
        /\ control'.settled = control.settled /\ control'.cancel = control.cancel
        /\ control'.attention = control.attention
    BY <1>1, <2>1 DEF Control
  <2>3. \A i \in Inputs : inputs'[i].state =
          IF inputs[i].state \in {"absent", "settled"} THEN inputs[i].state ELSE "withdrawn"
    BY <1>1, <2>1, WithdrawnState
  <2>4. Unsettled(inputs') = {} BY <2>3 DEF Unsettled
  <2> QED BY <1>1, <2>1, <2>2, <2>3, <2>4
<1>6. CASE AckSafety BY <1>1, <1>6 DEF AckSafety, brokerVars
<1> QED BY <1>2, <1>3, <1>4, <1>5, <1>6 DEF OperatorStep

\* The acknowledgement of an operator preserves the invariant.
LEMMA OperatorInv ==
  ASSUME IInv, TypeOK', OperatorStep, service = "up"
  PROVE  IInv'
<1>1. /\ NoResult.status = "none"
      /\ result = NoResult <=> result.status = "none"
      /\ [status |-> "interrupted", stop |-> "unconfirmed"].status = "interrupted"
  BY DEF NoResult, IInv, ResultOfRun
<1> USE OperatorSteps, <1>1 DEF IInv
<1>2. CancelWins' BY DEF CancelWins
<1>3. FenceDecides' BY DEF FenceDecides, Fencing
<1>4. ResultDecides' BY DEF ResultDecides, Decided, AckInOrder
<1>5. ResultOfRun' BY DEF ResultOfRun, Unwritten, Steps
<1>6. LockOwned' BY DEF LockOwned
<1>7. StopCallsServe' BY DEF StopCallsServe, AckInOrder
<1>8. AckInOrder' BY DEF AckInOrder
<1>9. TerminalComplete'
  BY DEF TerminalComplete, Owned, Steps, StopProven, AckInOrder
<1>10. NothingBeforeStart' BY DEF NothingBeforeStart, Unstarted
<1>11. RecoveredUnstarted' BY DEF RecoveredUnstarted
<1>12. DownForgets' BY DEF DownForgets
<1> QED BY <1>2, <1>3, <1>4, <1>5, <1>6, <1>7, <1>8, <1>9, <1>10, <1>11, <1>12

\* The death of the service preserves the invariant.
LEMMA CrashInv ==
  ASSUME IInv, TypeOK', Crash
  PROVE  IInv'
<1>1. /\ UNCHANGED <<control, inputs, result, starts, reconciled>>
      /\ pc' = "idle" /\ lock' = "free" /\ answering' = NoInput /\ ack' = "none"
      /\ stopCall' = "none"
      /\ \A i \in Inputs : requests'[i] = "closed"
  BY DEF Crash
<1> USE <1>1 DEF IInv
<1>2. CancelWins' BY DEF CancelWins
<1>3. FenceDecides' BY DEF FenceDecides, Fencing
<1>4. ResultDecides' BY DEF ResultDecides, Decided
<1>5. ResultOfRun' BY DEF ResultOfRun, Unwritten, Steps
<1>6. LockOwned' BY DEF LockOwned
<1>7. StopCallsServe' BY DEF StopCallsServe
<1>8. AckInOrder' BY DEF AckInOrder
<1>9. TerminalComplete' BY DEF TerminalComplete, Owned, StopProven
<1>10. NothingBeforeStart' BY DEF NothingBeforeStart, Unstarted
<1>11. RecoveredUnstarted' BY DEF RecoveredUnstarted
<1>12. DownForgets' BY DEF DownForgets
<1> QED BY <1>2, <1>3, <1>4, <1>5, <1>6, <1>7, <1>8, <1>9, <1>10, <1>11, <1>12

\* Reconciliation closes a task only with a proven result, and reopens none.
LEMMA RestartSteps ==
  ASSUME IInv, Restart
  PROVE  /\ pc = "idle" /\ service' = "up"
         /\ UNCHANGED <<lock, run, pc, result, late, answering, requests, stopCall, starts,
                        reconciled, ack>>
         /\ control'.cancel = control.cancel /\ control'.settled = control.settled
         /\ \A i \in Inputs : inputs[i].state = "absent" => inputs'[i].state = "absent"
         /\ \/ UNCHANGED <<control, inputs>>
            \/ /\ control'.phase = "terminal" /\ control'.outcome = result.status
               /\ result.status # "none" /\ StopProven /\ Unsettled(inputs') = {}
               /\ control'.attention = control.attention
            \/ /\ control.phase # "terminal" /\ control'.phase = "needs_attention"
               /\ control'.outcome = control.outcome
               /\ control'.attention = IF QueuedBefore THEN "recovered" ELSE "other"
<1>1. /\ control \in Control /\ inputs \in [Inputs -> Input]
      /\ pc = "idle" /\ service' = "up"
      /\ UNCHANGED <<lock, run, pc, result, late, answering, requests, stopCall, starts,
                     reconciled, ack>>
  BY DEF IInv, TypeOK, ControlTypeOK, DownForgets, Restart, brokerVars
<1>2. CASE KeepFrozen BY <1>1, <1>2 DEF KeepFrozen
<1>3. ASSUME NEW outcome, NEW finished \in BOOLEAN, FinishAs(outcome, finished),
             outcome = result.status, result.status # "none", StopProven
      PROVE  /\ control'.cancel = control.cancel /\ control'.settled = control.settled
             /\ \A i \in Inputs : inputs[i].state = "absent" => inputs'[i].state = "absent"
             /\ \/ UNCHANGED <<control, inputs>>
                \/ /\ control'.phase = "terminal" /\ control'.outcome = result.status
                   /\ Unsettled(inputs') = {}
                   /\ control'.attention = control.attention
  <2>1. CASE finished BY <1>3, <2>1 DEF FinishAs
  <2>2. CASE ~finished
    <3>1. /\ control' = [control EXCEPT !.phase = "terminal", !.outcome = outcome]
          /\ inputs' = [i \in Inputs |-> Withdrawn(inputs[i])]
      BY <1>3, <2>2 DEF FinishAs
    <3>2. /\ control'.phase = "terminal" /\ control'.outcome = outcome
          /\ control'.cancel = control.cancel /\ control'.settled = control.settled
          /\ control'.attention = control.attention
      BY <1>1, <3>1 DEF Control
    <3>3. \A i \in Inputs : inputs'[i].state =
            IF inputs[i].state \in {"absent", "settled"} THEN inputs[i].state ELSE "withdrawn"
      BY <1>1, <3>1, WithdrawnState
    <3>4. Unsettled(inputs') = {} BY <3>3 DEF Unsettled
    <3> QED BY <1>3, <3>2, <3>3, <3>4
  <2> QED BY <2>1, <2>2
<1>4. CASE AfterCancelledResult
           /\ FinishAs("cancelled", control.phase = "terminal" /\ control.outcome = "cancelled")
  <2>1. result.status = "cancelled" /\ StopProven
    BY <1>4 DEF AfterCancelledResult
  <2> QED BY <1>1, <1>3, <1>4, <2>1
<1>5. CASE AfterProvenResult /\ FinishAs(result.status, control.phase = "terminal")
  <2>1. result.status # "none" /\ StopProven
    BY <1>5 DEF AfterProvenResult
  <2> QED BY <1>1, <1>3, <1>5, <2>1
<1>6. CASE ~AfterProvenResult /\ LeaveUncertain
  <2>1. control.phase # "terminal"
    <3> SUFFICES ASSUME control.phase = "terminal" PROVE FALSE
      OBVIOUS
    <3>1. /\ result.status = control.outcome /\ control.outcome # "none"
          /\ Unsettled(inputs) = {} /\ StopProven
      BY DEF IInv, TerminalComplete
    <3>2. Uncertain = {} BY <3>1 DEF Uncertain, Unsettled
    <3> QED BY <1>6, <3>1, <3>2 DEF AfterProvenResult
  <2>2. PICK n : control' = [control EXCEPT !.phase = "needs_attention",
           !.attention = IF QueuedBefore THEN "recovered" ELSE "other", !.native = n]
    BY <1>6 DEF LeaveUncertain
  <2>3. /\ control'.phase = "needs_attention" /\ control'.outcome = control.outcome
        /\ control'.cancel = control.cancel /\ control'.settled = control.settled
        /\ control'.attention = IF QueuedBefore THEN "recovered" ELSE "other"
    BY <1>1, <2>2 DEF Control
  <2>4. \A i \in Inputs : inputs[i].state = "absent" => inputs'[i].state = "absent"
    BY <1>1, <1>6, AbandonedState DEF LeaveUncertain
  <2> QED BY <1>1, <2>1, <2>3, <2>4
<1> QED BY <1>2, <1>4, <1>5, <1>6 DEF Restart

\* Reconciliation preserves the invariant.
LEMMA RestartInv ==
  ASSUME IInv, TypeOK', Restart
  PROVE  IInv'
<1>1. ack = "none" /\ stopCall = "none" BY DEF IInv, DownForgets, Restart
<1>2. QueuedBefore => /\ starts = 0
                      /\ result.status = "cancelled" => result.stop = "not_started"
  BY DEF QueuedBefore, IInv, NothingBeforeStart, RecoveredUnstarted
<1> USE RestartSteps, <1>1 DEF IInv
<1>3. CancelWins' BY DEF CancelWins
<1>4. FenceDecides' BY DEF FenceDecides, Fencing
<1>5. ResultDecides' BY DEF ResultDecides, Decided
<1>6. ResultOfRun' BY DEF ResultOfRun, Unwritten, Steps
<1>7. LockOwned' BY DEF LockOwned
<1>8. StopCallsServe' BY DEF StopCallsServe
<1>9. AckInOrder' BY DEF AckInOrder
<1>10. TerminalComplete' BY DEF TerminalComplete, Owned, StopProven
<1>11. NothingBeforeStart' BY DEF NothingBeforeStart, Unstarted
<1>12. RecoveredUnstarted' BY <1>2 DEF RecoveredUnstarted
<1>13. DownForgets' BY DEF DownForgets
<1> QED BY <1>3, <1>4, <1>5, <1>6, <1>7, <1>8, <1>9, <1>10, <1>11, <1>12, <1>13

\* Every step of a task's life preserves the invariant.
LEMMA NextInv == IInv /\ [Next]_vars => IInv'
<1> SUFFICES ASSUME IInv, [Next]_vars PROVE IInv'
  OBVIOUS
<1>1. TypeOK' BY StepType DEF IInv
<1>2. CASE UNCHANGED vars
  BY <1>2 DEF vars, controlVars, brokerVars, execVars, lifeVars, IInv, TypeOK,
       ControlTypeOK, BrokerTypeOK, ExecTypeOK, CancelWins, FenceDecides, ResultDecides,
       Decided, ResultOfRun, LockOwned, StopCallsServe, AckInOrder, TerminalComplete,
       StopProven, NothingBeforeStart, RecoveredUnstarted, DownForgets
<1>3. ASSUME RunStep \/ DropQueued \/ WorkerReturns \/ WorkerThrows \/ FreezeElsewhere,
             service = "up", UNCHANGED lifeVars
      PROVE  IInv'
  <2>1. Calm \/ RetainQueued \/ RunWorker \/ Recheck \/ BeginResult \/ WriteResult
        \/ FailResult \/ SettleResult
    BY <1>3, CalmSteps DEF RunStep, IInv
  <2> QED BY <1>1, <1>3, <2>1, CalmInv, RetainInv, StartInv, FenceInv, WriteInv, SettleInv
<1>4. CASE Next
  BY <1>1, <1>3, <1>4, ClientInv, BrokerInv, WorkerInv, DispatchInv, SettleCancelInv,
     OperatorInv, CrashInv, RestartInv
     DEF Next, CancelStep
<1> QED BY <1>2, <1>4

\* The inductive invariant holds in every reachable state of a task's life.
THEOREM LifecycleInvariant == Spec => []IInv
BY InitInv, NextInv, PTL DEF Spec

-----------------------------------------------------------------------------
(* The properties *)

\* An accepted cancellation is never overtaken by the worker's own outcome.
THEOREM CancellationWins == Spec => []CancelWins
<1>1. IInv => CancelWins BY DEF IInv
<1> QED BY <1>1, LifecycleInvariant, PTL

\* A terminal task has its immutable result, with the same outcome.
THEOREM TerminalTasksHaveResults == Spec => []TerminalHasResult
<1>1. IInv => TerminalHasResult BY DEF IInv, TerminalComplete, TerminalHasResult
<1> QED BY <1>1, LifecycleInvariant, PTL

\* Every published control record satisfies the schema's cross-field rules.
THEOREM RecordsDecode == Spec => []RecordDecodes
<1>1. IInv => RecordDecodes
  BY DEF IInv, TerminalComplete, CancelWins, RecordDecodes
<1> QED BY <1>1, LifecycleInvariant, PTL

\* No worker is started twice, and recovered work was never started.
THEOREM NothingIsReplayed == Spec => []NeverReplayed
<1>1. IInv => NeverReplayed
  BY DEF IInv, NothingBeforeStart, RecoveredUnstarted, NeverReplayed
<1> QED BY <1>1, LifecycleInvariant, PTL

-----------------------------------------------------------------------------
(* The task's life implements TaskContract. *)

Terminal == control.phase = "terminal"

\* A step that leaves the promised state alone.
LEMMA ContractStutters ==
  ASSUME control'.cancel = control.cancel, result'.status = result.status,
         Terminal' = Terminal
  PROVE  UNCHANGED Contract!vars
BY DEF Contract!vars, Terminal

\* A task closes only when its result is there.
LEMMA ContractCloses ==
  ASSUME control'.cancel = control.cancel, result'.status = result.status,
         result.status # "none", Terminal'
  PROVE  Contract!Close
BY DEF Contract!Close, Terminal

\* A task just accepted starts the contract.
LEMMA InitContract == Init => Contract!Init
BY DEF Init, ControlInit, ExecInit, NoResult, Contract!Init

\* A step of the run publishes, closes, or leaves the promises alone.
LEMMA RunContract ==
  ASSUME IInv, IInv',
         RunStep \/ DropQueued \/ WorkerReturns \/ WorkerThrows \/ FreezeElsewhere
  PROVE  [Contract!Next]_Contract!vars
<1>1. CASE Calm
  <2>1. Terminal' = Terminal
    BY <1>1 DEF Calm, Terminal, IInv, TerminalComplete
  <2> QED BY <1>1, <2>1, ContractStutters DEF Calm
<1>2. CASE RetainQueued
  <2>1. control \in Control BY DEF IInv, TypeOK, ControlTypeOK
  <2>2. control'.cancel = control.cancel /\ result' = result
    BY <1>2, <2>1 DEF RetainQueued, Control
  <2>3. CASE control.outcome = "none"
    <3>1. control'.phase = "needs_attention"
      BY <1>2, <2>1, <2>3 DEF RetainQueued, Control
    <3>2. ~Terminal /\ ~Terminal'
      BY <2>3, <3>1 DEF Terminal, IInv, TerminalComplete
    <3> QED BY <2>2, <3>2, ContractStutters DEF Terminal
  <2>4. CASE control.outcome # "none"
    <3>1. control' = control BY <1>2, <2>4 DEF RetainQueued
    <3> QED BY <2>2, <3>1, ContractStutters DEF Terminal
  <2> QED BY <2>3, <2>4
<1>3. CASE RunWorker
  BY <1>3, ContractStutters DEF RunWorker, controlVars, Terminal
<1>4. CASE Recheck \/ BeginResult
  <2>1. TypeOK /\ TypeOK' BY DEF IInv
  <2>2. ~Terminal /\ ~Terminal'
    BY <1>4, <2>1, FenceSteps DEF Terminal, IInv, TerminalComplete, Owned, Steps
  <2>3. control'.cancel = control.cancel /\ result' = result
    BY <1>4, <2>1, FenceSteps
  <2> QED BY <2>2, <2>3, ContractStutters DEF Terminal
<1>5. CASE WriteResult \/ FailResult
  <2>1. /\ pc = "writing" /\ UNCHANGED control
        /\ result' = result \/ /\ result = NoResult
                               /\ result' = [status |-> run.status, stop |-> run.stop]
    BY <1>5, WriteSteps
  <2>2. CASE result' = result BY <2>1, <2>2, ContractStutters DEF Terminal
  <2>3. CASE result = NoResult /\ result' = [status |-> run.status, stop |-> run.stop]
    <3>1. result.status = "none" /\ result'.status = run.status
      BY <2>3 DEF NoResult
    <3>2. ~Terminal
      BY <2>1 DEF Terminal, IInv, TerminalComplete, Owned, Steps
    <3>3. run.status \in IF control.cancel THEN Contract!Stopped
                         ELSE Contract!Own \cup Contract!Stopped
      BY <2>1 DEF IInv, FenceDecides, Fencing, TypeOK, ExecTypeOK, Outcomes,
                  Contract!Stopped, Contract!Own
    <3>4. Contract!Publish
      BY <2>1, <3>1, <3>2, <3>3 DEF Contract!Publish, Terminal
    <3> QED BY <3>4 DEF Contract!Next
  <2> QED BY <2>1, <2>2, <2>3
<1>6. CASE SettleResult
  <2>1. /\ control'.cancel = control.cancel /\ result' = result
        /\ pc = "written"
        /\ control'.phase = "needs_attention" \/ control'.phase = "terminal"
    BY <1>6, SettleSteps
  <2>2. result.status # "none" /\ ~Terminal
    BY <2>1 DEF IInv, ResultOfRun, Terminal, TerminalComplete, Owned, Steps
  <2>3. CASE Terminal' BY <2>1, <2>2, <2>3, ContractCloses DEF Contract!Next
  <2>4. CASE ~Terminal' BY <2>1, <2>2, <2>4, ContractStutters DEF Terminal
  <2> QED BY <2>3, <2>4
<1> QED BY <1>1, <1>2, <1>3, <1>4, <1>5, <1>6, CalmSteps DEF RunStep, IInv

\* Every step of a task's life is a step of the contract or leaves it alone.
LEMMA ContractStep ==
  ASSUME IInv, IInv', [Next]_vars
  PROVE  [Contract!Next]_Contract!vars
<1>1. TypeOK /\ IInv BY DEF IInv
<1>2. CASE UNCHANGED vars
  BY <1>2, ContractStutters DEF vars, controlVars, execVars, Terminal
<1>3. CASE ClientStep
  <2>1. result' = result BY <1>1, <1>3, ClientSteps
  <2>2. CASE ~control.cancel /\ control'.cancel
    <3>1. /\ ~Decided /\ control'.phase = "stopping"
      BY <1>1, <1>3, <2>2, ClientSteps DEF SameDecision
    <3>2. result.status = "none" BY <2>2, <3>1 DEF IInv, ResultDecides
    <3>3. ~Terminal /\ ~Terminal' BY <3>1 DEF Decided, Terminal
    <3>4. control'.cancel = TRUE
      BY <2>2 DEF IInv, TypeOK, ControlTypeOK, Control
    <3>5. Contract!PromiseStop
      BY <2>1, <3>2, <3>3, <3>4 DEF Contract!PromiseStop, Terminal
    <3> QED BY <3>5 DEF Contract!Next
  <2>3. CASE ~(~control.cancel /\ control'.cancel)
    <3>1. control'.cancel = control.cancel
      BY <1>1, <1>3, <2>3, ClientSteps DEF SameDecision
    <3>2. Terminal' = Terminal
      BY <1>1, <1>3, <2>3, ClientSteps DEF Terminal, Decided
    <3> QED BY <2>1, <3>1, <3>2, ContractStutters
  <2> QED BY <2>2, <2>3
<1>4. CASE BrokerStep \/ WorkerAsks
  <2>1. /\ result' = result /\ control'.cancel = control.cancel
        /\ Terminal' = Terminal
    BY <1>1, <1>4, BrokerSteps DEF Terminal, SameDecision, IInv, TerminalComplete
  <2> QED BY <2>1, ContractStutters
<1>5. CASE WorkerReports
  <2>1. /\ result' = result /\ control'.cancel = control.cancel
        /\ Terminal' = Terminal
    BY <1>1, <1>5, WorkerSteps DEF Terminal, SameDecision, Decided
  <2> QED BY <2>1, ContractStutters
<1>6. CASE RunStep \/ DropQueued \/ WorkerReturns \/ WorkerThrows \/ FreezeElsewhere
  BY <1>6, RunContract
<1>7. CASE DispatchCancel
  <2>1. UNCHANGED control /\ control.cancel = TRUE
    BY <1>7, DispatchSteps
       DEF IInv, StopCallsServe, TypeOK, ControlTypeOK, Control
  <2>2. CASE result' = result BY <2>1, <2>2, ContractStutters DEF Terminal
  <2>3. CASE result' # result
    <3>1. /\ result = NoResult
          /\ result' = [status |-> "cancelled", stop |-> "not_started"]
      BY <1>7, <2>3, DispatchSteps
    <3>2. result.status = "none" /\ result'.status = "cancelled"
      BY <3>1 DEF NoResult
    <3>3. ~Terminal BY <3>2 DEF Terminal, IInv, TerminalComplete
    <3>4. Contract!Publish
      BY <2>1, <3>2, <3>3 DEF Contract!Publish, Contract!Stopped, Terminal
    <3> QED BY <3>4 DEF Contract!Next
  <2> QED BY <2>2, <2>3
<1>8. CASE SettleRecoveredCancel
  <2>1. control \in Control BY DEF IInv, TypeOK, ControlTypeOK
  <2>2. /\ result' = result /\ control'.cancel = control.cancel /\ Terminal'
    BY <1>8, <2>1 DEF SettleRecoveredCancel, Control, Terminal
  <2>3. result.status # "none"
    BY <1>8 DEF SettleRecoveredCancel, IInv, StopCallsServe
  <2> QED BY <2>2, <2>3, ContractCloses DEF Contract!Next
<1>9. CASE OperatorStep
  <2>1. control'.cancel = control.cancel BY <1>9, OperatorSteps
  <2>2. CASE AckResult
    <3>1. /\ ack = "settled" /\ UNCHANGED control
          /\ result' = [status |-> "interrupted", stop |-> "unconfirmed"]
      BY <2>2 DEF AckResult, controlVars
    <3>2. result.status = "none" /\ result'.status = "interrupted" /\ ~Terminal
      BY <3>1 DEF IInv, AckInOrder, TerminalComplete, Terminal
    <3>3. Contract!Publish
      BY <3>1, <3>2
         DEF Contract!Publish, Contract!Stopped, Contract!Own, Terminal
    <3> QED BY <3>3 DEF Contract!Next
  <2>3. CASE AckTerminal
    <3>1. /\ ack = "resource" /\ result' = result /\ Terminal'
      BY <1>9, <2>3, OperatorSteps DEF AckTerminal, execVars, Terminal
    <3>2. result.status # "none" BY <3>1 DEF IInv, AckInOrder
    <3> QED BY <2>1, <3>1, <3>2, ContractCloses DEF Contract!Next
  <2>4. CASE AckBegin \/ AckResource \/ AckSafety
    <3>1. result' = result /\ control'.phase = control.phase
      <4>1. control \in Control BY DEF IInv, TypeOK, ControlTypeOK
      <4>2. CASE AckBegin BY <4>1, <4>2 DEF AckBegin, execVars, Control
      <4>3. CASE AckResource \/ AckSafety
        BY <4>3 DEF AckResource, AckSafety, execVars, controlVars
      <4> QED BY <2>4, <4>2, <4>3
    <3> QED BY <2>1, <3>1, ContractStutters DEF Terminal
  <2> QED BY <1>9, <2>2, <2>3, <2>4 DEF OperatorStep
<1>10. CASE Crash BY <1>10, ContractStutters DEF Crash, Terminal
<1>11. CASE Restart
  <2>1. result' = result /\ control'.cancel = control.cancel
    BY <1>11, RestartSteps
  <2>2. CASE Terminal /\ Terminal' BY <2>1, <2>2, ContractStutters
  <2>3. CASE ~Terminal /\ Terminal'
    <3>1. result.status # "none" BY <1>11, <2>3, RestartSteps DEF Terminal
    <3> QED BY <2>1, <2>3, <3>1, ContractCloses DEF Contract!Next
  <2>4. CASE ~Terminal'
    <3>1. ~Terminal BY <1>11, <2>4, RestartSteps DEF Terminal
    <3> QED BY <2>1, <2>4, <3>1, ContractStutters DEF Terminal
  <2> QED BY <2>2, <2>3, <2>4
<1> QED BY <1>2, <1>3, <1>4, <1>5, <1>6, <1>7, <1>8, <1>9, <1>10, <1>11
        DEF Next, CancelStep

\* The whole life of a task, with its deaths, cancellations, recoveries and
\* acknowledgements, keeps the promises of TaskContract.
THEOREM LifeKeepsContract == Spec => KeepsContract
<1>1. Init => Contract!Init BY InitContract
<1>2. IInv /\ IInv' /\ [Next]_vars => [Contract!Next]_Contract!vars
  BY ContractStep
<1> QED BY <1>1, <1>2, LifecycleInvariant, PTL DEF Spec, KeepsContract, Contract!Spec
=============================================================================
