----------------------------- MODULE InputBroker -----------------------------
(***************************************************************************)
(* Native input requests, their presentation to clients and their answers  *)
(* (src/core/input-broker.ts), over the control record of TaskControl.     *)
(*                                                                         *)
(* A native waiter exists only in memory (#pending); the request, the      *)
(* claim of the client presenting it and the answer intent are durable.    *)
(***************************************************************************)
EXTENDS TaskControl

CONSTANTS
  MaxPending,     \* policy.max_pending_inputs
  NoInput         \* not an input: no answer holds the mutex

ASSUME BrokerConstants ==
  /\ MaxPending \in Nat
  /\ NoInput \notin Inputs

VARIABLES
  requests,       \* where each InputBroker.request call stands
  answering,      \* the answer whose intent is durable and not yet released
  undelivered,    \* answers that found no native waiter, still to be recorded
  released        \* history: how often each native waiter was given an answer

brokerVars == <<requests, answering, undelivered, released>>

\* "reserved" and "published" are the calls whose id is in #pending.
RequestStates == {"idle", "reserved", "published", "aborting", "closed"}

BrokerTypeOK ==
  /\ requests \in [Inputs -> RequestStates]
  /\ answering \in Inputs \cup {NoInput}
  /\ undelivered \in SUBSET Inputs
  /\ released \in [Inputs -> Nat]

\* A request raised before the first turn belongs to the run, never to a turn.
InCurrentTurn(i) == control.turn > 0 /\ inputs[i].turn = control.turn

Waiting == {i \in Inputs : requests[i] \in {"reserved", "published"}}

BrokerInit ==
  /\ requests = [i \in Inputs |-> "idle"]
  /\ answering = NoInput
  /\ undelivered = {}
  /\ released = [i \in Inputs |-> 0]

-----------------------------------------------------------------------------
(* The worker's side. *)

\* request: the native waiter is reserved before the request is published.
Reserve(i) ==
  /\ requests[i] = "idle"
  /\ Cardinality(Waiting) < MaxPending
  /\ requests' = [requests EXCEPT ![i] = "reserved"]
  /\ UNCHANGED <<answering, undelivered, released, controlVars>>

Publish(i) ==
  /\ requests[i] = "reserved"
  /\ \E attention \in BOOLEAN : PublishRequest(i, attention)
  /\ requests' = [requests EXCEPT ![i] = "published"]
  /\ UNCHANGED <<answering, undelivered, released>>

\* requestInput throws: nothing was published and the waiter is dropped.
PublishRefused(i) ==
  /\ requests[i] = "reserved"
  /\ lock = "free"
  /\ control.cancel \/ control.phase \in {"terminal", "finalizing"}
  /\ requests' = [requests EXCEPT ![i] = "closed"]
  /\ UNCHANGED <<answering, undelivered, released, controlVars>>

\* The request's signal aborts: #pending forgets the waiter at once, even while
\* an answer's intent is being written, and the withdrawal is a later change.
AbortRequest(i) ==
  /\ requests[i] = "published"
  /\ requests' = [requests EXCEPT ![i] = "aborting"]
  /\ UNCHANGED <<answering, undelivered, released, controlVars>>

WithdrawAborted(i) ==
  /\ requests[i] = "aborting"
  /\ lock = "free"
  /\ requests' = [requests EXCEPT ![i] = "closed"]
  /\ inputs' = IF inputs[i].state = "pending"
               THEN [inputs EXCEPT ![i] = [Unclaimed(@) EXCEPT !.state = "withdrawn"]]
               ELSE inputs
  /\ UNCHANGED <<answering, undelivered, released, control, receipts, lock>>

\* withdraw: the native runtime takes its own request back.
NativeWithdraw(i) ==
  /\ lock = "free"
  /\ inputs[i].state = "pending"
  /\ InCurrentTurn(i)
  /\ inputs' = [inputs EXCEPT ![i] = [Unclaimed(@) EXCEPT !.state = "withdrawn"]]
  /\ requests' = [requests EXCEPT ![i] = "closed"]
  /\ UNCHANGED <<answering, undelivered, released, control, receipts, lock>>

\* settleTurn: the end of a turn accounts for the answers given in it.
SettleAnswers(t) ==
  /\ lock = "free"
  /\ inputs' = [i \in Inputs |->
       IF inputs[i].turn = t /\ inputs[i].state = "answer_intent"
       THEN [inputs[i] EXCEPT !.state = "settled"] ELSE inputs[i]]
  /\ UNCHANGED <<control, receipts, lock, brokerVars>>

-----------------------------------------------------------------------------
(* The clients' side. *)

\* The input can still be presented or answered by client c.
Presentable(c, i) ==
  /\ lock = "free"
  /\ OwnerOf[c] = control.owner
  /\ inputs[i].state = "pending"
  /\ ~control.cancel
  /\ ~Decided
  /\ control.phase # "finalizing"
  /\ i \in Waiting

Claim(c, i) ==
  /\ Presentable(c, i)
  /\ inputs[i].claim = NoClient
  /\ inputs' = [inputs EXCEPT ![i] =
       [@ EXCEPT !.claim = c, !.claimGeneration = control.generation]]
  /\ UNCHANGED <<control, receipts, lock, brokerVars>>

Dismiss(c, i) ==
  /\ lock = "free"
  /\ inputs[i].claim = c
  /\ inputs' = [inputs EXCEPT ![i] = Unclaimed(@)]
  /\ UNCHANGED <<control, receipts, lock, brokerVars>>

\* Mutant: the waiter is released before the intent is published.
AnswerUnrecorded(c, i, k) ==
  /\ Presentable(c, i)
  /\ inputs[i].claim = c
  /\ InCurrentTurn(i)
  /\ FreshReceipt(c, k, 1)
  /\ lock' = "answer"
  /\ answering' = i
  /\ UNCHANGED <<control, inputs, receipts, requests, undelivered, released>>

\* answer: intent and receipt are durable before the native waiter is released.
\* The mutex is still held: nothing else can read the record in between.
Answer(c, i, k) ==
  /\ Presentable(c, i)
  /\ inputs[i].claim = c
  /\ InCurrentTurn(i)
  /\ FreshReceipt(c, k, 1)
  /\ receipts' = [receipts EXCEPT ![k] = "answer_intent"]
  /\ inputs' = [inputs EXCEPT ![i] = [Unclaimed(@) EXCEPT !.state = "answer_intent"]]
  /\ control' = [control EXCEPT !.phase =
       IF \E j \in Inputs \ {i} : inputs[j].state = "pending" THEN @ ELSE "active"]
  /\ lock' = "answer"
  /\ answering' = i
  /\ UNCHANGED <<requests, undelivered, released>>

\* The waiter is resolved, or had gone while the intent was being written.
Release ==
  /\ answering # NoInput
  /\ IF answering \in Waiting
     THEN /\ released' = [released EXCEPT ![answering] = @ + 1]
          /\ requests' = [requests EXCEPT ![answering] = "closed"]
          /\ UNCHANGED undelivered
     ELSE /\ undelivered' = undelivered \cup {answering}
          /\ UNCHANGED <<released, requests>>
  /\ answering' = NoInput
  /\ lock' = "free"
  /\ UNCHANGED <<control, inputs, receipts>>

\* The undelivered answer is recorded, whatever the phase is by then.  The
\* schema refuses a needs_attention record that still has an outcome.
RecordUndelivered(i) ==
  /\ i \in undelivered
  /\ lock = "free"
  /\ undelivered' = undelivered \ {i}
  /\ IF control.outcome = "none"
     THEN /\ control' = [control EXCEPT !.phase = "needs_attention"]
          /\ inputs' = IF inputs[i].state = "answer_intent"
                       THEN [inputs EXCEPT ![i] = [@ EXCEPT !.state = "delivery_unknown"]]
                       ELSE inputs
     ELSE UNCHANGED <<control, inputs>>
  /\ UNCHANGED <<receipts, lock, requests, answering, released>>
=============================================================================
