----------------------------- MODULE TaskControl -----------------------------
(***************************************************************************)
(* The durable control record of one accepted task and the operations a    *)
(* client performs on it (src/core/task-control.ts).                       *)
(*                                                                         *)
(* TaskControls.change reads the record, edits a copy and publishes it by  *)
(* an atomic rename, all under the task's keyed mutex, so every operation  *)
(* below is one step that needs the mutex (`lock' is "free").  The three   *)
(* holders that keep it across an await that matters are named in `lock':  *)
(* an answer between its durable intent and the release of the native      *)
(* waiter, the publication of the immutable result, and an operator's      *)
(* reconciliation.                                                         *)
(*                                                                         *)
(* The record is the one of an ordinary task: no peer deliveries, no       *)
(* private Git view, no coordinated link.                                  *)
(***************************************************************************)
EXTENDS Naturals, FiniteSets

CONSTANTS
  Clients,        \* the connected front ends
  OwnerOf,        \* the owner credential each client acts under
  FirstOwner,     \* the owner whose submission created the task
  Keys,           \* the operation keys clients may use
  Inputs,         \* the native input requests the worker may raise
  Operations,     \* the native operations the worker may start
  MaxReceipts,    \* policy.max_control_receipts
  NoClient        \* not a client: the claim of an unclaimed input

ASSUME TaskConstants ==
  /\ OwnerOf \in [Clients -> {OwnerOf[c] : c \in Clients}]
  /\ NoClient \notin Clients
  /\ MaxReceipts \in Nat \ {0}
  /\ IsFiniteSet(Keys)

Owners == {FirstOwner} \cup {OwnerOf[c] : c \in Clients}

VARIABLES
  control,        \* TaskControl, except its inputs and receipts
  inputs,         \* TaskControl.inputs
  receipts,       \* TaskControl.receipts: what each operation key was used for
  lock            \* who keeps the task's mutex across steps

controlVars == <<control, inputs, receipts, lock>>

Phases == {"queued", "starting", "active", "awaiting_input", "needs_attention",
           "stopping", "finalizing", "terminal"}
Outcomes == {"completed", "blocked", "failed", "cancelled", "interrupted"}
NativeStates == {"not_started", "observed_live", "stopped", "unknown"}
InputStates == {"absent", "pending", "answer_intent", "delivery_unknown",
                "settled", "withdrawn"}
ReceiptKinds == {"accepted", "already_terminal", "adopted", "answer_intent"}
\* "late": the limitation of a native event after durable completion admission.
Limitations == {"none", "late", "unknown"}
\* "recovered": Recovered queued work; "conflict": the prefixes that
\* reconcileStoredTasks matches; "other": every other attention text.
Attentions == {"none", "recovered", "conflict", "other"}

Control == [phase : Phases, outcome : Outcomes \cup {"none"},
            settled : Outcomes \cup {"none"}, cancel : BOOLEAN,
            owner : Owners, generation : Nat \ {0}, native : NativeStates,
            coverage : {"unknown", "turn_scoped"}, turn : Nat,
            obligations : SUBSET Operations, limitation : Limitations,
            attention : Attentions]
Input == [state : InputStates, claim : Clients \cup {NoClient},
          claimGeneration : Nat, turn : Nat]

ControlTypeOK ==
  /\ control \in Control
  /\ inputs \in [Inputs -> Input]
  /\ receipts \in [Keys -> ReceiptKinds \cup {"unused"}]
  /\ lock \in {"free", "answer", "result", "operator"}

-----------------------------------------------------------------------------
(* Helpers on the record. *)

Used == {k \in Keys : receipts[k] # "unused"}

\* The inputs that still owe a settled observation.
Unsettled(ins) ==
  {i \in Inputs : ins[i].state \in {"pending", "answer_intent", "delivery_unknown"}}

\* Completion needs turn-scoped coverage and nothing outstanding.
EvidenceComplete ==
  /\ control.coverage = "turn_scoped"
  /\ control.obligations = {}
  /\ Unsettled(inputs) = {}

\* Mutant: a settled outcome is not a decision until it is published.
DecidedOnlyAtTheEnd == control.phase = "terminal"

Decided == control.phase = "terminal" \/ control.settled # "none"

Unclaimed(in) == [in EXCEPT !.claim = NoClient]

\* Mutant: the claim goes, the obligation stays.
AbandonedClaimOnly(in) == Unclaimed(in)

\* The state an interruption or the end of the run leaves an input in.
Abandoned(in) ==
  [Unclaimed(in) EXCEPT !.state =
     CASE in.state = "pending" -> "withdrawn"
       [] in.state = "answer_intent" -> "delivery_unknown"
       [] OTHER -> in.state]

\* What a proven stop leaves of an input: only settled ones keep their state.
\* Inputs the worker never raised are not in the record.
Withdrawn(in) ==
  [Unclaimed(in) EXCEPT !.state =
     IF in.state \in {"absent", "settled"} THEN in.state ELSE "withdrawn"]

NewInput == [state |-> "absent", claim |-> NoClient, claimGeneration |-> 0, turn |-> 0]

ControlInit ==
  /\ control = [phase |-> "queued", outcome |-> "none", settled |-> "none",
                cancel |-> FALSE, owner |-> FirstOwner, generation |-> 1,
                native |-> "not_started", coverage |-> "unknown", turn |-> 0,
                obligations |-> {}, limitation |-> "none", attention |-> "none"]
  /\ inputs = [i \in Inputs |-> NewInput]
  /\ receipts = [k \in Keys |-> "unused"]
  /\ lock = "free"

-----------------------------------------------------------------------------
(* Operations. *)

\* Mutant: every receipt may take the last slot.
FreshReceiptUnreserved(c, k, reserve) ==
  /\ lock = "free"
  /\ OwnerOf[c] = control.owner
  /\ receipts[k] = "unused"
  /\ Cardinality(Used) < MaxReceipts

\* An authorized first use of an operation key; a repeated one is answered from
\* its receipt, or refused, and changes nothing.  One slot is kept for cancel.
FreshReceipt(c, k, reserve) ==
  /\ lock = "free"
  /\ OwnerOf[c] = control.owner
  /\ receipts[k] = "unused"
  /\ Cardinality(Used) < MaxReceipts - reserve

\* Mutant: the refusal is recorded although nothing was decided.
CancelTooEarly(c, k) ==
  /\ FreshReceipt(c, k, 0)
  /\ ~control.cancel
  /\ receipts' = [receipts EXCEPT ![k] = "already_terminal"]
  /\ UNCHANGED <<control, inputs, lock>>

\* cancel: a decided task only records that it was too late.
CancelTooLate(c, k) ==
  /\ FreshReceipt(c, k, 0)
  /\ ~control.cancel
  /\ Decided
  /\ receipts' = [receipts EXCEPT ![k] = "already_terminal"]
  /\ UNCHANGED <<control, inputs, lock>>

\* cancel: the stop intent, its receipt and the withdrawal of every
\* presentation and pending input are one publication.
CancelAccepted(c, k) ==
  /\ FreshReceipt(c, k, 0)
  /\ ~control.cancel
  /\ ~Decided
  /\ receipts' = [receipts EXCEPT ![k] = "accepted"]
  /\ control' = [control EXCEPT !.cancel = TRUE, !.phase = "stopping"]
  /\ inputs' = [i \in Inputs |->
       [Unclaimed(inputs[i]) EXCEPT !.state =
          IF inputs[i].state = "pending" THEN "withdrawn" ELSE inputs[i].state]]
  /\ UNCHANGED lock

\* Mutant: the adopter's connection is recorded where its owner belongs.
AdoptByConnection(c, k) ==
  /\ lock = "free"
  /\ receipts[k] = "unused"
  /\ Cardinality(Used) < MaxReceipts - 1
  /\ control' = [control EXCEPT !.owner = c, !.generation = @ + 1]
  /\ inputs' = [i \in Inputs |-> Unclaimed(inputs[i])]
  /\ receipts' = [receipts EXCEPT ![k] = "adopted"]
  /\ UNCHANGED lock

\* Mutant: the claims of the old generation stay.
AdoptKeepingClaims(c, k) ==
  /\ lock = "free"
  /\ receipts[k] = "unused"
  /\ Cardinality(Used) < MaxReceipts - 1
  /\ control' = [control EXCEPT !.owner = OwnerOf[c], !.generation = @ + 1]
  /\ receipts' = [receipts EXCEPT ![k] = "adopted"]
  /\ UNCHANGED <<inputs, lock>>

\* adopt: any client may take the task; claims of the old generation go.
Adopt(c, k) ==
  /\ lock = "free"
  /\ receipts[k] = "unused"
  /\ Cardinality(Used) < MaxReceipts - 1
  /\ control' = [control EXCEPT !.owner = OwnerOf[c], !.generation = @ + 1]
  /\ inputs' = [i \in Inputs |-> Unclaimed(inputs[i])]
  /\ receipts' = [receipts EXCEPT ![k] = "adopted"]
  /\ UNCHANGED lock

\* releaseClient: a closed connection gives up its presentations.
ReleaseClient(c) ==
  /\ lock = "free"
  /\ \E i \in Inputs : inputs[i].claim = c
  /\ inputs' = [i \in Inputs |->
       IF inputs[i].claim = c THEN Unclaimed(inputs[i]) ELSE inputs[i]]
  /\ UNCHANGED <<control, receipts, lock>>

\* requestInput: refused once the task is stopping or finalizing.
PublishRequest(i, attention) ==
  /\ lock = "free"
  /\ ~control.cancel
  /\ control.phase \notin {"terminal", "finalizing"}
  /\ inputs' = [inputs EXCEPT ![i] = [NewInput EXCEPT !.state = "pending",
                                                      !.turn = control.turn]]
  /\ control' = [control EXCEPT !.phase =
       IF attention THEN "needs_attention" ELSE "awaiting_input"]
  /\ UNCHANGED <<receipts, lock>>

\* admitCompletion: the durable fence that decides the outcome of a run whose
\* worker asked for `requested'.
AdmittedOutcome(requested, seenGeneration) ==
  IF control.settled # "none" THEN control.settled
  ELSE IF control.cancel THEN "cancelled"
  ELSE IF requested = "completed" /\ ~EvidenceComplete THEN "failed"
  ELSE IF requested = "completed" /\ control.generation # seenGeneration
       THEN "interrupted"
  ELSE requested

AdmitCompletion(requested, seenGeneration) ==
  /\ lock = "free"
  /\ control' = IF control.settled # "none" THEN control
                ELSE [control EXCEPT !.phase = "finalizing",
                        !.settled = AdmittedOutcome(requested, seenGeneration)]
  /\ UNCHANGED <<inputs, receipts, lock>>
=============================================================================
