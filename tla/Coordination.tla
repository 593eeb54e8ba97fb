------------------------------- MODULE Coordination -------------------------------
(***************************************************************************)
(* The coordination control record of one repository service               *)
(* (coordination/control.ts over store/coordination-store.ts): managed     *)
(* works, reconciliation cases that select them, worker proposals with     *)
(* their acknowledgments, and the application of an agreed proposal to a   *)
(* worker's files (core/repository-runtime.ts, coordination/               *)
(* peer-application.ts).                                                   *)
(*                                                                         *)
(* Every metadata transition runs under one mutex and appends one receipt, *)
(* so it is one action.  What interleaves is what the code does outside    *)
(* that mutex: Git inspection of a selection, the authority checks and the *)
(* file effect of an application, the Git effect of a retirement, and the  *)
(* task mutation of an adoption or a cancellation.                         *)
(*                                                                         *)
(* A work is the enrollment of one task and stands for both.  All cases    *)
(* claim one target.  Sharing of a work is only its "readers" flag, which  *)
(* moves its revision and the release slots: every member is taken to see  *)
(* every work.  A case's generation, which fences the commands of an       *)
(* earlier lead, is left out: a lead command is the present lead's.        *)
(***************************************************************************)
EXTENDS Integers, FiniteSets

CONSTANTS Works,         \* managed works, one per task
          Cases,         \* case identities
          Notes,         \* note identities for worker proposals
          Keys,          \* operation keys of worker applications
          MaxReceipts,   \* limits.receipts
          MaxTroubles,   \* service deaths, publications not acknowledged, tasks put
                         \* up for retirement and moves of the transition epoch, in all
          Earlier,       \* receipts spent before, where no case is claimed yet
          Started,       \* cases that may be claimed already, with every work selected
          Selecting,     \* cases whose inputs a source command may select
          Agreed,        \* proposals already made in it, and acknowledged by all
          None

ASSUME CoordinationConstants ==
  /\ IsFiniteSet(Works) /\ IsFiniteSet(Cases) /\ IsFiniteSet(Notes) /\ IsFiniteSet(Keys)
  /\ MaxReceipts \in Nat /\ MaxTroubles \in Nat /\ Earlier \in Nat
  /\ None \notin Notes /\ None \notin Cases
  /\ Started \subseteq Cases /\ Selecting \subseteq Cases /\ Agreed \subseteq Notes

VARIABLES
  ledger,     \* the control record: rev, works, cases, notes, apps
  uncertain,  \* CoordinationStore.#uncertain
  reserved,   \* #applicationCases
  retiring,   \* #retirements with the state of the retirement that owns it
  version,    \* #resourceVersions
  changing,   \* #transitionTasks with the cases each transition affects
  epoch,      \* #transitionEpoch
  source,     \* the suspended source command, or Idle
  app,        \* per key, the worker application under way
  intent,     \* per key, the task store's peer operation record
  live,       \* tasks whose control is active with its enrolled owner and generation
  disposed,   \* tasks whose worktree a retirement has removed
  attempts,   \* per key, times its changes were published to the files
  crashes, faults

vars == <<ledger, uncertain, reserved, retiring, version, changing, epoch, source,
          app, intent, live, disposed, attempts, crashes, faults>>
fileVars == <<intent, attempts>>
runtimeVars == <<reserved, retiring, version, changing, epoch, source, app>>
worldVars == <<live, disposed, crashes>>

Statuses == {"applied", "rejected", "effect_unknown"}
States == {"none", "active", "closed"}
Work == [state : States, rev : Nat, readers : BOOLEAN]
Case == [state : States, rev : Nat, effect : BOOLEAN, elected : BOOLEAN, inputs : SUBSET Works]
Note == [case : Cases, rev : Nat, sources : [Works -> Nat], parties : SUBSET Works,
         by : Works, pred : Notes \cup {None}, acks : SUBSET Works, withdrawn : BOOLEAN]
ASSUME NoneIsNoNote == None \notin Note
NoApp == [note |-> None, case |-> None, outcome |-> "none"]
NoIntent == [state |-> "none", note |-> None, status |-> "none"]
Intent == [state : {"none", "started", "settled", "unavailable"},
           note : Notes \cup {None}, status : Statuses \cup {"none"}]
App == [note : Notes \cup {None}, case : Cases \cup {None}, outcome : Statuses \cup {"none"}]
Ledger == [rev : Nat, works : [Works -> Work], cases : [Cases -> Case],
           notes : [Notes -> Note \cup {None}], apps : [Keys -> App]]

NoCase == [state |-> "none", rev |-> 0, effect |-> FALSE, elected |-> FALSE, inputs |-> {}]
Idle == [pc |-> "idle"]
Source == [pc : {"prepared", "inspected"}, kind : {"select", "integrate"}, case : Cases,
           rev : Nat, inputs : SUBSET Works, versions : [Works -> Nat]]
Application == [pc : {"captured", "checked", "admitted", "started", "guarded", "landed", "settled"},
                task : Works, note : Notes, case : Cases, parties : SUBSET Works,
                rev : Nat, epoch : Nat,
                status : Statuses \cup {"none"}]

----------------------------------------------------------------------------
(* Reading the record.                                                     *)

works == ledger.works
cases == ledger.cases
notes == ledger.notes

Active(c) == cases[c].state = "active"
SelectedBy(w) == {c \in Cases : Active(c) /\ w \in cases[c].inputs}
Occupied(k) == ledger.apps[k].note # None

\* Mutant: an external integration keeps no slot for its settlement.
ReleaseSlotsOpen(l) ==
  Cardinality({w \in Works : l.works[w].state = "active"})
  + Cardinality({w \in Works : l.works[w].readers})
  + Cardinality({c \in Cases : l.cases[c].state = "active"})
  + Cardinality({n \in Notes : l.notes[n] # None /\ ~l.notes[n].withdrawn})

\* releaseSlotsRequired: one receipt kept back for every close, revocation,
\* settlement and withdrawal still to come
ReleaseSlots(l) ==
  LET held == {w \in Works : l.works[w].state = "active"}
      shared == {w \in Works : l.works[w].readers}
      open == {c \in Cases : l.cases[c].state = "active"}
      risky == {c \in Cases : l.cases[c].effect}
      standing == {n \in Notes : l.notes[n] # None /\ ~l.notes[n].withdrawn}
  IN  Cardinality(held) + Cardinality(shared) + Cardinality(open)
      + Cardinality(risky) + Cardinality(standing)

\* checkCapacity on the candidate
Fits(l) == l.rev + ReleaseSlots(l) <= MaxReceipts

\* workerPeerParties and the sources of a proposal against the current works
SourcesCurrent(m) ==
  /\ m.parties = cases[m.case].inputs
  /\ \A w \in m.parties : works[w].state = "active" /\ works[w].rev = m.sources[w]

Acknowledged(m) == m.parties \subseteq m.acks

\* peerProposalSuperseded: an acknowledged counter-proposal replaces this one
Superseded(n) == \E q \in Notes :
  /\ notes[q] # None /\ notes[q].pred = n /\ ~notes[q].withdrawn
  /\ Acknowledged(notes[q])

\* peerRecordCurrent for a proposal (the lineage is one counter deep)
RecordCurrent(n) ==
  LET m == notes[n] IN
  /\ m # None /\ ~m.withdrawn /\ Active(m.case) /\ cases[m.case].rev = m.rev
  /\ SourcesCurrent(m) /\ ~Superseded(n)
  /\ m.pred # None => notes[m.pred] # None /\ ~notes[m.pred].withdrawn

\* #assertCaseTransition
CaseStill(c) ==
  /\ c \notin reserved
  /\ \A w \in Works : changing[w] # None => c \notin changing[w] /\ w \notin cases[c].inputs

\* workerPeerCase and #assertWorkerTransition for task t
WorkerMay(t, c) ==
  /\ Active(c) /\ t \in cases[c].inputs
  /\ \A w \in cases[c].inputs : works[w].state = "active"
  /\ CaseStill(c)

----------------------------------------------------------------------------
(* Publishing.  store.publish replaces the record atomically; when the     *)
(* replacement is not acknowledged it may have landed, and the store takes *)
(* no further mutation until it is reopened.                               *)

\* the bound on what goes wrong or interferes; deaths start the other counts anew
Calm ==
  LET retired == IF \E w \in Works : version[w] # 0 THEN 1 ELSE 0
  IN  crashes + faults + epoch + retired < MaxTroubles

Mutable == ~uncertain

Publish(next) ==
  /\ Fits(next)
  /\ ledger' = next /\ UNCHANGED <<uncertain, faults>>

PublishUncertain(next) ==
  /\ Fits(next) /\ Calm /\ faults' = faults + 1
  /\ uncertain' = TRUE /\ ledger' \in {ledger, next}

\* one receipt and one revision per transition
Stamp(l) == [l EXCEPT !.rev = @ + 1]
WithWork(w, r) == Stamp([ledger EXCEPT !.works[w] = r])
WithCase(c, r) == Stamp([ledger EXCEPT !.cases[c] = r])
WithNote(n, r) == Stamp([ledger EXCEPT !.notes[n] = r])

Metadata(next) ==
  /\ Mutable
  /\ Publish(next) \/ PublishUncertain(next)
  /\ UNCHANGED <<runtimeVars, worldVars, fileVars>>

----------------------------------------------------------------------------
(* Commands that need no inspection (#executeCommand and apply).           *)

\* register_task_work: the task is not being retired and its work is new
Register(w) ==
  /\ works[w].state = "none" /\ retiring[w] = "no" /\ w \notin disposed /\ live[w]
  /\ Metadata(WithWork(w, [state |-> "active", rev |-> 1, readers |-> FALSE]))

\* share_work: a new revision, which every retained proposal is checked against
Share(w, readers) ==
  /\ works[w].state # "none" /\ SelectedBy(w) \cap reserved = {}
  /\ Metadata(WithWork(w, [works[w] EXCEPT !.rev = @ + 1, !.readers = readers]))

\* close_work
CloseWork(w) ==
  /\ works[w].state = "active" /\ SelectedBy(w) \cap reserved = {}
  /\ Metadata(WithWork(w, [works[w] EXCEPT !.rev = @ + 1, !.state = "closed"]))

\* claim_target, public or by the elected observer
Claim(c, elected) ==
  /\ cases[c].state = "none" /\ \A d \in Cases : ~Active(d)
  /\ Metadata(WithCase(c, [NoCase EXCEPT !.state = "active", !.rev = 1, !.elected = elected]))

\* the retained application effects an ordinary release waits for
Unsettled(c) == {k \in Keys : /\ ledger.apps[k].case = c
                              /\ ledger.apps[k].outcome \notin {"applied", "rejected"}}

\* Mutant: the lead is not told that an application holds the case.
LeadCommandUnfenced(c, next) ==
  /\ Active(c)
  /\ Metadata(WithCase(c, [next EXCEPT !.rev = @ + 1]))

\* transfer_case, record_external_settlement and release_case by the lead
LeadCommand(c, next) ==
  /\ Active(c) /\ c \notin reserved
  /\ Metadata(WithCase(c, [next EXCEPT !.rev = @ + 1]))

Transfer(c) == ~cases[c].effect /\ LeadCommand(c, cases[c])
SettleExternal(c) ==
  cases[c].effect /\ LeadCommand(c, [cases[c] EXCEPT !.effect = FALSE])
ReleaseCase(c) ==
  ~cases[c].effect /\ Unsettled(c) = {} /\ LeadCommand(c, [cases[c] EXCEPT !.state = "closed"])

\* extendObservedCase: the runtime has reserved every task of the case
Extend(c, w) ==
  /\ cases[c].elected /\ cases[c].inputs # {} /\ ~cases[c].effect
  /\ works[w].state = "active" /\ w \notin cases[c].inputs /\ w \notin disposed
  /\ \A k \in Keys : ledger.apps[k].case # c
  /\ \A v \in cases[c].inputs \cup {w} :
       works[v].state = "active" /\ changing[v] = None /\ retiring[v] = "no"
  /\ \A v \in Works : changing[v] # None => c \notin changing[v]
  /\ LeadCommand(c, [cases[c] EXCEPT !.inputs = @ \cup {w}])

\* recoverAuthorized: not while a case is reserved.  The operator's settle_case and
\* adopt_case are the transitions of SettleExternal and Transfer
OperatorRelease(c) ==
  ~cases[c].effect /\ LeadCommand(c, [cases[c] EXCEPT !.state = "closed"])
OperatorAdopt(w) ==
  /\ works[w].state = "active" /\ SelectedBy(w) \cap reserved = {}
  /\ Metadata(WithWork(w, [works[w] EXCEPT !.rev = @ + 1]))

Command ==
  \/ \E w \in Works : Register(w) \/ CloseWork(w) \/ \E r \in BOOLEAN : Share(w, r)
  \/ \E w \in Works : OperatorAdopt(w)
  \/ \E c \in Cases :
       \/ \E e \in BOOLEAN : Claim(c, e)
       \/ Transfer(c) \/ SettleExternal(c) \/ ReleaseCase(c) \/ OperatorRelease(c)
       \/ \E w \in Works : Extend(c, w)

----------------------------------------------------------------------------
(* Source commands: what is selected is captured under the mutex with the  *)
(* retirement versions, inspected in Git outside it, and executed under it *)
(* again (prepareSourceCommand, bound-control, #executeCommand).           *)

\* an elected case is selected once, by its own claim; "integrate" keeps the inputs
PrepareSource(c, kind, inputs) ==
  /\ source = Idle /\ Active(c) /\ ~cases[c].effect /\ inputs # {}
  /\ kind = "select" => c \in Selecting
  /\ IF kind = "select" THEN cases[c].elected => cases[c].inputs = {}
                        ELSE inputs = cases[c].inputs
  /\ \A w \in inputs : works[w].state # "none" /\ retiring[w] = "no"
  /\ source' = [pc |-> "prepared", kind |-> kind, case |-> c, rev |-> cases[c].rev,
                inputs |-> inputs, versions |-> version]
  /\ UNCHANGED <<ledger, uncertain, faults, reserved, retiring, version, changing, epoch,
                 app, worldVars, fileVars>>

\* inspectSelection and the Git checks find every selected worktree
InspectSource ==
  /\ source # Idle /\ source.pc = "prepared"
  /\ source' = IF source.inputs \cap disposed = {} THEN [source EXCEPT !.pc = "inspected"]
                                                   ELSE Idle
  /\ UNCHANGED <<ledger, uncertain, faults, reserved, retiring, version, changing, epoch,
                 app, worldVars, fileVars>>

\* Mutant: the retirement versions captured with the selection are not compared.
SourceCurrentUnversioned ==
  LET c == source.case IN
  /\ Active(c) /\ c \notin reserved /\ cases[c].rev = source.rev /\ ~cases[c].effect
  /\ \A w \in source.inputs : retiring[w] = "no"

\* the rechecks of #executeCommand and ownCase after the inspection
SourceCurrent ==
  LET c == source.case IN
  /\ Active(c) /\ c \notin reserved /\ cases[c].rev = source.rev /\ ~cases[c].effect
  /\ \A w \in source.inputs : retiring[w] = "no" /\ version[w] = source.versions[w]

ExecuteSource ==
  /\ source # Idle /\ source.pc = "inspected" /\ source' = Idle
  /\ LET c == source.case
         next == WithCase(c, [cases[c] EXCEPT !.rev = @ + 1, !.inputs = source.inputs,
                                !.effect = source.kind = "integrate"])
     IN  IF Mutable /\ SourceCurrent /\ Fits(next)
         THEN Publish(next) \/ PublishUncertain(next)
         ELSE UNCHANGED <<ledger, uncertain, faults>>
  /\ UNCHANGED <<reserved, retiring, version, changing, epoch, app, worldVars, fileVars>>

----------------------------------------------------------------------------
(* Retirement of a finished task's worktree (reserveRetirement around      *)
(* DispositionManager.finalize).                                           *)

Bump(w) == IF works[w].state # "none" THEN [version EXCEPT ![w] = @ + 1] ELSE version

RetireReserve(w) ==
  /\ Mutable /\ retiring[w] = "no" /\ ~live[w] /\ w \notin disposed /\ Calm
  /\ SelectedBy(w) = {}
  /\ retiring' = [retiring EXCEPT ![w] = "reserved"] /\ version' = Bump(w)
  /\ UNCHANGED <<ledger, uncertain, faults, reserved, changing, epoch, source, app,
                 worldVars, fileVars>>

\* the Git effect, which holds no metadata lock
Dispose(w) ==
  /\ retiring[w] = "reserved"
  /\ disposed' = disposed \cup {w} /\ retiring' = [retiring EXCEPT ![w] = "settled"]
  /\ UNCHANGED <<ledger, uncertain, faults, reserved, version, changing, epoch, source, app,
                 live, crashes, fileVars>>

\* release, after success or after a refused finalization
RetireRelease(w) ==
  /\ retiring[w] # "no"
  /\ retiring' = [retiring EXCEPT ![w] = "no"] /\ version' = Bump(w)
  /\ UNCHANGED <<ledger, uncertain, faults, reserved, changing, epoch, source, app,
                 worldVars, fileVars>>

Retirement == \E w \in Works : RetireReserve(w) \/ Dispose(w) \/ RetireRelease(w)

----------------------------------------------------------------------------
(* Adoption and cancellation of a task.                                    *)

\* Mutant: an adoption does not ask whether its cases are being applied.
BeginTransitionUnasked(w) ==
  /\ changing[w] = None /\ Calm
  /\ changing' = [changing EXCEPT ![w] = SelectedBy(w)] /\ epoch' = epoch + 1
  /\ UNCHANGED <<ledger, uncertain, faults, reserved, retiring, version, source, app,
                 worldVars, fileVars>>

\* withWorkerTaskTransition around TaskControlService.adopt
BeginTransition(w) ==
  /\ changing[w] = None /\ Calm
  /\ \A c \in SelectedBy(w) : c \notin reserved /\ \A v \in Works : changing[v] # None => c \notin changing[v]
  /\ changing' = [changing EXCEPT ![w] = SelectedBy(w)] /\ epoch' = epoch + 1
  /\ UNCHANGED <<ledger, uncertain, faults, reserved, retiring, version, source, app,
                 worldVars, fileVars>>

EndTransition(w) ==
  /\ changing[w] # None
  /\ changing' = [changing EXCEPT ![w] = None] /\ epoch' = epoch + 1
  /\ UNCHANGED <<ledger, uncertain, faults, reserved, retiring, version, source, app,
                 worldVars, fileVars>>

\* tasks whose control is held by withTaskPublication around a file effect
Held == UNION {app[k].parties : k \in {q \in Keys : app[q] # Idle /\ app[q].pc = "guarded"}}

\* the task's own control changes: an adoption inside its transition, a
\* cancellation or a completion at any time, none while the task is held
LoseAuthority(w) ==
  /\ live[w] /\ w \notin Held /\ live' = [live EXCEPT ![w] = FALSE]
  /\ UNCHANGED <<ledger, uncertain, faults, runtimeVars, disposed, crashes, fileVars>>

\* invalidateCancelledTask, after the durable stop
Invalidate(w) ==
  /\ ~live[w] /\ Calm /\ epoch' = epoch + 1
  /\ UNCHANGED <<ledger, uncertain, faults, reserved, retiring, version, changing, source,
                 app, worldVars, fileVars>>

Authority == \E w \in Works : BeginTransition(w) \/ EndTransition(w) \/ LoseAuthority(w) \/ Invalidate(w)

----------------------------------------------------------------------------
(* Worker proposals and their acknowledgment (#workerPeerOperation): the   *)
(* publication reads and writes one snapshot under the mutex.              *)

Propose(n, c, t, pred) ==
  /\ notes[n] = None /\ WorkerMay(t, c) /\ live[t]
  /\ pred # None => pred # n /\ RecordCurrent(pred) /\ notes[pred].case = c
                    /\ \A q \in Notes : notes[q] # None /\ ~notes[q].withdrawn => notes[q].pred # pred
  /\ Metadata(WithNote(n, [case |-> c, rev |-> cases[c].rev,
                sources |-> [w \in Works |-> works[w].rev], parties |-> cases[c].inputs,
                by |-> t, pred |-> pred, acks |-> {}, withdrawn |-> FALSE]))

Acknowledge(n, t) ==
  /\ RecordCurrent(n) /\ WorkerMay(t, notes[n].case) /\ live[t]
  /\ t \in notes[n].parties \ notes[n].acks
  /\ Metadata(WithNote(n, [notes[n] EXCEPT !.acks = @ \cup {t}]))

Withdraw(n) ==
  /\ RecordCurrent(n) /\ WorkerMay(notes[n].by, notes[n].case) /\ live[notes[n].by]
  /\ Metadata(WithNote(n, [notes[n] EXCEPT !.withdrawn = TRUE]))

Negotiation ==
  \/ \E n \in Notes, c \in Cases, t \in Works, p \in Notes \cup {None} : Propose(n, c, t, p)
  \/ \E n \in Notes : Withdraw(n) \/ \E t \in Works : Acknowledge(n, t)

----------------------------------------------------------------------------
(* A worker applies an agreed proposal (withWorkerApplication and the      *)
(* apply branch of the runtime's peer operation).                          *)

\* select: the proposal is this task's, current and fully acknowledged
Selectable(t, n) ==
  /\ RecordCurrent(n) /\ Acknowledged(notes[n]) /\ notes[n].by = t
  /\ WorkerMay(t, notes[n].case)

\* Mutant: only an effect with an outcome holds up another key.
UnresolvedKnown(k, c) == \E q \in Keys \ {k} :
  ledger.apps[q].case = c /\ ledger.apps[q].outcome \in {"applied", "effect_unknown"}

\* unresolvedApplication: another key's effect that was not rejected
Unresolved(k, c) == \E q \in Keys \ {k} :
  ledger.apps[q].case = c /\ ledger.apps[q].outcome # "rejected"

Apply(k, r) ==
  /\ app' = [app EXCEPT ![k] = r]
  /\ UNCHANGED <<retiring, version, changing, epoch, source>>

\* the runtime refuses a key whose effect is started and not settled
CaptureApply(k, t, n) ==
  /\ app[k] = Idle /\ live[t] /\ Selectable(t, n)
  /\ intent[k].state \in {"none", "settled"} /\ intent[k].note \in {None, n}
  /\ Occupied(k) => notes[ledger.apps[k].note].by = t
  /\ intent[k].state = "settled" => ledger.apps[k].note = n
  /\ Apply(k, [pc |-> "captured", task |-> t, note |-> n, case |-> notes[n].case,
               parties |-> notes[n].parties, rev |-> ledger.rev, epoch |-> epoch,
               status |-> intent[k].status])
  /\ UNCHANGED <<ledger, uncertain, faults, reserved, worldVars, fileVars>>

\* the authority, consent and evidence checks outside the mutex
CheckApply(k) ==
  /\ app[k] # Idle /\ app[k].pc = "captured"
  /\ IF live[app[k].task] /\ \A w \in app[k].parties : live[w]
     THEN Apply(k, [app[k] EXCEPT !.pc = "checked"])
     ELSE Apply(k, Idle)
  /\ UNCHANGED <<ledger, uncertain, faults, reserved, worldVars, fileVars>>

AdmitCurrent(k) ==
  LET a == app[k] IN
  /\ Selectable(a.task, a.note) /\ ledger.rev = a.rev /\ epoch = a.epoch
  /\ ~Unresolved(k, a.case)

\* the ":pending" record, unless this key already has one in this case, and the
\* reservation; a receipt key is used once, so never for a second case
AdmitApply(k) ==
  /\ app[k] # Idle /\ app[k].pc = "checked"
  /\ LET a == app[k]
         go == /\ Apply(k, [a EXCEPT !.pc = IF a.status = "none" THEN "admitted" ELSE "settled"])
               /\ reserved' = reserved \cup {a.case}
         refuse == Apply(k, Idle) /\ UNCHANGED reserved
         next == Stamp([ledger EXCEPT !.apps[k] =
                          [note |-> a.note, case |-> a.case, outcome |-> "none"]])
         known == Occupied(k) /\ ledger.apps[k].case = a.case
     IN  \/ AdmitCurrent(k) /\ known /\ go /\ UNCHANGED <<ledger, uncertain, faults>>
         \/ AdmitCurrent(k) /\ ~Occupied(k) /\ Mutable /\ Publish(next) /\ go
         \/ AdmitCurrent(k) /\ ~Occupied(k) /\ Mutable /\ PublishUncertain(next) /\ refuse
         \/ /\ ~AdmitCurrent(k) \/ (~known /\ (Occupied(k) \/ ~Mutable \/ ~Fits(next)))
            /\ refuse /\ UNCHANGED <<ledger, uncertain, faults>>
  /\ UNCHANGED <<worldVars, fileVars>>

\* the callback is over, whatever its end: the case is no longer reserved
FinishApply(k) ==
  Apply(k, Idle) /\ reserved' = reserved \ {app[k].case}

\* startPeerOperation: only the call that creates the intent runs the effect
StartEffect(k) ==
  /\ app[k] # Idle /\ app[k].pc = "admitted"
  /\ \/ /\ intent[k].state = "none"
        /\ intent' = [intent EXCEPT ![k] = [state |-> "started", note |-> app[k].note, status |-> "none"]]
        /\ Apply(k, [app[k] EXCEPT !.pc = "started"]) /\ UNCHANGED reserved
     \/ /\ FinishApply(k) /\ UNCHANGED intent   \* the task store refuses or fails
  /\ UNCHANGED <<ledger, uncertain, faults, worldVars, attempts>>

\* Mutant: the tasks are taken to be as they were at admission.
FilesCurrentAsAdmitted(k) ==
  LET m == notes[app[k].note] IN
  /\ Active(app[k].case) /\ cases[app[k].case].rev = m.rev /\ SourcesCurrent(m)

\* sourcesCurrent under withTaskPublication, as the case and its tasks are now
FilesCurrent(k) ==
  LET m == notes[app[k].note] IN
  /\ Active(app[k].case) /\ cases[app[k].case].rev = m.rev /\ SourcesCurrent(m)
  /\ \A w \in m.parties : live[w]

GuardEffect(k) ==
  /\ app[k] # Idle /\ app[k].pc = "started"
  /\ Held \cap app[k].parties = {}
  /\ Apply(k, IF FilesCurrent(k) THEN [app[k] EXCEPT !.pc = "guarded"]
              ELSE [app[k] EXCEPT !.pc = "landed", !.status = "rejected"])
  /\ UNCHANGED <<ledger, uncertain, faults, reserved, worldVars, fileVars>>

\* Mutant: a preimage that changed after the first file counts as a rejection.
FileEffectOptimistic(k) ==
  /\ app[k] # Idle /\ app[k].pc = "guarded"
  /\ \E s \in Statuses :
       /\ Apply(k, [app[k] EXCEPT !.pc = "landed", !.status = s])
       /\ attempts' = [attempts EXCEPT ![k] = @ + 1]
  /\ UNCHANGED <<ledger, uncertain, faults, reserved, worldVars, intent>>

\* applyPeerResolutionChanges: a changed preimage is rejected before any file is
\* published; from the first publication on, an error leaves the effect unknown
FileEffect(k) ==
  /\ app[k] # Idle /\ app[k].pc = "guarded"
  /\ \E s \in Statuses :
       /\ Apply(k, [app[k] EXCEPT !.pc = "landed", !.status = s])
       /\ attempts' = IF s = "rejected" THEN attempts ELSE [attempts EXCEPT ![k] = @ + 1]
  /\ UNCHANGED <<ledger, uncertain, faults, reserved, worldVars, intent>>

\* settlePeerOperationOutcome, which may fail and leave the intent started
SettleEffect(k) ==
  /\ app[k] # Idle /\ app[k].pc = "landed"
  /\ \/ /\ intent' = [intent EXCEPT ![k] = [@ EXCEPT !.state = "settled", !.status = app[k].status]]
        /\ Apply(k, [app[k] EXCEPT !.pc = "settled"]) /\ UNCHANGED reserved
     \/ FinishApply(k) /\ UNCHANGED intent
  /\ UNCHANGED <<ledger, uncertain, faults, worldVars, attempts>>

\* the ":outcome" record, refused once the case has moved, then the release of the case
RecordOutcome(k) ==
  /\ app[k] # Idle /\ app[k].pc = "settled"
  /\ LET a == app[k]
         next == Stamp([ledger EXCEPT !.apps[k].outcome = a.status])
         due == /\ ledger.apps[k].outcome = "none" /\ cases[a.case].rev = notes[a.note].rev
                /\ Mutable /\ Fits(next)
     IN  IF due THEN Publish(next) \/ PublishUncertain(next)
                ELSE UNCHANGED <<ledger, uncertain, faults>>
  /\ FinishApply(k)
  /\ UNCHANGED <<worldVars, fileVars>>

ApplicationStep ==
  \E k \in Keys :
    \/ \E t \in Works, n \in Notes : CaptureApply(k, t, n)
    \/ CheckApply(k) \/ AdmitApply(k) \/ StartEffect(k) \/ GuardEffect(k)
    \/ FileEffect(k) \/ SettleEffect(k) \/ RecordOutcome(k)

----------------------------------------------------------------------------
(* The service dies and another opens the same record: what was in memory  *)
(* is gone, started intents become unavailable, and a file effect that was *)
(* running may have published.  A worker that does not return is a later   *)
(* LoseAuthority.                                                          *)

Crash ==
  /\ Calm /\ crashes' = crashes + 1
  /\ uncertain' = FALSE /\ reserved' = {} /\ epoch' = 0 /\ source' = Idle
  /\ retiring' = [w \in Works |-> "no"] /\ version' = [w \in Works |-> 0]
  /\ changing' = [w \in Works |-> None] /\ app' = [k \in Keys |-> Idle]
  /\ intent' = [k \in Keys |-> IF intent[k].state = "started"
                               THEN [intent[k] EXCEPT !.state = "unavailable"] ELSE intent[k]]
  /\ attempts' \in {attempts} \cup
       {[attempts EXCEPT ![k] = @ + 1] : k \in {q \in Keys : app[q] # Idle /\ app[q].pc = "guarded"}}
  /\ UNCHANGED <<ledger, faults, live, disposed>>

\* a record in which no case is claimed yet, or one in which a case has been
\* claimed, its inputs selected and proposals agreed
NewWork(s) == [state |-> s, rev |-> IF s = "active" THEN 1 ELSE 0, readers |-> FALSE]
OpenCase == [NoCase EXCEPT !.state = "active", !.rev = 2, !.inputs = Works]
AgreedNote(c, t) == [case |-> c, rev |-> 2, sources |-> [w \in Works |-> 1], parties |-> Works,
                     by |-> t, pred |-> None, acks |-> Works, withdrawn |-> FALSE]
UnclaimedRecord(held) ==
  [rev |-> Earlier,
   works |-> [w \in Works |-> NewWork(IF w \in held THEN "active" ELSE "none")],
   cases |-> [c \in Cases |-> NoCase], notes |-> [n \in Notes |-> None],
   apps |-> [k \in Keys |-> NoApp]]
AgreedRecord(case, by) ==
  [rev |-> Cardinality(Works) + 2 + Cardinality(Agreed) * (1 + Cardinality(Works)),
   works |-> [w \in Works |-> NewWork("active")],
   cases |-> [c \in Cases |-> IF c = case THEN OpenCase ELSE NoCase],
   notes |-> [n \in Notes |-> IF n \in Agreed THEN AgreedNote(case, by[n]) ELSE None],
   apps |-> [k \in Keys |-> NoApp]]

Init ==
  /\ \/ \E held \in SUBSET Works : ledger = UnclaimedRecord(held)
     \/ \E c \in Started, by \in [Agreed -> Works] : ledger = AgreedRecord(c, by)
  /\ Fits(ledger)
  /\ uncertain = FALSE /\ reserved = {} /\ epoch = 0 /\ source = Idle
  /\ retiring = [w \in Works |-> "no"] /\ version = [w \in Works |-> 0]
  /\ changing = [w \in Works |-> None] /\ app = [k \in Keys |-> Idle]
  /\ intent = [k \in Keys |-> NoIntent] /\ attempts = [k \in Keys |-> 0]
  /\ live = [w \in Works |-> TRUE] /\ disposed = {} /\ crashes = 0 /\ faults = 0

Next ==
  \/ Command \/ Retirement \/ Authority \/ Negotiation \/ ApplicationStep
  \/ \E c \in Cases, kind \in {"select", "integrate"}, s \in SUBSET Works : PrepareSource(c, kind, s)
  \/ InspectSource \/ ExecuteSource \/ Crash

Spec == Init /\ [][Next]_vars

----------------------------------------------------------------------------
(* Properties.                                                             *)

\* Every variable has its type.
TypeOK ==
  /\ ledger \in Ledger /\ uncertain \in BOOLEAN /\ reserved \subseteq Cases
  /\ retiring \in [Works -> {"no", "reserved", "settled"}] /\ version \in [Works -> Nat]
  /\ changing \in [Works -> (SUBSET Cases) \cup {None}] /\ epoch \in Nat
  /\ source \in Source \cup {Idle} /\ app \in [Keys -> Application \cup {Idle}]
  /\ intent \in [Keys -> Intent] /\ live \in [Works -> BOOLEAN] /\ disposed \subseteq Works
  /\ attempts \in [Keys -> Nat] /\ crashes \in 0..MaxTroubles /\ faults \in 0..MaxTroubles

\* An active case never selects a task whose worktree a retirement has removed,
\* although the selection is inspected, and the worktree removed, outside the
\* mutex: retirement versions and reservations close the gap.
SelectionKept == \A c \in Cases : Active(c) => cases[c].inputs \cap disposed = {}

\* While a case is reserved by an application, nobody - lead, operator, observer,
\* another worker - changes the case, what it selects, or the works selected, so
\* the effect that was agreed is the effect that runs.
ReservedStill ==
  [][\A c \in reserved \cap reserved' :
       /\ cases'[c] = cases[c]
       /\ \A w \in cases[c].inputs : works'[w] = works[w]]_vars

\* An application never overlaps the adoption of a task it was agreed with,
\* although neither waits for the other under one lock.
ReservedApart == \A c \in reserved, w \in Works :
  changing[w] # None => c \notin changing[w] /\ w \notin cases[c].inputs

\* The files of a case are published for at most one application, once, over
\* retries of a key, other keys, unacknowledged publications and restarts: an
\* effect that may have happened is never repeated, nor followed by another one.
OnePublication == \A c \in Cases :
  LET done == {k \in Keys : ledger.apps[k].case = c /\ attempts[k] > 0} IN
  Cardinality(done) <= 1 /\ \A k \in done : attempts[k] = 1

\* Whatever the files may have received is on record before it happens, and a
\* retained outcome is true of the files: rejected only if nothing was published,
\* applied only if something was.
OutcomeTruthful == \A k \in Keys :
  /\ attempts[k] > 0 => Occupied(k)
  /\ ledger.apps[k].outcome = "rejected" => attempts[k] = 0
  /\ ledger.apps[k].outcome = "applied" => attempts[k] = 1

\* The agreement a proposal stands for is in force.
InForce(m) ==
  /\ Acknowledged(m) /\ ~m.withdrawn /\ cases[m.case].rev = m.rev
  /\ m.parties = cases[m.case].inputs
  /\ \A w \in m.parties : works[w].rev = m.sources[w] /\ live[w]

\* Files are written only under an agreement in force: acknowledged by every task
\* of the case as it stands, on the source revisions they agreed to, with every
\* one of those tasks still active under the generation that agreed.
EffectConsented ==
  [][\A k \in Keys : attempts'[k] > attempts[k] => InForce(notes[app[k].note])]_vars

\* Reserved slots suffice: in an active case that nothing holds up, the lead's way
\* out - settle the external integration, then release - always fits the record.
WayOutFits == \A c \in Cases : Active(c) =>
  LET settled == Stamp([ledger EXCEPT !.cases[c].effect = FALSE])
      way == IF cases[c].effect THEN settled ELSE ledger
  IN  Fits(way) /\ Fits(Stamp([way EXCEPT !.cases[c].state = "closed"]))
=============================================================================
