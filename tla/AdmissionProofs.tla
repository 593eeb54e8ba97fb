---------------------------- MODULE AdmissionProofs ----------------------------
(***************************************************************************)
(* Proofs that a request key names one task and that the two stores agree, *)
(* that only linked tasks are queued, that the places and the slots of the *)
(* policy are kept, that no kick is lost, and that admission implements    *)
(* AdmissionContract, for all tasks, keys, intents and owners, whatever    *)
(* fails and however often the service dies.                               *)
(*                                                                         *)
(* Neither of the first two is inductive.  That the stores agree rests on  *)
(* what an admission in progress has already published (OpHolds), on what  *)
(* a reservation left behind may refer to (ReservationsHold), and on the   *)
(* recovery sweeps touching only published coordinated tasks (SweepsHold): *)
(* IInv.  The others rest on IInv and on each other (QInv).  That a queued *)
(* task is linked needs that who is about to settle a link has settled the *)
(* binding (WaysHold).  That places are kept needs LinksHold: a restart    *)
(* reopens a task that ended without its link, which would then take a     *)
(* place again, and LinksHold says that there is none.                     *)
(***************************************************************************)
EXTENDS Admission, FiniteSetTheorems, TLAPS

Reservations == {NoReservation} \cup [id : Tasks, intent : Intents]
Submissions == {NoOp} \cup [at : Steps, key : Keys, intent : Intents, id : Tasks]
Bindings == [state : BindingStates, key : Keys \cup {NoKey}, intent : Intents \cup {NoIntent}]
Sweeping == [at : {"read", "settle", "link", "cancel", "close"}, task : Tasks]

Types ==
  /\ task \in [Tasks -> Task]
  /\ binding \in [Tasks -> Bindings]
  /\ reserved \in [Keys -> Reservations]
  /\ op \in Submissions
  /\ startup \in Seq(Tasks)
  /\ sweep \in [Sweeps -> {Idle} \cup Sweeping]

\* What is not there is empty, and what is there is named.
Records ==
  \A t \in Tasks :
    /\ ~OnDisk(t) => task[t] = NoTask
    /\ OnDisk(t) => task[t].key \in Keys /\ task[t].intent \in Intents
    /\ binding[t].state = "none" => binding[t] = NoBinding
    /\ binding[t].state # "none" => binding[t].key \in Keys /\ binding[t].intent \in Intents
    /\ task[t].form = "plain" => binding[t].state = "none"

\* A reservation names a task id of its key and its owner, and no other does.
ReservationsHold ==
  /\ \A k \in Keys : reserved[k] # NoReservation =>
       /\ OnDisk(reserved[k].id) => task[reserved[k].id].key = k
       /\ binding[reserved[k].id].state # "none" =>
            /\ binding[reserved[k].id].key = k
            /\ OwnerOf[binding[reserved[k].id].intent] = OwnerOf[reserved[k].intent]
  /\ \A k, l \in Keys :
       reserved[k] # NoReservation /\ reserved[k].id = reserved[l].id => k = l

\* What an admission has published when it stands at a step.
OpHolds ==
  /\ op.at = "bind" => ~OnDisk(op.id) /\ binding[op.id].state = "none" /\ Own
  /\ op.at = "commit" =>
       /\ binding[op.id].key = op.key /\ binding[op.id].intent = op.intent
       /\ binding[op.id].state \in {"bound", "settled", "terminal"}
  /\ op.at = "release" => ~OnDisk(op.id) /\ binding[op.id].state = "bound"
  /\ op.at \in {"settle", "activate", "linked", "enqueue"} => task[op.id].form = "coordinated"

\* The sweeps of recovery work on published coordinated tasks.
SweepsHold ==
  /\ \A i \in DOMAIN startup : task[startup[i]].form = "coordinated"
  /\ \A s \in Sweeps : sweep[s] # Idle => task[sweep[s].task].form = "coordinated"

IInv ==
  /\ Types
  /\ Records
  /\ OneTaskPerKey
  /\ StoresAgree
  /\ ReservationsHold
  /\ OpHolds
  /\ SweepsHold

LEMMA InitHolds == Init => IInv
  <1> SUFFICES ASSUME Init PROVE IInv
    OBVIOUS
  <1> USE DEF Init, LinkInit, SchedulerInit, NoTask, NoBinding, NoReservation, NoOp, Idle
  <1>1. Types
    <2>1. task \in [Tasks -> Task] /\ binding \in [Tasks -> Bindings]
      BY DEF Task, Forms, Phases, Bindings, BindingStates
    <2>2. reserved \in [Keys -> Reservations] /\ op \in Submissions
      BY DEF Reservations, Submissions
    <2>3. startup \in Seq(Tasks) /\ sweep \in [Sweeps -> {Idle} \cup Sweeping]
      OBVIOUS
    <2> QED BY <2>1, <2>2, <2>3 DEF Types
  <1>2. Records /\ StoresAgree /\ OneTaskPerKey
    BY DEF Records, StoresAgree, OneTaskPerKey, OnDisk
  <1>3. ReservationsHold /\ OpHolds /\ SweepsHold
    BY DEF ReservationsHold, OpHolds, SweepsHold
  <1> QED BY <1>1, <1>2, <1>3 DEF IInv

-----------------------------------------------------------------------------
(* Steps that admit nothing. *)

\* Every task stays what and whose it was, and none appears.
SameTasks ==
  /\ task' \in [Tasks -> Task]
  /\ \A t \in Tasks : /\ task'[t].form = task[t].form
                      /\ task'[t].key = task[t].key
                      /\ task'[t].intent = task[t].intent
                      /\ ~OnDisk(t) => task'[t] = task[t]

\* Such a step leaves the stores as consistent as they were.
LEMMA StoresKept ==
  ASSUME IInv, SameTasks, binding' = binding
  PROVE  Records' /\ OneTaskPerKey' /\ StoresAgree'
  <1>1. \A t \in Tasks : OnDisk(t)' <=> OnDisk(t)
    BY DEF SameTasks, OnDisk
  <1>2. Records'
    BY <1>1 DEF IInv, Records, SameTasks
  <1>3. OneTaskPerKey'
    BY <1>1 DEF IInv, OneTaskPerKey, SameTasks
  <1>4. StoresAgree'
    BY <1>1 DEF IInv, StoresAgree, SameTasks
  <1> QED BY <1>2, <1>3, <1>4

LEMMA ReservationsKept ==
  ASSUME IInv, SameTasks, binding' = binding, reserved' = reserved
  PROVE  ReservationsHold'
  <1>1. \A k \in Keys : reserved[k] # NoReservation => reserved[k].id \in Tasks
    BY DEF IInv, Types, Reservations, NoReservation
  <1> QED BY <1>1 DEF IInv, ReservationsHold, SameTasks, OnDisk

LEMMA OpKept ==
  ASSUME IInv, SameTasks, binding' = binding, reserved' = reserved, op' = op
  PROVE  OpHolds'
  <1>1. op.at # "none" => op.id \in Tasks
    BY DEF IInv, Types, Submissions, NoOp
  <1> QED BY <1>1 DEF IInv, OpHolds, SameTasks, OnDisk, Own

LEMMA SweepsKept ==
  ASSUME IInv, SameTasks, startup' = startup, sweep' = sweep
  PROVE  SweepsHold'
  <1>1. \A i \in DOMAIN startup : startup[i] \in Tasks
    BY DEF IInv, Types
  <1>2. \A s \in Sweeps : sweep[s] # Idle => sweep[s].task \in Tasks
    BY DEF IInv, Types, Sweeping
  <1> QED BY <1>1, <1>2 DEF IInv, SweepsHold, SameTasks

LEMMA TasksOnly ==
  ASSUME IInv, SameTasks, UNCHANGED <<binding, reserved, op, startup, sweep>>
  PROVE  IInv'
  <1>1. Types'
    BY DEF IInv, Types, SameTasks
  <1> QED BY <1>1, StoresKept, ReservationsKept, OpKept, SweepsKept DEF IInv

\* What a step may change of a record leaves it the same task.
SameTask(q, r) == q \in Task /\ q.form = r.form /\ q.key = r.key /\ q.intent = r.intent

LEMMA SameField ==
  ASSUME NEW r \in Task, NEW p \in Phases, NEW b \in BOOLEAN
  PROVE  /\ SameTask([r EXCEPT !.phase = p], r)
         /\ SameTask([r EXCEPT !.native = b], r)
         /\ SameTask([r EXCEPT !.cancel = b], r)
         /\ SameTask([r EXCEPT !.recovered = b], r)
         /\ SameTask([r EXCEPT !.link = b], r)
  <1>1. SameTask([r EXCEPT !.phase = p], r)
    BY DEF Task, SameTask
  <1>2. SameTask([r EXCEPT !.native = b], r)
    BY DEF Task, SameTask
  <1>3. SameTask([r EXCEPT !.cancel = b], r)
    BY DEF Task, SameTask
  <1>4. SameTask([r EXCEPT !.recovered = b], r)
    BY DEF Task, SameTask
  <1>5. SameTask([r EXCEPT !.link = b], r)
    BY DEF Task, SameTask
  <1> QED BY <1>1, <1>2, <1>3, <1>4, <1>5

LEMMA SameRecord ==
  ASSUME NEW r \in Task, NEW p \in Phases
  PROVE  /\ SameTask([r EXCEPT !.phase = p], r)
         /\ SameTask([r EXCEPT !.phase = p, !.native = TRUE], r)
         /\ SameTask([r EXCEPT !.cancel = TRUE, !.phase = p], r)
         /\ SameTask([r EXCEPT !.link = TRUE], r)
         /\ SameTask([r EXCEPT !.phase = p, !.recovered = FALSE], r)
         /\ SameTask([r EXCEPT !.phase = p, !.recovered = TRUE], r)
         /\ SameTask([r EXCEPT !.phase = p, !.recovered = FALSE, !.native = TRUE], r)
  <1> DEFINE phased == [r EXCEPT !.phase = p]
             dropped == [phased EXCEPT !.recovered = FALSE]
             cancelled == [r EXCEPT !.cancel = TRUE]
  <1>1. SameTask(phased, r) /\ SameTask(cancelled, r) /\ SameTask([r EXCEPT !.link = TRUE], r)
    BY SameField
  <1>2. phased \in Task /\ cancelled \in Task
    BY <1>1 DEF SameTask
  <1>3. /\ SameTask([phased EXCEPT !.native = TRUE], phased)
        /\ SameTask(dropped, phased) /\ SameTask([phased EXCEPT !.recovered = TRUE], phased)
        /\ SameTask([cancelled EXCEPT !.phase = p], cancelled)
    <2> HIDE DEF phased, cancelled
    <2> QED BY <1>2, SameField
  <1>4. dropped \in Task
    BY <1>3 DEF SameTask
  <1>5. SameTask([dropped EXCEPT !.native = TRUE], dropped)
    <2> HIDE DEF dropped
    <2> QED BY <1>4, SameField
  <1> HIDE DEF phased, dropped, cancelled
  <1>6. /\ SameTask(phased, r) /\ SameTask([phased EXCEPT !.native = TRUE], r)
        /\ SameTask([cancelled EXCEPT !.phase = p], r) /\ SameTask([r EXCEPT !.link = TRUE], r)
        /\ SameTask(dropped, r) /\ SameTask([phased EXCEPT !.recovered = TRUE], r)
        /\ SameTask([dropped EXCEPT !.native = TRUE], r)
    BY <1>1, <1>3, <1>5 DEF SameTask
  <1> QED BY <1>6 DEF phased, dropped, cancelled

\* A step that changes one published record, and not what task it is.
LEMMA OneChanged ==
  ASSUME IInv, NEW t \in Tasks, OnDisk(t), NEW r, SameTask(r, task[t]),
         task' = [task EXCEPT ![t] = r]
  PROVE  SameTasks
  <1>1. /\ task \in [Tasks -> Task]
        /\ task' \in [Tasks -> Task]
        /\ task'[t] = r
        /\ \A u \in Tasks : u # t => task'[u] = task[u]
    BY DEF IInv, Types, SameTask
  <1> QED BY <1>1 DEF SameTasks, SameTask

LEMMA SamePhase ==
  ASSUME IInv, NEW t \in Tasks, OnDisk(t), NEW p \in Phases,
         task' = [task EXCEPT ![t].phase = p]
  PROVE  SameTasks
  <1>1. task[t] \in Task
    BY DEF IInv, Types
  <1>2. task' = [task EXCEPT ![t] = [task[t] EXCEPT !.phase = p]]
    OBVIOUS
  <1> QED BY <1>1, <1>2, SameRecord, OneChanged

LEMMA SameLinked ==
  ASSUME IInv, NEW t \in Tasks, OnDisk(t), task' = [task EXCEPT ![t].link = TRUE]
  PROVE  SameTasks
  <1>1. task[t] \in Task /\ "queued" \in Phases
    BY DEF IInv, Types, Phases
  <1>2. task' = [task EXCEPT ![t] = [task[t] EXCEPT !.link = TRUE]]
    OBVIOUS
  <1> QED BY <1>1, <1>2, SameRecord, OneChanged

LEMMA AloneKeepsTasks ==
  ASSUME IInv, NEW t \in Tasks, OnDisk(t), CancelledAlone(t)
  PROVE  SameTasks
  <1>1. PICK p : task' = [task EXCEPT ![t].phase = p] /\ p \in Phases
    <2>1. task[t].phase \in Phases
      BY DEF IInv, Types, Task
    <2> QED BY <2>1 DEF CancelledAlone, Phases
  <1> QED BY <1>1, SamePhase

\* Such a step may also give reservations back, while an admission moves on.
LEMMA GivesBack ==
  ASSUME IInv, SameTasks, UNCHANGED <<binding, startup, sweep>>,
         reserved' \in [Keys -> Reservations],
         \A k \in Keys : reserved'[k] \in {reserved[k], NoReservation},
         op' \in Submissions, OpHolds'
  PROVE  IInv'
  <1>1. Types'
    BY DEF IInv, Types, SameTasks
  <1>2. \A k \in Keys : reserved[k] # NoReservation => reserved[k].id \in Tasks
    BY DEF IInv, Types, Reservations, NoReservation
  <1>3. ReservationsHold'
    <2>1. \A k \in Keys : reserved'[k] # NoReservation =>
            /\ reserved'[k] = reserved[k] /\ reserved[k].id \in Tasks
            /\ reserved[k].id # NoTaskId
      BY <1>2, AdmissionConstants
    <2>2. \A k, l \in Keys :
            reserved'[k] # NoReservation /\ reserved'[k].id = reserved'[l].id => k = l
      BY <2>1 DEF IInv, ReservationsHold, NoReservation
    <2>3. \A t \in Tasks : task'[t].key = task[t].key /\ (OnDisk(t)' <=> OnDisk(t))
      BY DEF SameTasks, OnDisk
    <2> QED BY <2>1, <2>2, <2>3 DEF IInv, ReservationsHold
  <1> QED BY <1>1, <1>3, StoresKept, SweepsKept DEF IInv

\* A step that moves the binding of a published coordinated task on.
LEMMA Disposes ==
  ASSUME IInv, NEW t \in Tasks, task[t].form = "coordinated",
         NEW s \in {"bound", "settled", "terminal"},
         binding' = [binding EXCEPT ![t].state = s],
         UNCHANGED <<task, reserved>>
  PROVE  /\ binding' \in [Tasks -> Bindings]
         /\ Records' /\ OneTaskPerKey' /\ StoresAgree' /\ ReservationsHold'
         /\ op' = op => OpHolds'
  <1>1. OnDisk(t) /\ binding[t].state \in {"bound", "settled", "terminal"}
    <2>1. binding[t].state # "none"
      BY AdmissionConstants DEF IInv, Records, StoresAgree, OnDisk, NoBinding
    <2> QED BY <2>1 DEF IInv, Types, Bindings, BindingStates, StoresAgree, OnDisk
  <1>2. binding' \in [Tasks -> Bindings]
    BY DEF IInv, Types, Bindings, BindingStates
  <1>3. \A u \in Tasks : /\ binding'[u].key = binding[u].key
                         /\ binding'[u].intent = binding[u].intent
                         /\ u # t => binding'[u] = binding[u]
    BY DEF IInv, Types, Bindings
  <1>4. binding'[t].state = s
    BY DEF IInv, Types, Bindings
  <1>5. Records'
    BY <1>1, <1>3, <1>4 DEF IInv, Records, OnDisk
  <1>6. OneTaskPerKey'
    BY DEF IInv, OneTaskPerKey, OnDisk
  <1>7. StoresAgree'
    BY <1>1, <1>3, <1>4 DEF IInv, StoresAgree, OnDisk
  <1>8. ReservationsHold'
    <2>1. \A k \in Keys : reserved[k] # NoReservation => reserved[k].id \in Tasks
      BY DEF IInv, Types, Reservations, NoReservation
    <2> QED BY <1>1, <1>3, <1>4, <2>1 DEF IInv, ReservationsHold, OnDisk
  <1>9. op' = op => OpHolds'
    <2>1. op.at # "none" => op.id \in Tasks
      BY DEF IInv, Types, Submissions, NoOp
    <2> QED BY <1>1, <1>3, <1>4, <2>1 DEF IInv, OpHolds, OnDisk, Own
  <1> QED BY <1>2, <1>5, <1>6, <1>7, <1>8, <1>9

-----------------------------------------------------------------------------
(* The steps of an admission. *)

LEMMA OpNamed ==
  ASSUME IInv, op.at # "none"
  PROVE  op \in [at : Steps, key : Keys, intent : Intents, id : Tasks]
  BY DEF IInv, Types, Submissions, NoOp

LEMMA GotoTyped ==
  ASSUME IInv, op.at # "none", NEW at \in Steps, Goto(at)
  PROVE  /\ op' \in Submissions
         /\ op'.at = at /\ op'.key = op.key /\ op'.intent = op.intent /\ op'.id = op.id
  BY OpNamed DEF Goto, Submissions

LEMMA DoneHolds ==
  ASSUME Done
  PROVE  op' \in Submissions /\ OpHolds'
  BY DEF Done, NoOp, Submissions, OpHolds

LEMMA DroppedTyped ==
  ASSUME IInv, op.at # "none"
  PROVE  /\ Dropped \in [Keys -> Reservations]
         /\ \A k \in Keys : Dropped[k] \in {reserved[k], NoReservation}
  BY OpNamed DEF IInv, Types, Dropped, Reservations

LEMMA TasksUnchanged ==
  ASSUME IInv, UNCHANGED task
  PROVE  SameTasks
  BY DEF IInv, Types, SameTasks

\* Steps that end an attempt, or give up, without publishing.
LEMMA GivingUp ==
  ASSUME IInv, UNCHANGED <<startup, sweep>>, BindRefused \/ Unreserve \/ LinkFails
  PROVE  IInv'
  <1>1. UNCHANGED <<task, binding>> /\ Done /\ op.at # "none"
    BY DEF BindRefused, Unreserve, LinkFails
  <1>2. reserved' = reserved \/ reserved' = Dropped
    BY DEF BindRefused, Unreserve, LinkFails
  <1>3. /\ reserved' \in [Keys -> Reservations]
        /\ \A k \in Keys : reserved'[k] \in {reserved[k], NoReservation}
    BY <1>1, <1>2, DroppedTyped DEF IInv, Types
  <1> QED BY <1>1, <1>3, TasksUnchanged, DoneHolds, GivesBack

\* The binding of an admission is published before its task.
LEMMA Binds ==
  ASSUME IInv, op.at = "bind", binding' = Bound,
         UNCHANGED <<task, reserved, startup, sweep>>,
         op' \in Submissions, OpHolds'
  PROVE  IInv'
  <1>1. op.key \in Keys /\ op.intent \in Intents /\ op.id \in Tasks
    BY OpNamed
  <1>2. ~OnDisk(op.id) /\ binding[op.id].state = "none" /\ Own
    BY DEF IInv, OpHolds
  <1>3. /\ binding' \in [Tasks -> Bindings]
        /\ binding'[op.id] = [state |-> "bound", key |-> op.key, intent |-> op.intent]
        /\ \A t \in Tasks : t # op.id => binding'[t] = binding[t]
    BY <1>1 DEF IInv, Types, Bound, Bindings, BindingStates
  <1>4. Types'
    BY <1>3 DEF IInv, Types
  <1>5. Records'
    BY <1>1, <1>2, <1>3 DEF IInv, Records, OnDisk
  <1>6. OneTaskPerKey' /\ StoresAgree'
    BY <1>2, <1>3 DEF IInv, OneTaskPerKey, StoresAgree, OnDisk
  <1>7. ReservationsHold'
    <2>1. \A k \in Keys : reserved[k] # NoReservation => reserved[k].id \in Tasks
      BY DEF IInv, Types, Reservations, NoReservation
    <2>2. /\ reserved[op.key] # NoReservation
          /\ reserved[op.key].id = op.id /\ reserved[op.key].intent = op.intent
      BY <1>1, <1>2, AdmissionConstants DEF Own, NoReservation
    <2>3. \A k \in Keys : reserved[k] # NoReservation /\ reserved[k].id = op.id => k = op.key
      BY <1>1, <2>2 DEF IInv, ReservationsHold
    <2> QED BY <1>1, <1>2, <1>3, <2>1, <2>2, <2>3 DEF IInv, ReservationsHold, OnDisk
  <1>8. SweepsHold'
    BY TasksUnchanged, SweepsKept
  <1> QED BY <1>4, <1>5, <1>6, <1>7, <1>8 DEF IInv

\* The task of an admission is published under its binding.
LEMMA Commits ==
  ASSUME IInv, op.at = "commit", Committable, task' = Committed,
         UNCHANGED <<binding, reserved, startup, sweep>>,
         op' \in Submissions, OpHolds'
  PROVE  IInv'
  <1>1. op.key \in Keys /\ op.intent \in Intents /\ op.id \in Tasks
    BY OpNamed
  <1>2. /\ binding[op.id].key = op.key /\ binding[op.id].intent = op.intent
        /\ binding[op.id].state \in {"bound", "settled", "terminal"}
    BY DEF IInv, OpHolds
  <1>3. ~OnDisk(op.id) /\ Own /\ \A t \in Tasks : task[t].key # op.key
    BY DEF Committable, Find
  <1>4. /\ task' \in [Tasks -> Task]
        /\ task'[op.id].form = "coordinated" /\ task'[op.id].key = op.key
        /\ task'[op.id].intent = op.intent
        /\ \A t \in Tasks : t # op.id => task'[t] = task[t]
    BY <1>1 DEF IInv, Types, Committed, NewTask, NoTask, Task, Forms, Phases
  <1>5. Types'
    BY <1>4 DEF IInv, Types
  <1>6. Records' /\ OneTaskPerKey' /\ StoresAgree'
    BY <1>1, <1>2, <1>3, <1>4 DEF IInv, Records, OneTaskPerKey, StoresAgree, OnDisk
  <1>7. ReservationsHold'
    <2>1. \A k \in Keys : reserved[k] # NoReservation => reserved[k].id \in Tasks
      BY DEF IInv, Types, Reservations, NoReservation
    <2>2. \A k \in Keys : reserved[k] # NoReservation /\ reserved[k].id = op.id => k = op.key
      BY <1>1, <1>3, AdmissionConstants DEF IInv, ReservationsHold, Own, NoReservation
    <2> QED BY <1>4, <2>1, <2>2 DEF IInv, ReservationsHold, OnDisk
  <1>8. SweepsHold'
    <2>1. \A i \in DOMAIN startup : startup[i] \in Tasks
      BY DEF IInv, Types
    <2>2. \A s \in Sweeps : sweep[s] # Idle => sweep[s].task \in Tasks
      BY DEF IInv, Types, Sweeping
    <2> QED BY <1>3, <1>4, <2>1, <2>2 DEF IInv, SweepsHold, OnDisk
  <1> QED BY <1>5, <1>6, <1>7, <1>8 DEF IInv

\* A binding is released only while its task was never published.
LEMMA Releases ==
  ASSUME IInv, op.at = "release",
         binding' = [binding EXCEPT ![op.id].state = "released"],
         UNCHANGED <<task, reserved, startup, sweep>>,
         op' \in Submissions, OpHolds'
  PROVE  IInv'
  <1>1. op.id \in Tasks /\ ~OnDisk(op.id) /\ binding[op.id].state = "bound"
    BY OpNamed DEF IInv, OpHolds
  <1>2. /\ binding' \in [Tasks -> Bindings]
        /\ binding'[op.id].state = "released"
        /\ \A t \in Tasks : /\ binding'[t].key = binding[t].key
                             /\ binding'[t].intent = binding[t].intent
                             /\ t # op.id => binding'[t] = binding[t]
    BY <1>1 DEF IInv, Types, Bindings, BindingStates
  <1>3. Types'
    BY <1>2 DEF IInv, Types
  <1>4. Records' /\ OneTaskPerKey' /\ StoresAgree'
    <2>1. Records'
      BY <1>1, <1>2 DEF IInv, Records, OnDisk
    <2>2. StoresAgree'
      BY <1>1, <1>2 DEF IInv, StoresAgree, OnDisk
    <2> QED BY <2>1, <2>2 DEF IInv, OneTaskPerKey, OnDisk
  <1>5. ReservationsHold'
    <2>1. \A k \in Keys : reserved[k] # NoReservation => reserved[k].id \in Tasks
      BY DEF IInv, Types, Reservations, NoReservation
    <2>2. \A t \in Tasks : binding'[t].state # "none" => binding[t].state # "none"
      BY <1>1, <1>2
    <2> QED BY <1>2, <2>1, <2>2 DEF IInv, ReservationsHold, OnDisk
  <1>6. SweepsHold'
    BY TasksUnchanged, SweepsKept
  <1> QED BY <1>3, <1>4, <1>5, <1>6 DEF IInv

\* The binding of an admission moves with the admission.
LEMMA DisposesOwn ==
  ASSUME IInv, op.at = "settle", NEW s \in {"bound", "settled", "terminal"},
         binding' = [binding EXCEPT ![op.id].state = s],
         UNCHANGED <<task, reserved, startup, sweep>>,
         op' \in Submissions, OpHolds'
  PROVE  IInv'
  <1>1. op.id \in Tasks /\ task[op.id].form = "coordinated"
    BY OpNamed DEF IInv, OpHolds
  <1>2. /\ binding' \in [Tasks -> Bindings]
        /\ Records' /\ OneTaskPerKey' /\ StoresAgree' /\ ReservationsHold'
    BY <1>1, Disposes
  <1>3. Types'
    BY <1>2 DEF IInv, Types
  <1>4. SweepsHold'
    BY TasksUnchanged, SweepsKept
  <1> QED BY <1>2, <1>3, <1>4 DEF IInv

LEMMA OpStepHolds ==
  ASSUME IInv, OpStep
  PROVE  IInv'
  <1> UNCHANGED <<startup, sweep>>
    BY DEF OpStep
  <1>1. CASE BindRefused \/ Unreserve \/ LinkFails
    BY <1>1, GivingUp
  <1>2. CASE Bind
    <2>1. op.at = "bind" /\ binding' = Bound /\ Goto("commit") /\ UNCHANGED <<task, reserved>>
      BY <1>2 DEF Bind
    <2>2. /\ op' \in Submissions
          /\ op'.at = "commit" /\ op'.key = op.key /\ op'.intent = op.intent /\ op'.id = op.id
      BY <2>1, GotoTyped DEF Steps
    <2>3. binding'[op.id] = [state |-> "bound", key |-> op.key, intent |-> op.intent]
      BY <2>1, OpNamed DEF IInv, Types, Bound, Bindings
    <2>4. OpHolds'
      BY <2>2, <2>3 DEF OpHolds
    <2> QED BY <2>1, <2>2, <2>4, Binds
  <1>3. CASE BindUnanswered
    <2>1. CASE binding' = binding
      <3>1. UNCHANGED <<task, reserved>> /\ Done
        BY <1>3 DEF BindUnanswered
      <3>2. \A k \in Keys : reserved'[k] \in {reserved[k], NoReservation}
        BY <3>1
      <3>3. reserved' \in [Keys -> Reservations]
        BY <3>1 DEF IInv, Types
      <3> QED BY <2>1, <3>1, <3>2, <3>3, TasksUnchanged, DoneHolds, GivesBack
    <2>2. CASE binding' = Bound
      BY <1>3, <2>2, DoneHolds, Binds DEF BindUnanswered
    <2> QED BY <1>3, <2>1, <2>2 DEF BindUnanswered
  <1>4. ASSUME op.at = "commit"
        PROVE  /\ op.id \in Tasks
               /\ OnDisk(op.id) => task[op.id].form = "coordinated"
               /\ ~OnDisk(op.id) => binding[op.id].state = "bound"
    <2>1. op.id \in Tasks /\ binding[op.id].state \in {"bound", "settled", "terminal"}
      BY <1>4, OpNamed DEF IInv, OpHolds
    <2>2. task[op.id].form \in {"none", "plain", "coordinated"}
      BY <2>1 DEF IInv, Types, Task, Forms
    <2> QED BY <2>1, <2>2 DEF IInv, Records, StoresAgree, OnDisk
  <1>5. \A k \in Keys : reserved[k] \in {reserved[k], NoReservation}
    OBVIOUS
  <1>6. reserved \in [Keys -> Reservations]
    BY DEF IInv, Types
  <1>7. CASE Commit
    <2>1. op.at = "commit" /\ Goto("settle") /\ UNCHANGED <<binding, reserved>>
      BY <1>7 DEF Commit
    <2>2. /\ op' \in Submissions
          /\ op'.at = "settle" /\ op'.key = op.key /\ op'.intent = op.intent /\ op'.id = op.id
      BY <2>1, GotoTyped DEF Steps
    <2>3. CASE OnDisk(op.id)
      <3>1. UNCHANGED task
        BY <1>7, <2>3 DEF Commit
      <3>2. OpHolds'
        BY <1>4, <2>1, <2>2, <2>3, <3>1 DEF OpHolds
      <3> QED BY <1>5, <1>6, <2>1, <2>2, <3>1, <3>2, TasksUnchanged, GivesBack
    <2>4. CASE ~OnDisk(op.id)
      <3>1. Committable /\ task' = Committed
        BY <1>7, <2>4 DEF Commit
      <3>2. task'[op.id].form = "coordinated"
        BY <1>4, <2>1, <3>1 DEF IInv, Types, Committed, NewTask, NoTask
      <3>3. OpHolds'
        BY <2>2, <3>2 DEF OpHolds
      <3> QED BY <2>1, <2>2, <3>1, <3>3, Commits
    <2> QED BY <2>3, <2>4
  <1>8. CASE CommitRefused
    <2>1. /\ op.at = "commit" /\ ~OnDisk(op.id) /\ Goto("release")
          /\ UNCHANGED <<task, binding, reserved>>
      BY <1>8 DEF CommitRefused
    <2>2. /\ op' \in Submissions
          /\ op'.at = "release" /\ op'.key = op.key /\ op'.intent = op.intent /\ op'.id = op.id
      BY <2>1, GotoTyped DEF Steps
    <2>3. OpHolds'
      BY <1>4, <2>1, <2>2 DEF OpHolds, OnDisk
    <2> QED BY <1>5, <1>6, <2>1, <2>2, <2>3, TasksUnchanged, GivesBack
  <1>9. CASE CommitUnanswered
    <2>1. op.at = "commit" /\ Done /\ UNCHANGED <<binding, reserved>>
      BY <1>9 DEF CommitUnanswered
    <2>2. CASE UNCHANGED task
      BY <1>5, <1>6, <2>1, <2>2, TasksUnchanged, DoneHolds, GivesBack
    <2>3. CASE Committable /\ task' = Committed
      BY <2>1, <2>3, DoneHolds, Commits
    <2> QED BY <1>9, <2>2, <2>3 DEF CommitUnanswered
  <1>10. CASE Release
    <2>1. /\ op.at = "release" /\ Goto("unreserve") /\ UNCHANGED <<task, reserved>>
          /\ binding' = [binding EXCEPT ![op.id].state = "released"]
      BY <1>10 DEF Release, Disposed
    <2>2. op' \in Submissions /\ op'.at = "unreserve"
      BY <2>1, GotoTyped DEF Steps
    <2>3. OpHolds'
      BY <2>2 DEF OpHolds
    <2> QED BY <2>1, <2>2, <2>3, Releases
  <1>11. CASE ReleaseUnanswered
    <2>1. op.at = "release" /\ Done /\ UNCHANGED <<task, reserved>>
      BY <1>11 DEF ReleaseUnanswered
    <2>2. CASE binding' = binding
      BY <1>5, <1>6, <2>1, <2>2, TasksUnchanged, DoneHolds, GivesBack
    <2>3. CASE binding' = [binding EXCEPT ![op.id].state = "released"]
      BY <2>1, <2>3, DoneHolds, Releases
    <2> QED BY <1>11, <2>2, <2>3 DEF ReleaseUnanswered, Disposed
  <1>12. ASSUME op.at \in {"settle", "activate", "linked", "enqueue"}
         PROVE  op.id \in Tasks /\ task[op.id].form = "coordinated" /\ OnDisk(op.id)
    BY <1>12, OpNamed DEF IInv, OpHolds, OnDisk
  <1>13. CASE Settle
    <2>1. op.at = "settle" /\ Goto("activate") /\ UNCHANGED <<task, reserved>>
      BY <1>13 DEF Settle
    <2>2. op' \in Submissions /\ op'.at = "activate" /\ op'.id = op.id
      BY <2>1, GotoTyped DEF Steps
    <2>3. OpHolds'
      BY <1>12, <2>1, <2>2 DEF OpHolds
    <2>4. CASE binding' = [binding EXCEPT ![op.id].state = "settled"]
      BY <2>1, <2>2, <2>3, <2>4, DisposesOwn
    <2>5. CASE binding' = binding
      BY <1>5, <1>6, <2>1, <2>2, <2>3, <2>5, TasksUnchanged, GivesBack
    <2> QED BY <1>13, <2>4, <2>5 DEF Settle, Disposed
  <1>14. CASE SettleUnanswered
    <2>1. op.at = "settle" /\ Done /\ UNCHANGED <<task, reserved>>
      BY <1>14 DEF SettleUnanswered
    <2>2. CASE binding' = [binding EXCEPT ![op.id].state = "settled"]
      BY <2>1, <2>2, DoneHolds, DisposesOwn
    <2>3. CASE binding' = binding
      BY <1>5, <1>6, <2>1, <2>3, TasksUnchanged, DoneHolds, GivesBack
    <2> QED BY <1>14, <2>2, <2>3 DEF SettleUnanswered, Disposed
  <1>15. CASE Link
    <2>1. op.at = "activate" /\ Goto("linked") /\ UNCHANGED <<binding, reserved>>
      BY <1>15 DEF Link
    <2>2. op' \in Submissions /\ op'.at = "linked" /\ op'.id = op.id
      BY <2>1, GotoTyped DEF Steps
    <2>3. SameTasks
      BY <1>12, <1>15, <2>1, SameLinked DEF Link
    <2>4. OpHolds'
      BY <1>12, <2>1, <2>2, <2>3 DEF OpHolds, SameTasks
    <2> QED BY <1>5, <1>6, <2>1, <2>2, <2>3, <2>4, GivesBack
  <1>16. CASE FinishCancelled
    <2>1. op.at = "linked" /\ Goto("enqueue") /\ UNCHANGED <<binding, reserved>>
      BY <1>16 DEF FinishCancelled
    <2>2. op' \in Submissions /\ op'.at = "enqueue" /\ op'.id = op.id
      BY <2>1, GotoTyped DEF Steps
    <2>3. SameTasks
      BY <1>12, <1>16, <2>1, AloneKeepsTasks DEF FinishCancelled
    <2>4. OpHolds'
      BY <1>12, <2>1, <2>2, <2>3 DEF OpHolds, SameTasks
    <2> QED BY <1>5, <1>6, <2>1, <2>2, <2>3, <2>4, GivesBack
  <1>17. CASE Enqueue
    <2>1. op.at = "enqueue" /\ Done /\ UNCHANGED <<task, binding>>
      BY <1>17 DEF Enqueue
    <2>2. reserved' = reserved \/ reserved' = Dropped
      BY <1>17 DEF Enqueue
    <2>3. /\ reserved' \in [Keys -> Reservations]
          /\ \A k \in Keys : reserved'[k] \in {reserved[k], NoReservation}
      BY <1>5, <1>6, <2>1, <2>2, DroppedTyped
    <2> QED BY <2>1, <2>3, TasksUnchanged, DoneHolds, GivesBack
  <1> QED
    BY <1>1, <1>2, <1>3, <1>7, <1>8, <1>9, <1>10, <1>11, <1>13, <1>14, <1>15, <1>16, <1>17
    DEF OpStep

-----------------------------------------------------------------------------
(* The start of an admission. *)

\* What Continue decides, once the id is known to be the one to use.
LEMMA ContinueTyped ==
  ASSUME IInv, NEW k \in Keys, NEW i \in Intents, NEW t \in Tasks, Continue(k, i, t)
  PROVE  /\ op' \in Submissions
         /\ \/ op' = NoOp
            \/ Existing(k, i) = {} /\ op' = [at |-> "bind", key |-> k, intent |-> i, id |-> t]
            \/ /\ Existing(k, i) # {} /\ binding[t].intent = i
               /\ op' = [at |-> "commit", key |-> k, intent |-> i, id |-> t]
  BY DEF Continue, Done, Submissions, Steps

LEMMA ExistingBound ==
  ASSUME IInv, NEW k \in Keys, NEW i \in Intents, NEW t \in Existing(k, i)
  PROVE  /\ t \in Tasks /\ binding[t].key = k
         /\ OwnerOf[binding[t].intent] = OwnerOf[i]
         /\ binding[t].state \in {"bound", "settled", "terminal"}
  <1>1. /\ t \in Tasks /\ binding[t].key = k /\ binding[t].state # "released"
        /\ OwnerOf[binding[t].intent] = OwnerOf[i]
    BY DEF Existing, BindingsOf
  <1>2. binding[t].state # "none"
    BY <1>1, AdmissionConstants DEF IInv, Records, NoBinding
  <1> QED BY <1>1, <1>2 DEF IInv, Types, Bindings, BindingStates

LEMMA BeginHolds ==
  ASSUME IInv, NEW k \in Keys, NEW i \in Intents, Begin(k, i)
  PROVE  IInv'
  <1>1. UNCHANGED <<task, binding, startup, sweep>> /\ MayBegin(k, i)
    BY DEF Begin, diskVars, recoveryVars, BeginAdmitted, BeginReserved, BeginFresh
  <1>2. \A l \in Keys : reserved[l] \in {reserved[l], NoReservation}
    OBVIOUS
  <1>3. reserved \in [Keys -> Reservations]
    BY DEF IInv, Types
  <1>4. CASE BeginAdmitted(k, i)
    <2>1. PICK t \in Find(k) : /\ task[t].form = "coordinated" /\ task[t].intent = i
                               /\ Existing(k, i) \subseteq {t} /\ Continue(k, i, t)
      BY <1>4 DEF BeginAdmitted
    <2>2. t \in Tasks /\ task[t].key = k
      BY DEF Find
    <2>3. binding[t].key = k /\ binding[t].intent = i /\ binding[t].state # "released"
      BY <2>1, <2>2 DEF IInv, StoresAgree, OnDisk
    <2>4. t \in Existing(k, i)
      BY <2>2, <2>3 DEF Existing, BindingsOf
    <2>5. op' \in Submissions /\ OpHolds'
      BY <1>1, <2>1, <2>2, <2>3, <2>4, ContinueTyped, ExistingBound DEF OpHolds, NoOp
    <2>6. UNCHANGED reserved
      BY <1>4 DEF BeginAdmitted
    <2> QED BY <1>1, <1>2, <1>3, <2>5, <2>6, TasksUnchanged, GivesBack
  <1>5. CASE BeginReserved(k, i)
    <2> DEFINE t == reserved[k].id
    <2>1. /\ \A u \in Tasks : task[u].key # k
          /\ reserved[k].intent = i /\ Existing(k, i) \subseteq {t} /\ Continue(k, i, t)
          /\ UNCHANGED reserved
      BY <1>5 DEF BeginReserved, Find
    <2>2. reserved[k] # NoReservation /\ t \in Tasks /\ reserved[k] = [id |-> t, intent |-> i]
      BY <1>3, <2>1, AdmissionConstants DEF Reservations, NoReservation
    <2>3. ~OnDisk(t)
      BY <2>1, <2>2 DEF IInv, ReservationsHold
    <2>4. CASE Existing(k, i) = {}
      <3>1. t \notin BindingsOf(k, i)
        BY <1>1, <2>4 DEF MayBegin, Burnt
      <3>2. binding[t].state = "none"
        BY <2>1, <2>2, <3>1 DEF IInv, ReservationsHold, BindingsOf
      <3>3. op' \in Submissions /\ OpHolds'
        BY <1>1, <2>1, <2>2, <2>3, <2>4, <3>2, ContinueTyped DEF OpHolds, NoOp, Own, OnDisk
      <3> QED BY <1>1, <1>2, <1>3, <2>1, <3>3, TasksUnchanged, GivesBack
    <2>5. CASE Existing(k, i) # {}
      <3>1. t \in Existing(k, i)
        BY <2>1, <2>5
      <3>2. op' \in Submissions /\ OpHolds'
        BY <1>1, <2>1, <2>2, <2>5, <3>1, ContinueTyped, ExistingBound DEF OpHolds, NoOp
      <3> QED BY <1>1, <1>2, <1>3, <2>1, <3>2, TasksUnchanged, GivesBack
    <2> QED BY <2>4, <2>5
  <1>6. CASE BeginFresh(k, i)
    <2>1. /\ \A u \in Tasks : task[u].key # k
          /\ reserved[k] = NoReservation
      BY <1>6 DEF BeginFresh, Find
    <2>2. PICK t \in IF Existing(k, i) = {} THEN Unused ELSE Existing(k, i) :
            /\ reserved' = [reserved EXCEPT ![k] = [id |-> t, intent |-> i]]
            /\ Continue(k, i, t)
      BY <1>6 DEF BeginFresh
    <2>3. t \in Tasks
      BY <2>2, ExistingBound DEF Unused
    <2>4. /\ reserved' \in [Keys -> Reservations]
          /\ reserved'[k] = [id |-> t, intent |-> i]
          /\ \A l \in Keys : l # k => reserved'[l] = reserved[l]
      BY <1>3, <2>2, <2>3 DEF Reservations
    <2>5. ~OnDisk(t) /\ \A l \in Keys : reserved[l].id = t => l = k
      <3>1. CASE Existing(k, i) = {}
        <4>1. t \in Unused
          BY <2>2, <3>1
        <4>2. ~OnDisk(t) /\ t \notin ReservedIds
          BY <4>1 DEF Unused
        <4> QED BY <2>3, <4>2, AdmissionConstants DEF ReservedIds
      <3>2. CASE Existing(k, i) # {}
        <4>1. t \in Existing(k, i)
          BY <2>2, <3>2
        <4>2. binding[t].key = k /\ binding[t].state \in {"bound", "settled", "terminal"}
          BY <4>1, ExistingBound
        <4>3. ~OnDisk(t)
          <5>1. task[t].form \in {"none", "plain", "coordinated"}
            BY <2>3 DEF IInv, Types, Task, Forms
          <5> QED BY <2>1, <2>3, <4>2, <5>1 DEF IInv, Records, StoresAgree, OnDisk
        <4>4. \A l \in Keys : reserved[l].id = t => l = k
          BY <2>3, <4>2, AdmissionConstants DEF IInv, ReservationsHold, NoReservation
        <4> QED BY <4>3, <4>4
      <3> QED BY <3>1, <3>2
    <2>6. binding[t].state # "none" =>
            binding[t].key = k /\ OwnerOf[binding[t].intent] = OwnerOf[i]
      BY <2>2, ExistingBound DEF Unused
    <2>7. ReservationsHold'
      <3>1. \A l \in Keys : l # k => reserved'[l].id # t
        BY <2>4, <2>5
      <3> QED BY <1>1, <2>4, <2>5, <2>6, <3>1 DEF IInv, ReservationsHold, OnDisk
    <2>8. op' \in Submissions /\ OpHolds'
      <3>1. CASE Existing(k, i) = {}
        <4>1. binding[t].state = "none"
          BY <2>2, <3>1 DEF Unused
        <4> QED BY <1>1, <2>2, <2>3, <2>4, <2>5, <3>1, <4>1, ContinueTyped
            DEF OpHolds, NoOp, Own, OnDisk
      <3>2. CASE Existing(k, i) # {}
        <4>1. t \in Existing(k, i)
          BY <2>2, <3>2
        <4> QED BY <1>1, <2>2, <2>3, <3>2, <4>1, ContinueTyped, ExistingBound DEF OpHolds, NoOp
      <3> QED BY <3>1, <3>2
    <2>9. Types'
      BY <1>1, <2>4, <2>8 DEF IInv, Types
    <2>10. Records' /\ OneTaskPerKey' /\ StoresAgree' /\ SweepsHold'
      BY <1>1, TasksUnchanged, StoresKept, SweepsKept
    <2> QED BY <2>7, <2>8, <2>9, <2>10 DEF IInv
  <1> QED BY <1>4, <1>5, <1>6 DEF Begin

-----------------------------------------------------------------------------
(* Plain submissions, the queue, recovery, and the service's own life. *)

LEMMA QuietHolds ==
  ASSUME IInv, UNCHANGED <<task, binding, reserved, op, startup, sweep>>
  PROVE  IInv'
  BY TasksUnchanged, TasksOnly

LEMMA SubmitHolds ==
  ASSUME IInv, NEW k \in Keys, NEW i \in Intents, Submit(k, i) \/ SubmitUnanswered(k, i)
  PROVE  IInv'
  <1>1. UNCHANGED <<binding, reserved, op, startup, sweep>>
    BY DEF Submit, SubmitUnanswered, recoveryVars, admissionVars
  <1>2. PICK t \in Unused : task' = [task EXCEPT ![t] = NewTask("plain", k, i)]
    BY DEF Submit, SubmitUnanswered
  <1>3. \A u \in Tasks : task[u].key # k
    BY DEF Submit, SubmitUnanswered, Find
  <1>4. t \in Tasks /\ ~OnDisk(t) /\ binding[t].state = "none" /\ t \notin ReservedIds
    BY DEF Unused
  <1>5. /\ task' \in [Tasks -> Task]
        /\ task'[t].form = "plain" /\ task'[t].key = k /\ task'[t].intent = i
        /\ \A u \in Tasks : u # t => task'[u] = task[u]
    BY <1>2, <1>4 DEF IInv, Types, NewTask, NoTask, Task, Forms, Phases
  <1>6. Types'
    BY <1>1, <1>5 DEF IInv, Types
  <1>7. Records' /\ OneTaskPerKey' /\ StoresAgree'
    BY <1>1, <1>3, <1>4, <1>5 DEF IInv, Records, OneTaskPerKey, StoresAgree, OnDisk
  <1>8. \A l \in Keys : reserved[l] # NoReservation =>
          reserved[l].id \in Tasks /\ reserved[l].id # t
    BY <1>4, AdmissionConstants DEF IInv, Types, Reservations, NoReservation, ReservedIds
  <1>9. ReservationsHold'
    BY <1>1, <1>5, <1>8 DEF IInv, ReservationsHold, OnDisk
  <1>10. OpHolds'
    <2>1. op.at # "none" => op.id \in Tasks /\ op.key \in Keys
      BY OpNamed
    <2>2. op.at = "bind" => op.id # t
      BY <1>8, <2>1, AdmissionConstants DEF IInv, OpHolds, Own, NoReservation
    <2>3. op.at \in {"release", "settle", "activate", "linked", "enqueue"} => op.id # t
      BY <1>4 DEF IInv, OpHolds, OnDisk
    <2> QED BY <1>1, <1>5, <2>1, <2>2, <2>3 DEF IInv, OpHolds, OnDisk, Own
  <1>11. SweepsHold'
    <2>1. \A j \in DOMAIN startup : startup[j] \in Tasks
      BY DEF IInv, Types
    <2>2. \A s \in Sweeps : sweep[s] # Idle => sweep[s].task \in Tasks
      BY DEF IInv, Types, Sweeping
    <2> QED BY <1>1, <1>4, <1>5, <2>1, <2>2 DEF IInv, SweepsHold, OnDisk
  <1> QED BY <1>6, <1>7, <1>9, <1>10, <1>11 DEF IInv

LEMMA QueueHolds ==
  ASSUME IInv, QueueStep
  PROVE  IInv'
  <1>1. UNCHANGED <<binding, reserved, op, startup, sweep>>
    BY DEF QueueStep, recoveryVars, admissionVars
  <1>2. CASE Pump \/ PumpCleared
    BY <1>1, <1>2, QuietHolds DEF Pump, PumpCleared, diskVars
  <1>3. ASSUME NEW t \in Tasks, RunStep(t) PROVE IInv'
    <2>1. CASE LeaveRun(t)
      BY <1>1, <2>1, QuietHolds DEF LeaveRun, diskVars
    <2>2. ASSUME task[t].phase # "none" PROVE OnDisk(t)
      BY <2>2 DEF IInv, Records, NoTask
    <2>3. CASE StartWorker(t)
      <3>1. SameTasks
        <4>1. /\ task' = [task EXCEPT ![t].phase = "running", ![t].native = TRUE]
              /\ task[t].phase = "queued"
          BY <2>3 DEF StartWorker
        <4>2. task[t] \in Task /\ "running" \in Phases
          BY DEF IInv, Types, Phases
        <4>3. task' = [task EXCEPT ![t] = [task[t] EXCEPT !.phase = "running", !.native = TRUE]]
          BY <4>1, <4>2 DEF IInv, Types
        <4> QED BY <2>2, <4>1, <4>2, <4>3, SameRecord, OneChanged
      <3> QED BY <1>1, <3>1, TasksOnly
    <2>4. CASE SettleRun(t)
      BY <1>1, <2>2, <2>4, SamePhase, TasksOnly DEF SettleRun, Phases
    <2>5. CASE FreezeRun(t)
      BY <1>1, <2>2, <2>5, SamePhase, TasksOnly DEF FreezeRun, Phases
    <2> QED BY <1>3, <2>1, <2>3, <2>4, <2>5 DEF RunStep
  <1> QED BY <1>2, <1>3 DEF QueueStep

\* What a sweep takes up next is in the queue.
LEMMA NextSwept ==
  ASSUME IInv, NEW q \in Seq(Tasks),
         \A j \in DOMAIN q : task[q[j]].form = "coordinated"
  PROVE  /\ NextOf(q) \in {Idle} \cup Sweeping
         /\ NextOf(q) # Idle => task[NextOf(q).task].form = "coordinated"
  BY DEF NextOf, Sweeping

LEMMA SweepHolds ==
  ASSUME IInv, NEW s \in Sweeps, SweepOn(s), UNCHANGED <<reserved, op>>
  PROVE  IInv'
  <1> DEFINE t == sweep[s].task
  <1>1. /\ sweep[s] \in Sweeping
        /\ t \in Tasks /\ task[t].form = "coordinated" /\ OnDisk(t)
    <2>1. sweep[s] # Idle
      BY DEF SweepOn, SweepRead, SweepSettle, SweepLink, SweepCancel, SweepClose, Idle
    <2> QED BY <2>1 DEF IInv, Types, SweepsHold, Sweeping, OnDisk
  <1>2. binding[t].state \in {"bound", "settled", "terminal"}
    <2>1. binding[t].state # "none"
      BY <1>1, AdmissionConstants DEF IInv, Records, StoresAgree, NoBinding
    <2> QED BY <1>1, <2>1 DEF IInv, Types, Bindings, BindingStates, StoresAgree
  <1>3. ASSUME NEW at \in {"settle", "link", "cancel", "close"}, SweepGoto(s, at)
        PROVE  /\ sweep' \in [Sweeps -> {Idle} \cup Sweeping]
               /\ sweep'[s].task = t
               /\ \A r \in Sweeps : r # s => sweep'[r] = sweep[r]
    BY <1>1, <1>3 DEF SweepGoto, IInv, Types, Sweeping
  <1>4. ASSUME NEW at \in {"settle", "link", "cancel", "close"}, SweepGoto(s, at),
               SameTasks, UNCHANGED <<binding, startup>>
        PROVE  IInv'
    <2>1. Types'
      BY <1>3, <1>4 DEF IInv, Types, SameTasks
    <2>2. SweepsHold'
      <3>1. \A j \in DOMAIN startup : startup[j] \in Tasks
        BY DEF IInv, Types
      <3>2. \A r \in Sweeps : sweep[r] # Idle => sweep[r].task \in Tasks
        BY DEF IInv, Types, Sweeping
      <3> QED BY <1>1, <1>3, <1>4, <3>1, <3>2 DEF IInv, SweepsHold, SameTasks
    <2> QED BY <1>4, <2>1, <2>2, StoresKept, ReservationsKept, OpKept DEF IInv
  <1>5. CASE SweepRead(s)
    <2>1. UNCHANGED <<task, binding, startup>>
      BY <1>5 DEF SweepRead
    <2>2. PICK at \in {"settle", "link", "cancel", "close"} : SweepGoto(s, at)
      BY <1>5 DEF SweepRead
    <2> QED BY <1>4, <2>1, <2>2, TasksUnchanged
  <1>6. CASE SweepSettle(s)
    <2>1. /\ UNCHANGED <<task, startup>> /\ SweepGoto(s, "link")
          /\ binding' = [binding EXCEPT ![t].state = IF @ = "bound" THEN "settled" ELSE @]
      BY <1>6 DEF SweepSettle
    <2>2. PICK b \in {"bound", "settled", "terminal"} :
            binding' = [binding EXCEPT ![t].state = b]
      BY <1>2, <2>1
    <2>3. /\ binding' \in [Tasks -> Bindings] /\ OpHolds'
          /\ Records' /\ OneTaskPerKey' /\ StoresAgree' /\ ReservationsHold'
      BY <1>1, <2>1, <2>2, Disposes
    <2>4. Types' /\ SweepsHold'
      BY <1>1, <1>3, <2>1, <2>3 DEF IInv, Types, SweepsHold
    <2> QED BY <2>3, <2>4 DEF IInv
  <1>7. CASE SweepLink(s)
    <2>1. SameTasks
      BY <1>1, <1>7, SameLinked DEF SweepLink
    <2> QED BY <1>4, <1>7, <2>1 DEF SweepLink
  <1>8. CASE SweepCancel(s)
    <2>1. PICK p \in Phases : task' = [task EXCEPT ![t].phase = p]
      <3>1. task[t].phase \in Phases
        BY <1>1 DEF IInv, Types, Task
      <3> QED BY <1>8, <3>1 DEF SweepCancel, Phases
    <2>2. SameTasks
      BY <1>1, <2>1, SamePhase
    <2> QED BY <1>4, <1>8, <2>2 DEF SweepCancel
  <1>9. CASE SweepClose(s)
    <2>1. /\ UNCHANGED task
          /\ startup' = IF startup = <<>> THEN startup ELSE Tail(startup)
          /\ sweep' = [sweep EXCEPT ![s] = NextOf(startup')]
      BY <1>9 DEF SweepClose
    <2>2. PICK b \in {"bound", "settled", "terminal"} :
            binding' = [binding EXCEPT ![t].state = b]
      BY <1>2, <1>9 DEF SweepClose
    <2>3. /\ binding' \in [Tasks -> Bindings] /\ OpHolds'
          /\ Records' /\ OneTaskPerKey' /\ StoresAgree' /\ ReservationsHold'
      BY <1>1, <2>1, <2>2, Disposes
    <2>4. /\ startup' \in Seq(Tasks)
          /\ \A j \in DOMAIN startup' : task[startup'[j]].form = "coordinated"
      <3>1. startup \in Seq(Tasks) /\ \A j \in DOMAIN startup : task[startup[j]].form = "coordinated"
        BY DEF IInv, Types, SweepsHold
      <3> QED BY <2>1, <3>1
    <2>5. Types' /\ SweepsHold'
      <3>1. /\ NextOf(startup') \in {Idle} \cup Sweeping
            /\ NextOf(startup') # Idle => task[NextOf(startup').task].form = "coordinated"
        BY <2>4, NextSwept
      <3>2. /\ sweep' \in [Sweeps -> {Idle} \cup Sweeping]
            /\ sweep'[s] = NextOf(startup')
            /\ \A r \in Sweeps : r # s => sweep'[r] = sweep[r]
        BY <2>1, <3>1 DEF IInv, Types
      <3>3. Types'
        BY <2>1, <2>3, <2>4, <3>2 DEF IInv, Types
      <3>4. SweepsHold'
        BY <2>1, <2>4, <3>1, <3>2 DEF IInv, SweepsHold
      <3> QED BY <3>3, <3>4
    <2> QED BY <2>3, <2>5 DEF IInv
  <1> QED BY <1>5, <1>6, <1>7, <1>8, <1>9 DEF SweepOn

LEMMA DispatchHolds ==
  ASSUME IInv, NEW t \in Tasks, Cancel(t) \/ DispatchStep(t), UNCHANGED <<reserved, op>>
  PROVE  IInv'
  <1>1. CASE Cancel(t)
    <2>1. OnDisk(t) /\ UNCHANGED <<binding, startup, sweep>>
      BY <1>1 DEF Cancel
    <2>2. SameTasks
      <3>1. CASE task' = task
        BY <3>1, TasksUnchanged
      <3>2. CASE task' = [task EXCEPT ![t].cancel = TRUE, ![t].phase = "stopping"]
        <4>1. task[t] \in Task /\ "stopping" \in Phases
          BY DEF IInv, Types, Phases
        <4>2. task' = [task EXCEPT ![t] = [task[t] EXCEPT !.cancel = TRUE, !.phase = "stopping"]]
          BY <3>2, <4>1 DEF IInv, Types
        <4> QED BY <2>1, <4>1, <4>2, SameRecord, OneChanged
      <3> QED BY <1>1, <3>1, <3>2 DEF Cancel
    <2> QED BY <2>1, <2>2, TasksOnly
  <1>2. CASE DispatchToEntry(t) \/ DispatchFindsNone(t) \/ DispatchDetached(t) \/ DispatchMissed(t)
    BY <1>2, QuietHolds
    DEF DispatchToEntry, DispatchFindsNone, DispatchDetached, DispatchMissed, AbortEntry, diskVars
  <1>3. ASSUME NEW p \in Phases \cup {task[t].phase}, task' = [task EXCEPT ![t].phase = p],
               OnDisk(t) \/ p = task[t].phase
        PROVE  SameTasks
    BY <1>3 DEF IInv, Types, SameTasks, Task
  <1>4. CASE DispatchAlone(t)
    <2>1. UNCHANGED <<binding, startup, sweep>> /\ CancelledAlone(t)
      BY <1>4 DEF DispatchAlone
    <2>2. CASE OnDisk(t)
      BY <2>1, <2>2, AloneKeepsTasks, TasksOnly
    <2>3. CASE ~OnDisk(t)
      <3>1. ~(task[t].cancel /\ NeverStarted(t))
        BY <2>3 DEF NeverStarted, Unsettled
      <3>2. task' = [task EXCEPT ![t].phase = task[t].phase]
        BY <2>1, <3>1 DEF CancelledAlone
      <3> QED BY <1>3, <2>1, <3>2, TasksOnly
    <2> QED BY <2>2, <2>3
  <1>5. CASE DispatchSettle(t)
    <2>1. UNCHANGED <<binding, startup, sweep>>
      BY <1>5 DEF DispatchSettle
    <2>2. \/ OnDisk(t) /\ task' = [task EXCEPT ![t].phase = "terminal"]
          \/ task' = [task EXCEPT ![t].phase = task[t].phase]
      BY <1>5 DEF DispatchSettle, Unsettled
    <2> QED BY <1>3, <2>1, <2>2, TasksOnly DEF Phases
  <1>6. CASE DispatchSweep(t)
    <2>1. /\ UNCHANGED <<task, binding>> /\ task[t].form = "coordinated"
          /\ startup' = IF t \in ToSet(startup) THEN startup ELSE Append(startup, t)
          /\ sweep' = [sweep EXCEPT ![t] = NextOf(startup')]
      BY <1>6 DEF DispatchSweep, diskVars
    <2>2. startup \in Seq(Tasks) /\ \A j \in DOMAIN startup : task[startup[j]].form = "coordinated"
      BY DEF IInv, Types, SweepsHold
    <2>3. /\ startup' \in Seq(Tasks)
          /\ \A j \in DOMAIN startup' : task[startup'[j]].form = "coordinated"
      BY <2>1, <2>2
    <2>4. /\ NextOf(startup') \in {Idle} \cup Sweeping
          /\ NextOf(startup') # Idle => task[NextOf(startup').task].form = "coordinated"
      BY <2>3, NextSwept
    <2>5. /\ sweep' \in [Sweeps -> {Idle} \cup Sweeping]
          /\ sweep'[t] = NextOf(startup')
          /\ \A r \in Sweeps : r # t => sweep'[r] = sweep[r]
      BY <2>1, <2>4 DEF IInv, Types, Sweeps
    <2>6. Types'
      BY <2>1, <2>3, <2>5 DEF IInv, Types
    <2>7. SweepsHold'
      BY <2>1, <2>3, <2>4, <2>5 DEF IInv, SweepsHold
    <2> QED BY <2>1, <2>6, <2>7, TasksUnchanged, StoresKept, ReservationsKept, OpKept DEF IInv
  <1> QED BY <1>1, <1>2, <1>4, <1>5, <1>6 DEF DispatchStep

LEMMA SweepFailsHolds ==
  ASSUME IInv, SweepFails, UNCHANGED <<reserved, op>>
  PROVE  IInv'
  <1>1. PICK s \in Sweeps : sweep' = [sweep EXCEPT ![s] = Idle]
    BY DEF SweepFails
  <1>2. UNCHANGED <<task, binding, startup>>
    BY DEF SweepFails, diskVars
  <1>3. /\ sweep' \in [Sweeps -> {Idle} \cup Sweeping]
        /\ \A r \in Sweeps : sweep'[r] # Idle => sweep'[r] = sweep[r]
    BY <1>1 DEF IInv, Types
  <1>4. Types' /\ SweepsHold'
    BY <1>2, <1>3 DEF IInv, Types, SweepsHold
  <1> QED BY <1>2, <1>4, TasksUnchanged, StoresKept, ReservationsKept, OpKept DEF IInv

LEMMA TerminalBindingHolds ==
  ASSUME IInv, NEW t \in Tasks, TerminalBinding(t)
  PROVE  IInv'
  <1>1. /\ UNCHANGED <<task, reserved, op, startup, sweep>>
        /\ task[t].phase = "terminal" /\ binding[t].state = "settled"
        /\ binding' = [binding EXCEPT ![t].state = "terminal"]
    BY DEF TerminalBinding, diskVars, admissionVars
  <1>2. task[t].form = "coordinated"
    <2>1. task[t].form \in {"none", "plain", "coordinated"}
      BY DEF IInv, Types, Task, Forms
    <2> QED BY <1>1, <2>1 DEF IInv, Records, OnDisk, NoTask
  <1>3. /\ binding' \in [Tasks -> Bindings] /\ OpHolds'
        /\ Records' /\ OneTaskPerKey' /\ StoresAgree' /\ ReservationsHold'
    BY <1>1, <1>2, Disposes
  <1>4. Types' /\ SweepsHold'
    BY <1>1, <1>3, TasksUnchanged, SweepsKept DEF IInv, Types
  <1> QED BY <1>3, <1>4 DEF IInv

\* A death loses what was in memory: reservations, the admission, the sweeps.
LEMMA CrashHolds ==
  ASSUME IInv, Crash
  PROVE  IInv'
  <1>1. /\ UNCHANGED <<task, binding>> /\ Done
        /\ startup' = <<>> /\ sweep' = [s \in Sweeps |-> Idle]
        /\ reserved' = [k \in Keys |-> NoReservation]
    BY DEF Crash, diskVars, Done
  <1>2. op' \in Submissions /\ OpHolds'
    BY <1>1, DoneHolds
  <1>3. Types' /\ SweepsHold' /\ ReservationsHold'
    BY <1>1, <1>2 DEF IInv, Types, SweepsHold, ReservationsHold, Reservations
  <1> QED BY <1>1, <1>2, <1>3, TasksUnchanged, StoresKept DEF IInv

LEMMA ReconciledSame ==
  ASSUME NEW r \in Task
  PROVE  /\ SameTask(Reconciled(r), r)
         /\ r.form = "none" => Reconciled(r) = r
  <1> DEFINE stays == [r EXCEPT !.phase = "attention", !.recovered = FALSE]
             queued == [r EXCEPT !.phase = "attention", !.recovered = TRUE]
             native == [r EXCEPT !.phase = "attention", !.recovered = FALSE, !.native = TRUE]
  <1>1. SameTask(stays, r) /\ SameTask(queued, r) /\ SameTask(native, r)
    <2>1. "attention" \in Phases
      BY DEF Phases
    <2> QED BY <2>1, SameRecord
  <1>2. Reconciled(r) \in {r, stays, queued, native}
    BY DEF Reconciled
  <1>3. r.form = "none" => Reconciled(r) = r
    BY DEF Reconciled
  <1> HIDE DEF stays, queued, native
  <1> QED BY <1>1, <1>2, <1>3 DEF SameTask

\* The next service finds every record where the last one left it.
LEMMA RestartHolds ==
  ASSUME IInv, Restart
  PROVE  IInv'
  <1> DEFINE S == {t \in Tasks : /\ task[t].form = "coordinated"
                                 /\ \/ ~task[t].link \/ task[t].phase = "terminal"
                                    \/ CancelRetained(task[t])}
  <1>1. /\ task' = [t \in Tasks |-> Reconciled(task[t])]
        /\ startup' \in SetToSeqs(S)
        /\ sweep' = [sweep EXCEPT ![Boot] = NextOf(startup')]
        /\ UNCHANGED <<binding, reserved, op>>
    BY DEF Restart
  <1>2. \A t \in Tasks : /\ Reconciled(task[t]) \in Task
                         /\ Reconciled(task[t]).form = task[t].form
                         /\ Reconciled(task[t]).key = task[t].key
                         /\ Reconciled(task[t]).intent = task[t].intent
                         /\ ~OnDisk(t) => Reconciled(task[t]) = task[t]
    <2> SUFFICES ASSUME NEW t \in Tasks
                 PROVE  /\ Reconciled(task[t]) \in Task
                        /\ Reconciled(task[t]).form = task[t].form
                        /\ Reconciled(task[t]).key = task[t].key
                        /\ Reconciled(task[t]).intent = task[t].intent
                        /\ ~OnDisk(t) => Reconciled(task[t]) = task[t]
      OBVIOUS
    <2>1. task[t] \in Task
      BY DEF IInv, Types
    <2> QED BY <2>1, ReconciledSame DEF OnDisk, SameTask
  <1>3. SameTasks
    BY <1>1, <1>2 DEF SameTasks
  <1>4. startup' \in Seq(Tasks) /\ \A j \in DOMAIN startup' : startup'[j] \in S
    <2>1. Cardinality(S) \in Nat
      BY FS_Subset, FS_CardinalityType, AdmissionConstants
    <2>2. startup' \in [1 .. Cardinality(S) -> S]
      BY <1>1 DEF SetToSeqs
    <2> HIDE DEF S
    <2>3. startup' \in Seq(S)
      BY <2>1, <2>2
    <2>4. \A j \in DOMAIN startup' : startup'[j] \in S
      BY <2>2
    <2>5. S \subseteq Tasks
      BY DEF S
    <2> QED BY <2>3, <2>4, <2>5
  <1>5. \A j \in DOMAIN startup' : task[startup'[j]].form = "coordinated"
    BY <1>4
  <1>6. /\ NextOf(startup') \in {Idle} \cup Sweeping
        /\ NextOf(startup') # Idle => task[NextOf(startup').task].form = "coordinated"
    BY <1>4, <1>5, NextSwept
  <1>7. /\ sweep' \in [Sweeps -> {Idle} \cup Sweeping]
        /\ \A r \in Sweeps : sweep'[r] = NextOf(startup') \/ sweep'[r] = sweep[r]
    BY <1>1, <1>6 DEF IInv, Types, Sweeps
  <1>8. Types'
    BY <1>1, <1>3, <1>4, <1>7 DEF IInv, Types, SameTasks
  <1>9. SweepsHold'
    <2>1. \A r \in Sweeps : sweep'[r] # Idle =>
            sweep'[r].task \in Tasks /\ task[sweep'[r].task].form = "coordinated"
      BY <1>6, <1>7 DEF IInv, Types, SweepsHold, Sweeping
    <2>2. \A j \in DOMAIN startup' : startup'[j] \in Tasks
      BY <1>4
    <2> QED BY <1>3, <1>5, <2>1, <2>2 DEF SweepsHold, SameTasks
  <1> QED BY <1>1, <1>3, <1>8, <1>9, StoresKept, ReservationsKept, OpKept DEF IInv

-----------------------------------------------------------------------------

LEMMA NextHolds == IInv /\ [Next]_vars => IInv'
  <1> SUFFICES ASSUME IInv, [Next]_vars PROVE IInv'
    OBVIOUS
  <1>1. CASE UNCHANGED vars
    BY <1>1, QuietHolds DEF vars, diskVars, recoveryVars, admissionVars
  <1>2. CASE Client
    <2>1. CASE Compose \/ CloseAdmission
      BY <2>1, QuietHolds DEF Compose, CloseAdmission, diskVars, recoveryVars, admissionVars
    <2>2. ASSUME NEW k \in Keys, NEW i \in Intents,
                 Submit(k, i) \/ SubmitUnanswered(k, i) \/ Begin(k, i)
          PROVE  IInv'
      BY <2>2, SubmitHolds, BeginHolds
    <2> QED BY <1>2, <2>1, <2>2 DEF Client
  <1>3. CASE OpStep
    BY <1>3, OpStepHolds
  <1>4. CASE QueueStep
    BY <1>4, QueueHolds
  <1>5. CASE RecoveryStep
    <2>1. UNCHANGED <<reserved, op>>
      BY <1>5 DEF RecoveryStep, admissionVars
    <2> QED BY <1>5, <2>1, SweepHolds, SweepFailsHolds, DispatchHolds DEF RecoveryStep, SweepStep
  <1>6. CASE \E t \in Tasks : TerminalBinding(t)
    BY <1>6, TerminalBindingHolds
  <1>7. CASE Crash
    BY <1>7, CrashHolds
  <1>8. CASE Restart
    BY <1>8, RestartHolds
  <1> QED BY <1>1, <1>2, <1>3, <1>4, <1>5, <1>6, <1>7, <1>8 DEF Next

\* What an admission publishes, and in which order, holds of every reachable
\* state: the strengthening the two theorems below rest on.
THEOREM AdmissionInvariant == Spec => []IInv
  BY InitHolds, NextHolds, PTL DEF Spec

\* However submissions, retries, lost replies, cancellations and deaths of the
\* service mix (Coordinator.submit and submitCoordinated), one request key never
\* names two tasks.
THEOREM KeysAreUnique == Spec => []OneTaskPerKey
  <1>1. IInv => OneTaskPerKey
    BY DEF IInv
  <1> QED BY <1>1, AdmissionInvariant, PTL

\* The metadata's bindings and the task store never contradict each other, at
\* any point at which an admission or its recovery may be cut off.
THEOREM StoresNeverDisagree == Spec => []StoresAgree
  <1>1. IInv => StoresAgree
    BY DEF IInv
  <1> QED BY <1>1, AdmissionInvariant, PTL

-----------------------------------------------------------------------------
(* The queue, the slots and the links. *)

Final == {"settled", "terminal"}

QueueTypes ==
  /\ queue \in Seq(Tasks)
  /\ stage \in [Tasks -> {"none", "queued", "running", "settling"}]

\* The queue holds what is queued, and only what was published has an entry.
EntriesHold ==
  /\ \A i \in DOMAIN queue : stage[queue[i]] = "queued"
  /\ \A t \in Tasks : stage[t] # "none" \/ t \in started => OnDisk(t)

\* No entry stands in the queue twice, and none that is queued has left it.
QueueExact ==
  /\ \A i, j \in DOMAIN queue : queue[i] = queue[j] => i = j
  /\ \A t \in Tasks : Queued(t) => \E i \in DOMAIN queue : queue[i] = t

\* A link is settled after its binding, and before its task is queued or ends.
LinksHold ==
  \A t \in Tasks : task[t].form = "coordinated" =>
    /\ task[t].link => binding[t].state \in Final
    /\ stage[t] # "none" \/ t \in started \/ task[t].phase = "terminal" => task[t].link

\* Whoever is about to settle a link has settled the binding, and whoever is
\* about to go on from it has settled the link.
WaysHold ==
  /\ op.at \in {"activate", "linked", "enqueue"} => binding[op.id].state \in Final
  /\ op.at \in {"linked", "enqueue"} => task[op.id].link
  /\ \A s \in Sweeps :
       /\ sweep[s].at = "link" => binding[sweep[s].task].state \in Final
       /\ sweep[s].at = "cancel" => task[sweep[s].task].link

Used == ReservedIds \cup {t \in Tasks : Unsettled(t)}
Slots == {t \in Tasks : stage[t] = "running"}

QInv ==
  /\ IInv
  /\ QueueTypes
  /\ EntriesHold
  /\ QueueExact
  /\ LinksHold
  /\ WaysHold
  /\ CapacityKept
  /\ NoLostKick

\* What a step may make of a published record r: the link is settled after the
\* binding, a coordinated task ends linked, and what ended stays ended.
Moves(r, q, b) ==
  /\ q.form = r.form /\ q.key = r.key /\ q.intent = r.intent
  /\ r.link => q.link
  /\ q.link /\ ~r.link => b \in Final
  /\ q.form = "coordinated" /\ q.phase = "terminal" /\ r.phase # "terminal" => r.link
  /\ q.phase # "terminal" => r.phase # "terminal"

\* A task that was not reserved is admitted alone, where there was room for it.
Admitted(t) ==
  /\ HasRoom
  /\ UNCHANGED reserved
  /\ \A u \in Tasks \ {t} : task'[u] = task[u]

TasksMove ==
  \A t \in Tasks :
    /\ OnDisk(t) => Moves(task[t], task'[t], binding'[t].state)
    /\ ~OnDisk(t) => /\ ~task'[t].link /\ task'[t].phase # "terminal"
                     /\ task'[t].form # "none" => t \in ReservedIds \/ Admitted(t)
    /\ binding[t].state \in Final => binding'[t].state \in Final

\* Only published tasks are given an entry or started, and only linked ones.
StagesMove ==
  \A t \in Tasks :
    stage'[t] # "none" \/ t \in started' =>
      \/ stage[t] # "none" \/ t \in started
      \/ task'[t].form # "none" /\ (task'[t].form = "coordinated" => task'[t].link)

LEMMA LinksKept ==
  ASSUME QInv, TasksMove, StagesMove
  PROVE  /\ LinksHold'
         /\ \A t \in Tasks : stage'[t] # "none" \/ t \in started' => OnDisk(t)'
  <1>1. \A t \in Tasks : ~OnDisk(t) => /\ ~task[t].link /\ task[t].phase # "terminal"
                                       /\ stage[t] = "none" /\ t \notin started
    BY DEF QInv, IInv, Records, NoTask, EntriesHold
  <1>2. \A t \in Tasks : OnDisk(t) => OnDisk(t)'
    BY DEF TasksMove, Moves, OnDisk
  <1>3. ASSUME NEW t \in Tasks, task'[t].form = "coordinated"
        PROVE  /\ task'[t].link => binding'[t].state \in Final
               /\ stage'[t] # "none" \/ t \in started' \/ task'[t].phase = "terminal" => task'[t].link
    <2>1. CASE OnDisk(t)
      <3>1. Moves(task[t], task'[t], binding'[t].state)
        BY <2>1 DEF TasksMove
      <3>2. task[t].form = "coordinated"
        BY <1>3, <3>1 DEF Moves
      <3>3. task[t].link => task'[t].link /\ binding'[t].state \in Final
        BY <3>1, <3>2 DEF Moves, QInv, LinksHold, TasksMove
      <3>4. stage[t] # "none" \/ t \in started \/ task[t].phase = "terminal" => task[t].link
        BY <3>2 DEF QInv, LinksHold
      <3> QED BY <1>3, <3>1, <3>3, <3>4 DEF Moves, StagesMove
    <2>2. CASE ~OnDisk(t)
      BY <1>1, <1>3, <2>2 DEF TasksMove, StagesMove
    <2> QED BY <2>1, <2>2
  <1>4. \A t \in Tasks : stage'[t] # "none" \/ t \in started' => OnDisk(t)'
    BY <1>2 DEF StagesMove, QInv, EntriesHold, OnDisk
  <1> QED BY <1>3, <1>4 DEF LinksHold

\* A step that leaves every record as it was.
LEMMA TasksStay ==
  ASSUME QInv, UNCHANGED task,
         \A t \in Tasks : binding[t].state \in Final => binding'[t].state \in Final
  PROVE  TasksMove
  BY DEF TasksMove, Moves, QInv, IInv, Records, NoTask, OnDisk

LEMMA OneMoves ==
  ASSUME QInv, NEW t \in Tasks, NEW r, OnDisk(t), task' = [task EXCEPT ![t] = r],
         UNCHANGED binding, Moves(task[t], r, binding[t].state)
  PROVE  TasksMove
  <1>1. task'[t] = r /\ \A u \in Tasks : u # t => task'[u] = task[u]
    BY DEF QInv, IInv, Types
  <1>2. \A u \in Tasks : u # t => /\ OnDisk(u) => Moves(task[u], task'[u], binding'[u].state)
                                  /\ ~OnDisk(u) => /\ task'[u].form = "none" /\ ~task'[u].link
                                                   /\ task'[u].phase # "terminal"
    BY <1>1 DEF Moves, QInv, IInv, Records, NoTask
  <1> QED BY <1>1, <1>2 DEF TasksMove

\* A step that moves one published task to another phase.
LEMMA PhaseMoves ==
  ASSUME QInv, NEW t \in Tasks, NEW p, OnDisk(t), task' = [task EXCEPT ![t].phase = p],
         UNCHANGED binding,
         p # "terminal" => task[t].phase # "terminal",
         p = "terminal" /\ task[t].form = "coordinated" => task[t].link \/ task[t].phase = "terminal"
  PROVE  TasksMove
  <1>1. task[t] \in Task /\ task' = [task EXCEPT ![t] = [task[t] EXCEPT !.phase = p]]
    BY DEF QInv, IInv, Types
  <1>2. Moves(task[t], [task[t] EXCEPT !.phase = p], binding[t].state)
    BY <1>1 DEF Moves, Task
  <1> QED BY <1>1, <1>2, OneMoves

LEMMA LinkMoves ==
  ASSUME QInv, NEW t \in Tasks, OnDisk(t), task' = [task EXCEPT ![t].link = TRUE],
         UNCHANGED binding, binding[t].state \in Final
  PROVE  TasksMove
  <1>1. task[t] \in Task /\ task' = [task EXCEPT ![t] = [task[t] EXCEPT !.link = TRUE]]
    BY DEF QInv, IInv, Types
  <1>2. Moves(task[t], [task[t] EXCEPT !.link = TRUE], binding[t].state)
    BY <1>1 DEF Moves, Task
  <1> QED BY <1>1, <1>2, OneMoves

LEMMA AloneMoves ==
  ASSUME QInv, NEW t \in Tasks, CancelledAlone(t), UNCHANGED binding
  PROVE  TasksMove
  <1>1. CASE task[t].cancel /\ NeverStarted(t)
    <2> DEFINE p == IF task[t].form = "plain"
                    THEN IF task[t].recovered THEN "terminal" ELSE task[t].phase
                    ELSE IF task[t].link THEN "terminal" ELSE "attention"
    <2>1. task' = [task EXCEPT ![t].phase = p]
      BY <1>1 DEF CancelledAlone
    <2>2. OnDisk(t) /\ task[t].phase # "terminal"
      BY <1>1 DEF NeverStarted, Unsettled
    <2>3. p = "terminal" /\ task[t].form = "coordinated" => task[t].link
      OBVIOUS
    <2> HIDE DEF p
    <2> QED BY <2>1, <2>2, <2>3, PhaseMoves
  <1>2. CASE ~(task[t].cancel /\ NeverStarted(t))
    <2>1. task' = [task EXCEPT ![t].phase = task[t].phase]
      BY <1>2 DEF CancelledAlone
    <2>2. task' = task
      BY <2>1 DEF QInv, IInv, Types, Task
    <2> QED BY <2>2, TasksStay
  <1> QED BY <1>1, <1>2

\* A fresh task: it is not linked, and it has no entry yet.
LEMMA FreshMoves ==
  ASSUME QInv, NEW t \in Tasks, ~OnDisk(t), NEW f, NEW k, NEW i,
         task' = [task EXCEPT ![t] = NewTask(f, k, i)], UNCHANGED binding,
         t \in ReservedIds \/ (HasRoom /\ UNCHANGED reserved)
  PROVE  TasksMove
  <1>1. task'[t] = NewTask(f, k, i) /\ \A u \in Tasks : u # t => task'[u] = task[u]
    BY DEF QInv, IInv, Types
  <1>2. ~NewTask(f, k, i).link /\ NewTask(f, k, i).phase = "queued"
    BY DEF NewTask, NoTask
  <1>3. \A u \in Tasks : u # t => /\ OnDisk(u) => Moves(task[u], task'[u], binding'[u].state)
                                  /\ ~OnDisk(u) => /\ task'[u].form = "none" /\ ~task'[u].link
                                                   /\ task'[u].phase # "terminal"
    BY <1>1 DEF Moves, QInv, IInv, Records, NoTask
  <1>4. t \in ReservedIds \/ Admitted(t)
    BY <1>1 DEF Admitted
  <1> QED BY <1>1, <1>2, <1>3, <1>4 DEF TasksMove

LEMMA ReconciledMoves ==
  ASSUME NEW r \in Task, NEW b,
         r.form = "coordinated" /\ r.phase = "terminal" => r.link
  PROVE  r.form # "none" => Moves(r, Reconciled(r), b)
  <1>1. CASE Reconciled(r) = r
    BY <1>1 DEF Moves
  <1>2. CASE Reconciled(r) # r /\ r.form # "none"
    <2>1. r.phase # "terminal"
      BY <1>2 DEF Reconciled, AwaitsLink
    <2>2. PICK a, n : Reconciled(r) = [r EXCEPT !.phase = "attention", !.recovered = a]
            \/ Reconciled(r) = [r EXCEPT !.phase = "attention", !.recovered = a, !.native = n]
      BY <1>2 DEF Reconciled
    <2>3. /\ Reconciled(r).form = r.form /\ Reconciled(r).link = r.link
          /\ Reconciled(r).key = r.key /\ Reconciled(r).intent = r.intent
          /\ Reconciled(r).phase = "attention"
      BY <2>2 DEF Task
    <2> QED BY <2>1, <2>3 DEF Moves
  <1> QED BY <1>1, <1>2

-----------------------------------------------------------------------------
(* What each step makes of the records and their links. *)

LEMMA FinalMoves ==
  ASSUME QInv, NEW t \in Tasks, NEW s, binding' = [binding EXCEPT ![t].state = s],
         s \in Final \/ binding[t].state \notin Final, UNCHANGED task
  PROVE  TasksMove
  <1>1. \A u \in Tasks : binding[u].state \in Final => binding'[u].state \in Final
    BY DEF QInv, IInv, Types, Bindings
  <1> QED BY <1>1, TasksStay

\* A coordinated task has a binding, and it was not released.
LEMMA BindingOfTask ==
  ASSUME IInv, NEW t \in Tasks, task[t].form = "coordinated"
  PROVE  OnDisk(t) /\ binding[t].state \in {"bound", "settled", "terminal"}
  <1>1. binding[t].state # "none"
    BY AdmissionConstants DEF IInv, Records, StoresAgree, OnDisk, NoBinding
  <1> QED BY <1>1 DEF IInv, Types, Bindings, BindingStates, StoresAgree, OnDisk

LEMMA OpMovesTasks ==
  ASSUME QInv, OpStep
  PROVE  TasksMove
  <1>1. op.at # "none" => op.id \in Tasks
    BY OpNamed DEF QInv
  <1>2. op.at \in {"settle", "activate", "linked", "enqueue"} =>
          task[op.id].form = "coordinated" /\ OnDisk(op.id)
    BY DEF QInv, IInv, OpHolds, OnDisk
  <1>3. UNCHANGED <<task, binding>> => TasksMove
    BY TasksStay
  <1>4. CASE BindRefused \/ Unreserve \/ LinkFails \/ Enqueue \/ CommitRefused
    BY <1>3, <1>4 DEF BindRefused, Unreserve, LinkFails, Enqueue, CommitRefused
  <1>5. CASE Bind \/ BindUnanswered
    <2>1. op.at = "bind" /\ UNCHANGED task /\ binding' \in {binding, Bound}
      BY <1>5 DEF Bind, BindUnanswered
    <2>2. binding[op.id].state = "none"
      BY <2>1 DEF QInv, IInv, OpHolds
    <2>3. \A u \in Tasks : binding[u].state \in Final => binding'[u].state \in Final
      BY <1>1, <2>1, <2>2 DEF QInv, IInv, Types, Bound, Final
    <2> QED BY <2>1, <2>3, TasksStay
  <1>6. CASE Commit \/ CommitUnanswered
    <2>1. op.at = "commit" /\ UNCHANGED binding
      BY <1>6 DEF Commit, CommitUnanswered
    <2>2. UNCHANGED task \/ (Committable /\ task' = Committed)
      BY <1>6 DEF Commit, CommitUnanswered
    <2>3. CASE Committable /\ task' = Committed
      <3>1. op.id \in ReservedIds
        BY <1>1, <2>1, <2>3, OpNamed, AdmissionConstants
        DEF Committable, Own, ReservedIds, QInv
      <3> QED BY <1>1, <2>1, <2>3, <3>1, FreshMoves DEF Committable, Committed
    <2> QED BY <1>3, <2>1, <2>2, <2>3
  <1>7. CASE Release \/ ReleaseUnanswered
    <2>1. /\ op.at = "release" /\ UNCHANGED task
          /\ binding' = binding \/ binding' = [binding EXCEPT ![op.id].state = "released"]
      BY <1>7 DEF Release, ReleaseUnanswered, Disposed
    <2>2. binding[op.id].state \notin Final
      BY <2>1 DEF QInv, IInv, OpHolds, Final
    <2> QED BY <1>1, <1>3, <2>1, <2>2, FinalMoves
  <1>8. CASE Settle \/ SettleUnanswered
    <2>1. /\ op.at = "settle" /\ UNCHANGED task
          /\ binding' = binding \/ binding' = [binding EXCEPT ![op.id].state = "settled"]
      BY <1>8 DEF Settle, SettleUnanswered, Disposed
    <2> QED BY <1>1, <1>3, <2>1, FinalMoves DEF Final
  <1>9. CASE Link
    BY <1>1, <1>2, <1>9, LinkMoves DEF Link, QInv, WaysHold
  <1>10. CASE FinishCancelled
    BY <1>1, <1>10, AloneMoves DEF FinishCancelled
  <1> QED BY <1>4, <1>5, <1>6, <1>7, <1>8, <1>9, <1>10 DEF OpStep

LEMMA SweepMovesTasks ==
  ASSUME QInv, NEW s \in Sweeps, SweepOn(s)
  PROVE  TasksMove
  <1> DEFINE t == sweep[s].task
  <1>1. t \in Tasks /\ task[t].form = "coordinated"
    <2>1. sweep[s] # Idle
      BY DEF SweepOn, SweepRead, SweepSettle, SweepLink, SweepCancel, SweepClose, Idle
    <2> QED BY <2>1 DEF QInv, IInv, Types, SweepsHold, Sweeping
  <1>2. OnDisk(t) /\ binding[t].state \in {"bound", "settled", "terminal"}
    BY <1>1, BindingOfTask DEF QInv
  <1>3. CASE SweepRead(s)
    BY <1>3, TasksStay DEF SweepRead
  <1>4. CASE SweepSettle(s) \/ SweepClose(s)
    <2>1. UNCHANGED task
      BY <1>4 DEF SweepSettle, SweepClose
    <2>2. PICK b : /\ binding' = [binding EXCEPT ![t].state = b]
                   /\ b \in Final \/ b = binding[t].state
      BY <1>2, <1>4 DEF SweepSettle, SweepClose, Final
    <2> QED BY <1>1, <2>1, <2>2, FinalMoves
  <1>5. CASE SweepLink(s)
    BY <1>1, <1>2, <1>5, LinkMoves DEF SweepLink, QInv, WaysHold
  <1>6. CASE SweepCancel(s)
    <2>1. task[t].link
      BY <1>6 DEF SweepCancel, QInv, WaysHold
    <2>2. PICK p : /\ task' = [task EXCEPT ![t].phase = p]
                   /\ p = "terminal" \/ p = task[t].phase
      BY <1>6 DEF SweepCancel
    <2>3. UNCHANGED binding
      BY <1>6 DEF SweepCancel
    <2> QED BY <1>1, <1>2, <2>1, <2>2, <2>3, PhaseMoves
  <1> QED BY <1>3, <1>4, <1>5, <1>6 DEF SweepOn

LEMMA DispatchMovesTasks ==
  ASSUME QInv, NEW t \in Tasks, Cancel(t) \/ DispatchStep(t)
  PROVE  TasksMove
  <1>1. CASE Cancel(t)
    <2>1. OnDisk(t) /\ UNCHANGED binding
      BY <1>1 DEF Cancel
    <2>2. CASE UNCHANGED task
      BY <2>1, <2>2, TasksStay
    <2>3. CASE ~task[t].cancel
      <3>1. /\ task[t].phase # "terminal" /\ task[t] \in Task
            /\ task' = [task EXCEPT ![t] = [task[t] EXCEPT !.cancel = TRUE, !.phase = "stopping"]]
        BY <1>1, <2>3 DEF Cancel, Unsettled, QInv, IInv, Types
      <3>2. Moves(task[t], [task[t] EXCEPT !.cancel = TRUE, !.phase = "stopping"], binding[t].state)
        BY <3>1 DEF Moves, Task
      <3> QED BY <2>1, <3>1, <3>2, OneMoves
    <2> QED BY <1>1, <2>2, <2>3 DEF Cancel
  <1>2. CASE DispatchToEntry(t) \/ DispatchFindsNone(t) \/ DispatchDetached(t)
             \/ DispatchMissed(t) \/ DispatchSweep(t)
    BY <1>2, TasksStay DEF DispatchToEntry, DispatchFindsNone, DispatchDetached,
                           DispatchMissed, DispatchSweep, AbortEntry, diskVars
  <1>3. CASE DispatchAlone(t)
    BY <1>3, AloneMoves DEF DispatchAlone
  <1>4. CASE DispatchSettle(t)
    <2>1. UNCHANGED binding /\ ~(task[t].form = "coordinated" /\ NeverStarted(t))
      BY <1>4 DEF DispatchSettle
    <2>2. CASE ~task[t].native /\ task[t].recovered /\ Unsettled(t)
      <3>1. task' = [task EXCEPT ![t].phase = "terminal"]
        BY <1>4, <2>2 DEF DispatchSettle
      <3>2. OnDisk(t) /\ task[t].form # "coordinated"
        BY <2>1, <2>2 DEF NeverStarted, Unsettled
      <3> QED BY <2>1, <3>1, <3>2, PhaseMoves
    <2>3. CASE ~(~task[t].native /\ task[t].recovered /\ Unsettled(t))
      <3>1. task' = [task EXCEPT ![t].phase = task[t].phase]
        BY <1>4, <2>3 DEF DispatchSettle
      <3>2. UNCHANGED task
        BY <3>1 DEF QInv, IInv, Types, Task
      <3> QED BY <2>1, <3>2, TasksStay
    <2> QED BY <2>2, <2>3
  <1> QED BY <1>1, <1>2, <1>3, <1>4 DEF DispatchStep

LEMMA RunMovesTasks ==
  ASSUME QInv, NEW t \in Tasks, RunStep(t), UNCHANGED binding
  PROVE  TasksMove
  <1>1. stage[t] # "none"
    BY DEF RunStep, StartWorker, SettleRun, FreezeRun, LeaveRun, Running
  <1>2. OnDisk(t) /\ (task[t].form = "coordinated" => task[t].link)
    BY <1>1 DEF QInv, EntriesHold, LinksHold
  <1>3. CASE LeaveRun(t)
    BY <1>3, TasksStay DEF LeaveRun, diskVars
  <1>4. CASE SettleRun(t)
    BY <1>2, <1>4, PhaseMoves DEF SettleRun
  <1>5. CASE FreezeRun(t)
    BY <1>2, <1>5, PhaseMoves DEF FreezeRun
  <1>6. CASE StartWorker(t)
    <2>1. /\ task[t].phase = "queued" /\ task[t] \in Task
          /\ task' = [task EXCEPT ![t] = [task[t] EXCEPT !.phase = "running", !.native = TRUE]]
      BY <1>6 DEF StartWorker, QInv, IInv, Types
    <2>2. Moves(task[t], [task[t] EXCEPT !.phase = "running", !.native = TRUE], binding[t].state)
      BY <2>1 DEF Moves, Task
    <2> QED BY <1>2, <2>1, <2>2, OneMoves
  <1> QED BY <1>3, <1>4, <1>5, <1>6 DEF RunStep

LEMMA RestartMovesTasks ==
  ASSUME QInv, Restart
  PROVE  TasksMove
  <1>1. UNCHANGED binding /\ task' = [t \in Tasks |-> Reconciled(task[t])]
    BY DEF Restart
  <1>2. ASSUME NEW t \in Tasks
        PROVE  /\ OnDisk(t) => Moves(task[t], task'[t], binding'[t].state)
               /\ ~OnDisk(t) => /\ task'[t].form = "none" /\ ~task'[t].link
                                /\ task'[t].phase # "terminal"
    <2>1. task[t] \in Task /\ task'[t] = Reconciled(task[t])
      BY <1>1 DEF QInv, IInv, Types
    <2>2. task[t].form = "coordinated" /\ task[t].phase = "terminal" => task[t].link
      BY DEF QInv, LinksHold
    <2>3. ~OnDisk(t) => task[t] = NoTask /\ Reconciled(task[t]) = task[t]
      BY DEF OnDisk, Reconciled, QInv, IInv, Records
    <2> QED BY <2>1, <2>2, <2>3, ReconciledMoves DEF OnDisk, NoTask
  <1> QED BY <1>1, <1>2 DEF TasksMove

LEMMA NextMovesTasks ==
  ASSUME QInv, [Next]_vars
  PROVE  TasksMove
  <1>1. UNCHANGED <<task, binding>> => TasksMove
    BY TasksStay
  <1>2. CASE UNCHANGED vars \/ Compose \/ CloseAdmission \/ Crash
    BY <1>1, <1>2 DEF vars, diskVars, recoveryVars, Compose, CloseAdmission, Crash
  <1>3. ASSUME NEW k \in Keys, NEW i \in Intents, Submit(k, i) \/ SubmitUnanswered(k, i)
        PROVE  TasksMove
    <2>1. PICK t \in Unused : task' = [task EXCEPT ![t] = NewTask("plain", k, i)]
      BY <1>3 DEF Submit, SubmitUnanswered
    <2>2. UNCHANGED <<binding, reserved>> /\ HasRoom
      BY <1>3 DEF Submit, SubmitUnanswered, recoveryVars, admissionVars
    <2> QED BY <2>1, <2>2, FreshMoves DEF Unused
  <1>4. ASSUME NEW k \in Keys, NEW i \in Intents, Begin(k, i) PROVE TasksMove
    BY <1>1, <1>4 DEF Begin, diskVars, recoveryVars, BeginAdmitted, BeginReserved, BeginFresh
  <1>5. CASE QueueStep
    <2>1. UNCHANGED binding
      BY <1>5 DEF QueueStep, recoveryVars
    <2>2. CASE Pump \/ PumpCleared
      BY <1>1, <2>1, <2>2 DEF Pump, PumpCleared, diskVars
    <2> QED BY <1>5, <2>1, <2>2, RunMovesTasks DEF QueueStep
  <1>6. CASE RecoveryStep
    <2>1. CASE SweepFails
      BY <1>1, <2>1 DEF SweepFails, diskVars
    <2> QED BY <1>6, <2>1, SweepMovesTasks, DispatchMovesTasks DEF RecoveryStep, SweepStep
  <1>7. ASSUME NEW t \in Tasks, TerminalBinding(t) PROVE TasksMove
    BY <1>7, FinalMoves DEF TerminalBinding, diskVars, Final
  <1> QED BY <1>2, <1>3, <1>4, <1>5, <1>6, <1>7, OpMovesTasks, RestartMovesTasks DEF Next, Client

-----------------------------------------------------------------------------
(* The pump. *)

LEMMA MinOfTwo ==
  ASSUME NEW a \in Nat, NEW b \in Nat
  PROVE  Min({a, b}) \in {a, b} /\ Min({a, b}) <= a /\ Min({a, b}) <= b
  <1>1. \E x \in {a, b} : \A y \in {a, b} : x =< y
    <2>1. CASE a =< b
      BY <2>1
    <2>2. CASE b =< a
      BY <2>2
    <2> QED BY <2>1, <2>2
  <1>2. Min({a, b}) \in {a, b} /\ \A y \in {a, b} : Min({a, b}) =< y
    BY <1>1 DEF Min
  <1> QED BY <1>2

\* The first entries of a sequence are no more than they are long.
LEMMA FirstOnes ==
  ASSUME NEW S, NEW w \in Seq(S), NEW n \in 0 .. Len(w)
  PROVE  /\ ToSet(SubSeq(w, 1, n)) = {w[i] : i \in 1 .. n}
         /\ IsFiniteSet(ToSet(SubSeq(w, 1, n)))
         /\ Cardinality(ToSet(SubSeq(w, 1, n))) <= n
  <1> DEFINE T == {w[i] : i \in 1 .. n}
             f == [i \in 1 .. n |-> w[i]]
  <1>1. ToSet(SubSeq(w, 1, n)) = T
    <2>1. /\ DOMAIN SubSeq(w, 1, n) = 1 .. n
          /\ \A i \in 1 .. n : SubSeq(w, 1, n)[i] = w[i]
      OBVIOUS
    <2> QED BY <2>1 DEF ToSet
  <1>2. f \in Surjection(1 .. n, T)
    BY DEF Surjection
  <1>3. IsFiniteSet(1 .. n) /\ Cardinality(1 .. n) = n
    BY FS_Interval
  <1> HIDE DEF T, f
  <1>4. IsFiniteSet(T) /\ Cardinality(T) <= n
    BY <1>2, <1>3, FS_Surjection
  <1> QED BY <1>1, <1>4 DEF T

\* The queue without what was aborted, once each.
LEMMA WaitingHolds ==
  ASSUME QInv, NEW w \in Waiting
  PROVE  /\ w \in Seq(Tasks)
         /\ \A i \in DOMAIN w : w[i] \in Tasks /\ stage[w[i]] = "queued" /\ w[i] \notin aborted
         /\ \A i, j \in DOMAIN w : w[i] = w[j] => i = j
         /\ \A t \in Tasks : Queued(t) /\ t \notin aborted => \E i \in DOMAIN w : w[i] = t
  <1> DEFINE W == ToSet(queue) \ aborted
  <1>1. W \subseteq Tasks /\ \A t \in W : stage[t] = "queued" /\ t \notin aborted
    BY DEF QInv, QueueTypes, EntriesHold, ToSet
  <1>2. Cardinality(W) \in Nat
    BY <1>1, FS_Subset, FS_CardinalityType, AdmissionConstants
  <1>3. /\ w \in [1 .. Cardinality(W) -> W]
        /\ \A i, j \in 1 .. Cardinality(W) : i # j => w[i] # w[j]
    BY DEF Waiting, SetToSeqs
  <1> HIDE DEF W
  <1>4. w \in Seq(Tasks)
    BY <1>1, <1>2, <1>3
  <1>5. \A t \in W : \E i \in 1 .. Cardinality(W) : w[i] = t
    <2>1. IsFiniteSet(W) /\ IsFiniteSet(1 .. Cardinality(W))
      BY <1>1, <1>2, FS_Subset, FS_Interval, AdmissionConstants
    <2>2. Cardinality(1 .. Cardinality(W)) = Cardinality(W)
      BY <1>2, FS_Interval
    <2>3. w \in Injection(1 .. Cardinality(W), W)
      BY <1>3 DEF Injection, IsInjective
    <2>4. w \in Surjection(1 .. Cardinality(W), W)
      BY <2>1, <2>2, <2>3, FS_Injection
    <2> QED BY <2>4 DEF Surjection
  <1>6. \A t \in Tasks : Queued(t) /\ t \notin aborted => t \in W
    BY DEF QInv, QueueExact, ToSet, W
  <1> QED BY <1>1, <1>3, <1>4, <1>5, <1>6

\* The pump starts queued entries only, and no more than there are free slots;
\* what it leaves in the queue is still queued.
LEMMA PumpStarts ==
  ASSUME QInv, Pump
  PROVE  \E S \in SUBSET Tasks :
           /\ \A t \in S : stage[t] = "queued"
           /\ stage' = [t \in Tasks |-> IF t \in S THEN "running"
                          ELSE IF Queued(t) /\ t \in aborted THEN "settling" ELSE stage[t]]
           /\ active' = active + Cardinality(S)
           /\ Cardinality(S) <= IF active >= MaxWorkers THEN 0 ELSE MaxWorkers - active
           /\ queue' \in Seq(Tasks)
           /\ \A i \in DOMAIN queue' : stage'[queue'[i]] = "queued"
           /\ QueueExact'
  <1> DEFINE free == IF frozen \/ active >= MaxWorkers THEN 0 ELSE MaxWorkers - active
  <1>1. PICK w \in Waiting :
          LET slots == Min({free, Len(w)})
              starting == SubSeq(w, 1, slots)
          IN /\ queue' = SubSeq(w, slots + 1, Len(w))
             /\ stage' = [t \in Tasks |->
                            IF t \in ToSet(starting) THEN "running"
                            ELSE IF Queued(t) /\ t \in aborted THEN "settling" ELSE stage[t]]
             /\ active' = active + Cardinality(ToSet(starting))
    BY DEF Pump
  <1> DEFINE slots == Min({free, Len(w)})
             S == ToSet(SubSeq(w, 1, slots))
  <1>2. /\ w \in Seq(Tasks)
        /\ \A i \in DOMAIN w : w[i] \in Tasks /\ stage[w[i]] = "queued" /\ w[i] \notin aborted
        /\ \A i, j \in DOMAIN w : w[i] = w[j] => i = j
        /\ \A t \in Tasks : Queued(t) /\ t \notin aborted => \E i \in DOMAIN w : w[i] = t
    BY <1>1, WaitingHolds
  <1>3. active \in Nat
    <2>1. IsFiniteSet({t \in Tasks : stage[t] = "running"})
      BY FS_Subset, AdmissionConstants
    <2> QED BY <2>1, FS_CardinalityType DEF QInv, CapacityKept
  <1>4. free \in Nat /\ Len(w) \in Nat
    BY <1>2, <1>3, AdmissionConstants
  <1>5. slots \in Nat /\ slots <= free /\ slots <= Len(w)
    <2> HIDE DEF free
    <2> QED BY <1>4, MinOfTwo
  <1>6. /\ queue' = SubSeq(w, slots + 1, Len(w))
        /\ stage' = [t \in Tasks |-> IF t \in S THEN "running"
                          ELSE IF Queued(t) /\ t \in aborted THEN "settling" ELSE stage[t]]
        /\ active' = active + Cardinality(S)
    BY <1>1
  <1>7. Cardinality(S) <= IF active >= MaxWorkers THEN 0 ELSE MaxWorkers - active
    <2>1. Cardinality(S) <= slots /\ IsFiniteSet(S)
      <3> HIDE DEF slots
      <3> QED BY <1>2, <1>4, <1>5, FirstOnes
    <2>2. Cardinality(S) \in Nat
      BY <2>1, FS_CardinalityType
    <2>3. free <= IF active >= MaxWorkers THEN 0 ELSE MaxWorkers - active
      BY <1>3, AdmissionConstants
    <2> HIDE DEF free, slots, S
    <2> QED BY <1>3, <1>4, <1>5, <2>1, <2>2, <2>3, AdmissionConstants
  <1> HIDE DEF slots
  <1>8. S = {w[i] : i \in 1 .. slots}
    BY <1>2, <1>4, <1>5, FirstOnes
  <1>9. S \in SUBSET Tasks /\ \A t \in S : stage[t] = "queued"
    BY <1>2, <1>4, <1>5, <1>8
  <1>10. /\ queue' \in Seq(Tasks)
         /\ \A i \in DOMAIN queue' : i + slots \in DOMAIN w /\ queue'[i] = w[i + slots]
    BY <1>2, <1>5, <1>6
  <1>11. ASSUME NEW i \in DOMAIN queue' PROVE stage'[queue'[i]] = "queued"
    <2>1. /\ i + slots \in DOMAIN w /\ i + slots > slots /\ queue'[i] = w[i + slots]
      BY <1>5, <1>10
    <2>2. queue'[i] \notin S
      BY <1>2, <1>5, <1>8, <2>1
    <2> HIDE DEF S
    <2> QED BY <1>2, <1>6, <2>1, <2>2
  <1>12. \A i, j \in DOMAIN queue' : queue'[i] = queue'[j] => i = j
    <2>1. \A i \in DOMAIN queue' : i \in Nat
      BY <1>10
    <2> QED BY <1>2, <1>5, <1>10, <2>1
  <1>13. ASSUME NEW t \in Tasks, Queued(t)' PROVE \E i \in DOMAIN queue' : queue'[i] = t
    <2>1. t \notin S /\ Queued(t) /\ t \notin aborted
      <3> HIDE DEF S
      <3> QED BY <1>6, <1>13 DEF Queued
    <2>2. PICK i \in DOMAIN w : w[i] = t
      BY <1>2, <2>1
    <2>3. i \in 1 .. Len(w) /\ i > slots
      BY <1>2, <1>4, <1>5, <1>8, <2>1, <2>2
    <2>4. i - slots \in DOMAIN queue' /\ queue'[i - slots] = w[i]
      BY <1>2, <1>4, <1>5, <1>6, <2>3
    <2> QED BY <2>2, <2>4
  <1>14. QueueExact'
    BY <1>12, <1>13 DEF QueueExact
  <1> HIDE DEF S
  <1> QED BY <1>6, <1>7, <1>9, <1>10, <1>11, <1>14

-----------------------------------------------------------------------------
(* What each step makes of the queue and the slots. *)

SlotsHold == active = Cardinality(Slots) /\ active <= MaxWorkers

QueueMoves ==
  /\ QueueTypes'
  /\ QueueExact'
  /\ \A i \in DOMAIN queue' : stage'[queue'[i]] = "queued"
  /\ SlotsHold'
  /\ StagesMove

LEMMA SlotsCounted ==
  ASSUME QInv
  PROVE  IsFiniteSet(Slots) /\ active = Cardinality(Slots) /\ active \in Nat /\ active <= MaxWorkers
  <1>1. IsFiniteSet(Slots)
    BY FS_Subset, AdmissionConstants DEF Slots
  <1> QED BY <1>1, FS_CardinalityType DEF QInv, CapacityKept, Slots

LEMMA QueueStays ==
  ASSUME QInv, UNCHANGED <<queue, stage, active>>,
         \A t \in started' : t \in started \/ stage[t] # "none"
  PROVE  QueueMoves
  BY SlotsCounted
  DEF QueueMoves, StagesMove, QInv, QueueTypes, EntriesHold, QueueExact, Queued, SlotsHold, Slots

LEMMA PushMoves ==
  ASSUME QInv, NEW t \in Tasks, Push(t), UNCHANGED <<active, started>>,
         stage[t] = "none",
         task'[t].form # "none" /\ (task'[t].form = "coordinated" => task'[t].link)
  PROVE  QueueMoves
  <1>1. /\ queue' = Append(queue, t) /\ queue \in Seq(Tasks)
        /\ stage' = [stage EXCEPT ![t] = "queued"]
    BY DEF Push, QInv, QueueTypes
  <1>2. QueueTypes'
    BY <1>1 DEF QInv, QueueTypes
  <1>3. stage'[t] = "queued" /\ \A u \in Tasks : u # t => stage'[u] = stage[u]
    BY <1>1 DEF QInv, QueueTypes
  <1>4. \A i \in DOMAIN queue' : stage'[queue'[i]] = "queued"
    <2>1. \A i \in DOMAIN queue : queue[i] \in Tasks /\ stage[queue[i]] = "queued"
      BY <1>1 DEF QInv, EntriesHold
    <2>2. /\ DOMAIN queue' = 1 .. Len(queue) + 1 /\ DOMAIN queue = 1 .. Len(queue)
          /\ queue'[Len(queue) + 1] = t
          /\ \A i \in 1 .. Len(queue) : queue'[i] = queue[i]
      BY <1>1
    <2>3. \A i \in 1 .. Len(queue) + 1 : i = Len(queue) + 1 \/ i \in 1 .. Len(queue)
      BY <1>1
    <2> QED BY <1>3, <2>1, <2>2, <2>3
  <1>5. Slots' = Slots
    BY <1>3 DEF Slots
  <1>6. SlotsHold'
    BY <1>5, SlotsCounted DEF SlotsHold
  <1>7. StagesMove
    BY <1>3 DEF StagesMove
  <1>8. QueueExact'
    <2>1. /\ DOMAIN queue' = 1 .. Len(queue) + 1 /\ DOMAIN queue = 1 .. Len(queue)
          /\ queue'[Len(queue) + 1] = t /\ Len(queue) \in Nat
          /\ \A i \in 1 .. Len(queue) : queue'[i] = queue[i]
      BY <1>1
    <2>2. \A i \in 1 .. Len(queue) : queue[i] # t
      BY <2>1 DEF QInv, EntriesHold
    <2>3. \A i \in 1 .. Len(queue) + 1 : i = Len(queue) + 1 \/ i \in 1 .. Len(queue)
      BY <2>1
    <2>4. \A i, j \in DOMAIN queue' : queue'[i] = queue'[j] => i = j
      BY <2>1, <2>2, <2>3 DEF QInv, QueueExact
    <2>5. ASSUME NEW u \in Tasks, Queued(u)' PROVE \E i \in DOMAIN queue' : queue'[i] = u
      <3>1. CASE u = t
        BY <2>1, <3>1
      <3>2. CASE u # t
        BY <1>3, <2>1, <2>5, <3>2 DEF QInv, QueueExact, Queued
      <3> QED BY <3>1, <3>2
    <2> QED BY <2>4, <2>5 DEF QueueExact
  <1> QED BY <1>2, <1>4, <1>6, <1>7, <1>8 DEF QueueMoves

\* The slot a run leaves is the one it had; an aborted entry had none.
LEMMA LeaveMoves ==
  ASSUME QInv, NEW t \in Tasks, LeaveRun(t)
  PROVE  QueueMoves
  <1>1. /\ stage[t] \in {"running", "settling"}
        /\ stage' = [stage EXCEPT ![t] = "none"]
        /\ active' = IF stage[t] = "running" THEN active - 1 ELSE active
        /\ UNCHANGED <<queue, started>>
    BY DEF LeaveRun, Running, diskVars
  <1>2. stage'[t] = "none" /\ \A u \in Tasks : u # t => stage'[u] = stage[u]
    BY <1>1 DEF QInv, QueueTypes
  <1>3. QueueTypes'
    BY <1>1 DEF QInv, QueueTypes
  <1>4. \A i \in DOMAIN queue' : stage'[queue'[i]] = "queued"
    <2>1. \A i \in DOMAIN queue : queue[i] \in Tasks /\ stage[queue[i]] = "queued"
      BY DEF QInv, QueueTypes, EntriesHold
    <2> QED BY <1>1, <1>2, <2>1
  <1>5. Slots' = Slots \ {t}
    BY <1>2 DEF Slots
  <1>6. stage[t] = "running" <=> t \in Slots
    BY DEF Slots
  <1>7. SlotsHold'
    <2>1. Cardinality(Slots \ {t}) = IF t \in Slots THEN Cardinality(Slots) - 1 ELSE Cardinality(Slots)
      BY SlotsCounted, FS_RemoveElement
    <2>2. active' <= MaxWorkers
      BY <1>1, SlotsCounted, AdmissionConstants
    <2> QED BY <1>1, <1>5, <1>6, <2>1, <2>2, SlotsCounted DEF SlotsHold
  <1>8. StagesMove
    BY <1>1, <1>2 DEF StagesMove
  <1>9. QueueExact'
    BY <1>1, <1>2 DEF QInv, QueueExact, Queued
  <1> QED BY <1>3, <1>4, <1>7, <1>8, <1>9 DEF QueueMoves

LEMMA PumpMoves ==
  ASSUME QInv, Pump
  PROVE  QueueMoves
  <1>1. PICK S \in SUBSET Tasks :
           /\ \A t \in S : stage[t] = "queued"
           /\ stage' = [t \in Tasks |-> IF t \in S THEN "running"
                          ELSE IF Queued(t) /\ t \in aborted THEN "settling" ELSE stage[t]]
           /\ active' = active + Cardinality(S)
           /\ Cardinality(S) <= IF active >= MaxWorkers THEN 0 ELSE MaxWorkers - active
           /\ queue' \in Seq(Tasks)
           /\ \A i \in DOMAIN queue' : stage'[queue'[i]] = "queued"
           /\ QueueExact'
    BY PumpStarts
  <1>2. QueueTypes'
    BY <1>1 DEF QInv, QueueTypes
  <1>3. \A t \in Tasks : /\ stage'[t] = "running" <=> t \in S \/ stage[t] = "running"
                         /\ stage'[t] # "none" => stage[t] # "none"
    BY <1>1 DEF QInv, QueueTypes, Queued
  <1>4. Slots' = Slots \cup S /\ Slots \cap S = {}
    BY <1>1, <1>3 DEF Slots
  <1>5. IsFiniteSet(S) /\ Cardinality(S) \in Nat
    BY FS_Subset, FS_CardinalityType, AdmissionConstants
  <1>6. SlotsHold'
    <2>1. Cardinality(Slots \cup S) = Cardinality(Slots) + Cardinality(S)
      <3>1. /\ Cardinality(Slots \cup S) =
                 Cardinality(Slots) + Cardinality(S) - Cardinality(Slots \cap S)
            /\ Cardinality(Slots) \in Nat
        BY <1>5, SlotsCounted, FS_Union
      <3>2. Cardinality(Slots \cap S) = 0
        BY <1>4, FS_EmptySet
      <3> QED BY <1>5, <3>1, <3>2
    <2>2. active' <= MaxWorkers
      BY <1>1, <1>5, SlotsCounted, AdmissionConstants
    <2> QED BY <1>1, <1>4, <2>1, <2>2, SlotsCounted DEF SlotsHold
  <1>7. StagesMove
    BY <1>3 DEF StagesMove, Pump, diskVars
  <1> QED BY <1>1, <1>2, <1>6, <1>7 DEF QueueMoves

LEMMA CrashMoves ==
  ASSUME QInv, Crash
  PROVE  QueueMoves
  <1>1. /\ queue' = <<>> /\ stage' = [t \in Tasks |-> "none"] /\ active' = 0
        /\ UNCHANGED started
    BY DEF Crash, diskVars
  <1>2. Slots' = {}
    BY <1>1 DEF Slots
  <1>3. SlotsHold'
    BY <1>1, <1>2, FS_EmptySet, AdmissionConstants DEF SlotsHold
  <1> QED BY <1>1, <1>3 DEF QueueMoves, QueueTypes, QueueExact, Queued, StagesMove

\* Only a linked task is queued, by the admission that linked it.
LEMMA EnqueueMoves ==
  ASSUME QInv, Enqueue, UNCHANGED <<active, started>>
  PROVE  QueueMoves
  <1>1. /\ UNCHANGED task
        /\ \/ Push(op.id) /\ stage[op.id] = "none"
           \/ UNCHANGED <<queue, stage>>
    BY DEF Enqueue
  <1>2. op.id \in Tasks /\ task[op.id].form = "coordinated" /\ task[op.id].link
    <2>1. op.at = "enqueue"
      BY DEF Enqueue
    <2> QED BY <2>1, OpNamed DEF QInv, IInv, OpHolds, WaysHold
  <1> QED BY <1>1, <1>2, PushMoves, QueueStays

LEMMA NextMovesQueue ==
  ASSUME QInv, [Next]_vars
  PROVE  QueueMoves
  <1>1. UNCHANGED <<queue, stage, active, started>> => QueueMoves
    BY QueueStays
  <1>2. CASE UNCHANGED vars \/ Compose \/ CloseAdmission \/ Restart
    BY <1>1, <1>2 DEF vars, diskVars, queueVars, Compose, CloseAdmission, Restart
  <1>3. ASSUME NEW k \in Keys, NEW i \in Intents, Submit(k, i) PROVE QueueMoves
    <2>1. PICK t \in Unused : task' = [task EXCEPT ![t] = NewTask("plain", k, i)] /\ Push(t)
      BY <1>3 DEF Submit
    <2>2. t \in Tasks /\ ~OnDisk(t)
      BY DEF Unused
    <2>3. stage[t] = "none"
      BY <2>2 DEF QInv, EntriesHold
    <2>4. task'[t].form = "plain"
      BY <2>1, <2>2 DEF QInv, IInv, Types, NewTask, NoTask
    <2>5. UNCHANGED <<active, started>>
      BY <1>3 DEF Submit
    <2> QED BY <2>1, <2>2, <2>3, <2>4, <2>5, PushMoves
  <1>4. ASSUME NEW k \in Keys, NEW i \in Intents, SubmitUnanswered(k, i) \/ Begin(k, i)
        PROVE  QueueMoves
    BY <1>1, <1>4 DEF SubmitUnanswered, Begin, diskVars, queueVars
  <1>5. CASE OpStep
    <2>1. UNCHANGED <<active, started>>
      BY <1>5 DEF OpStep
    <2>2. CASE Enqueue
      BY <2>1, <2>2, EnqueueMoves
    <2>3. CASE UNCHANGED <<queue, stage>>
      BY <1>1, <2>1, <2>3
    <2> QED BY <1>5, <2>2, <2>3
        DEF OpStep, Bind, BindRefused, BindUnanswered, Commit, CommitRefused, CommitUnanswered,
            Release, ReleaseUnanswered, Unreserve, Settle, SettleUnanswered, Link, LinkFails,
            FinishCancelled
  <1>6. CASE QueueStep
    <2>1. CASE PumpCleared
      BY <1>1, <2>1 DEF PumpCleared, diskVars
    <2>2. ASSUME NEW t \in Tasks, SettleRun(t) \/ FreezeRun(t) PROVE QueueMoves
      BY <1>1, <2>2 DEF SettleRun, FreezeRun, queueVars
    <2>3. ASSUME NEW t \in Tasks, StartWorker(t) PROVE QueueMoves
      BY <2>3, QueueStays DEF StartWorker, queueVars
    <2> QED BY <1>6, <2>1, <2>2, <2>3, PumpMoves, LeaveMoves DEF QueueStep, RunStep
  <1>7. CASE RecoveryStep
    <2>1. CASE SweepStep \/ SweepFails
      BY <1>1, <2>1 DEF SweepStep, SweepOn, SweepFails, diskVars, queueVars
    <2>2. ASSUME NEW t \in Tasks, Cancel(t) \/ DispatchStep(t) PROVE QueueMoves
      BY <1>1, <2>2
      DEF Cancel, DispatchStep, DispatchToEntry, AbortEntry, DispatchFindsNone, DispatchAlone,
          DispatchDetached, DispatchMissed, DispatchSweep, DispatchSettle, diskVars, queueVars
    <2> QED BY <1>7, <2>1, <2>2 DEF RecoveryStep
  <1>8. ASSUME NEW t \in Tasks, TerminalBinding(t) PROVE QueueMoves
    BY <1>1, <1>8 DEF TerminalBinding, diskVars, queueVars
  <1> QED BY <1>2, <1>3, <1>4, <1>5, <1>6, <1>7, <1>8, CrashMoves DEF Next, Client

-----------------------------------------------------------------------------
(* The ways to a link, the places, and the kick. *)

LEMMA WaysKept ==
  ASSUME QInv, TasksMove, op' = op \/ op'.at \notin {"activate", "linked", "enqueue"},
         \A s \in Sweeps : sweep'[s] = sweep[s] \/ sweep'[s].at \notin {"link", "cancel"}
  PROVE  WaysHold'
  <1>1. \A t \in Tasks : /\ binding[t].state \in Final => binding'[t].state \in Final
                         /\ task[t].link => task'[t].link
    BY DEF TasksMove, Moves, QInv, IInv, Records, NoTask
  <1>2. op.at # "none" => op.id \in Tasks
    BY OpNamed DEF QInv
  <1>3. \A s \in Sweeps : sweep[s].at \in {"link", "cancel"} => sweep[s].task \in Tasks
    BY DEF QInv, IInv, Types, Sweeping, Idle
  <1> QED BY <1>1, <1>2, <1>3 DEF QInv, WaysHold

LEMMA OpMovesWays ==
  ASSUME QInv, TasksMove, OpStep
  PROVE  WaysHold'
  <1>1. UNCHANGED sweep
    BY DEF OpStep
  <1>2. op'.at \notin {"activate", "linked", "enqueue"} => WaysHold'
    BY <1>1, WaysKept
  <1>3. CASE \/ BindRefused \/ BindUnanswered \/ CommitUnanswered \/ ReleaseUnanswered \/ Unreserve
             \/ SettleUnanswered \/ LinkFails \/ Enqueue
    BY <1>2, <1>3 DEF BindRefused, BindUnanswered, CommitUnanswered, ReleaseUnanswered, Unreserve,
                      SettleUnanswered, LinkFails, Enqueue, Done, NoOp
  <1>4. CASE Bind \/ Commit \/ CommitRefused \/ Release
    <2>1. \E at \in {"commit", "settle", "release", "unreserve"} : op.at # "none" /\ Goto(at)
      BY <1>4 DEF Bind, Commit, CommitRefused, Release
    <2>2. op'.at \in {"commit", "settle", "release", "unreserve"}
      BY <2>1, GotoTyped DEF QInv, Steps
    <2> QED BY <1>2, <2>2
  <1>5. ASSUME NEW at \in {"activate", "linked", "enqueue"}, op.at # "none", Goto(at),
               binding'[op.id].state \in Final,
               at \in {"linked", "enqueue"} => task'[op.id].link
        PROVE  WaysHold'
    <2>1. op'.at = at /\ op'.id = op.id
      BY <1>5, GotoTyped DEF QInv, Steps
    <2>2. \A t \in Tasks : /\ binding[t].state \in Final => binding'[t].state \in Final
                           /\ task[t].link => task'[t].link
      BY DEF TasksMove, Moves, QInv, IInv, Records, NoTask
    <2>3. \A s \in Sweeps : sweep[s].at \in {"link", "cancel"} => sweep[s].task \in Tasks
      BY DEF QInv, IInv, Types, Sweeping, Idle
    <2> QED BY <1>1, <1>5, <2>1, <2>2, <2>3 DEF QInv, WaysHold
  <1>6. op.at # "none" => op.id \in Tasks
    BY OpNamed DEF QInv
  <1>7. CASE Settle
    <2>1. op.at = "settle" /\ task[op.id].form = "coordinated"
      BY <1>7 DEF Settle, QInv, IInv, OpHolds
    <2>2. binding[op.id].state \in {"bound", "settled", "terminal"}
      BY <1>6, <2>1, BindingOfTask DEF QInv
    <2>3. binding'[op.id].state \in Final
      BY <1>6, <1>7, <2>1, <2>2 DEF Settle, Disposed, QInv, IInv, Types, Bindings, Final
    <2> QED BY <1>5, <1>7, <2>1, <2>3 DEF Settle
  <1>8. CASE Link
    <2>1. op.at = "activate" /\ task' = [task EXCEPT ![op.id].link = TRUE] /\ UNCHANGED binding
      BY <1>8 DEF Link
    <2>2. task'[op.id].link
      BY <1>6, <2>1 DEF QInv, IInv, Types, Task
    <2> QED BY <1>5, <1>8, <2>1, <2>2 DEF Link, QInv, WaysHold
  <1>9. CASE FinishCancelled
    <2>1. op.at = "linked" /\ Goto("enqueue") /\ UNCHANGED binding
      BY <1>9 DEF FinishCancelled
    <2>2. task'[op.id].link
      BY <1>6, <2>1 DEF TasksMove, Moves, QInv, IInv, Records, NoTask, WaysHold
    <2> QED BY <1>5, <2>1, <2>2 DEF QInv, WaysHold
  <1> QED BY <1>3, <1>4, <1>7, <1>8, <1>9 DEF OpStep

\* A sweep that goes on leaves the others where they are.
LEMMA SweepMovesWays ==
  ASSUME QInv, TasksMove, NEW s \in Sweeps, SweepOn(s), UNCHANGED op
  PROVE  WaysHold'
  <1> DEFINE t == sweep[s].task
  <1>1. /\ sweep[s] \in Sweeping /\ t \in Tasks /\ task[t].form = "coordinated"
    <2>1. sweep[s] # Idle
      BY DEF SweepOn, SweepRead, SweepSettle, SweepLink, SweepCancel, SweepClose, Idle
    <2> QED BY <2>1 DEF QInv, IInv, Types, SweepsHold, Sweeping
  <1>2. ASSUME NEW at, SweepGoto(s, at)
        PROVE  /\ sweep'[s].at = at /\ sweep'[s].task = t
               /\ \A r \in Sweeps : r # s => sweep'[r] = sweep[r]
    BY <1>1, <1>2 DEF SweepGoto, QInv, IInv, Types, Sweeping
  <1>3. CASE SweepRead(s) \/ SweepCancel(s)
    <2>1. \E at \in {"settle", "close"} : SweepGoto(s, at)
      BY <1>3 DEF SweepRead, SweepCancel
    <2>2. \A r \in Sweeps : sweep'[r] = sweep[r] \/ sweep'[r].at \notin {"link", "cancel"}
      BY <1>2, <2>1
    <2> QED BY <2>2, WaysKept
  <1>4. CASE SweepClose(s)
    <2>1. sweep' = [sweep EXCEPT ![s] = NextOf(startup')]
      BY <1>4 DEF SweepClose
    <2>2. \A r \in Sweeps : sweep'[r] = sweep[r] \/ sweep'[r].at \notin {"link", "cancel"}
      BY <2>1 DEF QInv, IInv, Types, NextOf, Idle
    <2> QED BY <2>2, WaysKept
  <1>5. ASSUME NEW at \in {"link", "cancel"}, SweepGoto(s, at),
               at = "link" => binding'[t].state \in Final, at = "cancel" => task'[t].link
        PROVE  WaysHold'
    <2>1. \A u \in Tasks : /\ binding[u].state \in Final => binding'[u].state \in Final
                           /\ task[u].link => task'[u].link
      BY DEF TasksMove, Moves, QInv, IInv, Records, NoTask
    <2>2. op.at # "none" => op.id \in Tasks
      BY OpNamed DEF QInv
    <2>3. \A r \in Sweeps : sweep[r].at \in {"link", "cancel"} => sweep[r].task \in Tasks
      BY DEF QInv, IInv, Types, Sweeping, Idle
    <2>4. ASSUME NEW r \in Sweeps
          PROVE  /\ sweep'[r].at = "link" => binding'[sweep'[r].task].state \in Final
                 /\ sweep'[r].at = "cancel" => task'[sweep'[r].task].link
      <3>1. CASE r = s
        BY <1>2, <1>5, <3>1
      <3>2. CASE r # s
        BY <1>2, <1>5, <2>1, <2>3, <3>2 DEF QInv, WaysHold
      <3> QED BY <3>1, <3>2
    <2> QED BY <2>1, <2>2, <2>4 DEF QInv, WaysHold
  <1>6. CASE SweepSettle(s)
    <2>1. binding'[t].state \in Final
      BY <1>1, <1>6 DEF SweepSettle, QInv, IInv, Types, Bindings, Final
    <2> QED BY <1>5, <1>6, <2>1 DEF SweepSettle
  <1>7. CASE SweepLink(s)
    <2>1. task'[t].link
      BY <1>1, <1>7 DEF SweepLink, QInv, IInv, Types, Task
    <2> QED BY <1>5, <1>7, <2>1 DEF SweepLink
  <1> QED BY <1>3, <1>4, <1>6, <1>7 DEF SweepOn

LEMMA NextMovesWays ==
  ASSUME QInv, TasksMove, [Next]_vars
  PROVE  WaysHold'
  <1>1. UNCHANGED <<op, sweep>> => WaysHold'
    BY WaysKept
  <1>2. CASE UNCHANGED vars \/ Compose \/ CloseAdmission \/ QueueStep
    BY <1>1, <1>2 DEF vars, recoveryVars, admissionVars, Compose, CloseAdmission, QueueStep
  <1>3. ASSUME NEW k \in Keys, NEW i \in Intents, Submit(k, i) \/ SubmitUnanswered(k, i)
        PROVE  WaysHold'
    BY <1>1, <1>3 DEF Submit, SubmitUnanswered, recoveryVars, admissionVars
  <1>4. ASSUME NEW k \in Keys, NEW i \in Intents, Begin(k, i) PROVE WaysHold'
    <2>1. UNCHANGED sweep
      BY <1>4 DEF Begin, recoveryVars
    <2>2. \E t : Continue(k, i, t)
      BY <1>4 DEF Begin, BeginAdmitted, BeginReserved, BeginFresh
    <2>3. op'.at \in {"none", "bind", "commit"}
      BY <2>2 DEF Continue, Done, NoOp
    <2> QED BY <2>1, <2>3, WaysKept
  <1>5. CASE RecoveryStep
    <2>1. UNCHANGED op
      BY <1>5 DEF RecoveryStep, admissionVars
    <2>2. CASE SweepFails
      <3>1. \A s \in Sweeps : sweep'[s] = sweep[s] \/ sweep'[s] = Idle
        BY <2>2 DEF SweepFails, QInv, IInv, Types
      <3> QED BY <2>1, <3>1, WaysKept DEF Idle
    <2>3. ASSUME NEW t \in Tasks, Cancel(t) \/ DispatchStep(t) PROVE WaysHold'
      <3>1. UNCHANGED sweep \/ sweep' = [sweep EXCEPT ![t] = NextOf(startup')]
        BY <2>3 DEF Cancel, DispatchStep, DispatchToEntry, DispatchFindsNone, DispatchAlone,
                    DispatchDetached, DispatchMissed, DispatchSweep, DispatchSettle
      <3>2. \A s \in Sweeps : sweep'[s] = sweep[s] \/ sweep'[s].at \notin {"link", "cancel"}
        BY <3>1 DEF QInv, IInv, Types, NextOf, Idle
      <3> QED BY <2>1, <3>2, WaysKept
    <2> QED BY <1>5, <2>1, <2>2, <2>3, SweepMovesWays DEF RecoveryStep, SweepStep
  <1>6. ASSUME NEW t \in Tasks, TerminalBinding(t) PROVE WaysHold'
    BY <1>1, <1>6 DEF TerminalBinding, admissionVars
  <1>7. CASE Crash
    <2>1. op' = NoOp /\ sweep' = [s \in Sweeps |-> Idle]
      BY <1>7 DEF Crash
    <2> QED BY <2>1, WaysKept DEF NoOp, Idle
  <1>8. CASE Restart
    <2>1. UNCHANGED op /\ sweep' = [sweep EXCEPT ![Boot] = NextOf(startup')]
      BY <1>8 DEF Restart
    <2>2. \A s \in Sweeps : sweep'[s] = sweep[s] \/ sweep'[s].at \notin {"link", "cancel"}
      BY <2>1 DEF QInv, IInv, Types, NextOf, Idle
    <2> QED BY <2>1, <2>2, WaysKept
  <1> QED BY <1>2, <1>3, <1>4, <1>5, <1>6, <1>7, <1>8, OpMovesWays DEF Next, Client

PlacesHold == Cardinality(Used) <= MaxWorkers + MaxQueued

LEMMA UsedTasks ==
  ASSUME IInv
  PROVE  /\ Used \subseteq Tasks
         /\ \A k \in Keys : reserved[k].id # NoTaskId => reserved[k].id \in ReservedIds
  <1>1. \A k \in Keys : reserved[k].id \in Tasks \cup {NoTaskId}
    BY DEF IInv, Types, Reservations, NoReservation
  <1> QED BY <1>1 DEF Used, ReservedIds

LEMMA UsedLess ==
  ASSUME QInv, NEW U, U \subseteq Used
  PROVE  Cardinality(U) <= MaxWorkers + MaxQueued
  <1>1. IsFiniteSet(Used)
    BY UsedTasks, FS_Subset, AdmissionConstants DEF QInv
  <1>2. Cardinality(Used) <= MaxWorkers + MaxQueued
    BY DEF QInv, CapacityKept, Used
  <1>3. /\ Cardinality(U) <= Cardinality(Used)
        /\ Cardinality(U) \in Nat /\ Cardinality(Used) \in Nat
    BY <1>1, FS_Subset, FS_CardinalityType
  <1> QED BY <1>2, <1>3, AdmissionConstants

LEMMA UsedMore ==
  ASSUME QInv, HasRoom, NEW U, NEW t, U \subseteq Used \cup {t}
  PROVE  Cardinality(U) <= MaxWorkers + MaxQueued
  <1>1. IsFiniteSet(Used)
    BY UsedTasks, FS_Subset, AdmissionConstants DEF QInv
  <1>2. Cardinality(Used) < MaxWorkers + MaxQueued
    BY DEF HasRoom, Used
  <1>3. /\ IsFiniteSet(Used \cup {t}) /\ Cardinality(Used \cup {t}) <= Cardinality(Used) + 1
        /\ Cardinality(Used) \in Nat
    BY <1>1, FS_AddElement, FS_CardinalityType
  <1>4. /\ Cardinality(U) <= Cardinality(Used \cup {t})
        /\ Cardinality(U) \in Nat /\ Cardinality(Used \cup {t}) \in Nat
    BY <1>3, FS_Subset, FS_CardinalityType
  <1> QED BY <1>2, <1>3, <1>4, AdmissionConstants

\* A step that reserves nothing takes no place it had not reserved, or has room.
LEMMA PlacesKept ==
  ASSUME QInv, TasksMove, \A k \in Keys : reserved'[k].id \in {reserved[k].id, NoTaskId}
  PROVE  PlacesHold'
  <1>1. ReservedIds' \subseteq ReservedIds
    BY DEF ReservedIds
  <1>2. \A t \in Tasks : OnDisk(t) /\ Unsettled(t)' => Unsettled(t)
    BY DEF TasksMove, Moves, Unsettled
  <1>3. CASE \A t \in Tasks : Unsettled(t)' => OnDisk(t) \/ t \in ReservedIds
    <2>1. Used' \subseteq Used
      BY <1>1, <1>2, <1>3 DEF Used
    <2> QED BY <2>1, UsedLess DEF PlacesHold
  <1>4. ASSUME NEW t \in Tasks, Unsettled(t)', ~OnDisk(t), t \notin ReservedIds
        PROVE  PlacesHold'
    <2>1. Admitted(t)
      BY <1>4 DEF TasksMove, Unsettled, OnDisk
    <2>2. Used' \subseteq Used \cup {t}
      BY <1>1, <2>1 DEF Admitted, Used, Unsettled, OnDisk
    <2> QED BY <2>1, <2>2, UsedMore DEF PlacesHold, Admitted
  <1> QED BY <1>3, <1>4

LEMMA NextMovesPlaces ==
  ASSUME QInv, TasksMove, [Next]_vars
  PROVE  PlacesHold'
  <1>1. UNCHANGED reserved => PlacesHold'
    BY PlacesKept
  <1>2. CASE \/ UNCHANGED vars \/ Compose \/ CloseAdmission \/ QueueStep \/ RecoveryStep \/ Restart
             \/ \E t \in Tasks : TerminalBinding(t)
    BY <1>1, <1>2
    DEF vars, admissionVars, Compose, CloseAdmission, QueueStep, RecoveryStep, Restart, TerminalBinding
  <1>3. ASSUME NEW k \in Keys, NEW i \in Intents, Submit(k, i) \/ SubmitUnanswered(k, i)
        PROVE  PlacesHold'
    BY <1>1, <1>3 DEF Submit, SubmitUnanswered, admissionVars
  <1>4. ASSUME NEW k \in Keys, NEW i \in Intents, Begin(k, i) PROVE PlacesHold'
    <2>1. CASE UNCHANGED reserved
      BY <1>1, <2>1
    <2>2. CASE BeginFresh(k, i)
      <3>1. /\ UNCHANGED task /\ HasRoom
            /\ \E t : reserved' = [reserved EXCEPT ![k] = [id |-> t, intent |-> i]]
        BY <1>4, <2>2 DEF Begin, BeginFresh, diskVars
      <3>2. PICK t : \A l \in Keys : reserved'[l].id \in {reserved[l].id, t}
        BY <3>1 DEF QInv, IInv, Types
      <3>3. Used' \subseteq Used \cup {t}
        BY <3>1, <3>2 DEF Used, ReservedIds, Unsettled, OnDisk
      <3> QED BY <3>1, <3>3, UsedMore DEF PlacesHold
    <2> QED BY <1>4, <2>1, <2>2 DEF Begin, BeginAdmitted, BeginReserved
  <1>5. CASE OpStep
    <2>1. op.at # "none" /\ (reserved' = reserved \/ reserved' = Dropped)
      BY <1>5
      DEF OpStep, Bind, BindRefused, BindUnanswered, Commit, CommitRefused, CommitUnanswered, Release,
          ReleaseUnanswered, Unreserve, Settle, SettleUnanswered, Link, LinkFails, FinishCancelled,
          Enqueue
    <2>2. \A k \in Keys : reserved'[k] \in {reserved[k], NoReservation}
      BY <2>1, DroppedTyped DEF QInv
    <2> QED BY <2>2, PlacesKept DEF NoReservation
  <1>6. CASE Crash
    <2>1. \A k \in Keys : reserved'[k].id = NoTaskId
      BY <1>6 DEF Crash, NoReservation
    <2> QED BY <2>1, PlacesKept
  <1> QED BY <1>2, <1>3, <1>4, <1>5, <1>6 DEF Next, Client

LEMMA NextKicks ==
  ASSUME QInv, [Next]_vars
  PROVE  NoLostKick'
  <1>1. Kick => NoLostKick'
    BY DEF Kick, NoLostKick
  <1>2. ASSUME UNCHANGED <<queue, aborted, active, pump>>, frozen => frozen' PROVE NoLostKick'
    BY <1>2 DEF QInv, NoLostKick, Startable
  <1>3. CASE UNCHANGED vars \/ Compose \/ CloseAdmission
    BY <1>2, <1>3 DEF vars, diskVars, queueVars, Compose, CloseAdmission
  <1>4. CASE Restart
    BY <1>2, <1>4 DEF Restart, queueVars
  <1>5. CASE Crash
    BY <1>5 DEF Crash, NoLostKick, Startable, ToSet
  <1>6. ASSUME NEW k \in Keys, NEW i \in Intents,
               Submit(k, i) \/ SubmitUnanswered(k, i) \/ Begin(k, i)
        PROVE  NoLostKick'
    BY <1>1, <1>2, <1>6 DEF Submit, SubmitUnanswered, Begin, diskVars, queueVars
  <1>7. CASE OpStep
    <2>1. CASE Enqueue
      BY <1>1, <2>1 DEF Enqueue
    <2>2. CASE UNCHANGED <<queue, pump>>
      BY <1>2, <1>7, <2>2 DEF OpStep
    <2> QED BY <1>7, <2>1, <2>2
        DEF OpStep, Bind, BindRefused, BindUnanswered, Commit, CommitRefused, CommitUnanswered,
            Release, ReleaseUnanswered, Unreserve, Settle, SettleUnanswered, Link, LinkFails,
            FinishCancelled
  <1>8. CASE QueueStep
    <2>1. CASE Pump
      BY <2>1 DEF Pump, NoLostKick
    <2>2. CASE PumpCleared
      BY <2>2 DEF PumpCleared, NoLostKick, Startable, diskVars
    <2>3. ASSUME NEW t \in Tasks, RunStep(t) PROVE NoLostKick'
      BY <1>1, <1>2, <2>3 DEF RunStep, StartWorker, SettleRun, FreezeRun, LeaveRun, queueVars
    <2> QED BY <1>8, <2>1, <2>2, <2>3 DEF QueueStep
  <1>9. CASE RecoveryStep
    <2>1. CASE SweepStep \/ SweepFails
      BY <1>2, <2>1 DEF SweepStep, SweepOn, SweepFails, diskVars, queueVars
    <2>2. ASSUME NEW t \in Tasks, Cancel(t) \/ DispatchStep(t) PROVE NoLostKick'
      BY <1>1, <1>2, <2>2
      DEF Cancel, DispatchStep, DispatchToEntry, AbortEntry, DispatchFindsNone, DispatchAlone,
          DispatchDetached, DispatchMissed, DispatchSweep, DispatchSettle, diskVars, queueVars
    <2> QED BY <1>9, <2>1, <2>2 DEF RecoveryStep
  <1>10. ASSUME NEW t \in Tasks, TerminalBinding(t) PROVE NoLostKick'
    BY <1>2, <1>10 DEF TerminalBinding, diskVars, queueVars
  <1> QED BY <1>3, <1>4, <1>5, <1>6, <1>7, <1>8, <1>9, <1>10 DEF Next, Client

-----------------------------------------------------------------------------

LEMMA InitQueue == Init => QInv
  <1> SUFFICES ASSUME Init PROVE QInv
    OBVIOUS
  <1> USE DEF Init, LinkInit, SchedulerInit, NoTask, NoReservation, NoOp, Idle
  <1>1. QueueTypes /\ EntriesHold /\ LinksHold /\ WaysHold
    BY DEF QueueTypes, EntriesHold, LinksHold, WaysHold
  <1>4. QueueExact
    BY DEF QueueExact, Queued
  <1>2. CapacityKept
    <2>1. Used = {} /\ Slots = {} /\ active = 0
      BY DEF Used, Slots, ReservedIds, Unsettled, OnDisk
    <2>2. Cardinality(Used) = 0 /\ Cardinality(Slots) = 0
      BY <2>1, FS_EmptySet
    <2>3. PlacesHold /\ SlotsHold
      BY <2>1, <2>2, AdmissionConstants DEF PlacesHold, SlotsHold
    <2> QED BY <2>3 DEF CapacityKept, PlacesHold, SlotsHold, Used, Slots
  <1>3. NoLostKick
    BY DEF NoLostKick, Startable, ToSet
  <1> QED BY <1>1, <1>2, <1>3, <1>4, InitHolds DEF QInv

LEMMA NextQueue == QInv /\ [Next]_vars => QInv'
  <1> SUFFICES ASSUME QInv, [Next]_vars PROVE QInv'
    OBVIOUS
  <1>1. IInv'
    BY NextHolds DEF QInv
  <1>2. TasksMove /\ QueueMoves
    BY NextMovesTasks, NextMovesQueue
  <1>3. LinksHold' /\ \A t \in Tasks : stage'[t] # "none" \/ t \in started' => OnDisk(t)'
    BY <1>2, LinksKept DEF QueueMoves
  <1>4. QueueTypes' /\ EntriesHold' /\ QueueExact'
    BY <1>2, <1>3 DEF QueueMoves, EntriesHold
  <1>5. CapacityKept'
    BY <1>2, NextMovesPlaces DEF QueueMoves, CapacityKept, SlotsHold, Slots, PlacesHold, Used
  <1> QED BY <1>1, <1>2, <1>3, <1>4, <1>5, NextMovesWays, NextKicks DEF QInv

\* The queue, the slots, the links and the ways to them hold together: the
\* strengthening the three theorems below rest on.
THEOREM QueueInvariant == Spec => []QInv
  BY InitQueue, NextQueue, PTL DEF Spec

\* Whatever order an admission, a recovery sweep, a cancellation and a death of
\* the service come in, no coordinated task is queued, started or ended before
\* its binding and its link are settled (activateLinked, #reconcileStartupCoordinated).
THEOREM QueuedOnlyLinked == Spec => []LinkedBeforeQueued
  <1>1. QInv => LinkedBeforeQueued
    BY DEF QInv, LinksHold, LinkedBeforeQueued, Final
  <1> QED BY <1>1, QueueInvariant, PTL

\* Reserved and unsettled work never exceeds the slots and the places of the
\* policy, and #active counts the running entries, for every number of workers.
THEOREM CapacityIsKept == Spec => []CapacityKept
  <1>1. QInv => CapacityKept
    BY DEF QInv
  <1> QED BY <1>1, QueueInvariant, PTL

\* A kick that a pump swallows (#kick, while #pump is set) is never lost: while
\* something in the queue could leave it, a pump is there that will look.
THEOREM KicksAreNotLost == Spec => []NoLostKick
  <1>1. QInv => NoLostKick
    BY DEF QInv
  <1> QED BY <1>1, QueueInvariant, PTL

-----------------------------------------------------------------------------
(* Admission implements AdmissionContract. *)

StartedMoves ==
  /\ started \subseteq started'
  /\ \A t \in Tasks : t \in started' => t \in started \/ stage[t] # "none"

LEMMA NextStarts ==
  ASSUME [Next]_vars
  PROVE  StartedMoves
  <1>1. UNCHANGED started => StartedMoves
    BY DEF StartedMoves
  <1>2. CASE UNCHANGED vars \/ Compose \/ CloseAdmission \/ Restart \/ Crash \/ OpStep
    BY <1>1, <1>2 DEF vars, diskVars, Compose, CloseAdmission, Restart, Crash, OpStep
  <1>3. ASSUME NEW k \in Keys, NEW i \in Intents,
               Submit(k, i) \/ SubmitUnanswered(k, i) \/ Begin(k, i)
        PROVE  StartedMoves
    BY <1>1, <1>3 DEF Submit, SubmitUnanswered, Begin, diskVars
  <1>4. CASE QueueStep
    <2>1. ASSUME NEW t \in Tasks, StartWorker(t) PROVE StartedMoves
      BY <2>1 DEF StartWorker, StartedMoves
    <2> QED BY <1>1, <1>4, <2>1
        DEF QueueStep, RunStep, Pump, PumpCleared, SettleRun, FreezeRun, LeaveRun, diskVars
  <1>5. CASE SweepStep \/ SweepFails
    BY <1>1, <1>5 DEF SweepStep, SweepOn, SweepFails, diskVars
  <1>6. ASSUME NEW t \in Tasks, Cancel(t) \/ DispatchStep(t) \/ TerminalBinding(t)
        PROVE  StartedMoves
    BY <1>1, <1>6
    DEF Cancel, DispatchStep, DispatchToEntry, AbortEntry, DispatchFindsNone, DispatchAlone,
        DispatchDetached, DispatchMissed, DispatchSweep, DispatchSettle, TerminalBinding, diskVars
  <1> QED BY <1>2, <1>3, <1>4, <1>5, <1>6 DEF Next, Client, RecoveryStep

\* How far a task may come in a step.
ComesTo(from, to) ==
  \/ from = to
  \/ from = "absent" /\ to \in {"accepted", "ready"}
  \/ from = "accepted" /\ to = "ready"
  \/ from = "ready" /\ to = "started"
  \/ from \in {"ready", "started"} /\ to = "ended"

LEMMA LifeComes ==
  ASSUME QInv, TasksMove, StartedMoves, NEW t \in Tasks
  PROVE  ComesTo(Life(t), Life(t)')
  <1>1. CASE ~OnDisk(t)
    <2>1. t \notin started'
      BY <1>1 DEF StartedMoves, QInv, EntriesHold
    <2>2. task'[t].phase # "terminal"
      BY <1>1 DEF TasksMove
    <2>3. Life(t)' \in {"absent", "accepted", "ready"}
      BY <2>1, <2>2 DEF Life, OnDisk
    <2> QED BY <1>1, <2>3 DEF ComesTo, Life
  <1>2. CASE OnDisk(t)
    <2>1. Moves(task[t], task'[t], binding'[t].state) /\ OnDisk(t)'
      BY <1>2 DEF TasksMove, Moves, OnDisk
    <2>2. CASE task[t].phase = "terminal"
      BY <1>2, <2>1, <2>2 DEF Moves, Life, ComesTo
    <2>3. CASE task[t].phase # "terminal" /\ task'[t].phase = "terminal"
      <3>1. Life(t)' = "ended"
        BY <2>1, <2>3 DEF Life
      <3>2. Life(t) \in {"ready", "started"}
        BY <1>2, <2>1, <2>3 DEF Moves, Life
      <3> QED BY <3>1, <3>2 DEF ComesTo
    <2>4. CASE task[t].phase # "terminal" /\ task'[t].phase # "terminal"
      <3>1. CASE t \in started
        BY <1>2, <2>1, <2>4, <3>1 DEF StartedMoves, Life, ComesTo
      <3>2. CASE t \notin started /\ t \in started'
        <4>1. task[t].form = "coordinated" => task[t].link
          BY <3>2 DEF StartedMoves, QInv, LinksHold
        <4> QED BY <1>2, <2>1, <2>4, <3>2, <4>1 DEF Life, ComesTo
      <3>3. CASE t \notin started /\ t \notin started'
        BY <1>2, <2>1, <2>4, <3>3 DEF Moves, Life, ComesTo
      <3> QED BY <3>1, <3>2, <3>3 DEF StartedMoves
    <2> QED BY <2>2, <2>3, <2>4
  <1> QED BY <1>1, <1>2

OthersStay(t) ==
  /\ \A u \in Tasks \ {t} : task'[u] = task[u]
  /\ \A u \in Tasks \ {t} : u \in started' <=> u \in started

OneAlone == UNCHANGED <<task, started>> \/ \E t \in Tasks : OthersStay(t)

LEMMA OneStays ==
  ASSUME QInv, UNCHANGED started, NEW t \in Tasks, NEW r, task' = [task EXCEPT ![t] = r]
  PROVE  OneAlone
  <1>1. \A u \in Tasks \ {t} : task'[u] = task[u]
    BY DEF QInv, IInv, Types
  <1> QED BY <1>1 DEF OneAlone, OthersStay

\* Every step but the restart is about one task at most.
LEMMA NextAlone ==
  ASSUME QInv, [Next]_vars, ~Restart
  PROVE  OneAlone
  <1>1. UNCHANGED <<task, started>> => OneAlone
    BY DEF OneAlone
  <1>2. CASE UNCHANGED vars \/ Compose \/ CloseAdmission \/ Crash
    BY <1>1, <1>2 DEF vars, diskVars, Compose, CloseAdmission, Crash
  <1>3. ASSUME NEW k \in Keys, NEW i \in Intents, Submit(k, i) \/ SubmitUnanswered(k, i)
        PROVE  OneAlone
    <2>1. PICK t \in Unused : task' = [task EXCEPT ![t] = NewTask("plain", k, i)]
      BY <1>3 DEF Submit, SubmitUnanswered
    <2> QED BY <1>3, <2>1, OneStays DEF Submit, SubmitUnanswered, Unused
  <1>4. ASSUME NEW k \in Keys, NEW i \in Intents, Begin(k, i) PROVE OneAlone
    BY <1>1, <1>4 DEF Begin, diskVars
  <1>5. CASE OpStep
    <2>1. op.at # "none" => op.id \in Tasks
      BY OpNamed DEF QInv
    <2>2. UNCHANGED started
      BY <1>5 DEF OpStep
    <2>3. CASE UNCHANGED task
      BY <1>1, <2>2, <2>3
    <2>4. CASE Commit \/ CommitUnanswered
      BY <2>1, <2>2, <2>3, <2>4, OneStays DEF Commit, CommitUnanswered, Committed
    <2>5. CASE Link
      <3>1. \E r : task' = [task EXCEPT ![op.id] = r]
        BY <2>5 DEF Link
      <3> QED BY <2>1, <2>2, <2>5, <3>1, OneStays DEF Link
    <2>6. CASE FinishCancelled
      <3>1. \E r : task' = [task EXCEPT ![op.id] = r]
        BY <2>6 DEF FinishCancelled, CancelledAlone
      <3> QED BY <2>1, <2>2, <2>6, <3>1, OneStays DEF FinishCancelled
    <2> QED BY <1>5, <2>3, <2>4, <2>5, <2>6
        DEF OpStep, Bind, BindRefused, BindUnanswered, CommitRefused, Release,
            ReleaseUnanswered, Unreserve, Settle, SettleUnanswered, LinkFails, Enqueue
  <1>6. CASE QueueStep
    <2>1. CASE Pump \/ PumpCleared
      BY <1>1, <2>1 DEF Pump, PumpCleared, diskVars
    <2>2. ASSUME NEW t \in Tasks, LeaveRun(t) PROVE OneAlone
      BY <1>1, <2>2 DEF LeaveRun, diskVars
    <2>3. ASSUME NEW t \in Tasks, SettleRun(t) \/ FreezeRun(t) PROVE OneAlone
      <3>1. \E r : task' = [task EXCEPT ![t] = r]
        BY <2>3 DEF SettleRun, FreezeRun
      <3>2. UNCHANGED started
        BY <2>3 DEF SettleRun, FreezeRun
      <3> QED BY <3>1, <3>2, OneStays
    <2>4. ASSUME NEW t \in Tasks, StartWorker(t) PROVE OneAlone
      <3>1. task' = [task EXCEPT ![t].phase = "running", ![t].native = TRUE]
        BY <2>4 DEF StartWorker
      <3>2. \A u \in Tasks \ {t} : task'[u] = task[u]
        BY <3>1 DEF QInv, IInv, Types
      <3> QED BY <2>4, <3>2 DEF StartWorker, OneAlone, OthersStay
    <2> QED BY <1>6, <2>1, <2>2, <2>3, <2>4 DEF QueueStep, RunStep
  <1>7. CASE SweepFails
    BY <1>1, <1>7 DEF SweepFails, diskVars
  <1>8. ASSUME NEW s \in Sweeps, SweepOn(s) PROVE OneAlone
    <2>1. UNCHANGED started
      BY <1>8 DEF SweepOn
    <2>2. sweep[s].at # "idle" => sweep[s].task \in Tasks
      BY DEF QInv, IInv, Types, Sweeping, Idle
    <2>3. CASE SweepLink(s) \/ SweepCancel(s)
      <3>1. sweep[s].task \in Tasks
        BY <2>2, <2>3 DEF SweepLink, SweepCancel
      <3>2. \E r : task' = [task EXCEPT ![sweep[s].task] = r]
        BY <2>3 DEF SweepLink, SweepCancel
      <3> QED BY <2>1, <3>1, <3>2, OneStays
    <2> QED BY <1>1, <1>8, <2>1, <2>3 DEF SweepOn, SweepRead, SweepSettle, SweepClose
  <1>9. ASSUME NEW t \in Tasks, Cancel(t) \/ DispatchStep(t) PROVE OneAlone
    <2>1. UNCHANGED started
      BY <1>9
      DEF Cancel, DispatchStep, DispatchToEntry, AbortEntry, DispatchFindsNone, DispatchAlone,
          DispatchDetached, DispatchMissed, DispatchSweep, DispatchSettle, diskVars
    <2>2. CASE UNCHANGED task
      BY <1>1, <2>1, <2>2
    <2>3. CASE DispatchAlone(t) \/ DispatchSettle(t)
      <3>1. \E r : task' = [task EXCEPT ![t] = r]
        BY <2>3 DEF DispatchAlone, DispatchSettle, CancelledAlone
      <3> QED BY <2>1, <3>1, OneStays
    <2>4. CASE Cancel(t)
      <3>1. CASE ~task[t].cancel
        <4>1. task' = [task EXCEPT ![t].cancel = TRUE, ![t].phase = "stopping"]
          BY <2>4, <3>1 DEF Cancel
        <4>2. \A u \in Tasks \ {t} : task'[u] = task[u]
          BY <4>1 DEF QInv, IInv, Types
        <4> QED BY <2>1, <4>2 DEF OneAlone, OthersStay
      <3> QED BY <2>2, <2>4, <3>1 DEF Cancel
    <2> QED BY <1>9, <2>2, <2>3, <2>4
        DEF DispatchStep, DispatchToEntry, AbortEntry, DispatchFindsNone,
            DispatchDetached, DispatchMissed, DispatchSweep, diskVars
  <1>10. ASSUME NEW t \in Tasks, TerminalBinding(t) PROVE OneAlone
    BY <1>1, <1>10 DEF TerminalBinding, diskVars
  <1> QED BY <1>2, <1>3, <1>4, <1>5, <1>6, <1>7, <1>8, <1>9, <1>10
      DEF Next, Client, RecoveryStep, SweepStep

\* The restart reconciles every record, and no task comes further by it.
LEMMA RestartStays ==
  ASSUME QInv, Restart, NEW t \in Tasks
  PROVE  /\ task'[t].key = task[t].key
         /\ task'[t].intent = task[t].intent
         /\ Life(t)' = Life(t)
  <1>1. task[t] \in Task /\ task'[t] = Reconciled(task[t]) /\ UNCHANGED started
    BY DEF QInv, IInv, Types, Restart
  <1>2. CASE Reconciled(task[t]) = task[t]
    BY <1>1, <1>2 DEF Life, OnDisk
  <1>3. CASE Reconciled(task[t]) # task[t]
    <2> DEFINE r == task[t]
    <2>1. OnDisk(t) /\ r.phase # "terminal"
      BY <1>3 DEF Reconciled, AwaitsLink, QInv, LinksHold, OnDisk
    <2>2. \/ \E a : Reconciled(r) = [r EXCEPT !.phase = "attention", !.recovered = a]
          \/ \E a, n : Reconciled(r) =
                         [r EXCEPT !.phase = "attention", !.recovered = a, !.native = n]
      BY <1>3 DEF Reconciled
    <2>3. r \in Task /\ task'[t] = Reconciled(r)
      BY <1>1
    <2> HIDE DEF r
    <2>4. /\ task'[t].form = r.form /\ task'[t].link = r.link
          /\ task'[t].key = r.key /\ task'[t].intent = r.intent
          /\ task'[t].phase = "attention"
      BY <2>2, <2>3 DEF Task
    <2> QED BY <1>1, <2>1, <2>4 DEF Life, OnDisk, r
  <1> QED BY <1>2, <1>3

TaskKeys == [t \in Tasks |-> task[t].key]
TaskIntents == [t \in Tasks |-> task[t].intent]
Lives == [t \in Tasks |-> Life(t)]

\* Under no step does a published task lose its key or its intent; a task that
\* appears has a key that no other task has.
LEMMA NamesKept ==
  ASSUME QInv, QInv', TasksMove, NEW t \in Tasks
  PROVE  /\ Life(t) # "absent" \/ Life(t)' = "absent" =>
              task'[t].key = task[t].key /\ task'[t].intent = task[t].intent
         /\ Life(t) = "absent" /\ Life(t)' # "absent" =>
              /\ task'[t].key \in Keys /\ task'[t].intent \in Intents
              /\ \A u \in Tasks : task[u].key # task'[t].key
  <1>1. \A u \in Tasks : (Life(u) = "absent" <=> ~OnDisk(u)) /\ (Life(u)' = "absent" <=> ~OnDisk(u)')
    BY DEF Life
  <1>2. \A u \in Tasks : OnDisk(u) => /\ OnDisk(u)' /\ task'[u].key = task[u].key
                                      /\ task'[u].intent = task[u].intent
    BY DEF TasksMove, Moves, OnDisk
  <1>3. ~OnDisk(t) /\ ~OnDisk(t)' => task'[t].key = task[t].key /\ task'[t].intent = task[t].intent
    BY DEF QInv, IInv, Records
  <1>4. ASSUME ~OnDisk(t), OnDisk(t)'
        PROVE  /\ task'[t].key \in Keys /\ task'[t].intent \in Intents
               /\ \A u \in Tasks : task[u].key # task'[t].key
    <2>1. task'[t].key \in Keys /\ task'[t].intent \in Intents
      BY <1>4 DEF QInv, IInv, Records
    <2>2. ASSUME NEW u \in Tasks, task[u].key = task'[t].key PROVE FALSE
      <3>1. OnDisk(u)
        BY <2>1, <2>2, AdmissionConstants DEF QInv, IInv, Records, NoTask
      <3>2. u = t
        BY <1>2, <1>4, <2>2, <3>1 DEF QInv, IInv, OneTaskPerKey
      <3> QED BY <1>4, <3>1, <3>2
    <2> QED BY <2>1, <2>2
  <1> QED BY <1>1, <1>2, <1>3, <1>4

LEMMA InitContract == Init => Contract!Init
  <1> SUFFICES ASSUME Init PROVE Contract!Init
    OBVIOUS
  <1>1. \A t \in Tasks : task[t].key = NoKey /\ task[t].intent = NoIntent /\ Life(t) = "absent"
    BY DEF Init, LinkInit, SchedulerInit, NoTask, Life, OnDisk
  <1> QED BY <1>1 DEF Contract!Init

\* A step after which every task is where it was is unseen by the contract, and
\* one that takes a task further is the contract's step of that task.
LEMMA ContractStep ==
  ASSUME QInv, QInv', [Next]_vars
  PROVE  [Contract!Next]_Contract!vars
  <1>1. TasksMove /\ StartedMoves
    BY NextMovesTasks, NextStarts
  <1>2. CASE \A t \in Tasks : /\ task'[t].key = task[t].key
                              /\ task'[t].intent = task[t].intent
                              /\ Life(t)' = Life(t)
    <2>1. TaskKeys' = TaskKeys /\ TaskIntents' = TaskIntents /\ Lives' = Lives
      BY <1>2 DEF TaskKeys, TaskIntents, Lives
    <2> QED BY <2>1 DEF Contract!vars, TaskKeys, TaskIntents, Lives
  <1>3. ASSUME NEW t \in Tasks, OthersStay(t), Life(t)' # Life(t)
        PROVE  Contract!Next
    <2>1. \A u \in Tasks \ {t} : /\ task'[u].key = task[u].key
                                 /\ task'[u].intent = task[u].intent
                                 /\ Life(u)' = Life(u)
      BY <1>3 DEF OthersStay, Life, OnDisk
    <2>2. /\ TaskKeys' = [TaskKeys EXCEPT ![t] = task'[t].key]
          /\ TaskIntents' = [TaskIntents EXCEPT ![t] = task'[t].intent]
          /\ Lives' = [Lives EXCEPT ![t] = Life(t)']
      BY <2>1 DEF TaskKeys, TaskIntents, Lives
    <2>3. ComesTo(Life(t), Life(t)')
      BY <1>1, LifeComes
    <2>4. CASE Life(t) = "absent"
      <3>1. /\ task'[t].key \in Keys /\ task'[t].intent \in Intents
            /\ \A u \in Tasks : task[u].key # task'[t].key
        BY <1>1, <1>3, <2>4, NamesKept
      <3>2. Life(t)' \in {"accepted", "ready"}
        BY <1>3, <2>3, <2>4 DEF ComesTo
      <3>3. PICK k \in Keys, i \in Intents : k = task'[t].key /\ i = task'[t].intent
        BY <3>1
      <3>4. Contract!Accept(t, k, i)
        BY <2>2, <2>4, <3>1, <3>2, <3>3 DEF Contract!Accept, TaskKeys, TaskIntents, Lives
      <3> QED BY <3>4 DEF Contract!Next
    <2>5. CASE Life(t) # "absent"
      <3>1. task'[t].key = task[t].key /\ task'[t].intent = task[t].intent
        BY <1>1, <2>5, NamesKept
      <3>2. TaskKeys' = TaskKeys /\ TaskIntents' = TaskIntents
        BY <2>1, <3>1 DEF TaskKeys, TaskIntents
      <3>3. \/ Contract!Link(t) \/ Contract!Start(t) \/ Contract!End(t)
        BY <1>3, <2>2, <2>3, <2>5, <3>2
        DEF ComesTo, Contract!Link, Contract!Start, Contract!End, Contract!Comes,
            TaskKeys, TaskIntents, Lives
      <3> QED BY <3>3 DEF Contract!Next
    <2> QED BY <2>4, <2>5
  <1>4. CASE Restart
    BY <1>2, <1>4, RestartStays
  <1>5. CASE ~Restart
    <2>1. CASE UNCHANGED <<task, started>>
      BY <1>2, <2>1 DEF Life, OnDisk
    <2>2. ASSUME NEW t \in Tasks, OthersStay(t)
          PROVE  [Contract!Next]_Contract!vars
      <3>1. CASE Life(t)' # Life(t)
        BY <1>3, <2>2, <3>1
      <3>2. CASE Life(t)' = Life(t)
        <4>1. \A u \in Tasks \ {t} : /\ task'[u].key = task[u].key
                                     /\ task'[u].intent = task[u].intent
                                     /\ Life(u)' = Life(u)
          BY <2>2 DEF OthersStay, Life, OnDisk
        <4>2. task'[t].key = task[t].key /\ task'[t].intent = task[t].intent
          BY <1>1, <3>2, NamesKept
        <4> QED BY <1>2, <3>2, <4>1, <4>2
      <3> QED BY <3>1, <3>2
    <2> QED BY <1>5, <2>1, <2>2, NextAlone DEF OneAlone
  <1> QED BY <1>4, <1>5

\* Whatever is retried, lost or dies between the two stores, admission keeps the
\* promises of AdmissionContract: one task and one intent for a request key
\* (submitCoordinated, commitReserved), the link before the start and the end
\* (activateLinked), and nothing that was accepted is ever forgotten
\* (reconcileStoredTasks).
THEOREM AdmissionKeepsContract == Spec => KeepsContract
  <1>1. Init => Contract!Init
    BY InitContract
  <1>2. QInv /\ QInv' /\ [Next]_vars => [Contract!Next]_Contract!vars
    BY ContractStep
  <1> QED BY <1>1, <1>2, QueueInvariant, PTL DEF Spec, KeepsContract, Contract!Spec

\* No step loses an entry from #queue or puts it there twice (submit,
\* activateLinked, #kick): the queue is the entries at stage "queued", once each.
THEOREM QueueIsExact == Spec => [](QueueExact /\ ToSet(queue) = {t \in Tasks : Queued(t)})
  <1>1. QInv => QueueExact /\ ToSet(queue) = {t \in Tasks : Queued(t)}
    BY DEF QInv, QueueTypes, EntriesHold, QueueExact, Queued, ToSet
  <1> QED BY <1>1, QueueInvariant, PTL
=============================================================================
