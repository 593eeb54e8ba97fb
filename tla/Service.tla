------------------------------- MODULE Service -------------------------------
(***************************************************************************)
(* The life of one elected repository service (src/service/server.ts) over *)
(* the obligations of its runtime (src/core/repository-runtime.ts): when   *)
(* it exits by itself, and how it drains when it is told to stop.          *)
(*                                                                         *)
(* The service has no idle timer.  maybeExit runs after events; it asks    *)
(* the runtime for obligations, which answers after reading the store, and *)
(* compares an epoch that every event advances.  Only whether the epoch    *)
(* moved since the check began matters, so it is the flag `stale'.         *)
(*                                                                         *)
(* A task is here only what the service sees of it: an entry of the        *)
(* coordinator, a phase on disk, and the operations the runtime tracks     *)
(* after it settled.  TaskLifecycle describes its inside.                  *)
(***************************************************************************)
EXTENDS Naturals, FiniteSets

CONSTANTS
  Clients,        \* front ends
  Tasks,          \* tasks they may submit
  Asks,           \* the kinds of request each of them sends
  MaxConnects,    \* bound on connections
  StoreFails,     \* may reading the store fail
  NoTask

Kinds == {"prepare", "submit", "coordinate", "control", "stop"}

ASSUME ServiceConstants ==
  /\ Asks \in [Clients -> SUBSET Kinds]
  /\ MaxConnects \in Nat
  /\ StoreFails \in BOOLEAN
  /\ NoTask \notin Tasks

VARIABLES
  bootstrap,      \* the launcher's pipe; its reservation ends with it
  published,      \* the descriptor is written
  peers,          \* each client's connection
  connects,       \* connections so far
  request,        \* the tracked request of each client, by where it stands
  detaching,      \* clients whose detachClient is tracked
  check,          \* the obligation check of maybeExit; "failed" is "none" after a failed read
  stale,          \* the epoch moved since the check began
  draining,
  stopScheduled,  \* a stop request was answered; beginStop is to run
  stopper,        \* stopPromise: stopAdmission, then drain, then close
  closer,         \* where close stands; "no" before it was called
  preparation,    \* the runtime's #preparation and its outcome
  entries,        \* the coordinator's entries
  disk,           \* what the store says of each task
  settlements,    \* tasks with a tracked operation after their settlement
  coordinator,    \* none is composed, or whether it admits new work
  reserved,       \* the coordinator's reservations
  subject         \* the task of the coordinated submission that is under way

clientVars == <<peers, connects, request, detaching>>
exitVars == <<check, stale>>
stopVars == <<draining, stopScheduled, stopper, closer>>
admitVars == <<coordinator, reserved, subject>>
runtimeVars == <<preparation, entries, disk, settlements, admitVars>>
vars == <<bootstrap, published, clientVars, exitVars, stopVars, runtimeVars>>

\* A coordinated submission that owns #coordinatedAdmission, by what is done.
Linking == {"linking", "reserved", "committed"}

Requests == {"none", "done", "waiting", "composing", "admitting", "ordered"}
              \cup Linking \cup Kinds

TypeOK ==
  /\ bootstrap \in {"open", "ended", "closed"}
  /\ published \in BOOLEAN
  /\ peers \in [Clients -> {"away", "connected", "attached"}]
  /\ connects \in 0..MaxConnects
  /\ request \in [Clients -> Requests]
  /\ detaching \in SUBSET Clients
  /\ check \in {"none", "reading", "has", "clear", "failed"}
  /\ stale \in BOOLEAN
  /\ draining \in BOOLEAN
  /\ stopScheduled \in BOOLEAN
  /\ stopper \in {"none", "stopping", "draining", "drained"}
  /\ closer \in {"no", "server", "pending", "runtime", "ended"}
  /\ preparation \in {"none", "running", "done"}
  /\ entries \in SUBSET Tasks
  /\ disk \in [Tasks -> {"absent", "unfinished", "terminal"}]
  /\ settlements \in SUBSET Tasks
  /\ coordinator \in {"none", "open", "closed"}
  /\ reserved \in SUBSET Tasks
  /\ subject \in Tasks \cup {NoTask}

\* The endpoint listens; its descriptor is not yet published.
Init ==
  /\ bootstrap = "open"
  /\ published = FALSE
  /\ peers = [c \in Clients |-> "away"]
  /\ connects = 0
  /\ request = [c \in Clients |-> "none"]
  /\ detaching = {}
  /\ check = "none"
  /\ stale = FALSE
  /\ draining = FALSE
  /\ stopScheduled = FALSE
  /\ stopper = "none"
  /\ closer = "no"
  /\ preparation = "none"
  /\ entries = {}
  /\ disk = [t \in Tasks |-> "absent"]
  /\ settlements = {}
  /\ coordinator = "none"
  /\ reserved = {}
  /\ subject = NoTask

-----------------------------------------------------------------------------
(* maybeExit and the runtime's obligations. *)

\* peers.size, pending.size and the reservation are all zero.
Vacant ==
  /\ bootstrap # "open"
  /\ \A c \in Clients : peers[c] = "away" /\ request[c] = "none"
  /\ detaching = {}

\* The part of hasObligations that is answered from memory.
Busy == preparation = "running" \/ entries \cup reserved # {} \/ settlements # {}

\* A task request in progress is an operation the runtime tracks, but it is
\* also a pending request of the service: maybeExit looks at that first.
CheckAllowed == published /\ closer = "no" /\ ~draining /\ Vacant

\* The check starts in the same turn of the event loop as the event itself.
MaybeExit(moved) ==
  IF CheckAllowed' /\ check \in {"none", "failed"}
  THEN /\ check' = IF Busy' THEN "has" ELSE "reading"
       /\ stale' = FALSE
  ELSE /\ UNCHANGED check
       /\ stale' = (stale \/ moved)

\* An event that advances the epoch and asks for no check.
EpochMoves == UNCHANGED check /\ stale' = TRUE

\* hasObligations reads the phases of all stored tasks.
CheckReads ==
  /\ check = "reading"
  /\ check' = IF \E t \in Tasks : disk[t] = "unfinished" THEN "has" ELSE "clear"
  /\ UNCHANGED <<bootstrap, published, clientVars, stale, stopVars, runtimeVars>>

CheckFails ==
  /\ StoreFails
  /\ check = "reading"
  /\ check' = "failed"
  /\ UNCHANGED <<bootstrap, published, clientVars, stale, stopVars, runtimeVars>>

\* close: the first call closes, a later one returns.
Close ==
  /\ closer' = IF closer = "no" THEN "server" ELSE closer
  /\ draining' = TRUE

\* Mutant: the answer is used although the epoch moved.
CheckConcludesAnyway ==
  /\ check \in {"has", "clear"}
  /\ check' = "none"
  /\ IF check = "clear" /\ Vacant /\ ~draining
     THEN Close /\ stale' = TRUE
     ELSE UNCHANGED <<closer, draining, stale>>
  /\ UNCHANGED <<bootstrap, published, clientVars, stopScheduled, stopper, runtimeVars>>

\* Mutant: a check that the epoch overtook is not repeated.
CheckConcludesOnce ==
  /\ check \in {"has", "clear"}
  /\ check' = "none"
  /\ IF check = "clear" /\ ~stale /\ Vacant /\ ~draining
     THEN Close /\ stale' = TRUE
     ELSE UNCHANGED <<closer, draining, stale>>
  /\ UNCHANGED <<bootstrap, published, clientVars, stopScheduled, stopper, runtimeVars>>

\* No obligation and nothing happened meanwhile: close.  Something happened:
\* check again.  An obligation: leave it to a later event.
CheckConcludes ==
  /\ check \in {"has", "clear"}
  /\ IF check = "clear" /\ ~stale /\ Vacant /\ ~draining
     THEN Close /\ check' = "none" /\ stale' = TRUE
     ELSE /\ UNCHANGED <<closer, draining>>
          /\ IF check = "clear" /\ stale /\ CheckAllowed
             THEN check' = (IF Busy THEN "has" ELSE "reading") /\ stale' = FALSE
             ELSE check' = "none" /\ UNCHANGED stale
  /\ UNCHANGED <<bootstrap, published, clientVars, stopScheduled, stopper, runtimeVars>>

-----------------------------------------------------------------------------
(* Launch. *)

\* The pipe's end and its close each release the reservation.
ReleaseReservation ==
  /\ bootstrap # "closed"
  /\ closer # "ended"
  /\ bootstrap' = IF bootstrap = "open" THEN "ended" ELSE "closed"
  /\ UNCHANGED <<published, clientVars, stopVars, runtimeVars>>
  /\ MaybeExit(TRUE)

\* stopAdmission closes the coordinator, if there is one.
StopAdmission == coordinator' = IF coordinator = "open" THEN "closed" ELSE coordinator

\* Mutant: a stop that came too early is forgotten.
PublishForgettingStop ==
  /\ ~published
  /\ published' = TRUE
  /\ UNCHANGED <<bootstrap, clientVars, stopVars, runtimeVars>>
  /\ MaybeExit(FALSE)

\* A stop that came too early begins here.
Publish ==
  /\ ~published
  /\ published' = TRUE
  /\ IF draining
     THEN stopper' = "stopping" /\ StopAdmission
     ELSE UNCHANGED <<stopper, coordinator>>
  /\ UNCHANGED <<bootstrap, clientVars, draining, stopScheduled, closer, preparation,
                 entries, disk, settlements, reserved, subject>>
  /\ MaybeExit(draining)

-----------------------------------------------------------------------------
(* Connections and their requests. *)

\* A closing service destroys the socket instead.
Connect(c) ==
  /\ closer = "no"
  /\ peers[c] = "away"
  /\ connects < MaxConnects
  /\ connects' = connects + 1
  /\ peers' = [peers EXCEPT ![c] = "connected"]
  /\ EpochMoves
  /\ UNCHANGED <<bootstrap, published, request, detaching, stopVars, runtimeVars>>

Authenticate(c) ==
  /\ peers[c] = "connected"
  /\ closer = "no"
  /\ peers' = [peers EXCEPT ![c] = "attached"]
  /\ UNCHANGED <<bootstrap, published, connects, request, detaching, exitVars, stopVars,
                 runtimeVars>>

\* The connection's close callback.  The requests go on; they are aborted only
\* as far as they wait on behalf of the client.
Disconnect(c) ==
  /\ peers[c] # "away"
  /\ c \notin detaching
  /\ peers' = [peers EXCEPT ![c] = "away"]
  /\ detaching' = IF peers[c] = "attached" THEN detaching \cup {c} ELSE detaching
  /\ UNCHANGED <<bootstrap, published, connects, request, stopVars, runtimeVars>>
  /\ MaybeExit(TRUE)

Detached(c) ==
  /\ c \in detaching
  /\ detaching' = detaching \ {c}
  /\ UNCHANGED <<bootstrap, published, peers, connects, request, stopVars, runtimeVars>>
  /\ MaybeExit(TRUE)

\* Only the stage of c's request changes.
Advance(c, stage) ==
  /\ request' = [request EXCEPT ![c] = stage]
  /\ UNCHANGED <<bootstrap, published, peers, connects, detaching, exitVars>>

\* A request arrives and is tracked.  One at a time and client is enough.
Ask(c, kind) ==
  /\ closer = "no"
  /\ peers[c] = "attached"
  /\ request[c] = "none"
  /\ request' = [request EXCEPT ![c] = kind]
  /\ EpochMoves
  /\ UNCHANGED <<bootstrap, published, peers, connects, detaching, stopVars, runtimeVars>>

\* A preparation starts unless one is running or done; all requests share it.
EnsurePrepared == preparation' = IF preparation = "none" THEN "running" ELSE preparation

\* A draining service refuses new work; otherwise the repository is prepared
\* first, or the coordinated submissions before this one have to end.
Dispatch(c) ==
  /\ request[c] \in {"prepare", "submit", "coordinate"}
  /\ \/ draining /\ Advance(c, "done") /\ UNCHANGED preparation
     \/ /\ ~draining /\ request[c] = "coordinate"
        /\ Advance(c, "ordered") /\ UNCHANGED preparation
     \/ /\ ~draining /\ request[c] # "coordinate"
        /\ Advance(c, IF request[c] = "prepare" THEN "waiting" ELSE "composing")
        /\ EnsurePrepared
  /\ UNCHANGED <<stopVars, entries, disk, settlements, admitVars>>

\* Nothing is told when a preparation ends.
PreparationEnds ==
  /\ preparation = "running"
  /\ preparation' \in {"done", "none"}
  /\ UNCHANGED <<bootstrap, published, clientVars, exitVars, stopVars, entries, disk,
                 settlements, admitVars>>

\* #execution composes the coordinator for a submission.  A stop that began
\* meanwhile is not asked for, so the coordinator is open even then.
Compose ==
  /\ coordinator = "none"
  /\ preparation = "done"
  /\ \E c \in Clients : request[c] \in {"composing", "linking"}
  /\ coordinator' = "open"
  /\ UNCHANGED <<bootstrap, published, clientVars, exitVars, stopVars, preparation, entries,
                 disk, settlements, reserved, subject>>

\* prepare stops waiting when its client leaves; the preparation goes on.
Prepared(c) ==
  /\ request[c] = "waiting"
  /\ preparation # "running" \/ peers[c] = "away"
  /\ Advance(c, "done")
  /\ UNCHANGED <<stopVars, runtimeVars>>

\* Mutant: admission is not asked for again after the composition.
BeginAdmitUnasked(c) ==
  /\ request[c] = "composing"
  /\ coordinator # "none"
  /\ Advance(c, "admitting")
  /\ UNCHANGED <<stopVars, runtimeVars>>

\* After the composition a plain submission asks again whether admission is
\* open, and then owns the coordinator's admission.
BeginAdmit(c) ==
  /\ request[c] = "composing"
  /\ coordinator # "none"
  /\ stopper = "none"
  /\ Advance(c, "admitting")
  /\ UNCHANGED <<stopVars, runtimeVars>>

Accept(c, t) ==
  /\ request[c] = "admitting"
  /\ disk[t] = "absent"
  /\ t \notin reserved
  /\ disk' = [disk EXCEPT ![t] = "unfinished"]
  /\ entries' = entries \cup {t}
  /\ Advance(c, "done")
  /\ UNCHANGED <<stopVars, preparation, settlements, admitVars>>

\* A failed preparation, an abandoned or invalid request, or a closed admission:
\* a plain submission that finds it closed closes the coordinator it composed.
Refuse(c) ==
  /\ request[c] \in {"composing", "admitting"}
  /\ preparation # "running"
  /\ \/ UNCHANGED coordinator
     \/ stopper # "none" /\ StopAdmission
  /\ Advance(c, "done")
  /\ UNCHANGED <<stopVars, preparation, entries, disk, settlements, reserved, subject>>

-----------------------------------------------------------------------------
(* submitCoordinated: one at a time, and admission is asked for only once. *)

\* The submission owns #coordinatedAdmission and prepares the repository, unless
\* a stop has begun.
EnterCoordinated(c) ==
  /\ request[c] = "ordered"
  /\ \A d \in Clients : request[d] \notin Linking
  /\ \/ stopper # "none" /\ Advance(c, "done") /\ UNCHANGED <<preparation, subject>>
     \/ /\ stopper = "none"
        /\ \E t \in Tasks : subject' = t
        /\ Advance(c, "linking")
        /\ EnsurePrepared
  /\ UNCHANGED <<stopVars, entries, disk, settlements, coordinator, reserved>>

\* A task that is on disk is admitted already; a reservation that an earlier
\* attempt left is taken over; only a new one needs an open coordinator.
Reserve(c) ==
  /\ request[c] = "linking"
  /\ coordinator # "none"
  /\ \/ disk[subject] # "absent" /\ Advance(c, "committed") /\ UNCHANGED reserved
     \/ /\ disk[subject] = "absent"
        /\ subject \in reserved \/ coordinator = "open"
        /\ reserved' = reserved \cup {subject}
        /\ Advance(c, "reserved")
  /\ UNCHANGED <<stopVars, preparation, entries, disk, settlements, coordinator, subject>>

\* The metadata bind the key to the task, then commitReserved makes the task
\* durable, but not yet queued.  A coordination session that is draining binds
\* no new key, but any key may have been bound by an attempt of an earlier life,
\* so that the binding alone does not tell whether a stop began.
Commit(c) ==
  /\ request[c] = "reserved"
  /\ coordinator = "open"
  /\ disk[subject] = "absent"
  /\ disk' = [disk EXCEPT ![subject] = "unfinished"]
  /\ Advance(c, "committed")
  /\ UNCHANGED <<stopVars, preparation, entries, settlements, admitVars>>

\* activateLinked, after the link was settled: what is still reserved is queued,
\* whether or not a stop has begun or drained.
Activate(c) ==
  /\ request[c] = "committed"
  /\ entries' = IF subject \in reserved /\ disk[subject] = "unfinished"
                THEN entries \cup {subject} ELSE entries
  /\ settlements' \in {settlements,
       IF disk[subject] = "terminal" THEN settlements \cup {subject} ELSE settlements}
  /\ reserved' = reserved \ {subject}
  /\ subject' = NoTask
  /\ Advance(c, "done")
  /\ UNCHANGED <<stopVars, preparation, disk, coordinator>>

\* Any of the steps fails, or the client leaves before the reservation.  The
\* reservation is released unless the task may be on disk by now, or the answer
\* of the metadata is uncertain.
RefuseCoordinated(c) ==
  /\ request[c] \in Linking
  /\ preparation # "running" \/ peers[c] = "away"
  /\ \/ UNCHANGED reserved
     \/ request[c] = "reserved" /\ disk[subject] = "absent" /\ reserved' = reserved \ {subject}
  /\ subject' = NoTask
  /\ Advance(c, "done")
  /\ UNCHANGED <<stopVars, preparation, entries, disk, settlements, coordinator>>

-----------------------------------------------------------------------------

\* Observation and every request whose outcome changes nothing modelled; or an
\* operator settles a task that no entry owns any more.
Control(c) ==
  /\ request[c] = "control"
  /\ Advance(c, "done")
  /\ \/ UNCHANGED disk
     \/ \E t \in Tasks \ entries :
          disk[t] = "unfinished" /\ disk' = [disk EXCEPT ![t] = "terminal"]
  /\ UNCHANGED <<stopVars, preparation, entries, settlements, admitVars>>

\* stop answers first and schedules beginStop.
AskStop(c) ==
  /\ request[c] = "stop"
  /\ stopScheduled' = TRUE
  /\ Advance(c, "done")
  /\ UNCHANGED <<draining, stopper, closer, runtimeVars>>

\* The tracked request settles.
Settle(c) ==
  /\ request[c] = "done"
  /\ request' = [request EXCEPT ![c] = "none"]
  /\ UNCHANGED <<bootstrap, published, peers, connects, detaching, stopVars, runtimeVars>>
  /\ MaybeExit(TRUE)

-----------------------------------------------------------------------------
(* Tasks, as far as the service sees them. *)

\* The task's record becomes terminal while its entry still exists.
TaskEnds(t) ==
  /\ t \in entries
  /\ disk[t] = "unfinished"
  /\ disk' = [disk EXCEPT ![t] = "terminal"]
  /\ UNCHANGED <<bootstrap, published, clientVars, exitVars, stopVars, preparation,
                 entries, settlements, admitVars>>

\* #run: the entry goes, a terminal task starts its tracked operations, and
\* only then is the service told.  The epoch stays.
EntryLeaves(t) ==
  /\ t \in entries
  /\ entries' = entries \ {t}
  /\ settlements' = IF disk[t] = "terminal" /\ closer \notin {"runtime", "ended"}
                    THEN settlements \cup {t} ELSE settlements
  /\ UNCHANGED <<bootstrap, published, clientVars, stopVars, preparation, disk, admitVars>>
  /\ MaybeExit(FALSE)

\* Nothing is told when a tracked operation ends.
SettlementEnds(t) ==
  /\ t \in settlements
  /\ settlements' = settlements \ {t}
  /\ UNCHANGED <<bootstrap, published, clientVars, exitVars, stopVars, preparation,
                 entries, disk, admitVars>>

-----------------------------------------------------------------------------
(* Stop. *)

\* SIGTERM, SIGINT or the scheduled stop.  stopAdmission takes effect at once.
BeginStop ==
  /\ closer # "ended"
  /\ draining' = TRUE
  /\ stopScheduled' = FALSE
  /\ IF published /\ stopper = "none"
     THEN stopper' = "stopping" /\ StopAdmission
     ELSE UNCHANGED <<stopper, coordinator>>
  /\ EpochMoves
  /\ UNCHANGED <<bootstrap, published, clientVars, closer, preparation, entries, disk,
                 settlements, reserved, subject>>

\* drain: a coordinator is shut down.  Without one nothing is waited for, and
\* the one that a submission is still composing escapes it.
Drain ==
  /\ stopper = "stopping"
  /\ coordinator # "none"
  /\ stopper' = "draining"
  /\ StopAdmission
  /\ UNCHANGED <<bootstrap, published, clientVars, exitVars, draining, stopScheduled, closer,
                 preparation, entries, disk, settlements, reserved, subject>>

\* The coordinator's admission and entries are idle, or there is none: close.
Drained ==
  /\ \/ stopper = "stopping" /\ coordinator = "none"
     \/ /\ stopper = "draining"
        /\ entries = {}
        /\ \A c \in Clients : request[c] # "admitting"
  /\ stopper' = "drained"
  /\ Close
  /\ EpochMoves
  /\ UNCHANGED <<bootstrap, published, clientVars, stopScheduled, runtimeVars>>

\* close: the connections, then the tracked requests, then the runtime.
CloseServer ==
  /\ closer = "server"
  /\ \A c \in Clients : peers[c] = "away"
  /\ closer' = "pending"
  /\ UNCHANGED <<bootstrap, published, clientVars, exitVars, draining, stopScheduled,
                 stopper, runtimeVars>>

ClosePending ==
  /\ closer = "pending"
  /\ detaching = {}
  /\ \A c \in Clients : request[c] = "none"
  /\ closer' = "runtime"
  /\ UNCHANGED <<bootstrap, published, clientVars, exitVars, draining, stopScheduled,
                 stopper, runtimeVars>>

\* runtime.shutdown waits for everything that still runs; cleanupEndpoint
\* follows.  A reservation that was left over holds nothing up.
CloseRuntime ==
  /\ closer = "runtime"
  /\ preparation # "running" /\ entries = {} /\ settlements = {}
  /\ closer' = "ended"
  /\ UNCHANGED <<bootstrap, published, clientVars, exitVars, draining, stopScheduled,
                 stopper, runtimeVars>>

-----------------------------------------------------------------------------

ClientStep ==
  \E c \in Clients : Connect(c) \/ Authenticate(c) \/ \E kind \in Asks[c] : Ask(c, kind)

RequestStep(c) ==
  \/ Control(c) \/ Dispatch(c) \/ Prepared(c) \/ BeginAdmit(c) \/ Refuse(c)
  \/ AskStop(c) \/ Settle(c)
  \/ EnterCoordinated(c) \/ Reserve(c) \/ Commit(c) \/ Activate(c)
  \/ RefuseCoordinated(c)
  \/ \E t \in Tasks : Accept(c, t)

RuntimeStep == PreparationEnds \/ Compose \/ \E t \in Tasks : SettlementEnds(t)

CheckStep == CheckReads \/ CheckConcludes

CloseStep == Drain \/ Drained \/ CloseServer \/ ClosePending \/ CloseRuntime

Next ==
  \/ ClientStep
  \/ \E c \in Clients : Disconnect(c) \/ Detached(c) \/ RequestStep(c)
  \/ RuntimeStep
  \/ CheckStep \/ CheckFails
  \/ CloseStep \/ BeginStop
  \/ ReleaseReservation \/ Publish
  \/ \E t \in Tasks : TaskEnds(t) \/ EntryLeaves(t)

Spec == Init /\ [][Next]_vars

\* Continuations of one process run; a launcher that is done closes its pipe; a
\* closing service closes its connections.  No client has to leave or to ask,
\* and no worker has to end.
Fairness ==
  /\ \A c \in Clients : WF_vars(Detached(c)) /\ WF_vars(RequestStep(c))
  /\ WF_vars(RuntimeStep)
  /\ WF_vars(CheckStep)
  /\ WF_vars(CloseStep)
  /\ WF_vars(Publish)
  /\ WF_vars(stopScheduled /\ BeginStop)
  /\ WF_vars(ReleaseReservation)
  /\ WF_vars(closer # "no" /\ \E c \in Clients : Disconnect(c))

FairSpec == Spec /\ Fairness

-----------------------------------------------------------------------------
(* Properties. *)

\* Nothing is left for this service to do or to remember.
Empty ==
  /\ published /\ Vacant /\ ~Busy
  /\ \A t \in Tasks : disk[t] # "unfinished"

\* The service exits by itself only when it is empty: no client that connected,
\* submitted and left while the store was being read is lost (maybeExit).
ExitsEmpty == [][closer = "no" /\ closer' # "no" /\ stopper' = "none" => Empty]_vars

\* The submissions that are being admitted.
Admitting == {c \in Clients : request[c] \in Linking \cup {"admitting"}}

\* Once a stop has drained no submission begins to be admitted, at most one is
\* still on its way, a coordinated one, and only its end can bring another entry
\* (stopAdmission, drain, submit, submitCoordinated).  That one is the code's
\* gap: a coordinated submission asks for a stop once, on entry, and a drain
\* waits neither for it nor for the coordinator it is composing.
DrainIsFinal ==
  [][stopper = "drained" =>
       /\ Admitting' \subseteq Admitting
       /\ \A c, d \in Admitting : c = d
       /\ \A c \in Admitting : request[c] # "admitting"
       /\ entries' \subseteq entries \/ Admitting' # Admitting]_vars

\* A stop ends the service once no task runs, whatever the clients do
\* (beginStop, close).
StopEnds == (draining /\ entries = {}) ~> (closer = "ended" \/ entries # {})

\* A check that found nothing in memory ends in the exit of a service that
\* stays empty, however many clients came and went during it, unless the store
\* could not be read (maybeExit).
CheckExits ==
  (Empty /\ check \in {"reading", "clear"}) ~> (closer # "no" \/ ~Empty \/ check = "failed")

\* An empty service exits: no idle-task timer exists, so the events that make
\* it empty have to end it (docs/shared-service.md).
IdleExits == Empty ~> (closer # "no" \/ ~Empty)
=============================================================================
