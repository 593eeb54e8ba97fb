----------------------------- MODULE ServiceProofs -----------------------------
(***************************************************************************)
(* Proofs that a service exits by itself only when it is empty, and of what *)
(* a stop that has drained still lets in, for all clients, tasks and       *)
(* numbers of connections.                                                 *)
(*                                                                         *)
(* That it exits empty rests on what the epoch stands for: a check that no *)
(* event overtook still describes the service (CheckHolds).  What a drain  *)
(* ends rests on the plain admissions having ended before it (DrainHolds)  *)
(* and on the coordinated ones being one at a time (OneLinking).           *)
(***************************************************************************)
EXTENDS Service, TLAPS

Types ==
  /\ peers \in [Clients -> {"away", "connected", "attached"}]
  /\ request \in [Clients -> Requests]
  /\ stale \in BOOLEAN

\* While no event has moved the epoch, whatever allowed the check still holds,
\* and what the check read from the store is still so.
CheckHolds ==
  check \in {"reading", "clear"} /\ ~stale =>
    /\ published /\ Vacant /\ ~Busy
    /\ check = "clear" => \A t \in Tasks : disk[t] # "unfinished"

\* A stop begins after the publication, a plain admission has a coordinator, and
\* a drained stop left no plain admission.
DrainHolds ==
  /\ stopper # "none" => published
  /\ coordinator = "none" \/ stopper = "drained" => \A c \in Clients : request[c] # "admitting"

\* One coordinated submission at a time owns #coordinatedAdmission.
OneLinking ==
  \A c, d \in Clients : request[c] \in Linking /\ request[d] \in Linking => c = d

SInv == Types /\ CheckHolds /\ DrainHolds /\ OneLinking

LEMMA InitHolds == Init => SInv
  BY DEF Init, SInv, Types, CheckHolds, DrainHolds, OneLinking, Requests, Linking

\* A service that is not vacant, or busy, has no check that is still to the
\* point.
LEMMA Overtaken ==
  ASSUME SInv, ~Vacant \/ Busy \/ ~published
  PROVE  check \notin {"reading", "clear"} \/ stale
  BY DEF SInv, CheckHolds

\* maybeExit starts a check from an empty service, or leaves the one that runs,
\* which the event overtakes if it had not been overtaken before.
LEMMA ExitAsked ==
  ASSUME SInv, NEW moved, MaybeExit(moved),
         moved \/ check \notin {"reading", "clear"} \/ stale
  PROVE  CheckHolds' /\ stale' \in BOOLEAN
  <1>1. CASE CheckAllowed' /\ check \in {"none", "failed"}
    <2>1. check' = (IF Busy' THEN "has" ELSE "reading") /\ stale' = FALSE
      BY <1>1 DEF MaybeExit
    <2>2. published' /\ Vacant'
      BY <1>1 DEF CheckAllowed
    <2> QED BY <2>1, <2>2 DEF CheckHolds
  <1>2. CASE ~(CheckAllowed' /\ check \in {"none", "failed"})
    <2>1. check' = check /\ stale' = (stale \/ moved)
      BY <1>2 DEF MaybeExit
    <2> QED BY <2>1 DEF CheckHolds, SInv, Types
  <1> QED BY <1>1, <1>2

LEMMA EpochMoved ==
  ASSUME EpochMoves
  PROVE  CheckHolds' /\ stale' \in BOOLEAN
  BY DEF EpochMoves, CheckHolds

\* A step that the check does not notice leaves no check that is to the point.
LEMMA NotNoticed ==
  ASSUME SInv, UNCHANGED exitVars, ~Vacant \/ Busy \/ ~published
  PROVE  CheckHolds' /\ stale' \in BOOLEAN
  BY Overtaken DEF exitVars, CheckHolds, SInv, Types

\* Neither stop nor coordinator change, and no request is admitted.
LEMMA DrainKept ==
  ASSUME SInv, UNCHANGED stopper, published => published', coordinator = "none" \/ coordinator' # "none",
         \A c \in Clients : request'[c] = request[c] \/ request'[c] \notin Linking \cup {"admitting"}
  PROVE  DrainHolds' /\ OneLinking'
  BY DEF SInv, DrainHolds, OneLinking, Linking

-----------------------------------------------------------------------------
(* Connections and requests. *)

LEMMA ClientHolds ==
  ASSUME SInv, ClientStep
  PROVE  SInv'
  <1>1. PICK c \in Clients : Connect(c) \/ Authenticate(c) \/ \E kind \in Asks[c] : Ask(c, kind)
    BY DEF ClientStep
  <1>2. CASE Connect(c)
    <2>1. EpochMoves /\ UNCHANGED <<published, request, stopper, coordinator>>
      BY <1>2 DEF Connect, stopVars, runtimeVars, admitVars
    <2>2. Types'
      BY <1>2, <2>1, EpochMoved DEF Connect, SInv, Types
    <2> QED BY <2>1, <2>2, EpochMoved, DrainKept DEF SInv
  <1>3. CASE Authenticate(c)
    <2>1. UNCHANGED <<published, request, stopper, coordinator, exitVars>> /\ ~Vacant
      BY <1>3 DEF Authenticate, stopVars, runtimeVars, admitVars, Vacant
    <2>2. Types'
      BY <1>3, <2>1, NotNoticed DEF Authenticate, SInv, Types
    <2> QED BY <2>1, <2>2, NotNoticed, DrainKept DEF SInv
  <1>4. ASSUME NEW kind \in Asks[c], Ask(c, kind) PROVE SInv'
    <2>1. /\ EpochMoves /\ UNCHANGED <<published, peers, stopper, coordinator>>
          /\ request' = [request EXCEPT ![c] = kind]
      BY <1>4 DEF Ask, stopVars, runtimeVars, admitVars
    <2>2. kind \in Kinds
      BY ServiceConstants
    <2>3. Types'
      BY <2>1, <2>2, EpochMoved DEF SInv, Types, Requests
    <2>4. \A d \in Clients : request'[d] = request[d] \/ request'[d] \notin Linking \cup {"admitting"}
      BY <2>1, <2>2 DEF SInv, Types, Kinds, Linking
    <2> QED BY <2>1, <2>3, <2>4, EpochMoved, DrainKept DEF SInv
  <1> QED BY <1>1, <1>2, <1>3, <1>4

LEMMA LeavingHolds ==
  ASSUME SInv, NEW c \in Clients, Disconnect(c) \/ Detached(c)
  PROVE  SInv'
  <1>1. MaybeExit(TRUE) /\ UNCHANGED <<published, request, stopper, coordinator>>
    BY DEF Disconnect, Detached, stopVars, runtimeVars, admitVars
  <1>2. CheckHolds' /\ stale' \in BOOLEAN
    BY <1>1, ExitAsked
  <1>3. Types'
    BY <1>1, <1>2 DEF Disconnect, Detached, SInv, Types
  <1> QED BY <1>1, <1>2, <1>3, DrainKept DEF SInv

\* A request on its way keeps the service from being vacant.
LEMMA AdvanceHolds ==
  ASSUME SInv, NEW c \in Clients, request[c] # "none", UNCHANGED stopper,
         coordinator = "none" \/ coordinator' # "none",
         NEW s \in Requests, Advance(c, s),
         s = "admitting" => coordinator # "none" /\ stopper # "drained",
         s \in Linking => request[c] \in Linking \/ \A d \in Clients : request[d] \notin Linking
  PROVE  SInv'
  <1>1. /\ UNCHANGED <<published, peers, exitVars>> /\ ~Vacant
        /\ request' = [request EXCEPT ![c] = s]
    BY DEF Advance, Vacant
  <1>2. CheckHolds' /\ stale' \in BOOLEAN
    BY <1>1, NotNoticed
  <1>3. Types'
    BY <1>1, <1>2 DEF SInv, Types
  <1>4. DrainHolds'
    BY <1>1 DEF SInv, DrainHolds, Types
  <1>5. OneLinking'
    BY <1>1 DEF SInv, OneLinking, Types
  <1> QED BY <1>2, <1>3, <1>4, <1>5 DEF SInv

\* A submission under way, plain or coordinated, goes on or ends.
LEMMA SubmissionHolds ==
  ASSUME SInv, NEW c \in Clients,
         \/ BeginAdmit(c) \/ EnterCoordinated(c) \/ Reserve(c) \/ Commit(c) \/ Activate(c)
         \/ RefuseCoordinated(c) \/ Refuse(c)
  PROVE  SInv'
  <1> {"done", "admitting", "linking", "reserved", "committed"} \subseteq Requests
    BY DEF Requests, Linking
  <1>1. CASE BeginAdmit(c)
    BY <1>1, AdvanceHolds DEF BeginAdmit, stopVars, runtimeVars, admitVars, Linking
  <1>2. CASE EnterCoordinated(c)
    <2>1. request[c] # "none" /\ UNCHANGED <<stopper, coordinator>>
          /\ \A d \in Clients : request[d] \notin Linking
      BY <1>2 DEF EnterCoordinated, stopVars
    <2>2. Advance(c, "done") \/ Advance(c, "linking")
      BY <1>2 DEF EnterCoordinated
    <2> QED BY <2>1, <2>2, AdvanceHolds
  <1>3. CASE Reserve(c) \/ Commit(c) \/ Activate(c) \/ RefuseCoordinated(c)
    <2>1. request[c] \in Linking /\ UNCHANGED <<stopper, coordinator>>
      BY <1>3 DEF Reserve, Commit, Activate, RefuseCoordinated, Linking, stopVars, admitVars
    <2>2. Advance(c, "done") \/ Advance(c, "reserved") \/ Advance(c, "committed")
      BY <1>3 DEF Reserve, Commit, Activate, RefuseCoordinated
    <2>3. request[c] # "none"
      BY <2>1 DEF Linking
    <2> QED BY <2>1, <2>2, <2>3, AdvanceHolds
  <1>4. CASE Refuse(c)
    <2>1. request[c] # "none" /\ Advance(c, "done") /\ UNCHANGED stopper
          /\ (coordinator = "none" \/ coordinator' # "none")
      BY <1>4 DEF Refuse, StopAdmission, stopVars
    <2> QED BY <2>1, AdvanceHolds DEF Linking
  <1> QED BY <1>1, <1>2, <1>3, <1>4

LEMMA RequestHolds ==
  ASSUME SInv, NEW c \in Clients, RequestStep(c)
  PROVE  SInv'
  <1> {"done", "waiting", "composing", "ordered"} \subseteq Requests
    BY DEF Requests
  <1>1. CASE Control(c) \/ Prepared(c) \/ AskStop(c) \/ \E t \in Tasks : Accept(c, t)
    <2>1. request[c] # "none" /\ Advance(c, "done") /\ UNCHANGED <<stopper, coordinator>>
      BY <1>1 DEF Control, Prepared, AskStop, Accept, stopVars, runtimeVars, admitVars
    <2> QED BY <2>1, AdvanceHolds DEF Linking
  <1>2. CASE Dispatch(c)
    <2>1. request[c] # "none" /\ UNCHANGED <<stopper, coordinator>>
      BY <1>2 DEF Dispatch, stopVars, admitVars
    <2>2. \E s \in {"done", "waiting", "composing", "ordered"} : Advance(c, s)
      BY <1>2 DEF Dispatch
    <2> QED BY <2>1, <2>2, AdvanceHolds DEF Linking
  <1>3. CASE Settle(c)
    <2>1. /\ MaybeExit(TRUE) /\ UNCHANGED <<published, peers, stopper, coordinator>>
          /\ request' = [request EXCEPT ![c] = "none"]
      BY <1>3 DEF Settle, stopVars, runtimeVars, admitVars
    <2>2. CheckHolds' /\ stale' \in BOOLEAN
      BY <2>1, ExitAsked
    <2>3. Types'
      BY <2>1, <2>2 DEF SInv, Types, Requests
    <2>4. \A d \in Clients : request'[d] = request[d] \/ request'[d] \notin Linking \cup {"admitting"}
      BY <2>1 DEF SInv, Types, Linking
    <2> QED BY <2>1, <2>2, <2>3, <2>4, DrainKept DEF SInv
  <1> QED BY <1>1, <1>2, <1>3, SubmissionHolds DEF RequestStep

-----------------------------------------------------------------------------
(* The runtime, the check, the stop and the launch. *)

\* A coordinator is composed for a request that is under way.
LEMMA WorkHolds ==
  ASSUME SInv, RuntimeStep \/ \E t \in Tasks : TaskEnds(t) \/ EntryLeaves(t)
  PROVE  SInv'
  <1>1. /\ UNCHANGED <<published, peers, request, stopper>>
        /\ coordinator = "none" \/ coordinator' # "none"
    BY DEF RuntimeStep, PreparationEnds, Compose, SettlementEnds, TaskEnds, EntryLeaves,
           clientVars, stopVars, admitVars
  <1>2. ~Vacant \/ Busy
    BY DEF RuntimeStep, PreparationEnds, Compose, SettlementEnds, TaskEnds, EntryLeaves, Busy,
           Vacant
  <1>3. CASE UNCHANGED exitVars
    BY <1>1, <1>2, <1>3, NotNoticed, DrainKept DEF SInv, Types
  <1>4. CASE MaybeExit(FALSE)
    <2>1. CheckHolds' /\ stale' \in BOOLEAN
      BY <1>2, <1>4, Overtaken, ExitAsked
    <2> QED BY <1>1, <2>1, DrainKept DEF SInv, Types
  <1> QED BY <1>3, <1>4 DEF RuntimeStep, PreparationEnds, Compose, SettlementEnds, TaskEnds,
                            EntryLeaves

LEMMA CheckingHolds ==
  ASSUME SInv, CheckStep \/ CheckFails
  PROVE  SInv'
  <1>1. /\ UNCHANGED <<published, peers, request, stopper, runtimeVars>>
        /\ (Vacant' <=> Vacant) /\ (Busy' <=> Busy)
    BY DEF CheckStep, CheckReads, CheckConcludes, CheckFails, clientVars, stopVars, runtimeVars,
           admitVars, Vacant, Busy
  <1>2. CheckHolds' /\ stale' \in BOOLEAN
    <2>1. CASE CheckReads \/ CheckFails
      BY <1>1, <2>1 DEF CheckReads, CheckFails, runtimeVars, SInv, Types, CheckHolds
    <2>2. CASE CheckConcludes
      <3>1. \/ check' = "none" /\ stale' \in {TRUE, stale}
            \/ CheckAllowed /\ check' = (IF Busy THEN "has" ELSE "reading") /\ stale' = FALSE
        BY <2>2 DEF CheckConcludes
      <3> QED BY <1>1, <3>1 DEF CheckAllowed, CheckHolds, SInv, Types
    <2> QED BY <2>1, <2>2 DEF CheckStep
  <1>3. Types'
    BY <1>1, <1>2 DEF SInv, Types
  <1> QED BY <1>1, <1>2, <1>3, DrainKept DEF SInv, runtimeVars, admitVars

\* The steps that begin a stop and end its drain overtake every check.  Without
\* a coordinator there is no plain admission to wait for.
LEMMA StoppingHolds ==
  ASSUME SInv, BeginStop \/ Drained
  PROVE  SInv'
  <1>1. EpochMoves /\ UNCHANGED <<published, peers, request>>
    BY DEF BeginStop, Drained, clientVars
  <1>2. Types' /\ OneLinking'
    BY <1>1, EpochMoved DEF SInv, Types, OneLinking
  <1>3. DrainHolds'
    <2>1. CASE BeginStop
      BY <1>1, <2>1 DEF BeginStop, StopAdmission, SInv, DrainHolds
    <2>2. CASE Drained
      BY <1>1, <2>2 DEF Drained, SInv, DrainHolds, runtimeVars, admitVars
    <2> QED BY <2>1, <2>2
  <1> QED BY <1>1, <1>2, <1>3, EpochMoved DEF SInv

\* The connections, the requests and the runtime are closed after the exit was
\* decided; the coordinator is shut down after the stop was.
LEMMA ClosingHolds ==
  ASSUME SInv, Drain \/ CloseServer \/ ClosePending \/ CloseRuntime
  PROVE  SInv'
  <1>1. /\ UNCHANGED <<bootstrap, published, clientVars, exitVars, preparation, entries, disk,
                       settlements, reserved>>
        /\ \/ UNCHANGED <<stopper, coordinator>>
           \/ /\ stopper' = "draining" /\ stopper # "none"
              /\ coordinator' # "none" /\ coordinator # "none"
    BY DEF Drain, StopAdmission, CloseServer, ClosePending, CloseRuntime, runtimeVars, admitVars
  <1>2. Types' /\ CheckHolds' /\ OneLinking'
    BY <1>1 DEF SInv, Types, CheckHolds, OneLinking, Vacant, Busy, clientVars, exitVars
  <1>3. DrainHolds'
    BY <1>1 DEF SInv, DrainHolds, clientVars
  <1> QED BY <1>2, <1>3 DEF SInv

LEMMA LaunchHolds ==
  ASSUME SInv, ReleaseReservation \/ Publish
  PROVE  SInv'
  <1>1. UNCHANGED <<peers, request>>
    BY DEF ReleaseReservation, Publish, clientVars
  <1>2. CASE ReleaseReservation
    <2>1. MaybeExit(TRUE) /\ UNCHANGED <<published, stopper, coordinator>>
      BY <1>2 DEF ReleaseReservation, stopVars, runtimeVars, admitVars
    <2>2. CheckHolds' /\ stale' \in BOOLEAN
      BY <2>1, ExitAsked
    <2> QED BY <1>1, <2>1, <2>2, DrainKept DEF SInv, Types
  <1>3. CASE Publish
    <2>1. ~published /\ published' /\ MaybeExit(draining)
      BY <1>3 DEF Publish
    <2>2. stopper = "none" /\ stopper' \in {"none", "stopping"}
          /\ (coordinator = "none" \/ coordinator' # "none")
      BY <1>3 DEF Publish, StopAdmission, SInv, DrainHolds
    <2>3. check \notin {"reading", "clear"} \/ stale
      BY <2>1, Overtaken
    <2>4. CheckHolds' /\ stale' \in BOOLEAN
      BY <2>1, <2>3, ExitAsked
    <2> QED BY <1>1, <2>1, <2>2, <2>4 DEF SInv, Types, DrainHolds, OneLinking
  <1> QED BY <1>2, <1>3

LEMMA NextHolds == SInv /\ [Next]_vars => SInv'
  <1> SUFFICES ASSUME SInv, [Next]_vars PROVE SInv'
    OBVIOUS
  <1>1. CASE UNCHANGED vars
    BY <1>1 DEF vars, SInv, Types, CheckHolds, DrainHolds, OneLinking, Vacant, Busy, clientVars,
                exitVars, stopVars, runtimeVars, admitVars
  <1>2. CASE Next
    BY <1>2, ClientHolds, LeavingHolds, RequestHolds, WorkHolds, CheckingHolds, StoppingHolds,
       ClosingHolds, LaunchHolds
    DEF Next, CloseStep
  <1> QED BY <1>1, <1>2

\* In every reachable state a check that nothing overtook is still true of the
\* service, and a drained stop has outlived the plain admissions.
THEOREM ServiceInvariant == Spec => []SInv
  BY InitHolds, NextHolds, PTL DEF Spec

-----------------------------------------------------------------------------
(* The properties. *)

\* The answer of hasObligations is used only if nothing happened since it was
\* asked for (maybeExit): a service that decides for itself to close is empty.
THEOREM ExitsOnlyEmpty == Spec => ExitsEmpty
  <1>1. SInv /\ [Next]_vars => [closer = "no" /\ closer' # "no" /\ stopper' = "none" => Empty]_vars
    <2> SUFFICES ASSUME SInv, Next, closer = "no", closer' # "no", stopper' = "none"
                 PROVE  Empty
      OBVIOUS
    <2>1. CASE CheckConcludes
      <3>1. check = "clear" /\ ~stale
        BY <2>1 DEF CheckConcludes, Close
      <3> QED BY <3>1 DEF SInv, CheckHolds, Empty
    <2>2. ~(Drain \/ Drained \/ CloseServer \/ ClosePending \/ CloseRuntime)
      BY DEF Drain, Drained, CloseServer, ClosePending, CloseRuntime
    <2>3. ~(ClientStep \/ BeginStop \/ ReleaseReservation \/ Publish)
      BY DEF ClientStep, Connect, Authenticate, Ask, BeginStop, ReleaseReservation, Publish, stopVars
    <2>4. ~(RuntimeStep \/ CheckReads \/ CheckFails \/ \E t \in Tasks : TaskEnds(t) \/ EntryLeaves(t))
      BY DEF RuntimeStep, PreparationEnds, Compose, SettlementEnds, CheckReads, CheckFails,
             TaskEnds, EntryLeaves, stopVars
    <2>5. ~\E c \in Clients : Disconnect(c) \/ Detached(c) \/ RequestStep(c)
      BY DEF Disconnect, Detached, RequestStep, Control, Dispatch, Prepared, BeginAdmit, Refuse,
             AskStop, Settle, Accept, EnterCoordinated, Reserve, Commit, Activate,
             RefuseCoordinated, stopVars
    <2> QED BY <2>1, <2>2, <2>3, <2>4, <2>5 DEF Next, CheckStep, CloseStep
  <1> QED BY <1>1, ServiceInvariant, PTL DEF Spec, ExitsEmpty

\* After a drain a request only leaves the admission, or goes on in it.
LEMMA DrainedRequest ==
  ASSUME SInv, NEW c \in Clients, stopper = "drained", RequestStep(c)
  PROVE  /\ Admitting' \subseteq Admitting
         /\ entries' \subseteq entries \/ Admitting' # Admitting
  <1>1. request[c] # "admitting"
    BY DEF SInv, DrainHolds
  <1>2. ASSUME NEW s, request' = [request EXCEPT ![c] = s],
               s \in Linking \cup {"admitting"} => request[c] \in Linking
        PROVE  Admitting' \subseteq Admitting
    BY <1>2 DEF Admitting, SInv, Types
  <1>3. CASE Activate(c)
    <2>1. request' = [request EXCEPT ![c] = "done"] /\ request[c] = "committed"
      BY <1>3 DEF Activate, Advance
    <2>2. c \in Admitting /\ c \notin Admitting'
      BY <2>1 DEF Admitting, Linking, SInv, Types
    <2>3. Admitting' \subseteq Admitting
      BY <1>2, <2>1 DEF Linking
    <2> QED BY <2>2, <2>3
  <1>4. CASE Reserve(c) \/ Commit(c)
    <2>1. request[c] \in Linking /\ UNCHANGED entries
          /\ \E s \in {"reserved", "committed"} : request' = [request EXCEPT ![c] = s]
      BY <1>4 DEF Reserve, Commit, Advance, Linking
    <2> QED BY <1>2, <2>1
  <1>5. CASE Control(c) \/ Dispatch(c) \/ Prepared(c) \/ Refuse(c) \/ AskStop(c) \/ Settle(c)
             \/ EnterCoordinated(c) \/ RefuseCoordinated(c)
    <2>1. UNCHANGED entries
      BY <1>5 DEF Control, Dispatch, Prepared, Refuse, AskStop, Settle, EnterCoordinated,
             RefuseCoordinated, runtimeVars
    <2>2. \E s \in {"done", "none", "waiting", "composing", "ordered"} :
            request' = [request EXCEPT ![c] = s]
      BY <1>5 DEF Control, Dispatch, Prepared, Refuse, AskStop, Settle, EnterCoordinated,
             RefuseCoordinated, Advance
    <2>3. Admitting' \subseteq Admitting
      BY <1>2, <2>2 DEF Linking
    <2> QED BY <2>1, <2>3
  <1>6. ~BeginAdmit(c) /\ \A t \in Tasks : ~Accept(c, t)
    BY <1>1 DEF BeginAdmit, Accept
  <1> QED BY <1>3, <1>4, <1>5, <1>6 DEF RequestStep

\* A stop that has drained has seen the last plain admission, and the last
\* coordinated one enter (stopAdmission, drain, submitCoordinated): from then on
\* the coordinator's entries only leave, but for what that one may still bring.
THEOREM DrainsForGood == Spec => DrainIsFinal
  <1>1. SInv /\ stopper = "drained" =>
          /\ \A c, d \in Admitting : c = d
          /\ \A c \in Admitting : request[c] # "admitting"
    BY DEF SInv, DrainHolds, OneLinking, Admitting
  <1>2. ASSUME SInv, Next, stopper = "drained"
        PROVE  /\ Admitting' \subseteq Admitting
               /\ entries' \subseteq entries \/ Admitting' # Admitting
    <2>1. CASE \E c \in Clients : RequestStep(c)
      BY <1>2, <2>1, DrainedRequest
    <2>2. CASE ClientStep
      <3>1. UNCHANGED entries
        BY <2>2 DEF ClientStep, Connect, Authenticate, Ask, runtimeVars
      <3>2. CASE UNCHANGED request
        BY <3>1, <3>2 DEF Admitting
      <3>3. ASSUME NEW c \in Clients, NEW kind \in Asks[c], Ask(c, kind)
            PROVE  Admitting' \subseteq Admitting
        <4>1. request' = [request EXCEPT ![c] = kind] /\ kind \notin Linking \cup {"admitting"}
          BY <3>3, ServiceConstants DEF Ask, Kinds, Linking
        <4> QED BY <1>2, <4>1 DEF Admitting, SInv, Types
      <3> QED BY <2>2, <3>1, <3>2, <3>3 DEF ClientStep, Connect, Authenticate
    <2>3. CASE \E c \in Clients : Disconnect(c) \/ Detached(c)
      BY <2>3 DEF Disconnect, Detached, runtimeVars, Admitting
    <2>4. CASE RuntimeStep \/ CheckStep \/ CheckFails
      BY <2>4 DEF RuntimeStep, PreparationEnds, Compose, SettlementEnds, CheckStep, CheckReads,
                  CheckConcludes, CheckFails, runtimeVars, clientVars, Admitting
    <2>5. CASE CloseStep \/ BeginStop \/ ReleaseReservation \/ Publish
      BY <2>5 DEF CloseStep, Drain, Drained, CloseServer, ClosePending, CloseRuntime, BeginStop,
                  ReleaseReservation, Publish, runtimeVars, clientVars, Admitting
    <2>6. CASE \E t \in Tasks : TaskEnds(t) \/ EntryLeaves(t)
      BY <2>6 DEF TaskEnds, EntryLeaves, clientVars, Admitting
    <2> QED BY <1>2, <2>1, <2>2, <2>3, <2>4, <2>5, <2>6 DEF Next
  <1>3. SInv /\ [Next]_vars =>
          [stopper = "drained" =>
             /\ Admitting' \subseteq Admitting
             /\ \A c, d \in Admitting : c = d
             /\ \A c \in Admitting : request[c] # "admitting"
             /\ entries' \subseteq entries \/ Admitting' # Admitting]_vars
    BY <1>1, <1>2
  <1> QED BY <1>3, ServiceInvariant, PTL DEF Spec, DrainIsFinal
=============================================================================
