--------------------------- MODULE ObservationStore ---------------------------
(***************************************************************************)
(* The durable observation state of a repository                          *)
(* (src/store/observation-store.ts): retained reports, each with a file of *)
(* its own, the notices that point to them, and the readers who pull and   *)
(* acknowledge notices.                                                    *)
(*                                                                         *)
(* One work is observed.  A report has the revision of the state that      *)
(* first lists it as its identity: the real one is a hash over a capture   *)
(* that is never repeated, and a report of age n is older than one of age  *)
(* n + 1.  The byte bound on retained reports is abstracted: pruning may   *)
(* stop at any number of newest reports within MaxReports.                 *)
(***************************************************************************)
EXTENDS Naturals, FiniteSets

CONSTANTS
  Paths,          \* source paths of the observed work
  Contents,       \* what a path may hold
  Base,           \* what it held at the input commit
  Material,       \* the compact evidence of a content, what notices are about
  Readers,        \* recipients of notices
  MaxReports,     \* OBSERVATION_MAX_ARTIFACTS
  MaxNotices,     \* OBSERVATION_MAX_NOTICES
  MaxPull,        \* OBSERVATION_MAX_PULL
  MaxRevision,    \* bound on publications of the state
  Budgets,        \* the scenarios: how often the world may act, and whether readers do
  Idle

ASSUME ObservationConstants ==
  /\ Base \in Contents /\ IsFiniteSet(Readers)
  /\ {MaxReports, MaxNotices, MaxPull} \subseteq Nat \ {0}
  /\ MaxRevision \in Nat
  /\ Budgets \subseteq [{"edits", "watches", "refreshes", "readers", "troubles"} -> Nat]

VARIABLES
  state,          \* state.json
  files,          \* report files on disk
  uncertain,      \* a publication has no known outcome
  put,            \* the publish in its critical section
  budget,         \* what is left of the scenario's edits, requests and troubles
  cursor,         \* the cursor each reader was last given
  owed            \* notices addressed to a reader and neither shown nor covered by a gap

durableVars == <<state, files, uncertain, put>>
storeVars == <<durableVars, budget>>
readerVars == <<cursor, owed>>

Events == {"none", "overlap", "resolved"}
Ids(reports) == {r.id : r \in reports}
Seqs(notices) == {n.seq : n \in notices}

StoreInit ==
  /\ state = [revision |-> 0, next |-> 1, floor |-> 0, reports |-> {}, notices |-> {}]
  /\ files = {} /\ uncertain = FALSE /\ put = Idle /\ budget \in Budgets
  /\ cursor = [r \in Readers |-> 0] /\ owed = {}

Spend(kind) == budget[kind] > 0 /\ budget' = [budget EXCEPT ![kind] = @ - 1]

-----------------------------------------------------------------------------
(* What a publication writes.                                              *)

\* the newest retained report of a path
Latest(p) == {r \in state.reports : r.path = p /\
                \A q \in state.reports : q.path = p => q.id <= r.id}

SameEvidence(r, w) == r.rev = w.rev /\ Material[r.content] = Material[w.content]

\* who has been told of this evidence before
Known(w) == UNION {r.told : r \in {q \in Latest(w.path) : SameEvidence(q, w)}}
ToNotify(w) == w.to \ Known(w)

\* a retained report already says all of it
Repeated(w) ==
  /\ ToNotify(w) = {}
  /\ \E r \in Latest(w.path) : r.content = w.content /\ r.rev = w.rev

\* Numbers for the new notices, one per recipient.
Numberings(w) ==
  {f \in [ToNotify(w) -> state.next .. (state.next + Cardinality(ToNotify(w)) - 1)] :
     /\ \A r, s \in ToNotify(w) : f[r] = f[s] => r = s
     /\ \A n \in state.next .. (state.next + Cardinality(ToNotify(w)) - 1) :
          \E r \in ToNotify(w) : f[r] = n}

Notice(seq, to, report, event) ==
  [seq |-> seq, to |-> to, report |-> report, event |-> event, acked |-> FALSE]

\* the least floor that covers what was dropped
Raised(floor, dropped) ==
  CHOOSE f \in {floor} \cup Seqs(dropped) : \A g \in {floor} \cup Seqs(dropped) : g <= f

\* the notices beyond the bound, oldest first
Beyond(notices) ==
  {n \in notices : Cardinality({m \in notices : m.seq >= n.seq}) > MaxNotices}

\* Mutant: the floor is left at the last notice pruned for its age.
PrunedByAge(reports, notices, next) ==
  LET orphaned == {n \in notices : n.report \notin Ids(reports)}
      beyond == Beyond(notices \ orphaned)
  IN [revision |-> state.revision + 1, next |-> next, reports |-> reports,
      floor |-> Raised(state.floor, beyond),
      notices |-> (notices \ orphaned) \ beyond]

\* the next state: notices of dropped reports and the oldest beyond the bound
\* go, and with them everything below the floor they raise
Pruned(reports, notices, next) ==
  LET orphaned == {n \in notices : n.report \notin Ids(reports)}
      beyond == Beyond(notices \ orphaned)
      floor == Raised(state.floor, orphaned \cup beyond)
  IN [revision |-> state.revision + 1, next |-> next, reports |-> reports, floor |-> floor,
      notices |-> {n \in (notices \ orphaned) \ beyond : n.seq > floor}]

Owing(notices) == {[seq |-> n.seq, to |-> n.to] : n \in notices}

-----------------------------------------------------------------------------
(* Publications.  publishState marks the store uncertain when the write    *)
(* fails, whether or not it replaced the file.                             *)

Usable == ~uncertain /\ state.revision < MaxRevision

\* the writes mutex is free
Unlocked == put # Idle => put.pc \in {"done", "failed"}

Replace(next) ==
  /\ state' = next /\ UNCHANGED <<uncertain, budget>>

ReplaceUnknown(next) ==
  /\ Spend("troubles")
  /\ uncertain' = TRUE /\ state' \in {state, next}

\* entering the critical section: orphans go, and an unchanged report is answered
\* with the retained one
PutBegin(w) ==
  /\ put = Idle
  /\ IF uncertain THEN put' = [w EXCEPT !.pc = "failed"] /\ UNCHANGED files
     ELSE /\ files' = files \cap Ids(state.reports)
          /\ put' = [w EXCEPT !.pc = IF Repeated(w) THEN "done" ELSE "file"]
  /\ UNCHANGED <<state, uncertain, budget>>

\* the newest reports that may stay
Retainable ==
  {kept \in {{r \in state.reports : r.id >= oldest} : oldest \in Ids(state.reports)} \cup {{}} :
     Cardinality(kept) < MaxReports}

\* Mutant: the files of the reports that are to go are removed before the state.
PutFileSweeping ==
  /\ put # Idle /\ put.pc = "file" /\ Usable
  /\ \E kept \in Retainable : files' = (files \cap Ids(kept)) \cup {state.revision + 1}
  /\ put' = [put EXCEPT !.pc = "state"]
  /\ UNCHANGED <<state, uncertain, budget, readerVars>>

\* publishImmutable of the report file
PutFile ==
  /\ put # Idle /\ put.pc = "file" /\ Usable
  /\ files' = files \cup {state.revision + 1}
  /\ put' = [put EXCEPT !.pc = "state"]
  /\ UNCHANGED <<state, uncertain, budget, readerVars>>

PutFileFails ==
  /\ put # Idle /\ put.pc = "file"
  /\ Spend("troubles")
  /\ files' \in {files, files \cup {state.revision + 1}}
  /\ put' = [put EXCEPT !.pc = "failed"]
  /\ UNCHANGED <<state, uncertain, readerVars>>

Report == [id |-> state.revision + 1, path |-> put.path, content |-> put.content,
           rev |-> put.rev, told |-> Known(put) \cup put.to]

PutState ==
  /\ put # Idle /\ put.pc = "state"
  /\ \E kept \in Retainable, f \in Numberings(put) :
       LET added == {Notice(f[r], r, state.revision + 1, "none") : r \in ToNotify(put)}
           next == Pruned(kept \cup {Report}, state.notices \cup added,
                          state.next + Cardinality(ToNotify(put)))
       IN /\ \/ Replace(next) /\ put' = [put EXCEPT !.pc = "sweep"]
             \/ ReplaceUnknown(next) /\ put' = [put EXCEPT !.pc = "failed"]
          /\ owed' = IF state' = next THEN owed \cup Owing(added) ELSE owed
  /\ UNCHANGED <<files, cursor>>

\* removeOrphans after the publication
PutSweep ==
  /\ put # Idle /\ put.pc = "sweep"
  /\ files' = files \cap Ids(state.reports)
  /\ put' = [put EXCEPT !.pc = "done"]
  /\ UNCHANGED <<state, uncertain, budget, readerVars>>

\* notifyExisting: a later related work makes a retained report relevant
SaidLast(report, to) ==
  {n.event : n \in {m \in state.notices :
     /\ m.report = report /\ m.to = to /\ m.event # "none"
     /\ \A l \in state.notices : (l.report = report /\ l.to = to /\ l.event # "none") => l.seq <= m.seq}}

NotifyExisting(r, to, event) ==
  /\ Unlocked /\ Usable /\ r \in state.reports
  /\ r.id \in files /\ event \notin SaidLast(r.id, to)
  /\ LET added == {Notice(state.next, to, r.id, event)}
         next == Pruned(state.reports, state.notices \cup added, state.next + 1)
     IN /\ Replace(next) \/ ReplaceUnknown(next)
        /\ owed' = IF state' = next THEN owed \cup Owing(added) ELSE owed
  /\ UNCHANGED <<files, put, cursor>>

\* ack: a reader has the identity of a notice from a pull that showed it
Ack(n) ==
  /\ Unlocked /\ Usable /\ n \in state.notices /\ ~n.acked
  /\ Owing({n}) \cap owed = {}
  /\ LET next == [revision |-> state.revision + 1, next |-> state.next, floor |-> state.floor,
                  reports |-> state.reports,
                  notices |-> (state.notices \ {n}) \cup {[n EXCEPT !.acked = TRUE]}]
     IN Replace(next) \/ ReplaceUnknown(next)
  /\ UNCHANGED <<files, put, readerVars>>

-----------------------------------------------------------------------------
(* Reading.                                                                *)

\* the notices a reader may still see, of the current revision of the work
Pending(reader, rev) ==
  {n \in state.notices : n.to = reader /\ ~n.acked /\
     \E r \in state.reports : r.id = n.report /\ r.rev = rev}

Page(reader, rev) ==
  {n \in Pending(reader, rev) :
     Cardinality({m \in Pending(reader, rev) : m.seq <= n.seq}) <= MaxPull}

Gap(reader) == cursor[reader] < state.floor

\* pull consumes nothing; its answer shows a page, and a gap speaks for all below the floor
Pull(reader, rev) ==
  /\ ~uncertain
  /\ cursor' = [cursor EXCEPT ![reader] = state.next - 1]
  /\ owed' = {o \in owed : o.to # reader \/
                (/\ o.seq \notin Seqs(Page(reader, rev))
                 /\ ~(Gap(reader) /\ o.seq <= state.floor))}
  /\ UNCHANGED storeVars

\* the service process ends; the next one opens the store anew
StoreCrash ==
  /\ Spend("troubles")
  /\ uncertain' = FALSE /\ put' = Idle
  /\ UNCHANGED <<state, files, readerVars>>

-----------------------------------------------------------------------------
(* Every notice names a retained report, and every retained report has its *)
(* file, over pruning, orphan removal, lost outcomes and crashes: "A       *)
(* notice can be published only after its exact immutable report/capture   *)
(* file exists" (ObservationStore.publish).                                *)
NoticesBacked ==
  /\ \A n \in state.notices : n.report \in Ids(state.reports)
  /\ Ids(state.reports) \subseteq files

(* The retained notices are exactly those above the floor, the stream that *)
(* decodeObservationState accepts: what was pruned lies at or below it.    *)
StreamWhole == Seqs(state.notices) = (state.floor + 1) .. (state.next - 1)

(* A notice that came after a reader's last pull is retained, or the next  *)
(* pull reports a gap (ObservationStore.pull: floor_sequence).             *)
GapTruthful ==
  \A o \in owed : o.seq > cursor[o.to] => o.seq \in Seqs(state.notices) \/ Gap(o.to)

(* A reader that pulls with the cursor it was given never loses a notice   *)
(* it has not seen without a gap being reported.                           *)
NothingLost ==
  \A o \in owed : o.seq \in Seqs(state.notices) \/ Gap(o.to)
=============================================================================
