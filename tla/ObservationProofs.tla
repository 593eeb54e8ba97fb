--------------------------- MODULE ObservationProofs ---------------------------
(***************************************************************************)
(* Proofs about the observation of a work, for any paths, contents,        *)
(* batches, readers, bounds and scenarios.                                 *)
(*                                                                         *)
(* The durable state: a notice always has its report and its file, the     *)
(* retained notices are a whole stream above the floor, and what came      *)
(* after a reader's last pull is there or is announced as a gap.  That a   *)
(* notice has its file is not inductive: a publication writes the file     *)
(* first, so it must still be there when the state is replaced (PutHolds). *)
(* That a gap is truthful follows from the stream, once what is owed is    *)
(* known to have been numbered (OwedNumbered).                             *)
(*                                                                         *)
(* The monitor: a resting monitor's reports are what the files hold, and a *)
(* refresh answered as done tells of the files after it was asked.  Both   *)
(* rest on what a run under way has taken of the files and what the newest *)
(* reports already say of it (the second part of this module).             *)
(***************************************************************************)
EXTENDS Observation, FiniteSetTheorems, WellFoundedInduction, TLAPS

Notices == [seq : Nat, to : Readers, report : Nat, event : Events, acked : BOOLEAN]

\* The shape of a state, with its reports left open.
Stated(s) ==
  /\ s = [revision |-> s.revision, next |-> s.next, floor |-> s.floor,
          reports |-> s.reports, notices |-> s.notices]
  /\ s.revision \in Nat /\ s.next \in Nat /\ s.floor \in Nat /\ s.floor < s.next
  /\ s.notices \subseteq Notices

Shapes ==
  /\ Stated(state) /\ files \subseteq Nat
  /\ owed \subseteq [seq : Nat, to : Readers] /\ cursor \in [Readers -> Nat]
  /\ watching \subseteq Readers

\* What a publish in its critical section relies on.
PutHolds == put # Idle =>
  /\ put = [pc |-> put.pc, path |-> put.path, content |-> put.content,
            rev |-> put.rev, to |-> put.to]
  /\ put.to \subseteq Readers
  /\ put.pc = "state" => state.revision + 1 \in files

OwedNumbered == \A o \in owed : o.seq < state.next

IInv == Shapes /\ StreamWhole /\ NoticesBacked /\ PutHolds /\ OwedNumbered

-----------------------------------------------------------------------------
(* The floor.                                                              *)

LEMMA LeastOf ==
  ASSUME NEW U \in SUBSET Nat, U # {}
  PROVE  \E m \in U : \A u \in U : m <= u
<1> DEFINE R == OpToRel(<, Nat)
<1>1. IsWellFoundedOn(R, Nat)
  BY NatLessThanWellFounded
<1>2. \A x, y \in Nat : x < y => <<x, y>> \in R
  BY Zenon DEF OpToRel
<1> HIDE DEF R
<1>3. PICK x \in U : \A y \in U : ~ (<<y, x>> \in R)
  BY <1>1, WFMin
<1>4. ASSUME NEW y \in U PROVE x <= y
  <2>1. x \in Nat /\ y \in Nat
    OBVIOUS
  <2>2. ~(y < x)
    BY <1>2, <1>3, <2>1, Zenon
  <2> QED BY <2>1, <2>2
<1> QED BY <1>4

LEMMA RaisedCovers ==
  ASSUME NEW floor \in Nat, NEW dropped, NEW bound \in Nat,
         \A n \in dropped : n.seq \in Nat /\ n.seq <= bound
  PROVE  /\ Raised(floor, dropped) \in {floor} \cup Seqs(dropped)
         /\ Raised(floor, dropped) \in Nat
         /\ floor <= Raised(floor, dropped)
         /\ \A n \in dropped : n.seq <= Raised(floor, dropped)
<1> DEFINE S == {floor} \cup Seqs(dropped)
           U == {u \in Nat : \A g \in S : g <= u}
<1>1. S \subseteq Nat /\ floor \in S /\ \A n \in dropped : n.seq \in S
  BY DEF Seqs
<1>2. U # {}
  <2>1. CASE floor <= bound
    <3>1. bound \in U
      BY <2>1 DEF Seqs
    <3> QED BY <3>1
  <2>2. CASE ~(floor <= bound)
    <3>1. floor \in U
      BY <2>2 DEF Seqs
    <3> QED BY <3>1
  <2> QED BY <2>1, <2>2
<1>3. PICK m \in U : \A u \in U : m <= u
  <2> HIDE DEF U
  <2>1. U \in SUBSET Nat
    BY DEF U
  <2> QED BY <1>2, <2>1, LeastOf
<1> HIDE DEF S
<1>4. m \in S
  <2> SUFFICES ASSUME m \notin S PROVE FALSE
    OBVIOUS
  <2>1. \A g \in S : g \in Nat /\ g < m
    BY <1>1, <1>3
  <2>2. m - 1 \in U
    BY <1>1, <2>1
  <2> QED BY <1>3, <2>2
<1>5. \E f \in S : \A g \in S : g <= f
  BY <1>3, <1>4
<1>6. Raised(floor, dropped) \in S /\ \A g \in S : g <= Raised(floor, dropped)
  BY <1>5 DEF Raised, S
<1> QED BY <1>1, <1>6 DEF S

LEMMA PrunedWhole ==
  ASSUME Stated(state), NEW reports, NEW notices \in SUBSET Notices, NEW next \in Nat,
         state.floor < next, Seqs(notices) = (state.floor + 1) .. (next - 1)
  PROVE  LET s == Pruned(reports, notices, next) IN
         /\ Stated(s)
         /\ s.revision = state.revision + 1 /\ s.next = next /\ s.reports = reports
         /\ s.notices \subseteq notices
         /\ Seqs(s.notices) = (s.floor + 1) .. (s.next - 1)
         /\ \A n \in s.notices : n.report \in Ids(reports)
<1> DEFINE s == Pruned(reports, notices, next)
           orphaned == {n \in notices : n.report \notin Ids(reports)}
           beyond == Beyond(notices \ orphaned)
           dropped == orphaned \cup beyond
           floor == Raised(state.floor, dropped)
           kept == {n \in (notices \ orphaned) \ beyond : n.seq > floor}
<1>1. s = [revision |-> state.revision + 1, next |-> next, reports |-> reports, floor |-> floor,
           notices |-> kept]
  BY DEF Pruned
<1>2. \A n \in notices : n.seq \in Nat /\ n.seq > state.floor /\ n.seq < next
  <2>1. \A n \in notices : n.seq \in Seqs(notices) /\ n.seq \in Nat
    BY DEF Seqs, Notices
  <2> QED BY <2>1 DEF Stated
<1>3. dropped \subseteq notices
  BY DEF Beyond
<1> HIDE DEF dropped
<1>4. \A n \in dropped : n.seq \in Nat /\ n.seq <= next
  BY <1>2, <1>3
<1>5. /\ floor \in {state.floor} \cup Seqs(dropped) /\ floor \in Nat
      /\ state.floor <= floor /\ \A n \in dropped : n.seq <= floor
  BY <1>4, RaisedCovers DEF Stated
<1> HIDE DEF floor
<1>6. floor < next
  BY <1>2, <1>3, <1>5 DEF Seqs
<1>7. kept \subseteq notices /\ \A n \in kept : n.report \in Ids(reports)
  OBVIOUS
<1>8. \A n \in notices : n.seq > floor => n \in kept
  <2> SUFFICES ASSUME NEW n \in notices, n.seq > floor PROVE n \in kept
    OBVIOUS
  <2>1. n \notin dropped
    BY <1>2, <1>5
  <2>2. n \in (notices \ orphaned) \ beyond
    BY <2>1 DEF dropped
  <2> QED BY <2>2
<1>9. Seqs(kept) = (floor + 1) .. (next - 1)
  <2>1. ASSUME NEW i \in Seqs(kept) PROVE i \in (floor + 1) .. (next - 1)
    <3>1. PICK n \in kept : i = n.seq
      BY DEF Seqs
    <3>2. n \in notices /\ n.seq > floor
      OBVIOUS
    <3> QED BY <1>2, <1>5, <3>1, <3>2
  <2>2. ASSUME NEW i \in (floor + 1) .. (next - 1) PROVE i \in Seqs(kept)
    <3>1. i \in Seqs(notices)
      BY <1>5 DEF Stated
    <3>2. PICK n \in notices : i = n.seq
      BY <3>1 DEF Seqs
    <3>3. n.seq > floor
      BY <1>5, <3>2
    <3>4. n \in kept
      BY <1>8, <3>3
    <3> QED BY <3>2, <3>4 DEF Seqs
  <2> QED BY <2>1, <2>2
<1> HIDE DEF kept
<1>10. Stated(s)
  BY <1>1, <1>5, <1>6, <1>7 DEF Stated
<1> QED BY <1>1, <1>7, <1>9, <1>10
(***************************************************************************)
(* What a publication writes.                                              *)

LEMMA Consecutive ==
  ASSUME NEW a \in Nat, NEW b \in Nat, NEW c \in Nat, a < b, b <= c
  PROVE  ((a + 1) .. (b - 1)) \cup (b .. (c - 1)) = (a + 1) .. (c - 1)
OBVIOUS

\* A state whose notices are the whole stream above its floor.
Good(s) ==
  /\ Stated(s) /\ Seqs(s.notices) = (s.floor + 1) .. (s.next - 1)
  /\ \A n \in s.notices : n.report \in Ids(s.reports)

LEMMA PublishedGood ==
  ASSUME IInv, NEW reports, NEW added \in SUBSET Notices, NEW next \in Nat,
         state.next <= next, Seqs(added) = state.next .. (next - 1)
  PROVE  LET s == Pruned(reports, state.notices \cup added, next) IN
         /\ Good(s) /\ s.next = next /\ s.reports = reports
         /\ s.revision = state.revision + 1
<1> DEFINE notices == state.notices \cup added
           s == Pruned(reports, notices, next)
<1>1. Stated(state) /\ state.floor < next /\ notices \in SUBSET Notices
  BY DEF IInv, Shapes, Stated
<1>2. Seqs(notices) = Seqs(state.notices) \cup Seqs(added)
  BY DEF Seqs
<1>3. Seqs(notices) = (state.floor + 1) .. (next - 1)
  <2>1. Seqs(state.notices) = (state.floor + 1) .. (state.next - 1)
    BY DEF IInv, StreamWhole
  <2>2. state.floor \in Nat /\ state.next \in Nat /\ state.floor < state.next
    BY <1>1 DEF Stated
  <2>3. ((state.floor + 1) .. (state.next - 1)) \cup (state.next .. (next - 1))
          = (state.floor + 1) .. (next - 1)
    BY <2>2, Consecutive
  <2> QED BY <1>2, <2>1, <2>3
<1> HIDE DEF notices
<1>4. /\ Stated(s) /\ s.revision = state.revision + 1 /\ s.next = next /\ s.reports = reports
      /\ Seqs(s.notices) = (s.floor + 1) .. (s.next - 1)
      /\ \A n \in s.notices : n.report \in Ids(reports)
  <2> HIDE DEF s
  <2> QED BY <1>1, <1>3, PrunedWhole DEF s
<1> HIDE DEF s
<1>5. Good(s) /\ s.next = next /\ s.reports = reports /\ s.revision = state.revision + 1
  BY <1>4 DEF Good
<1> QED BY <1>5 DEF s, notices

\* A publication, whatever its outcome, keeps the invariant when the files of
\* what it lists are there and what it adds to `owed' is numbered.
LEMMA ReplacedKeeps ==
  ASSUME IInv, NEW s, Good(s), state.next <= s.next, Ids(s.reports) \subseteq files,
         state' \in {state, s}, UNCHANGED <<files, cursor, watching>>,
         NEW more \in SUBSET [seq : Nat, to : Readers], \A o \in more : o.seq < s.next,
         owed' = IF state' = s THEN owed \cup more ELSE owed,
         PutHolds'
  PROVE  IInv'
<1>1. Good(state)
  BY DEF IInv, Shapes, StreamWhole, NoticesBacked, Good
<1>2. Good(state') /\ Ids(state'.reports) \subseteq files
  BY <1>1 DEF IInv, NoticesBacked
<1>3. state.next \in Nat /\ s.next \in Nat /\ \A o \in owed \cup more : o.seq \in Nat
  BY <1>1 DEF Good, Stated, IInv, Shapes
<1>4. Shapes'
  BY <1>2 DEF IInv, Shapes, Good, Stated
<1>5. StreamWhole' /\ NoticesBacked'
  BY <1>2 DEF StreamWhole, NoticesBacked, Good, Seqs, Ids
<1>6. OwedNumbered'
  <2>1. CASE state' = s
    BY <1>3, <2>1 DEF IInv, OwedNumbered
  <2>2. CASE state' # s
    BY <2>2 DEF IInv, OwedNumbered
  <2> QED BY <2>1, <2>2
<1> QED BY <1>4, <1>5, <1>6 DEF IInv

\* Whoever replaces the state does so in its known or unknown outcome.
LEMMA ReplacedOrNot ==
  ASSUME NEW s, Replace(s) \/ ReplaceUnknown(s)
  PROVE  state' \in {state, s}
BY DEF Replace, ReplaceUnknown

LEMMA NewNotices ==
  ASSUME IInv, put # Idle
  PROVE  /\ Cardinality(ToNotify(put)) \in Nat
         /\ ToNotify(put) \subseteq Readers
<1>1. ToNotify(put) \subseteq Readers
  BY DEF IInv, PutHolds, ToNotify
<1>2. IsFiniteSet(ToNotify(put))
  BY <1>1, FS_Subset, ObservationConstants
<1> QED BY <1>1, <1>2, FS_CardinalityType

LEMMA NumberingsFit ==
  ASSUME NEW D, NEW a, NEW b,
         NEW f \in {g \in [D -> a .. b] : /\ \A r, s \in D : g[r] = g[s] => r = s
                                         /\ \A n \in a .. b : \E r \in D : g[r] = n}
  PROVE  /\ \A r \in D : f[r] \in a .. b
         /\ \A n \in a .. b : \E r \in D : f[r] = n
<1>1. f \in [D -> a .. b]
  OBVIOUS
<1>2. \A n \in a .. b : \E r \in D : f[r] = n
  OBVIOUS
<1> QED BY <1>1, <1>2

LEMMA PutStateKeeps ==
  ASSUME IInv, PutState, UNCHANGED monitorVars
  PROVE  IInv'
<1> DEFINE Added(f) == {Notice(f[r], r, state.revision + 1, "none") : r \in ToNotify(put)}
           upto == state.next + Cardinality(ToNotify(put))
           Result(kept, f) == Pruned(kept \cup {Report}, state.notices \cup Added(f), upto)
           Written(s, added) ==
             /\ \/ Replace(s) /\ put' = [put EXCEPT !.pc = "sweep"]
                \/ ReplaceUnknown(s) /\ put' = [put EXCEPT !.pc = "failed"]
             /\ owed' = IF state' = s THEN owed \cup Owing(added) ELSE owed
<1>1. PICK kept \in Retainable, f \in Numberings(put) : Written(Result(kept, f), Added(f))
  BY DEF PutState
<1> DEFINE added == Added(f)
           reports == kept \cup {Report}
           next == Pruned(reports, state.notices \cup added, upto)
<1>2. put # Idle /\ put.pc = "state" /\ UNCHANGED <<files, cursor>>
  BY DEF PutState
<1>3. upto \in Nat /\ state.next \in Nat /\ state.next <= upto /\ ToNotify(put) \subseteq Readers
  BY <1>2, NewNotices DEF IInv, Shapes, Stated
<1>4. /\ \A r \in ToNotify(put) : f[r] \in state.next .. (upto - 1)
      /\ \A n \in state.next .. (upto - 1) : \E r \in ToNotify(put) : f[r] = n
  <2> DEFINE D == ToNotify(put)
             a == state.next
             b == state.next + Cardinality(ToNotify(put)) - 1
  <2>1. f \in {g \in [D -> a .. b] : /\ \A r, s \in D : g[r] = g[s] => r = s
                                     /\ \A n \in a .. b : \E r \in D : g[r] = n}
    BY DEF Numberings
  <2> HIDE DEF D, a, b
  <2>2. /\ \A r \in D : f[r] \in a .. b
        /\ \A n \in a .. b : \E r \in D : f[r] = n
    BY <2>1, NumberingsFit
  <2>3. upto - 1 = b
    <3>1. state.next \in Nat /\ Cardinality(ToNotify(put)) \in Nat
      BY <1>2, <1>3, NewNotices
    <3> QED BY <3>1 DEF b
  <2> QED BY <2>2, <2>3 DEF D, a
<1>5. added \in SUBSET Notices
  <2>1. state.revision + 1 \in Nat
    BY DEF IInv, Shapes, Stated
  <2>2. \A r \in ToNotify(put) : f[r] \in Nat
    BY <1>3, <1>4
  <2>3. ASSUME NEW r \in ToNotify(put)
        PROVE  Notice(f[r], r, state.revision + 1, "none") \in Notices
    <3>1. f[r] \in Nat /\ r \in Readers
      BY <1>3, <2>2
    <3> QED BY <2>1, <3>1 DEF Notice, Notices, Events
  <2> QED BY <2>3
<1>6. Seqs(added) = state.next .. (upto - 1)
  <2>1. ASSUME NEW i \in Seqs(added) PROVE i \in state.next .. (upto - 1)
    BY <1>4 DEF Seqs, Notice
  <2>2. ASSUME NEW i \in state.next .. (upto - 1) PROVE i \in Seqs(added)
    <3>1. PICK r \in ToNotify(put) : f[r] = i
      BY <1>4
    <3>2. Notice(f[r], r, state.revision + 1, "none") \in added
      OBVIOUS
    <3>3. Notice(f[r], r, state.revision + 1, "none").seq = i
      BY <3>1 DEF Notice
    <3> QED BY <3>2, <3>3 DEF Seqs
  <2> QED BY <2>1, <2>2
<1>7. Written(next, added)
  BY <1>1
<1> HIDE DEF added, upto, reports
<1>8. Good(next) /\ next.next = upto /\ next.reports = reports
  BY <1>3, <1>5, <1>6, PublishedGood
<1> HIDE DEF next
<1>9. Ids(reports) \subseteq files
  BY <1>2 DEF reports, Retainable, Report, Ids, IInv, PutHolds, NoticesBacked
<1>10. Owing(added) \subseteq [seq : Nat, to : Readers] /\ \A o \in Owing(added) : o.seq < upto
  BY <1>3, <1>5, <1>6 DEF Owing, Notices, Seqs
<1>11. PutHolds'
  BY <1>2, <1>7 DEF IInv, PutHolds
<1>12. state' \in {state, next}
  BY <1>7, ReplacedOrNot
<1> QED BY <1>2, <1>3, <1>7, <1>8, <1>9, <1>10, <1>11, <1>12, ReplacedKeeps
         DEF monitorVars, workVars

LEMMA NotifyKeeps ==
  ASSUME IInv, NEW r \in state.reports, NEW to \in Readers, NEW event \in Events,
         NotifyExisting(r, to, event), UNCHANGED monitorVars
  PROVE  IInv'
<1> DEFINE added == {Notice(state.next, to, r.id, event)}
           next == Pruned(state.reports, state.notices \cup added, state.next + 1)
<1>1. state.next \in Nat /\ state.next + 1 \in Nat /\ state.next <= state.next + 1
  BY DEF IInv, Shapes, Stated
<1>2. r.id \in files /\ r.id \in Nat
  BY DEF NotifyExisting, IInv, Shapes
<1>3. added \in SUBSET Notices
  BY <1>1, <1>2 DEF Notice, Notices
<1>4. Seqs(added) = state.next .. (state.next + 1 - 1)
  BY <1>1 DEF Seqs, Notice
<1>5. /\ Replace(next) \/ ReplaceUnknown(next)
      /\ owed' = IF state' = next THEN owed \cup Owing(added) ELSE owed
      /\ UNCHANGED <<files, put, cursor>> /\ Unlocked
  BY DEF NotifyExisting
<1> HIDE DEF added
<1>6. Good(next) /\ next.next = state.next + 1 /\ next.reports = state.reports
  BY <1>1, <1>3, <1>4, PublishedGood
<1> HIDE DEF next
<1>7. Ids(next.reports) \subseteq files
  BY <1>6 DEF IInv, NoticesBacked
<1>8. /\ Owing(added) \subseteq [seq : Nat, to : Readers]
      /\ \A o \in Owing(added) : o.seq < next.next
  BY <1>1, <1>3, <1>4, <1>6 DEF Owing, Notices, Seqs
<1>9. PutHolds'
  BY <1>5 DEF IInv, PutHolds, Unlocked
<1>10. state' \in {state, next}
  BY <1>5, ReplacedOrNot
<1> QED BY <1>1, <1>5, <1>6, <1>7, <1>8, <1>9, <1>10, ReplacedKeeps DEF monitorVars, workVars

LEMMA AckKeeps ==
  ASSUME IInv, NEW n \in state.notices, Ack(n), UNCHANGED monitorVars
  PROVE  IInv'
<1> DEFINE m == [n EXCEPT !.acked = TRUE]
           next == [revision |-> state.revision + 1, next |-> state.next, floor |-> state.floor,
                    reports |-> state.reports, notices |-> (state.notices \ {n}) \cup {m}]
<1>1. /\ Replace(next) \/ ReplaceUnknown(next)
      /\ UNCHANGED <<files, put, cursor, owed>> /\ Unlocked
  BY DEF Ack, readerVars
<1>2. n \in Notices /\ m \in Notices /\ m.seq = n.seq /\ m.report = n.report
  BY DEF IInv, Shapes, Stated, Notices
<1> HIDE DEF m
<1>4. Stated(next)
  BY <1>2 DEF IInv, Shapes, Stated
<1>5. Seqs(next.notices) = Seqs(state.notices)
  <2>1. next.notices = (state.notices \ {n}) \cup {m}
    OBVIOUS
  <2> QED BY <1>2, <2>1 DEF Seqs
<1>6. Good(next) /\ next.next = state.next /\ next.reports = state.reports
  BY <1>2, <1>4, <1>5 DEF Good, IInv, StreamWhole, NoticesBacked
<1> HIDE DEF next
<1>7. Ids(next.reports) \subseteq files
  BY <1>6 DEF IInv, NoticesBacked
<1>8. PutHolds'
  BY <1>1 DEF IInv, PutHolds, Unlocked
<1>9. state' \in {state, next}
  BY <1>1, ReplacedOrNot
<1>10. state.next <= next.next
  BY <1>6 DEF IInv, Shapes, Stated
<1> DEFINE none == {}
<1>11. none \in SUBSET [seq : Nat, to : Readers] /\ \A o \in none : o.seq < next.next
  OBVIOUS
<1>12. owed' = IF state' = next THEN owed \cup none ELSE owed
  BY <1>1
<1> HIDE DEF none
<1> QED BY <1>1, <1>6, <1>7, <1>8, <1>9, <1>10, <1>11, <1>12, ReplacedKeeps
         DEF monitorVars, workVars
-----------------------------------------------------------------------------
(* The steps.                                                              *)

LEMMA InitHolds == Init => IInv
<1> SUFFICES ASSUME Init PROVE IInv
  OBVIOUS
<1> USE DEF Init, StoreInit
<1>1. Shapes
  BY DEF Shapes, Stated, Notices
<1>2. StreamWhole /\ NoticesBacked /\ PutHolds /\ OwedNumbered
  BY DEF StreamWhole, NoticesBacked, PutHolds, OwedNumbered, Seqs, Ids
<1> QED BY <1>1, <1>2 DEF IInv

\* Steps that leave the state, the readers and the reports' files as they were.
LEMMA FilesKeep ==
  ASSUME IInv, UNCHANGED <<state, owed, cursor>>, watching' \subseteq Readers,
         files' \subseteq Nat, Ids(state.reports) \subseteq files', PutHolds'
  PROVE  IInv'
<1>1. Shapes'
  BY DEF IInv, Shapes, Stated
<1>2. StreamWhole' /\ NoticesBacked' /\ OwedNumbered'
  BY DEF IInv, StreamWhole, NoticesBacked, OwedNumbered, Seqs, Ids
<1> QED BY <1>1, <1>2 DEF IInv

LEMMA StoreStepKeeps ==
  ASSUME IInv, StoreStep
  PROVE  IInv'
<1> USE DEF StoreStep
<1>1. watching' = watching /\ watching \subseteq Readers
  BY DEF monitorVars, workVars, IInv, Shapes
<1>2. state.revision \in Nat /\ files \subseteq Nat /\ Ids(state.reports) \subseteq files
  BY DEF IInv, Shapes, Stated, NoticesBacked
<1>3. CASE PutFile
  <2>1. PutHolds'
    BY <1>3 DEF PutFile, readerVars, IInv, PutHolds
  <2> QED BY <1>1, <1>2, <1>3, <2>1, FilesKeep DEF PutFile, readerVars
<1>4. CASE PutFileFails
  <2>1. PutHolds'
    BY <1>4 DEF PutFileFails, readerVars, IInv, PutHolds
  <2> QED BY <1>1, <1>2, <1>4, <2>1, FilesKeep DEF PutFileFails, readerVars
<1>5. CASE PutState
  BY <1>5, PutStateKeeps
<1>6. CASE PutSweep
  <2>1. PutHolds'
    BY <1>6 DEF PutSweep, readerVars, IInv, PutHolds
  <2> QED BY <1>1, <1>2, <1>6, <2>1, FilesKeep DEF PutSweep, readerVars
<1> QED BY <1>3, <1>4, <1>5, <1>6

LEMMA ReaderStepKeeps ==
  ASSUME IInv, ReaderStep
  PROVE  IInv'
<1>1. UNCHANGED monitorVars
  BY DEF ReaderStep
<1>2. ASSUME NEW r \in Readers, Pull(r, rev) PROVE IInv'
  <2>1. UNCHANGED <<state, files, put, watching>> /\ owed' \subseteq owed
    BY <1>1, <1>2 DEF Pull, storeVars, durableVars, monitorVars, workVars
  <2>2. cursor' \in [Readers -> Nat]
    <3>1. state.next - 1 \in Nat
      BY DEF IInv, Shapes, Stated
    <3> QED BY <1>2, <3>1 DEF Pull, IInv, Shapes
  <2>3. Shapes'
    BY <2>1, <2>2 DEF IInv, Shapes, Stated
  <2>4. StreamWhole' /\ NoticesBacked' /\ PutHolds' /\ OwedNumbered'
    BY <2>1 DEF IInv, StreamWhole, NoticesBacked, PutHolds, OwedNumbered, Seqs, Ids
  <2> QED BY <2>3, <2>4 DEF IInv
<1>3. ASSUME NEW n \in state.notices, Ack(n) PROVE IInv'
  BY <1>1, <1>3, AckKeeps
<1>4. ASSUME NEW q \in state.reports, NEW to \in Readers, NEW e \in Events \ {"none"},
             NotifyExisting(q, to, e)
      PROVE  IInv'
  BY <1>1, <1>4, NotifyKeeps
<1> QED BY <1>2, <1>3, <1>4 DEF ReaderStep

\* A publication begins or ends.
LEMMA PublishKeeps ==
  ASSUME IInv, NEW p \in Paths, Publish(p)
  PROVE  IInv'
<1>1. UNCHANGED <<state, owed, cursor, watching>> /\ watching \subseteq Readers
  BY DEF Publish, PutBegin, readerVars, workVars, IInv, Shapes
<1> DEFINE w == [pc |-> "file", path |-> p, content |-> run.got[p], rev |-> rev,
                 to |-> IF run.got[p] # Base THEN watching ELSE {}]
<1>2. w = [pc |-> w.pc, path |-> w.path, content |-> w.content, rev |-> w.rev, to |-> w.to]
      /\ w.to \subseteq Readers
  BY <1>1
<1>3. PutBegin(w)
  BY DEF Publish
<1> HIDE DEF w
<1>4. files' = files \/ files' = files \cap Ids(state.reports)
  BY <1>3 DEF PutBegin
<1>5. files' \subseteq Nat /\ Ids(state.reports) \subseteq files'
  BY <1>4 DEF IInv, Shapes, NoticesBacked
<1>6. \E pc \in {"failed", "done", "file"} : put' = [w EXCEPT !.pc = pc]
  BY <1>3 DEF PutBegin
<1>7. PutHolds'
  BY <1>2, <1>6 DEF PutHolds
<1> QED BY <1>1, <1>5, <1>7, FilesKeep

LEMMA Undisturbed ==
  ASSUME IInv, UNCHANGED <<state, files, owed, cursor>>, put' = put \/ put' = Idle,
         watching' \subseteq Readers
  PROVE  IInv'
<1>1. PutHolds'
  BY DEF IInv, PutHolds
<1>2. files' \subseteq Nat /\ Ids(state.reports) \subseteq files'
  BY DEF IInv, Shapes, NoticesBacked
<1> QED BY <1>1, <1>2, FilesKeep

LEMMA StepHolds == IInv /\ [Next]_vars => IInv'
<1> SUFFICES ASSUME IInv, [Next]_vars PROVE IInv'
  OBVIOUS
<1>1. watching \subseteq Readers
  BY DEF IInv, Shapes
<1> USE DEF storeVars, durableVars, readerVars, worldVars, workVars, attachVars
<1>2. ASSUME NEW p \in Paths, NEW c \in Contents, Edit(p, c) PROVE IInv'
  BY <1>1, <1>2, Undisturbed DEF Edit
<1>3. CASE Deliver \/ QuietOver \/ Sweep
  BY <1>1, <1>3, Undisturbed DEF Deliver, QuietOver, Sweep
<1>4. CASE RunStep
  <2>1. CASE RunBegin \/ RunSuperseded \/ CloseWatchers \/ OpenWatchers
    BY <1>1, <2>1, Undisturbed DEF RunBegin, RunSuperseded, CloseWatchers, OpenWatchers
  <2>2. ASSUME NEW p \in Paths, Capture(p) PROVE IInv'
    BY <1>1, <2>2, Undisturbed DEF Capture
  <2>3. ASSUME NEW p \in Paths, Publish(p) PROVE IInv'
    BY <2>3, PublishKeeps
  <2>4. CASE Captured \/ CaptureRefused \/ PublishRefused
    BY <1>1, <2>4, Undisturbed DEF Captured, CaptureRefused, PublishRefused
  <2>5. CASE Published \/ PublishFails
    BY <1>1, <2>5, Undisturbed DEF Published, PublishFails, PutEnded
  <2> QED BY <1>4, <2>1, <2>2, <2>3, <2>4, <2>5 DEF RunStep
<1>5. CASE AttachStep
  BY <1>1, <1>5, Undisturbed DEF AttachStep, Refresh, OpBegin, OpRefused, OpAttach, OpCheck
<1>6. CASE StoreStep
  BY <1>6, StoreStepKeeps
<1>7. CASE ReaderStep
  BY <1>7, ReaderStepKeeps
<1>8. ASSUME NEW readers \in SUBSET Readers, Watch(readers) PROVE IInv'
  BY <1>8, Undisturbed DEF Watch
<1>9. CASE Forget \/ Schedule
  BY <1>1, <1>9, Undisturbed DEF Forget, Schedule
<1>10. CASE Crash
  BY <1>1, <1>10, Undisturbed DEF Crash, StoreCrash
<1>11. CASE UNCHANGED vars
  BY <1>1, <1>11, Undisturbed DEF vars, monitorVars
<1> QED BY <1>2, <1>3, <1>4, <1>5, <1>6, <1>7, <1>8, <1>9, <1>10, <1>11 DEF Next

LEMMA Inductive == Spec => []IInv
<1>1. Init => IInv
  BY InitHolds
<1>2. IInv /\ [Next]_vars => IInv'
  BY StepHolds
<1> QED BY <1>1, <1>2, PTL DEF Spec

(* Whatever the bounds, the readers and the interleaving of publications,  *)
(* crashes and lost outcomes, a notice names a retained report and every   *)
(* retained report has its file (ObservationStore.publish).                *)
THEOREM NoticesAreBacked == Spec => []NoticesBacked
<1>1. IInv => NoticesBacked
  BY DEF IInv
<1> QED BY <1>1, Inductive, PTL

(* The retained notices are always exactly those above the floor, so that  *)
(* the state the store writes is one its decoder accepts.                  *)
THEOREM StreamIsWhole == Spec => []StreamWhole
<1>1. IInv => StreamWhole
  BY DEF IInv
<1> QED BY <1>1, Inductive, PTL

(* What came after a reader's last pull is retained or reported as a gap   *)
(* by the next pull (ObservationStore.pull: floor_sequence).               *)
THEOREM GapIsTruthful == Spec => []GapTruthful
<1>1. IInv => GapTruthful
  <2> SUFFICES ASSUME IInv, NEW o \in owed, o.seq > cursor[o.to]
               PROVE  o.seq \in Seqs(state.notices) \/ Gap(o.to)
    BY DEF GapTruthful
  <2>1. /\ o.seq \in Nat /\ o.to \in Readers /\ cursor[o.to] \in Nat
        /\ state.floor \in Nat /\ state.next \in Nat /\ o.seq < state.next
    BY DEF IInv, Shapes, Stated, OwedNumbered
  <2>2. CASE o.seq > state.floor
    BY <2>1, <2>2 DEF IInv, StreamWhole
  <2>3. CASE o.seq <= state.floor
    BY <2>1, <2>3 DEF Gap
  <2> QED BY <2>1, <2>2, <2>3
<1> QED BY <1>1, Inductive, PTL
-----------------------------------------------------------------------------
(* The monitor.  What a refresh and a resting monitor promise rests on     *)
(* where the run stands: what it has taken of the files (RestHolds,        *)
(* HeldHolds), what the reports already say of it (StoredTruth), and that  *)
(* a run which is no longer current leaves its workspace queued            *)
(* (RunCurrent).                                                           *)

MonitorTypes ==
  /\ disk \in [Paths -> Contents] /\ rev \in Nat
  /\ run # Idle => /\ run \in Runs /\ run.left \subseteq Batches[run.at]
                   /\ run.pc \in {"watch", "open"} => run.left = Batches[run.at]
  /\ mon # Idle => mon \in Monitors /\ mon.rev <= rev
  /\ op # Idle => op \in Attachments /\ op.rev <= rev
  /\ waiting # Idle => waiting \in Attachments /\ waiting.rev <= rev /\ waiting.pc = "attach"

\* A report is named by the revision that first listed it.
ReportsOrdered ==
  \A r \in state.reports : /\ r.id \in Nat /\ r.id <= state.revision
                           /\ \A q \in state.reports : q.id = r.id => q = r

\* A publish in its critical section is the run's.
PutOfRun == put # Idle =>
  /\ run # Idle /\ run.pc = "store" /\ put.path \in Batches[run.at]
  /\ put.content = run.got[put.path] /\ put.rev = run.rev

\* A run is superseded by nothing but what leaves its workspace to be run again.
RunCurrent == run # Idle =>
  /\ run.fate # "gone" => mon # Idle
  /\ run.fate = "current" => mon.queue = "clean" /\ mon.rev = run.rev
  /\ run.fate # "current" /\ mon # Idle => mon.queue # "clean"

\* the paths a run has captured, and those whose newest report is the run's
Taken == IF run.pc \in {"watch", "open"} THEN {}
         ELSE IF run.pc = "capture" THEN Batches[run.at] \ run.left ELSE Batches[run.at]
Stored == IF run.pc = "publish" THEN Batches[run.at] \ run.left
          ELSE IF run.pc = "store" /\ put # Idle
          THEN (Batches[run.at] \ run.left) \ (IF put.pc \in {"sweep", "done"} THEN {} ELSE {put.path})
          ELSE {}

StoredTruth == run # Idle =>
  \A p \in Stored : \A r \in Latest(p) : r.content = run.got[p] /\ r.rev = run.rev

\* Under open watchers with nothing to deliver, what was taken is what the file holds.
TakenHolds == run # Idle /\ run.fate = "current" /\ mon.watch /\ ~mon.event =>
  \A p \in Taken : run.got[p] = disk[p]

\* What an attachment that nothing outdated may be answered with.
HeldHolds == op # Idle /\ op.pc \in {"wait", "check"} /\ ~op.stale =>
  /\ \A p \in Paths : disk[p] \in op.held[p]
  /\ mon # Idle => mon.rev = op.rev
  /\ run # Idle /\ (run.fate = "current" \/ (op.pc = "check" /\ op.outcome = "published")) =>
       run.rev = op.rev /\ \A p \in Taken : run.got[p] \in op.held[p]
  /\ op.pc = "check" /\ op.outcome = "published" /\ rev = op.rev =>
       \A p \in op.paths : \A r \in Latest(p) : r.content \in op.held[p] /\ r.rev = op.rev

MInv == /\ IInv /\ MonitorTypes /\ ReportsOrdered /\ PutOfRun /\ RunCurrent
        /\ StoredTruth /\ TakenHolds /\ RestIsCurrent /\ HeldHolds

LEMMA BatchPaths ==
  ASSUME NEW i \in 1 .. Len(Batches)
  PROVE  Batches[i] \in SUBSET Paths
<1>1. Batches \in Seq((SUBSET Paths) \ {{}})
  BY MonitorConstants
<1> QED BY <1>1

LEMMA FirstBatch == Len(Batches) \in Nat /\ 1 \in 1 .. Len(Batches)
<1>1. Len(Batches) \in Nat /\ Len(Batches) > 0
  BY MonitorConstants
<1> QED BY <1>1

\* A step that does not move the run may at most supersede it.
SameRun ==
  /\ (run' = Idle) <=> (run = Idle)
  /\ run # Idle => /\ run' \in Runs /\ run'.pc = run.pc /\ run'.rev = run.rev /\ run'.at = run.at
                   /\ run'.got = run.got /\ run'.left = run.left
                   /\ run'.fate = "current" => run.fate = "current"

LEMMA RunStays ==
  ASSUME MonitorTypes, run' \in {run, Stale, Detached}
  PROVE  SameRun
<1>1. CASE run' = run
  BY <1>1 DEF SameRun, MonitorTypes
<1>2. CASE run # Idle /\ run' # run
  <2>1. run \in Runs
    BY <1>2 DEF MonitorTypes
  <2>2. PICK fate \in {"stale", "gone"} : run' = [run EXCEPT !.fate = fate]
    BY <1>2 DEF Stale, Detached
  <2>3. /\ run' \in Runs /\ run'.pc = run.pc /\ run'.rev = run.rev /\ run'.at = run.at
        /\ run'.got = run.got /\ run'.left = run.left /\ run'.fate = fate
    BY <2>1, <2>2 DEF Runs
  <2>4. run' # Idle
    BY <2>3, MonitorIdle
  <2> QED BY <1>2, <2>3, <2>4 DEF SameRun
<1>3. CASE run = Idle
  BY <1>3 DEF SameRun, Stale, Detached
<1> QED BY <1>1, <1>2, <1>3

\* Steps outside the run and the store.
World ==
  \/ \E p \in Paths, c \in Contents : Edit(p, c)
  \/ Deliver \/ QuietOver \/ Sweep \/ AttachStep \/ ReaderStep
  \/ \E readers \in SUBSET Readers : Watch(readers)
  \/ Forget \/ Schedule \/ UNCHANGED vars

LEMMA Steps == [Next]_vars => World \/ RunStep \/ StoreStep \/ Crash
BY DEF Next, World

LEMMA ReaderReports ==
  ASSUME IInv, ReaderStep
  PROVE  /\ state'.reports = state.reports /\ state'.revision \in {state.revision, state.revision + 1}
         /\ put' = put
<1>1. ASSUME NEW r \in Readers, Pull(r, rev)
      PROVE  state' = state /\ put' = put
  BY <1>1 DEF Pull, storeVars, durableVars
<1>2. ASSUME NEW n \in state.notices, Ack(n)
      PROVE  /\ state'.reports = state.reports
             /\ state'.revision \in {state.revision, state.revision + 1} /\ put' = put
  <2> DEFINE next == [revision |-> state.revision + 1, next |-> state.next, floor |-> state.floor,
                      reports |-> state.reports,
                      notices |-> (state.notices \ {n}) \cup {[n EXCEPT !.acked = TRUE]}]
  <2>1. Replace(next) \/ ReplaceUnknown(next)
    BY <1>2 DEF Ack
  <2>2. next.reports = state.reports /\ next.revision = state.revision + 1
    OBVIOUS
  <2> HIDE DEF next
  <2>3. state' \in {state, next}
    BY <2>1, ReplacedOrNot
  <2> QED BY <1>2, <2>2, <2>3 DEF Ack
<1>3. ASSUME NEW q \in state.reports, NEW to \in Readers, NEW e \in Events \ {"none"},
             NotifyExisting(q, to, e)
      PROVE  /\ state'.reports = state.reports
             /\ state'.revision \in {state.revision, state.revision + 1} /\ put' = put
  <2> DEFINE next == Pruned(state.reports, state.notices \cup {Notice(state.next, to, q.id, e)},
                            state.next + 1)
  <2>1. Replace(next) \/ ReplaceUnknown(next)
    BY <1>3 DEF NotifyExisting
  <2>2. next.reports = state.reports /\ next.revision = state.revision + 1
    BY DEF Pruned
  <2> HIDE DEF next
  <2>3. state' \in {state, next}
    BY <2>1, ReplacedOrNot
  <2> QED BY <1>3, <2>2, <2>3 DEF NotifyExisting
<1> QED BY <1>1, <1>2, <1>3 DEF ReaderStep

\* What the world leaves to the run: its course, the publish and the reports.
Apart == SameRun /\ put' = put /\ state'.reports = state.reports

LEMMA WorldApart ==
  ASSUME IInv, MonitorTypes, World
  PROVE  Apart /\ state'.revision \in {state.revision, state.revision + 1}
<1> USE DEF storeVars, durableVars
<1>1. put' = put /\ state'.reports = state.reports
      /\ state'.revision \in {state.revision, state.revision + 1}
  <2>1. CASE ReaderStep
    BY <2>1, ReaderReports
  <2>2. CASE AttachStep
    BY <2>2 DEF AttachStep, Refresh, OpBegin, OpRefused, OpAttach, OpCheck
  <2>3. CASE ~(ReaderStep \/ AttachStep)
    BY <2>3 DEF World, Edit, Deliver, QuietOver, Sweep, Watch, Forget, Schedule, vars
  <2> QED BY <2>1, <2>2, <2>3
<1>2. run' \in {run, Stale, Detached}
  <2>1. CASE ReaderStep
    BY <2>1 DEF ReaderStep, monitorVars
  <2>2. CASE AttachStep
    BY <2>2 DEF AttachStep, Refresh, OpBegin, OpRefused, OpAttach, OpCheck
  <2>3. CASE ~(ReaderStep \/ AttachStep)
    BY <2>3 DEF World, Edit, Deliver, QuietOver, Sweep, Invalidate, Watch, Forget, Schedule, vars,
                monitorVars
  <2> QED BY <2>1, <2>2, <2>3
<1> QED BY <1>1, <1>2, RunStays DEF Apart

(***************************************************************************)
(* Types of the monitor.                                                   *)

LEMMA SettledTypes ==
  ASSUME MonitorTypes, NEW outcome \in {"published", "incomplete"}, NEW paths \in SUBSET Paths,
         op' = Settled(outcome, paths), op' # Idle
  PROVE  op' \in Attachments /\ op'.rev = op.rev /\ op # Idle
BY DEF MonitorTypes, Settled, Attachments

LEMMA WaitingTypes ==
  ASSUME NEW kind \in {"schedule", "refresh"}, NEW of \in Nat
  PROVE  LET w == Attachment(kind, of) IN w \in Attachments /\ w.rev = of /\ w.pc = "attach"
BY DEF Attachment, Attachments

LEMMA OutdatedTypes ==
  ASSUME MonitorTypes, Outdated # Idle
  PROVE  op # Idle /\ Outdated \in Attachments /\ Outdated.rev = op.rev /\ Outdated.stale
BY DEF MonitorTypes, Outdated, Attachments

LEMMA WorldTypes ==
  ASSUME IInv, MonitorTypes, World
  PROVE  MonitorTypes'
<1> USE DEF storeVars, durableVars, readerVars, worldVars, workVars, attachVars
<1>1. run' # Idle => /\ run' \in Runs /\ run'.left \subseteq Batches[run'.at]
                     /\ run'.pc \in {"watch", "open"} => run'.left = Batches[run'.at]
  BY WorldApart DEF Apart, SameRun, MonitorTypes
<1>2. rev \in Nat /\ disk \in [Paths -> Contents]
  BY DEF MonitorTypes
<1>3. ASSUME NEW p \in Paths, NEW c \in Contents, Edit(p, c) PROVE MonitorTypes'
  <2>1. disk' \in [Paths -> Contents] /\ rev' = rev /\ waiting' = waiting
    BY <1>2, <1>3 DEF Edit
  <2>2. mon' # Idle => mon' \in Monitors /\ mon'.rev <= rev
    BY <1>3 DEF Edit, MonitorTypes, Monitors
  <2>3. op' # Idle => op' \in Attachments /\ op'.rev <= rev
    <3>1. CASE op = Idle
      BY <1>3, <3>1 DEF Edit
    <3>2. CASE op # Idle
      <4>1. op \in Attachments /\ op.rev <= rev
        BY <3>2 DEF MonitorTypes
      <4>2. PICK h \in [Paths -> SUBSET Contents] : op' = [op EXCEPT !.held = h]
        <5>1. op' = [op EXCEPT !.held = [op.held EXCEPT ![p] = @ \cup {c}]]
          BY <1>3, <3>2 DEF Edit
        <5>2. op.held \in [Paths -> SUBSET Contents]
          BY <4>1 DEF Attachments
        <5> QED BY <5>1, <5>2
      <4> QED BY <4>1, <4>2 DEF Attachments
    <3> QED BY <3>1, <3>2
  <2> QED BY <1>1, <2>1, <2>2, <2>3 DEF MonitorTypes
<1>4. CASE Deliver \/ QuietOver \/ Sweep
  <2>1. UNCHANGED <<disk, rev, op, waiting>>
    BY <1>4 DEF Deliver, QuietOver, Sweep
  <2>2. mon # Idle /\ mon \in Monitors /\ mon.rev <= rev
    BY <1>4 DEF Deliver, QuietOver, Sweep, MonitorTypes
  <2>3. mon' \in Monitors /\ mon'.rev = mon.rev
    BY <1>4, <2>2, FirstBatch DEF Deliver, QuietOver, Sweep, Invalidate, Monitors
  <2> QED BY <1>1, <2>1, <2>2, <2>3 DEF MonitorTypes
<1>5. CASE AttachStep
  <2>1. disk' = disk /\ rev' = rev
    BY <1>5 DEF AttachStep, Refresh, OpBegin, OpRefused, OpAttach, OpCheck
  <2>2. CASE Refresh
    BY <1>1, <1>2, <2>1, <2>2, OutdatedTypes, WaitingTypes DEF Refresh, MonitorTypes
  <2>3. CASE OpBegin
    BY <1>1, <1>2, <2>1, <2>3 DEF OpBegin, MonitorTypes, Attachments
  <2>4. CASE OpRefused \/ OpCheck
    BY <1>1, <1>2, <2>1, <2>4 DEF OpRefused, OpCheck, MonitorTypes
  <2>5. CASE OpAttach
    <3>1. op # Idle /\ op \in Attachments /\ op.rev <= rev /\ op.rev \in Nat
      BY <2>5 DEF OpAttach, MonitorTypes, Attachments
    <3>2. [p \in Paths |-> {disk[p]}] \in [Paths -> SUBSET Contents]
      BY <1>2
    <3>3. op' \in Attachments /\ op'.rev = op.rev
      BY <2>5, <3>1, <3>2 DEF OpAttach, Attachments
    <3>4. mon' \in Monitors /\ mon'.rev = op.rev
      BY <2>5, <3>1, FirstBatch DEF OpAttach, MonitorTypes, Monitors
    <3> QED BY <1>1, <1>2, <2>1, <2>5, <3>1, <3>3, <3>4 DEF OpAttach, MonitorTypes
  <2> QED BY <1>5, <2>2, <2>3, <2>4, <2>5 DEF AttachStep
<1>6. CASE ReaderStep \/ UNCHANGED vars
  BY <1>6 DEF ReaderStep, monitorVars, vars, MonitorTypes
<1>7. ASSUME NEW readers \in SUBSET Readers, Watch(readers) PROVE MonitorTypes'
  <2>1. rev' = rev + 1 /\ UNCHANGED <<disk, mon, op, waiting>>
    BY <1>7 DEF Watch
  <2>2. /\ mon # Idle => mon \in Monitors /\ mon.rev <= rev + 1
        /\ op # Idle => op \in Attachments /\ op.rev <= rev + 1
        /\ waiting # Idle => waiting \in Attachments /\ waiting.rev <= rev + 1
                             /\ waiting.pc = "attach"
    BY <1>2 DEF MonitorTypes, Monitors, Attachments
  <2> QED BY <1>1, <1>2, <2>1, <2>2 DEF MonitorTypes
<1>8. CASE Forget
  <2>1. UNCHANGED <<disk, rev>> /\ mon' = Idle /\ waiting' = Idle
    BY <1>8 DEF Forget
  <2>2. op' # Idle => op' \in Attachments /\ op'.rev <= rev
    <3>1. CASE op # Idle /\ op.pc = "wait"
      BY <1>8, <3>1 DEF Forget, MonitorTypes, Attachments
    <3>2. CASE ~(op # Idle /\ op.pc = "wait")
      BY <1>8, <3>2, OutdatedTypes DEF Forget, MonitorTypes
    <3> QED BY <3>1, <3>2
  <2> QED BY <1>1, <1>2, <2>1, <2>2 DEF MonitorTypes
<1>9. CASE Schedule
  BY <1>1, <1>2, <1>9, OutdatedTypes, WaitingTypes DEF Schedule, MonitorTypes
<1> QED BY <1>3, <1>4, <1>5, <1>6, <1>7, <1>8, <1>9 DEF World

LEMMA FinishedTypes ==
  ASSUME MonitorTypes, run # Idle, mon # Idle, NEW outcome \in {"published", "incomplete"},
         NEW paths \in SUBSET Paths, Finished(outcome, paths), UNCHANGED <<disk, rev, waiting>>
  PROVE  /\ MonitorTypes'
         /\ mon' \in Monitors /\ mon'.rev = mon.rev /\ mon'.watch = mon.watch
         /\ mon'.event = mon.event /\ mon'.seen = paths /\ mon'.failed = (outcome = "incomplete")
         /\ mon'.queue # mon.queue => mon'.queue = "queued"
<1>1. run \in Runs /\ run.at \in 1 .. Len(Batches) /\ Len(Batches) \in Nat
      /\ mon \in Monitors /\ mon.rev <= rev
  BY FirstBatch DEF MonitorTypes, Runs
<1>2. PICK at \in 1 .. Len(Batches), queue \in {mon.queue, "queued"} :
        mon' = [mon EXCEPT !.failed = (outcome = "incomplete"), !.seen = paths, !.at = at, !.queue = queue]
  <2>1. CASE run.at < Len(Batches)
    <3>1. run.at + 1 \in 1 .. Len(Batches)
      BY <1>1, <2>1
    <3>2. CASE mon.queue = "clean"
      BY <1>1, <2>1, <3>1, <3>2 DEF Finished, Monitors
    <3>3. CASE mon.queue # "clean"
      BY <1>1, <2>1, <3>1, <3>3 DEF Finished, Monitors
    <3> QED BY <3>2, <3>3
  <2>2. CASE ~(run.at < Len(Batches))
    BY <1>1, <2>2, FirstBatch DEF Finished, Monitors
  <2> QED BY <2>1, <2>2
<1>3. mon' \in Monitors /\ mon'.rev = mon.rev /\ mon'.watch = mon.watch
      /\ mon'.event = mon.event /\ mon'.seen = paths /\ mon'.failed = (outcome = "incomplete")
      /\ (mon'.queue # mon.queue => mon'.queue = "queued")
  BY <1>1, <1>2 DEF Monitors
<1>4. run' = Idle /\ op' = Settled(outcome, paths)
  BY DEF Finished
<1>5. op' # Idle => op' \in Attachments /\ op'.rev <= rev
  BY <1>4, SettledTypes DEF MonitorTypes
<1>6. MonitorTypes'
  BY <1>1, <1>3, <1>4, <1>5 DEF MonitorTypes
<1> QED BY <1>3, <1>6

LEMMA RunTypes ==
  ASSUME IInv, MonitorTypes, RunCurrent, RunStep
  PROVE  MonitorTypes'
<1> USE DEF storeVars, durableVars, readerVars, worldVars, workVars, attachVars
<1>1. /\ rev \in Nat /\ disk \in [Paths -> Contents]
      /\ run # Idle => /\ run \in Runs /\ run.at \in 1 .. Len(Batches) /\ run.left \subseteq Batches[run.at]
                       /\ Batches[run.at] \in SUBSET Paths
      /\ mon # Idle => mon \in Monitors /\ mon.at \in 1 .. Len(Batches) /\ mon.rev \in Nat
                       /\ Batches[mon.at] \in SUBSET Paths
  BY BatchPaths DEF MonitorTypes, Runs, Monitors
<1>2. UNCHANGED <<disk, rev, waiting>>
  BY DEF RunStep, RunBegin, RunSuperseded, CloseWatchers, OpenWatchers, Capture, Publish,
         CaptureRefused, Captured, PublishRefused, Published, PublishFails
<1>3. CASE RunBegin
  <2>1. [p \in Paths |-> Base] \in [Paths -> Contents]
    BY ObservationConstants
  <2>2. run' \in Runs /\ run'.left = Batches[run'.at]
    BY <1>1, <1>3, <2>1 DEF RunBegin, Runs
  <2>3. mon' \in Monitors /\ mon'.rev = mon.rev
    BY <1>1, <1>3 DEF RunBegin, Monitors
  <2> QED BY <1>2, <1>3, <2>2, <2>3 DEF RunBegin, MonitorTypes
<1>4. CASE RunSuperseded
  BY <1>2, <1>4 DEF RunSuperseded, MonitorTypes
<1>5. CASE CloseWatchers
  <2>1. run # Idle /\ run.fate = "current" /\ mon # Idle
    BY <1>5 DEF CloseWatchers, Running, At, RunCurrent
  <2>2. run' \in Runs /\ run'.left = run.left /\ run'.at = run.at /\ run.pc = "watch"
    BY <1>1, <1>5, <2>1 DEF CloseWatchers, Running, At, Runs
  <2>3. mon' \in Monitors /\ mon'.rev = mon.rev
    BY <1>1, <1>5, <2>1 DEF CloseWatchers, Monitors
  <2> QED BY <1>2, <1>5, <2>1, <2>2, <2>3 DEF CloseWatchers, MonitorTypes
<1>6. CASE OpenWatchers
  <2>1. run # Idle
    BY <1>6 DEF OpenWatchers, At
  <2>2. run' # Idle => run' \in Runs /\ run'.left = run.left /\ run'.at = run.at /\ run'.pc = "capture"
    BY <1>1, <1>6, <2>1 DEF OpenWatchers, Runs
  <2>3. mon' # Idle => mon' \in Monitors /\ mon'.rev = mon.rev /\ mon # Idle
    <3>1. CASE run.fate = "gone"
      BY <1>1, <1>6, <3>1 DEF OpenWatchers
    <3>2. CASE run.fate # "gone"
      BY <1>1, <1>6, <2>1, <3>2 DEF OpenWatchers, Monitors, RunCurrent
    <3> QED BY <3>1, <3>2
  <2>4. op' = op
    BY <1>6 DEF OpenWatchers
  <2> QED BY <1>1, <1>2, <2>1, <2>2, <2>3, <2>4 DEF MonitorTypes
<1>7. ASSUME NEW p \in Paths, Capture(p) PROVE MonitorTypes'
  <2>1. run # Idle /\ run.pc = "capture" /\ disk[p] \in Contents
    BY <1>1, <1>7 DEF Capture, Running, At
  <2>2. run' = [run EXCEPT !.got = [run.got EXCEPT ![p] = disk[p]], !.left = run.left \ {p}]
    BY <1>7 DEF Capture
  <2>3. run' \in Runs /\ run'.left = run.left \ {p} /\ run'.at = run.at /\ run'.pc = "capture"
    <3>1. run.got \in [Paths -> Contents]
      BY <1>1, <2>1 DEF Runs
    <3>2. [run.got EXCEPT ![p] = disk[p]] \in [Paths -> Contents]
      BY <2>1, <3>1
    <3> QED BY <1>1, <2>1, <2>2, <3>2 DEF Runs
  <2>4. UNCHANGED <<mon, op>>
    BY <1>7 DEF Capture
  <2> QED BY <1>1, <1>2, <2>1, <2>3, <2>4 DEF MonitorTypes
<1>8. ASSUME NEW p \in Paths, Publish(p) PROVE MonitorTypes'
  <2>1. run # Idle /\ UNCHANGED <<mon, op>>
    BY <1>8 DEF Publish, Running, At
  <2>2. run' \in Runs /\ run'.left = run.left \ {p} /\ run'.at = run.at /\ run'.pc = "store"
    BY <1>1, <1>8, <2>1 DEF Publish, Runs
  <2> QED BY <1>1, <1>2, <2>1, <2>2 DEF MonitorTypes
<1>9. CASE Captured
  <2>1. run # Idle /\ UNCHANGED <<mon, op>>
    BY <1>9 DEF Captured, Running, At
  <2>2. run' \in Runs /\ run'.left = Batches[run.at] /\ run'.at = run.at /\ run'.pc = "publish"
    BY <1>1, <1>9, <2>1 DEF Captured, Runs
  <2> QED BY <1>1, <1>2, <2>1, <2>2 DEF MonitorTypes
<1>10. CASE CaptureRefused \/ PublishRefused
  <2>1. run # Idle /\ mon # Idle
    BY <1>10 DEF CaptureRefused, PublishRefused, Running, At, RunCurrent
  <2>2. PICK outcome \in {"published", "incomplete"}, paths \in SUBSET Paths :
          Finished(outcome, paths)
    BY <1>1, <1>10, <2>1 DEF CaptureRefused, PublishRefused, AllPublished
  <2> QED BY <1>2, <2>1, <2>2, FinishedTypes
<1>11. CASE Published
  <2>1. run # Idle
    BY <1>11 DEF Published, PutEnded, At
  <2>2. CASE run.left # {}
    <3>1. run' \in Runs /\ run'.left = run.left /\ run'.at = run.at /\ run'.pc = "publish"
      BY <1>1, <1>11, <2>1, <2>2 DEF Published, Runs
    <3> QED BY <1>1, <1>2, <1>11, <2>1, <2>2, <3>1 DEF Published, MonitorTypes
  <2>3. CASE run.left = {} /\ run.fate = "current"
    <3>1. mon # Idle /\ Finished("published", Batches[run.at])
      BY <1>11, <2>1, <2>3 DEF Published, AllPublished, RunCurrent
    <3> QED BY <1>1, <1>2, <2>1, <3>1, FinishedTypes
  <2>4. CASE run.left = {} /\ run.fate # "current"
    BY <1>2, <1>11, <2>1, <2>4 DEF Published, MonitorTypes
  <2> QED BY <2>2, <2>3, <2>4
<1>12. CASE PublishFails
  <2>1. run # Idle
    BY <1>12 DEF PublishFails, PutEnded, At
  <2>2. CASE run.fate # "current"
    BY <1>2, <1>12, <2>1, <2>2 DEF PublishFails, Incomplete, MonitorTypes
  <2>3. CASE run.fate = "current"
    <3>1. mon' \in Monitors /\ mon'.rev = mon.rev /\ mon # Idle
      BY <1>1, <1>12, <2>1, <2>3 DEF PublishFails, Incomplete, RunCurrent, Monitors
    <3>2. run' = Idle /\ op' = Settled("incomplete", {})
      BY <1>12, <2>3 DEF PublishFails, Incomplete
    <3>3. op' # Idle => op' \in Attachments /\ op'.rev = op.rev /\ op # Idle
      BY <3>2, SettledTypes
    <3> QED BY <1>1, <1>2, <3>1, <3>2, <3>3 DEF MonitorTypes
  <2> QED BY <2>2, <2>3
<1> QED BY <1>3, <1>4, <1>5, <1>6, <1>7, <1>8, <1>9, <1>10, <1>11, <1>12 DEF RunStep

LEMMA TypesKeep ==
  ASSUME IInv, MonitorTypes, RunCurrent, [Next]_vars
  PROVE  MonitorTypes'
<1>1. CASE World
  BY <1>1, WorldTypes
<1>2. CASE RunStep
  BY <1>2, RunTypes
<1>3. CASE StoreStep
  BY <1>3 DEF StoreStep, monitorVars, worldVars, workVars, attachVars, MonitorTypes
<1>4. CASE Crash
  BY <1>4, WaitingTypes DEF Crash, worldVars, MonitorTypes
<1> QED BY <1>1, <1>2, <1>3, <1>4, Steps

(***************************************************************************)
(* The reports.                                                            *)

LEMMA LatestSame ==
  ASSUME state'.reports = state.reports, NEW p
  PROVE  Latest(p)' = Latest(p)
BY DEF Latest

\* A publication's report is the newest of its path; the others keep theirs or lose it.
LEMMA LatestKept ==
  ASSUME IInv, ReportsOrdered, NEW kept \in Retainable,
         state'.reports = kept \cup {Report}, NEW q
  PROVE  /\ q = put.path => \A r \in Latest(q)' : r = Report
         /\ q # put.path => Latest(q)' \subseteq Latest(q)
<1>1. state.revision \in Nat /\ Report.id = state.revision + 1 /\ Report.path = put.path
  BY DEF Report, IInv, Shapes, Stated
<1>2. PICK oldest \in Nat : kept = {r \in state.reports : r.id >= oldest} \/ kept = {}
  <2>1. Ids(state.reports) \subseteq Nat
    BY DEF ReportsOrdered, Ids
  <2>2. kept = {} \/ \E oldest \in Ids(state.reports) : kept = {r \in state.reports : r.id >= oldest}
    BY DEF Retainable
  <2>3. kept = {} => kept = {r \in state.reports : r.id >= 0} \/ kept = {}
    OBVIOUS
  <2> QED BY <2>1, <2>2, <2>3
<1>3. kept \subseteq state.reports
  BY <1>2
<1>4. ASSUME q = put.path, NEW r \in Latest(q)' PROVE r = Report
  <2>1. r \in kept \cup {Report} /\ Report.id <= r.id
    BY <1>1, <1>4 DEF Latest
  <2>2. r \in kept => r.id <= state.revision /\ r.id \in Nat
    BY <1>3 DEF ReportsOrdered
  <2> QED BY <1>1, <2>1, <2>2
<1>5. ASSUME q # put.path, NEW r \in Latest(q)' PROVE r \in Latest(q)
  <2>1. r \in kept /\ r.path = q /\ \A s \in kept : s.path = q => s.id <= r.id
    BY <1>1, <1>5 DEF Latest
  <2>2. r \in state.reports /\ r.id \in Nat
    BY <1>3, <2>1 DEF ReportsOrdered
  <2>3. ASSUME NEW s \in state.reports, s.path = q PROVE s.id <= r.id
    <3>1. s.id \in Nat
      BY DEF ReportsOrdered
    <3> QED BY <1>2, <2>1, <2>2, <2>3, <3>1
  <2> QED BY <2>1, <2>2, <2>3 DEF Latest
<1> QED BY <1>4, <1>5

\* What a step of a publish in its critical section does to it and the reports.
Reported == \E kept \in Retainable :
  /\ put.pc = "state" /\ state'.revision = state.revision + 1
  /\ state'.reports = kept \cup {Report}

LEMMA StoreMoves ==
  ASSUME IInv, StoreStep
  PROVE  /\ put # Idle /\ UNCHANGED <<run, mon, op, disk, rev>>
         /\ put'.path = put.path /\ put'.content = put.content /\ put'.rev = put.rev
         /\ \/ state' = state /\ (put'.pc \in {"sweep", "done"} => put.pc = "sweep")
            \/ Reported
<1>1. put # Idle /\ UNCHANGED <<run, mon, op, disk, rev>>
  BY DEF StoreStep, monitorVars, worldVars, workVars, attachVars, PutFile, PutFileFails, PutState, PutSweep
<1>2. put = [pc |-> put.pc, path |-> put.path, content |-> put.content, rev |-> put.rev, to |-> put.to]
  BY <1>1 DEF IInv, PutHolds
<1>3. CASE PutFile \/ PutFileFails \/ PutSweep
  <2>1. PICK pc \in {"state", "failed", "done"} :
          put' = [put EXCEPT !.pc = pc] /\ (pc = "done" => put.pc = "sweep")
    BY <1>3 DEF PutFile, PutFileFails, PutSweep
  <2>2. state' = state
    BY <1>3 DEF PutFile, PutFileFails, PutSweep
  <2> QED BY <1>1, <1>2, <2>1, <2>2
<1>4. CASE PutState
  <2> DEFINE Next1(kept, f) == Pruned(kept \cup {Report},
               state.notices \cup {Notice(f[r], r, state.revision + 1, "none") : r \in ToNotify(put)},
               state.next + Cardinality(ToNotify(put)))
             Written(s) == \/ Replace(s) /\ put' = [put EXCEPT !.pc = "sweep"]
                           \/ ReplaceUnknown(s) /\ put' = [put EXCEPT !.pc = "failed"]
  <2>1. PICK kept \in Retainable, f \in Numberings(put) : Written(Next1(kept, f))
    BY <1>4 DEF PutState
  <2> DEFINE s == Next1(kept, f)
  <2>2. s.revision = state.revision + 1 /\ s.reports = kept \cup {Report}
    BY DEF Pruned
  <2>3. Written(s)
    BY <2>1
  <2> HIDE DEF s
  <2>4. CASE state' = s
    <3>1. Reported
      BY <1>4, <2>2, <2>4 DEF Reported, PutState
    <3>2. put'.path = put.path /\ put'.content = put.content /\ put'.rev = put.rev
      BY <1>2, <2>3
    <3> QED BY <1>1, <3>1, <3>2
  <2>5. CASE state' # s
    <3>1. state' = state /\ put' = [put EXCEPT !.pc = "failed"]
      BY <2>3, <2>5 DEF Replace, ReplaceUnknown
    <3> QED BY <1>1, <1>2, <3>1
  <2> QED BY <2>4, <2>5
<1> QED BY <1>3, <1>4 DEF StoreStep

LEMMA RunReports ==
  ASSUME RunStep \/ Crash
  PROVE  state' = state
BY DEF RunStep, RunBegin, RunSuperseded, CloseWatchers, OpenWatchers, Capture, Publish, PutBegin,
       CaptureRefused, Captured, PublishRefused, Published, PublishFails, Crash, StoreCrash,
       storeVars, durableVars

LEMMA OrderedKeep ==
  ASSUME IInv, MonitorTypes, ReportsOrdered, [Next]_vars
  PROVE  ReportsOrdered'
<1>1. state.revision \in Nat
  BY DEF IInv, Shapes, Stated
<1>2. CASE state'.reports = state.reports /\ state'.revision \in {state.revision, state.revision + 1}
  BY <1>1, <1>2 DEF ReportsOrdered
<1>3. CASE Reported
  <2>1. PICK kept \in Retainable : /\ state'.revision = state.revision + 1
                                   /\ state'.reports = kept \cup {Report}
    BY <1>3 DEF Reported
  <2>2. kept \subseteq state.reports
    BY DEF Retainable
  <2>3. Report.id = state.revision + 1
    BY DEF Report
  <2>4. \A r \in kept : r.id \in Nat /\ r.id <= state.revision /\ \A q \in kept : q.id = r.id => q = r
    BY <2>2 DEF ReportsOrdered
  <2> HIDE DEF ReportsOrdered
  <2>5. \A r \in kept \cup {Report} :
          /\ r.id \in Nat /\ r.id <= state.revision + 1
          /\ \A q \in kept \cup {Report} : q.id = r.id => q = r
    BY <1>1, <2>3, <2>4
  <2> QED BY <2>1, <2>5 DEF ReportsOrdered
<1>4. World => state'.reports = state.reports /\ state'.revision \in {state.revision, state.revision + 1}
  BY WorldApart DEF Apart
<1> QED BY <1>2, <1>3, <1>4, Steps, StoreMoves, RunReports

(***************************************************************************)
(* The publish and the run.                                                *)

\* Outside its publish a run finds none in the critical section.
LEMMA NoPut ==
  ASSUME PutOfRun, run = Idle \/ run.pc # "store"
  PROVE  put = Idle
BY DEF PutOfRun

LEMMA PublishPut ==
  ASSUME NEW p \in Paths, Publish(p)
  PROVE  /\ run # Idle /\ run.pc = "publish" /\ run.fate = "current" /\ p \in run.left /\ rev = run.rev
         /\ run' = [run EXCEPT !.pc = "store", !.left = run.left \ {p}]
         /\ put'.path = p /\ put'.content = run.got[p] /\ put'.rev = run.rev
         /\ put'.pc = "done" => \E r \in Latest(p) : r.content = run.got[p] /\ r.rev = run.rev
         /\ put'.pc # "sweep"
         /\ UNCHANGED <<state, mon, op, disk, rev>>
<1> DEFINE w == [pc |-> "file", path |-> p, content |-> run.got[p], rev |-> rev,
                 to |-> IF run.got[p] # Base THEN watching ELSE {}]
<1>1. PutBegin(w)
  BY DEF Publish
<1>2. w.path = p /\ w.content = run.got[p] /\ w.rev = rev
  OBVIOUS
<1>3. \A pc : LET v == [w EXCEPT !.pc = pc] IN
                v.pc = pc /\ v.path = p /\ v.content = run.got[p] /\ v.rev = rev
  OBVIOUS
<1>4. /\ run # Idle /\ run.pc = "publish" /\ run.fate = "current" /\ p \in run.left /\ rev = run.rev
      /\ run' = [run EXCEPT !.pc = "store", !.left = run.left \ {p}]
      /\ UNCHANGED <<mon, op, disk, rev>>
  BY DEF Publish, Running, At, worldVars, workVars, attachVars
<1> HIDE DEF w
<1>5. CASE uncertain
  BY <1>1, <1>3, <1>4, <1>5 DEF PutBegin
<1>6. CASE ~uncertain /\ Repeated(w)
  <2>1. \E r \in Latest(p) : r.content = run.got[p] /\ r.rev = run.rev
    BY <1>2, <1>4, <1>6 DEF Repeated
  <2>2. put' = [w EXCEPT !.pc = "done"] /\ state' = state
    BY <1>1, <1>6 DEF PutBegin
  <2>3. put'.pc = "done" /\ put'.path = p /\ put'.content = run.got[p] /\ put'.rev = rev
    BY <1>3, <2>2
  <2> QED BY <1>4, <2>1, <2>2, <2>3
<1>7. CASE ~uncertain /\ ~Repeated(w)
  BY <1>1, <1>3, <1>4, <1>7 DEF PutBegin
<1> QED BY <1>5, <1>6, <1>7

\* The steps of a run other than the end of a publish leave the publish alone.
LEMMA RunPut ==
  ASSUME PutOfRun, RunStep, ~\E p \in Paths : Publish(p)
  PROVE  put' = Idle
<1> USE DEF storeVars, durableVars
<1>1. CASE Published \/ PublishFails
  BY <1>1 DEF Published, PublishFails, PutEnded
<1>2. CASE ~(Published \/ PublishFails)
  <2>1. put' = put
    BY <1>2 DEF RunStep, RunBegin, RunSuperseded, CloseWatchers, OpenWatchers, Capture,
                CaptureRefused, Captured, PublishRefused
  <2>2. run = Idle \/ run.pc # "store"
    BY <1>2 DEF RunStep, RunBegin, RunSuperseded, CloseWatchers, OpenWatchers, Capture,
                CaptureRefused, Captured, PublishRefused, Running, At
  <2> QED BY <2>1, <2>2, NoPut
<1> QED BY <1>1, <1>2

LEMMA PutKeeps ==
  ASSUME IInv, MonitorTypes, PutOfRun, [Next]_vars
  PROVE  PutOfRun'
<1>1. CASE World
  BY <1>1, WorldApart DEF Apart, SameRun, PutOfRun
<1>2. CASE RunStep
  <2>1. CASE \E p \in Paths : Publish(p)
    <3>1. PICK p \in Paths : Publish(p)
      BY <2>1
    <3>2. run \in Runs /\ run.left \subseteq Batches[run.at] /\ run # Idle
      BY <3>1, PublishPut DEF MonitorTypes
    <3>3. /\ run' \in Runs /\ run'.pc = "store" /\ run'.at = run.at /\ run'.got = run.got
          /\ run'.rev = run.rev
      <4>1. run' = [run EXCEPT !.pc = "store", !.left = run.left \ {p}]
        BY <3>1, PublishPut
      <4> QED BY <3>2, <4>1 DEF Runs
    <3>4. run' # Idle
      BY <3>3, MonitorIdle
    <3> QED BY <3>1, <3>2, <3>3, <3>4, PublishPut DEF PutOfRun
  <2> QED BY <1>2, <2>1, RunPut DEF PutOfRun
<1>3. CASE StoreStep
  BY <1>3, StoreMoves DEF PutOfRun
<1>4. CASE Crash
  BY <1>4 DEF Crash, StoreCrash, PutOfRun
<1> QED BY <1>1, <1>2, <1>3, <1>4, Steps

LEMMA CurrentKeeps ==
  ASSUME IInv, MonitorTypes, RunCurrent, [Next]_vars
  PROVE  RunCurrent'
<1> USE DEF storeVars, durableVars, readerVars, worldVars, workVars, attachVars
<1>1. CASE World
  <2>1. SameRun /\ (run # Idle => run \in Runs) /\ (mon # Idle => mon \in Monitors)
    BY <1>1, WorldApart DEF Apart, MonitorTypes
  <2>2. ASSUME NEW p \in Paths, NEW c \in Contents, Edit(p, c) PROVE RunCurrent'
    <3>1. run' = run
      BY <2>2 DEF Edit
    <3>2. mon' = mon \/ (mon # Idle /\ mon' = [mon EXCEPT !.event = TRUE])
      BY <2>2 DEF Edit
    <3>3. mon # Idle => mon' \in Monitors /\ mon' # Idle /\ mon'.queue = mon.queue /\ mon'.rev = mon.rev
      BY <2>1, <3>2, MonitorIdle DEF Monitors
    <3>4. mon = Idle => mon' = Idle
      BY <3>2
    <3> QED BY <3>1, <3>3, <3>4 DEF RunCurrent
  <2>3. CASE Deliver \/ Sweep
    <3>1. run' = Stale /\ mon # Idle
      BY <2>3 DEF Deliver, Sweep, Invalidate
    <3>2. mon' \in Monitors /\ mon'.queue # "clean"
      BY <2>1, <2>3, <3>1, FirstBatch DEF Deliver, Sweep, Invalidate, Monitors
    <3>3. mon' # Idle
      BY <3>2, MonitorIdle
    <3>4. run # Idle => run'.fate # "current"
      BY <2>1, <3>1 DEF Stale, Runs
    <3> QED BY <2>1, <3>2, <3>3, <3>4 DEF RunCurrent, SameRun
  <2>4. CASE QuietOver
    <3>1. run' = run /\ mon # Idle /\ mon.queue = "timer"
      BY <2>4 DEF QuietOver
    <3>2. mon' \in Monitors /\ mon'.queue = "queued"
      BY <2>1, <2>4, <3>1 DEF QuietOver, Monitors
    <3>3. mon' # Idle
      BY <3>2, MonitorIdle
    <3> QED BY <3>1, <3>2, <3>3 DEF RunCurrent
  <2>5. CASE AttachStep
    <3>1. CASE OpAttach
      <4>1. run' = Stale
        BY <3>1 DEF OpAttach
      <4>2. op.rev \in Nat
        BY <3>1 DEF OpAttach, MonitorTypes, Attachments
      <4>3. mon' \in Monitors /\ mon'.queue = "queued"
        BY <2>1, <3>1, <4>2, FirstBatch DEF OpAttach, Monitors
      <4>4. mon' # Idle
        BY <4>3, MonitorIdle
      <4>5. run # Idle => run'.fate # "current"
        BY <2>1, <4>1 DEF Stale, Runs
      <4> QED BY <2>1, <4>3, <4>4, <4>5 DEF RunCurrent, SameRun
    <3>2. CASE OpCheck /\ UNCHANGED <<mon, run>>
      BY <3>2 DEF RunCurrent
    <3>3. CASE OpCheck /\ ~UNCHANGED <<mon, run>>
      <4>1. mon' = Idle /\ run' = Detached
        BY <3>3 DEF OpCheck
      <4>2. run # Idle => run'.fate = "gone"
        <5>1. CASE mon # Idle
          BY <2>1, <4>1, <5>1 DEF Detached, Runs
        <5>2. CASE mon = Idle
          BY <2>1, <4>1, <5>2 DEF Detached, Runs, RunCurrent
        <5> QED BY <5>1, <5>2
      <4> QED BY <2>1, <4>1, <4>2 DEF RunCurrent, SameRun
    <3>4. CASE Refresh \/ OpBegin \/ OpRefused
      BY <3>4 DEF Refresh, OpBegin, OpRefused, RunCurrent
    <3> QED BY <2>5, <3>1, <3>2, <3>3, <3>4 DEF AttachStep
  <2>6. CASE Forget
    <3>1. mon' = Idle /\ run' = Detached
      BY <2>6 DEF Forget
    <3>2. run # Idle => run'.fate = "gone"
      <4>1. CASE mon # Idle
        BY <2>1, <3>1, <4>1 DEF Detached, Runs
      <4>2. CASE mon = Idle
        BY <2>1, <3>1, <4>2 DEF Detached, Runs, RunCurrent
      <4> QED BY <4>1, <4>2
    <3> QED BY <2>1, <3>1, <3>2 DEF RunCurrent, SameRun
  <2>7. CASE \/ ReaderStep \/ Schedule \/ UNCHANGED vars
             \/ \E readers \in SUBSET Readers : Watch(readers)
    <3>1. run' = run /\ mon' = mon
      BY <2>7 DEF ReaderStep, Schedule, vars, monitorVars, Watch
    <3> QED BY <3>1 DEF RunCurrent
  <2> QED BY <1>1, <2>2, <2>3, <2>4, <2>5, <2>6, <2>7 DEF World
<1>2. CASE RunStep
  <2>1. (run # Idle => run \in Runs) /\ (mon # Idle => mon \in Monitors)
    BY DEF MonitorTypes
  <2>2. CASE RunBegin
    <3>1. run' = [pc |-> "watch", fate |-> "current", rev |-> mon.rev, at |-> mon.at,
                  got |-> [p \in Paths |-> Base], left |-> Batches[mon.at]]
      BY <2>2 DEF RunBegin
    <3>2. run'.fate = "current" /\ run'.rev = mon.rev
      BY <3>1
    <3>3. mon # Idle /\ mon' = [mon EXCEPT !.queue = "clean"]
      BY <2>2 DEF RunBegin
    <3>4. mon' \in Monitors /\ mon'.queue = "clean" /\ mon'.rev = mon.rev
      BY <2>1, <3>3 DEF Monitors
    <3>5. mon' # Idle
      BY <3>4, MonitorIdle
    <3> QED BY <3>2, <3>4, <3>5 DEF RunCurrent
  <2>3. CASE CloseWatchers
    <3>1. run # Idle /\ mon # Idle /\ run.fate = "current"
      BY <2>3 DEF CloseWatchers, Running, At, RunCurrent
    <3>2. run'.fate = run.fate /\ run'.rev = run.rev
      BY <2>1, <2>3, <3>1 DEF CloseWatchers, Runs
    <3>3. mon' \in Monitors /\ mon'.queue = mon.queue /\ mon'.rev = mon.rev
      BY <2>1, <2>3, <3>1 DEF CloseWatchers, Monitors
    <3>4. mon' # Idle
      BY <3>3, MonitorIdle
    <3> QED BY <3>1, <3>2, <3>3, <3>4 DEF RunCurrent
  <2>4. CASE OpenWatchers
    <3>1. run # Idle
      BY <2>4 DEF OpenWatchers, At
    <3>2. CASE run.fate = "current"
      <4>1. run'.fate = run.fate /\ run'.rev = run.rev
        BY <2>1, <2>4, <3>1, <3>2 DEF OpenWatchers, Runs
      <4>2. mon # Idle /\ \E opened \in BOOLEAN : mon' = [mon EXCEPT !.watch = opened]
        BY <2>4, <3>1, <3>2 DEF OpenWatchers, RunCurrent
      <4>3. mon' \in Monitors /\ mon'.queue = mon.queue /\ mon'.rev = mon.rev
        BY <2>1, <4>2 DEF Monitors
      <4>4. mon' # Idle
        BY <4>3, MonitorIdle
      <4> QED BY <3>1, <3>2, <4>1, <4>3, <4>4 DEF RunCurrent
    <3>3. CASE run.fate # "current"
      <4>1. run' = Idle
        BY <2>4, <3>3 DEF OpenWatchers
      <4> QED BY <4>1 DEF RunCurrent
    <3> QED BY <3>2, <3>3
  <2>5. CASE \E p \in Paths : Capture(p) \/ Publish(p)
    <3>1. run # Idle /\ mon' = mon
      BY <2>5 DEF Capture, Publish, Running, At
    <3>2. run'.fate = run.fate /\ run'.rev = run.rev
      BY <2>1, <2>5, <3>1 DEF Capture, Publish, Runs
    <3> QED BY <3>1, <3>2 DEF RunCurrent
  <2>6. CASE Captured
    <3>1. run # Idle /\ mon' = mon
      BY <2>6 DEF Captured, Running, At
    <3>2. run'.fate = run.fate /\ run'.rev = run.rev
      BY <2>1, <2>6, <3>1 DEF Captured, Runs
    <3> QED BY <3>1, <3>2 DEF RunCurrent
  <2>7. CASE Published /\ run' # Idle
    <3>1. run # Idle /\ mon' = mon /\ run' = [run EXCEPT !.pc = "publish"]
      BY <2>7 DEF Published, PutEnded, At, AllPublished, Finished
    <3>2. run'.fate = run.fate /\ run'.rev = run.rev
      BY <2>1, <3>1 DEF Runs
    <3> QED BY <3>1, <3>2 DEF RunCurrent
  <2>8. CASE run' = Idle
    BY <2>8 DEF RunCurrent
  <2>9. RunSuperseded \/ CaptureRefused \/ PublishRefused \/ PublishFails => run' = Idle
    BY DEF RunSuperseded, CaptureRefused, PublishRefused, PublishFails, AllPublished, Finished, Incomplete
  <2> QED BY <1>2, <2>2, <2>3, <2>4, <2>5, <2>6, <2>7, <2>8, <2>9 DEF RunStep
<1>3. CASE StoreStep
  BY <1>3, StoreMoves DEF RunCurrent
<1>4. CASE Crash
  BY <1>4 DEF Crash, RunCurrent
<1> QED BY <1>1, <1>2, <1>3, <1>4, Steps

(***************************************************************************)
(* The course of a run that does not end.                                  *)

Begins == /\ run = Idle /\ run' # Idle /\ mon # Idle
          /\ run'.pc = "watch" /\ run'.rev = mon.rev /\ mon'.rev = mon.rev
Closes == /\ mon # Idle /\ run.pc = "watch" /\ run'.pc = "open" /\ run'.got = run.got
          /\ mon'.rev = mon.rev /\ mon'.watch = FALSE
Opens == /\ mon # Idle /\ run.pc = "open" /\ run'.pc = "capture" /\ run'.got = run.got
         /\ run'.left = Batches[run.at] /\ mon'.rev = mon.rev
Takes(p) == /\ run.pc = "capture" /\ run'.pc = "capture" /\ p \in run.left
            /\ run'.got = [run.got EXCEPT ![p] = disk[p]] /\ run'.left = run.left \ {p}
            /\ mon' = mon
Turns == /\ run.pc = "capture" /\ run.left = {} /\ run'.pc = "publish" /\ run'.got = run.got
         /\ run'.left = Batches[run.at] /\ mon' = mon
Puts(p) == /\ Publish(p) /\ run'.pc = "store" /\ run'.got = run.got /\ run'.left = run.left \ {p}
           /\ mon' = mon
Goes == /\ run.pc = "store" /\ put # Idle /\ put.pc = "done" /\ run'.pc = "publish"
        /\ run'.got = run.got /\ run'.left = run.left /\ mon' = mon

Course ==
  /\ UNCHANGED <<disk, rev, op>>
  /\ \/ Begins
     \/ /\ run # Idle /\ run' # Idle
        /\ run'.rev = run.rev /\ run'.at = run.at /\ run'.fate = run.fate
        /\ \/ Closes \/ Opens \/ Turns \/ Goes
           \/ \E p \in Paths : Takes(p) \/ Puts(p)

LEMMA RunCourse ==
  ASSUME MonitorTypes, RunCurrent, RunStep, run' # Idle
  PROVE  Course
<1> USE DEF storeVars, durableVars, readerVars, worldVars, workVars, attachVars
<1>1. /\ run # Idle => /\ run \in Runs
                       /\ run.pc \in {"watch", "open"} => run.left = Batches[run.at]
      /\ mon # Idle => mon \in Monitors
  BY DEF MonitorTypes
<1>2. CASE RunBegin
  <2>1. run' = [pc |-> "watch", fate |-> "current", rev |-> mon.rev, at |-> mon.at,
                got |-> [p \in Paths |-> Base], left |-> Batches[mon.at]]
    BY <1>2 DEF RunBegin
  <2>2. run'.pc = "watch" /\ run'.rev = mon.rev
    BY <2>1
  <2>3. mon'.rev = mon.rev
    BY <1>1, <1>2 DEF RunBegin, Monitors
  <2>4. Begins
    BY <1>2, <2>2, <2>3 DEF RunBegin, Begins
  <2> QED BY <1>2, <2>4 DEF Course, RunBegin
<1>3. CASE CloseWatchers
  <2>1. run # Idle /\ mon # Idle /\ run.pc = "watch"
    BY <1>3 DEF CloseWatchers, Running, At, RunCurrent
  <2>2. run'.rev = run.rev /\ run'.at = run.at /\ run'.fate = run.fate /\ run'.got = run.got /\ run'.pc = "open"
    BY <1>1, <1>3, <2>1 DEF CloseWatchers, Runs
  <2>3. mon'.rev = mon.rev /\ mon'.watch = FALSE
    BY <1>1, <1>3, <2>1 DEF CloseWatchers, Monitors
  <2>4. UNCHANGED <<disk, rev, op>>
    BY <1>3 DEF CloseWatchers
  <2> QED BY <2>1, <2>2, <2>3, <2>4 DEF Course, Closes
<1>4. CASE OpenWatchers
  <2>1. run # Idle /\ run.pc = "open" /\ run.fate = "current" /\ mon # Idle
    BY <1>4 DEF OpenWatchers, At, RunCurrent
  <2>2. /\ run' = [run EXCEPT !.pc = "capture"]
        /\ \E opened \in BOOLEAN : mon' = [mon EXCEPT !.watch = opened]
    BY <1>4, <2>1 DEF OpenWatchers
  <2>3. /\ run'.rev = run.rev /\ run'.at = run.at /\ run'.fate = run.fate /\ run'.got = run.got
        /\ run'.pc = "capture" /\ run'.left = run.left
    BY <1>1, <2>1, <2>2 DEF Runs
  <2>4. mon'.rev = mon.rev
    BY <1>1, <2>1, <2>2 DEF Monitors
  <2>5. UNCHANGED <<disk, rev, op>>
    BY <1>4 DEF OpenWatchers
  <2> QED BY <1>1, <2>1, <2>3, <2>4, <2>5 DEF Course, Opens
<1>5. ASSUME NEW p \in Paths, Capture(p) PROVE Course
  <2>1. run # Idle /\ run.pc = "capture" /\ p \in run.left /\ run \in Runs
    BY <1>1, <1>5 DEF Capture, Running, At
  <2>2. run' = [run EXCEPT !.got = [run.got EXCEPT ![p] = disk[p]], !.left = run.left \ {p}]
    BY <1>5 DEF Capture
  <2>3. /\ run'.rev = run.rev /\ run'.at = run.at /\ run'.fate = run.fate /\ run'.pc = run.pc
        /\ run'.got = [run.got EXCEPT ![p] = disk[p]] /\ run'.left = run.left \ {p}
    BY <2>1, <2>2 DEF Runs
  <2>4. UNCHANGED <<disk, rev, op, mon>>
    BY <1>5 DEF Capture
  <2>5. Takes(p)
    BY <2>1, <2>3, <2>4 DEF Takes
  <2> QED BY <2>1, <2>3, <2>4, <2>5 DEF Course
<1>6. ASSUME NEW p \in Paths, Publish(p) PROVE Course
  <2>1. run # Idle /\ run \in Runs /\ UNCHANGED <<disk, rev, op, mon>>
    BY <1>1, <1>6, PublishPut
  <2>2. run' = [run EXCEPT !.pc = "store", !.left = run.left \ {p}]
    BY <1>6, PublishPut
  <2>3. /\ run'.rev = run.rev /\ run'.at = run.at /\ run'.fate = run.fate /\ run'.pc = "store"
        /\ run'.got = run.got /\ run'.left = run.left \ {p}
    BY <2>1, <2>2 DEF Runs
  <2>4. Puts(p)
    BY <1>6, <2>1, <2>3 DEF Puts
  <2> QED BY <2>1, <2>3, <2>4 DEF Course
<1>7. CASE Captured
  <2>1. run # Idle /\ run.pc = "capture" /\ run.left = {} /\ run \in Runs
        /\ UNCHANGED <<disk, rev, op, mon>>
    BY <1>1, <1>7 DEF Captured, Running, At
  <2>2. /\ run'.rev = run.rev /\ run'.at = run.at /\ run'.fate = run.fate /\ run'.pc = "publish"
        /\ run'.got = run.got /\ run'.left = Batches[run.at]
    BY <1>7, <2>1 DEF Captured, Runs
  <2> QED BY <2>1, <2>2 DEF Course, Turns
<1>8. CASE Published
  <2>1. /\ run # Idle /\ run.pc = "store" /\ run \in Runs /\ put # Idle /\ put.pc = "done"
        /\ run' = [run EXCEPT !.pc = "publish"] /\ UNCHANGED <<disk, rev, op, mon>>
    BY <1>1, <1>8 DEF Published, PutEnded, At, AllPublished, Finished
  <2>2. /\ run'.rev = run.rev /\ run'.at = run.at /\ run'.fate = run.fate /\ run'.pc = "publish"
        /\ run'.got = run.got /\ run'.left = run.left
    BY <2>1 DEF Runs
  <2> QED BY <2>1, <2>2 DEF Course, Goes
<1>9. RunSuperseded \/ CaptureRefused \/ PublishRefused \/ PublishFails => run' = Idle
  BY DEF RunSuperseded, CaptureRefused, PublishRefused, PublishFails, AllPublished, Finished, Incomplete
<1> QED BY <1>2, <1>3, <1>4, <1>5, <1>6, <1>7, <1>8, <1>9 DEF RunStep

(***************************************************************************)
(* What a run has stored, and what it has taken.                           *)

LEMMA StoredKeeps ==
  ASSUME IInv, MonitorTypes, ReportsOrdered, PutOfRun, RunCurrent, StoredTruth, [Next]_vars
  PROVE  StoredTruth'
<1>1. CASE World
  <2>1. SameRun /\ put' = put /\ \A p : Latest(p)' = Latest(p)
    BY <1>1, WorldApart, LatestSame DEF Apart
  <2>2. run # Idle => Stored' = Stored
    BY <2>1 DEF Stored, SameRun
  <2> QED BY <2>1, <2>2 DEF StoredTruth, SameRun
<1>2. CASE RunStep /\ run' # Idle
  <2>1. \A p : Latest(p)' = Latest(p)
    BY <1>2, RunReports, LatestSame
  <2>2. Course
    BY <1>2, RunCourse
  <2>3. CASE Begins \/ Closes \/ Opens \/ (\E p \in Paths : Takes(p)) \/ Turns
    <3>1. Stored' = {}
      BY <2>2, <2>3 DEF Begins, Closes, Opens, Takes, Turns, Course, Stored
    <3> QED BY <3>1 DEF StoredTruth
  <2>4. CASE /\ Goes /\ run # Idle
             /\ run'.rev = run.rev /\ run'.at = run.at /\ run'.fate = run.fate
    <3>1. Stored' = Stored
      BY <2>4 DEF Goes, Stored
    <3> QED BY <2>1, <2>4, <3>1 DEF Goes, StoredTruth
  <2>5. ASSUME NEW p \in Paths, Puts(p), run # Idle, run'.rev = run.rev, run'.at = run.at
        PROVE  StoredTruth'
    <3>1. /\ run.pc = "publish" /\ run'.pc = "store" /\ run'.got = run.got
          /\ run'.left = run.left \ {p} /\ put'.path = p /\ put'.pc # "sweep"
      BY <2>5, PublishPut DEF Puts
    <3>2. put'.pc = "done" => \E r \in Latest(p) : r.content = run.got[p] /\ r.rev = run.rev
      BY <2>5, PublishPut DEF Puts
    <3>3. \A q \in Stored' : q \in Stored \/ (q = p /\ put'.pc = "done")
      BY <2>5, <3>1 DEF Stored
    <3>4. \A r, s \in Latest(p) : r = s
      <4>1. ASSUME NEW r \in Latest(p), NEW s \in Latest(p) PROVE r = s
        <5>1. r \in state.reports /\ s \in state.reports /\ r.id <= s.id /\ s.id <= r.id
          BY DEF Latest
        <5>2. r.id \in Nat /\ s.id \in Nat
          BY <5>1 DEF ReportsOrdered
        <5>3. r.id = s.id
          BY <5>1, <5>2
        <5> QED BY <5>1, <5>3 DEF ReportsOrdered
      <4> QED BY <4>1
    <3>5. ASSUME NEW q \in Stored', NEW r \in Latest(q)'
          PROVE  r.content = run.got[q] /\ r.rev = run.rev
      <4>1. CASE q \in Stored
        BY <2>1, <2>5, <4>1 DEF StoredTruth
      <4>2. CASE q = p /\ put'.pc = "done"
        BY <2>1, <3>2, <3>4, <4>2
      <4> QED BY <3>3, <4>1, <4>2
    <3> QED BY <2>5, <3>1, <3>5 DEF StoredTruth
  <2> QED BY <2>2, <2>3, <2>4, <2>5 DEF Course
<1>3. CASE run' = Idle
  BY <1>3 DEF StoredTruth
<1>4. CASE StoreStep
  <2>1. /\ put # Idle /\ run' = run /\ put'.path = put.path
        /\ run # Idle /\ run.pc = "store" /\ put.content = run.got[put.path] /\ put.rev = run.rev
    BY <1>4, StoreMoves DEF PutOfRun
  <2>2. CASE state' = state /\ (put'.pc \in {"sweep", "done"} => put.pc = "sweep")
    <3>1. Stored' \subseteq Stored
      BY <2>1, <2>2 DEF Stored
    <3>2. \A p : Latest(p)' = Latest(p)
      BY <2>2, LatestSame
    <3> QED BY <2>1, <3>1, <3>2 DEF StoredTruth
  <2>3. CASE Reported
    <3>1. PICK kept \in Retainable : put.pc = "state" /\ state'.reports = kept \cup {Report}
      BY <2>3 DEF Reported
    <3>2. \A p : p # put.path => Latest(p)' \subseteq Latest(p)
      BY <3>1, LatestKept
    <3>3. \A p : p = put.path => \A r \in Latest(p)' : r = Report
      BY <3>1, LatestKept
    <3>4. Stored' \subseteq Stored \cup {put.path}
      BY <2>1, <3>1 DEF Stored
    <3>5. Report.content = put.content /\ Report.rev = put.rev
      BY DEF Report
    <3>6. ASSUME NEW q \in Stored', NEW r \in Latest(q)'
          PROVE  r.content = run.got[q] /\ r.rev = run.rev
      <4>1. CASE q = put.path
        BY <2>1, <3>3, <3>5, <4>1
      <4>2. CASE q # put.path
        BY <2>1, <3>2, <3>4, <4>2 DEF StoredTruth
      <4> QED BY <4>1, <4>2
    <3> QED BY <2>1, <3>6 DEF StoredTruth
  <2> QED BY <1>4, <2>2, <2>3, StoreMoves
<1> QED BY <1>1, <1>2, <1>3, <1>4, Steps DEF Crash

\* What the world does to the monitor and the files while a run stays current.
LEMMA WorldWatches ==
  ASSUME IInv, MonitorTypes, RunCurrent, World, run' # Idle, run'.fate = "current"
  PROVE  /\ mon # Idle /\ mon.queue = "clean"
         /\ mon'.watch /\ ~mon'.event => mon.watch /\ ~mon.event /\ disk' = disk
<1> USE DEF storeVars, durableVars, readerVars, worldVars, workVars, attachVars
<1>1. run # Idle /\ run.fate = "current" /\ run \in Runs
  BY WorldApart DEF Apart, SameRun, MonitorTypes
<1>2. mon # Idle /\ mon.queue = "clean" /\ mon \in Monitors
  BY <1>1 DEF RunCurrent, MonitorTypes
<1>3. Stale.fate # "current" /\ Detached.fate # "current"
  BY <1>1, <1>2 DEF Stale, Detached, Runs
<1>4. CASE mon' = mon /\ disk' = disk
  BY <1>2, <1>4
<1>5. ASSUME NEW p \in Paths, NEW c \in Contents, Edit(p, c)
      PROVE  mon'.watch /\ ~mon'.event => mon.watch /\ ~mon.event /\ disk' = disk
  <2>1. CASE mon.watch
    <3>1. mon' = [mon EXCEPT !.event = TRUE]
      BY <1>2, <1>5, <2>1 DEF Edit
    <3>2. mon'.event = TRUE
      BY <1>2, <3>1 DEF Monitors
    <3> QED BY <3>2
  <2>2. CASE ~mon.watch
    BY <1>2, <1>5, <2>2 DEF Edit
  <2> QED BY <2>1, <2>2
<1>6. Deliver \/ Sweep \/ OpAttach \/ Forget => run' \in {Stale, Detached}
  BY DEF Deliver, Sweep, Invalidate, OpAttach, Forget
<1>7. OpCheck => (UNCHANGED <<mon, disk>> \/ run' = Detached)
  BY DEF OpCheck
<1>8. ~QuietOver
  BY <1>2 DEF QuietOver
<1>9. Refresh \/ OpBegin \/ OpRefused \/ ReaderStep \/ Schedule \/ UNCHANGED vars
      \/ (\E readers \in SUBSET Readers : Watch(readers)) => mon' = mon /\ disk' = disk
  BY DEF Refresh, OpBegin, OpRefused, ReaderStep, Schedule, Watch, vars, monitorVars
<1> QED BY <1>2, <1>3, <1>4, <1>5, <1>6, <1>7, <1>8, <1>9 DEF World, AttachStep

LEMMA TakenKeeps ==
  ASSUME IInv, MonitorTypes, RunCurrent, TakenHolds, [Next]_vars
  PROVE  TakenHolds'
<1> SUFFICES ASSUME run' # Idle, run'.fate = "current", mon'.watch, ~mon'.event, NEW p \in Taken'
             PROVE  run'.got[p] = disk'[p]
  BY DEF TakenHolds
<1>1. CASE World
  <2>1. run # Idle /\ run'.got = run.got /\ run.fate = "current" /\ Taken' = Taken
    BY <1>1, WorldApart DEF Apart, SameRun, Taken
  <2>2. mon.watch /\ ~mon.event /\ disk' = disk
    BY <1>1, WorldWatches
  <2> QED BY <2>1, <2>2 DEF TakenHolds
<1>2. CASE RunStep
  <2>1. Course
    BY <1>2, RunCourse
  <2>2. CASE Begins \/ Closes \/ Opens
    <3>1. Taken' = {}
      BY <2>1, <2>2 DEF Course, Begins, Closes, Opens, Taken
    <3> QED BY <3>1
  <2>3. CASE Turns \/ Goes \/ \E q \in Paths : Puts(q)
    <3>1. run # Idle /\ run'.got = run.got /\ run.fate = "current" /\ run'.at = run.at
          /\ mon' = mon /\ disk' = disk
      BY <2>1, <2>3 DEF Course, Begins, Turns, Goes, Puts, Publish, Running, At
    <3>2. Taken' = Taken
      BY <2>3, <3>1 DEF Turns, Goes, Puts, Publish, Running, At, Taken
    <3> QED BY <3>1, <3>2 DEF TakenHolds
  <2>4. ASSUME NEW q \in Paths, Takes(q) PROVE run'.got[p] = disk'[p]
    <3>1. /\ run # Idle /\ run.fate = "current" /\ run'.at = run.at /\ mon' = mon /\ disk' = disk
          /\ run'.got = [run.got EXCEPT ![q] = disk[q]] /\ run.pc = "capture"
          /\ run'.pc = "capture" /\ run'.left = run.left \ {q}
      BY <2>1, <2>4 DEF Course, Begins, Takes
    <3>2. p \in Taken \/ p = q
      BY <3>1 DEF Taken
    <3>3. run.got \in [Paths -> Contents]
      BY <3>1 DEF MonitorTypes, Runs
    <3>4. CASE p = q
      BY <3>1, <3>3, <3>4
    <3>5. CASE p # q
      <4>1. run'.got[p] = run.got[p]
        <5>1. p \in Paths
          <6>1. Taken \subseteq Batches[run.at] /\ run.at \in 1 .. Len(Batches)
            BY <3>1 DEF Taken, MonitorTypes, Runs
          <6> QED BY <3>2, <3>5, <6>1, BatchPaths
        <5> QED BY <3>1, <3>3, <3>5, <5>1
      <4> QED BY <3>1, <3>2, <3>5, <4>1 DEF TakenHolds
    <3> QED BY <3>4, <3>5
  <2> QED BY <2>1, <2>2, <2>3, <2>4 DEF Course
<1>3. CASE StoreStep
  <2>1. UNCHANGED <<run, mon, disk>>
    BY <1>3, StoreMoves
  <2> QED BY <2>1 DEF TakenHolds, Taken
<1>4. ~Crash
  BY DEF Crash
<1> QED BY <1>1, <1>2, <1>3, <1>4, Steps

(***************************************************************************)
(* The end of a run.                                                       *)

LEMMA RunGoesOn ==
  ASSUME MonitorTypes,
         RunBegin \/ CloseWatchers \/ Captured \/ \E p \in Paths : Capture(p) \/ Publish(p)
  PROVE  run' # Idle
<1>1. /\ run # Idle => run \in Runs /\ Batches[run.at] \in SUBSET Paths
      /\ mon # Idle => mon \in Monitors /\ Batches[mon.at] \in SUBSET Paths
      /\ disk \in [Paths -> Contents]
  BY BatchPaths DEF MonitorTypes, Runs, Monitors
<1>2. CASE RunBegin
  <2>1. [p \in Paths |-> Base] \in [Paths -> Contents]
    BY ObservationConstants
  <2>2. run' \in Runs
    BY <1>1, <1>2, <2>1 DEF RunBegin, Runs, Monitors
  <2> QED BY <2>2, MonitorIdle
<1>3. CASE CloseWatchers
  <2>1. run' \in Runs
    BY <1>1, <1>3 DEF CloseWatchers, Running, At, Runs
  <2> QED BY <2>1, MonitorIdle
<1>4. CASE Captured
  <2>1. run' \in Runs
    BY <1>1, <1>4 DEF Captured, Running, At, Runs
  <2> QED BY <2>1, MonitorIdle
<1>5. ASSUME NEW p \in Paths, Capture(p) PROVE run' # Idle
  <2>1. run \in Runs /\ disk[p] \in Contents
    BY <1>1, <1>5 DEF Capture, Running, At
  <2>2. [run.got EXCEPT ![p] = disk[p]] \in [Paths -> Contents]
    BY <2>1 DEF Runs
  <2>3. run' = [run EXCEPT !.got = [run.got EXCEPT ![p] = disk[p]], !.left = run.left \ {p}]
    BY <1>5 DEF Capture
  <2>4. run' \in Runs
    BY <2>1, <2>2, <2>3 DEF Runs
  <2> QED BY <2>4, MonitorIdle
<1>6. ASSUME NEW p \in Paths, Publish(p) PROVE run' # Idle
  <2>1. run \in Runs
    BY <1>1, <1>6 DEF Publish, Running, At
  <2>2. run' = [run EXCEPT !.pc = "store", !.left = run.left \ {p}]
    BY <1>6 DEF Publish
  <2>3. run' \in Runs
    BY <2>1, <2>2 DEF Runs
  <2> QED BY <2>3, MonitorIdle
<1> QED BY <1>2, <1>3, <1>4, <1>5, <1>6

\* superseded, failed, or with all of its batch published unless the work changed
Superseded == run.fate # "current" /\ op' = op
Fails == run.fate = "current" /\ mon'.failed /\ op' = Settled("incomplete", {})
Succeeds == /\ run.fate = "current" /\ op' = Settled("published", Batches[run.at])
            /\ mon'.watch = mon.watch /\ mon'.event = mon.event /\ mon'.seen = Batches[run.at]
            /\ rev # run.rev \/ (Stored = Batches[run.at] /\ Taken = Batches[run.at])

Ends == /\ run # Idle
        /\ mon' # Idle => mon # Idle /\ mon'.rev = mon.rev
                          /\ (mon'.queue = mon.queue \/ mon'.queue = "queued")
        /\ UNCHANGED <<disk, rev>> /\ (Superseded \/ Fails \/ Succeeds)

LEMMA FinishedEnds ==
  ASSUME MonitorTypes, RunCurrent, run # Idle, run.fate = "current", UNCHANGED <<disk, rev, waiting>>,
         NEW outcome \in {"published", "incomplete"}, NEW paths, Finished(outcome, paths),
         \/ outcome = "incomplete" /\ paths = {}
         \/ /\ outcome = "published" /\ paths = Batches[run.at]
            /\ rev # run.rev \/ (Stored = Batches[run.at] /\ Taken = Batches[run.at])
  PROVE  Ends
<1>1. mon # Idle /\ paths \in SUBSET Paths
  BY BatchPaths DEF RunCurrent, MonitorTypes, Runs
<1>2. /\ mon'.rev = mon.rev /\ mon'.watch = mon.watch /\ mon'.event = mon.event
      /\ mon'.seen = paths /\ mon'.failed = (outcome = "incomplete")
      /\ mon'.queue # mon.queue => mon'.queue = "queued"
  BY <1>1, FinishedTypes
<1>3. op' = Settled(outcome, paths)
  BY DEF Finished
<1> QED BY <1>1, <1>2, <1>3 DEF Ends, Fails, Succeeds

LEMMA RunEnds ==
  ASSUME MonitorTypes, RunCurrent, RunStep, run' = Idle
  PROVE  Ends
<1> USE DEF storeVars, durableVars, readerVars, worldVars, workVars, attachVars
<1>1. CASE RunSuperseded
  BY <1>1 DEF RunSuperseded, Ends, Superseded
<1>2. CASE OpenWatchers
  <2>1. run # Idle /\ UNCHANGED <<disk, rev, op>>
    BY <1>2 DEF OpenWatchers, At
  <2>2. run.fate # "current"
    <3>1. CASE run.fate = "current"
      <4>1. run \in Runs /\ run' = [run EXCEPT !.pc = "capture"]
        BY <1>2, <2>1, <3>1 DEF OpenWatchers, MonitorTypes
      <4>2. run' \in Runs
        BY <4>1 DEF Runs
      <4> QED BY <4>2, MonitorIdle
    <3> QED BY <3>1
  <2>3. mon' # Idle => mon # Idle /\ mon'.rev = mon.rev /\ mon'.queue = mon.queue
    <3>1. CASE run.fate = "gone"
      BY <1>2, <3>1 DEF OpenWatchers
    <3>2. CASE run.fate # "gone"
      <4>1. /\ mon # Idle /\ mon \in Monitors
            /\ \E opened \in BOOLEAN : mon' = [mon EXCEPT !.watch = opened]
        BY <1>2, <2>1, <3>2 DEF OpenWatchers, RunCurrent, MonitorTypes
      <4> QED BY <4>1 DEF Monitors
    <3> QED BY <3>1, <3>2
  <2> QED BY <2>1, <2>2, <2>3 DEF Ends, Superseded
<1>3. CASE CaptureRefused
  <2>1. run # Idle /\ run.fate = "current" /\ Finished("incomplete", {}) /\ UNCHANGED <<disk, rev, waiting>>
    BY <1>3 DEF CaptureRefused, Running, At
  <2> QED BY <2>1, FinishedEnds
<1>4. CASE PublishRefused
  <2>1. /\ run # Idle /\ run.fate = "current" /\ rev # run.rev /\ Finished("published", Batches[run.at])
        /\ UNCHANGED <<disk, rev, waiting>>
    BY <1>4 DEF PublishRefused, AllPublished, Running, At
  <2> QED BY <2>1, FinishedEnds
<1>5. CASE Published
  <2>1. run # Idle /\ run.pc = "store" /\ put # Idle /\ put.pc = "done" /\ UNCHANGED <<disk, rev, waiting>>
    BY <1>5 DEF Published, PutEnded, At
  <2>2. run.left = {}
    <3>1. CASE run.left # {}
      <4>1. run \in Runs /\ run' = [run EXCEPT !.pc = "publish"]
        BY <1>5, <2>1, <3>1 DEF Published, MonitorTypes
      <4>2. run' \in Runs
        BY <4>1 DEF Runs
      <4> QED BY <4>2, MonitorIdle
    <3> QED BY <3>1
  <2>3. CASE run.fate = "current"
    <3>1. Finished("published", Batches[run.at])
      BY <1>5, <2>2, <2>3 DEF Published, AllPublished
    <3>2. Stored = Batches[run.at] /\ Taken = Batches[run.at]
      BY <2>1, <2>2 DEF Stored, Taken
    <3> QED BY <2>1, <2>3, <3>1, <3>2, FinishedEnds
  <2>4. CASE run.fate # "current"
    <3>1. UNCHANGED <<mon, op>>
      BY <1>5, <2>2, <2>4 DEF Published
    <3> QED BY <2>1, <2>4, <3>1 DEF Ends, Superseded
  <2> QED BY <2>3, <2>4
<1>6. CASE PublishFails
  <2>1. run # Idle /\ UNCHANGED <<disk, rev>>
    BY <1>6 DEF PublishFails, PutEnded, At
  <2>2. CASE run.fate # "current"
    <3>1. UNCHANGED <<mon, op>>
      BY <1>6, <2>2 DEF PublishFails, Incomplete
    <3> QED BY <2>1, <2>2, <3>1 DEF Ends, Superseded
  <2>3. CASE run.fate = "current"
    <3>1. mon # Idle /\ mon \in Monitors
      BY <2>1, <2>3 DEF RunCurrent, MonitorTypes
    <3>2. mon' = [mon EXCEPT !.failed = TRUE] /\ op' = Settled("incomplete", {})
      BY <1>6, <2>3 DEF PublishFails, Incomplete
    <3>3. mon'.failed /\ mon'.rev = mon.rev /\ mon'.queue = mon.queue
      BY <3>1, <3>2 DEF Monitors
    <3> QED BY <2>1, <2>3, <3>1, <3>2, <3>3 DEF Ends, Fails
  <2> QED BY <2>2, <2>3
<1> QED BY <1>1, <1>2, <1>3, <1>4, <1>5, <1>6, RunGoesOn DEF RunStep

(***************************************************************************)
(* A resting monitor.                                                      *)

LEMMA RestKeeps ==
  ASSUME IInv, MonitorTypes, PutOfRun, RunCurrent, StoredTruth, TakenHolds, RestIsCurrent, [Next]_vars
  PROVE  RestIsCurrent'
<1> SUFFICES ASSUME mon' # Idle, mon'.queue = "clean", mon'.watch, ~mon'.event, ~mon'.failed,
                    run' = Idle, mon'.rev = rev', NEW p \in mon'.seen, NEW r \in Latest(p)'
             PROVE  r.content = disk'[p] /\ r.rev = rev'
  BY DEF RestIsCurrent, Resting
<1> USE DEF storeVars, durableVars, readerVars, worldVars, workVars, attachVars
<1>1. CASE World
  <2>1. run = Idle /\ Latest(p)' = Latest(p)
    BY <1>1, WorldApart, LatestSame DEF Apart, SameRun
  <2>2. CASE UNCHANGED <<mon, disk, rev>>
    BY <2>1, <2>2 DEF RestIsCurrent, Resting
  <2>3. ASSUME NEW q \in Paths, NEW c \in Contents, Edit(q, c) PROVE FALSE
    <3>1. CASE mon # Idle /\ mon.watch
      <4>1. mon \in Monitors /\ mon' = [mon EXCEPT !.event = TRUE]
        BY <2>3, <3>1 DEF Edit, MonitorTypes
      <4> QED BY <4>1 DEF Monitors
    <3>2. CASE ~(mon # Idle /\ mon.watch)
      BY <2>3, <3>2 DEF Edit
    <3> QED BY <3>1, <3>2
  <2>4. CASE Deliver \/ QuietOver \/ Sweep
    <3>1. mon # Idle /\ mon \in Monitors
      BY <2>4 DEF Deliver, QuietOver, Sweep, MonitorTypes
    <3> QED BY <2>4, <3>1 DEF Deliver, QuietOver, Sweep, Invalidate, Monitors
  <2>5. CASE OpAttach
    <3>1. mon # Idle => mon \in Monitors
      BY DEF MonitorTypes
    <3>2. mon'.queue = "queued"
      BY <2>5, <3>1 DEF OpAttach, Monitors
    <3> QED BY <3>2
  <2>6. ASSUME NEW readers \in SUBSET Readers, Watch(readers) PROVE FALSE
    <3>1. mon' = mon /\ rev' = rev + 1
      BY <2>6 DEF Watch
    <3> QED BY <3>1 DEF MonitorTypes, Monitors
  <2>7. OpCheck \/ Forget => UNCHANGED <<mon, disk, rev>>
    BY DEF OpCheck, Forget
  <2>8. Refresh \/ OpBegin \/ OpRefused \/ ReaderStep \/ Schedule \/ UNCHANGED vars
          => UNCHANGED <<mon, disk, rev>>
    BY DEF Refresh, OpBegin, OpRefused, ReaderStep, Schedule, vars, monitorVars
  <2> QED BY <1>1, <2>2, <2>3, <2>4, <2>5, <2>6, <2>7, <2>8 DEF World, AttachStep
<1>2. CASE RunStep
  <2>1. Ends /\ Latest(p)' = Latest(p)
    BY <1>2, RunEnds, RunReports, LatestSame
  <2>2. run # Idle /\ mon # Idle /\ mon.queue = "clean" /\ mon.rev = rev /\ UNCHANGED <<disk, rev>>
    BY <2>1 DEF Ends
  <2>3. run.fate = "current" /\ run.rev = rev
    BY <2>2 DEF RunCurrent
  <2>4. Succeeds
    BY <2>1, <2>3 DEF Ends, Superseded, Fails
  <2>5. /\ p \in Stored /\ p \in Taken /\ mon.watch /\ ~mon.event
    BY <2>3, <2>4 DEF Succeeds
  <2>6. r.content = run.got[p] /\ r.rev = run.rev
    BY <2>1, <2>2, <2>5 DEF StoredTruth
  <2>7. run.got[p] = disk[p]
    BY <2>2, <2>3, <2>5 DEF TakenHolds
  <2> QED BY <2>2, <2>3, <2>6, <2>7
<1>3. CASE StoreStep
  BY <1>3, StoreMoves DEF PutOfRun
<1>4. ~Crash
  BY DEF Crash
<1> QED BY <1>1, <1>2, <1>3, <1>4, Steps

(***************************************************************************)
(* An attachment that waits for its capture.                               *)

\* What HeldHolds says, part by part, of an attachment that is not outdated.
Seen == \A p \in Paths : disk[p] \in op.held[p]
Attached == mon # Idle => mon.rev = op.rev
RunServes == run # Idle /\ (run.fate = "current" \/ (op.pc = "check" /\ op.outcome = "published")) =>
  run.rev = op.rev /\ \A p \in Taken : run.got[p] \in op.held[p]
Answered == op.pc = "check" /\ op.outcome = "published" /\ rev = op.rev =>
  \A p \in op.paths : \A r \in Latest(p) : r.content \in op.held[p] /\ r.rev = op.rev
Live == op # Idle /\ op.pc \in {"wait", "check"} /\ ~op.stale

LEMMA HeldParts ==
  /\ HeldHolds <=> (Live => Seen /\ Attached /\ RunServes /\ Answered)
  /\ HeldHolds' <=> (Live' => Seen' /\ Attached' /\ RunServes' /\ Answered')
BY DEF HeldHolds, Live, Seen, Attached, RunServes, Answered

\* A live attachment that is answered or not keeps what it holds.
LEMMA SameAttachment ==
  ASSUME Live, HeldHolds, op' = op, UNCHANGED <<rev, disk>>, SameRun,
         mon' # Idle => mon # Idle /\ mon'.rev = mon.rev,
         \A p : Latest(p)' = Latest(p)
  PROVE  HeldHolds'
<1>1. Seen /\ Attached /\ RunServes /\ Answered
  BY HeldParts
<1>2. Seen' /\ Attached' /\ Answered'
  BY <1>1 DEF Seen, Attached, Answered
<1>3. RunServes'
  <2>1. run # Idle => Taken' = Taken
    BY DEF SameRun, Taken
  <2> QED BY <1>1, <2>1 DEF RunServes, SameRun
<1> QED BY <1>2, <1>3, HeldParts

LEMMA WorldHeld ==
  ASSUME IInv, MonitorTypes, RunCurrent, HeldHolds, World
  PROVE  HeldHolds'
<1> SUFFICES ASSUME Live' PROVE HeldHolds'
  BY HeldParts
<1> USE DEF storeVars, durableVars, readerVars, worldVars, workVars, attachVars
<1>1. SameRun /\ \A p : Latest(p)' = Latest(p)
  BY WorldApart, LatestSame DEF Apart
<1>2. mon # Idle => mon \in Monitors
  BY DEF MonitorTypes
<1>3. ASSUME NEW q \in Paths, NEW c \in Contents, Edit(q, c) PROVE HeldHolds'
  <2>1. op # Idle
    BY <1>3 DEF Edit, Live
  <2>2. op \in Attachments /\ op' = [op EXCEPT !.held = [op.held EXCEPT ![q] = op.held[q] \cup {c}]]
        /\ disk' = [disk EXCEPT ![q] = c] /\ disk \in [Paths -> Contents] /\ rev' = rev
    BY <1>3, <2>1 DEF Edit, MonitorTypes
  <2>3. /\ op'.pc = op.pc /\ op'.stale = op.stale /\ op'.rev = op.rev /\ op'.outcome = op.outcome
        /\ op'.paths = op.paths /\ op'.held = [op.held EXCEPT ![q] = op.held[q] \cup {c}]
        /\ op.held \in [Paths -> SUBSET Contents]
    BY <2>2 DEF Attachments
  <2>4. \A p \in Paths : op.held[p] \subseteq op'.held[p]
    BY <2>3
  <2>5. Live /\ Seen /\ Attached /\ RunServes /\ Answered
    BY <2>1, <2>3, HeldParts DEF Live
  <2>6. Seen'
    <3>1. c \in op'.held[q]
      BY <2>3
    <3> QED BY <2>2, <2>4, <2>5, <3>1 DEF Seen
  <2>7. Attached'
    <3>1. mon' # Idle => mon # Idle /\ mon'.rev = mon.rev
      BY <1>2, <1>3 DEF Edit, Monitors
    <3> QED BY <2>3, <2>5, <3>1 DEF Attached
  <2>8. RunServes'
    <3>1. run # Idle => Taken' = Taken /\ Taken \subseteq Paths
      BY <1>1, BatchPaths DEF SameRun, Taken, MonitorTypes, Runs
    <3> QED BY <1>1, <2>3, <2>4, <2>5, <3>1 DEF RunServes, SameRun
  <2>9. Answered'
    <3>1. op.paths \subseteq Paths
      BY <2>2 DEF Attachments
    <3> QED BY <1>1, <2>2, <2>3, <2>4, <2>5, <3>1 DEF Answered
  <2> QED BY <2>6, <2>7, <2>8, <2>9, HeldParts
<1>4. CASE Deliver \/ QuietOver \/ Sweep
  <2>1. op' = op /\ UNCHANGED <<rev, disk>>
    BY <1>4 DEF Deliver, QuietOver, Sweep
  <2>2. mon # Idle /\ mon \in Monitors
    BY <1>2, <1>4 DEF Deliver, QuietOver, Sweep
  <2>3. mon'.rev = mon.rev
    BY <1>4, <2>2 DEF Deliver, QuietOver, Sweep, Invalidate, Monitors
  <2>4. Live
    BY <2>1 DEF Live
  <2> QED BY <1>1, <2>1, <2>2, <2>3, <2>4, SameAttachment
<1>5. CASE ReaderStep \/ UNCHANGED vars
  <2>1. UNCHANGED <<op, rev, disk, mon>>
    BY <1>5 DEF ReaderStep, vars, monitorVars
  <2>2. Live
    BY <2>1 DEF Live
  <2> QED BY <1>1, <2>1, <2>2, SameAttachment
<1>6. CASE OpAttach
  <2>1. op # Idle /\ op \in Attachments /\ op.rev \in Nat
    BY <1>6 DEF OpAttach, MonitorTypes, Attachments
  <2>2. op' = [op EXCEPT !.pc = "wait", !.held = [p \in Paths |-> {disk[p]}]] /\ disk' = disk
        /\ run' = Stale
    BY <1>6 DEF OpAttach
  <2>3. op'.pc = "wait" /\ op'.held = [p \in Paths |-> {disk[p]}] /\ op'.rev = op.rev
    BY <2>1, <2>2 DEF Attachments
  <2>4. mon'.rev = op.rev
    BY <1>2, <1>6, <2>1 DEF OpAttach, Monitors
  <2>5. run' # Idle => run'.fate # "current"
    BY <1>1, <2>2 DEF Stale, SameRun, MonitorTypes, Runs
  <2>6. Seen' /\ Attached' /\ RunServes' /\ Answered'
    BY <2>2, <2>3, <2>4, <2>5 DEF Seen, Attached, RunServes, Answered
  <2> QED BY <2>6, HeldParts
<1>7. ASSUME NEW readers \in SUBSET Readers, Watch(readers) PROVE HeldHolds'
  <2>1. UNCHANGED <<op, disk, mon, run>> /\ rev' = rev + 1
    BY <1>7 DEF Watch
  <2>2. Live /\ op.rev <= rev /\ op.rev \in Nat /\ rev \in Nat
    BY <2>1 DEF Live, MonitorTypes, Attachments
  <2>3. Seen /\ Attached /\ RunServes
    BY <2>2, HeldParts
  <2>4. Seen' /\ Attached' /\ RunServes'
    BY <2>1, <2>3 DEF Seen, Attached, RunServes, Taken
  <2>5. Answered'
    BY <2>1, <2>2 DEF Answered
  <2> QED BY <2>4, <2>5, HeldParts
<1>8. ~(OpBegin \/ OpRefused \/ OpCheck)
  BY DEF OpBegin, OpRefused, OpCheck, Live, MonitorTypes, Attachments
<1>9. ~(Refresh \/ Schedule)
  BY OutdatedTypes DEF Refresh, Schedule, Live
<1>10. ~Forget
  <2>1. CASE op # Idle /\ op.pc = "wait"
    <3>1. op \in Attachments
      BY <2>1 DEF MonitorTypes
    <3> QED BY <2>1, <3>1 DEF Forget, Live, Attachments
  <2>2. CASE ~(op # Idle /\ op.pc = "wait")
    BY <2>2, OutdatedTypes DEF Forget, Live
  <2> QED BY <2>1, <2>2
<1> QED BY <1>3, <1>4, <1>5, <1>6, <1>7, <1>8, <1>9, <1>10 DEF World, AttachStep

LEMMA CourseHeld ==
  ASSUME IInv, MonitorTypes, RunCurrent, HeldHolds, RunStep, run' # Idle
  PROVE  HeldHolds'
<1> SUFFICES ASSUME Live' PROVE HeldHolds'
  BY HeldParts
<1>1. Course /\ \A p : Latest(p)' = Latest(p)
  BY RunCourse, RunReports, LatestSame
<1>2. UNCHANGED <<disk, rev, op>>
  BY <1>1 DEF Course
<1>3. Live /\ Seen /\ Attached /\ RunServes /\ Answered
  BY <1>2, HeldParts DEF Live
<1>4. Seen' /\ Answered'
  BY <1>1, <1>2, <1>3 DEF Seen, Answered
<1>5. CASE Begins
  <2>1. Attached' /\ run'.rev = op.rev /\ Taken' = {}
    BY <1>2, <1>3, <1>5 DEF Begins, Attached, Taken
  <2>2. RunServes'
    BY <1>2, <2>1 DEF RunServes
  <2> QED BY <1>4, <2>1, <2>2, HeldParts
<1>6. CASE ~Begins
  <2>1. run # Idle /\ run'.rev = run.rev /\ run'.at = run.at /\ run'.fate = run.fate
    BY <1>1, <1>6 DEF Course
  <2>2. CASE Closes \/ Opens
    <3>1. Taken' = {} /\ mon # Idle /\ mon'.rev = mon.rev
      BY <2>1, <2>2 DEF Closes, Opens, Taken
    <3>2. RunServes' /\ Attached'
      BY <1>2, <1>3, <2>1, <3>1 DEF RunServes, Attached
    <3> QED BY <1>4, <3>2, HeldParts
  <2>3. CASE Turns \/ Goes \/ \E q \in Paths : Puts(q)
    <3>1. run'.got = run.got /\ mon' = mon
      BY <2>3 DEF Turns, Goes, Puts
    <3>2. Taken' = Taken
      BY <2>1, <2>3 DEF Turns, Goes, Puts, Publish, Running, At, Taken
    <3>3. RunServes' /\ Attached'
      BY <1>2, <1>3, <2>1, <3>1, <3>2 DEF RunServes, Attached
    <3> QED BY <1>4, <3>3, HeldParts
  <2>4. ASSUME NEW q \in Paths, Takes(q) PROVE HeldHolds'
    <3>1. /\ mon' = mon /\ run.pc = "capture" /\ run'.pc = "capture" /\ run'.left = run.left \ {q}
          /\ run'.got = [run.got EXCEPT ![q] = disk[q]] /\ run.got \in [Paths -> Contents]
      BY <2>1, <2>4 DEF Takes, MonitorTypes, Runs
    <3>2. Taken' \subseteq Taken \cup {q} /\ Taken \subseteq Paths
      BY <2>1, <3>1, BatchPaths DEF Taken, MonitorTypes, Runs
    <3>3. ASSUME NEW p \in Taken', \A x \in Taken : run.got[x] \in op.held[x]
          PROVE  run'.got[p] \in op.held[p]
      <4>1. CASE p = q
        BY <1>3, <3>1, <4>1 DEF Seen
      <4>2. CASE p # q
        BY <3>1, <3>2, <3>3, <4>2
      <4> QED BY <4>1, <4>2
    <3>4. RunServes' /\ Attached'
      BY <1>2, <1>3, <2>1, <3>1, <3>3 DEF RunServes, Attached
    <3> QED BY <1>4, <3>4, HeldParts
  <2> QED BY <1>1, <1>6, <2>2, <2>3, <2>4 DEF Course
<1> QED BY <1>5, <1>6

LEMMA EndsHeld ==
  ASSUME IInv, MonitorTypes, RunCurrent, StoredTruth, HeldHolds, RunStep, run' = Idle
  PROVE  HeldHolds'
<1> SUFFICES ASSUME Live' PROVE HeldHolds'
  BY HeldParts
<1>1. Ends /\ \A p : Latest(p)' = Latest(p)
  BY RunEnds, RunReports, LatestSame
<1>2. run # Idle /\ UNCHANGED <<disk, rev>>
  BY <1>1 DEF Ends
<1>3. RunServes'
  BY DEF RunServes
<1>4. CASE op' = op
  <2>1. Live /\ Seen /\ Attached /\ Answered
    BY <1>4, HeldParts DEF Live
  <2>2. Seen' /\ Attached' /\ Answered'
    BY <1>1, <1>2, <1>4, <2>1 DEF Ends, Seen, Attached, Answered
  <2> QED BY <1>3, <2>2, HeldParts
<1>5. CASE op' # op
  <2>1. PICK outcome \in {"published", "incomplete"}, paths \in {{}, Batches[run.at]} :
          /\ op' = Settled(outcome, paths) /\ run.fate = "current"
          /\ outcome = "published" => /\ paths = Batches[run.at]
                                      /\ rev # run.rev \/ (Stored = paths /\ Taken = paths)
    BY <1>1, <1>5 DEF Ends, Superseded, Fails, Succeeds
  <2>2. /\ op # Idle /\ op.pc = "wait" /\ op \in Attachments
        /\ op' = [op EXCEPT !.pc = "check", !.outcome = outcome, !.paths = paths]
    BY <1>5, <2>1 DEF Settled, MonitorTypes
  <2>3. /\ op'.pc = "check" /\ op'.outcome = outcome /\ op'.paths = paths /\ op'.rev = op.rev
        /\ op'.held = op.held /\ op'.stale = op.stale
    BY <2>2 DEF Attachments
  <2>4. Live /\ Seen /\ Attached /\ RunServes
    BY <2>2, <2>3, HeldParts DEF Live
  <2>5. Seen' /\ Attached'
    BY <1>1, <1>2, <2>3, <2>4 DEF Ends, Seen, Attached
  <2>6. Answered'
    <3>1. ASSUME outcome = "published", rev = op.rev, NEW p \in paths, NEW r \in Latest(p)'
          PROVE  r.content \in op.held[p] /\ r.rev = op.rev
      <4>1. run.rev = op.rev /\ \A x \in Taken : run.got[x] \in op.held[x]
        BY <1>2, <2>1, <2>4 DEF RunServes
      <4>2. p \in Stored /\ p \in Taken
        BY <2>1, <3>1, <4>1
      <4>3. r.content = run.got[p] /\ r.rev = run.rev
        BY <1>1, <1>2, <4>2 DEF StoredTruth
      <4> QED BY <4>1, <4>2, <4>3
    <3> QED BY <1>2, <2>3, <3>1 DEF Answered
  <2> QED BY <1>3, <2>5, <2>6, HeldParts
<1> QED BY <1>4, <1>5

LEMMA StoreHeld ==
  ASSUME IInv, MonitorTypes, ReportsOrdered, PutOfRun, HeldHolds, StoreStep
  PROVE  HeldHolds'
<1> SUFFICES ASSUME Live' PROVE HeldHolds'
  BY HeldParts
<1>1. /\ UNCHANGED <<run, mon, op, disk, rev>>
      /\ run # Idle /\ run.pc = "store" /\ put.path \in Batches[run.at]
      /\ put.content = run.got[put.path] /\ put.rev = run.rev
  BY StoreMoves DEF PutOfRun
<1>2. Live /\ Seen /\ Attached /\ RunServes /\ Answered
  BY <1>1, HeldParts DEF Live
<1>3. Seen' /\ Attached' /\ RunServes'
  BY <1>1, <1>2 DEF Seen, Attached, RunServes, Taken
<1>4. CASE state' = state
  <2>1. Answered'
    BY <1>1, <1>2, <1>4, LatestSame DEF Answered
  <2> QED BY <1>3, <2>1, HeldParts
<1>5. CASE Reported
  <2>1. PICK kept \in Retainable : state'.reports = kept \cup {Report}
    BY <1>5 DEF Reported
  <2>2. ASSUME op.pc = "check", op.outcome = "published", rev = op.rev,
               NEW p \in op.paths, NEW r \in Latest(p)'
        PROVE  r.content \in op.held[p] /\ r.rev = op.rev
    <3>1. CASE p = put.path
      <4>1. r = Report
        BY <2>1, <3>1, LatestKept
      <4>2. r.content = run.got[p] /\ r.rev = run.rev
        BY <1>1, <3>1, <4>1 DEF Report
      <4>3. p \in Taken
        BY <1>1, <3>1 DEF Taken
      <4> QED BY <1>1, <1>2, <2>2, <4>2, <4>3 DEF RunServes
    <3>2. CASE p # put.path
      <4>1. r \in Latest(p)
        BY <2>1, <3>2, LatestKept
      <4> QED BY <1>2, <2>2, <4>1 DEF Answered
    <3> QED BY <3>1, <3>2
  <2>3. Answered'
    BY <1>1, <2>2 DEF Answered
  <2> QED BY <1>3, <2>3, HeldParts
<1> QED BY <1>4, <1>5, StoreMoves

LEMMA HeldKeeps ==
  ASSUME IInv, MonitorTypes, ReportsOrdered, PutOfRun, RunCurrent, StoredTruth, HeldHolds, [Next]_vars
  PROVE  HeldHolds'
<1>1. Crash => HeldHolds'
  BY DEF Crash, HeldHolds
<1> QED BY <1>1, Steps, WorldHeld, CourseHeld, EndsHeld, StoreHeld

(***************************************************************************)
(* The monitor's invariant.                                                *)

LEMMA MonitorInit == Init => MInv
<1> SUFFICES ASSUME Init PROVE MInv
  OBVIOUS
<1>1. IInv
  BY InitHolds
<1>2. /\ disk = [p \in Paths |-> Base] /\ rev = 1 /\ mon = Idle /\ run = Idle /\ op = Idle
      /\ waiting = Attachment("schedule", 1) /\ state.reports = {} /\ put = Idle
  BY DEF Init, StoreInit
<1>3. disk \in [Paths -> Contents]
  BY <1>2, ObservationConstants
<1>4. MonitorTypes
  BY <1>2, <1>3, WaitingTypes DEF MonitorTypes
<1> QED BY <1>1, <1>2, <1>4 DEF MInv, ReportsOrdered, PutOfRun, RunCurrent, StoredTruth, TakenHolds,
                               RestIsCurrent, Resting, HeldHolds

LEMMA MonitorStep == MInv /\ [Next]_vars => MInv'
<1> SUFFICES ASSUME MInv, [Next]_vars PROVE MInv'
  OBVIOUS
<1> USE DEF MInv
<1>1. IInv'
  BY StepHolds
<1>2. MonitorTypes' /\ ReportsOrdered' /\ PutOfRun' /\ RunCurrent'
  BY TypesKeep, OrderedKeep, PutKeeps, CurrentKeeps
<1>3. StoredTruth' /\ TakenHolds' /\ RestIsCurrent' /\ HeldHolds'
  BY StoredKeeps, TakenKeeps, RestKeeps, HeldKeeps
<1> QED BY <1>1, <1>2, <1>3

LEMMA MonitorInductive == Spec => []MInv
BY MonitorInit, MonitorStep, PTL DEF Spec

(* A monitor with nothing queued, under open watchers, has for the newest  *)
(* report of each path of its last batch what the file holds: no edit is   *)
(* lost between a capture and the watchers (ObservationMonitor.#run,       *)
(* #replaceWatchers, #invalidate), whatever the batches and the edits.     *)
THEOREM RestIsCurrentHolds == Spec => []RestIsCurrent
<1>1. MInv => RestIsCurrent
  BY DEF MInv
<1> QED BY <1>1, MonitorInductive, PTL

(* A refresh that is answered as done tells of the files as they were      *)
(* after it was asked (RepositoryRuntime.structuralRefresh): the capture   *)
(* that answers it began after its request, under the same revision.       *)
THEOREM RefreshSeesTheEdits == Spec => []RefreshSeesEdits
<1>1. MInv => RefreshSeesEdits
  BY DEF MInv, HeldHolds, RefreshSeesEdits, Confirmed
<1> QED BY <1>1, MonitorInductive, PTL
=============================================================================
