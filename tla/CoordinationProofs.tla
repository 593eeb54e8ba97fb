--------------------------- MODULE CoordinationProofs ---------------------------
(***************************************************************************)
(* Proofs about the coordination record for any number of works, cases,    *)
(* notes and operation keys, and any bounds: selections and retirements    *)
(* exclude each other, nothing moves under a reserved case, and the files  *)
(* of a case are published once, under an agreement in force.              *)
(*                                                                         *)
(* None is inductive.  A selection is safe because an inspected one whose  *)
(* retirement versions still match has seen no removal (SourceHolds); a    *)
(* reservation is safe because it is of an active case and of one          *)
(* application (Running, RunningApart); an effect is single because its    *)
(* intent, its pending record and its place in the call agree (EffectHolds,*)
(* OneUnresolved).                                                         *)
(***************************************************************************)
EXTENDS Coordination, FiniteSetTheorems, TLAPS

\* Selected works are registered and kept; a reserved case is an active one.
SelectionsHold ==
  /\ \A c \in Cases : Active(c) =>
       \A w \in cases[c].inputs :
         works[w].state # "none" /\ w \notin disposed /\ retiring[w] = "no"
  /\ \A c \in reserved : Active(c)

\* An inspected selection whose versions still match is of worktrees that are there.
SourceHolds == source # Idle =>
  /\ \A w \in Works : source.versions[w] <= version[w]
  /\ \A w \in source.inputs : works[w].state # "none"
  /\ source.pc = "inspected" =>
       \A w \in source.inputs :
         version[w] = source.versions[w] /\ retiring[w] = "no" => w \notin disposed

\* An agreement in force on the case as it stands.
Agreement(m) ==
  /\ Acknowledged(m) /\ ~m.withdrawn
  /\ cases[m.case].rev = m.rev /\ SourcesCurrent(m)

\* An application past its admission.
Running(k) == app[k] # Idle /\ app[k].pc \notin {"captured", "checked"}

\* What an application under way knows, and what it holds once admitted.
ApplicationHolds(k) ==
  /\ app[k] # Idle =>
       /\ notes[app[k].note] # None
       /\ app[k].case = notes[app[k].note].case
       /\ app[k].parties = notes[app[k].note].parties
  /\ Running(k) =>
       /\ app[k].case \in reserved
       /\ Occupied(k) /\ ledger.apps[k].case = app[k].case
       /\ Agreement(notes[app[k].note])
  /\ app[k] # Idle /\ app[k].pc = "guarded" => \A w \in app[k].parties : live[w]

RunningApart == \A k, q \in Keys :
  k # q /\ Running(k) /\ Running(q) => app[k].case # app[q].case

\* What is true of the files after an effect with this outcome.
Truth(s, n) == (s = "rejected" => n = 0) /\ (s = "applied" => n = 1)

\* The intent, the files and the place in the call agree.
EffectHolds(k) ==
  /\ attempts[k] \in {0, 1}
  /\ intent[k].state = "none" => attempts[k] = 0
  /\ intent[k].state # "none" => Occupied(k)
  /\ intent[k].state = "settled" <=> intent[k].status # "none"
  /\ intent[k].state = "settled" => Truth(intent[k].status, attempts[k])
  /\ ledger.apps[k].outcome # "none" =>
       /\ intent[k].state = "settled" /\ intent[k].status = ledger.apps[k].outcome
  /\ Occupied(k) <=> ledger.apps[k].case # None
  /\ app[k] # Idle /\ app[k].pc \in {"captured", "checked"} =>
       intent[k].state \in {"none", "settled"} /\ app[k].status = intent[k].status
  /\ app[k] # Idle /\ app[k].pc = "admitted" => intent[k].state = "none"
  /\ app[k] # Idle /\ app[k].pc \in {"started", "guarded", "landed"} => intent[k].state = "started"
  /\ app[k] # Idle /\ app[k].pc \in {"started", "guarded"} => attempts[k] = 0
  /\ app[k] # Idle /\ app[k].pc = "landed" =>
       app[k].status \in Statuses /\ Truth(app[k].status, attempts[k])
  /\ app[k] # Idle /\ app[k].pc = "settled" =>
       intent[k].state = "settled" /\ app[k].status = intent[k].status

OneUnresolved == \A k, q \in Keys :
  k # q /\ Occupied(k) /\ Occupied(q) /\ ledger.apps[k].case = ledger.apps[q].case =>
    "rejected" \in {ledger.apps[k].outcome, ledger.apps[q].outcome}

IInv ==
  /\ TypeOK
  /\ SelectionsHold
  /\ SourceHolds
  /\ ReservedApart
  /\ \A k \in Keys : ApplicationHolds(k)
  /\ RunningApart
  /\ \A k \in Keys : EffectHolds(k)
  /\ OneUnresolved

----------------------------------------------------------------------------
(* The record with one entry replaced.                                     *)

LEMMA WithWorkShape ==
  ASSUME ledger \in Ledger, NEW w \in Works, NEW r \in Work
  PROVE  /\ WithWork(w, r) \in Ledger
         /\ WithWork(w, r).works = [works EXCEPT ![w] = r]
         /\ WithWork(w, r).cases = cases /\ WithWork(w, r).notes = notes
         /\ WithWork(w, r).apps = ledger.apps
  <1> DEFINE m == [ledger EXCEPT !.works[w] = r]
             l == [rev |-> ledger.rev + 1, works |-> [ledger.works EXCEPT ![w] = r],
                 cases |-> ledger.cases, notes |-> ledger.notes, apps |-> ledger.apps]
  <1>1. m = [rev |-> ledger.rev, works |-> [ledger.works EXCEPT ![w] = r],
                 cases |-> ledger.cases, notes |-> ledger.notes, apps |-> ledger.apps]
    BY DEF Ledger
  <1>2. WithWork(w, r) = [m EXCEPT !.rev = @ + 1]
    BY DEF WithWork, Stamp
  <1> HIDE DEF m
  <1>3. WithWork(w, r) = l
    BY <1>1, <1>2
  <1>4. l \in Ledger
    BY DEF Ledger
  <1> QED BY <1>3, <1>4 DEF works, cases, notes

LEMMA WithCaseShape ==
  ASSUME ledger \in Ledger, NEW c \in Cases, NEW r \in Case
  PROVE  /\ WithCase(c, r) \in Ledger
         /\ WithCase(c, r).cases = [cases EXCEPT ![c] = r]
         /\ WithCase(c, r).works = works /\ WithCase(c, r).notes = notes
         /\ WithCase(c, r).apps = ledger.apps
  <1> DEFINE m == [ledger EXCEPT !.cases[c] = r]
             l == [rev |-> ledger.rev + 1, works |-> ledger.works,
                 cases |-> [ledger.cases EXCEPT ![c] = r], notes |-> ledger.notes, apps |-> ledger.apps]
  <1>1. m = [rev |-> ledger.rev, works |-> ledger.works,
                 cases |-> [ledger.cases EXCEPT ![c] = r], notes |-> ledger.notes, apps |-> ledger.apps]
    BY DEF Ledger
  <1>2. WithCase(c, r) = [m EXCEPT !.rev = @ + 1]
    BY DEF WithCase, Stamp
  <1> HIDE DEF m
  <1>3. WithCase(c, r) = l
    BY <1>1, <1>2
  <1>4. l \in Ledger
    BY DEF Ledger
  <1> QED BY <1>3, <1>4 DEF works, cases, notes

LEMMA WithNoteShape ==
  ASSUME ledger \in Ledger, NEW n \in Notes, NEW r \in Note
  PROVE  /\ WithNote(n, r) \in Ledger
         /\ WithNote(n, r).notes = [notes EXCEPT ![n] = r]
         /\ WithNote(n, r).works = works /\ WithNote(n, r).cases = cases
         /\ WithNote(n, r).apps = ledger.apps
  <1> DEFINE m == [ledger EXCEPT !.notes[n] = r]
             l == [rev |-> ledger.rev + 1, works |-> ledger.works,
                 cases |-> ledger.cases, notes |-> [ledger.notes EXCEPT ![n] = r], apps |-> ledger.apps]
  <1>1. m = [rev |-> ledger.rev, works |-> ledger.works,
                 cases |-> ledger.cases, notes |-> [ledger.notes EXCEPT ![n] = r], apps |-> ledger.apps]
    BY DEF Ledger
  <1>2. WithNote(n, r) = [m EXCEPT !.rev = @ + 1]
    BY DEF WithNote, Stamp
  <1> HIDE DEF m
  <1>3. WithNote(n, r) = l
    BY <1>1, <1>2
  <1>4. l \in Ledger
    BY DEF Ledger
  <1> QED BY <1>3, <1>4 DEF works, cases, notes

\* The record with the application of key k replaced.
WithApp(k, r) == Stamp([ledger EXCEPT !.apps[k] = r])

LEMMA WithAppShape ==
  ASSUME ledger \in Ledger, NEW k \in Keys, NEW r \in App
  PROVE  /\ WithApp(k, r) \in Ledger
         /\ WithApp(k, r).apps = [ledger.apps EXCEPT ![k] = r]
         /\ WithApp(k, r).works = works /\ WithApp(k, r).cases = cases
         /\ WithApp(k, r).notes = notes
  <1> DEFINE m == [ledger EXCEPT !.apps[k] = r]
             l == [rev |-> ledger.rev + 1, works |-> ledger.works,
                 cases |-> ledger.cases, notes |-> ledger.notes, apps |-> [ledger.apps EXCEPT ![k] = r]]
  <1>1. m = [rev |-> ledger.rev, works |-> ledger.works,
                 cases |-> ledger.cases, notes |-> ledger.notes, apps |-> [ledger.apps EXCEPT ![k] = r]]
    BY DEF Ledger
  <1>2. WithApp(k, r) = [m EXCEPT !.rev = @ + 1]
    BY DEF WithApp, Stamp
  <1> HIDE DEF m
  <1>3. WithApp(k, r) = l
    BY <1>1, <1>2
  <1>4. l \in Ledger
    BY DEF Ledger
  <1> QED BY <1>3, <1>4 DEF works, cases, notes

LEMMA RecordTypes ==
  ASSUME TypeOK
  PROVE  /\ ledger \in Ledger
         /\ works \in [Works -> Work] /\ cases \in [Cases -> Case]
         /\ notes \in [Notes -> Note \cup {None}] /\ ledger.apps \in [Keys -> App]
  BY DEF TypeOK, Ledger, works, cases, notes

----------------------------------------------------------------------------
(* Steps that only move the metadata: commands, negotiation, and the       *)
(* execution of an inspected selection.  Each is one of three changes.     *)

WorkChange == \E w \in Works, r \in Work :
  /\ ledger' = WithWork(w, r) /\ r.state # "none" /\ SelectedBy(w) \cap reserved = {}

CaseChange == \E c \in Cases, r \in Case :
  /\ ledger' = WithCase(c, r) /\ c \notin reserved
  /\ r.state = "active" => \A w \in r.inputs :
       works[w].state # "none" /\ w \notin disposed /\ retiring[w] = "no"

NoteChange == \E n \in Notes, r \in Note :
  /\ ledger' = WithNote(n, r)
  /\ notes[n] # None => /\ r.case = notes[n].case /\ r.parties = notes[n].parties
                        /\ r.case \notin reserved

RecordStep ==
  /\ ledger' = ledger \/ WorkChange \/ CaseChange \/ NoteChange
  /\ uncertain' \in BOOLEAN /\ faults' \in 0..MaxTroubles
  /\ source' \in {source, Idle}
  /\ UNCHANGED <<reserved, retiring, version, changing, epoch, app, worldVars, fileVars>>

LEMMA CalmBounds ==
  ASSUME TypeOK, Calm
  PROVE  crashes + 1 \in 0..MaxTroubles /\ faults + 1 \in 0..MaxTroubles
  BY CoordinationConstants DEF Calm, TypeOK

LEMMA MetadataStep ==
  ASSUME TypeOK, NEW next, Metadata(next)
  PROVE  /\ ledger' \in {ledger, next} /\ source' = source
         /\ uncertain' \in BOOLEAN /\ faults' \in 0..MaxTroubles
         /\ UNCHANGED <<reserved, retiring, version, changing, epoch, app, worldVars, fileVars>>
  <1>1. ledger' \in {ledger, next} /\ UNCHANGED <<runtimeVars, worldVars, fileVars>>
    BY DEF Metadata, Publish, PublishUncertain
  <1>2. uncertain' \in BOOLEAN
    BY DEF Metadata, Publish, PublishUncertain, TypeOK
  <1>3. faults' \in 0..MaxTroubles
    BY CalmBounds DEF Metadata, Publish, PublishUncertain, TypeOK
  <1> QED BY <1>1, <1>2, <1>3 DEF runtimeVars

LEMMA CommandIsRecordStep ==
  ASSUME TypeOK, SelectionsHold, Command
  PROVE  RecordStep
  <1> USE RecordTypes DEF RecordStep
  <1>1. ASSUME NEW w \in Works, NEW r \in Work, Metadata(WithWork(w, r)),
               r.state # "none", SelectedBy(w) \cap reserved = {}
        PROVE  RecordStep
    BY <1>1, MetadataStep DEF WorkChange
  <1>2. ASSUME NEW c \in Cases, NEW r \in Case, Metadata(WithCase(c, r)), c \notin reserved,
               r.state = "active" => \A w \in r.inputs :
                 works[w].state # "none" /\ w \notin disposed /\ retiring[w] = "no"
        PROVE  RecordStep
    BY <1>2, MetadataStep DEF CaseChange
  <1>3. ASSUME NEW w \in Works, Register(w) PROVE RecordStep
    <2> DEFINE r == [state |-> "active", rev |-> 1, readers |-> FALSE]
    <2>1. r \in Work /\ r.state # "none" /\ Metadata(WithWork(w, r)) /\ works[w].state = "none"
      BY <1>3 DEF Register, Work, States
    <2>2. SelectedBy(w) = {}
      BY <2>1 DEF SelectedBy, SelectionsHold
    <2> HIDE DEF r
    <2> QED BY <1>1, <2>1, <2>2
  <1>4. ASSUME NEW w \in Works, NEW readers \in BOOLEAN, Share(w, readers) PROVE RecordStep
    <2> DEFINE r == [works[w] EXCEPT !.rev = @ + 1, !.readers = readers]
    <2>1. r \in Work /\ r.state # "none" /\ Metadata(WithWork(w, r))
      <3>1. works[w] \in Work /\ works[w].state # "none" /\ Metadata(WithWork(w, r))
        BY <1>4 DEF Share
      <3> DEFINE s == [works[w] EXCEPT !.rev = @ + 1]
      <3>2. s \in Work /\ s.state = works[w].state /\ r = [s EXCEPT !.readers = readers]
        BY <3>1 DEF Work
      <3> HIDE DEF s
      <3>3. [s EXCEPT !.readers = readers] \in Work /\ [s EXCEPT !.readers = readers].state = s.state
        BY <3>2 DEF Work
      <3> QED BY <3>1, <3>2, <3>3
    <2> HIDE DEF r
    <2> QED BY <1>1, <1>4, <2>1 DEF Share
  <1>5. ASSUME NEW w \in Works, CloseWork(w) PROVE RecordStep
    <2> DEFINE r == [works[w] EXCEPT !.rev = @ + 1, !.state = "closed"]
    <2>1. r \in Work /\ r.state # "none" /\ Metadata(WithWork(w, r))
      <3>1. works[w] \in Work /\ Metadata(WithWork(w, r))
        BY <1>5 DEF CloseWork
      <3> DEFINE s == [works[w] EXCEPT !.rev = @ + 1]
      <3>2. s \in Work /\ r = [s EXCEPT !.state = "closed"]
        BY <3>1 DEF Work
      <3> HIDE DEF s
      <3>3. [s EXCEPT !.state = "closed"] \in Work /\ [s EXCEPT !.state = "closed"].state # "none"
        BY <3>2 DEF Work, States
      <3> QED BY <3>1, <3>2, <3>3
    <2> HIDE DEF r
    <2> QED BY <1>1, <1>5, <2>1 DEF CloseWork
  <1>6. ASSUME NEW w \in Works, OperatorAdopt(w) PROVE RecordStep
    <2> DEFINE r == [works[w] EXCEPT !.rev = @ + 1]
    <2>1. r \in Work /\ r.state # "none" /\ Metadata(WithWork(w, r))
      BY <1>6 DEF OperatorAdopt, Work
    <2> HIDE DEF r
    <2> QED BY <1>1, <1>6, <2>1 DEF OperatorAdopt
  <1>7. ASSUME NEW c \in Cases, NEW e \in BOOLEAN, Claim(c, e) PROVE RecordStep
    <2> DEFINE r == [NoCase EXCEPT !.state = "active", !.rev = 1, !.elected = e]
    <2>1. r \in Case /\ r.inputs = {} /\ Metadata(WithCase(c, r)) /\ c \notin reserved
      BY <1>7 DEF Claim, NoCase, Case, States, SelectionsHold, Active
    <2> HIDE DEF r
    <2> QED BY <1>2, <2>1
  <1>8. ASSUME NEW c \in Cases, NEW r \in Case, LeadCommand(c, r),
               r.state = "active" => r.inputs = cases[c].inputs
        PROVE  RecordStep
    <2> DEFINE s == [r EXCEPT !.rev = @ + 1]
    <2>1. s \in Case /\ s.state = r.state /\ s.inputs = r.inputs
      BY DEF Case
    <2>2. Metadata(WithCase(c, s)) /\ c \notin reserved /\ Active(c)
      BY <1>8 DEF LeadCommand
    <2>3. s.state = "active" => \A w \in s.inputs :
            works[w].state # "none" /\ w \notin disposed /\ retiring[w] = "no"
      BY <1>8, <2>1, <2>2 DEF SelectionsHold
    <2> HIDE DEF s
    <2> QED BY <1>2, <2>1, <2>2, <2>3
  <1>9. ASSUME NEW c \in Cases, Transfer(c) PROVE RecordStep
    BY <1>8, <1>9 DEF Transfer
  <1>10. ASSUME NEW c \in Cases, SettleExternal(c) PROVE RecordStep
    <2> DEFINE r == [cases[c] EXCEPT !.effect = FALSE]
    <2>1. r \in Case /\ r.inputs = cases[c].inputs /\ LeadCommand(c, r)
      BY <1>10 DEF SettleExternal, Case
    <2> HIDE DEF r
    <2> QED BY <1>8, <2>1
  <1>11. ASSUME NEW c \in Cases, ReleaseCase(c) \/ OperatorRelease(c) PROVE RecordStep
    <2> DEFINE r == [cases[c] EXCEPT !.state = "closed"]
    <2>1. r \in Case /\ r.state # "active" /\ LeadCommand(c, r)
      BY <1>11 DEF ReleaseCase, OperatorRelease, Case, States
    <2> HIDE DEF r
    <2> QED BY <1>8, <2>1
  <1>12. ASSUME NEW c \in Cases, NEW w \in Works, Extend(c, w) PROVE RecordStep
    <2> DEFINE r == [[cases[c] EXCEPT !.inputs = @ \cup {w}] EXCEPT !.rev = @ + 1]
    <2>1. r \in Case /\ r.inputs = cases[c].inputs \cup {w}
      <3>1. cases[c] \in Case
        OBVIOUS
      <3> DEFINE s == [cases[c] EXCEPT !.inputs = @ \cup {w}]
      <3>2. s \in Case /\ s.inputs = cases[c].inputs \cup {w} /\ r = [s EXCEPT !.rev = @ + 1]
        BY <3>1 DEF Case
      <3> HIDE DEF s
      <3>3. [s EXCEPT !.rev = @ + 1] \in Case /\ [s EXCEPT !.rev = @ + 1].inputs = s.inputs
        BY <3>2 DEF Case
      <3> QED BY <3>2, <3>3
    <2>2. Active(c) /\ c \notin reserved /\ Metadata(WithCase(c, r))
      BY <1>12 DEF Extend, LeadCommand
    <2>3. \A v \in r.inputs : works[v].state # "none" /\ v \notin disposed /\ retiring[v] = "no"
      BY <1>12, <2>1, <2>2 DEF Extend, SelectionsHold
    <2> HIDE DEF r
    <2> QED BY <1>2, <2>1, <2>2, <2>3
  <1> QED BY <1>3, <1>4, <1>5, <1>6, <1>7, <1>9, <1>10, <1>11, <1>12 DEF Command

LEMMA NegotiationIsRecordStep ==
  ASSUME TypeOK, Negotiation
  PROVE  RecordStep
  <1> USE RecordTypes DEF RecordStep
  <1>1. ASSUME NEW n \in Notes, NEW r \in Note, Metadata(WithNote(n, r)),
               notes[n] # None => /\ r.case = notes[n].case /\ r.parties = notes[n].parties
                                  /\ r.case \notin reserved
        PROVE  RecordStep
    BY <1>1, MetadataStep DEF NoteChange
  <1>2. ASSUME NEW n \in Notes, NEW c \in Cases, NEW t \in Works, NEW p \in Notes \cup {None},
               Propose(n, c, t, p)
        PROVE  RecordStep
    <2> DEFINE r == [case |-> c, rev |-> cases[c].rev,
                     sources |-> [w \in Works |-> works[w].rev], parties |-> cases[c].inputs,
                     by |-> t, pred |-> p, acks |-> {}, withdrawn |-> FALSE]
    <2>1. cases[c].rev \in Nat /\ cases[c].inputs \in SUBSET Works
          /\ \A w \in Works : works[w].rev \in Nat
      BY DEF Case, Work
    <2>2. r \in Note
      BY <2>1 DEF Note
    <2>3. Metadata(WithNote(n, r)) /\ notes[n] = None
      BY <1>2 DEF Propose
    <2> HIDE DEF r
    <2> QED BY <1>1, <2>2, <2>3
  <1>3. ASSUME NEW n \in Notes, NEW t \in Works, Acknowledge(n, t) PROVE RecordStep
    <2> DEFINE r == [notes[n] EXCEPT !.acks = @ \cup {t}]
    <2>1. notes[n] \in Note /\ notes[n].case \notin reserved /\ Metadata(WithNote(n, r))
      BY <1>3 DEF Acknowledge, RecordCurrent, WorkerMay, CaseStill
    <2>2. r \in Note /\ r.case = notes[n].case /\ r.parties = notes[n].parties
      BY <2>1 DEF Note
    <2> HIDE DEF r
    <2> QED BY <1>1, <2>1, <2>2
  <1>4. ASSUME NEW n \in Notes, Withdraw(n) PROVE RecordStep
    <2> DEFINE r == [notes[n] EXCEPT !.withdrawn = TRUE]
    <2>1. notes[n] \in Note /\ notes[n].case \notin reserved /\ Metadata(WithNote(n, r))
      BY <1>4 DEF Withdraw, RecordCurrent, WorkerMay, CaseStill
    <2>2. r \in Note /\ r.case = notes[n].case /\ r.parties = notes[n].parties
      BY <2>1 DEF Note
    <2> HIDE DEF r
    <2> QED BY <1>1, <2>1, <2>2
  <1> QED BY <1>2, <1>3, <1>4 DEF Negotiation

LEMMA SourceTypes ==
  ASSUME TypeOK, source # Idle
  PROVE  /\ source \in Source /\ source.case \in Cases /\ source.inputs \in SUBSET Works
         /\ source.versions \in [Works -> Nat]
  BY DEF TypeOK, Source

LEMMA ExecuteIsRecordStep ==
  ASSUME TypeOK, SourceHolds, ExecuteSource
  PROVE  RecordStep
  <1> USE RecordTypes, SourceTypes DEF RecordStep
  <1> DEFINE c == source.case
             s == [cases[c] EXCEPT !.rev = @ + 1]
             s2 == [s EXCEPT !.inputs = source.inputs]
             r == [s2 EXCEPT !.effect = source.kind = "integrate"]
  <1>1. c \in Cases /\ cases[c] \in Case /\ source # Idle /\ source.pc = "inspected"
    BY DEF ExecuteSource
  <1>2. r \in Case /\ r.inputs = source.inputs
    <2>1. s \in Case
      BY <1>1 DEF Case
    <2> HIDE DEF s
    <2>2. s2 \in Case /\ s2.inputs = source.inputs
      BY <2>1, <1>1 DEF Case
    <2> HIDE DEF s2
    <2> QED BY <2>2 DEF Case
  <1>3. /\ source' = Idle
        /\ UNCHANGED <<reserved, retiring, version, changing, epoch, app, worldVars, fileVars>>
    BY DEF ExecuteSource
  <1>4. CASE UNCHANGED <<ledger, uncertain, faults>>
    BY <1>3, <1>4 DEF TypeOK
  <1>5. CASE SourceCurrent /\ (Publish(WithCase(c, r)) \/ PublishUncertain(WithCase(c, r)))
    <2>1. ledger' \in {ledger, WithCase(c, r)} /\ uncertain' \in BOOLEAN
      BY <1>5 DEF Publish, PublishUncertain, TypeOK
    <2>2. faults' \in 0..MaxTroubles
      BY <1>5, CalmBounds DEF Publish, PublishUncertain, TypeOK
    <2>3. c \notin reserved /\ \A w \in r.inputs :
            works[w].state # "none" /\ w \notin disposed /\ retiring[w] = "no"
      BY <1>1, <1>2, <1>5 DEF SourceCurrent, SourceHolds
    <2> HIDE DEF r
    <2> QED BY <1>1, <1>2, <1>3, <2>1, <2>2, <2>3 DEF CaseChange
  <1>6. \/ UNCHANGED <<ledger, uncertain, faults>>
        \/ SourceCurrent /\ (Publish(WithCase(c, r)) \/ PublishUncertain(WithCase(c, r)))
    BY DEF ExecuteSource
  <1> QED BY <1>4, <1>5, <1>6

\* What a metadata step leaves alone: reserved cases, the works they select, their notes.
LEMMA RecordStepStill ==
  ASSUME TypeOK, SelectionsHold, RecordStep
  PROVE  /\ ledger' \in Ledger /\ ledger'.apps = ledger.apps
         /\ \A c \in reserved : cases'[c] = cases[c]
         /\ \A c \in reserved : \A w \in cases[c].inputs : works'[w] = works[w]
         /\ \A n \in Notes : notes[n] # None /\ notes[n].case \in reserved => notes'[n] = notes[n]
         /\ \A n \in Notes : notes[n] # None =>
              /\ notes'[n] # None /\ notes'[n].case = notes[n].case
              /\ notes'[n].parties = notes[n].parties
         /\ \A w \in Works : works[w].state # "none" => works'[w].state # "none"
  <1> USE RecordTypes
  <1>0. reserved \subseteq Cases /\ \A c \in reserved : Active(c) /\ cases[c].inputs \subseteq Works
    BY DEF TypeOK, SelectionsHold, Case
  <1>1. CASE ledger' = ledger
    BY <1>1 DEF works, cases, notes
  <1>2. ASSUME NEW x \in Works, NEW r \in Work, ledger' = WithWork(x, r),
               r.state # "none", SelectedBy(x) \cap reserved = {}
        PROVE  /\ ledger' \in Ledger /\ ledger'.apps = ledger.apps
               /\ cases' = cases /\ notes' = notes
               /\ \A w \in Works : works[w].state # "none" => works'[w].state # "none"
               /\ \A c \in reserved : \A w \in cases[c].inputs : works'[w] = works[w]
    <2>1. /\ ledger' \in Ledger /\ works' = [works EXCEPT ![x] = r]
          /\ cases' = cases /\ notes' = notes /\ ledger'.apps = ledger.apps
      BY <1>2, WithWorkShape DEF works, cases, notes
    <2>2. \A c \in reserved : x \notin cases[c].inputs
      BY <1>0, <1>2 DEF SelectedBy
    <2> QED BY <1>0, <1>2, <2>1, <2>2
  <1>3. ASSUME NEW x \in Cases, NEW r \in Case, ledger' = WithCase(x, r), x \notin reserved
        PROVE  /\ ledger' \in Ledger /\ ledger'.apps = ledger.apps
               /\ works' = works /\ notes' = notes
               /\ \A c \in reserved : cases'[c] = cases[c]
    <2>1. /\ ledger' \in Ledger /\ cases' = [cases EXCEPT ![x] = r]
          /\ works' = works /\ notes' = notes /\ ledger'.apps = ledger.apps
      BY <1>3, WithCaseShape DEF works, cases, notes
    <2> QED BY <1>0, <1>3, <2>1
  <1>4. ASSUME NEW x \in Notes, NEW r \in Note, ledger' = WithNote(x, r),
               notes[x] # None => /\ r.case = notes[x].case /\ r.parties = notes[x].parties
                                  /\ r.case \notin reserved
        PROVE  /\ ledger' \in Ledger /\ ledger'.apps = ledger.apps
               /\ works' = works /\ cases' = cases
               /\ \A n \in Notes : notes[n] # None /\ notes[n].case \in reserved => notes'[n] = notes[n]
               /\ \A n \in Notes : notes[n] # None =>
                    /\ notes'[n] # None /\ notes'[n].case = notes[n].case
                    /\ notes'[n].parties = notes[n].parties
    <2>1. /\ ledger' \in Ledger /\ notes' = [notes EXCEPT ![x] = r]
          /\ works' = works /\ cases' = cases /\ ledger'.apps = ledger.apps
      BY <1>4, WithNoteShape DEF works, cases, notes
    <2> QED BY <1>4, <2>1, NoneIsNoNote
  <1>5. CASE WorkChange
    BY <1>2, <1>5 DEF WorkChange
  <1>6. CASE CaseChange
    BY <1>3, <1>6 DEF CaseChange
  <1>7. CASE NoteChange
    BY <1>4, <1>7 DEF NoteChange
  <1> QED BY <1>1, <1>5, <1>6, <1>7 DEF RecordStep

LEMMA RecordStepSelections ==
  ASSUME TypeOK, SelectionsHold, RecordStep
  PROVE  SelectionsHold'
  <1> USE RecordTypes
  <1>0. /\ UNCHANGED <<reserved, retiring, disposed>>
        /\ reserved \subseteq Cases
        /\ \A c \in Cases : cases[c].inputs \subseteq Works
    BY DEF RecordStep, worldVars, TypeOK, Case
  <1>1. \A c \in reserved : Active(c)'
    BY <1>0, RecordStepStill DEF SelectionsHold, Active
  <1>2. ASSUME cases' = cases
        PROVE  SelectionsHold'
    BY <1>0, <1>1, <1>2, RecordStepStill DEF SelectionsHold, Active
  <1>3. ASSUME NEW x \in Cases, NEW r \in Case, ledger' = WithCase(x, r),
               r.state = "active" => \A w \in r.inputs :
                 works[w].state # "none" /\ w \notin disposed /\ retiring[w] = "no"
        PROVE  SelectionsHold'
    <2>1. cases' = [cases EXCEPT ![x] = r] /\ works' = works
      BY <1>3, WithCaseShape DEF works, cases
    <2>2. ASSUME NEW c \in Cases, Active(c)', NEW w \in cases'[c].inputs
          PROVE  works'[w].state # "none" /\ w \notin disposed' /\ retiring'[w] = "no"
      <3>1. CASE c = x
        BY <1>0, <1>3, <2>1, <2>2, <3>1 DEF Active
      <3>2. CASE c # x
        BY <1>0, <2>1, <2>2, <3>2 DEF Active, SelectionsHold
      <3> QED BY <3>1, <3>2
    <2> QED BY <1>0, <1>1, <2>2 DEF SelectionsHold
  <1>4. CASE ledger' = ledger
    BY <1>2, <1>4 DEF cases
  <1>5. CASE WorkChange
    BY <1>2, <1>5, WithWorkShape DEF WorkChange, cases
  <1>6. CASE CaseChange
    BY <1>3, <1>6 DEF CaseChange
  <1>7. CASE NoteChange
    <2>1. cases' = cases
      <3>1. PICK n \in Notes, r \in Note : ledger' = WithNote(n, r)
        BY <1>7 DEF NoteChange
      <3> QED BY <3>1, WithNoteShape DEF cases
    <2> QED BY <1>2, <2>1
  <1> QED BY <1>4, <1>5, <1>6, <1>7 DEF RecordStep

\* An application is typed, and named by its proposal.
LEMMA ApplicationTypes ==
  ASSUME TypeOK, NEW k \in Keys, app[k] # Idle
  PROVE  /\ app[k] \in Application /\ app[k].task \in Works /\ app[k].note \in Notes
         /\ app[k].case \in Cases /\ app[k].parties \in SUBSET Works
         /\ app[k].status \in Statuses \cup {"none"}
  BY DEF TypeOK, Application

LEMMA RecordStepKeeps ==
  ASSUME IInv, RecordStep
  PROVE  IInv'
  <1> USE RecordTypes DEF IInv
  <1>1. /\ UNCHANGED <<reserved, retiring, version, changing, epoch, app, worldVars, fileVars>>
        /\ source' \in {source, Idle} /\ uncertain' \in BOOLEAN /\ faults' \in 0..MaxTroubles
    BY DEF RecordStep
  <1>2. TypeOK'
    BY <1>1, RecordStepStill DEF TypeOK, worldVars, fileVars
  <1>3. SelectionsHold'
    BY RecordStepSelections
  <1>4. SourceHolds'
    <2> SUFFICES ASSUME source' # Idle PROVE SourceHolds'
      BY DEF SourceHolds
    <2>1. source' = source
      BY <1>1
    <2> QED BY <1>1, <2>1, SourceTypes, RecordStepStill DEF SourceHolds, worldVars
  <1>5. ReservedApart'
    BY <1>1, RecordStepStill DEF ReservedApart
  <1>6. ASSUME NEW k \in Keys PROVE ApplicationHolds(k)'
    <2>1. ASSUME app[k] # Idle
          PROVE  /\ notes'[app[k].note] # None
                 /\ app[k].case = notes'[app[k].note].case
                 /\ app[k].parties = notes'[app[k].note].parties
      BY <2>1, ApplicationTypes, RecordStepStill DEF ApplicationHolds
    <2>2. ASSUME Running(k)
          PROVE  Agreement(notes[app[k].note])'
      <3> DEFINE m == notes[app[k].note]
      <3>1. /\ app[k].note \in Notes /\ m # None /\ m.case \in reserved /\ m.case \in Cases
            /\ Agreement(m)
        BY <2>2, ApplicationTypes DEF ApplicationHolds, Running
      <3>2. notes'[app[k].note] = m /\ cases'[m.case] = cases[m.case]
            /\ \A w \in cases[m.case].inputs : works'[w] = works[w]
        BY <3>1, RecordStepStill
      <3> QED BY <1>1, <3>1, <3>2 DEF Agreement, SourcesCurrent, Acknowledged
    <2>3. ledger'.apps = ledger.apps
      BY RecordStepStill
    <2> QED BY <1>1, <2>1, <2>2, <2>3 DEF ApplicationHolds, Running, Occupied, worldVars
  <1>7. RunningApart'
    BY <1>1 DEF RunningApart, Running
  <1>8. \A k \in Keys : EffectHolds(k)'
    BY <1>1, RecordStepStill DEF EffectHolds, Occupied, fileVars
  <1>9. OneUnresolved'
    BY RecordStepStill DEF OneUnresolved, Occupied
  <1> QED BY <1>2, <1>3, <1>4, <1>5, <1>6, <1>7, <1>8, <1>9

----------------------------------------------------------------------------
(* What a step keeps when it leaves the record alone.                      *)

LEMMA AgreementSame ==
  ASSUME NEW k \in Keys, Agreement(notes[app[k].note]),
         works' = works, cases' = cases, notes'[app'[k].note] = notes[app[k].note]
  PROVE  Agreement(notes[app[k].note])'
  <1>1. PICK m : m = notes[app[k].note]
    OBVIOUS
  <1>2. /\ m.parties \subseteq m.acks /\ ~m.withdrawn /\ cases'[m.case].rev = m.rev
        /\ m.parties = cases'[m.case].inputs
        /\ \A w \in m.parties : works'[w].state = "active" /\ works'[w].rev = m.sources[w]
    BY <1>1 DEF Agreement, SourcesCurrent, Acknowledged
  <1>3. notes'[app'[k].note] = m
    BY <1>1
  <1> QED BY <1>2, <1>3 DEF Agreement, SourcesCurrent, Acknowledged

\* The applications, their intents and the files stay as they are.
LEMMA ApplicationsSame ==
  ASSUME IInv, UNCHANGED <<ledger, reserved, app, intent, attempts, live>>
  PROVE  /\ \A k \in Keys : ApplicationHolds(k)' /\ EffectHolds(k)'
         /\ RunningApart' /\ OneUnresolved'
  <1> USE DEF IInv
  <1>1. ASSUME NEW k \in Keys PROVE ApplicationHolds(k)'
    <2>1. notes' = notes /\ works' = works /\ cases' = cases
      BY DEF notes, works, cases
    <2>2. Running(k) => Agreement(notes[app[k].note])'
      BY <2>1, AgreementSame DEF ApplicationHolds
    <2> QED BY <2>1, <2>2 DEF ApplicationHolds, Running, Occupied
  <1>2. \A k \in Keys : EffectHolds(k)'
    BY DEF EffectHolds, Occupied
  <1>3. RunningApart'
    BY DEF RunningApart, Running
  <1>4. OneUnresolved'
    BY DEF OneUnresolved, Occupied
  <1> QED BY <1>1, <1>2, <1>3, <1>4

\* An application moves on inside its reservation.
LEMMA ApplicationMoves ==
  ASSUME IInv, NEW k \in Keys, Running(k), NEW r, app'[k] = r, r # Idle,
         r.note = app[k].note, r.case = app[k].case, r.parties = app[k].parties,
         r.pc = "guarded" => \A w \in r.parties : live'[w],
         UNCHANGED <<ledger, reserved>>
  PROVE  ApplicationHolds(k)'
  <1> USE DEF IInv
  <1>1. notes' = notes /\ works' = works /\ cases' = cases
    BY DEF notes, works, cases
  <1>2. Agreement(notes[app[k].note])'
    BY <1>1, AgreementSame DEF ApplicationHolds
  <1>3. app[k] # Idle
    BY DEF Running
  <1> QED BY <1>1, <1>2, <1>3 DEF ApplicationHolds, Running, Occupied

----------------------------------------------------------------------------
(* Selections, retirements and the authority of tasks.                     *)

LEMMA PrepareKeeps ==
  ASSUME IInv, NEW c \in Cases, NEW kind \in {"select", "integrate"}, NEW inputs \in SUBSET Works,
         PrepareSource(c, kind, inputs)
  PROVE  IInv'
  <1> USE RecordTypes DEF IInv
  <1>1. /\ UNCHANGED <<ledger, uncertain, faults, reserved, retiring, version, changing, epoch,
                       app, worldVars, fileVars>>
        /\ source' = [pc |-> "prepared", kind |-> kind, case |-> c, rev |-> cases[c].rev,
                      inputs |-> inputs, versions |-> version]
        /\ \A w \in inputs : works[w].state # "none"
    BY DEF PrepareSource
  <1>2. source' \in Source
    BY <1>1, CoordinationConstants DEF Source, TypeOK, Case
  <1>3. TypeOK'
    BY <1>1, <1>2 DEF TypeOK, worldVars, fileVars
  <1>4. SourceHolds'
    BY <1>1 DEF SourceHolds, TypeOK, works
  <1>5. SelectionsHold' /\ ReservedApart'
    BY <1>1 DEF SelectionsHold, ReservedApart, Active, works, cases, worldVars
  <1>6. /\ \A k \in Keys : ApplicationHolds(k)' /\ EffectHolds(k)'
        /\ RunningApart' /\ OneUnresolved'
    BY <1>1, ApplicationsSame DEF worldVars, fileVars
  <1> QED BY <1>3, <1>4, <1>5, <1>6

LEMMA InspectKeeps ==
  ASSUME IInv, InspectSource
  PROVE  IInv'
  <1> USE RecordTypes, SourceTypes DEF IInv
  <1>1. /\ UNCHANGED <<ledger, uncertain, faults, reserved, retiring, version, changing, epoch,
                       app, worldVars, fileVars>>
        /\ source # Idle
        /\ \/ source' = Idle
           \/ source' = [source EXCEPT !.pc = "inspected"] /\ source.inputs \cap disposed = {}
    BY DEF InspectSource
  <1>2. source' # Idle => /\ source' \in Source /\ source'.inputs = source.inputs
                          /\ source'.versions = source.versions
                          /\ source.inputs \cap disposed = {}
    BY <1>1 DEF Source
  <1>3. TypeOK'
    BY <1>1, <1>2 DEF TypeOK, worldVars, fileVars
  <1>4. SourceHolds'
    BY <1>1, <1>2 DEF SourceHolds, works, worldVars
  <1>5. SelectionsHold' /\ ReservedApart'
    BY <1>1 DEF SelectionsHold, ReservedApart, Active, works, cases, worldVars
  <1>6. /\ \A k \in Keys : ApplicationHolds(k)' /\ EffectHolds(k)'
        /\ RunningApart' /\ OneUnresolved'
    BY <1>1, ApplicationsSame DEF worldVars, fileVars
  <1> QED BY <1>3, <1>4, <1>5, <1>6

LEMMA RetirementKeeps ==
  ASSUME IInv, Retirement
  PROVE  IInv'
  <1> USE RecordTypes, SourceTypes DEF IInv
  <1>1. PICK w \in Works : RetireReserve(w) \/ Dispose(w) \/ RetireRelease(w)
    BY DEF Retirement
  <1>2. UNCHANGED <<ledger, uncertain, faults, reserved, changing, epoch, source, app,
                    live, crashes, fileVars>>
    BY <1>1 DEF RetireReserve, Dispose, RetireRelease, worldVars
  <1>3. /\ ReservedApart' /\ RunningApart' /\ OneUnresolved'
        /\ \A k \in Keys : ApplicationHolds(k)' /\ EffectHolds(k)'
    BY <1>2, ApplicationsSame DEF ReservedApart, cases, fileVars
  <1>4. Bump(w) \in [Works -> Nat] /\ \A v \in Works : version[v] <= Bump(w)[v]
    BY DEF Bump, TypeOK
  <1>5. \A c \in Cases : cases[c].inputs \subseteq Works
    BY DEF Case
  <1>6. CASE RetireReserve(w)
    <2>1. /\ retiring' = [retiring EXCEPT ![w] = "reserved"] /\ version' = Bump(w)
          /\ disposed' = disposed /\ SelectedBy(w) = {}
      BY <1>6 DEF RetireReserve, worldVars
    <2>2. TypeOK'
      BY <1>2, <1>4, <2>1 DEF TypeOK, fileVars
    <2>3. SelectionsHold'
      BY <1>2, <1>5, <2>1 DEF SelectionsHold, SelectedBy, Active, works, cases, TypeOK
    <2>4. SourceHolds'
      <3>1. ASSUME source # Idle, NEW v \in source.inputs, source.pc = "inspected",
                   version'[v] = source.versions[v], retiring'[v] = "no"
            PROVE  v \notin disposed'
        BY <1>4, <2>1, <3>1 DEF SourceHolds, TypeOK
      <3> QED BY <1>2, <1>4, <2>1, <3>1 DEF SourceHolds, works, TypeOK
    <2> QED BY <1>3, <2>2, <2>3, <2>4
  <1>7. CASE Dispose(w)
    <2>1. /\ retiring' = [retiring EXCEPT ![w] = "settled"] /\ version' = version
          /\ disposed' = disposed \cup {w} /\ retiring[w] = "reserved"
      BY <1>7 DEF Dispose
    <2>2. TypeOK'
      BY <1>2, <2>1 DEF TypeOK, fileVars
    <2>3. SelectionsHold'
      BY <1>2, <1>5, <2>1 DEF SelectionsHold, Active, works, cases, TypeOK
    <2>4. SourceHolds'
      BY <1>2, <2>1 DEF SourceHolds, works, TypeOK
    <2> QED BY <1>3, <2>2, <2>3, <2>4
  <1>8. CASE RetireRelease(w)
    <2>1. /\ retiring' = [retiring EXCEPT ![w] = "no"] /\ version' = Bump(w)
          /\ disposed' = disposed /\ retiring[w] # "no"
      BY <1>8 DEF RetireRelease, worldVars
    <2>2. TypeOK'
      BY <1>2, <1>4, <2>1 DEF TypeOK, fileVars
    <2>3. SelectionsHold'
      BY <1>2, <1>5, <2>1 DEF SelectionsHold, Active, works, cases, TypeOK
    <2>4. SourceHolds'
      <3>1. ASSUME source # Idle, NEW v \in source.inputs, source.pc = "inspected",
                   version'[v] = source.versions[v], retiring'[v] = "no"
            PROVE  v \notin disposed'
        <4>1. CASE v = w
          <5>1. version'[w] = version[w] + 1 /\ source.versions[w] <= version[w]
            BY <2>1, <3>1, <4>1 DEF Bump, SourceHolds, TypeOK
          <5> QED BY <3>1, <4>1, <5>1 DEF TypeOK
        <4>2. CASE v # w
          BY <1>4, <2>1, <3>1, <4>2 DEF SourceHolds, TypeOK
        <4> QED BY <4>1, <4>2
      <3> QED BY <1>2, <1>4, <2>1, <3>1 DEF SourceHolds, works, TypeOK
    <2> QED BY <1>3, <2>2, <2>3, <2>4
  <1> QED BY <1>1, <1>6, <1>7, <1>8

LEMMA AuthorityKeeps ==
  ASSUME IInv, Authority
  PROVE  IInv'
  <1> USE RecordTypes DEF IInv
  <1>1. PICK w \in Works : BeginTransition(w) \/ EndTransition(w) \/ LoseAuthority(w) \/ Invalidate(w)
    BY DEF Authority
  <1>2. UNCHANGED <<ledger, uncertain, faults, reserved, retiring, version, source, app,
                    disposed, crashes, fileVars>>
    BY <1>1 DEF BeginTransition, EndTransition, LoseAuthority, Invalidate, runtimeVars, worldVars
  <1>3. (SelectionsHold /\ SourceHolds /\ RunningApart /\ OneUnresolved
           /\ \A k \in Keys : EffectHolds(k))'
    BY <1>2 DEF SelectionsHold, SourceHolds, RunningApart, OneUnresolved, EffectHolds, Running,
                Occupied, Active, works, cases, notes, fileVars
  <1>4. ASSUME live' = live
        PROVE  \A k \in Keys : ApplicationHolds(k)'
    BY <1>2, <1>4, ApplicationsSame DEF fileVars
  <1>5. CASE BeginTransition(w)
    <2>1. /\ changing' = [changing EXCEPT ![w] = SelectedBy(w)] /\ epoch' = epoch + 1
          /\ live' = live /\ \A c \in SelectedBy(w) : c \notin reserved
      BY <1>5 DEF BeginTransition, worldVars
    <2>2. TypeOK'
      BY <1>2, <2>1 DEF TypeOK, fileVars, SelectedBy
    <2>3. ReservedApart'
      BY <1>2, <2>1 DEF ReservedApart, SelectedBy, SelectionsHold, TypeOK, cases
    <2> QED BY <1>3, <1>4, <2>1, <2>2, <2>3
  <1>6. CASE EndTransition(w)
    <2>1. changing' = [changing EXCEPT ![w] = None] /\ epoch' = epoch + 1 /\ live' = live
      BY <1>6 DEF EndTransition, worldVars
    <2>2. TypeOK'
      BY <1>2, <2>1 DEF TypeOK, fileVars
    <2>3. ReservedApart'
      BY <1>2, <2>1 DEF ReservedApart, TypeOK, cases
    <2> QED BY <1>3, <1>4, <2>1, <2>2, <2>3
  <1>7. CASE LoseAuthority(w)
    <2>1. /\ changing' = changing /\ epoch' = epoch
          /\ live' = [live EXCEPT ![w] = FALSE] /\ w \notin Held
      BY <1>7 DEF LoseAuthority, runtimeVars
    <2>2. TypeOK'
      BY <1>2, <2>1 DEF TypeOK, fileVars
    <2>3. ReservedApart'
      BY <1>2, <2>1 DEF ReservedApart, cases
    <2>4. ASSUME NEW k \in Keys, app[k] # Idle, app[k].pc = "guarded"
          PROVE  \A v \in app[k].parties : live'[v]
      BY <2>1, <2>4, ApplicationTypes DEF Held, ApplicationHolds, TypeOK
    <2>5. ASSUME NEW k \in Keys PROVE ApplicationHolds(k)'
      <3>1. CASE Running(k)
        BY <1>2, <2>4, <3>1, ApplicationMoves DEF Running
      <3>2. CASE ~Running(k)
        BY <1>2, <3>2 DEF ApplicationHolds, Running, notes
      <3> QED BY <3>1, <3>2
    <2> QED BY <1>3, <2>2, <2>3, <2>5
  <1>8. CASE Invalidate(w)
    <2>1. changing' = changing /\ epoch' = epoch + 1 /\ live' = live
      BY <1>8 DEF Invalidate, worldVars
    <2>2. TypeOK'
      BY <1>2, <2>1 DEF TypeOK, fileVars
    <2>3. ReservedApart'
      BY <1>2, <2>1 DEF ReservedApart, cases
    <2> QED BY <1>3, <1>4, <2>1, <2>2, <2>3
  <1> QED BY <1>1, <1>5, <1>6, <1>7, <1>8

----------------------------------------------------------------------------
(* One application's step moves its own place, intent and record, and at   *)
(* most takes or returns the reservation of its case.                      *)

Reservation(k, r) ==
  \/ reserved' = reserved /\ (r # Idle /\ r.pc \notin {"captured", "checked"} =>
                                Running(k) /\ r.case = app[k].case)
  \/ /\ reserved' = reserved \cup {r.case} /\ r \in Application
     /\ Active(r.case) /\ CaseStill(r.case)
  \/ reserved' = reserved \ {app[k].case} /\ r = Idle /\ Running(k)

LEMMA ApplicationStepKeeps ==
  ASSUME IInv, NEW k \in Keys, NEW r \in Application \cup {Idle}, NEW p \in App,
         NEW i \in Intent, NEW n \in Nat,
         app' = [app EXCEPT ![k] = r], intent' = [intent EXCEPT ![k] = i],
         attempts' = [attempts EXCEPT ![k] = n],
         ledger' \in Ledger, ledger'.apps = [ledger.apps EXCEPT ![k] = p],
         works' = works, cases' = cases, notes' = notes,
         uncertain' \in BOOLEAN, faults' \in 0..MaxTroubles,
         UNCHANGED <<retiring, version, changing, epoch, source, worldVars>>,
         Reservation(k, r),
         \/ p = ledger.apps[k]
         \/ p.case = ledger.apps[k].case /\ ledger.apps[k].outcome # "rejected" /\ Occupied(k)
         \/ ~Unresolved(k, p.case),
         ApplicationHolds(k)', EffectHolds(k)'
  PROVE  IInv'
  <1> USE RecordTypes DEF IInv
  <1>1. reserved' \subseteq Cases
    BY ApplicationTypes DEF Reservation, TypeOK, Application, Running
  <1>2. TypeOK'
    BY <1>1 DEF TypeOK, worldVars
  <1>3. SelectionsHold' /\ ReservedApart'
    <2>1. /\ \A c \in reserved' : Active(c)
          /\ \A c \in reserved', w \in Works :
               changing[w] # None => c \notin changing[w] /\ w \notin cases[c].inputs
      BY DEF Reservation, SelectionsHold, ReservedApart, CaseStill
    <2> QED BY <2>1 DEF SelectionsHold, ReservedApart, Active, worldVars
  <1>4. SourceHolds'
    BY DEF SourceHolds, worldVars
  <1>5. \A q \in Keys \ {k} : /\ app'[q] = app[q] /\ intent'[q] = intent[q]
                              /\ attempts'[q] = attempts[q] /\ ledger'.apps[q] = ledger.apps[q]
    BY DEF TypeOK
  <1>6. app'[k] = r /\ ledger'.apps[k] = p
    BY DEF TypeOK
  <1>7. ASSUME NEW q \in Keys \ {k}
        PROVE  ApplicationHolds(q)' /\ EffectHolds(q)'
    <2>1. EffectHolds(q)'
      BY <1>5 DEF EffectHolds, Occupied
    <2>2. Running(q) => app[q].case \in reserved'
      BY DEF Reservation, ApplicationHolds, RunningApart
    <2>3. Running(q) => Agreement(notes[app[q].note])'
      BY <1>5, AgreementSame DEF ApplicationHolds
    <2>4. ApplicationHolds(q)'
      BY <1>5, <2>2, <2>3 DEF ApplicationHolds, Running, Occupied, worldVars
    <2> QED BY <2>1, <2>4
  <1>8. RunningApart'
    <2>1. ASSUME NEW q \in Keys \ {k}, Running(k)', Running(q)'
          PROVE  app'[k].case # app'[q].case
      <3>1. Running(q) /\ app'[q] = app[q] /\ app[q].case \in reserved
        BY <1>5, <2>1 DEF Running, ApplicationHolds
      <3>2. r # Idle /\ r.pc \notin {"captured", "checked"}
        BY <1>6, <2>1 DEF Running
      <3>3. CASE Running(k) /\ r.case = app[k].case
        BY <1>6, <3>1, <3>3 DEF RunningApart
      <3>4. CASE CaseStill(r.case)
        BY <1>6, <3>1, <3>4 DEF CaseStill
      <3> QED BY <3>2, <3>3, <3>4 DEF Reservation
    <2>2. ASSUME NEW q1 \in Keys \ {k}, NEW q2 \in Keys \ {k}, q1 # q2, Running(q1)', Running(q2)'
          PROVE  app'[q1].case # app'[q2].case
      BY <1>5, <2>2 DEF RunningApart, Running
    <2> QED BY <2>1, <2>2 DEF RunningApart
  <1>9. OneUnresolved'
    <2>1. ASSUME NEW q \in Keys \ {k}, Occupied(k)', Occupied(q)',
                 ledger'.apps[k].case = ledger'.apps[q].case
          PROVE  "rejected" \in {ledger'.apps[k].outcome, ledger'.apps[q].outcome}
      <3>1. Occupied(q) /\ ledger.apps[q].case = p.case
        BY <1>5, <1>6, <2>1 DEF Occupied
      <3>2. CASE p = ledger.apps[k]
        BY <1>5, <1>6, <2>1, <3>1, <3>2 DEF OneUnresolved, Occupied
      <3>3. CASE p.case = ledger.apps[k].case /\ ledger.apps[k].outcome # "rejected" /\ Occupied(k)
        BY <1>5, <3>1, <3>3 DEF OneUnresolved
      <3>4. CASE ~Unresolved(k, p.case)
        BY <1>5, <3>1, <3>4 DEF Unresolved
      <3> QED BY <3>2, <3>3, <3>4
    <2>2. ASSUME NEW q1 \in Keys \ {k}, NEW q2 \in Keys \ {k}, q1 # q2, Occupied(q1)', Occupied(q2)',
                 ledger'.apps[q1].case = ledger'.apps[q2].case
          PROVE  "rejected" \in {ledger'.apps[q1].outcome, ledger'.apps[q2].outcome}
      BY <1>5, <2>2 DEF OneUnresolved, Occupied
    <2> QED BY <2>1, <2>2 DEF OneUnresolved
  <1> QED BY <1>2, <1>3, <1>4, <1>7, <1>8, <1>9

\* A step of an application that leaves the record alone.
LEMMA PlaceStepKeeps ==
  ASSUME IInv, NEW k \in Keys, NEW r \in Application \cup {Idle},
         NEW i \in Intent, NEW n \in Nat,
         app' = [app EXCEPT ![k] = r], intent' = [intent EXCEPT ![k] = i],
         attempts' = [attempts EXCEPT ![k] = n],
         UNCHANGED <<ledger, uncertain, faults>>,
         UNCHANGED <<retiring, version, changing, epoch, source, worldVars>>,
         Reservation(k, r),
         ApplicationHolds(k)', EffectHolds(k)'
  PROVE  IInv'
  <1>1. /\ ledger \in Ledger /\ ledger.apps[k] \in App
        /\ ledger'.apps = [ledger.apps EXCEPT ![k] = ledger.apps[k]]
    BY RecordTypes DEF IInv
  <1>2. works' = works /\ cases' = cases /\ notes' = notes
    BY DEF works, cases, notes
  <1>3. uncertain' \in BOOLEAN /\ faults' \in 0..MaxTroubles /\ ledger' \in Ledger
    BY <1>1 DEF IInv, TypeOK
  <1>4. ledger.apps[k] = ledger.apps[k]
    OBVIOUS
  <1> QED BY <1>1, <1>2, <1>3, <1>4, ApplicationStepKeeps

\* What is known of one key.
LEMMA KeyTypes ==
  ASSUME TypeOK, NEW k \in Keys
  PROVE  /\ intent[k] \in Intent /\ attempts[k] \in Nat /\ ledger.apps[k] \in App
         /\ app[k] \in Application \cup {Idle}
         /\ intent = [intent EXCEPT ![k] = intent[k]]
         /\ attempts = [attempts EXCEPT ![k] = attempts[k]]
  BY RecordTypes DEF TypeOK

LEMMA CaptureKeeps ==
  ASSUME IInv, NEW k \in Keys, NEW t \in Works, NEW n \in Notes, CaptureApply(k, t, n)
  PROVE  IInv'
  <1> USE RecordTypes, KeyTypes DEF IInv
  <1> DEFINE r == [pc |-> "captured", task |-> t, note |-> n, case |-> notes[n].case,
                   parties |-> notes[n].parties, rev |-> ledger.rev, epoch |-> epoch,
                   status |-> intent[k].status]
  <1>1. /\ app' = [app EXCEPT ![k] = r]
        /\ UNCHANGED <<ledger, uncertain, faults, reserved, worldVars, fileVars>>
        /\ UNCHANGED <<retiring, version, changing, epoch, source>>
    BY DEF CaptureApply, Apply
  <1>2. notes[n] \in Note /\ notes[n] # None /\ intent[k].state \in {"none", "settled"}
    BY DEF CaptureApply, Selectable, RecordCurrent
  <1>3. r \in Application
    BY <1>2 DEF Application, Note, Intent, Ledger, TypeOK
  <1>4. r # Idle /\ app'[k] = r
    BY <1>1, <1>3 DEF TypeOK, Idle, Application
  <1>5. ApplicationHolds(k)'
    BY <1>1, <1>2, <1>4 DEF ApplicationHolds, Running, notes
  <1>6. EffectHolds(k)'
    BY <1>1, <1>2, <1>4 DEF EffectHolds, Occupied, fileVars
  <1>7. Reservation(k, r)
    BY <1>1 DEF Reservation
  <1> HIDE DEF r
  <1> QED BY <1>1, <1>3, <1>5, <1>6, <1>7, PlaceStepKeeps DEF fileVars

LEMMA CheckKeeps ==
  ASSUME IInv, NEW k \in Keys, CheckApply(k)
  PROVE  IInv'
  <1> USE RecordTypes, KeyTypes, ApplicationTypes DEF IInv
  <1>1. /\ app[k] # Idle /\ app[k].pc = "captured"
        /\ UNCHANGED <<ledger, uncertain, faults, reserved, worldVars, fileVars>>
        /\ UNCHANGED <<retiring, version, changing, epoch, source>>
    BY DEF CheckApply, Apply
  <1>2. PICK r \in {[app[k] EXCEPT !.pc = "checked"], Idle} : app' = [app EXCEPT ![k] = r]
    BY DEF CheckApply, Apply
  <1>3. app'[k] = r
    BY <1>2 DEF TypeOK
  <1>4. r # Idle => /\ r \in Application /\ r.pc = "checked" /\ r.note = app[k].note
                    /\ r.case = app[k].case /\ r.parties = app[k].parties
                    /\ r.status = app[k].status
    BY <1>1, <1>2 DEF Application
  <1>5. ApplicationHolds(k)'
    BY <1>1, <1>3, <1>4 DEF ApplicationHolds, Running, notes
  <1>6. EffectHolds(k)'
    BY <1>1, <1>3, <1>4 DEF EffectHolds, Occupied, fileVars
  <1>7. Reservation(k, r)
    BY <1>1, <1>4 DEF Reservation
  <1>8. /\ intent' = [intent EXCEPT ![k] = intent[k]]
        /\ attempts' = [attempts EXCEPT ![k] = attempts[k]]
        /\ r \in Application \cup {Idle}
    BY <1>1, <1>2, <1>4 DEF fileVars
  <1> QED BY <1>1, <1>2, <1>5, <1>6, <1>7, <1>8, PlaceStepKeeps

LEMMA FinishKeeps ==
  ASSUME IInv, NEW k \in Keys, NEW i \in Intent, NEW p \in App, Running(k), FinishApply(k),
         intent' = [intent EXCEPT ![k] = i], attempts' = attempts,
         ledger' \in Ledger, ledger'.apps = [ledger.apps EXCEPT ![k] = p],
         works' = works, cases' = cases, notes' = notes,
         uncertain' \in BOOLEAN, faults' \in 0..MaxTroubles, UNCHANGED worldVars,
         \/ p = ledger.apps[k]
         \/ p.case = ledger.apps[k].case /\ ledger.apps[k].outcome # "rejected" /\ Occupied(k),
         app'[k] = Idle => EffectHolds(k)'
  PROVE  IInv'
  <1> USE RecordTypes, KeyTypes DEF IInv
  <1>1. /\ app' = [app EXCEPT ![k] = Idle] /\ reserved' = reserved \ {app[k].case}
        /\ UNCHANGED <<retiring, version, changing, epoch, source>>
    BY DEF FinishApply, Apply
  <1>2. app'[k] = Idle
    BY <1>1 DEF TypeOK
  <1>3. ApplicationHolds(k)'
    BY <1>2 DEF ApplicationHolds, Running
  <1>4. Reservation(k, Idle)
    BY <1>1 DEF Reservation
  <1>5. EffectHolds(k)'
    BY <1>2
  <1> QED BY <1>1, <1>3, <1>4, <1>5, ApplicationStepKeeps

LEMMA AdmitKeeps ==
  ASSUME IInv, NEW k \in Keys, AdmitApply(k)
  PROVE  IInv'
  <1> USE RecordTypes, KeyTypes, ApplicationTypes DEF IInv
  <1> DEFINE a == app[k]
             r == [a EXCEPT !.pc = IF a.status = "none" THEN "admitted" ELSE "settled"]
             p == [note |-> a.note, case |-> a.case, outcome |-> "none"]
             next == Stamp([ledger EXCEPT !.apps[k] = [note |-> a.note, case |-> a.case, outcome |-> "none"]])
  <1>1. /\ app[k] # Idle /\ a.pc = "checked" /\ UNCHANGED <<worldVars, fileVars>>
        /\ UNCHANGED <<retiring, version, changing, epoch, source>>
    BY DEF AdmitApply, Apply
  <1>2. /\ a \in Application /\ a.note \in Notes /\ a.case \in Cases
        /\ a.case = notes[a.note].case /\ a.parties = notes[a.note].parties
        /\ notes[a.note] # None
    BY <1>1 DEF ApplicationHolds
  <1>3. p \in App
    BY <1>2 DEF App
  <1>4. next = WithApp(k, p)
    BY DEF WithApp
  <1>5. /\ next \in Ledger /\ next.apps = [ledger.apps EXCEPT ![k] = p]
        /\ next.works = works /\ next.cases = cases /\ next.notes = notes
    <2> HIDE DEF p, next
    <2> QED BY <1>3, <1>4, WithAppShape
  <1>6. ASSUME app' = [app EXCEPT ![k] = Idle], UNCHANGED reserved, ledger' \in {ledger, next},
               ledger' = next => AdmitCurrent(k) /\ ~Occupied(k),
               uncertain' \in BOOLEAN, faults' \in 0..MaxTroubles
        PROVE  IInv'
    <2>1. PICK q \in {ledger.apps[k], p} :
            /\ ledger' \in Ledger /\ ledger'.apps = [ledger.apps EXCEPT ![k] = q]
            /\ works' = works /\ cases' = cases /\ notes' = notes
            /\ q = ledger.apps[k] \/ (q = p /\ AdmitCurrent(k) /\ ~Occupied(k))
      <3>1. CASE ledger' = ledger
        <4>1. ledger.apps = [ledger.apps EXCEPT ![k] = ledger.apps[k]]
          OBVIOUS
        <4>2. works' = works /\ cases' = cases /\ notes' = notes
          BY <3>1 DEF works, cases, notes
        <4>3. ledger' \in Ledger
          BY <3>1
        <4> HIDE DEF next, p
        <4> QED BY <4>1, <4>2, <4>3, <3>1
      <3>2. CASE ledger' = next
        <4> HIDE DEF next, p
        <4> QED BY <1>5, <1>6, <3>2 DEF works, cases, notes
      <3> QED BY <1>6, <3>1, <3>2
    <2>2. app'[k] = Idle /\ ledger'.apps[k] = q /\ q \in App
      BY <1>3, <1>6, <2>1 DEF TypeOK
    <2>3. ApplicationHolds(k)'
      BY <2>2 DEF ApplicationHolds, Running
    <2>4. q # ledger.apps[k] => intent[k].state = "none" /\ ledger.apps[k].outcome = "none"
      BY <2>1 DEF EffectHolds
    <2>5. EffectHolds(k)'
      BY <1>1, <1>2, <2>1, <2>2, <2>4, CoordinationConstants DEF EffectHolds, Occupied, fileVars
    <2>6. Reservation(k, Idle)
      BY <1>6 DEF Reservation
    <2>7. q = ledger.apps[k] \/ ~Unresolved(k, q.case)
      BY <2>1 DEF AdmitCurrent
    <2>8. /\ intent' = [intent EXCEPT ![k] = intent[k]]
          /\ attempts' = [attempts EXCEPT ![k] = attempts[k]] /\ Idle \in Application \cup {Idle}
      BY <1>1 DEF fileVars
    <2> HIDE DEF p, next, r, a
    <2> QED BY <1>1, <1>6, <2>1, <2>2, <2>3, <2>5, <2>6, <2>7, <2>8, ApplicationStepKeeps
  <1>7. ASSUME app' = [app EXCEPT ![k] = r], reserved' = reserved \cup {a.case}, AdmitCurrent(k),
               UNCHANGED <<uncertain, faults>>,
               \/ ledger' = ledger /\ Occupied(k) /\ ledger.apps[k].case = a.case
               \/ ledger' = next /\ ~Occupied(k)
        PROVE  IInv'
    <2>1. PICK q \in {ledger.apps[k], p} :
            /\ ledger' \in Ledger /\ ledger'.apps = [ledger.apps EXCEPT ![k] = q]
            /\ works' = works /\ cases' = cases /\ notes' = notes
            /\ \/ q = ledger.apps[k] /\ Occupied(k)
               \/ q = p /\ ~Occupied(k)
            /\ q.case = a.case
      <3>1. CASE ledger' = ledger /\ Occupied(k) /\ ledger.apps[k].case = a.case
        <4>1. ledger.apps = [ledger.apps EXCEPT ![k] = ledger.apps[k]]
          OBVIOUS
        <4>2. works' = works /\ cases' = cases /\ notes' = notes
          BY <3>1 DEF works, cases, notes
        <4> HIDE DEF next, p
        <4> QED BY <3>1, <4>1, <4>2
      <3>2. CASE ledger' = next /\ ~Occupied(k)
        <4>1. p.case = a.case
          OBVIOUS
        <4> HIDE DEF next, p
        <4> QED BY <1>5, <3>2, <4>1 DEF works, cases, notes
      <3> QED BY <1>7, <3>1, <3>2
    <2>2. /\ r \in Application /\ r # Idle /\ r.case = a.case /\ r.note = a.note
          /\ r.parties = a.parties /\ r.status = a.status
          /\ r.pc = IF a.status = "none" THEN "admitted" ELSE "settled"
      BY <1>2 DEF Application, Idle
    <2>3. app'[k] = r /\ ledger'.apps[k] = q /\ q \in App
      BY <1>3, <1>7, <2>1 DEF TypeOK
    <2>4. Agreement(notes[a.note]) /\ Active(a.case) /\ CaseStill(a.case)
      BY <1>2, <1>7 DEF AdmitCurrent, Selectable, RecordCurrent, WorkerMay, Agreement
    <2>5. q.note # None
      BY <1>2, <2>1, CoordinationConstants DEF Occupied
    <2> HIDE DEF p, next, r
    <2>6. ApplicationHolds(k)'
      <3>1. Agreement(notes[app[k].note])'
        <4>1. notes'[app'[k].note] = notes[app[k].note]
          BY <2>1, <2>2, <2>3
        <4> QED BY <2>1, <2>4, <4>1, AgreementSame
      <3>2. /\ notes'[app'[k].note] # None /\ app'[k].case = notes'[app'[k].note].case
            /\ app'[k].parties = notes'[app'[k].note].parties
        BY <1>2, <2>1, <2>2, <2>3
      <3>3. app'[k].case \in reserved' /\ Occupied(k)' /\ ledger'.apps[k].case = app'[k].case
        BY <1>7, <2>1, <2>2, <2>3, <2>5 DEF Occupied
      <3>4. app'[k].pc # "guarded"
        BY <2>2, <2>3
      <3> QED BY <3>1, <3>2, <3>3, <3>4 DEF ApplicationHolds
    <2>7. EffectHolds(k)'
      <3>1. intent[k].state \in {"none", "settled"} /\ a.status = intent[k].status
        BY <1>1 DEF EffectHolds
      <3>2. q # ledger.apps[k] => intent[k].state = "none" /\ q.outcome = "none" /\ q.case # None
        BY <1>2, <2>1, CoordinationConstants DEF EffectHolds, p
      <3>4. intent[k].state = "settled" <=> intent[k].status # "none"
        BY DEF EffectHolds
      <3>3. \/ r.pc = "admitted" /\ intent[k].state = "none"
            \/ r.pc = "settled" /\ intent[k].state = "settled"
        <4>1. r.pc = IF intent[k].status = "none" THEN "admitted" ELSE "settled"
          BY <2>2, <3>1
        <4> QED BY <3>1, <3>4, <4>1
      <3> QED BY <1>1, <2>2, <2>3, <2>5, <3>1, <3>2, <3>3 DEF EffectHolds, Occupied, fileVars
    <2>8. Reservation(k, r)
      BY <1>7, <2>2, <2>4 DEF Reservation
    <2>9. q = ledger.apps[k] \/ ~Unresolved(k, q.case)
      BY <1>7, <2>1 DEF AdmitCurrent
    <2>10. uncertain' \in BOOLEAN /\ faults' \in 0..MaxTroubles
      BY <1>7 DEF TypeOK
    <2>11. /\ intent' = [intent EXCEPT ![k] = intent[k]]
           /\ attempts' = [attempts EXCEPT ![k] = attempts[k]]
      BY <1>1 DEF fileVars
    <2> HIDE DEF a
    <2> QED BY <1>1, <1>7, <2>1, <2>2, <2>3, <2>6, <2>7, <2>8, <2>9, <2>10, <2>11, ApplicationStepKeeps
  <1>8. CASE UNCHANGED <<ledger, uncertain, faults, reserved>> /\ app' = [app EXCEPT ![k] = Idle]
    <2>1. uncertain' \in BOOLEAN /\ faults' \in 0..MaxTroubles /\ ledger' = ledger
      BY <1>8 DEF TypeOK
    <2>2. ledger' = next => AdmitCurrent(k) /\ ~Occupied(k)
      <3>1. next.rev = ledger.rev + 1 /\ ledger.rev \in Nat
        BY DEF Stamp, Ledger
      <3> HIDE DEF next
      <3> QED BY <2>1, <3>1
    <2> HIDE DEF next
    <2> QED BY <1>6, <1>8, <2>1, <2>2
  <1>9. CASE AdmitCurrent(k) /\ ~Occupied(k) /\ PublishUncertain(next)
             /\ app' = [app EXCEPT ![k] = Idle] /\ UNCHANGED reserved
    <2>1. ledger' \in {ledger, next} /\ uncertain' \in BOOLEAN
      BY <1>9 DEF PublishUncertain
    <2>2. faults' \in 0..MaxTroubles
      BY <1>9, CalmBounds DEF PublishUncertain, TypeOK
    <2> HIDE DEF next
    <2> QED BY <1>6, <1>9, <2>1, <2>2
  <1>10. CASE /\ AdmitCurrent(k) /\ app' = [app EXCEPT ![k] = r] /\ reserved' = reserved \cup {a.case}
              /\ \/ UNCHANGED <<ledger, uncertain, faults>> /\ Occupied(k) /\ ledger.apps[k].case = a.case
                 \/ Publish(next) /\ ~Occupied(k)
    <2> HIDE DEF next, r
    <2> QED BY <1>7, <1>10 DEF Publish
  <1> HIDE DEF next
  <1>11. next = Stamp([ledger EXCEPT !.apps[k] = [note |-> a.note, case |-> a.case, outcome |-> "none"]])
    BY DEF next
  <1> QED BY <1>8, <1>9, <1>10, <1>11 DEF AdmitApply, Apply

\* Leaving a call whose record and intent stay as they are.
LEMMA AbandonKeeps ==
  ASSUME IInv, NEW k \in Keys, Running(k), FinishApply(k),
         UNCHANGED <<ledger, uncertain, faults, worldVars, fileVars>>
  PROVE  IInv'
  <1> USE RecordTypes, KeyTypes DEF IInv
  <1>1. /\ intent' = [intent EXCEPT ![k] = intent[k]] /\ attempts' = attempts
        /\ ledger'.apps = [ledger.apps EXCEPT ![k] = ledger.apps[k]] /\ ledger' \in Ledger
    BY DEF fileVars
  <1>2. works' = works /\ cases' = cases /\ notes' = notes
    BY DEF works, cases, notes
  <1>3. uncertain' \in BOOLEAN /\ faults' \in 0..MaxTroubles
    BY DEF TypeOK
  <1>4. app'[k] = Idle => EffectHolds(k)'
    BY DEF EffectHolds, Occupied, fileVars
  <1> QED BY <1>1, <1>2, <1>3, <1>4, FinishKeeps

LEMMA StartKeeps ==
  ASSUME IInv, NEW k \in Keys, StartEffect(k)
  PROVE  IInv'
  <1> USE RecordTypes, KeyTypes, ApplicationTypes DEF IInv
  <1>1. /\ app[k] # Idle /\ app[k].pc = "admitted" /\ Running(k)
        /\ UNCHANGED <<ledger, uncertain, faults, worldVars, attempts>>
    BY DEF StartEffect, Running
  <1>2. CASE FinishApply(k) /\ UNCHANGED intent
    BY <1>1, <1>2, AbandonKeeps DEF fileVars
  <1>3. ASSUME intent[k].state = "none", UNCHANGED reserved,
               intent' = [intent EXCEPT ![k] = [state |-> "started", note |-> app[k].note, status |-> "none"]],
               Apply(k, [app[k] EXCEPT !.pc = "started"])
        PROVE  IInv'
    <2> DEFINE r == [app[k] EXCEPT !.pc = "started"]
               i == [state |-> "started", note |-> app[k].note, status |-> "none"]
    <2>1. /\ r \in Application /\ r # Idle /\ r.pc = "started" /\ r.note = app[k].note
          /\ r.case = app[k].case /\ r.parties = app[k].parties
      BY <1>1 DEF Application, Idle
    <2>2. i \in Intent /\ i.state = "started" /\ i.status = "none"
      BY <1>1 DEF Intent
    <2>3. /\ app' = [app EXCEPT ![k] = r] /\ intent' = [intent EXCEPT ![k] = i]
          /\ attempts' = [attempts EXCEPT ![k] = attempts[k]]
          /\ UNCHANGED <<retiring, version, changing, epoch, source>>
      BY <1>1, <1>3 DEF Apply
    <2>4. app'[k] = r /\ intent'[k] = i
      BY <2>3 DEF TypeOK
    <2> HIDE DEF r, i
    <2>5. ApplicationHolds(k)'
      BY <1>1, <1>3, <2>1, <2>4, ApplicationMoves
    <2>6. EffectHolds(k)'
      <3>1. Occupied(k) /\ attempts[k] = 0 /\ ledger.apps[k].outcome = "none"
        BY <1>1, <1>3 DEF EffectHolds, ApplicationHolds
      <3> QED BY <1>1, <2>1, <2>2, <2>4, <3>1 DEF EffectHolds, Occupied
    <2>7. Reservation(k, r)
      BY <1>1, <1>3, <2>1 DEF Reservation
    <2> QED BY <1>1, <2>1, <2>2, <2>3, <2>5, <2>6, <2>7, PlaceStepKeeps
  <1> QED BY <1>1, <1>2, <1>3 DEF StartEffect

LEMMA GuardKeeps ==
  ASSUME IInv, NEW k \in Keys, GuardEffect(k)
  PROVE  IInv'
  <1> USE RecordTypes, KeyTypes, ApplicationTypes DEF IInv
  <1> DEFINE a == app[k]
             r1 == [a EXCEPT !.pc = "guarded"]
             r2 == [a EXCEPT !.pc = "landed", !.status = "rejected"]
  <1>1. /\ app[k] # Idle /\ app[k].pc = "started" /\ Running(k)
        /\ UNCHANGED <<ledger, uncertain, faults, reserved, worldVars, fileVars>>
        /\ UNCHANGED <<retiring, version, changing, epoch, source>>
        /\ app[k] \in Application
    BY DEF GuardEffect, Apply, Running
  <1>2. PICK r : /\ app' = [app EXCEPT ![k] = r]
                 /\ (r = r1 /\ FilesCurrent(k)) \/ r = r2
    <2>1. \/ app' = [app EXCEPT ![k] = r1] /\ FilesCurrent(k)
          \/ app' = [app EXCEPT ![k] = r2]
      BY DEF GuardEffect, Apply
    <2> HIDE DEF r1, r2
    <2> QED BY <2>1
  <1>3. r1 \in Application /\ r1 # Idle /\ r1.pc = "guarded" /\ r1.note = a.note
        /\ r1.case = a.case /\ r1.parties = a.parties
    BY <1>1 DEF Application, Idle
  <1>4. r2 \in Application /\ r2 # Idle /\ r2.pc = "landed" /\ r2.status = "rejected"
        /\ r2.note = a.note /\ r2.case = a.case /\ r2.parties = a.parties
    <2> DEFINE s == [a EXCEPT !.pc = "landed"]
    <2>1. s \in Application /\ s.pc = "landed" /\ s.note = a.note /\ s.case = a.case
          /\ s.parties = a.parties /\ r2 = [s EXCEPT !.status = "rejected"]
      BY <1>1 DEF Application
    <2> HIDE DEF s
    <2> QED BY <2>1 DEF Application, Statuses, Idle
  <1>5. app'[k] = r /\ r \in Application /\ r # Idle
    BY <1>2, <1>3, <1>4 DEF TypeOK
  <1> HIDE DEF r1, r2, a
  <1>6. r.note = app[k].note /\ r.case = app[k].case /\ r.parties = app[k].parties
    BY <1>2, <1>3, <1>4 DEF a
  <1>7. r.pc = "guarded" \/ (r.pc = "landed" /\ r.status = "rejected")
    BY <1>2, <1>3, <1>4
  <1>8. r.pc = "guarded" => \A w \in r.parties : live[w]
    <2>1. r.pc = "guarded" => FilesCurrent(k)
      BY <1>2, <1>3, <1>4
    <2> QED BY <1>1, <1>6, <2>1 DEF FilesCurrent, ApplicationHolds
  <1>9. ApplicationHolds(k)'
    BY <1>1, <1>5, <1>6, <1>8, ApplicationMoves DEF worldVars
  <1>10. EffectHolds(k)'
    <2>1. intent[k].state = "started" /\ attempts[k] = 0
      BY <1>1 DEF EffectHolds
    <2>2. r.pc = "landed" => r.status \in Statuses /\ Truth(r.status, 0)
      BY <1>7 DEF Truth, Statuses
    <2> QED BY <1>1, <1>5, <1>7, <2>1, <2>2 DEF EffectHolds, Occupied, fileVars
  <1>11. Reservation(k, r)
    BY <1>1, <1>6 DEF Reservation
  <1>12. /\ intent' = [intent EXCEPT ![k] = intent[k]]
         /\ attempts' = [attempts EXCEPT ![k] = attempts[k]]
    BY <1>1 DEF fileVars
  <1> QED BY <1>1, <1>2, <1>5, <1>9, <1>10, <1>11, <1>12, PlaceStepKeeps

LEMMA FileKeeps ==
  ASSUME IInv, NEW k \in Keys, FileEffect(k)
  PROVE  IInv'
  <1> USE RecordTypes, KeyTypes, ApplicationTypes DEF IInv
  <1>1. /\ app[k] # Idle /\ app[k].pc = "guarded" /\ Running(k) /\ app[k] \in Application
        /\ UNCHANGED <<ledger, uncertain, faults, reserved, worldVars, intent>>
        /\ UNCHANGED <<retiring, version, changing, epoch, source>>
    BY DEF FileEffect, Apply, Running
  <1>2. PICK s \in Statuses :
          /\ app' = [app EXCEPT ![k] = [app[k] EXCEPT !.pc = "landed", !.status = s]]
          /\ attempts' = IF s = "rejected" THEN attempts ELSE [attempts EXCEPT ![k] = @ + 1]
    BY DEF FileEffect, Apply
  <1> DEFINE r == [app[k] EXCEPT !.pc = "landed", !.status = s]
             n == IF s = "rejected" THEN attempts[k] ELSE attempts[k] + 1
  <1>3. r \in Application /\ r # Idle /\ r.pc = "landed" /\ r.status = s
        /\ r.note = app[k].note /\ r.case = app[k].case /\ r.parties = app[k].parties
    <2> DEFINE v == [app[k] EXCEPT !.pc = "landed"]
    <2>1. v \in Application /\ v.pc = "landed" /\ v.note = app[k].note /\ v.case = app[k].case
          /\ v.parties = app[k].parties /\ r = [v EXCEPT !.status = s]
      BY <1>1 DEF Application
    <2> HIDE DEF v
    <2>2. [v EXCEPT !.status = s] \in Application
      BY <2>1 DEF Application
    <2> QED BY <2>1, <2>2 DEF Application, Idle
  <1>4. app' = [app EXCEPT ![k] = r] /\ attempts' = [attempts EXCEPT ![k] = n] /\ n \in Nat
    <2>1. attempts' = [attempts EXCEPT ![k] = n]
      <3>1. CASE s = "rejected"
        BY <1>2, <3>1
      <3>2. CASE s # "rejected"
        BY <1>2, <3>2
      <3> QED BY <3>1, <3>2
    <2>2. n \in Nat
      OBVIOUS
    <2>3. app' = [app EXCEPT ![k] = r]
      BY <1>2
    <2> QED BY <2>1, <2>2, <2>3
  <1> HIDE DEF r
  <1>5. app'[k] = r /\ attempts'[k] = n
    BY <1>4 DEF TypeOK
  <1>6. ApplicationHolds(k)'
    BY <1>1, <1>3, <1>5, ApplicationMoves
  <1>7. EffectHolds(k)'
    <2>1. intent[k].state = "started" /\ attempts[k] = 0
      BY <1>1 DEF EffectHolds
    <2>2. n \in {0, 1} /\ Truth(s, n)
      BY <2>1 DEF Truth
    <2> HIDE DEF n
    <2> QED BY <1>1, <1>2, <1>3, <1>5, <2>1, <2>2 DEF EffectHolds, Occupied
  <1>8. Reservation(k, r)
    BY <1>1, <1>3 DEF Reservation
  <1>9. intent' = [intent EXCEPT ![k] = intent[k]]
    BY <1>1
  <1> HIDE DEF n
  <1> QED BY <1>1, <1>3, <1>4, <1>6, <1>7, <1>8, <1>9, PlaceStepKeeps

LEMMA SettleKeeps ==
  ASSUME IInv, NEW k \in Keys, SettleEffect(k)
  PROVE  IInv'
  <1> USE RecordTypes, KeyTypes, ApplicationTypes DEF IInv
  <1>1. /\ app[k] # Idle /\ app[k].pc = "landed" /\ Running(k) /\ app[k] \in Application
        /\ UNCHANGED <<ledger, uncertain, faults, worldVars, attempts>>
    BY DEF SettleEffect, Running
  <1>2. CASE FinishApply(k) /\ UNCHANGED intent
    BY <1>1, <1>2, AbandonKeeps DEF fileVars
  <1>3. ASSUME intent' = [intent EXCEPT ![k] = [@ EXCEPT !.state = "settled", !.status = app[k].status]],
               Apply(k, [app[k] EXCEPT !.pc = "settled"]), UNCHANGED reserved
        PROVE  IInv'
    <2> DEFINE r == [app[k] EXCEPT !.pc = "settled"]
               i == [intent[k] EXCEPT !.state = "settled", !.status = app[k].status]
    <2>1. /\ r \in Application /\ r # Idle /\ r.pc = "settled" /\ r.note = app[k].note
          /\ r.case = app[k].case /\ r.parties = app[k].parties /\ r.status = app[k].status
      BY <1>1 DEF Application, Idle
    <2>2. i \in Intent /\ i.state = "settled" /\ i.status = app[k].status
      <3> DEFINE v == [intent[k] EXCEPT !.state = "settled"]
      <3>1. v \in Intent /\ v.state = "settled" /\ i = [v EXCEPT !.status = app[k].status]
        BY <1>1 DEF Intent
      <3> HIDE DEF v
      <3> QED BY <1>1, <3>1 DEF Intent
    <2>3. /\ app' = [app EXCEPT ![k] = r] /\ intent' = [intent EXCEPT ![k] = i]
          /\ attempts' = [attempts EXCEPT ![k] = attempts[k]]
          /\ UNCHANGED <<retiring, version, changing, epoch, source>>
      BY <1>1, <1>3 DEF Apply
    <2> HIDE DEF r, i
    <2>4. app'[k] = r /\ intent'[k] = i
      BY <2>3 DEF TypeOK
    <2>5. ApplicationHolds(k)'
      BY <1>1, <1>3, <2>1, <2>4, ApplicationMoves
    <2>6. EffectHolds(k)'
      <3>1. /\ app[k].status \in Statuses /\ Truth(app[k].status, attempts[k])
            /\ ledger.apps[k].outcome = "none"
        BY <1>1 DEF EffectHolds
      <3>2. app[k].status # "none"
        BY <3>1 DEF Statuses
      <3> QED BY <1>1, <2>1, <2>2, <2>4, <3>1, <3>2 DEF EffectHolds, Occupied
    <2>7. Reservation(k, r)
      BY <1>1, <1>3, <2>1 DEF Reservation
    <2> QED BY <1>1, <2>1, <2>2, <2>3, <2>5, <2>6, <2>7, PlaceStepKeeps
  <1> QED BY <1>1, <1>2, <1>3 DEF SettleEffect

LEMMA RecordOutcomeKeeps ==
  ASSUME IInv, NEW k \in Keys, RecordOutcome(k)
  PROVE  IInv'
  <1> USE RecordTypes, KeyTypes, ApplicationTypes DEF IInv
  <1> DEFINE p == [ledger.apps[k] EXCEPT !.outcome = app[k].status]
             next == Stamp([ledger EXCEPT !.apps[k].outcome = app[k].status])
  <1>1. /\ app[k] # Idle /\ app[k].pc = "settled" /\ Running(k) /\ FinishApply(k)
        /\ UNCHANGED <<worldVars, fileVars>>
    BY DEF RecordOutcome, Running
  <1>2. CASE UNCHANGED <<ledger, uncertain, faults>>
    BY <1>1, <1>2, AbandonKeeps
  <1>3. ASSUME ledger.apps[k].outcome = "none", Publish(next) \/ PublishUncertain(next)
        PROVE  IInv'
    <2>1. CASE ledger' = ledger
      <3>1. ledger' \in Ledger /\ ledger'.apps = [ledger.apps EXCEPT ![k] = ledger.apps[k]]
        BY <2>1
      <3>2. works' = works /\ cases' = cases /\ notes' = notes
        BY <2>1 DEF works, cases, notes
      <3>3. uncertain' \in BOOLEAN
        BY <1>3 DEF Publish, PublishUncertain, TypeOK
      <3>4. faults' \in 0..MaxTroubles
        BY <1>3, CalmBounds DEF Publish, PublishUncertain, TypeOK
      <3>5. intent' = [intent EXCEPT ![k] = intent[k]] /\ attempts' = attempts
        BY <1>1 DEF fileVars
      <3>6. app'[k] = Idle => EffectHolds(k)'
        BY <1>1, <2>1 DEF EffectHolds, Occupied, fileVars
      <3> QED BY <1>1, <3>1, <3>2, <3>3, <3>4, <3>5, <3>6, FinishKeeps
    <2>2. CASE ledger' = next
      <3>1. p \in App /\ p.note = ledger.apps[k].note /\ p.case = ledger.apps[k].case
            /\ p.outcome = app[k].status
        BY <1>1 DEF App
      <3>2. next = WithApp(k, p)
        BY DEF WithApp
      <3> HIDE DEF next, p
      <3>3. /\ ledger' \in Ledger /\ ledger'.apps = [ledger.apps EXCEPT ![k] = p]
            /\ works' = works /\ cases' = cases /\ notes' = notes
        BY <2>2, <3>1, <3>2, WithAppShape DEF works, cases, notes
      <3>4. uncertain' \in BOOLEAN
        BY <1>3 DEF Publish, PublishUncertain, TypeOK
      <3>5. faults' \in 0..MaxTroubles
        BY <1>3, CalmBounds DEF Publish, PublishUncertain, TypeOK
      <3>6. intent' = [intent EXCEPT ![k] = intent[k]] /\ attempts' = attempts
        BY <1>1 DEF fileVars
      <3>7. ledger'.apps[k] = p
        BY <3>3
      <3>8. intent[k].state = "settled" /\ app[k].status = intent[k].status
        BY <1>1 DEF EffectHolds
      <3>9. app'[k] = Idle => EffectHolds(k)'
        BY <1>1, <3>1, <3>7, <3>8 DEF EffectHolds, Occupied, fileVars
      <3>10. Occupied(k) /\ ledger.apps[k].outcome # "rejected"
        BY <1>1, <1>3 DEF ApplicationHolds
      <3> QED BY <1>1, <3>1, <3>3, <3>4, <3>5, <3>6, <3>9, <3>10, FinishKeeps
    <2> HIDE DEF next
    <2> QED BY <1>3, <2>1, <2>2 DEF Publish, PublishUncertain
  <1>4. \/ UNCHANGED <<ledger, uncertain, faults>>
        \/ ledger.apps[k].outcome = "none" /\ (Publish(next) \/ PublishUncertain(next))
    BY DEF RecordOutcome
  <1> HIDE DEF next
  <1> QED BY <1>2, <1>3, <1>4

----------------------------------------------------------------------------
(* A restart, and the initial states.                                      *)

LEMMA CrashKeeps ==
  ASSUME IInv, Crash
  PROVE  IInv'
  <1> USE RecordTypes, KeyTypes DEF IInv
  <1>1. /\ reserved' = {} /\ source' = Idle /\ epoch' = 0 /\ uncertain' = FALSE
        /\ retiring' = [w \in Works |-> "no"] /\ version' = [w \in Works |-> 0]
        /\ changing' = [w \in Works |-> None] /\ app' = [k \in Keys |-> Idle]
        /\ crashes' \in 0..MaxTroubles
        /\ UNCHANGED <<ledger, faults, live, disposed>>
    BY CalmBounds, CoordinationConstants DEF Crash, TypeOK
  <1>2. intent' = [k \in Keys |-> IF intent[k].state = "started"
                                  THEN [intent[k] EXCEPT !.state = "unavailable"] ELSE intent[k]]
    BY DEF Crash
  <1>3. \A k \in Keys : /\ intent'[k] \in Intent /\ intent'[k].status = intent[k].status
                        /\ intent[k].state = "started" => intent'[k].state = "unavailable"
                        /\ intent[k].state # "started" => intent'[k].state = intent[k].state
    BY <1>2 DEF Intent
  <1>4. attempts' \in [Keys -> Nat] /\
        \A k \in Keys : \/ attempts'[k] = attempts[k]
                        \/ /\ app[k] # Idle /\ app[k].pc = "guarded"
                           /\ attempts'[k] = attempts[k] + 1
    BY DEF Crash, TypeOK
  <1>5. intent' \in [Keys -> Intent]
    BY <1>2, <1>3
  <1>6. TypeOK'
    BY <1>1, <1>4, <1>5 DEF TypeOK
  <1>7. SelectionsHold' /\ SourceHolds' /\ ReservedApart'
    BY <1>1 DEF SelectionsHold, SourceHolds, ReservedApart, Active, cases, works, Case
  <1>8. \A k \in Keys : ApplicationHolds(k)'
    BY <1>1 DEF ApplicationHolds, Running
  <1>9. RunningApart' /\ OneUnresolved'
    BY <1>1 DEF RunningApart, Running, OneUnresolved, Occupied
  <1>10. ASSUME NEW k \in Keys PROVE EffectHolds(k)'
    <2>1. app'[k] = Idle /\ ledger' = ledger
      BY <1>1
    <2>2. CASE attempts'[k] = attempts[k]
      BY <1>3, <2>1, <2>2 DEF EffectHolds, Occupied
    <2>3. CASE app[k] # Idle /\ app[k].pc = "guarded" /\ attempts'[k] = attempts[k] + 1
      <3>1. intent[k].state = "started" /\ attempts[k] = 0
        BY <2>3 DEF EffectHolds
      <3>2. attempts'[k] = 1 /\ intent'[k].state = "unavailable"
        BY <1>3, <2>3, <3>1
      <3> QED BY <1>3, <2>1, <3>1, <3>2 DEF EffectHolds, Occupied
    <2> QED BY <1>4, <2>2, <2>3
  <1> QED BY <1>6, <1>7, <1>8, <1>9, <1>10

LEMMA UnclaimedRecordHolds ==
  ASSUME NEW held \in SUBSET Works, ledger = UnclaimedRecord(held)
  PROVE  /\ ledger \in Ledger /\ ledger.apps = [k \in Keys |-> NoApp]
         /\ \A c \in Cases : ~Active(c)
  <1>1. \A s \in {"active", "none"} : NewWork(s) \in Work
    BY DEF NewWork, Work, States
  <1>2. NoCase \in Case
    BY DEF NoCase, Case, States
  <1>3. NoApp \in App
    BY DEF NoApp, App
  <1>4. ledger \in Ledger
    BY <1>1, <1>2, <1>3, CoordinationConstants DEF UnclaimedRecord, Ledger
  <1>5. \A c \in Cases : ~Active(c)
    BY DEF UnclaimedRecord, Active, cases, NoCase
  <1> QED BY <1>4, <1>5 DEF UnclaimedRecord

LEMMA AgreedRecordHolds ==
  ASSUME NEW case \in Started, NEW by \in [Agreed -> Works], ledger = AgreedRecord(case, by)
  PROVE  /\ ledger \in Ledger /\ ledger.apps = [k \in Keys |-> NoApp]
         /\ \A w \in Works : works[w].state = "active"
  <1>1. case \in Cases
    BY CoordinationConstants
  <1>2. NewWork("active") \in Work
    BY DEF NewWork, Work, States
  <1>3. NoCase \in Case /\ OpenCase \in Case
    BY DEF NoCase, OpenCase, Case, States
  <1>4. NoApp \in App
    BY DEF NoApp, App
  <1>5. \A n \in Agreed : AgreedNote(case, by[n]) \in Note
    BY <1>1 DEF AgreedNote, Note
  <1>6. Cardinality(Works) + 2 + Cardinality(Agreed) * (1 + Cardinality(Works)) \in Nat
    <2>1. Cardinality(Agreed) \in Nat /\ Cardinality(Works) \in Nat
      BY CoordinationConstants, FS_Subset, FS_CardinalityType
    <2>2. ASSUME NEW x \in Nat, NEW y \in Nat PROVE x * (1 + y) \in Nat
      OBVIOUS
    <2>3. Cardinality(Agreed) * (1 + Cardinality(Works)) \in Nat
      BY <2>1, <2>2
    <2> QED BY <2>1, <2>3
  <1>7. ledger \in Ledger
    <2>1. [w \in Works |-> NewWork("active")] \in [Works -> Work]
      BY <1>2
    <2>2. [c \in Cases |-> IF c = case THEN OpenCase ELSE NoCase] \in [Cases -> Case]
      BY <1>3
    <2>3. [n \in Notes |-> IF n \in Agreed THEN AgreedNote(case, by[n]) ELSE None]
            \in [Notes -> Note \cup {None}]
      BY <1>5
    <2>4. [k \in Keys |-> NoApp] \in [Keys -> App]
      BY <1>4
    <2> QED BY <1>6, <2>1, <2>2, <2>3, <2>4 DEF AgreedRecord, Ledger
  <1>8. \A w \in Works : works[w].state = "active"
    BY DEF AgreedRecord, works, NewWork
  <1> QED BY <1>7, <1>8 DEF AgreedRecord

LEMMA InitHolds == Init => IInv
  <1> SUFFICES ASSUME Init PROVE IInv
    OBVIOUS
  <1>1. /\ ledger \in Ledger /\ ledger.apps = [k \in Keys |-> NoApp]
        /\ (\A c \in Cases : ~Active(c)) \/ (\A w \in Works : works[w].state = "active")
    BY UnclaimedRecordHolds, AgreedRecordHolds DEF Init
  <1>2. /\ uncertain = FALSE /\ reserved = {} /\ epoch = 0 /\ source = Idle
        /\ retiring = [w \in Works |-> "no"] /\ version = [w \in Works |-> 0]
        /\ changing = [w \in Works |-> None] /\ app = [k \in Keys |-> Idle]
        /\ intent = [k \in Keys |-> NoIntent] /\ attempts = [k \in Keys |-> 0]
        /\ live = [w \in Works |-> TRUE] /\ disposed = {} /\ crashes = 0 /\ faults = 0
    BY DEF Init
  <1>3. TypeOK
    <2>1. NoIntent \in Intent
      BY DEF NoIntent, Intent
    <2>2. crashes \in 0..MaxTroubles /\ faults \in 0..MaxTroubles
      BY <1>2, CoordinationConstants
    <2> QED BY <1>1, <1>2, <2>1, <2>2 DEF TypeOK
  <1>4. SelectionsHold
    <2>1. \A c \in Cases : cases[c].inputs \subseteq Works
      BY <1>1 DEF cases, Ledger, Case
    <2>2. ASSUME NEW c \in Cases, Active(c), NEW w \in cases[c].inputs
          PROVE  works[w].state # "none"
      BY <1>1, <2>1, <2>2
    <2> QED BY <1>2, <2>1, <2>2 DEF SelectionsHold
  <1>5. SourceHolds /\ ReservedApart /\ RunningApart /\ \A k \in Keys : ApplicationHolds(k)
    BY <1>2 DEF SourceHolds, ReservedApart, RunningApart, ApplicationHolds, Running
  <1>6. OneUnresolved /\ \A k \in Keys : EffectHolds(k)
    BY <1>1, <1>2 DEF OneUnresolved, EffectHolds, Occupied, NoApp, NoIntent
  <1> QED BY <1>3, <1>4, <1>5, <1>6 DEF IInv

LEMMA StutterKeeps ==
  ASSUME IInv, UNCHANGED vars
  PROVE  IInv'
  <1>1. /\ UNCHANGED <<ledger, uncertain, reserved, retiring, version, changing, epoch, source, app>>
        /\ UNCHANGED <<intent, live, disposed, attempts, crashes, faults>>
    BY DEF vars
  <1>2. TypeOK'
    BY <1>1 DEF IInv, TypeOK
  <1>3. SelectionsHold' /\ SourceHolds' /\ ReservedApart'
    BY <1>1 DEF IInv, SelectionsHold, SourceHolds, ReservedApart, Active, works, cases
  <1>4. /\ \A k \in Keys : ApplicationHolds(k)' /\ EffectHolds(k)'
        /\ RunningApart' /\ OneUnresolved'
    BY <1>1, ApplicationsSame
  <1> QED BY <1>2, <1>3, <1>4 DEF IInv

LEMMA StepKeeps == IInv /\ [Next]_vars => IInv'
  <1> SUFFICES ASSUME IInv, [Next]_vars PROVE IInv'
    OBVIOUS
  <1> USE DEF IInv
  <1>1. CASE Command
    BY <1>1, CommandIsRecordStep, RecordStepKeeps
  <1>2. CASE Retirement
    BY <1>2, RetirementKeeps
  <1>3. CASE Authority
    BY <1>3, AuthorityKeeps
  <1>4. CASE Negotiation
    BY <1>4, NegotiationIsRecordStep, RecordStepKeeps
  <1>5. CASE ApplicationStep
    BY <1>5, CaptureKeeps, CheckKeeps, AdmitKeeps, StartKeeps, GuardKeeps, FileKeeps,
       SettleKeeps, RecordOutcomeKeeps DEF ApplicationStep
  <1>6. CASE \E c \in Cases, kind \in {"select", "integrate"}, s \in SUBSET Works : PrepareSource(c, kind, s)
    BY <1>6, PrepareKeeps
  <1>7. CASE InspectSource
    BY <1>7, InspectKeeps
  <1>8. CASE ExecuteSource
    BY <1>8, ExecuteIsRecordStep, RecordStepKeeps
  <1>9. CASE Crash
    BY <1>9, CrashKeeps
  <1>10. CASE UNCHANGED vars
    BY <1>10, StutterKeeps
  <1> HIDE DEF IInv
  <1> QED BY <1>1, <1>2, <1>3, <1>4, <1>5, <1>6, <1>7, <1>8, <1>9, <1>10 DEF Next

LEMMA Invariance == Spec => []IInv
  BY InitHolds, StepKeeps, PTL DEF Spec

----------------------------------------------------------------------------
(* The theorems.                                                           *)

\* Every variable keeps its type (coordination/control.ts and its store).
THEOREM CoordinationTyped == Spec => []TypeOK
  <1>1. IInv => TypeOK
    BY DEF IInv
  <1> QED BY <1>1, Invariance, PTL

\* No active case selects a task whose worktree was removed, however inspections and
\* retirements interleave (prepareSourceCommand, #executeCommand, reserveRetirement).
THEOREM SelectionsSpared == Spec => []SelectionKept
  <1>1. IInv => SelectionKept
    BY DEF IInv, SelectionsHold, SelectionKept
  <1> QED BY <1>1, Invariance, PTL

\* An application and the adoption of a task it was agreed with exclude each other
\* (withWorkerApplication and withWorkerTaskTransition).
THEOREM ApplicationsApart == Spec => []ReservedApart
  <1>1. IInv => ReservedApart
    BY DEF IInv
  <1> QED BY <1>1, Invariance, PTL

\* What is on record of an effect is true of the files, across restarts and
\* unacknowledged publications (withWorkerApplication, settlePeerOperationOutcome).
THEOREM OutcomesTrue == Spec => []OutcomeTruthful
  <1>1. IInv => OutcomeTruthful
    BY KeyTypes DEF IInv, EffectHolds, Truth, OutcomeTruthful
  <1> QED BY <1>1, Invariance, PTL

\* The files of a case are published at most once, for at most one key, whatever is
\* retried and however often the service dies (withWorkerApplication, startPeerOperation).
THEOREM PublishedOnce == Spec => []OnePublication
  <1>1. ASSUME IInv, NEW c \in Cases
        PROVE  LET done == {k \in Keys : ledger.apps[k].case = c /\ attempts[k] > 0} IN
               Cardinality(done) <= 1 /\ \A k \in done : attempts[k] = 1
    <2> DEFINE done == {k \in Keys : ledger.apps[k].case = c /\ attempts[k] > 0}
    <2>1. \A k \in done : attempts[k] = 1
      BY <1>1 DEF IInv, EffectHolds
    <2>2. ASSUME NEW k \in done, NEW q \in done, k # q PROVE FALSE
      <3>1. \A x \in {k, q} : Occupied(x) /\ ledger.apps[x].outcome # "rejected"
        BY <1>1, <2>1, KeyTypes DEF IInv, EffectHolds, Truth
      <3> QED BY <1>1, <2>2, <3>1 DEF IInv, OneUnresolved
    <2>3. Cardinality(done) <= 1
      <3>1. CASE done = {}
        BY <3>1, FS_EmptySet
      <3>2. CASE done # {}
        <4>1. PICK k : done = {k}
          <5>1. PICK k : k \in done
            BY <3>2
          <5> HIDE DEF done
          <5> QED BY <2>2, <5>1
        <4> HIDE DEF done
        <4> QED BY <4>1, FS_Singleton
      <3> QED BY <3>1, <3>2
    <2> QED BY <2>1, <2>3
  <1>2. IInv => OnePublication
    BY <1>1 DEF OnePublication
  <1> QED BY <1>2, Invariance, PTL

\* How the files and the record move, whatever the step.
LEMMA StepShape ==
  ASSUME IInv, [Next]_vars
  PROVE  \/ RecordStep
         \/ works' = works /\ cases' = cases /\ attempts' = attempts
         \/ works' = works /\ cases' = cases /\ \E k \in Keys : FileEffect(k)
         \/ Crash
  <1> USE RecordTypes DEF IInv
  <1>1. CASE Command \/ Negotiation \/ ExecuteSource
    BY <1>1, CommandIsRecordStep, NegotiationIsRecordStep, ExecuteIsRecordStep
  <1>2. CASE Retirement \/ Authority \/ UNCHANGED vars \/ InspectSource
    BY <1>2 DEF Retirement, RetireReserve, Dispose, RetireRelease, Authority, BeginTransition,
       EndTransition, LoseAuthority, Invalidate, InspectSource, vars, works, cases, fileVars
  <1>3. CASE \E c \in Cases, kind \in {"select", "integrate"}, s \in SUBSET Works : PrepareSource(c, kind, s)
    BY <1>3 DEF PrepareSource, works, cases, fileVars
  <1>4. ASSUME NEW k \in Keys,
               \/ \E t \in Works, n \in Notes : CaptureApply(k, t, n)
               \/ CheckApply(k) \/ StartEffect(k) \/ GuardEffect(k) \/ SettleEffect(k)
        PROVE  works' = works /\ cases' = cases /\ attempts' = attempts
    BY <1>4 DEF CaptureApply, CheckApply, StartEffect, GuardEffect, SettleEffect, works, cases,
       fileVars
  <1>5. ASSUME NEW k \in Keys, FileEffect(k)
        PROVE  works' = works /\ cases' = cases
    BY <1>5 DEF FileEffect, works, cases
  <1>6. ASSUME NEW k \in Keys, AdmitApply(k)
        PROVE  works' = works /\ cases' = cases /\ attempts' = attempts
    <2> DEFINE next == Stamp([ledger EXCEPT !.apps[k] =
                         [note |-> app[k].note, case |-> app[k].case, outcome |-> "none"]])
    <2>1. ledger' \in {ledger, next} /\ attempts' = attempts
      BY <1>6 DEF AdmitApply, Publish, PublishUncertain, fileVars
    <2>2. app[k].note \in Notes /\ app[k].case \in Cases
      BY <1>6, ApplicationTypes DEF AdmitApply
    <2>3. next = WithApp(k, [note |-> app[k].note, case |-> app[k].case, outcome |-> "none"])
      BY DEF WithApp
    <2>4. [note |-> app[k].note, case |-> app[k].case, outcome |-> "none"] \in App
      BY <2>2 DEF App
    <2> HIDE DEF next
    <2>5. next.works = works /\ next.cases = cases
      BY <2>3, <2>4, WithAppShape
    <2> QED BY <2>1, <2>5 DEF works, cases
  <1>7. ASSUME NEW k \in Keys, RecordOutcome(k)
        PROVE  works' = works /\ cases' = cases /\ attempts' = attempts
    <2> DEFINE next == Stamp([ledger EXCEPT !.apps[k].outcome = app[k].status])
               p == [ledger.apps[k] EXCEPT !.outcome = app[k].status]
    <2>1. ledger' \in {ledger, next} /\ attempts' = attempts
      BY <1>7 DEF RecordOutcome, Publish, PublishUncertain, fileVars
    <2>2. next = WithApp(k, p)
      BY DEF WithApp
    <2>3. p \in App
      BY <1>7, KeyTypes, ApplicationTypes DEF App, RecordOutcome, EffectHolds
    <2> HIDE DEF next, p
    <2>4. next.works = works /\ next.cases = cases
      BY <2>2, <2>3, WithAppShape
    <2> QED BY <2>1, <2>4 DEF works, cases
  <1> HIDE DEF IInv
  <1> QED BY <1>1, <1>2, <1>3, <1>4, <1>5, <1>6, <1>7 DEF Next, ApplicationStep

\* Nothing moves under a case reserved by an application: not the case, not what it
\* selects, not the works selected (#applicationCases in every mutation path).
THEOREM ReservedCasesStill == Spec => ReservedStill
  <1>1. ASSUME IInv, [Next]_vars
        PROVE  [\A c \in reserved \cap reserved' :
                  /\ cases'[c] = cases[c]
                  /\ \A w \in cases[c].inputs : works'[w] = works[w]]_vars
    <2>1. CASE RecordStep
      BY <1>1, <2>1, RecordStepStill DEF IInv
    <2>2. CASE works' = works /\ cases' = cases
      BY <2>2
    <2>3. CASE Crash
      BY <2>3 DEF Crash
    <2> QED BY <1>1, <2>1, <2>2, <2>3, StepShape
  <1> QED BY <1>1, Invariance, PTL DEF Spec, ReservedStill

\* Files are written only under an agreement in force, of live tasks, on the sources
\* agreed to (sourcesCurrent under withTaskPublication).
THEOREM EffectsConsented == Spec => EffectConsented
  <1>1. ASSUME IInv, [Next]_vars
        PROVE  [\A k \in Keys : attempts'[k] > attempts[k] => InForce(notes[app[k].note])]_vars
    <2>1. ASSUME NEW k \in Keys, attempts'[k] > attempts[k]
          PROVE  app[k] # Idle /\ app[k].pc = "guarded"
      <3>0. attempts \in [Keys -> Nat]
        BY <1>1 DEF IInv, TypeOK
      <3>1. CASE RecordStep
        BY <2>1, <3>0, <3>1 DEF RecordStep, fileVars
      <3>2. CASE attempts' = attempts
        BY <2>1, <3>0, <3>2
      <3>3. CASE \E q \in Keys : FileEffect(q)
        BY <2>1, <3>0, <3>3 DEF FileEffect
      <3>4. CASE Crash
        BY <2>1, <3>0, <3>4 DEF Crash
      <3> QED BY <1>1, <3>1, <3>2, <3>3, <3>4, StepShape
    <2>2. ASSUME NEW k \in Keys, app[k] # Idle, app[k].pc = "guarded"
          PROVE  InForce(notes[app[k].note])
      BY <1>1, <2>2 DEF IInv, ApplicationHolds, Running, Agreement, SourcesCurrent, InForce
    <2> QED BY <2>1, <2>2
  <1> QED BY <1>1, Invariance, PTL DEF Spec, EffectConsented

----------------------------------------------------------------------------
(* The receipts kept back.                                                 *)

\* Whatever is published fits, so the record always does.
LEMMA FitsKept == Fits(ledger) /\ [Next]_vars => Fits(ledger)'
  <1> SUFFICES ASSUME Fits(ledger), [Next]_vars PROVE Fits(ledger')
    OBVIOUS
  <1>1. ASSUME NEW next, Publish(next) \/ PublishUncertain(next) PROVE Fits(ledger')
    BY <1>1 DEF Publish, PublishUncertain
  <1>2. ASSUME NEW next, Metadata(next) PROVE Fits(ledger')
    BY <1>1, <1>2 DEF Metadata
  <1>3. ASSUME NEW c, NEW r, LeadCommand(c, r) PROVE Fits(ledger')
    BY <1>2, <1>3 DEF LeadCommand
  <1>4. CASE Command
    BY <1>2, <1>3, <1>4 DEF Command, Register, CloseWork, Share, OperatorAdopt, Claim, Transfer,
       SettleExternal, ReleaseCase, OperatorRelease, Extend
  <1>5. CASE Negotiation
    BY <1>2, <1>5 DEF Negotiation, Propose, Acknowledge, Withdraw
  <1>6. CASE ExecuteSource
    BY <1>1, <1>6 DEF ExecuteSource
  <1>7. CASE ApplicationStep
    <2>1. ASSUME NEW k \in Keys, AdmitApply(k) \/ RecordOutcome(k) PROVE Fits(ledger')
      BY <1>1, <2>1 DEF AdmitApply, RecordOutcome
    <2> QED BY <1>7, <2>1 DEF ApplicationStep, CaptureApply, CheckApply, StartEffect, GuardEffect,
               FileEffect, SettleEffect
  <1>8. CASE Retirement \/ Authority \/ InspectSource \/ Crash \/ UNCHANGED vars
    BY <1>8 DEF Retirement, RetireReserve, Dispose, RetireRelease, Authority, BeginTransition,
       EndTransition, LoseAuthority, Invalidate, InspectSource, Crash, vars
  <1>9. CASE \E c \in Cases, kind \in {"select", "integrate"}, s \in SUBSET Works : PrepareSource(c, kind, s)
    BY <1>9 DEF PrepareSource
  <1> QED BY <1>4, <1>5, <1>6, <1>7, <1>8, <1>9 DEF Next

\* A record is a receipt longer and a slot shorter: it fits where the old one did.
LEMMA SlotGivesReceipt ==
  ASSUME NEW l \in Ledger, NEW m \in Ledger, Fits(l), m.rev = l.rev + 1,
         m.works = l.works, m.notes = l.notes, NEW c \in Cases,
         \/ /\ l.cases[c].effect /\ m.cases = [l.cases EXCEPT ![c] = [@ EXCEPT !.effect = FALSE]]
         \/ /\ l.cases[c].state = "active"
            /\ m.cases = [l.cases EXCEPT ![c] = [@ EXCEPT !.state = "closed"]]
  PROVE  Fits(m)
  <1> DEFINE H(x) == {w \in Works : x.works[w].state = "active"}
             S(x) == {w \in Works : x.works[w].readers}
             O(x) == {d \in Cases : x.cases[d].state = "active"}
             R(x) == {d \in Cases : x.cases[d].effect}
             N(x) == {n \in Notes : x.notes[n] # None /\ ~x.notes[n].withdrawn}
  <1>1. H(m) = H(l) /\ S(m) = S(l) /\ N(m) = N(l)
    OBVIOUS
  <1>2. /\ IsFiniteSet(O(l)) /\ IsFiniteSet(R(l)) /\ IsFiniteSet(H(l)) /\ IsFiniteSet(S(l))
        /\ IsFiniteSet(N(l))
    BY CoordinationConstants, FS_Subset
  <1>3. /\ Cardinality(O(l)) \in Nat /\ Cardinality(R(l)) \in Nat /\ Cardinality(H(l)) \in Nat
        /\ Cardinality(S(l)) \in Nat /\ Cardinality(N(l)) \in Nat
    <2> HIDE DEF O, R, H, S, N
    <2> QED BY <1>2, FS_CardinalityType
  <1>4. l.cases \in [Cases -> Case] /\ l.rev \in Nat
    BY DEF Ledger
  <1>5. \/ O(m) = O(l) /\ R(m) = R(l) \ {c} /\ c \in R(l)
        \/ R(m) = R(l) /\ O(m) = O(l) \ {c} /\ c \in O(l)
    <2>1. CASE /\ l.cases[c].effect
               /\ m.cases = [l.cases EXCEPT ![c] = [@ EXCEPT !.effect = FALSE]]
      <3>1. /\ m.cases[c].state = l.cases[c].state /\ ~m.cases[c].effect
            /\ \A d \in Cases \ {c} : m.cases[d] = l.cases[d]
        BY <1>4, <2>1 DEF Case
      <3> QED BY <2>1, <3>1
    <2>2. CASE /\ l.cases[c].state = "active"
               /\ m.cases = [l.cases EXCEPT ![c] = [@ EXCEPT !.state = "closed"]]
      <3>1. /\ m.cases[c].effect = l.cases[c].effect /\ m.cases[c].state = "closed"
            /\ \A d \in Cases \ {c} : m.cases[d] = l.cases[d]
        BY <1>4, <2>2 DEF Case
      <3> QED BY <2>2, <3>1
    <2> QED BY <2>1, <2>2
  <1>6. Cardinality(O(m)) + Cardinality(R(m)) = Cardinality(O(l)) + Cardinality(R(l)) - 1
    <2> HIDE DEF O, R
    <2> QED BY <1>2, <1>3, <1>5, FS_RemoveElement
  <1>7. \A x : ReleaseSlots(x) = Cardinality(H(x)) + Cardinality(S(x)) + Cardinality(O(x))
                                  + Cardinality(R(x)) + Cardinality(N(x))
    BY DEF ReleaseSlots
  <1>8. /\ ReleaseSlots(m) + 1 = ReleaseSlots(l)
        /\ ReleaseSlots(l) \in Nat /\ ReleaseSlots(m) \in Nat
    <2>1. /\ Cardinality(H(m)) = Cardinality(H(l)) /\ Cardinality(S(m)) = Cardinality(S(l))
          /\ Cardinality(N(m)) = Cardinality(N(l))
      BY <1>1
    <2>2. Cardinality(O(m)) \in Nat /\ Cardinality(R(m)) \in Nat
      <3>1. IsFiniteSet(O(m)) /\ IsFiniteSet(R(m))
        BY CoordinationConstants, FS_Subset
      <3> HIDE DEF O, R
      <3> QED BY <3>1, FS_CardinalityType
    <2> HIDE DEF H, S, O, R, N
    <2> QED BY <1>3, <1>6, <1>7, <2>1, <2>2
  <1> QED BY <1>4, <1>8, CoordinationConstants DEF Fits

\* However full the record is, a lead can settle and release (releaseSlotsRequired).
THEOREM AlwaysAWayOut == Spec => []WayOutFits
  <1>1. Init => Fits(ledger)
    BY DEF Init
  <1>2. ASSUME TypeOK, Fits(ledger), NEW c \in Cases, Active(c)
        PROVE  LET settled == Stamp([ledger EXCEPT !.cases[c].effect = FALSE])
                   way == IF cases[c].effect THEN settled ELSE ledger
               IN  Fits(way) /\ Fits(Stamp([way EXCEPT !.cases[c].state = "closed"]))
    <2> DEFINE r == [cases[c] EXCEPT !.effect = FALSE]
               settled == Stamp([ledger EXCEPT !.cases[c].effect = FALSE])
               way == IF cases[c].effect THEN settled ELSE ledger
               closed == Stamp([way EXCEPT !.cases[c].state = "closed"])
    <2>1. ledger \in Ledger /\ cases[c] \in Case /\ r \in Case /\ r.state = "active"
      BY <1>2, RecordTypes DEF Case, Active
    <2>2. settled = WithCase(c, r)
      BY DEF WithCase, cases
    <2>3. /\ settled \in Ledger /\ settled.rev = ledger.rev + 1
          /\ settled.cases = [ledger.cases EXCEPT ![c] = [@ EXCEPT !.effect = FALSE]]
          /\ settled.works = ledger.works /\ settled.notes = ledger.notes
      <3>1. settled.rev = ledger.rev + 1
        BY <2>1 DEF Stamp, Ledger
      <3> HIDE DEF settled
      <3>2. /\ settled \in Ledger /\ settled.cases = [cases EXCEPT ![c] = r]
            /\ settled.works = works /\ settled.notes = notes
        BY <2>1, <2>2, WithCaseShape
      <3> QED BY <3>1, <3>2 DEF works, cases, notes
    <2> HIDE DEF settled
    <2>4. way \in Ledger /\ Fits(way) /\ way.cases[c].state = "active"
      <3>1. CASE cases[c].effect
        <4>1. Fits(settled)
          BY <1>2, <2>1, <2>3, <3>1, SlotGivesReceipt DEF cases
        <4>2. settled.cases[c] = r
          BY <2>1, <2>3, RecordTypes DEF cases, Ledger
        <4> QED BY <2>1, <2>3, <3>1, <4>1, <4>2
      <3>2. CASE ~cases[c].effect
        BY <1>2, <2>1, <3>2 DEF Active, cases
      <3> QED BY <3>1, <3>2
    <2> HIDE DEF way
    <2>5. /\ closed \in Ledger /\ closed.rev = way.rev + 1
          /\ closed.cases = [way.cases EXCEPT ![c] = [@ EXCEPT !.state = "closed"]]
          /\ closed.works = way.works /\ closed.notes = way.notes
      <3> DEFINE m == [way EXCEPT !.cases[c].state = "closed"]
                 k == [way.cases EXCEPT ![c] = [@ EXCEPT !.state = "closed"]]
      <3>1. m = [rev |-> way.rev, works |-> way.works, cases |-> k, notes |-> way.notes,
                 apps |-> way.apps]
        BY <2>4 DEF Ledger
      <3>2. closed = [m EXCEPT !.rev = @ + 1]
        BY DEF Stamp
      <3>3. k \in [Cases -> Case]
        BY <2>4 DEF Ledger, Case, States
      <3> HIDE DEF m, k
      <3>4. closed = [rev |-> way.rev + 1, works |-> way.works, cases |-> k, notes |-> way.notes,
                      apps |-> way.apps]
        BY <3>1, <3>2
      <3>5. closed \in Ledger
        BY <2>4, <3>3, <3>4 DEF Ledger
      <3> QED BY <3>4, <3>5 DEF k
    <2> HIDE DEF closed
    <2>6. Fits(closed)
      BY <2>4, <2>5, SlotGivesReceipt
    <2> QED BY <2>4, <2>6 DEF way, closed, settled
  <1>3. TypeOK /\ Fits(ledger) => WayOutFits
    BY <1>2 DEF WayOutFits
  <1> QED BY <1>1, <1>3, FitsKept, CoordinationTyped, PTL DEF Spec
=============================================================================
