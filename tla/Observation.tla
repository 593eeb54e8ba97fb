------------------------------ MODULE Observation ------------------------------
(***************************************************************************)
(* The monitor of one registered work (src/observation/monitor.ts) with    *)
(* the parts of the runtime that attach it, publish what it captures and   *)
(* answer a refresh (src/core/repository-runtime.ts), over ObservationStore.*)
(*                                                                         *)
(* Files are edited at any time.  Filesystem events are hints; a quiet     *)
(* timer, a refresh and a periodic sweep start captures.  The generation   *)
(* counter of the monitor is only compared with the one a run began with,  *)
(* so it is the field `fate' of the run: "current", "stale" after an       *)
(* invalidation, "gone" after the workspace was detached.  The epoch that  *)
(* serialized attachments compare is the field `stale' of `op'.            *)
(***************************************************************************)
EXTENDS ObservationStore, Sequences

CONSTANTS
  Batches         \* the paths of one analysis after the other (ANALYSIS_PATHS)

ASSUME MonitorConstants ==
  /\ Batches \in Seq((SUBSET Paths) \ {{}}) /\ Len(Batches) > 0

VARIABLES
  disk,           \* the working files
  rev,            \* the revision of the work, in the metadata store
  watching,       \* readers whose watch names that revision
  changing,       \* where the command that changed the work stands
  mon,            \* the monitor's state of the workspace, or Idle
  run,            \* the active run of the pump, or Idle
  op,             \* the attachment at the head of observationAttachTail
  waiting         \* the attachment behind it with the newest epoch

worldVars == disk
workVars == <<rev, watching, changing>>
attachVars == <<op, waiting>>
monitorVars == <<worldVars, workVars, mon, run, attachVars>>
vars == <<storeVars, readerVars, monitorVars>>

\* an active run, the state of a workspace, an attachment
Runs == [pc : {"watch", "open", "capture", "publish", "store"}, fate : {"current", "stale", "gone"},
         rev : Nat, at : 1 .. Len(Batches), got : [Paths -> Contents], left : SUBSET Paths]
Monitors == [rev : Nat, queue : {"clean", "timer", "queued"}, at : 1 .. Len(Batches),
             watch : BOOLEAN, event : BOOLEAN, seen : SUBSET Paths, failed : BOOLEAN]
Attachments == [kind : {"schedule", "refresh"}, rev : Nat, pc : {"attach", "wait", "check"},
                stale : BOOLEAN, outcome : {"none", "published", "incomplete", "superseded"},
                paths : SUBSET Paths, held : [Paths -> SUBSET Contents]]

ASSUME MonitorIdle == Idle \notin Runs \cup Monitors

Attachment(kind, of) == [kind |-> kind, rev |-> of, pc |-> "attach", stale |-> FALSE,
                         outcome |-> "none", paths |-> {}, held |-> [p \in Paths |-> {}]]

Init ==
  /\ StoreInit
  /\ disk = [p \in Paths |-> Base]
  /\ rev = 1 /\ watching \in SUBSET Readers /\ changing = "no"
  /\ mon = Idle /\ run = Idle
  /\ op = Idle /\ waiting = Attachment("schedule", 1)

-----------------------------------------------------------------------------
(* Invalidation and the queue.  `queue' of the monitor state is "clean"    *)
(* when nothing is to be captured, "timer" during the quiet interval and   *)
(* "queued" when the pump is to take it up.                                *)

Stale == IF run # Idle /\ run.fate = "current" THEN [run EXCEPT !.fate = "stale"] ELSE run

Invalidate(quiet) ==
  /\ mon' = [mon EXCEPT !.at = 1, !.queue = IF quiet /\ @ # "queued" THEN "timer" ELSE "queued"]
  /\ run' = Stale

\* resolving the waiters of a workspace
Settled(outcome, paths) ==
  IF op # Idle /\ op.pc = "wait" THEN [op EXCEPT !.pc = "check", !.outcome = outcome, !.paths = paths]
  ELSE op

-----------------------------------------------------------------------------
(* The world.                                                              *)

Edit(p, c) ==
  /\ Spend("edits")
  /\ disk[p] # c /\ disk' = [disk EXCEPT ![p] = c]
  /\ mon' = IF mon # Idle /\ mon.watch THEN [mon EXCEPT !.event = TRUE] ELSE mon
  /\ op' = IF op = Idle THEN op ELSE [op EXCEPT !.held[p] = @ \cup {c}]
  /\ UNCHANGED <<durableVars, readerVars, workVars, run, waiting>>

\* the callback of a watcher
Deliver ==
  /\ mon # Idle /\ mon.event
  /\ mon' = [mon EXCEPT !.event = FALSE, !.at = 1, !.queue = IF @ = "queued" THEN @ ELSE "timer"]
  /\ run' = Stale
  /\ UNCHANGED <<storeVars, readerVars, worldVars, workVars, attachVars>>

QuietOver ==
  /\ mon # Idle /\ mon.queue = "timer"
  /\ mon' = [mon EXCEPT !.queue = "queued"]
  /\ UNCHANGED <<storeVars, readerVars, worldVars, workVars, run, attachVars>>

Sweep ==
  /\ mon # Idle /\ Invalidate(FALSE)
  /\ UNCHANGED <<storeVars, readerVars, worldVars, workVars, attachVars>>

-----------------------------------------------------------------------------
(* A run of the pump.                                                      *)

\* the pump takes the workspace up; its inventory is listed
RunBegin ==
  /\ run = Idle /\ mon # Idle /\ mon.queue = "queued"
  /\ mon' = [mon EXCEPT !.queue = "clean"]
  /\ run' = [pc |-> "watch", fate |-> "current", rev |-> mon.rev, at |-> mon.at,
             got |-> [p \in Paths |-> Base], left |-> Batches[mon.at]]
  /\ UNCHANGED <<storeVars, readerVars, worldVars, workVars, attachVars>>

At(pc) == run # Idle /\ run.pc = pc
Running(pc) == At(pc) /\ run.fate = "current"

\* a run that is no longer current ends without a word
RunSuperseded ==
  /\ run # Idle /\ run.fate # "current" /\ run.pc \in {"watch", "capture", "publish"}
  /\ run' = Idle
  /\ UNCHANGED <<storeVars, readerVars, worldVars, workVars, mon, attachVars>>

\* replaceWatchers closes what was open, and with it what was not delivered
CloseWatchers ==
  /\ Running("watch")
  /\ mon' = [mon EXCEPT !.watch = FALSE, !.event = FALSE, !.seen = {}]
  /\ run' = [run EXCEPT !.pc = "open"]
  /\ UNCHANGED <<storeVars, readerVars, worldVars, workVars, attachVars>>

\* Mutant: the watchers are opened after the analysis.
OpenWatchersLate ==
  /\ At("open")
  /\ \/ /\ run.fate = "current" /\ run.left # {}
        /\ \E p \in run.left : run' = [run EXCEPT !.got[p] = disk[p], !.left = @ \ {p}]
        /\ UNCHANGED mon
     \/ /\ run.fate # "current" \/ run.left = {}
        /\ mon' = IF run.fate = "gone" THEN mon ELSE [mon EXCEPT !.watch = TRUE]
        /\ run' = IF run.fate = "current" THEN [run EXCEPT !.pc = "capture"] ELSE Idle
  /\ UNCHANGED <<storeVars, readerVars, worldVars, workVars, attachVars>>

\* and opens the new ones after it has read the directories, current or not.
\* Directories that cannot be read or watched, and the limits, leave coverage
\* out; here all of it or none, since only full coverage is relied upon.
OpenWatchers ==
  /\ At("open")
  /\ \E opened \in BOOLEAN :
       mon' = IF run.fate = "gone" THEN mon ELSE [mon EXCEPT !.watch = opened]
  /\ run' = IF run.fate = "current" THEN [run EXCEPT !.pc = "capture"] ELSE Idle
  /\ UNCHANGED <<storeVars, readerVars, worldVars, workVars, attachVars>>

\* the outcome of a failed run; the paths stay as they were
Incomplete ==
  IF run.fate # "current" THEN run' = Idle /\ UNCHANGED <<mon, op>>
  ELSE /\ run' = Idle
       /\ mon' = [mon EXCEPT !.failed = TRUE]
       /\ op' = Settled("incomplete", {})

\* analyzeObservation reads the work, then captures one path after the other
Capture(p) ==
  /\ Running("capture") /\ p \in run.left
  /\ run.left = Batches[run.at] => rev = run.rev
  /\ run' = [run EXCEPT !.got[p] = disk[p], !.left = @ \ {p}]
  /\ UNCHANGED <<storeVars, readerVars, worldVars, workVars, mon, attachVars>>

Captured ==
  /\ Running("capture") /\ run.left = {}
  /\ run' = [run EXCEPT !.pc = "publish", !.left = Batches[run.at]]
  /\ UNCHANGED <<storeVars, readerVars, worldVars, workVars, mon, attachVars>>

\* what a run that came to its end leaves: with batches left the next is queued
Finished(outcome, paths) ==
  LET more == run.at < Len(Batches) IN
  /\ run' = Idle
  /\ mon' = [mon EXCEPT !.failed = outcome = "incomplete", !.seen = paths,
               !.at = IF more THEN run.at + 1 ELSE 1,
               !.queue = IF more /\ @ = "clean" THEN "queued" ELSE @]
  /\ op' = Settled(outcome, paths)

AllPublished == Finished("published", Batches[run.at])

\* the work changed before the first capture: there is nothing to publish
CaptureRefused ==
  /\ Running("capture") /\ run.left = Batches[run.at] /\ rev # run.rev
  /\ Finished("incomplete", {})
  /\ UNCHANGED <<storeVars, readerVars, worldVars, workVars, waiting>>

\* the work changed since the workspace was attached: publish returns, and the
\* monitor takes it for done
PublishRefused ==
  /\ Running("publish") /\ rev # run.rev /\ AllPublished
  /\ UNCHANGED <<storeVars, readerVars, worldVars, workVars, waiting>>

\* one captured path is published under the capture index
Publish(p) ==
  /\ Running("publish") /\ p \in run.left /\ rev = run.rev
  /\ run' = [run EXCEPT !.pc = "store", !.left = @ \ {p}]
  /\ PutBegin([pc |-> "file", path |-> p, content |-> run.got[p], rev |-> rev,
               to |-> IF run.got[p] # Base THEN watching ELSE {}])
  /\ UNCHANGED <<readerVars, worldVars, workVars, mon, attachVars>>

PutEnded(pc) == At("store") /\ put # Idle /\ put.pc = pc /\ put' = Idle

\* the next path, or the end of the run
Published ==
  /\ PutEnded("done")
  /\ IF run.left # {} THEN run' = [run EXCEPT !.pc = "publish"] /\ UNCHANGED <<mon, op>>
     ELSE IF run.fate = "current" THEN AllPublished
     ELSE run' = Idle /\ UNCHANGED <<mon, op>>
  /\ UNCHANGED <<state, files, uncertain, budget, readerVars, worldVars, workVars,
                 waiting>>

PublishFails ==
  /\ PutEnded("failed") /\ Incomplete
  /\ UNCHANGED <<state, files, uncertain, budget, readerVars, worldVars, workVars,
                 waiting>>

RunStep ==
  \/ RunBegin \/ RunSuperseded \/ CloseWatchers \/ OpenWatchers
  \/ \E p \in Paths : Capture(p) \/ Publish(p)
  \/ CaptureRefused \/ Captured \/ PublishRefused \/ Published \/ PublishFails

-----------------------------------------------------------------------------
(* Attachments, one after the other.                                       *)

Outdated == IF op = Idle THEN op ELSE [op EXCEPT !.stale = TRUE]

\* structuralRefresh reads the work and takes a new epoch
Refresh ==
  /\ Spend("refreshes")
  /\ op' = Outdated /\ waiting' = Attachment("refresh", rev)
  /\ UNCHANGED <<durableVars, readerVars, worldVars, workVars, mon, run>>

\* the head of the tail is done; a scheduled attachment reads the work now
OpBegin ==
  /\ op = Idle /\ waiting # Idle
  /\ op' = IF waiting.kind = "schedule" THEN [waiting EXCEPT !.rev = rev] ELSE waiting
  /\ waiting' = Idle
  /\ UNCHANGED <<storeVars, readerVars, worldVars, workVars, mon, run>>

OpRefused ==
  /\ op # Idle /\ op.pc = "attach" /\ op.stale
  /\ op' = Idle
  /\ UNCHANGED <<storeVars, readerVars, worldVars, workVars, mon, run, waiting>>

\* Mutant: the request does not abort a run that is under way.
OpAttachJoining ==
  /\ op # Idle /\ op.pc = "attach" /\ ~op.stale
  /\ mon' = IF mon = Idle
            THEN [rev |-> op.rev, queue |-> "queued", at |-> 1, watch |-> FALSE, event |-> FALSE,
                  seen |-> {}, failed |-> FALSE]
            ELSE [mon EXCEPT !.rev = op.rev, !.queue = "queued", !.at = 1]
  /\ run' = run
  /\ op' = [op EXCEPT !.pc = "wait", !.held = [p \in Paths |-> {disk[p]}]]
  /\ UNCHANGED <<storeVars, readerVars, worldVars, workVars, waiting>>

\* ObservationMonitor.attach and the invalidation of its request
OpAttach ==
  /\ op # Idle /\ op.pc = "attach" /\ ~op.stale
  /\ mon' = IF mon = Idle
            THEN [rev |-> op.rev, queue |-> "queued", at |-> 1, watch |-> FALSE, event |-> FALSE,
                  seen |-> {}, failed |-> FALSE]
            ELSE [mon EXCEPT !.rev = op.rev, !.queue = "queued", !.at = 1]
  /\ run' = Stale
  /\ op' = [op EXCEPT !.pc = "wait", !.held = [p \in Paths |-> {disk[p]}]]
  /\ UNCHANGED <<storeVars, readerVars, worldVars, workVars, waiting>>

Detached == IF mon # Idle /\ run # Idle THEN [run EXCEPT !.fate = "gone"] ELSE run

\* Is the attachment still what the work and its epoch ask for?
Confirmed == ~op.stale /\ rev = op.rev

\* the check after the capture; a refresh is answered with its outcome
OpCheck ==
  /\ op # Idle /\ op.pc = "check" /\ op' = Idle
  /\ IF Confirmed THEN UNCHANGED <<mon, run>> ELSE mon' = Idle /\ run' = Detached
  /\ UNCHANGED <<storeVars, readerVars, worldVars, workVars, waiting>>

\* watch_source: a new revision, for which every watch and grant is written anew
Watch(readers) ==
  /\ changing = "no" /\ Spend("watches") /\ rev' = rev + 1
  /\ watching' = readers /\ changing' = "forget"
  /\ UNCHANGED <<durableVars, readerVars, worldVars, mon, run, attachVars>>

\* forgetObservation under the capture index
Forget ==
  /\ changing = "forget" /\ ~At("store")
  /\ changing' = "schedule" /\ mon' = Idle /\ run' = Detached
  /\ op' = IF op # Idle /\ op.pc = "wait"
           THEN [op EXCEPT !.stale = TRUE, !.pc = "check", !.outcome = "superseded"] ELSE Outdated
  /\ waiting' = Idle
  /\ UNCHANGED <<storeVars, readerVars, worldVars, rev, watching>>

Schedule ==
  /\ changing = "schedule" /\ changing' = "no"
  /\ op' = Outdated /\ waiting' = Attachment("schedule", rev)
  /\ UNCHANGED <<storeVars, readerVars, worldVars, rev, watching, mon, run>>

\* the service dies; the next one attaches every active work
Crash ==
  /\ StoreCrash
  /\ changing' = "no" /\ mon' = Idle /\ run' = Idle /\ op' = Idle
  /\ waiting' = Attachment("schedule", rev)
  /\ UNCHANGED <<worldVars, rev, watching>>

StoreStep ==
  /\ PutFile \/ PutFileFails \/ PutState \/ PutSweep
  /\ UNCHANGED monitorVars

ReaderStep ==
  /\ budget.readers > 0
  /\ \/ \E r \in Readers : Pull(r, rev)
     \/ \E n \in state.notices : Ack(n)
     \/ \E q \in state.reports, to \in Readers, e \in Events \ {"none"} :
          q.rev = rev /\ NotifyExisting(q, to, e)
  /\ UNCHANGED monitorVars

AttachStep == Refresh \/ OpBegin \/ OpRefused \/ OpAttach \/ OpCheck

Next ==
  \/ \E p \in Paths, c \in Contents : Edit(p, c)
  \/ Deliver \/ QuietOver \/ Sweep
  \/ RunStep \/ AttachStep \/ StoreStep \/ ReaderStep
  \/ \E readers \in SUBSET Readers : Watch(readers)
  \/ Forget \/ Schedule \/ Crash

Spec == Init /\ [][Next]_vars

-----------------------------------------------------------------------------
(* A refresh answered as done tells of files as they were after it was     *)
(* asked: a capture begun before the request never answers it.             *)
RefreshSeesEdits ==
  op # Idle /\ op.pc = "check" /\ op.outcome = "published" /\ Confirmed =>
    \A p \in op.paths : \A r \in Latest(p) : r.content \in op.held[p] /\ r.rev = rev

(* When the monitor rests, the newest report of each path it captured      *)
(* under the open watchers is what the file holds: no edit slips between   *)
(* the capture and the watchers, or between two generations of watchers.   *)
Resting ==
  /\ mon # Idle /\ mon.queue = "clean" /\ mon.watch /\ ~mon.event /\ ~mon.failed
  /\ run = Idle /\ mon.rev = rev
RestIsCurrent ==
  Resting => \A p \in mon.seen : \A r \in Latest(p) : r.content = disk[p] /\ r.rev = rev
=============================================================================
