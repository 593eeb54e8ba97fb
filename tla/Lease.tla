-------------------------------- MODULE Lease --------------------------------
(***************************************************************************)
(* The repository lease (src/core/lease.ts): one process at a time may     *)
(* write the repository's store.                                           *)
(*                                                                         *)
(* A process publishes a complete owner record as a candidate file and     *)
(* hard-links it to the lock path, so a lock always names its owner.  A    *)
(* lock whose owner is dead is removed only by a helper that holds an      *)
(* exclusive flock on a permanent guard file; its parent validates the     *)
(* owner while the helper holds the guard and then sends the file identity *)
(* the helper may remove.                                                  *)
(*                                                                         *)
(* File identities are inode numbers from a finite set and are reused as   *)
(* soon as the last link is gone.  A process that dies never returns (its  *)
(* pid, boot id and start time are its identity): a restart is another     *)
(* process.  Its helper outlives it and sees the end of its input.         *)
(*                                                                         *)
(* Nothing ties the owner record that is read to the file whose number is  *)
(* compared: see ReadOwner, JudgeOwner and the history variable reused.    *)
(* Locks of the older directory format are not modelled.                   *)
(***************************************************************************)
EXTENDS Naturals, FiniteSets

CONSTANTS
  Processes,      \* processes that may want the lease, each with one life
  Inodes,         \* file identities of the store's filesystem
  Former,         \* of them those that may be of an earlier life, dead by now
  NoProcess,
  NoInode

ASSUME LeaseConstants ==
  /\ NoProcess \notin Processes
  /\ NoInode \notin Inodes
  /\ Former \subseteq Processes

VARIABLES
  lock,           \* the inode the lock path names, or NoInode
  record,         \* the owner record inside each inode
  alive,          \* the processes that have not died
  pc,             \* where each process's acquireRepositoryLease stands
  mine,           \* the inode of each process's candidate, then of its lock
  temporary,      \* does the process's candidate path still exist
  guard,          \* whose helper holds the flock on the guard file
  helper,         \* where each process's helper stands
  seen,           \* the lock identity each process validated, and sent
  named,          \* the owner each process read at the lock path
  reused          \* history: did the filesystem hand out a file number again
                  \* while a living process was validating the file that had it

vars == <<lock, record, alive, pc, mine, temporary, guard, helper, seen, named, reused>>

Steps == {"idle", "created", "linked", "owned", "held", "releasing", "refused",
          "waiting", "validating", "read", "judged", "commanded", "lost"}
HelperSteps == {"none", "queued", "ready", "told", "checked", "removed", "declined"}

TypeOK ==
  /\ lock \in Inodes \cup {NoInode}
  /\ record \in [Inodes -> Processes \cup {NoProcess}]
  /\ alive \in SUBSET Processes
  /\ pc \in [Processes -> Steps]
  /\ mine \in [Processes -> Inodes \cup {NoInode}]
  /\ temporary \in [Processes -> BOOLEAN]
  /\ guard \in Processes \cup {NoProcess}
  /\ helper \in [Processes -> HelperSteps]
  /\ seen \in [Processes -> Inodes \cup {NoInode}]
  /\ named \in [Processes -> Processes \cup {NoProcess}]
  /\ reused \in BOOLEAN

\* The store is new, or the lock of a process that died is still there.
Init ==
  /\ \/ /\ lock = NoInode
        /\ record = [i \in Inodes |-> NoProcess]
        /\ alive = Processes
     \/ \E p \in Former, i \in Inodes :
          /\ lock = i
          /\ record = [j \in Inodes |-> IF j = i THEN p ELSE NoProcess]
          /\ alive = Processes \ {p}
  /\ pc = [p \in Processes |-> "idle"]
  /\ mine = [p \in Processes |-> NoInode]
  /\ temporary = [p \in Processes |-> FALSE]
  /\ guard = NoProcess
  /\ helper = [p \in Processes |-> "none"]
  /\ seen = [p \in Processes |-> NoInode]
  /\ named = [p \in Processes |-> NoProcess]
  /\ reused = FALSE

At(p, step) == p \in alive /\ pc[p] = step
Goto(p, step) == pc' = [pc EXCEPT ![p] = step]

\* The reclaim is over: its locals are gone and its helper, killed or done,
\* has exited and dropped the guard it may have held.
EndReclaim(p) ==
  /\ Goto(p, "idle")
  /\ helper' = [helper EXCEPT ![p] = "none"]
  /\ guard' = IF guard = p THEN NoProcess ELSE guard
  /\ seen' = [seen EXCEPT ![p] = NoInode]
  /\ named' = [named EXCEPT ![p] = NoProcess]

-----------------------------------------------------------------------------
(* acquireAtomicLock *)

\* No path names the inode: the filesystem may hand it out again.
Unlinked(i) == /\ lock # i
               /\ \A p \in Processes : temporary[p] => mine[p] # i

\* A living reclaimer is between its first and its last look at file i.
Validating(i) == \E q \in alive : pc[q] \in {"validating", "read", "judged"} /\ seen[q] = i

\* MUTANT: the candidate is linked later on without its record.
CreateEmptyCandidate(p) ==
  /\ At(p, "idle")
  /\ \E i \in Inodes :
       /\ Unlinked(i)
       /\ record' = [record EXCEPT ![i] = NoProcess]
       /\ mine' = [mine EXCEPT ![p] = i]
       /\ reused' = (reused \/ Validating(i))
  /\ temporary' = [temporary EXCEPT ![p] = TRUE]
  /\ Goto(p, "created")
  /\ UNCHANGED <<lock, alive, guard, helper, seen, named>>

CreateCandidate(p) ==
  /\ At(p, "idle")
  /\ \E i \in Inodes :
       /\ Unlinked(i)
       /\ record' = [record EXCEPT ![i] = p]
       /\ mine' = [mine EXCEPT ![p] = i]
       /\ reused' = (reused \/ Validating(i))
  /\ temporary' = [temporary EXCEPT ![p] = TRUE]
  /\ Goto(p, "created")
  /\ UNCHANGED <<lock, alive, guard, helper, seen, named>>

\* link succeeds only when the lock path is free.
LinkCandidate(p) ==
  /\ At(p, "created")
  /\ lock = NoInode
  /\ lock' = mine[p]
  /\ Goto(p, "linked")
  /\ UNCHANGED <<record, alive, mine, temporary, guard, helper, seen, named, reused>>

LinkRefused(p) ==
  /\ At(p, "created")
  /\ lock # NoInode
  /\ temporary' = [temporary EXCEPT ![p] = FALSE]
  /\ mine' = [mine EXCEPT ![p] = NoInode]
  /\ Goto(p, "refused")
  /\ UNCHANGED <<lock, record, alive, guard, helper, seen, named, reused>>

\* The lock path is read back; another generation there means it was lost.
VerifyLink(p) ==
  /\ At(p, "linked")
  /\ temporary' = [temporary EXCEPT ![p] = FALSE]
  /\ Goto(p, IF lock = mine[p] THEN "owned" ELSE "idle")
  /\ UNCHANGED <<lock, record, alive, mine, guard, helper, seen, named, reused>>

\* publishOwner succeeds, or its failure releases the lock again.
PublishOwner(p) ==
  /\ At(p, "owned")
  /\ \/ Goto(p, "held")
     \/ Goto(p, IF lock = mine[p] THEN "releasing" ELSE "lost")
  /\ UNCHANGED <<lock, record, alive, mine, temporary, guard, helper, seen, named, reused>>

\* release: authority ends first, then the path is compared, then unlinked.
\* The heartbeat makes the same comparison while the lease is held; a mismatch
\* ends the process's authority either way.
BeginRelease(p) ==
  /\ At(p, "held")
  /\ Goto(p, IF lock = mine[p] THEN "releasing" ELSE "lost")
  /\ UNCHANGED <<lock, record, alive, mine, temporary, guard, helper, seen, named, reused>>

\* The unlink removes whatever the path names by then.
Unlink(p) ==
  /\ At(p, "releasing")
  /\ lock' = NoInode
  /\ mine' = [mine EXCEPT ![p] = NoInode]
  /\ Goto(p, "idle")
  /\ UNCHANGED <<record, alive, temporary, guard, helper, seen, named, reused>>

-----------------------------------------------------------------------------
(* reclaimDeadOwner: the process that found the lock taken. *)

SpawnHelper(p) ==
  /\ At(p, "refused")
  /\ helper[p] = "none"
  /\ helper' = [helper EXCEPT ![p] = "queued"]
  /\ Goto(p, "waiting")
  /\ UNCHANGED <<lock, record, alive, mine, temporary, guard, seen, named, reused>>

\* validateDeadOwner, first read: the identity of the lock.
ReadLock(p) ==
  /\ At(p, "waiting")
  /\ helper[p] = "ready"
  /\ seen' = [seen EXCEPT ![p] = lock]
  /\ Goto(p, IF lock = NoInode THEN "judged" ELSE "validating")
  /\ UNCHANGED <<lock, record, alive, mine, temporary, guard, helper, named, reused>>

\* Second read: the owner record at the path, whichever file that is by now.
\* A path that is gone ends the attempt: the helper is killed.
ReadOwner(p) ==
  /\ At(p, "validating")
  /\ IF lock # NoInode
     THEN /\ named' = [named EXCEPT ![p] = record[lock]]
          /\ Goto(p, "read")
          /\ UNCHANGED <<helper, guard, seen>>
     ELSE EndReclaim(p)
  /\ UNCHANGED <<lock, record, alive, mine, temporary, reused>>

\* MUTANT: the owner's liveness is not asked for.
JudgeOwnerUnasked(p) ==
  /\ At(p, "read")
  /\ Goto(p, "judged")
  /\ named' = [named EXCEPT ![p] = NoProcess]
  /\ UNCHANGED <<lock, record, alive, mine, temporary, guard, helper, seen, reused>>

\* Whether the process named by the record still lives is asked one await
\* later.  A living owner ends the attempt: the helper is killed.
JudgeOwner(p) ==
  /\ At(p, "read")
  /\ IF named[p] \notin alive
     THEN /\ Goto(p, "judged")
          /\ named' = [named EXCEPT ![p] = NoProcess]
          /\ UNCHANGED <<helper, guard, seen>>
     ELSE EndReclaim(p)
  /\ UNCHANGED <<lock, record, alive, mine, temporary, reused>>

\* Third read, then the command: the identity to remove, or "abort" when the
\* path is gone.  Another generation there ends the attempt.  From the command
\* on an abort waits for the helper.
SendCommand(p) ==
  /\ At(p, "judged")
  /\ IF seen[p] = NoInode \/ lock \in {seen[p], NoInode}
     THEN /\ Goto(p, "commanded")
          /\ seen' = [seen EXCEPT ![p] = IF lock = seen[p] THEN lock ELSE NoInode]
          /\ helper' = [helper EXCEPT ![p] = "told"]
          /\ UNCHANGED <<guard, named>>
     ELSE EndReclaim(p)
  /\ UNCHANGED <<lock, record, alive, mine, temporary, reused>>

\* The caller's signal aborts before the command: the helper is killed.
AbortReclaim(p) ==
  /\ p \in alive
  /\ pc[p] \in {"waiting", "validating", "read", "judged"}
  /\ EndReclaim(p)
  /\ UNCHANGED <<lock, record, alive, mine, temporary, reused>>

\* The helper's answer: only a removal lets the process try the link once more.
\* (The second attempt is CreateCandidate again; a second refusal gives up.)
Concluded(p) ==
  /\ At(p, "commanded")
  /\ helper[p] \in {"removed", "declined"}
  /\ EndReclaim(p)
  /\ UNCHANGED <<lock, record, alive, mine, temporary, reused>>

-----------------------------------------------------------------------------
(* The helper, under flock. *)

\* MUTANT: the helper runs without flock.
TakeGuardUnlocked(p) ==
  /\ helper[p] = "queued"
  /\ guard' = p
  /\ helper' = [helper EXCEPT ![p] = "ready"]
  /\ UNCHANGED <<lock, record, alive, pc, mine, temporary, seen, named, reused>>

TakeGuard(p) ==
  /\ helper[p] = "queued"
  /\ guard = NoProcess
  /\ guard' = p
  /\ helper' = [helper EXCEPT ![p] = "ready"]
  /\ UNCHANGED <<lock, record, alive, pc, mine, temporary, seen, named, reused>>

\* MUTANT: only a helper that was told something notices the end of input.
EndOfInputAfterCommand(p) ==
  /\ p \notin alive
  /\ helper[p] = "told"
  /\ EndReclaim(p)
  /\ UNCHANGED <<lock, record, alive, mine, temporary, reused>>

\* Its parent died without a command: end of input, nothing is touched.
EndOfInput(p) ==
  /\ p \notin alive
  /\ helper[p] = "ready"
  /\ EndReclaim(p)
  /\ UNCHANGED <<lock, record, alive, mine, temporary, reused>>

CheckIdentity(p) ==
  /\ helper[p] = "told"
  /\ helper' = [helper EXCEPT ![p] =
       IF seen[p] # NoInode /\ lock = seen[p] THEN "checked" ELSE "declined"]
  /\ UNCHANGED <<lock, record, alive, pc, mine, temporary, guard, seen, named, reused>>

\* The unlink names the path, not the identity that was just compared.
RemoveLock(p) ==
  /\ helper[p] = "checked"
  /\ lock' = NoInode
  /\ helper' = [helper EXCEPT ![p] = "removed"]
  /\ UNCHANGED <<record, alive, pc, mine, temporary, guard, seen, named, reused>>

\* A helper that is done exits by itself even when its parent is dead.
HelperExits(p) ==
  /\ p \notin alive
  /\ helper[p] \in {"removed", "declined"}
  /\ EndReclaim(p)
  /\ UNCHANGED <<lock, record, alive, mine, temporary, reused>>

-----------------------------------------------------------------------------

\* A process dies with its calls; its files and its helper, with the command
\* it was sent, outlive it.
Die(p) ==
  /\ p \in alive
  /\ alive' = alive \ {p}
  /\ Goto(p, "idle")
  /\ named' = [named EXCEPT ![p] = NoProcess]
  /\ seen' = IF helper[p] = "told" THEN seen ELSE [seen EXCEPT ![p] = NoInode]
  /\ UNCHANGED <<lock, record, mine, temporary, guard, helper, reused>>

AcquireStep(p) ==
  \/ CreateCandidate(p) \/ LinkCandidate(p) \/ LinkRefused(p) \/ VerifyLink(p)
  \/ PublishOwner(p) \/ Unlink(p)

ReclaimStep(p) ==
  \/ SpawnHelper(p) \/ ReadLock(p) \/ ReadOwner(p) \/ JudgeOwner(p)
  \/ SendCommand(p) \/ Concluded(p)

HelperStep(p) ==
  \/ TakeGuard(p) \/ EndOfInput(p) \/ CheckIdentity(p) \/ RemoveLock(p) \/ HelperExits(p)

Next ==
  \E p \in Processes :
    \/ AcquireStep(p) \/ ReclaimStep(p) \/ HelperStep(p)
    \/ BeginRelease(p) \/ AbortReclaim(p) \/ Die(p)

Spec == Init /\ [][Next]_vars

\* Every call in progress and every helper keeps running.
Fairness ==
  \A p \in Processes :
    /\ WF_vars(pc[p] # "idle" /\ AcquireStep(p))
    /\ WF_vars(ReclaimStep(p))
    /\ WF_vars(HelperStep(p))

FairSpec == Spec /\ Fairness

-----------------------------------------------------------------------------
(* Properties. *)

\* assertOwned succeeds.
Holds(p) == At(p, "held")

\* At most one living process believes it holds the repository, unless a file
\* number was handed out again while a reclaimer validated the file that had
\* it.  The exception is the code's: validateDeadOwner reads the record, asks
\* for its process and compares the file's number in three awaits, so an owner
\* that is read alive, releases and exits is judged dead, and a successor whose
\* lock got the same number is taken for it and loses its lock.
OneHolder ==
  reused \/ \A p, q \in Processes : Holds(p) /\ Holds(q) => p = q

\* With the same exception, a living process that linked its lock still owns
\* the lock path until it releases it itself: no reclaimer takes a living
\* owner's lock, whoever dies, releases or reclaims between its three reads,
\* its command and the helper's unlink.
OwnerKeepsLock ==
  reused \/ \A p \in alive : pc[p] \in {"linked", "owned", "held", "releasing"} =>
              lock # NoInode /\ lock = mine[p] /\ record[lock] = p

\* The lock path never names an owner record that is missing or incomplete.
LockIsOwned == lock # NoInode => record[lock] \in Processes

\* A guard that was taken is given back, whatever dies meanwhile.
GuardReturns == \A p \in Processes : guard = p ~> guard # p
=============================================================================
