----------------------------- MODULE LeaseProofs -----------------------------
(***************************************************************************)
(* Proofs about the repository lease, for every number of processes and    *)
(* inodes.  IInv is the inductive invariant.  Its first half holds always: *)
(* what an inode's record means while some path names it, who is past the  *)
(* wait for the guard.  Its second half holds until a file number is       *)
(* handed out again under a reclaimer's validation (reused): then the file *)
(* whose number was seen is the file whose record was read, and what the   *)
(* guard protects from the judgement to the unlink is a dead owner's lock. *)
(***************************************************************************)
EXTENDS Lease, TLAPS

Owning == {"linked", "owned", "held", "releasing"}
Guarding == {"ready", "told", "checked", "removed", "declined"}

\* An inode that some candidate path names holds that candidate's owner.
CandidatesWritten ==
  \A p \in Processes : temporary[p] =>
    mine[p] \in Inodes /\ record[mine[p]] = p

\* A candidate that waits for its link is on disk and is not the lock; after
\* the link has been verified it is gone.
CandidatesApart ==
  \A p \in alive :
    /\ pc[p] = "created" => temporary[p] /\ lock # mine[p]
    /\ temporary[p] => pc[p] \in {"created", "linked"}

\* The helper that holds the guard is the only one past its wait for it.
GuardExclusive ==
  \A p \in Processes : helper[p] \in Guarding <=> guard = p

\* A living reclaimer and its helper are in step.
HelperInStep ==
  \A p \in alive :
    /\ pc[p] \in {"validating", "read", "judged"} => helper[p] = "ready"
    /\ pc[p] = "commanded" => helper[p] \in Guarding \ {"ready"}

\* The owner of the lock is dead.
DeadLock == lock \in Inodes /\ record[lock] \in Processes \ alive

\* A candidate that waits for its link is not the file a reclaimer validates.
SeenStands ==
  \A q \in alive : pc[q] \in {"validating", "read", "judged"} /\ seen[q] # NoInode =>
    \A p \in alive : pc[p] = "created" => mine[p] # seen[q]

\* While the path names the file whose number was seen, the record that was
\* read is that file's; once its owner was judged dead, the lock is a dead one.
NamedStands ==
  \A q \in alive : seen[q] # NoInode /\ lock = seen[q] =>
    /\ pc[q] = "read" => record[lock] = named[q]
    /\ pc[q] = "judged" => DeadLock

\* From the command to the unlink the lock keeps its dead owner: nobody else
\* may remove it, and nothing can be linked over it.
ToldDead ==
  \A p \in Processes :
    helper[p] = "checked" \/ (helper[p] = "told" /\ seen[p] # NoInode) => DeadLock

Undisturbed ==
  /\ OwnerKeepsLock
  /\ SeenStands
  /\ NamedStands
  /\ ToldDead

Always ==
  /\ TypeOK
  /\ CandidatesWritten
  /\ CandidatesApart
  /\ LockIsOwned
  /\ GuardExclusive
  /\ HelperInStep

IInv == Always /\ (reused \/ Undisturbed)

-----------------------------------------------------------------------------
(* Type correctness *)

\* A fresh start is well typed.
LEMMA InitType == Init => TypeOK
<1> SUFFICES ASSUME Init PROVE TypeOK
  OBVIOUS
<1>1. lock \in Inodes \cup {NoInode} /\ record \in [Inodes -> Processes \cup {NoProcess}]
  <2>1. CASE lock = NoInode /\ record = [i \in Inodes |-> NoProcess] /\ alive = Processes
    BY <2>1
  <2>2. CASE \E p \in Former, i \in Inodes :
               /\ lock = i
               /\ record = [j \in Inodes |-> IF j = i THEN p ELSE NoProcess]
               /\ alive = Processes \ {p}
    BY <2>2, LeaseConstants
  <2> QED
    BY <2>1, <2>2 DEF Init
<1>2. alive \in SUBSET Processes
  BY DEF Init
<1> QED
  BY <1>1, <1>2 DEF Init, TypeOK, Steps, HelperSteps

\* Every step of every process keeps the types.
LEMMA StepType == TypeOK /\ [Next]_vars => TypeOK'
<1> SUFFICES ASSUME TypeOK, [Next]_vars PROVE TypeOK'
  OBVIOUS
<1> USE DEF TypeOK, Steps, HelperSteps, At, Goto, EndReclaim, Validating
<1>1. CASE UNCHANGED vars
  BY <1>1 DEF vars
<1>2. ASSUME NEW p \in Processes, AcquireStep(p) PROVE TypeOK'
  <2>1. CASE CreateCandidate(p) BY <2>1 DEF CreateCandidate
  <2>2. CASE LinkCandidate(p) BY <2>2 DEF LinkCandidate
  <2>3. CASE LinkRefused(p) BY <2>3 DEF LinkRefused
  <2>4. CASE VerifyLink(p) BY <2>4 DEF VerifyLink
  <2>5. CASE PublishOwner(p) BY <2>5 DEF PublishOwner
  <2>6. CASE Unlink(p) BY <2>6 DEF Unlink
  <2> QED BY <1>2, <2>1, <2>2, <2>3, <2>4, <2>5, <2>6 DEF AcquireStep
<1>3. ASSUME NEW p \in Processes, ReclaimStep(p) PROVE TypeOK'
  <2>1. CASE SpawnHelper(p) BY <2>1 DEF SpawnHelper
  <2>2. CASE ReadLock(p) BY <2>2 DEF ReadLock
  <2>3. CASE ReadOwner(p) BY <2>3 DEF ReadOwner
  <2>4. CASE JudgeOwner(p) BY <2>4 DEF JudgeOwner
  <2>5. CASE SendCommand(p) BY <2>5 DEF SendCommand
  <2>6. CASE Concluded(p) BY <2>6 DEF Concluded
  <2> QED BY <1>3, <2>1, <2>2, <2>3, <2>4, <2>5, <2>6 DEF ReclaimStep
<1>4. ASSUME NEW p \in Processes, HelperStep(p) PROVE TypeOK'
  <2>1. CASE TakeGuard(p) BY <2>1 DEF TakeGuard
  <2>2. CASE EndOfInput(p) BY <2>2 DEF EndOfInput
  <2>3. CASE CheckIdentity(p) BY <2>3 DEF CheckIdentity
  <2>4. CASE RemoveLock(p) BY <2>4 DEF RemoveLock
  <2>5. CASE HelperExits(p) BY <2>5 DEF HelperExits
  <2> QED BY <1>4, <2>1, <2>2, <2>3, <2>4, <2>5 DEF HelperStep
<1>5. ASSUME NEW p \in Processes, BeginRelease(p) \/ AbortReclaim(p) \/ Die(p)
      PROVE TypeOK'
  <2>1. CASE BeginRelease(p) BY <2>1 DEF BeginRelease
  <2>2. CASE AbortReclaim(p) BY <2>2 DEF AbortReclaim
  <2>3. CASE Die(p) BY <2>3 DEF Die
  <2> QED BY <1>5, <2>1, <2>2, <2>3
<1> QED BY <1>1, <1>2, <1>3, <1>4, <1>5 DEF Next

\* Every reachable state of the lease is well typed.
THEOREM LeaseTypeCorrect == Spec => []TypeOK
<1>1. Init => TypeOK BY InitType
<1>2. TypeOK /\ [Next]_vars => TypeOK' BY StepType
<1> QED BY <1>1, <1>2, PTL DEF Spec

-----------------------------------------------------------------------------
(* The inductive invariant *)

\* A fresh start satisfies the inductive invariant.
LEMMA InitInv == Init => IInv
BY InitType, LeaseConstants
   DEF Init, IInv, Always, CandidatesWritten, CandidatesApart, LockIsOwned,
       OwnerKeepsLock, GuardExclusive, HelperInStep, Undisturbed, SeenStands,
       NamedStands, ToldDead, DeadLock, Guarding

\* The actions of a process that publishes, holds or gives up its own lock.
LEMMA AcquireAlways ==
  ASSUME NEW p \in Processes, Always, TypeOK', AcquireStep(p) \/ BeginRelease(p)
  PROVE  Always'
<1> USE LeaseConstants DEF Always, TypeOK, Steps, HelperSteps, At, Goto, EndReclaim,
      CandidatesWritten, CandidatesApart, LockIsOwned, GuardExclusive, HelperInStep,
      Guarding
<1>1. CASE CreateCandidate(p)
  <2> PICK i \in Inodes : /\ Unlinked(i)
                          /\ record' = [record EXCEPT ![i] = p]
                          /\ mine' = [mine EXCEPT ![p] = i]
                          /\ reused' = (reused \/ Validating(i))
    BY <1>1 DEF CreateCandidate
  <2> QED BY <1>1 DEF CreateCandidate, Unlinked
<1>2. CASE LinkCandidate(p) BY <1>2 DEF LinkCandidate
<1>3. CASE LinkRefused(p) BY <1>3 DEF LinkRefused
<1>4. CASE VerifyLink(p) BY <1>4 DEF VerifyLink
<1>5. CASE PublishOwner(p) BY <1>5 DEF PublishOwner
<1>6. CASE Unlink(p) BY <1>6 DEF Unlink
<1>7. CASE BeginRelease(p) BY <1>7 DEF BeginRelease
<1> QED BY <1>1, <1>2, <1>3, <1>4, <1>5, <1>6, <1>7 DEF AcquireStep

\* The actions of a process that reclaims a dead owner's lock.
LEMMA ReclaimAlways ==
  ASSUME NEW p \in Processes, Always, TypeOK', ReclaimStep(p) \/ AbortReclaim(p)
  PROVE  Always'
<1> USE LeaseConstants DEF Always, TypeOK, Steps, HelperSteps, At, Goto, EndReclaim,
      CandidatesWritten, CandidatesApart, LockIsOwned, GuardExclusive, HelperInStep,
      Guarding
<1>1. CASE SpawnHelper(p) BY <1>1 DEF SpawnHelper
<1>2. CASE ReadLock(p) BY <1>2 DEF ReadLock
<1>3. CASE ReadOwner(p) BY <1>3 DEF ReadOwner
<1>4. CASE JudgeOwner(p) BY <1>4 DEF JudgeOwner
<1>5. CASE SendCommand(p) BY <1>5 DEF SendCommand
<1>6. CASE Concluded(p) BY <1>6 DEF Concluded
<1>7. CASE AbortReclaim(p) BY <1>7 DEF AbortReclaim
<1> QED BY <1>1, <1>2, <1>3, <1>4, <1>5, <1>6, <1>7 DEF ReclaimStep

\* The helper's actions, and a process's death.
LEMMA HelperAlways ==
  ASSUME NEW p \in Processes, Always, TypeOK', HelperStep(p) \/ Die(p)
  PROVE  Always'
<1> USE LeaseConstants DEF Always, TypeOK, Steps, HelperSteps, At, Goto, EndReclaim,
      CandidatesWritten, CandidatesApart, LockIsOwned, GuardExclusive, HelperInStep,
      Guarding
<1>1. CASE TakeGuard(p) BY <1>1 DEF TakeGuard
<1>2. CASE EndOfInput(p) BY <1>2 DEF EndOfInput
<1>3. CASE CheckIdentity(p) BY <1>3 DEF CheckIdentity
<1>4. CASE RemoveLock(p) BY <1>4 DEF RemoveLock
<1>5. CASE HelperExits(p) BY <1>5 DEF HelperExits
<1>6. CASE Die(p) BY <1>6 DEF Die
<1> QED BY <1>1, <1>2, <1>3, <1>4, <1>5, <1>6 DEF HelperStep

\* The same actions, as long as no file number was handed out again.
LEMMA AcquireUndisturbed ==
  ASSUME NEW p \in Processes, Always, Undisturbed, TypeOK', AcquireStep(p) \/ BeginRelease(p)
  PROVE  reused' \/ Undisturbed'
<1> USE LeaseConstants DEF Always, TypeOK, Steps, HelperSteps, At, Goto, EndReclaim,
      CandidatesWritten, CandidatesApart, LockIsOwned, GuardExclusive, HelperInStep,
      Guarding,
      Undisturbed, OwnerKeepsLock, SeenStands, NamedStands, ToldDead, DeadLock
<1>1. CASE CreateCandidate(p)
  <2> PICK i \in Inodes : /\ Unlinked(i)
                          /\ record' = [record EXCEPT ![i] = p]
                          /\ mine' = [mine EXCEPT ![p] = i]
                          /\ reused' = (reused \/ Validating(i))
    BY <1>1 DEF CreateCandidate
  <2> SUFFICES ASSUME ~reused' PROVE Undisturbed'
    OBVIOUS
  <2>1. ~Validating(i)
    BY Zenon
  <2>2. lock # i /\ record' = [record EXCEPT ![i] = p] /\ mine' = [mine EXCEPT ![p] = i]
        /\ (\A q \in Processes : temporary[q] => mine[q] # i)
    BY DEF Unlinked
  <2>3. OwnerKeepsLock'
    BY <1>1, <2>2 DEF CreateCandidate
  <2>4. SeenStands'
    BY <1>1, <2>1, <2>2 DEF CreateCandidate, Validating
  <2>5. NamedStands'
    BY <1>1, <2>2 DEF CreateCandidate
  <2>6. ToldDead'
    BY <1>1, <2>2 DEF CreateCandidate
  <2> QED BY <2>3, <2>4, <2>5, <2>6
<1>2. CASE LinkCandidate(p) BY <1>2 DEF LinkCandidate
<1>3. CASE LinkRefused(p) BY <1>3 DEF LinkRefused
<1>4. CASE VerifyLink(p) BY <1>4 DEF VerifyLink
<1>5. CASE PublishOwner(p) BY <1>5 DEF PublishOwner
<1>6. CASE Unlink(p) BY <1>6 DEF Unlink
<1>7. CASE BeginRelease(p) BY <1>7 DEF BeginRelease
<1> QED BY <1>1, <1>2, <1>3, <1>4, <1>5, <1>6, <1>7 DEF AcquireStep

\* The same actions, as long as no file number was handed out again.
LEMMA ReclaimUndisturbed ==
  ASSUME NEW p \in Processes, Always, Undisturbed, TypeOK', ReclaimStep(p) \/ AbortReclaim(p)
  PROVE  reused' \/ Undisturbed'
<1> USE LeaseConstants DEF Always, TypeOK, Steps, HelperSteps, At, Goto, EndReclaim,
      CandidatesWritten, CandidatesApart, LockIsOwned, GuardExclusive, HelperInStep,
      Guarding,
      Undisturbed, OwnerKeepsLock, SeenStands, NamedStands, ToldDead, DeadLock
<1>1. CASE SpawnHelper(p) BY <1>1 DEF SpawnHelper
<1>2. CASE ReadLock(p) BY <1>2 DEF ReadLock
<1>3. CASE ReadOwner(p) BY <1>3 DEF ReadOwner
<1>4. CASE JudgeOwner(p) BY <1>4 DEF JudgeOwner
<1>5. CASE SendCommand(p) BY <1>5 DEF SendCommand
<1>6. CASE Concluded(p) BY <1>6 DEF Concluded
<1>7. CASE AbortReclaim(p) BY <1>7 DEF AbortReclaim
<1> QED BY <1>1, <1>2, <1>3, <1>4, <1>5, <1>6, <1>7 DEF ReclaimStep

\* The same actions, as long as no file number was handed out again.
LEMMA HelperUndisturbed ==
  ASSUME NEW p \in Processes, Always, Undisturbed, TypeOK', HelperStep(p) \/ Die(p)
  PROVE  reused' \/ Undisturbed'
<1> USE LeaseConstants DEF Always, TypeOK, Steps, HelperSteps, At, Goto, EndReclaim,
      CandidatesWritten, CandidatesApart, LockIsOwned, GuardExclusive, HelperInStep,
      Guarding,
      Undisturbed, OwnerKeepsLock, SeenStands, NamedStands, ToldDead, DeadLock
<1>1. CASE TakeGuard(p) BY <1>1 DEF TakeGuard
<1>2. CASE EndOfInput(p) BY <1>2 DEF EndOfInput
<1>3. CASE CheckIdentity(p) BY <1>3 DEF CheckIdentity
<1>4. CASE RemoveLock(p) BY <1>4 DEF RemoveLock
<1>5. CASE HelperExits(p) BY <1>5 DEF HelperExits
<1>6. CASE Die(p) BY <1>6 DEF Die
<1> QED BY <1>1, <1>2, <1>3, <1>4, <1>5, <1>6 DEF HelperStep

\* What the history variable has seen it does not forget.
LEMMA ReusedStays ==
  ASSUME NEW p \in Processes, reused,
         \/ AcquireStep(p) \/ ReclaimStep(p) \/ HelperStep(p)
         \/ BeginRelease(p) \/ AbortReclaim(p) \/ Die(p)
  PROVE  reused'
BY DEF AcquireStep, ReclaimStep, HelperStep, CreateCandidate, LinkCandidate,
   LinkRefused, VerifyLink, PublishOwner, Unlink, SpawnHelper, ReadLock, ReadOwner,
   JudgeOwner, SendCommand, Concluded, TakeGuard, EndOfInput, CheckIdentity,
   RemoveLock, HelperExits, BeginRelease, AbortReclaim, Die

\* The inductive invariant holds in every reachable state of the lease.
THEOREM LeaseInvariant == Spec => []IInv
<1>1. Init => IInv BY InitInv
<1>2. IInv /\ [Next]_vars => IInv'
  <2> SUFFICES ASSUME IInv, [Next]_vars PROVE IInv'
    OBVIOUS
  <2>1. TypeOK' BY StepType DEF IInv, Always
  <2>2. CASE UNCHANGED vars
    BY <2>2 DEF vars, IInv, Always, TypeOK, CandidatesWritten, CandidatesApart,
         LockIsOwned, OwnerKeepsLock, GuardExclusive, HelperInStep, Undisturbed,
         SeenStands, NamedStands, ToldDead, DeadLock
  <2>3. ASSUME NEW p \in Processes,
               \/ AcquireStep(p) \/ ReclaimStep(p) \/ HelperStep(p)
               \/ BeginRelease(p) \/ AbortReclaim(p) \/ Die(p)
        PROVE  IInv'
    <3>1. Always'
      BY <2>1, <2>3, AcquireAlways, ReclaimAlways, HelperAlways DEF IInv
    <3>2. CASE reused
      BY <2>1, <2>3, <3>1, <3>2, ReusedStays DEF IInv
    <3>3. CASE Undisturbed
      BY <2>1, <2>3, <3>1, <3>3, AcquireUndisturbed, ReclaimUndisturbed,
         HelperUndisturbed DEF IInv
    <3> QED BY <3>2, <3>3 DEF IInv
  <2> QED BY <2>2, <2>3 DEF Next
<1> QED BY <1>1, <1>2, PTL DEF Spec

-----------------------------------------------------------------------------
(* The properties *)

\* Until a file number is handed out again under a reclaimer's validation, no
\* reclaimer removes the lock of a living owner (acquireAtomicLock,
\* reclaimDeadOwner and RECLAIM_WORKER together).
THEOREM OwnersKeepTheirLock == Spec => []OwnerKeepsLock
<1>1. IInv => OwnerKeepsLock BY DEF IInv, Undisturbed, OwnerKeepsLock
<1> QED BY <1>1, LeaseInvariant, PTL

\* Until then at most one living process holds the repository's lease.
THEOREM LeaseExclusive == Spec => []OneHolder
<1>1. IInv => OneHolder
  <2> SUFFICES ASSUME IInv, ~reused, NEW p \in Processes, NEW q \in Processes,
                      Holds(p), Holds(q)
               PROVE  p = q
    BY DEF OneHolder
  <2>1. record[lock] = p /\ record[lock] = q
    BY DEF IInv, Undisturbed, OwnerKeepsLock, Holds, At
  <2> QED BY <2>1
<1> QED BY <1>1, LeaseInvariant, PTL

\* The lock path always names a complete owner record.
THEOREM LockAlwaysOwned == Spec => []LockIsOwned
<1>1. IInv => LockIsOwned BY DEF IInv, Always
<1> QED BY <1>1, LeaseInvariant, PTL
=============================================================================
