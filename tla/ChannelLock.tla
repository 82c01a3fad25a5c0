---------------------------- MODULE ChannelLock -----------------------------
(***************************************************************************)
(* The lock that a process takes to open a DMA channel: InterprocessLock.h *)
(* as used by the constructor of DmaChannelBase.cxx.  It is two locks: one *)
(* on a file, which the kernel drops when the process ends, and a named    *)
(* mutex in shared memory, which stays locked then and so tells the next   *)
(* process of an unclean end.  A process that may force the unlock removes *)
(* the name of the mutex and tries again.                                  *)
(***************************************************************************)
EXTENDS Naturals, Sequences

CONSTANTS Procs,         \* the processes that open the channel
          Forcing,       \* those with setForcedUnlockEnabled(true)
          Nobody,
          MaxRemoved,    \* bound on the names removed
          MaxCrashes     \* bound on the processes that crash

ASSUME LockAssumption ==
    /\ Forcing \subseteq Procs
    /\ Nobody \notin Procs
    /\ \A n \in {MaxRemoved, MaxCrashes} : n \in Nat

VARIABLES fileLock,   \* the process with the lock on the file
          name,       \* the mutex that has the name, 0 if none has
          locked,     \* [mutex -> who locked it], dead or alive
          lock,       \* [process -> where it is, its mutex, is it a retry?]
          unclean,    \* an owner crashed and the name was not removed since
          needless,   \* the name was removed when no owner had crashed since
          lockBudget  \* crashes and removals left

lockVars == <<fileLock, name, locked, lock, unclean, needless, lockBudget>>

Out == [at |-> "out", mutex |-> 0, retry |-> FALSE]

LockInit ==
    /\ fileLock = Nobody
    /\ name = 0
    /\ locked = <<>>
    /\ lock = [p \in Procs |-> Out]
    /\ unclean = FALSE /\ needless = FALSE
    /\ lockBudget = [removed |-> MaxRemoved, crashes |-> MaxCrashes]

Owners == {p \in Procs : lock[p].at = "own"}
Spend(what) ==
    /\ lockBudget[what] > 0
    /\ lockBudget' = [lockBudget EXCEPT ![what] = @ - 1]

\* Both objects are opened; a mutex is created if none has the name.
OpenMutexes(p) ==
    /\ lock[p].at \in {"out", "removed"}
    /\ IF name = 0
       THEN name' = Len(locked) + 1 /\ locked' = Append(locked, Nobody)
       ELSE UNCHANGED <<name, locked>>
    /\ lock' = [lock EXCEPT ![p] = [at |-> "file", mutex |-> name',
                                    retry |-> @.at = "removed"]]
    /\ UNCHANGED <<fileLock, unclean, needless, lockBudget>>

\* Mutant of TryFileLock: the file's lock is not looked at.
TryFileLockBlind(p) ==
    /\ lock[p].at = "file"
    /\ fileLock' = p /\ lock' = [lock EXCEPT ![p].at = "named"]
    /\ UNCHANGED <<name, locked, unclean, needless, lockBudget>>

\* std::try_lock() takes the file first; FileLockException is not caught.
TryFileLock(p) ==
    /\ lock[p].at = "file"
    /\ IF fileLock = Nobody
       THEN fileLock' = p /\ lock' = [lock EXCEPT ![p].at = "named"]
       ELSE UNCHANGED fileLock /\ lock' = [lock EXCEPT ![p] = Out]
    /\ UNCHANGED <<name, locked, unclean, needless, lockBudget>>

\* ... then the mutex; if that fails it unlocks the file again, and a process that may
\* will remove the name, once.
TryNamedLock(p) ==
    /\ lock[p].at = "named"
    /\ IF locked[lock[p].mutex] = Nobody
       THEN /\ locked' = [locked EXCEPT ![lock[p].mutex] = p]
            /\ lock' = [lock EXCEPT ![p].at = "own", ![p].retry = FALSE]
            /\ UNCHANGED fileLock
       ELSE /\ fileLock' = Nobody
            /\ IF p \in Forcing /\ ~lock[p].retry
               THEN lock' = [lock EXCEPT ![p].at = "remove"]
               ELSE lock' = [lock EXCEPT ![p] = Out]
            /\ UNCHANGED locked
    /\ UNCHANGED <<name, unclean, needless, lockBudget>>

\* named_mutex::remove()
RemoveName(p) ==
    /\ lock[p].at = "remove"
    /\ Spend("removed")
    /\ needless' = (needless \/ ~unclean)
    /\ unclean' = FALSE
    /\ name' = 0
    /\ lock' = [lock EXCEPT ![p].at = "removed"]
    /\ UNCHANGED <<fileLock, locked>>

\* The destructor unlocks the mutex, then the file.
UnlockNamed(p) ==
    /\ lock[p].at = "own"
    /\ locked' = [locked EXCEPT ![lock[p].mutex] = Nobody]
    /\ lock' = [lock EXCEPT ![p].at = "unlock"]
    /\ UNCHANGED <<fileLock, name, unclean, needless, lockBudget>>

UnlockFile(p) ==
    /\ lock[p].at = "unlock"
    /\ fileLock' = IF fileLock = p THEN Nobody ELSE fileLock
    /\ lock' = [lock EXCEPT ![p] = Out]
    /\ UNCHANGED <<name, locked, unclean, needless, lockBudget>>

\* Mutant of CrashLock: the mutex in shared memory is unlocked with the process.
CrashLockReleasing(p) ==
    /\ lock[p].at # "out"
    /\ Spend("crashes")
    /\ fileLock' = IF fileLock = p THEN Nobody ELSE fileLock
    /\ unclean' = (unclean \/ p \in Owners)
    /\ lock' = [lock EXCEPT ![p] = Out]
    /\ locked' = [m \in DOMAIN locked |-> IF locked[m] = p THEN Nobody ELSE locked[m]]
    /\ UNCHANGED <<name, needless>>

\* The process dies.
CrashLock(p) ==
    /\ lock[p].at # "out"
    /\ Spend("crashes")
    /\ fileLock' = IF fileLock = p THEN Nobody ELSE fileLock
    /\ unclean' = (unclean \/ p \in Owners)
    /\ lock' = [lock EXCEPT ![p] = Out]
    /\ UNCHANGED <<name, locked, needless>>

\* The constructor of Interprocess::Lock, with the retry.
Acquire(p) == OpenMutexes(p) \/ TryFileLock(p) \/ TryNamedLock(p) \/ RemoveName(p)

LockNext ==
    \E p \in Procs :
        Acquire(p) \/ UnlockNamed(p) \/ UnlockFile(p) \/ CrashLock(p)

LockSpec == LockInit /\ [][LockNext]_lockVars

-----------------------------------------------------------------------------
(* One process has the channel ("Another process is holding the channel lock *)
(* (no automatic cleanup possible)", ProgramDmaBench.cxx), also while others *)
(* remove the name of the mutex to force it.                                 *)
OneOwner == \A p, q \in Owners : p = q

(* InterprocessLock.h: "When the process is terminated unexpectedly, the ... *)
(* file_lock is unlocked automatically, while the ... mutex IS NOT ... This  *)
(* gives us some detection ability": after a crash of the owner nobody gets  *)
(* the lock without forcing it, unless the name was also removed when there  *)
(* was nothing to clean up, as by the second of two processes that force it  *)
(* at the same time.                                                         *)
CrashIsNoticed == unclean /\ ~needless => Owners = {}
=============================================================================
