-------------------------- MODULE DmaClientsProofs --------------------------
(***************************************************************************)
(* Proofs about the clients of a DMA channel: the lock that they take, for *)
(* any number of processes, and what each of them does with the channel    *)
(* while it has the lock, for any number of superpages.                    *)
(***************************************************************************)
EXTENDS DmaClients, SequenceFacts

(***************************************************************************)
(* The lock.  One process at a time has a DMA channel, however many        *)
(* processes open it and whichever of them force the lock or crash: the    *)
(* proof rests on the lock of the file alone, because the name of the      *)
(* mutex can be removed under its owner.                                   *)
(***************************************************************************)

\* Where a process believes that it has the lock on the file.
HasFile == {"named", "own", "unlock"}

Steps == {"out", "file", "remove", "removed"} \cup HasFile

LockTypeOK ==
    /\ lock \in [Procs -> [at : Steps, mutex : Nat, retry : BOOLEAN]]
    /\ name \in Nat
    /\ locked \in Seq(Procs \cup {Nobody})
    /\ lockBudget \in [{"removed", "crashes"} -> Nat]

\* Who believes to have the lock on the file has it.
FileLockHeld ==
    \A p \in Procs : lock[p].at \in HasFile => fileLock = p

LockInv == LockTypeOK /\ FileLockHeld

(* A mutex that is locked or unlocked stays the one it was.                 *)
LEMMA MutexSet ==
  ASSUME NEW S, NEW s \in Seq(S), NEW m \in Nat, NEW x \in S
  PROVE  [s EXCEPT ![m] = x] \in Seq(S)
<1> DEFINE t == [s EXCEPT ![m] = x]
<1>1. Len(s) \in Nat /\ s \in [1 .. Len(s) -> S]
  OBVIOUS
<1>2. t \in [1 .. Len(s) -> S]
  BY <1>1
<1> QED BY <1>1, <1>2

(* A step of the constructor or destructor moves one process.               *)
LEMMA ProcessMoved ==
  ASSUME LockTypeOK, NEW p \in Procs, NEW step \in Steps
  PROVE  [lock EXCEPT ![p].at = step] \in [Procs -> [at : Steps, mutex : Nat, retry : BOOLEAN]]
BY DEF LockTypeOK

(* The types of lock when a process has locked the mutex.                   *)
LEMMA ProcessOwns ==
  ASSUME LockTypeOK, NEW p \in Procs
  PROVE  [lock EXCEPT ![p].at = "own", ![p].retry = FALSE]
            \in [Procs -> [at : Steps, mutex : Nat, retry : BOOLEAN]]
<1> DEFINE moved == [lock[p] EXCEPT !.at = "own", !.retry = FALSE]
<1>1. lock[p] \in [at : Steps, mutex : Nat, retry : BOOLEAN] /\ "own" \in Steps
  BY DEF LockTypeOK, Steps, HasFile
<1>2. moved \in [at : Steps, mutex : Nat, retry : BOOLEAN]
  BY <1>1
<1>3. [lock EXCEPT ![p] = moved] \in [Procs -> [at : Steps, mutex : Nat, retry : BOOLEAN]]
  BY <1>2 DEF LockTypeOK
<1> QED BY <1>3

(* The types of lock when a process has left.                               *)
LEMMA ProcessOut ==
  ASSUME LockTypeOK, NEW p \in Procs
  PROVE  [lock EXCEPT ![p] = Out] \in [Procs -> [at : Steps, mutex : Nat, retry : BOOLEAN]]
BY DEF LockTypeOK, Out, Steps

(* What is spent of the bounds leaves them in their range.                  *)
LEMMA Spent ==
  ASSUME LockTypeOK, NEW what \in {"removed", "crashes"}, Spend(what)
  PROVE  lockBudget' \in [{"removed", "crashes"} -> Nat]
BY DEF LockTypeOK, Spend

(* OpenMutexes() keeps the type: the name is that of a mutex which exists.  *)
LEMMA LockTypeInductive == LockTypeOK /\ [LockNext]_lockVars => LockTypeOK'
<1> SUFFICES ASSUME LockTypeOK, [LockNext]_lockVars PROVE LockTypeOK'
  OBVIOUS
<1> DEFINE Mutexes == Seq(Procs \cup {Nobody})
           Processes == [Procs -> [at : Steps, mutex : Nat, retry : BOOLEAN]]
<1> {"out", "file", "remove", "removed", "named", "own", "unlock"} \subseteq Steps
  BY DEF Steps, HasFile
<1>0. ASSUME NEW p \in Procs PROVE lock[p].mutex \in Nat
  BY DEF LockTypeOK
<1>1. CASE UNCHANGED lockVars
  BY <1>1 DEF lockVars, LockTypeOK
<1>2. ASSUME NEW p \in Procs, OpenMutexes(p) PROVE LockTypeOK'
  <2>1. Len(locked) + 1 \in Nat /\ Append(locked, Nobody) \in Mutexes
    BY DEF LockTypeOK
  <2>2. name' \in Nat /\ locked' \in Mutexes
    BY <1>2, <2>1 DEF OpenMutexes, LockTypeOK
  <2>3. lock' \in Processes
    <3> DEFINE new == [at |-> "file", mutex |-> name', retry |-> lock[p].at = "removed"]
    <3>1. new \in [at : Steps, mutex : Nat, retry : BOOLEAN]
      BY <2>2
    <3>2. lock' = [lock EXCEPT ![p] = new]
      BY <1>2 DEF OpenMutexes
    <3> QED BY <3>1, <3>2 DEF LockTypeOK
  <2> QED BY <1>2, <2>2, <2>3 DEF OpenMutexes, LockTypeOK
<1>3. ASSUME NEW p \in Procs, TryFileLock(p) PROVE LockTypeOK'
  <2>1. lock' \in Processes
    BY <1>3, ProcessMoved, ProcessOut DEF TryFileLock
  <2> QED BY <1>3, <2>1 DEF TryFileLock, LockTypeOK
<1>4. ASSUME NEW p \in Procs, TryNamedLock(p) PROVE LockTypeOK'
  <2>1. [locked EXCEPT ![lock[p].mutex] = p] \in Mutexes
    BY <1>0, MutexSet DEF LockTypeOK
  <2>2. CASE locked[lock[p].mutex] = Nobody
    <3>1. lock' \in Processes
      BY <1>4, <2>2, ProcessOwns DEF TryNamedLock
    <3> QED BY <1>4, <2>1, <2>2, <3>1 DEF TryNamedLock, LockTypeOK
  <2>3. CASE locked[lock[p].mutex] # Nobody
    <3>1. lock' \in Processes
      BY <1>4, <2>3, ProcessMoved, ProcessOut DEF TryNamedLock
    <3> QED BY <1>4, <2>3, <3>1 DEF TryNamedLock, LockTypeOK
  <2> QED BY <2>2, <2>3
<1>5. ASSUME NEW p \in Procs, RemoveName(p) PROVE LockTypeOK'
  <2>1. lock' \in Processes
    BY <1>5, ProcessMoved DEF RemoveName
  <2> QED BY <1>5, <2>1, Spent, LockAssumption DEF RemoveName, LockTypeOK
<1>6. ASSUME NEW p \in Procs, UnlockNamed(p) PROVE LockTypeOK'
  <2>1. locked' \in Mutexes
    BY <1>0, <1>6, MutexSet DEF LockTypeOK, UnlockNamed
  <2>2. lock' \in Processes
    BY <1>6, ProcessMoved DEF UnlockNamed
  <2> QED BY <1>6, <2>1, <2>2 DEF UnlockNamed, LockTypeOK
<1>7. ASSUME NEW p \in Procs, UnlockFile(p) PROVE LockTypeOK'
  <2>1. lock' \in Processes
    BY <1>7, ProcessOut DEF UnlockFile
  <2> QED BY <1>7, <2>1 DEF UnlockFile, LockTypeOK
<1>8. ASSUME NEW p \in Procs, CrashLock(p) PROVE LockTypeOK'
  <2>1. lock' \in Processes
    BY <1>8, ProcessOut DEF CrashLock
  <2> QED BY <1>8, <2>1, Spent, LockAssumption DEF CrashLock, LockTypeOK
<1> QED BY <1>1, <1>2, <1>3, <1>4, <1>5, <1>6, <1>7, <1>8 DEF LockNext, Acquire

(* Every step of a process leaves the file with the one that has it: it is  *)
(* taken when nobody has it and dropped by its holder only.                 *)
LEMMA LockInvInductive == LockInv /\ [LockNext]_lockVars => LockInv'
<1> SUFFICES ASSUME LockInv, [LockNext]_lockVars, NEW q \in Procs, lock'[q].at \in HasFile
             PROVE  fileLock' = q
  BY LockTypeInductive DEF LockInv, FileLockHeld
<1> USE DEF LockInv, LockTypeOK, FileLockHeld, HasFile
<1>1. CASE UNCHANGED lockVars
  BY <1>1 DEF lockVars
<1>2. ASSUME NEW p \in Procs, OpenMutexes(p) PROVE fileLock' = q
  BY <1>2 DEF OpenMutexes
<1>3. ASSUME NEW p \in Procs, TryFileLock(p) PROVE fileLock' = q
  BY <1>3, LockAssumption DEF TryFileLock, Out
<1>4. ASSUME NEW p \in Procs, TryNamedLock(p) PROVE fileLock' = q
  BY <1>4 DEF TryNamedLock, Out
<1>5. ASSUME NEW p \in Procs, RemoveName(p) PROVE fileLock' = q
  BY <1>5 DEF RemoveName
<1>6. ASSUME NEW p \in Procs, UnlockNamed(p) PROVE fileLock' = q
  BY <1>6 DEF UnlockNamed
<1>7. ASSUME NEW p \in Procs, UnlockFile(p) PROVE fileLock' = q
  BY <1>7 DEF UnlockFile, Out
<1>8. ASSUME NEW p \in Procs, CrashLock(p) PROVE fileLock' = q
  BY <1>8 DEF CrashLock, Out
<1> QED BY <1>1, <1>2, <1>3, <1>4, <1>5, <1>6, <1>7, <1>8 DEF LockNext, Acquire

(* For every set of processes, whichever of them force the lock and however *)
(* often names are removed or processes crash, at most one has the channel  *)
(* of DmaChannelBase.                                                       *)
THEOREM OneOwnerAlways == LockSpec => []OneOwner
<1>1. LockInit => LockInv
  BY LockAssumption DEF LockInit, LockInv, LockTypeOK, FileLockHeld, HasFile, Steps, Out
<1>2. LockInv => OneOwner
  BY DEF LockInv, FileLockHeld, OneOwner, Owners, HasFile
<1> QED BY <1>1, <1>2, LockInvInductive, PTL DEF LockSpec

-----------------------------------------------------------------------------
\* A process between OpenMutexes() and the end has a mutex that exists, as the name has.
MutexKnown ==
    /\ name <= Len(locked)
    /\ \A p \in Procs : lock[p].at \in {"file", "named", "own"} =>
                          lock[p].mutex \in 1 .. Len(locked)

\* While names are removed after crashes only: a mutex without the name stays locked by a
\* dead process, an owner has locked the one with the name, and after a crash nobody can.
CrashKept ==
    ~needless =>
        /\ \A m \in 1 .. Len(locked) : m # name => locked[m] # Nobody
        /\ \A p \in Owners : lock[p].mutex = name /\ locked[name] = p
        /\ unclean => name # 0 /\ locked[name] # Nobody /\ Owners = {}

CrashInv == LockTypeOK /\ MutexKnown /\ CrashKept

(* A step keeps what the processes know of the mutex.                       *)
LEMMA MutexKnownInductive ==
  LockTypeOK /\ MutexKnown /\ [LockNext]_lockVars => MutexKnown'
<1> SUFFICES ASSUME LockTypeOK, MutexKnown, [LockNext]_lockVars PROVE MutexKnown'
  OBVIOUS
<1> USE DEF LockTypeOK, MutexKnown
<1>1. CASE UNCHANGED lockVars
  BY <1>1 DEF lockVars
<1>2. ASSUME NEW p \in Procs, OpenMutexes(p) PROVE MutexKnown'
  BY <1>2 DEF OpenMutexes
<1>3. ASSUME NEW p \in Procs, TryFileLock(p) PROVE MutexKnown'
  <2>1. name' = name /\ locked' = locked
    BY <1>3 DEF TryFileLock
  <2>2. \A q \in Procs \ {p} : lock'[q] = lock[q]
    BY <1>3 DEF TryFileLock
  <2>3. lock[p].mutex \in 1 .. Len(locked)
    BY <1>3 DEF TryFileLock
  <2>4. lock'[p].at = "out" \/ lock'[p].mutex = lock[p].mutex
    BY <1>3 DEF TryFileLock, Out
  <2> QED BY <2>1, <2>2, <2>3, <2>4
<1>4. ASSUME NEW p \in Procs, TryNamedLock(p) PROVE MutexKnown'
  BY <1>4 DEF TryNamedLock, Out
<1>5. ASSUME NEW p \in Procs, RemoveName(p) PROVE MutexKnown'
  BY <1>5 DEF RemoveName
<1>6. ASSUME NEW p \in Procs, UnlockNamed(p) PROVE MutexKnown'
  BY <1>6 DEF UnlockNamed
<1>7. ASSUME NEW p \in Procs, UnlockFile(p) PROVE MutexKnown'
  BY <1>7 DEF UnlockFile, Out
<1>8. ASSUME NEW p \in Procs, CrashLock(p) PROVE MutexKnown'
  BY <1>8 DEF CrashLock, Out
<1> QED BY <1>1, <1>2, <1>3, <1>4, <1>5, <1>6, <1>7, <1>8 DEF LockNext, Acquire

(* The crash of an owner stays visible: no step but the removal of the name *)
(* unlocks the mutex that it left locked.                                   *)
LEMMA CrashInvInductive == CrashInv /\ [LockNext]_lockVars => CrashInv'
<1> SUFFICES ASSUME CrashInv, [LockNext]_lockVars, ~needless' PROVE CrashKept'
  BY LockTypeInductive, MutexKnownInductive DEF CrashInv, CrashKept
<1> USE LockAssumption DEF CrashInv, LockTypeOK, MutexKnown, CrashKept, Owners
<1>1. CASE UNCHANGED lockVars
  BY <1>1 DEF lockVars
<1>2. ASSUME NEW p \in Procs, OpenMutexes(p) PROVE CrashKept'
  <2>1. Owners' = Owners /\ \A q \in Owners : lock'[q] = lock[q]
    BY <1>2 DEF OpenMutexes
  <2>2. CASE name = 0
    <3>1. Owners = {} /\ ~unclean
      BY <1>2, <2>2 DEF OpenMutexes
    <3>2. locked' = Append(locked, Nobody) /\ name' = Len(locked) + 1
      BY <1>2, <2>2 DEF OpenMutexes
    <3>3. /\ Len(locked') = Len(locked) + 1
          /\ \A m \in 1 .. Len(locked) : locked'[m] = locked[m]
      BY <3>2
    <3>4. \A m \in 1 .. Len(locked) : locked[m] # Nobody
      BY <1>2, <2>2 DEF OpenMutexes
    <3>5. \A m \in 1 .. Len(locked') : m # name' => locked'[m] # Nobody
      <4>1. Len(locked) \in Nat
        OBVIOUS
      <4> QED BY <4>1, <3>2, <3>3, <3>4
    <3> QED BY <1>2, <2>1, <3>1, <3>5 DEF OpenMutexes
  <2>3. CASE name # 0
    BY <1>2, <2>1, <2>3 DEF OpenMutexes
  <2> QED BY <2>2, <2>3
<1>3. ASSUME NEW p \in Procs, TryFileLock(p) PROVE CrashKept'
  <2>1. \A q \in Procs \ {p} : lock'[q] = lock[q]
    BY <1>3 DEF TryFileLock
  <2>2. lock[p].at # "own" /\ lock'[p].at # "own"
    BY <1>3 DEF TryFileLock, Out
  <2>3. Owners' = Owners /\ \A q \in Owners : lock'[q] = lock[q]
    BY <2>1, <2>2
  <2> QED BY <1>3, <2>3 DEF TryFileLock
<1>4. ASSUME NEW p \in Procs, TryNamedLock(p) PROVE CrashKept'
  <2>1. CASE locked[lock[p].mutex] = Nobody
    <3>1. lock[p].mutex = name /\ name \in 1 .. Len(locked)
      BY <1>4, <2>1 DEF TryNamedLock
    <3>2. Owners = {} /\ ~unclean
      BY <1>4, <2>1, <3>1 DEF TryNamedLock
    <3>3. Owners' = {p} /\ lock'[p].mutex = name
      BY <1>4, <2>1, <3>1, <3>2 DEF TryNamedLock
    <3>4. Len(locked') = Len(locked) /\ locked'[name] = p
      BY <1>4, <2>1, <3>1 DEF TryNamedLock
    <3>5. \A m \in 1 .. Len(locked) : m # name => locked'[m] = locked[m]
      BY <1>4, <2>1, <3>1 DEF TryNamedLock
    <3> QED BY <1>4, <3>2, <3>3, <3>4, <3>5 DEF TryNamedLock
  <2>2. CASE locked[lock[p].mutex] # Nobody
    <3>1. \A q \in Procs \ {p} : lock'[q] = lock[q]
      BY <1>4, <2>2 DEF TryNamedLock
    <3>2. lock[p].at # "own" /\ lock'[p].at # "own"
      BY <1>4, <2>2 DEF TryNamedLock, Out
    <3>3. Owners' = Owners /\ \A q \in Owners : lock'[q] = lock[q]
      BY <3>1, <3>2
    <3> QED BY <1>4, <2>2, <3>3 DEF TryNamedLock
  <2> QED BY <2>1, <2>2
<1>5. ASSUME NEW p \in Procs, RemoveName(p) PROVE CrashKept'
  BY <1>5 DEF RemoveName
<1>6. ASSUME NEW p \in Procs, UnlockNamed(p) PROVE CrashKept'
  BY <1>6 DEF UnlockNamed
<1>7. ASSUME NEW p \in Procs, UnlockFile(p) PROVE CrashKept'
  BY <1>7 DEF UnlockFile, Out
<1>8. ASSUME NEW p \in Procs, CrashLock(p) PROVE CrashKept'
  <2>1. Owners' = Owners \ {p} /\ \A q \in Owners' : lock'[q] = lock[q]
    BY <1>8 DEF CrashLock, Out
  <2>2. CASE p \in Owners
    <3>1. Owners' = {}
      BY <1>8, <2>1, <2>2 DEF CrashLock
    <3>2. name # 0 /\ locked[name] # Nobody
      BY <1>8, <2>2 DEF CrashLock
    <3> QED BY <1>8, <3>1, <3>2 DEF CrashLock
  <2>3. CASE p \notin Owners
    BY <1>8, <2>1, <2>3 DEF CrashLock
  <2> QED BY <2>2, <2>3
<1> QED BY <1>1, <1>2, <1>3, <1>4, <1>5, <1>6, <1>7, <1>8 DEF LockNext, Acquire

(* For every set of processes: after the crash of the owner of a channel    *)
(* nobody has it before somebody has forced the lock.                       *)
THEOREM CrashNoticedAlways == LockSpec => []CrashIsNoticed
<1>1. LockInit => CrashInv
  BY LockAssumption
     DEF LockInit, CrashInv, LockTypeOK, MutexKnown, CrashKept, Owners, HasFile, Steps, Out
<1>2. CrashInv => CrashIsNoticed
  BY DEF CrashInv, CrashKept, CrashIsNoticed
<1> QED BY <1>1, <1>2, CrashInvInductive, PTL DEF LockSpec

-----------------------------------------------------------------------------

(* The queue in which a client begins with all superpages.                  *)
LEMMA AllSuperpages ==
    LET q == SetToSeq(Superpages)
    IN  /\ q \in Seq(Superpages) /\ Distinct(q) /\ ToSet(q) = Superpages
        /\ Len(q) = Cardinality(Superpages) /\ Cardinality(Superpages) \in Nat
<1> DEFINE n == Cardinality(Superpages)
           q == SetToSeq(Superpages)
<1>1. n \in Nat /\ ExistsBijection(1 .. n, Superpages)
  BY ChannelAssumption, FS_CardinalityType
<1>2. PICK f : f \in Bijection(1 .. n, Superpages)
  BY <1>1 DEF ExistsBijection
<1>3. f \in [1 .. n -> Superpages] /\ \A a, b \in 1 .. n : f[a] = f[b] => a = b
  BY <1>2 DEF Bijection, Injection, IsInjective
<1>4. f \in [1 .. n -> Superpages] /\ IsInjective(f)
  BY <1>3 DEF IsInjective
<1>5. q \in [1 .. n -> Superpages] /\ IsInjective(q)
  BY <1>4 DEF SetToSeq
<1> HIDE DEF q
<1>6. q \in Seq(Superpages) /\ Len(q) = n /\ Distinct(q)
  BY <1>1, <1>5 DEF IsInjective, Distinct
<1>7. ToSet(q) \subseteq Superpages /\ Cardinality(ToSet(q)) = n
  BY <1>6, DistinctCount, SetOfSeq
<1>8. ToSet(q) = Superpages
  BY <1>7, ChannelAssumption, FS_Subset
<1> QED BY <1>1, <1>6, <1>8 DEF q

-----------------------------------------------------------------------------
\* The client has the lock while it uses the channel.
InUse ==
    /\ main # "off" => BenchProc \in Owners
    /\ equipment \notin {"off", "failed"} => ReadoutProc \in Owners

ChannelTypes ==
    /\ transfer \in SUBSET Superpages
    /\ ready \in Seq(Superpages)

-----------------------------------------------------------------------------
\* The loop of the benchmark.
Running == {"loop", "read", "join"}

BenchTypes ==
    /\ main \in Running \cup {"off", "unwind", "excess"}
    /\ freeQueue \in Seq(Superpages)
    /\ readoutQueue \in Seq(Superpages)
    /\ hand \in Superpages \cup {None}
    /\ mReadoutCount \in Nat
    /\ hand # None <=> main = "read"
    /\ main = "off" => /\ push = "off" /\ low = "off"
                       /\ freeQueue = << >> /\ readoutQueue = << >>
                       /\ mReadoutCount = 0 /\ ~mDmaLoopBreak

BenchPlaces ==
    main \in Running =>
        /\ \A s \in Superpages : InBench(s) # InChannel(s)
        /\ Distinct(freeQueue) /\ Distinct(readoutQueue) /\ Distinct(ready)
        /\ ToSet(freeQueue) \cap ToSet(readoutQueue) = {}
        /\ hand \notin ToSet(freeQueue) \cup ToSet(readoutQueue)
        /\ ToSet(ready) \cap transfer = {}
        /\ push = "pop" => ready # << >>

BenchLimit ==
    limited =>
        /\ main = "read" => mReadoutCount < MaxPages
        /\ mReadoutCount < MaxPages + PagesPerSuperpage
        /\ main = "join" => mDmaLoopBreak
        /\ mDmaLoopBreak => \/ mReadoutCount >= MaxPages \/ sigInt
                            \/ push = "thrown" \/ low = "thrown"
        /\ main = "excess" => mReadoutCount >= MaxPages \/ sigInt
BenchInv == BenchTypes /\ BenchPlaces /\ BenchLimit

-----------------------------------------------------------------------------
\* The equipment of the readout.
\* The slots of pagesAvailable in use when its indices are a and b.
Between(a, b) == {i \in 0 .. FifoSize : IF a <= b THEN a < i /\ i <= b ELSE a < i \/ i <= b}
Held == Between(indexStart, indexEnd)
FreePages == {slots[i] : i \in Held}

EquipmentTypes ==
    /\ equipment \in {"off", "failed", "fill", "give", "check", "twice"}
    /\ indexStart \in 0 .. FifoSize
    /\ indexEnd \in 0 .. FifoSize
    /\ slots \in [0 .. FifoSize -> Superpages \cup {NoPage}]
    /\ dataOut \in Seq(Superpages)
    /\ blocks \in SUBSET Superpages
    /\ drop \in [Droppers -> [page : Superpages \cup {NoPage}, index : 0 .. FifoSize]]
    /\ overlapped \in Nat
    /\ equipment \in {"off", "failed"} => /\ indexStart = 0 /\ dataOut = << >> /\ blocks = {}
                                          /\ drop = [t \in Droppers |-> Idle]

\* What holds until two drops overlap: one thread at most is in push().
Alone ==
    /\ equipment # "twice"
    /\ \A t, u \in Droppers : drop[t] # Idle /\ drop[u] # Idle => t = u

\* A dropper has written the slot that it will publish.
DropPlaces ==
    \A t \in Droppers : drop[t] # Idle =>
        /\ drop[t].page \in Superpages
        /\ drop[t].index = Following(indexEnd) /\ drop[t].index # indexStart
        /\ slots[drop[t].index] = drop[t].page

EquipmentPlaces ==
    equipment \notin {"off", "failed"} =>
        /\ \A i \in Held : slots[i] \in Superpages
        /\ \A i, j \in Held : slots[i] = slots[j] => i = j
        /\ Distinct(ready) /\ Distinct(dataOut)
        /\ FreePages \cup transfer \cup ToSet(ready) \cup ToSet(dataOut) \cup blocks \cup Dropping
             = Superpages
        /\ FreePages \cap (transfer \cup ToSet(ready) \cup ToSet(dataOut) \cup blocks \cup Dropping) = {}
        /\ transfer \cap (ToSet(ready) \cup ToSet(dataOut) \cup blocks \cup Dropping) = {}
        /\ ToSet(ready) \cap (ToSet(dataOut) \cup blocks \cup Dropping) = {}
        /\ ToSet(dataOut) \cap (blocks \cup Dropping) = {}
        /\ blocks \cap Dropping = {}

EquipmentInv ==
    /\ EquipmentTypes
    /\ overlapped = 0 => Alone /\ DropPlaces /\ EquipmentPlaces

-----------------------------------------------------------------------------
(* What the programs do to the lock is what its processes do.               *)
LEMMA LockStep == Next => [LockNext]_lockVars
<1> SUFFICES ASSUME Next PROVE [LockNext]_lockVars
  OBVIOUS
<1>0. BenchProc \in Procs /\ ReadoutProc \in Procs
  BY ClientsAssumption, LockAssumption
<1>1. CASE BenchOpened
  BY <1>1 DEF BenchOpened
<1>2. CASE BenchStep(BenchNext)
  BY <1>2 DEF BenchStep
<1>3. CASE BenchClosed
  BY <1>0, <1>3 DEF BenchClosed, LockNext
<1>4. CASE EquipmentOpened
  BY <1>4 DEF EquipmentOpened
<1>5. CASE EquipmentStep(EquipmentNext)
  BY <1>5 DEF EquipmentStep
<1>6. CASE EquipmentClosed
  BY <1>0, <1>6 DEF EquipmentClosed, LockNext
<1>7. ASSUME NEW p \in Procs, OpenOrClose(p) PROVE [LockNext]_lockVars
  BY <1>7 DEF OpenOrClose, LockNext
<1>8. ASSUME NEW p \in Procs, Crash(p) PROVE [LockNext]_lockVars
  BY <1>8 DEF Crash, LockNext
<1>9. ASSUME NEW s \in Superpages, Card(s) PROVE [LockNext]_lockVars
  BY <1>9 DEF Card
<1> QED BY <1>1, <1>2, <1>3, <1>4, <1>5, <1>6, <1>7, <1>8, <1>9 DEF Next

(* A process that takes the lock, gives it back or dies does not take it    *)
(* away from another one.                                                   *)
LEMMA OthersKeep ==
    ASSUME LockTypeOK, NEW p \in Procs, NEW q \in Procs, q # p, q \in Owners,
           Acquire(p) \/ UnlockNamed(p) \/ UnlockFile(p) \/ CrashLock(p)
    PROVE  q \in Owners'
<1> SUFFICES lock'[q] = lock[q]
  BY DEF Owners
<1> USE DEF LockTypeOK
<1>1. CASE Acquire(p)
  <2>1. CASE OpenMutexes(p)
    BY <2>1 DEF OpenMutexes
  <2>2. CASE TryFileLock(p)
    BY <2>2 DEF TryFileLock
  <2>3. CASE TryNamedLock(p)
    BY <2>3 DEF TryNamedLock
  <2>4. CASE RemoveName(p)
    BY <2>4 DEF RemoveName
  <2> QED BY <1>1, <2>1, <2>2, <2>3, <2>4 DEF Acquire
<1>2. CASE UnlockNamed(p)
  BY <1>2 DEF UnlockNamed
<1>3. CASE UnlockFile(p)
  BY <1>3 DEF UnlockFile
<1>4. CASE CrashLock(p)
  BY <1>4 DEF CrashLock
<1> QED BY <1>1, <1>2, <1>3, <1>4

(* A process that is about to take the lock does not have it.               *)
LEMMA NotOwner ==
    ASSUME NEW p \in Procs, Acquire(p) \/ UnlockFile(p)
    PROVE  p \notin Owners
BY DEF Acquire, OpenMutexes, TryFileLock, TryNamedLock, RemoveName, UnlockFile, Owners

(* Only a client that has the lock uses the channel.                        *)
LEMMA InUseInductive == LockTypeOK /\ InUse /\ [Next]_vars => InUse'
<1> SUFFICES ASSUME LockTypeOK, InUse, [Next]_vars PROVE InUse'
  OBVIOUS
<1>0. BenchProc \in Procs /\ ReadoutProc \in Procs /\ BenchProc # ReadoutProc
  BY ClientsAssumption, LockAssumption
<1>1. CASE UNCHANGED vars
  BY <1>1 DEF vars, programVars, benchVars, benchThreads, equipmentVars, lockVars, InUse, Owners
<1>2. CASE BenchOpened
  BY <1>2 DEF BenchOpened, equipmentVars, lockVars, InUse, Owners
<1>3. CASE BenchStep(BenchNext)
  <2>1. main' # "off" => main # "off"
    BY <1>3 DEF BenchStep, BenchNext, PushThread, PushTop, PushFill, PushGive, PushCheck, PushPop,
                PushThrow, MainThread, ReadoutTop, ReadoutPages, Join, ReadoutThrow,
                FreeExcessPages, LowPriority, LowThrow, SigInt, benchVars, benchThreads
  <2> QED BY <1>3, <2>1 DEF BenchStep, equipmentVars, lockVars, InUse, Owners
<1>4. CASE BenchClosed
  <2>1. main' = "off" /\ UNCHANGED equipment
    BY <1>4 DEF BenchClosed, BenchEnd, BenchGone, equipmentVars
  <2>2. ReadoutProc \in Owners => ReadoutProc \in Owners'
    BY <1>0, <1>4, OthersKeep DEF BenchClosed
  <2> QED BY <2>1, <2>2 DEF InUse
<1>5. CASE EquipmentOpened
  <2>1. equipment' \notin {"off", "failed"} => ReadoutProc \in Owners
    BY <1>5 DEF EquipmentOpened
  <2> QED BY <1>5, <2>1 DEF EquipmentOpened, benchVars, benchThreads, lockVars, InUse, Owners
<1>6. CASE EquipmentStep(EquipmentNext)
  <2>1. equipment' \notin {"off", "failed"} => equipment \notin {"off", "failed"}
    BY <1>6 DEF EquipmentStep, EquipmentNext, EquipmentThread, EquipmentFill, EquipmentGive,
                EquipmentCheck, EquipmentNoMemory, TakeBlock, DropDone, DropBlock
  <2> QED BY <1>6, <2>1 DEF EquipmentStep, benchVars, benchThreads, lockVars, InUse, Owners
<1>7. CASE EquipmentClosed
  <2>1. equipment' = "off" /\ UNCHANGED main
    BY <1>7 DEF EquipmentClosed, EquipmentStop, EquipmentGone, benchVars, benchThreads
  <2>2. BenchProc \in Owners => BenchProc \in Owners'
    <3>1. CASE UnlockNamed(ReadoutProc)
      BY <1>0, <3>1, OthersKeep
    <3>2. CASE UNCHANGED lockVars
      BY <3>2 DEF lockVars, Owners
    <3> QED BY <1>7, <3>1, <3>2 DEF EquipmentClosed
  <2> QED BY <2>1, <2>2 DEF InUse
<1>8. ASSUME NEW p \in Procs, OpenOrClose(p) PROVE InUse'
  <2>1. UNCHANGED <<main, equipment>>
    BY <1>8 DEF OpenOrClose, programVars, benchVars, benchThreads, equipmentVars
  <2>2. p \notin Owners \/ Unused(p)
    BY <1>8, NotOwner DEF OpenOrClose
  <2>3. ASSUME NEW q \in Procs, q # p, q \in Owners PROVE q \in Owners'
    BY <1>8, <2>3, OthersKeep DEF OpenOrClose
  <2> QED BY <1>0, <2>1, <2>2, <2>3 DEF InUse, Unused
<1>9. ASSUME NEW p \in Procs, Crash(p) PROVE InUse'
  <2>1. ASSUME NEW q \in Procs, q # p, q \in Owners PROVE q \in Owners'
    BY <1>9, <2>1, OthersKeep DEF Crash
  <2>2. main' # "off" => p # BenchProc /\ main # "off"
    BY <1>9 DEF Crash, BenchGone, benchVars, benchThreads
  <2>3. equipment' # "off" => p # ReadoutProc /\ UNCHANGED equipment
    BY <1>9 DEF Crash, EquipmentGone, equipmentVars
  <2> QED BY <1>0, <2>1, <2>2, <2>3 DEF InUse
<1>10. ASSUME NEW s \in Superpages, Card(s) PROVE InUse'
  BY <1>10 DEF Card, benchVars, benchThreads, equipmentVars, lockVars, InUse, Owners
<1> QED BY <1>1, <1>2, <1>3, <1>4, <1>5, <1>6, <1>7, <1>8, <1>9, <1>10 DEF Next

(* So the two clients never use it at the same time.                        *)
LEMMA OneClient ==
    ASSUME LockInv, InUse
    PROVE  main = "off" \/ equipment \in {"off", "failed"}
<1>1. BenchProc # ReadoutProc
  BY ClientsAssumption
<1> QED BY <1>1 DEF LockInv, FileLockHeld, HasFile, InUse, Owners

-----------------------------------------------------------------------------
(* What an operation of the channel does to its queues.                     *)
LEMMA ArriveKeepsTypes ==
    ASSUME ChannelTypes, NEW s \in Superpages, ChannelArrive(s)
    PROVE  ChannelTypes'
<1>1. Append(ready, s) \in Seq(Superpages)
  BY SetOfAppend DEF ChannelTypes
<1> QED BY <1>1 DEF ChannelTypes, ChannelArrive

(* popSuperpage() leaves a queue of superpages.                             *)
LEMMA PopKeepsTypes ==
    ASSUME ChannelTypes, ChannelPop
    PROVE  ChannelTypes'
<1>1. ready # << >> => Tail(ready) \in Seq(Superpages)
  BY SetOfTail DEF ChannelTypes
<1> QED BY <1>1 DEF ChannelTypes, ChannelPop

(* startDma() empties the queues.                                           *)
LEMMA StartKeepsTypes ==
    ASSUME ChannelStart
    PROVE  ChannelTypes' /\ transfer' = {} /\ ready' = << >> /\ started'
BY DEF ChannelTypes, ChannelStart

(* The channel holds the superpages of its client.                          *)
LEMMA ChannelTypesInductive == ChannelTypes /\ BenchTypes /\ [Next]_vars => ChannelTypes'
<1> SUFFICES ASSUME ChannelTypes, BenchTypes, [Next]_vars PROVE ChannelTypes'
  OBVIOUS
<1>0. ASSUME UNCHANGED <<transfer, ready>> PROVE ChannelTypes'
  BY <1>0 DEF ChannelTypes
<1>a. ASSUME UNCHANGED channelVars PROVE ChannelTypes'
  BY <1>0, <1>a DEF channelVars
<1>b. ASSUME NEW s \in Superpages, ChannelPush(s) PROVE ChannelTypes'
  BY <1>b DEF ChannelTypes, ChannelPush
<1>1. CASE UNCHANGED vars
  BY <1>1, <1>a DEF vars, programVars
<1>2. CASE BenchOpened
  BY <1>2, StartKeepsTypes DEF BenchOpened, BenchStart
<1>3. CASE BenchStep(BenchNext)
  <2>1. CASE PushFill
    <3>1. CASE \E s \in Superpages : ChannelArrive(s)
      BY <3>1, ArriveKeepsTypes
    <3>2. CASE UNCHANGED channelVars
      BY <3>2, <1>a
    <3> QED BY <2>1, <3>1, <3>2 DEF PushFill
  <2>2. CASE PushGive
    <3>1. CASE UNCHANGED channelVars
      BY <3>1, <1>a
    <3>2. CASE freeQueue # << >> /\ ChannelPush(Head(freeQueue))
      <4>1. Head(freeQueue) \in Superpages
        BY <3>2, SetOfTail DEF BenchTypes
      <4> QED BY <3>2, <4>1, <1>b
    <3> QED BY <2>2, <3>1, <3>2 DEF PushGive
  <2>3. CASE PushPop \/ FreeExcessPages
    BY <2>3, PopKeepsTypes DEF PushPop, FreeExcessPages
  <2>4. CASE \/ PushTop \/ PushCheck \/ PushThrow \/ MainThread \/ ReadoutThrow
             \/ LowPriority \/ LowThrow \/ SigInt
    <3>1. UNCHANGED channelVars
      BY <2>4 DEF PushTop, PushCheck, PushThrow, MainThread, ReadoutTop, ReadoutPages, Join,
                  ReadoutThrow, LowPriority, LowThrow, SigInt
    <3> QED BY <3>1, <1>a
  <2> QED BY <1>3, <2>1, <2>2, <2>3, <2>4 DEF BenchStep, BenchNext, PushThread
<1>4. CASE BenchClosed
  <2>1. UNCHANGED <<transfer, ready>>
    BY <1>4 DEF BenchClosed, BenchEnd, ChannelStop, channelVars
  <2> QED BY <2>1, <1>0
<1>5. CASE EquipmentOpened
  <2>1. ChannelStart \/ UNCHANGED channelVars
    BY <1>5 DEF EquipmentOpened, EquipmentStart
  <2> QED BY <2>1, <1>a, StartKeepsTypes
<1>6. CASE EquipmentStep(EquipmentNext)
  <2>1. CASE EquipmentFill
    <3>1. CASE \E s \in Superpages : ChannelArrive(s)
      BY <3>1, ArriveKeepsTypes
    <3>2. CASE UNCHANGED channelVars
      BY <3>2, <1>a
    <3> QED BY <2>1, <3>1, <3>2 DEF EquipmentFill
  <2>2. CASE EquipmentGive
    <3>1. UNCHANGED channelVars \/ \E s \in Superpages : ChannelPush(s)
      BY <2>2 DEF EquipmentGive
    <3> QED BY <3>1, <1>a, <1>b
  <2>3. CASE EquipmentCheck
    <3>1. UNCHANGED channelVars \/ ChannelPop
      BY <2>3 DEF EquipmentCheck
    <3> QED BY <3>1, <1>a, PopKeepsTypes
  <2>4. CASE \/ EquipmentNoMemory \/ TakeBlock
             \/ \E t \in Droppers : DropDone(t) \/ \E s \in Superpages : DropBlock(t, s)
    <3>1. UNCHANGED channelVars
      BY <2>4 DEF EquipmentNoMemory, TakeBlock, DropDone, DropBlock
    <3> QED BY <3>1, <1>a
  <2> QED BY <1>6, <2>1, <2>2, <2>3, <2>4 DEF EquipmentStep, EquipmentNext, EquipmentThread
<1>7. CASE EquipmentClosed
  <2>1. UNCHANGED <<transfer, ready>>
    BY <1>7 DEF EquipmentClosed, EquipmentStop, ChannelStop, channelVars
  <2> QED BY <2>1, <1>0
<1>8. ASSUME NEW p \in Procs, OpenOrClose(p) PROVE ChannelTypes'
  BY <1>8, <1>a DEF OpenOrClose, programVars
<1>9. ASSUME NEW p \in Procs, Crash(p) PROVE ChannelTypes'
  BY <1>9, <1>a DEF Crash
<1>10. ASSUME NEW s \in Superpages, Card(s) PROVE ChannelTypes'
  BY <1>10, <1>0 DEF Card, ChannelComplete
<1> QED BY <1>1, <1>2, <1>3, <1>4, <1>5, <1>6, <1>7, <1>8, <1>9, <1>10 DEF Next

(* What a step means for the benchmark: its own, its start or end, or one   *)
(* that leaves alone the superpages it has given to the channel.            *)
LEMMA BenchSteps ==
    ASSUME LockInv, InUse, [Next]_vars
    PROVE  \/ BenchStart \/ BenchNext \/ BenchGone
           \/ UNCHANGED benchVars /\ (main = "off" \/ UNCHANGED <<transfer, ready>>)
<1>1. CASE UNCHANGED vars
  BY <1>1 DEF vars, programVars, channelVars
<1>2. CASE BenchOpened \/ BenchStep(BenchNext) \/ BenchClosed
  BY <1>2 DEF BenchOpened, BenchStep, BenchClosed, BenchEnd
<1>3. CASE EquipmentOpened
  <2>1. ReadoutProc \in Owners \/ UNCHANGED channelVars
    BY <1>3 DEF EquipmentOpened
  <2>2. BenchProc # ReadoutProc
    BY ClientsAssumption
  <2>3. ReadoutProc \in Owners => main = "off"
    BY <2>2 DEF LockInv, FileLockHeld, HasFile, InUse, Owners
  <2> QED BY <1>3, <2>1, <2>3 DEF EquipmentOpened, channelVars
<1>4. CASE EquipmentStep(EquipmentNext)
  <2>1. main = "off" \/ equipment \in {"off", "failed"}
    BY OneClient
  <2>2. equipment \in {"off", "failed"} => UNCHANGED channelVars
    BY <1>4 DEF EquipmentStep, EquipmentNext, EquipmentThread, EquipmentFill, EquipmentGive,
                EquipmentCheck, EquipmentNoMemory, TakeBlock, DropDone, DropBlock
  <2> QED BY <1>4, <2>1, <2>2 DEF EquipmentStep, channelVars
<1>5. CASE EquipmentClosed
  BY <1>5 DEF EquipmentClosed, EquipmentStop, ChannelStop, channelVars
<1>6. ASSUME NEW p \in Procs, OpenOrClose(p) PROVE UNCHANGED benchVars /\ UNCHANGED <<transfer, ready>>
  BY <1>6 DEF OpenOrClose, programVars, channelVars
<1>7. ASSUME NEW p \in Procs, Crash(p)
      PROVE  BenchGone \/ (UNCHANGED benchVars /\ UNCHANGED <<transfer, ready>>)
  BY <1>7 DEF Crash, channelVars
<1>8. ASSUME NEW s \in Superpages, Card(s) PROVE UNCHANGED benchVars /\ UNCHANGED <<transfer, ready>>
  BY <1>8 DEF Card, ChannelComplete
<1> QED BY <1>1, <1>2, <1>3, <1>4, <1>5, <1>6, <1>7, <1>8 DEF Next

(* There is room for the superpage in hand: it is not in the free queue.    *)
LEMMA FreeHasRoom ==
    ASSUME BenchTypes, BenchPlaces, main = "read"
    PROVE  Len(freeQueue) < MaxSuperpages
<1>1. hand \in Superpages /\ hand \notin ToSet(freeQueue) /\ Distinct(freeQueue)
  BY BenchAssumption DEF BenchTypes, BenchPlaces, Running
<1>2. ToSet(freeQueue) \subseteq Superpages /\ Len(freeQueue) \in Nat
  BY SetOfSeq DEF BenchTypes
<1>3. Cardinality(ToSet(freeQueue)) = Len(freeQueue)
  BY DistinctCount, <1>1 DEF BenchTypes
<1>4. /\ ToSet(freeQueue) \subseteq Superpages \ {hand} /\ IsFiniteSet(Superpages \ {hand})
      /\ Cardinality(Superpages \ {hand}) = Cardinality(Superpages) - 1
      /\ Cardinality(Superpages) \in Nat
  BY <1>1, <1>2, ChannelAssumption, FS_RemoveElement, FS_CardinalityType
<1>5. Cardinality(ToSet(freeQueue)) <= Cardinality(Superpages \ {hand})
  BY <1>4, FS_Subset
<1> QED BY <1>2, <1>3, <1>4, <1>5 DEF MaxSuperpages

(* The queues of the benchmark hold superpages.                             *)
LEMMA BenchTypesInductive ==
    ASSUME ChannelTypes, BenchTypes, BenchPlaces, BenchStart \/ BenchNext
    PROVE  BenchTypes'
<1> USE DEF BenchTypes, Running
<1>0. mReadoutCount + PagesPerSuperpage \in Nat
  BY BenchAssumption
<1>1. CASE BenchStart
  BY <1>1, AllSuperpages DEF BenchStart
<1>2. CASE PushTop
  BY <1>2 DEF PushTop, benchShared
<1>3. CASE PushFill
  BY <1>3 DEF PushFill, benchShared
<1>4. CASE PushGive
  <2>1. freeQueue # << >> => Tail(freeQueue) \in Seq(Superpages)
    BY SetOfTail
  <2> QED BY <1>4, <2>1 DEF PushGive
<1>5. CASE PushCheck
  <2>1. ready # << >> => Append(readoutQueue, Head(ready)) \in Seq(Superpages)
    BY SetOfTail, SetOfAppend DEF ChannelTypes
  <2> QED BY <1>5, <2>1 DEF PushCheck
<1>6. CASE PushPop
  BY <1>6 DEF PushPop, benchShared
<1>7. CASE PushThrow
  BY <1>7 DEF PushThrow
<1>8. CASE ReadoutTop
  <2>1. readoutQueue # << >> => /\ Head(readoutQueue) \in Superpages
                                /\ Tail(readoutQueue) \in Seq(Superpages)
    BY SetOfTail
  <2> QED BY <1>8, <2>1, BenchAssumption DEF ReadoutTop
<1>9. CASE ReadoutPages
  <2>1. hand \in Superpages /\ Append(freeQueue, hand) \in Seq(Superpages)
    BY <1>9, SetOfAppend DEF ReadoutPages
  <2> QED BY <1>0, <1>9, <2>1, FreeHasRoom DEF ReadoutPages, Count
<1>10. CASE Join
  BY <1>10 DEF Join, benchShared
<1>11. CASE ReadoutThrow
  BY <1>11 DEF ReadoutThrow, benchShared
<1>12. CASE FreeExcessPages
  BY <1>12 DEF FreeExcessPages, benchVars, benchThreads, benchShared
<1>13. CASE LowPriority
  BY <1>13 DEF LowPriority
<1>14. CASE LowThrow
  BY <1>14 DEF LowThrow
<1>15. CASE SigInt
  BY <1>15 DEF SigInt, benchThreads
<1> QED BY <1>1, <1>2, <1>3, <1>4, <1>5, <1>6, <1>7, <1>8, <1>9, <1>10, <1>11, <1>12, <1>13,
           <1>14, <1>15 DEF BenchNext, PushThread, MainThread

(* The counter of the readout thread passes the limit by less than one      *)
(* superpage, whatever the push thread has counted.                         *)
LEMMA BenchLimitInductive ==
    ASSUME BenchTypes, BenchLimit, BenchStart \/ BenchNext
    PROVE  BenchLimit'
<1> USE DEF BenchTypes, BenchLimit, Running
<1>0. MaxPages \in Nat /\ PagesPerSuperpage \in Nat /\ PagesPerSuperpage > 0
  BY BenchAssumption
<1>1. CASE BenchStart
  BY <1>0, <1>1 DEF BenchStart
<1>2. CASE PushTop
  BY <1>2 DEF PushTop, benchShared
<1>3. CASE PushFill
  BY <1>3 DEF PushFill, benchShared
<1>4. CASE PushGive
  BY <1>4 DEF PushGive
<1>5. CASE PushCheck
  BY <1>5 DEF PushCheck
<1>6. CASE PushPop
  BY <1>6 DEF PushPop, benchShared
<1>7. CASE PushThrow
  BY <1>7 DEF PushThrow
<1>8. CASE ReadoutTop
  BY <1>0, <1>8 DEF ReadoutTop
<1>9. CASE ReadoutPages
  BY <1>0, <1>9 DEF ReadoutPages, Count
<1>10. CASE Join
  BY <1>10 DEF Join, benchShared, Ended
<1>11. CASE ReadoutThrow
  BY <1>11 DEF ReadoutThrow, benchShared
<1>12. CASE FreeExcessPages
  BY <1>12 DEF FreeExcessPages, benchVars, benchThreads, benchShared
<1>13. CASE LowPriority
  BY <1>13 DEF LowPriority
<1>14. CASE LowThrow
  BY <1>14 DEF LowThrow
<1>15. CASE SigInt
  BY <1>15 DEF SigInt, benchThreads
<1> QED BY <1>1, <1>2, <1>3, <1>4, <1>5, <1>6, <1>7, <1>8, <1>9, <1>10, <1>11, <1>12, <1>13,
           <1>14, <1>15 DEF BenchNext, PushThread, MainThread

(* Every superpage stays in one place.                                      *)
LEMMA BenchPlacesInductive ==
    ASSUME ChannelTypes, BenchTypes, BenchPlaces, BenchStart \/ BenchNext
    PROVE  BenchPlaces'
<1> SUFFICES ASSUME main' \in Running PROVE BenchPlaces'
  BY DEF BenchPlaces
<1> USE DEF Running
<1>1. CASE BenchStart
  <2>1. /\ freeQueue' = SetToSeq(Superpages) /\ readoutQueue' = << >> /\ hand' = None
        /\ transfer' = {} /\ ready' = << >> /\ push' = "loop"
    BY <1>1 DEF BenchStart, ChannelStart, BenchTypes
  <2>2. Distinct(<< >>) /\ ToSet(<< >>) = {}
    BY SetOfEmpty DEF Distinct
  <2>3. Distinct(freeQueue') /\ ToSet(freeQueue') = Superpages
    BY <2>1, AllSuperpages
  <2> QED BY <2>1, <2>2, <2>3, BenchAssumption DEF BenchPlaces, InBench, InChannel
<1>2. CASE /\ UNCHANGED <<main, hand, freeQueue, readoutQueue, transfer, ready>>
           /\ push # "pop" /\ push' # "pop"
  BY <1>2 DEF BenchPlaces, InBench, InChannel
<1>2a. CASE /\ UNCHANGED <<hand, freeQueue, readoutQueue, transfer, ready, push>>
            /\ main \in Running
  BY <1>2a DEF BenchPlaces, InBench, InChannel
<1>3. CASE PushFill
  <2>1. CASE UNCHANGED channelVars
    BY <1>2, <1>3, <2>1 DEF PushFill, channelVars, benchShared
  <2>2. ASSUME NEW s \in Superpages, ChannelArrive(s), UNCHANGED push PROVE BenchPlaces'
    <3>1. /\ s \in transfer /\ transfer' = transfer \ {s} /\ ready' = Append(ready, s)
          /\ UNCHANGED <<main, hand, freeQueue, readoutQueue, push>> /\ push = "fill"
      BY <1>3, <2>2 DEF ChannelArrive, PushFill, benchShared
    <3>2. s \notin ToSet(ready) /\ Distinct(ready)
      BY <3>1 DEF BenchPlaces
    <3>3. ToSet(ready') = ToSet(ready) \cup {s} /\ Distinct(ready')
      BY <3>1, <3>2, SetOfAppend, DistinctAppend DEF ChannelTypes
    <3> QED BY <3>1, <3>2, <3>3 DEF BenchPlaces, InBench, InChannel
  <2> QED BY <1>3, <2>1, <2>2 DEF PushFill
<1>4. CASE PushGive
  <2>1. CASE UNCHANGED <<channelVars, freeQueue>> /\ push' = "check"
    BY <1>2, <1>4, <2>1 DEF PushGive, channelVars
  <2>2. CASE /\ freeQueue # << >> /\ ChannelPush(Head(freeQueue))
             /\ freeQueue' = Tail(freeQueue) /\ UNCHANGED push
    <3> DEFINE h == Head(freeQueue)
    <3>1. /\ h \notin transfer \cup ToSet(ready) /\ transfer' = transfer \cup {h}
          /\ UNCHANGED <<main, hand, ready, readoutQueue, push>> /\ push = "give"
      BY <1>4, <2>2 DEF ChannelPush, PushGive
    <3>2. /\ ToSet(freeQueue) = {h} \cup ToSet(freeQueue') /\ h \notin ToSet(freeQueue')
          /\ Distinct(freeQueue') /\ h \in Superpages
      BY <2>2, <3>1, SetOfTail, DistinctTail DEF BenchTypes, BenchPlaces
    <3> HIDE DEF h
    <3> QED BY <3>1, <3>2 DEF BenchPlaces, InBench, InChannel
  <2> QED BY <1>4, <2>1, <2>2 DEF PushGive
<1>5. CASE PushCheck
  <2>1. CASE push' = "loop" /\ UNCHANGED readoutQueue
    BY <1>2, <1>5, <2>1 DEF PushCheck, channelVars
  <2>2. CASE ready # << >> /\ readoutQueue' = Append(readoutQueue, Head(ready)) /\ push' = "pop"
    <3> DEFINE h == Head(ready)
    <3>1. UNCHANGED <<main, hand, ready, freeQueue, transfer>> /\ push = "check"
      BY <1>5 DEF PushCheck, channelVars
    <3>2. /\ ToSet(ready) = {h} \cup ToSet(Tail(ready)) /\ h \notin ToSet(Tail(ready))
          /\ h \in Superpages
      BY <2>2, <3>1, SetOfTail, DistinctTail DEF ChannelTypes, BenchPlaces
    <3>3. ~InBench(h) /\ h \notin transfer
      BY <3>1, <3>2 DEF BenchPlaces, InChannel
    <3>4. ToSet(readoutQueue') = ToSet(readoutQueue) \cup {h} /\ Distinct(readoutQueue')
      BY <2>2, <3>1, <3>2, <3>3, SetOfAppend, DistinctAppend DEF BenchTypes, BenchPlaces, InBench
    <3> HIDE DEF h
    <3> QED BY <2>2, <3>1, <3>2, <3>3, <3>4 DEF BenchPlaces, InBench, InChannel
  <2> QED BY <1>5, <2>1, <2>2 DEF PushCheck
<1>6. CASE PushPop
  <2>1. /\ UNCHANGED <<main, hand, freeQueue, readoutQueue, transfer>> /\ ready # << >>
        /\ ready' = Tail(ready) /\ push = "pop" /\ push' = "check"
    BY <1>6 DEF PushPop, ChannelPop, benchShared
  <2>2. Distinct(ready') /\ ToSet(ready') \subseteq ToSet(ready)
    BY <2>1, SetOfTail, DistinctTail DEF ChannelTypes, BenchPlaces
  <2> QED BY <2>1, <2>2 DEF BenchPlaces, InBench, InChannel
<1>7. CASE ReadoutTop
  <2>1. CASE UNCHANGED <<hand, readoutQueue>>
    BY <1>2a, <1>7, <2>1 DEF ReadoutTop, channelVars
  <2>2. CASE readoutQueue # << >> /\ hand' = Head(readoutQueue) /\ readoutQueue' = Tail(readoutQueue)
    <3>1. UNCHANGED <<freeQueue, transfer, ready, push>> /\ main = "loop" /\ hand = None
      BY <1>7 DEF ReadoutTop, channelVars, BenchTypes
    <3>2. /\ ToSet(readoutQueue) = {hand'} \cup ToSet(readoutQueue')
          /\ hand' \notin ToSet(readoutQueue') /\ Distinct(readoutQueue')
      BY <2>2, <3>1, SetOfTail, DistinctTail DEF BenchTypes, BenchPlaces
    <3> QED BY <3>1, <3>2, BenchAssumption DEF BenchPlaces, InBench, InChannel
  <2> QED BY <1>7, <2>1, <2>2 DEF ReadoutTop
<1>8. CASE ReadoutPages
  <2>1. /\ UNCHANGED <<readoutQueue, transfer, ready, push>> /\ main = "read" /\ hand' = None
        /\ freeQueue' = Append(freeQueue, hand)
    BY <1>8, FreeHasRoom DEF ReadoutPages, channelVars
  <2>2. hand \in Superpages
    BY <2>1 DEF BenchTypes
  <2>3. ToSet(freeQueue') = ToSet(freeQueue) \cup {hand} /\ Distinct(freeQueue')
    BY <2>1, <2>2, SetOfAppend, DistinctAppend DEF BenchTypes, BenchPlaces
  <2>4. ToSet(freeQueue) \subseteq Superpages /\ ToSet(readoutQueue) \subseteq Superpages
    BY SetOfSeq DEF BenchTypes
  <2> QED BY <2>1, <2>2, <2>3, <2>4, BenchAssumption DEF BenchPlaces, InBench, InChannel
<1>9. CASE PushTop
  BY <1>2, <1>9 DEF PushTop, channelVars, benchShared
<1>10. CASE PushThrow
  BY <1>2, <1>10 DEF PushThrow, channelVars
<1>11. CASE Join \/ ReadoutThrow
  BY <1>11 DEF Join, ReadoutThrow
<1>12. CASE FreeExcessPages
  BY <1>12 DEF FreeExcessPages, benchVars, benchThreads
<1>13. CASE LowPriority
  BY <1>2a, <1>13 DEF LowPriority, channelVars
<1>14. CASE LowThrow
  BY <1>2a, <1>14 DEF LowThrow, channelVars
<1>15. CASE SigInt
  BY <1>2a, <1>15 DEF SigInt, channelVars, benchThreads
<1> QED BY <1>1, <1>3, <1>4, <1>5, <1>6, <1>7, <1>8, <1>9, <1>10, <1>11, <1>12, <1>13,
           <1>14, <1>15 DEF BenchNext, PushThread, MainThread

(* The end of the process takes its queues away; what others do between the *)
(* start and the end of the benchmark does not touch its superpages.        *)
LEMMA BenchInvInductive ==
    ASSUME LockInv, InUse, ChannelTypes, BenchInv, [Next]_vars
    PROVE  BenchInv'
<1> USE DEF BenchInv
<1>1. CASE BenchStart \/ BenchNext
  BY <1>1, BenchTypesInductive, BenchPlacesInductive, BenchLimitInductive
<1>2. CASE BenchGone
  <2>1. << >> \in Seq(Superpages)
    OBVIOUS
  <2> QED BY <1>2, <2>1, BenchAssumption DEF BenchGone, BenchTypes, BenchPlaces, BenchLimit, Running
<1>3. CASE UNCHANGED benchVars /\ (main = "off" \/ UNCHANGED <<transfer, ready>>)
  <2>1. BenchTypes' /\ BenchLimit'
    BY <1>3 DEF benchVars, benchThreads, benchShared, BenchTypes, BenchLimit
  <2>2. BenchPlaces'
    BY <1>3 DEF benchVars, benchThreads, benchShared, BenchPlaces, Running, InBench, InChannel
  <2> QED BY <2>1, <2>2
<1> QED BY <1>1, <1>2, <1>3, BenchSteps

(* The places of BenchPlaces, one behind the other, as the property has it. *)
LEMMA BenchIsConsistent ==
    ASSUME BenchInv
    PROVE  BenchConsistent
<1> USE DEF BenchInv
<1>1. main # "wrong" /\ LimitKept
  BY DEF BenchTypes, BenchLimit, LimitKept, Running
<1>2. ASSUME main \in Running
      PROVE  IsInjective(freeQueue \o readoutQueue \o (IF hand = None THEN << >> ELSE <<hand>>))
  <2> DEFINE inHand == IF hand = None THEN << >> ELSE <<hand>>
             both == freeQueue \o readoutQueue
             all == both \o inHand
  <2>1. /\ inHand \in Seq(Superpages) /\ Distinct(inHand)
        /\ ToSet(inHand) = IF hand = None THEN {} ELSE {hand}
    <3>1. CASE hand = None
      BY <3>1, SetOfEmpty DEF Distinct
    <3>2. CASE hand # None
      <4>1. hand \in Superpages /\ inHand = <<hand>>
        BY <3>2 DEF BenchTypes
      <4>2. <<hand>> \in Seq(Superpages) /\ Len(<<hand>>) = 1 /\ <<hand>>[1] = hand
        BY <4>1
      <4>3. Distinct(<<hand>>)
        BY <4>2 DEF Distinct
      <4>4. ToSet(<<hand>>) = {hand}
        BY <4>2 DEF ToSet
      <4> QED BY <3>2, <4>1, <4>2, <4>3, <4>4
    <3> QED BY <3>1, <3>2
  <2>2. /\ both \in Seq(Superpages) /\ Distinct(both)
        /\ ToSet(both) = ToSet(freeQueue) \cup ToSet(readoutQueue)
    BY <1>2, DistinctConcat DEF BenchTypes, BenchPlaces
  <2> HIDE DEF both, inHand
  <2>3. ToSet(both) \cap ToSet(inHand) = {}
    BY <1>2, <2>1, <2>2 DEF BenchPlaces
  <2>4. all \in Seq(Superpages) /\ Distinct(all)
    BY <2>1, <2>2, <2>3, DistinctConcat
  <2> HIDE DEF all
  <2>5. IsInjective(all)
    BY <2>4 DEF IsInjective, Distinct
  <2> QED BY <2>5 DEF all, both, inHand
<1>3. main \in Running => \A s \in Superpages : InBench(s) # InChannel(s)
  BY DEF BenchPlaces
<1> QED BY <1>1, <1>2, <1>3 DEF BenchConsistent, SuperpagesApart, Running

(* What is true of the lock, the channel and the benchmark together.        *)
ClientsInv == LockInv /\ InUse /\ ChannelTypes /\ BenchInv

(* With both clients off and the lock free.                                 *)
LEMMA ClientsInvHolds == Spec => []ClientsInv
<1>1. Init => ClientsInv
  <2> SUFFICES ASSUME Init PROVE ClientsInv
    OBVIOUS
  <2>1. LockInv
    BY LockAssumption DEF Init, LockInit, LockInv, LockTypeOK, FileLockHeld, HasFile, Steps, Out
  <2>2. InUse
    BY DEF Init, BenchInit, EquipmentInit, InUse
  <2>3. ChannelTypes
    BY DEF Init, ChannelInit, ChannelTypes
  <2>4. BenchInv
    BY BenchAssumption
       DEF Init, BenchInit, BenchInv, BenchTypes, BenchPlaces, BenchLimit, Running
  <2> QED BY <2>1, <2>2, <2>3, <2>4 DEF ClientsInv
<1>2. ClientsInv /\ [Next]_vars => ClientsInv'
  <2> SUFFICES ASSUME ClientsInv, [Next]_vars PROVE ClientsInv'
    OBVIOUS
  <2>1. [LockNext]_lockVars
    BY LockStep DEF vars
  <2>2. LockInv'
    BY <2>1, LockInvInductive DEF ClientsInv
  <2>3. InUse'
    BY InUseInductive DEF ClientsInv, LockInv
  <2>4. ChannelTypes'
    BY ChannelTypesInductive DEF ClientsInv, BenchInv
  <2>5. BenchInv'
    BY BenchInvInductive DEF ClientsInv
  <2> QED BY <2>2, <2>3, <2>4, <2>5 DEF ClientsInv
<1> QED BY <1>1, <1>2, PTL DEF Spec

(* For any number of superpages, room in the channel, pages in a superpage, *)
(* limit, processes and crashes: while the loop of ProgramDmaBench runs     *)
(* every superpage is in one place, the free queue always has room, and the *)
(* number of pages read out is the limit to less than one superpage.  The   *)
(* lock of DmaChannelBase is what keeps the readout from the channel.       *)
THEOREM BenchConsistentAlways == Spec => []BenchConsistent
<1>1. ClientsInv => BenchConsistent
  BY BenchIsConsistent DEF ClientsInv
<1> QED BY <1>1, ClientsInvHolds, PTL

(* Seen through the lock the two programs are processes that take it, give  *)
(* it back and crash: whatever is true of every behaviour of InterprocessLock *)
(* is true when the benchmark and the readout use it.                       *)
THEOREM ClientsUseLock == Spec => LockSpec
<1>1. Init => LockInit
  BY DEF Init
<1>2. [Next]_vars => [LockNext]_lockVars
  BY LockStep DEF vars
<1> QED BY <1>1, <1>2, PTL DEF Spec, LockSpec

-----------------------------------------------------------------------------
(* What a step means for the equipment: its own, its start or end, or one   *)
(* that leaves alone the superpages it has given to the channel.            *)
LEMMA EquipmentSteps ==
    ASSUME LockInv, InUse, BenchTypes, [Next]_vars
    PROVE  \/ EquipmentStart \/ EquipmentNext \/ EquipmentGone
           \/ /\ UNCHANGED equipmentVars
              /\ equipment \in {"off", "failed"} \/ UNCHANGED <<transfer, ready>>
<1>1. CASE UNCHANGED vars
  BY <1>1 DEF vars, programVars, channelVars
<1>2. CASE EquipmentOpened \/ EquipmentStep(EquipmentNext) \/ EquipmentClosed
  BY <1>2 DEF EquipmentOpened, EquipmentStep, EquipmentClosed, EquipmentStop
<1>3. CASE BenchOpened
  <2>1. BenchProc # ReadoutProc
    BY ClientsAssumption
  <2>2. equipment \in {"off", "failed"}
    BY <1>3, <2>1 DEF BenchOpened, LockInv, FileLockHeld, HasFile, InUse, Owners
  <2> QED BY <1>3, <2>2 DEF BenchOpened
<1>4. CASE BenchStep(BenchNext)
  <2>1. main = "off" => UNCHANGED channelVars
    BY <1>4 DEF BenchTypes, BenchStep, BenchNext, PushThread, PushTop, PushFill, PushGive,
                PushCheck, PushPop, PushThrow, MainThread, ReadoutTop, ReadoutPages, Join,
                ReadoutThrow, FreeExcessPages, LowPriority, LowThrow, SigInt
  <2> QED BY <1>4, <2>1, OneClient DEF BenchStep, channelVars
<1>5. CASE BenchClosed
  BY <1>5 DEF BenchClosed, BenchEnd, ChannelStop, channelVars
<1>6. ASSUME NEW p \in Procs, OpenOrClose(p)
      PROVE  UNCHANGED equipmentVars /\ UNCHANGED <<transfer, ready>>
  BY <1>6 DEF OpenOrClose, programVars, channelVars
<1>7. ASSUME NEW p \in Procs, Crash(p)
      PROVE  EquipmentGone \/ (UNCHANGED equipmentVars /\ UNCHANGED <<transfer, ready>>)
  BY <1>7 DEF Crash, channelVars
<1>8. ASSUME NEW s \in Superpages, Card(s)
      PROVE  UNCHANGED equipmentVars /\ UNCHANGED <<transfer, ready>>
  BY <1>8 DEF Card, ChannelComplete
<1> QED BY <1>1, <1>2, <1>3, <1>4, <1>5, <1>6, <1>7, <1>8 DEF Next

(* The indices of pagesAvailable: one that is moved stays in the array,     *)
(* takes out the slot behind indexStart or adds the one behind indexEnd,    *)
(* and a FIFO that is full has all slots in use but one.                    *)
LEMMA FifoIndices ==
    ASSUME NEW a \in 0 .. FifoSize, NEW b \in 0 .. FifoSize
    PROVE  /\ FifoSize \in Nat
           /\ Following(a) \in 0 .. FifoSize
           /\ a # b => /\ Following(a) \in Between(a, b)
                       /\ Between(Following(a), b) = Between(a, b) \ {Following(a)}
           /\ Following(b) # a => /\ Following(b) \notin Between(a, b)
                                  /\ Between(a, Following(b)) = Between(a, b) \cup {Following(b)}
           /\ Following(b) = a => Between(a, b) = (0 .. FifoSize) \ {a}
           /\ Between(0, FifoSize) = 1 .. FifoSize
<1>0. FifoSize \in Nat
  BY ChannelAssumption, FS_CardinalityType DEF FifoSize
<1>1. Following(a) \in 0 .. FifoSize
  BY <1>0 DEF Following
<1>2. ASSUME a # b PROVE Following(a) \in Between(a, b)
  BY <1>0, <1>2 DEF Following, Between
<1>3. ASSUME a # b PROVE Between(Following(a), b) = Between(a, b) \ {Following(a)}
  BY <1>0, <1>3 DEF Following, Between
<1>4. ASSUME Following(b) # a PROVE Following(b) \notin Between(a, b)
  BY <1>0, <1>4 DEF Following, Between
<1>5. ASSUME Following(b) # a PROVE Between(a, Following(b)) = Between(a, b) \cup {Following(b)}
  BY <1>0, <1>5 DEF Following, Between
<1>6. ASSUME Following(b) = a PROVE Between(a, b) = (0 .. FifoSize) \ {a}
  BY <1>0, <1>6 DEF Following, Between
<1>7. Between(0, FifoSize) = 1 .. FifoSize
  BY <1>0 DEF Between
<1> QED BY <1>0, <1>1, <1>2, <1>3, <1>4, <1>5, <1>6, <1>7

(* A block that is dropped finds room: its superpage is not in the FIFO,    *)
(* which has one slot more than there are superpages.                       *)
LEMMA DropHasRoom ==
    ASSUME EquipmentTypes, EquipmentPlaces, NEW s \in blocks
    PROVE  Following(indexEnd) # indexStart
<1> SUFFICES ASSUME Following(indexEnd) = indexStart PROVE FALSE
  OBVIOUS
<1>1. equipment \notin {"off", "failed"} /\ s \in Superpages
  BY DEF EquipmentTypes
<1>2. FifoSize \in Nat /\ Held = (0 .. FifoSize) \ {indexStart} /\ indexStart \in 0 .. FifoSize
  BY FifoIndices DEF EquipmentTypes, Held
<1>3. /\ IsFiniteSet(0 .. FifoSize) /\ Cardinality(0 .. FifoSize) = FifoSize + 1
  BY <1>2, FS_Interval
<1>4. IsFiniteSet(Held) /\ Cardinality(Held) = FifoSize
  <2>1. Cardinality((0 .. FifoSize) \ {indexStart}) = Cardinality(0 .. FifoSize) - 1
    BY <1>2, <1>3, FS_RemoveElement
  <2>2. IsFiniteSet((0 .. FifoSize) \ {indexStart})
    BY <1>2, <1>3, FS_RemoveElement
  <2> QED BY <1>2, <1>3, <2>1, <2>2
<1>5. \A i \in Held : slots[i] \in Superpages \ {s}
  BY <1>1 DEF EquipmentPlaces, FreePages
<1> DEFINE f == [i \in Held |-> slots[i]]
<1>6. f \in Injection(Held, Superpages \ {s})
  BY <1>1, <1>5 DEF EquipmentPlaces, Injection, IsInjective
<1>7. /\ IsFiniteSet(Superpages \ {s}) /\ Cardinality(Superpages \ {s}) = FifoSize - 1
  BY <1>1, ChannelAssumption, FS_RemoveElement DEF FifoSize
<1>9. Cardinality(Held) <= Cardinality(Superpages \ {s})
  BY <1>6, <1>7, FS_Injection
<1> QED BY <1>2, <1>4, <1>7, <1>9

(* What pop() gives while the slots in use hold superpages.                 *)
LEMMA PoppedPage ==
    ASSUME NEW i, slots[i] \in Superpages
    PROVE  Popped(i) = slots[i]
BY EquipmentAssumption DEF Popped

(* The equipment keeps its types, whatever the threads do.                  *)
LEMMA EquipmentTypesInductive ==
    ASSUME ChannelTypes, EquipmentTypes, EquipmentStart \/ EquipmentNext
    PROVE  EquipmentTypes'
<1> USE DEF EquipmentTypes
<1>0. FifoSize \in Nat /\ \A a \in 0 .. FifoSize : Following(a) \in 0 .. FifoSize
  BY FifoIndices
<1>1. CASE EquipmentStart
  <2>1. /\ SetToSeq(Superpages) \in Seq(Superpages)
        /\ Len(SetToSeq(Superpages)) = FifoSize
    BY AllSuperpages DEF FifoSize
  <2>2. \A i \in 1 .. FifoSize : SetToSeq(Superpages)[i] \in Superpages
    BY <2>1, SetOfSeq
  <2>3. slots' = [i \in 0 .. FifoSize |-> IF i = 0 THEN NoPage ELSE SetToSeq(Superpages)[i]]
    BY <1>1 DEF EquipmentStart
  <2>4. \A i \in 0 .. FifoSize : i = 0 \/ i \in 1 .. FifoSize
    BY <1>0
  <2>5. slots' \in [0 .. FifoSize -> Superpages \cup {NoPage}]
    BY <2>2, <2>3, <2>4
  <2> QED BY <1>0, <1>1, <2>5 DEF EquipmentStart
<1>2. CASE EquipmentFill
  BY <1>2 DEF EquipmentFill, equipmentFifo
<1>3. CASE EquipmentGive
  <2>1. CASE /\ equipment = "give" /\ equipment' = "check"
             /\ UNCHANGED <<slots, indexStart, indexEnd, dataOut, blocks, drop, overlapped>>
    BY <2>1
  <2>2. CASE /\ indexStart # indexEnd /\ equipment = "give"
             /\ indexStart' = Following(indexStart)
             /\ slots' = [slots EXCEPT ![Following(indexStart)] = NoPage]
             /\ equipment' = "twice" \/ UNCHANGED equipment
             /\ UNCHANGED <<indexEnd, dataOut, blocks, drop, overlapped>>
    <3>1. indexStart' \in 0 .. FifoSize /\ slots' \in [0 .. FifoSize -> Superpages \cup {NoPage}]
      BY <1>0, <2>2
    <3> QED BY <2>2, <3>1
  <2> QED BY <1>3, <2>1, <2>2 DEF EquipmentGive
<1>4. CASE EquipmentCheck
  <2>1. ready # << >> => Append(dataOut, Head(ready)) \in Seq(Superpages)
    BY SetOfTail, SetOfAppend DEF ChannelTypes
  <2> QED BY <1>4, <2>1 DEF EquipmentCheck, equipmentFifo
<1>5. CASE EquipmentNoMemory
  BY <1>5 DEF EquipmentNoMemory, equipmentFifo
<1>6. CASE TakeBlock
  <2>1. dataOut # << >> => Head(dataOut) \in Superpages /\ Tail(dataOut) \in Seq(Superpages)
    BY SetOfTail
  <2> QED BY <1>6, <2>1 DEF TakeBlock, equipmentFifo
<1>7. ASSUME NEW t \in Droppers, DropDone(t) PROVE EquipmentTypes'
  <2>1. drop[t].index \in 0 .. FifoSize
    OBVIOUS
  <2>2. Idle \in [page : Superpages \cup {NoPage}, index : 0 .. FifoSize]
    BY <1>0 DEF Idle
  <2>3. drop' \in [Droppers -> [page : Superpages \cup {NoPage}, index : 0 .. FifoSize]]
    BY <1>7, <2>2 DEF DropDone
  <2>4. equipment \notin {"off", "failed"}
    BY <1>7 DEF DropDone
  <2> QED BY <1>7, <2>1, <2>3, <2>4 DEF DropDone
<1>8. ASSUME NEW t \in Droppers, NEW s \in Superpages, DropBlock(t, s) PROVE EquipmentTypes'
  <2>1. equipment \notin {"off", "failed"}
    BY <1>8 DEF DropBlock
  <2>2. Following(indexEnd) \in 0 .. FifoSize
    BY <1>0
  <2>3. [page |-> s, index |-> Following(indexEnd)]
           \in [page : Superpages \cup {NoPage}, index : 0 .. FifoSize]
    BY <2>2
  <2>4. drop' \in [Droppers -> [page : Superpages \cup {NoPage}, index : 0 .. FifoSize]]
    BY <1>8, <2>3 DEF DropBlock
  <2>5. slots' \in [0 .. FifoSize -> Superpages \cup {NoPage}]
    BY <1>8, <2>2 DEF DropBlock
  <2>6. overlapped' \in Nat
    BY <1>8 DEF DropBlock
  <2> QED BY <1>8, <2>1, <2>4, <2>5, <2>6 DEF DropBlock
<1> QED BY <1>1, <1>2, <1>3, <1>4, <1>5, <1>6, <1>7, <1>8 DEF EquipmentNext, EquipmentThread

(* Drops that do not overlap begin when no other is under way.              *)
LEMMA NoOverlap ==
    ASSUME EquipmentTypes, EquipmentStart \/ EquipmentNext, overlapped' = 0
    PROVE  /\ overlapped = 0
           /\ \A t \in Droppers, s \in Superpages :
                 DropBlock(t, s) => \A u \in Droppers : drop[u] = Idle
<1>1. ASSUME NEW t \in Droppers, NEW s \in Superpages, DropBlock(t, s)
      PROVE  overlapped = 0 /\ \A u \in Droppers : drop[u] = Idle
  <2>1. overlapped \in Nat /\ overlapped + 1 # 0
    BY DEF EquipmentTypes
  <2> QED BY <1>1, <2>1 DEF DropBlock
<1>2. ASSUME EquipmentStart PROVE overlapped = 0
  BY <1>2 DEF EquipmentStart
<1>3. ASSUME EquipmentThread \/ EquipmentNoMemory \/ TakeBlock \/ \E t \in Droppers : DropDone(t)
      PROVE  overlapped = 0
  BY <1>3 DEF EquipmentThread, EquipmentFill, EquipmentGive, EquipmentCheck, EquipmentNoMemory,
              TakeBlock, DropDone
<1> QED BY <1>1, <1>2, <1>3 DEF EquipmentNext

(* pagesAvailable holds nothing that the channel has already.               *)
LEMMA AloneInductive ==
    ASSUME ChannelTypes, EquipmentTypes, Alone, EquipmentPlaces, EquipmentStart \/ EquipmentNext,
           overlapped' = 0
    PROVE  Alone'
<1>1. CASE EquipmentStart
  BY <1>1 DEF EquipmentStart, EquipmentTypes, Alone
<1>2. CASE EquipmentFill \/ EquipmentCheck \/ EquipmentNoMemory \/ TakeBlock
  BY <1>2 DEF EquipmentFill, EquipmentCheck, EquipmentNoMemory, TakeBlock, Alone
<1>3. CASE EquipmentGive
  <2>1. ASSUME indexStart # indexEnd, equipment = "give"
        PROVE  /\ Following(indexStart) \in Held
               /\ Popped(Following(indexStart)) \in Superpages \ (transfer \cup ToSet(ready))
    <3>1. Following(indexStart) \in Held
      BY <2>1, FifoIndices DEF Held, EquipmentTypes
    <3>2. slots[Following(indexStart)] \in Superpages \ (transfer \cup ToSet(ready))
      BY <2>1, <3>1 DEF EquipmentPlaces, FreePages
    <3> QED BY <3>1, <3>2, PoppedPage
  <2>2. equipment' # "twice" /\ UNCHANGED drop
    BY <1>3, <2>1 DEF EquipmentGive
  <2> QED BY <2>2 DEF Alone
<1>4. ASSUME NEW t \in Droppers, DropDone(t) PROVE Alone'
  BY <1>4 DEF DropDone, Alone, EquipmentTypes
<1>5. ASSUME NEW t \in Droppers, NEW s \in Superpages, DropBlock(t, s) PROVE Alone'
  <2>1. \A u \in Droppers : drop[u] = Idle
    BY <1>5, NoOverlap DEF EquipmentNext
  <2>2. \A u \in Droppers \ {t} : drop'[u] = Idle
    BY <1>5, <2>1 DEF DropBlock, EquipmentTypes
  <2> QED BY <1>5, <2>2 DEF DropBlock, Alone
<1> QED BY <1>1, <1>2, <1>3, <1>4, <1>5 DEF EquipmentNext, EquipmentThread

(* The slot that a dropper has written is neither in use nor the one that   *)
(* indexStart reaches.                                                      *)
LEMMA DropPlacesInductive ==
    ASSUME ChannelTypes, EquipmentTypes, Alone, DropPlaces, EquipmentPlaces,
           EquipmentStart \/ EquipmentNext, overlapped' = 0
    PROVE  DropPlaces'
<1>0. \A a \in 0 .. FifoSize : Following(a) \in 0 .. FifoSize
  BY FifoIndices
<1>1. CASE EquipmentStart
  BY <1>1 DEF EquipmentStart, EquipmentTypes, DropPlaces
<1>2. CASE UNCHANGED <<slots, indexStart, indexEnd, drop>>
  BY <1>2 DEF DropPlaces
<1>3. CASE EquipmentGive
  <2>1. CASE UNCHANGED <<slots, indexStart>>
    BY <1>2, <1>3, <2>1 DEF EquipmentGive
  <2>2. CASE /\ indexStart # indexEnd /\ indexStart' = Following(indexStart)
             /\ slots' = [slots EXCEPT ![Following(indexStart)] = NoPage]
             /\ UNCHANGED <<indexEnd, drop>>
    <3>1. Following(indexStart) \in Held
      BY <2>2, FifoIndices DEF Held, EquipmentTypes
    <3>2. Following(indexEnd) # indexStart => Following(indexEnd) \notin Held
      BY FifoIndices DEF Held, EquipmentTypes
    <3> QED BY <1>0, <2>2, <3>1, <3>2 DEF DropPlaces, EquipmentTypes
  <2> QED BY <1>3, <2>1, <2>2 DEF EquipmentGive
<1>4. CASE EquipmentFill \/ EquipmentCheck \/ EquipmentNoMemory \/ TakeBlock
  BY <1>2, <1>4 DEF EquipmentFill, EquipmentCheck, EquipmentNoMemory, TakeBlock, equipmentFifo
<1>5. ASSUME NEW t \in Droppers, DropDone(t) PROVE DropPlaces'
  BY <1>5 DEF DropDone, Alone, DropPlaces, EquipmentTypes
<1>6. ASSUME NEW t \in Droppers, NEW s \in Superpages, DropBlock(t, s) PROVE DropPlaces'
  <2>1. Following(indexEnd) # indexStart
    BY <1>6, DropHasRoom DEF DropBlock
  <2>2. /\ slots' = [slots EXCEPT ![Following(indexEnd)] = s] /\ UNCHANGED <<indexStart, indexEnd>>
        /\ drop' = [drop EXCEPT ![t] = [page |-> s, index |-> Following(indexEnd)]]
    BY <1>6, <2>1 DEF DropBlock
  <2>0. \A u \in Droppers : drop[u] = Idle
    BY <1>6, NoOverlap DEF EquipmentNext
  <2>3. /\ drop'[t] = [page |-> s, index |-> Following(indexEnd)]
        /\ \A u \in Droppers \ {t} : drop'[u] = Idle
    BY <2>0, <2>2 DEF EquipmentTypes
  <2>4. slots'[Following(indexEnd)] = s
    BY <1>0, <2>2 DEF EquipmentTypes
  <2>5. Following(indexEnd)' = Following(indexEnd)
    BY <2>2 DEF Following
  <2> QED BY <2>1, <2>2, <2>3, <2>4, <2>5 DEF DropPlaces
<1> QED BY <1>1, <1>3, <1>4, <1>5, <1>6 DEF EquipmentNext, EquipmentThread

(* Every superpage stays in one place.                                      *)
LEMMA EquipmentPlacesInductive ==
    ASSUME ChannelTypes, EquipmentTypes, Alone, DropPlaces, EquipmentPlaces,
           EquipmentStart \/ EquipmentNext, overlapped' = 0
    PROVE  EquipmentPlaces'
<1> SUFFICES ASSUME equipment' \notin {"off", "failed"} PROVE EquipmentPlaces'
  BY DEF EquipmentPlaces
<1>0. FifoSize \in Nat /\ \A a \in 0 .. FifoSize : Following(a) \in 0 .. FifoSize
  BY FifoIndices DEF EquipmentTypes
<1>00. Held \subseteq 0 .. FifoSize
  BY DEF Held, Between
<1>1. CASE EquipmentStart
  <2> DEFINE q == SetToSeq(Superpages)
  <2>1. /\ q \in Seq(Superpages) /\ Distinct(q) /\ ToSet(q) = Superpages /\ Len(q) = FifoSize
        /\ ToSet(q) = {q[i] : i \in 1 .. Len(q)}
    BY AllSuperpages, SetOfSeq DEF FifoSize
  <2>2. /\ slots' = [i \in 0 .. FifoSize |-> IF i = 0 THEN NoPage ELSE q[i]]
        /\ indexStart' = 0 /\ indexEnd' = FifoSize
        /\ transfer' = {} /\ ready' = << >> /\ dataOut' = << >> /\ blocks' = {}
        /\ drop' = [t \in Droppers |-> Idle]
    BY <1>1 DEF EquipmentStart, ChannelStart, EquipmentTypes
  <2> HIDE DEF q
  <2>3. Held' = 1 .. FifoSize
    BY <1>0, <2>2, FifoIndices DEF Held, EquipmentTypes
  <2>4. \A i \in 1 .. FifoSize : slots'[i] = q[i]
    BY <1>0, <2>2
  <2>5. FreePages' = Superpages
    BY <2>1, <2>3, <2>4 DEF FreePages
  <2>6. \A i, j \in Held' : slots'[i] = slots'[j] => i = j
    BY <2>1, <2>3, <2>4 DEF Distinct
  <2>7. Distinct(<< >>) /\ ToSet(<< >>) = {}
    BY SetOfEmpty DEF Distinct
  <2>8. Dropping' = {}
    BY <2>2 DEF Dropping, Idle
  <2>9. \A i \in Held' : slots'[i] \in Superpages
    BY <2>1, <2>3, <2>4, SetOfSeq
  <2> QED BY <2>2, <2>5, <2>6, <2>7, <2>8, <2>9 DEF EquipmentPlaces
<1>2. CASE /\ UNCHANGED <<slots, indexStart, indexEnd, dataOut, blocks, drop, transfer, ready>>
           /\ equipment \notin {"off", "failed"}
  <2>1. UNCHANGED <<Held, FreePages, Dropping>>
    BY <1>2 DEF Held, FreePages, Dropping
  <2> QED BY <1>2, <2>1 DEF EquipmentPlaces
<1>3. CASE EquipmentFill
  <2>1. CASE UNCHANGED channelVars
    BY <1>2, <1>3, <2>1 DEF EquipmentFill, equipmentFifo, channelVars
  <2>2. ASSUME NEW s \in Superpages, ChannelArrive(s), equipment = "fill",
               UNCHANGED <<equipmentFifo, dataOut, blocks, drop>>
        PROVE  EquipmentPlaces'
    <3>1. UNCHANGED <<Held, FreePages, Dropping, slots, dataOut, blocks>>
      BY <2>2 DEF equipmentFifo, Held, FreePages, Dropping
    <3>2. s \in transfer /\ transfer' = transfer \ {s} /\ ready' = Append(ready, s)
      BY <2>2 DEF ChannelArrive
    <3>3. s \notin ToSet(ready) /\ Distinct(ready)
      BY <2>2, <3>2 DEF EquipmentPlaces
    <3>4. Distinct(ready') /\ ToSet(ready') = ToSet(ready) \cup {s}
      BY <3>2, <3>3, SetOfAppend, DistinctAppend DEF ChannelTypes
    <3> QED BY <2>2, <3>1, <3>2, <3>3, <3>4 DEF EquipmentPlaces
  <2> QED BY <1>3, <2>1, <2>2 DEF EquipmentFill
<1>4. CASE EquipmentGive
  <2>1. CASE UNCHANGED <<channelVars, slots, indexStart>>
    BY <1>2, <1>4, <2>1 DEF EquipmentGive, channelVars
  <2>2. CASE TransferAvailable /\ indexStart # indexEnd
    <3> DEFINE i == Following(indexStart)
    <3>1. i \in Held /\ equipment = "give"
      BY <1>4, <2>2, FifoIndices DEF Held, EquipmentTypes, EquipmentGive
    <3>2. slots[i] \in Superpages \ (transfer \cup ToSet(ready))
      BY <3>1 DEF EquipmentPlaces, FreePages
    <3>3. /\ indexStart' = i /\ slots' = [slots EXCEPT ![i] = NoPage] /\ ChannelPush(slots[i])
          /\ UNCHANGED <<indexEnd, dataOut, blocks, drop>>
      <4>1. Popped(i) = slots[i]
        BY <3>2, PoppedPage
      <4> QED BY <1>4, <2>2, <3>2, <4>1 DEF EquipmentGive
    <3>4. transfer' = transfer \cup {slots[i]} /\ UNCHANGED ready
      BY <3>3 DEF ChannelPush
    <3>5. Held' = Held \ {i}
      BY <2>2, <3>3, FifoIndices DEF Held, EquipmentTypes
    <3> HIDE DEF i
    <3>6. \A j \in Held' : j \in Held /\ slots'[j] = slots[j] /\ slots[j] # slots[i]
      BY <1>00, <3>1, <3>3, <3>5 DEF EquipmentTypes, EquipmentPlaces
    <3>7. FreePages' = FreePages \ {slots[i]} /\ slots[i] \in FreePages
      BY <3>1, <3>5, <3>6 DEF FreePages
    <3>8. UNCHANGED Dropping
      BY <3>3 DEF Dropping
    <3>9. /\ \A j \in Held' : slots'[j] \in Superpages
          /\ \A j, k \in Held' : slots'[j] = slots'[k] => j = k
      BY <3>1, <3>6 DEF EquipmentPlaces
    <3> QED BY <3>1, <3>3, <3>4, <3>7, <3>8, <3>9 DEF EquipmentPlaces
  <2> QED BY <1>4, <2>1, <2>2 DEF EquipmentGive
<1>5. CASE EquipmentCheck
  <2>1. CASE UNCHANGED <<channelVars, dataOut>>
    BY <1>2, <1>5, <2>1 DEF EquipmentCheck, equipmentFifo, channelVars
  <2>2. CASE ready # << >> /\ dataOut' = Append(dataOut, Head(ready)) /\ ChannelPop
    <3> DEFINE h == Head(ready)
    <3>1. UNCHANGED <<Held, FreePages, Dropping, slots, blocks, transfer>> /\ ready' = Tail(ready)
      BY <1>5, <2>2 DEF EquipmentCheck, ChannelPop, equipmentFifo, Held, FreePages, Dropping
    <3>2. /\ equipment \notin {"off", "failed"} /\ Distinct(ready) /\ Distinct(dataOut)
          /\ ToSet(ready) \cap ToSet(dataOut) = {}
      BY <1>5 DEF EquipmentCheck, EquipmentPlaces
    <3>3. /\ ToSet(ready) = {h} \cup ToSet(ready') /\ h \notin ToSet(ready') /\ Distinct(ready')
          /\ h \in Superpages
      BY <2>2, <3>1, <3>2, SetOfTail, DistinctTail DEF ChannelTypes
    <3>4. ToSet(dataOut') = ToSet(dataOut) \cup {h} /\ Distinct(dataOut')
      BY <2>2, <3>2, <3>3, SetOfAppend, DistinctAppend DEF EquipmentTypes
    <3> HIDE DEF h
    <3> QED BY <3>1, <3>2, <3>3, <3>4 DEF EquipmentPlaces
  <2> QED BY <1>5, <2>1, <2>2 DEF EquipmentCheck
<1>6. CASE EquipmentNoMemory
  BY <1>2, <1>6 DEF EquipmentNoMemory, equipmentFifo, channelVars
<1>7. CASE TakeBlock
  <2> DEFINE h == Head(dataOut)
  <2>1. /\ UNCHANGED <<Held, FreePages, Dropping, slots, transfer, ready, equipment>>
        /\ dataOut # << >> /\ dataOut' = Tail(dataOut) /\ blocks' = blocks \cup {h}
    BY <1>7 DEF TakeBlock, channelVars, equipmentFifo, Held, FreePages, Dropping
  <2>2. Distinct(dataOut)
    BY <2>1 DEF EquipmentPlaces
  <2>3. /\ ToSet(dataOut) = {h} \cup ToSet(dataOut') /\ h \notin ToSet(dataOut')
        /\ Distinct(dataOut') /\ h \in Superpages
    BY <2>1, <2>2, SetOfTail, DistinctTail DEF EquipmentTypes
  <2> HIDE DEF h
  <2> QED BY <2>1, <2>2, <2>3 DEF EquipmentPlaces
<1>8. ASSUME NEW t \in Droppers, DropDone(t) PROVE EquipmentPlaces'
  <2> DEFINE i == drop[t].index
             s == drop[t].page
  <2>1. /\ s \in Superpages /\ i = Following(indexEnd) /\ i # indexStart /\ slots[i] = s
        /\ indexEnd' = i /\ drop' = [drop EXCEPT ![t] = Idle]
        /\ UNCHANGED <<slots, indexStart, dataOut, blocks, transfer, ready, equipment>>
    BY <1>8 DEF DropDone, DropPlaces, channelVars
  <2>2. Held' = Held \cup {i} /\ i \notin Held
    BY <2>1, FifoIndices DEF Held, EquipmentTypes
  <2>3. /\ drop'[t] = Idle /\ drop[t] # Idle
        /\ \A u \in Droppers \ {t} : drop[u] = Idle /\ drop'[u] = Idle
    BY <1>8, <2>1 DEF DropDone, Alone, EquipmentTypes
  <2>4. Dropping = {s} /\ Dropping' = {}
    BY <2>1, <2>3, EquipmentAssumption DEF Dropping, Idle
  <2> HIDE DEF i, s
  <2>5. FreePages' = FreePages \cup {s}
    BY <2>1, <2>2 DEF FreePages
  <2>6. \A j \in Held : slots[j] # s
    BY <2>1, <2>4 DEF EquipmentPlaces, FreePages
  <2>7. /\ \A j \in Held' : slots'[j] \in Superpages
        /\ \A j, k \in Held' : slots'[j] = slots'[k] => j = k
    BY <2>1, <2>2, <2>6 DEF EquipmentPlaces
  <2> QED BY <2>1, <2>4, <2>5, <2>7 DEF EquipmentPlaces
<1>9. ASSUME NEW t \in Droppers, NEW s \in Superpages, DropBlock(t, s) PROVE EquipmentPlaces'
  <2> DEFINE i == Following(indexEnd)
  <2>0. \A u \in Droppers : drop[u] = Idle
    BY <1>9, NoOverlap DEF EquipmentNext
  <2>1. i # indexStart /\ s \in blocks
    BY <1>9, DropHasRoom DEF DropBlock
  <2>2. /\ drop[t] = Idle /\ blocks' = blocks \ {s} /\ slots' = [slots EXCEPT ![i] = s]
        /\ drop' = [drop EXCEPT ![t] = [page |-> s, index |-> i]]
        /\ UNCHANGED <<Held, transfer, ready, dataOut, equipment>>
    BY <1>9, <2>1 DEF DropBlock, channelVars, Held
  <2>3. i \notin Held
    BY <2>1, FifoIndices DEF Held, EquipmentTypes
  <2>4. drop'[t] = [page |-> s, index |-> i] /\ \A u \in Droppers \ {t} : drop'[u] = Idle
    BY <2>0, <2>1, <2>2 DEF EquipmentTypes
  <2>5. Dropping = {} /\ Dropping' = {s}
    BY <2>0, <2>4, EquipmentAssumption DEF Dropping, Idle
  <2> HIDE DEF i
  <2>6. \A j \in Held : slots'[j] = slots[j]
    BY <1>00, <2>2, <2>3 DEF EquipmentTypes
  <2>7. UNCHANGED FreePages
    BY <2>2, <2>6 DEF FreePages
  <2> QED BY <2>1, <2>2, <2>5, <2>6, <2>7 DEF EquipmentPlaces
<1> QED BY <1>1, <1>3, <1>4, <1>5, <1>6, <1>7, <1>8, <1>9 DEF EquipmentNext, EquipmentThread

(* The pages in the FIFO, oldest first: one for every slot in use.          *)
LEMMA AvailablePages ==
    ASSUME EquipmentTypes, EquipmentPlaces, equipment \notin {"off", "failed"}
    PROVE  /\ Available \in Seq(Superpages) /\ Distinct(Available)
           /\ ToSet(Available) = FreePages
<1> DEFINE n == FifoSize + 1
           count == IF indexStart <= indexEnd THEN indexEnd - indexStart
                    ELSE indexEnd - indexStart + n
           slot(k) == IF indexStart + k <= FifoSize THEN indexStart + k ELSE indexStart + k - n
           q == Available
<1>0. FifoSize \in Nat /\ indexStart \in 0 .. FifoSize /\ indexEnd \in 0 .. FifoSize
  BY FifoIndices DEF EquipmentTypes
<1>1. /\ \A x \in 0 .. FifoSize : x % n = x
      /\ \A x \in n .. n + FifoSize : x % n = x - n
  BY <1>0
<1>2. count \in 0 .. FifoSize /\ (indexEnd - indexStart + FifoSize + 1) % n = count
  <2>1. CASE indexStart <= indexEnd
    <3>1. /\ indexEnd - indexStart + FifoSize + 1 \in n .. n + FifoSize
          /\ indexEnd - indexStart + FifoSize + 1 - n = indexEnd - indexStart
      BY <1>0, <2>1
    <3> QED BY <1>0, <1>1, <2>1, <3>1
  <2>2. CASE indexEnd < indexStart
    <3>1. indexEnd - indexStart + FifoSize + 1 \in 0 .. FifoSize
      BY <1>0, <2>2
    <3> QED BY <1>0, <1>1, <2>2, <3>1
  <2> QED BY <1>0, <2>1, <2>2
<1>3. ASSUME NEW k \in 1 .. count
      PROVE  (indexStart + k) % n = slot(k) /\ slot(k) \in Held
  <2>1. indexStart + k \in 0 .. n + FifoSize
    BY <1>0, <1>2
  <2>2. (indexStart + k) % n = slot(k)
    BY <1>0, <1>1, <2>1
  <2>3. slot(k) \in Held
    BY <1>0, <1>2 DEF Held, Between
  <2> QED BY <2>2, <2>3
<1>4. \A j, k \in 1 .. count : slot(j) = slot(k) => j = k
  BY <1>0, <1>2
<1>5. ASSUME NEW i \in Held PROVE \E k \in 1 .. count : slot(k) = i
  <2> DEFINE k == IF indexStart < i THEN i - indexStart ELSE i - indexStart + n
  <2>1. k \in 1 .. count /\ slot(k) = i
    BY <1>0, <1>5 DEF Held, Between
  <2> QED BY <2>1
<1>6. q = [k \in 1 .. count |-> slots[(indexStart + k) % n]]
  BY <1>2 DEF Available
<1> HIDE DEF slot, count, q, n
<1>7. \A k \in 1 .. count : q[k] = slots[slot(k)] /\ slot(k) \in Held
  BY <1>3, <1>6
<1>8. \A i \in Held : slots[i] \in Superpages
  BY DEF EquipmentPlaces
<1>9. q \in [1 .. count -> Superpages]
  BY <1>6, <1>7, <1>8
<1>10. q \in Seq(Superpages) /\ Len(q) = count
  BY <1>2, <1>9
<1>11. Distinct(q)
  BY <1>4, <1>7, <1>10 DEF Distinct, EquipmentPlaces
<1>12. ToSet(q) = {q[k] : k \in 1 .. count}
  BY <1>10, SetOfSeq
<1>13. ToSet(q) = FreePages
  BY <1>5, <1>7, <1>12 DEF FreePages
<1> QED BY <1>10, <1>11, <1>13 DEF q

(* The places of EquipmentPlaces, as the property has them.                 *)
LEMMA PagesAreApart ==
    ASSUME ChannelTypes, EquipmentInv
    PROVE  PagesApart
<1> SUFFICES ASSUME equipment \notin {"off", "failed"}, overlapped = 0 PROVE PagesApart
  BY DEF PagesApart
<1>0. EquipmentTypes /\ EquipmentPlaces /\ Alone
  BY DEF EquipmentInv
<1> DEFINE both == Available \o ready
           places == both \o dataOut
<1>1. /\ Available \in Seq(Superpages) /\ Distinct(Available) /\ ToSet(Available) = FreePages
  BY <1>0, AvailablePages
<1>2. both \in Seq(Superpages) /\ Distinct(both) /\ ToSet(both) = FreePages \cup ToSet(ready)
  BY <1>0, <1>1, DistinctConcat DEF ChannelTypes, EquipmentPlaces
<1> HIDE DEF both
<1>3. /\ places \in Seq(Superpages) /\ Distinct(places)
      /\ ToSet(places) = FreePages \cup ToSet(ready) \cup ToSet(dataOut)
  BY <1>0, <1>2, DistinctConcat DEF EquipmentTypes, EquipmentPlaces
<1> HIDE DEF places
<1>4. IsInjective(places)
  BY <1>3 DEF Distinct, IsInjective
<1>5. ToSet(places) \cup transfer \cup blocks \cup Dropping = Superpages
  BY <1>0, <1>3 DEF EquipmentPlaces
<1>6. IsFiniteSet(ToSet(places)) /\ Cardinality(ToSet(places)) = Len(places)
  BY <1>3, DistinctCount
<1>7. IsFiniteSet(transfer) /\ IsFiniteSet(blocks) /\ IsFiniteSet(Dropping)
  BY <1>5, ChannelAssumption, FS_Subset
<1>8. /\ IsFiniteSet(ToSet(places) \cup transfer)
      /\ Cardinality(ToSet(places) \cup transfer) = Cardinality(ToSet(places)) + Cardinality(transfer)
  BY <1>0, <1>3, <1>6, <1>7, DisjointCount DEF EquipmentPlaces
<1>9. /\ IsFiniteSet(ToSet(places) \cup transfer \cup blocks)
      /\ Cardinality(ToSet(places) \cup transfer \cup blocks)
           = Cardinality(ToSet(places) \cup transfer) + Cardinality(blocks)
  BY <1>0, <1>3, <1>7, <1>8, DisjointCount DEF EquipmentPlaces
<1>10. Cardinality(ToSet(places) \cup transfer \cup blocks \cup Dropping)
           = Cardinality(ToSet(places) \cup transfer \cup blocks) + Cardinality(Dropping)
  <2>1. (ToSet(places) \cup transfer \cup blocks) \cap Dropping = {}
    BY <1>0, <1>3 DEF EquipmentPlaces
  <2> QED BY <1>7, <1>9, <2>1, DisjointCount
<1>11. Len(places) + Cardinality(transfer) + Cardinality(blocks) + Cardinality(Dropping)
         = Cardinality(Superpages)
  BY <1>5, <1>6, <1>8, <1>9, <1>10
<1>12. equipment # "twice"
  BY <1>0 DEF Alone
<1> QED BY <1>4, <1>5, <1>11, <1>12 DEF PagesApart, places, both

(* The end of the process takes the FIFOs away; what others do while the    *)
(* equipment has the channel does not touch its superpages.                 *)
LEMMA EquipmentInvInductive ==
    ASSUME LockInv, InUse, ChannelTypes, BenchTypes, EquipmentInv, [Next]_vars
    PROVE  EquipmentInv'
<1> USE DEF EquipmentInv
<1>1. CASE EquipmentStart \/ EquipmentNext
  <2>1. EquipmentTypes'
    BY <1>1, EquipmentTypesInductive
  <2>2. ASSUME overlapped' = 0 PROVE Alone' /\ DropPlaces' /\ EquipmentPlaces'
    <3>1. overlapped = 0
      BY <1>1, <2>2, NoOverlap
    <3> QED BY <1>1, <2>2, <3>1, AloneInductive, DropPlacesInductive, EquipmentPlacesInductive
  <2> QED BY <2>1, <2>2
<1>2. CASE EquipmentGone
  <2>1. /\ equipment' = "off" /\ slots' = [i \in 0 .. FifoSize |-> NoPage]
        /\ indexStart' = 0 /\ indexEnd' = 0 /\ dataOut' = << >> /\ blocks' = {}
        /\ drop' = [t \in Droppers |-> Idle] /\ overlapped' = 0
    BY <1>2 DEF EquipmentGone
  <2>0. FifoSize \in Nat
    BY FifoIndices DEF EquipmentTypes
  <2>2. Idle \in [page : Superpages \cup {NoPage}, index : 0 .. FifoSize]
    BY <2>0 DEF Idle
  <2>3. EquipmentTypes'
    BY <2>0, <2>1, <2>2 DEF EquipmentTypes
  <2>4. Alone' /\ DropPlaces' /\ EquipmentPlaces'
    BY <2>1 DEF Alone, DropPlaces, EquipmentPlaces
  <2> QED BY <2>3, <2>4
<1>3. CASE /\ UNCHANGED equipmentVars
           /\ equipment \in {"off", "failed"} \/ UNCHANGED <<transfer, ready>>
  <2>1. UNCHANGED <<equipment, slots, indexStart, indexEnd, dataOut, blocks, drop, overlapped>>
    BY <1>3 DEF equipmentVars, equipmentFifo
  <2>2. EquipmentTypes' /\ (overlapped = 0 => Alone' /\ DropPlaces')
    BY <2>1 DEF EquipmentTypes, Alone, DropPlaces, Following
  <2>3. UNCHANGED <<Held, FreePages, Dropping>>
    BY <2>1 DEF Held, FreePages, Dropping
  <2>4. overlapped = 0 => EquipmentPlaces'
    BY <1>3, <2>1, <2>3 DEF EquipmentPlaces
  <2> QED BY <2>1, <2>2, <2>4
<1> QED BY <1>1, <1>2, <1>3, EquipmentSteps

(* For any number of superpages, threads that drop blocks, processes and    *)
(* crashes, and any room in the channel and in dataOut: while               *)
(* ReadoutEquipmentRORC runs every superpage is in one place and none is    *)
(* lost, so that the card never writes into a block somebody reads, as long *)
(* as no two threads have dropped blocks at the same time: what the missing *)
(* lock of ~DataBlockContainerFromRORC() is for, and nothing else.          *)
THEOREM PagesApartAlways == Spec => []PagesApart
<1>1. Init => EquipmentInv
  <2> SUFFICES ASSUME Init PROVE EquipmentInv
    OBVIOUS
  <2>1. FifoSize \in Nat
    BY ChannelAssumption, FS_CardinalityType DEF FifoSize
  <2>2. Idle \in [page : Superpages \cup {NoPage}, index : 0 .. FifoSize]
    BY <2>1 DEF Idle
  <2>3. EquipmentTypes
    BY <2>1, <2>2 DEF Init, EquipmentInit, EquipmentTypes
  <2>4. Alone /\ DropPlaces /\ EquipmentPlaces
    BY DEF Init, EquipmentInit, Alone, DropPlaces, EquipmentPlaces
  <2> QED BY <2>3, <2>4 DEF EquipmentInv
<1>2. ClientsInv /\ EquipmentInv /\ [Next]_vars => EquipmentInv'
  BY EquipmentInvInductive DEF ClientsInv, BenchInv
<1>3. ClientsInv /\ EquipmentInv => PagesApart
  BY PagesAreApart DEF ClientsInv
<1> QED BY <1>1, <1>2, <1>3, ClientsInvHolds, PTL DEF Spec
=============================================================================
