--------------------------- MODULE LoggingProofs ---------------------------
(***************************************************************************)
(* Proofs about Logging, for any number of processes, database threads and *)
(* messages, any size of the queues and any number of failures, and about  *)
(* PermanentFifo, for any size of its tables and any number of messages    *)
(* and of deaths of the process.                                           *)
(***************************************************************************)
EXTENDS Logging, PermanentFifo, SequenceFacts

MainSt == [at : {"get", "db", "dead"}, msg : Nat, nTry : Nat]

\* The parts of the state on which the fate of a message depends.
ServerTypes ==
    /\ delivered \in [Clients -> Nat]
    /\ main \in MainSt
    /\ rr \in Nat
    /\ dbq \in [DbThreads -> Seq(Nat)]

\* What FateKnown says of message m.
Known(m) ==
    \/ main.at = "db" /\ main.msg = m
    \/ \E t \in DbThreads : Contains(dbq[t], m)
    \/ m \in inserted \cup reported

-----------------------------------------------------------------------------
(* A sequence contains what was appended to it and what it contained.       *)
LEMMA ContainsAppend ==
    ASSUME NEW q \in Seq(Nat), NEW x \in Nat
    PROVE  /\ Append(q, x) \in Seq(Nat) /\ Contains(Append(q, x), x)
           /\ \A e : Contains(q, e) => Contains(Append(q, x), e)
<1> DEFINE r == Append(q, x)
<1>1. /\ r \in Seq(Nat) /\ Len(r) = Len(q) + 1 /\ Len(q) \in Nat
      /\ r[Len(q) + 1] = x
      /\ \A i \in 1 .. Len(q) : r[i] = q[i]
  OBVIOUS
<1> HIDE DEF r
<1>2. Contains(r, x)
  BY <1>1 DEF Contains
<1>3. ASSUME NEW e, Contains(q, e) PROVE Contains(r, e)
  <2>1. PICK i \in 1 .. Len(q) : q[i] = e
    BY <1>3 DEF Contains
  <2> QED BY <1>1, <2>1 DEF Contains
<1> QED BY <1>1, <1>2, <1>3 DEF r

(* A nonempty sequence contains its head and what its tail contains.        *)
LEMMA ContainsTail ==
    ASSUME NEW q \in Seq(Nat), q # << >>
    PROVE  /\ Tail(q) \in Seq(Nat)
           /\ \A e : Contains(q, e) => e = Head(q) \/ Contains(Tail(q), e)
<1> DEFINE r == Tail(q)
<1>1. /\ r \in Seq(Nat) /\ Len(r) = Len(q) - 1 /\ Len(q) \in Nat /\ Len(q) # 0
      /\ Head(q) = q[1]
      /\ \A i \in 1 .. Len(r) : r[i] = q[i + 1]
  OBVIOUS
<1> HIDE DEF r
<1>2. ASSUME NEW e, Contains(q, e), e # Head(q) PROVE Contains(r, e)
  <2>1. PICK i \in 1 .. Len(q) : q[i] = e
    BY <1>2 DEF Contains
  <2>2. i - 1 \in 1 .. Len(r) /\ r[i - 1] = e
    BY <1>1, <1>2, <2>1
  <2> QED BY <2>2 DEF Contains
<1> QED BY <1>1, <1>2 DEF r

(* The remainder names a thread.                                            *)
LEMMA ModRange ==
    ASSUME NEW m \in Nat \ {0}, NEW x \in Nat PROVE x % m \in 0 .. m - 1
  OBVIOUS

(* The engine that has room, in the order of the round-robin.               *)
LEMMA TryEnginesEffect ==
    ASSUME ServerTypes, TryEngines
    PROVE  /\ main.at = "db" /\ UNCHANGED <<delivered, inserted, reported>>
           /\ \/ \E u \in DbThreads : /\ dbq' = [dbq EXCEPT ![u] = Append(@, main.msg)]
                                      /\ rr' \in Nat /\ main' = [at |-> "get", msg |-> 0, nTry |-> 0]
              \/ /\ UNCHANGED <<rr, dbq>>
                 /\ main' = [main EXCEPT !.nTry = @ + 1]
<1> DEFINE n == Cardinality(DbThreads)
           Room(i) == Len(dbq[(rr + i) % n]) < DispatchQueue
           First(i) == i \in 0 .. n - 1 /\ Room(i) /\ \A j \in 0 .. i - 1 : ~Room(j)
           k == CHOOSE i \in 0 .. n - 1 : Room(i) /\ \A j \in 0 .. i - 1 : ~Room(j)
<1>1. n \in Nat /\ DbThreads = 0 .. n - 1 /\ rr \in Nat
  BY LoggingAssumption DEF ServerTypes
<1>2. main.at = "db" /\ UNCHANGED <<delivered, inserted, reported>>
  BY DEF TryEngines, channelVars
<1>3. CASE ~\E i \in 0 .. n - 1 : Room(i)
  BY <1>2, <1>3 DEF TryEngines
<1>4. CASE \E i \in 0 .. n - 1 : Room(i)
  <2>1. /\ dbq' = [dbq EXCEPT ![(rr + k) % n] = Append(@, main.msg)]
        /\ rr' = (rr + k + 1) % n
        /\ main' = [main EXCEPT !.at = "get", !.msg = 0, !.nTry = 0]
    BY <1>4 DEF TryEngines
  <2> HIDE DEF n, Room
  <2>2. k \in 0 .. n - 1
    <3> DEFINE Fit == {i \in 0 .. n - 1 : Room(i)}
    <3>1. Fit \in SUBSET Nat /\ Fit # {}
      BY <1>1, <1>4
    <3>2. PICK i \in Fit : \A j \in Fit : i <= j
      <4> HIDE DEF Fit
      <4> QED BY <3>1, LeastNatural
    <3>3. i \in 0 .. n - 1 /\ Room(i)
      BY <3>2
    <3>4. ASSUME NEW j \in 0 .. i - 1 PROVE ~Room(j)
      <4>1. j \in 0 .. n - 1 /\ ~(i <= j)
        BY <1>1, <3>3
      <4> QED BY <3>2, <4>1
    <3> QED BY <3>3, <3>4
  <2> HIDE DEF k
  <2>3. n \in Nat \ {0} /\ rr + k \in Nat /\ rr + k + 1 \in Nat
    BY <1>1, <2>2
  <2>4. (rr + k) % n \in 0 .. n - 1 /\ (rr + k + 1) % n \in 0 .. n - 1
    BY <2>3, ModRange
  <2>5. main' = [at |-> "get", msg |-> 0, nTry |-> 0]
    BY <2>1 DEF ServerTypes, MainSt
  <2>6. (rr + k) % n \in DbThreads /\ rr' \in Nat
    BY <1>1, <2>1, <2>4
  <2> DEFINE u == (rr + k) % n
  <2>7. u \in DbThreads /\ dbq' = [dbq EXCEPT ![u] = Append(@, main.msg)]
    BY <2>1, <2>6
  <2> HIDE DEF u
  <2> QED BY <1>2, <2>5, <2>6, <2>7
<1> QED BY <1>3, <1>4

(* A database thread takes the front of its own queue, and then that        *)
(* message is in the database or reported.                                  *)
LEMMA ProcessEffect ==
    ASSUME NEW t, Process(t)
    PROVE  /\ UNCHANGED <<delivered, rr>>
           /\ inserted \cup reported \subseteq inserted' \cup reported'
           /\ \/ UNCHANGED <<main, dbq>>
              \/ /\ main' = main /\ dbq[t] # << >> /\ dbq' = [dbq EXCEPT ![t] = Tail(@)]
                 /\ Head(dbq[t]) \in inserted' \cup reported'
              \/ /\ dbq' = dbq /\ main' = [main EXCEPT !.at = "dead"]
  BY DEF Process, channelVars

(* The types hold after every step.                                         *)
LEMMA NextServerTypes == ServerTypes /\ [Next]_loggingVars => ServerTypes'
<1> SUFFICES ASSUME ServerTypes, [Next]_loggingVars PROVE ServerTypes'
  OBVIOUS
<1> USE DEF serverSide, channelVars
<1>1. CASE UNCHANGED <<delivered, main, rr, dbq>>
  BY <1>1 DEF ServerTypes
<1>2. ASSUME NEW m \in 1 .. MaxMsg, Take(m) PROVE ServerTypes'
  <2>1. m \in Nat
    BY LogChannelAssumption
  <2>2. delivered' \in [Clients -> Nat]
    BY <1>2, <2>1 DEF Take, Deliver, ServerTypes
  <2>3. main' \in MainSt
    BY <1>2, <2>1 DEF Take, ServerTypes, MainSt
  <2> QED BY <1>2, <2>2, <2>3 DEF Take, ServerTypes
<1>3. CASE TryEngines
  <2>1. main.msg \in Nat /\ main.nTry + 1 \in Nat
    BY DEF ServerTypes, MainSt
  <2>2. main' \in MainSt
    BY <1>3, <2>1, TryEnginesEffect DEF ServerTypes, MainSt
  <2>3. rr' \in Nat /\ delivered' = delivered
    BY <1>3, TryEnginesEffect DEF ServerTypes
  <2>4. dbq' \in [DbThreads -> Seq(Nat)]
    <3>1. \A u \in DbThreads : Append(dbq[u], main.msg) \in Seq(Nat)
      BY <2>1, ContainsAppend DEF ServerTypes
    <3>2. dbq' = dbq \/ \E u \in DbThreads : dbq' = [dbq EXCEPT ![u] = Append(@, main.msg)]
      BY <1>3, TryEnginesEffect
    <3> QED BY <3>1, <3>2 DEF ServerTypes
  <2> QED BY <2>2, <2>3, <2>4 DEF ServerTypes
<1>4. CASE EnginesFull
  <2>1. main' \in MainSt
    BY <1>4 DEF EnginesFull, ServerTypes, MainSt
  <2> QED BY <1>4, <2>1 DEF EnginesFull, ServerTypes
<1>5. ASSUME NEW t \in DbThreads, Process(t) PROVE ServerTypes'
  <2>1. main' \in MainSt
    BY <1>5, ProcessEffect DEF ServerTypes, MainSt
  <2>2. dbq' \in [DbThreads -> Seq(Nat)]
    <3>1. dbq[t] \in Seq(Nat)
      BY DEF ServerTypes
    <3> QED BY <1>5, <3>1, ProcessEffect, ContainsTail DEF ServerTypes
  <2> QED BY <1>5, <2>1, <2>2, ProcessEffect DEF ServerTypes
<1>6. ASSUME NEW a, Open(a) \/ Log(a) \/ Close(a) \/ Receive(a) \/ Hangup(a)
      PROVE  ServerTypes'
  BY <1>1, <1>6 DEF Open, Log, Close, Receive, Hangup
<1>7. CASE DaemonRestart \/ Broadcast \/ UNCHANGED loggingVars
  BY <1>1, <1>7 DEF DaemonRestart, Broadcast, loggingVars
<1>8. ASSUME NEW t, CustomLoop(t) PROVE ServerTypes'
  BY <1>1, <1>8 DEF CustomLoop
<1> QED BY <1>2, <1>3, <1>4, <1>5, <1>6, <1>7, <1>8 DEF Next

(* No step forgets a message.                                               *)
LEMMA NextFateKnown ==
    ServerTypes /\ FateKnown /\ [Next]_loggingVars => FateKnown'
<1> SUFFICES ASSUME ServerTypes, FateKnown, [Next]_loggingVars, Alive',
                    NEW m \in 1 .. delivered'[d]
             PROVE  Known(m)'
  BY DEF FateKnown, Known
<1> USE DEF serverSide, channelVars
<1>0. d \in Clients /\ delivered[d] \in Nat /\ m \in Nat
  BY LoggingAssumption DEF ServerTypes, d
<1>1. Alive => \A k \in 1 .. delivered[d] : Known(k)
  BY DEF FateKnown, Known
<1>2. CASE UNCHANGED <<delivered, main, dbq, inserted, reported>>
  BY <1>1, <1>2 DEF Known, Alive
<1>3. ASSUME NEW k \in 1 .. MaxMsg, Take(k) PROVE Known(m)'
  <2>1. /\ main.at = "get" /\ dbq' = dbq /\ inserted' = inserted
        /\ k <= delivered[d] + 1 /\ k \in Nat
        /\ delivered'[d] = IF k > delivered[d] THEN k ELSE delivered[d]
    BY <1>0, <1>3, LogChannelAssumption DEF Take, Deliver, ServerTypes
  <2>2. /\ reported \subseteq reported'
        /\ k \in reported' \/ (main'.at = "db" /\ main'.msg = k)
    BY <1>3 DEF Take
  <2>3. m \in 1 .. delivered[d] \/ m = k
    BY <1>0, <2>1
  <2>4. CASE m = k
    BY <2>2, <2>4 DEF Known
  <2>5. CASE m \in 1 .. delivered[d]
    BY <1>1, <2>1, <2>2, <2>5 DEF Known, Alive
  <2> QED BY <2>3, <2>4, <2>5
<1>4. CASE TryEngines
  <2>1. main.at = "db" /\ UNCHANGED <<delivered, inserted, reported>> /\ Known(m)
    BY <1>1, <1>4, TryEnginesEffect DEF Alive
  <2>2. CASE UNCHANGED <<rr, dbq>> /\ main' = [main EXCEPT !.nTry = @ + 1]
    <3>1. main'.at = main.at /\ main'.msg = main.msg
      BY <2>2 DEF ServerTypes, MainSt
    <3> QED BY <2>1, <2>2, <3>1 DEF Known
  <2>3. ASSUME NEW u \in DbThreads, dbq' = [dbq EXCEPT ![u] = Append(@, main.msg)]
        PROVE  Known(m)'
    <3>1. dbq[u] \in Seq(Nat) /\ main.msg \in Nat /\ dbq'[u] = Append(dbq[u], main.msg)
      BY <2>3 DEF ServerTypes, MainSt
    <3>2. CASE main.msg = m
      BY <3>1, <3>2, ContainsAppend DEF Known
    <3>3. CASE m \in inserted \cup reported
      BY <2>1, <3>3 DEF Known
    <3>4. ASSUME NEW t \in DbThreads, Contains(dbq[t], m) PROVE Known(m)'
      <4>1. Contains(dbq'[t], m)
        <5>1. CASE t = u
          BY <3>1, <3>4, <5>1, ContainsAppend
        <5>2. CASE t # u
          BY <2>3, <3>4, <5>2 DEF ServerTypes
        <5> QED BY <5>1, <5>2
      <4> QED BY <4>1 DEF Known
    <3> QED BY <2>1, <3>2, <3>3, <3>4 DEF Known
  <2> QED BY <1>4, <2>2, <2>3, TryEnginesEffect
<1>5. CASE EnginesFull
  <2>1. /\ main.at = "db" /\ UNCHANGED <<delivered, dbq, inserted>>
        /\ reported' = reported \cup {main.msg}
    BY <1>5 DEF EnginesFull
  <2> QED BY <1>1, <2>1 DEF Known, Alive
<1>6. ASSUME NEW t \in DbThreads, Process(t) PROVE Known(m)'
  <2>1. main' = main
    BY <1>6, ProcessEffect DEF Alive, ServerTypes, MainSt
  <2>2. /\ delivered' = delivered /\ inserted \cup reported \subseteq inserted' \cup reported'
        /\ \/ dbq' = dbq
           \/ /\ dbq[t] # << >> /\ dbq' = [dbq EXCEPT ![t] = Tail(@)]
              /\ Head(dbq[t]) \in inserted' \cup reported'
    BY <1>6, ProcessEffect
  <2>3. Known(m)
    BY <1>1, <2>1, <2>2 DEF Alive
  <2>4. CASE m \in inserted \cup reported \/ (main.at = "db" /\ main.msg = m)
    BY <2>1, <2>2, <2>4 DEF Known
  <2>5. ASSUME NEW u \in DbThreads, Contains(dbq[u], m) PROVE Known(m)'
    <3>1. CASE dbq' = dbq \/ u # t
      <4>1. dbq'[u] = dbq[u]
        BY <2>2, <3>1 DEF ServerTypes
      <4> QED BY <2>5, <4>1 DEF Known
    <3>2. CASE u = t /\ dbq[t] # << >> /\ dbq' = [dbq EXCEPT ![t] = Tail(@)]
      <4>1. dbq[t] \in Seq(Nat) /\ dbq'[t] = Tail(dbq[t])
        BY <3>2 DEF ServerTypes
      <4>2. m = Head(dbq[t]) \/ Contains(dbq'[t], m)
        BY <2>5, <3>2, <4>1, ContainsTail
      <4> QED BY <2>2, <3>2, <4>2 DEF Known, ServerTypes
    <3> QED BY <2>2, <3>1, <3>2
  <2> QED BY <2>3, <2>4, <2>5 DEF Known
<1>7. ASSUME NEW a, Open(a) \/ Log(a) \/ Close(a) \/ Receive(a) \/ Hangup(a)
      PROVE  Known(m)'
  BY <1>2, <1>7 DEF Open, Log, Close, Receive, Hangup
<1>8. CASE DaemonRestart \/ Broadcast \/ UNCHANGED loggingVars
  BY <1>2, <1>8 DEF DaemonRestart, Broadcast, loggingVars
<1>9. ASSUME NEW t, CustomLoop(t) PROVE Known(m)'
  BY <1>2, <1>9 DEF CustomLoop
<1> QED BY <1>3, <1>4, <1>5, <1>6, <1>7, <1>8, <1>9 DEF Next

(* As long as the server lives, every message that reached it is in hand,   *)
(* queued, in the database or reported lost.                                *)
THEOREM SpecFateKnown == Spec => []FateKnown
<1>1. Init => ServerTypes
  BY LoggingAssumption DEF Init, ChannelInit, ServerTypes, MainSt
<1>2. Init => FateKnown
  BY LoggingAssumption DEF Init, ChannelInit, FateKnown, d
<1> QED BY <1>1, <1>2, NextServerTypes, NextFateKnown, PTL DEF Spec

(***************************************************************************)
(* The persistent FIFO.                                                    *)
(*                                                                         *)
(* While there is a process, its state is fixed by a, the number of ids    *)
(* acknowledged: input_queue and table_client are the ids from a + 1 on    *)
(* (Reading), the file ends at lastIdOnDisk (Saved), and table_disk goes   *)
(* on from there to currentId (Saving).  A new process may find a file     *)
(* whose ids do not begin at 1; then nothing is read yet.  In the files, a *)
(* record is live when its id is above the header's lastAckId; the         *)
(* messages of the live records and of table_disk are the pending ones     *)
(* (LiveInv), in every state a death can leave, and this is what the       *)
(* properties rest on.                                                     *)
(***************************************************************************)
Disk == [current : File, old : File, new : File]

\* The file that the next start reads.
SourceOf(files) == IF files.current.exists THEN files.current ELSE files.old

\* The ids of consecutive items, and two orders that are one.
Numbered(items, first) == \A k \in 1 .. Len(items) : items[k].id = first + k
Agree(H) == \A x, y \in H : x.id < y.id <=> x.msg < y.msg

LiveIn(file) == {it \in ToSet(file.items) : it.id > file.lastAckId}
MessagesOf(S) == {it.msg : it \in S}

\* What is to be delivered or acknowledged, and all items in files and memory.
Live == LiveIn(SourceOf(disk)) \cup ToSet(table_disk)
Held == ToSet(disk.current.items) \cup ToSet(table_disk) \cup ToSet(table_client) \cup ToSet(input_queue)

GoodFile(file) ==
    /\ \E first \in Nat : Numbered(file.items, first)
    /\ Agree(ToSet(file.items))
    /\ ~truncated /\ file.lastAckId = 0 /\ file.items = <<>> => file.currentId = 0

GoodDisk(files) ==
    /\ files \in Disk
    /\ ~files.current.exists /\ ~files.old.exists => files.old = Absent
    /\ GoodFile(SourceOf(files))

Larger(a, b) == IF a < b THEN b ELSE a

\* The place of the reader when a messages are acknowledged.
Reading(a) ==
    /\ Numbered(input_queue, a)
    /\ \/ lastIdOut = a + Len(input_queue)
       \/ /\ lastIdOut < a /\ lastIdOut = 0 /\ input_queue = <<>> /\ table_client = <<>>
          /\ lastOutOffset = 0
          /\ disk.current.items # <<>> => lastIdOnDisk - Len(disk.current.items) = a
          /\ ~truncated => lastIdOnDisk > a
    /\ Numbered(table_client, lastIdOut) /\ lastIdOut + Len(table_client) <= currentId
    /\ nextIdInClientTable = currentId + 1 => lastIdOut + Len(table_client) = currentId

\* The table to be saved goes on where the file ends.
Saving(a) ==
    /\ a <= currentId
    /\ Len(table_disk) = currentId - Larger(a, lastIdOnDisk)
    /\ Numbered(table_disk, currentId - Len(table_disk))

\* The file in use has what is not acknowledged and was saved.
Saved(a) ==
    LET F == disk.current.items
    IN  /\ disk.current.exists
        /\ Len(F) <= lastIdOnDisk /\ Numbered(F, lastIdOnDisk - Len(F))
        /\ F # <<>> => lastIdOnDisk > a /\ ackOnDisk
        /\ lastIdOnDisk > a => lastIdOnDisk - Len(F) <= a
        /\ disk.current.lastAckId <= a
        /\ F # <<>> /\ disk.current.lastAckId < a => lastIdOnDisk - Len(F) = a
        /\ lastOutOffset > 0 => lastIdOnDisk - Len(F) + lastOutOffset <= lastIdOut + Len(table_client)

Position(a) == Reading(a) /\ Saving(a) /\ Saved(a)

UpInv == up => /\ \E a \in Nat : Position(a)
               /\ Agree(Held)

DownInv ==
    ~up => /\ table_client = <<>> /\ table_disk = <<>> /\ input_queue = <<>>
           /\ lastIdOut = 0 /\ lastOutOffset = 0

LiveInv ==
    /\ Pending = MessagesOf(Live)
    /\ acked \cap MessagesOf(Live) = {}
    /\ acked \cup lost \subseteq 1 .. written
    /\ \A it \in ToSet(SourceOf(disk).items) \cup ToSet(table_disk) : it.msg <= written

PermInv == TypeOK /\ GoodDisk(disk) /\ UpInv /\ DownInv /\ LiveInv

(* A part of a sequence.                                                     *)
LEMMA PartOf ==
    ASSUME NEW S, NEW q \in Seq(S), NEW i \in Nat \ {0}, NEW j \in Nat, j <= Len(q), i <= j + 1
    PROVE  /\ SubSeq(q, i, j) \in Seq(S) /\ Len(SubSeq(q, i, j)) = j + 1 - i
           /\ \A k \in 1 .. j + 1 - i : SubSeq(q, i, j)[k] = q[i + k - 1]
           /\ Len(q) \in Nat
  OBVIOUS

(* The items above an id are the last ones when their ids are consecutive.   *)
LEMMA AboveSplit ==
    ASSUME NEW S, NEW q \in Seq(S), NEW x, NEW n \in 0 .. Len(q),
           \A k \in 1 .. n : ~(q[k].id > x),
           \A k \in n + 1 .. Len(q) : q[k].id > x
    PROVE  Above(q, x) = SubSeq(q, n + 1, Len(q))
<1> DEFINE g == [k \in 0 .. Len(q) |-> IF k <= n THEN << >> ELSE SubSeq(q, n + 1, k)]
           Fix(f) == f = [k \in 0 .. Len(q) |->
                            IF k = 0 THEN <<>>
                            ELSE IF q[k].id > x THEN Append(f[k - 1], q[k]) ELSE f[k - 1]]
<1>1. Above(q, x) = (CHOOSE f : Fix(f))[Len(q)]
  BY DEF Above
<1>2. Len(q) \in Nat /\ n \in 0 .. Len(q) /\ \A k \in 1 .. Len(q) : q[k] \in S
  OBVIOUS
<1>3. ASSUME NEW k \in 0 .. Len(q)
      PROVE  g[k] = IF k = 0 THEN << >> ELSE IF q[k].id > x THEN Append(g[k - 1], q[k]) ELSE g[k - 1]
  <2>1. CASE k = 0
    BY <1>2, <2>1
  <2>2. CASE k # 0 /\ k <= n
    BY <1>2, <2>2
  <2>3. CASE k # 0 /\ ~(k <= n)
    <3>1. q[k].id > x
      BY <1>2, <2>3
    <3>2. k - 1 \in 0 .. Len(q) /\ g[k] = SubSeq(q, n + 1, k)
      BY <1>2, <2>3
    <3>3. g[k - 1] = SubSeq(q, n + 1, k - 1)
      BY <1>2, <2>3, <3>2
    <3>4. SubSeq(q, n + 1, k) = Append(SubSeq(q, n + 1, k - 1), q[k])
      BY <1>2, <2>3
    <3> QED BY <2>3, <3>1, <3>2, <3>3, <3>4
  <2> QED BY <2>1, <2>2, <2>3
<1>4. Fix(g)
  BY <1>3
<1>5. ASSUME NEW f, Fix(f), NEW k \in 0 .. Len(q) PROVE f[k] = g[k]
  <2> DEFINE B == {j \in 0 .. Len(q) : f[j] # g[j]}
  <2>1. ASSUME B # {} PROVE FALSE
    <3>1. B \in SUBSET Nat
      BY <1>2
    <3>2. PICK i \in B : \A j \in B : i <= j
      BY <2>1, <3>1, LeastNatural
    <3>3. CASE i = 0
      BY <1>3, <1>5, <3>2, <3>3
    <3>4. CASE i # 0
      <4>1. i \in 0 .. Len(q) /\ i - 1 \in 0 .. Len(q) /\ i - 1 \notin B
        BY <1>2, <3>1, <3>2, <3>4
      <4>2. f[i - 1] = g[i - 1]
        BY <4>1
      <4> HIDE DEF g
      <4>3. f[i] = IF q[i].id > x THEN Append(f[i - 1], q[i]) ELSE f[i - 1]
        BY <1>5, <3>4, <4>1
      <4>4. g[i] = IF q[i].id > x THEN Append(g[i - 1], q[i]) ELSE g[i - 1]
        BY <1>3, <3>4, <4>1
      <4> QED BY <3>2, <4>2, <4>3, <4>4
    <3> QED BY <3>3, <3>4
  <2> QED BY <2>1
<1>6. Fix(CHOOSE f : Fix(f))
  BY <1>4
<1> HIDE DEF g, Fix
<1>7. Above(q, x) = g[Len(q)]
  BY <1>1, <1>2, <1>5, <1>6
<1> QED BY <1>2, <1>7 DEF g

(* The items above an id, in a sequence with consecutive ids: a last part of *)
(* it, with consecutive ids, that begins at the id when the sequence reaches *)
(* it.                                                                       *)
LEMMA AboveNumbered ==
    ASSUME NEW q \in Seq(Item), NEW first \in Nat, Numbered(q, first), NEW x \in Nat
    PROVE  \E n \in 0 .. Len(q) :
              /\ Above(q, x) = SubSeq(q, n + 1, Len(q)) /\ Above(q, x) \in Seq(Item)
              /\ Len(Above(q, x)) = Len(q) - n /\ Numbered(Above(q, x), first + n)
              /\ ToSet(Above(q, x)) = {it \in ToSet(q) : it.id > x}
              /\ x <= first => n = 0
              /\ x >= first + Len(q) => n = Len(q)
              /\ x \in first .. first + Len(q) => n = x - first
<1>a. PICK l \in Nat : l = Len(q)
  OBVIOUS
<1>1. PICK n \in 0 .. l : /\ x <= first => n = 0
                          /\ x >= first + l => n = l
                          /\ x \in first .. first + l => n = x - first
  <2>1. CASE x <= first
    BY <2>1
  <2>2. CASE x >= first + l
    BY <2>2
  <2>3. CASE first < x /\ x < first + l
    <3>1. x - first \in 0 .. l
      BY <2>3
    <3> QED BY <2>3, <3>1
  <2> QED BY <2>1, <2>2, <2>3
<1>2. \A k \in 1 .. l : q[k] \in Item /\ q[k].id = first + k
  BY <1>a DEF Numbered
<1>3. /\ \A k \in 1 .. n : k \in 1 .. l /\ ~(first + k > x)
      /\ \A k \in n + 1 .. l : k \in 1 .. l /\ first + k > x
  BY <1>1
<1>4. Above(q, x) = SubSeq(q, n + 1, l)
  <2>1. /\ n \in 0 .. Len(q)
        /\ \A k \in 1 .. n : ~(q[k].id > x)
        /\ \A k \in n + 1 .. Len(q) : q[k].id > x
    BY <1>2, <1>3, <1>a
  <2> QED BY <1>a, <2>1, AboveSplit
<1>5. PICK r : r = Above(q, x)
  OBVIOUS
<1>6. /\ r \in Seq(Item) /\ Len(r) = l - n
      /\ \A k \in 1 .. l - n : r[k] = q[n + k] /\ n + k \in n + 1 .. l
  <2>1. n + 1 \in Nat \ {0} /\ l <= Len(q) /\ n + 1 <= l + 1 /\ l + 1 - (n + 1) = l - n
    BY <1>a
  <2>2. r \in Seq(Item) /\ Len(r) = l - n /\ \A k \in 1 .. l - n : r[k] = q[n + 1 + k - 1]
    BY <1>4, <1>5, <2>1, PartOf
  <2>3. \A k \in 1 .. l - n : n + 1 + k - 1 = n + k /\ n + k \in n + 1 .. l
    OBVIOUS
  <2> QED BY <2>2, <2>3
<1>7. Numbered(r, first + n)
  BY <1>2, <1>3, <1>6 DEF Numbered
<1>8. ToSet(r) = {it \in ToSet(q) : it.id > x}
  <2>1. ToSet(q) = {q[k] : k \in 1 .. l} /\ ToSet(r) = {r[k] : k \in 1 .. l - n}
    BY <1>a, <1>6, SetOfSeq
  <2>3. ASSUME NEW k \in 1 .. l, q[k].id > x PROVE q[k] \in ToSet(r)
    <3>1. q[k].id = first + k /\ first + k > x
      BY <1>2, <2>3
    <3>2. ~(k \in 1 .. n)
      BY <1>3, <3>1
    <3>3. k \in n + 1 .. l
      BY <3>2
    <3>4. k - n \in 1 .. l - n /\ n + (k - n) = k
      BY <3>3
    <3>5. r[k - n] = q[k]
      BY <1>6, <3>4
    <3> QED BY <2>1, <3>4, <3>5
  <2>4. ASSUME NEW k \in 1 .. l - n PROVE r[k] \in ToSet(q) /\ r[k].id > x
    <3>1. r[k] = q[n + k] /\ n + k \in 1 .. l /\ first + (n + k) > x
      BY <1>3, <1>6
    <3> QED BY <1>2, <2>1, <3>1
  <2> QED BY <2>1, <2>3, <2>4
<1> QED BY <1>1, <1>4, <1>5, <1>6, <1>7, <1>8, <1>a

(* What consecutive ids say of the items of a sequence.                      *)
LEMMA NumberedFacts ==
    ASSUME NEW q \in Seq(Item), NEW first \in Nat, Numbered(q, first)
    PROVE  /\ Len(q) \in Nat /\ (q = <<>> <=> Len(q) = 0)
           /\ \A k \in 1 .. Len(q) : q[k] \in Item /\ q[k] \in ToSet(q) /\ q[k].id = first + k
           /\ ToSet(q) \subseteq Item
           /\ \A it \in ToSet(q) : it.id \in first + 1 .. first + Len(q)
           /\ \A i \in first + 1 .. first + Len(q) : \E it \in ToSet(q) : it.id = i
           /\ q # <<>> => Last(q) = q[Len(q)] /\ Last(q).id = first + Len(q)
<1>1. PICK l \in Nat : l = Len(q)
  OBVIOUS
<1>2. /\ ToSet(q) = {q[k] : k \in 1 .. l} /\ ToSet(q) \subseteq Item
      /\ (q = <<>> <=> l = 0) /\ \A k \in 1 .. l : q[k] \in Item
  BY <1>1, SetOfSeq
<1>3. \A k \in 1 .. l : q[k].id = first + k
  BY <1>1 DEF Numbered
<1>4. ASSUME NEW k \in 1 .. l PROVE first + k \in first + 1 .. first + l
  OBVIOUS
<1>5. ASSUME NEW i \in first + 1 .. first + l PROVE \E it \in ToSet(q) : it.id = i
  <2>1. i - first \in 1 .. l /\ first + (i - first) = i
    OBVIOUS
  <2> QED BY <1>2, <1>3, <2>1
<1>6. q # <<>> => Last(q) = q[l] /\ l \in 1 .. l
  BY <1>1, <1>2 DEF Last
<1>7. \A it \in ToSet(q) : it.id \in first + 1 .. first + l
  BY <1>2, <1>3, <1>4
<1>8. /\ \A k \in 1 .. l : q[k] \in Item /\ q[k] \in ToSet(q) /\ q[k].id = first + k
      /\ q # <<>> => Last(q) = q[l] /\ Last(q).id = first + l
  BY <1>2, <1>3, <1>6
<1> QED BY <1>1, <1>2, <1>5, <1>7, <1>8

(* Appending the item with the next id keeps the ids consecutive.            *)
LEMMA NumberedAppend ==
    ASSUME NEW q \in Seq(Item), NEW first \in Nat, Numbered(q, first),
           NEW x \in Item, x.id = first + Len(q) + 1
    PROVE  /\ Numbered(Append(q, x), first) /\ Append(q, x) \in Seq(Item)
           /\ Len(Append(q, x)) = Len(q) + 1 /\ ToSet(Append(q, x)) = ToSet(q) \cup {x}
<1>1. PICK l \in Nat : l = Len(q)
  OBVIOUS
<1>2. PICK r : r = Append(q, x)
  OBVIOUS
<1>3. /\ r \in Seq(Item) /\ Len(r) = l + 1 /\ ToSet(r) = ToSet(q) \cup {x}
      /\ \A k \in 1 .. l : r[k] = q[k]
      /\ r[l + 1] = x
  BY <1>1, <1>2, SetOfAppend
<1>4. \A k \in 1 .. l : q[k].id = first + k
  BY <1>1 DEF Numbered
<1>5. ASSUME NEW k \in 1 .. l + 1 PROVE r[k].id = first + k
  <2>1. CASE k \in 1 .. l
    BY <1>3, <1>4, <2>1
  <2>2. CASE k = l + 1
    BY <1>1, <1>3, <2>2
  <2> QED BY <2>1, <2>2
<1> QED BY <1>1, <1>2, <1>3, <1>5 DEF Numbered

(* The first item has the next id, and the others go on behind it.           *)
LEMMA NumberedTail ==
    ASSUME NEW q \in Seq(Item), NEW first \in Nat, Numbered(q, first), q # <<>>
    PROVE  /\ Numbered(Tail(q), first + 1) /\ Tail(q) \in Seq(Item)
           /\ Len(Tail(q)) = Len(q) - 1 /\ Len(q) \in Nat \ {0}
           /\ ToSet(q) = {q[1]} \cup ToSet(Tail(q))
           /\ q[1] \in Item /\ q[1].id = first + 1
<1>1. PICK l \in Nat \ {0} : l = Len(q)
  BY SetOfTail
<1>2. PICK r : r = Tail(q)
  OBVIOUS
<1>3. /\ r \in Seq(Item) /\ Len(r) = l - 1 /\ ToSet(q) = {q[1]} \cup ToSet(r)
      /\ \A k \in 1 .. l - 1 : r[k] = q[k + 1]
      /\ q[1] \in Item
  BY <1>1, <1>2, SetOfTail
<1>4. \A k \in 1 .. l : q[k].id = first + k
  BY <1>1 DEF Numbered
<1>5. ASSUME NEW k \in 1 .. l - 1 PROVE r[k].id = first + 1 + k
  <2>1. k + 1 \in 1 .. l /\ first + (k + 1) = first + 1 + k
    OBVIOUS
  <2> QED BY <1>3, <1>4, <2>1
<1> QED BY <1>1, <1>2, <1>3, <1>4, <1>5 DEF Numbered

(* A part of consecutive items is one of consecutive items.                  *)
LEMMA NumberedPart ==
    ASSUME NEW q \in Seq(Item), NEW first \in Nat, Numbered(q, first),
           NEW i \in Nat, NEW j \in Nat, i <= j, j <= Len(q)
    PROVE  /\ Numbered(SubSeq(q, i + 1, j), first + i) /\ SubSeq(q, i + 1, j) \in Seq(Item)
           /\ Len(SubSeq(q, i + 1, j)) = j - i /\ ToSet(SubSeq(q, i + 1, j)) \subseteq ToSet(q)
<1>1. PICK l \in Nat : l = Len(q)
  OBVIOUS
<1>2. PICK r : r = SubSeq(q, i + 1, j)
  OBVIOUS
<1>3. /\ r \in Seq(Item) /\ Len(r) = j - i /\ \A k \in 1 .. j - i : r[k] = q[i + k]
  <2>1. i + 1 \in Nat \ {0} /\ j <= Len(q) /\ i + 1 <= j + 1 /\ j + 1 - (i + 1) = j - i
    OBVIOUS
  <2>2. r \in Seq(Item) /\ Len(r) = j - i /\ \A k \in 1 .. j - i : r[k] = q[i + 1 + k - 1]
    BY <1>2, <2>1, PartOf
  <2>3. \A k \in 1 .. j - i : i + 1 + k - 1 = i + k
    OBVIOUS
  <2> QED BY <2>2, <2>3
<1>4. \A k \in 1 .. l : q[k].id = first + k
  BY <1>1 DEF Numbered
<1>5. ASSUME NEW k \in 1 .. j - i
      PROVE  i + k \in 1 .. l /\ first + (i + k) = first + i + k
  BY <1>1
<1>6. Numbered(r, first + i)
  BY <1>3, <1>4, <1>5 DEF Numbered
<1>7. ToSet(r) \subseteq ToSet(q)
  <2>1. ToSet(q) = {q[k] : k \in 1 .. l} /\ ToSet(r) = {r[k] : k \in 1 .. j - i}
    BY <1>1, <1>3, SetOfSeq
  <2> QED BY <1>3, <1>5, <2>1
<1> QED BY <1>2, <1>3, <1>6, <1>7

(* Two sequences of which the second goes on where the first ends are one.   *)
LEMMA NumberedConcat ==
    ASSUME NEW p \in Seq(Item), NEW q \in Seq(Item), NEW first \in Nat,
           Numbered(p, first), Numbered(q, first + Len(p))
    PROVE  /\ Numbered(p \o q, first) /\ p \o q \in Seq(Item)
           /\ Len(p \o q) = Len(p) + Len(q) /\ ToSet(p \o q) = ToSet(p) \cup ToSet(q)
<1>1. PICK l \in Nat : l = Len(p)
  OBVIOUS
<1>2. PICK m \in Nat : m = Len(q)
  OBVIOUS
<1>3. PICK r : r = p \o q
  OBVIOUS
<1>4. /\ r \in Seq(Item) /\ Len(r) = l + m
      /\ \A k \in 1 .. l + m : r[k] = IF k <= l THEN p[k] ELSE q[k - l]
  BY <1>1, <1>2, <1>3
<1>5. /\ \A k \in 1 .. l : p[k].id = first + k
      /\ \A k \in 1 .. m : q[k].id = first + l + k
  BY <1>1, <1>2 DEF Numbered
<1>6. /\ \A k \in 1 .. l : k \in 1 .. l + m /\ k <= l
      /\ \A k \in 1 .. m : /\ k + l \in 1 .. l + m /\ ~(k + l <= l) /\ (k + l) - l = k
                           /\ first + l + k = first + (k + l)
  OBVIOUS
<1>7. ASSUME NEW k \in 1 .. l + m
      PROVE  k \in 1 .. l \/ (k - l \in 1 .. m /\ (k - l) + l = k)
  OBVIOUS
<1>8. /\ \A k \in 1 .. l : r[k] = p[k]
      /\ \A k \in 1 .. m : r[k + l] = q[k] /\ r[k + l].id = first + (k + l)
  BY <1>4, <1>5, <1>6
<1>9. Numbered(r, first)
  <2>1. ASSUME NEW k \in 1 .. l + m PROVE r[k].id = first + k
    BY <1>5, <1>7, <1>8
  <2> QED BY <1>4, <2>1 DEF Numbered
<1>10. ToSet(r) = ToSet(p) \cup ToSet(q)
  <2>1. /\ ToSet(p) = {p[k] : k \in 1 .. l} /\ ToSet(q) = {q[k] : k \in 1 .. m}
        /\ ToSet(r) = {r[k] : k \in 1 .. l + m}
    BY <1>1, <1>2, <1>4, SetOfSeq
  <2>2. ASSUME NEW k \in 1 .. l PROVE p[k] \in ToSet(r)
    <3>1. k \in 1 .. l + m /\ r[k] = p[k]
      BY <1>6, <1>8
    <3> QED BY <2>1, <3>1
  <2>3. ASSUME NEW k \in 1 .. m PROVE q[k] \in ToSet(r)
    <3>1. k + l \in 1 .. l + m /\ r[k + l] = q[k]
      BY <1>6, <1>8
    <3> QED BY <2>1, <3>1
  <2>4. ASSUME NEW k \in 1 .. l + m PROVE r[k] \in ToSet(p) \cup ToSet(q)
    <3>1. CASE k \in 1 .. l
      BY <1>8, <2>1, <3>1
    <3>2. CASE k - l \in 1 .. m /\ (k - l) + l = k
      <4>1. r[k] = q[k - l]
        BY <1>8, <3>2
      <4> QED BY <2>1, <3>2, <4>1
    <3> QED BY <1>7, <3>1, <3>2
  <2> QED BY <2>1, <2>2, <2>3, <2>4
<1> QED BY <1>1, <1>2, <1>3, <1>4, <1>9, <1>10

(* The records that are not acknowledged, and their messages.                *)
LEMMA UnacknowledgedFacts ==
    ASSUME NEW file \in File, \E n \in Nat : Numbered(file.items, n)
    PROVE  /\ Unacknowledged(file) \in Seq(Item)
           /\ \E first \in Nat : Numbered(Unacknowledged(file), first)
           /\ ToSet(Unacknowledged(file)) = LiveIn(file)
           /\ Messages(Unacknowledged(file)) = MessagesOf(LiveIn(file))
           /\ Messages(file.items) = MessagesOf(ToSet(file.items))
           /\ LiveIn(file) \subseteq ToSet(file.items) /\ ToSet(file.items) \subseteq Item
<1>1. file.items \in Seq(Item) /\ file.lastAckId \in Nat
  BY DEF File
<1>2. PICK first \in Nat : Numbered(file.items, first)
  OBVIOUS
<1>3. PICK r : r = Above(file.items, file.lastAckId)
  OBVIOUS
<1>4. /\ r \in Seq(Item) /\ \E n \in Nat : Numbered(r, n)
      /\ ToSet(r) = {it \in ToSet(file.items) : it.id > file.lastAckId}
  <2>1. PICK n \in 0 .. Len(file.items) :
           /\ r \in Seq(Item) /\ Numbered(r, first + n)
           /\ ToSet(r) = {it \in ToSet(file.items) : it.id > file.lastAckId}
    BY <1>1, <1>2, <1>3, AboveNumbered
  <2>2. first + n \in Nat
    BY <1>1
  <2> QED BY <2>1, <2>2
<1>5. \A q \in Seq(Item) : Messages(q) = MessagesOf(ToSet(q))
  <2>1. SUFFICES ASSUME NEW q \in Seq(Item) PROVE Messages(q) = MessagesOf(ToSet(q))
    OBVIOUS
  <2>2. ToSet(q) = {q[k] : k \in DOMAIN q}
    BY SetOfSeq
  <2> QED BY <2>2 DEF Messages, MessagesOf
<1> QED BY <1>1, <1>3, <1>4, <1>5, SetOfSeq DEF Unacknowledged, LiveIn

(* Where the items of a running FIFO are: the live ones have exactly the ids *)
(* from the first not acknowledged to the last, and the reader has only such.*)
LEMMA LiveFacts ==
    ASSUME PermInv, up, NEW a \in Nat, Position(a)
    PROVE  /\ a <= currentId /\ currentId \in Nat /\ lastIdOnDisk \in 0 .. currentId
           /\ SourceOf(disk) = disk.current /\ disk.current \in File /\ disk \in Disk
           /\ disk.current.items \in Seq(Item) /\ table_disk \in Seq(Item)
           /\ Live \subseteq Item /\ Held \subseteq Item
           /\ \A it \in Live : it.id \in a + 1 .. currentId
           /\ \A i \in a + 1 .. currentId : \E it \in Live : it.id = i
           /\ \A it \in ToSet(table_disk) : it.id > a /\ it.id > lastIdOnDisk
           /\ \A it \in ToSet(disk.current.items) : it.id <= lastIdOnDisk
           /\ LiveIn(disk.current) = {it \in ToSet(disk.current.items) : it.id > a}
           /\ ToSet(input_queue) \cup ToSet(table_client) \subseteq Live
           /\ Live \subseteq Held
           /\ \A it \in Held : it.id \in 1 .. currentId /\ it.msg \in 1 .. written
<1> DEFINE F == disk.current.items
           T == table_disk
<1>1. /\ disk \in Disk /\ table_disk \in Seq(Item) /\ currentId \in Nat /\ written \in Nat
      /\ lastIdOnDisk \in 0 .. currentId /\ lastIdOut \in 0 .. currentId
      /\ table_client \in Seq(Item) /\ input_queue \in Seq(Item)
  BY DEF PermInv, TypeOK, Disk
<1>2. /\ disk.current \in File /\ F \in Seq(Item) /\ disk.current.lastAckId \in Nat
      /\ SourceOf(disk) = disk.current
  BY <1>1 DEF Position, Saved, SourceOf, Disk, File
<1>3. PICK c \in Nat, D \in Nat, R \in Nat :
         /\ c = currentId /\ D = lastIdOnDisk /\ R = lastIdOut
         /\ D <= c /\ R <= c
  BY <1>1
<1>4. PICK f \in Nat, t \in Nat, n \in Nat, q \in Nat :
         f = Len(F) /\ t = Len(T) /\ n = Len(table_client) /\ q = Len(input_queue)
  <2>1. Len(F) \in Nat /\ Len(T) \in Nat
    BY <1>1, <1>2
  <2>2. Len(table_client) \in Nat /\ Len(input_queue) \in Nat
    BY <1>1
  <2> QED BY <2>1, <2>2
<1>5. /\ a <= c /\ t = c - Larger(a, D) /\ Numbered(T, c - t) /\ c - t = Larger(a, D)
  <2>1. a <= c /\ t = c - Larger(a, D) /\ Numbered(T, c - t)
    BY <1>3, <1>4 DEF Position, Saving
  <2>2. Larger(a, D) \in Nat
    BY DEF Larger
  <2> QED BY <2>1, <2>2
<1>6. /\ f <= D /\ Numbered(F, D - f)
      /\ F # <<>> => D > a
      /\ D > a => D - f <= a
      /\ disk.current.lastAckId <= a
      /\ F # <<>> /\ disk.current.lastAckId < a => D - f = a
  BY <1>3, <1>4 DEF Position, Saved
<1>7. /\ Numbered(input_queue, a) /\ Numbered(table_client, R) /\ R + n <= c
      /\ R = a + q \/ (input_queue = <<>> /\ table_client = <<>>)
  BY <1>3, <1>4 DEF Position, Reading
<1>8. /\ ToSet(T) \subseteq Item /\ Larger(a, D) \in Nat
      /\ \A it \in ToSet(T) : it.id \in Larger(a, D) + 1 .. c
      /\ \A i \in Larger(a, D) + 1 .. c : \E it \in ToSet(T) : it.id = i
  <2>1. PICK p \in Nat : p = Larger(a, D) /\ p = c - t /\ p + t = c
    BY <1>5 DEF Larger
  <2>2. Numbered(T, p)
    BY <1>5, <2>1
  <2>3. /\ ToSet(T) \subseteq Item
        /\ \A it \in ToSet(T) : it.id \in p + 1 .. p + Len(T)
        /\ \A i \in p + 1 .. p + Len(T) : \E it \in ToSet(T) : it.id = i
    BY <1>1, <2>2, NumberedFacts
  <2> QED BY <1>4, <2>1, <2>3
<1>9. /\ ToSet(F) \subseteq Item /\ D - f \in Nat
      /\ \A it \in ToSet(F) : it.id \in (D - f) + 1 .. D
      /\ \A i \in (D - f) + 1 .. D : \E it \in ToSet(F) : it.id = i
  <2>1. PICK p \in Nat : p = D - f /\ p + f = D
    BY <1>6
  <2>2. Numbered(F, p)
    BY <1>6, <2>1
  <2>3. /\ ToSet(F) \subseteq Item
        /\ \A it \in ToSet(F) : it.id \in p + 1 .. p + Len(F)
        /\ \A i \in p + 1 .. p + Len(F) : \E it \in ToSet(F) : it.id = i
    BY <1>2, <2>2, NumberedFacts
  <2> QED BY <1>4, <2>1, <2>3
<1>10. \A it \in ToSet(T) : it.id \in a + 1 .. c /\ it.id > D
  BY <1>8 DEF Larger
<1>11. LiveIn(disk.current) = {it \in ToSet(F) : it.id > a}
  <2>1. ASSUME NEW it \in ToSet(F) PROVE it.id > disk.current.lastAckId <=> it.id > a
    <3>1. F # <<>>
      BY SetOfEmpty
    <3>2. it.id \in (D - f) + 1 .. D
      BY <1>9
    <3>3. disk.current.lastAckId = a \/ D - f = a
      BY <1>2, <1>6, <3>1
    <3> QED BY <1>2, <1>6, <1>9, <3>2, <3>3
  <2> QED BY <2>1 DEF LiveIn
<1>12. Live = {it \in ToSet(F) : it.id > a} \cup ToSet(T)
  BY <1>2, <1>11 DEF Live
<1>13. \A it \in ToSet(F) : it.id \in 1 .. D /\ it.id \in 1 .. c
  <2>1. \A i \in (D - f) + 1 .. D : i \in 1 .. D /\ i \in 1 .. c
    BY <1>3, <1>9
  <2> QED BY <1>9, <2>1
<1>14. \A it \in Live : it.id \in a + 1 .. c
  BY <1>10, <1>12, <1>13
<1>15. ASSUME NEW i \in a + 1 .. c PROVE \E it \in Live : it.id = i
  <2>1. CASE i > Larger(a, D)
    <3>1. i \in Larger(a, D) + 1 .. c
      BY <1>8, <2>1
    <3> QED BY <1>8, <1>12, <3>1
  <2>2. CASE ~(i > Larger(a, D))
    <3>1. i \in (D - f) + 1 .. D
      BY <1>6, <1>8, <2>2 DEF Larger
    <3> QED BY <1>9, <1>12, <3>1
  <2> QED BY <2>1, <2>2
<1>16. Held = ToSet(F) \cup ToSet(T) \cup ToSet(table_client) \cup ToSet(input_queue)
  BY DEF Held
<1>17. /\ ToSet(table_client) \subseteq Item /\ ToSet(input_queue) \subseteq Item
       /\ \A it \in ToSet(table_client) : it.id \in R + 1 .. R + n
       /\ \A it \in ToSet(input_queue) : it.id \in a + 1 .. a + q
  BY <1>1, <1>4, <1>7, NumberedFacts
<1>18. \A it \in ToSet(table_client) \cup ToSet(input_queue) : it.id \in a + 1 .. c
  <2>1. CASE R = a + q
    BY <1>7, <1>17, <2>1
  <2>2. CASE input_queue = <<>> /\ table_client = <<>>
    BY <2>2, SetOfEmpty
  <2> QED BY <1>7, <2>1, <2>2
<1>19. Live \subseteq Item /\ Held \subseteq Item /\ Live \subseteq Held
  BY <1>8, <1>9, <1>12, <1>16, <1>17
<1>20. ASSUME NEW it \in ToSet(table_client) \cup ToSet(input_queue) PROVE it \in Live
  <2>1. PICK x \in Live : x.id = it.id
    BY <1>15, <1>18
  <2>2. x \in Held /\ it \in Held /\ x \in Item /\ it \in Item /\ Agree(Held)
    BY <1>16, <1>19 DEF PermInv, UpInv
  <2>3. x.msg = it.msg
    <3>1. x.msg < it.msg <=> x.id < it.id
      BY <2>2 DEF Agree
    <3>2. it.msg < x.msg <=> it.id < x.id
      BY <2>2 DEF Agree
    <3>3. x.id \in Nat /\ it.id \in Nat /\ x.msg \in Nat /\ it.msg \in Nat
      BY <2>2, PermanentFifoAssumption DEF Item, Msg
    <3> QED BY <2>1, <3>1, <3>2, <3>3
  <2> QED BY <2>1, <2>2, <2>3 DEF Item
<1>21. \A it \in ToSet(F) \cup ToSet(T) : it.msg <= written
  BY <1>2 DEF PermInv, LiveInv
<1>22. Held = ToSet(F) \cup ToSet(T)
  BY <1>12, <1>16, <1>20
<1>23. ASSUME NEW it \in Held PROVE it.id \in 1 .. c /\ it.msg \in 1 .. written
  <2>1. it.msg \in Nat \ {0}
    BY <1>19, PermanentFifoAssumption DEF Item, Msg
  <2> QED BY <1>1, <1>10, <1>13, <1>21, <1>22, <2>1
<1> QED BY <1>1, <1>2, <1>3, <1>5, <1>10, <1>11, <1>13, <1>14, <1>15, <1>19, <1>20, <1>23

(* What ct_load() gets from a file: the records behind the reader and behind *)
(* the offset, as many as the table holds.                                   *)
Load(items, off, id) ==
    LET rest == Above(SubSeq(items, off + 1, Len(items)), id)
    IN  SubSeq(rest, 1, IF Len(rest) < size THEN Len(rest) ELSE size)

(* What ct_load() gets goes on behind the reader, or behind the offset when  *)
(* that is further; it reaches the end of the file unless the table is full, *)
(* and it is not empty when the file has more.                               *)
LEMMA LoadFacts ==
    ASSUME NEW q \in Seq(Item), NEW s \in Nat, Numbered(q, s), NEW off \in 0 .. Len(q),
           NEW x \in Nat
    PROVE  /\ Load(q, off, x) \in Seq(Item) /\ Len(Load(q, off, x)) <= size
           /\ Numbered(Load(q, off, x), Larger(x, s + off))
           /\ ToSet(Load(q, off, x)) \subseteq ToSet(q)
           /\ Len(Load(q, off, x)) < size => Larger(x, s + off) + Len(Load(q, off, x)) >= s + Len(q)
           /\ Load(q, off, x) # <<>> => Larger(x, s + off) + Len(Load(q, off, x)) <= s + Len(q)
           /\ s + Len(q) > Larger(x, s + off) => Load(q, off, x) # <<>>
<1>a. PICK r \in Nat : r = Larger(x, s + off)
  BY DEF Larger
<1>b. PICK rest : rest = Above(SubSeq(q, off + 1, Len(q)), x)
  OBVIOUS
<1>c. PICK got : /\ got = Load(q, off, x)
                 /\ got = SubSeq(rest, 1, IF Len(rest) < size THEN Len(rest) ELSE size)
  BY <1>b DEF Load
<1>1. PICK l \in Nat : l = Len(q)
  OBVIOUS
<1>2. PICK p : p = SubSeq(q, off + 1, l)
  OBVIOUS
<1>3. PICK b \in Nat : b = s + off /\ off \in Nat /\ off <= l /\ size \in Nat \ {0}
                      /\ r = Larger(x, b)
  BY <1>1, <1>a, PermanentFifoAssumption
<1>4. p \in Seq(Item) /\ Len(p) = l - off /\ Numbered(p, b) /\ ToSet(p) \subseteq ToSet(q)
  BY <1>1, <1>2, <1>3, NumberedPart
<1>5. PICK m \in Nat : m = Len(p) /\ m = l - off
  BY <1>4
<1>6. PICK n \in 0 .. m :
         /\ rest \in Seq(Item) /\ Len(rest) = m - n
         /\ Numbered(rest, b + n) /\ ToSet(rest) \subseteq ToSet(p)
         /\ x <= b => n = 0
         /\ x >= b + m => n = m
         /\ x \in b .. b + m => n = x - (b)
  <2>1. rest = Above(p, x)
    BY <1>1, <1>2, <1>b
  <2>2. \E n \in 0 .. m :
           /\ Above(p, x) \in Seq(Item) /\ Len(Above(p, x)) = m - n
           /\ Numbered(Above(p, x), b + n)
           /\ ToSet(Above(p, x)) = {it \in ToSet(p) : it.id > x}
           /\ x <= b => n = 0
           /\ x >= b + m => n = m
           /\ x \in b .. b + m => n = x - (b)
    <3>1. /\ p \in Seq(Item) /\ Numbered(p, b) /\ Len(p) = m
      BY <1>4, <1>5
    <3>2. \E n \in 0 .. Len(p) :
           /\ Above(p, x) = SubSeq(p, n + 1, Len(p)) /\ Above(p, x) \in Seq(Item)
           /\ Len(Above(p, x)) = Len(p) - n /\ Numbered(Above(p, x), b + n)
           /\ ToSet(Above(p, x)) = {it \in ToSet(p) : it.id > x}
           /\ x <= b => n = 0
           /\ x >= b + Len(p) => n = Len(p)
           /\ x \in b .. b + Len(p) => n = x - b
      BY <3>1, AboveNumbered
    <3> QED BY <3>1, <3>2
  <2> QED BY <2>1, <2>2
<1>7. PICK w \in Nat : w = m - n
  OBVIOUS
<1>8. PICK g \in Nat : g = (IF w < size THEN w ELSE size) /\ g <= w /\ g <= size
                       /\ (g < size => g = w) /\ (w > 0 => g > 0)
  BY <1>3
<1>9. b + n \in Nat /\ (w > 0 => b + n = r) /\ r + w >= s + l
      /\ (w > 0 => r + w = s + l) /\ (s + l > r => w > 0)
  <2>1. b + n \in Nat
    BY <1>3
  <2>2. CASE x <= b
    <3>1. n = 0 /\ r = b
      BY <1>3, <1>6, <2>2 DEF Larger
    <3> QED BY <1>3, <1>5, <1>7, <3>1
  <2>3. CASE x >= b + m
    <3>1. n = m /\ r = x
      <4>1. CASE b < x
        BY <1>3, <1>6, <2>3, <4>1 DEF Larger
      <4>2. CASE ~(b < x)
        <5>1. x = b
          BY <1>3, <2>3, <4>2
        <5> QED BY <1>3, <1>6, <2>3, <5>1 DEF Larger
      <4> QED BY <4>1, <4>2
    <3> QED BY <1>3, <1>5, <1>7, <2>3, <3>1
  <2>4. CASE b < x /\ x < b + m
    <3>1. n = x - (b) /\ r = x
      BY <1>3, <1>6, <2>4 DEF Larger
    <3> QED BY <1>3, <1>5, <1>7, <2>4, <3>1
  <2> QED BY <1>3, <2>1, <2>2, <2>3, <2>4
<1>10. got = SubSeq(rest, 0 + 1, g)
  BY <1>c, <1>6, <1>7, <1>8
<1>11. /\ got \in Seq(Item) /\ Len(got) = g /\ Numbered(got, b + n)
       /\ ToSet(got) \subseteq ToSet(rest)
  <2>1. PICK e \in Nat : e = b + n /\ e + 0 = e /\ g - 0 = g
    BY <1>9
  <2>2. rest \in Seq(Item) /\ Numbered(rest, e) /\ 0 \in Nat /\ 0 <= g /\ g <= Len(rest)
    <3>1. rest \in Seq(Item) /\ Numbered(rest, b + n) /\ Len(rest) = w
      BY <1>6, <1>7
    <3>2. g \in Nat /\ 0 <= g /\ g <= w
      BY <1>8
    <3> QED BY <2>1, <3>1, <3>2
  <2>3. /\ Numbered(SubSeq(rest, 0 + 1, g), e + 0) /\ SubSeq(rest, 0 + 1, g) \in Seq(Item)
        /\ Len(SubSeq(rest, 0 + 1, g)) = g - 0
        /\ ToSet(SubSeq(rest, 0 + 1, g)) \subseteq ToSet(rest)
    BY <2>2, NumberedPart
  <2> QED BY <1>10, <2>1, <2>3
<1>12. Numbered(got, r)
  <2>1. CASE w > 0
    BY <1>9, <1>11, <2>1
  <2>2. CASE w = 0
    BY <1>8, <1>11, <2>2 DEF Numbered
  <2> QED BY <2>1, <2>2
<1>13. got # <<>> <=> g > 0
  BY <1>11, SetOfSeq
<1>14. /\ g < size => r + g >= s + l
       /\ g > 0 => r + g <= s + l
       /\ s + l > r => g > 0
  BY <1>3, <1>8, <1>9
<1> QED BY <1>a, <1>c, <1>1, <1>4, <1>6, <1>8, <1>11, <1>12, <1>13, <1>14

(* What the reader finds in memory and in the file.                          *)
LEMMA ReaderFacts ==
    ASSUME PermInv, up, NEW a \in Nat, Position(a), table_client = <<>>
    PROVE  /\ InDiskTable \in Seq(Item) /\ Len(InDiskTable) <= size
           /\ ToSet(InDiskTable) \subseteq Held
           /\ InDiskTable # <<>> => /\ Numbered(InDiskTable, lastIdOut)
                                    /\ lastIdOut + Len(InDiskTable) = currentId
                                    /\ lastIdOut = a + Len(input_queue)
           /\ lastIdOut >= Larger(a, lastIdOnDisk) /\ lastIdOut < currentId => InDiskTable # <<>>
           /\ InFile \in Seq(Item) /\ Len(InFile) <= size
           /\ ToSet(InFile) \subseteq Held
           /\ \E r \in Nat :
                 /\ Numbered(InFile, r) /\ r + Len(InFile) >= lastIdOut
                 /\ disk.current.items # <<>> =>
                       r = IF lastIdOut = a + Len(input_queue) THEN lastIdOut ELSE a
                 /\ InFile # <<>> => disk.current.items # <<>> /\ r + Len(InFile) <= lastIdOnDisk
                 /\ Len(InFile) < size /\ disk.current.items # <<>> => r + Len(InFile) >= lastIdOnDisk
                 /\ lastIdOnDisk > r /\ disk.current.items # <<>> => InFile # <<>>
<1> DEFINE F == disk.current.items
           T == table_disk
<1>1. /\ currentId \in Nat /\ lastIdOnDisk \in 0 .. currentId /\ lastIdOut \in 0 .. currentId
      /\ T \in Seq(Item) /\ Len(T) <= size /\ F \in Seq(Item) /\ lastOutOffset \in 0 .. Len(F)
      /\ input_queue \in Seq(Item) /\ size \in Nat \ {0}
  BY LiveFacts, PermanentFifoAssumption DEF PermInv, TypeOK
<1>2. PICK c \in Nat, D \in Nat, R \in Nat :
         /\ c = currentId /\ D = lastIdOnDisk /\ R = lastIdOut
         /\ D <= c /\ R <= c
  BY <1>1
<1>3. PICK f \in Nat, t \in Nat, o \in Nat, l \in Nat :
         /\ f = Len(F) /\ t = Len(T) /\ o = lastOutOffset /\ l = Len(input_queue)
         /\ o <= f /\ t <= size
  <2>1. /\ Len(F) \in Nat /\ Len(T) \in Nat /\ Len(input_queue) \in Nat
        /\ lastOutOffset \in Nat /\ lastOutOffset <= Len(F) /\ Len(T) <= size
    BY <1>1
  <2> QED BY <2>1
<1>4. PICK p \in Nat : p = Larger(a, D) /\ p + t = c /\ p = c - t /\ p >= a /\ p >= D
  <2>1. a <= c /\ t = c - Larger(a, D)
    BY <1>2, <1>3 DEF Position, Saving
  <2> QED BY <1>2, <2>1 DEF Larger
<1>5. Numbered(T, p)
  BY <1>2, <1>3, <1>4 DEF Position, Saving
<1>6. PICK s \in Nat :
         /\ s = D - f /\ s + f = D /\ Numbered(F, s)
         /\ F # <<>> => D > a /\ s <= a
         /\ o > 0 => s + o <= R
  <2>1. /\ f <= D /\ Numbered(F, D - f)
        /\ F # <<>> => D > a
        /\ D > a => D - f <= a
        /\ o > 0 => D - f + o <= R + Len(table_client)
    BY <1>2, <1>3 DEF Position, Saved
  <2>2. Len(table_client) = 0
    BY SetOfEmpty
  <2> QED BY <1>2, <2>1, <2>2
<1>7. \/ R = a + l
      \/ R < a /\ o = 0 /\ (F # <<>> => s = a)
  BY <1>2, <1>3, <1>6 DEF Position, Reading
<1>8. ToSet(F) \subseteq Held /\ ToSet(T) \subseteq Held
  BY DEF Held
<1>9. /\ InDiskTable \in Seq(Item) /\ Len(InDiskTable) <= size /\ ToSet(InDiskTable) \subseteq Held
      /\ InDiskTable # <<>> => Numbered(InDiskTable, R) /\ R + Len(InDiskTable) = c /\ R = a + l
      /\ R >= p /\ R < c => InDiskTable # <<>>
  <2>1. PICK rest : rest = Above(T, R)
    OBVIOUS
  <2>2. \E n \in 0 .. Len(T) :
           /\ Above(T, R) = SubSeq(T, n + 1, Len(T)) /\ Above(T, R) \in Seq(Item)
           /\ Len(Above(T, R)) = Len(T) - n /\ Numbered(Above(T, R), p + n)
           /\ ToSet(Above(T, R)) = {it \in ToSet(T) : it.id > R}
           /\ R <= p => n = 0
           /\ R >= p + Len(T) => n = Len(T)
           /\ R \in p .. p + Len(T) => n = R - p
    BY <1>1, <1>5, AboveNumbered
  <2>3. PICK n \in 0 .. t :
           /\ rest \in Seq(Item) /\ Len(rest) = t - n /\ Numbered(rest, p + n)
           /\ ToSet(rest) \subseteq ToSet(T)
           /\ R \in p .. p + t => n = R - p
    BY <1>3, <2>1, <2>2
  <2>4. PICK e \in Nat : e = p + n /\ n \in Nat /\ e >= p
    OBVIOUS
  <2>5. PICK m \in Nat : m = Len(rest) /\ m = t - n /\ (rest = <<>> <=> m = 0) /\ e + m = c
    BY <1>4, <2>3, <2>4, SetOfSeq
  <2>6. rest # <<>> => rest[1].id = e + 1
    <3>1. rest # <<>> => 1 \in 1 .. m
      BY <2>5
    <3> QED BY <2>3, <2>4, <2>5, <3>1 DEF Numbered
  <2>7. InDiskTable = IF rest # <<>> /\ rest[1].id = R + 1 THEN rest ELSE <<>>
    BY <1>2, <2>1 DEF InDiskTable
  <2>8. R >= p /\ R < c => rest # <<>> /\ e = R
    BY <1>4, <2>3, <2>4, <2>5
  <2>9. rest # <<>> /\ e = R => Numbered(rest, R) /\ R + m = c /\ R = a + l
    BY <1>4, <1>7, <2>3, <2>4, <2>5
  <2>10. m <= size
    BY <1>1, <1>3, <2>4, <2>5
  <2>11. CASE rest # <<>> /\ rest[1].id = R + 1
    <3>1. InDiskTable = rest /\ e = R
      BY <2>4, <2>6, <2>7, <2>11
    <3> QED BY <1>8, <2>3, <2>5, <2>9, <2>10, <2>11, <3>1
  <2>12. CASE ~(rest # <<>> /\ rest[1].id = R + 1)
    <3>1. InDiskTable = <<>> /\ ~(R >= p /\ R < c)
      BY <2>6, <2>7, <2>8, <2>12
    <3> QED BY <1>1, <3>1, SetOfEmpty
  <2> QED BY <2>11, <2>12
<1>10. PICK r \in Nat : r = Larger(R, s + o) /\ r >= R
  BY DEF Larger
<1>11. F # <<>> => r = IF R = a + l THEN R ELSE a
  BY <1>6, <1>7, <1>10 DEF Larger
<1>12. /\ InFile \in Seq(Item) /\ Len(InFile) <= size /\ Numbered(InFile, r)
       /\ ToSet(InFile) \subseteq ToSet(F)
       /\ Len(InFile) < size => r + Len(InFile) >= s + Len(F)
       /\ InFile # <<>> => r + Len(InFile) <= s + Len(F)
       /\ s + Len(F) > r => InFile # <<>>
  <2>1. PICK q \in Seq(Item) : q = F /\ Numbered(q, s)
    BY <1>1, <1>6
  <2>2. InFile = Load(q, o, R)
    BY <1>2, <1>3, <2>1 DEF InFile, Load
  <2>3. o \in 0 .. Len(q)
    BY <1>1, <1>3, <2>1
  <2> QED BY <1>10, <2>1, <2>2, <2>3, LoadFacts
<1>13. InFile # <<>> => F # <<>>
  <2>1. InFile # <<>> => ToSet(InFile) # {}
    <3>1. PICK got \in Seq(Item) : got = InFile
      BY <1>12
    <3>2. got # <<>> => 1 \in 1 .. Len(got)
      OBVIOUS
    <3>3. \A k \in 1 .. Len(got) : got[k] \in ToSet(got)
      BY SetOfSeq
    <3> QED BY <3>1, <3>2, <3>3
  <2> QED BY <1>12, <2>1, SetOfEmpty
<1>14. PICK g \in Nat : g = Len(InFile)
  BY <1>12
<1>15. /\ r + g >= R
       /\ InFile # <<>> => r + g <= D
       /\ g < size => r + g >= D
       /\ D > r => InFile # <<>>
  <2>1. f = Len(F) /\ s + f = D
    BY <1>3, <1>6
  <2>2. /\ g < size => r + g >= s + f
        /\ InFile # <<>> => r + g <= s + f
        /\ s + f > r => InFile # <<>>
    BY <1>12, <1>14, <2>1
  <2> QED BY <1>10, <2>1, <2>2
<1> QED BY <1>1, <1>2, <1>3, <1>4, <1>8, <1>9, <1>11, <1>12, <1>13, <1>14, <1>15

(* The properties that the invariant implies.                                *)
LEMMA InvKeeps == PermInv => NothingDropped /\ AckedIsFinal
<1> SUFFICES ASSUME PermInv PROVE NothingDropped /\ AckedIsFinal
  OBVIOUS
<1>1. SourceOf(disk) \in File /\ GoodFile(SourceOf(disk)) /\ table_disk \in Seq(Item)
  BY DEF PermInv, GoodDisk, TypeOK, Disk, SourceOf
<1>2. Messages(OnDisk) = MessagesOf(LiveIn(SourceOf(disk)))
  <2>1. Messages(Unacknowledged(SourceOf(disk))) = MessagesOf(LiveIn(SourceOf(disk)))
    BY <1>1, UnacknowledgedFacts DEF GoodFile
  <2> QED BY <2>1 DEF OnDisk, SourceOf
<1>3. Messages(table_disk) = MessagesOf(ToSet(table_disk))
  <2>1. ToSet(table_disk) = {table_disk[k] : k \in DOMAIN table_disk}
    BY <1>1, SetOfSeq
  <2> QED BY <2>1 DEF Messages, MessagesOf
<1>4. MessagesOf(Live) = Messages(OnDisk) \cup Messages(table_disk)
  BY <1>2, <1>3 DEF Live, MessagesOf
<1> QED BY <1>4 DEF PermInv, LiveInv, NothingDropped, AckedIsFinal

(* When no death leaves a file truncated and not marked, what is read is in  *)
(* order and complete, and what is not read is found.                        *)
LEMMA InvReads == PermInv => ReadsAreComplete
<1> SUFFICES ASSUME PermInv, up PROVE ReadsAreComplete
  BY DEF ReadsAreComplete, ReadInOrder, UnreadIsFound, PermInv
<1>1. PICK a \in Nat : Position(a)
  BY DEF PermInv, UpInv
<1>2. /\ Live \subseteq Held /\ Held \subseteq Item /\ Agree(Held)
      /\ \A it \in Live : it.id \in a + 1 .. currentId
      /\ currentId \in Nat /\ lastIdOnDisk \in 0 .. currentId
      /\ input_queue \in Seq(Item) /\ ToSet(input_queue) \subseteq Held
  BY <1>1, LiveFacts DEF PermInv, UpInv, TypeOK, Held
<1>3. PICK l \in Nat, R \in Nat, c \in Nat, D \in Nat :
         /\ l = Len(input_queue) /\ R = lastIdOut /\ c = currentId /\ D = lastIdOnDisk
         /\ D <= c /\ R <= c
  BY <1>2 DEF PermInv, TypeOK
<1>4. /\ Numbered(input_queue, a)
      /\ (input_queue = <<>> <=> l = 0)
      /\ \A k \in 1 .. l : input_queue[k] \in Held /\ input_queue[k].id = a + k
      /\ input_queue # <<>> => Last(input_queue) = input_queue[l] /\ l \in 1 .. l
  <2>1. Numbered(input_queue, a)
    BY <1>1 DEF Position, Reading
  <2>2. /\ (input_queue = <<>> <=> l = 0)
        /\ \A k \in 1 .. l : /\ input_queue[k] \in ToSet(input_queue)
                             /\ input_queue[k].id = a + k
        /\ input_queue # <<>> => Last(input_queue) = input_queue[l]
    BY <1>2, <1>3, <2>1, NumberedFacts
  <2>3. input_queue # <<>> => l \in 1 .. l
    BY <1>3, <2>2
  <2> QED BY <1>2, <2>1, <2>2, <2>3
<1>5. \A x, y \in Held : /\ x.id \in Nat /\ y.id \in Nat /\ x.msg \in Nat /\ y.msg \in Nat
                         /\ (x.id < y.id <=> x.msg < y.msg)
                         /\ (x.id = y.id <=> x.msg = y.msg)
  <2> SUFFICES ASSUME NEW x \in Held, NEW y \in Held
               PROVE /\ x.id \in Nat /\ y.id \in Nat /\ x.msg \in Nat /\ y.msg \in Nat
                     /\ (x.id < y.id <=> x.msg < y.msg)
                     /\ (x.id = y.id <=> x.msg = y.msg)
    OBVIOUS
  <2>1. x.id \in Nat /\ y.id \in Nat /\ x.msg \in Nat /\ y.msg \in Nat
    BY <1>2, PermanentFifoAssumption DEF Item, Msg
  <2>2. (x.id < y.id <=> x.msg < y.msg) /\ (y.id < x.id <=> y.msg < x.msg)
    BY <1>2 DEF Agree
  <2> QED BY <2>1, <2>2
<1>6. ASSUME NEW i \in 1 .. l, NEW j \in 1 .. l, i < j
      PROVE  input_queue[i].msg < input_queue[j].msg
  BY <1>4, <1>5, <1>6
<1>7. ASSUME NEW m \in Pending
      PROVE  \E it \in Held : it.msg = m /\ it.id \in a + 1 .. c
  BY <1>2, <1>3 DEF PermInv, LiveInv, MessagesOf
<1>8. ASSUME NEW i \in a + 1 .. c, i <= a + l
      PROVE  i - a \in 1 .. l /\ a + (i - a) = i
  BY <1>8
<1>9. Messages(input_queue) = {input_queue[k].msg : k \in 1 .. l}
  BY <1>2, <1>3 DEF Messages
<1>10. ASSUME NEW it \in Held, it.id \in a + 1 .. c, it.id <= a + l
       PROVE  it.msg \in Messages(input_queue)
  <2>1. PICK k \in 1 .. l : a + k = it.id
    BY <1>8, <1>10
  <2>2. input_queue[k].msg = it.msg
    BY <1>4, <1>5, <2>1
  <2> QED BY <1>9, <2>2
<1>11. ReadInOrder
  <2>1. ASSUME input_queue # <<>>, NEW m \in Pending, m <= Last(input_queue).msg
        PROVE  m \in Messages(input_queue)
    <3>1. PICK it \in Held : it.msg = m /\ it.id \in a + 1 .. c
      BY <1>7
    <3>2. Last(input_queue) \in Held /\ Last(input_queue).id = a + l
      BY <1>4, <2>1
    <3>3. ~(a + l < it.id)
      BY <1>5, <2>1, <3>1, <3>2
    <3> QED BY <1>10, <3>1, <3>3
  <2>2. DOMAIN input_queue = 1 .. l
    BY <1>2, <1>3
  <2> QED BY <1>6, <2>1, <2>2 DEF ReadInOrder
<1>12. UnreadIsFound
  <2> SUFFICES ASSUME NEW m \in Pending, m \notin Messages(input_queue)
               PROVE  /\ R < c
                      /\ table_client # <<>> \/ InDiskTable # <<>> \/ InFile # <<>> \/ Hidden
    BY <1>3 DEF UnreadIsFound
  <2>1. PICK it \in Held : it.msg = m /\ it.id \in a + 1 .. c
    BY <1>7
  <2>2. PICK i \in Nat : i = it.id /\ i > a + l /\ i <= c
    BY <1>10, <2>1
  <2>3. \/ R = a + l
        \/ R < a /\ R = 0 /\ (~truncated => D > a)
    BY <1>1, <1>3 DEF Position, Reading
  <2>4. R < c
    BY <1>3, <2>2, <2>3
  <2>5. ASSUME table_client = <<>>, InDiskTable = <<>>, ~Hidden PROVE InFile # <<>>
    <3>1. R < Larger(a, D)
      <4>1. ~(R >= Larger(a, D))
        BY <1>1, <1>3, <2>4, <2>5, ReaderFacts
      <4>2. Larger(a, D) \in Nat
        BY DEF Larger
      <4> QED BY <4>1, <4>2
    <3>2. D > a /\ D > R
      <4>1. CASE R = a + l \/ ~truncated
        BY <2>3, <3>1, <4>1 DEF Larger
      <4>2. CASE R < a /\ R = 0 /\ truncated
        <5>1. table_disk = <<>>
          BY <1>3, <2>5, <4>2 DEF Hidden
        <5>2. Len(table_disk) = 0
          BY <5>1, SetOfEmpty
        <5>3. Len(table_disk) = c - Larger(a, D)
          BY <1>1, <1>3 DEF Position, Saving
        <5> QED BY <2>2, <4>2, <5>2, <5>3 DEF Larger
      <4> QED BY <2>3, <4>1, <4>2
    <3>3. disk.current.items # <<>>
      <4>1. D - Len(disk.current.items) <= a
        BY <1>1, <1>3, <3>2 DEF Position, Saved
      <4>2. Len(<<>>) = 0
        BY SetOfEmpty
      <4> QED BY <3>2, <4>1, <4>2
    <3>4. PICK r \in Nat : /\ r = IF R = a + l THEN R ELSE a
                           /\ D > r => InFile # <<>>
      <4>1. \E r \in Nat :
              /\ r = IF lastIdOut = a + Len(input_queue) THEN lastIdOut ELSE a
              /\ lastIdOnDisk > r => InFile # <<>>
        BY <1>1, <2>5, <3>3, ReaderFacts
      <4> QED BY <1>3, <4>1
    <3> QED BY <3>2, <3>4
  <2> QED BY <2>4, <2>5
<1> QED BY <1>11, <1>12 DEF ReadsAreComplete, PermInv

(* In an order of items that is one with the order of their messages.        *)
LEMMA AgreeFacts ==
    ASSUME NEW H, H \subseteq Item, Agree(H)
    PROVE  \A x, y \in H : /\ x.id \in Nat /\ y.id \in Nat /\ x.msg \in Nat /\ y.msg \in Nat
                           /\ (x.id < y.id <=> x.msg < y.msg)
                           /\ (x.id = y.id <=> x.msg = y.msg)
                           /\ (x.id = y.id => x = y)
<1> SUFFICES ASSUME NEW x \in H, NEW y \in H
             PROVE /\ x.id \in Nat /\ y.id \in Nat /\ x.msg \in Nat /\ y.msg \in Nat
                   /\ (x.id < y.id <=> x.msg < y.msg)
                   /\ (x.id = y.id <=> x.msg = y.msg)
                   /\ (x.id = y.id => x = y)
  OBVIOUS
<1>1. x \in Item /\ y \in Item
  OBVIOUS
<1>2. x.id \in Nat /\ y.id \in Nat /\ x.msg \in Nat /\ y.msg \in Nat
  BY <1>1, PermanentFifoAssumption DEF Item, Msg
<1>3. (x.id < y.id <=> x.msg < y.msg) /\ (y.id < x.id <=> y.msg < x.msg)
  BY DEF Agree
<1>4. x.id = y.id <=> x.msg = y.msg
  BY <1>2, <1>3
<1>5. x.id = y.id => x = y
  BY <1>1, <1>4 DEF Item
<1> QED BY <1>2, <1>3, <1>4, <1>5

(* The files when the first n items of the table are saved.                  *)
LEMMA SaveFacts ==
    ASSUME PermInv, up, NEW a \in Nat, Position(a), NEW n \in 0 .. Len(table_disk),
           NEW S, S = SavedDisk(n)
    PROVE  /\ GoodDisk(S) /\ SourceOf(S) = S.current /\ S.current.exists
           /\ S.current.lastAckId = disk.current.lastAckId
           /\ S.current.items \in Seq(Item)
           /\ Len(S.current.items) = Len(disk.current.items) + n
           /\ Len(disk.current.items) <= Larger(a, lastIdOnDisk)
           /\ Numbered(S.current.items, Larger(a, lastIdOnDisk) - Len(disk.current.items))
           /\ ToSet(S.current.items) =
                ToSet(disk.current.items) \cup ToSet(SubSeq(table_disk, 1, n))
           /\ LiveIn(S.current) = LiveIn(disk.current) \cup ToSet(SubSeq(table_disk, 1, n))
           /\ ToSet(SubSeq(table_disk, 1, n)) \subseteq ToSet(table_disk)
           /\ n = Len(table_disk) => ToSet(SubSeq(table_disk, 1, n)) = ToSet(table_disk)
           /\ S.current.items = <<>> => disk.current.items = <<>> /\ n = 0
<1>1. /\ disk \in Disk /\ disk.current \in File /\ GoodFile(disk.current) /\ disk.current.exists
      /\ table_disk \in Seq(Item) /\ lastIdOnDisk \in Nat
  <2>1. /\ disk \in Disk /\ disk.current \in File /\ SourceOf(disk) = disk.current
        /\ table_disk \in Seq(Item) /\ lastIdOnDisk \in 0 .. currentId /\ currentId \in Nat
    BY LiveFacts
  <2>2. GoodFile(SourceOf(disk))
    BY DEF PermInv, GoodDisk
  <2>3. disk.current.exists
    BY DEF Position, Saved
  <2> QED BY <2>1, <2>2, <2>3
<1>2. PICK T \in Seq(Item), F \in Seq(Item) : T = table_disk /\ F = disk.current.items
  BY <1>1 DEF File
<1>3. PICK f \in Nat, t \in Nat, D \in Nat :
         f = Len(F) /\ t = Len(T) /\ D = lastIdOnDisk /\ n \in Nat /\ n <= t
  BY <1>1, <1>2
<1>4. PICK p \in Nat : p = Larger(a, D) /\ Numbered(T, p)
  <2>1. currentId \in Nat /\ a <= currentId /\ D <= currentId
    BY <1>3, LiveFacts
  <2>2. t = currentId - Larger(a, D) /\ Numbered(T, currentId - t)
    BY <1>2, <1>3 DEF Position, Saving
  <2>3. Larger(a, D) \in Nat /\ currentId - t = Larger(a, D)
    BY <2>1, <2>2 DEF Larger
  <2> QED BY <2>2, <2>3
<1>5. PICK s \in Nat : s = p - f /\ s + f = p /\ Numbered(F, s)
  <2>1. /\ f <= D /\ Numbered(F, D - f)
        /\ F # <<>> => D > a
    BY <1>2, <1>3 DEF Position, Saved
  <2>2. CASE F = <<>>
    <3>1. f = 0
      BY <1>3, <2>2, SetOfEmpty
    <3>2. Numbered(F, p)
      BY <1>3, <3>1 DEF Numbered
    <3> QED BY <3>1, <3>2
  <2>3. CASE F # <<>>
    <3>1. p = D
      BY <1>4, <2>1, <2>3 DEF Larger
    <3> QED BY <2>1, <3>1
  <2> QED BY <2>2, <2>3
<1>6. PICK P \in Seq(Item) :
         P = SubSeq(T, 1, n) /\ Len(P) = n /\ Numbered(P, p) /\ ToSet(P) \subseteq ToSet(T)
  <2>1. 0 \in Nat /\ 0 <= n /\ n <= Len(T) /\ 0 + 1 = 1 /\ n - 0 = n /\ p + 0 = p
    BY <1>3
  <2>2. /\ Numbered(SubSeq(T, 0 + 1, n), p + 0) /\ SubSeq(T, 0 + 1, n) \in Seq(Item)
        /\ Len(SubSeq(T, 0 + 1, n)) = n - 0
        /\ ToSet(SubSeq(T, 0 + 1, n)) \subseteq ToSet(T)
    BY <1>3, <1>4, <2>1, NumberedPart
  <2> QED BY <2>1, <2>2
<1>7. PICK G \in Seq(Item) :
         /\ G = F \o P /\ Numbered(G, s) /\ Len(G) = f + n
         /\ ToSet(G) = ToSet(F) \cup ToSet(P)
  <2>1. Numbered(P, s + Len(F))
    BY <1>3, <1>5, <1>6
  <2>2. /\ Numbered(F \o P, s) /\ F \o P \in Seq(Item)
        /\ Len(F \o P) = Len(F) + Len(P) /\ ToSet(F \o P) = ToSet(F) \cup ToSet(P)
    BY <1>5, <2>1, NumberedConcat
  <2> QED BY <1>3, <1>6, <2>2
<1>8. /\ S.current = [disk.current EXCEPT !.items = G]
      /\ S.old = disk.old /\ S.new = disk.new /\ S \in Disk
      /\ S.current \in File /\ S.current.items = G /\ S.current.exists
      /\ S.current.lastAckId = disk.current.lastAckId
      /\ S.current.currentId = disk.current.currentId
  <2>1. S = [disk EXCEPT !.current = [disk.current EXCEPT !.items = G]]
    BY <1>1, <1>2, <1>6, <1>7 DEF SavedDisk, Disk
  <2>2. [disk.current EXCEPT !.items = G] \in File
    BY <1>1 DEF File
  <2> QED BY <1>1, <2>1, <2>2 DEF Disk, File
<1>9. n = Len(T) => P = T
  BY <1>6
<1>10. G = <<>> => F = <<>> /\ n = 0
  <2>1. G = <<>> => f + n = 0
    BY <1>7, SetOfEmpty
  <2> QED BY <1>3, <2>1
<1>11. /\ ToSet(G) \subseteq Held /\ Held \subseteq Item /\ Agree(Held)
       /\ \A it \in ToSet(T) : it.id > a
       /\ disk.current.lastAckId <= a /\ disk.current.lastAckId \in Nat
  <2>1. /\ Held \subseteq Item /\ Agree(Held) /\ \A it \in ToSet(T) : it.id > a
        /\ disk.current.lastAckId <= a /\ disk.current.lastAckId \in Nat
    BY <1>1, <1>2, LiveFacts DEF PermInv, UpInv, Position, Saved, File
  <2> QED BY <1>2, <1>6, <1>7, <2>1 DEF Held
<1>12. GoodDisk(S)
  <2>1. SourceOf(S) = S.current
    BY <1>8 DEF SourceOf
  <2>2. Agree(ToSet(G))
    BY <1>11 DEF Agree
  <2>3. GoodFile(S.current)
    <3>1. (~truncated /\ S.current.lastAckId = 0 /\ G = <<>>) => S.current.currentId = 0
      BY <1>1, <1>2, <1>8, <1>10 DEF GoodFile
    <3> QED BY <1>7, <1>8, <2>2, <3>1 DEF GoodFile
  <2> QED BY <1>8, <2>1, <2>3 DEF GoodDisk
<1>13. LiveIn(S.current) = LiveIn(disk.current) \cup ToSet(P)
  <2>1. \A it \in ToSet(P) : it.id > disk.current.lastAckId
    <3>1. \A it \in ToSet(P) : it.id \in Nat /\ it.id > a
      BY <1>2, <1>6, <1>7, <1>11 DEF Item
    <3> QED BY <1>11, <3>1
  <2> QED BY <1>2, <1>7, <1>8, <2>1 DEF LiveIn
<1>14. f <= Larger(a, D) /\ Larger(a, D) - f = s
  BY <1>4, <1>5
<1>15. SourceOf(S) = S.current
  BY <1>8 DEF SourceOf
<1>16. S.current.items = G /\ S.current.items = <<>> => F = <<>> /\ n = 0
  BY <1>8, <1>10
<1> QED BY <1>2, <1>3, <1>6, <1>7, <1>8, <1>9, <1>12, <1>13, <1>14, <1>15, <1>16

(***************************************************************************)
(* The reader.                                                             *)
(***************************************************************************)
(* A read from any of the three places: the reader goes on by the first of   *)
(* consecutive items, and the others go to the table of the reader.          *)
LEMMA ReturnFacts ==
    ASSUME PermInv, up, NEW a \in Nat, Position(a),
           UNCHANGED <<disk, up, table_disk, currentId, lastIdOnDisk, ackOnDisk, written, acked,
                       lost, deaths, truncated>>,
           Len(input_queue) < size, NEW r \in Nat, r = a + Len(input_queue),
           NEW items \in Seq(Item), items # <<>>, Len(items) <= size,
           ToSet(items) \subseteq Held, Numbered(items, r), r + Len(items) <= currentId,
           ReturnFirst(items),
           nextIdInClientTable' \in 0 .. currentId + 1,
           nextIdInClientTable' = currentId + 1 => r + Len(items) = currentId,
           lastOutOffset' \in 0 .. Len(disk.current.items),
           lastOutOffset' > 0 => lastIdOnDisk - Len(disk.current.items) + lastOutOffset'
                                   <= r + Len(items)
    PROVE  PermInv'
<1>1. TypeOK /\ currentId \in Nat /\ input_queue \in Seq(Item) /\ Held \subseteq Item
      /\ Numbered(input_queue, a) /\ size \in Nat
  BY LiveFacts, PermanentFifoAssumption DEF PermInv, TypeOK, Position, Reading
<1>2. PICK l \in Nat, m \in Nat, c \in Nat :
         l = Len(input_queue) /\ m = Len(items) - 1 /\ c = currentId /\ Len(items) = m + 1
  <2>1. PICK n \in Nat : n = Len(items) /\ n # 0
    BY SetOfSeq
  <2>2. n - 1 \in Nat /\ n = (n - 1) + 1 /\ Len(input_queue) \in Nat
    BY <1>1, <2>1
  <2> QED BY <1>1, <2>1, <2>2
<1>3. /\ r = a + l /\ r + (m + 1) <= c /\ m + 1 <= size /\ l + 1 <= size
  BY <1>1, <1>2
<1>4. PICK x \in Item : x = items[1] /\ x.id = r + 1
  BY NumberedTail
<1>5. PICK tc \in Seq(Item) :
         /\ tc = Tail(items) /\ Len(tc) = m /\ Numbered(tc, r + 1)
         /\ ToSet(items) = {x} \cup ToSet(tc)
  BY <1>2, <1>4, NumberedTail
<1>6. PICK iq \in Seq(Item) :
         /\ iq = Append(input_queue, x) /\ Len(iq) = l + 1 /\ Numbered(iq, a)
         /\ ToSet(iq) = ToSet(input_queue) \cup {x}
  <2>1. x.id = a + Len(input_queue) + 1
    BY <1>2, <1>4
  <2> QED BY <1>1, <1>2, <2>1, NumberedAppend
<1>7. lastIdOut' = r + 1 /\ input_queue' = iq /\ table_client' = tc
  BY <1>4, <1>5, <1>6 DEF ReturnFirst
<1>8. TypeOK'
  <2>1. r + 1 \in 0 .. c /\ Len(tc) <= size /\ Len(iq) <= size
    BY <1>1, <1>2, <1>3, <1>5, <1>6
  <2> QED BY <1>1, <1>2, <1>7, <2>1 DEF TypeOK
<1>9. Reading(a)'
  <2>1. r + 1 = a + (l + 1) /\ r + 1 + m <= c /\ r + 1 + m = r + (m + 1)
    BY <1>2, <1>3
  <2>2. lastIdOut' = a + Len(input_queue')
    BY <1>6, <1>7, <2>1
  <2>3. Numbered(iq, a) /\ Numbered(tc, r + 1)
    BY <1>5, <1>6
  <2>4. lastIdOut' + Len(table_client') <= currentId'
    BY <1>2, <1>5, <1>7, <2>1
  <2>5. nextIdInClientTable' = currentId' + 1 => lastIdOut' + Len(table_client') = currentId'
    BY <1>2, <1>5, <1>7, <2>1
  <2> QED BY <1>7, <2>2, <2>3, <2>4, <2>5 DEF Reading, Numbered
<1>10. Saving(a)'
  BY DEF Position, Saving, Numbered
<1>11. Saved(a)'
  <2>1. r + 1 + m = r + (m + 1)
    BY <1>2
  <2>2. lastOutOffset' > 0 => lastIdOnDisk' - Len(disk'.current.items) + lastOutOffset'
                                <= lastIdOut' + Len(table_client')
    BY <1>2, <1>5, <1>7, <2>1
  <2> QED BY <2>2 DEF Position, Saved, Numbered
<1>12. Agree(Held)' /\ up'
  <2>1. Held' = ToSet(disk.current.items) \cup ToSet(table_disk) \cup ToSet(tc) \cup ToSet(iq)
    BY <1>7 DEF Held
  <2>2. Held' \subseteq Held
    BY <1>5, <1>6, <2>1 DEF Held
  <2>3. Agree(Held)
    BY DEF PermInv, UpInv
  <2>4. Agree(Held')
    BY <2>2, <2>3 DEF Agree
  <2> QED BY <2>4 DEF Agree
<1>13. GoodDisk(disk)' /\ LiveInv'
  <2>1. GoodDisk(disk) /\ LiveInv
    BY DEF PermInv
  <2>2. GoodDisk(disk)'
    BY <2>1 DEF GoodDisk, Disk, File, SourceOf, GoodFile, Numbered, Agree
  <2>3. Pending' = Pending /\ Live' = Live
    BY DEF Pending, Live, LiveIn, SourceOf
  <2> QED BY <2>1, <2>2, <2>3 DEF LiveInv, MessagesOf, SourceOf
<1>14. UpInv' /\ DownInv'
  <2>1. Position(a)'
    BY <1>9, <1>10, <1>11 DEF Position
  <2>2. \E b \in Nat : Position(b)'
    BY <2>1
  <2> QED BY <1>12, <2>2 DEF UpInv, DownInv
<1> QED BY <1>8, <1>13, <1>14 DEF PermInv

(* permFIFO_read().                                                          *)
LEMMA ReadClientKeeps == PermInv /\ ReadClient => PermInv'
<1> SUFFICES ASSUME PermInv, ReadClient PROVE PermInv'
  OBVIOUS
<1>1. PICK a \in Nat : Position(a)
  BY DEF PermInv, UpInv, ReadClient, Polls
<1>2. /\ up /\ table_client \in Seq(Item) /\ table_client # <<>> /\ Len(table_client) <= size
      /\ Len(input_queue) < size /\ ReturnFirst(table_client)
      /\ currentId \in Nat /\ lastIdOut \in Nat /\ lastIdOnDisk \in Nat
      /\ lastOutOffset \in 0 .. Len(disk.current.items)
      /\ nextIdInClientTable \in 0 .. currentId + 1
  BY DEF PermInv, TypeOK, ReadClient, Polls
<1>3. PICK r \in Nat : /\ r = lastIdOut /\ r = a + Len(input_queue)
                       /\ Numbered(table_client, r) /\ r + Len(table_client) <= currentId
                       /\ nextIdInClientTable = currentId + 1 => r + Len(table_client) = currentId
  BY <1>1, <1>2 DEF Position, Reading
<1>4. UNCHANGED <<disk, up, table_disk, currentId, lastOutOffset, nextIdInClientTable,
                  lastIdOnDisk, ackOnDisk, written, acked, lost, deaths, truncated>>
  BY DEF ReadClient
<1>5. lastOutOffset > 0 => lastIdOnDisk - Len(disk.current.items) + lastOutOffset
                             <= r + Len(table_client)
  BY <1>1, <1>3 DEF Position, Saved
<1>6. ToSet(table_client) \subseteq Held
  BY DEF Held
<1> QED BY <1>1, <1>2, <1>3, <1>4, <1>5, <1>6, ReturnFacts

(* permFIFO_read() from the items not saved yet.                             *)
LEMMA ReadDiskTableKeeps == PermInv /\ ReadDiskTable => PermInv'
<1> SUFFICES ASSUME PermInv, ReadDiskTable PROVE PermInv'
  OBVIOUS
<1>1. PICK a \in Nat : Position(a)
  BY DEF PermInv, UpInv, ReadDiskTable, Polls
<1>2. PICK items : items = InDiskTable
  OBVIOUS
<1>3. /\ up /\ table_client = <<>> /\ items # <<>> /\ Len(input_queue) < size /\ ReturnFirst(items)
      /\ nextIdInClientTable' = Last(items).id + 1
      /\ UNCHANGED <<disk, up, table_disk, currentId, lastOutOffset, lastIdOnDisk, ackOnDisk,
                     written, acked, lost, deaths, truncated>>
  BY <1>2 DEF ReadDiskTable, Polls
<1>4. /\ currentId \in Nat /\ lastIdOut \in Nat /\ lastIdOnDisk \in 0 .. currentId
      /\ lastOutOffset \in 0 .. Len(disk.current.items)
  BY DEF PermInv, TypeOK
<1>5. PICK r \in Nat : /\ r = lastIdOut /\ r = a + Len(input_queue)
                       /\ items \in Seq(Item) /\ Len(items) <= size /\ ToSet(items) \subseteq Held
                       /\ Numbered(items, r) /\ r + Len(items) = currentId
  BY <1>1, <1>2, <1>3, <1>4, ReaderFacts
<1>6. Last(items).id = r + Len(items)
  BY <1>3, <1>5, NumberedFacts
<1>7. nextIdInClientTable' = currentId + 1
  BY <1>3, <1>5, <1>6
<1>8. lastOutOffset > 0 => lastIdOnDisk - Len(disk.current.items) + lastOutOffset
                             <= r + Len(items)
  <2>1. PICK f \in Nat : f = Len(disk.current.items)
    BY <1>1, <1>3, LiveFacts
  <2>2. PICK o \in Nat, D \in Nat, c \in Nat :
           o = lastOutOffset /\ D = lastIdOnDisk /\ c = currentId /\ o <= f /\ D <= c
    BY <1>4, <2>1
  <2>3. D - f + o <= c
    BY <2>1, <2>2
  <2> QED BY <1>5, <2>1, <2>2, <2>3
<1>9. /\ nextIdInClientTable' \in 0 .. currentId + 1 /\ lastOutOffset' = lastOutOffset
      /\ lastOutOffset' \in 0 .. Len(disk.current.items)
      /\ r + Len(items) <= currentId
  BY <1>3, <1>4, <1>5, <1>7
<1>10. lastOutOffset' > 0 => lastIdOnDisk - Len(disk.current.items) + lastOutOffset'
                              <= r + Len(items)
  BY <1>8, <1>9
<1> QED BY <1>1, <1>3, <1>5, <1>9, <1>10, ReturnFacts

(* permFIFO_read() from the file, which may have nothing to read and move    *)
(* the offset.                                                               *)
LEMMA ReadFileKeeps == PermInv /\ ReadFile => PermInv'
<1> SUFFICES ASSUME PermInv, ReadFile PROVE PermInv'
  OBVIOUS
<1>1. PICK a \in Nat : Position(a)
  BY DEF PermInv, UpInv, ReadFile, Polls
<1>2. PICK items : items = InFile
  OBVIOUS
<1>3. /\ up /\ table_client = <<>> /\ Len(input_queue) < size
      /\ lastOutOffset' = IF Len(items) < size THEN Len(disk.current.items) ELSE lastOutOffset
      /\ items # <<>> => ReturnFirst(items) /\ nextIdInClientTable' = Last(items).id + 1
      /\ items = <<>> => UNCHANGED <<lastIdOut, input_queue, table_client, nextIdInClientTable>>
      /\ UNCHANGED <<disk, up, table_disk, currentId, lastIdOnDisk, ackOnDisk, written, acked,
                     lost, deaths, truncated>>
  BY <1>2 DEF ReadFile, Polls
<1>4. /\ currentId \in Nat /\ lastIdOut \in 0 .. currentId /\ lastIdOnDisk \in 0 .. currentId
      /\ lastOutOffset \in 0 .. Len(disk.current.items) /\ disk.current.items \in Seq(Item)
      /\ input_queue \in Seq(Item) /\ size \in Nat \ {0} /\ TypeOK
  BY <1>1, <1>3, LiveFacts, PermanentFifoAssumption DEF PermInv, TypeOK
<1>5. PICK F \in Seq(Item) : F = disk.current.items
  BY <1>4
<1>6. PICK f \in Nat, D \in Nat, R \in Nat, o \in Nat, c \in Nat, l \in Nat :
         /\ f = Len(F) /\ D = lastIdOnDisk /\ R = lastIdOut /\ o = lastOutOffset
         /\ c = currentId /\ l = Len(input_queue)
         /\ o <= f /\ D <= c /\ (F = <<>> <=> f = 0) /\ R <= c
  <2>1. Len(F) \in Nat /\ Len(input_queue) \in Nat /\ (F = <<>> <=> Len(F) = 0)
    BY <1>4, SetOfSeq
  <2>2. /\ lastOutOffset \in Nat /\ lastOutOffset <= Len(F)
        /\ lastIdOnDisk \in Nat /\ lastIdOnDisk <= currentId
        /\ lastIdOut \in Nat /\ lastIdOut <= currentId
    BY <1>4, <1>5, <2>1
  <2> QED BY <1>4, <2>1, <2>2
<1>7. items \in Seq(Item) /\ Len(items) <= size /\ ToSet(items) \subseteq Held
  BY <1>1, <1>2, <1>3, ReaderFacts
<1>8. PICK g \in Nat : g = Len(items) /\ (items = <<>> <=> g = 0) /\ g <= size
  BY <1>7, SetOfSeq
<1>9. PICK r \in Nat :
         /\ Numbered(items, r) /\ r + g >= R
         /\ F # <<>> => r = IF R = a + l THEN R ELSE a
         /\ items # <<>> => F # <<>> /\ r + g <= D
         /\ g < size /\ F # <<>> => r + g >= D
         /\ D > r /\ F # <<>> => items # <<>>
  BY <1>1, <1>2, <1>3, <1>5, <1>6, <1>8, ReaderFacts
<1>10. /\ Numbered(input_queue, a)
       /\ \/ R = a + l
          \/ R < a /\ R = 0 /\ input_queue = <<>> /\ o = 0 /\ (~truncated => D > a)
             /\ (F # <<>> => D - f = a)
  BY <1>1, <1>5, <1>6 DEF Position, Reading
<1>11. /\ f <= D
       /\ F # <<>> => D > a
       /\ o > 0 => D - f + o <= R
  <2>1. Len(table_client) = 0
    BY <1>3, SetOfEmpty
  <2>2. o > 0 => D - f + o <= R + Len(table_client)
    BY <1>1, <1>5, <1>6 DEF Position, Saved
  <2>3. f <= D /\ (F # <<>> => D > a)
    BY <1>1, <1>5, <1>6 DEF Position, Saved
  <2> QED BY <1>6, <2>1, <2>2, <2>3
<1>12. PICK p \in Nat : p = lastOutOffset' /\ p <= f /\ (g < size => p = f) /\ (g >= size => p = o)
  BY <1>3, <1>5, <1>6, <1>8, <1>4
<1>13. p > 0 => D - f + p <= r + g
  BY <1>6, <1>8, <1>9, <1>11, <1>12, <1>4
<1>14. CASE items # <<>>
  <2>1. r = a + l
    <3>1. R = a + l => r = a + l
      BY <1>9, <1>14
    <3>2. R < a /\ input_queue = <<>> => l = 0 /\ r = a
      BY <1>6, <1>9, <1>14, SetOfEmpty
    <3> QED BY <1>10, <3>1, <3>2
  <2>2. r + g <= c /\ r + g <= D
    BY <1>6, <1>8, <1>9, <1>14
  <2>3. Last(items).id = r + g
    BY <1>7, <1>8, <1>9, <1>14, NumberedFacts
  <2>4. nextIdInClientTable' = r + g + 1
    BY <1>3, <1>14, <2>3
  <2>5. nextIdInClientTable' \in 0 .. c + 1 /\ (nextIdInClientTable' = c + 1 => r + g = c)
    BY <1>6, <1>8, <2>2, <2>4
  <2>6. /\ r = a + Len(input_queue) /\ r + Len(items) <= currentId /\ Numbered(items, r)
        /\ nextIdInClientTable' \in 0 .. currentId + 1
        /\ nextIdInClientTable' = currentId + 1 => r + Len(items) = currentId
        /\ lastOutOffset' \in 0 .. Len(disk.current.items)
        /\ lastOutOffset' > 0 => lastIdOnDisk - Len(disk.current.items) + lastOutOffset'
                                   <= r + Len(items)
    BY <1>5, <1>6, <1>8, <1>9, <1>12, <1>13, <2>1, <2>2, <2>5
  <2> QED BY <1>1, <1>3, <1>7, <1>14, <2>6, ReturnFacts
<1>15. CASE items = <<>>
  <2>1. g = 0 /\ p = f /\ UNCHANGED <<lastIdOut, input_queue, table_client, nextIdInClientTable>>
    BY <1>3, <1>4, <1>8, <1>12, <1>15
  <2>2. F # <<>> => R = a + l /\ D <= R
    BY <1>6, <1>8, <1>9, <1>10, <1>11, <1>15
  <2>3. p > 0 => F # <<>> /\ D - f + p <= R
    BY <1>6, <1>11, <2>1, <2>2
  <2>4. TypeOK'
    <3>1. lastOutOffset' \in 0 .. Len(disk.current.items)
      BY <1>5, <1>6, <1>12
    <3> QED BY <1>3, <1>4, <2>1, <3>1 DEF TypeOK
  <2>5. Reading(a)'
    <3>1. Reading(a)
      BY <1>1 DEF Position
    <3>2. R < a => lastOutOffset' = 0
      BY <1>6, <1>12, <2>2, <2>3
    <3> QED BY <1>3, <1>6, <2>1, <3>1, <3>2 DEF Reading, Numbered
  <2>6. Saving(a)'
    BY <1>1, <1>3 DEF Position, Saving, Numbered
  <2>7. Saved(a)'
    <3>1. lastOutOffset' > 0 => lastIdOnDisk' - Len(disk'.current.items) + lastOutOffset'
                                  <= lastIdOut' + Len(table_client')
      <4>1. Len(table_client') = 0
        BY <1>3, <2>1, SetOfEmpty
      <4>2. R + 0 = R
        BY <1>6
      <4> QED BY <1>3, <1>5, <1>6, <1>12, <2>1, <2>3, <4>1, <4>2
    <3>2. Saved(a)
      BY <1>1 DEF Position
    <3> QED BY <1>3, <3>1, <3>2 DEF Saved, Numbered
  <2>8. \E b \in Nat : Position(b)'
    BY <2>5, <2>6, <2>7 DEF Position
  <2>9. Agree(Held)'
    <3>1. Held' = Held
      BY <1>3, <2>1 DEF Held
    <3> QED BY <1>3, <3>1 DEF PermInv, UpInv, Agree
  <2>10. GoodDisk(disk)' /\ LiveInv'
    <3>1. GoodDisk(disk) /\ LiveInv
      BY DEF PermInv
    <3>2. GoodDisk(disk)'
      BY <1>3, <3>1 DEF GoodDisk, Disk, File, SourceOf, GoodFile, Numbered, Agree
    <3>3. Pending' = Pending /\ Live' = Live
      BY <1>3 DEF Pending, Live, LiveIn, SourceOf
    <3> QED BY <1>3, <3>1, <3>2, <3>3 DEF LiveInv, MessagesOf, SourceOf
  <2> QED BY <1>3, <2>4, <2>8, <2>9, <2>10 DEF PermInv, UpInv, DownInv
<1> QED BY <1>14, <1>15

(***************************************************************************)
(* The writer.                                                             *)
(***************************************************************************)
(* After permFIFO_save_tabledisk() the file ends with the last item.         *)
LEMMA SaveAll ==
    ASSUME PermInv, up, NEW a \in Nat, Position(a), Save
    PROVE  /\ GoodDisk(disk') /\ SourceOf(disk') = disk'.current /\ disk'.current.exists
           /\ LiveIn(disk'.current) = Live
           /\ ToSet(disk'.current.items) = ToSet(disk.current.items) \cup ToSet(table_disk)
           /\ disk'.current.lastAckId = disk.current.lastAckId
           /\ ackOnDisk' \in BOOLEAN
           /\ lastIdOnDisk' \in Nat /\ lastIdOnDisk' <= currentId
           /\ Larger(a, lastIdOnDisk') = currentId /\ lastIdOnDisk <= lastIdOnDisk'
           /\ \E f \in Nat :
                 /\ f = Len(disk'.current.items) /\ f <= lastIdOnDisk'
                 /\ Numbered(disk'.current.items, lastIdOnDisk' - f)
                 /\ disk'.current.items # <<>> => lastIdOnDisk' > a /\ ackOnDisk'
                 /\ lastIdOnDisk' > a => lastIdOnDisk' - f <= a
                 /\ disk'.current.items # <<>> /\ disk.current.lastAckId < a => lastIdOnDisk' - f = a
                 /\ lastOutOffset > 0 => lastIdOnDisk' - f + lastOutOffset
                                           <= lastIdOut + Len(table_client)
                 /\ lastOutOffset <= f
                 /\ (disk.current.items # <<>> => lastIdOnDisk - Len(disk.current.items) = a)
                       => (disk'.current.items # <<>> => lastIdOnDisk' - f = a)
<1>1. /\ TypeOK /\ currentId \in Nat /\ lastIdOnDisk \in 0 .. currentId /\ a <= currentId
      /\ disk.current \in File /\ SourceOf(disk) = disk.current
      /\ lastOutOffset \in 0 .. Len(disk.current.items)
      /\ lastIdOut \in Nat /\ table_client \in Seq(Item)
  BY LiveFacts DEF PermInv, TypeOK
<1>2. PICK T \in Seq(Item), F \in Seq(Item) : T = table_disk /\ F = disk.current.items
  BY <1>1 DEF TypeOK, File
<1>3. PICK f \in Nat, n \in Nat, D \in Nat, c \in Nat, o \in Nat, R \in Nat :
         /\ f = Len(F) /\ n = Len(T) /\ D = lastIdOnDisk /\ c = currentId /\ o = lastOutOffset
         /\ R = lastIdOut + Len(table_client)
         /\ D <= c /\ a <= c /\ o <= f /\ (T = <<>> <=> n = 0) /\ (F = <<>> <=> f = 0)
  <2>1. /\ Len(F) \in Nat /\ Len(T) \in Nat /\ Len(table_client) \in Nat
        /\ (T = <<>> <=> Len(T) = 0) /\ (F = <<>> <=> Len(F) = 0)
    BY <1>1, SetOfSeq
  <2>2. /\ lastOutOffset \in Nat /\ lastOutOffset <= Len(F)
        /\ lastIdOnDisk \in Nat /\ lastIdOnDisk <= currentId
        /\ lastIdOut + Len(table_client) \in Nat
    BY <1>1, <1>2, <2>1
  <2> QED BY <1>1, <2>1, <2>2
<1>4. PICK p \in Nat : p = Larger(a, D) /\ p + n = c /\ p >= D /\ p >= a /\ (D > a => p = D)
                       /\ Numbered(T, p)
  <2>1. n = c - Larger(a, D) /\ Numbered(T, c - n)
    BY <1>2, <1>3 DEF Position, Saving
  <2>2. PICK p \in Nat : p = Larger(a, D)
    BY DEF Larger
  <2>3. p + n = c /\ c - n = p
    BY <1>3, <2>1, <2>2
  <2> QED BY <1>3, <2>1, <2>2, <2>3 DEF Larger
<1>5. PICK S : S = disk' /\ S = SavedDisk(n)
  BY <1>2, <1>3 DEF Save
<1>6. PICK G \in Seq(Item) :
         /\ G = S.current.items
         /\ GoodDisk(S) /\ SourceOf(S) = S.current /\ S.current.exists
         /\ S.current.lastAckId = disk.current.lastAckId
         /\ Len(G) = f + n /\ f <= p /\ Numbered(G, p - f)
         /\ ToSet(G) = ToSet(F) \cup ToSet(T)
         /\ LiveIn(S.current) = LiveIn(disk.current) \cup ToSet(T)
  <2>1. n \in 0 .. Len(table_disk)
    BY <1>2, <1>3
  <2>2. S = SavedDisk(n) /\ n = Len(table_disk)
    BY <1>2, <1>3, <1>5
  <2>3. /\ GoodDisk(S) /\ SourceOf(S) = S.current /\ S.current.exists
        /\ S.current.lastAckId = disk.current.lastAckId
        /\ S.current.items \in Seq(Item)
        /\ Len(S.current.items) = Len(disk.current.items) + n
        /\ Len(disk.current.items) <= Larger(a, lastIdOnDisk)
        /\ Numbered(S.current.items, Larger(a, lastIdOnDisk) - Len(disk.current.items))
        /\ ToSet(S.current.items) =
             ToSet(disk.current.items) \cup ToSet(SubSeq(table_disk, 1, n))
        /\ LiveIn(S.current) = LiveIn(disk.current) \cup ToSet(SubSeq(table_disk, 1, n))
        /\ ToSet(SubSeq(table_disk, 1, n)) = ToSet(table_disk)
    BY <2>1, <2>2, SaveFacts
  <2> QED BY <1>2, <1>3, <1>4, <2>3
<1>7. LiveIn(S.current) = Live
  BY <1>1, <1>2, <1>6 DEF Live
<1>8. PICK E \in Nat : /\ E = lastIdOnDisk' /\ (n = 0 => E = D) /\ (n > 0 => E = c)
                       /\ (n = 0 => ackOnDisk' = ackOnDisk) /\ (n > 0 => ackOnDisk')
                       /\ ackOnDisk' \in BOOLEAN
  <2>1. CASE T = <<>>
    BY <1>1, <1>2, <1>3, <2>1 DEF Save, TypeOK
  <2>2. CASE T # <<>>
    <3>1. Last(T).id = p + n
      BY <1>3, <1>4, <2>2, NumberedFacts
    <3> QED BY <1>2, <1>3, <1>4, <2>2, <3>1 DEF Save
  <2> QED BY <2>1, <2>2
<1>9. G # <<>> <=> f + n # 0
  BY <1>6, SetOfSeq
<1>10. PICK z \in Nat : z = f + n
  OBVIOUS
<1>11. /\ F # <<>> => D > a /\ ackOnDisk
       /\ D > a => D - f <= a
       /\ F # <<>> /\ disk.current.lastAckId < a => D - f = a
       /\ o > 0 => D - f + o <= R
       /\ f <= D
  BY <1>2, <1>3 DEF Position, Saved
<1>12. E <= c /\ D <= E
  BY <1>3, <1>8
<1>13. Larger(a, E) = c
  <2>1. CASE n = 0
    BY <1>4, <1>8, <2>1
  <2>2. CASE n > 0
    BY <1>3, <1>8, <2>2 DEF Larger
  <2> QED BY <2>1, <2>2
<1>14. /\ z <= E
       /\ n > 0 \/ f > 0 => E - z = p - f
       /\ f > 0 => E - z = D - f
       /\ f = 0 /\ n > 0 => E - z = p
  <2>1. CASE n > 0
    <3>1. E = p + n /\ z = f + n /\ f <= p
      BY <1>4, <1>6, <1>8, <1>10, <2>1
    <3>2. f > 0 => p = D
      BY <1>3, <1>4, <1>11
    <3>3. E \in Nat /\ p \in Nat /\ n \in Nat /\ z \in Nat /\ f \in Nat /\ D \in Nat
      BY <1>3, <1>4, <1>8, <1>10
    <3>4. z <= E /\ E - z = p - f /\ (f = 0 => E - z = p)
      BY <3>1, <3>3
    <3> QED BY <3>2, <3>4
  <2>2. CASE n = 0
    <3>1. E = D /\ z = f /\ f <= D
      BY <1>8, <1>10, <1>11, <2>2
    <3>2. f > 0 => p = D
      BY <1>3, <1>4, <1>11
    <3> QED BY <2>2, <3>1, <3>2
  <2> QED BY <2>1, <2>2
<1>15. Numbered(G, E - z)
  <2>1. CASE z = 0
    BY <1>6, <1>10, <2>1 DEF Numbered
  <2>2. CASE z # 0
    BY <1>6, <1>10, <1>14, <2>2
  <2> QED BY <2>1, <2>2
<1>16. G # <<>> => E > a /\ ackOnDisk'
  <2>1. CASE n > 0
    <3>1. E = c /\ c > a
      BY <1>4, <1>8, <2>1
    <3> QED BY <1>8, <2>1, <3>1
  <2>2. CASE n = 0
    BY <1>3, <1>8, <1>9, <1>11, <2>2
  <2> QED BY <2>1, <2>2
<1>17. E > a => E - z <= a
  <2>1. CASE f > 0
    BY <1>3, <1>11, <1>14, <2>1
  <2>2. CASE f = 0 /\ n > 0
    <3>1. ~(D > a)
      BY <1>11, <2>2
    <3>2. p = a
      BY <1>4, <3>1 DEF Larger
    <3> QED BY <1>14, <2>2, <3>2
  <2>3. CASE f = 0 /\ n = 0
    BY <1>8, <1>10, <1>11, <2>3
  <2> QED BY <2>1, <2>2, <2>3
<1>18. /\ G # <<>> /\ disk.current.lastAckId < a => E - z = a
       /\ (F # <<>> => D - f = a) => (G # <<>> => E - z = a)
  <2>1. CASE f > 0
    BY <1>3, <1>11, <1>14, <2>1
  <2>2. CASE f = 0 /\ n > 0
    <3>1. ~(D > a)
      BY <1>11, <2>2
    <3>2. p = a
      BY <1>4, <3>1 DEF Larger
    <3> QED BY <1>14, <2>2, <3>2
  <2>3. CASE f = 0 /\ n = 0
    BY <1>9, <2>3
  <2> QED BY <2>1, <2>2, <2>3
<1>19. o <= z /\ (o > 0 => E - z + o <= R)
  <2>1. o > 0 => f > 0
    BY <1>3
  <2> QED BY <1>3, <1>10, <1>11, <1>14, <2>1
<1>20. z = Len(G) /\ G = disk'.current.items
  BY <1>5, <1>6, <1>10
<1>21. \E h \in Nat :
          /\ h = Len(disk'.current.items) /\ h <= lastIdOnDisk'
          /\ Numbered(disk'.current.items, lastIdOnDisk' - h)
          /\ disk'.current.items # <<>> => lastIdOnDisk' > a /\ ackOnDisk'
          /\ lastIdOnDisk' > a => lastIdOnDisk' - h <= a
          /\ disk'.current.items # <<>> /\ disk.current.lastAckId < a => lastIdOnDisk' - h = a
          /\ lastOutOffset > 0 => lastIdOnDisk' - h + lastOutOffset <= lastIdOut + Len(table_client)
          /\ lastOutOffset <= h
          /\ (disk.current.items # <<>> => lastIdOnDisk - Len(disk.current.items) = a)
                => (disk'.current.items # <<>> => lastIdOnDisk' - h = a)
  BY <1>2, <1>3, <1>8, <1>14, <1>15, <1>16, <1>17, <1>18, <1>19, <1>20
<1> QED BY <1>2, <1>3, <1>5, <1>6, <1>7, <1>8, <1>12, <1>13, <1>21

(* Files are as good after a step that is not a truncation half done.        *)
LEMMA GoodStays ==
    ASSUME NEW S, S = disk', GoodDisk(S), truncated' = truncated
    PROVE  GoodDisk(disk)'
<1>1. GoodFile(SourceOf(S)) => GoodFile(SourceOf(disk))'
  BY DEF GoodFile
<1> QED BY <1>1 DEF GoodDisk

(* permFIFO_flush() moves the table to the file.                             *)
LEMMA FlushKeeps == PermInv /\ Flush => PermInv'
<1> SUFFICES ASSUME PermInv, Flush PROVE PermInv'
  OBVIOUS
<1>1. /\ up /\ Save /\ table_disk' = <<>>
      /\ UNCHANGED <<up, table_client, currentId, lastIdOut, lastOutOffset, nextIdInClientTable,
                     input_queue, written, acked, lost, deaths, truncated>>
  BY DEF Flush
<1>2. PICK a \in Nat : Position(a)
  BY <1>1 DEF PermInv, UpInv
<1>3. PICK S : S = disk'
  OBVIOUS
<1>4. /\ GoodDisk(S) /\ SourceOf(S) = S.current /\ S.current.exists
      /\ LiveIn(S.current) = Live
      /\ ToSet(S.current.items) = ToSet(disk.current.items) \cup ToSet(table_disk)
      /\ S.current.lastAckId = disk.current.lastAckId
      /\ ackOnDisk' \in BOOLEAN
      /\ lastIdOnDisk' \in Nat /\ lastIdOnDisk' <= currentId
      /\ Larger(a, lastIdOnDisk') = currentId /\ lastIdOnDisk <= lastIdOnDisk'
  BY <1>1, <1>2, <1>3, SaveAll
<1>5. PICK f \in Nat :
         /\ f = Len(S.current.items) /\ f <= lastIdOnDisk'
         /\ Numbered(S.current.items, lastIdOnDisk' - f)
         /\ S.current.items # <<>> => lastIdOnDisk' > a /\ ackOnDisk'
         /\ lastIdOnDisk' > a => lastIdOnDisk' - f <= a
         /\ S.current.items # <<>> /\ disk.current.lastAckId < a => lastIdOnDisk' - f = a
         /\ lastOutOffset > 0 => lastIdOnDisk' - f + lastOutOffset <= lastIdOut + Len(table_client)
         /\ lastOutOffset <= f
         /\ (disk.current.items # <<>> => lastIdOnDisk - Len(disk.current.items) = a)
               => (S.current.items # <<>> => lastIdOnDisk' - f = a)
  BY <1>1, <1>2, <1>3, SaveAll
<1>6. TypeOK /\ currentId \in Nat /\ a <= currentId /\ lastIdOnDisk \in Nat /\ lastOutOffset \in Nat
  <2>1. TypeOK /\ disk.current.items \in Seq(Item) /\ lastOutOffset \in 0 .. Len(disk.current.items)
    BY <1>1, <1>2, LiveFacts DEF PermInv, TypeOK
  <2> QED BY <1>1, <1>2, <2>1, LiveFacts
<1>7. Len(<<>>) = 0 /\ ToSet(<<>>) = {}
  BY SetOfEmpty
<1>8. TypeOK'
  <2>1. S \in Disk /\ lastOutOffset \in 0 .. f /\ lastIdOnDisk' \in 0 .. currentId
    BY <1>4, <1>5, <1>6 DEF GoodDisk
  <2> QED BY <1>1, <1>3, <1>4, <1>5, <1>6, <1>7, <2>1, PermanentFifoAssumption DEF TypeOK, Disk
<1>9. Position(a)'
  <2>1. Reading(a)'
    <3>1. Reading(a)
      BY <1>2 DEF Position
    <3>2. ~truncated /\ lastIdOnDisk > a => lastIdOnDisk' > a
      BY <1>4, <1>6
    <3> QED BY <1>1, <1>3, <1>5, <3>1, <3>2 DEF Reading, Numbered
  <2>2. Saving(a)'
    <3>1. currentId - currentId = 0
      BY <1>6
    <3> QED BY <1>1, <1>4, <1>6, <1>7, <3>1 DEF Saving, Numbered
  <2>3. Saved(a)'
    <3>1. disk.current.lastAckId <= a
      BY <1>2 DEF Position, Saved
    <3> QED BY <1>1, <1>3, <1>4, <1>5, <3>1 DEF Saved, Numbered
  <2> QED BY <2>1, <2>2, <2>3 DEF Position
<1>10. Held' = Held
  BY <1>1, <1>3, <1>4, <1>7 DEF Held
<1>11. UpInv' /\ DownInv'
  <2>1. Agree(Held)
    BY <1>1 DEF PermInv, UpInv
  <2> QED BY <1>1, <1>9, <1>10, <2>1 DEF UpInv, DownInv, Agree
<1>12. GoodDisk(disk)'
  BY <1>1, <1>3, <1>4, GoodStays
<1>13. LiveInv'
  <2>1. LiveInv
    BY DEF PermInv
  <2>2. Live' = Live
    BY <1>1, <1>3, <1>4, <1>7 DEF Live
  <2>3. Pending' = Pending
    BY <1>1 DEF Pending
  <2>4. SourceOf(disk)' = S.current /\ SourceOf(disk) = disk.current
    BY <1>1, <1>2, <1>3, <1>4, LiveFacts
  <2> QED BY <1>1, <1>4, <1>7, <2>1, <2>2, <2>3, <2>4 DEF LiveInv, MessagesOf
<1> QED BY <1>8, <1>11, <1>12, <1>13 DEF PermInv

(* The table of the reader in permFIFO_write().                              *)
LEMMA WriteClient ==
    ASSUME PermInv, Write, NEW a \in Nat, Position(a),
           NEW item, item = [id |-> currentId + 1, msg |-> written + 1]
    PROVE  /\ item \in Item /\ table_client' \in Seq(Item) /\ Len(table_client') <= size
           /\ Len(table_client) <= Len(table_client')
           /\ ToSet(table_client') \subseteq ToSet(table_client) \cup {item}
           /\ nextIdInClientTable' \in 0 .. currentId + 2
           /\ Reading(a) => /\ Numbered(table_client', lastIdOut)
                            /\ lastIdOut + Len(table_client') <= currentId + 1
                            /\ nextIdInClientTable' = currentId + 2
                                  => lastIdOut + Len(table_client') = currentId + 1
                            /\ lastIdOut < a => table_client' = table_client
<1> DEFINE isNext == item.id = nextIdInClientTable
           fits == isNext /\ Len(table_client) < size
<1>1. /\ table_client' = IF fits THEN Append(table_client, item) ELSE table_client
      /\ nextIdInClientTable' = IF fits THEN item.id + 1 ELSE IF isNext THEN 0
                                ELSE nextIdInClientTable
      /\ up /\ written < MaxWritten
  BY DEF Write
<1>2. /\ currentId \in Nat /\ a <= currentId /\ written \in Nat /\ MaxWritten \in Nat /\ size \in Nat
      /\ table_client \in Seq(Item) /\ Len(table_client) <= size
      /\ lastIdOut \in 0 .. currentId /\ nextIdInClientTable \in 0 .. currentId + 1
  BY <1>1, LiveFacts, PermanentFifoAssumption DEF PermInv, TypeOK
<1>3. PICK c \in Nat, R \in Nat, m \in Nat, x \in Nat :
         /\ c = currentId /\ R = lastIdOut /\ m = Len(table_client) /\ x = nextIdInClientTable
         /\ R <= c /\ x <= c + 1 /\ m <= size /\ a <= c
  <2>1. /\ lastIdOut \in Nat /\ lastIdOut <= currentId /\ Len(table_client) \in Nat
        /\ nextIdInClientTable \in Nat /\ nextIdInClientTable <= currentId + 1
    BY <1>2
  <2> QED BY <1>2, <2>1
<1>4. item \in Item /\ item.id = c + 1
  BY <1>1, <1>2, <1>3 DEF Item, Msg
<1>5. ToSet(table_client') \subseteq ToSet(table_client) \cup {item}
  BY <1>1, <1>2, <1>4, SetOfAppend
<1>6. CASE fits
  <2>1. PICK q \in Seq(Item) : /\ q = table_client' /\ q = Append(table_client, item)
                               /\ Len(q) = m + 1
    <3>1. table_client' = Append(table_client, item)
      BY <1>1, <1>6
    <3>2. /\ Append(table_client, item) \in Seq(Item)
          /\ Len(Append(table_client, item)) = Len(table_client) + 1
      BY <1>2, <1>4, SetOfAppend
    <3> QED BY <1>3, <3>1, <3>2
  <2>2. nextIdInClientTable' = c + 2 /\ x = c + 1 /\ m < size
    BY <1>1, <1>3, <1>4, <1>6
  <2>3. ASSUME Reading(a)
        PROVE  Numbered(q, R) /\ R + (m + 1) = c + 1 /\ ~(R < a)
    <3>1. Numbered(table_client, R) /\ R + m = c
      BY <1>3, <2>2, <2>3 DEF Reading
    <3>2. item.id = R + Len(table_client) + 1
      BY <1>3, <1>4, <3>1
    <3>3. Numbered(q, R)
      BY <1>2, <1>4, <2>1, <3>1, <3>2, NumberedAppend
    <3>4. R < a => table_client = <<>>
      BY <1>3, <2>3, NumberedFacts DEF Reading
    <3>5. R < a => m = 0
      BY <1>3, <3>4, SetOfEmpty
    <3> QED BY <1>3, <3>1, <3>3, <3>5
  <2> QED BY <1>2, <1>3, <1>4, <1>5, <2>1, <2>2, <2>3
<1>7. CASE ~fits
  <2>1. table_client' = table_client /\ (nextIdInClientTable' = 0 \/ nextIdInClientTable' = x)
        /\ nextIdInClientTable' # c + 2
    BY <1>1, <1>3, <1>7
  <2>2. nextIdInClientTable' \in 0 .. c + 2
    BY <1>3, <2>1
  <2>3. ASSUME Reading(a)
        PROVE  Numbered(table_client, R) /\ R + m <= c + 1
    BY <1>3, <2>3 DEF Reading
  <2> QED BY <1>2, <1>3, <1>4, <1>5, <2>1, <2>2, <2>3
<1> QED BY <1>6, <1>7

(* permFIFO_write() puts a new live message in the table to be saved, and in *)
(* the table of the reader when it is the next one there.                    *)
LEMMA WriteKeeps == PermInv /\ Write => PermInv'
<1> SUFFICES ASSUME PermInv, Write PROVE PermInv'
  OBVIOUS
<1>1. PICK a \in Nat : Position(a)
  BY DEF PermInv, UpInv, Write
<1>2. PICK item : item = [id |-> currentId + 1, msg |-> written + 1]
  OBVIOUS
<1> DEFINE isNext == item.id = nextIdInClientTable
           fits == isNext /\ Len(table_client) < size
           saves == (isNext /\ ~fits) \/ Len(table_disk) = size
<1>3. /\ up /\ written < MaxWritten /\ written' = written + 1 /\ currentId' = item.id
      /\ saves => Save /\ table_disk' = <<item>>
      /\ ~saves => table_disk' = Append(table_disk, item)
                   /\ UNCHANGED <<disk, lastIdOnDisk, ackOnDisk>>
      /\ UNCHANGED <<up, lastIdOut, lastOutOffset, input_queue, acked, lost, deaths, truncated>>
  BY <1>2 DEF Write
<1>4. /\ TypeOK /\ currentId \in Nat /\ a <= currentId /\ written \in Nat /\ MaxWritten \in Nat
      /\ size \in Nat \ {0} /\ lastIdOnDisk \in Nat /\ lastIdOnDisk <= currentId
      /\ lastOutOffset \in 0 .. Len(disk.current.items) /\ lastIdOut \in 0 .. currentId
      /\ table_disk \in Seq(Item) /\ Len(table_disk) <= size /\ disk.current.items \in Seq(Item)
      /\ disk.current \in File /\ SourceOf(disk) = disk.current /\ Held \subseteq Item
      /\ \A it \in Held : it.id \in 1 .. currentId /\ it.msg \in 1 .. written
      /\ GoodDisk(disk) /\ Live \subseteq Held /\ Live \subseteq Item
  BY <1>1, <1>3, LiveFacts, PermanentFifoAssumption DEF PermInv, TypeOK
<1>5. PICK c \in Nat, n \in Nat : c = currentId /\ n = Len(table_disk) /\ n <= size
  BY <1>4
<1>6. item.id = c + 1 /\ item.msg = written + 1 /\ currentId' = c + 1
  BY <1>2, <1>3, <1>5
<1>7. /\ item \in Item /\ table_client' \in Seq(Item) /\ Len(table_client') <= size
      /\ Len(table_client) <= Len(table_client')
      /\ ToSet(table_client') \subseteq ToSet(table_client) \cup {item}
      /\ nextIdInClientTable' \in 0 .. currentId + 2
      /\ Numbered(table_client', lastIdOut)
      /\ lastIdOut + Len(table_client') <= currentId + 1
      /\ nextIdInClientTable' = currentId + 2 => lastIdOut + Len(table_client') = currentId + 1
      /\ lastIdOut < a => table_client' = table_client
  <2>1. Reading(a)
    BY <1>1 DEF Position
  <2> QED BY <1>1, <1>2, <2>1, WriteClient
\* The files, and what the step does to them and to the other table.
<1>8. PICK S : S = disk'
  OBVIOUS
<1>9. /\ GoodDisk(S) /\ SourceOf(S) = S.current /\ S.current.exists
      /\ LiveIn(S.current) \cup ToSet(table_disk') = Live \cup {item}
      /\ ToSet(S.current.items) \cup ToSet(table_disk') =
           ToSet(disk.current.items) \cup ToSet(table_disk) \cup {item}
      /\ S.current.lastAckId = disk.current.lastAckId
      /\ ackOnDisk' \in BOOLEAN
      /\ lastIdOnDisk' \in Nat /\ lastIdOnDisk' <= c /\ lastIdOnDisk <= lastIdOnDisk'
      /\ table_disk' \in Seq(Item) /\ Len(table_disk') <= size
      /\ Len(table_disk') = c + 1 - Larger(a, lastIdOnDisk')
      /\ Numbered(table_disk', Larger(a, lastIdOnDisk'))
      /\ \E f \in Nat :
            /\ f = Len(S.current.items) /\ f <= lastIdOnDisk'
            /\ Numbered(S.current.items, lastIdOnDisk' - f)
            /\ S.current.items # <<>> => lastIdOnDisk' > a /\ ackOnDisk'
            /\ lastIdOnDisk' > a => lastIdOnDisk' - f <= a
            /\ S.current.items # <<>> /\ disk.current.lastAckId < a => lastIdOnDisk' - f = a
            /\ lastOutOffset > 0 => lastIdOnDisk' - f + lastOutOffset
                                      <= lastIdOut + Len(table_client)
            /\ lastOutOffset <= f
            /\ (disk.current.items # <<>> => lastIdOnDisk - Len(disk.current.items) = a)
                  => (S.current.items # <<>> => lastIdOnDisk' - f = a)
  <2>1. CASE saves
    <3>1. Save /\ table_disk' = <<item>>
      BY <1>3, <2>1
    <3>2. /\ <<item>> \in Seq(Item) /\ Len(<<item>>) = 1 /\ ToSet(<<item>>) = {item}
          /\ <<item>>[1] = item
      <4>1. <<item>> \in Seq(Item) /\ Len(<<item>>) = 1 /\ <<item>>[1] = item
        BY <1>7
      <4>2. ToSet(<<item>>) = {<<item>>[i] : i \in 1 .. 1}
        BY <4>1, SetOfSeq
      <4>3. 1 .. 1 = {1}
        OBVIOUS
      <4> QED BY <4>1, <4>2, <4>3
    <3>3. Numbered(<<item>>, c)
      BY <1>6, <3>2 DEF Numbered
    <3>4. /\ GoodDisk(S) /\ SourceOf(S) = S.current /\ S.current.exists
          /\ LiveIn(S.current) = Live
          /\ ToSet(S.current.items) = ToSet(disk.current.items) \cup ToSet(table_disk)
          /\ S.current.lastAckId = disk.current.lastAckId
          /\ ackOnDisk' \in BOOLEAN
          /\ lastIdOnDisk' \in Nat /\ lastIdOnDisk' <= c
          /\ Larger(a, lastIdOnDisk') = c /\ lastIdOnDisk <= lastIdOnDisk'
      BY <1>1, <1>3, <1>5, <1>8, <3>1, SaveAll
    <3>5. 1 <= size /\ 1 = c + 1 - c
      BY <1>4, <1>5
    <3> HIDE DEF saves
    <3> QED BY <1>1, <1>3, <1>8, <3>1, <3>2, <3>3, <3>4, <3>5, SaveAll
  <2>2. CASE ~saves
    <3>1. /\ table_disk' = Append(table_disk, item) /\ n < size
          /\ S = disk /\ lastIdOnDisk' = lastIdOnDisk /\ ackOnDisk' = ackOnDisk
      BY <1>3, <1>5, <1>8, <1>4, <2>2
    <3>2. PICK p \in Nat : p = Larger(a, lastIdOnDisk) /\ Numbered(table_disk, p) /\ p + n = c
      <4>1. n = c - Larger(a, lastIdOnDisk) /\ Numbered(table_disk, c - n)
        BY <1>1, <1>5 DEF Position, Saving
      <4>2. Larger(a, lastIdOnDisk) \in Nat
        BY <1>4 DEF Larger
      <4>3. c - n = Larger(a, lastIdOnDisk) /\ Larger(a, lastIdOnDisk) + n = c
        BY <4>1, <4>2
      <4> QED BY <4>1, <4>2, <4>3
    <3>3. /\ Numbered(Append(table_disk, item), p) /\ Append(table_disk, item) \in Seq(Item)
          /\ Len(Append(table_disk, item)) = n + 1
          /\ ToSet(Append(table_disk, item)) = ToSet(table_disk) \cup {item}
      <4>1. item.id = p + Len(table_disk) + 1
        BY <1>5, <1>6, <3>2
      <4> QED BY <1>4, <1>5, <1>7, <3>2, <4>1, NumberedAppend
    <3>4. n + 1 = c + 1 - p /\ n + 1 <= size
      BY <1>4, <3>1, <3>2
    <3>5. \E f \in Nat :
            /\ f = Len(disk.current.items) /\ f <= lastIdOnDisk
            /\ Numbered(disk.current.items, lastIdOnDisk - f)
            /\ disk.current.items # <<>> => lastIdOnDisk > a /\ ackOnDisk
            /\ lastIdOnDisk > a => lastIdOnDisk - f <= a
            /\ disk.current.items # <<>> /\ disk.current.lastAckId < a => lastIdOnDisk - f = a
            /\ lastOutOffset > 0 => lastIdOnDisk - f + lastOutOffset
                                      <= lastIdOut + Len(table_client)
            /\ lastOutOffset <= f
      <4>1. Len(disk.current.items) \in Nat /\ lastOutOffset <= Len(disk.current.items)
        BY <1>4
      <4> QED BY <1>1, <4>1 DEF Position, Saved
    <3>6. disk.current.exists /\ ackOnDisk \in BOOLEAN
      BY <1>1, <1>4 DEF Position, Saved, TypeOK
    <3>7. LiveIn(disk.current) \cup ToSet(table_disk) = Live
      BY <1>4 DEF Live
    <3> HIDE DEF saves
    <3>8. lastIdOnDisk \in Nat /\ lastIdOnDisk <= c /\ lastIdOnDisk <= lastIdOnDisk
      BY <1>4, <1>5
    <3> QED BY <1>4, <3>1, <3>2, <3>3, <3>4, <3>5, <3>6, <3>7, <3>8
  <2> QED BY <2>1, <2>2
<1> HIDE DEF isNext, fits, saves
<1>10. PICK f \in Nat, D \in Nat :
          /\ f = Len(S.current.items) /\ D = lastIdOnDisk' /\ f <= D /\ D <= c
          /\ Numbered(S.current.items, D - f)
          /\ S.current.items # <<>> => D > a /\ ackOnDisk'
          /\ D > a => D - f <= a
          /\ S.current.items # <<>> /\ disk.current.lastAckId < a => D - f = a
          /\ lastOutOffset > 0 => D - f + lastOutOffset <= lastIdOut + Len(table_client)
          /\ lastOutOffset <= f
          /\ (disk.current.items # <<>> => lastIdOnDisk - Len(disk.current.items) = a)
                => (S.current.items # <<>> => D - f = a)
          /\ lastIdOnDisk <= D
  BY <1>9
<1>11. PICK p \in Nat, t \in Nat : /\ p = Larger(a, D) /\ Len(table_disk') = t /\ t = c + 1 - p
                                   /\ Numbered(table_disk', p) /\ p = c + 1 - t
  <2>1. PICK p \in Nat : p = Larger(a, D) /\ p <= c
    BY <1>4, <1>5, <1>10 DEF Larger
  <2>2. c + 1 - p \in Nat /\ p = c + 1 - (c + 1 - p)
    BY <2>1
  <2> QED BY <1>9, <1>10, <2>1, <2>2
<1>12. PICK o \in Nat, R \in Nat : o = lastOutOffset /\ R = lastIdOut /\ R <= c
  <2>1. Len(disk.current.items) \in Nat
    BY <1>4
  <2> QED BY <1>4, <1>5, <2>1
<1>13. TypeOK'
  <2>1. S \in Disk
    BY <1>9 DEF GoodDisk
  <2>2. /\ o \in 0 .. f /\ D \in 0 .. c + 1 /\ R \in 0 .. c + 1 /\ c + 1 \in Nat
        /\ written + 1 \in 0 .. MaxWritten /\ currentId + 2 = (c + 1) + 1
    BY <1>3, <1>4, <1>5, <1>10, <1>12
  <2>3. /\ disk' \in [current : File, old : File, new : File]
        /\ lastIdOut' \in 0 .. currentId' /\ lastOutOffset' \in 0 .. Len(disk'.current.items)
        /\ nextIdInClientTable' \in 0 .. currentId' + 1 /\ lastIdOnDisk' \in 0 .. currentId'
        /\ written' \in 0 .. MaxWritten /\ currentId' \in Nat
    BY <1>3, <1>6, <1>7, <1>8, <1>10, <1>12, <2>1, <2>2 DEF Disk
  <2> QED BY <1>3, <1>4, <1>7, <1>9, <2>3 DEF TypeOK
<1>14. Reading(a)'
  <2>1. Reading(a)
    BY <1>1 DEF Position
  <2>2. ~truncated /\ lastIdOnDisk > a => D > a
    BY <1>4, <1>10
  <2>3. (c + 1) + 1 = c + 2
    OBVIOUS
  <2>4. /\ lastIdOut' + Len(table_client') <= currentId'
        /\ nextIdInClientTable' = currentId' + 1 => lastIdOut' + Len(table_client') = currentId'
        /\ Numbered(table_client', lastIdOut')
    BY <1>3, <1>5, <1>6, <1>7, <2>3
  <2>5. Numbered(input_queue', a)
    BY <1>3, <2>1 DEF Reading
  <2>6. \/ lastIdOut' = a + Len(input_queue')
        \/ /\ lastIdOut' < a /\ lastIdOut' = 0 /\ input_queue' = <<>> /\ table_client' = <<>>
           /\ lastOutOffset' = 0
           /\ disk'.current.items # <<>> => lastIdOnDisk' - Len(disk'.current.items) = a
           /\ ~truncated => lastIdOnDisk' > a
    BY <1>3, <1>7, <1>8, <1>10, <2>1, <2>2 DEF Reading
  <2> QED BY <1>3, <2>4, <2>5, <2>6 DEF Reading
<1>15. Saving(a)'
  <2>1. a <= c + 1 /\ Len(table_disk') = (c + 1) - Larger(a, lastIdOnDisk')
        /\ Numbered(table_disk', (c + 1) - Len(table_disk'))
    <3>1. a <= c + 1
      BY <1>4, <1>5
    <3>2. Len(table_disk') = t /\ Larger(a, lastIdOnDisk') = p
      BY <1>10, <1>11
    <3>3. t = (c + 1) - p /\ (c + 1) - t = p
      BY <1>11
    <3> QED BY <1>11, <3>1, <3>2, <3>3
  <2> QED BY <1>6, <2>1 DEF Saving
<1>16. Saved(a)'
  <2>1. disk.current.lastAckId <= a
    BY <1>1 DEF Position, Saved
  <2>2. PICK m \in Nat, h \in Nat : m = Len(table_client) /\ h = Len(table_client') /\ m <= h
    BY <1>4, <1>7 DEF TypeOK
  <2>3. lastOutOffset > 0 => D - f + lastOutOffset <= lastIdOut + Len(table_client')
    BY <1>10, <1>12, <2>2
  <2> QED BY <1>3, <1>8, <1>9, <1>10, <2>1, <2>3 DEF Saved
<1>17. Held' \subseteq Held \cup {item}
  BY <1>3, <1>7, <1>8, <1>9 DEF Held
<1>18. Agree(Held')
  <2>1. Agree(Held) /\ \A it \in Held : it.id < c + 1 /\ it.msg < written + 1
                                        /\ it.id \in Nat /\ it.msg \in Nat
    BY <1>3, <1>4, <1>5 DEF PermInv, UpInv
  <2>2. Agree(Held \cup {item})
    <3> SUFFICES ASSUME NEW x \in Held \cup {item}, NEW y \in Held \cup {item}
                 PROVE  x.id < y.id <=> x.msg < y.msg
      BY DEF Agree
    <3>1. CASE x \in Held /\ y \in Held
      BY <2>1, <3>1 DEF Agree
    <3>2. CASE x \in Held /\ y = item
      BY <1>6, <2>1, <3>2
    <3>3. CASE x = item /\ y \in Held
      BY <1>4, <1>6, <2>1, <3>3
    <3>4. CASE x = item /\ y = item
      BY <1>4, <1>6, <3>4
    <3> QED BY <3>1, <3>2, <3>3, <3>4
  <2> QED BY <1>17, <2>2 DEF Agree
<1>19. UpInv' /\ DownInv'
  <2>1. Position(a)'
    BY <1>14, <1>15, <1>16 DEF Position
  <2>2. \E b \in Nat : Position(b)'
    BY <2>1
  <2> QED BY <1>3, <1>18, <2>2 DEF UpInv, DownInv
<1>20. LiveInv'
  <2>1. LiveInv
    BY DEF PermInv
  <2>2. Live' = Live \cup {item}
    BY <1>8, <1>9 DEF Live
  <2>3. 1 .. written + 1 = (1 .. written) \cup {written + 1}
    BY <1>4
  <2>4. written + 1 \notin acked \cup lost
    BY <1>4, <2>1 DEF LiveInv
  <2>5. Pending' = Pending \cup {written + 1}
    BY <1>3, <2>3, <2>4 DEF Pending
  <2>6. MessagesOf(Live') = MessagesOf(Live) \cup {written + 1}
    BY <1>6, <2>2 DEF MessagesOf
  <2>7. acked' \cap MessagesOf(Live') = {}
    BY <1>3, <2>1, <2>4, <2>6 DEF LiveInv
  <2>8. (acked \cup lost)' \subseteq 1 .. written'
    BY <1>3, <2>1, <2>3 DEF LiveInv
  <2>9. \A it \in ToSet(SourceOf(disk').items) \cup ToSet(table_disk') : it.msg <= written'
    <3>1. ToSet(SourceOf(disk').items) \cup ToSet(table_disk') \subseteq Held \cup {item}
      BY <1>8, <1>9 DEF Held
    <3>2. \A it \in Held : it.msg <= written + 1
      BY <1>4
    <3> QED BY <1>3, <1>4, <1>6, <3>1, <3>2
  <2> QED BY <2>1, <2>5, <2>6, <2>7, <2>8, <2>9 DEF LiveInv
<1>21. GoodDisk(disk)'
  BY <1>3, <1>8, <1>9, GoodStays
<1> QED BY <1>13, <1>19, <1>20, <1>21 DEF PermInv

(***************************************************************************)
(* The end of the process.  What was only in the table is lost, and the    *)
(* messages of the live records left are the pending ones.                 *)
(***************************************************************************)
LEMMA ForgottenKeeps ==
    ASSUME PermInv, Forgotten, NEW S, S = disk', S \in Disk, GoodDisk(disk)',
           truncated' \in BOOLEAN,
           NEW L, L = MessagesOf(LiveIn(SourceOf(S))),
           NEW M, M \subseteq Pending, acked' = acked \cup (M \ L),
           lost' = lost \cup (MessagesOf(ToSet(table_disk))
                                \ MessagesOf(ToSet(SourceOf(S).items))),
           written' = written, deaths' \in 0 .. MaxDeaths,
           L \subseteq Pending,
           \A it \in LiveIn(SourceOf(disk)) : it.msg \in L \cup M,
           \A it \in ToSet(table_disk), x \in ToSet(SourceOf(S).items) : x.msg = it.msg => x.msg \in L,
           \A it \in ToSet(SourceOf(S).items) : it.msg <= written
    PROVE  PermInv'
<1>1. TypeOK /\ LiveInv /\ S \in Disk /\ MaxWritten \in Nat /\ written \in 0 .. MaxWritten
  BY PermanentFifoAssumption DEF PermInv, TypeOK
<1>2. Pending = MessagesOf(LiveIn(SourceOf(disk))) \cup MessagesOf(ToSet(table_disk))
  BY <1>1 DEF LiveInv, Live, MessagesOf
<1>3. PICK Ts : Ts = MessagesOf(ToSet(table_disk))
  OBVIOUS
<1>4. PICK Gs : Gs = MessagesOf(ToSet(SourceOf(S).items))
  OBVIOUS
<1>5. L \subseteq Gs
  BY <1>4 DEF MessagesOf, LiveIn
<1>6. Ts \cap Gs \subseteq L
  BY <1>3, <1>4 DEF MessagesOf
<1>7. Pending \subseteq L \cup M \cup Ts
  BY <1>2, <1>3 DEF MessagesOf
<1>8. Pending' = Pending \ ((M \ L) \cup (Ts \ Gs))
  BY <1>3, <1>4 DEF Pending
<1>9. Pending' = L
  BY <1>5, <1>6, <1>7, <1>8
<1>10. Pending \subseteq 1 .. written /\ Ts \subseteq Pending /\ acked \cap Pending = {}
  BY <1>2, <1>3 DEF Pending
<1>11. table_disk' = <<>> /\ ToSet(<<>>) = {} /\ Len(<<>>) = 0 /\ up' = FALSE
  BY SetOfEmpty DEF Forgotten
<1>12. MessagesOf(Live') = L
  <2>1. Live' = LiveIn(SourceOf(S))
    BY <1>11 DEF Live
  <2> QED BY <2>1
<1>13. LiveInv'
  <2>1. acked' \cap L = {}
    BY <1>9 DEF Pending
  <2>2. (acked \cup lost)' \subseteq 1 .. written'
    BY <1>1, <1>3, <1>10 DEF LiveInv
  <2>3. \A it \in ToSet(SourceOf(disk)'.items) \cup ToSet(table_disk)' : it.msg <= written'
    <3>1. SourceOf(disk)' = SourceOf(S)
      OBVIOUS
    <3> QED BY <1>11, <3>1
  <2> QED BY <1>9, <1>12, <2>1, <2>2, <2>3 DEF LiveInv
<1>14. TypeOK'
  <2>1. 1 .. written \subseteq Msg /\ acked' \in SUBSET Msg /\ lost' \in SUBSET Msg
    <3>1. 1 .. written \subseteq Msg
      BY <1>1 DEF Msg
    <3> QED BY <1>3, <1>10, <1>1, <3>1 DEF TypeOK
  <2>2. 0 \in 0 .. Len(disk'.current.items) /\ size \in Nat
    <3>1. disk'.current.items \in Seq(Item)
      BY <1>1 DEF Disk, File
    <3>2. Len(disk'.current.items) \in Nat
      BY <3>1
    <3> QED BY <3>2, PermanentFifoAssumption
  <2>3. /\ 0 \in Nat /\ 0 \in 0 .. 0 /\ 0 \in 0 .. 0 + 1 /\ 0 <= size /\ FALSE \in BOOLEAN
        /\ <<>> \in Seq(Item)
    BY <2>2
  <2>4. /\ up' = FALSE /\ table_client' = <<>> /\ table_disk' = <<>> /\ currentId' = 0
        /\ lastIdOut' = 0 /\ lastOutOffset' = 0 /\ nextIdInClientTable' = 0
        /\ lastIdOnDisk' = 0 /\ ackOnDisk' = FALSE /\ input_queue' = <<>>
    BY DEF Forgotten
  <2>5. disk' \in [current : File, old : File, new : File] /\ written' \in 0 .. MaxWritten
    BY <1>1 DEF Disk
  <2> QED BY <1>11, <2>1, <2>2, <2>3, <2>4, <2>5 DEF TypeOK
<1>15. UpInv' /\ DownInv'
  BY DEF UpInv, DownInv, Forgotten
<1>16. GoodDisk(disk)'
  OBVIOUS
<1> QED BY <1>13, <1>14, <1>15, <1>16 DEF PermInv

(* What a death before or inside a save leaves, and the end of               *)
(* permFIFO_destroy(), are files with the first items of the table.          *)
LEMMA SavedForgotten ==
    ASSUME PermInv, up, Forgotten, NEW n \in 0 .. Len(table_disk), disk' = SavedDisk(n),
           written' = written, deaths' \in 0 .. MaxDeaths, acked' = acked,
           truncated' = truncated,
           lost' = lost \cup (MessagesOf(ToSet(table_disk))
                                \ MessagesOf(ToSet(disk'.current.items)))
    PROVE  PermInv'
<1>1. PICK a \in Nat : Position(a)
  BY DEF PermInv, UpInv
<1>2. PICK S : S = disk'
  OBVIOUS
<1>3. PICK P : P = ToSet(SubSeq(table_disk, 1, n))
  OBVIOUS
<1>4. /\ GoodDisk(S) /\ SourceOf(S) = S.current
      /\ ToSet(S.current.items) = ToSet(disk.current.items) \cup P
      /\ LiveIn(S.current) = LiveIn(disk.current) \cup P
      /\ P \subseteq ToSet(table_disk)
      /\ S.current.lastAckId = disk.current.lastAckId
  BY <1>1, <1>2, <1>3, SaveFacts
<1>5. /\ SourceOf(disk) = disk.current /\ Held \subseteq Item /\ a \in Nat
      /\ \A it \in ToSet(table_disk) : it.id > a
      /\ \A it \in Held : it.msg \in 1 .. written
      /\ LiveInv /\ written \in Nat /\ Agree(Held)
      /\ disk.current.lastAckId <= a /\ disk.current.lastAckId \in Nat
  <2>1. written \in Nat /\ LiveInv /\ Agree(Held)
    BY DEF PermInv, TypeOK, UpInv
  <2>2. disk.current.lastAckId <= a
    BY <1>1 DEF Position, Saved
  <2>3. disk.current \in File
    BY <1>1, LiveFacts
  <2> QED BY <1>1, <2>1, <2>2, <2>3, LiveFacts DEF File
<1>6. PICK L : L = MessagesOf(LiveIn(SourceOf(S)))
  OBVIOUS
<1>7. L \subseteq Pending
  BY <1>4, <1>5, <1>6 DEF LiveInv, Live, MessagesOf
<1>a. PICK M : M = {}
  OBVIOUS
<1>8. \A it \in LiveIn(SourceOf(disk)) : it.msg \in L \cup M
  BY <1>4, <1>5, <1>6 DEF MessagesOf
<1>9. ToSet(S.current.items) \subseteq Held /\ ToSet(table_disk) \subseteq Held
  BY <1>4 DEF Held
<1>10. ASSUME NEW it \in ToSet(table_disk), NEW x \in ToSet(SourceOf(S).items), x.msg = it.msg
       PROVE  x.msg \in L
  <2>1. x \in Held /\ it \in Held /\ x \in ToSet(S.current.items)
    BY <1>4, <1>9
  <2>2. x.id = it.id /\ it.id \in Nat
    BY <1>5, <1>10, <2>1, AgreeFacts
  <2>3. x.id > disk.current.lastAckId
    BY <1>5, <2>2
  <2>4. x \in LiveIn(S.current)
    BY <1>4, <2>1, <2>3 DEF LiveIn
  <2> QED BY <1>4, <1>6, <2>4 DEF MessagesOf
<1>11. \A it \in ToSet(SourceOf(S).items) : it.msg <= written
  BY <1>4, <1>5, <1>9
<1>12. acked' = acked \cup (M \ L) /\ M \subseteq Pending
  BY <1>a
<1>13. lost' = lost \cup (MessagesOf(ToSet(table_disk)) \ MessagesOf(ToSet(SourceOf(S).items)))
  BY <1>2, <1>4
<1>14. S = disk' /\ S \in Disk /\ GoodDisk(disk)' /\ truncated' \in BOOLEAN
  <2>1. GoodDisk(disk)'
    BY <1>2, <1>4, GoodStays
  <2> QED BY <1>2, <1>4, <2>1 DEF GoodDisk, PermInv, TypeOK
<1> QED BY <1>6, <1>7, <1>8, <1>10, <1>11, <1>12, <1>13, <1>14, ForgottenKeeps

(* The messages of a sequence are those of its items.                        *)
LEMMA SetOfMessages ==
    ASSUME NEW q \in Seq(Item)
    PROVE  Messages(q) = MessagesOf(ToSet(q))
<1>1. ToSet(q) = {q[k] : k \in DOMAIN q}
  BY SetOfSeq
<1> QED BY <1>1 DEF Messages, MessagesOf

(* permFIFO_destroy() saves the whole table, so nothing is lost.             *)
LEMMA DestroyKeeps == PermInv /\ Destroy => PermInv'
<1> SUFFICES ASSUME PermInv, Destroy PROVE PermInv'
  OBVIOUS
<1>1. /\ up /\ Forgotten /\ disk' = SavedDisk(Len(table_disk))
      /\ UNCHANGED <<written, acked, lost, deaths, truncated>>
  BY DEF Destroy
<1>2. PICK n : n = Len(table_disk) /\ n \in 0 .. Len(table_disk) /\ deaths \in 0 .. MaxDeaths
  <2>1. table_disk \in Seq(Item)
    BY DEF PermInv, TypeOK
  <2> QED BY <2>1 DEF PermInv, TypeOK
<1>3. PICK a \in Nat : Position(a)
  BY <1>1 DEF PermInv, UpInv
<1>4. ToSet(table_disk) \subseteq ToSet(disk'.current.items)
  <2>1. PICK S : S = disk' /\ S = SavedDisk(n)
    BY <1>1, <1>2
  <2>2. ToSet(S.current.items) = ToSet(disk.current.items) \cup ToSet(table_disk)
    BY <1>1, <1>2, <1>3, <2>1, SaveFacts
  <2> QED BY <2>1, <2>2
<1>5. lost' = lost \cup (MessagesOf(ToSet(table_disk)) \ MessagesOf(ToSet(disk'.current.items)))
  BY <1>1, <1>4 DEF MessagesOf
<1>6. deaths' \in 0 .. MaxDeaths /\ disk' = SavedDisk(n)
  BY <1>1, <1>2
<1> QED BY <1>1, <1>2, <1>5, <1>6, SavedForgotten

(* What Dies() does to the counters.                                         *)
LEMMA DeathFacts ==
    ASSUME PermInv, NEW S, S \in Disk, Dies(S)
    PROVE  /\ Forgotten /\ disk' = S /\ written' = written /\ deaths' \in 0 .. MaxDeaths
           /\ lost' = lost \cup (MessagesOf(ToSet(table_disk))
                                   \ MessagesOf(ToSet(S.current.items)))
<1>1. table_disk \in Seq(Item) /\ S.current.items \in Seq(Item)
  BY DEF PermInv, TypeOK, Disk, File
<1>2. deaths' \in 0 .. MaxDeaths
  <2>1. deaths \in 0 .. MaxDeaths /\ deaths < MaxDeaths /\ deaths' = deaths + 1
    BY DEF Dies, PermInv, TypeOK
  <2> QED BY <2>1, PermanentFifoAssumption
<1> QED BY <1>1, <1>2, SetOfMessages DEF Dies

(* A death before or inside a save.                                          *)
LEMMA DieSavingKeeps == PermInv /\ DieSaving => PermInv'
<1> SUFFICES ASSUME PermInv, DieSaving PROVE PermInv'
  OBVIOUS
<1>1. up /\ acked' = acked /\ truncated' = truncated
  BY DEF DieSaving
<1>2. PICK n \in 0 .. Len(table_disk) : Dies(SavedDisk(n))
  BY DEF DieSaving
<1>3. PICK S : S = SavedDisk(n)
  OBVIOUS
<1>4. S \in Disk
  <2>1. PICK a \in Nat : Position(a)
    BY <1>1 DEF PermInv, UpInv
  <2>2. GoodDisk(S)
    BY <1>1, <1>3, <2>1, SaveFacts
  <2> QED BY <2>2 DEF GoodDisk
<1>5. /\ Forgotten /\ disk' = S /\ written' = written /\ deaths' \in 0 .. MaxDeaths
      /\ lost' = lost \cup (MessagesOf(ToSet(table_disk)) \ MessagesOf(ToSet(S.current.items)))
  BY <1>2, <1>3, <1>4, DeathFacts
<1> QED BY <1>1, <1>3, <1>5, SavedForgotten

(***************************************************************************)
(* permFIFO_file_clean().                                                  *)
(***************************************************************************)
(* The records of a copy have the ids from 1, and the messages and the order *)
(* that the old ones had.                                                    *)
LEMMA RenumberedFacts ==
    ASSUME NEW q \in Seq(Item), NEW first \in Nat, Numbered(q, first), Agree(ToSet(q))
    PROVE  /\ Renumbered(q) \in Seq(Item) /\ Len(Renumbered(q)) = Len(q)
           /\ Numbered(Renumbered(q), 0)
           /\ MessagesOf(ToSet(Renumbered(q))) = MessagesOf(ToSet(q))
           /\ Agree(ToSet(Renumbered(q)))
<1>1. PICK l \in Nat : l = Len(q)
  OBVIOUS
<1>2. /\ \A k \in 1 .. l : q[k] \in Item /\ q[k] \in ToSet(q) /\ q[k].id = first + k
      /\ ToSet(q) = {q[k] : k \in 1 .. l} /\ ToSet(q) \subseteq Item
  BY <1>1, NumberedFacts, SetOfSeq
<1>3. PICK r : r = Renumbered(q) /\ r = [k \in 1 .. l |-> [id |-> k, msg |-> q[k].msg]]
  BY <1>1 DEF Renumbered
<1>4. \A k \in 1 .. l : r[k] = [id |-> k, msg |-> q[k].msg] /\ r[k] \in Item /\ k \in Nat
  BY <1>2, <1>3 DEF Item
<1>5. r \in Seq(Item) /\ Len(r) = l
  BY <1>3, <1>4
<1>a. ASSUME NEW k \in 1 .. l PROVE r[k].id = k /\ r[k].msg = q[k].msg
  <2>1. r[k] = [id |-> k, msg |-> q[k].msg]
    BY <1>4
  <2> QED BY <2>1
<1>6. Numbered(r, 0)
  <2>1. ASSUME NEW k \in 1 .. l PROVE r[k].id = 0 + k
    <3>1. r[k].id = k /\ k \in Nat
      BY <1>a, <1>1
    <3> QED BY <3>1
  <2> QED BY <1>5, <2>1 DEF Numbered
<1>7. ToSet(r) = {r[k] : k \in 1 .. l}
  BY <1>5, SetOfSeq
<1>8. MessagesOf(ToSet(r)) = MessagesOf(ToSet(q))
  <2>1. \A k \in 1 .. l : q[k] \in ToSet(q) /\ r[k] \in ToSet(r)
    BY <1>2, <1>7
  <2>2. \A x \in ToSet(r) : \E y \in ToSet(q) : x.msg = y.msg
    BY <1>7, <1>a, <2>1
  <2>3. ASSUME NEW y \in ToSet(q) PROVE \E x \in ToSet(r) : x.msg = y.msg
    <3>1. PICK k \in 1 .. l : y = q[k]
      BY <1>2
    <3> QED BY <1>a, <2>1, <3>1
  <2> QED BY <2>2, <2>3 DEF MessagesOf
<1>9. Agree(ToSet(r))
  <2>1. ASSUME NEW i \in 1 .. l, NEW j \in 1 .. l
        PROVE  r[i].id < r[j].id <=> r[i].msg < r[j].msg
    <3>1. q[i].id < q[j].id <=> q[i].msg < q[j].msg
      BY <1>2 DEF Agree
    <3>2. first + i < first + j <=> i < j
      OBVIOUS
    <3>3. q[i].id = first + i /\ q[j].id = first + j
      BY <1>2
    <3>4. r[i].id = i /\ r[j].id = j /\ r[i].msg = q[i].msg /\ r[j].msg = q[j].msg
      BY <1>a
    <3> QED BY <3>1, <3>2, <3>3, <3>4
  <2> QED BY <1>7, <2>1 DEF Agree
<1> QED BY <1>1, <1>3, <1>5, <1>6, <1>8, <1>9

(* A sequence of one element.                                                *)
LEMMA OneElement ==
    ASSUME NEW X, NEW s \in X
    PROVE  /\ <<s>> \in Seq(X) /\ <<s>> # <<>> /\ Len(<<s>>) = 1 /\ <<s>>[1] = s
           /\ Last(<<s>>) = s /\ ToSet(<<s>>) = {s}
<1>1. <<s>> \in Seq(X) /\ <<s>> # <<>> /\ Len(<<s>>) = 1 /\ <<s>>[1] = s
  <2>1. <<s>> \in Seq(X)
    OBVIOUS
  <2>2. Len(<<s>>) = 1 /\ <<s>>[1] = s
    OBVIOUS
  <2>3. <<s>> # <<>>
    BY <2>2, SetOfEmpty
  <2> QED BY <2>1, <2>2, <2>3
<1>a. PICK q : q = <<s>>
  OBVIOUS
<1>2. q \in Seq(X) /\ Len(q) = 1 /\ q[1] = s
  BY <1>1, <1>a
<1>3. ToSet(q) = {q[k] : k \in 1 .. 1}
  BY <1>2, SetOfSeq
<1>4. 1 .. 1 = {1}
  OBVIOUS
<1>5. ToSet(q) = {s}
  BY <1>2, <1>3, <1>4
<1> QED BY <1>1, <1>a, <1>5 DEF Last

(* The elements of a concatenation, and its last one.                        *)
LEMMA ConcatElements ==
    ASSUME NEW X, NEW p \in Seq(X), NEW q \in Seq(X)
    PROVE  /\ p \o q \in Seq(X)
           /\ \A k \in 1 .. Len(p \o q) : (p \o q)[k] \in ToSet(p) \cup ToSet(q)
           /\ q # <<>> => p \o q # <<>> /\ Last(p \o q) = Last(q)
<1>1. PICK l \in Nat, m \in Nat : l = Len(p) /\ m = Len(q)
  OBVIOUS
<1>2. PICK r : r = p \o q
  OBVIOUS
<1>3. /\ r \in Seq(X) /\ Len(r) = l + m
      /\ \A k \in 1 .. l + m : r[k] = IF k <= l THEN p[k] ELSE q[k - l]
  BY <1>1, <1>2
<1>4. /\ \A k \in 1 .. l : p[k] \in ToSet(p)
      /\ \A k \in 1 .. m : q[k] \in ToSet(q)
      /\ (q = <<>> <=> m = 0)
  <2>1. ToSet(p) = {p[k] : k \in 1 .. l} /\ ToSet(q) = {q[k] : k \in 1 .. m}
        /\ (q = <<>> <=> m = 0)
    BY <1>1, SetOfSeq
  <2> QED BY <2>1
<1>5. ASSUME NEW k \in 1 .. l + m PROVE r[k] \in ToSet(p) \cup ToSet(q)
  <2>1. CASE k <= l
    <3>1. k \in 1 .. l /\ r[k] = p[k]
      BY <1>1, <1>3, <2>1
    <3> QED BY <1>4, <3>1
  <2>2. CASE ~(k <= l)
    <3>1. k - l \in 1 .. m /\ r[k] = q[k - l]
      BY <1>1, <1>3, <2>2
    <3> QED BY <1>4, <3>1
  <2> QED BY <2>1, <2>2
<1>6. q # <<>> => r # <<>> /\ Last(r) = Last(q)
  <2>1. SUFFICES ASSUME q # <<>> PROVE r # <<>> /\ Last(r) = Last(q)
    OBVIOUS
  <2>2. l + m \in 1 .. l + m /\ ~(l + m <= l) /\ (l + m) - l = m /\ l + m # 0
    BY <1>1, <1>4, <2>1
  <2>3. r[l + m] = q[m]
    BY <1>3, <2>2
  <2>4. r # <<>>
    BY <1>3, <2>2, SetOfEmpty
  <2> QED BY <1>1, <1>3, <2>1, <2>3, <2>4 DEF Last
<1> QED BY <1>1, <1>2, <1>3, <1>5, <1>6

\* What every state of the files has to have, and the last one.
Same(S) ==
    /\ GoodDisk(S) /\ MessagesOf(LiveIn(SourceOf(S))) = MessagesOf(LiveIn(SourceOf(disk)))
    /\ \A it \in ToSet(SourceOf(S).items) : it.msg <= written

Cleaned(S) ==
    /\ S.current.exists /\ S.current.lastAckId = 0
    /\ \E a \in Nat : /\ Numbered(S.current.items, a)
                      /\ S.current.currentId = a + Len(S.current.items)
                      /\ ~truncated /\ S.current.items = <<>> => a = 0

(* The two files without records.                                            *)
LEMMA BlankFacts ==
    /\ Blank.lastAckId = 0 /\ Blank.currentId = 0 /\ Blank.exists /\ Blank.items = <<>>
    /\ Blank \in File /\ Absent \in File
    /\ Absent.items = <<>> /\ ~Absent.exists /\ Absent.lastAckId = 0
    /\ LiveIn(Blank) = {} /\ LiveIn(Absent) = {} /\ GoodFile(Blank)
<1>1. /\ Absent \in File
      /\ Absent.items = <<>> /\ ~Absent.exists /\ Absent.lastAckId = 0 /\ Absent.currentId = 0
  <2>1. 0 \in Nat /\ FALSE \in BOOLEAN /\ <<>> \in Seq(Item)
    OBVIOUS
  <2> QED BY <2>1 DEF Absent, File
<1>2. /\ Blank \in File
      /\ Blank.lastAckId = 0 /\ Blank.currentId = 0 /\ Blank.exists /\ Blank.items = <<>>
  <2>1. PICK A : A = Absent
    OBVIOUS
  <2>2. Blank = [A EXCEPT !.exists = TRUE]
    BY <2>1 DEF Blank
  <2>3. A \in [lastAckId : Nat, currentId : Nat, exists : BOOLEAN, items : Seq(Item)]
    BY <1>1, <2>1 DEF File
  <2>4. /\ Blank \in [lastAckId : Nat, currentId : Nat, exists : BOOLEAN, items : Seq(Item)]
        /\ Blank.lastAckId = A.lastAckId /\ Blank.currentId = A.currentId
        /\ Blank.items = A.items /\ Blank.exists
    BY <2>2, <2>3
  <2> QED BY <1>1, <2>1, <2>4 DEF File
<1>3. LiveIn(Blank) = {} /\ LiveIn(Absent) = {}
  <2>1. ToSet(Blank.items) = {} /\ ToSet(Absent.items) = {}
    BY <1>1, <1>2, SetOfEmpty
  <2> QED BY <2>1 DEF LiveIn
<1>4. Numbered(<<>>, 0) /\ Agree({})
  BY SetOfEmpty DEF Numbered, Agree
<1>5. GoodFile(Blank)
  BY <1>2, <1>4, SetOfEmpty DEF GoodFile
<1> QED BY <1>1, <1>2, <1>3, <1>5

(* The copy that a clean makes of a file with acknowledged records.          *)
Copy(file) ==
    LET kept == Renumbered(Unacknowledged(file))
    IN  [Blank EXCEPT !.items = kept, !.currentId = Len(kept)]

(* The file copied has the live messages, in their order, and nothing to     *)
(* skip.                                                                     *)
LEMMA CopyFacts ==
    ASSUME NEW C \in File, GoodFile(C)
    PROVE  /\ Copy(C) \in File /\ GoodFile(Copy(C)) /\ Copy(C).exists /\ Copy(C).lastAckId = 0
           /\ MessagesOf(LiveIn(Copy(C))) = MessagesOf(LiveIn(C))
           /\ MessagesOf(ToSet(Copy(C).items)) \subseteq MessagesOf(ToSet(C.items))
           /\ Numbered(Copy(C).items, 0) /\ Copy(C).currentId = 0 + Len(Copy(C).items)
           /\ Renumbered(Unacknowledged(C)) \in Seq(Item)
<1>1. PICK q \in Seq(Item), first \in Nat :
         /\ q = Unacknowledged(C) /\ Numbered(q, first)
         /\ ToSet(q) = LiveIn(C) /\ LiveIn(C) \subseteq ToSet(C.items)
  BY UnacknowledgedFacts DEF GoodFile
<1>2. Agree(ToSet(q))
  BY <1>1 DEF GoodFile, Agree
<1>3. PICK r \in Seq(Item) :
         /\ r = Renumbered(q) /\ Numbered(r, 0) /\ MessagesOf(ToSet(r)) = MessagesOf(ToSet(q))
         /\ Agree(ToSet(r))
  BY <1>1, <1>2, RenumberedFacts
<1>4. PICK n \in Nat : n = Len(r) /\ (r = <<>> <=> n = 0) /\ 0 + n = n
  BY <1>3, SetOfSeq
<1>5. PICK D : D = Copy(C)
  OBVIOUS
<1>6. /\ D.items = r /\ D.lastAckId = 0 /\ D.exists /\ D.currentId = n /\ D \in File
  <2>1. PICK B : B = [Blank EXCEPT !.items = r]
    OBVIOUS
  <2>2. D = [B EXCEPT !.currentId = n]
    BY <1>1, <1>3, <1>4, <1>5, <2>1 DEF Copy
  <2>3. B \in File /\ B.items = r /\ B.lastAckId = 0 /\ B.exists
    BY <1>3, <2>1, BlankFacts DEF File
  <2> QED BY <1>4, <2>2, <2>3 DEF File
<1>7. LiveIn(D) = ToSet(r)
  <2>1. ASSUME NEW it \in ToSet(r) PROVE it.id > 0
    <3>1. it \in Item
      BY <1>3, SetOfSeq
    <3> QED BY <3>1 DEF Item
  <2> QED BY <1>6, <2>1 DEF LiveIn
<1>8. GoodFile(D)
  <2>1. (\E f \in Nat : Numbered(D.items, f)) /\ Agree(ToSet(D.items))
    BY <1>3, <1>6
  <2>2. D.items = <<>> => D.currentId = 0
    BY <1>4, <1>6
  <2> QED BY <2>1, <2>2 DEF GoodFile
<1>9. MessagesOf(LiveIn(C)) \subseteq MessagesOf(ToSet(C.items))
  BY <1>1 DEF MessagesOf
<1> QED BY <1>1, <1>3, <1>4, <1>5, <1>6, <1>7, <1>8, <1>9

(* A state of the files whose current file has the records of the source.    *)
LEMMA SameCurrent ==
    ASSUME PermInv, NEW S \in Disk, S.current.exists,
           S.current.items = SourceOf(disk).items,
           S.current.lastAckId = SourceOf(disk).lastAckId,
           S.current.currentId = SourceOf(disk).currentId
    PROVE  Same(S)
<1>1. /\ GoodFile(SourceOf(disk))
      /\ \A it \in ToSet(SourceOf(disk).items) : it.msg <= written
  BY DEF PermInv, GoodDisk, LiveInv
<1>2. SourceOf(S) = S.current
  BY DEF SourceOf
<1>3. GoodFile(S.current)
  BY <1>1 DEF GoodFile
<1>4. LiveIn(S.current) = LiveIn(SourceOf(disk))
  BY DEF LiveIn
<1> QED BY <1>1, <1>2, <1>3, <1>4 DEF Same, GoodDisk

(* One whose source is the copy of the live records.                         *)
LEMMA SameCopy ==
    ASSUME PermInv, NEW S \in Disk, S.current = Copy(SourceOf(disk))
    PROVE  Same(S) /\ Cleaned(S)
<1>1. PICK C : C = SourceOf(disk)
  OBVIOUS
<1>2. C \in File /\ GoodFile(C) /\ \A it \in ToSet(C.items) : it.msg <= written
  BY <1>1 DEF PermInv, GoodDisk, LiveInv, Disk, SourceOf
<1>3. /\ GoodFile(S.current) /\ S.current.exists /\ S.current.lastAckId = 0
      /\ MessagesOf(LiveIn(S.current)) = MessagesOf(LiveIn(C))
      /\ MessagesOf(ToSet(S.current.items)) \subseteq MessagesOf(ToSet(C.items))
      /\ Numbered(S.current.items, 0)
      /\ S.current.currentId = 0 + Len(S.current.items)
  BY <1>1, <1>2, CopyFacts
<1>4. SourceOf(S) = S.current
  BY <1>3 DEF SourceOf
<1>5. \A it \in ToSet(S.current.items) : it.msg <= written
  BY <1>2, <1>3 DEF MessagesOf
<1>6. Same(S)
  BY <1>1, <1>3, <1>4, <1>5 DEF Same, GoodDisk
<1> QED BY <1>3, <1>6 DEF Cleaned

(* Every state of the files has the same live messages, whichever system     *)
(* call was the last, and the last one is a file to go on with.              *)
LEMMA CleanFacts ==
    ASSUME PermInv
    PROVE  /\ CleanSteps \in Seq(Disk) /\ CleanSteps # <<>>
           /\ \A k \in 1 .. Len(CleanSteps) : Same(CleanSteps[k])
           /\ Same(Last(CleanSteps)) /\ Cleaned(Last(CleanSteps))
<1>1. /\ disk \in Disk /\ disk.current \in File /\ disk.old \in File /\ disk.new \in File
      /\ SourceOf(disk) \in File /\ GoodFile(SourceOf(disk))
  BY DEF PermInv, GoodDisk, Disk, SourceOf
<1>3. CASE ~disk.current.exists /\ ~disk.old.exists
  <2>1. PICK N : N = [disk EXCEPT !.current = Blank] /\ CleanSteps = <<N>>
    BY <1>3 DEF CleanSteps
  <2>2. N \in Disk /\ N.current = Blank
    BY <1>1, <2>1, BlankFacts DEF Disk
  <2>3. SourceOf(N) = Blank /\ SourceOf(disk) = Absent
    BY <1>3, <2>2, BlankFacts DEF SourceOf, PermInv, GoodDisk
  <2>4. Same(N)
    <3>1. GoodDisk(N)
      BY <2>2, <2>3, BlankFacts DEF GoodDisk
    <3>2. ToSet(Blank.items) = {}
      BY BlankFacts, SetOfEmpty
    <3> QED BY <2>3, <3>1, <3>2, BlankFacts DEF Same
  <2>5. Cleaned(N)
    <3>1. Numbered(<<>>, 0) /\ Len(<<>>) = 0 /\ 0 = 0 + 0 /\ 0 \in Nat
      BY SetOfEmpty DEF Numbered
    <3>2. Numbered(N.current.items, 0) /\ N.current.currentId = 0 + Len(N.current.items)
      BY <2>2, <3>1, BlankFacts
    <3> QED BY <2>2, <3>1, <3>2, BlankFacts DEF Cleaned
  <2>6. /\ <<N>> \in Seq(Disk) /\ <<N>> # <<>> /\ Len(<<N>>) = 1 /\ <<N>>[1] = N
        /\ Last(<<N>>) = N
    BY <2>2, OneElement
  <2>7. 1 .. 1 = {1}
    OBVIOUS
  <2> QED BY <2>1, <2>4, <2>5, <2>6, <2>7
<1>4. CASE disk.current.exists \/ disk.old.exists
  <2> DEFINE found == IF disk.current.exists THEN disk
                      ELSE [disk EXCEPT !.current = disk.old, !.old = Absent]
             d1    == [found EXCEPT !.old = Absent]
             d2    == [d1 EXCEPT !.new = Absent]
             kept  == Renumbered(Unacknowledged(d2.current))
             copy  == [Blank EXCEPT !.items = kept, !.currentId = Len(kept)]
             d3    == [d2 EXCEPT !.new = copy]
             d4    == [d3 EXCEPT !.current = Absent, !.old = d3.current]
             d5    == [d4 EXCEPT !.new = Absent, !.current = copy]
             d6    == [d5 EXCEPT !.old = Absent]
             d7    == [d2 EXCEPT !.current = Kept(d2.current)]
             copying == [k \in 1 .. Len(kept) + 1 |->
                          [d2 EXCEPT !.new = [Blank EXCEPT !.items = SubSeq(kept, 1, k - 1)]]]
             rest == IF d2.current.lastAckId = 0 THEN <<d7>>
                     ELSE copying \o <<d3, d4, d5, d6>>
  <2>1. CleanSteps = <<found, d1, d2>> \o rest
    BY <1>4 DEF CleanSteps
  <2>2. PICK C : C = SourceOf(disk) /\ C \in File /\ GoodFile(C) /\ C.exists
    BY <1>1, <1>4 DEF SourceOf
  <2>3. found \in Disk /\ found.current = C
    BY <1>1, <2>2, BlankFacts DEF Disk, SourceOf
  <2> HIDE DEF found
  <2>4. d1 \in Disk /\ d1.current = C
    BY <2>3, BlankFacts DEF Disk
  <2> HIDE DEF d1
  <2>5. d2 \in Disk /\ d2.current = C
    BY <2>4, BlankFacts DEF Disk
  <2> HIDE DEF d2
  <2>6. kept = Renumbered(Unacknowledged(C)) /\ copy = Copy(C) /\ kept \in Seq(Item) /\ copy \in File
        /\ copy.exists
    BY <2>2, <2>5, CopyFacts DEF Copy
  <2> HIDE DEF kept, copy
  <2>7. d3 \in Disk /\ d3.current = C
    BY <2>5, <2>6 DEF Disk
  <2> HIDE DEF d3
  <2>8. d4 \in Disk /\ d4.current = Absent /\ d4.old = C
    BY <2>7, BlankFacts DEF Disk
  <2> HIDE DEF d4
  <2>9. d5 \in Disk /\ d5.current = copy
    BY <2>6, <2>8, BlankFacts DEF Disk
  <2> HIDE DEF d5
  <2>10. d6 \in Disk /\ d6.current = copy
    BY <2>9, BlankFacts DEF Disk
  <2> HIDE DEF d6
  <2>11. \A S \in Disk : S.current = C => Same(S)
    BY <2>2, SameCurrent
  <2>12. Same(d4)
    <3>1. SourceOf(d4) = C
      BY <2>8, BlankFacts DEF SourceOf
    <3>2. GoodDisk(d4)
      BY <2>2, <2>8, <3>1 DEF GoodDisk
    <3> QED BY <2>2, <3>1, <3>2 DEF Same, PermInv, LiveInv
  <2>13. Same(d5) /\ Same(d6) /\ Cleaned(d6)
    BY <2>2, <2>6, <2>9, <2>10, SameCopy
  <2>14. <<found, d1, d2>> \in Seq(Disk) /\ \A S \in ToSet(<<found, d1, d2>>) : Same(S)
    <3>1. <<found, d1, d2>> \in Seq(Disk) /\ Len(<<found, d1, d2>>) = 3
      BY <2>3, <2>4, <2>5
    <3>2. ToSet(<<found, d1, d2>>) = {<<found, d1, d2>>[k] : k \in 1 .. 3}
      BY <3>1, SetOfSeq
    <3>3. 1 .. 3 = {1, 2, 3}
      OBVIOUS
    <3>4. ToSet(<<found, d1, d2>>) = {found, d1, d2}
      BY <3>2, <3>3
    <3> QED BY <2>3, <2>4, <2>5, <2>11, <3>1, <3>4
  <2>a. PICK h \in Seq(Disk) : h = <<found, d1, d2>> /\ \A S \in ToSet(h) : Same(S)
    BY <2>14
  <2>15. /\ rest \in Seq(Disk) /\ rest # <<>> /\ \A S \in ToSet(rest) : Same(S)
         /\ Same(Last(rest)) /\ Cleaned(Last(rest))
    <3>1. CASE d2.current.lastAckId = 0
      <4>1. PICK K : K = Kept(C)
        OBVIOUS
      <4>2. PICK n : n = IF C.items = <<>> THEN C.currentId ELSE Last(C.items).id
        OBVIOUS
      <4>3. PICK first \in Nat : C.items \in Seq(Item) /\ Numbered(C.items, first)
        BY <2>2 DEF GoodFile, File
      <4>4. PICK a \in Nat : /\ Numbered(C.items, a) /\ n = a + Len(C.items)
                             /\ ~truncated /\ C.items = <<>> => a = 0
        <5>1. CASE C.items = <<>>
          <6>1. C.currentId \in Nat /\ n = C.currentId /\ Len(C.items) = 0
                /\ C.currentId + 0 = C.currentId
            BY <2>2, <4>2, <5>1, SetOfEmpty DEF File
          <6>2. Numbered(C.items, C.currentId)
            BY <6>1 DEF Numbered
          <6>3. ~truncated => C.currentId = 0
            BY <2>2, <2>5, <3>1, <5>1 DEF GoodFile
          <6> QED BY <6>1, <6>2, <6>3
        <5>2. CASE C.items # <<>>
          <6>1. n = first + Len(C.items)
            BY <4>2, <4>3, <5>2, NumberedFacts
          <6> QED BY <4>3, <5>2, <6>1
        <5> QED BY <5>1, <5>2
      <4>5. n \in Nat
        BY <4>3, <4>4
      <4>6. /\ K \in File /\ K.items = C.items /\ K.lastAckId = 0 /\ K.currentId = n /\ K.exists
        <5>1. K = [C EXCEPT !.currentId = n]
          BY <4>1, <4>2 DEF Kept
        <5> QED BY <2>2, <2>5, <3>1, <4>5, <5>1 DEF File
      <4>7. d7 \in Disk /\ d7.current = K
        BY <2>5, <4>1, <4>6 DEF Disk
      <4> HIDE DEF d7
      <4>8. Cleaned(d7)
        BY <4>4, <4>6, <4>7 DEF Cleaned
      <4>9. Same(d7)
        <5>1. SourceOf(d7) = K
          BY <4>6, <4>7 DEF SourceOf
        <5>2. GoodFile(K)
          <6>1. ~truncated /\ K.items = <<>> => K.currentId = 0
            BY <4>2, <4>6, <2>2, <2>5, <3>1 DEF GoodFile
          <6> QED BY <2>2, <4>6, <6>1 DEF GoodFile
        <5>3. LiveIn(K) = LiveIn(C)
          BY <2>5, <3>1, <4>6 DEF LiveIn
        <5>4. \A it \in ToSet(K.items) : it.msg <= written
          BY <2>2, <4>6 DEF PermInv, LiveInv
        <5>5. GoodDisk(d7)
          BY <4>6, <4>7, <5>1, <5>2 DEF GoodDisk
        <5> QED BY <2>2, <5>1, <5>3, <5>4, <5>5 DEF Same
      <4>10. rest = <<d7>>
        BY <3>1 DEF d7
      <4> HIDE DEF rest
      <4>11. PICK q : q = <<d7>>
        OBVIOUS
      <4>12. q \in Seq(Disk) /\ q # <<>> /\ Last(q) = d7 /\ ToSet(q) = {d7}
        BY <4>7, <4>11, OneElement
      <4> QED BY <4>8, <4>9, <4>10, <4>11, <4>12
    <3>2. CASE d2.current.lastAckId # 0
      <4> DEFINE tail == <<d3, d4, d5, d6>>
      <4>1. tail \in Seq(Disk) /\ Len(tail) = 4 /\ tail # <<>> /\ Last(tail) = d6
        BY <2>7, <2>8, <2>9, <2>10 DEF Last
      <4>2. ToSet(tail) = {d3, d4, d5, d6}
        <5>1. ToSet(tail) = {tail[k] : k \in 1 .. 4}
          BY <4>1, SetOfSeq
        <5>2. 1 .. 4 = {1, 2, 3, 4}
          OBVIOUS
        <5> QED BY <5>1, <5>2
      <4>3. \A S \in ToSet(tail) : Same(S)
        BY <2>7, <2>11, <2>12, <2>13, <4>2
      <4>4. PICK m \in Nat : m = Len(kept) + 1
        BY <2>6
      <4> DEFINE part(k) == [d2 EXCEPT !.new = [Blank EXCEPT !.items = SubSeq(kept, 1, k - 1)]]
      <4>5. ASSUME NEW k \in 1 .. m PROVE part(k) \in Disk /\ part(k).current = C
        <5>1. SubSeq(kept, 1, k - 1) \in Seq(Item)
          <6>1. PICK l \in Nat : l = Len(kept) /\ m = l + 1
            BY <2>6, <4>4
          <6>2. /\ 1 \in Nat \ {0} /\ k - 1 \in Nat /\ k - 1 <= Len(kept) /\ 1 <= (k - 1) + 1
            BY <6>1
          <6> QED BY <2>6, <6>2, PartOf
        <5>2. [Blank EXCEPT !.items = SubSeq(kept, 1, k - 1)] \in File
          BY <5>1, BlankFacts DEF File
        <5> QED BY <2>5, <5>2 DEF Disk
      <4>a. copying = [k \in 1 .. m |-> part(k)]
        BY <4>4
      <4> HIDE DEF part, copying
      <4>6. copying \in Seq(Disk) /\ \A k \in 1 .. Len(copying) : copying[k].current = C
        <5>1. copying \in [1 .. m -> Disk] /\ \A k \in 1 .. m : copying[k] = part(k)
          BY <4>5, <4>a
        <5>2. copying \in Seq(Disk) /\ Len(copying) = m
          BY <4>4, <4>a, <5>1
        <5> QED BY <4>5, <5>1, <5>2
      <4> HIDE DEF copying, tail
      <4>7. \A S \in ToSet(copying) : Same(S)
        <5>1. ToSet(copying) = {copying[k] : k \in 1 .. Len(copying)} /\ ToSet(copying) \subseteq Disk
          BY <4>6, SetOfSeq
        <5> QED BY <2>11, <4>6, <5>1
      <4>8. rest = copying \o tail
        BY <3>2 DEF tail
      <4> HIDE DEF rest
      <4>9. rest \in Seq(Disk) /\ rest # <<>> /\ Last(rest) = d6
            /\ \A k \in 1 .. Len(rest) : rest[k] \in ToSet(copying) \cup ToSet(tail)
        BY <4>1, <4>6, <4>8, ConcatElements
      <4>10. ToSet(rest) = {rest[k] : k \in 1 .. Len(rest)}
        BY <4>9, SetOfSeq
      <4> QED BY <2>13, <4>3, <4>7, <4>9, <4>10
    <3> QED BY <3>1, <3>2
  <2> HIDE DEF rest
  <2>16. PICK all : all = CleanSteps /\ all = h \o rest
    BY <2>1, <2>a
  <2>17. /\ all \in Seq(Disk) /\ all # <<>> /\ Last(all) = Last(rest)
         /\ \A k \in 1 .. Len(all) : all[k] \in ToSet(h) \cup ToSet(rest)
    <3>1. h \in Seq(Disk) /\ rest \in Seq(Disk) /\ rest # <<>>
      BY <2>a, <2>15
    <3>2. /\ h \o rest \in Seq(Disk)
          /\ \A k \in 1 .. Len(h \o rest) : (h \o rest)[k] \in ToSet(h) \cup ToSet(rest)
          /\ rest # <<>> => h \o rest # <<>> /\ Last(h \o rest) = Last(rest)
      BY <3>1, ConcatElements
    <3> QED BY <2>16, <3>1, <3>2
  <2> QED BY <2>a, <2>15, <2>16, <2>17
<1> QED BY <1>3, <1>4

(* permFIFO_new() starts with what the cleaned files have.                   *)
LEMMA NewKeeps == PermInv /\ New => PermInv'
<1> SUFFICES ASSUME PermInv, New PROVE PermInv'
  OBVIOUS
<1>1. PICK S : S = disk' /\ S = Last(CleanSteps)
  BY DEF New
<1>2. /\ Same(S) /\ Cleaned(S) /\ S \in Disk
  BY <1>1, CleanFacts DEF Same, GoodDisk
<1>3. PICK c : c = S.current.currentId
  OBVIOUS
<1>4. /\ ~up /\ up' = TRUE /\ currentId' = c /\ lastIdOnDisk' = c /\ ackOnDisk' = (c # 0)
      /\ nextIdInClientTable' = 1
      /\ table_client' = <<>> /\ table_disk' = <<>> /\ input_queue' = <<>>
      /\ lastIdOut' = 0 /\ lastOutOffset' = 0
      /\ UNCHANGED <<written, acked, lost, deaths, truncated>>
      /\ table_client = <<>> /\ table_disk = <<>> /\ input_queue = <<>>
  BY <1>1, <1>3 DEF New, PermInv, DownInv
<1>5. PICK F \in Seq(Item), f \in Nat :
         /\ F = S.current.items /\ f = Len(F) /\ (F = <<>> <=> f = 0)
  <2>1. S.current.items \in Seq(Item)
    BY <1>2 DEF Disk, File
  <2> QED BY <2>1, SetOfSeq
<1>6. PICK a \in Nat :
         /\ Numbered(F, a) /\ c = a + f /\ (~truncated /\ F = <<>> => a = 0)
         /\ S.current.exists /\ S.current.lastAckId = 0
  BY <1>2, <1>3, <1>5 DEF Cleaned
<1>7. /\ c \in Nat /\ c - f = a /\ f <= c /\ a <= c /\ Larger(a, c) = c /\ c - c = 0 /\ 0 + 0 = 0
      /\ (F # <<>> => c > a)
  <2>1. c \in Nat /\ c - f = a /\ f <= c /\ a <= c /\ c - c = 0 /\ (F # <<>> => c > a)
    <3>1. /\ a \in Nat /\ f \in Nat /\ c = a + f
          /\ F # <<>> => f # 0
      BY <1>5, <1>6
    <3>2. f # 0 => c > a
      BY <3>1
    <3>3. c \in Nat /\ c - f = a /\ f <= c /\ a <= c /\ c - c = 0
      BY <3>1
    <3> QED BY <3>1, <3>2, <3>3
  <2> QED BY <1>6, <2>1 DEF Larger
<1>8. Len(<<>>) = 0 /\ ToSet(<<>>) = {} /\ size \in Nat /\ \A x : Numbered(<<>>, x)
  BY SetOfEmpty, PermanentFifoAssumption DEF Numbered
<1>9. TypeOK'
  <2>1. /\ 0 \in 0 .. c /\ 1 \in 0 .. c + 1 /\ c \in 0 .. c /\ 0 \in 0 .. f /\ 0 <= size
        /\ <<>> \in Seq(Item)
    BY <1>5, <1>7, <1>8
  <2>2. disk' \in [current : File, old : File, new : File] /\ 0 \in 0 .. Len(disk'.current.items)
    BY <1>1, <1>2, <1>5, <2>1 DEF Disk
  <2>3. /\ written' \in 0 .. MaxWritten /\ acked' \in SUBSET Msg
        /\ lost' \in SUBSET Msg /\ deaths' \in 0 .. MaxDeaths /\ truncated' \in BOOLEAN
    BY <1>4 DEF PermInv, TypeOK
  <2>4. /\ up' \in BOOLEAN /\ currentId' \in Nat /\ lastIdOut' \in 0 .. currentId'
        /\ lastOutOffset' \in 0 .. Len(disk'.current.items)
        /\ nextIdInClientTable' \in 0 .. currentId' + 1
        /\ lastIdOnDisk' \in 0 .. currentId' /\ ackOnDisk' \in BOOLEAN
    BY <1>4, <1>7, <2>1, <2>2
  <2>5. /\ table_client' \in Seq(Item) /\ Len(table_client') <= size
        /\ table_disk' \in Seq(Item) /\ Len(table_disk') <= size
        /\ input_queue' \in Seq(Item) /\ Len(input_queue') <= size
    BY <1>4, <1>8, <2>1
  <2> QED BY <2>2, <2>3, <2>4, <2>5 DEF TypeOK
<1>10. Reading(a)'
  <2>1. \/ lastIdOut' = a + Len(input_queue')
        \/ /\ lastIdOut' < a /\ lastIdOut' = 0 /\ input_queue' = <<>> /\ table_client' = <<>>
           /\ lastOutOffset' = 0
           /\ disk'.current.items # <<>> => lastIdOnDisk' - Len(disk'.current.items) = a
           /\ ~truncated => lastIdOnDisk' > a
    <3>1. CASE a = 0
      BY <1>4, <1>7, <1>8, <3>1
    <3>2. CASE a # 0
      <4>1. 0 < a
        BY <3>2
      <4> QED BY <1>1, <1>4, <1>5, <1>6, <1>7, <3>2, <4>1
    <3> QED BY <3>1, <3>2
  <2>2. /\ Numbered(input_queue', a) /\ Numbered(table_client', lastIdOut')
        /\ lastIdOut' + Len(table_client') = 0
    BY <1>4, <1>7, <1>8
  <2>3. 0 <= c /\ (1 = c + 1 => 0 = c)
    BY <1>7
  <2> QED BY <1>4, <2>1, <2>2, <2>3 DEF Reading
<1>11. Saving(a)'
  BY <1>4, <1>7, <1>8 DEF Saving
<1>12. Saved(a)'
  <2>1. F # <<>> => c # 0
    BY <1>6, <1>7
  <2>2. 0 <= a
    OBVIOUS
  <2>3. /\ disk'.current.items = F /\ disk'.current.exists /\ disk'.current.lastAckId = 0
        /\ Len(F) = f /\ lastIdOnDisk' = c /\ lastOutOffset' = 0
    BY <1>1, <1>4, <1>5, <1>6
  <2>4. Numbered(F, c - f) /\ (F # <<>> => c > a /\ ackOnDisk') /\ ~(0 > 0)
    <3>1. c - f = a /\ Numbered(F, a)
      BY <1>6, <1>7
    <3>2. F # <<>> => c > a
      BY <1>7
    <3>3. F # <<>> => ackOnDisk'
      BY <1>4, <2>1
    <3>4. ~(0 > 0)
      OBVIOUS
    <3> QED BY <3>1, <3>2, <3>3, <3>4
  <2>5. c - f <= a /\ c - f = a
    BY <1>7
  <2> QED BY <1>7, <2>2, <2>3, <2>4, <2>5 DEF Saved
<1>13. UpInv'
  <2>1. Held' = ToSet(F)
    BY <1>1, <1>4, <1>5, <1>8 DEF Held
  <2>2. Agree(ToSet(F))
    BY <1>2, <1>5, <1>6 DEF Same, GoodDisk, GoodFile, SourceOf
  <2>3. Position(a)'
    BY <1>10, <1>11, <1>12 DEF Position
  <2>4. \E b \in Nat : Position(b)'
    BY <2>3
  <2> QED BY <2>1, <2>2, <2>4 DEF UpInv, Agree
<1>14. LiveInv'
  <2>1. LiveInv /\ Live = LiveIn(SourceOf(disk))
    BY <1>4, <1>8 DEF PermInv, Live
  <2>2. Live' = LiveIn(SourceOf(S))
    BY <1>1, <1>4, <1>8 DEF Live
  <2>3. MessagesOf(Live') = MessagesOf(Live)
    BY <1>2, <2>1, <2>2 DEF Same
  <2>4. Pending' = Pending
    BY <1>4 DEF Pending
  <2>5. \A it \in ToSet(SourceOf(disk)'.items) \cup ToSet(table_disk)' : it.msg <= written'
    BY <1>1, <1>2, <1>4, <1>8 DEF Same
  <2> QED BY <1>4, <2>1, <2>3, <2>4, <2>5 DEF LiveInv
<1>15. GoodDisk(disk)' /\ DownInv'
  BY <1>1, <1>2, <1>4, GoodStays DEF Same, DownInv
<1> QED BY <1>9, <1>13, <1>14, <1>15 DEF PermInv

(* A death inside permFIFO_file_clean() leaves what was live, as each of its *)
(* system calls does.                                                        *)
LEMMA DieCleaningKeeps == PermInv /\ DieCleaning => PermInv'
<1> SUFFICES ASSUME PermInv, DieCleaning PROVE PermInv'
  OBVIOUS
<1>1. ~up /\ acked' = acked /\ truncated' = truncated /\ table_disk = <<>>
  BY DEF DieCleaning, PermInv, DownInv
<1>2. PICK k \in DOMAIN CleanSteps : Dies(CleanSteps[k])
  BY DEF DieCleaning
<1>3. PICK S : S = CleanSteps[k]
  OBVIOUS
<1>4. Same(S) /\ S \in Disk
  <2>1. k \in 1 .. Len(CleanSteps)
    BY <1>2, CleanFacts
  <2>2. Same(S)
    BY <1>3, <2>1, CleanFacts
  <2> QED BY <2>2 DEF Same, GoodDisk
<1>5. /\ Forgotten /\ disk' = S /\ written' = written /\ deaths' \in 0 .. MaxDeaths
      /\ lost' = lost \cup (MessagesOf(ToSet(table_disk)) \ MessagesOf(ToSet(S.current.items)))
  BY <1>2, <1>3, <1>4, DeathFacts
<1>6. ToSet(table_disk) = {} /\ MessagesOf(ToSet(table_disk)) = {}
  BY <1>1, SetOfEmpty DEF MessagesOf
<1>7. PICK L, M : L = MessagesOf(LiveIn(SourceOf(S))) /\ M = {}
  OBVIOUS
<1>8. L = Pending /\ L = MessagesOf(LiveIn(SourceOf(disk)))
  <2>1. Live = LiveIn(SourceOf(disk))
    BY <1>6 DEF Live
  <2> QED BY <1>4, <1>7, <2>1 DEF Same, PermInv, LiveInv
<1>9. \A it \in LiveIn(SourceOf(disk)) : it.msg \in L \cup M
  BY <1>8 DEF MessagesOf
<1>10. lost' = lost \cup (MessagesOf(ToSet(table_disk)) \ MessagesOf(ToSet(SourceOf(S).items)))
  BY <1>5, <1>6
<1>11. /\ S = disk' /\ M \subseteq Pending /\ acked' = acked \cup (M \ L)
       /\ L \subseteq Pending /\ \A it \in ToSet(SourceOf(S).items) : it.msg <= written
  BY <1>1, <1>4, <1>5, <1>7, <1>8 DEF Same
<1>13. GoodDisk(disk)' /\ truncated' \in BOOLEAN
  BY <1>1, <1>4, <1>5, GoodStays DEF Same, PermInv, TypeOK
<1>12. \A it \in ToSet(table_disk), x \in ToSet(SourceOf(S).items) : x.msg = it.msg => x.msg \in L
  BY <1>6
<1> QED BY <1>4, <1>5, <1>7, <1>9, <1>10, <1>11, <1>12, <1>13, ForgottenKeeps

(***************************************************************************)
(* permFIFO_ack().                                                         *)
(***************************************************************************)
(* The oldest item not acknowledged is the next one, and is read.            *)
LEMMA OldestFacts ==
    ASSUME PermInv, up, NEW a \in Nat, Position(a), input_queue # <<>>
    PROVE  /\ input_queue[1] \in Live /\ input_queue[1] \in Held
           /\ input_queue[1].id = a + 1 /\ a + 1 <= currentId
           /\ \A it \in Live : it.id = a + 1 <=> it.msg = input_queue[1].msg
           /\ input_queue[1].msg \in Pending
<1>1. /\ Live \subseteq Held /\ Held \subseteq Item /\ ToSet(input_queue) \subseteq Live
      /\ \A it \in Held : it.id \in 1 .. currentId
      /\ currentId \in Nat /\ Agree(Held) /\ input_queue \in Seq(Item)
  BY LiveFacts DEF PermInv, UpInv, TypeOK
<1>2. input_queue[1].id = a + 1 /\ input_queue[1] \in ToSet(input_queue)
  <2>1. Numbered(input_queue, a)
    BY DEF Position, Reading
  <2> QED BY <1>1, <2>1, NumberedTail
<1>3. input_queue[1] \in Live /\ input_queue[1] \in Held
  BY <1>1, <1>2
<1>4. a + 1 <= currentId
  BY <1>1, <1>2, <1>3
<1>5. \A it \in Live : it.id = input_queue[1].id <=> it.msg = input_queue[1].msg
  BY <1>1, <1>3, AgreeFacts
<1>6. input_queue[1].msg \in Pending
  BY <1>3 DEF PermInv, LiveInv, MessagesOf
<1> QED BY <1>2, <1>3, <1>4, <1>5, <1>6

(* The files after an acknowledgement.                                       *)
AckedDisk(S, id) ==
    /\ S \in Disk /\ S.current.exists
    /\ S.old = disk.old /\ S.new = disk.new
    /\ S.current.items = IF ackOnDisk /\ lastIdOnDisk <= id THEN <<>> ELSE disk.current.items
    /\ S.current.lastAckId = IF ackOnDisk THEN id ELSE disk.current.lastAckId
    /\ ~ackOnDisk => S = disk

(* The files inside and after permFIFO_ack().                                *)
LEMMA AckStepsFacts ==
    ASSUME PermInv, up, NEW a \in Nat, Position(a), NEW id \in Nat
    PROVE  /\ AckedDisk(Last(AckSteps(id)), id)
           /\ \A S \in Range(AckSteps(id)) :
                 \/ S = Last(AckSteps(id))
                 \/ /\ S \in Disk /\ S.current.exists /\ ackOnDisk
                    /\ S.current.items = IF lastIdOnDisk <= id THEN <<>> ELSE disk.current.items
                    /\ S.current.lastAckId = disk.current.lastAckId
                    /\ S.current.currentId = disk.current.currentId
<1>1. disk \in Disk /\ disk.current.exists /\ lastIdOnDisk \in Nat /\ disk.current.items \in Seq(Item)
  BY LiveFacts DEF Position, Saved
<1>2. CASE ~ackOnDisk
  <2>1. AckSteps(id) = <<disk>>
    BY <1>2 DEF AckSteps
  <2>2. Last(AckSteps(id)) = disk /\ Range(AckSteps(id)) = {disk}
    BY <2>1 DEF Last, Range
  <2> QED BY <1>1, <1>2, <2>2 DEF AckedDisk
<1>3. CASE ackOnDisk
  <2>1. PICK z, m :
           /\ z = [disk EXCEPT !.current.items = IF lastIdOnDisk <= id THEN <<>> ELSE @]
           /\ m = [z EXCEPT !.current.lastAckId = id, !.current.currentId = lastIdOnDisk]
    OBVIOUS
  <2>2. AckSteps(id) = <<z, m>>
    BY <1>3, <2>1 DEF AckSteps
  <2>3. Last(AckSteps(id)) = m /\ Range(AckSteps(id)) = {z, m}
    BY <2>2 DEF Last, Range
  <2>4. <<>> \in Seq(Item)
    OBVIOUS
  <2>5. /\ z \in Disk /\ z.current.exists /\ z.old = disk.old /\ z.new = disk.new
        /\ z.current.items = IF lastIdOnDisk <= id THEN <<>> ELSE disk.current.items
        /\ z.current.lastAckId = disk.current.lastAckId
        /\ z.current.currentId = disk.current.currentId
    BY <1>1, <2>1, <2>4 DEF Disk, File
  <2>6. /\ m \in Disk /\ m.current.exists /\ m.old = z.old /\ m.new = z.new
        /\ m.current.items = z.current.items /\ m.current.lastAckId = id
    BY <1>1, <2>1, <2>5 DEF Disk, File
  <2> QED BY <1>3, <2>3, <2>5, <2>6 DEF AckedDisk
<1> QED BY <1>2, <1>3

(* What an acknowledgement does to the files: they stay good, and the live   *)
(* records are those above the id.                                           *)
LEMMA AckedDiskFacts ==
    ASSUME PermInv, up, NEW a \in Nat, Position(a), NEW id \in Nat, id = a + 1,
           NEW S, AckedDisk(S, id)
    PROVE  /\ GoodDisk(S) /\ SourceOf(S) = S.current
           /\ ToSet(S.current.items) \subseteq ToSet(disk.current.items)
           /\ LiveIn(S.current) \subseteq {it \in LiveIn(disk.current) : it.id > id}
           /\ {it \in LiveIn(disk.current) : it.id > id} \subseteq LiveIn(S.current)
<1>1. /\ disk.current \in File /\ GoodFile(disk.current) /\ S \in Disk /\ S.current \in File
      /\ lastIdOnDisk \in Nat /\ disk.current.lastAckId \in Nat
      /\ disk.current.items \in Seq(Item) /\ ToSet(disk.current.items) \subseteq Item
      /\ \A it \in ToSet(disk.current.items) : it.id <= lastIdOnDisk /\ it.id \in Nat
      /\ disk.current.lastAckId <= a
  <2>1. /\ disk.current \in File /\ SourceOf(disk) = disk.current /\ lastIdOnDisk \in 0 .. currentId
        /\ Held \subseteq Item /\ currentId \in Nat
        /\ \A it \in ToSet(disk.current.items) : it.id <= lastIdOnDisk
    BY LiveFacts
  <2>2. ToSet(disk.current.items) \subseteq Item
    BY <2>1 DEF Held
  <2>3. \A it \in ToSet(disk.current.items) : it.id \in Nat
    BY <2>2 DEF Item
  <2>4. disk.current.lastAckId <= a
    BY DEF Position, Saved
  <2>5. GoodFile(disk.current)
    BY <2>1 DEF PermInv, GoodDisk
  <2>6. S \in Disk /\ S.current \in File
    BY DEF AckedDisk, Disk
  <2>7. lastIdOnDisk \in Nat
    BY <2>1
  <2> QED BY <2>1, <2>2, <2>3, <2>4, <2>5, <2>6, <2>7 DEF File
<1>2. PICK F : F = disk.current.items
  OBVIOUS
<1>3. PICK G : G = S.current.items
  OBVIOUS
<1>4. SourceOf(S) = S.current /\ S.current.exists
  BY DEF AckedDisk, SourceOf
<1>5. CASE ~ackOnDisk
  <2>1. S = disk
    BY <1>5 DEF AckedDisk
  <2>2. F = <<>> /\ ToSet(F) = {}
    <3>1. F # <<>> => ackOnDisk
      BY <1>2 DEF Position, Saved
    <3> QED BY <1>5, <3>1, SetOfEmpty
  <2>3. GoodDisk(S)
    BY <2>1 DEF PermInv
  <2> QED BY <1>2, <1>4, <2>1, <2>2, <2>3 DEF LiveIn
<1>6. CASE ackOnDisk
  <2>1. S.current.lastAckId = id /\ id # 0
    BY <1>6 DEF AckedDisk
  <2>2. G = IF lastIdOnDisk <= id THEN <<>> ELSE F
    BY <1>2, <1>3, <1>6 DEF AckedDisk
  <2>3. CASE lastIdOnDisk <= id
    <3>1. G = <<>> /\ ToSet(G) = {}
      BY <2>2, <2>3, SetOfEmpty
    <3>2. ASSUME NEW it \in ToSet(F), it.id > id PROVE FALSE
      <4>1. it.id <= lastIdOnDisk /\ it.id \in Nat
        BY <1>1, <1>2
      <4> QED BY <1>1, <2>3, <3>2, <4>1
    <3>3. GoodFile(S.current)
      <4>1. Numbered(<<>>, 0)
        BY SetOfEmpty DEF Numbered
      <4>2. Agree(ToSet(G)) /\ 0 \in Nat
        BY <3>1 DEF Agree
      <4> QED BY <1>3, <2>1, <3>1, <4>1, <4>2 DEF GoodFile
    <3>4. GoodDisk(S)
      BY <1>1, <1>4, <3>3 DEF GoodDisk
    <3> QED BY <1>2, <1>3, <1>4, <2>1, <3>1, <3>2, <3>4 DEF LiveIn
  <2>4. CASE ~(lastIdOnDisk <= id)
    <3>1. G = F
      BY <2>2, <2>4
    <3>2. GoodFile(S.current)
      BY <1>1, <1>2, <1>3, <2>1, <3>1 DEF GoodFile
    <3>3. GoodDisk(S)
      BY <1>1, <1>4, <3>2 DEF GoodDisk
    <3>4. ASSUME NEW it \in ToSet(F), it.id > id PROVE it.id > disk.current.lastAckId
      <4>1. it.id \in Nat
        BY <1>1, <1>2
      <4> QED BY <1>1, <3>4, <4>1
    <3>5. LiveIn(S.current) = {it \in ToSet(F) : it.id > id}
      BY <1>3, <2>1, <3>1 DEF LiveIn
    <3>6. LiveIn(disk.current) = {it \in ToSet(F) : it.id > disk.current.lastAckId}
      BY <1>2 DEF LiveIn
    <3> QED BY <1>2, <1>3, <1>4, <3>1, <3>3, <3>4, <3>5, <3>6
  <2> QED BY <2>3, <2>4
<1> QED BY <1>5, <1>6

(* An acknowledgement takes one message out of the pending ones.             *)
LEMMA AckKeeps == PermInv /\ Ack => PermInv'
<1> SUFFICES ASSUME PermInv, Ack PROVE PermInv'
  OBVIOUS
<1>1. up /\ input_queue # <<>>
  BY DEF Ack
<1>2. PICK a \in Nat : Position(a)
  BY <1>1 DEF PermInv, UpInv
<1>3. PICK id \in Nat : id = a + 1 /\ id = input_queue[1].id
  BY <1>1, <1>2, OldestFacts
<1>4. PICK drops \in BOOLEAN : drops <=> (ackOnDisk /\ lastIdOnDisk <= id)
  OBVIOUS
<1>5. PICK S : S = disk' /\ S = Last(AckSteps(id))
  BY <1>3 DEF Ack
<1>6. AckedDisk(S, id)
  BY <1>1, <1>2, <1>5, AckStepsFacts
<1>7. /\ table_disk' = Above(table_disk, id)
      /\ lastOutOffset' = IF drops THEN 0 ELSE lastOutOffset
      /\ ackOnDisk' = (ackOnDisk /\ ~drops)
      /\ acked' = acked \cup {input_queue[1].msg}
      /\ input_queue' = Tail(input_queue)
      /\ UNCHANGED <<up, table_client, currentId, lastIdOut, nextIdInClientTable, lastIdOnDisk,
                     written, lost, deaths, truncated>>
  BY <1>3, <1>4 DEF Ack
<1>8. /\ TypeOK /\ currentId \in Nat /\ lastIdOnDisk \in 0 .. currentId
      /\ disk.current \in File /\ disk.current.items \in Seq(Item) /\ table_disk \in Seq(Item)
      /\ SourceOf(disk) = disk.current
      /\ lastOutOffset \in 0 .. Len(disk.current.items) /\ size \in Nat \ {0}
      /\ input_queue \in Seq(Item) /\ Len(table_disk) <= size /\ Len(input_queue) <= size
      /\ lastIdOut \in Nat /\ ackOnDisk \in BOOLEAN
  BY <1>1, <1>2, LiveFacts, PermanentFifoAssumption DEF PermInv, TypeOK
<1>9. PICK T \in Seq(Item), F \in Seq(Item) : T = table_disk /\ F = disk.current.items
  BY <1>8
<1>10. PICK f \in Nat, n \in Nat, D \in Nat, c \in Nat, o \in Nat :
          /\ f = Len(F) /\ n = Len(T) /\ D = lastIdOnDisk /\ c = currentId /\ o = lastOutOffset
          /\ D <= c /\ o <= f /\ id <= c /\ (F = <<>> <=> f = 0) /\ n <= size
  <2>1. Len(F) \in Nat /\ Len(T) \in Nat /\ (F = <<>> <=> Len(F) = 0)
    BY SetOfSeq
  <2>2. a + 1 <= currentId
    BY <1>1, <1>2, OldestFacts
  <2>3. /\ lastOutOffset \in Nat /\ lastOutOffset <= Len(F)
        /\ lastIdOnDisk \in Nat /\ lastIdOnDisk <= currentId
    BY <1>8, <1>9, <2>1
  <2> QED BY <1>3, <1>8, <1>9, <2>1, <2>2, <2>3
<1>11. PICK p \in Nat : p = Larger(a, D) /\ p + n = c /\ Numbered(T, p)
  <2>1. n = c - Larger(a, D) /\ Numbered(T, c - n)
    BY <1>2, <1>9, <1>10 DEF Position, Saving
  <2>2. PICK p \in Nat : p = Larger(a, D)
    BY DEF Larger
  <2>3. p + n = c /\ c - n = p
    BY <1>10, <2>1, <2>2
  <2> QED BY <2>1, <2>2, <2>3
<1>12. PICK k \in 0 .. n, U \in Seq(Item) :
          /\ U = table_disk' /\ Len(U) = n - k /\ Numbered(U, p + k)
          /\ ToSet(U) = {it \in ToSet(T) : it.id > id}
          /\ id <= p => k = 0
          /\ id \in p .. p + n => k = id - p
  <2>1. \E k \in 0 .. Len(T) :
              /\ Above(T, id) = SubSeq(T, k + 1, Len(T)) /\ Above(T, id) \in Seq(Item)
              /\ Len(Above(T, id)) = Len(T) - k /\ Numbered(Above(T, id), p + k)
              /\ ToSet(Above(T, id)) = {it \in ToSet(T) : it.id > id}
              /\ id <= p => k = 0
              /\ id >= p + Len(T) => k = Len(T)
              /\ id \in p .. p + Len(T) => k = id - p
    <3>1. T \in Seq(Item) /\ p \in Nat /\ id \in Nat /\ Numbered(T, p)
      BY <1>3, <1>9, <1>11
    <3> QED BY <3>1, AboveNumbered
  <2> QED BY <1>7, <1>9, <1>10, <2>1
<1>13. PICK u \in Nat : /\ u = Len(U) /\ u <= size /\ Numbered(U, c - u)
                        /\ u = c - Larger(id, D)
  <2>1. PICK u \in Nat : u = n - k
    BY <1>12
  <2>2. c - u = p + k
    <3>1. k \in Nat /\ n \in Nat /\ p \in Nat /\ c = p + n /\ u = n - k
      BY <1>10, <1>11, <1>12, <2>1
    <3> QED BY <3>1
  <2>3. u = c - Larger(id, D)
    <3>1. CASE id <= D
      <4>1. p = D /\ k = 0 /\ Larger(id, D) = D
        BY <1>3, <1>11, <1>12, <3>1 DEF Larger
      <4> QED BY <1>11, <2>1, <4>1
    <3>2. CASE D < id
      <4>1. p = a /\ Larger(id, D) = id
        BY <1>3, <1>11, <3>2 DEF Larger
      <4>2. id \in p .. p + n
        BY <1>3, <1>10, <1>11, <4>1
      <4>3. k = id - p
        BY <1>12, <4>2
      <4> QED BY <1>11, <2>1, <4>1, <4>3
    <3> QED BY <1>3, <1>10, <3>1, <3>2
  <2>4. u <= size
    BY <1>8, <1>10, <1>12, <2>1
  <2> QED BY <1>12, <2>1, <2>2, <2>3, <2>4
<1>14. Saving(id)'
  BY <1>7, <1>9, <1>10, <1>12, <1>13 DEF Saving
<1>15. /\ input_queue' \in Seq(Item) /\ Len(input_queue') <= size /\ Reading(id)'
       /\ ToSet(input_queue') \subseteq ToSet(input_queue)
  <2>1. /\ Numbered(input_queue, a) /\ Numbered(table_client, lastIdOut)
        /\ lastIdOut + Len(table_client) <= currentId
        /\ nextIdInClientTable = currentId + 1 => lastIdOut + Len(table_client) = currentId
        /\ lastIdOut = a + Len(input_queue)
    BY <1>1, <1>2 DEF Position, Reading
  <2>2. /\ Numbered(Tail(input_queue), a + 1) /\ Tail(input_queue) \in Seq(Item)
        /\ Len(Tail(input_queue)) = Len(input_queue) - 1 /\ Len(input_queue) \in Nat \ {0}
        /\ ToSet(input_queue) = {input_queue[1]} \cup ToSet(Tail(input_queue))
    BY <1>1, <1>8, <2>1, NumberedTail
  <2>3. a + Len(input_queue) = id + (Len(input_queue) - 1) /\ Len(input_queue) - 1 <= size
    <3>1. PICK l \in Nat : l = Len(input_queue)
      BY <2>2
    <3>2. l <= size /\ size \in Nat
      BY <1>8, <3>1
    <3> QED BY <1>2, <1>3, <3>1, <3>2
  <2>4. lastIdOut' = id + Len(input_queue')
    BY <1>7, <2>1, <2>2, <2>3
  <2>5. Reading(id)'
    BY <1>3, <1>7, <2>1, <2>2, <2>4 DEF Reading
  <2> QED BY <1>7, <2>2, <2>3, <2>5
<1>16. /\ GoodDisk(S) /\ SourceOf(S) = S.current /\ S.current \in File
       /\ ToSet(S.current.items) \subseteq ToSet(F)
       /\ LiveIn(S.current) = {it \in LiveIn(disk.current) : it.id > id}
  <2>1. /\ GoodDisk(S) /\ SourceOf(S) = S.current
        /\ ToSet(S.current.items) \subseteq ToSet(disk.current.items)
        /\ LiveIn(S.current) \subseteq {it \in LiveIn(disk.current) : it.id > id}
        /\ {it \in LiveIn(disk.current) : it.id > id} \subseteq LiveIn(S.current)
    BY <1>1, <1>2, <1>3, <1>6, AckedDiskFacts
  <2> QED BY <1>9, <2>1 DEF GoodDisk, Disk
<1>17. PICK G \in Seq(Item), g \in Nat :
          /\ G = S.current.items /\ g = Len(G)
          /\ G = IF drops THEN <<>> ELSE F
          /\ g = IF drops THEN 0 ELSE f
          /\ S.current.exists
          /\ S.current.lastAckId = IF ackOnDisk THEN id ELSE disk.current.lastAckId
  <2>1. S.current.items = IF drops THEN <<>> ELSE F
    BY <1>4, <1>6, <1>9 DEF AckedDisk
  <2>2. S.current.items \in Seq(Item) /\ Len(<<>>) = 0
    BY <1>16, SetOfEmpty DEF File
  <2>3. Len(S.current.items) = IF drops THEN 0 ELSE f
    BY <1>10, <2>1, <2>2
  <2> QED BY <1>6, <1>10, <2>1, <2>2, <2>3 DEF AckedDisk
<1>18. Saved(id)'
  <2>1. /\ f <= D /\ Numbered(F, D - f)
        /\ F # <<>> => D > a /\ ackOnDisk
        /\ D > a => D - f <= a
        /\ disk.current.lastAckId <= a
        /\ o > 0 => D - f + o <= lastIdOut + Len(table_client)
    BY <1>2, <1>9, <1>10 DEF Position, Saved
  <2>2. /\ disk'.current.items = G /\ disk'.current.exists /\ Len(G) = g /\ lastIdOnDisk' = D
        /\ lastIdOut' = lastIdOut /\ table_client' = table_client
    BY <1>5, <1>7, <1>10, <1>17
  <2>3. S.current.lastAckId <= id
    <3>1. disk.current.lastAckId \in Nat
      BY <1>8 DEF File
    <3> QED BY <1>3, <1>17, <2>1, <3>1
  <2>4. CASE drops
    <3>1. G = <<>> /\ g = 0 /\ ~(D > id) /\ lastOutOffset' = 0 /\ ~(0 > 0)
      BY <1>3, <1>4, <1>7, <1>10, <1>17, <2>4
    <3>2. Numbered(<<>>, D) /\ 0 <= D /\ D - 0 = D
      BY SetOfEmpty DEF Numbered
    <3>3. G = <<>> /\ g = 0 /\ g <= D /\ Numbered(G, D - g)
      BY <3>1, <3>2
    <3>4. disk'.current.lastAckId <= id
      BY <1>5, <2>3
    <3> QED BY <2>2, <3>1, <3>3, <3>4 DEF Saved
  <2>5. CASE ~drops /\ ~ackOnDisk
    <3>1. F = <<>> /\ f = 0 /\ o = 0 /\ g = 0 /\ G = <<>>
      BY <1>10, <1>17, <2>1, <2>5
    <3>2. ~(D > id)
      BY <1>3, <2>1, <3>1
    <3>3. lastOutOffset' = 0 /\ ~(0 > 0)
      BY <1>7, <1>10, <2>5, <3>1
    <3>4. G = <<>> /\ g <= D /\ Numbered(G, D - g)
      BY <1>17, <2>1, <2>5, <3>1
    <3>5. disk'.current.lastAckId <= id
      BY <1>5, <2>3
    <3> QED BY <2>2, <3>2, <3>3, <3>4, <3>5 DEF Saved
  <2>6. CASE ~drops /\ ackOnDisk
    <3>1. G = F /\ g = f /\ D > id /\ ackOnDisk' /\ lastOutOffset' = o
      <4>1. ~(D <= id)
        BY <1>4, <1>10, <2>6
      <4>2. D > id
        BY <1>3, <1>10, <4>1
      <4>3. ackOnDisk' /\ lastOutOffset' = o
        BY <1>7, <1>10, <2>6
      <4> QED BY <1>17, <2>6, <4>2, <4>3
    <3>2. /\ g <= D /\ Numbered(G, D - g) /\ D - g <= id
          /\ o > 0 => D - g + o <= lastIdOut + Len(table_client)
      <4>1. D - f <= id
        BY <1>3, <2>1, <3>1
      <4> QED BY <2>1, <3>1, <4>1
    <3>3. disk'.current.lastAckId <= id /\ ~(disk'.current.lastAckId < id)
      BY <1>5, <1>17, <2>6
    <3> QED BY <2>2, <3>1, <3>2, <3>3 DEF Saved
  <2> QED BY <2>4, <2>5, <2>6
<1>19. ToSet(U) = ToSet(table_disk)' /\ ToSet(U) \subseteq ToSet(table_disk)
  BY <1>9, <1>12
<1>20. UpInv'
  <2>1. Held' \subseteq Held
    <3>1. ToSet(disk.current.items)' \subseteq ToSet(disk.current.items)
      BY <1>5, <1>9, <1>16
    <3>2. ToSet(input_queue)' \subseteq ToSet(input_queue) /\ ToSet(table_client)' = ToSet(table_client)
      BY <1>7, <1>15
    <3> QED BY <1>19, <3>1, <3>2 DEF Held
  <2>2. Agree(Held)
    BY <1>1 DEF PermInv, UpInv
  <2>3. Agree(Held)'
    BY <2>1, <2>2 DEF Agree
  <2>4. \E b \in Nat : Position(b)'
    BY <1>14, <1>15, <1>18 DEF Position
  <2> QED BY <2>3, <2>4 DEF UpInv
<1>21. LiveInv'
  <2>1. LiveInv /\ Live = LiveIn(disk.current) \cup ToSet(table_disk)
    BY <1>8 DEF PermInv, Live
  <2>2. PICK m : /\ m = input_queue[1].msg /\ m \in Pending
                 /\ \A it \in Live : it.id = id <=> it.msg = m
    BY <1>1, <1>2, <1>3, OldestFacts
  <2>3. Live' = LiveIn(S.current) \cup ToSet(U)
    BY <1>5, <1>16, <1>19 DEF Live
  <2>4. Live' = {it \in Live : it.id > id}
    BY <1>9, <1>12, <1>16, <2>1, <2>3
  <2>5. \A it \in Live : it.id > id <=> it.msg # m
    <3>1. \A it \in Live : it.id \in a + 1 .. currentId
      BY <1>1, <1>2, LiveFacts
    <3>2. \A it \in Live : it.id > id <=> it.id # id
      BY <1>3, <1>8, <3>1
    <3> QED BY <2>2, <3>2
  <2>6. MessagesOf(Live') = MessagesOf(Live) \ {m}
    BY <2>4, <2>5 DEF MessagesOf
  <2>7. Pending' = Pending \ {m}
    BY <1>7, <2>2 DEF Pending
  <2>8. Pending' = MessagesOf(Live)'
    BY <2>1, <2>6, <2>7 DEF LiveInv
  <2>9. (acked \cap MessagesOf(Live))' = {}
    BY <2>8 DEF Pending
  <2>10. (acked \cup lost)' \subseteq 1 .. written'
    BY <1>7, <2>1, <2>2 DEF LiveInv, Pending
  <2>11. \A it \in ToSet(SourceOf(disk).items)' \cup ToSet(table_disk)' : it.msg <= written'
    <3>1. \A it \in ToSet(F) \cup ToSet(table_disk) : it.msg <= written
      BY <1>8, <1>9, <2>1 DEF LiveInv
    <3>2. ToSet(SourceOf(disk).items)' = ToSet(S.current.items)
      BY <1>5, <1>16
    <3> QED BY <1>7, <1>16, <1>19, <3>1, <3>2
  <2> QED BY <2>8, <2>9, <2>10, <2>11 DEF LiveInv
<1>22. TypeOK'
  <2>1. disk' \in [current : File, old : File, new : File]
    BY <1>5, <1>16 DEF GoodDisk, Disk
  <2>2. lastOutOffset' \in 0 .. Len(disk'.current.items)
    <3>1. lastOutOffset' \in 0 .. g
      BY <1>7, <1>10, <1>17
    <3> QED BY <1>5, <1>17, <3>1
  <2>3. table_disk' \in Seq(Item) /\ Len(table_disk') <= size
    BY <1>12, <1>13
  <2>4. acked' \in SUBSET Msg /\ ackOnDisk' \in BOOLEAN
    <3>1. input_queue[1] \in Item
      <4>1. Numbered(input_queue, a)
        BY <1>2 DEF Position, Reading
      <4> QED BY <1>1, <1>8, <4>1, NumberedTail
    <3> QED BY <1>7, <1>8, <3>1 DEF TypeOK, Item
  <2> QED BY <1>7, <1>8, <1>15, <2>1, <2>2, <2>3, <2>4 DEF TypeOK
<1>23. GoodDisk(disk)'
  BY <1>5, <1>7, <1>16, GoodStays
<1>24. DownInv'
  BY <1>1, <1>7 DEF DownInv
<1> QED BY <1>20, <1>21, <1>22, <1>23, <1>24 DEF PermInv

(* A death inside permFIFO_ack() leaves files that are good, and the live    *)
(* records but for the one acknowledged.                                     *)
LEMMA HalfAckedFacts ==
    ASSUME PermInv, up, NEW a \in Nat, Position(a), NEW id \in Nat, id = a + 1,
           id = input_queue[1].id, NEW S \in Range(AckSteps(id)),
           disk' = S, truncated' = (truncated \/ Truncated(S))
    PROVE  /\ GoodDisk(disk)' /\ S \in Disk /\ truncated' \in BOOLEAN
           /\ SourceOf(S) = S.current /\ S.current \in File
           /\ \E first \in Nat : Numbered(S.current.items, first)
           /\ Agree(ToSet(S.current.items))
           /\ ToSet(S.current.items) \subseteq ToSet(disk.current.items)
           /\ LiveIn(S.current) \subseteq LiveIn(disk.current)
           /\ {it \in LiveIn(disk.current) : it.id > id} \subseteq LiveIn(S.current)
<1>a. truncated \in BOOLEAN /\ truncated' \in BOOLEAN
  BY DEF PermInv, TypeOK
<1>b. SUFFICES ASSUME TRUE
      PROVE  /\ GoodDisk(S) \/ (S \in Disk /\ GoodDisk(disk)')
             /\ SourceOf(S) = S.current
             /\ \E first \in Nat : Numbered(S.current.items, first)
             /\ Agree(ToSet(S.current.items))
             /\ ToSet(S.current.items) \subseteq ToSet(disk.current.items)
             /\ LiveIn(S.current) \subseteq LiveIn(disk.current)
             /\ {it \in LiveIn(disk.current) : it.id > id} \subseteq LiveIn(S.current)
  <2>1. GoodDisk(S) => S \in Disk /\ GoodDisk(disk)'
    <3>1. GoodFile(SourceOf(S)) => GoodFile(SourceOf(disk))'
      BY <1>a DEF GoodFile
    <3> QED BY <3>1 DEF GoodDisk
  <2>2. S \in Disk => S.current \in File
    BY DEF Disk
  <2> QED BY <1>a, <1>b, <2>1, <2>2
<1>1. CASE S = Last(AckSteps(id))
  <2>1. AckedDisk(S, id)
    BY <1>1, AckStepsFacts
  <2>2. /\ GoodDisk(S) /\ SourceOf(S) = S.current
        /\ ToSet(S.current.items) \subseteq ToSet(disk.current.items)
        /\ LiveIn(S.current) \subseteq {it \in LiveIn(disk.current) : it.id > id}
        /\ {it \in LiveIn(disk.current) : it.id > id} \subseteq LiveIn(S.current)
    BY <2>1, AckedDiskFacts
  <2>3. (\E first \in Nat : Numbered(S.current.items, first)) /\ Agree(ToSet(S.current.items))
    BY <2>2 DEF GoodDisk, GoodFile
  <2> QED BY <2>2, <2>3
<1>2. CASE S # Last(AckSteps(id))
  <2>1. /\ S \in Disk /\ S.current.exists
        /\ S.current.items = IF lastIdOnDisk <= id THEN <<>> ELSE disk.current.items
        /\ S.current.lastAckId = disk.current.lastAckId
        /\ S.current.currentId = disk.current.currentId
    BY <1>2, AckStepsFacts
  <2>2. SourceOf(S) = S.current /\ S.current \in File
    BY <2>1 DEF SourceOf, Disk
  <2>3. GoodFile(disk.current)
    BY LiveFacts DEF PermInv, GoodDisk
  <2>4. CASE ~(lastIdOnDisk <= id)
    <3>1. GoodFile(S.current) /\ S.current.items = disk.current.items
      BY <2>1, <2>3, <2>4 DEF GoodFile
    <3>2. GoodDisk(S)
      BY <2>1, <2>2, <3>1 DEF GoodDisk
    <3>3. (\E first \in Nat : Numbered(S.current.items, first)) /\ Agree(ToSet(S.current.items))
      BY <3>1 DEF GoodFile
    <3> QED BY <2>1, <2>2, <3>1, <3>2, <3>3 DEF LiveIn
  <2>5. CASE lastIdOnDisk <= id
    <3>1. S.current.items = <<>> /\ ToSet(S.current.items) = {} /\ truncated'
      BY <1>2, <2>1, <2>5, SetOfEmpty DEF Truncated
    <3>2. /\ \E first \in Nat : Numbered(S.current.items, first)
          /\ Agree(ToSet(S.current.items))
          /\ GoodDisk(disk)'
      <4>1. Numbered(<<>>, 0) /\ 0 \in Nat
        BY SetOfEmpty DEF Numbered
      <4>2. Agree(ToSet(S.current.items))
        BY <3>1 DEF Agree
      <4>3. GoodFile(SourceOf(disk))'
        BY <2>2, <3>1, <4>1, <4>2 DEF GoodFile
      <4> QED BY <2>1, <3>1, <4>1, <4>2, <4>3 DEF GoodDisk
    <3>3. ASSUME NEW it \in ToSet(disk.current.items), it.id > id PROVE FALSE
      <4>1. /\ it.id <= lastIdOnDisk /\ lastIdOnDisk \in 0 .. currentId /\ currentId \in Nat
            /\ Held \subseteq Item
        BY LiveFacts
      <4>2. it.id \in Nat
        BY <4>1 DEF Held, Item
      <4> QED BY <2>5, <3>3, <4>1, <4>2
    <3> QED BY <2>1, <2>2, <3>1, <3>2, <3>3 DEF LiveIn
  <2> QED BY <2>4, <2>5
<1> QED BY <1>1, <1>2

(* A death before or inside permFIFO_ack().                                  *)
LEMMA DieAcknowledgingKeeps == PermInv /\ DieAcknowledging => PermInv'
<1> SUFFICES ASSUME PermInv, DieAcknowledging PROVE PermInv'
  OBVIOUS
<1>1. up /\ input_queue # <<>>
  BY DEF DieAcknowledging
<1>2. PICK a \in Nat : Position(a)
  BY <1>1 DEF PermInv, UpInv
<1>3. PICK id \in Nat : id = a + 1 /\ id = input_queue[1].id
  BY <1>1, <1>2, OldestFacts
<1>4. PICK m : /\ m = input_queue[1].msg /\ m \in Pending
               /\ \A it \in Live : it.id = id <=> it.msg = m
  BY <1>1, <1>2, <1>3, OldestFacts
<1>5. PICK S \in Range(AckSteps(id)) :
         /\ Dies(S) /\ disk' = S
         /\ truncated' = (truncated \/ Truncated(S))
         /\ acked' = acked \cup ({m} \ Messages(Unacknowledged(S.current)))
  BY <1>3, <1>4 DEF DieAcknowledging, Dies
<1>6. /\ GoodDisk(disk)' /\ S \in Disk /\ truncated' \in BOOLEAN
      /\ SourceOf(S) = S.current /\ S.current \in File
      /\ \E first \in Nat : Numbered(S.current.items, first)
      /\ Agree(ToSet(S.current.items))
      /\ ToSet(S.current.items) \subseteq ToSet(disk.current.items)
      /\ LiveIn(S.current) \subseteq LiveIn(disk.current)
      /\ {it \in LiveIn(disk.current) : it.id > id} \subseteq LiveIn(S.current)
  BY <1>1, <1>2, <1>3, <1>5, HalfAckedFacts
<1>7. PICK L, M : L = MessagesOf(LiveIn(SourceOf(S))) /\ M = {m}
  OBVIOUS
<1>8. acked' = acked \cup (M \ L) /\ M \subseteq Pending
  <2>2. Messages(Unacknowledged(S.current)) = MessagesOf(LiveIn(S.current))
    BY <1>6, UnacknowledgedFacts
  <2> QED BY <1>4, <1>5, <1>6, <1>7, <2>2
<1>9. /\ Forgotten /\ disk' = S /\ written' = written /\ deaths' \in 0 .. MaxDeaths
      /\ lost' = lost \cup (MessagesOf(ToSet(table_disk)) \ MessagesOf(ToSet(S.current.items)))
  BY <1>5, <1>6, DeathFacts
<1>10. /\ SourceOf(disk) = disk.current /\ Held \subseteq Item /\ Live \subseteq Held
       /\ LiveInv /\ Agree(Held) /\ currentId \in Nat /\ lastIdOnDisk \in 0 .. currentId
       /\ \A it \in Live : it.id \in a + 1 .. currentId
       /\ \A it \in ToSet(table_disk) : it.id > lastIdOnDisk
       /\ \A it \in ToSet(disk.current.items) : it.id <= lastIdOnDisk
       /\ LiveIn(disk.current) \subseteq Live
  BY <1>1, <1>2, LiveFacts DEF PermInv, UpInv, Live
<1>11. L \subseteq Pending
  BY <1>6, <1>7, <1>10 DEF LiveInv, MessagesOf
<1>12. \A it \in LiveIn(SourceOf(disk)) : it.msg \in L \cup M
  <2>1. SUFFICES ASSUME NEW it \in LiveIn(disk.current) PROVE it.msg \in L \cup M
    BY <1>10
  <2>2. it \in Live /\ it.id \in a + 1 .. currentId
    BY <1>10
  <2>3. CASE it.id = id
    BY <1>4, <1>7, <2>2, <2>3
  <2>4. CASE it.id # id
    <3>1. it.id > id
      BY <1>2, <1>3, <1>10, <2>2, <2>4
    <3>2. it \in LiveIn(S.current)
      BY <1>6, <3>1
    <3> QED BY <1>6, <1>7, <3>2 DEF MessagesOf
  <2> QED BY <2>3, <2>4
<1>13. ASSUME NEW it \in ToSet(table_disk), NEW x \in ToSet(SourceOf(S).items), x.msg = it.msg
       PROVE  x.msg \in L
  <2>1. x \in ToSet(disk.current.items) /\ x \in Held /\ it \in Held
    BY <1>6 DEF Held
  <2>2. x.id = it.id /\ it.id \in Nat
    BY <1>10, <1>13, <2>1, AgreeFacts
  <2>3. it.id > lastIdOnDisk /\ it.id <= lastIdOnDisk /\ lastIdOnDisk \in Nat
    BY <1>10, <2>1, <2>2
  <2> QED BY <2>2, <2>3
<1>14. \A it \in ToSet(SourceOf(S).items) : it.msg <= written
  BY <1>6, <1>10 DEF LiveInv
<1>15. lost' = lost \cup (MessagesOf(ToSet(table_disk)) \ MessagesOf(ToSet(SourceOf(S).items)))
  BY <1>6, <1>9
<1> QED BY <1>6, <1>7, <1>8, <1>9, <1>11, <1>12, <1>13, <1>14, <1>15, ForgottenKeeps

(***************************************************************************)
(* Every step keeps the invariant.                                         *)
(***************************************************************************)
(* There are no files and no process at first.                               *)
LEMMA PermInitInv == PermInit => PermInv
<1> SUFFICES ASSUME PermInit PROVE PermInv
  OBVIOUS
<1>1. /\ size \in Nat \ {0} /\ MaxWritten \in Nat /\ MaxDeaths \in Nat
      /\ Len(<<>>) = 0 /\ ToSet(<<>>) = {} /\ <<>> \in Seq(Item)
  BY PermanentFifoAssumption, SetOfEmpty
<1>2. Absent \in File /\ Absent.items = <<>> /\ Absent.exists = FALSE /\ Absent.lastAckId = 0
      /\ Absent.currentId = 0
  BY <1>1 DEF Absent, File
<1>3. /\ disk \in [current : File, old : File, new : File]
      /\ disk.current = Absent /\ disk.old = Absent
  BY <1>2 DEF PermInit
<1>4. TypeOK
  <2>1. up \in BOOLEAN /\ ackOnDisk \in BOOLEAN /\ truncated \in BOOLEAN
    BY DEF PermInit
  <2>4. /\ currentId \in Nat /\ lastIdOut \in 0 .. currentId
        /\ nextIdInClientTable \in 0 .. currentId + 1 /\ lastIdOnDisk \in 0 .. currentId
        /\ written \in 0 .. MaxWritten /\ deaths \in 0 .. MaxDeaths
    <3>1. /\ currentId = 0 /\ lastIdOut = 0 /\ nextIdInClientTable = 0 /\ lastIdOnDisk = 0
          /\ written = 0 /\ deaths = 0
      BY DEF PermInit
    <3> QED BY <1>1, <3>1
  <2>5. acked \in SUBSET Msg /\ lost \in SUBSET Msg
    BY DEF PermInit
  <2>2. lastOutOffset \in 0 .. Len(disk.current.items)
    <3>1. lastOutOffset = 0 /\ Len(disk.current.items) = 0
      BY <1>1, <1>2, <1>3 DEF PermInit
    <3> QED BY <3>1
  <2>3. /\ table_client \in Seq(Item) /\ Len(table_client) <= size
        /\ table_disk \in Seq(Item) /\ Len(table_disk) <= size
        /\ input_queue \in Seq(Item) /\ Len(input_queue) <= size
    BY <1>1 DEF PermInit
  <2> QED BY <1>3, <2>1, <2>2, <2>3, <2>4, <2>5 DEF TypeOK
<1>5. GoodDisk(disk)
  <2>1. SourceOf(disk) = Absent
    BY <1>2, <1>3 DEF SourceOf
  <2>2. Numbered(<<>>, 0) /\ 0 \in Nat
    BY <1>1 DEF Numbered
  <2>3. GoodFile(Absent)
    BY <1>1, <1>2, <2>2 DEF GoodFile, Agree
  <2> QED BY <1>3, <2>1, <2>3 DEF GoodDisk, Disk
<1>6. UpInv /\ DownInv
  BY DEF PermInit, UpInv, DownInv
<1>7. LiveInv
  <2>1. SourceOf(disk) = Absent
    BY <1>2, <1>3 DEF SourceOf
  <2>2. ToSet(SourceOf(disk).items) = {} /\ ToSet(table_disk) = {}
    BY <1>1, <1>2, <2>1 DEF PermInit
  <2>3. Live = {}
    BY <2>2 DEF Live, LiveIn
  <2>4. Pending = {} /\ acked = {} /\ lost = {}
    BY DEF PermInit, Pending
  <2> QED BY <2>2, <2>3, <2>4 DEF LiveInv, MessagesOf
<1> QED BY <1>4, <1>5, <1>6, <1>7 DEF PermInv

(* The invariant is about the variables of the model.                        *)
LEMMA PermStutterInv == PermInv /\ UNCHANGED permVars => PermInv'
<1> SUFFICES ASSUME PermInv, UNCHANGED permVars PROVE PermInv'
  OBVIOUS
<1>1. UNCHANGED <<disk, up, table_client, table_disk, currentId, lastIdOut, lastOutOffset,
                  nextIdInClientTable, lastIdOnDisk, ackOnDisk, input_queue,
                  written, acked, lost, deaths, truncated>>
  BY DEF permVars, memory
<1>2. TypeOK'
  BY <1>1 DEF PermInv, TypeOK
<1>3. GoodDisk(disk)'
  BY <1>1, GoodStays DEF PermInv
<1>4. UpInv'
  <2>1. \A a \in Nat : Position(a) => Position(a)'
    BY <1>1 DEF Position, Reading, Saving, Saved
  <2>2. Held' = Held
    BY <1>1 DEF Held
  <2> QED BY <1>1, <2>1, <2>2 DEF PermInv, UpInv
<1>5. DownInv'
  BY <1>1 DEF PermInv, DownInv
<1>6. LiveInv'
  BY <1>1 DEF PermInv, LiveInv, Pending, Live
<1> QED BY <1>2, <1>3, <1>4, <1>5, <1>6 DEF PermInv

(* Every step of the process, and every death, keeps the invariant.          *)
LEMMA PermNextInv == PermInv /\ [PermNext]_permVars => PermInv'
<1> SUFFICES ASSUME PermInv, [PermNext]_permVars PROVE PermInv'
  OBVIOUS
<1>1. CASE New
  BY <1>1, NewKeeps
<1>2. CASE Write
  BY <1>2, WriteKeeps
<1>3. CASE Flush
  BY <1>3, FlushKeeps
<1>4. CASE Destroy
  BY <1>4, DestroyKeeps
<1>5. CASE Read
  BY <1>5, ReadClientKeeps, ReadDiskTableKeeps, ReadFileKeeps DEF Read
<1>6. CASE Ack
  BY <1>6, AckKeeps
<1>7. CASE DieSaving
  BY <1>7, DieSavingKeeps
<1>8. CASE DieCleaning
  BY <1>8, DieCleaningKeeps
<1>9. CASE DieAcknowledging
  BY <1>9, DieAcknowledgingKeeps
<1>10. CASE UNCHANGED permVars
  BY <1>10, PermStutterInv
<1> QED BY <1>1, <1>2, <1>3, <1>4, <1>5, <1>6, <1>7, <1>8, <1>9, <1>10 DEF PermNext

(* The invariant holds for any size of the tables, any number of messages    *)
(* and of deaths, wherever they happen.                                      *)
THEOREM PermInvariant == PermSpec => []PermInv
<1>1. PermInit => PermInv
  BY PermInitInv
<1>2. PermInv /\ [PermNext]_permVars => PermInv'
  BY PermNextInv
<1> QED BY <1>1, <1>2, PTL DEF PermSpec

(* A message accepted by permFIFO_write() and not acknowledged is in the     *)
(* files or in the table to be saved, unless a death lost it before it was   *)
(* saved.                                                                    *)
THEOREM NothingIsDropped == PermSpec => []NothingDropped
<1>1. PermInv => NothingDropped
  BY InvKeeps
<1> QED BY <1>1, PermInvariant, PTL

(* A message that permFIFO_ack() removed is not in what the next             *)
(* permFIFO_new() reads, wherever the process died.                          *)
THEOREM AckIsFinal == PermSpec => []AckedIsFinal
<1>1. PermInv => AckedIsFinal
  BY InvKeeps
<1> QED BY <1>1, PermInvariant, PTL

(* permFIFO_read() gives the messages in the order they were written and     *)
(* finds each that is left, wherever the process died: a death between       *)
(* ftruncate() and the write of the header in permFIFO_ack() hides the first *)
(* items written afterwards until they are saved, and no other does.         *)
THEOREM AllReadsComplete == PermSpec => []ReadsAreComplete
<1>1. PermInv => ReadsAreComplete
  BY InvReads
<1> QED BY <1>1, PermInvariant, PTL
=============================================================================
