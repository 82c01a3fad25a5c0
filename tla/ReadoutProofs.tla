--------------------------- MODULE ReadoutProofs ---------------------------
(***************************************************************************)
(* Proofs about Readout and about the two structures that its threads      *)
(* share without a lock, Fifo and MemPool.                                 *)
(*                                                                         *)
(* Fifo, for every size, every set of elements and any number of           *)
(* operations: the inductive invariant says where the writer's next index  *)
(* stands relative to the two shared ones; everything else follows from    *)
(* linear arithmetic on the distance between the indices.                  *)
(*                                                                         *)
(* MemPool, for every number of pages and all sets of threads calling      *)
(* getPage() and releasePage() in parallel: the flags keep every page with *)
(* one owner.                                                              *)
(*                                                                         *)
(* Readout, for any number of equipments, pages and ids and any size of    *)
(* the FIFOs.                                                              *)
(***************************************************************************)
EXTENDS Readout, Fifo, MemPool, SequenceTheorems, SequenceFacts

(***************************************************************************)
(* Fifo.                                                                   *)
(***************************************************************************)

\* The writer's local index is the slot behind indexEnd, and past the test it
\* is not the slot at indexStart.
WriterInv ==
    /\ ppc \in {"check", "write", "publish"} =>
          indexEndNew = Succ(indexEnd) /\ item \in Items
    /\ ppc \in {"write", "publish"} => indexEndNew # indexStart
    /\ ppc = "publish" => data[indexEndNew] = item

\* A pop() or front() past the test still finds an element.
ReaderInv == cpc \in {"advance", "front"} => indexStart # indexEnd

\* Every slot of the queue holds an element.
ContentInv ==
    \A k \in 1 .. UsedSlots(indexStart, indexEnd) : data[Slot(indexStart, k)] \in Items

IInv == FifoTypeOK /\ WriterInv /\ ReaderInv /\ ContentInv

-----------------------------------------------------------------------------
\* Arithmetic of the circular buffer.

(* The index behind an index is one.                                        *)
LEMMA SuccIndex ==
    ASSUME NEW k \in Index
    PROVE  /\ Succ(k) \in Index
           /\ Succ(k) # k
           /\ \A j \in Index : Succ(j) = Succ(k) => j = k
BY SizeAssumption DEF Index, Succ

(* Used and free slots add up to the size.                                  *)
LEMMA UsedFacts ==
    ASSUME NEW s \in Index, NEW e \in Index
    PROVE  /\ UsedSlots(s, e) \in 0 .. Size
           /\ FreeSlots(s, e) \in 0 .. Size
           /\ FreeSlots(s, e) = Size - UsedSlots(s, e)
           /\ UsedSlots(s, e) = 0 <=> s = e
           /\ UsedSlots(s, e) = Size <=> Succ(e) = s
           /\ s # e => UsedSlots(Succ(s), e) = UsedSlots(s, e) - 1
           /\ Succ(e) # s => UsedSlots(s, Succ(e)) = UsedSlots(s, e) + 1
BY SizeAssumption DEF Index, Succ, UsedSlots, FreeSlots

(* The slots from an index on, round the buffer.                            *)
LEMMA SlotFacts ==
    ASSUME NEW s \in Index, NEW e \in Index
    PROVE  /\ \A k \in 0 .. Size : Slot(s, k) \in Index
           /\ \A k, l \in 0 .. Size : Slot(s, k) = Slot(s, l) => k = l
           /\ Slot(s, 0) = s
           /\ Slot(s, 1) = Succ(s)
           /\ \A k \in 0 .. Size - 1 : Slot(Succ(s), k) = Slot(s, k + 1)
           /\ Slot(s, UsedSlots(s, e)) = e
           /\ Succ(e) # s => Slot(s, UsedSlots(s, e) + 1) = Succ(e)
BY SizeAssumption DEF Index, Succ, Slot, UsedSlots, FreeSlots
-----------------------------------------------------------------------------
\* The inductive invariant, one lemma per thread.

(* The FIFO begins empty.                                                   *)
LEMMA InitIInv == FifoInit => IInv
  <1> SUFFICES ASSUME FifoInit PROVE IInv
    OBVIOUS
  <1>1. FifoTypeOK
    BY SizeAssumption DEF FifoInit, FifoTypeOK, Index
  <1>2. WriterInv /\ ReaderInv
    BY DEF FifoInit, WriterInv, ReaderInv
  <1>3. ContentInv
    BY SizeAssumption, UsedFacts DEF FifoInit, ContentInv, Index
  <1> QED
    BY <1>1, <1>2, <1>3 DEF IInv

(* The writer keeps the invariant.                                          *)
LEMMA WriterStep ==
    ASSUME IInv, Push \/ IsFullQuery \/ FreeSlotsQuery
    PROVE  IInv'
  <1> USE SizeAssumption DEF IInv
  <1>f. /\ UsedSlots(indexStart, indexEnd) \in 0 .. Size
        /\ FreeSlots(indexStart, indexEnd) \in 0 .. Size
    BY UsedFacts DEF FifoTypeOK
  <1>s. Succ(indexEnd) \in Index
    BY SuccIndex DEF FifoTypeOK
  <1>1. ASSUME NEW x \in Items, PushBegin(x) PROVE IInv'
    <2>1. FifoTypeOK'
      BY <1>1, <1>s DEF PushBegin, FifoTypeOK, indices, reader
    <2>2. WriterInv' /\ ReaderInv' /\ ContentInv'
      BY <1>1 DEF PushBegin, WriterInv, ReaderInv, ContentInv, indices, reader, UsedSlots, FreeSlots
    <2> QED BY <2>1, <2>2
  <1>2. ASSUME PushCheck PROVE IInv'
    <2>1. FifoTypeOK'
      BY <1>2 DEF PushCheck, FifoTypeOK, indices, reader
    <2>2. WriterInv' /\ ReaderInv' /\ ContentInv'
      BY <1>2 DEF PushCheck, WriterInv, ReaderInv, ContentInv, indices, reader, UsedSlots, FreeSlots
    <2> QED BY <2>1, <2>2
  <1>3. ASSUME PushWrite PROVE IInv'
    <2>1. FifoTypeOK'
      BY <1>3 DEF PushWrite, WriterInv, FifoTypeOK, indices, reader
    <2>2. WriterInv' /\ ReaderInv'
      BY <1>3 DEF PushWrite, FifoTypeOK, WriterInv, ReaderInv, indices, reader
    <2>3. ContentInv'
      <3>1. \A k \in 1 .. UsedSlots(indexStart, indexEnd) : Slot(indexStart, k) # indexEndNew
        <4>1. indexEndNew = Slot(indexStart, UsedSlots(indexStart, indexEnd) + 1)
          BY <1>3, SlotFacts DEF PushWrite, WriterInv, FifoTypeOK
        <4>2. UsedSlots(indexStart, indexEnd) + 1 \in 0 .. Size
          BY <1>3, <1>f, UsedFacts DEF PushWrite, WriterInv, FifoTypeOK
        <4> QED BY <4>1, <4>2, <1>f, SlotFacts DEF FifoTypeOK
      <3>2. \A k \in 1 .. UsedSlots(indexStart, indexEnd) :
               data'[Slot(indexStart, k)] = data[Slot(indexStart, k)]
        BY <1>3, <3>1, <1>f, SlotFacts DEF PushWrite, FifoTypeOK
      <3>3. indexStart' = indexStart /\ indexEnd' = indexEnd
        BY <1>3 DEF PushWrite, indices
      <3> QED BY <3>2, <3>3 DEF ContentInv
    <2> QED BY <2>1, <2>2, <2>3
  <1>4. ASSUME PushPublish PROVE IInv'
    <2>1. FifoTypeOK'
      BY <1>4 DEF PushPublish, FifoTypeOK, reader
    <2>2. WriterInv'
      BY <1>4 DEF PushPublish, WriterInv
    <2>3. ReaderInv'
      BY <1>4 DEF PushPublish, WriterInv, ReaderInv, reader
    <2>4. ContentInv'
      <3>1. /\ UsedSlots(indexStart, indexEndNew) = UsedSlots(indexStart, indexEnd) + 1
            /\ Slot(indexStart, UsedSlots(indexStart, indexEnd) + 1) = indexEndNew
        BY <1>4, UsedFacts, SlotFacts DEF PushPublish, WriterInv, FifoTypeOK
      <3>2. \A k \in 1 .. UsedSlots(indexStart, indexEndNew) : data[Slot(indexStart, k)] \in Items
        BY <1>4, <1>f, <3>1 DEF PushPublish, WriterInv, ContentInv
      <3>3. indexStart' = indexStart /\ indexEnd' = indexEndNew /\ data' = data
        BY <1>4 DEF PushPublish
      <3> QED BY <3>2, <3>3 DEF ContentInv
    <2> QED BY <2>1, <2>2, <2>3, <2>4
  <1>5. ASSUME PushCount PROVE IInv'
    <2>1. FifoTypeOK'
      BY <1>5 DEF PushCount, FifoTypeOK, indices, reader
    <2>2. WriterInv' /\ ReaderInv' /\ ContentInv'
      BY <1>5 DEF PushCount, WriterInv, ReaderInv, ContentInv, indices, reader, UsedSlots, FreeSlots
    <2> QED BY <2>1, <2>2
  <1>6. ASSUME IsFullQuery \/ FreeSlotsQuery PROVE IInv'
    <2>1. FifoTypeOK'
      BY <1>6, <1>f DEF IsFullQuery, FreeSlotsQuery, FifoTypeOK, indices, reader
    <2>2. WriterInv' /\ ReaderInv' /\ ContentInv'
      BY <1>6 DEF IsFullQuery, FreeSlotsQuery, WriterInv, ReaderInv, ContentInv, indices, reader,
                  UsedSlots, FreeSlots
    <2> QED BY <2>1, <2>2
  <1> QED
    BY <1>1, <1>2, <1>3, <1>4, <1>5, <1>6 DEF Push

(* The reader keeps the invariant.                                          *)
LEMMA ReaderStep ==
    ASSUME IInv, Pop \/ FrontCall \/ IsEmptyQuery \/ UsedSlotsQuery
    PROVE  IInv'
  <1> USE SizeAssumption DEF IInv
  <1>f. /\ UsedSlots(indexStart, indexEnd) \in 0 .. Size
        /\ Succ(indexStart) \in Index
    BY UsedFacts, SuccIndex DEF FifoTypeOK
  <1>1. ASSUME PopBegin \/ FrontBegin \/ PopRead \/ PopCount \/ FrontRead
               \/ IsEmptyQuery \/ UsedSlotsQuery
        PROVE  IInv'
    <2>1. FifoTypeOK'
      BY <1>1, <1>f DEF PopBegin, FrontBegin, PopRead, PopCount, FrontRead, IsEmptyQuery,
                        UsedSlotsQuery, FifoTypeOK, indices, writer
    <2>2. WriterInv' /\ ReaderInv' /\ ContentInv'
      BY <1>1 DEF PopBegin, FrontBegin, PopRead, PopCount, FrontRead, IsEmptyQuery,
                  UsedSlotsQuery, IsEmpty, WriterInv, ReaderInv, ContentInv, indices, writer,
                  UsedSlots, FreeSlots
    <2> QED BY <2>1, <2>2
  <1>2. ASSUME PopAdvance PROVE IInv'
    <2>1. FifoTypeOK'
      BY <1>2, <1>f DEF PopAdvance, FifoTypeOK, writer
    <2>2. WriterInv'
      BY <1>2, SuccIndex DEF PopAdvance, WriterInv, ReaderInv, FifoTypeOK, writer
    <2>3. ReaderInv'
      BY <1>2 DEF PopAdvance, ReaderInv
    <2>4. ContentInv'
      <3>1. UsedSlots(Succ(indexStart), indexEnd) = UsedSlots(indexStart, indexEnd) - 1
        BY <1>2, UsedFacts DEF PopAdvance, ReaderInv, FifoTypeOK
      <3>2. \A k \in 1 .. UsedSlots(Succ(indexStart), indexEnd) :
               Slot(Succ(indexStart), k) = Slot(indexStart, k + 1)
        BY <3>1, <1>f, SlotFacts DEF FifoTypeOK
      <3>3. \A k \in 1 .. UsedSlots(Succ(indexStart), indexEnd) :
               data[Slot(Succ(indexStart), k)] \in Items
        BY <3>1, <3>2, <1>f DEF ContentInv
      <3>4. indexStart' = Succ(indexStart) /\ indexEnd' = indexEnd /\ data' = data
        BY <1>2 DEF PopAdvance
      <3> QED BY <3>3, <3>4 DEF ContentInv
    <2> QED BY <2>1, <2>2, <2>3, <2>4
  <1>3. ASSUME PopReset PROVE IInv'
    <2>1. FifoTypeOK'
      BY <1>3 DEF PopReset, FifoTypeOK, indices, writer
    <2>2. WriterInv' /\ ReaderInv'
      BY <1>3 DEF PopReset, FifoTypeOK, WriterInv, ReaderInv, indices, writer
    <2>3. ContentInv'
      <3>1. \A k \in 1 .. UsedSlots(indexStart, indexEnd) :
               Slot(indexStart, k) \in Index /\ Slot(indexStart, k) # indexStart
        BY <1>f, SlotFacts DEF FifoTypeOK
      <3>2. \A k \in 1 .. UsedSlots(indexStart, indexEnd) :
               data'[Slot(indexStart, k)] = data[Slot(indexStart, k)]
        BY <1>3, <3>1 DEF PopReset, FifoTypeOK
      <3>3. indexStart' = indexStart /\ indexEnd' = indexEnd
        BY <1>3 DEF PopReset, indices
      <3> QED BY <3>2, <3>3 DEF ContentInv
    <2> QED BY <2>1, <2>2, <2>3
  <1> QED
    BY <1>1, <1>2, <1>3 DEF Pop, FrontCall

(* clear() keeps the invariant.                                             *)
LEMMA ClearStep ==
    ASSUME IInv, Clear
    PROVE  IInv'
  <1>1. FifoTypeOK'
    BY SizeAssumption DEF IInv, Clear, FifoTypeOK, Index
  <1>2. WriterInv' /\ ReaderInv'
    BY DEF Clear, WriterInv, ReaderInv
  <1>3. ContentInv'
    BY SizeAssumption, UsedFacts DEF Clear, ContentInv, Index
  <1> QED
    BY <1>1, <1>2, <1>3 DEF IInv

(* The invariant is inductive.                                              *)
LEMMA NextIInv == IInv /\ [FifoNext]_fifoVars => IInv'
  <1> SUFFICES ASSUME IInv, [FifoNext]_fifoVars PROVE IInv'
    OBVIOUS
  <1>1. CASE UNCHANGED fifoVars
    BY <1>1 DEF IInv, FifoTypeOK, WriterInv, ReaderInv, ContentInv, fifoVars, UsedSlots, FreeSlots
  <1>2. CASE FifoNext
    BY <1>2, WriterStep, ReaderStep, ClearStep DEF FifoNext, Query
  <1> QED
    BY <1>1, <1>2

(* In every reachable state the invariant holds, whatever the interleaving   *)
(* of push(), pop(), front(), the queries and clear().                       *)
THEOREM SpecIInv == FifoSpec => []IInv
  <1>1. QED
    BY InitIInv, NextIInv, PTL DEF FifoSpec

(* Every variable of the FIFO keeps its type: the indices stay inside the    *)
(* buffer after any number of pushes and pops.                               *)
THEOREM SpecTypeOK == FifoSpec => []FifoTypeOK
  <1>1. IInv => FifoTypeOK
    BY DEF IInv
  <1> QED
    BY <1>1, SpecIInv, PTL

(* The writer and the reader never touch the same slot at the same time,     *)
(* although pop() moves indexStart before it reads the element: the gap of   *)
(* one slot suffices for every size of the buffer.                           *)
THEOREM SpecNoSlotShared == FifoSpec => []NoSlotShared
  <1>1. IInv => NoSlotShared
    <2> SUFFICES ASSUME IInv, ppc \in {"write", "publish"}, cpc = "front"
                 PROVE  indexEndNew # Succ(indexStart)
      BY DEF IInv, WriterInv, NoSlotShared
    <2> QED
      BY SuccIndex DEF IInv, FifoTypeOK, WriterInv, ReaderInv
  <1> QED
    BY <1>1, SpecIInv, PTL
-----------------------------------------------------------------------------
\* The refinement of BoundedQueue.

(* What is between the indices is a queue of items.                         *)
LEMMA ContentIsSeq ==
    ASSUME IInv
    PROVE  /\ Content \in Seq(Items)
           /\ Len(Content) = UsedSlots(indexStart, indexEnd)
           /\ UsedSlots(indexStart, indexEnd) \in 0 .. Size
           /\ \A k \in 1 .. UsedSlots(indexStart, indexEnd) :
                 Content[k] = data[Slot(indexStart, k)]
  <1> DEFINE n == UsedSlots(indexStart, indexEnd)
  <1>1. n \in 0 .. Size /\ n \in Nat
    BY UsedFacts, SizeAssumption DEF IInv, FifoTypeOK
  <1>2. Content \in [1 .. n -> Items]
    BY DEF Content, IInv, ContentInv
  <1>3. Content \in Seq(Items) /\ Len(Content) = n
    <2> HIDE DEF n
    <2> QED BY <1>1, <1>2, SeqDef
  <1> QED
    BY <1>1, <1>3 DEF Content

(* The writer's store of the index puts the item at the end of the queue.   *)
LEMMA PublishPuts ==
    ASSUME IInv, PushPublish
    PROVE  /\ Content' = Append(Content, item)
           /\ item \in Items
           /\ Len(Content) < Size
  <1> DEFINE n == UsedSlots(indexStart, indexEnd)
  <1>1. /\ UsedSlots(indexStart, indexEndNew) = n + 1
        /\ n + 1 \in 1 .. Size
        /\ Slot(indexStart, n + 1) = indexEndNew
    BY UsedFacts, SlotFacts, SizeAssumption DEF IInv, PushPublish, WriterInv, FifoTypeOK
  <1>2. item \in Items /\ data[indexEndNew] = item
    BY DEF IInv, PushPublish, WriterInv
  <1>3. Content' = [k \in 1 .. n + 1 |-> data[Slot(indexStart, k)]]
    BY <1>1 DEF PushPublish, Content
  <1>4. Content \in Seq(Items) /\ Len(Content) = n /\ \A k \in 1 .. n : Content[k] = data[Slot(indexStart, k)]
    BY ContentIsSeq
  <1> HIDE DEF n
  <1>5. /\ Append(Content, item) \in Seq(Items)
        /\ Len(Append(Content, item)) = n + 1
        /\ \A k \in 1 .. n : Append(Content, item)[k] = Content[k]
        /\ Append(Content, item)[n + 1] = item
    BY <1>2, <1>4, AppendProperties
  <1>6. \A k \in 1 .. n + 1 : data[Slot(indexStart, k)] = Append(Content, item)[k]
    BY <1>1, <1>2, <1>4, <1>5
  <1>7. Append(Content, item) = [k \in 1 .. n + 1 |-> Append(Content, item)[k]]
    BY <1>5, LenProperties
  <1>8. Content' = Append(Content, item)
    BY <1>3, <1>6, <1>7
  <1>9. Len(Content) < Size
    BY <1>1, <1>4, LenProperties, SizeAssumption
  <1> QED
    BY <1>2, <1>8, <1>9

(* The reader's store of the index takes the first item of the queue.       *)
LEMMA AdvanceTakes ==
    ASSUME IInv, PopAdvance
    PROVE  /\ Content # <<>>
           /\ Content' = Tail(Content)
           /\ data[Succ(indexStart)] = Head(Content)
  <1> DEFINE n == UsedSlots(indexStart, indexEnd)
  <1>1. /\ UsedSlots(Succ(indexStart), indexEnd) = n - 1
        /\ n \in 1 .. Size
        /\ Slot(indexStart, 1) = Succ(indexStart)
    BY UsedFacts, SlotFacts, SizeAssumption DEF IInv, PopAdvance, ReaderInv, FifoTypeOK
  <1>s. \A k \in 1 .. n - 1 : Slot(Succ(indexStart), k) = Slot(indexStart, k + 1)
    <2> HIDE DEF n
    <2> QED BY <1>1, SlotFacts, SizeAssumption DEF IInv, FifoTypeOK
  <1>2. Content' = [k \in 1 .. n - 1 |-> data[Slot(Succ(indexStart), k)]]
    BY <1>1 DEF PopAdvance, Content
  <1>3. Content \in Seq(Items) /\ Len(Content) = n /\ \A k \in 1 .. n : Content[k] = data[Slot(indexStart, k)]
    BY ContentIsSeq
  <1> HIDE DEF n
  <1>4. /\ Tail(Content) \in Seq(Items)
        /\ Len(Tail(Content)) = n - 1
        /\ \A k \in 1 .. n - 1 : Tail(Content)[k] = Content[k + 1]
    BY <1>1, <1>3, HeadTailProperties
  <1>5. \A k \in 1 .. n - 1 : data[Slot(Succ(indexStart), k)] = Tail(Content)[k]
    BY <1>s, <1>1, <1>3, <1>4
  <1>6. Content' = Tail(Content)
    <2>1. Tail(Content) = [k \in 1 .. n - 1 |-> Tail(Content)[k]]
      BY <1>4, LenProperties
    <2> QED BY <2>1, <1>2, <1>5
  <1>7. Content # <<>> /\ data[Succ(indexStart)] = Head(Content)
    BY <1>1, <1>3
  <1> QED
    BY <1>6, <1>7

\* A step that stores no index and writes no slot of the queue leaves the
\* queue as it is.
LEMMA SameContent ==
    ASSUME indexStart' = indexStart, indexEnd' = indexEnd,
           \A k \in 1 .. UsedSlots(indexStart, indexEnd) :
              data'[Slot(indexStart, k)] = data[Slot(indexStart, k)]
    PROVE  Content' = Content
BY DEF Content

(* The empty FIFO is the empty queue.                                       *)
LEMMA InitQueue == FifoInit => Queue!Init
  <1> SUFFICES ASSUME FifoInit PROVE Queue!Init
    OBVIOUS
  <1>1. Content = <<>>
    BY InitIInv, ContentIsSeq, UsedFacts, SizeAssumption, EmptySeq DEF FifoInit, Index
  <1> QED
    BY <1>1 DEF FifoInit, Queue!Init

\* Every step of push() is a step of the queue or a stuttering one.
LEMMA PushImplements ==
    ASSUME IInv, Push
    PROVE  [Queue!Next]_(Queue!vars)
  <1>1. ASSUME NEW x \in Items, PushBegin(x) PROVE UNCHANGED Queue!vars
    <2>1. Content' = Content
      BY <1>1, SameContent DEF PushBegin, indices
    <2> QED BY <1>1, <2>1 DEF PushBegin, Queue!vars, indices, reader
  <1>2. ASSUME PushCheck PROVE Queue!PutFull \/ UNCHANGED Queue!vars
    <2>1. Content' = Content
      BY <1>2, SameContent DEF PushCheck, indices
    <2>2. CASE indexEndNew = indexStart
      <3>1. Len(Content) = Size
        BY <1>2, <2>2, ContentIsSeq, UsedFacts DEF PushCheck, IInv, WriterInv, FifoTypeOK
      <3> QED BY <1>2, <2>1, <2>2, <3>1 DEF PushCheck, Queue!PutFull, indices, reader
    <2>3. CASE indexEndNew # indexStart
      BY <1>2, <2>1, <2>3 DEF PushCheck, Queue!vars, indices, reader
    <2> QED BY <2>2, <2>3
  <1>3. ASSUME PushWrite PROVE UNCHANGED Queue!vars
    <2>1. /\ UsedSlots(indexStart, indexEnd) + 1 \in 1 .. Size
          /\ indexEndNew = Slot(indexStart, UsedSlots(indexStart, indexEnd) + 1)
      BY <1>3, SlotFacts, UsedFacts, SizeAssumption DEF PushWrite, IInv, WriterInv, FifoTypeOK
    <2>2. /\ indexStart' = indexStart
          /\ indexEnd' = indexEnd
      BY <1>3 DEF PushWrite, indices
    <2>3. \A k \in 0 .. UsedSlots(indexStart, indexEnd) :
             Slot(indexStart, k) \in Index /\ Slot(indexStart, k) # indexEndNew
      <3> DEFINE n == UsedSlots(indexStart, indexEnd)
      <3>1. n + 1 \in 1 .. Size /\ n \in 0 .. Size /\ indexEndNew = Slot(indexStart, n + 1)
        BY <2>1, UsedFacts DEF IInv, FifoTypeOK
      <3> HIDE DEF n
      <3>2. \A k \in 0 .. n : Slot(indexStart, k) \in Index /\ Slot(indexStart, k) # indexEndNew
        BY <3>1, SlotFacts, SizeAssumption DEF IInv, FifoTypeOK
      <3> QED BY <3>2 DEF n
    <2>4. \A k \in 0 .. UsedSlots(indexStart, indexEnd) :
             data'[Slot(indexStart, k)] = data[Slot(indexStart, k)]
      BY <1>3, <2>3 DEF PushWrite, IInv, FifoTypeOK
    <2>5. Content' = Content
      BY <2>2, <2>4, <2>1, SameContent
    <2>6. data'[indexStart] = data[indexStart]
      BY <1>3 DEF PushWrite, IInv, FifoTypeOK, WriterInv
    <2> QED BY <1>3, <2>2, <2>5, <2>6 DEF PushWrite, Queue!vars, reader
  <1>4. ASSUME PushPublish PROVE Queue!Next
    <2>1. Queue!Put(item)
      BY <1>4, PublishPuts DEF PushPublish, Queue!Put, reader
    <2>2. item \in Items
      BY <1>4, PublishPuts
    <2> QED BY <2>1, <2>2 DEF Queue!Next
  <1>5. ASSUME PushCount PROVE UNCHANGED Queue!vars
    <2>1. Content' = Content
      BY <1>5, SameContent DEF PushCount, indices
    <2> QED BY <1>5, <2>1 DEF PushCount, Queue!vars, indices, reader
  <1> QED
    BY <1>1, <1>2, <1>3, <1>4, <1>5 DEF Push, Queue!Next

\* Every step of pop() and front() is a step of the queue or a stuttering one.
LEMMA ReadImplements ==
    ASSUME IInv, Pop \/ FrontCall
    PROVE  [Queue!Next]_(Queue!vars)
  <1>1. ASSUME PopBegin \/ FrontBegin PROVE Queue!TakeEmpty \/ UNCHANGED Queue!vars
    <2>1. Content' = Content
      BY <1>1, SameContent DEF PopBegin, FrontBegin, indices
    <2>2. CASE IsEmpty
      <3>1. Content = <<>>
        BY <2>2, ContentIsSeq, UsedFacts, EmptySeq DEF IsEmpty, IInv, FifoTypeOK
      <3> QED BY <1>1, <2>1, <2>2, <3>1 DEF PopBegin, FrontBegin, Queue!TakeEmpty, indices, writer
    <2>3. CASE ~IsEmpty
      BY <1>1, <2>1, <2>3 DEF PopBegin, FrontBegin, Queue!vars, indices, writer
    <2> QED BY <2>2, <2>3
  <1>2. ASSUME PopAdvance PROVE Queue!Take
    <2>1. data'[indexStart'] = Head(Content)
      BY <1>2, AdvanceTakes DEF PopAdvance
    <2> QED BY <1>2, <2>1, AdvanceTakes DEF PopAdvance, Queue!Take, writer
  <1>3. ASSUME PopRead PROVE UNCHANGED Queue!vars
    <2>1. Content' = Content
      BY <1>3, SameContent DEF PopRead, indices
    <2> QED BY <1>3, <2>1 DEF PopRead, Queue!vars, indices, writer
  <1>4. ASSUME PopReset PROVE UNCHANGED Queue!vars
    <2>1. \A k \in 1 .. UsedSlots(indexStart, indexEnd) :
             Slot(indexStart, k) \in Index /\ Slot(indexStart, k) # indexStart
      <3>1. UsedSlots(indexStart, indexEnd) \in 0 .. Size
        BY UsedFacts DEF IInv, FifoTypeOK
      <3> QED BY <3>1, SlotFacts, SizeAssumption DEF IInv, FifoTypeOK
    <2>2. Content' = Content
      BY <1>4, <2>1, SameContent DEF PopReset, indices, IInv, FifoTypeOK
    <2> QED BY <1>4, <2>2 DEF PopReset, Queue!vars, indices, writer
  <1>5. ASSUME PopCount PROVE UNCHANGED Queue!vars
    <2>1. Content' = Content
      BY <1>5, SameContent DEF PopCount, indices
    <2> QED BY <1>5, <2>1 DEF PopCount, Queue!vars, indices, writer
  <1>6. ASSUME FrontRead PROVE Queue!Peek
    <2>1. Content' = Content
      BY <1>6, SameContent DEF FrontRead, indices
    <2>2. UsedSlots(indexStart, indexEnd) \in 1 .. Size /\ Slot(indexStart, 1) = Succ(indexStart)
      BY <1>6, UsedFacts, SlotFacts, SizeAssumption DEF FrontRead, IInv, ReaderInv, FifoTypeOK
    <2>3. Content # <<>> /\ Head(Content) = data[Succ(indexStart)]
      BY <2>2, ContentIsSeq, EmptySeq
    <2> QED BY <1>6, <2>1, <2>3 DEF FrontRead, Queue!Peek, indices, writer
  <1> QED
    BY <1>1, <1>2, <1>3, <1>4, <1>5, <1>6 DEF Pop, FrontCall, Queue!Next

(* A step of the FIFO is a step of the queue, or none.                      *)
LEMMA NextImplements == IInv /\ [FifoNext]_fifoVars => [Queue!Next]_(Queue!vars)
  <1> SUFFICES ASSUME IInv, [FifoNext]_fifoVars PROVE [Queue!Next]_(Queue!vars)
    OBVIOUS
  <1>1. CASE Query \/ UNCHANGED fifoVars
    <2>1. Content' = Content
      BY <1>1, SameContent DEF Query, IsFullQuery, FreeSlotsQuery, IsEmptyQuery, UsedSlotsQuery,
                               fifoVars, indices
    <2> QED BY <1>1, <2>1 DEF Query, IsFullQuery, FreeSlotsQuery, IsEmptyQuery, UsedSlotsQuery,
                              Queue!vars, fifoVars, indices, writer, reader
  <1>2. CASE Clear
    <2>1. Content' = <<>>
      <3>1. UsedSlots(0, 0) = 0
        BY UsedFacts, SizeAssumption DEF Index
      <3>2. Content' = [k \in 1 .. 0 |-> data'[Slot(0, k)]]
        BY <1>2, <3>1 DEF Clear, Content
      <3>3. Content' \in [1 .. 0 -> Items]
        BY <3>2
      <3>4. Content' \in Seq(Items) /\ Len(Content') = 0
        BY <3>3, SeqDef
      <3> QED BY <3>4, EmptySeq
    <2> QED BY <1>2, <2>1 DEF Clear, Queue!Clear, Queue!Next
  <1> QED
    BY <1>1, <1>2, PushImplements, ReadImplements DEF FifoNext

(* The lock-free FIFO implements the atomic bounded queue: for every size    *)
(* and every interleaving of one writer and one reader, the answers of       *)
(* push(), pop() and front() are those of a queue that does one operation at *)
(* a time, and no element is lost, duplicated, torn or reordered.            *)
THEOREM SpecAtomicQueue == FifoSpec => AtomicQueue
  <1>1. QED
    BY InitQueue, NextImplements, SpecIInv, PTL DEF FifoSpec, AtomicQueue, Queue!Spec
-----------------------------------------------------------------------------
\* What the queries tell.

KnowledgeInv == IInv /\ RoomIsStable /\ AvailIsStable

(* What a thread saw of the FIFO stays true until it acts on it.            *)
LEMMA KnowledgeStep == KnowledgeInv /\ [FifoNext]_fifoVars => KnowledgeInv'
  <1> SUFFICES ASSUME KnowledgeInv, [FifoNext]_fifoVars PROVE RoomIsStable' /\ AvailIsStable'
    BY NextIInv DEF KnowledgeInv
  <1> USE SizeAssumption DEF KnowledgeInv, IInv, RoomIsStable, AvailIsStable
  <1>f. /\ UsedSlots(indexStart, indexEnd) \in 0 .. Size
        /\ FreeSlots(indexStart, indexEnd) = Size - UsedSlots(indexStart, indexEnd)
    BY UsedFacts DEF FifoTypeOK
  <1>1. ASSUME Query PROVE RoomIsStable' /\ AvailIsStable'
    <2>1. UNCHANGED <<indexStart, indexEnd>>
      BY <1>1 DEF Query, IsFullQuery, FreeSlotsQuery, IsEmptyQuery, UsedSlotsQuery, indices
    <2>2. ~IsFull => FreeSlots(indexStart, indexEnd) >= 1
      BY DEF IsFull, FreeSlots, FifoTypeOK, Index
    <2>3. ~IsEmpty => UsedSlots(indexStart, indexEnd) >= 1
      BY <1>f, UsedFacts DEF IsEmpty, FifoTypeOK
    <2>4. room' <= FreeSlots(indexStart, indexEnd)
      BY <1>1, <1>f, <2>2 DEF Query, IsFullQuery, FreeSlotsQuery, IsEmptyQuery, UsedSlotsQuery, writer
    <2>5. avail' <= UsedSlots(indexStart, indexEnd)
      BY <1>1, <1>f, <2>3 DEF Query, IsFullQuery, FreeSlotsQuery, IsEmptyQuery, UsedSlotsQuery, reader
    <2> QED BY <2>1, <2>4, <2>5
  <1>2. ASSUME PushPublish PROVE RoomIsStable' /\ AvailIsStable'
    <2>1. UsedSlots(indexStart, indexEndNew) = UsedSlots(indexStart, indexEnd) + 1
      BY <1>2, UsedFacts DEF PushPublish, WriterInv, FifoTypeOK
    <2>2. FreeSlots(indexStart, indexEndNew) = FreeSlots(indexStart, indexEnd) - 1
      BY <2>1, <1>f, UsedFacts DEF FifoTypeOK
    <2>3. FreeSlots(indexStart, indexEndNew) \in 0 .. Size
      BY UsedFacts DEF FifoTypeOK
    <2> QED BY <1>2, <2>1, <2>2, <2>3, <1>f DEF PushPublish, FifoTypeOK, reader
  <1>3. ASSUME PopAdvance PROVE RoomIsStable' /\ AvailIsStable'
    <2>1. UsedSlots(Succ(indexStart), indexEnd) = UsedSlots(indexStart, indexEnd) - 1
      BY <1>3, UsedFacts DEF PopAdvance, ReaderInv, FifoTypeOK
    <2>2. /\ FreeSlots(Succ(indexStart), indexEnd) = FreeSlots(indexStart, indexEnd) + 1
          /\ UsedSlots(Succ(indexStart), indexEnd) \in 0 .. Size
      BY <2>1, <1>f, UsedFacts, SuccIndex DEF FifoTypeOK
    <2> QED BY <1>3, <2>1, <2>2, <1>f DEF PopAdvance, FifoTypeOK, writer
  <1>4. ASSUME Clear PROVE RoomIsStable' /\ AvailIsStable'
    BY <1>4 DEF Clear, UsedSlots, FreeSlots
  <1>5. ASSUME UNCHANGED <<indexStart, indexEnd, room, avail>>
        PROVE  RoomIsStable' /\ AvailIsStable'
    BY <1>5 DEF UsedSlots, FreeSlots
  <1> QED
    BY <1>1, <1>2, <1>3, <1>4, <1>5
       DEF FifoNext, fifoVars, Push, PushBegin, PushCheck, PushWrite, PushCount, Pop, PopBegin, PopRead,
           PopReset, PopCount, FrontCall, FrontBegin, FrontRead, indices, writer, reader

(* After isFull() answered 0, or getNumberOfFreeSlots() answered n, the      *)
(* writer finds that much room however long it waits: the unchecked push()   *)
(* of the aggregator and of the equipments cannot fail.                      *)
THEOREM SpecRoomIsStable == FifoSpec => []RoomIsStable
  <1>1. FifoInit => KnowledgeInv
    BY InitIInv, UsedFacts, SizeAssumption
       DEF FifoInit, KnowledgeInv, RoomIsStable, AvailIsStable, Index
  <1>2. KnowledgeInv => RoomIsStable
    BY DEF KnowledgeInv
  <1> QED
    BY <1>1, <1>2, KnowledgeStep, PTL DEF FifoSpec

(* After isEmpty() answered 0, or getNumberOfUsedSlots() answered n, the     *)
(* reader finds those elements: the aggregator may dereference what front()  *)
(* gave it without looking at its answer.                                    *)
THEOREM SpecAvailIsStable == FifoSpec => []AvailIsStable
  <1>1. FifoInit => KnowledgeInv
    BY InitIInv, UsedFacts, SizeAssumption
       DEF FifoInit, KnowledgeInv, RoomIsStable, AvailIsStable, Index
  <1>2. KnowledgeInv => AvailIsStable
    BY DEF KnowledgeInv
  <1> QED
    BY <1>1, <1>2, KnowledgeStep, PTL DEF FifoSpec

-----------------------------------------------------------------------------
(***************************************************************************)
(* MemPool.                                                                *)
(***************************************************************************)

(* The page releasePage() clears is the one it was called with.              *)
ClearsArgument == \A t \in Threads : pc[t] = "relClear" => ix[t] = arg[t]

(* A flag is tested only in one of the numberOfPages rounds of the scan.     *)
TestsInLoop == \A t \in Threads : pc[t] = "getTest" => iter[t] < numberOfPages

\* The inductive invariants: of the state's types, and of the pages.
TInv == PoolTypeOK /\ TestsInLoop
PoolIInv == TInv /\ ClearsArgument /\ ExclusivePages
-----------------------------------------------------------------------------
(* The index probed by a round of getPage() or releasePage() is one of the   *)
(* table, whatever the cached index.                                         *)
LEMMA ProbeInPage ==
    ASSUME NEW last \in Page \cup {-1}, NEW n \in 0 .. numberOfPages
    PROVE  Probe(last, n) \in Page
  BY PagesAssumption DEF Probe, Page

(* Before the first call every page is free and no thread holds one.         *)
LEMMA InitPoolIInv == PoolInit => PoolIInv
  BY PagesAssumption
  DEF PoolInit, PoolIInv, TInv, PoolTypeOK, TestsInLoop, ClearsArgument, ExclusivePages, PagesInHand, Page

(* Every step keeps the state's types.                                       *)
LEMMA NextPoolTypeOK == TInv /\ [PoolNext]_poolVars => PoolTypeOK'
<1> SUFFICES ASSUME TInv, [PoolNext]_poolVars
             PROVE  PoolTypeOK'
  OBVIOUS
<1> USE PagesAssumption DEF TInv, PoolTypeOK, Goto, Threads, lasts, life, history, Scanning
<1>1. ASSUME NEW t \in Getters, GetBegin(t) PROVE PoolTypeOK'
  BY <1>1 DEF GetBegin, Full
<1>2. ASSUME NEW t \in Getters, GetIndex(t) PROVE PoolTypeOK'
  <2>1. Probe(lastPageIndexGet, iter[t]) \in Page
    BY <1>2, ProbeInPage DEF GetIndex
  <2> QED BY <1>2, <2>1 DEF GetIndex
<1>3. ASSUME NEW t \in Getters, GetTest(t) PROVE PoolTypeOK'
  <2>1. CASE pageIsUsed[ix[t]]
    <3>1. iter[t] + 1 \in 0 .. numberOfPages
      BY <1>3 DEF GetTest, TestsInLoop
    <3> QED BY <1>3, <2>1, <3>1 DEF GetTest
  <2>2. CASE ~pageIsUsed[ix[t]]
    <3>1. Full(pageIsUsed') \in BOOLEAN
      BY DEF Full
    <3> QED BY <1>3, <2>2, <3>1 DEF GetTest
  <2> QED BY <2>1, <2>2
<1>4. ASSUME NEW t \in Getters, GetStore(t) PROVE PoolTypeOK'
  BY <1>4 DEF GetStore
<1>5. ASSUME NEW t \in Getters, GetNull(t) PROVE PoolTypeOK'
  BY <1>5 DEF GetNull
<1>6. ASSUME NEW t \in Releasers, NEW p \in Page, RelBegin(t, p) PROVE PoolTypeOK'
  BY <1>6 DEF RelBegin
<1>7. ASSUME NEW t \in Releasers, RelIndex(t) PROVE PoolTypeOK'
  <2>1. Probe(lastPageIndexRelease, iter[t]) \in Page
    BY <1>7, ProbeInPage DEF RelIndex
  <2>2. CASE iter[t] < numberOfPages
    <3>1. iter[t] + 1 \in 0 .. numberOfPages
      BY <2>2
    <3> QED BY <1>7, <2>1, <2>2, <3>1 DEF RelIndex
  <2>3. CASE ~(iter[t] < numberOfPages)
    BY <1>7, <2>3 DEF RelIndex
  <2> QED BY <2>2, <2>3
<1>8. ASSUME NEW t \in Releasers, RelClear(t) PROVE PoolTypeOK'
  BY <1>8 DEF RelClear
<1>9. ASSUME NEW t \in Releasers, RelStore(t) PROVE PoolTypeOK'
  BY <1>9 DEF RelStore
<1>10. CASE Destroy
  <2>1. IsFiniteSet(Page)
    BY FS_Interval DEF Page
  <2>2. Cardinality({p \in Page : pageIsUsed[p]}) \in Nat
    BY <2>1, FS_Subset, FS_CardinalityType
  <2> QED BY <1>10, <2>2 DEF Destroy
<1>11. CASE UNCHANGED poolVars
  BY <1>11 DEF poolVars
<1> QED
  BY <1>1, <1>2, <1>3, <1>4, <1>5, <1>6, <1>7, <1>8, <1>9, <1>10, <1>11
  DEF PoolNext, GetPage, ReleasePage

(* The counter only grows behind a failed test.                              *)
LEMMA NextTestsInLoop == TInv /\ [PoolNext]_poolVars => TestsInLoop'
<1> SUFFICES ASSUME TInv, [PoolNext]_poolVars
             PROVE  TestsInLoop'
  OBVIOUS
<1> USE DEF TInv, PoolTypeOK, TestsInLoop, Goto, Threads, lasts, life, history, Scanning
<1>1. ASSUME NEW t \in Getters, GetPage(t) PROVE TestsInLoop'
  BY <1>1 DEF GetPage, GetBegin, GetIndex, GetTest, GetStore, GetNull
<1>2. ASSUME NEW t \in Releasers, ReleasePage(t) PROVE TestsInLoop'
  BY <1>2 DEF ReleasePage, RelBegin, RelIndex, RelClear, RelStore
<1>3. CASE Destroy
  BY <1>3 DEF Destroy
<1>4. CASE UNCHANGED poolVars
  BY <1>4 DEF poolVars
<1> QED BY <1>1, <1>2, <1>3, <1>4 DEF PoolNext

(* releasePage() reaches its clear() only at the page it searched for.       *)
LEMMA NextClearsArgument == PoolTypeOK /\ ClearsArgument /\ [PoolNext]_poolVars => ClearsArgument'
<1> SUFFICES ASSUME PoolTypeOK, ClearsArgument, [PoolNext]_poolVars
             PROVE  ClearsArgument'
  OBVIOUS
<1> USE DEF PoolTypeOK, ClearsArgument, Goto, Threads, lasts, life, history, Scanning
<1>1. ASSUME NEW t \in Getters, GetPage(t) PROVE ClearsArgument'
  BY <1>1 DEF GetPage, GetBegin, GetIndex, GetTest, GetStore, GetNull
<1>2. ASSUME NEW t \in Releasers, ReleasePage(t) PROVE ClearsArgument'
  BY <1>2 DEF ReleasePage, RelBegin, RelIndex, RelClear, RelStore
<1>3. CASE Destroy
  BY <1>3 DEF Destroy
<1>4. CASE UNCHANGED poolVars
  BY <1>4 DEF poolVars
<1> QED BY <1>1, <1>2, <1>3, <1>4 DEF PoolNext
-----------------------------------------------------------------------------
(* The pages in the hands of the threads change only for the thread that     *)
(* takes the step.                                                           *)
LEMMA OthersKeepTheirs ==
    ASSUME PoolTypeOK, NEW t \in Threads, NEW u \in Threads \ {t},
           pc'[u] = pc[u], ix'[u] = ix[u], arg'[u] = arg[u]
    PROVE  PagesInHand(u)' = PagesInHand(u)
  BY DEF PagesInHand

(* getPage() hands out no page that is in a container or in other hands.     *)
LEMMA GetPageExclusive ==
    ASSUME PoolIInv, NEW t \in Getters, GetPage(t)
    PROVE  ExclusivePages'
<1> USE DEF PoolIInv, TInv, PoolTypeOK, Goto, Threads, lasts, life, history, Scanning
<1>0. \A u \in Threads \ {t} : PagesInHand(u)' = PagesInHand(u)
  BY OthersKeepTheirs DEF GetPage, GetBegin, GetIndex, GetTest, GetStore, GetNull
<1>1. CASE GetBegin(t) \/ GetIndex(t) \/ GetNull(t)
  BY <1>0, <1>1 DEF GetBegin, GetIndex, GetNull, PagesInHand, ExclusivePages
<1>2. CASE GetTest(t)
  <2>1. CASE pageIsUsed[ix[t]]
    BY <1>0, <1>2, <2>1 DEF GetTest, PagesInHand, ExclusivePages
  <2>2. CASE ~pageIsUsed[ix[t]]
    <3>1. /\ PagesInHand(t)' = {ix[t]}
          /\ owned' = owned
          /\ pageIsUsed' = [pageIsUsed EXCEPT ![ix[t]] = TRUE]
      BY <1>2, <2>2 DEF GetTest, PagesInHand
    <3>2. ix[t] \notin owned /\ \A u \in Threads : ix[t] \notin PagesInHand(u)
      BY <2>2 DEF ExclusivePages
    <3> QED BY <1>0, <3>1, <3>2 DEF ExclusivePages
  <2> QED BY <2>1, <2>2
<1>3. CASE GetStore(t)
  <2>1. PagesInHand(t) = {ix[t]} /\ PagesInHand(t)' = {} /\ owned' = owned \cup {ix[t]}
        /\ pageIsUsed' = pageIsUsed
    BY <1>3 DEF GetStore, PagesInHand
  <2> QED BY <1>0, <2>1 DEF ExclusivePages
<1> QED BY <1>1, <1>2, <1>3 DEF GetPage

(* releasePage() clears a flag only for the page that left its container.    *)
LEMMA ReleasePageExclusive ==
    ASSUME PoolIInv, NEW t \in Releasers, ReleasePage(t)
    PROVE  ExclusivePages'
<1> USE DEF PoolIInv, TInv, PoolTypeOK, Goto, Threads, lasts, life, history, Scanning
<1>0. \A u \in Threads \ {t} : PagesInHand(u)' = PagesInHand(u)
  BY OthersKeepTheirs
  DEF ReleasePage, RelBegin, RelIndex, RelClear, RelStore
<1>1. ASSUME NEW p \in Page, RelBegin(t, p) PROVE ExclusivePages'
  <2>1. /\ PagesInHand(t)' = {p}
        /\ p \in owned
        /\ owned' = owned \ {p}
        /\ pageIsUsed' = pageIsUsed
    BY <1>1 DEF RelBegin, PagesInHand
  <2> QED BY <1>0, <2>1 DEF ExclusivePages
<1>2. CASE RelIndex(t)
  BY <1>0, <1>2 DEF RelIndex, PagesInHand, ExclusivePages
<1>3. CASE RelClear(t)
  <2>1. /\ PagesInHand(t) = {ix[t]}
        /\ PagesInHand(t)' = {}
        /\ owned' = owned
        /\ pageIsUsed' = [pageIsUsed EXCEPT ![ix[t]] = FALSE]
    BY <1>3 DEF RelClear, PagesInHand, ClearsArgument
  <2> QED BY <1>0, <2>1 DEF ExclusivePages
<1>4. CASE RelStore(t)
  BY <1>0, <1>4 DEF RelStore, PagesInHand, ExclusivePages
<1> QED BY <1>1, <1>2, <1>3, <1>4 DEF ReleasePage

(* Every step of the pool preserves the inductive invariant.                 *)
LEMMA NextPoolIInv == PoolIInv /\ [PoolNext]_poolVars => PoolIInv'
<1> SUFFICES ASSUME PoolIInv, [PoolNext]_poolVars
             PROVE  ExclusivePages'
  BY NextPoolTypeOK, NextTestsInLoop, NextClearsArgument DEF PoolIInv, TInv
<1>1. CASE Destroy
  <2>1. owned' = {} /\ \A t \in Threads : PagesInHand(t)' = {}
    BY <1>1 DEF Destroy, PagesInHand
  <2> QED BY <2>1 DEF ExclusivePages
<1>2. CASE UNCHANGED poolVars
  BY <1>2 DEF poolVars, PoolIInv, ExclusivePages, PagesInHand
<1> QED
  BY <1>1, <1>2, GetPageExclusive, ReleasePageExclusive DEF PoolNext
-----------------------------------------------------------------------------
(* The types of the pool's state hold in every reachable state.              *)
THEOREM SpecPoolTypeOK == PoolSpec => []PoolTypeOK
<1>1. PoolInit => TInv
  BY InitPoolIInv DEF PoolIInv
<1>2. TInv /\ [PoolNext]_poolVars => TInv'
  BY NextPoolTypeOK, NextTestsInLoop DEF TInv
<1>3. TInv => PoolTypeOK
  BY DEF TInv
<1> QED BY <1>1, <1>2, <1>3, PTL DEF PoolSpec

(* However many threads call getPage() and releasePage() in parallel, a page *)
(* is in one container or in one thread's hands and its flag is set.         *)
THEOREM SpecExclusivePages == PoolSpec => []ExclusivePages
<1>1. PoolIInv => ExclusivePages
  BY DEF PoolIInv
<1> QED BY <1>1, InitPoolIInv, NextPoolIInv, PTL DEF PoolSpec
-----------------------------------------------------------------------------
(* A scan reaches every page within numberOfPages rounds, wherever it starts. *)
LEMMA ProbeReaches ==
    ASSUME NEW last \in Page \cup {-1}, NEW p \in Page
    PROVE  \E k \in 0 .. numberOfPages - 1 : Probe(last, k) = p
<1>1. CASE p > last
  <2>1. p - last - 1 \in 0 .. numberOfPages - 1
    BY <1>1, PagesAssumption DEF Page
  <2>2. Probe(last, p - last - 1) = p % numberOfPages
    BY PagesAssumption DEF Page, Probe
  <2>3. p % numberOfPages = p
    BY PagesAssumption DEF Page
  <2> QED BY <2>1, <2>2, <2>3
<1>2. CASE p <= last
  <2>1. p - last - 1 + numberOfPages \in 0 .. numberOfPages - 1
    BY <1>2, PagesAssumption DEF Page
  <2>2. Probe(last, p - last - 1 + numberOfPages) = (p + numberOfPages) % numberOfPages
    BY PagesAssumption DEF Page, Probe
  <2>3. (p + numberOfPages) % numberOfPages = p
    BY PagesAssumption DEF Page
  <2> QED BY <2>1, <2>2, <2>3
<1> QED BY <1>1, <1>2, PagesAssumption DEF Page

(* The page that releasePage() looks for is still ahead of its scan, unless  *)
(* another thread stored lastPageIndexRelease during it.                     *)
StillFound ==
    \A t \in Releasers : pc[t] = "relIndex" /\ t \notin disturbed =>
        \E k \in iter[t] .. numberOfPages - 1 : Probe(lastPageIndexRelease, k) = arg[t]

LInv == PoolIInv /\ StillFound /\ NoPageLeaked

(* A step of getPage() moves no scan of releasePage().                       *)
LEMMA GetPageStillFound ==
    ASSUME PoolIInv, StillFound, NEW t \in Getters, GetPage(t)
    PROVE  StillFound'
<1> USE DEF StillFound, PoolIInv, TInv, PoolTypeOK, Goto, Threads, lasts, life, history, Scanning
<1>1. lastPageIndexRelease' = lastPageIndexRelease /\ arg' = arg
  BY DEF GetPage, GetBegin, GetIndex, GetTest, GetStore, GetNull
<1>2. ASSUME NEW u \in Releasers, pc'[u] = "relIndex", u \notin disturbed'
      PROVE  pc[u] = "relIndex" /\ iter'[u] = iter[u] /\ u \notin disturbed
  BY <1>2 DEF GetPage, GetBegin, GetIndex, GetTest, GetStore, GetNull
<1> QED BY <1>1, <1>2

(* A step of releasePage() moves another thread's scan only by storing the   *)
(* index, and then that thread counts as disturbed.                          *)
LEMMA ReleasePageStillFound ==
    ASSUME PoolIInv, StillFound, NEW t \in Releasers, ReleasePage(t)
    PROVE  StillFound'
<1> USE DEF StillFound, PoolIInv, TInv, PoolTypeOK, Goto, Threads, lasts, life, history
<1>1. ASSUME NEW u \in Releasers \ {t}
      PROVE  pc'[u] = pc[u] /\ iter'[u] = iter[u] /\ arg'[u] = arg[u]
             /\ (u \notin disturbed' => u \notin disturbed)
  BY <1>1 DEF ReleasePage, RelBegin, RelIndex, RelClear, RelStore
<1>2. ASSUME NEW p \in Page, RelBegin(t, p) PROVE StillFound'
  <2>1. \E k \in 0 .. numberOfPages - 1 : Probe(lastPageIndexRelease, k) = p
    BY ProbeReaches
  <2>2. iter'[t] = 0 /\ arg'[t] = p /\ lastPageIndexRelease' = lastPageIndexRelease
    BY <1>2 DEF RelBegin
  <2> QED BY <1>1, <2>1, <2>2
<1>3. CASE RelIndex(t)
  <2>1. arg' = arg /\ lastPageIndexRelease' = lastPageIndexRelease /\ disturbed' = disturbed
    BY <1>3 DEF RelIndex
  <2>2. ASSUME pc'[t] = "relIndex", t \notin disturbed
        PROVE  \E k \in iter'[t] .. numberOfPages - 1 : Probe(lastPageIndexRelease, k) = arg[t]
    <3>1. PICK k \in iter[t] .. numberOfPages - 1 : Probe(lastPageIndexRelease, k) = arg[t]
      BY <1>3, <2>2 DEF RelIndex
    <3>2. arg[t] # Probe(lastPageIndexRelease, iter[t]) /\ iter'[t] = iter[t] + 1
      BY <1>3, <2>2 DEF RelIndex
    <3>3. k # iter[t]
      BY <3>1, <3>2
    <3>4. k \in iter'[t] .. numberOfPages - 1
      BY <3>2, <3>3, PagesAssumption
    <3> QED BY <3>1, <3>4
  <2> QED BY <1>1, <2>1, <2>2
<1>4. CASE RelClear(t)
  BY <1>4, <1>1 DEF RelClear
<1>5. CASE RelStore(t)
  <2>1. \A u \in Releasers : pc'[u] = "relIndex" => u \in disturbed'
    BY <1>5 DEF RelStore
  <2> QED BY <2>1
<1> QED BY <1>2, <1>3, <1>4, <1>5 DEF ReleasePage

(* A flag that getPage() sets belongs to the page in its hands, then to the  *)
(* one in the container.                                                     *)
LEMMA GetPageKeepsAll ==
    ASSUME PoolIInv, NoPageLeaked, NEW t \in Getters, GetPage(t)
    PROVE  NoPageLeaked'
<1> USE DEF PoolIInv, TInv, PoolTypeOK, Goto, Threads, lasts, life, history
<1>0. \A u \in Threads \ {t} : PagesInHand(u)' = PagesInHand(u)
  BY OthersKeepTheirs DEF GetPage, GetBegin, GetIndex, GetTest, GetStore, GetNull
<1>1. nPagesUsed' = nPagesUsed /\ lost' = lost
  BY DEF GetPage, GetBegin, GetIndex, GetTest, GetStore, GetNull
<1>2. CASE GetBegin(t) \/ GetIndex(t) \/ GetNull(t)
  <2>1. PagesInHand(t) = {} /\ owned' = owned /\ pageIsUsed' = pageIsUsed
    BY <1>2 DEF GetBegin, GetIndex, GetNull, PagesInHand
  <2> QED BY <1>0, <1>1, <2>1 DEF NoPageLeaked
<1>3. CASE GetTest(t)
  <2>1. PagesInHand(t) = {} /\ owned' = owned
    BY <1>3 DEF GetTest, PagesInHand
  <2>2. CASE pageIsUsed[ix[t]]
    BY <1>0, <1>1, <1>3, <2>1, <2>2 DEF GetTest, NoPageLeaked
  <2>3. CASE ~pageIsUsed[ix[t]]
    <3>1. PagesInHand(t)' = {ix[t]} /\ pageIsUsed' = [pageIsUsed EXCEPT ![ix[t]] = TRUE]
      BY <1>3, <2>3 DEF GetTest, PagesInHand
    <3> QED BY <1>0, <1>1, <2>1, <3>1 DEF NoPageLeaked
  <2> QED BY <2>2, <2>3
<1>4. CASE GetStore(t)
  <2>1. PagesInHand(t) = {ix[t]} /\ owned' = owned \cup {ix[t]} /\ pageIsUsed' = pageIsUsed
    BY <1>4 DEF GetStore, PagesInHand
  <2> QED BY <1>0, <1>1, <2>1 DEF NoPageLeaked
<1> QED BY <1>2, <1>3, <1>4 DEF GetPage

(* The lost pages are finitely many.                                         *)
LEMMA LostFinite == ASSUME PoolTypeOK PROVE IsFiniteSet(lost)
<1>1. IsFiniteSet(Page)
  BY FS_Interval, PagesAssumption DEF Page
<1> QED BY <1>1, FS_Subset DEF PoolTypeOK

(* More pages lost, no fewer counted.                                        *)
LEMMA LostGrows ==
    ASSUME PoolTypeOK, NEW L \in SUBSET Page, lost \subseteq L
    PROVE  Cardinality(lost) \in Nat /\ Cardinality(L) \in Nat
           /\ Cardinality(lost) <= Cardinality(L)
<1>1. IsFiniteSet(Page)
  BY FS_Interval, PagesAssumption DEF Page
<1>2. IsFiniteSet(L) /\ IsFiniteSet(lost)
  BY <1>1, FS_Subset DEF PoolTypeOK
<1> QED BY <1>2, FS_Subset, FS_CardinalityType

(* releasePage() keeps the page in its hands until its flag is cleared, or   *)
(* loses it when it was disturbed.                                           *)
LEMMA ReleasePageKeepsAll ==
    ASSUME PoolIInv, StillFound, NoPageLeaked, NEW t \in Releasers, ReleasePage(t)
    PROVE  NoPageLeaked'
<1> USE DEF PoolIInv, TInv, PoolTypeOK, Goto, Threads, lasts, life, history
<1>0. \A u \in Threads \ {t} : PagesInHand(u)' = PagesInHand(u)
  BY OthersKeepTheirs
  DEF ReleasePage, RelBegin, RelIndex, RelClear, RelStore
<1>1. nPagesUsed' = nPagesUsed
  BY DEF ReleasePage, RelBegin, RelIndex, RelClear, RelStore
<1>2. ASSUME NEW p \in Page, RelBegin(t, p) PROVE NoPageLeaked'
  <2>1. /\ PagesInHand(t) = {} /\ PagesInHand(t)' = {p}
        /\ owned' = owned \ {p}
        /\ pageIsUsed' = pageIsUsed /\ lost' = lost
    BY <1>2 DEF RelBegin, PagesInHand
  <2> QED BY <1>0, <1>1, <2>1 DEF NoPageLeaked
<1>3. CASE RelIndex(t)
  <2>1. owned' = owned /\ pageIsUsed' = pageIsUsed
    BY <1>3 DEF RelIndex
  <2>2. CASE iter[t] < numberOfPages
    <3>1. PagesInHand(t)' = PagesInHand(t) /\ lost' = lost
      BY <1>3, <2>2 DEF RelIndex, PagesInHand
    <3> QED BY <1>0, <1>1, <2>1, <3>1 DEF NoPageLeaked
  <2>3. CASE ~(iter[t] < numberOfPages)
    <3>1. t \in disturbed
      BY <1>3, <2>3, PagesAssumption DEF RelIndex, StillFound
    <3>2. PagesInHand(t) = {arg[t]} /\ lost' = lost \cup {arg[t]}
      BY <1>3, <2>3, <3>1 DEF RelIndex, PagesInHand
    <3>3. lost' \in SUBSET Page /\ lost \subseteq lost'
      BY <3>2
    <3>4. nPagesUsed <= Cardinality(lost) /\ nPagesUsed \in Nat
      BY DEF NoPageLeaked
    <3>5. nPagesUsed' <= Cardinality(lost')
      BY <1>1, <3>3, <3>4, LostGrows
    <3> QED BY <1>0, <2>1, <3>2, <3>5 DEF NoPageLeaked
  <2> QED BY <2>2, <2>3
<1>4. CASE RelClear(t)
  <2>1. /\ PagesInHand(t) = {ix[t]}
        /\ owned' = owned /\ lost' = lost
        /\ pageIsUsed' = [pageIsUsed EXCEPT ![ix[t]] = FALSE]
    BY <1>4 DEF RelClear, PagesInHand, ClearsArgument
  <2> QED BY <1>0, <1>1, <2>1 DEF NoPageLeaked
<1>5. CASE RelStore(t)
  <2>1. PagesInHand(t) = {} /\ owned' = owned /\ pageIsUsed' = pageIsUsed /\ lost' = lost
    BY <1>5 DEF RelStore, PagesInHand
  <2> QED BY <1>0, <1>1, <2>1 DEF NoPageLeaked
<1> QED BY <1>2, <1>3, <1>4, <1>5 DEF ReleasePage

(* With any number of pages and of threads in getPage() and releasePage(), a *)
(* page is lost only in a releasePage() during which another one ended, and  *)
(* deletePages() counts no page but those.                                   *)
THEOREM SpecNoPageLeaked == PoolSpec => []NoPageLeaked
<1>1. PoolInit => LInv
  <2> SUFFICES ASSUME PoolInit PROVE StillFound /\ NoPageLeaked
    BY InitPoolIInv DEF LInv
  <2>1. nPagesUsed = 0 /\ Cardinality(lost) = 0
    BY FS_EmptySet DEF PoolInit
  <2> QED BY <2>1 DEF PoolInit, StillFound, NoPageLeaked, Threads
<1>2. LInv /\ [PoolNext]_poolVars => LInv'
  <2> SUFFICES ASSUME LInv, [PoolNext]_poolVars PROVE StillFound' /\ NoPageLeaked'
    BY NextPoolIInv DEF LInv
  <2>1. CASE Destroy
    <3>1. {p \in Page : pageIsUsed[p]} \subseteq lost /\ lost' = lost
      BY <2>1 DEF Destroy, LInv, NoPageLeaked, PagesInHand, history
    <3>2. IsFiniteSet(lost)
      BY LostFinite DEF LInv, PoolIInv, TInv
    <3>3. nPagesUsed' <= Cardinality(lost)
      BY <2>1, <3>1, <3>2, FS_Subset DEF Destroy
    <3>4. \A p \in Page : ~pageIsUsed'[p]
      BY <2>1 DEF Destroy
    <3>5. StillFound'
      BY <2>1 DEF Destroy, StillFound, Threads
    <3> QED BY <3>1, <3>3, <3>4, <3>5 DEF NoPageLeaked
  <2>2. CASE UNCHANGED poolVars
    BY <2>2 DEF poolVars, LInv, NoPageLeaked, PagesInHand, StillFound
  <2> QED BY <2>1, <2>2, GetPageStillFound, ReleasePageStillFound, GetPageKeepsAll,
             ReleasePageKeepsAll DEF PoolNext, LInv
<1>3. LInv => NoPageLeaked
  BY DEF LInv
<1> QED BY <1>1, <1>2, <1>3, PTL DEF PoolSpec
-----------------------------------------------------------------------------
(* The page tested is the one of the round, unless another getPage() moved   *)
(* the index or took a page during the scan; and some free page is ahead of  *)
(* the scan, unless that, or all pages were in use at some instant.          *)
TestsProbed ==
    \A t \in Getters : pc[t] = "getTest" /\ t \notin disturbed =>
        ix[t] = Probe(lastPageIndexGet, iter[t])
FreeAhead ==
    \A t \in Getters : Scanning(t) /\ ~sawFull[t] /\ t \notin disturbed =>
        \E k \in iter[t] .. numberOfPages - 1 : ~pageIsUsed[Probe(lastPageIndexGet, k)]

NInv == PoolIInv /\ TestsProbed /\ FreeAhead

(* A step of getPage() takes nothing from the scans that others go on with   *)
(* undisturbed, and its own leaves behind it only pages that were in use.    *)
LEMMA GetPageFreeAhead ==
    ASSUME NInv, NEW g \in Getters, GetPage(g)
    PROVE  TestsProbed' /\ FreeAhead'
<1> USE DEF NInv, TestsProbed, FreeAhead, PoolIInv, TInv, PoolTypeOK, Goto, Threads, lasts,
            life, history, Scanning
<1>0. ASSUME NEW u \in Getters \ {g}
      PROVE  /\ pc'[u] = pc[u] /\ iter'[u] = iter[u] /\ ix'[u] = ix[u]
             /\ u \notin disturbed' => u \notin disturbed
             /\ ~sawFull'[u] => ~sawFull[u]
  BY <1>0 DEF GetPage, GetBegin, GetIndex, GetTest, GetStore, GetNull
<1>1. CASE GetBegin(g)
  <2>1. lastPageIndexGet' = lastPageIndexGet /\ pageIsUsed' = pageIsUsed
        /\ iter'[g] = 0 /\ pc'[g] = "getIndex" /\ sawFull'[g] = Full(pageIsUsed)
    BY <1>1 DEF GetBegin
  <2>2. ASSUME ~Full(pageIsUsed)
        PROVE  \E k \in 0 .. numberOfPages - 1 : ~pageIsUsed[Probe(lastPageIndexGet, k)]
    <3>1. PICK p \in Page : ~pageIsUsed[p]
      BY <2>2 DEF Full
    <3>2. \E k \in 0 .. numberOfPages - 1 : Probe(lastPageIndexGet, k) = p
      BY ProbeReaches
    <3> QED BY <3>1, <3>2
  <2> QED BY <1>0, <2>1, <2>2
<1>2. CASE GetIndex(g)
  BY <1>0, <1>2 DEF GetIndex
<1>3. CASE GetTest(g)
  <2>1. CASE pageIsUsed[ix[g]]
    <3>1. /\ pc'[g] = "getIndex" /\ iter'[g] = iter[g] + 1 /\ sawFull' = sawFull
          /\ lastPageIndexGet' = lastPageIndexGet /\ pageIsUsed' = pageIsUsed
          /\ disturbed' = disturbed
      BY <1>3, <2>1 DEF GetTest
    <3>2. ASSUME ~sawFull[g], g \notin disturbed
          PROVE  \E k \in iter'[g] .. numberOfPages - 1 : ~pageIsUsed[Probe(lastPageIndexGet, k)]
      <4>1. PICK k \in iter[g] .. numberOfPages - 1 : ~pageIsUsed[Probe(lastPageIndexGet, k)]
        BY <1>3, <3>2 DEF GetTest
      <4>2. pageIsUsed[Probe(lastPageIndexGet, iter[g])]
        BY <1>3, <2>1, <3>2 DEF GetTest
      <4>3. k # iter[g]
        BY <4>1, <4>2
      <4>4. k \in iter'[g] .. numberOfPages - 1
        BY <3>1, <4>3, PagesAssumption
      <4> QED BY <4>1, <4>4
    <3> QED BY <1>0, <3>1, <3>2
  <2>2. CASE ~pageIsUsed[ix[g]]
    <3>1. pc'[g] = "getStore" /\ \A u \in Getters \ {g} : Scanning(u) => u \in disturbed'
      BY <1>3, <2>2 DEF GetTest
    <3> QED BY <1>0, <3>1
  <2> QED BY <2>1, <2>2
<1>4. CASE GetStore(g)
  <2>1. pc'[g] = "idle" /\ \A u \in Getters \ {g} : Scanning(u) => u \in disturbed'
    BY <1>4 DEF GetStore
  <2> QED BY <1>0, <2>1
<1>5. CASE GetNull(g)
  <2>1. pc'[g] = "idle" /\ pageIsUsed' = pageIsUsed /\ lastPageIndexGet' = lastPageIndexGet
    BY <1>5 DEF GetNull
  <2> QED BY <1>0, <2>1
<1> QED BY <1>1, <1>2, <1>3, <1>4, <1>5 DEF GetPage

(* releasePage() only frees pages under a scan of getPage().                 *)
LEMMA ReleasePageFreeAhead ==
    ASSUME NInv, NEW t \in Releasers, ReleasePage(t)
    PROVE  TestsProbed' /\ FreeAhead'
<1> USE DEF NInv, TestsProbed, FreeAhead, PoolIInv, TInv, PoolTypeOK, Goto, Threads, lasts,
            life, history, Scanning
<1>1. lastPageIndexGet' = lastPageIndexGet /\ sawFull' = sawFull
  BY DEF ReleasePage, RelBegin, RelIndex, RelClear, RelStore
<1>2. ASSUME NEW g \in Getters, pc'[g] \in {"getIndex", "getTest"}, g \notin disturbed'
      PROVE  pc'[g] = pc[g] /\ iter'[g] = iter[g] /\ ix'[g] = ix[g] /\ g \notin disturbed
  BY <1>2 DEF ReleasePage, RelBegin, RelIndex, RelClear, RelStore
<1>3. \A p \in Page : ~pageIsUsed[p] => ~pageIsUsed'[p]
  BY DEF ReleasePage, RelBegin, RelIndex, RelClear, RelStore
<1>4. ASSUME NEW g \in Getters, NEW k \in iter[g] .. numberOfPages - 1
      PROVE  Probe(lastPageIndexGet, k) \in Page
  <2>1. iter[g] \in 0 .. numberOfPages /\ lastPageIndexGet \in Page \cup {-1}
    OBVIOUS
  <2>2. k \in 0 .. numberOfPages
    BY <2>1, PagesAssumption
  <2> QED BY <2>1, <2>2, ProbeInPage
<1> QED BY <1>1, <1>2, <1>3, <1>4

(* NULL is answered only if all pages were in use at one instant of the      *)
(* call, or another getPage() interfered with it, for every number of pages  *)
(* and of threads that take pages and give them back meanwhile.              *)
THEOREM SpecNullMeansFull == PoolSpec => []NullMeansFull
<1>1. PoolInit => NInv
  BY InitPoolIInv DEF NInv, PoolInit, TestsProbed, FreeAhead, Threads, Scanning
<1>2. NInv /\ [PoolNext]_poolVars => NInv'
  <2> SUFFICES ASSUME NInv, [PoolNext]_poolVars PROVE TestsProbed' /\ FreeAhead'
    BY NextPoolIInv DEF NInv
  <2>1. CASE Destroy
    BY <2>1 DEF Destroy, TestsProbed, FreeAhead, Threads, Scanning
  <2>2. CASE UNCHANGED poolVars
    BY <2>2 DEF poolVars, NInv, TestsProbed, FreeAhead, Scanning
  <2> QED BY <2>1, <2>2, GetPageFreeAhead, ReleasePageFreeAhead DEF PoolNext
<1>3. NInv => NullMeansFull
  BY PagesAssumption DEF NInv, PoolIInv, TInv, PoolTypeOK, FreeAhead, NullMeansFull, Scanning
<1> QED BY <1>1, <1>2, <1>3, PTL DEF PoolSpec
-----------------------------------------------------------------------------
(***************************************************************************)
(* Readout.                                                                *)
(***************************************************************************)

(***************************************************************************)
(* The callbacks that returned late are counted by threadMain()'s own      *)
(* counter, but for one: the callback that was running when shutdown was   *)
(* set.  While a callback runs that one is still to come or was the first. *)
(***************************************************************************)
LateCounted(t) ==
    /\ ~shutdown[t] => lateCalls[t] = 0
    /\ lateCalls[t] <= nIterOnShutdown[t] + 1
    /\ tpc[t] = "call" => lateCalls[t] <= nIterOnShutdown[t]

ThreadIInv == ThreadTypeOK /\ \A t \in ThreadIds : LateCounted(t)

(* No thread runs and nothing is counted at the start. *)
LEMMA InitThreadIInv == ThreadInit => ThreadIInv
  BY IterAssumption DEF ThreadInit, ThreadIInv, ThreadTypeOK, LateCounted

(* Every call of the owner and every step of threadMain() keeps the types.  *)
LEMMA NextThreadTypeOK == ThreadTypeOK /\ [ThreadNext]_threadVars => ThreadTypeOK'
<1> SUFFICES ASSUME ThreadTypeOK, [ThreadNext]_threadVars
             PROVE  ThreadTypeOK'
  OBVIOUS
<1> USE IterAssumption DEF ThreadTypeOK
<1>1. CASE UNCHANGED threadVars
  BY <1>1 DEF threadVars
<1>2. ASSUME NEW t \in ThreadIds, Owner(t)
      PROVE  ThreadTypeOK'
  <2>1. CASE StartThread(t)
    BY <2>1 DEF StartThread
  <2>2. CASE StopThread(t)
    <3>1. shutdown' \in [ThreadIds -> BOOLEAN]
      BY <2>2, Zenon DEF StopThread
    <3>2. QED
      BY <2>2, <3>1 DEF StopThread
  <2>3. CASE JoinThread(t)
    BY <2>3 DEF JoinThread
  <2>4. QED
    BY <1>2, <2>1, <2>2, <2>3 DEF Owner
<1>3. ASSUME NEW t \in ThreadIds, LoopTop(t)
      PROVE  ThreadTypeOK'
  BY <1>3 DEF LoopTop
<1>4. ASSUME NEW t \in ThreadIds, NEW r \in {"Ok", "Idle", "Done", "Error"}, Returned(t, r)
      PROVE  ThreadTypeOK'
  BY <1>4 DEF Returned
<1>5. ASSUME NEW t \in ThreadIds, CheckShutdown(t)
      PROVE  ThreadTypeOK'
  BY <1>5 DEF CheckShutdown
<1>6. QED
  BY <1>1, <1>2, <1>3, <1>4, <1>5 DEF ThreadNext, ThreadMain

(* ... and the relation of the two counters.                                *)
LEMMA NextLateCounted ==
    ThreadIInv /\ [ThreadNext]_threadVars => \A t \in ThreadIds : LateCounted(t)'
<1> SUFFICES ASSUME ThreadIInv, [ThreadNext]_threadVars, NEW u \in ThreadIds
             PROVE  LateCounted(u)'
  OBVIOUS
<1> USE IterAssumption DEF ThreadIInv, ThreadTypeOK, LateCounted
<1>1. CASE UNCHANGED threadVars
  BY <1>1 DEF threadVars
<1>2. ASSUME NEW t \in ThreadIds, StartThread(t)
      PROVE  LateCounted(u)'
  BY <1>2 DEF StartThread
<1>3. ASSUME NEW t \in ThreadIds, StopThread(t)
      PROVE  LateCounted(u)'
  BY <1>3 DEF StopThread
<1>4. ASSUME NEW t \in ThreadIds, JoinThread(t)
      PROVE  LateCounted(u)'
  BY <1>4 DEF JoinThread
<1>5. ASSUME NEW t \in ThreadIds, LoopTop(t)
      PROVE  LateCounted(u)'
  BY <1>5 DEF LoopTop
<1>6. ASSUME NEW t \in ThreadIds, NEW r \in {"Ok", "Idle", "Done", "Error"}, Returned(t, r)
      PROVE  LateCounted(u)'
  BY <1>6 DEF Returned
<1>7. ASSUME NEW t \in ThreadIds, CheckShutdown(t)
      PROVE  LateCounted(u)'
  BY <1>7 DEF CheckShutdown
<1>8. QED
  BY <1>1, <1>2, <1>3, <1>4, <1>5, <1>6, <1>7 DEF ThreadNext, Owner, ThreadMain

(* The types hold in every state of every behaviour of the threads.          *)
THEOREM SpecThreadTypeOK == ThreadSpec => []ThreadTypeOK
<1>1. ThreadInit => ThreadTypeOK
  BY InitThreadIInv DEF ThreadIInv
<1>2. QED
  BY <1>1, NextThreadTypeOK, PTL DEF ThreadSpec

(* Thread::stop() is bounded for every number of rounds allowed: at most one *)
(* callback more than maxIterOnShutdown returns after it.                    *)
THEOREM SpecBoundedDrain == ThreadSpec => []BoundedDrain
<1>1. ThreadIInv /\ [ThreadNext]_threadVars => ThreadIInv'
  BY NextThreadTypeOK, NextLateCounted DEF ThreadIInv
<1>2. ThreadIInv => BoundedDrain
  <2> SUFFICES ASSUME ThreadIInv, NEW t \in ThreadIds
               PROVE  lateCalls[t] <= maxIterOnShutdown + 1
    BY DEF BoundedDrain
  <2>1. /\ lateCalls[t] \in Nat
        /\ nIterOnShutdown[t] \in 0 .. maxIterOnShutdown
    BY DEF ThreadIInv, ThreadTypeOK
  <2>2. lateCalls[t] <= nIterOnShutdown[t] + 1
    BY DEF ThreadIInv, LateCounted
  <2>3. QED
    BY <2>1, <2>2, IterAssumption
<1>3. QED
  BY InitThreadIInv, <1>1, <1>2, PTL DEF ThreadSpec

-----------------------------------------------------------------------------
(***************************************************************************)
(* The places a block can be in, as sets.                                  *)
(***************************************************************************)
Inputs  == UNION {ToSet(dataOut[e]) : e \in Equipments}
InHand  == {<<e, currentId[e]>> : e \in {x \in Equipments : epc[x] = "push"}}
Blocks(q) == UNION {ToSet(q[k]) : k \in 1 .. Len(q)}
Outputs == Blocks(output)
Taken   == UNION {pages[e] : e \in Equipments}

(***************************************************************************)
(* The types, by the thread that writes the variables.                     *)
(***************************************************************************)
OnlyOf(e, q) == \A i \in 1 .. Len(q) : q[i][1] = e
TypesE ==
    /\ epc \in [Equipments -> {"test", "get", "push"}]
    /\ currentId \in [Equipments -> FirstId - 1 .. LastId]
    /\ \A e \in Equipments : epc[e] = "push" => currentId[e] \in Id
    /\ dataOut \in [Equipments -> Seq(Block)]
    /\ \A e \in Equipments : OnlyOf(e, dataOut[e]) /\ Len(dataOut[e]) <= FifoSize
    /\ pages \in [Equipments -> SUBSET Block]
    /\ \A e \in Equipments : IsFiniteSet(pages[e]) /\ Cardinality(pages[e]) <= NumPages
    /\ given \in SUBSET Block
TypesA ==
    /\ apc \in {"test", "scan", "wait", "create", "take", "push"}
    /\ ai \in 1 .. NumEquipments + 1
    /\ someEmpty \in BOOLEAN /\ allEmpty \in BOOLEAN /\ allSame \in BOOLEAN
    /\ isIncompletePending \in BOOLEAN /\ expired \in BOOLEAN /\ everExpired \in BOOLEAN
    /\ lastOut \in FirstId - 1 .. LastId
    /\ minId \in Id \cup {0} /\ lastId \in Id \cup {0}
    /\ bcv \in Seq(Block)
TypesO == output \in Seq(Seq(Block)) /\ Len(output) <= OutSize
TypesM ==
    /\ mpc \in {"startAgg", "startEq", "loop", "pop", "consume", "stopEq", "joinEq", "stopAgg",
                "joinAgg", "clearInputs", "popOutput", "consumers", "close", "done", "killed"}
    /\ mi \in Equipments
    /\ isRunning \in BOOLEAN
    /\ bc \in Seq(Block)
    /\ held \in SUBSET Block /\ consumed \in SUBSET Block /\ discarded \in SUBSET Block
    /\ ShutdownRequest \in BOOLEAN /\ exitTimeout \in BOOLEAN /\ drained \in BOOLEAN
Types == ThreadTypeOK /\ TypesE /\ TypesA /\ TypesO /\ TypesM

\* A thread is in the middle of its callback only while it runs, and what the callback
\* tested at its beginning still holds: nobody else writes to its FIFO.
Callbacks ==
    /\ \A e \in Equipments : /\ tpc[e] # "call" => epc[e] = "test"
                             /\ epc[e] # "test" => Len(dataOut[e]) < FifoSize
    /\ tpc[Aggregator] # "call" => apc = "test"
    /\ apc # "test" => Len(output) < OutSize
    /\ apc # "take" => bcv = << >>

Stopping == {"stopEq", "joinEq"}
Cleared  == {"clearInputs", "popOutput", "consumers", "close"}

\* How far main() has taken the threads down.
Shutdown ==
    /\ mpc \in Stopping \cup Cleared \cup {"stopAgg", "joinAgg"} => ~isRunning
    /\ mpc \in {"startAgg", "startEq"} => isRunning
    /\ mpc \notin Stopping \cup {"startEq", "killed"} => mi = 1
    /\ mpc \in Stopping => \A e \in 1 .. mi - 1 : tpc[e] = "none"
    /\ ~isRunning /\ mpc \notin Stopping \cup {"killed"} => \A e \in Equipments : tpc[e] = "none"
    /\ mpc \in Cleared => tpc[Aggregator] = "none"
    /\ mpc \notin {"consume", "killed"} => bc = << >>

\* The blocks x are before the blocks y, as far as they are of the same equipment.
Before(x, y) == \A b \in x, c \in y : b[1] = c[1] => b[2] < c[2]

\* The blocks of an equipment are in line, from the consumers to the equipment.
SortedQueues ==
    /\ \A e \in Equipments : \A i, j \in 1 .. Len(dataOut[e]) :
          i < j => dataOut[e][i][2] < dataOut[e][j][2]
    /\ \A i, j \in 1 .. Len(output) : i < j => Before(ToSet(output[i]), ToSet(output[j]))
Lined(A, B, C, D, E, F) ==
    /\ Before(A, B)
    /\ Before(A \cup B, C)
    /\ Before(A \cup B \cup C, D)
    /\ Before(A \cup B \cup C \cup D, E)
    /\ Before(A \cup B \cup C \cup D \cup E, F)
Line == Lined(consumed, ToSet(bc), Outputs, ToSet(bcv), Inputs, InHand)
InLine == SortedQueues /\ Line /\ \A b \in given : b[2] <= currentId[b[1]]

\* Where the blocks are, and their pages.
Accounted ==
    /\ given = InPipeline \cup consumed \cup discarded
    /\ discarded # {} => mpc \in {"popOutput", "consumers", "close", "done", "killed"}
    /\ Taken = InPipeline \cup held
    /\ held \subseteq consumed
    /\ mpc \in {"popOutput", "consumers", "close", "done"} =>
          \A e \in Equipments : dataOut[e] = << >>
    /\ mpc \in {"consumers", "close", "done"} => output = << >>
    /\ mpc \in {"close", "done"} => held = {} /\ InPipeline = {}

\* Equipment m has a block with id at least, or exactly, minId at the front.
FrontIs(m) == dataOut[m] # << >> /\ Head(dataOut[m])[2] = minId
FrontFrom(m) == dataOut[m] # << >> /\ Head(dataOut[m])[2] >= minId

Matching(ds) ==
    /\ ds # << >>
    /\ \A j, k \in 1 .. Len(ds) : /\ ds[j][2] = ds[k][2]
                                  /\ ds[j][1] = ds[k][1] => j = k

\* What the aggregator knows of the inputs while the equipments go on, of the data set in its
\* hands, and of those behind it.
Fronts ==
    /\ apc = "scan" /\ ~allEmpty => \E m \in 1 .. ai - 1 : FrontIs(m)
    /\ apc = "scan" /\ minId # 0 => ~allEmpty
    /\ apc \in {"wait", "create"} => \E m \in Equipments : FrontIs(m)
    /\ apc = "take" /\ bcv = << >> => \E m \in ai .. NumEquipments : FrontIs(m)
Gathered ==
    /\ \A j \in 1 .. Len(bcv) : bcv[j][2] = minId /\ bcv[j][1] < ai
    /\ \A j, k \in 1 .. Len(bcv) : j < k => bcv[j][1] < bcv[k][1]
Delivered ==
    /\ \A k \in 1 .. Len(output) : Matching(output[k])
    /\ mpc = "consume" => Matching(bc)
Aggregated == Fronts /\ Gathered /\ Delivered

\* Nothing with an id up to x is still to come from equipment e.
Beyond(e, x) ==
    /\ \A i \in 1 .. Len(dataOut[e]) : dataOut[e][i][2] > x
    /\ epc[e] = "push" => currentId[e] > x
    /\ currentId[e] >= x

Complete ==
    /\ apc = "scan" /\ ~someEmpty => \A m \in 1 .. ai - 1 : minId # 0 /\ FrontFrom(m)
    /\ ~everExpired =>
          /\ \A e \in Equipments : Beyond(e, lastOut)
          /\ apc = "create" => \A m \in Equipments : FrontFrom(m)
          /\ apc = "take" => /\ \A m \in ai .. NumEquipments : FrontFrom(m)
                             /\ \A m \in 1 .. ai - 1 : Beyond(m, minId)

-----------------------------------------------------------------------------
(* The constants of the readout.                                            *)
LEMMA Constants ==
    /\ NumEquipments \in Nat \ {0} /\ FirstId \in Nat /\ LastId \in Nat /\ FirstId <= LastId
    /\ FifoSize \in Nat \ {0} /\ OutSize \in Nat \ {0} /\ NumPages \in Nat \ {0}
    /\ Aggregator \in ThreadIds /\ Aggregator \notin Equipments
    /\ \A e \in Equipments : e \in ThreadIds /\ e \in Nat
    /\ Id \subseteq Nat /\ FirstId - 1 \in Int
  BY ReadoutAssumption, ThreadsAssumption DEF Equipments, Aggregator, Id

(* The types by thread are the types of Readout.                            *)
LEMMA TypesAreTypeOK == Types => TypeOK
<1> SUFFICES ASSUME Types PROVE TypeOK
  OBVIOUS
<1>1. <<someEmpty, allEmpty, allSame, isIncompletePending, expired, everExpired>>
         \in [1 .. 6 -> BOOLEAN]
  BY DEF Types, TypesA
<1>2. <<ShutdownRequest, exitTimeout, drained>> \in [1 .. 3 -> BOOLEAN]
  BY DEF Types, TypesM
<1>3. ASSUME NEW e \in Equipments PROVE dataOut[e] \in Seq({e} \X Id)
  <2>1. dataOut[e] \in [1 .. Len(dataOut[e]) -> Block] /\ Len(dataOut[e]) \in Nat
    BY DEF Types, TypesE
  <2>2. \A i \in 1 .. Len(dataOut[e]) : dataOut[e][i] \in {e} \X Id
    BY <2>1 DEF Types, TypesE, OnlyOf, Block
  <2> QED BY <2>1, <2>2
<1> QED BY <1>1, <1>2, <1>3 DEF TypeOK, Types, TypesE, TypesA, TypesO, TypesM

(* Every step of the readout is a step of the threads, or none of theirs.   *)
LEMMA ThreadStep ==
    ASSUME mi \in Equipments, [Next]_vars PROVE [ThreadNext]_threadVars
<1> USE Constants
<1>1. ASSUME NEW t \in ThreadIds, NEW r \in {"Ok", "Idle", "Error"}, Returned(t, r)
      PROVE  ThreadNext
  BY <1>1 DEF ThreadNext, ThreadMain
<1>2. ASSUME NEW t \in ThreadIds, Looping(t) PROVE ThreadNext
  BY <1>2 DEF Looping, ThreadNext, ThreadMain
<1>3. ASSUME NEW t \in ThreadIds, StartThread(t) \/ StopThread(t) \/ JoinThread(t) PROVE ThreadNext
  BY <1>3 DEF ThreadNext, Owner
<1>4. ASSUME NEW e \in Equipments, EquipmentThread(e) PROVE [ThreadNext]_threadVars
  BY <1>1, <1>2, <1>4 DEF EquipmentThread, EqRateReached, EqTestFull, EqGetPage, EqNoPage, EqPush,
                          EqReturn
<1>5. CASE AggregatorThread
  BY <1>1, <1>2, <1>5 DEF AggregatorThread, AggTestFull, AggScan, AggScanned, AggWait, AggCreate,
                          AggTake, AggPush, AggReturn
<1>6. CASE MainThread
  <2>1. CASE MainStartAgg \/ MainStartEq \/ MainStopEq \/ MainJoinEq \/ MainStopAgg \/ MainJoinAgg
    BY <1>3, <2>1 DEF MainStartAgg, MainStartEq, MainStopEq, MainJoinEq, MainStopAgg, MainJoinAgg
  <2>2. CASE \/ MainLoop \/ MainPop \/ MainConsume \/ MainClearInputs \/ MainPopOutput
             \/ MainStopConsumers \/ MainClose
    BY <2>2 DEF MainLoop, MainPop, MainConsume, MainClearInputs, MainPopOutput, MainStopConsumers,
                MainClose
  <2> QED BY <1>6, <2>1, <2>2 DEF MainThread
<1>7. CASE UNCHANGED vars \/ TimerExpires \/ MainTimeout \/ Signal \/ ConsumerRelease
  BY <1>7 DEF vars, TimerExpires, MainTimeout, Signal, ConsumerRelease
<1> QED BY <1>4, <1>5, <1>6, <1>7 DEF Next

-----------------------------------------------------------------------------
(* The types hold after every step, thread by thread.                       *)
LEMMA ReleasedTypes ==
    ASSUME TypesE, NEW S
    PROVE  /\ Released(S) \in [Equipments -> SUBSET Block]
           /\ \A e \in Equipments : /\ IsFiniteSet(Released(S)[e])
                                    /\ Cardinality(Released(S)[e]) <= NumPages
<1>1. ASSUME NEW e \in Equipments
      PROVE  /\ Released(S)[e] = pages[e] \ S /\ Released(S)[e] \in SUBSET Block
             /\ IsFiniteSet(Released(S)[e]) /\ Cardinality(Released(S)[e]) <= NumPages
  <2>1. Released(S)[e] = pages[e] \ S
    BY DEF Released
  <2>2. pages[e] \in SUBSET Block /\ IsFiniteSet(pages[e]) /\ Cardinality(pages[e]) <= NumPages
    BY DEF TypesE
  <2>3. IsFiniteSet(pages[e] \ S) /\ Cardinality(pages[e] \ S) <= Cardinality(pages[e])
    BY <2>2, FS_Subset
  <2>4. Cardinality(pages[e]) \in Nat /\ Cardinality(pages[e] \ S) \in Nat /\ NumPages \in Nat
    BY <2>2, <2>3, FS_CardinalityType, Constants
  <2> QED BY <2>1, <2>2, <2>3, <2>4
<1> QED BY <1>1 DEF Released

(* A step of an equipment keeps the types of what it writes.                *)
LEMMA EquipmentTypes ==
    ASSUME Types, NEW e \in Equipments, EquipmentThread(e) PROVE TypesE'
<1> USE Constants
<1>1. CASE Looping(e)
  BY <1>1 DEF Looping, equipmentVars, Types, TypesE
<1>2. CASE EqRateReached(e) \/ EqNoPage(e) \/ EqTestFull(e)
  <2>1. /\ epc' \in [Equipments -> {"test", "get", "push"}]
        /\ \A x \in Equipments : epc'[x] = "push" => epc[x] = "push"
        /\ UNCHANGED <<currentId, dataOut, pages, given>>
    BY <1>2 DEF EqRateReached, EqNoPage, EqTestFull, EqReturn, Types, TypesE
  <2> QED BY <2>1 DEF Types, TypesE
<1>3. CASE EqGetPage(e)
  <2>1. PICK id \in currentId[e] + 1 .. LastId :
          /\ currentId' = [currentId EXCEPT ![e] = id]
          /\ pages' = [pages EXCEPT ![e] = @ \cup {<<e, id>>}]
          /\ given' = given \cup {<<e, id>>}
    BY <1>3 DEF EqGetPage
  <2>2. currentId[e] \in FirstId - 1 .. LastId
    BY DEF Types, TypesE
  <2>3. id \in Id /\ <<e, id>> \in Block
    BY <2>1, <2>2 DEF Id, Block
  <2>4. currentId' \in [Equipments -> FirstId - 1 .. LastId]
    BY <2>1, <2>3 DEF Types, TypesE, Id
  <2>5. IsFiniteSet(pages[e]) /\ Cardinality(pages[e]) < NumPages
    BY <1>3 DEF EqGetPage, Types, TypesE
  <2>6. /\ IsFiniteSet(pages[e] \cup {<<e, id>>})
        /\ Cardinality(pages[e] \cup {<<e, id>>}) <= Cardinality(pages[e]) + 1
        /\ Cardinality(pages[e]) \in Nat
    <3> DEFINE x == <<e, id>>
               P == pages[e]
    <3> HIDE DEF x, P
    <3>1. /\ IsFiniteSet(P \cup {x}) /\ Cardinality(P) \in Nat
          /\ Cardinality(P \cup {x}) = IF x \in P THEN Cardinality(P) ELSE Cardinality(P) + 1
      BY <2>5, FS_AddElement, FS_CardinalityType DEF P
    <3>2. Cardinality(P \cup {x}) <= Cardinality(P) + 1
      BY <3>1
    <3> QED BY <3>1, <3>2 DEF x, P
  <2>7. Cardinality(pages[e] \cup {<<e, id>>}) <= NumPages
    BY <2>5, <2>6, FS_CardinalityType
  <2>8. /\ pages' \in [Equipments -> SUBSET Block]
        /\ \A x \in Equipments : IsFiniteSet(pages'[x]) /\ Cardinality(pages'[x]) <= NumPages
    BY <2>1, <2>3, <2>6, <2>7 DEF Types, TypesE
  <2>9. /\ epc' \in [Equipments -> {"test", "get", "push"}] /\ dataOut' = dataOut
        /\ \A x \in Equipments : x # e => epc'[x] = epc[x]
        /\ given' \in SUBSET Block
    BY <1>3, <2>1, <2>3 DEF EqGetPage, Types, TypesE
  <2>10. \A x \in Equipments : epc'[x] = "push" => currentId'[x] \in Id
    BY <2>1, <2>3, <2>9 DEF Types, TypesE
  <2> QED BY <2>4, <2>8, <2>9, <2>10 DEF Types, TypesE
<1>4. CASE EqPush(e)
  <2> DEFINE b == <<e, currentId[e]>>
  <2>1. /\ epc' \in [Equipments -> {"test", "get", "push"}] /\ UNCHANGED <<currentId, given>>
        /\ \A x \in Equipments : epc'[x] = "push" => epc[x] = "push"
    BY <1>4 DEF EqPush, EqReturn, Types, TypesE
  <2>2. \/ /\ Len(dataOut[e]) < FifoSize /\ pages' = pages
           /\ dataOut' = [dataOut EXCEPT ![e] = Append(@, b)]
        \/ dataOut' = dataOut /\ pages' = Released({b})
    BY <1>4 DEF EqPush
  <2>3. /\ pages' \in [Equipments -> SUBSET Block]
        /\ \A x \in Equipments : IsFiniteSet(pages'[x]) /\ Cardinality(pages'[x]) <= NumPages
    <3>1. CASE pages' = pages
      BY <3>1 DEF Types, TypesE
    <3>2. CASE pages' = Released({b})
      <4> HIDE DEF b
      <4> QED BY <3>2, ReleasedTypes DEF Types
    <3> QED BY <2>2, <3>1, <3>2
  <2>4. /\ dataOut' \in [Equipments -> Seq(Block)]
        /\ \A x \in Equipments : OnlyOf(x, dataOut'[x]) /\ Len(dataOut'[x]) <= FifoSize
    <3>1. b \in Block /\ dataOut[e] \in Seq(Block) /\ Len(dataOut[e]) \in Nat
      BY <1>4 DEF EqPush, Types, TypesE, Block
    <3>2. /\ Append(dataOut[e], b) \in Seq(Block)
          /\ Len(Append(dataOut[e], b)) = Len(dataOut[e]) + 1
          /\ OnlyOf(e, Append(dataOut[e], b))
      <4>1. OnlyOf(e, dataOut[e]) /\ b[1] = e
        BY DEF Types, TypesE
      <4> HIDE DEF b
      <4> QED BY <3>1, <4>1, SetOfAppend DEF OnlyOf
    <3> HIDE DEF b
    <3>3. CASE dataOut' = dataOut
      BY <3>3 DEF Types, TypesE
    <3>4. CASE /\ Len(dataOut[e]) < FifoSize
               /\ dataOut' = [dataOut EXCEPT ![e] = Append(@, b)]
      <4>1. /\ dataOut \in [Equipments -> Seq(Block)]
            /\ \A x \in Equipments : OnlyOf(x, dataOut[x]) /\ Len(dataOut[x]) <= FifoSize
        BY DEF Types, TypesE
      <4>2. dataOut' \in [Equipments -> Seq(Block)]
        BY <3>2, <3>4, <4>1
      <4>3. dataOut'[e] = Append(dataOut[e], b) /\ \A x \in Equipments \ {e} : dataOut'[x] = dataOut[x]
        BY <3>4, <4>1
      <4>4. Len(dataOut[e]) + 1 <= FifoSize
        BY <3>1, <3>4
      <4>5. OnlyOf(e, dataOut'[e]) /\ Len(dataOut'[e]) <= FifoSize
        BY <3>2, <4>3, <4>4
      <4> QED BY <4>1, <4>2, <4>3, <4>5
    <3> QED BY <2>2, <3>3, <3>4
  <2> QED BY <2>1, <2>3, <2>4 DEF Types, TypesE
<1> QED BY <1>1, <1>2, <1>3, <1>4 DEF EquipmentThread

(* A data set the aggregator has put together is not empty, so its id is one. *)
LEMMA DataSetHasId ==
    ASSUME Types, Aggregated, apc = "take", ai > NumEquipments
    PROVE  bcv # << >> /\ minId \in Id
<1> USE Constants
<1>1. ai .. NumEquipments = {}
  BY DEF Types, TypesA
<1>2. bcv # << >>
  BY <1>1 DEF Aggregated, Fronts
<1>3. bcv \in Seq(Block)
  BY DEF Types, TypesA
<1>4. bcv[1] \in Block /\ 1 \in 1 .. Len(bcv)
  BY <1>2, <1>3
<1> QED BY <1>2, <1>4 DEF Aggregated, Gathered, Block

(* A step of the aggregator keeps the types of what it writes.              *)
LEMMA AggregatorTypes ==
    ASSUME Types, Aggregated, AggregatorThread PROVE TypesE' /\ TypesA' /\ TypesO'
<1> USE Constants
<1>1. CASE Looping(Aggregator)
  BY <1>1 DEF Looping, equipmentVars, aggregatorVars, scanVars, Types, TypesE, TypesA, TypesO
<1>2. CASE AggTestFull \/ AggScanned \/ AggWait \/ AggCreate
  <2>1. UNCHANGED <<equipmentVars, output, bcv, lastOut>>
    BY <1>2 DEF AggTestFull, AggScanned, AggWait, AggCreate
  <2>2. /\ apc' \in {"test", "scan", "wait", "create", "take", "push"}
        /\ ai' = ai \/ ai' = 1
        /\ minId' = minId \/ minId' = 0
        /\ lastId' = lastId \/ lastId' = 0
    BY <1>2 DEF AggTestFull, AggScanned, AggWait, AggCreate, AggReturn, FreshLocals, scanVars
  <2>3. /\ someEmpty' = someEmpty \/ someEmpty' = FALSE
        /\ allEmpty' = allEmpty \/ allEmpty' = TRUE
        /\ allSame' = allSame \/ allSame' = TRUE
    BY <1>2 DEF AggTestFull, AggScanned, AggWait, AggCreate, AggReturn, FreshLocals, scanVars
  <2>4. isIncompletePending' \in BOOLEAN /\ expired' \in BOOLEAN /\ everExpired' \in BOOLEAN
    <3>1. CASE AggTestFull
      BY <3>1 DEF AggTestFull, Types, TypesA
    <3>2. CASE AggScanned
      BY <3>2, Zenon DEF AggScanned, Types, TypesA
    <3>3. CASE AggWait
      BY <3>3 DEF AggWait, Types, TypesA
    <3>4. CASE AggCreate
      BY <3>4, Zenon DEF AggCreate, Types, TypesA
    <3> QED BY <1>2, <3>1, <3>2, <3>3, <3>4
  <2>5. ai' \in 1 .. NumEquipments + 1 /\ minId' \in Id \cup {0} /\ lastId' \in Id \cup {0}
    BY <2>2 DEF Types, TypesA
  <2>6. someEmpty' \in BOOLEAN /\ allEmpty' \in BOOLEAN /\ allSame' \in BOOLEAN
    BY <2>3 DEF Types, TypesA
  <2>7. TypesA'
    BY <2>1, <2>2, <2>4, <2>5, <2>6 DEF Types, TypesA
  <2> QED BY <2>1, <2>7 DEF equipmentVars, Types, TypesE, TypesO
<1>3. CASE AggScan
  <2>1. UNCHANGED <<equipmentVars, output, apc, bcv, lastOut, isIncompletePending, expired,
                    everExpired>>
    BY <1>3 DEF AggScan
  <2>2. ai \in Equipments /\ ai' \in 1 .. NumEquipments + 1 /\ dataOut[ai] \in Seq(Block)
    BY <1>3 DEF AggScan, Types, TypesE, TypesA, Equipments
  <2>3. dataOut[ai] # << >> => Head(dataOut[ai])[2] \in Id
    BY <2>2, SetOfTail DEF Block
  <2>4. minId' \in Id \cup {0} /\ lastId' \in Id \cup {0}
    BY <1>3, <2>3 DEF AggScan, Types, TypesA
  <2>5. someEmpty' \in BOOLEAN /\ allEmpty' \in BOOLEAN
    BY <1>3 DEF AggScan, Types, TypesA
  <2>6. allSame' \in BOOLEAN
    BY <1>3, Zenon DEF AggScan, Types, TypesA
  <2>7. TypesA'
    BY <2>1, <2>2, <2>4, <2>5, <2>6 DEF Types, TypesA
  <2> QED BY <2>1, <2>7 DEF equipmentVars, Types, TypesE, TypesO
<1>4. CASE AggTake
  <2>1. /\ UNCHANGED <<output, apc, scanVars, lastOut, isIncompletePending, expired, everExpired>>
        /\ UNCHANGED <<epc, currentId, pages, given>>
    BY <1>4 DEF AggTake
  <2>2. ai \in Equipments /\ ai' \in 1 .. NumEquipments + 1 /\ dataOut[ai] \in Seq(Block)
    BY <1>4 DEF AggTake, Types, TypesE, TypesA, Equipments
  <2>3. CASE UNCHANGED <<bcv, dataOut>>
    BY <2>1, <2>2, <2>3 DEF scanVars, Types, TypesE, TypesA, TypesO
  <2>4. CASE /\ dataOut[ai] # << >> /\ bcv' = Append(bcv, Head(dataOut[ai]))
             /\ dataOut' = [dataOut EXCEPT ![ai] = Tail(@)]
    <3> DEFINE q == dataOut[ai]
               h == Head(q)
               r == Tail(q)
    <3>1. /\ r \in Seq(Block) /\ Len(r) = Len(q) - 1 /\ h \in Block /\ Len(q) \in Nat
          /\ \A i \in 1 .. Len(r) : r[i] = q[i + 1]
      BY <2>2, <2>4, SetOfTail
    <3>2. /\ dataOut \in [Equipments -> Seq(Block)]
          /\ \A x \in Equipments : OnlyOf(x, dataOut[x]) /\ Len(dataOut[x]) <= FifoSize
      BY DEF Types, TypesE
    <3>3. OnlyOf(ai, q) /\ Len(q) <= FifoSize
      BY <2>2, <3>2
    <3>4. dataOut' = [dataOut EXCEPT ![ai] = r]
      BY <2>4
    <3>5. bcv' \in Seq(Block)
      BY <2>4, <3>1 DEF Types, TypesA
    <3> HIDE DEF h, r, q
    <3>6. OnlyOf(ai, r) /\ Len(r) <= FifoSize
      BY <3>1, <3>3 DEF OnlyOf
    <3>7. dataOut' \in [Equipments -> Seq(Block)]
      BY <3>1, <3>2, <3>4
    <3>8. dataOut'[ai] = r /\ \A x \in Equipments \ {ai} : dataOut'[x] = dataOut[x]
      BY <2>2, <3>2, <3>4
    <3>9. \A x \in Equipments : OnlyOf(x, dataOut'[x]) /\ Len(dataOut'[x]) <= FifoSize
      BY <3>2, <3>6, <3>8
    <3>10. TypesE'
      BY <2>1, <3>7, <3>9 DEF Types, TypesE
    <3>11. UNCHANGED <<apc, someEmpty, allEmpty, allSame, minId, lastId, lastOut,
                       isIncompletePending, expired, everExpired>>
      BY <2>1 DEF scanVars
    <3>12. TypesA'
      BY <2>2, <3>5, <3>11 DEF Types, TypesA
    <3> QED BY <2>1, <3>10, <3>12 DEF Types, TypesO
  <2> QED BY <1>4, <2>3, <2>4 DEF AggTake
<1>5. CASE AggPush
  <2>1. /\ UNCHANGED <<isIncompletePending, expired, everExpired, epc, currentId, dataOut, given>>
        /\ bcv' = << >> /\ lastOut' = minId /\ apc' = "test" /\ FreshLocals
    BY <1>5 DEF AggPush, AggReturn
  <2>2. minId \in FirstId - 1 .. LastId
    BY <1>5, DataSetHasId DEF AggPush, Id
  <2>3. TypesA'
    <3>1. ai' = 1 /\ minId' = 0 /\ lastId' = 0
      BY <2>1 DEF FreshLocals
    <3>2. someEmpty' \in BOOLEAN /\ allEmpty' \in BOOLEAN /\ allSame' \in BOOLEAN
      BY <2>1 DEF FreshLocals
    <3>3. 1 \in 1 .. NumEquipments + 1 /\ << >> \in Seq(Block)
      OBVIOUS
    <3> QED BY <2>1, <2>2, <3>1, <3>2, <3>3 DEF Types, TypesA
  <2>4. pages' = pages \/ pages' = Released(ToSet(bcv))
    BY <1>5 DEF AggPush
  <2>5. /\ pages' \in [Equipments -> SUBSET Block]
        /\ \A x \in Equipments : IsFiniteSet(pages'[x]) /\ Cardinality(pages'[x]) <= NumPages
    BY <2>4, ReleasedTypes DEF Types, TypesE
  <2>6. TypesE'
    BY <2>1, <2>5 DEF Types, TypesE
  <2>7. output \in Seq(Seq(Block)) /\ bcv \in Seq(Block) /\ Len(output) \in Nat
    BY DEF Types, TypesA, TypesO
  <2>8. TypesO'
    <3>1. CASE output' = output
      BY <3>1 DEF Types, TypesO
    <3>2. CASE Len(output) < OutSize /\ output' = Append(output, bcv)
      <4>1. output' \in Seq(Seq(Block)) /\ Len(output') = Len(output) + 1
        BY <2>7, <3>2
      <4> QED BY <2>7, <3>2, <4>1 DEF TypesO
    <3> QED BY <1>5, <3>1, <3>2 DEF AggPush
  <2> QED BY <2>3, <2>6, <2>8
<1> QED BY <1>1, <1>2, <1>3, <1>4, <1>5 DEF AggregatorThread

(* What main() leaves in the FIFOs and takes from them.                     *)
LEMMA MainQueues ==
    ASSUME Types, MainThread
    PROVE  TypesO' /\ bc' \in Seq(Block) /\ dataOut' \in [Equipments -> Seq(Block)]
           /\ \A e \in Equipments : OnlyOf(e, dataOut'[e]) /\ Len(dataOut'[e]) <= FifoSize
<1> USE Constants
<1>1. /\ dataOut \in [Equipments -> Seq(Block)] /\ bc \in Seq(Block)
      /\ \A e \in Equipments : OnlyOf(e, dataOut[e]) /\ Len(dataOut[e]) <= FifoSize
  BY DEF Types, TypesE, TypesM
<1>2. dataOut' = dataOut \/ dataOut' = [e \in Equipments |-> << >>]
  BY DEF MainThread, MainStartAgg, MainStartEq, MainLoop, MainStopEq, MainJoinEq, MainPop,
         MainConsume, MainStopAgg, MainJoinAgg, MainClearInputs, MainPopOutput,
         MainStopConsumers, MainClose, equipmentVars
<1>3. /\ dataOut' \in [Equipments -> Seq(Block)]
      /\ \A e \in Equipments : OnlyOf(e, dataOut'[e]) /\ Len(dataOut'[e]) <= FifoSize
  <2>1. CASE dataOut' = dataOut
    BY <1>1, <2>1
  <2>2. CASE dataOut' = [e \in Equipments |-> << >>]
    <3>1. << >> \in Seq(Block) /\ Len(<< >>) = 0 /\ \A e \in Equipments : OnlyOf(e, << >>)
      BY SetOfEmpty DEF OnlyOf
    <3> QED BY <2>2, <3>1
  <2> QED BY <1>2, <2>1, <2>2
<1>4. TypesO' /\ bc' \in Seq(Block)
  <2>1. \/ UNCHANGED <<output, bc>>
        \/ output # << >> /\ bc' = Head(output) /\ output' = Tail(output)
        \/ bc' = << >> /\ UNCHANGED output
        \/ output' = << >> /\ UNCHANGED bc
    BY DEF MainThread, MainStartAgg, MainStartEq, MainLoop, MainStopEq, MainJoinEq, MainPop,
           MainConsume, MainStopAgg, MainJoinAgg, MainClearInputs, MainPopOutput,
           MainStopConsumers, MainClose
  <2>2. output \in Seq(Seq(Block)) /\ Len(output) <= OutSize /\ bc \in Seq(Block)
    BY DEF Types, TypesO, TypesM
  <2>3. /\ output # << >> => /\ Head(output) \in Seq(Block) /\ Tail(output) \in Seq(Seq(Block))
                             /\ Len(Tail(output)) = Len(output) - 1 /\ Len(output) \in Nat
        /\ << >> \in Seq(Block) /\ << >> \in Seq(Seq(Block)) /\ Len(<< >>) = 0
    BY <2>2, SetOfTail, SetOfEmpty
  <2>4. CASE UNCHANGED output /\ (UNCHANGED bc \/ bc' = << >>)
    BY <2>2, <2>3, <2>4 DEF TypesO
  <2>5. CASE output # << >> /\ bc' = Head(output) /\ output' = Tail(output)
    <3>1. output' \in Seq(Seq(Block)) /\ Len(output') = Len(output) - 1 /\ Len(output) \in Nat
      BY <2>3, <2>5
    <3>2. Len(output') <= OutSize
      BY <2>2, <3>1
    <3> QED BY <2>3, <2>5, <3>1, <3>2 DEF TypesO
  <2>6. CASE output' = << >> /\ UNCHANGED bc
    BY <2>2, <2>3, <2>6 DEF TypesO
  <2> QED BY <2>1, <2>4, <2>5, <2>6
<1> QED BY <1>3, <1>4

(* The types hold initially, and after every step.                          *)
LEMMA InitTypes == Init => Types
<1> SUFFICES ASSUME Init PROVE Types
  OBVIOUS
<1> USE Constants DEF Init
<1>1. ThreadTypeOK
  BY IterAssumption DEF ThreadInit, ThreadTypeOK
<1>2. IsFiniteSet({}) /\ Cardinality({}) = 0
  BY FS_EmptySet
<1>3. << >> \in Seq(Block) /\ Len(<< >>) = 0 /\ << >> \in Seq(Seq(Block))
  BY SetOfEmpty
<1>4. TypesE
  BY <1>2, <1>3 DEF TypesE, OnlyOf
<1>5. TypesA /\ TypesO
  <2>1. /\ someEmpty \in BOOLEAN /\ allEmpty \in BOOLEAN /\ allSame \in BOOLEAN
        /\ isIncompletePending \in BOOLEAN /\ expired \in BOOLEAN /\ everExpired \in BOOLEAN
    OBVIOUS
  <2>2. /\ apc = "test" /\ ai = 1 /\ lastOut = FirstId - 1 /\ minId = 0 /\ lastId = 0
        /\ bcv = << >> /\ output = << >>
    OBVIOUS
  <2>3. 1 \in 1 .. NumEquipments + 1 /\ FirstId - 1 \in FirstId - 1 .. LastId
    OBVIOUS
  <2> HIDE DEF Init
  <2>4. TypesA
    BY <1>3, <2>1, <2>2, <2>3 DEF TypesA
  <2>5. TypesO
    BY <1>3, <2>2 DEF TypesO
  <2> QED BY <2>4, <2>5
<1>6. TypesM
  <2>1. /\ isRunning \in BOOLEAN /\ ShutdownRequest \in BOOLEAN /\ exitTimeout \in BOOLEAN
        /\ drained \in BOOLEAN
    OBVIOUS
  <2>2. /\ mpc = "startAgg" /\ mi = 1 /\ bc = << >> /\ held = {} /\ consumed = {}
        /\ discarded = {}
    OBVIOUS
  <2>3. 1 \in Equipments
    BY DEF Equipments
  <2> HIDE DEF Init
  <2> QED BY <1>3, <2>1, <2>2, <2>3 DEF TypesM
<1> QED BY <1>1, <1>4, <1>5, <1>6 DEF Types

(* A step keeps the types; the id of a data set is one because it is not empty. *)
LEMMA NextTypes ==
    ASSUME Types, Aggregated, [Next]_vars PROVE Types'
<1> USE Constants
<1>1. ThreadTypeOK'
  BY ThreadStep, NextThreadTypeOK DEF Types, TypesM
<1>2. CASE UNCHANGED vars
  <2>1. UNCHANGED <<equipmentVars, aggregatorVars, output, mainVars, environment>>
    BY <1>2 DEF vars
  <2> QED BY <1>1, <2>1 DEF equipmentVars, aggregatorVars, scanVars, mainVars, environment,
                            Types, TypesE, TypesA, TypesO, TypesM
<1>3. ASSUME NEW e \in Equipments, EquipmentThread(e) PROVE Types'
  <2>1. UNCHANGED <<aggregatorVars, output, mainVars, environment>>
    BY <1>3 DEF EquipmentThread, Looping, EqRateReached, EqTestFull, EqGetPage, EqNoPage, EqPush
  <2>2. TypesE'
    BY <1>3, EquipmentTypes
  <2> QED BY <1>1, <2>1, <2>2 DEF aggregatorVars, scanVars, mainVars, environment,
                                  Types, TypesA, TypesO, TypesM
<1>4. CASE AggregatorThread
  <2>1. UNCHANGED <<mainVars, environment>>
    BY <1>4 DEF AggregatorThread, Looping, AggTestFull, AggScan, AggScanned, AggWait, AggCreate,
                AggTake, AggPush
  <2> QED BY <1>1, <1>4, <2>1, AggregatorTypes DEF mainVars, environment, Types, TypesM
<1>5. CASE MainThread
  <2>1. UNCHANGED <<aggregatorVars, environment, epc, currentId, given>>
    BY <1>5 DEF MainThread, MainStartAgg, MainStartEq, MainLoop, MainStopEq, MainJoinEq, MainPop,
                MainConsume, MainStopAgg, MainJoinAgg, MainClearInputs, MainPopOutput,
                MainStopConsumers, MainClose, equipmentVars
  <2>2. pages' = pages \/ \E S : pages' = Released(S)
    BY <1>5 DEF MainThread, MainStartAgg, MainStartEq, MainLoop, MainStopEq, MainJoinEq, MainPop,
                MainConsume, MainStopAgg, MainJoinAgg, MainClearInputs, MainPopOutput,
                MainStopConsumers, MainClose, equipmentVars
  <2>3. /\ pages' \in [Equipments -> SUBSET Block]
        /\ \A e \in Equipments : IsFiniteSet(pages'[e]) /\ Cardinality(pages'[e]) <= NumPages
    BY <2>2, ReleasedTypes DEF Types, TypesE
  <2>4. TypesE' /\ TypesO' /\ bc' \in Seq(Block)
    BY <1>5, <2>1, <2>3, MainQueues DEF Types, TypesE
  <2>5. /\ Inputs \subseteq Block /\ Outputs \subseteq Block /\ ToSet(bc) \subseteq Block
    <3>1. \A e \in Equipments : ToSet(dataOut[e]) \subseteq Block
      BY SetOfSeq DEF Types, TypesE
    <3>2. \A k \in 1 .. Len(output) : output[k] \in Seq(Block)
      BY SetOfSeq DEF Types, TypesO
    <3>3. \A k \in 1 .. Len(output) : ToSet(output[k]) \subseteq Block
      BY <3>2, SetOfSeq
    <3>4. ToSet(bc) \subseteq Block
      BY SetOfSeq DEF Types, TypesM
    <3> QED BY <3>1, <3>3, <3>4 DEF Inputs, Outputs, Blocks
  <2>6. held' \in SUBSET Block /\ consumed' \in SUBSET Block /\ discarded' \in SUBSET Block
    <3>1. /\ held' = held \/ held' = {} \/ \E keep \in SUBSET ToSet(bc) : held' = held \cup keep
          /\ consumed' = consumed \/ consumed' = consumed \cup ToSet(bc)
          /\ discarded' \in {discarded, discarded \cup Inputs, discarded \cup Outputs}
      BY <1>5 DEF MainThread, MainStartAgg, MainStartEq, MainLoop, MainStopEq, MainJoinEq, MainPop,
                  MainConsume, MainStopAgg, MainJoinAgg, MainClearInputs, MainPopOutput,
                  MainStopConsumers, MainClose, Inputs, Outputs, Blocks
    <3> QED BY <2>5, <3>1 DEF Types, TypesM
  <2>7. isRunning' \in BOOLEAN
    <3>1. isRunning' = isRunning \/ isRunning' = FALSE
      BY <1>5 DEF MainThread, MainStartAgg, MainStartEq, MainLoop, MainStopEq, MainJoinEq, MainPop,
                  MainConsume, MainStopAgg, MainJoinAgg, MainClearInputs, MainPopOutput,
                  MainStopConsumers, MainClose
    <3> QED BY <3>1 DEF Types, TypesM
  <2>8. mi' \in Equipments
    BY <1>5 DEF MainThread, MainStartAgg, MainStartEq, MainLoop, MainStopEq, MainJoinEq, MainPop,
                MainConsume, MainStopAgg, MainJoinAgg, MainClearInputs, MainPopOutput,
                MainStopConsumers, MainClose, NextEquipment, Types, TypesM, Equipments
  <2>9. mpc' \in {"startAgg", "startEq", "loop", "pop", "consume", "stopEq", "joinEq", "stopAgg",
                  "joinAgg", "clearInputs", "popOutput", "consumers", "close", "done", "killed"}
    BY <1>5 DEF MainThread, MainStartAgg, MainStartEq, MainLoop, MainStopEq, MainJoinEq, MainPop,
                MainConsume, MainStopAgg, MainJoinAgg, MainClearInputs, MainPopOutput,
                MainStopConsumers, MainClose, NextEquipment
  <2>10. TypesM'
    BY <2>1, <2>4, <2>6, <2>7, <2>8, <2>9 DEF environment, Types, TypesM
  <2>11. TypesA'
    BY <2>1 DEF aggregatorVars, scanVars, Types, TypesA
  <2> QED BY <1>1, <2>4, <2>10, <2>11 DEF Types
<1>6. CASE TimerExpires \/ MainTimeout \/ Signal
  <2>1. UNCHANGED <<equipmentVars, apc, ai, scanVars, bcv, isIncompletePending, everExpired,
                    lastOut, output, mi, isRunning, bc, held, consumed, discarded>>
    BY <1>6 DEF TimerExpires, MainTimeout, Signal, aggregatorVars, mainVars
  <2>2. /\ expired' = expired \/ expired' = TRUE
        /\ ShutdownRequest' = ShutdownRequest \/ ShutdownRequest' = TRUE
        /\ exitTimeout' = exitTimeout \/ exitTimeout' = TRUE
        /\ drained' = drained \/ drained' = TRUE
        /\ mpc' = mpc \/ mpc' = "killed"
    BY <1>6 DEF TimerExpires, MainTimeout, Signal, aggregatorVars, mainVars, environment
  <2>3. TypesE' /\ TypesO'
    BY <2>1 DEF equipmentVars, Types, TypesE, TypesO
  <2>4. TypesA'
    BY <2>1, <2>2 DEF scanVars, Types, TypesA
  <2>5. TypesM'
    BY <2>1, <2>2 DEF Types, TypesM
  <2> QED BY <1>1, <2>3, <2>4, <2>5 DEF Types
<1>7. CASE ConsumerRelease
  <2>1. UNCHANGED <<epc, currentId, dataOut, given, aggregatorVars, output, mpc, mi, isRunning, bc,
                    consumed, discarded, environment>>
    BY <1>7 DEF ConsumerRelease
  <2>2. held' \in SUBSET Block /\ \E S : pages' = Released(S)
    BY <1>7 DEF ConsumerRelease, Types, TypesM
  <2>3. /\ pages' \in [Equipments -> SUBSET Block]
        /\ \A e \in Equipments : IsFiniteSet(pages'[e]) /\ Cardinality(pages'[e]) <= NumPages
    BY <2>2, ReleasedTypes DEF Types
  <2>4. TypesE' /\ TypesO'
    BY <2>1, <2>3 DEF Types, TypesE, TypesO
  <2>5. TypesA' /\ TypesM'
    BY <2>1, <2>2 DEF aggregatorVars, scanVars, environment, Types, TypesA, TypesM
  <2> QED BY <1>1, <2>4, <2>5 DEF Types
<1> QED BY <1>2, <1>3, <1>4, <1>5, <1>6, <1>7 DEF Next

-----------------------------------------------------------------------------
(* What main() and the loop around the callbacks do to a thread leaves a    *)
(* callback that runs alone; a callback that returns ends.                  *)
LEMMA CallsKept ==
    ASSUME ThreadTypeOK, NEW t \in ThreadIds,
           \/ LoopTop(t) \/ CheckShutdown(t) \/ StartThread(t) \/ StopThread(t) \/ JoinThread(t)
           \/ UNCHANGED threadVars
    PROVE  \A x \in ThreadIds : tpc[x] = "call" => tpc'[x] = "call"
  BY DEF ThreadTypeOK, LoopTop, CheckShutdown, StartThread, StopThread, JoinThread, threadVars

(* Returned ends the callback of its thread and of no other.                *)
LEMMA CallEnded ==
    ASSUME ThreadTypeOK, NEW t \in ThreadIds, NEW r, Returned(t, r)
    PROVE  tpc'[t] # "call" /\ \A x \in ThreadIds \ {t} : tpc'[x] = tpc[x]
  BY DEF ThreadTypeOK, Returned

(* Only an equipment makes its FIFO longer, and only the aggregator its own. *)
LEMMA MainKeepsRoom ==
    ASSUME Types, MainThread
    PROVE  /\ \A e \in Equipments : Len(dataOut'[e]) <= Len(dataOut[e])
           /\ Len(output') <= Len(output)
<1> USE Constants
<1>1. /\ \A e \in Equipments : dataOut[e] \in Seq(Block) /\ Len(dataOut[e]) \in Nat
      /\ output \in Seq(Seq(Block)) /\ Len(output) \in Nat
  BY DEF Types, TypesE, TypesO
<1>2. dataOut' = dataOut \/ dataOut' = [e \in Equipments |-> << >>]
  BY DEF MainThread, MainStartAgg, MainStartEq, MainLoop, MainStopEq, MainJoinEq, MainPop,
         MainConsume, MainStopAgg, MainJoinAgg, MainClearInputs, MainPopOutput,
         MainStopConsumers, MainClose, equipmentVars
<1>3. output' = output \/ output' = << >> \/ (output # << >> /\ output' = Tail(output))
  BY DEF MainThread, MainStartAgg, MainStartEq, MainLoop, MainStopEq, MainJoinEq, MainPop,
         MainConsume, MainStopAgg, MainJoinAgg, MainClearInputs, MainPopOutput,
         MainStopConsumers, MainClose
<1>4. ASSUME NEW e \in Equipments PROVE Len(dataOut'[e]) <= Len(dataOut[e])
  <2>1. dataOut'[e] = dataOut[e] \/ dataOut'[e] = << >>
    BY <1>2
  <2>2. Len(dataOut'[e]) = Len(dataOut[e]) \/ Len(dataOut'[e]) = 0
    BY <2>1, SetOfEmpty
  <2> QED BY <1>1, <2>2
<1>5. Len(output') = Len(output) \/ Len(output') = 0 \/ Len(output') = Len(output) - 1
  BY <1>1, <1>3, SetOfEmpty, SetOfTail
<1> QED BY <1>1, <1>4, <1>5

(* What a callback tested at its beginning holds until it returns.          *)
LEMMA NextCallbacks ==
    ASSUME Types, Types', Callbacks, [Next]_vars PROVE Callbacks'
<1> USE Constants
<1>0. ThreadTypeOK /\ epc \in [Equipments -> {"test", "get", "push"}]
  BY DEF Types, TypesE
<1>1. /\ \A e \in Equipments : Len(dataOut[e]) \in Nat /\ Len(dataOut'[e]) \in Nat
      /\ Len(output) \in Nat /\ Len(output') \in Nat
  BY DEF Types, TypesE, TypesO
<1>2. ASSUME UNCHANGED <<epc, dataOut, apc, output, bcv>>,
             \A x \in ThreadIds : tpc[x] = "call" => tpc'[x] = "call"
      PROVE  Callbacks'
  BY <1>2 DEF Callbacks
<1>3. ASSUME NEW e \in Equipments, EquipmentThread(e) PROVE Callbacks'
  <2>1. UNCHANGED <<apc, output, bcv>>
    BY <1>3 DEF EquipmentThread, Looping, EqRateReached, EqTestFull, EqGetPage, EqNoPage, EqPush,
                aggregatorVars
  <2>2. CASE Looping(e)
    BY <1>0, <1>2, <2>2, CallsKept DEF Looping, equipmentVars, aggregatorVars
  <2>3. ASSUME NEW r, EqReturn(e, r), \A x \in Equipments \ {e} : dataOut'[x] = dataOut[x]
        PROVE  Callbacks'
    <3>1. tpc'[e] # "call" /\ \A x \in ThreadIds \ {e} : tpc'[x] = tpc[x]
      BY <1>0, <2>3, CallEnded DEF EqReturn
    <3>2. epc'[e] = "test" /\ \A x \in Equipments \ {e} : epc'[x] = epc[x]
      BY <1>0, <2>3 DEF EqReturn
    <3>3. tpc'[Aggregator] = tpc[Aggregator]
      BY <3>1
    <3> QED BY <2>1, <2>3, <3>1, <3>2, <3>3 DEF Callbacks
  <2>4. CASE EqRateReached(e) \/ EqNoPage(e)
    BY <2>3, <2>4 DEF EqRateReached, EqNoPage
  <2>5. CASE EqPush(e)
    <3>1. \A x \in Equipments \ {e} : dataOut'[x] = dataOut[x]
      BY <2>5 DEF EqPush, Types, TypesE
    <3> QED BY <2>3, <2>5, <3>1 DEF EqPush
  <2>6. CASE EqTestFull(e)
    <3>1. CASE EqReturn(e, "Idle")
      BY <2>3, <2>6, <3>1 DEF EqTestFull
    <3>2. CASE Len(dataOut[e]) # FifoSize /\ epc' = [epc EXCEPT ![e] = "get"] /\ UNCHANGED threadVars
      <4>1. Len(dataOut[e]) < FifoSize
        BY <1>1, <3>2 DEF Types, TypesE
      <4>2. tpc[e] = "call" /\ dataOut' = dataOut /\ tpc' = tpc
        BY <2>6, <3>2 DEF EqTestFull, threadVars
      <4>3. \A x \in Equipments \ {e} : epc'[x] = epc[x]
        BY <1>0, <3>2
      <4> QED BY <2>1, <4>1, <4>2, <4>3 DEF Callbacks
    <3> QED BY <2>6, <3>1, <3>2 DEF EqTestFull
  <2>7. CASE EqGetPage(e)
    <3>1. tpc' = tpc /\ dataOut' = dataOut /\ epc[e] = "get" /\ epc' = [epc EXCEPT ![e] = "push"]
      BY <2>7 DEF EqGetPage, threadVars
    <3>2. \A x \in Equipments \ {e} : epc'[x] = epc[x]
      BY <1>0, <3>1
    <3> QED BY <2>1, <3>1, <3>2 DEF Callbacks
  <2> QED BY <1>3, <2>2, <2>4, <2>5, <2>6, <2>7 DEF EquipmentThread
<1>4. CASE AggregatorThread
  <2>1. epc' = epc /\ \A e \in Equipments : Len(dataOut'[e]) <= Len(dataOut[e])
    <3>1. CASE dataOut' = dataOut
      BY <1>1, <1>4, <3>1 DEF AggregatorThread, Looping, AggTestFull, AggScan, AggScanned, AggWait,
                         AggCreate, AggTake, AggPush, equipmentVars
    <3>2. CASE AggTake /\ dataOut[ai] # << >> /\ dataOut' = [dataOut EXCEPT ![ai] = Tail(@)]
      <4>1. dataOut \in [Equipments -> Seq(Block)] /\ ai \in Equipments
        BY <3>2 DEF AggTake, Types, TypesE, TypesA, Equipments
      <4>2. Len(Tail(dataOut[ai])) = Len(dataOut[ai]) - 1
        BY <3>2, <4>1, SetOfTail
      <4>3. dataOut'[ai] = Tail(dataOut[ai]) /\ \A x \in Equipments \ {ai} : dataOut'[x] = dataOut[x]
        BY <3>2, <4>1
      <4>4. Len(dataOut'[ai]) <= Len(dataOut[ai])
        BY <1>1, <4>1, <4>2, <4>3
      <4> QED BY <1>1, <3>2, <4>3, <4>4 DEF AggTake
    <3> QED BY <1>4, <3>1, <3>2 DEF AggregatorThread, Looping, AggTestFull, AggScan, AggScanned,
                         AggWait, AggCreate, AggTake, AggPush, equipmentVars
  <2>2. \A e \in Equipments : epc'[e] # "test" => Len(dataOut'[e]) < FifoSize
    BY <1>1, <2>1 DEF Callbacks
  <2>3. CASE Looping(Aggregator)
    BY <1>0, <1>2, <2>3, CallsKept DEF Looping, equipmentVars, aggregatorVars
  <2>4. ASSUME NEW r, AggReturn(r), bcv' = << >> PROVE Callbacks'
    <3>1. tpc'[Aggregator] # "call" /\ \A x \in ThreadIds \ {Aggregator} : tpc'[x] = tpc[x]
      BY <1>0, <2>4, CallEnded DEF AggReturn
    <3>2. apc' = "test" /\ \A e \in Equipments : tpc'[e] = tpc[e]
      BY <2>4, <3>1 DEF AggReturn
    <3> QED BY <2>1, <2>2, <2>4, <3>1, <3>2 DEF Callbacks
  <2>5. ASSUME tpc' = tpc, tpc[Aggregator] = "call", Len(output') < OutSize,
               apc' # "take" => bcv' = << >>
        PROVE  Callbacks'
    BY <2>1, <2>2, <2>5 DEF Callbacks
  <2>6. apc # "test" => tpc[Aggregator] = "call" /\ Len(output) < OutSize
    BY DEF Callbacks
  <2>7. apc # "take" => bcv = << >>
    BY DEF Callbacks
  <2>8. CASE AggTestFull
    <3>1. CASE AggReturn("Idle")
      BY <2>4, <2>7, <2>8, <3>1 DEF AggTestFull
    <3>2. CASE Len(output) # OutSize /\ apc' = "scan" /\ UNCHANGED threadVars
      <4>1. Len(output) < OutSize
        BY <1>1, <3>2 DEF Types, TypesO
      <4> QED BY <2>5, <2>7, <2>8, <3>2, <4>1 DEF AggTestFull, threadVars
    <3> QED BY <2>8, <3>1, <3>2 DEF AggTestFull
  <2>9. CASE AggScan
    BY <2>5, <2>6, <2>7, <2>9 DEF AggScan, threadVars
  <2>10. CASE AggScanned
    BY <2>4, <2>5, <2>6, <2>7, <2>10 DEF AggScanned, threadVars
  <2>11. CASE AggWait
    BY <2>4, <2>5, <2>6, <2>7, <2>11 DEF AggWait, threadVars
  <2>12. CASE AggCreate
    BY <2>4, <2>5, <2>6, <2>7, <2>12 DEF AggCreate, threadVars
  <2>13. CASE AggTake
    BY <2>5, <2>6, <2>13 DEF AggTake, threadVars
  <2>14. CASE AggPush
    BY <2>4, <2>14 DEF AggPush
  <2> QED BY <1>4, <2>3, <2>8, <2>9, <2>10, <2>11, <2>12, <2>13, <2>14 DEF AggregatorThread
<1>5. CASE MainThread
  <2>1. UNCHANGED <<epc, apc, bcv>>
    BY <1>5 DEF MainThread, MainStartAgg, MainStartEq, MainLoop, MainStopEq, MainJoinEq, MainPop,
                MainConsume, MainStopAgg, MainJoinAgg, MainClearInputs, MainPopOutput,
                MainStopConsumers, MainClose, equipmentVars, aggregatorVars
  <2>2. \A x \in ThreadIds : tpc[x] = "call" => tpc'[x] = "call"
    <3>1. \/ UNCHANGED threadVars \/ StartThread(Aggregator) \/ StartThread(mi) \/ StopThread(mi)
          \/ JoinThread(mi) \/ StopThread(Aggregator) \/ JoinThread(Aggregator)
      BY <1>5 DEF MainThread, MainStartAgg, MainStartEq, MainLoop, MainStopEq, MainJoinEq, MainPop,
                  MainConsume, MainStopAgg, MainJoinAgg, MainClearInputs, MainPopOutput,
                  MainStopConsumers, MainClose
    <3>2. mi \in ThreadIds
      BY DEF Types, TypesM
    <3> QED BY <1>0, <3>1, <3>2, CallsKept
  <2>3. /\ \A e \in Equipments : Len(dataOut'[e]) <= Len(dataOut[e])
        /\ Len(output') <= Len(output)
    BY <1>5, MainKeepsRoom
  <2>4. /\ \A e \in Equipments : epc'[e] # "test" => Len(dataOut'[e]) < FifoSize
        /\ apc' # "test" => Len(output') < OutSize
    BY <1>1, <2>1, <2>3 DEF Callbacks
  <2> QED BY <2>1, <2>2, <2>4 DEF Callbacks
<1>6. CASE UNCHANGED vars \/ TimerExpires \/ MainTimeout \/ Signal \/ ConsumerRelease
  <2>1. UNCHANGED <<threadVars, epc, dataOut, apc, output, bcv>>
    BY <1>6 DEF vars, TimerExpires, MainTimeout, Signal, ConsumerRelease, equipmentVars, aggregatorVars
  <2> QED BY <1>2, <2>1 DEF threadVars
<1> QED BY <1>3, <1>4, <1>5, <1>6 DEF Next

(* Only main() starts a thread; the others leave one that is gone gone.     *)
LEMMA GoneStays ==
    ASSUME ThreadTypeOK, NEW t \in ThreadIds,
           \/ ThreadMain(t) \/ StopThread(t) \/ JoinThread(t) \/ UNCHANGED threadVars
    PROVE  \A x \in ThreadIds : tpc[x] = "none" => tpc'[x] = "none"
  BY DEF ThreadTypeOK, ThreadMain, LoopTop, CheckShutdown, Returned, StopThread, JoinThread,
         threadVars

(* main() takes the threads down in order, and none comes back.             *)
LEMMA NextShutdown ==
    ASSUME Types, Types', Shutdown, [Next]_vars PROVE Shutdown'
<1> USE Constants
<1>0. /\ ThreadTypeOK /\ mi \in Equipments /\ mi \in Nat /\ mi \in 1 .. NumEquipments
      /\ mi \in ThreadIds /\ isRunning \in BOOLEAN
  BY DEF Types, TypesM, Equipments
<1>1. ASSUME UNCHANGED <<mpc, mi, isRunning, bc>>,
             \A x \in ThreadIds : tpc[x] = "none" => tpc'[x] = "none"
      PROVE  Shutdown'
  <2>1. \A e \in 1 .. mi - 1 : e \in ThreadIds
    <3>1. \A e \in 1 .. mi - 1 : e \in Equipments
      BY <1>0 DEF Equipments
    <3> QED BY <3>1
  <2> QED BY <1>1, <2>1 DEF Shutdown
<1>2. ASSUME NEW e \in Equipments, EquipmentThread(e) PROVE Shutdown'
  <2>1. UNCHANGED <<mpc, mi, isRunning, bc>>
    BY <1>2 DEF EquipmentThread, Looping, EqRateReached, EqTestFull, EqGetPage, EqNoPage, EqPush,
                mainVars
  <2>2. ThreadMain(e) \/ UNCHANGED threadVars
    BY <1>2 DEF EquipmentThread, Looping, EqRateReached, EqTestFull, EqGetPage, EqNoPage, EqPush,
                EqReturn, ThreadMain
  <2>3. \A x \in ThreadIds : tpc[x] = "none" => tpc'[x] = "none"
    BY <1>0, <2>2, GoneStays
  <2> QED BY <1>1, <2>1, <2>3
<1>3. CASE AggregatorThread
  <2>1. UNCHANGED <<mpc, mi, isRunning, bc>>
    BY <1>3 DEF AggregatorThread, Looping, AggTestFull, AggScan, AggScanned, AggWait, AggCreate,
                AggTake, AggPush, mainVars
  <2>2. ThreadMain(Aggregator) \/ UNCHANGED threadVars
    BY <1>3 DEF AggregatorThread, Looping, AggTestFull, AggScan, AggScanned, AggWait, AggCreate,
                AggTake, AggPush, AggReturn, ThreadMain
  <2>3. \A x \in ThreadIds : tpc[x] = "none" => tpc'[x] = "none"
    BY <1>0, <2>2, GoneStays
  <2> QED BY <1>1, <2>1, <2>3
<1>4. CASE MainStartAgg \/ MainStartEq
  <2>1. isRunning /\ isRunning' = isRunning /\ mpc' \in {"startEq", "loop"} /\ bc' = bc
        /\ bc = << >>
    BY <1>4 DEF MainStartAgg, MainStartEq, NextEquipment, Shutdown
  <2>2. mpc' = "loop" => mi' = 1
    BY <1>4 DEF MainStartAgg, MainStartEq, NextEquipment
  <2> QED BY <2>1, <2>2 DEF Shutdown, Stopping, Cleared
<1>5. CASE MainLoop
  <2>1. UNCHANGED <<tpc, mi, bc>> /\ mpc = "loop" /\ bc = << >> /\ mi = 1
    BY <1>5 DEF MainLoop, threadVars, Shutdown, Stopping
  <2>2. 1 .. mi - 1 = {}
    BY <2>1
  <2>3. CASE isRunning' = FALSE /\ mpc' = "stopEq"
    BY <2>1, <2>2, <2>3 DEF Shutdown, Stopping, Cleared
  <2>4. CASE isRunning /\ isRunning' = isRunning /\ mpc' = "pop"
    BY <2>1, <2>4 DEF Shutdown, Stopping, Cleared
  <2>5. CASE ~isRunning /\ isRunning' = isRunning /\ mpc' \in {"stopAgg", "pop"}
    <3>1. \A e \in Equipments : tpc[e] = "none"
      BY <2>1, <2>5 DEF Shutdown, Stopping
    <3> QED BY <2>1, <2>5, <3>1 DEF Shutdown, Stopping, Cleared
  <2> QED BY <1>5, <2>3, <2>4, <2>5 DEF MainLoop
<1>6. CASE MainStopEq
  <2>1. UNCHANGED <<tpc, mi, bc, isRunning>> /\ mpc = "stopEq" /\ mpc' = "joinEq"
    BY <1>6 DEF MainStopEq, StopThread
  <2> QED BY <2>1 DEF Shutdown, Stopping, Cleared
<1>7. CASE MainJoinEq
  <2>1. /\ UNCHANGED <<bc, isRunning>> /\ mpc = "joinEq" /\ ~isRunning /\ bc = << >>
        /\ \A e \in 1 .. mi - 1 : tpc[e] = "none"
    BY <1>7 DEF MainJoinEq, Shutdown, Stopping
  <2>2. tpc'[mi] = "none" /\ \A x \in ThreadIds : tpc[x] = "none" => tpc'[x] = "none"
    BY <1>0, <1>7 DEF MainJoinEq, JoinThread, ThreadTypeOK
  <2>3. \A e \in 1 .. mi : tpc'[e] = "none"
    <3>1. \A e \in 1 .. mi : e \in Equipments /\ (e = mi \/ e \in 1 .. mi - 1)
      BY <1>0 DEF Equipments
    <3> QED BY <2>1, <2>2, <3>1
  <2>4. CASE mi' = mi + 1 /\ mpc' = "stopEq"
    <3>1. 1 .. mi' - 1 = 1 .. mi
      BY <1>0, <2>4
    <3> QED BY <2>1, <2>3, <2>4, <3>1 DEF Shutdown, Stopping, Cleared
  <2>5. CASE ~(mi < NumEquipments) /\ mi' = 1 /\ mpc' = "pop"
    <3>1. Equipments = 1 .. mi
      BY <1>0, <2>5 DEF Equipments
    <3> QED BY <2>1, <2>3, <2>5, <3>1 DEF Shutdown, Stopping, Cleared
  <2> QED BY <1>7, <2>4, <2>5 DEF MainJoinEq, NextEquipment
<1>8. CASE MainPop \/ MainConsume
  <2>1. UNCHANGED <<tpc, mi, isRunning>> /\ mpc \in {"pop", "consume"}
        /\ mpc' \in {"loop", "consume"} /\ mi = 1
    BY <1>8 DEF MainPop, MainConsume, threadVars, Shutdown, Stopping
  <2>2. mpc' = "loop" => bc' = << >>
    BY <1>8 DEF MainPop, MainConsume, Shutdown
  <2> QED BY <2>1, <2>2 DEF Shutdown, Stopping, Cleared
<1>9. CASE MainStopAgg \/ MainJoinAgg
  <2>1. /\ UNCHANGED <<mi, isRunning, bc>> /\ ~isRunning /\ bc = << >> /\ mi = 1
        /\ \A e \in Equipments : tpc[e] = "none"
    BY <1>9 DEF MainStopAgg, MainJoinAgg, Shutdown, Stopping
  <2>2. \A x \in ThreadIds : tpc[x] = "none" => tpc'[x] = "none"
    BY <1>0, <1>9, GoneStays DEF MainStopAgg, MainJoinAgg
  <2>3. \/ mpc' = "joinAgg"
        \/ mpc' = "clearInputs" /\ tpc'[Aggregator] = "none"
    BY <1>0, <1>9 DEF MainStopAgg, MainJoinAgg, JoinThread, ThreadTypeOK
  <2> QED BY <2>1, <2>2, <2>3 DEF Shutdown, Stopping, Cleared
<1>10. CASE MainClearInputs \/ MainPopOutput \/ MainStopConsumers \/ MainClose
  <2>1. UNCHANGED <<tpc, mi, isRunning, bc>> /\ mpc \in Cleared /\ mpc' \in Cleared \cup {"done"}
    BY <1>10 DEF MainClearInputs, MainPopOutput, MainStopConsumers, MainClose, Cleared, threadVars
  <2> QED BY <2>1 DEF Shutdown, Stopping, Cleared
<1>11. CASE Signal
  <2>1. UNCHANGED <<tpc, mi, isRunning, bc>> /\ (mpc' = mpc \/ mpc' = "killed")
    BY <1>11 DEF Signal, threadVars
  <2> QED BY <2>1 DEF Shutdown, Stopping, Cleared
<1>12. CASE UNCHANGED vars \/ TimerExpires \/ MainTimeout \/ ConsumerRelease
  <2>1. UNCHANGED <<tpc, mpc, mi, isRunning, bc>>
    BY <1>12 DEF vars, TimerExpires, MainTimeout, ConsumerRelease, mainVars, threadVars
  <2> QED BY <1>1, <2>1
<1>13. CASE MainThread
  BY <1>4, <1>5, <1>6, <1>7, <1>8, <1>9, <1>10, <1>13 DEF MainThread
<1> QED BY <1>2, <1>3, <1>11, <1>12, <1>13 DEF Next

-----------------------------------------------------------------------------
(* The blocks of a queue of data sets.                                      *)
LEMMA BlocksAppend ==
    ASSUME NEW S, NEW q \in Seq(Seq(S)), NEW x \in Seq(S)
    PROVE  Blocks(Append(q, x)) = Blocks(q) \cup ToSet(x)
<1> DEFINE r == Append(q, x)
<1>1. /\ Len(r) = Len(q) + 1 /\ Len(q) \in Nat /\ r[Len(q) + 1] = x
      /\ \A i \in 1 .. Len(q) : r[i] = q[i]
  BY SetOfAppend
<1> HIDE DEF r
<1>2. 1 .. Len(r) = (1 .. Len(q)) \cup {Len(q) + 1}
  BY <1>1
<1>3. Blocks(r) = Blocks(q) \cup ToSet(x)
  BY <1>1, <1>2 DEF Blocks
<1> QED BY <1>3 DEF r

(* The blocks of the first data set, and those of the others.               *)
LEMMA BlocksTail ==
    ASSUME NEW S, NEW q \in Seq(Seq(S)), q # << >>
    PROVE  Blocks(q) = ToSet(Head(q)) \cup Blocks(Tail(q))
<1> DEFINE r == Tail(q)
           h == Head(q)
<1>1. /\ Len(r) = Len(q) - 1 /\ Len(q) \in Nat \ {0} /\ h = q[1]
      /\ \A i \in 1 .. Len(r) : r[i] = q[i + 1]
  BY SetOfTail
<1> HIDE DEF r, h
<1>2. ASSUME NEW k \in 1 .. Len(q) PROVE ToSet(q[k]) \subseteq ToSet(h) \cup Blocks(r)
  <2>1. CASE k = 1
    BY <1>1, <2>1
  <2>2. CASE k # 1
    <3>1. k - 1 \in 1 .. Len(r) /\ r[k - 1] = q[k]
      BY <1>1, <2>2
    <3> QED BY <3>1 DEF Blocks
  <2> QED BY <2>1, <2>2
<1>3. \A k \in 1 .. Len(r) : k + 1 \in 1 .. Len(q) /\ r[k] = q[k + 1]
  BY <1>1
<1>4. 1 \in 1 .. Len(q)
  BY <1>1
<1>5. Blocks(r) \subseteq Blocks(q)
  BY <1>3 DEF Blocks
<1>6. ToSet(h) \subseteq Blocks(q)
  BY <1>1, <1>4 DEF Blocks
<1>7. Blocks(q) \subseteq ToSet(h) \cup Blocks(r)
  BY <1>2 DEF Blocks
<1> QED BY <1>5, <1>6, <1>7 DEF r, h

(* No data set, no block.                                                   *)
LEMMA BlocksEmpty == Blocks(<< >>) = {}
  BY SetOfEmpty DEF Blocks

(* The pipeline is made of the stages below, and a release takes pages back. *)
LEMMA Stages ==
    InPipeline = Inputs \cup InHand \cup ToSet(bcv) \cup Outputs \cup ToSet(bc)
<1> DEFINE A == UNION {ToSet(dataOut[e]) : e \in Equipments}
           B == {<<e, currentId[e]>> : e \in {x \in Equipments : epc[x] = "push"}}
           C == UNION {ToSet(output[k]) : k \in 1 .. Len(output)}
<1>1. InPipeline = A \cup B \cup ToSet(bcv) \cup C \cup ToSet(bc)
  BY Zenon DEF InPipeline
<1>2. Inputs = A /\ InHand = B /\ Outputs = C
  BY Zenon DEF Inputs, InHand, Outputs, Blocks
<1> HIDE DEF A, B, C
<1> QED BY <1>1, <1>2

(* Released gives back the pages of the blocks it is given, and no other.   *)
LEMMA TakenReleased ==
    ASSUME NEW S, pages' = Released(S) PROVE Taken' = Taken \ S
  BY DEF Taken, Released

-----------------------------------------------------------------------------
(* What each step does to the stages.                                       *)
LEMMA EffectGetPage ==
    ASSUME Types, NEW e \in Equipments, EqGetPage(e)
    PROVE  /\ UNCHANGED <<dataOut, bcv, output, bc, held, consumed, discarded, mpc>>
           /\ \E id \in Id : /\ id > currentId[e]
                             /\ currentId' = [currentId EXCEPT ![e] = id]
                             /\ given' = given \cup {<<e, id>>}
                             /\ Taken' = Taken \cup {<<e, id>>}
                             /\ InHand' = InHand \cup {<<e, id>>}
<1> USE Constants
<1>0. /\ epc \in [Equipments -> {"test", "get", "push"}]
      /\ currentId \in [Equipments -> FirstId - 1 .. LastId]
      /\ pages \in [Equipments -> SUBSET Block]
  BY DEF Types, TypesE
<1>1. UNCHANGED <<dataOut, bcv, output, bc, held, consumed, discarded, mpc>>
  BY DEF EqGetPage, aggregatorVars, mainVars
<1>2. PICK id \in currentId[e] + 1 .. LastId :
          /\ currentId' = [currentId EXCEPT ![e] = id]
          /\ pages' = [pages EXCEPT ![e] = @ \cup {<<e, id>>}]
          /\ given' = given \cup {<<e, id>>}
  BY DEF EqGetPage
<1>3. currentId[e] \in FirstId - 1 .. LastId
  BY <1>0
<1>4. id \in Id /\ id > currentId[e]
  BY <1>2, <1>3 DEF Id
<1>5. Taken' = Taken \cup {<<e, id>>}
  <2>1. pages'[e] = pages[e] \cup {<<e, id>>} /\ \A x \in Equipments \ {e} : pages'[x] = pages[x]
    BY <1>0, <1>2
  <2> QED BY <2>1 DEF Taken
<1>6. epc[e] = "get" /\ epc'[e] = "push" /\ \A x \in Equipments \ {e} : epc'[x] = epc[x]
  BY <1>0 DEF EqGetPage
<1>7. currentId'[e] = id /\ \A x \in Equipments \ {e} : currentId'[x] = currentId[x]
  BY <1>0, <1>2
<1>8. InHand' = InHand \cup {<<e, id>>}
  BY <1>6, <1>7 DEF InHand
<1> QED BY <1>1, <1>2, <1>4, <1>5, <1>8

(* EqPush: the block goes from the hand of the equipment to its FIFO, which has room. *)
LEMMA EffectPush ==
    ASSUME Types, Callbacks, NEW e \in Equipments, EqPush(e)
    PROVE  LET b == <<e, currentId[e]>>
           IN  /\ UNCHANGED <<bcv, output, bc, held, consumed, discarded, mpc, given, currentId,
                              pages>>
               /\ b \in Block /\ dataOut[e] \in Seq(Block)
               /\ dataOut' = [dataOut EXCEPT ![e] = Append(@, b)]
               /\ Inputs' = Inputs \cup {b}
               /\ InHand = InHand' \cup {b}
               /\ \A c \in InHand' : c[1] # e
<1> USE Constants
<1> DEFINE b == <<e, currentId[e]>>
<1>0. /\ epc \in [Equipments -> {"test", "get", "push"}] /\ currentId[e] \in Id
      /\ dataOut \in [Equipments -> Seq(Block)] /\ epc[e] = "push"
  BY DEF Types, TypesE, EqPush
<1>1. Len(dataOut[e]) < FifoSize
  BY <1>0 DEF Callbacks
<1>2. /\ UNCHANGED <<bcv, output, bc, held, consumed, discarded, mpc, given, currentId, pages>>
      /\ dataOut' = [dataOut EXCEPT ![e] = Append(@, b)]
      /\ epc' = [epc EXCEPT ![e] = "test"]
  BY <1>1 DEF EqPush, EqReturn, aggregatorVars, mainVars
<1>3. b \in Block /\ dataOut[e] \in Seq(Block)
  BY <1>0 DEF Block
<1>4. Inputs' = Inputs \cup {b}
  <2> HIDE DEF b
  <2>1. ToSet(Append(dataOut[e], b)) = ToSet(dataOut[e]) \cup {b}
    BY <1>3, SetOfAppend
  <2>2. dataOut'[e] = Append(dataOut[e], b) /\ \A x \in Equipments \ {e} : dataOut'[x] = dataOut[x]
    BY <1>0, <1>2
  <2>3. /\ ToSet(dataOut'[e]) = ToSet(dataOut[e]) \cup {b}
        /\ \A x \in Equipments \ {e} : ToSet(dataOut'[x]) = ToSet(dataOut[x])
    BY <2>1, <2>2
  <2> QED BY <2>3 DEF Inputs
<1>5. epc'[e] = "test" /\ \A x \in Equipments \ {e} : epc'[x] = epc[x]
  BY <1>0, <1>2
<1>6. InHand = InHand' \cup {b}
  BY <1>0, <1>2, <1>5 DEF InHand
<1>7. \A c \in InHand' : c[1] # e
  BY <1>5 DEF InHand
<1> QED BY <1>2, <1>3, <1>4, <1>6, <1>7

\* The aggregator takes the block at the front of input ai.
Takes == AggTake /\ dataOut[ai] # << >> /\ Head(dataOut[ai])[2] = minId

(* Takes: the first block of input ai goes into the data set.               *)
LEMMA EffectTake ==
    ASSUME Types, Takes
    PROVE  LET h == Head(dataOut[ai])
           IN  /\ UNCHANGED <<output, bc, held, consumed, discarded, mpc, given, currentId, pages,
                              epc>>
               /\ h \in Block /\ ai \in Equipments /\ h[1] = ai
               /\ dataOut[ai] \in Seq(Block) /\ dataOut[ai] # << >> /\ bcv \in Seq(Block)
               /\ dataOut' = [dataOut EXCEPT ![ai] = Tail(@)]
               /\ bcv' = Append(bcv, h)
               /\ ToSet(bcv') = ToSet(bcv) \cup {h}
               /\ Inputs = Inputs' \cup {h}
               /\ InHand' = InHand
<1> USE Constants
<1> DEFINE q == dataOut[ai]
           h == Head(q)
           r == Tail(q)
<1>0. ai \in Equipments /\ dataOut \in [Equipments -> Seq(Block)] /\ bcv \in Seq(Block)
  BY DEF Takes, AggTake, Types, TypesE, TypesA, Equipments
<1>1. q \in Seq(Block) /\ OnlyOf(ai, q) /\ q # << >>
  BY <1>0 DEF Types, TypesE, Takes
<1>2. /\ UNCHANGED <<output, bc, held, consumed, discarded, mpc, given, currentId, pages, epc>>
      /\ dataOut' = [dataOut EXCEPT ![ai] = r] /\ bcv' = Append(bcv, h)
  BY DEF Takes, AggTake, mainVars
<1>3. dataOut'[ai] = r /\ \A x \in Equipments \ {ai} : dataOut'[x] = dataOut[x]
  BY <1>0, <1>2
<1>4. /\ h = q[1] /\ h \in Block /\ ToSet(q) = {h} \cup ToSet(r) /\ Len(q) \in Nat \ {0}
  BY <1>1, SetOfTail
<1>5. dataOut[ai] = q
  OBVIOUS
<1>6. dataOut' = [dataOut EXCEPT ![ai] = Tail(@)]
  BY <1>2
<1> HIDE DEF r, h, q
<1>7. h[1] = ai
  BY <1>1, <1>4 DEF OnlyOf
<1>8. ToSet(bcv') = ToSet(bcv) \cup {h}
  BY <1>0, <1>2, <1>4, SetOfAppend
<1>9. Inputs = Inputs' \cup {h}
  <2>1. /\ ToSet(dataOut[ai]) = {h} \cup ToSet(dataOut'[ai])
        /\ \A x \in Equipments \ {ai} : ToSet(dataOut'[x]) = ToSet(dataOut[x])
    BY <1>3, <1>4, <1>5
  <2> QED BY <1>0, <2>1 DEF Inputs
<1>10. InHand' = InHand
  BY <1>2 DEF InHand
<1> QED BY <1>0, <1>1, <1>2, <1>4, <1>6, <1>7, <1>8, <1>9, <1>10 DEF h, q

(* AggPush: the data set goes to the output FIFO, which has room.           *)
LEMMA EffectAggPush ==
    ASSUME Types, Callbacks, AggPush
    PROVE  /\ UNCHANGED <<dataOut, epc, currentId, given, bc, held, consumed, discarded, mpc,
                          pages>>
           /\ bcv' = << >> /\ output' = Append(output, bcv)
           /\ output \in Seq(Seq(Block)) /\ bcv \in Seq(Block)
           /\ ToSet(bcv') = {}
           /\ Outputs' = Outputs \cup ToSet(bcv)
           /\ UNCHANGED <<Inputs, InHand>>
<1>1. Len(output) < OutSize
  BY DEF Callbacks, AggPush
<1>2. /\ UNCHANGED <<dataOut, epc, currentId, given, bc, held, consumed, discarded, mpc, pages>>
      /\ bcv' = << >> /\ output' = Append(output, bcv)
  BY <1>1 DEF AggPush, mainVars
<1>3. output \in Seq(Seq(Block)) /\ bcv \in Seq(Block)
  BY DEF Types, TypesA, TypesO
<1>4. Outputs' = Outputs \cup ToSet(bcv)
  BY <1>2, <1>3, BlocksAppend DEF Outputs
<1>5. UNCHANGED <<Inputs, InHand>>
  BY <1>2 DEF Inputs, InHand
<1> QED BY <1>2, <1>3, <1>4, <1>5, SetOfEmpty

\* Main takes a data set.
Pops == MainPop /\ output # << >>

(* Pops: the oldest data set goes to main().                                *)
LEMMA EffectPop ==
    ASSUME Types, Shutdown, Pops
    PROVE  /\ UNCHANGED <<dataOut, epc, currentId, given, bcv, held, consumed, discarded, pages>>
           /\ mpc = "pop" /\ mpc' = "consume" /\ ToSet(bc) = {}
           /\ output \in Seq(Seq(Block)) /\ output' = Tail(output) /\ bc' = Head(output)
           /\ Outputs = Outputs' \cup ToSet(bc')
           /\ UNCHANGED <<Inputs, InHand>>
<1>1. /\ UNCHANGED <<dataOut, epc, currentId, given, bcv, held, consumed, discarded, pages>>
      /\ mpc = "pop" /\ mpc' = "consume" /\ output' = Tail(output) /\ bc' = Head(output)
      /\ output # << >>
  BY DEF Pops, MainPop, equipmentVars, aggregatorVars
<1>2. output \in Seq(Seq(Block))
  BY DEF Types, TypesO
<1>3. bc = << >>
  BY <1>1 DEF Shutdown
<1>4. Outputs = Outputs' \cup ToSet(bc')
  BY <1>1, <1>2, BlocksTail DEF Outputs
<1>5. UNCHANGED <<Inputs, InHand>>
  BY <1>1 DEF Inputs, InHand
<1> QED BY <1>1, <1>2, <1>3, <1>4, <1>5, SetOfEmpty

(* MainConsume: the data set is consumed, and its pages come back but for the ones kept. *)
LEMMA EffectConsume ==
    ASSUME MainConsume
    PROVE  /\ UNCHANGED <<dataOut, epc, currentId, given, bcv, output, discarded>>
           /\ mpc = "consume" /\ mpc' = "loop"
           /\ consumed' = consumed \cup ToSet(bc) /\ bc' = << >> /\ ToSet(bc') = {}
           /\ \E keep \in SUBSET ToSet(bc) : /\ held' = held \cup keep
                                             /\ Taken' = Taken \ (ToSet(bc) \ keep)
           /\ UNCHANGED <<Inputs, InHand, Outputs>>
<1>1. /\ UNCHANGED <<dataOut, epc, currentId, given, bcv, output, discarded>>
      /\ mpc = "consume" /\ mpc' = "loop"
      /\ consumed' = consumed \cup ToSet(bc) /\ bc' = << >>
  BY DEF MainConsume, aggregatorVars
<1>2. PICK keep \in SUBSET ToSet(bc) : /\ held' = held \cup keep
                                       /\ pages' = Released(ToSet(bc) \ keep)
  BY DEF MainConsume
<1>3. Taken' = Taken \ (ToSet(bc) \ keep)
  BY <1>2, TakenReleased
<1>4. UNCHANGED <<Inputs, InHand, Outputs>>
  BY <1>1 DEF Inputs, InHand, Outputs
<1> QED BY <1>1, <1>2, <1>3, <1>4, SetOfEmpty

(* The three steps of the shutdown that empty a stage.                      *)
LEMMA EffectClear ==
    ASSUME MainClearInputs \/ MainPopOutput \/ MainStopConsumers
    PROVE  /\ UNCHANGED <<epc, currentId, given, bcv, bc, consumed>>
           /\ UNCHANGED InHand
           /\ \/ /\ MainClearInputs /\ Inputs' = {} /\ discarded' = discarded \cup Inputs
                 /\ Taken' = Taken \ Inputs /\ UNCHANGED <<output, Outputs, held>>
                 /\ dataOut' = [e \in Equipments |-> << >>]
                 /\ mpc = "clearInputs" /\ mpc' = "popOutput"
              \/ /\ MainPopOutput /\ Outputs' = {} /\ discarded' = discarded \cup Outputs
                 /\ Taken' = Taken \ Outputs /\ UNCHANGED <<dataOut, Inputs, held>>
                 /\ output' = << >>
                 /\ mpc = "popOutput" /\ mpc' = "consumers"
              \/ /\ MainStopConsumers /\ Inputs' = {} /\ Outputs' = {} /\ held' = {}
                 /\ Taken' = Taken \ held /\ UNCHANGED discarded
                 /\ dataOut' = [e \in Equipments |-> << >>] /\ output' = << >>
                 /\ mpc = "consumers" /\ mpc' = "close"
<1>1. UNCHANGED <<epc, currentId, given, bcv, bc, consumed>>
  BY DEF MainClearInputs, MainPopOutput, MainStopConsumers, aggregatorVars
<1>2. UNCHANGED InHand
  BY <1>1 DEF InHand
<1>3. dataOut' = [e \in Equipments |-> << >>] => Inputs' = {}
  BY SetOfEmpty DEF Inputs
<1>4. output' = << >> => Outputs' = {}
  BY BlocksEmpty DEF Outputs
<1>5. CASE MainClearInputs
  <2>1. /\ pages' = Released(Inputs) /\ discarded' = discarded \cup Inputs
        /\ UNCHANGED <<output, held>> /\ dataOut' = [e \in Equipments |-> << >>]
        /\ mpc = "clearInputs" /\ mpc' = "popOutput"
    BY <1>5 DEF MainClearInputs, Inputs
  <2>2. Taken' = Taken \ Inputs /\ UNCHANGED Outputs
    BY <2>1, TakenReleased DEF Outputs
  <2> QED BY <1>1, <1>2, <1>3, <1>5, <2>1, <2>2
<1>6. CASE MainPopOutput
  <2>1. /\ pages' = Released(Outputs) /\ discarded' = discarded \cup Outputs
        /\ UNCHANGED <<dataOut, held>> /\ output' = << >>
        /\ mpc = "popOutput" /\ mpc' = "consumers"
    BY <1>6 DEF MainPopOutput, Outputs, Blocks
  <2>2. Taken' = Taken \ Outputs /\ UNCHANGED Inputs
    BY <2>1, TakenReleased DEF Inputs
  <2> QED BY <1>1, <1>2, <1>4, <1>6, <2>1, <2>2
<1>7. CASE MainStopConsumers
  <2>1. /\ pages' = Released(held) /\ held' = {} /\ UNCHANGED discarded
        /\ dataOut' = [e \in Equipments |-> << >>] /\ output' = << >>
        /\ mpc = "consumers" /\ mpc' = "close"
    BY <1>7 DEF MainStopConsumers
  <2>2. Taken' = Taken \ held
    BY <2>1, TakenReleased
  <2> QED BY <1>1, <1>2, <1>3, <1>4, <1>7, <2>1, <2>2
<1> QED BY <1>5, <1>6, <1>7

(* ConsumerRelease: one block that was kept is released.                    *)
LEMMA EffectRelease ==
    ASSUME ConsumerRelease
    PROVE  /\ UNCHANGED <<epc, currentId, dataOut, given, bcv, output, mpc, bc, consumed,
                          discarded, Inputs, InHand, Outputs>>
           /\ \E b \in held : held' = held \ {b} /\ Taken' = Taken \ {b}
<1>1. UNCHANGED <<epc, currentId, dataOut, given, bcv, output, mpc, bc, consumed, discarded>>
  BY DEF ConsumerRelease, aggregatorVars
<1>2. PICK b \in held : held' = held \ {b} /\ pages' = Released({b})
  BY DEF ConsumerRelease
<1>3. Taken' = Taken \ {b}
  BY <1>2, TakenReleased
<1> QED BY <1>1, <1>2, <1>3 DEF Inputs, InHand, Outputs

\* The steps that move no block.
Quiet ==
    /\ UNCHANGED <<currentId, dataOut, pages, given, bcv, output, bc, held, consumed, discarded>>
    /\ UNCHANGED <<Inputs, InHand, Outputs, Taken>>
    /\ mpc' # mpc => mpc' \notin {"popOutput", "consumers", "close"}
    /\ mpc' = "done" => mpc \in {"close", "done"}
    /\ mpc \in {"popOutput", "consumers", "close", "done", "killed"} =>
          mpc' \in {mpc, "killed"} \/ (mpc = "close" /\ mpc' = "done")

(* Every step moves no block or is one of the above.                        *)
LEMMA DataStep ==
    ASSUME Types, [Next]_vars
    PROVE  \/ Quiet
           \/ \E e \in Equipments : EqGetPage(e) \/ EqPush(e)
           \/ Takes \/ AggPush \/ Pops \/ MainConsume
           \/ MainClearInputs \/ MainPopOutput \/ MainStopConsumers \/ ConsumerRelease
<1> DEFINE same == /\ UNCHANGED <<currentId, dataOut, pages, given, bcv, output>>
                   /\ UNCHANGED <<bc, held, consumed, discarded>>
<1>0. epc \in [Equipments -> {"test", "get", "push"}]
  BY DEF Types, TypesE
<1>1. ASSUME same, \A e \in Equipments : epc'[e] = "push" <=> epc[e] = "push"
      PROVE  UNCHANGED <<Inputs, InHand, Outputs, Taken>>
  BY <1>1 DEF Inputs, InHand, Outputs, Taken
<1>2. ASSUME same, epc' = epc, mpc' = mpc
      PROVE  Quiet
  BY <1>1, <1>2 DEF Quiet
<1>3. ASSUME NEW e \in Equipments, EquipmentThread(e)
      PROVE  Quiet \/ EqGetPage(e) \/ EqPush(e)
  <2>1. CASE Looping(e)
    BY <1>2, <2>1 DEF Looping, equipmentVars, aggregatorVars, mainVars
  <2>2. CASE EqRateReached(e) \/ EqNoPage(e) \/ EqTestFull(e)
    <3>1. same /\ mpc' = mpc
      BY <2>2 DEF EqRateReached, EqNoPage, EqTestFull, aggregatorVars, mainVars
    <3>2. \A x \in Equipments : epc'[x] = "push" <=> epc[x] = "push"
      BY <1>0, <2>2 DEF EqRateReached, EqNoPage, EqTestFull, EqReturn
    <3> QED BY <1>1, <3>1, <3>2 DEF Quiet
  <2> QED BY <1>3, <2>1, <2>2 DEF EquipmentThread
<1>4. CASE AggregatorThread
  <2>1. CASE Looping(Aggregator)
    BY <1>2, <2>1 DEF Looping, equipmentVars, aggregatorVars, mainVars
  <2>2. CASE AggTestFull \/ AggScan \/ AggScanned \/ AggWait \/ AggCreate
    BY <1>2, <2>2 DEF AggTestFull, AggScan, AggScanned, AggWait, AggCreate, equipmentVars, mainVars
  <2>3. CASE AggTake
    BY <1>2, <2>3 DEF AggTake, Takes, mainVars
  <2> QED BY <1>4, <2>1, <2>2, <2>3 DEF AggregatorThread
<1>5. CASE MainThread
  <2>1. CASE \/ MainStartAgg \/ MainStartEq \/ MainLoop \/ MainStopEq \/ MainJoinEq \/ MainStopAgg
             \/ MainJoinAgg \/ MainClose
    <3>1. same /\ epc' = epc
      BY <2>1 DEF MainStartAgg, MainStartEq, MainLoop, MainStopEq, MainJoinEq, MainStopAgg,
                  MainJoinAgg, MainClose, equipmentVars, aggregatorVars
    <3>2. \/ /\ mpc \notin {"popOutput", "consumers", "close", "done", "killed"}
             /\ mpc' \notin {"popOutput", "consumers", "close", "done"}
          \/ mpc = "close" /\ mpc' = "done"
      BY <2>1 DEF MainStartAgg, MainStartEq, MainLoop, MainStopEq, MainJoinEq, MainStopAgg,
                  MainJoinAgg, MainClose, NextEquipment
    <3> QED BY <1>1, <3>1, <3>2 DEF Quiet
  <2>2. CASE MainPop
    <3>1. CASE output = << >>
      <4>1. same /\ epc' = epc
        BY <2>2, <3>1 DEF MainPop, equipmentVars, aggregatorVars
      <4>2. mpc = "pop" /\ mpc' = "loop"
        BY <2>2, <3>1 DEF MainPop
      <4> QED BY <1>1, <4>1, <4>2 DEF Quiet
    <3> QED BY <2>2, <3>1 DEF Pops
  <2> QED BY <1>5, <2>1, <2>2 DEF MainThread
<1>6. CASE UNCHANGED vars \/ TimerExpires \/ MainTimeout
  BY <1>2, <1>6 DEF vars, TimerExpires, MainTimeout, equipmentVars, aggregatorVars, mainVars
<1>7. CASE Signal
  <2>1. same /\ epc' = epc
    BY <1>7 DEF Signal, equipmentVars, aggregatorVars
  <2>2. mpc' = mpc \/ mpc' = "killed"
    BY <1>7 DEF Signal
  <2>3. mpc \notin {"done", "killed"}
    BY <1>7 DEF Signal, Alive
  <2> QED BY <1>1, <2>1, <2>2, <2>3 DEF Quiet
<1> QED BY <1>3, <1>4, <1>5, <1>6, <1>7 DEF Next

-----------------------------------------------------------------------------
(* A stage moves up when what it passes lets it.                            *)
LEMMA LinedMoves ==
    ASSUME NEW A, NEW B, NEW C, NEW D, NEW E, NEW F, NEW X
    PROVE  /\ Lined(A, B, C, D, E, F) /\ Before(A \cup B \cup C \cup D \cup E, X)
                => Lined(A, B, C, D, E, F \cup X)
           /\ Lined(A, B, C, D, E, F \cup X) /\ Before(X, F) => Lined(A, B, C, D, E \cup X, F)
           /\ Lined(A, B, C, D, E \cup X, F) /\ Before(X, E) => Lined(A, B, C, D \cup X, E, F)
           /\ Lined(A, B, C, D, E, F) => Lined(A, B, C \cup D, {}, E, F)
           /\ Lined(A, {}, C \cup X, D, E, F) /\ Before(X, C) => Lined(A, X, C, D, E, F)
           /\ Lined(A, B, C, D, E, F) => Lined(A \cup B, {}, C, D, E, F)
           /\ Lined(A, B, C, D, E, F) => /\ Lined(A, B, C, D, {}, F)
                                         /\ Lined(A, B, {}, D, E, F)
                                         /\ Lined(A, B, {}, D, {}, F)
<1>1. Lined(A, B, C, D, E, F) /\ Before(A \cup B \cup C \cup D \cup E, X)
                => Lined(A, B, C, D, E, F \cup X)
  BY DEF Lined, Before
<1>2. Lined(A, B, C, D, E, F \cup X) /\ Before(X, F) => Lined(A, B, C, D, E \cup X, F)
  BY DEF Lined, Before
<1>3. Lined(A, B, C, D, E \cup X, F) /\ Before(X, E) => Lined(A, B, C, D \cup X, E, F)
  BY DEF Lined, Before
<1>4. Lined(A, B, C, D, E, F) => Lined(A, B, C \cup D, {}, E, F)
  BY DEF Lined, Before
<1>5. Lined(A, {}, C \cup X, D, E, F) /\ Before(X, C) => Lined(A, X, C, D, E, F)
  BY DEF Lined, Before
<1>6. Lined(A, B, C, D, E, F) => Lined(A \cup B, {}, C, D, E, F)
  BY DEF Lined, Before
<1>7. Lined(A, B, C, D, E, F) => /\ Lined(A, B, C, D, {}, F)
                                 /\ Lined(A, B, {}, D, E, F)
                                 /\ Lined(A, B, {}, D, {}, F)
  BY DEF Lined, Before
<1> QED BY <1>1, <1>2, <1>3, <1>4, <1>5, <1>6, <1>7

(* The blocks of a data set come before those of the ones behind it, and the *)
(* block at the front of an input before the rest of the inputs.            *)
LEMMA HeadBefore ==
    ASSUME NEW S, NEW q \in Seq(Seq(S)), q # << >>,
           \A i, j \in 1 .. Len(q) : i < j => Before(ToSet(q[i]), ToSet(q[j]))
    PROVE  /\ Before(ToSet(Head(q)), Blocks(Tail(q)))
           /\ \A i, j \in 1 .. Len(Tail(q)) : i < j => Before(ToSet(Tail(q)[i]), ToSet(Tail(q)[j]))
<1> DEFINE r == Tail(q)
           h == Head(q)
<1>1. /\ Len(r) = Len(q) - 1 /\ Len(q) \in Nat \ {0} /\ h = q[1]
      /\ \A i \in 1 .. Len(r) : r[i] = q[i + 1]
  BY SetOfTail
<1> HIDE DEF r, h
<1>2. ASSUME NEW k \in 1 .. Len(r) PROVE Before(ToSet(h), ToSet(r[k]))
  <2>1. 1 \in 1 .. Len(q) /\ k + 1 \in 1 .. Len(q) /\ 1 < k + 1 /\ r[k] = q[k + 1]
    BY <1>1
  <2> QED BY <1>1, <2>1
<1>3. Before(ToSet(h), Blocks(r))
  BY <1>2 DEF Before, Blocks
<1>4. ASSUME NEW i \in 1 .. Len(r), NEW j \in 1 .. Len(r), i < j
      PROVE  Before(ToSet(r[i]), ToSet(r[j]))
  <2>1. /\ i + 1 \in 1 .. Len(q) /\ j + 1 \in 1 .. Len(q) /\ i + 1 < j + 1
        /\ r[i] = q[i + 1] /\ r[j] = q[j + 1]
    BY <1>1, <1>4
  <2> QED BY <2>1
<1> QED BY <1>3, <1>4 DEF r, h

(* A block taken from an input is before all that stay.                     *)
LEMMA FrontBefore ==
    ASSUME Types, SortedQueues, Takes
    PROVE  /\ Before({Head(dataOut[ai])}, Inputs')
           /\ \A e \in Equipments : \A i, j \in 1 .. Len(dataOut'[e]) :
                 i < j => dataOut'[e][i][2] < dataOut'[e][j][2]
<1> USE Constants
<1> DEFINE q == dataOut[ai]
           h == Head(q)
           r == Tail(q)
<1>0. /\ ai \in Equipments /\ dataOut \in [Equipments -> Seq(Block)] /\ h[1] = ai
      /\ q \in Seq(Block) /\ q # << >> /\ dataOut' = [dataOut EXCEPT ![ai] = r]
  BY EffectTake DEF Types, TypesE
<1>1. dataOut'[ai] = r /\ \A x \in Equipments \ {ai} : dataOut'[x] = dataOut[x]
  BY <1>0
<1>2. /\ Len(r) = Len(q) - 1 /\ Len(q) \in Nat \ {0} /\ h = q[1]
      /\ \A i \in 1 .. Len(r) : r[i] = q[i + 1]
      /\ ToSet(r) = {r[i] : i \in 1 .. Len(r)}
  <2>1. /\ Len(r) = Len(q) - 1 /\ Len(q) \in Nat \ {0} /\ h = q[1] /\ r \in Seq(Block)
        /\ \A i \in 1 .. Len(r) : r[i] = q[i + 1]
    BY <1>0, SetOfTail
  <2> HIDE DEF r
  <2> QED BY <2>1, SetOfSeq
<1>3. \A i, j \in 1 .. Len(q) : i < j => q[i][2] < q[j][2]
  BY <1>0 DEF SortedQueues
<1>4. \A e \in Equipments \ {ai} : /\ ToSet(dataOut[e]) = {dataOut[e][i] : i \in 1 .. Len(dataOut[e])}
                                   /\ OnlyOf(e, dataOut[e])
  BY SetOfSeq DEF Types, TypesE
<1> HIDE DEF q, h, r
<1>5. \A i \in 1 .. Len(r) : 1 \in 1 .. Len(q) /\ i + 1 \in 1 .. Len(q) /\ 1 < i + 1
  BY <1>2
<1>6. \A i \in 1 .. Len(r) : h[2] < r[i][2]
  BY <1>2, <1>3, <1>5
<1>7. ASSUME NEW c \in Inputs', c[1] = ai PROVE h[2] < c[2]
  <2>1. PICK e \in Equipments : c \in ToSet(dataOut'[e])
    BY <1>7 DEF Inputs
  <2>2. e = ai
    <3>1. ASSUME e # ai PROVE FALSE
      <4>1. c \in ToSet(dataOut[e]) /\ OnlyOf(e, dataOut[e])
            /\ ToSet(dataOut[e]) = {dataOut[e][i] : i \in 1 .. Len(dataOut[e])}
        BY <1>1, <1>4, <2>1, <3>1
      <4>2. c[1] = e
        BY <4>1 DEF OnlyOf
      <4> QED BY <1>7, <3>1, <4>2
    <3> QED BY <3>1
  <2> QED BY <1>1, <1>2, <1>6, <2>1, <2>2
<1>8. Before({h}, Inputs')
  BY <1>0, <1>7 DEF Before
<1>9. \A i, j \in 1 .. Len(r) : i < j => /\ i + 1 \in 1 .. Len(q) /\ j + 1 \in 1 .. Len(q)
                                         /\ i + 1 < j + 1
  BY <1>2
<1>10. \A i, j \in 1 .. Len(r) : i < j => r[i][2] < r[j][2]
  BY <1>2, <1>3, <1>9
<1>11. \A e \in Equipments : \A i, j \in 1 .. Len(dataOut'[e]) :
          i < j => dataOut'[e][i][2] < dataOut'[e][j][2]
  BY <1>1, <1>10 DEF SortedQueues
<1> QED BY <1>8, <1>11 DEF h, q

(* Blocks of an equipment stay in line, whatever stage they move to.        *)
LEMMA NextInLine ==
    ASSUME Types, Callbacks, Shutdown, InLine, Accounted, [Next]_vars PROVE InLine'
<1> USE Constants
<1>1. CASE Quiet
  BY <1>1 DEF Quiet, InLine, SortedQueues, Line
<1>2. ASSUME NEW e \in Equipments, EqGetPage(e) PROVE InLine'
  <2>1. UNCHANGED <<dataOut, bcv, output, bc, held, consumed, discarded, mpc>>
    BY <1>2, EffectGetPage
  <2>2. PICK id \in Id : /\ id > currentId[e]
                         /\ currentId' = [currentId EXCEPT ![e] = id]
                         /\ given' = given \cup {<<e, id>>}
                         /\ InHand' = InHand \cup {<<e, id>>}
    BY <1>2, EffectGetPage
  <2> DEFINE b == <<e, id>>
             S == consumed \cup ToSet(bc) \cup Outputs \cup ToSet(bcv) \cup Inputs
  <2>3. S \subseteq given
    BY Stages DEF Accounted
  <2>4. /\ currentId \in [Equipments -> FirstId - 1 .. LastId] /\ given \subseteq Block
        /\ \A c \in given : c[2] <= currentId[c[1]] /\ c[1] \in Equipments /\ c[2] \in Nat
    BY DEF Types, TypesE, InLine, Block
  <2>5. currentId[e] \in Int /\ id \in Int
    <3>1. currentId[e] \in FirstId - 1 .. LastId
      BY <2>4
    <3>2. currentId[e] \in Int
      BY <3>1
    <3>3. id \in Nat
      OBVIOUS
    <3> QED BY <3>2, <3>3
  <2>6. \A c \in given : c[1] = e => c[2] < id
    BY <2>2, <2>4, <2>5
  <2>7. Before(S, {b})
    BY <2>3, <2>6 DEF Before
  <2>8. UNCHANGED <<Inputs, Outputs>>
    BY <2>1 DEF Inputs, Outputs
  <2>10. Line'
    <3>1. Lined(consumed, ToSet(bc), Outputs, ToSet(bcv), Inputs, InHand \cup {b})
      BY <2>7, LinedMoves DEF InLine, Line
    <3> QED BY <2>1, <2>2, <2>8, <3>1 DEF Line
  <2>11. SortedQueues'
    BY <2>1 DEF InLine, SortedQueues
  <2>12. \A c \in given' : c[2] <= currentId'[c[1]]
    <3>1. currentId'[e] = id /\ \A x \in Equipments \ {e} : currentId'[x] = currentId[x]
      BY <2>2, <2>4
    <3>2. ASSUME NEW c \in given PROVE c[2] <= currentId'[c[1]]
      <4>1. CASE c[1] = e
        BY <2>4, <2>5, <2>6, <3>1, <3>2, <4>1
      <4>2. CASE c[1] # e
        BY <2>4, <3>1, <3>2, <4>2
      <4> QED BY <4>1, <4>2
    <3>3. b[2] <= currentId'[b[1]]
      BY <2>5, <3>1
    <3> QED BY <2>2, <3>2, <3>3
  <2> QED BY <2>10, <2>11, <2>12 DEF InLine
<1>3. ASSUME NEW e \in Equipments, EqPush(e) PROVE InLine'
  <2> DEFINE b == <<e, currentId[e]>>
  <2>1. /\ UNCHANGED <<bcv, output, bc, consumed, given, currentId>>
        /\ b \in Block /\ dataOut[e] \in Seq(Block)
        /\ dataOut' = [dataOut EXCEPT ![e] = Append(@, b)]
        /\ Inputs' = Inputs \cup {b}
        /\ InHand = InHand' \cup {b}
        /\ \A c \in InHand' : c[1] # e
    BY <1>3, EffectPush
  <2>2. b[1] = e
    OBVIOUS
  <2> HIDE DEF b
  <2>3. UNCHANGED Outputs
    BY <2>1 DEF Outputs
  <2>4. Before({b}, InHand')
    BY <2>1, <2>2 DEF Before
  <2>5. Lined(consumed, ToSet(bc), Outputs, ToSet(bcv), Inputs, InHand' \cup {b})
    BY <2>1 DEF InLine, Line
  <2>6. Line'
    <3>1. Lined(consumed, ToSet(bc), Outputs, ToSet(bcv), Inputs \cup {b}, InHand')
      BY <2>4, <2>5, LinedMoves
    <3> QED BY <2>1, <2>3, <3>1 DEF Line
  <2>7. Before(Inputs, {b})
    BY <2>5 DEF Lined, Before
  <2>8. \A i \in 1 .. Len(dataOut[e]) : dataOut[e][i][2] < b[2]
    <3>1. \A i \in 1 .. Len(dataOut[e]) : dataOut[e][i] \in ToSet(dataOut[e]) /\ dataOut[e][i][1] = e
      BY <2>1, SetOfSeq DEF Types, TypesE, OnlyOf
    <3>2. ToSet(dataOut[e]) \subseteq Inputs
      BY DEF Inputs
    <3> QED BY <2>2, <2>7, <3>1, <3>2 DEF Before
  <2>9. SortedQueues'
    <3> DEFINE q == dataOut[e]
               r == Append(q, b)
    <3>1. /\ Len(r) = Len(q) + 1 /\ Len(q) \in Nat /\ r[Len(q) + 1] = b
          /\ \A i \in 1 .. Len(q) : r[i] = q[i]
      BY <2>1, SetOfAppend, SetOfSeq
    <3>2. dataOut'[e] = r /\ \A x \in Equipments \ {e} : dataOut'[x] = dataOut[x]
      BY <2>1 DEF Types, TypesE
    <3>3. \A i, j \in 1 .. Len(q) : i < j => q[i][2] < q[j][2]
      BY DEF InLine, SortedQueues
    <3>4. \A i \in 1 .. Len(q) : q[i][2] < b[2]
      BY <2>8
    <3> HIDE DEF r, q
    <3>5. ASSUME NEW i \in 1 .. Len(r), NEW j \in 1 .. Len(r), i < j PROVE r[i][2] < r[j][2]
      <4>1. i \in 1 .. Len(q) /\ (j \in 1 .. Len(q) \/ j = Len(q) + 1)
        BY <3>1, <3>5
      <4> QED BY <3>1, <3>3, <3>4, <3>5, <4>1
    <3>6. \A x \in Equipments : \A i, j \in 1 .. Len(dataOut'[x]) :
             i < j => dataOut'[x][i][2] < dataOut'[x][j][2]
      BY <3>2, <3>5 DEF InLine, SortedQueues
    <3> QED BY <2>1, <3>6 DEF InLine, SortedQueues
  <2> QED BY <2>1, <2>9, <2>6 DEF InLine
<1>4. CASE Takes
  <2> DEFINE h == Head(dataOut[ai])
  <2>1. /\ UNCHANGED <<output, bc, consumed, given, currentId>>
        /\ ToSet(bcv') = ToSet(bcv) \cup {h}
        /\ Inputs = Inputs' \cup {h}
        /\ InHand' = InHand
    BY <1>4, EffectTake
  <2>2. /\ Before({h}, Inputs')
        /\ \A e \in Equipments : \A i, j \in 1 .. Len(dataOut'[e]) :
                 i < j => dataOut'[e][i][2] < dataOut'[e][j][2]
    BY <1>4, FrontBefore DEF InLine
  <2> HIDE DEF h
  <2>3. UNCHANGED Outputs
    BY <2>1 DEF Outputs
  <2>4. Line'
    <3>1. Lined(consumed, ToSet(bc), Outputs, ToSet(bcv), Inputs' \cup {h}, InHand)
      BY <2>1 DEF InLine, Line
    <3>2. Lined(consumed, ToSet(bc), Outputs, ToSet(bcv) \cup {h}, Inputs', InHand)
      BY <2>2, <3>1, LinedMoves
    <3> QED BY <2>1, <2>3, <3>2 DEF Line
  <2>5. SortedQueues'
    BY <2>1, <2>2 DEF InLine, SortedQueues
  <2> QED BY <2>1, <2>4, <2>5 DEF InLine
<1>5. CASE AggPush
  <2>1. /\ UNCHANGED <<dataOut, currentId, given, bc, consumed>>
        /\ output' = Append(output, bcv)
        /\ output \in Seq(Seq(Block)) /\ bcv \in Seq(Block)
        /\ ToSet(bcv') = {}
        /\ Outputs' = Outputs \cup ToSet(bcv)
        /\ UNCHANGED <<Inputs, InHand>>
    BY <1>5, EffectAggPush
  <2>2. Line'
    <3>1. Lined(consumed, ToSet(bc), Outputs \cup ToSet(bcv), {}, Inputs, InHand)
      BY LinedMoves DEF InLine, Line
    <3> QED BY <2>1, <3>1 DEF Line
  <2>3. Before(Outputs, ToSet(bcv))
    BY DEF InLine, Line, Lined, Before
  <2>4. \A i \in 1 .. Len(output) : Before(ToSet(output[i]), ToSet(bcv))
    BY <2>3 DEF Before, Outputs, Blocks
  <2>5. SortedQueues'
    <3> DEFINE r == Append(output, bcv)
    <3>1. /\ Len(r) = Len(output) + 1 /\ Len(output) \in Nat /\ r[Len(output) + 1] = bcv
          /\ \A i \in 1 .. Len(output) : r[i] = output[i]
      BY <2>1, SetOfAppend, SetOfSeq
    <3>2. output' = r
      BY <2>1
    <3> HIDE DEF r
    <3>3. ASSUME NEW i \in 1 .. Len(r), NEW j \in 1 .. Len(r), i < j
          PROVE  Before(ToSet(r[i]), ToSet(r[j]))
      <4>1. i \in 1 .. Len(output) /\ (j \in 1 .. Len(output) \/ j = Len(output) + 1)
        BY <3>1, <3>3
      <4> QED BY <2>4, <3>1, <3>3, <4>1 DEF InLine, SortedQueues
    <3> QED BY <2>1, <3>2, <3>3 DEF InLine, SortedQueues
  <2> QED BY <2>1, <2>2, <2>5 DEF InLine
<1>6. CASE Pops
  <2>1. /\ UNCHANGED <<dataOut, currentId, given, bcv, consumed>>
        /\ ToSet(bc) = {} /\ output # << >>
        /\ output \in Seq(Seq(Block)) /\ output' = Tail(output) /\ bc' = Head(output)
        /\ Outputs = Outputs' \cup ToSet(bc')
        /\ UNCHANGED <<Inputs, InHand>>
    BY <1>6, EffectPop DEF Pops
  <2>2. /\ Before(ToSet(bc'), Outputs')
        /\ \A i, j \in 1 .. Len(output') : i < j => Before(ToSet(output'[i]), ToSet(output'[j]))
    BY <2>1, HeadBefore DEF InLine, SortedQueues, Outputs
  <2>3. Line'
    <3>1. Lined(consumed, {}, Outputs' \cup ToSet(bc'), ToSet(bcv), Inputs, InHand)
      BY <2>1 DEF InLine, Line
    <3>2. Lined(consumed, ToSet(bc'), Outputs', ToSet(bcv), Inputs, InHand)
      BY <2>2, <3>1, LinedMoves
    <3> QED BY <2>1, <3>2 DEF Line
  <2>4. SortedQueues'
    BY <2>1, <2>2 DEF InLine, SortedQueues
  <2> QED BY <2>1, <2>3, <2>4 DEF InLine
<1>7. CASE MainConsume
  <2>1. /\ UNCHANGED <<dataOut, currentId, given, bcv, output>>
        /\ consumed' = consumed \cup ToSet(bc) /\ ToSet(bc') = {}
        /\ UNCHANGED <<Inputs, InHand, Outputs>>
    BY <1>7, EffectConsume
  <2>2. Line'
    <3>1. Lined(consumed \cup ToSet(bc), {}, Outputs, ToSet(bcv), Inputs, InHand)
      BY LinedMoves DEF InLine, Line
    <3> QED BY <2>1, <3>1 DEF Line
  <2> QED BY <2>1, <2>2 DEF InLine, SortedQueues
<1>8. CASE MainClearInputs \/ MainPopOutput \/ MainStopConsumers
  <2>1. /\ UNCHANGED <<currentId, given, bcv, bc, consumed, InHand>>
        /\ Inputs' = {} \/ UNCHANGED Inputs
        /\ Outputs' = {} \/ UNCHANGED Outputs
        /\ dataOut' = dataOut \/ dataOut' = [e \in Equipments |-> << >>]
        /\ output' = output \/ output' = << >>
    BY <1>8, EffectClear
  <2>2. Line'
    <3>1. /\ Lined(consumed, ToSet(bc), Outputs, ToSet(bcv), Inputs, InHand)
          /\ Lined(consumed, ToSet(bc), Outputs, ToSet(bcv), {}, InHand)
          /\ Lined(consumed, ToSet(bc), {}, ToSet(bcv), Inputs, InHand)
          /\ Lined(consumed, ToSet(bc), {}, ToSet(bcv), {}, InHand)
      BY LinedMoves DEF InLine, Line
    <3> QED BY <2>1, <3>1 DEF Line
  <2>3. SortedQueues'
    <3>1. 1 .. Len(<< >>) = {}
      BY SetOfEmpty
    <3>2. \A e \in Equipments : dataOut'[e] = dataOut[e] \/ dataOut'[e] = << >>
      BY <2>1
    <3> QED BY <2>1, <3>1, <3>2 DEF InLine, SortedQueues
  <2> QED BY <2>1, <2>2, <2>3 DEF InLine
<1>9. CASE ConsumerRelease
  BY <1>9, EffectRelease DEF InLine, SortedQueues, Line
<1> QED BY <1>1, <1>2, <1>3, <1>4, <1>5, <1>6, <1>7, <1>8, <1>9, DataStep

-----------------------------------------------------------------------------
(* No block is in two stages.                                               *)
LEMMA Apart ==
    ASSUME Types, InLine
    PROVE  /\ consumed \cap InPipeline = {}
           /\ ToSet(bc) \cap (Outputs \cup ToSet(bcv) \cup Inputs \cup InHand) = {}
           /\ Outputs \cap (ToSet(bcv) \cup Inputs \cup InHand) = {}
           /\ Inputs \cap (ToSet(bc) \cup Outputs \cup ToSet(bcv) \cup InHand) = {}
<1> DEFINE B == ToSet(bc)
           C == Outputs
           D == ToSet(bcv)
           E == Inputs
           F == InHand
<1>1. consumed \subseteq Block /\ \A b \in Block : ~(b[2] < b[2])
  <2>1. \A b \in Block : b[2] \in Nat
    BY Constants DEF Block
  <2>2. \A n \in Nat : ~(n < n)
    OBVIOUS
  <2> QED BY <2>1, <2>2 DEF Types, TypesM
<1>2. B \subseteq Block
  BY SetOfSeq DEF Types, TypesM
<1>3. C \subseteq Block
  <2>1. \A k \in 1 .. Len(output) : output[k] \in Seq(Block)
    BY SetOfSeq DEF Types, TypesO
  <2>2. \A k \in 1 .. Len(output) : ToSet(output[k]) \subseteq Block
    BY <2>1, SetOfSeq
  <2> QED BY <2>2 DEF Outputs, Blocks
<1>4. D \subseteq Block
  BY SetOfSeq DEF Types, TypesA
<1>5. E \subseteq Block
  <2>1. \A e \in Equipments : ToSet(dataOut[e]) \subseteq Block
    BY SetOfSeq DEF Types, TypesE
  <2> QED BY <2>1 DEF Inputs
<1>6. InPipeline = E \cup F \cup D \cup C \cup B
  BY Stages
<1>7. Lined(consumed, B, C, D, E, F)
  BY DEF InLine, Line
<1> HIDE DEF B, C, D, E, F
<1>8. ASSUME NEW x \in SUBSET Block, NEW y, Before(x, y) PROVE x \cap y = {}
  BY <1>1, <1>8 DEF Before
<1>9. consumed \cap B = {}
  BY <1>1, <1>7, <1>8 DEF Lined
<1>10. (consumed \cup B) \cap C = {}
  BY <1>1, <1>2, <1>7, <1>8 DEF Lined
<1>11. (consumed \cup B \cup C) \cap D = {}
  BY <1>1, <1>2, <1>3, <1>7, <1>8 DEF Lined
<1>12. (consumed \cup B \cup C \cup D) \cap E = {}
  BY <1>1, <1>2, <1>3, <1>4, <1>7, <1>8 DEF Lined
<1>13. (consumed \cup B \cup C \cup D \cup E) \cap F = {}
  <2>1. consumed \cup B \cup C \cup D \cup E \in SUBSET Block
    BY <1>1, <1>2, <1>3, <1>4, <1>5
  <2> QED BY <1>7, <1>8, <2>1 DEF Lined
<1>14. consumed \cap InPipeline = {}
  BY <1>6, <1>9, <1>10, <1>11, <1>12, <1>13
<1>15. /\ B \cap (C \cup D \cup E \cup F) = {} /\ C \cap (D \cup E \cup F) = {}
       /\ E \cap (B \cup C \cup D \cup F) = {}
  BY <1>10, <1>11, <1>12, <1>13
<1> QED BY <1>14, <1>15 DEF B, C, D, E, F

(* When main() clears the FIFOs no thread has a block in its hands.         *)
LEMMA NobodyLeft ==
    ASSUME Types, Callbacks, Shutdown, mpc \in Cleared
    PROVE  /\ \A t \in ThreadIds : tpc[t] = "none"
           /\ \A e \in Equipments : epc[e] = "test"
           /\ apc = "test" /\ bcv = << >> /\ bc = << >>
           /\ InHand = {} /\ ToSet(bcv) = {} /\ ToSet(bc) = {}
<1>1. ~isRunning /\ mpc \notin Stopping \cup {"killed"} /\ tpc[Aggregator] = "none" /\ bc = << >>
  BY DEF Shutdown, Cleared, Stopping
<1>2. \A e \in Equipments : tpc[e] = "none"
  BY <1>1 DEF Shutdown
<1>3. \A t \in ThreadIds : tpc[t] = "none"
  BY <1>1, <1>2, ThreadsAssumption
<1>4. (\A e \in Equipments : epc[e] = "test") /\ apc = "test" /\ bcv = << >>
  BY <1>1, <1>2 DEF Callbacks
<1>5. InHand = {}
  BY <1>4 DEF InHand
<1> QED BY <1>1, <1>3, <1>4, <1>5, SetOfEmpty

(* Blocks and pages stay accounted for.                                     *)
LEMMA NextAccounted ==
    ASSUME Types, Callbacks, Shutdown, InLine, Accounted, [Next]_vars PROVE Accounted'
<1> USE Constants
<1> DEFINE Late == {"popOutput", "consumers", "close", "done", "killed"}
<1>0. InPipeline = Inputs \cup InHand \cup ToSet(bcv) \cup Outputs \cup ToSet(bc)
  BY Stages
<1>00. InPipeline' = Inputs' \cup InHand' \cup ToSet(bcv') \cup Outputs' \cup ToSet(bc')
  <2>1. (InPipeline = Inputs \cup InHand \cup ToSet(bcv) \cup Outputs \cup ToSet(bc))'
    BY Stages, PTL
  <2> QED BY <2>1
<1>a. /\ given = InPipeline \cup consumed \cup discarded
      /\ Taken = InPipeline \cup held
      /\ held \subseteq consumed
  BY DEF Accounted
<1>b. mpc \in {"popOutput", "consumers", "close", "done"} => \A e \in Equipments : dataOut[e] = << >>
  BY DEF Accounted
<1>c. mpc \in {"consumers", "close", "done"} => output = << >>
  BY DEF Accounted
<1>d. mpc \in {"close", "done"} => held = {} /\ InPipeline = {}
  BY DEF Accounted
<1>e. discarded # {} => mpc \in Late
  BY DEF Accounted
<1>f. \A x \in {"popOutput", "consumers", "close"} : x \in Cleared
  BY DEF Cleared
<1>1. CASE Quiet
  <2>1. UNCHANGED <<given, InPipeline, consumed, discarded, Taken, held, dataOut, output>>
    BY <1>0, <1>00, <1>1 DEF Quiet
  <2>2. /\ mpc' \in {"popOutput", "consumers", "close"} => mpc' = mpc
        /\ mpc' = "done" => mpc \in {"close", "done"}
        /\ mpc \in Late => mpc' \in Late
    BY <1>1 DEF Quiet
  <2> QED BY <2>1, <2>2 DEF Accounted
<1>2. ASSUME NEW e \in Equipments, EqGetPage(e) PROVE Accounted'
  <2>1. UNCHANGED <<dataOut, bcv, output, bc, held, consumed, discarded, mpc>>
    BY <1>2, EffectGetPage
  <2>2. PICK id \in Id : /\ given' = given \cup {<<e, id>>}
                         /\ Taken' = Taken \cup {<<e, id>>}
                         /\ InHand' = InHand \cup {<<e, id>>}
    BY <1>2, EffectGetPage
  <2>3. mpc \notin {"close", "done"}
    BY <1>2, <1>f, NobodyLeft DEF EqGetPage, Alive
  <2>4. UNCHANGED <<Inputs, Outputs>>
    BY <2>1 DEF Inputs, Outputs
  <2>5. InPipeline' = InPipeline \cup {<<e, id>>}
    BY <1>0, <1>00, <2>1, <2>2, <2>4
  <2> QED BY <2>1, <2>2, <2>3, <2>5 DEF Accounted
<1>3. ASSUME NEW e \in Equipments, EqPush(e) PROVE Accounted'
  <2>1. UNCHANGED <<bcv, output, bc, held, consumed, discarded, mpc, given, pages>>
    BY <1>3, EffectPush
  <2>2. /\ Inputs' = Inputs \cup {<<e, currentId[e]>>}
        /\ InHand = InHand' \cup {<<e, currentId[e]>>}
    BY <1>3, EffectPush
  <2>3. mpc \notin {"popOutput", "consumers", "close", "done"}
    BY <1>3, <1>f, NobodyLeft DEF EqPush, Alive
  <2>4. UNCHANGED <<Outputs, Taken>>
    BY <2>1 DEF Outputs, Taken
  <2>5. InPipeline' = InPipeline
    BY <1>0, <1>00, <2>1, <2>2, <2>4
  <2> QED BY <2>1, <2>3, <2>4, <2>5 DEF Accounted
<1>4. CASE Takes
  <2>1. UNCHANGED <<output, bc, held, consumed, discarded, mpc, given, pages, InHand>>
    BY <1>4, EffectTake
  <2>2. /\ ToSet(bcv') = ToSet(bcv) \cup {Head(dataOut[ai])}
        /\ Inputs = Inputs' \cup {Head(dataOut[ai])}
    BY <1>4, EffectTake
  <2>3. mpc \notin {"popOutput", "consumers", "close", "done"}
    BY <1>4, <1>f, NobodyLeft DEF Takes, AggTake, Alive
  <2>4. UNCHANGED <<Outputs, Taken>>
    BY <2>1 DEF Outputs, Taken
  <2>5. InPipeline' = InPipeline
    BY <1>0, <1>00, <2>1, <2>2, <2>4
  <2> QED BY <2>1, <2>3, <2>4, <2>5 DEF Accounted
<1>5. CASE AggPush
  <2>1. /\ UNCHANGED <<dataOut, given, bc, held, consumed, discarded, mpc, pages, Inputs, InHand>>
        /\ ToSet(bcv') = {}
        /\ Outputs' = Outputs \cup ToSet(bcv)
    BY <1>5, EffectAggPush
  <2>3. mpc \notin {"popOutput", "consumers", "close", "done"}
    BY <1>5, <1>f, NobodyLeft DEF AggPush, Alive
  <2>4. UNCHANGED Taken
    BY <2>1 DEF Taken
  <2>5. InPipeline' = InPipeline
    BY <1>0, <1>00, <2>1
  <2> QED BY <2>1, <2>3, <2>4, <2>5 DEF Accounted
<1>6. CASE Pops
  <2>1. /\ UNCHANGED <<dataOut, given, bcv, held, consumed, discarded, pages, Inputs, InHand>>
        /\ mpc = "pop" /\ mpc' = "consume" /\ ToSet(bc) = {}
        /\ Outputs = Outputs' \cup ToSet(bc')
    BY <1>6, EffectPop
  <2>2. UNCHANGED Taken
    BY <2>1 DEF Taken
  <2>3. InPipeline' = InPipeline
    BY <1>0, <1>00, <2>1
  <2> QED BY <2>1, <2>2, <2>3 DEF Accounted
<1>7. CASE MainConsume
  <2>1. /\ UNCHANGED <<dataOut, given, bcv, output, discarded, Inputs, InHand, Outputs>>
        /\ mpc = "consume" /\ mpc' = "loop"
        /\ consumed' = consumed \cup ToSet(bc) /\ ToSet(bc') = {}
    BY <1>7, EffectConsume
  <2>2. PICK keep \in SUBSET ToSet(bc) : /\ held' = held \cup keep
                                         /\ Taken' = Taken \ (ToSet(bc) \ keep)
    BY <1>7, EffectConsume
  <2>3. /\ InPipeline = InPipeline' \cup ToSet(bc)
        /\ ToSet(bc) \cap InPipeline' = {}
        /\ ToSet(bc) \cap consumed = {}
    BY <1>0, <1>00, <2>1, Apart
  <2>4. given' = InPipeline' \cup consumed' \cup discarded'
    BY <1>a, <2>1, <2>3
  <2>5. Taken' = InPipeline' \cup held' /\ held' \subseteq consumed'
    BY <1>a, <2>1, <2>2, <2>3
  <2>6. discarded' = {}
    BY <1>e, <2>1
  <2> QED BY <2>1, <2>4, <2>5, <2>6 DEF Accounted
<1>8. CASE MainClearInputs
  <2>1. /\ UNCHANGED <<given, bcv, bc, consumed, InHand>>
        /\ Inputs' = {} /\ discarded' = discarded \cup Inputs
        /\ Taken' = Taken \ Inputs /\ UNCHANGED <<output, Outputs, held>>
        /\ dataOut' = [e \in Equipments |-> << >>]
        /\ mpc = "clearInputs" /\ mpc' = "popOutput"
    BY <1>8, EffectClear DEF MainClearInputs, MainPopOutput, MainStopConsumers
  <2>2. /\ InPipeline = InPipeline' \cup Inputs
        /\ Inputs \cap InPipeline' = {}
        /\ Inputs \cap consumed = {}
    BY <1>0, <1>00, <2>1, Apart
  <2>3. given' = InPipeline' \cup consumed' \cup discarded'
    BY <1>a, <2>1, <2>2
  <2>4. Taken' = InPipeline' \cup held' /\ held' \subseteq consumed'
    BY <1>a, <2>1, <2>2
  <2> QED BY <2>1, <2>3, <2>4 DEF Accounted
<1>9. CASE MainPopOutput
  <2>1. /\ UNCHANGED <<given, bcv, bc, consumed, InHand>>
        /\ Outputs' = {} /\ discarded' = discarded \cup Outputs
        /\ Taken' = Taken \ Outputs /\ UNCHANGED <<dataOut, Inputs, held>>
        /\ output' = << >>
        /\ mpc = "popOutput" /\ mpc' = "consumers"
    BY <1>9, EffectClear DEF MainClearInputs, MainPopOutput, MainStopConsumers
  <2>2. /\ InPipeline = InPipeline' \cup Outputs
        /\ Outputs \cap InPipeline' = {}
        /\ Outputs \cap consumed = {}
    BY <1>0, <1>00, <2>1, Apart
  <2>3. given' = InPipeline' \cup consumed' \cup discarded'
    BY <1>a, <2>1, <2>2
  <2>4. Taken' = InPipeline' \cup held' /\ held' \subseteq consumed'
    BY <1>a, <2>1, <2>2
  <2> QED BY <1>b, <2>1, <2>3, <2>4 DEF Accounted
<1>10. CASE MainStopConsumers
  <2>1. /\ UNCHANGED <<given, bcv, bc, consumed, InHand>>
        /\ Inputs' = {} /\ Outputs' = {} /\ held' = {}
        /\ Taken' = Taken \ held /\ UNCHANGED discarded
        /\ dataOut' = [e \in Equipments |-> << >>] /\ output' = << >>
        /\ mpc = "consumers" /\ mpc' = "close"
    BY <1>10, EffectClear DEF MainClearInputs, MainPopOutput, MainStopConsumers
  <2>2. Inputs = {} /\ Outputs = {}
    BY <1>b, <1>c, <2>1, SetOfEmpty, BlocksEmpty DEF Inputs, Outputs
  <2>3. InHand = {} /\ ToSet(bcv) = {} /\ ToSet(bc) = {}
    BY <1>f, <2>1, NobodyLeft
  <2>4. InPipeline = {} /\ InPipeline' = {}
    BY <1>0, <1>00, <2>1, <2>2, <2>3
  <2> QED BY <1>a, <2>1, <2>4 DEF Accounted
<1>11. CASE ConsumerRelease
  <2>1. UNCHANGED <<dataOut, given, bcv, output, mpc, bc, consumed, discarded, Inputs, InHand,
                    Outputs>>
    BY <1>11, EffectRelease
  <2>2. PICK b \in held : held' = held \ {b} /\ Taken' = Taken \ {b}
    BY <1>11, EffectRelease
  <2>3. InPipeline' = InPipeline
    BY <1>0, <1>00, <2>1
  <2>4. b \notin InPipeline
    BY <1>a, <2>2, Apart
  <2>5. Taken' = InPipeline' \cup held' /\ held' \subseteq consumed'
    BY <1>a, <2>1, <2>2, <2>3, <2>4
  <2> QED BY <2>1, <2>2, <2>3, <2>5 DEF Accounted
<1> QED BY <1>1, <1>2, <1>3, <1>4, <1>5, <1>6, <1>7, <1>8, <1>9, <1>10, <1>11, DataStep

-----------------------------------------------------------------------------
(* The block at the front of an input stays there until the aggregator takes *)
(* it or main() clears the FIFO.                                            *)
LEMMA FrontKept ==
    ASSUME Types, NEW e \in Equipments, EquipmentThread(e), NEW m \in Equipments,
           dataOut[m] # << >>
    PROVE  dataOut'[m] # << >> /\ Head(dataOut'[m]) = Head(dataOut[m])
<1>1. CASE dataOut' = dataOut
  BY <1>1
<1>2. CASE EqPush(e) /\ dataOut' # dataOut
  <2> DEFINE b == <<e, currentId[e]>>
  <2>1. dataOut \in [Equipments -> Seq(Block)] /\ b \in Block
    BY <1>2 DEF Types, TypesE, EqPush, Block
  <2>2. dataOut' = [dataOut EXCEPT ![e] = Append(@, b)]
    BY <1>2 DEF EqPush
  <2> HIDE DEF b
  <2>3. CASE m = e
    <3>1. dataOut'[m] = Append(dataOut[m], b) /\ dataOut[m] \in Seq(Block)
      BY <2>1, <2>2, <2>3
    <3> QED BY <2>1, <3>1, SetOfAppend
  <2>4. CASE m # e
    BY <2>1, <2>2, <2>4
  <2> QED BY <2>3, <2>4
<1> QED BY <1>1, <1>2 DEF EquipmentThread, Looping, EqRateReached, EqTestFull, EqGetPage, EqNoPage,
                          equipmentVars

(* The data set the aggregator begins has a block at some input that nobody takes away. *)
LEMMA AggregatorFronts ==
    ASSUME Types, Callbacks, Fronts, AggregatorThread
    PROVE  Fronts'
<1> USE Constants
<1>0. /\ ai \in 1 .. NumEquipments + 1 /\ ai \in Nat /\ allEmpty \in BOOLEAN
      /\ dataOut \in [Equipments -> Seq(Block)]
  BY DEF Types, TypesA, TypesE
<1>1. ASSUME UNCHANGED <<apc, ai, bcv, allEmpty, minId, dataOut>> PROVE Fronts'
  BY <1>1 DEF Fronts, FrontIs
<1>2. ASSUME apc' = "test" PROVE Fronts'
  BY <1>2 DEF Fronts
<1>3. CASE Looping(Aggregator)
  BY <1>1, <1>3 DEF Looping, aggregatorVars, scanVars, equipmentVars
<1>4. CASE AggTestFull
  <2>1. CASE apc' = "scan" /\ FreshLocals
    BY <2>1 DEF FreshLocals, Fronts
  <2> QED BY <1>2, <1>4, <2>1 DEF AggTestFull, AggReturn
<1>5. CASE AggScan
  <2>1. /\ apc = "scan" /\ apc' = "scan" /\ ai <= NumEquipments /\ ai' = ai + 1 /\ dataOut' = dataOut
    BY <1>5 DEF AggScan, equipmentVars
  <2>2. 1 .. ai' - 1 = (1 .. ai - 1) \cup {ai}
    BY <1>0, <2>1
  <2>3. CASE dataOut[ai] # << >>
    <3> DEFINE n == Head(dataOut[ai])[2]
    <3>1. allEmpty' = FALSE /\ minId' = (IF minId = 0 \/ n < minId THEN n ELSE minId)
      BY <1>5, <2>3 DEF AggScan
    <3>2. CASE minId' = n
      BY <2>1, <2>2, <2>3, <3>1, <3>2 DEF Fronts, FrontIs
    <3>3. CASE minId # 0 /\ minId' = minId
      <4>1. \E m \in 1 .. ai - 1 : FrontIs(m)
        BY <2>1, <3>3 DEF Fronts
      <4>2. \E m \in 1 .. ai' - 1 : FrontIs(m)'
        BY <2>1, <2>2, <3>3, <4>1 DEF FrontIs
      <4> QED BY <2>1, <3>1, <4>2 DEF Fronts
    <3> QED BY <3>1, <3>2, <3>3
  <2>4. CASE dataOut[ai] = << >>
    <3>1. UNCHANGED <<allEmpty, minId>>
      BY <1>5, <2>4 DEF AggScan
    <3> QED BY <2>1, <2>2, <3>1 DEF Fronts, FrontIs
  <2> QED BY <2>3, <2>4
<1>6. CASE AggScanned
  <2>1. /\ apc = "scan" /\ ai > NumEquipments /\ dataOut' = dataOut
    BY <1>6 DEF AggScanned, equipmentVars
  <2>2. CASE ~allEmpty /\ apc' \in {"wait", "create"} /\ UNCHANGED scanVars
    <3>1. 1 .. ai - 1 = Equipments
      BY <1>0, <2>1 DEF Equipments
    <3>2. \E m \in Equipments : FrontIs(m)
      BY <2>1, <2>2, <3>1 DEF Fronts
    <3>3. \E m \in Equipments : FrontIs(m)'
      BY <2>1, <2>2, <3>2 DEF FrontIs, scanVars
    <3> QED BY <2>2, <3>3 DEF Fronts
  <2> QED BY <1>2, <1>6, <2>2 DEF AggScanned, AggReturn
<1>7. CASE AggWait
  <2>1. CASE apc' = "create" /\ UNCHANGED scanVars
    <3>1. \E m \in Equipments : FrontIs(m)
      BY <1>7 DEF AggWait, Fronts
    <3>2. \E m \in Equipments : FrontIs(m)'
      BY <1>7, <2>1, <3>1 DEF FrontIs, scanVars, AggWait, equipmentVars
    <3> QED BY <2>1, <3>2 DEF Fronts
  <2> QED BY <1>2, <1>7, <2>1 DEF AggWait, AggReturn
<1>8. CASE AggCreate
  <2>1. CASE apc' = "take" /\ ai' = 1 /\ UNCHANGED scanVars
    <3>1. \E m \in Equipments : FrontIs(m)
      BY <1>8 DEF AggCreate, Fronts
    <3>2. \E m \in Equipments : FrontIs(m)'
      BY <1>8, <2>1, <3>1 DEF FrontIs, scanVars, AggCreate, equipmentVars
    <3>3. ai' .. NumEquipments = Equipments
      BY <2>1 DEF Equipments
    <3> QED BY <2>1, <3>2, <3>3 DEF Fronts
  <2> QED BY <1>2, <1>8, <2>1 DEF AggCreate, AggReturn
<1>9. CASE AggTake
  <2>1. apc = "take" /\ apc' = "take" /\ ai' = ai + 1 /\ minId' = minId /\ ai \in Equipments
    BY <1>0, <1>9 DEF AggTake, scanVars, Equipments
  <2>2. CASE Takes
    <3>1. bcv' # << >>
      BY <2>2, EffectTake, SetOfAppend
    <3> QED BY <2>1, <3>1 DEF Fronts
  <2>3. CASE ~FrontIs(ai) /\ UNCHANGED <<bcv, dataOut>>
    <3>1. ASSUME bcv' = << >> PROVE \E m \in ai' .. NumEquipments : FrontIs(m)'
      <4>1. PICK m \in ai .. NumEquipments : FrontIs(m)
        BY <2>1, <2>3, <3>1 DEF Fronts
      <4>2. m \in ai' .. NumEquipments
        BY <1>0, <2>1, <2>3, <4>1
      <4>3. FrontIs(m)'
        BY <2>1, <2>3, <4>1 DEF FrontIs
      <4> QED BY <4>2, <4>3
    <3> QED BY <2>1, <3>1 DEF Fronts
  <2> QED BY <1>9, <2>2, <2>3 DEF AggTake, Takes, FrontIs
<1>10. CASE AggPush
  BY <1>2, <1>10 DEF AggPush, AggReturn
<1> QED BY <1>3, <1>4, <1>5, <1>6, <1>7, <1>8, <1>9, <1>10 DEF AggregatorThread

(* The blocks it gathers have one id and come from different inputs.        *)
LEMMA AggregatorDelivers ==
    ASSUME Types, Callbacks, Aggregated, AggregatorThread
    PROVE  Gathered' /\ Delivered'
<1> USE Constants
<1>0. ai \in Nat /\ ai \in 1 .. NumEquipments + 1 /\ bcv \in Seq(Block) /\ output \in Seq(Seq(Block))
  BY DEF Types, TypesA, TypesO
<1>1. UNCHANGED <<mpc, bc>>
  BY DEF AggregatorThread, Looping, AggTestFull, AggScan, AggScanned, AggWait, AggCreate,
         AggTake, AggPush, mainVars
<1>2. ASSUME bcv' = << >> PROVE Gathered'
  <2>1. 1 .. Len(bcv') = {}
    BY <1>2, SetOfEmpty
  <2> QED BY <2>1 DEF Gathered
<1>3. ASSUME output' = output PROVE Delivered'
  BY <1>1, <1>3 DEF Aggregated, Delivered
<1>4. CASE Looping(Aggregator)
  BY <1>3, <1>4 DEF Looping, aggregatorVars, scanVars, Aggregated, Gathered
<1>5. CASE AggTestFull \/ AggScan \/ AggScanned \/ AggWait \/ AggCreate
  <2>1. output' = output /\ bcv' = bcv /\ apc # "take"
    BY <1>5 DEF AggTestFull, AggScan, AggScanned, AggWait, AggCreate
  <2> QED BY <1>2, <1>3, <2>1 DEF Callbacks
<1>6. CASE AggTake
  <2>1. ai' = ai + 1 /\ minId' = minId /\ output' = output
    BY <1>6 DEF AggTake, scanVars
  <2>2. CASE Takes
    <3> DEFINE h == Head(dataOut[ai])
               r == Append(bcv, h)
    <3>1. h \in Block /\ h[1] = ai /\ bcv' = r /\ h[2] = minId
      BY <2>2, EffectTake DEF Takes
    <3> HIDE DEF h
    <3>2. /\ Len(r) = Len(bcv) + 1 /\ Len(bcv) \in Nat /\ r[Len(bcv) + 1] = h
          /\ \A i \in 1 .. Len(bcv) : r[i] = bcv[i]
      BY <1>0, <3>1, SetOfAppend, SetOfSeq
    <3> HIDE DEF r
    <3>3. \A i \in 1 .. Len(bcv) : bcv[i][1] \in Nat
      BY <1>0, SetOfSeq DEF Block
    <3>4. \A j \in 1 .. Len(r) : j \in 1 .. Len(bcv) \/ j = Len(bcv) + 1
      BY <3>2
    <3>5. \A j \in 1 .. Len(bcv) : bcv[j][2] = minId /\ bcv[j][1] < ai
      BY DEF Aggregated, Gathered
    <3>6. ASSUME NEW j \in 1 .. Len(r) PROVE r[j][2] = minId /\ r[j][1] < ai + 1
      <4>1. CASE j \in 1 .. Len(bcv)
        BY <1>0, <3>2, <3>3, <3>5, <4>1
      <4>2. CASE j = Len(bcv) + 1
        BY <1>0, <3>1, <3>2, <4>2
      <4> QED BY <3>4, <4>1, <4>2
    <3>7. ASSUME NEW j \in 1 .. Len(r), NEW k \in 1 .. Len(r), j < k PROVE r[j][1] < r[k][1]
      <4>1. j \in 1 .. Len(bcv)
        BY <3>2, <3>7
      <4>2. CASE k \in 1 .. Len(bcv)
        BY <3>2, <3>7, <4>1, <4>2 DEF Aggregated, Gathered
      <4>3. CASE k = Len(bcv) + 1
        BY <3>1, <3>2, <3>5, <4>1, <4>3
      <4> QED BY <3>4, <4>2, <4>3
    <3>8. Gathered'
      BY <2>1, <3>1, <3>6, <3>7 DEF Gathered
    <3> QED BY <1>3, <2>1, <3>8
  <2>3. CASE bcv' = bcv
    <3>1. \A j \in 1 .. Len(bcv) : bcv[j][1] \in Nat
      BY <1>0, SetOfSeq DEF Block
    <3>2. \A j \in 1 .. Len(bcv) : bcv[j][1] < ai + 1
      BY <1>0, <3>1 DEF Aggregated, Gathered
    <3>3. Gathered'
      BY <2>1, <2>3, <3>2 DEF Aggregated, Gathered
    <3> QED BY <1>3, <2>1, <3>3
  <2> QED BY <1>6, <2>2, <2>3 DEF AggTake, Takes
<1>7. CASE AggPush
  <2>1. bcv' = << >> /\ output' = Append(output, bcv)
    BY <1>7, EffectAggPush
  <2>2. bcv # << >>
    BY <1>7, DataSetHasId DEF AggPush
  <2>3. Matching(bcv)
    <3>1. \A j, k \in 1 .. Len(bcv) : bcv[j][2] = bcv[k][2]
      BY DEF Aggregated, Gathered
    <3>2. ASSUME NEW j \in 1 .. Len(bcv), NEW k \in 1 .. Len(bcv), bcv[j][1] = bcv[k][1], j # k
          PROVE  FALSE
      <4>1. j < k \/ k < j
        BY <3>2
      <4>2. bcv[j][1] < bcv[k][1] \/ bcv[k][1] < bcv[j][1]
        BY <4>1 DEF Aggregated, Gathered
      <4>3. bcv[j][1] \in Nat /\ bcv[k][1] \in Nat
        BY <1>0, SetOfSeq DEF Block
      <4> QED BY <3>2, <4>2, <4>3
    <3> QED BY <2>2, <3>1, <3>2 DEF Matching
  <2>4. /\ Len(output') = Len(output) + 1 /\ Len(output) \in Nat /\ output'[Len(output) + 1] = bcv
        /\ \A i \in 1 .. Len(output) : output'[i] = output[i]
    BY <1>0, <2>1, SetOfAppend, SetOfSeq
  <2>5. \A k \in 1 .. Len(output') : k \in 1 .. Len(output) \/ k = Len(output) + 1
    BY <2>4
  <2>6. \A k \in 1 .. Len(output') : Matching(output'[k])
    BY <2>3, <2>4, <2>5 DEF Aggregated, Delivered
  <2>7. Delivered'
    BY <1>1, <2>6 DEF Aggregated, Delivered, Matching
  <2> QED BY <1>2, <2>1, <2>7
<1> QED BY <1>4, <1>5, <1>6, <1>7 DEF AggregatorThread

(* The equipments and main() leave the aggregator's view true.              *)
LEMMA NextAggregated ==
    ASSUME Types, Callbacks, Shutdown, Aggregated, [Next]_vars PROVE Aggregated'
<1> USE Constants
<1>1. ASSUME UNCHANGED <<apc, ai, bcv, allEmpty, minId>>,
             \A m \in Equipments : FrontIs(m) => FrontIs(m)'
      PROVE  Fronts' /\ Gathered'
  <2>1. ai \in 1 .. NumEquipments + 1
    BY DEF Types, TypesA
  <2>2. \A m \in 1 .. ai - 1 : m \in Equipments
    BY <2>1 DEF Equipments
  <2>3. \A m \in ai .. NumEquipments : m \in Equipments
    BY <2>1 DEF Equipments
  <2> QED BY <1>1, <2>2, <2>3 DEF Aggregated, Fronts, Gathered
<1>2. ASSUME output' = output, mpc' = "consume" => mpc = "consume" /\ bc' = bc
      PROVE  Delivered'
  BY <1>2 DEF Aggregated, Delivered, Matching
<1>3. ASSUME NEW e \in Equipments, EquipmentThread(e) PROVE Aggregated'
  <2>1. UNCHANGED <<aggregatorVars, output, mainVars>>
    BY <1>3 DEF EquipmentThread, Looping, EqRateReached, EqTestFull, EqGetPage, EqNoPage, EqPush
  <2>2. UNCHANGED <<apc, ai, bcv, allEmpty, minId, output, mpc, bc>>
    BY <2>1 DEF aggregatorVars, scanVars, mainVars
  <2>3. \A m \in Equipments : FrontIs(m) => FrontIs(m)'
    BY <1>3, <2>2, FrontKept DEF FrontIs
  <2> QED BY <1>1, <1>2, <2>2, <2>3 DEF Aggregated
<1>4. CASE AggregatorThread
  BY <1>4, AggregatorFronts, AggregatorDelivers DEF Aggregated
<1>5. CASE MainThread
  <2>1. UNCHANGED <<apc, ai, bcv, allEmpty, minId>>
    BY <1>5 DEF MainThread, MainStartAgg, MainStartEq, MainLoop, MainStopEq, MainJoinEq, MainPop,
                MainConsume, MainStopAgg, MainJoinAgg, MainClearInputs, MainPopOutput,
                MainStopConsumers, MainClose, aggregatorVars, scanVars
  <2>2. dataOut' = dataOut \/ MainClearInputs \/ MainStopConsumers
    BY <1>5 DEF MainThread, MainStartAgg, MainStartEq, MainLoop, MainStopEq, MainJoinEq, MainPop,
                MainConsume, MainStopAgg, MainJoinAgg, MainClearInputs, MainPopOutput,
                MainStopConsumers, MainClose, equipmentVars
  <2>3. Fronts' /\ Gathered'
    <3>1. CASE dataOut' = dataOut
      BY <1>1, <2>1, <3>1 DEF FrontIs
    <3>2. CASE MainClearInputs \/ MainStopConsumers
      <4>1. mpc \in Cleared
        BY <3>2 DEF MainClearInputs, MainStopConsumers, Cleared
      <4>2. apc' = "test" /\ bcv' = << >>
        BY <2>1, <4>1, NobodyLeft
      <4>3. 1 .. Len(bcv') = {}
        BY <4>2, SetOfEmpty
      <4> QED BY <4>2, <4>3 DEF Fronts, Gathered
    <3> QED BY <2>2, <3>1, <3>2
  <2>4. Delivered'
    <3>1. CASE Pops
      <4>1. output \in Seq(Seq(Block)) /\ output' = Tail(output) /\ bc' = Head(output)
            /\ output # << >>
        BY <3>1, EffectPop DEF Pops
      <4>2. /\ Len(output') = Len(output) - 1 /\ Len(output) \in Nat \ {0} /\ bc' = output[1]
            /\ \A i \in 1 .. Len(output') : output'[i] = output[i + 1]
        BY <4>1, SetOfTail
      <4>3. 1 \in 1 .. Len(output) /\ \A i \in 1 .. Len(output') : i + 1 \in 1 .. Len(output)
        BY <4>2
      <4>4. Matching(bc') /\ \A i \in 1 .. Len(output') : Matching(output'[i])
        BY <4>2, <4>3 DEF Aggregated, Delivered
      <4> QED BY <4>4 DEF Delivered, Matching
    <3>2. CASE output' = << >> /\ mpc' # "consume"
      <4>1. 1 .. Len(output') = {}
        BY <3>2, SetOfEmpty
      <4> QED BY <3>2, <4>1 DEF Delivered
    <3>3. CASE output' = output /\ mpc' # "consume"
      BY <1>2, <3>3
    <3> QED BY <1>5, <3>1, <3>2, <3>3
            DEF MainThread, MainStartAgg, MainStartEq, MainLoop, MainStopEq, MainJoinEq, MainPop,
                MainConsume, MainStopAgg, MainJoinAgg, MainClearInputs, MainPopOutput,
                MainStopConsumers, MainClose, NextEquipment, Pops
  <2> QED BY <2>3, <2>4 DEF Aggregated
<1>6. CASE UNCHANGED vars \/ TimerExpires \/ MainTimeout \/ Signal \/ ConsumerRelease
  <2>1. UNCHANGED <<apc, ai, bcv, allEmpty, minId, dataOut, output, bc>>
    BY <1>6 DEF vars, TimerExpires, MainTimeout, Signal, ConsumerRelease, equipmentVars,
                aggregatorVars, scanVars, mainVars
  <2>2. mpc' = mpc \/ mpc' = "killed"
    BY <1>6 DEF vars, TimerExpires, MainTimeout, Signal, ConsumerRelease, mainVars
  <2>3. Fronts' /\ Gathered'
    BY <1>1, <2>1 DEF FrontIs
  <2> QED BY <1>2, <2>1, <2>2, <2>3 DEF Aggregated
<1> QED BY <1>3, <1>4, <1>5, <1>6 DEF Next

-----------------------------------------------------------------------------
(* An equipment only adds blocks beyond those it gave before.               *)
LEMMA BeyondKept ==
    ASSUME Types, NEW e \in Equipments, EquipmentThread(e), NEW m \in Equipments
    PROVE  \A x \in Int : Beyond(m, x) => Beyond(m, x)'
<1> USE Constants
<1>0. /\ epc \in [Equipments -> {"test", "get", "push"}]
      /\ currentId \in [Equipments -> FirstId - 1 .. LastId] /\ currentId[m] \in Int
      /\ dataOut \in [Equipments -> Seq(Block)]
  <2>1. currentId[m] \in FirstId - 1 .. LastId
    BY DEF Types, TypesE
  <2> QED BY <2>1 DEF Types, TypesE
<1> SUFFICES ASSUME NEW x \in Int, Beyond(m, x) PROVE Beyond(m, x)'
  OBVIOUS
<1>1. ASSUME dataOut'[m] = dataOut[m], currentId' = currentId,
             epc'[m] = "push" => epc[m] = "push"
      PROVE  Beyond(m, x)'
  BY <1>1 DEF Beyond
<1>2. CASE Looping(e)
  BY <1>1, <1>2 DEF Looping, equipmentVars
<1>3. CASE EqRateReached(e) \/ EqNoPage(e) \/ EqTestFull(e)
  BY <1>0, <1>1, <1>3 DEF EqRateReached, EqNoPage, EqTestFull, EqReturn
<1>4. CASE EqGetPage(e)
  <2>1. dataOut' = dataOut
    BY <1>4, EffectGetPage
  <2>2. PICK id \in Id : id > currentId[e] /\ currentId' = [currentId EXCEPT ![e] = id]
    BY <1>4, EffectGetPage
  <2>3. CASE m = e
    <3>1. currentId'[m] = id /\ id \in Int
      BY <1>0, <2>2, <2>3
    <3>2. currentId[m] >= x
      BY DEF Beyond
    <3>3. currentId'[m] > x /\ currentId'[m] >= x
      BY <1>0, <2>2, <2>3, <3>1, <3>2
    <3> QED BY <2>1, <3>3 DEF Beyond
  <2>4. CASE m # e
    <3>1. currentId'[m] = currentId[m] /\ epc'[m] = epc[m]
      BY <1>0, <1>4, <2>2, <2>4 DEF EqGetPage
    <3> QED BY <2>1, <3>1 DEF Beyond
  <2> QED BY <2>3, <2>4
<1>5. CASE EqPush(e)
  <2> DEFINE b == <<e, currentId[e]>>
  <2>1. /\ currentId' = currentId /\ epc[e] = "push" /\ epc' = [epc EXCEPT ![e] = "test"]
        /\ \/ dataOut' = dataOut
           \/ dataOut' = [dataOut EXCEPT ![e] = Append(@, b)]
    BY <1>5 DEF EqPush, EqReturn
  <2>2. CASE dataOut'[m] = dataOut[m]
    BY <1>0, <1>1, <2>1, <2>2
  <2>3. CASE m = e /\ dataOut' = [dataOut EXCEPT ![e] = Append(@, b)]
    <3>1. b \in Block /\ b[2] = currentId[m] /\ dataOut[m] \in Seq(Block)
      BY <1>0, <2>1, <2>3 DEF Types, TypesE, Block
    <3> HIDE DEF b
    <3>2. dataOut'[m] = Append(dataOut[m], b)
      BY <1>0, <2>3
    <3>3. /\ Len(dataOut'[m]) = Len(dataOut[m]) + 1 /\ Len(dataOut[m]) \in Nat
          /\ dataOut'[m][Len(dataOut[m]) + 1] = b
          /\ \A i \in 1 .. Len(dataOut[m]) : dataOut'[m][i] = dataOut[m][i]
      BY <3>1, <3>2, SetOfAppend, SetOfSeq
    <3>4. \A i \in 1 .. Len(dataOut'[m]) : i \in 1 .. Len(dataOut[m]) \/ i = Len(dataOut[m]) + 1
      BY <3>3
    <3>5. currentId[m] > x
      BY <2>1, <2>3 DEF Beyond
    <3>6. \A i \in 1 .. Len(dataOut'[m]) : dataOut'[m][i][2] > x
      BY <3>1, <3>3, <3>4, <3>5 DEF Beyond
    <3> QED BY <2>1, <3>5, <3>6 DEF Beyond
  <2> QED BY <1>0, <2>1, <2>2, <2>3
<1> QED BY <1>2, <1>3, <1>4, <1>5 DEF EquipmentThread

(* When the aggregator has looked at input ai, with a block there that is    *)
(* not older than the data set, nothing of the data set is left behind it.  *)
LEMMA TakenBeyond ==
    ASSUME Types, InLine, Accounted, AggTake, NEW m \in Equipments, m = ai, FrontFrom(m)
    PROVE  Beyond(m, minId)'
<1> USE Constants
<1> DEFINE q == dataOut[m]
           h == Head(q)
           c == currentId[m]
<1>0. /\ dataOut \in [Equipments -> Seq(Block)] /\ q \in Seq(Block)
      /\ q # << >> /\ h[2] >= minId /\ minId \in Nat /\ minId' = minId /\ OnlyOf(m, q)
      /\ UNCHANGED <<epc, currentId>>
  <2>1. minId' = minId /\ UNCHANGED <<epc, currentId>>
    BY DEF AggTake, scanVars
  <2>2. q # << >> /\ h[2] >= minId
    BY DEF FrontFrom
  <2>3. minId \in Nat
    BY DEF Types, TypesA
  <2> QED BY <2>1, <2>2, <2>3 DEF Types, TypesE
<1>1. c \in Int
  <2>1. c \in FirstId - 1 .. LastId
    BY <1>0 DEF Types, TypesE
  <2> QED BY <2>1
<1>2. Len(q) \in Nat \ {0} /\ h = q[1] /\ \A i \in 1 .. Len(q) : q[i] \in Block
  BY <1>0, SetOfTail, SetOfSeq
<1>3. \A i \in 1 .. Len(q) : q[i] \in Inputs /\ q[i][1] = m /\ q[i][2] \in Nat
  <2>1. \A i \in 1 .. Len(q) : q[i] \in ToSet(q)
    BY <1>0, SetOfSeq
  <2> QED BY <1>0, <1>2, <2>1 DEF Inputs, OnlyOf, Block
<1>4. \A i, j \in 1 .. Len(q) : i < j => q[i][2] < q[j][2]
  BY <1>0 DEF InLine, SortedQueues
<1>5. c >= h[2]
  <2>1. Inputs \subseteq given
    BY Stages DEF Accounted
  <2>2. 1 \in 1 .. Len(q)
    BY <1>2
  <2>3. h \in given /\ h[1] = m
    BY <1>2, <1>3, <2>1, <2>2
  <2>4. h[2] <= currentId[h[1]]
    BY <2>3 DEF InLine
  <2> QED BY <1>1, <1>2, <1>3, <2>2, <2>3, <2>4
<1>6. epc[m] = "push" => c > h[2]
  <2> SUFFICES ASSUME epc[m] = "push" PROVE h[2] < c
    BY <1>1, <1>2, <1>3
  <2>1. Before(Inputs, InHand)
    BY DEF InLine, Line, Lined, Before
  <2>2. <<m, c>> \in InHand /\ <<m, c>>[1] = m /\ <<m, c>>[2] = c
    BY <1>0 DEF InHand
  <2>3. h \in Inputs /\ h[1] = m
    <3>1. 1 \in 1 .. Len(q)
      BY <1>2
    <3> QED BY <1>2, <1>3, <3>1
  <2> HIDE DEF h, q, c
  <2> QED BY <2>1, <2>2, <2>3 DEF Before
<1>7. h[2] \in Nat
  BY <1>2, <1>3
<1>8. CASE h[2] = minId
  <2>1. Takes
    BY <1>0, <1>8 DEF Takes
  <2>2. dataOut'[m] = Tail(q)
    <3>1. dataOut' = [dataOut EXCEPT ![m] = Tail(@)]
      BY <2>1, EffectTake
    <3> QED BY <1>0, <3>1
  <2>3. /\ Len(dataOut'[m]) = Len(q) - 1
        /\ \A i \in 1 .. Len(dataOut'[m]) : dataOut'[m][i] = q[i + 1]
    BY <1>0, <2>2, SetOfTail
  <2> HIDE DEF h, q, c
  <2>4. \A i \in 1 .. Len(dataOut'[m]) : 1 \in 1 .. Len(q) /\ i + 1 \in 1 .. Len(q) /\ 1 < i + 1
    BY <1>2, <2>3
  <2>5. \A i \in 1 .. Len(dataOut'[m]) : minId < dataOut'[m][i][2]
    BY <1>2, <1>4, <1>8, <2>3, <2>4
  <2>6. \A i \in 1 .. Len(dataOut'[m]) : dataOut'[m][i][2] \in Nat
    BY <1>3, <2>3, <2>4
  <2>7. \A i \in 1 .. Len(dataOut'[m]) : dataOut'[m][i][2] > minId
    BY <1>0, <2>5, <2>6
  <2>8. c >= minId /\ (epc[m] = "push" => c > minId)
    BY <1>5, <1>6, <1>8
  <2> QED BY <1>0, <2>7, <2>8 DEF Beyond, c
<1>9. CASE h[2] # minId
  <2>1. dataOut' = dataOut
    BY <1>9 DEF AggTake
  <2>2. h[2] > minId
    BY <1>0, <1>7, <1>9
  <2>3. c > minId /\ c >= minId
    BY <1>0, <1>1, <1>5, <1>7, <2>2
  <2>4. ASSUME NEW i \in 1 .. Len(q) PROVE q[i][2] > minId
    <3>1. i = 1 \/ (1 \in 1 .. Len(q) /\ 1 < i)
      BY <1>2
    <3>2. CASE i = 1
      BY <1>2, <2>2, <3>2
    <3>3. CASE 1 \in 1 .. Len(q) /\ 1 < i
      <4>1. h[2] < q[i][2] /\ q[i][2] \in Nat
        BY <1>2, <1>3, <1>4, <3>3
      <4> QED BY <1>0, <1>7, <2>2, <4>1
    <3> QED BY <3>1, <3>2, <3>3
  <2> QED BY <1>0, <2>1, <2>3, <2>4 DEF Beyond
<1> QED BY <1>8, <1>9

(* Taking a block leaves nothing new at an input.                           *)
LEMMA TakeKeepsBeyond ==
    ASSUME Types, AggTake, NEW m \in Equipments
    PROVE  /\ \A x \in Int : Beyond(m, x) => Beyond(m, x)'
           /\ m # ai => dataOut'[m] = dataOut[m]
<1> USE Constants
<1>0. UNCHANGED <<epc, currentId>> /\ dataOut \in [Equipments -> Seq(Block)]
  BY DEF AggTake, Types, TypesE
<1>1. CASE dataOut' = dataOut
  BY <1>0, <1>1 DEF Beyond
<1>2. CASE Takes
  <2>1. /\ ai \in Equipments /\ dataOut[ai] \in Seq(Block) /\ dataOut[ai] # << >>
        /\ dataOut' = [dataOut EXCEPT ![ai] = Tail(@)]
    BY <1>2, EffectTake
  <2>2. CASE m = ai
    <3>1. dataOut'[m] = Tail(dataOut[m])
      BY <1>0, <2>1, <2>2
    <3>2. dataOut[m] \in Seq(Block) /\ dataOut[m] # << >>
      BY <2>1, <2>2
    <3>4. /\ Len(dataOut'[m]) = Len(dataOut[m]) - 1 /\ Len(dataOut[m]) \in Nat \ {0}
          /\ \A i \in 1 .. Len(dataOut'[m]) : dataOut'[m][i] = dataOut[m][i + 1]
      BY <3>1, <3>2, SetOfTail
    <3>3. \A i \in 1 .. Len(dataOut'[m]) : i + 1 \in 1 .. Len(dataOut[m])
      BY <3>4
    <3> QED BY <1>0, <2>2, <3>3, <3>4 DEF Beyond
  <2>3. CASE m # ai
    <3>1. dataOut'[m] = dataOut[m]
      BY <1>0, <2>1, <2>3
    <3> QED BY <1>0, <3>1 DEF Beyond
  <2> QED BY <2>2, <2>3
<1> QED BY <1>1, <1>2 DEF AggTake, Takes

(* Without timeouts nothing of a data set is left behind it.                *)
LEMMA NextComplete ==
    ASSUME FirstId # 0, Types, Callbacks, Shutdown, InLine, Accounted, Complete, [Next]_vars
    PROVE  Complete'
<1> USE Constants
<1>0. /\ ai \in 1 .. NumEquipments + 1 /\ ai \in Nat /\ minId \in Nat /\ lastOut \in Int
      /\ someEmpty \in BOOLEAN
      /\ dataOut \in [Equipments -> Seq(Block)]
      /\ (\A m \in 1 .. ai - 1 : m \in Equipments) /\ (\A m \in ai .. NumEquipments : m \in Equipments)
  <2>1. /\ ai \in 1 .. NumEquipments + 1 /\ minId \in Id \cup {0} /\ lastOut \in FirstId - 1 .. LastId
        /\ someEmpty \in BOOLEAN
    BY DEF Types, TypesA
  <2>2. (\A m \in 1 .. ai - 1 : m \in Equipments) /\ (\A m \in ai .. NumEquipments : m \in Equipments)
    BY <2>1 DEF Equipments
  <2>3. ai \in Nat /\ lastOut \in Int
    BY <2>1
  <2> QED BY <2>1, <2>2, <2>3 DEF Types, TypesE
<1>1. ASSUME UNCHANGED <<apc, ai, someEmpty, minId, everExpired, lastOut>>,
             \A m \in Equipments : /\ FrontFrom(m) => FrontFrom(m)'
                                   /\ Beyond(m, lastOut) => Beyond(m, lastOut)'
                                   /\ Beyond(m, minId) => Beyond(m, minId)'
      PROVE  Complete'
  BY <1>0, <1>1 DEF Complete
<1>2. ASSUME UNCHANGED <<lastOut, epc, currentId, dataOut>>, everExpired => everExpired'
      PROVE  ~everExpired' => \A e \in Equipments : Beyond(e, lastOut)'
  BY <1>2 DEF Complete, Beyond
<1>3. ASSUME UNCHANGED <<lastOut, epc, currentId, dataOut>>, everExpired => everExpired',
             apc' \notin {"scan", "create", "take"}
      PROVE  Complete'
  BY <1>2, <1>3 DEF Complete
<1>4. ASSUME NEW e \in Equipments, EquipmentThread(e) PROVE Complete'
  <2>1. UNCHANGED aggregatorVars
    BY <1>4 DEF EquipmentThread, Looping, EqRateReached, EqTestFull, EqGetPage, EqNoPage, EqPush
  <2>2. UNCHANGED <<apc, ai, someEmpty, minId, everExpired, lastOut>>
    BY <2>1 DEF aggregatorVars, scanVars
  <2>3. \A m \in Equipments : FrontFrom(m) => FrontFrom(m)'
    BY <1>4, <2>2, FrontKept DEF FrontFrom
  <2>4. ASSUME NEW m \in Equipments
        PROVE  /\ Beyond(m, lastOut) => Beyond(m, lastOut)'
               /\ Beyond(m, minId) => Beyond(m, minId)'
    <3>1. \A x \in Int : Beyond(m, x) => Beyond(m, x)'
      BY <1>4, BeyondKept
    <3> QED BY <1>0, <2>2, <3>1 DEF Beyond
  <2> QED BY <1>1, <2>2, <2>3, <2>4
<1>5. CASE AggregatorThread
  <2>1. CASE Looping(Aggregator)
    <3>1. UNCHANGED <<apc, ai, someEmpty, minId, everExpired, lastOut, epc, currentId, dataOut>>
      BY <2>1 DEF Looping, aggregatorVars, scanVars, equipmentVars
    <3> QED BY <1>1, <3>1 DEF FrontFrom, Beyond
  <2>2. CASE AggTestFull
    <3>1. UNCHANGED <<lastOut, epc, currentId, dataOut, everExpired>>
      BY <2>2 DEF AggTestFull, equipmentVars
    <3>2. CASE apc' = "scan" /\ ai' = 1
      <4>1. 1 .. ai' - 1 = {}
        BY <3>2
      <4> QED BY <1>2, <3>1, <3>2, <4>1 DEF Complete
    <3> QED BY <1>3, <2>2, <3>1, <3>2 DEF AggTestFull, AggReturn, FreshLocals
  <2>3. CASE AggScan
    <3>1. /\ UNCHANGED <<lastOut, epc, currentId, dataOut, everExpired>>
          /\ apc = "scan" /\ apc' = "scan" /\ ai <= NumEquipments /\ ai' = ai + 1
      BY <2>3 DEF AggScan, equipmentVars
    <3>2. ~everExpired' => \A e \in Equipments : Beyond(e, lastOut)'
      BY <1>2, <3>1
    <3>3. CASE dataOut[ai] = << >>
      <4>1. someEmpty' = TRUE
        BY <2>3, <3>3 DEF AggScan
      <4> QED BY <3>1, <3>2, <4>1 DEF Complete
    <3>4. CASE dataOut[ai] # << >> /\ ~someEmpty
      <4> DEFINE n == Head(dataOut[ai])[2]
      <4>1. ai \in Equipments /\ 1 .. ai' - 1 = (1 .. ai - 1) \cup {ai}
        BY <1>0, <3>1 DEF Equipments
      <4>2. n \in Id
        BY <1>0, <3>4, <4>1, SetOfTail DEF Block
      <4>3. n \in Nat /\ n # 0
        BY <4>2 DEF Id
      <4>4. minId' = IF minId = 0 \/ n < minId THEN n ELSE minId
        BY <2>3, <3>4 DEF AggScan
      <4>5. ASSUME NEW m \in 1 .. ai - 1 PROVE minId' # 0 /\ FrontFrom(m)'
        <5>1. minId # 0 /\ dataOut[m] # << >> /\ Head(dataOut[m])[2] >= minId
          BY <3>1, <3>4 DEF Complete, FrontFrom
        <5>2. Head(dataOut[m])[2] \in Nat
          <6>1. dataOut[m] \in Seq(Block)
            BY <1>0
          <6>2. Head(dataOut[m]) \in Block
            BY <5>1, <6>1, SetOfTail
          <6> QED BY <6>2 DEF Block
        <5>3. minId' # 0 /\ Head(dataOut[m])[2] >= minId'
          BY <1>0, <4>3, <4>4, <5>1, <5>2
        <5> QED BY <3>1, <5>1, <5>3 DEF FrontFrom
      <4>6. minId' # 0 /\ n >= minId'
        BY <1>0, <4>3, <4>4
      <4>7. \A m \in 1 .. ai' - 1 : minId' # 0 /\ FrontFrom(m)'
        BY <3>1, <3>4, <4>1, <4>5, <4>6 DEF FrontFrom
      <4> QED BY <3>1, <3>2, <4>7 DEF Complete
    <3>5. CASE dataOut[ai] # << >> /\ someEmpty
      <4>1. someEmpty'
        BY <2>3, <3>5 DEF AggScan
      <4> QED BY <3>1, <3>2, <4>1 DEF Complete
    <3> QED BY <3>3, <3>4, <3>5
  <2>4. CASE AggScanned
    <3>1. /\ UNCHANGED <<lastOut, epc, currentId, dataOut, everExpired>>
          /\ apc = "scan" /\ ai > NumEquipments
      BY <2>4 DEF AggScanned, equipmentVars
    <3>2. CASE ~someEmpty /\ apc' = "create" /\ UNCHANGED scanVars
      <4>1. 1 .. ai - 1 = Equipments
        BY <1>0, <3>1 DEF Equipments
      <4>2. \A m \in Equipments : FrontFrom(m)'
        BY <3>1, <3>2, <4>1 DEF Complete, FrontFrom, scanVars
      <4> QED BY <1>2, <3>1, <3>2, <4>2 DEF Complete
    <3> QED BY <1>3, <2>4, <3>1, <3>2 DEF AggScanned, AggReturn
  <2>5. CASE AggWait
    <3>1. UNCHANGED <<lastOut, epc, currentId, dataOut>> /\ (everExpired => everExpired')
      BY <2>5 DEF AggWait, equipmentVars
    <3>2. CASE apc' = "create" /\ everExpired' = TRUE
      BY <3>2 DEF Complete
    <3> QED BY <1>3, <2>5, <3>1, <3>2 DEF AggWait, AggReturn
  <2>6. CASE AggCreate
    <3>1. UNCHANGED <<lastOut, epc, currentId, dataOut, everExpired>> /\ apc = "create"
      BY <2>6 DEF AggCreate, equipmentVars
    <3>2. CASE apc' = "take" /\ ai' = 1 /\ UNCHANGED scanVars
      <4>1. ai' .. NumEquipments = Equipments /\ 1 .. ai' - 1 = {}
        BY <3>2 DEF Equipments
      <4>2. ~everExpired' => \A m \in Equipments : FrontFrom(m)'
        BY <3>1, <3>2 DEF Complete, FrontFrom, scanVars
      <4> QED BY <1>2, <3>1, <3>2, <4>1, <4>2 DEF Complete
    <3> QED BY <1>3, <2>6, <3>1, <3>2 DEF AggCreate, AggReturn
  <2>7. CASE AggTake
    <3>1. /\ UNCHANGED <<lastOut, everExpired, minId>>
          /\ apc = "take" /\ apc' = "take" /\ ai' = ai + 1 /\ ai <= NumEquipments
      BY <2>7 DEF AggTake, scanVars
    <3> SUFFICES ASSUME ~everExpired'
                 PROVE  /\ \A e \in Equipments : Beyond(e, lastOut)'
                        /\ \A m \in ai' .. NumEquipments : FrontFrom(m)'
                        /\ \A m \in 1 .. ai' - 1 : Beyond(m, minId)'
      BY <3>1 DEF Complete
    <3>2. /\ \A e \in Equipments : Beyond(e, lastOut)
          /\ \A m \in ai .. NumEquipments : FrontFrom(m)
          /\ \A m \in 1 .. ai - 1 : Beyond(m, minId)
      BY <3>1 DEF Complete
    <3>3. \A e \in Equipments : Beyond(e, lastOut)'
      <4>1. \A e \in Equipments : \A x \in Int : Beyond(e, x) => Beyond(e, x)'
        BY <2>7, TakeKeepsBeyond
      <4> QED BY <1>0, <3>1, <3>2, <4>1 DEF Beyond
    <3>4. ASSUME NEW m \in ai' .. NumEquipments PROVE FrontFrom(m)'
      <4>1. m \in ai .. NumEquipments /\ m # ai
        BY <1>0, <3>1
      <4>2. dataOut'[m] = dataOut[m]
        BY <1>0, <2>7, <4>1, TakeKeepsBeyond
      <4> QED BY <3>1, <3>2, <4>1, <4>2 DEF FrontFrom
    <3>5. ASSUME NEW m \in 1 .. ai' - 1 PROVE Beyond(m, minId)'
      <4>1. m \in Equipments /\ (m = ai \/ m \in 1 .. ai - 1)
        BY <1>0, <3>1 DEF Equipments
      <4>2. CASE m = ai
        <5>1. FrontFrom(m)
          BY <1>0, <3>1, <3>2, <4>2
        <5> QED BY <2>7, <4>1, <4>2, <5>1, TakenBeyond DEF Beyond
      <4>3. CASE m \in 1 .. ai - 1
        <5>1. \A x \in Int : Beyond(m, x) => Beyond(m, x)'
          BY <2>7, <4>1, TakeKeepsBeyond
        <5>2. Beyond(m, minId) /\ minId \in Int /\ minId' = minId
          BY <1>0, <3>1, <3>2, <4>3
        <5> QED BY <5>1, <5>2 DEF Beyond
      <4> QED BY <4>1, <4>2, <4>3
    <3> QED BY <3>3, <3>4, <3>5
  <2>8. CASE AggPush
    <3>1. /\ UNCHANGED <<epc, currentId, dataOut, everExpired>> /\ lastOut' = minId
          /\ apc = "take" /\ apc' = "test" /\ ai > NumEquipments
      BY <2>8 DEF AggPush, AggReturn
    <3>2. 1 .. ai - 1 = Equipments
      BY <1>0, <3>1 DEF Equipments
    <3>3. ~everExpired' => \A e \in Equipments : Beyond(e, lastOut)'
      BY <3>1, <3>2 DEF Complete, Beyond
    <3> QED BY <3>1, <3>3 DEF Complete
  <2> QED BY <1>5, <2>1, <2>2, <2>3, <2>4, <2>5, <2>6, <2>7, <2>8 DEF AggregatorThread
<1>6. CASE MainThread
  <2>1. UNCHANGED <<apc, ai, someEmpty, minId, everExpired, lastOut, epc, currentId>>
    BY <1>6 DEF MainThread, MainStartAgg, MainStartEq, MainLoop, MainStopEq, MainJoinEq, MainPop,
                MainConsume, MainStopAgg, MainJoinAgg, MainClearInputs, MainPopOutput,
                MainStopConsumers, MainClose, aggregatorVars, scanVars, equipmentVars
  <2>2. dataOut' = dataOut \/ MainClearInputs \/ MainStopConsumers
    BY <1>6 DEF MainThread, MainStartAgg, MainStartEq, MainLoop, MainStopEq, MainJoinEq, MainPop,
                MainConsume, MainStopAgg, MainJoinAgg, MainClearInputs, MainPopOutput,
                MainStopConsumers, MainClose, equipmentVars
  <2>3. CASE dataOut' = dataOut
    BY <1>1, <2>1, <2>3 DEF FrontFrom, Beyond
  <2>4. CASE MainClearInputs \/ MainStopConsumers
    <3>1. mpc \in Cleared /\ dataOut' = [e \in Equipments |-> << >>]
      BY <2>4 DEF MainClearInputs, MainStopConsumers, Cleared
    <3>2. apc' = "test"
      BY <2>1, <3>1, NobodyLeft
    <3>3. \A e \in Equipments : 1 .. Len(dataOut'[e]) = {}
      BY <3>1, SetOfEmpty
    <3>4. ~everExpired' => \A e \in Equipments : Beyond(e, lastOut)'
      BY <2>1, <3>3 DEF Complete, Beyond
    <3> QED BY <3>2, <3>4 DEF Complete
  <2> QED BY <2>2, <2>3, <2>4
<1>7. CASE UNCHANGED vars \/ TimerExpires \/ MainTimeout \/ Signal \/ ConsumerRelease
  <2>1. UNCHANGED <<apc, ai, someEmpty, minId, everExpired, lastOut, epc, currentId, dataOut>>
    BY <1>7 DEF vars, TimerExpires, MainTimeout, Signal, ConsumerRelease, equipmentVars,
                aggregatorVars, scanVars, mainVars
  <2> QED BY <1>1, <2>1 DEF FrontFrom, Beyond
<1> QED BY <1>4, <1>5, <1>6, <1>7 DEF Next

-----------------------------------------------------------------------------
Invariant == Types /\ Callbacks /\ Shutdown /\ InLine /\ Accounted /\ Aggregated

(* Nothing is anywhere in the beginning.                                    *)
LEMMA InitInvariant == Init => Invariant /\ Complete
<1> SUFFICES ASSUME Init PROVE Invariant /\ Complete
  OBVIOUS
<1> USE Constants
<1>1. Types
  BY InitTypes
<1>2. /\ dataOut = [e \in Equipments |-> << >>] /\ output = << >> /\ bcv = << >> /\ bc = << >>
      /\ consumed = {} /\ given = {} /\ discarded = {} /\ held = {}
      /\ pages = [e \in Equipments |-> {}] /\ epc = [e \in Equipments |-> "test"]
      /\ apc = "test" /\ mpc = "startAgg" /\ mi = 1 /\ isRunning = TRUE
      /\ tpc = [t \in ThreadIds |-> "none"]
      /\ currentId = [e \in Equipments |-> FirstId - 1] /\ lastOut = FirstId - 1
  BY DEF Init, ThreadInit
<1>3. /\ Len(<< >>) = 0 /\ ToSet(<< >>) = {} /\ Blocks(<< >>) = {} /\ 1 .. Len(<< >>) = {}
  BY SetOfEmpty, BlocksEmpty
<1>4. Inputs = {} /\ InHand = {} /\ Outputs = {} /\ Taken = {} /\ ToSet(bcv) = {} /\ ToSet(bc) = {}
  BY <1>2, <1>3 DEF Inputs, InHand, Outputs, Taken
<1>5. Callbacks
  BY <1>2 DEF Callbacks
<1>6. Shutdown
  BY <1>2 DEF Shutdown, Stopping, Cleared
<1>7. InLine
  BY <1>2, <1>3, <1>4 DEF InLine, SortedQueues, Line, Lined, Before
<1>8. InPipeline = {}
  BY <1>4, Stages
<1>9. Accounted
  BY <1>2, <1>4, <1>8 DEF Accounted
<1>10. Aggregated
  BY <1>2, <1>3 DEF Aggregated, Fronts, Gathered, Delivered
<1>11. Complete
  BY <1>2, <1>3 DEF Complete, Beyond
<1> QED BY <1>1, <1>5, <1>6, <1>7, <1>9, <1>10, <1>11 DEF Invariant

(* The invariant is inductive.                                              *)
LEMMA NextInvariant == Invariant /\ [Next]_vars => Invariant'
<1> SUFFICES ASSUME Invariant, [Next]_vars PROVE Invariant'
  OBVIOUS
<1>1. Types /\ Callbacks /\ Shutdown /\ InLine /\ Accounted /\ Aggregated
  BY DEF Invariant
<1>2. Types'
  BY <1>1, NextTypes
<1>3. Callbacks' /\ Shutdown'
  BY <1>1, <1>2, NextCallbacks, NextShutdown
<1>4. InLine' /\ Accounted' /\ Aggregated'
  BY <1>1, NextInLine, NextAccounted, NextAggregated
<1> QED BY <1>2, <1>3, <1>4 DEF Invariant

(* It holds in every state of the readout.                                  *)
LEMMA SpecInvariant == Spec => []Invariant
  BY InitInvariant, NextInvariant, PTL DEF Spec

(* Every block an equipment filled is on its way, was consumed once, or was  *)
(* thrown away by the shutdown: the answers of push() that threadCallback()  *)
(* and populateFifoOut() ignore are never a refusal.                        *)
THEOREM SpecNoBlockLost == Spec => []NoBlockLost
<1>1. Invariant => NoBlockLost
  <2> SUFFICES ASSUME Invariant PROVE NoBlockLost
    OBVIOUS
  <2>1. consumed \cap InPipeline = {}
    BY Apart DEF Invariant
  <2> QED BY <2>1 DEF Invariant, Accounted, NoBlockLost
<1> QED BY <1>1, SpecInvariant, PTL

(* main() clears the FIFOs and deletes the equipments only when every thread *)
(* is joined, and then every page is back in its pool.                      *)
THEOREM SpecTornDownInOrder == Spec => []TornDownInOrder
<1>1. Invariant => TornDownInOrder
  <2> SUFFICES ASSUME Invariant PROVE TornDownInOrder
    OBVIOUS
  <2>1. TypeOK
    BY TypesAreTypeOK DEF Invariant
  <2>2. ClearedAlone
    BY NobodyLeft DEF Invariant, ClearedAlone, Cleared
  <2>3. Taken = InPipeline \cup held
    BY DEF Invariant, Accounted
  <2>4. mpc \in {"close", "done"} => \A e \in Equipments : pages[e] = {}
    <3> SUFFICES ASSUME mpc \in {"close", "done"} PROVE \A e \in Equipments : pages[e] = {}
      OBVIOUS
    <3>1. Taken = {}
      BY <2>3 DEF Invariant, Accounted
    <3> QED BY <3>1 DEF Taken
  <2>5. PagesFollowBlocks
    BY <2>3, <2>4 DEF PagesFollowBlocks, Taken
  <2> QED BY <2>1, <2>2, <2>5 DEF TornDownInOrder
<1> QED BY <1>1, SpecInvariant, PTL

(* The consumers see the blocks of an equipment in the order it filled them, *)
(* whether data sets timed out or not.                                      *)
THEOREM SpecOrderKept == Spec => OrderKept
<1> DEFINE A == \A b \in consumed' \ consumed, c \in consumed : b[1] = c[1] => b[2] > c[2]
<1>1. Invariant /\ [Next]_vars => [A]_vars
  <2> SUFFICES ASSUME Invariant, [Next]_vars PROVE A
    OBVIOUS
  <2>1. CASE MainConsume
    <3>1. consumed' \ consumed \subseteq ToSet(bc)
      BY <2>1, EffectConsume
    <3>2. Before(consumed, ToSet(bc))
      BY DEF Invariant, InLine, Line, Lined
    <3>3. ToSet(bc) \subseteq Block /\ consumed \subseteq Block
      BY SetOfSeq DEF Invariant, Types, TypesM
    <3>4. \A b \in Block : b[2] \in Nat
      BY Constants DEF Block
    <3>5. ASSUME NEW b \in consumed' \ consumed, NEW c \in consumed, b[1] = c[1] PROVE b[2] > c[2]
      <4>1. c[2] < b[2]
        BY <3>1, <3>2, <3>5 DEF Before
      <4>2. b[2] \in Nat /\ c[2] \in Nat
        BY <3>1, <3>3, <3>4
      <4> QED BY <4>1, <4>2
    <3> QED BY <3>5
  <2>2. CASE consumed' = consumed
    BY <2>2
  <2>3. MainConsume \/ consumed' = consumed
    <3>1. Types /\ Callbacks /\ Shutdown
      BY DEF Invariant
    <3> QED BY <3>1, DataStep, EffectGetPage, EffectPush, EffectTake, EffectAggPush, EffectPop,
               EffectClear, EffectRelease DEF Quiet
  <2> QED BY <2>1, <2>2, <2>3
<1> QED BY <1>1, SpecInvariant, PTL DEF Spec, OrderKept

(* As long as no data set timed out, the data sets are made of all the       *)
(* blocks of their id and of no other; with FirstId = 0 the aggregator takes *)
(* the first id for an undefined one, and this is false.                    *)
THEOREM SpecDataSetsComplete ==
    ASSUME FirstId # 0 PROVE Spec => []DataSetsComplete
<1>1. Invariant /\ Complete /\ [Next]_vars => Complete'
  BY NextComplete DEF Invariant
<1>2. Invariant /\ Complete => DataSetsComplete
  <2> SUFFICES ASSUME Invariant, Complete PROVE DataSetsComplete
    OBVIOUS
  <2>1. \A ds \in ToSet(output) : Matching(ds)
    <3>1. ToSet(output) = {output[k] : k \in 1 .. Len(output)}
      BY SetOfSeq DEF Invariant, Types, TypesO
    <3> QED BY <3>1 DEF Invariant, Aggregated, Delivered
  <2>2. mpc = "consume" => Matching(bc)
    BY DEF Invariant, Aggregated, Delivered
  <2>3. DataSetsMatch
    BY <2>1, <2>2 DEF DataSetsMatch, Matching
  <2>4. MatchingBlocksTogether
    <3>1. \A e \in Equipments : ToSet(dataOut[e]) = {dataOut[e][i] : i \in 1 .. Len(dataOut[e])}
      BY SetOfSeq DEF Invariant, Types, TypesE
    <3> QED BY <3>1 DEF MatchingBlocksTogether, Complete, Beyond
  <2> QED BY <2>3, <2>4 DEF DataSetsComplete
<1>3. Spec => []Complete
  BY <1>1, InitInvariant, SpecInvariant, PTL DEF Spec
<1> QED BY <1>2, <1>3, SpecInvariant, PTL
=============================================================================
