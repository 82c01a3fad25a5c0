----------------------------- MODULE CruProofs ------------------------------
(***************************************************************************)
(* Proofs about the driver of the CRU, for any number of links and         *)
(* superpages and any size of the queues.                                  *)
(***************************************************************************)
EXTENDS CruDmaChannel, SequenceFacts

\* The counter n is p steps ahead of c, also when it has wrapped since.
Ahead(n, c, p) == n - c = p \/ n + CounterRange - c = p

(* The next value of a counter.                                             *)
LEMMA CounterNext ==
    ASSUME NEW n \in Counter
    PROVE  /\ (n + 1) % CounterRange = IF n = CounterRange - 1 THEN 0 ELSE n + 1
           /\ (n + 1) % CounterRange \in Counter
<1>1. n \in Nat /\ n < CounterRange /\ CounterRange \in Nat \ {0}
  BY CruAssumption DEF Counter
<1>2. CASE n = CounterRange - 1
  <2>1. n + 1 = CounterRange /\ CounterRange % CounterRange = 0
    BY <1>1, <1>2
  <2> QED BY <1>1, <1>2, <2>1 DEF Counter
<1>3. CASE n # CounterRange - 1
  <2>1. n + 1 \in 0 .. CounterRange - 1
    BY <1>1, <1>3
  <2> QED BY <1>1, <1>3, <2>1 DEF Counter
<1> QED BY <1>2, <1>3

(* A step of either of the counters.                                        *)
LEMMA AheadNext ==
    ASSUME NEW n \in Counter, NEW c \in Counter, NEW p \in Nat, Ahead(n, c, p)
    PROVE  /\ p < CounterRange => Ahead((n + 1) % CounterRange, c, p + 1)
           /\ p > 0 => Ahead(n, (c + 1) % CounterRange, p - 1)
           /\ n > c /\ p < CounterRange => n - c = p
<1>1. n \in Nat /\ c \in Nat /\ n < CounterRange /\ c < CounterRange /\ CounterRange \in Nat
  BY CruAssumption DEF Counter
<1> DEFINE nn == (n + 1) % CounterRange
           cc == (c + 1) % CounterRange
<1>2. nn = IF n = CounterRange - 1 THEN 0 ELSE n + 1
  BY CounterNext
<1>3. cc = IF c = CounterRange - 1 THEN 0 ELSE c + 1
  BY CounterNext
<1> HIDE DEF nn, cc
<1>4. p < CounterRange => Ahead(nn, c, p + 1)
  BY <1>1, <1>2 DEF Ahead
<1>5. p > 0 => Ahead(n, cc, p - 1)
  BY <1>1, <1>3 DEF Ahead
<1> QED BY <1>1, <1>4, <1>5 DEF Ahead, nn, cc

(***************************************************************************)
(* One link: the queue q of the driver, the descriptors d of the firmware, *)
(* its counter n and the driver's c, and the superpages F that are filled. *)
(* The descriptors are the end of the queue; the two counters differ by    *)
(* the superpages in front of them, which are filled, also after one of    *)
(* them has wrapped.                                                       *)
(***************************************************************************)
LinkAgrees(q, d, n, c, F) ==
    /\ Len(d) <= Len(q)
    /\ Ahead(n, c, Len(q) - Len(d))
    /\ \A k \in 1 .. Len(d) : d[k] = q[Len(q) - Len(d) + k]
    /\ \A k \in 1 .. Len(q) - Len(d) : q[k] \in F

(* Nothing is pushed yet.                                                   *)
LEMMA LinkEmpty == ASSUME NEW F PROVE LinkAgrees(<< >>, << >>, 0, 0, F)
<1>1. Len(<< >>) = 0
  OBVIOUS
<1> QED BY <1>1 DEF LinkAgrees, Ahead

(* pushSuperpage() on the link.                                             *)
LEMMA LinkPush ==
    ASSUME NEW q \in Seq(Superpages), NEW d \in Seq(Superpages), NEW n \in Nat, NEW c \in Nat, NEW F,
           NEW s \in Superpages, LinkAgrees(q, d, n, c, F), s \notin ToSet(q)
    PROVE  LinkAgrees(Append(q, s), Append(d, s), n, c, F \ {s})
<1> DEFINE qq == Append(q, s)
           dd == Append(d, s)
<1>1. /\ Len(qq) = Len(q) + 1 /\ Len(dd) = Len(d) + 1 /\ Len(q) \in Nat /\ Len(d) \in Nat
      /\ \A k \in 1 .. Len(q) : qq[k] = q[k] /\ q[k] # s
      /\ \A k \in 1 .. Len(d) : dd[k] = d[k]
      /\ qq[Len(q) + 1] = s /\ dd[Len(d) + 1] = s
  BY SetOfAppend, SetOfSeq
<1> HIDE DEF qq, dd
<1>2. Len(dd) <= Len(qq) /\ Ahead(n, c, Len(qq) - Len(dd))
  <2>1. Len(qq) - Len(dd) = Len(q) - Len(d)
    BY <1>1
  <2>2. Len(dd) <= Len(qq)
    BY <1>1 DEF LinkAgrees
  <2> QED BY <2>1, <2>2 DEF LinkAgrees
<1>3. ASSUME NEW k \in 1 .. Len(dd) PROVE dd[k] = qq[Len(qq) - Len(dd) + k]
  <2>1. CASE k = Len(d) + 1
    <3>1. Len(qq) - Len(dd) + k = Len(q) + 1
      BY <1>1, <2>1
    <3> QED BY <1>1, <2>1, <3>1
  <2>2. CASE k # Len(d) + 1
    <3>1. /\ k \in 1 .. Len(d) /\ Len(qq) - Len(dd) + k = Len(q) - Len(d) + k
          /\ Len(q) - Len(d) + k \in 1 .. Len(q)
      BY <1>1, <2>2 DEF LinkAgrees
    <3> QED BY <1>1, <3>1 DEF LinkAgrees
  <2> QED BY <2>1, <2>2
<1>4. ASSUME NEW k \in 1 .. Len(qq) - Len(dd) PROVE qq[k] \in F \ {s}
  <2>1. k \in 1 .. Len(q) - Len(d) /\ k \in 1 .. Len(q)
    BY <1>1 DEF LinkAgrees
  <2> QED BY <1>1, <2>1 DEF LinkAgrees
<1> QED BY <1>2, <1>3, <1>4 DEF LinkAgrees, qq, dd

(* ... on another one: what is pushed there is not here.                    *)
LEMMA LinkOtherPush ==
    ASSUME NEW q \in Seq(Superpages), NEW d \in Seq(Superpages), NEW n, NEW c, NEW F, NEW s,
           LinkAgrees(q, d, n, c, F), s \notin ToSet(q)
    PROVE  LinkAgrees(q, d, n, c, F \ {s})
<1>1. Len(q) \in Nat /\ Len(d) \in Nat /\ \A k \in 1 .. Len(q) : q[k] # s
  BY SetOfSeq
<1>2. ASSUME NEW k \in 1 .. Len(q) - Len(d) PROVE q[k] \in F \ {s}
  BY <1>1 DEF LinkAgrees
<1> QED BY <1>2 DEF LinkAgrees

(* The firmware fills the first of the descriptors.                         *)
LEMMA LinkFilled ==
    ASSUME NEW q \in Seq(Superpages), NEW d \in Seq(Superpages), NEW n \in Counter, NEW c \in Counter,
           NEW F, LinkAgrees(q, d, n, c, F), d # << >>, Len(q) <= LINK_QUEUE_CAPACITY
    PROVE  /\ LinkAgrees(q, Tail(d), (n + 1) % CounterRange, c, F \cup {Head(d)})
           /\ Head(d) \in ToSet(q)
<1> DEFINE dd == Tail(d)
<1>1. /\ Len(q) \in Nat /\ Len(d) \in Nat \ {0} /\ Len(dd) = Len(d) - 1 /\ Head(d) = d[1]
      /\ \A k \in 1 .. Len(dd) : dd[k] = d[k + 1]
      /\ \A k \in 1 .. Len(q) : q[k] \in ToSet(q)
  BY SetOfTail, SetOfSeq
<1> HIDE DEF dd
<1>2. Len(dd) <= Len(q) /\ Ahead((n + 1) % CounterRange, c, Len(q) - Len(dd))
  <2>1. /\ Len(q) - Len(d) \in Nat /\ Len(q) - Len(d) < CounterRange
        /\ Len(q) - Len(dd) = (Len(q) - Len(d)) + 1
    BY <1>1, CruAssumption DEF LinkAgrees
  <2>2. Ahead(n, c, Len(q) - Len(d))
    BY DEF LinkAgrees
  <2> QED BY <1>1, <2>1, <2>2, AheadNext
<1>3. ASSUME NEW k \in 1 .. Len(dd) PROVE dd[k] = q[Len(q) - Len(dd) + k]
  <2>1. k + 1 \in 1 .. Len(d) /\ Len(q) - Len(d) + (k + 1) = Len(q) - Len(dd) + k
    BY <1>1
  <2> QED BY <1>1, <2>1 DEF LinkAgrees
<1>4. Head(d) = q[Len(q) - Len(d) + 1] /\ Len(q) - Len(d) + 1 \in 1 .. Len(q)
  BY <1>1 DEF LinkAgrees
<1>5. ASSUME NEW k \in 1 .. Len(q) - Len(dd) PROVE q[k] \in F \cup {Head(d)}
  <2>1. k \in 1 .. Len(q) - Len(d) \/ k = Len(q) - Len(d) + 1
    <3>1. Len(q) \in Nat /\ Len(d) \in Nat /\ Len(dd) = Len(d) - 1
      BY <1>1
    <3> QED BY <3>1
  <2> QED BY <1>4, <2>1 DEF LinkAgrees
<1> QED BY <1>1, <1>2, <1>3, <1>4, <1>5 DEF LinkAgrees, dd

(* What is filled stays filled.                                             *)
LEMMA LinkOtherFilled ==
    ASSUME NEW q, NEW d, NEW n, NEW c, NEW F, NEW s, LinkAgrees(q, d, n, c, F)
    PROVE  LinkAgrees(q, d, n, c, F \cup {s})
BY DEF LinkAgrees

(* fillSuperpages() moves a superpage that is filled.                       *)
LEMMA LinkMove ==
    ASSUME NEW q \in Seq(Superpages), NEW d \in Seq(Superpages), NEW n \in Counter, NEW c \in Counter,
           NEW F, LinkAgrees(q, d, n, c, F), Len(d) < Len(q)
    PROVE  q # << >> /\ Head(q) \in F /\ LinkAgrees(Tail(q), d, n, (c + 1) % CounterRange, F)
<1> DEFINE qq == Tail(q)
<1>1. Len(q) \in Nat /\ Len(d) \in Nat /\ Len(q) > 0 /\ 1 \in 1 .. Len(q) - Len(d)
  BY SetOfSeq DEF LinkAgrees
<1>2. q # << >>
  BY <1>1, SetOfSeq
<1>3. /\ Len(qq) = Len(q) - 1 /\ Head(q) = q[1]
      /\ \A k \in 1 .. Len(qq) : qq[k] = q[k + 1]
  BY <1>2, SetOfTail
<1> HIDE DEF qq
<1>4. Len(d) <= Len(qq) /\ Ahead(n, (c + 1) % CounterRange, Len(qq) - Len(d))
  <2>1. /\ Len(q) - Len(d) \in Nat /\ Len(q) - Len(d) > 0
        /\ Len(qq) - Len(d) = (Len(q) - Len(d)) - 1
    BY <1>1, <1>3
  <2>2. Ahead(n, c, Len(q) - Len(d))
    BY DEF LinkAgrees
  <2> QED BY <1>1, <1>3, <2>1, <2>2, AheadNext
<1>5. ASSUME NEW k \in 1 .. Len(d) PROVE d[k] = qq[Len(qq) - Len(d) + k]
  <2>1. Len(qq) - Len(d) + k \in 1 .. Len(qq) /\ (Len(qq) - Len(d) + k) + 1 = Len(q) - Len(d) + k
    BY <1>1, <1>3, <1>4
  <2> QED BY <1>3, <2>1 DEF LinkAgrees
<1>6. ASSUME NEW k \in 1 .. Len(qq) - Len(d) PROVE qq[k] \in F
  <2>1. k + 1 \in 1 .. Len(q) - Len(d) /\ k \in 1 .. Len(qq)
    BY <1>1, <1>3
  <2> QED BY <1>3, <2>1 DEF LinkAgrees
<1> QED BY <1>1, <1>2, <1>3, <1>4, <1>5, <1>6 DEF LinkAgrees, qq

(* What the driver sees available on a link is what is filled there: a      *)
(* counter that is behind by a wrap does not count.                         *)
LEMMA LinkAvailable ==
    ASSUME NEW q \in Seq(Superpages), NEW d \in Seq(Superpages), NEW n \in Counter, NEW c \in Counter,
           NEW F, LinkAgrees(q, d, n, c, F), Len(q) <= LINK_QUEUE_CAPACITY, n > c
    PROVE  n - c = Len(q) - Len(d) /\ ~(n - c > Len(q))
<1>1. Len(q) - Len(d) \in Nat /\ Len(q) - Len(d) < CounterRange /\ Len(q) \in Nat /\ Len(d) \in Nat
  BY SetOfSeq, CruAssumption DEF LinkAgrees
<1>2. n - c = Len(q) - Len(d)
  BY <1>1, AheadNext DEF LinkAgrees
<1> QED BY <1>1, <1>2

-----------------------------------------------------------------------------
(* The slots of all links.                                                  *)
LEMMA SlotsCount ==
    /\ IsFiniteSet(Slots) /\ Cardinality(Slots) = LINK_QUEUE_CAPACITY * NumLinks
    /\ Cardinality(Slots) \in Nat
<1>1. /\ IsFiniteSet(Links) /\ Cardinality(Links) = NumLinks
  BY CruAssumption, FS_Interval DEF Links
<1>2. /\ IsFiniteSet(1 .. LINK_QUEUE_CAPACITY)
      /\ Cardinality(1 .. LINK_QUEUE_CAPACITY) = LINK_QUEUE_CAPACITY
  BY CruAssumption, FS_Interval
<1>3. IsFiniteSet(Slots) /\ Cardinality(Slots) = NumLinks * LINK_QUEUE_CAPACITY
  BY <1>1, <1>2, FS_Product DEF Slots
<1> QED BY <1>3, CruAssumption, FS_CardinalityType

(* getNextLinkIndex() returns a link, and none has a shorter queue.         *)
LEMMA NextLink ==
    ASSUME queue \in [Links -> Seq(Superpages)]
    PROVE  NextLinkIndex \in Links /\ \A m \in Links : Len(queue[NextLinkIndex]) <= Len(queue[m])
<1> DEFINE lens == {Len(queue[l]) : l \in Links}
<1>0. \A l \in Links : Len(queue[l]) \in Nat
  OBVIOUS
<1>1. lens \in SUBSET Nat /\ lens # {}
  <2>1. 1 \in Links
    BY CruAssumption DEF Links
  <2>2. Len(queue[1]) \in lens
    BY <2>1
  <2> QED BY <1>0, <2>2
<1>2. PICK i \in lens : \A j \in lens : i <= j
  BY <1>1, LeastNatural
<1> DEFINE shortest == {l \in Links : Len(queue[l]) = i}
<1>3. shortest \in SUBSET Nat /\ shortest # {}
  BY <1>2 DEF Links
<1>4. PICK l \in shortest : \A j \in shortest : l <= j
  BY <1>3, LeastNatural
<1>5. ASSUME NEW m \in Links
      PROVE  Len(queue[l]) < Len(queue[m]) \/ (Len(queue[l]) = Len(queue[m]) /\ l <= m)
  <2>1. Len(queue[l]) = i /\ i <= Len(queue[m]) /\ i \in Nat /\ Len(queue[m]) \in Nat
    BY <1>0, <1>1, <1>2, <1>4
  <2> QED BY <1>4, <2>1
<1> DEFINE Best(x) == \A m \in Links : \/ Len(queue[x]) < Len(queue[m])
                                       \/ Len(queue[x]) = Len(queue[m]) /\ x <= m
<1>6. l \in Links /\ Best(l)
  BY <1>4, <1>5
<1>7. NextLinkIndex = CHOOSE x \in Links : Best(x)
  BY DEF NextLinkIndex
<1> HIDE DEF Best
<1>8. NextLinkIndex \in Links /\ Best(NextLinkIndex)
  BY <1>6, <1>7
<1> QED BY <1>0, <1>8 DEF Best

-----------------------------------------------------------------------------
(***************************************************************************)
(* The inductive invariant.                                                *)
(***************************************************************************)
Waiting ==
    mDmaState = "STARTED" =>
        \A l \in Links :
            LinkAgrees(queue[l], descriptors[l], superpageCount[l], superpageCounter[l], filled)

\* What the loop of fillSuperpages() is about to move is filled, and stays so while
\* the firmware goes on.
Filling ==
    /\ pc \in {"idle", "read", "move"}
    /\ emulating = (mDmaState = "STARTED")
    /\ pc # "idle" => mDmaState = "STARTED"
    /\ pc = "move" => /\ linkIndex \in Links
                      /\ amountAvailable <= Len(queue[linkIndex]) - Len(descriptors[linkIndex])

CruInv == TypeOK /\ SuperpagesAccounted /\ FreeSlotsCounted /\ Waiting /\ Filling

\* SuperpagesAccounted, in the words of SequenceFacts.
Apart ==
    /\ inDriver = ToSet(mReadyQueue) \cup UNION {ToSet(queue[l]) : l \in Links}
    /\ Distinct(mReadyQueue)
    /\ \A l \in Links :
         /\ Distinct(queue[l])
         /\ ToSet(queue[l]) \cap ToSet(mReadyQueue) = {}
         /\ \A m \in Links \ {l} : ToSet(queue[l]) \cap ToSet(queue[m]) = {}

(* The two say the same.                                                    *)
LEMMA ApartIsAccounted ==
    ASSUME queue \in [Links -> Seq(Superpages)], mReadyQueue \in Seq(Superpages)
    PROVE  SuperpagesAccounted <=> Apart
<1>1. IsInjective(mReadyQueue) <=> Distinct(mReadyQueue)
  BY DistinctInjective
<1>2. \A l \in Links : IsInjective(queue[l]) <=> Distinct(queue[l])
  BY DistinctInjective
<1> QED BY <1>1, <1>2 DEF SuperpagesAccounted, Apart

(* ... also after a step.                                                   *)
LEMMA AccountedNext == ASSUME TypeOK', Apart' PROVE SuperpagesAccounted'
<1>1. queue' \in [Links -> Seq(Superpages)] /\ mReadyQueue' \in Seq(Superpages)
  BY DEF TypeOK
<1>2. IsInjective(mReadyQueue') <=> Distinct(mReadyQueue')
  BY <1>1, DistinctInjective
<1>3. \A m \in Links : IsInjective(queue'[m]) <=> Distinct(queue'[m])
  BY <1>1, DistinctInjective
<1> QED BY <1>2, <1>3 DEF SuperpagesAccounted, Apart

(* What is in the queue of some link.                                       *)
LEMMA InQueues ==
    ASSUME NEW f, NEW x
    PROVE  x \in UNION {ToSet(f[l]) : l \in Links} <=> \E l \in Links : x \in ToSet(f[l])
OBVIOUS

(* The types that every step needs.                                         *)
LEMMA CruTypes ==
    ASSUME TypeOK
    PROVE  \A l \in Links :
              /\ queue[l] \in Seq(Superpages) /\ descriptors[l] \in Seq(Superpages)
              /\ superpageCount[l] \in Counter /\ superpageCounter[l] \in Counter
              /\ superpageCount[l] \in Nat /\ superpageCounter[l] \in Nat
BY CruAssumption DEF TypeOK, Counter

(* pushSuperpage() finds room on the link it has chosen.                    *)
LEMMA PushHasRoom ==
    ASSUME TypeOK, FreeSlotsCounted, mDmaState = "STARTED", mLinkQueuesTotalAvailable # 0
    PROVE  Len(queue[NextLinkIndex]) < LINK_QUEUE_CAPACITY
<1>1. NextLinkIndex \in Links /\ \A m \in Links : Len(queue[NextLinkIndex]) <= Len(queue[m])
  BY NextLink DEF TypeOK
<1>2. \A l \in Links : Len(queue[l]) \in Nat /\ Len(queue[l]) <= LINK_QUEUE_CAPACITY
  BY CruTypes DEF FreeSlotsCounted
<1> SUFFICES ASSUME Len(queue[NextLinkIndex]) >= LINK_QUEUE_CAPACITY PROVE FALSE
  BY <1>1, <1>2, CruAssumption
<1>3. \A l \in Links : Len(queue[l]) = LINK_QUEUE_CAPACITY
  BY <1>1, <1>2, CruAssumption
<1>4. \A x \in Slots : x \in UsedSlots
  BY <1>3, CruAssumption DEF Slots, UsedSlots
<1>5. Slots \ UsedSlots = {}
  BY <1>4
<1>6. Cardinality(Slots \ UsedSlots) = 0
  BY <1>5, FS_EmptySet
<1> QED BY <1>6 DEF FreeSlotsCounted

(* A superpage more in the queue of a link takes one slot.                  *)
LEMMA SlotTaken ==
    ASSUME NEW l \in Links, TypeOK, Len(queue[l]) < LINK_QUEUE_CAPACITY,
           Len(queue'[l]) = Len(queue[l]) + 1,
           \A m \in Links \ {l} : queue'[m] = queue[m]
    PROVE  Cardinality(Slots \ UsedSlots') = Cardinality(Slots \ UsedSlots) - 1
<1> DEFINE x == <<l, Len(queue[l]) + 1>>
<1>1. \A m \in Links : Len(queue[m]) \in Nat
  BY CruTypes
<1>2. x \in Slots \ UsedSlots
  BY <1>1, CruAssumption DEF Slots, UsedSlots
<1>3. Slots \ UsedSlots' = (Slots \ UsedSlots) \ {x}
  <2>1. ASSUME NEW m \in Links, NEW k \in 1 .. LINK_QUEUE_CAPACITY
        PROVE  k <= Len(queue'[m]) <=> (k <= Len(queue[m]) \/ <<m, k>> = x)
    <3>1. CASE m = l
      BY <1>1, <3>1, CruAssumption
    <3>2. CASE m # l
      BY <3>2
    <3> QED BY <3>1, <3>2
  <2>2. \A y \in Slots : y \in UsedSlots' <=> (y \in UsedSlots \/ y = x)
    BY <2>1 DEF Slots, UsedSlots
  <2> QED BY <2>2
<1>4. IsFiniteSet(Slots \ UsedSlots)
  BY SlotsCount, FS_Subset
<1> DEFINE free == Slots \ UsedSlots
<1>5. free = Slots \ UsedSlots
  OBVIOUS
<1> HIDE DEF free, x
<1>6. Cardinality(free \ {x}) = IF x \in free THEN Cardinality(free) - 1 ELSE Cardinality(free)
  BY <1>4, <1>5, FS_RemoveElement
<1> QED BY <1>2, <1>3, <1>5, <1>6

(* ... and one less gives it back.                                          *)
LEMMA SlotGiven ==
    ASSUME NEW l \in Links, TypeOK, FreeSlotsCounted, Len(queue[l]) > 0,
           Len(queue'[l]) = Len(queue[l]) - 1,
           \A m \in Links \ {l} : queue'[m] = queue[m]
    PROVE  /\ Cardinality(Slots \ UsedSlots') = Cardinality(Slots \ UsedSlots) + 1
           /\ Cardinality(Slots \ UsedSlots') <= LINK_QUEUE_CAPACITY * NumLinks
<1> DEFINE x == <<l, Len(queue[l])>>
<1>1. \A m \in Links : Len(queue[m]) \in Nat /\ Len(queue[m]) <= LINK_QUEUE_CAPACITY
  BY CruTypes DEF FreeSlotsCounted
<1>2. x \in UsedSlots
  BY <1>1, CruAssumption DEF Slots, UsedSlots
<1>3. Slots \ UsedSlots' = (Slots \ UsedSlots) \cup {x}
  <2>1. ASSUME NEW m \in Links, NEW k \in 1 .. LINK_QUEUE_CAPACITY
        PROVE  k <= Len(queue'[m]) <=> (k <= Len(queue[m]) /\ <<m, k>> # x)
    <3>1. CASE m = l
      BY <1>1, <3>1, CruAssumption
    <3>2. CASE m # l
      BY <3>2
    <3> QED BY <3>1, <3>2
  <2>2. \A y \in Slots : y \in UsedSlots' <=> (y \in UsedSlots /\ y # x)
    BY <2>1 DEF Slots, UsedSlots
  <2> QED BY <1>2, <2>2 DEF UsedSlots
<1>4. IsFiniteSet(Slots \ UsedSlots)
  BY SlotsCount, FS_Subset
<1>5. Cardinality(Slots \ UsedSlots') = Cardinality(Slots \ UsedSlots) + 1
  <2> DEFINE free == Slots \ UsedSlots
  <2>1. free = Slots \ UsedSlots
    OBVIOUS
  <2> HIDE DEF free, x
  <2>2. Cardinality(free \cup {x}) = IF x \in free THEN Cardinality(free) ELSE Cardinality(free) + 1
    BY <1>4, <2>1, FS_AddElement
  <2> QED BY <1>2, <1>3, <2>1, <2>2
<1>6. Cardinality(Slots \ UsedSlots') <= Cardinality(Slots)
  BY SlotsCount, FS_Subset
<1> QED BY <1>5, <1>6, SlotsCount

-----------------------------------------------------------------------------
(* pushSuperpage() keeps the invariant.                                     *)
LEMMA PushKeeps ==
    ASSUME CruInv, NEW s \in Superpages, PushSuperpage(s)
    PROVE  CruInv'
<1> DEFINE l == NextLinkIndex
<1>1. /\ l \in Links /\ Len(queue[l]) < LINK_QUEUE_CAPACITY /\ mDmaState = "STARTED" /\ pc = "idle"
  BY PushHasRoom, NextLink DEF CruInv, TypeOK, PushSuperpage
<1>2. /\ mLinkQueuesTotalAvailable # 0
      /\ mLinkQueuesTotalAvailable' = mLinkQueuesTotalAvailable - 1
      /\ queue' = [queue EXCEPT ![l] = Append(@, s)]
      /\ descriptors' = [descriptors EXCEPT ![l] = Append(@, s)]
      /\ inDriver' = inDriver \cup {s} /\ filled' = filled \ {s}
      /\ s \notin inDriver
      /\ UNCHANGED <<pc, mDmaState, superpageCounter, mReadyQueue, linkIndex, amountAvailable,
                     superpageCount, emulating>>
  <2>1. Len(queue[l]) \in Nat
    BY <1>1, CruTypes DEF CruInv
  <2>2. ~(Len(queue[l]) >= LINK_QUEUE_CAPACITY)
    BY <1>1, <2>1, CruAssumption
  <2> QED BY <2>2 DEF PushSuperpage
<1> HIDE DEF l
<1>3. /\ queue[l] \in Seq(Superpages) /\ descriptors[l] \in Seq(Superpages)
      /\ Append(queue[l], s) \in Seq(Superpages) /\ Append(descriptors[l], s) \in Seq(Superpages)
      /\ Len(Append(queue[l], s)) = Len(queue[l]) + 1 /\ Len(queue[l]) \in Nat
      /\ ToSet(Append(queue[l], s)) = ToSet(queue[l]) \cup {s}
  BY <1>1, CruTypes, SetOfAppend DEF CruInv
<1>4. /\ queue'[l] = Append(queue[l], s) /\ descriptors'[l] = Append(descriptors[l], s)
      /\ \A m \in Links \ {l} : queue'[m] = queue[m] /\ descriptors'[m] = descriptors[m]
  BY <1>1, <1>2 DEF CruInv, TypeOK
<1>5. TypeOK'
  <2>1. queue' \in [Links -> Seq(Superpages)] /\ descriptors' \in [Links -> Seq(Superpages)]
    BY <1>1, <1>2, <1>3 DEF CruInv, TypeOK
  <2>2. mLinkQueuesTotalAvailable' \in 0 .. LINK_QUEUE_CAPACITY * NumLinks
    <3>1. LINK_QUEUE_CAPACITY * NumLinks \in Nat
      BY SlotsCount
    <3> QED BY <1>2, <3>1 DEF CruInv, TypeOK
  <2> QED BY <1>2, <2>1, <2>2 DEF CruInv, TypeOK
<1>6. Apart /\ \A m \in Links : s \notin ToSet(queue[m])
  BY <1>2, ApartIsAccounted DEF CruInv, TypeOK, Apart
<1>7. SuperpagesAccounted'
  <2>1. Distinct(queue'[l])
    BY <1>1, <1>3, <1>4, <1>6, DistinctAppend DEF Apart
  <2>2. \A m \in Links : ToSet(queue'[m]) = IF m = l THEN ToSet(queue[m]) \cup {s} ELSE ToSet(queue[m])
    BY <1>3, <1>4
  <2>3. s \notin ToSet(mReadyQueue)
    BY <1>2, <1>6 DEF Apart
  <2>4. UNION {ToSet(queue'[m]) : m \in Links} = (UNION {ToSet(queue[m]) : m \in Links}) \cup {s}
    <3> DEFINE old == UNION {ToSet(queue[m]) : m \in Links}
               new == UNION {ToSet(queue'[m]) : m \in Links}
    <3>1. ASSUME NEW x PROVE x \in old <=> \E m \in Links : x \in ToSet(queue[m])
      BY InQueues
    <3>2. ASSUME NEW x PROVE x \in new <=> \E m \in Links : x \in ToSet(queue'[m])
      BY InQueues
    <3> HIDE DEF old, new
    <3>3. ASSUME NEW x PROVE x \in new <=> x \in old \/ x = s
      BY <1>1, <2>2, <3>1, <3>2
    <3>4. new = old \cup {s}
      BY <3>3
    <3> QED BY <3>4 DEF old, new
  <2>5. inDriver' = ToSet(mReadyQueue') \cup UNION {ToSet(queue'[m]) : m \in Links}
    <3>1. inDriver = ToSet(mReadyQueue) \cup UNION {ToSet(queue[m]) : m \in Links}
      BY <1>6 DEF Apart
    <3> QED BY <1>2, <2>4, <3>1
  <2>6. \A m \in Links : Distinct(queue'[m])
    BY <1>4, <1>6, <2>1 DEF Apart
  <2>7. \A m \in Links : ToSet(queue'[m]) \cap ToSet(mReadyQueue') = {}
    <3>1. \A m \in Links : ToSet(queue[m]) \cap ToSet(mReadyQueue) = {}
      BY <1>6 DEF Apart
    <3>2. ASSUME NEW m \in Links PROVE ToSet(queue'[m]) \cap ToSet(mReadyQueue) = {}
      BY <2>2, <2>3, <3>1
    <3>3. mReadyQueue' = mReadyQueue
      BY <1>2
    <3> QED BY <3>2, <3>3
  <2>8. \A k \in Links : \A m \in Links \ {k} : ToSet(queue'[k]) \cap ToSet(queue'[m]) = {}
    BY <1>6, <2>2 DEF Apart
  <2>9. Apart'
    BY <1>2, <1>6, <2>5, <2>6, <2>7, <2>8 DEF Apart
  <2> QED BY <1>5, <2>9, AccountedNext
<1>8. FreeSlotsCounted'
  <2>1. Cardinality(Slots \ UsedSlots') = Cardinality(Slots \ UsedSlots) - 1
    BY <1>1, <1>3, <1>4, SlotTaken DEF CruInv
  <2>2. mLinkQueuesTotalAvailable' = Cardinality(Slots \ UsedSlots')
    BY <1>1, <1>2, <2>1 DEF CruInv, FreeSlotsCounted
  <2>3. \A m \in Links : Len(queue'[m]) <= LINK_QUEUE_CAPACITY
    BY <1>1, <1>3, <1>4, CruAssumption DEF CruInv, FreeSlotsCounted
  <2>4. pc' # "linkFull"
    BY <1>1, <1>2
  <2>5. Slots' = Slots
    BY DEF Slots, Links
  <2> QED BY <2>2, <2>3, <2>4, <2>5 DEF FreeSlotsCounted
<1>9. Waiting'
  <2> SUFFICES ASSUME NEW m \in Links
               PROVE  LinkAgrees(queue'[m], descriptors'[m], superpageCount[m], superpageCounter[m],
                                 filled \ {s})
    BY <1>2 DEF Waiting
  <2>1. LinkAgrees(queue[m], descriptors[m], superpageCount[m], superpageCounter[m], filled)
    BY <1>1 DEF CruInv, Waiting
  <2>2. CASE m = l
    <3>1. superpageCount[l] \in Nat /\ superpageCounter[l] \in Nat
      BY <1>1, CruTypes DEF CruInv
    <3>2. LinkAgrees(queue[l], descriptors[l], superpageCount[l], superpageCounter[l], filled)
      BY <2>1, <2>2
    <3>3. LinkAgrees(Append(queue[l], s), Append(descriptors[l], s), superpageCount[l],
                     superpageCounter[l], filled \ {s})
      BY <1>1, <1>2, <1>3, <1>6, <3>1, <3>2, LinkPush
    <3> QED BY <1>4, <2>2, <3>3
  <2>3. CASE m # l
    <3>1. queue[m] \in Seq(Superpages) /\ descriptors[m] \in Seq(Superpages)
      BY CruTypes DEF CruInv
    <3> QED BY <1>4, <1>6, <2>1, <2>3, <3>1, LinkOtherPush
  <2> QED BY <2>2, <2>3
<1>10. Filling'
  BY <1>1, <1>2 DEF CruInv, Filling
<1> QED BY <1>5, <1>7, <1>8, <1>9, <1>10 DEF CruInv

(* fillSuperpages() moves the first superpage of the link it is at.         *)
LEMMA MoveKeeps ==
    ASSUME CruInv, FillMove
    PROVE  CruInv'
<1> DEFINE l == linkIndex
           s == Head(queue[l])
<1>1. /\ l \in Links /\ mDmaState = "STARTED" /\ pc = "move"
      /\ amountAvailable <= Len(queue[l]) - Len(descriptors[l])
      /\ amountAvailable \in Nat /\ CounterRange \in Nat
  BY CruAssumption DEF CruInv, Filling, FillMove, TypeOK, Counter
<1>2. /\ queue[l] \in Seq(Superpages) /\ descriptors[l] \in Seq(Superpages)
      /\ superpageCount[l] \in Counter /\ superpageCounter[l] \in Counter
      /\ superpageCount[l] \in Nat /\ superpageCounter[l] \in Nat
  BY <1>1, CruTypes DEF CruInv
<1>3. CASE amountAvailable = 0 \/ Len(mReadyQueue) >= READY_QUEUE_CAPACITY
  <2>1. /\ pc' = "read" /\ linkIndex' = linkIndex + 1 /\ amountAvailable' = 0
        /\ UNCHANGED <<mDmaState, queues, firmware, inDriver>>
    BY <1>3 DEF FillMove
  <2>2. UNCHANGED <<queue, superpageCounter, mReadyQueue, mLinkQueuesTotalAvailable, descriptors,
                    superpageCount, emulating, filled, mDmaState, inDriver>>
    BY <2>1 DEF queues, firmware
  <2>3. linkIndex' \in 1 .. NumLinks + 1 /\ amountAvailable' \in Counter
    BY <1>1, <2>1, CruAssumption DEF Links, Counter
  <2>4. TypeOK'
    BY <2>1, <2>2, <2>3 DEF CruInv, TypeOK
  <2>5. SuperpagesAccounted' /\ Waiting'
    BY <2>2 DEF CruInv, SuperpagesAccounted, Waiting
  <2>6. FreeSlotsCounted'
    BY <2>1, <2>2 DEF CruInv, FreeSlotsCounted, UsedSlots
  <2>7. Filling'
    BY <1>1, <2>1, <2>2 DEF CruInv, Filling
  <2> QED BY <2>4, <2>5, <2>6, <2>7 DEF CruInv
<1>4. CASE ~(amountAvailable = 0 \/ Len(mReadyQueue) >= READY_QUEUE_CAPACITY)
  <2>1. /\ mReadyQueue' = Append(mReadyQueue, s)
        /\ mLinkQueuesTotalAvailable' = mLinkQueuesTotalAvailable + 1
        /\ queue' = [queue EXCEPT ![l] = Tail(@)]
        /\ superpageCounter' = [superpageCounter EXCEPT ![l] = (@ + 1) % CounterRange]
        /\ amountAvailable' = amountAvailable - 1
        /\ UNCHANGED <<pc, linkIndex, mDmaState, firmware, inDriver>>
    BY <1>4 DEF FillMove
  <2>2. UNCHANGED <<descriptors, superpageCount, emulating, filled>>
    BY <2>1 DEF firmware
  <2>3. Len(descriptors[l]) < Len(queue[l])
    <3>1. Len(queue[l]) \in Nat /\ Len(descriptors[l]) \in Nat
      BY <1>2, SetOfSeq
    <3> QED BY <1>1, <1>4, <3>1
  <2>4. LinkAgrees(queue[l], descriptors[l], superpageCount[l], superpageCounter[l], filled)
    BY <1>1 DEF CruInv, Waiting
  <2>5. /\ queue[l] # << >> /\ s \in filled
        /\ LinkAgrees(Tail(queue[l]), descriptors[l], superpageCount[l],
                      (superpageCounter[l] + 1) % CounterRange, filled)
    BY <1>2, <2>3, <2>4, LinkMove
  <2>6. (superpageCounter[l] + 1) % CounterRange \in Counter
    BY <1>2, CounterNext
  <2>7. /\ Tail(queue[l]) \in Seq(Superpages) /\ Len(queue[l]) \in Nat /\ Len(queue[l]) > 0
        /\ Len(Tail(queue[l])) = Len(queue[l]) - 1 /\ s \in Superpages
        /\ ToSet(queue[l]) = {s} \cup ToSet(Tail(queue[l]))
    BY <1>2, <2>5, SetOfTail
  <2>8. /\ queue'[l] = Tail(queue[l])
        /\ superpageCounter'[l] = (superpageCounter[l] + 1) % CounterRange
        /\ \A m \in Links \ {l} : queue'[m] = queue[m] /\ superpageCounter'[m] = superpageCounter[m]
    BY <1>1, <2>1, <2>6 DEF CruInv, TypeOK
  <2> HIDE DEF s, l
  <2>9. /\ Cardinality(Slots \ UsedSlots') = Cardinality(Slots \ UsedSlots) + 1
        /\ Cardinality(Slots \ UsedSlots') <= LINK_QUEUE_CAPACITY * NumLinks
    BY <1>1, <2>7, <2>8, SlotGiven DEF CruInv
  <2>10. mLinkQueuesTotalAvailable' = Cardinality(Slots \ UsedSlots')
    BY <1>1, <2>1, <2>9 DEF CruInv, FreeSlotsCounted
  <2>11. TypeOK'
    <3>1. queue' \in [Links -> Seq(Superpages)]
      BY <1>1, <2>1, <2>7 DEF CruInv, TypeOK
    <3>2. superpageCounter' \in [Links -> Counter]
      BY <1>1, <2>1, <2>6 DEF CruInv, TypeOK
    <3>3. mReadyQueue' \in Seq(Superpages) /\ Len(mReadyQueue') = Len(mReadyQueue) + 1
      BY <2>1, <2>7, SetOfAppend DEF CruInv, TypeOK
    <3>4. Len(mReadyQueue') <= READY_QUEUE_CAPACITY
      <4>1. Len(mReadyQueue) \in Nat
        BY SetOfSeq DEF CruInv, TypeOK
      <4> QED BY <1>4, <3>3, <4>1, CruAssumption
    <3>5. mLinkQueuesTotalAvailable' \in 0 .. LINK_QUEUE_CAPACITY * NumLinks
      <4>1. LINK_QUEUE_CAPACITY * NumLinks \in Nat
        BY SlotsCount
      <4>2. mLinkQueuesTotalAvailable \in Nat
        BY <4>1 DEF CruInv, TypeOK
      <4> QED BY <2>1, <2>9, <2>10, <4>1, <4>2
    <3>6. amountAvailable' \in Counter
      BY <1>1, <1>4, <2>1 DEF CruInv, TypeOK, Counter
    <3> QED BY <2>1, <2>2, <3>1, <3>2, <3>3, <3>4, <3>5, <3>6 DEF CruInv, TypeOK
  <2>12. Apart
    BY ApartIsAccounted DEF CruInv, TypeOK
  <2>13. /\ Distinct(queue[l]) /\ s \notin ToSet(mReadyQueue) /\ s \in ToSet(queue[l])
    BY <1>1, <2>7, <2>12 DEF Apart
  <2>14. Distinct(queue'[l]) /\ s \notin ToSet(queue'[l])
    BY <1>2, <2>5, <2>8, <2>13, DistinctTail DEF s
  <2>15. ToSet(mReadyQueue') = ToSet(mReadyQueue) \cup {s} /\ Distinct(mReadyQueue')
    BY <2>1, <2>7, <2>12, <2>13, SetOfAppend, DistinctAppend DEF CruInv, TypeOK, Apart
  <2>16. \A m \in Links : ToSet(queue'[m]) = ToSet(queue[m]) \ {s}
    <3>1. ASSUME NEW m \in Links \ {l} PROVE s \notin ToSet(queue[m])
      BY <1>1, <2>12, <2>13 DEF Apart
    <3>2. ASSUME NEW m \in Links PROVE ToSet(queue'[m]) = ToSet(queue[m]) \ {s}
      BY <2>7, <2>8, <2>14, <3>1
    <3> QED BY <3>2
  <2>17. SuperpagesAccounted'
    <3>1. inDriver' = ToSet(mReadyQueue') \cup UNION {ToSet(queue'[m]) : m \in Links}
      <4> DEFINE old == UNION {ToSet(queue[m]) : m \in Links}
                 new == UNION {ToSet(queue'[m]) : m \in Links}
      <4>1. ASSUME NEW x PROVE x \in old <=> \E m \in Links : x \in ToSet(queue[m])
        BY InQueues
      <4>2. ASSUME NEW x PROVE x \in new <=> \E m \in Links : x \in ToSet(queue'[m])
        BY InQueues
      <4>3. inDriver = ToSet(mReadyQueue) \cup old
        BY <2>12 DEF Apart
      <4> HIDE DEF old, new
      <4>4. ASSUME NEW x PROVE x \in new <=> x \in old /\ x # s
        BY <2>16, <4>1, <4>2
      <4>5. s \in old
        BY <1>1, <2>13, <4>1
      <4>6. new = old \ {s}
        BY <4>4
      <4>7. inDriver' = ToSet(mReadyQueue') \cup new
        BY <2>1, <2>15, <4>3, <4>5, <4>6
      <4> QED BY <4>7 DEF new
    <3>2. \A m \in Links : Distinct(queue'[m])
      BY <2>8, <2>12, <2>14 DEF Apart
    <3>3. \A m \in Links : ToSet(queue'[m]) \cap ToSet(mReadyQueue') = {}
      <4>1. \A m \in Links : ToSet(queue[m]) \cap ToSet(mReadyQueue) = {}
        BY <2>12 DEF Apart
      <4> QED BY <2>15, <2>16, <4>1
    <3>4. \A k \in Links : \A m \in Links \ {k} : ToSet(queue'[k]) \cap ToSet(queue'[m]) = {}
      <4>1. \A k \in Links : \A m \in Links \ {k} : ToSet(queue[k]) \cap ToSet(queue[m]) = {}
        BY <2>12 DEF Apart
      <4> QED BY <2>16, <4>1
    <3>5. Apart'
      BY <2>15, <3>1, <3>2, <3>3, <3>4 DEF Apart
    <3> QED BY <2>11, <3>5, AccountedNext
  <2>18. FreeSlotsCounted'
    <3>1. \A m \in Links : Len(queue'[m]) <= LINK_QUEUE_CAPACITY
      <4>1. \A m \in Links : Len(queue[m]) <= LINK_QUEUE_CAPACITY
        BY DEF CruInv, FreeSlotsCounted
      <4>2. Len(queue'[l]) <= LINK_QUEUE_CAPACITY
        BY <1>1, <2>7, <2>8, <4>1, CruAssumption
      <4> QED BY <2>8, <4>1, <4>2
    <3>2. Slots' = Slots
      BY DEF Slots, Links
    <3>3. pc' # "linkFull"
      BY <1>1, <2>1
    <3> QED BY <2>10, <3>1, <3>2, <3>3 DEF FreeSlotsCounted
  <2>19. Waiting'
    <3>1. ASSUME NEW m \in Links
          PROVE  LinkAgrees(queue'[m], descriptors[m], superpageCount[m], superpageCounter'[m], filled)
      <4>1. CASE m = l
        BY <2>5, <2>8, <4>1
      <4>2. CASE m # l
        <5>1. LinkAgrees(queue[m], descriptors[m], superpageCount[m], superpageCounter[m], filled)
          BY <1>1 DEF CruInv, Waiting
        <5> QED BY <2>8, <4>2, <5>1
      <4> QED BY <4>1, <4>2
    <3> QED BY <2>2, <3>1 DEF Waiting
  <2>20. Filling'
    <3>1. amountAvailable' <= Len(queue'[l]) - Len(descriptors[l])
      <4>1. /\ Len(queue'[l]) = Len(queue[l]) - 1 /\ amountAvailable' = amountAvailable - 1
            /\ Len(queue[l]) \in Nat /\ Len(descriptors[l]) \in Nat
        BY <1>2, <2>1, <2>7, <2>8, SetOfSeq
      <4> QED BY <1>1, <4>1
    <3>2. queue'[linkIndex'] = queue'[l] /\ descriptors'[linkIndex'] = descriptors[l]
      BY <2>1, <2>2 DEF l
    <3>3. linkIndex' \in Links
      BY <1>1, <2>1 DEF l
    <3> QED BY <1>1, <2>1, <2>2, <3>1, <3>2, <3>3 DEF CruInv, Filling
  <2> QED BY <2>11, <2>17, <2>18, <2>19, <2>20 DEF CruInv
<1> QED BY <1>3, <1>4

(* The firmware fills a superpage and counts it.                            *)
LEMMA FirmwareKeeps ==
    ASSUME CruInv, NEW l \in Links, FirmwareFills(l)
    PROVE  CruInv' /\ mDmaState = "STARTED" /\ Head(descriptors[l]) \in ToSet(queue[l])
<1> DEFINE s == Head(descriptors[l])
<1>1. /\ mDmaState = "STARTED" /\ descriptors[l] # << >>
      /\ filled' = filled \cup {s}
      /\ descriptors' = [descriptors EXCEPT ![l] = Tail(@)]
      /\ superpageCount' = [superpageCount EXCEPT ![l] = (@ + 1) % CounterRange]
      /\ UNCHANGED <<mDmaState, queues, fill, emulating, inDriver>>
  BY DEF FirmwareFills, CruInv, Filling
<1>2. UNCHANGED <<queue, superpageCounter, mReadyQueue, mLinkQueuesTotalAvailable, pc, linkIndex,
                  amountAvailable, mDmaState, emulating, inDriver>>
  BY <1>1 DEF queues, fill
<1>3. /\ queue[l] \in Seq(Superpages) /\ descriptors[l] \in Seq(Superpages)
      /\ superpageCount[l] \in Counter /\ superpageCounter[l] \in Counter
      /\ Len(queue[l]) <= LINK_QUEUE_CAPACITY
  BY CruTypes DEF CruInv, FreeSlotsCounted
<1>4. LinkAgrees(queue[l], descriptors[l], superpageCount[l], superpageCounter[l], filled)
  BY <1>1 DEF CruInv, Waiting
<1>5. /\ LinkAgrees(queue[l], Tail(descriptors[l]), (superpageCount[l] + 1) % CounterRange,
                    superpageCounter[l], filled \cup {s})
      /\ s \in ToSet(queue[l])
  BY <1>1, <1>3, <1>4, LinkFilled
<1>6. (superpageCount[l] + 1) % CounterRange \in Counter
  BY <1>3, CounterNext
<1>7. /\ Tail(descriptors[l]) \in Seq(Superpages) /\ s \in Superpages
      /\ Len(Tail(descriptors[l])) = Len(descriptors[l]) - 1
  BY <1>1, <1>3, SetOfTail
<1>8. /\ descriptors'[l] = Tail(descriptors[l])
      /\ superpageCount'[l] = (superpageCount[l] + 1) % CounterRange
      /\ \A m \in Links \ {l} : /\ descriptors'[m] = descriptors[m]
                                /\ superpageCount'[m] = superpageCount[m]
  BY <1>1, <1>6 DEF CruInv, TypeOK
<1> HIDE DEF s
<1>9. TypeOK'
  <2>1. descriptors' \in [Links -> Seq(Superpages)]
    BY <1>1, <1>7 DEF CruInv, TypeOK
  <2>2. superpageCount' \in [Links -> Counter]
    BY <1>1, <1>6 DEF CruInv, TypeOK
  <2> QED BY <1>1, <1>2, <1>7, <2>1, <2>2 DEF CruInv, TypeOK
<1>10. SuperpagesAccounted' /\ FreeSlotsCounted'
  BY <1>2 DEF CruInv, SuperpagesAccounted, FreeSlotsCounted, UsedSlots
<1>11. Waiting'
  <2>1. ASSUME NEW m \in Links
        PROVE  LinkAgrees(queue[m], descriptors'[m], superpageCount'[m], superpageCounter[m],
                          filled \cup {s})
    <3>1. CASE m = l
      BY <1>5, <1>8, <3>1
    <3>2. CASE m # l
      <4>1. LinkAgrees(queue[m], descriptors[m], superpageCount[m], superpageCounter[m], filled)
        BY <1>1 DEF CruInv, Waiting
      <4> QED BY <1>8, <3>2, <4>1, LinkOtherFilled
    <3> QED BY <3>1, <3>2
  <2> QED BY <1>1, <1>2, <2>1 DEF Waiting
<1>12. Filling'
  <2>1. ASSUME pc = "move"
        PROVE  amountAvailable <= Len(queue[linkIndex]) - Len(descriptors'[linkIndex])
    <3>1. /\ linkIndex \in Links
          /\ amountAvailable <= Len(queue[linkIndex]) - Len(descriptors[linkIndex])
          /\ amountAvailable \in Nat
      BY <2>1, CruAssumption DEF CruInv, Filling, TypeOK, Counter
    <3>2. /\ Len(queue[linkIndex]) \in Nat /\ Len(descriptors[linkIndex]) \in Nat
          /\ Len(descriptors[l]) \in Nat
      BY <3>1, CruTypes, SetOfSeq DEF CruInv
    <3>3. /\ Len(descriptors'[linkIndex]) \in Int
          /\ Len(descriptors'[linkIndex]) <= Len(descriptors[linkIndex])
      <4>1. CASE linkIndex = l
        <5>1. descriptors'[linkIndex] = Tail(descriptors[l])
          BY <1>8, <4>1
        <5>2. Len(descriptors'[linkIndex]) = Len(descriptors[l]) - 1
          BY <1>7, <5>1
        <5> QED BY <3>2, <4>1, <5>2
      <4>2. CASE linkIndex # l
        <5>1. descriptors'[linkIndex] = descriptors[linkIndex]
          BY <1>8, <3>1, <4>2
        <5> QED BY <3>2, <5>1
      <4> QED BY <4>1, <4>2
    <3> QED BY <3>1, <3>2, <3>3
  <2> QED BY <1>2, <2>1 DEF CruInv, Filling
<1> QED BY <1>1, <1>5, <1>9, <1>10, <1>11, <1>12 DEF CruInv, s

(* popSuperpage() takes the first superpage that is ready.                  *)
LEMMA PopKeeps ==
    ASSUME CruInv, PopSuperpage
    PROVE  CruInv'
<1> DEFINE s == Head(mReadyQueue)
<1>1. /\ mReadyQueue # << >> /\ mReadyQueue' = Tail(mReadyQueue) /\ inDriver' = inDriver \ {s}
      /\ UNCHANGED <<mDmaState, queue, superpageCounter, mLinkQueuesTotalAvailable, fill, firmware>>
  BY DEF PopSuperpage
<1>2. UNCHANGED <<mDmaState, queue, superpageCounter, mLinkQueuesTotalAvailable, pc, linkIndex,
                  amountAvailable, descriptors, superpageCount, emulating, filled>>
  BY <1>1 DEF fill, firmware
<1>3. mReadyQueue \in Seq(Superpages) /\ Apart
  BY ApartIsAccounted DEF CruInv, TypeOK
<1>4. /\ mReadyQueue' \in Seq(Superpages) /\ Len(mReadyQueue') = Len(mReadyQueue) - 1
      /\ Len(mReadyQueue) \in Nat
      /\ ToSet(mReadyQueue) = {s} \cup ToSet(mReadyQueue')
  BY <1>1, <1>3, SetOfTail
<1>5. Distinct(mReadyQueue') /\ s \notin ToSet(mReadyQueue')
  BY <1>1, <1>3, DistinctTail DEF Apart
<1> HIDE DEF s
<1>6. TypeOK'
  BY <1>1, <1>2, <1>4, CruAssumption DEF CruInv, TypeOK
<1>7. \A m \in Links : ToSet(queue[m]) \cap ToSet(mReadyQueue) = {}
  BY <1>3 DEF Apart
<1>8. inDriver' = ToSet(mReadyQueue') \cup UNION {ToSet(queue[m]) : m \in Links}
  <2> DEFINE old == UNION {ToSet(queue[m]) : m \in Links}
  <2>1. ASSUME NEW x PROVE x \in old <=> \E m \in Links : x \in ToSet(queue[m])
    BY InQueues
  <2>2. inDriver = ToSet(mReadyQueue) \cup old
    BY <1>3 DEF Apart
  <2> HIDE DEF old
  <2>3. s \notin old
    BY <1>4, <1>7, <2>1
  <2>4. inDriver' = ToSet(mReadyQueue') \cup old
    BY <1>1, <1>4, <1>5, <2>2, <2>3
  <2> QED BY <2>4 DEF old
<1>9. Apart'
  <2>1. \A m \in Links : ToSet(queue[m]) \cap ToSet(mReadyQueue') = {}
    BY <1>4, <1>7
  <2> QED BY <1>2, <1>3, <1>5, <1>8, <2>1 DEF Apart
<1>10. SuperpagesAccounted'
  BY <1>6, <1>9, AccountedNext
<1>11. FreeSlotsCounted' /\ Waiting' /\ Filling'
  BY <1>2 DEF CruInv, FreeSlotsCounted, UsedSlots, Waiting, Filling
<1> QED BY <1>6, <1>10, <1>11 DEF CruInv

(* startDma() begins with empty queues and a card that was reset.           *)
LEMMA StartKeeps ==
    ASSUME CruInv, StartDma
    PROVE  CruInv'
<1>1. /\ mDmaState' = "STARTED" /\ emulating' = TRUE /\ pc = "idle"
      /\ queue' = [l \in Links |-> << >>] /\ superpageCounter' = [l \in Links |-> 0]
      /\ mReadyQueue' = << >> /\ mLinkQueuesTotalAvailable' = LINK_QUEUE_CAPACITY * NumLinks
      /\ inDriver' = {} /\ descriptors' = [l \in Links |-> << >>]
      /\ superpageCount' = [l \in Links |-> 0]
      /\ UNCHANGED <<pc, linkIndex, amountAvailable, filled>>
  BY DEF StartDma, ResetCru, fill
<1>2. /\ << >> \in Seq(Superpages) /\ Len(<< >>) = 0 /\ ToSet(<< >>) = {} /\ Distinct(<< >>)
  BY SetOfEmpty DEF Distinct
<1>3. 0 \in Counter /\ LINK_QUEUE_CAPACITY * NumLinks \in Nat
  BY CruAssumption, SlotsCount DEF Counter
<1>4. TypeOK'
  BY <1>1, <1>2, <1>3, CruAssumption DEF CruInv, TypeOK
<1>5. \A l \in Links : queue'[l] = << >> /\ descriptors'[l] = << >>
                       /\ superpageCount'[l] = 0 /\ superpageCounter'[l] = 0
  BY <1>1
<1>6. UNION {ToSet(queue'[l]) : l \in Links} = {}
  BY <1>2, <1>5
<1>7. Apart'
  BY <1>1, <1>2, <1>5, <1>6 DEF Apart
<1>8. SuperpagesAccounted'
  BY <1>4, <1>7, AccountedNext
<1>9. UsedSlots' = {}
  <2>1. \A x \in Slots : x[1] \in Links /\ x[2] \in Nat /\ x[2] > 0
    BY CruAssumption DEF Slots
  <2>2. \A x \in Slots : ~(x[2] <= Len(queue'[x[1]]))
    BY <1>2, <1>5, <2>1
  <2> QED BY <2>2 DEF UsedSlots, Slots, Links
<1>10. FreeSlotsCounted'
  <2>1. Cardinality(Slots \ UsedSlots') = LINK_QUEUE_CAPACITY * NumLinks
    BY <1>9, SlotsCount
  <2>2. Slots' = Slots
    BY DEF Slots, Links
  <2>3. \A l \in Links : Len(queue'[l]) <= LINK_QUEUE_CAPACITY
    BY <1>2, <1>5, CruAssumption
  <2> QED BY <1>1, <2>1, <2>2, <2>3 DEF FreeSlotsCounted
<1>11. Waiting'
  BY <1>5, LinkEmpty DEF Waiting
<1>12. Filling'
  BY <1>1 DEF Filling
<1> QED BY <1>4, <1>8, <1>10, <1>11, <1>12 DEF CruInv

(* The other calls, and the steps of fillSuperpages() that only look at the *)
(* counters.                                                                *)
LEMMA CruInvInductive == CruInv /\ [Next]_vars => CruInv'
<1> SUFFICES ASSUME CruInv, [Next]_vars PROVE CruInv'
  OBVIOUS
<1>0. ASSUME UNCHANGED <<mDmaState, queue, superpageCounter, mReadyQueue,
                         mLinkQueuesTotalAvailable, firmware, inDriver>>,
             pc' \in {"idle", "read", "move"}, linkIndex' \in 1 .. NumLinks + 1,
             amountAvailable' \in Counter, Filling'
      PROVE  CruInv'
  <2>1. UNCHANGED <<descriptors, superpageCount, emulating, filled>>
    BY <1>0 DEF firmware
  <2>2. TypeOK'
    BY <1>0, <2>1 DEF CruInv, TypeOK
  <2>3. SuperpagesAccounted' /\ Waiting'
    BY <1>0, <2>1 DEF CruInv, SuperpagesAccounted, Waiting
  <2>4. FreeSlotsCounted'
    BY <1>0, <2>1 DEF CruInv, FreeSlotsCounted, UsedSlots
  <2> QED BY <1>0, <2>2, <2>3, <2>4 DEF CruInv
<1>1. CASE UNCHANGED vars
  BY <1>1, <1>0 DEF vars, queues, fill, firmware, CruInv, TypeOK, Filling
<1>2. CASE StopDma
  <2>1. /\ mDmaState' = "STOPPED" /\ emulating' = FALSE /\ pc = "idle"
        /\ UNCHANGED <<queue, superpageCounter, mReadyQueue, mLinkQueuesTotalAvailable, pc,
                       linkIndex, amountAvailable, descriptors, superpageCount, filled, inDriver>>
    BY <1>2 DEF StopDma, queues, fill
  <2>2. TypeOK' /\ SuperpagesAccounted' /\ Waiting' /\ Filling'
    BY <2>1 DEF CruInv, TypeOK, SuperpagesAccounted, Waiting, Filling
  <2>3. FreeSlotsCounted'
    BY <2>1 DEF CruInv, FreeSlotsCounted
  <2> QED BY <2>2, <2>3 DEF CruInv
<1>3. CASE ResetChannel
  <2>1. /\ mDmaState = "STOPPED" /\ descriptors' = [l \in Links |-> << >>]
        /\ superpageCount' = [l \in Links |-> 0] /\ pc = "idle"
        /\ UNCHANGED <<mDmaState, queue, superpageCounter, mReadyQueue, mLinkQueuesTotalAvailable,
                       pc, linkIndex, amountAvailable, emulating, filled, inDriver>>
    BY <1>3 DEF ResetChannel, ResetCru, queues, fill
  <2>2. 0 \in Counter /\ << >> \in Seq(Superpages)
    BY CruAssumption DEF Counter
  <2>3. TypeOK'
    BY <2>1, <2>2 DEF CruInv, TypeOK
  <2>4. SuperpagesAccounted' /\ FreeSlotsCounted' /\ Waiting' /\ Filling'
    BY <2>1 DEF CruInv, SuperpagesAccounted, FreeSlotsCounted, Waiting, Filling
  <2> QED BY <2>3, <2>4 DEF CruInv
<1>4. CASE FillBegin
  <2>1. /\ pc' = "read" /\ linkIndex' = 1 /\ mDmaState = "STARTED"
        /\ UNCHANGED <<mDmaState, queue, superpageCounter, mReadyQueue, mLinkQueuesTotalAvailable,
                       amountAvailable, firmware, inDriver>>
    BY <1>4 DEF FillBegin, queues
  <2>2. linkIndex' \in 1 .. NumLinks + 1
    BY <2>1, CruAssumption
  <2>3. Filling'
    BY <2>1 DEF CruInv, Filling, firmware
  <2> QED BY <1>0, <2>1, <2>2, <2>3 DEF CruInv, TypeOK
<1>5. CASE FillRead
  <2> DEFINE l == linkIndex
             amount == superpageCount[l] - superpageCounter[l]
  <2>1. /\ pc = "read" /\ l \in Links /\ mDmaState = "STARTED"
        /\ UNCHANGED <<mDmaState, queue, superpageCounter, mReadyQueue, mLinkQueuesTotalAvailable,
                       firmware, inDriver>>
    BY <1>5 DEF FillRead, queues, CruInv, TypeOK, Filling, Links
  <2>2. /\ queue[l] \in Seq(Superpages) /\ descriptors[l] \in Seq(Superpages)
        /\ superpageCount[l] \in Counter /\ superpageCounter[l] \in Counter
        /\ superpageCount[l] \in Nat /\ superpageCounter[l] \in Nat
    BY <2>1, CruTypes DEF CruInv
  <2>3. LinkAgrees(queue[l], descriptors[l], superpageCount[l], superpageCounter[l], filled)
    BY <2>1 DEF CruInv, Waiting
  <2>4. ASSUME superpageCount[l] > superpageCounter[l]
        PROVE  amount = Len(queue[l]) - Len(descriptors[l]) /\ ~(amount > Len(queue[l]))
    <3>1. Len(queue[l]) <= LINK_QUEUE_CAPACITY
      BY <2>1 DEF CruInv, FreeSlotsCounted
    <3> QED BY <2>2, <2>3, <2>4, <3>1, LinkAvailable
  <2>5. CASE linkIndex' = linkIndex + 1 /\ UNCHANGED <<pc, amountAvailable>>
    <3>1. linkIndex' \in 1 .. NumLinks + 1
      BY <2>1, <2>5, CruAssumption DEF Links
    <3>2. Filling'
      BY <2>1, <2>5 DEF CruInv, Filling, firmware
    <3> QED BY <1>0, <2>1, <2>5, <3>1, <3>2 DEF CruInv, TypeOK
  <2>6. CASE /\ superpageCount[l] > superpageCounter[l] /\ pc' = "move"
             /\ amountAvailable' = amount /\ UNCHANGED linkIndex
    <3>1. amountAvailable' \in Counter
      BY <2>2, <2>6, CruAssumption DEF Counter
    <3>2. UNCHANGED <<queue, descriptors, emulating>>
      BY <2>1 DEF firmware
    <3>3. amountAvailable' <= Len(queue'[linkIndex']) - Len(descriptors'[linkIndex'])
      <4>1. Len(queue[l]) \in Nat /\ Len(descriptors[l]) \in Nat
        BY <2>2, SetOfSeq
      <4>2. amountAvailable' = Len(queue[l]) - Len(descriptors[l])
        BY <2>4, <2>6
      <4>3. queue'[linkIndex'] = queue[l] /\ descriptors'[linkIndex'] = descriptors[l]
        BY <2>6, <3>2
      <4> QED BY <4>1, <4>2, <4>3
    <3>4. Filling'
      BY <2>1, <2>6, <3>2, <3>3 DEF CruInv, Filling
    <3> QED BY <1>0, <2>1, <2>6, <3>1, <3>4 DEF CruInv, TypeOK
  <2> QED BY <1>5, <2>4, <2>5, <2>6 DEF FillRead
<1>6. CASE FillReturn
  BY <1>6, <1>0 DEF FillReturn, queues, firmware, CruInv, TypeOK, Filling
<1> QED BY <1>1, <1>2, <1>3, <1>4, <1>5, <1>6, StartKeeps, PushKeeps, PopKeeps, MoveKeeps,
           FirmwareKeeps DEF Next, FillSuperpages

(* What the invariant says of the firmware's descriptors, as IsSuffix.      *)
LEMMA InvConsistent == CruInv => DriverConsistent
<1> SUFFICES ASSUME CruInv PROVE DriverConsistent
  OBVIOUS
<1>1. ASSUME mDmaState = "STARTED", NEW l \in Links PROVE IsSuffix(descriptors[l], queue[l])
  <2>1. queue[l] \in Seq(Superpages) /\ descriptors[l] \in Seq(Superpages)
    BY CruTypes DEF CruInv
  <2>2. LinkAgrees(queue[l], descriptors[l], superpageCount[l], superpageCounter[l], filled)
    BY <1>1 DEF CruInv, Waiting
  <2>3. /\ Len(descriptors[l]) <= Len(queue[l])
        /\ \A k \in 1 .. Len(descriptors[l]) :
              descriptors[l][k] = queue[l][Len(queue[l]) - Len(descriptors[l]) + k]
    BY <2>2 DEF LinkAgrees
  <2> QED BY <2>1, <2>3, SuffixOf
<1>2. ASSUME pc = "move" PROVE amountAvailable <= Len(queue[linkIndex])
  <2>1. /\ linkIndex \in Links /\ amountAvailable \in Nat
        /\ amountAvailable <= Len(queue[linkIndex]) - Len(descriptors[linkIndex])
    BY <1>2, CruAssumption DEF CruInv, Filling, TypeOK, Counter
  <2>2. Len(queue[linkIndex]) \in Nat /\ Len(descriptors[linkIndex]) \in Nat
    BY <2>1, CruTypes, SetOfSeq DEF CruInv
  <2> QED BY <2>1, <2>2
<1>3. CountersAgree
  BY <1>1, <1>2 DEF CountersAgree, CruInv, Filling
<1> QED BY <1>3 DEF CruInv, DriverConsistent

(* The queues are empty and DMA is stopped.                                 *)
LEMMA InitCruInv == Init => CruInv
<1> SUFFICES ASSUME Init PROVE CruInv
  OBVIOUS
<1> USE DEF Init
<1>1. /\ << >> \in Seq(Superpages) /\ Len(<< >>) = 0 /\ ToSet(<< >>) = {} /\ Distinct(<< >>)
  BY SetOfEmpty DEF Distinct
<1>2. 0 \in Counter /\ LINK_QUEUE_CAPACITY * NumLinks \in Nat
  BY CruAssumption, SlotsCount DEF Counter
<1>3. TypeOK
  <2>1. queue \in [Links -> Seq(Superpages)] /\ descriptors \in [Links -> Seq(Superpages)]
    BY <1>1
  <2>2. superpageCount \in [Links -> Counter] /\ superpageCounter \in [Links -> Counter]
    BY <1>2
  <2>3. mReadyQueue \in Seq(Superpages) /\ Len(mReadyQueue) <= READY_QUEUE_CAPACITY
    BY <1>1, CruAssumption
  <2>4. linkIndex \in 1 .. NumLinks + 1 /\ amountAvailable \in Counter
    BY <1>2, CruAssumption
  <2>5. mLinkQueuesTotalAvailable \in 0 .. LINK_QUEUE_CAPACITY * NumLinks
    BY <1>2
  <2> QED BY <2>1, <2>2, <2>3, <2>4, <2>5 DEF TypeOK
<1>4. \A l \in Links : queue[l] = << >>
  OBVIOUS
<1>5. UNION {ToSet(queue[l]) : l \in Links} = {}
  BY <1>1, <1>4
<1>6. Apart
  BY <1>1, <1>4, <1>5 DEF Apart
<1>7. SuperpagesAccounted
  BY <1>3, <1>6, ApartIsAccounted DEF TypeOK
<1>8. FreeSlotsCounted /\ Waiting /\ Filling
  <2>1. \A l \in Links : Len(queue[l]) <= LINK_QUEUE_CAPACITY
    BY <1>1, <1>4, CruAssumption
  <2>2. FreeSlotsCounted
    BY <2>1 DEF FreeSlotsCounted
  <2>3. Waiting /\ Filling
    BY DEF Waiting, Filling
  <2> QED BY <2>2, <2>3
<1> QED BY <1>3, <1>7, <1>8 DEF CruInv

(* For any number of links and superpages and any size of the queues, also  *)
(* after the firmware's counter has wrapped: the queues of CruDmaChannel    *)
(* hold every superpage pushed once, getTransferQueueAvailable() is exact,  *)
(* and neither of the exceptions of pushSuperpage() and fillSuperpages()    *)
(* that blame the driver or the firmware is thrown.                         *)
THEOREM DriverConsistentAlways == Spec => []DriverConsistent
<1> QED BY InitCruInv, CruInvInductive, InvConsistent, PTL DEF Spec

-----------------------------------------------------------------------------
(***************************************************************************)
(* The driver implements the interface.                                    *)
(***************************************************************************)
InTransfer == UNION {ToSet(queue[l]) : l \in Links}

(* Both modules speak of the same cardinality.                              *)
LEMMA SameCardinality == \A S : Interface!Cardinality(S) = Cardinality(S)
BY DEF Interface!Cardinality, Cardinality

(* With a free slot there is room in the transfer queue.                    *)
LEMMA RoomInTransfer ==
    ASSUME CruInv, mDmaState = "STARTED", mLinkQueuesTotalAvailable # 0
    PROVE  Cardinality(InTransfer) < LINK_QUEUE_CAPACITY * NumLinks
<1> DEFINE f == [x \in UsedSlots |-> queue[x[1]][x[2]]]
<1>1. \A l \in Links : queue[l] \in Seq(Superpages) /\ Len(queue[l]) \in Nat
                       /\ Len(queue[l]) <= LINK_QUEUE_CAPACITY
                       /\ ToSet(queue[l]) = {queue[l][k] : k \in 1 .. Len(queue[l])}
  BY CruTypes, SetOfSeq DEF CruInv, FreeSlotsCounted
<1>2. \A x \in UsedSlots : x[1] \in Links /\ x[2] \in 1 .. Len(queue[x[1]])
  BY <1>1, CruAssumption DEF UsedSlots, Slots
<1>3. \A l \in Links : \A k \in 1 .. Len(queue[l]) : <<l, k>> \in UsedSlots
  BY <1>1, CruAssumption DEF UsedSlots, Slots
<1>4. ASSUME NEW y PROVE y \in InTransfer <=> \E l \in Links : \E k \in 1 .. Len(queue[l]) : y = queue[l][k]
  BY <1>1 DEF InTransfer
<1>5. f \in [UsedSlots -> InTransfer]
  BY <1>2, <1>4
<1>6. ASSUME NEW y \in InTransfer PROVE \E x \in UsedSlots : f[x] = y
  <2>1. PICK l \in Links : \E k \in 1 .. Len(queue[l]) : y = queue[l][k]
    BY <1>4
  <2>2. PICK k \in 1 .. Len(queue[l]) : y = queue[l][k]
    BY <2>1
  <2>3. <<l, k>> \in UsedSlots /\ f[<<l, k>>] = y
    BY <1>3, <2>2
  <2> QED BY <2>3
<1>7. f \in Surjection(UsedSlots, InTransfer)
  BY <1>5, <1>6 DEF Surjection
<1>8. IsFiniteSet(UsedSlots) /\ UsedSlots \subseteq Slots
  BY SlotsCount, FS_Subset DEF UsedSlots
<1>9. IsFiniteSet(InTransfer) /\ Cardinality(InTransfer) <= Cardinality(UsedSlots)
  BY <1>7, <1>8, FS_Surjection
<1>10. UsedSlots # Slots
  <2>1. Cardinality({}) = 0
    BY FS_EmptySet
  <2>2. Cardinality(Slots \ UsedSlots) # 0
    BY DEF CruInv, FreeSlotsCounted
  <2>3. UsedSlots = Slots => Slots \ UsedSlots = {}
    OBVIOUS
  <2> QED BY <2>1, <2>2, <2>3
<1>11. Cardinality(UsedSlots) < Cardinality(Slots)
  <2>1. Cardinality(UsedSlots) <= Cardinality(Slots) /\ Cardinality(UsedSlots) # Cardinality(Slots)
    BY <1>8, <1>10, SlotsCount, FS_Subset
  <2> QED BY <1>8, <2>1, SlotsCount, FS_CardinalityType
<1>12. Cardinality(UsedSlots) \in Nat /\ Cardinality(InTransfer) \in Nat
  BY <1>8, <1>9, FS_CardinalityType
<1> QED BY <1>9, <1>11, <1>12, SlotsCount

(* Every step is one of the interface, or none.                             *)
LEMMA NextInterface ==
    CruInv /\ [Next]_vars => [Interface!ChannelNext]_(Interface!channelVars)
<1> SUFFICES ASSUME CruInv, [Next]_vars
             PROVE  [Interface!ChannelNext]_(Interface!channelVars)
  OBVIOUS
<1>0. ASSUME UNCHANGED <<mDmaState, queue, mReadyQueue, filled, inDriver>>
      PROVE  UNCHANGED Interface!channelVars
  BY <1>0 DEF Interface!channelVars
<1>a. Apart /\ TypeOK
  BY ApartIsAccounted DEF CruInv, TypeOK
<1>b. ASSUME NEW x PROVE x \in InTransfer <=> \E l \in Links : x \in ToSet(queue[l])
  BY InQueues DEF InTransfer
<1>c. ASSUME NEW x PROVE x \in InTransfer' <=> \E l \in Links : x \in ToSet(queue'[l])
  BY InQueues DEF InTransfer
<1>1. CASE UNCHANGED vars
  BY <1>1, <1>0 DEF vars, queues, firmware
<1>2. CASE StartDma
  <2>1. /\ mDmaState' = "STARTED" /\ queue' = [l \in Links |-> << >>] /\ mReadyQueue' = << >>
        /\ inDriver' = {}
    BY <1>2 DEF StartDma
  <2>2. UNION {ToSet(queue'[l]) : l \in Links} = {}
    BY <2>1, SetOfEmpty
  <2>3. Interface!ChannelStart
    BY <2>1, <2>2 DEF Interface!ChannelStart
  <2> QED BY <2>3 DEF Interface!ChannelNext
<1>3. CASE StopDma
  <2>1. mDmaState' = "STOPPED" /\ UNCHANGED <<queue, mReadyQueue, filled, inDriver>>
    BY <1>3 DEF StopDma, queues
  <2>2. Interface!ChannelStop
    BY <2>1 DEF Interface!ChannelStop
  <2> QED BY <2>2 DEF Interface!ChannelNext
<1>4. CASE ResetChannel
  BY <1>4, <1>0 DEF ResetChannel, queues
<1>5. ASSUME NEW s \in Superpages, PushSuperpage(s)
      PROVE  Interface!ChannelPush(s)
  <2> DEFINE l == NextLinkIndex
  <2>1. /\ l \in Links /\ Len(queue[l]) < LINK_QUEUE_CAPACITY /\ mDmaState = "STARTED"
        /\ queue[l] \in Seq(Superpages) /\ Len(queue[l]) \in Nat
    BY <1>5, PushHasRoom, NextLink, CruTypes DEF CruInv, TypeOK, PushSuperpage
  <2>2. /\ mLinkQueuesTotalAvailable # 0 /\ s \notin inDriver
        /\ queue' = [queue EXCEPT ![l] = Append(@, s)]
        /\ inDriver' = inDriver \cup {s} /\ filled' = filled \ {s}
        /\ UNCHANGED <<mDmaState, mReadyQueue>>
    BY <1>5, <2>1, CruAssumption DEF PushSuperpage
  <2> HIDE DEF l
  <2>3. ToSet(Append(queue[l], s)) = ToSet(queue[l]) \cup {s}
    BY <2>1, SetOfAppend
  <2>4. \A m \in Links : ToSet(queue'[m]) = IF m = l THEN ToSet(queue[m]) \cup {s} ELSE ToSet(queue[m])
    BY <1>a, <2>1, <2>2, <2>3 DEF TypeOK
  <2>5. ASSUME NEW x PROVE x \in InTransfer' <=> x \in InTransfer \/ x = s
    BY <1>b, <1>c, <2>1, <2>4
  <2>6. InTransfer' = InTransfer \cup {s}
    BY <2>5
  <2>7. s \notin InTransfer \cup ToSet(mReadyQueue)
    BY <1>a, <2>2 DEF Apart, InTransfer
  <2>8. Cardinality(InTransfer) < LINK_QUEUE_CAPACITY * NumLinks
    BY <2>1, <2>2, RoomInTransfer
  <2>9. (filled \cap inDriver)' = filled \cap inDriver
    BY <2>2
  <2>10. /\ UNION {ToSet(queue'[m]) : m \in Links} = InTransfer \cup {s}
         /\ s \notin InTransfer \cup Interface!ToSet(mReadyQueue)
    BY <2>6, <2>7 DEF InTransfer, ToSet, Interface!ToSet
  <2>11. Interface!TransferAvailable
    BY <2>8, SameCardinality DEF Interface!TransferAvailable, InTransfer
  <2> QED BY <2>1, <2>2, <2>9, <2>10, <2>11 DEF Interface!ChannelPush, InTransfer
<1>6. CASE PopSuperpage
  <2>1. /\ mReadyQueue # << >> /\ mReadyQueue' = Tail(mReadyQueue)
        /\ inDriver' = inDriver \ {Head(mReadyQueue)}
        /\ UNCHANGED <<mDmaState, queue, filled>>
    BY <1>6 DEF PopSuperpage, firmware
  <2>2. Interface!ChannelPop
    BY <2>1 DEF Interface!ChannelPop
  <2> QED BY <2>2 DEF Interface!ChannelNext
<1>7. CASE FillBegin \/ FillRead \/ FillReturn
  BY <1>7, <1>0 DEF FillBegin, FillRead, FillReturn, queues, firmware
<1>8. CASE FillMove
  <2> DEFINE l == linkIndex
             s == Head(queue[l])
  <2>1. CASE UNCHANGED queues
    BY <1>8, <1>0, <2>1 DEF FillMove, queues, firmware
  <2>2. CASE /\ amountAvailable # 0 /\ mReadyQueue' = Append(mReadyQueue, s)
             /\ queue' = [queue EXCEPT ![l] = Tail(@)]
             /\ UNCHANGED <<mDmaState, firmware, inDriver>>
    <3>1. /\ l \in Links /\ mDmaState = "STARTED" /\ amountAvailable \in Nat
          /\ amountAvailable <= Len(queue[l]) - Len(descriptors[l])
      BY <1>8, CruAssumption DEF CruInv, Filling, FillMove, TypeOK, Counter
    <3>2. /\ queue[l] \in Seq(Superpages) /\ descriptors[l] \in Seq(Superpages)
          /\ superpageCount[l] \in Counter /\ superpageCounter[l] \in Counter
      BY <3>1, CruTypes DEF CruInv
    <3>3. Len(descriptors[l]) < Len(queue[l])
      <4>1. Len(queue[l]) \in Nat /\ Len(descriptors[l]) \in Nat
        BY <3>2, SetOfSeq
      <4> QED BY <2>2, <3>1, <4>1
    <3>4. LinkAgrees(queue[l], descriptors[l], superpageCount[l], superpageCounter[l], filled)
      BY <3>1 DEF CruInv, Waiting
    <3>5. queue[l] # << >> /\ s \in filled
      BY <3>2, <3>3, <3>4, LinkMove
    <3>6. /\ s \in Superpages /\ ToSet(queue[l]) = {s} \cup ToSet(Tail(queue[l]))
          /\ s \notin ToSet(Tail(queue[l]))
      BY <1>a, <3>1, <3>2, <3>5, SetOfTail, DistinctTail DEF Apart
    <3> HIDE DEF s, l
    <3>7. \A m \in Links : queue'[m] = IF m = l THEN Tail(queue[m]) ELSE queue[m]
      BY <1>a, <2>2, <3>1 DEF TypeOK
    <3>8. ASSUME NEW m \in Links PROVE ToSet(queue'[m]) = ToSet(queue[m]) \ {s}
      <4>1. CASE m = l
        BY <3>6, <3>7, <4>1
      <4>2. CASE m # l
        <5>1. s \notin ToSet(queue[m])
          BY <1>a, <3>1, <3>6, <4>2 DEF Apart
        <5> QED BY <3>7, <4>2, <5>1
      <4> QED BY <4>1, <4>2
    <3>9. ASSUME NEW x PROVE x \in InTransfer' <=> x \in InTransfer /\ x # s
      BY <1>b, <1>c, <3>8
    <3>10. InTransfer' = InTransfer \ {s}
      BY <3>9
    <3>11. s \in InTransfer
      BY <1>b, <3>1, <3>6
    <3>12. s \in inDriver
      BY <1>a, <3>11 DEF Apart, InTransfer
    <3>13. UNCHANGED filled
      BY <2>2 DEF firmware
    <3>14. Interface!ChannelArrive(s)
      BY <2>2, <3>5, <3>10, <3>11, <3>12, <3>13 DEF Interface!ChannelArrive, InTransfer
    <3> QED BY <3>6, <3>14 DEF Interface!ChannelNext
  <2> QED BY <1>8, <2>1, <2>2 DEF FillMove
<1>9. ASSUME NEW l \in Links, FirmwareFills(l) PROVE [Interface!ChannelNext]_(Interface!channelVars)
  <2> DEFINE s == Head(descriptors[l])
  <2>1. filled' = filled \cup {s} /\ UNCHANGED <<mDmaState, queue, mReadyQueue, inDriver>>
    BY <1>9 DEF FirmwareFills, queues
  <2>2. s \in ToSet(queue[l])
    BY <1>9, FirmwareKeeps
  <2>3. s \in InTransfer
    BY <1>b, <2>2
  <2>4. s \in inDriver
    BY <1>a, <2>3 DEF Apart, InTransfer
  <2>5. s \in Superpages
    BY <1>a, <2>4 DEF TypeOK
  <2> HIDE DEF s
  <2>6. CASE s \in filled
    <3>1. filled' = filled
      BY <2>1, <2>6
    <3> QED BY <1>0, <2>1, <3>1
  <2>7. CASE s \notin filled
    <3>1. Interface!ChannelComplete(s)
      BY <2>1, <2>3, <2>4, <2>7 DEF Interface!ChannelComplete, InTransfer
    <3> QED BY <2>5, <3>1 DEF Interface!ChannelNext
  <2> QED BY <2>6, <2>7
<1>10. ASSUME NEW s \in Superpages, PushSuperpage(s) PROVE Interface!ChannelNext
  BY <1>5, <1>10 DEF Interface!ChannelNext
<1> QED BY <1>1, <1>2, <1>3, <1>4, <1>6, <1>7, <1>8, <1>9, <1>10 DEF Next, FillSuperpages

(* For any number of links and superpages and any size of the queues, also  *)
(* after the firmware's counter has wrapped: CruDmaChannel is the channel   *)
(* of DmaChannelInterface.h, which gives back every superpage at most once, *)
(* and only when the firmware has filled it.                                *)
THEOREM ImplementsInterfaceAlways == Spec => ImplementsInterface
<1>1. Init => Interface!ChannelInit
  <2> SUFFICES ASSUME Init PROVE Interface!ChannelInit
    OBVIOUS
  <2>1. UNION {ToSet(queue[l]) : l \in Links} = {}
    BY SetOfEmpty DEF Init
  <2> QED BY <2>1 DEF Init, Interface!ChannelInit
<1>2. Spec => []CruInv
  BY InitCruInv, CruInvInductive, PTL DEF Spec
<1> QED BY <1>1, <1>2, NextInterface, PTL DEF Spec, ImplementsInterface, Interface!ChannelSpec
=============================================================================
