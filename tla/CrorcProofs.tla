---------------------------- MODULE CrorcProofs -----------------------------
(***************************************************************************)
(* Proofs about the driver of the C-RORC, for any number of superpages,    *)
(* any size of the registry and any superpages that are not smaller than   *)
(* the ready FIFO is long.                                                 *)
(***************************************************************************)
EXTENDS CrorcDmaChannel, SequenceFacts

\* startPendingDma() pushes as many pages as the ready FIFO has entries into the
\* first superpage, whatever its size.
FullStart == READYFIFO_ENTRIES <= maxPages

(***************************************************************************)
(* The registry is a ring: the id that was given out at the j-th addition  *)
(* from the last one, and its entry.                                       *)
(***************************************************************************)
Back(j) == IF j <= mNextId THEN mNextId - j ELSE mNextId - j + MAX_SUPERPAGES
Aged(j) == mRegistry[Back(j)]
Ages == 1 .. MAX_SUPERPAGES

\* The queues hold what was added last: the youngest are in the pushing queue,
\* they and some older ones in the arrivals queue, and the oldest are filled.
QueueInv ==
    /\ Len(mPushing) <= Len(mArrivals)
    /\ Len(mFilled) + Len(mArrivals) = mNumberOfEntries
    /\ \A k \in 1 .. Len(mPushing) : mPushing[k] = Back(Len(mPushing) + 1 - k)
    /\ \A k \in 1 .. Len(mArrivals) : mArrivals[k] = Back(Len(mArrivals) + 1 - k)
    /\ \A k \in 1 .. Len(mFilled) : mFilled[k] = Back(mNumberOfEntries + 1 - k)
    /\ \A j \in Ages : Valid(Aged(j)) <=> j <= mNumberOfEntries

\* The client's list is the same, and it pushes no superpage twice.
OrderInv ==
    /\ Len(inDriver) = mNumberOfEntries
    /\ \A k \in 1 .. mNumberOfEntries : inDriver[k] = Aged(mNumberOfEntries + 1 - k).superpage
    /\ Distinct(inDriver)

\* Only the two oldest of the superpages still arriving have pages pushed: at most
\* one of them has them all, as the ready FIFO has no entries for more.
PageInv ==
    LET a == Len(mArrivals)
        p == Len(mPushing)
    IN  /\ a <= p + 1
        /\ \A j \in 1 .. a :
             /\ j > p => Aged(j).pushedPages = maxPages
             /\ j = p => Aged(j).pushedPages < maxPages
             /\ j < p => Aged(j).pushedPages = 0
             /\ j < a => Aged(j).received = 0
             /\ j = a => Aged(j).received < maxPages
        /\ a = 0 => mFifoSize = 0
        /\ a # 0 /\ p = a => mFifoSize = Aged(a).pushedPages - Aged(a).received
        /\ a # 0 /\ p # a /\ p = 0 => mFifoSize = maxPages - Aged(a).received
        /\ a # 0 /\ p # a /\ p # 0 => mFifoSize = maxPages - Aged(a).received + Aged(p).pushedPages

\* Before startPendingDma() nothing is pushed, and while it waits one ready FIFO is.
StartInv ==
    LET a == Len(mArrivals)
    IN  /\ pc # "undefined"
        /\ pc = "arrivals" => ~mPendingDmaStart
        /\ pc = "idle" /\ mPendingDmaStart =>
             /\ mFifoBack = 0 /\ Len(mPushing) = a
             /\ a # 0 => Aged(a).pushedPages = 0 /\ Aged(a).received = 0
        /\ pc = "starting" =>
             /\ mPendingDmaStart /\ mFifoBack = 0 /\ mFifoSize = READYFIFO_ENTRIES
             /\ a # 0 /\ Aged(a).received = 0

CrorcInv == TypeOK /\ QueueInv /\ OrderInv /\ PageInv /\ StartInv

\* The k-th entry of the ready FIFO from the oldest in use.
SlotAt(k) == (mFifoBack + k) % READYFIFO_ENTRIES

\* The page that the k-th entry in use reports.
Target(k) ==
    LET a == Len(mArrivals)
        n == Aged(a).received + k
    IN  IF n < maxPages THEN [superpage |-> Aged(a).superpage, page |-> n]
        ELSE [superpage |-> Aged(a - 1).superpage, page |-> n - maxPages]

\* The number of entries in use that the card has filled, and whether the card
\* works on them: until the next start clears them the descriptors are old ones.
Taken == mFifoSize - Len(freeFifo)
Active == ~mPendingDmaStart \/ pc = "starting"

\* The card has the last of the entries in use to fill, each for its page ...
WindowInv ==
    Active => /\ Taken >= 0
              /\ \A k \in 1 .. Len(freeFifo) :
                   /\ freeFifo[k].index = SlotAt(Taken + k - 1)
                   /\ freeFifo[k].superpage = Target(Taken + k - 1).superpage
                   /\ freeFifo[k].page = Target(Taken + k - 1).page

\* ... and behind them nothing is reported.
NothingBehind ==
    Active => \A k \in mFifoSize .. READYFIFO_ENTRIES - 1 : readyFifo[SlotAt(k)] = "none"

\* What the driver counts as received was written, ...
ReceivedWritten ==
    LET a == Len(mArrivals)
    IN  /\ \A s \in Superpages : written[s] \subseteq Pages
        /\ \A j \in a + 1 .. mNumberOfEntries : written[Aged(j).superpage] = Pages
        /\ a # 0 => \A n \in 0 .. Aged(a).received - 1 : n \in written[Aged(a).superpage]

\* ... and what it finds reported too.
ReportedWritten ==
    Active => \A k \in 0 .. Taken - 1 :
                readyFifo[SlotAt(k)] = "whole" => Target(k).page \in written[Target(k).superpage]

CardInv == /\ DescriptorsApart /\ WindowInv /\ NothingBehind
           /\ ReceivedWritten /\ ReportedWritten

\* What holds also after a start without its initial pages: the addresses are right,
\* and nothing is filled before a start, which looks for its pages itself.
PagesInv ==
    /\ \A s \in Superpages : written[s] \subseteq Pages
    /\ \A k \in 1 .. Len(freeFifo) : freeFifo[k].page \in Pages
    /\ mPendingDmaStart => Len(mFilled) = 0
    /\ pc = "starting" => ~initialMissing

\* From a start without its initial pages to the next one nothing is known of the card.
DriverInv == CrorcInv /\ PagesInv /\ (initialMissing \/ CardInv)

(* Counting back gives every id once.                                        *)
LEMMA BackFacts ==
    ASSUME TypeOK
    PROVE  /\ \A j \in Ages : Back(j) \in EntryId
           /\ \A i, j \in Ages : Back(i) = Back(j) => i = j
           /\ \A id \in EntryId : \E j \in Ages : Back(j) = id
           /\ Back(MAX_SUPERPAGES) = mNextId /\ MAX_SUPERPAGES \in Ages
<1>1. mNextId \in EntryId /\ MAX_SUPERPAGES \in Nat \ {0}
  BY CrorcAssumption DEF TypeOK
<1>2. \A j \in Ages : Back(j) \in EntryId
  BY <1>1 DEF Back, Ages, EntryId
<1>3. \A i, j \in Ages : Back(i) = Back(j) => i = j
  BY <1>1 DEF Back, Ages, EntryId
<1>4. ASSUME NEW id \in EntryId PROVE \E j \in Ages : Back(j) = id
  <2> DEFINE j == IF id < mNextId THEN mNextId - id ELSE mNextId - id + MAX_SUPERPAGES
  <2>1. j \in Ages /\ Back(j) = id
    BY <1>1 DEF Back, Ages, EntryId
  <2> QED BY <2>1
<1>5. Back(MAX_SUPERPAGES) = mNextId /\ MAX_SUPERPAGES \in Ages
  BY <1>1 DEF Back, Ages, EntryId
<1> QED BY <1>2, <1>3, <1>4, <1>5

(* An addition makes the others one older.                                   *)
LEMMA BackAdded ==
    ASSUME TypeOK, mNextId' = (mNextId + 1) % MAX_SUPERPAGES
    PROVE  /\ mNextId' \in EntryId
           /\ \A j \in Ages : Back(j)' = IF j = 1 THEN mNextId ELSE Back(j - 1)
<1>1. mNextId \in 0 .. MAX_SUPERPAGES - 1 /\ MAX_SUPERPAGES \in Nat \ {0}
  BY CrorcAssumption DEF TypeOK, EntryId
<1>2. mNextId' = IF mNextId + 1 = MAX_SUPERPAGES THEN 0 ELSE mNextId + 1
  BY <1>1
<1> QED BY <1>1, <1>2 DEF Back, Ages, EntryId

(* Every entry of the registry has an age.                                   *)
LEMMA AgedFacts ==
    ASSUME TypeOK
    PROVE  \A j \in Ages : /\ Aged(j) \in Entry /\ Aged(j).superpage \in Superpages
                           /\ Aged(j).pushedPages \in Nat \cup {-1} /\ Aged(j).received \in Nat
BY BackFacts DEF TypeOK, Aged, Entry

(* One entry changes.                                                        *)
LEMMA AgedChanged ==
    ASSUME TypeOK, NEW i \in Ages, NEW e \in Entry, mNextId' = mNextId,
           mRegistry' = [mRegistry EXCEPT ![Back(i)] = e]
    PROVE  /\ mRegistry' \in [EntryId -> Entry]
           /\ \A j \in Ages : Aged(j)' = IF j = i THEN e ELSE Aged(j)
<1>1. \A j \in Ages : Back(j)' = Back(j)
  BY DEF Back
<1>2. mRegistry \in [EntryId -> Entry]
  BY DEF TypeOK
<1> QED BY <1>1, <1>2, BackFacts DEF Aged

(* addToQueue().                                                             *)
LEMMA AgedAdded ==
    ASSUME TypeOK, NEW e \in Entry, AddToQueue(e)
    PROVE  /\ mRegistry' \in [EntryId -> Entry]
           /\ \A j \in Ages : Aged(j)' = IF j = 1 THEN e ELSE Aged(j - 1)
<1>1. /\ mRegistry \in [EntryId -> Entry] /\ mNextId \in EntryId
      /\ mRegistry' = [mRegistry EXCEPT ![mNextId] = e]
  BY DEF TypeOK, AddToQueue
<1>2. \A j \in Ages : Back(j)' = IF j = 1 THEN mNextId ELSE Back(j - 1)
  BY BackAdded DEF AddToQueue
<1>3. \A j \in Ages : j # 1 => j - 1 \in Ages /\ j - 1 # MAX_SUPERPAGES
  BY CrorcAssumption DEF Ages
<1>4. \A j \in Ages : j # 1 => Back(j - 1) \in EntryId /\ Back(j - 1) # mNextId
  BY <1>3, BackFacts
<1> QED BY <1>1, <1>2, <1>4 DEF Aged

(* Nothing changes when neither the registry nor the next id does.           *)
LEMMA AgedKept ==
    ASSUME mRegistry' = mRegistry, mNextId' = mNextId
    PROVE  \A j \in Ages : Aged(j)' = Aged(j) /\ Back(j)' = Back(j)
BY DEF Aged, Back

-----------------------------------------------------------------------------
(* Where the fronts of the queues are.                                       *)
LEMMA QueueFacts ==
    ASSUME TypeOK, QueueInv
    PROVE  /\ mPushing \in Seq(EntryId) /\ mArrivals \in Seq(EntryId) /\ mFilled \in Seq(EntryId)
           /\ Len(mPushing) \in Nat /\ Len(mArrivals) \in Nat /\ Len(mFilled) \in Nat
           /\ Len(mPushing) <= Len(mArrivals) /\ Len(mArrivals) <= mNumberOfEntries
           /\ Len(mFilled) = mNumberOfEntries - Len(mArrivals)
           /\ mNumberOfEntries \in Nat /\ mNumberOfEntries <= MAX_SUPERPAGES
           /\ MAX_SUPERPAGES \in Nat \ {0}
           /\ \A j \in 1 .. mNumberOfEntries : j \in Ages
           /\ mPushing # << >> => Len(mPushing) # 0 /\ Head(mPushing) = Back(Len(mPushing))
           /\ mArrivals # << >> => Len(mArrivals) # 0 /\ Head(mArrivals) = Back(Len(mArrivals))
           /\ mFilled # << >> => Len(mFilled) # 0 /\ Head(mFilled) = Back(mNumberOfEntries)
<1>1. /\ mPushing \in Seq(EntryId) /\ mArrivals \in Seq(EntryId) /\ mFilled \in Seq(EntryId)
      /\ mNumberOfEntries \in Nat /\ mNumberOfEntries <= MAX_SUPERPAGES /\ MAX_SUPERPAGES \in Nat \ {0}
  BY CrorcAssumption DEF TypeOK
<1>2. /\ Len(mPushing) \in Nat /\ Len(mArrivals) \in Nat /\ Len(mFilled) \in Nat
      /\ mPushing # << >> => Len(mPushing) # 0 /\ Head(mPushing) = mPushing[1]
      /\ mArrivals # << >> => Len(mArrivals) # 0 /\ Head(mArrivals) = mArrivals[1]
      /\ mFilled # << >> => Len(mFilled) # 0 /\ Head(mFilled) = mFilled[1]
  BY <1>1, SetOfSeq, SetOfTail
<1>3. /\ Len(mPushing) <= Len(mArrivals)
      /\ Len(mFilled) = mNumberOfEntries - Len(mArrivals) /\ Len(mArrivals) <= mNumberOfEntries
  BY <1>1, <1>2 DEF QueueInv
<1>4. \A j \in 1 .. mNumberOfEntries : j \in Ages
  BY <1>1 DEF Ages
<1>5. ASSUME mPushing # << >> PROVE Head(mPushing) = Back(Len(mPushing))
  <2>1. 1 \in 1 .. Len(mPushing) /\ Len(mPushing) + 1 - 1 = Len(mPushing)
    BY <1>2, <1>5
  <2> QED BY <1>2, <1>5, <2>1 DEF QueueInv
<1>6. ASSUME mArrivals # << >> PROVE Head(mArrivals) = Back(Len(mArrivals))
  <2>1. 1 \in 1 .. Len(mArrivals) /\ Len(mArrivals) + 1 - 1 = Len(mArrivals)
    BY <1>2, <1>6
  <2> QED BY <1>2, <1>6, <2>1 DEF QueueInv
<1>7. ASSUME mFilled # << >> PROVE Head(mFilled) = Back(mNumberOfEntries)
  <2>1. 1 \in 1 .. Len(mFilled) /\ mNumberOfEntries + 1 - 1 = mNumberOfEntries
    BY <1>1, <1>2, <1>7
  <2> QED BY <1>2, <1>7, <2>1 DEF QueueInv
<1> QED BY <1>1, <1>2, <1>3, <1>4, <1>5, <1>6, <1>7

(* The invariant depends on the queues and the counters only, except at the  *)
(* two waits.                                                                *)
LEMMA InvKept ==
    ASSUME QueueInv, OrderInv, PageInv, UNCHANGED <<queueVars, inDriver, mFifoSize>>
    PROVE  QueueInv' /\ OrderInv' /\ PageInv'
<1>1. \A j : Aged(j)' = Aged(j) /\ Back(j)' = Back(j)
  BY DEF Aged, Back, queueVars
<1>2. QueueInv'
  BY <1>1 DEF QueueInv, queueVars, Valid
<1>3. OrderInv'
  BY <1>1 DEF OrderInv, queueVars, Distinct
<1>4. PageInv'
  BY <1>1 DEF PageInv, queueVars
<1> QED BY <1>2, <1>3, <1>4

(* Nothing is in the driver.                                                 *)
LEMMA InitCrorcInv == Init => CrorcInv
<1> SUFFICES ASSUME Init PROVE CrorcInv
  OBVIOUS
<1>0. /\ READYFIFO_ENTRIES \in Nat \ {0} /\ MAX_SUPERPAGES \in Nat \ {0}
      /\ \E s \in Superpages : TRUE
  BY CrorcAssumption
<1>1. TypeOK
  <2> DEFINE s0 == CHOOSE s \in Superpages : TRUE
             e0 == [superpage |-> s0, pushedPages |-> -1, received |-> 0, ready |-> FALSE]
  <2>1. s0 \in Superpages
    BY <1>0
  <2>2. e0 \in Entry
    BY <2>1 DEF Entry
  <2>3. mRegistry = [k \in EntryId |-> e0]
    BY DEF Init
  <2> HIDE DEF e0
  <2>4. mRegistry \in [EntryId -> Entry]
    BY <2>2, <2>3
  <2>5. 0 \in EntryId /\ 0 \in FifoIndex
    BY <1>0 DEF EntryId, FifoIndex
  <2>6. written \in [Superpages -> SUBSET Nat]
    BY DEF Init
  <2>7. /\ mFifoSize \in 0 .. READYFIFO_ENTRIES /\ mNumberOfEntries \in 0 .. MAX_SUPERPAGES
        /\ mPushing \in Seq(EntryId) /\ mArrivals \in Seq(EntryId) /\ mFilled \in Seq(EntryId)
    BY <1>0 DEF Init
  <2>8. /\ readyFifo \in [FifoIndex -> {"none", "part", "whole", "error"}]
        /\ freeFifo \in Seq([superpage : Superpages, page : Nat, index : FifoIndex])
        /\ inDriver \in Seq(Superpages)
    BY DEF Init
  <2>9. /\ mDmaState = "STOPPED" /\ pc = "idle" /\ mPendingDmaStart \in BOOLEAN /\ receiving \in BOOLEAN
        /\ initialMissing \in BOOLEAN /\ mFifoBack = 0 /\ mNextId = 0
    BY DEF Init
  <2> QED BY <2>4, <2>5, <2>6, <2>7, <2>8, <2>9 DEF TypeOK
<1>2. Len(mPushing) = 0 /\ Len(mArrivals) = 0 /\ Len(mFilled) = 0 /\ Len(inDriver) = 0 /\ mNumberOfEntries = 0
  BY DEF Init
<1>3. \A j \in Ages : ~Valid(Aged(j))
  BY <1>1, BackFacts DEF Aged, Valid, Init
<1>4. QueueInv
  BY <1>2, <1>3 DEF QueueInv, Ages
<1>5. OrderInv
  BY <1>2 DEF OrderInv, Distinct
<1>6. PageInv
  BY <1>2 DEF PageInv, Init
<1>7. StartInv
  BY <1>2 DEF StartInv, Init
<1> QED BY <1>1, <1>4, <1>5, <1>6, <1>7 DEF CrorcInv

(* startDma().                                                               *)
LEMMA StartInvariant == CrorcInv /\ StartDma => CrorcInv'
<1> SUFFICES ASSUME CrorcInv, StartDma PROVE CrorcInv'
  OBVIOUS
<1>0. /\ READYFIFO_ENTRIES \in Nat \ {0} /\ MAX_SUPERPAGES \in Nat \ {0} /\ TypeOK
      /\ mRegistry' = [k \in EntryId |-> [mRegistry[k] EXCEPT !.pushedPages = -1]]
      /\ mNextId' = 0
  BY CrorcAssumption DEF CrorcInv, StartDma, ClearQueue
<1>1. mRegistry' \in [EntryId -> Entry] /\ \A id \in EntryId : mRegistry'[id].pushedPages = -1
  BY <1>0 DEF TypeOK, Entry
<1>2. TypeOK'
  BY <1>0, <1>1 DEF StartDma, ClearQueue, TypeOK, FifoIndex, EntryId, cardVars
<1>3. /\ Len(mPushing') = 0 /\ Len(mArrivals') = 0 /\ Len(mFilled') = 0 /\ Len(inDriver') = 0
      /\ mNumberOfEntries' = 0
  BY DEF StartDma, ClearQueue
<1>4. \A j \in Ages : ~Valid(Aged(j)')
  <2>1. \A j \in Ages : Back(j)' \in EntryId
    BY <1>0 DEF Back, Ages, EntryId
  <2> QED BY <1>1, <2>1 DEF Aged, Valid
<1>5. QueueInv'
  BY <1>3, <1>4 DEF QueueInv, Ages, Valid
<1>6. OrderInv'
  BY <1>3 DEF OrderInv, Distinct
<1>7. PageInv'
  BY <1>3 DEF PageInv, StartDma
<1>8. StartInv'
  BY <1>3 DEF StartInv, StartDma
<1> QED BY <1>2, <1>5, <1>6, <1>7, <1>8 DEF CrorcInv

(* pushSuperpage(): the new superpage is the youngest.                       *)
LEMMA PushInvariant == ASSUME CrorcInv, NEW s \in Superpages, PushSuperpage(s) PROVE CrorcInv'
<1> DEFINE e == [superpage |-> s, pushedPages |-> 0, received |-> 0, ready |-> FALSE]
<1>a. PICK a, p, n : a = Len(mArrivals) /\ p = Len(mPushing) /\ n = mNumberOfEntries
  OBVIOUS
<1>0. TypeOK /\ QueueInv /\ OrderInv /\ PageInv /\ StartInv
  BY DEF CrorcInv
<1>1. e \in Entry /\ Valid(e) /\ e.pushedPages = 0 /\ e.received = 0 /\ e.superpage = s
  BY DEF Entry, Valid
<1>2. /\ AddToQueue(e) /\ n < MAX_SUPERPAGES /\ mNumberOfEntries' = n + 1 /\ mFilled' = mFilled
      /\ mPushing' = Append(mPushing, mNextId) /\ mArrivals' = Append(mArrivals, mNextId)
      /\ inDriver' = Append(inDriver, s) /\ s \notin ToSet(inDriver)
      /\ pc = "idle" /\ mDmaState = "STARTED" /\ written' = [written EXCEPT ![s] = {}]
      /\ UNCHANGED <<mDmaState, mPendingDmaStart, mFifoBack, mFifoSize, pc, readyFifo, freeFifo, receiving,
                     initialMissing>>
  BY <1>a DEF PushSuperpage, AddToQueue
<1> HIDE DEF e
<1>3. /\ mRegistry' \in [EntryId -> Entry] /\ mNextId \in EntryId /\ mNextId' \in EntryId
      /\ \A j \in Ages : Aged(j)' = IF j = 1 THEN e ELSE Aged(j - 1)
      /\ \A j \in Ages : Back(j)' = IF j = 1 THEN mNextId ELSE Back(j - 1)
  BY <1>0, <1>1, <1>2, AgedAdded, BackAdded DEF AddToQueue, TypeOK
<1>4. /\ mPushing \in Seq(EntryId) /\ mArrivals \in Seq(EntryId) /\ mFilled \in Seq(EntryId)
      /\ p \in Nat /\ a \in Nat /\ n \in Nat /\ p <= a /\ a <= n /\ Len(mFilled) = n - a
      /\ \A j \in 1 .. n : j \in Ages /\ j + 1 \in Ages
      /\ MAX_SUPERPAGES \in Nat \ {0}
  BY <1>a, <1>0, <1>2, QueueFacts DEF Ages
<1>5. /\ mPushing' \in Seq(EntryId) /\ Len(mPushing') = p + 1 /\ mPushing'[p + 1] = mNextId
      /\ \A k \in 1 .. p : mPushing'[k] = mPushing[k]
      /\ mArrivals' \in Seq(EntryId) /\ Len(mArrivals') = a + 1 /\ mArrivals'[a + 1] = mNextId
      /\ \A k \in 1 .. a : mArrivals'[k] = mArrivals[k]
  BY <1>a, <1>2, <1>3, <1>4, SetOfAppend
<1>6. inDriver \in Seq(Superpages) /\ Len(inDriver) = n
  BY <1>a, <1>0 DEF TypeOK, OrderInv
<1>7. /\ inDriver' \in Seq(Superpages) /\ Len(inDriver') = n + 1 /\ inDriver'[n + 1] = s
      /\ \A k \in 1 .. n : inDriver'[k] = inDriver[k]
      /\ Distinct(inDriver')
  BY <1>0, <1>2, <1>6, SetOfAppend, DistinctAppend DEF OrderInv
<1>8. TypeOK'
  <2>1. mNumberOfEntries' \in 0 .. MAX_SUPERPAGES
    BY <1>2, <1>4
  <2>2. written' \in [Superpages -> SUBSET Nat]
    BY <1>0, <1>2 DEF TypeOK
  <2> QED BY <1>0, <1>2, <1>3, <1>4, <1>5, <1>7, <2>1, <2>2, <1>a DEF TypeOK
<1>9. ASSUME NEW k \in 1 .. p + 1 PROVE mPushing'[k] = Back((p + 1) + 1 - k)'
  <2>1. CASE k = p + 1
    <3>1. (p + 1) + 1 - k = 1 /\ 1 \in Ages
      BY <1>4, <2>1 DEF Ages
    <3> QED BY <1>3, <1>5, <2>1, <3>1
  <2>2. CASE k # p + 1
    <3>1. k \in 1 .. p /\ (p + 1) + 1 - k \in Ages /\ (p + 1) + 1 - k # 1
          /\ ((p + 1) + 1 - k) - 1 = p + 1 - k
      BY <1>2, <1>4, <2>2 DEF Ages
    <3> QED BY <1>0, <1>3, <1>5, <3>1, <1>a DEF QueueInv
  <2> QED BY <2>1, <2>2
<1>10. ASSUME NEW k \in 1 .. a + 1 PROVE mArrivals'[k] = Back((a + 1) + 1 - k)'
  <2>1. CASE k = a + 1
    <3>1. (a + 1) + 1 - k = 1 /\ 1 \in Ages
      BY <1>4, <2>1 DEF Ages
    <3> QED BY <1>3, <1>5, <2>1, <3>1
  <2>2. CASE k # a + 1
    <3>1. k \in 1 .. a /\ (a + 1) + 1 - k \in Ages /\ (a + 1) + 1 - k # 1
          /\ ((a + 1) + 1 - k) - 1 = a + 1 - k
      BY <1>2, <1>4, <2>2 DEF Ages
    <3> QED BY <1>0, <1>3, <1>5, <3>1, <1>a DEF QueueInv
  <2> QED BY <2>1, <2>2
<1>11. ASSUME NEW k \in 1 .. n - a PROVE mFilled[k] = Back((n + 1) + 1 - k)'
  <2>1. /\ (n + 1) + 1 - k \in Ages /\ (n + 1) + 1 - k # 1 /\ ((n + 1) + 1 - k) - 1 = n + 1 - k
    BY <1>2, <1>4 DEF Ages
  <2> QED BY <1>0, <1>3, <1>4, <2>1, <1>a DEF QueueInv
<1>12. ASSUME NEW j \in Ages PROVE Valid(Aged(j)') <=> j <= n + 1
  <2>1. CASE j = 1
    BY <1>1, <1>3, <1>4, <2>1
  <2>2. CASE j # 1
    <3>1. j - 1 \in Ages /\ (j - 1 <= n <=> j <= n + 1)
      BY <1>4, <2>2 DEF Ages
    <3> QED BY <1>0, <1>3, <2>2, <3>1, <1>a DEF QueueInv
  <2> QED BY <2>1, <2>2
<1>13. QueueInv'
  <2>1. p + 1 <= a + 1 /\ (n - a) + (a + 1) = n + 1
    BY <1>4
  <2> QED BY <1>2, <1>4, <1>5, <1>9, <1>10, <1>11, <1>12, <2>1, <1>a DEF QueueInv, Valid
<1>14. OrderInv'
  <2>1. ASSUME NEW k \in 1 .. n + 1 PROVE inDriver'[k] = (Aged((n + 1) + 1 - k)').superpage
    <3>1. CASE k = n + 1
      <4>1. (n + 1) + 1 - k = 1 /\ 1 \in Ages
        BY <1>4, <3>1 DEF Ages
      <4> QED BY <1>1, <1>3, <1>7, <3>1, <4>1
    <3>2. CASE k # n + 1
      <4>1. k \in 1 .. n /\ (n + 1) + 1 - k \in Ages /\ (n + 1) + 1 - k # 1
            /\ ((n + 1) + 1 - k) - 1 = n + 1 - k
        BY <1>2, <1>4, <3>2 DEF Ages
      <4> QED BY <1>0, <1>3, <1>7, <4>1, <1>a DEF OrderInv
    <3> QED BY <3>1, <3>2
  <2> QED BY <1>2, <1>7, <2>1, <1>a DEF OrderInv
<1>15. /\ Aged(1)' = e
       /\ \A j \in 1 .. a : j \in Ages /\ j + 1 \in Ages /\ Aged(j + 1)' = Aged(j)
  <2>1. \A j \in 1 .. a : j \in Ages /\ j + 1 \in Ages /\ (j + 1) - 1 = j /\ j + 1 # 1
    BY <1>4
  <2>2. 1 \in Ages
    BY <1>4 DEF Ages
  <2> QED BY <1>3, <2>1, <2>2
<1>16. PageInv'
  <2>0. maxPages \in Nat \ {0} /\ mFifoSize \in Nat
    BY <1>0, CrorcAssumption DEF TypeOK
  <2>1. /\ a <= p + 1
        /\ a # 0 /\ p = a => mFifoSize = Aged(a).pushedPages - Aged(a).received
        /\ a # 0 /\ p # a /\ p = 0 => mFifoSize = maxPages - Aged(a).received
        /\ a # 0 /\ p # a /\ p # 0 => mFifoSize = maxPages - Aged(a).received + Aged(p).pushedPages
        /\ a = 0 => mFifoSize = 0
    BY <1>0, <1>a DEF PageInv
  <2>2. ASSUME NEW j \in 1 .. a + 1
        PROVE  /\ j > p + 1 => (Aged(j)').pushedPages = maxPages
               /\ j = p + 1 => (Aged(j)').pushedPages < maxPages
               /\ j < p + 1 => (Aged(j)').pushedPages = 0
               /\ j < a + 1 => (Aged(j)').received = 0
               /\ j = a + 1 => (Aged(j)').received < maxPages
    <3>1. CASE j = 1
      BY <1>1, <1>4, <1>15, <2>0, <3>1
    <3>2. CASE j # 1
      <4>1. PICK i \in 1 .. a : j = i + 1
        BY <1>4, <3>2
      <4>2. Aged(j)' = Aged(i)
        BY <1>15, <4>1
      <4>3. /\ i > p => Aged(i).pushedPages = maxPages
            /\ i = p => Aged(i).pushedPages < maxPages
            /\ i < p => Aged(i).pushedPages = 0
            /\ i < a => Aged(i).received = 0
            /\ i = a => Aged(i).received < maxPages
        BY <1>0, <4>1, <1>a DEF PageInv
      <4> QED BY <1>4, <4>1, <4>2, <4>3
    <3> QED BY <3>1, <3>2
  <2>3. a # 0 => a \in 1 .. a /\ Aged(a + 1)' = Aged(a)
    BY <1>4, <1>15
  <2>4. p # 0 => p \in 1 .. a /\ Aged(p + 1)' = Aged(p)
    BY <1>4, <1>15
  <2>5. /\ a + 1 <= (p + 1) + 1 /\ a + 1 # 0 /\ p + 1 # 0
    BY <1>4, <2>1
  <2>6. p + 1 = a + 1 => mFifoSize = (Aged(a + 1)').pushedPages - (Aged(a + 1)').received
    <3>1. CASE a = 0
      BY <1>1, <1>4, <1>15, <2>1, <3>1
    <3>2. CASE a # 0
      BY <1>4, <2>1, <2>3, <3>2
    <3> QED BY <3>1, <3>2
  <2>7. p + 1 # a + 1 => mFifoSize = maxPages - (Aged(a + 1)').received + (Aged(p + 1)').pushedPages
    <3>1. CASE p = 0
      <4>1. p # a => a # 0 /\ mFifoSize = maxPages - Aged(a).received /\ Aged(a).received \in Nat
        BY <1>0, <1>4, <1>15, <2>1, <3>1, <2>3, AgedFacts
      <4> QED BY <1>1, <1>4, <1>15, <2>0, <2>3, <3>1, <4>1
    <3>2. CASE p # 0
      BY <1>4, <2>1, <2>3, <2>4, <3>2
    <3> QED BY <3>1, <3>2
  <2> QED BY <1>2, <1>5, <2>2, <2>5, <2>6, <2>7 DEF PageInv
<1>17. StartInv'
  <2>1. a # 0 => a \in 1 .. a /\ Aged(a + 1)' = Aged(a)
    BY <1>4, <1>15
  <2>2. /\ pc' = "idle" /\ Len(mArrivals') = a + 1 /\ Len(mPushing') = p + 1 /\ mFifoBack' = mFifoBack
        /\ mPendingDmaStart' = mPendingDmaStart
    BY <1>2, <1>5
  <2>3. mPendingDmaStart => mFifoBack = 0 /\ p = a
                            /\ (a # 0 => Aged(a).pushedPages = 0 /\ Aged(a).received = 0)
    BY <1>0, <1>2, <1>a DEF StartInv
  <2>4. a = 0 => a + 1 = 1
    BY <1>4
  <2>5. mPendingDmaStart => (Aged(a + 1)').pushedPages = 0 /\ (Aged(a + 1)').received = 0
    BY <1>1, <1>15, <2>1, <2>3, <2>4
  <2> QED BY <2>2, <2>3, <2>5 DEF StartInv
<1> QED BY <1>8, <1>13, <1>14, <1>16, <1>17 DEF CrorcInv

(* The first of a sequence is removed from its front.                        *)
LEMMA RemoveFront ==
    ASSUME NEW S, NEW q \in Seq(S), q # << >>
    PROVE  RemoveFirst(q, Head(q)) = Tail(q)
<1> DEFINE I == {i \in 1 .. Len(q) : q[i] = Head(q)}
<1>1. Len(q) \in Nat \ {0} /\ Head(q) = q[1] /\ 1 \in 1 .. Len(q)
  BY SetOfTail
<1>2. 1 \in I /\ \A i \in I : 1 <= i /\ i \in Nat
  BY <1>1
<1>3. (CHOOSE i \in I : \A j \in I : i <= j) = 1
  BY <1>2
<1>4. SelectInSeq(q, LAMBDA v : v = Head(q)) = 1
  BY <1>2, <1>3 DEF SelectInSeq, Min
<1>5. RemoveAt(q, 1) = Tail(q)
  BY <1>1 DEF RemoveAt
<1> QED BY <1>1, <1>4, <1>5 DEF RemoveFirst

(* popSuperpage(): the oldest superpage leaves.                              *)
LEMMA PopInvariant == CrorcInv /\ PopSuperpage => CrorcInv'
<1> SUFFICES ASSUME CrorcInv, PopSuperpage PROVE CrorcInv'
  OBVIOUS
<1>a. PICK a, p, n : a = Len(mArrivals) /\ p = Len(mPushing) /\ n = mNumberOfEntries
  OBVIOUS
<1>0. TypeOK /\ QueueInv /\ OrderInv /\ PageInv /\ StartInv
  BY DEF CrorcInv
<1>1. /\ mPushing \in Seq(EntryId) /\ mArrivals \in Seq(EntryId) /\ mFilled \in Seq(EntryId)
      /\ p \in Nat /\ a \in Nat /\ n \in Nat /\ p <= a /\ a <= n /\ Len(mFilled) = n - a
      /\ n <= MAX_SUPERPAGES /\ \A j \in 1 .. n : j \in Ages
      /\ mFilled # << >> => n - a # 0 /\ Head(mFilled) = Back(n)
  BY <1>0, <1>a, QueueFacts
<1>2. /\ mFilled # << >> /\ a < n /\ n \in Ages /\ Head(mFilled) = Back(n)
  BY <1>1 DEF PopSuperpage, RemoveFromFilledQueue
<1>3. PICK e \in Entry : e = [Aged(n) EXCEPT !.pushedPages = -1]
  <2>1. Aged(n) \in Entry
    BY <1>0, <1>2, AgedFacts
  <2> QED BY <2>1 DEF Entry
<1>4. /\ mRegistry' = [mRegistry EXCEPT ![Back(n)] = e] /\ e.pushedPages = -1
      /\ mNumberOfEntries' = n - 1 /\ mFilled' = Tail(mFilled)
      /\ inDriver' = RemoveFirst(inDriver, Aged(n).superpage)
      /\ UNCHANGED <<mNextId, mPushing, mArrivals>>
      /\ UNCHANGED <<mDmaState, mPendingDmaStart, mFifoBack, mFifoSize, pc, readyFifo, cardVars, initialMissing>>
  BY <1>a, <1>2, <1>3 DEF PopSuperpage, RemoveFromFilledQueue, Aged, Entry
<1>5. /\ mRegistry' \in [EntryId -> Entry]
      /\ \A j \in Ages : Aged(j)' = IF j = n THEN e ELSE Aged(j)
      /\ \A j \in Ages : Back(j)' = Back(j)
  BY <1>0, <1>2, <1>4, AgedChanged DEF Back
<1>6. /\ mFilled' \in Seq(EntryId) /\ Len(mFilled') = (n - a) - 1
      /\ \A k \in 1 .. (n - a) - 1 : mFilled'[k] = mFilled[k + 1]
  BY <1>1, <1>2, <1>4, SetOfTail
<1>7. inDriver \in Seq(Superpages) /\ Len(inDriver) = n /\ inDriver # << >> /\ Head(inDriver) = Aged(n).superpage
  <2>1. inDriver \in Seq(Superpages) /\ Len(inDriver) = n
    BY <1>0, <1>a DEF TypeOK, OrderInv
  <2>2. inDriver # << >> /\ Head(inDriver) = inDriver[1]
    BY <1>1, <1>2, <2>1, SetOfSeq, SetOfTail
  <2>3. 1 \in 1 .. n /\ n + 1 - 1 = n
    BY <1>1, <1>2
  <2> QED BY <1>0, <1>a, <2>1, <2>2, <2>3 DEF OrderInv
<1>8. /\ inDriver' \in Seq(Superpages) /\ Len(inDriver') = n - 1 /\ Distinct(inDriver')
      /\ \A k \in 1 .. n - 1 : inDriver'[k] = inDriver[k + 1]
  <2>1. inDriver' = Tail(inDriver)
    BY <1>4, <1>7, RemoveFront
  <2> QED BY <1>0, <1>7, <2>1, SetOfTail, DistinctTail DEF OrderInv
<1>9. TypeOK'
  <2>1. mNumberOfEntries' \in 0 .. MAX_SUPERPAGES
    BY <1>1, <1>2, <1>4, CrorcAssumption DEF Ages
  <2>2. UNCHANGED <<freeFifo, receiving, written>>
    BY <1>4 DEF cardVars
  <2> QED BY <1>0, <1>4, <1>5, <1>6, <1>8, <2>1, <2>2 DEF TypeOK
<1>10. ASSUME NEW k \in 1 .. (n - a) - 1 PROVE mFilled'[k] = Back((n - 1) + 1 - k)'
  <2>1. k + 1 \in 1 .. n - a /\ (n - 1) + 1 - k = n + 1 - (k + 1) /\ n + 1 - (k + 1) \in Ages
    BY <1>1, <1>2
  <2> QED BY <1>0, <1>a, <1>1, <1>5, <1>6, <2>1 DEF QueueInv
<1>11. ASSUME NEW j \in Ages PROVE Valid(Aged(j)') <=> j <= n - 1
  <2>1. j <= n - 1 <=> j <= n /\ j # n
    BY <1>1 DEF Ages
  <2> QED BY <1>0, <1>a, <1>4, <1>5, <2>1 DEF QueueInv, Valid
<1>12. QueueInv'
  <2>1. \A k \in 1 .. p : p + 1 - k \in Ages
    BY <1>1
  <2>2. \A k \in 1 .. a : a + 1 - k \in Ages
    BY <1>1
  <2>3. (n - a) - 1 + a = n - 1
    BY <1>1
  <2>4. \A k \in 1 .. p : mPushing[k] = Back(p + 1 - k)'
    BY <1>0, <1>a, <1>5, <2>1 DEF QueueInv
  <2>5. \A k \in 1 .. a : mArrivals[k] = Back(a + 1 - k)'
    BY <1>0, <1>a, <1>5, <2>2 DEF QueueInv
  <2> QED BY <1>a, <1>1, <1>4, <1>6, <1>10, <1>11, <2>3, <2>4, <2>5 DEF QueueInv, Valid
<1>13. OrderInv'
  <2>1. ASSUME NEW k \in 1 .. n - 1 PROVE inDriver'[k] = (Aged((n - 1) + 1 - k)').superpage
    <3>1. k + 1 \in 1 .. n /\ (n - 1) + 1 - k = n + 1 - (k + 1) /\ n + 1 - (k + 1) \in Ages
          /\ n + 1 - (k + 1) # n
      BY <1>1
    <3> QED BY <1>0, <1>a, <1>5, <1>8, <3>1 DEF OrderInv
  <2> QED BY <1>4, <1>8, <2>1 DEF OrderInv
<1>14. \A j \in 1 .. a : j \in Ages /\ Aged(j)' = Aged(j)
  BY <1>1, <1>2, <1>5
<1>15. PageInv' /\ StartInv'
  <2>1. a # 0 => a \in 1 .. a
    BY <1>1
  <2>2. p # 0 => p \in 1 .. a
    BY <1>1
  <2>3. PageInv'
    BY <1>0, <1>a, <1>4, <1>14, <2>1, <2>2 DEF PageInv
  <2>4. StartInv'
    BY <1>0, <1>a, <1>4, <1>14, <2>1 DEF StartInv
  <2> QED BY <2>3, <2>4
<1> QED BY <1>9, <1>12, <1>13, <1>15 DEF CrorcInv

-----------------------------------------------------------------------------
(* Pages are pushed into the oldest superpage of the pushing queue: as many  *)
(* as it has left and the ready FIFO has room for.                           *)
LEMMA PagesPushed ==
    ASSUME FullStart, TypeOK, QueueInv, OrderInv, PageInv, NEW m \in Nat, NEW fifo, PushPages(m, fifo),
           mPushing # << >>, m <= READYFIFO_ENTRIES - mFifoSize,
           m <= maxPages - Aged(Len(mPushing)).pushedPages,
           UNCHANGED <<mNextId, mNumberOfEntries, mArrivals, mFilled, inDriver>>
    PROVE  /\ QueueInv' /\ OrderInv' /\ PageInv'
           /\ mRegistry' \in [EntryId -> Entry] /\ mPushing' \in Seq(EntryId)
           /\ mFifoSize' = mFifoSize + m /\ mFifoSize' \in 0 .. READYFIFO_ENTRIES
           /\ \A j \in Ages : /\ (Aged(j)').superpage = Aged(j).superpage
                              /\ (Aged(j)').received = Aged(j).received
           /\ Head(mPushing) = Back(Len(mPushing)) /\ Len(mPushing) \in 1 .. Len(mArrivals)
<1>a. PICK a, p, n : a = Len(mArrivals) /\ p = Len(mPushing) /\ n = mNumberOfEntries
  OBVIOUS
<1>1. /\ mPushing \in Seq(EntryId) /\ mArrivals \in Seq(EntryId) /\ mFilled \in Seq(EntryId)
      /\ p \in Nat \ {0} /\ a \in Nat /\ n \in Nat /\ p <= a /\ a <= n /\ Len(mFilled) = n - a
      /\ \A j \in 1 .. n : j \in Ages
      /\ Head(mPushing) = Back(p) /\ p \in Ages
  BY <1>a, QueueFacts
<1>2. PICK w \in Nat \cup {-1} : w = Aged(p).pushedPages
  BY <1>1, AgedFacts
<1>3. PICK e \in Entry : e = [Aged(p) EXCEPT !.pushedPages = w + m]
  <2>1. Aged(p) \in Entry /\ w + m \in Nat \cup {-1}
    BY <1>1, <1>2, AgedFacts
  <2> QED BY <2>1 DEF Entry
<1>4. /\ mRegistry' = [mRegistry EXCEPT ![Back(p)] = e]
      /\ e.pushedPages = w + m /\ e.superpage = Aged(p).superpage /\ e.received = Aged(p).received
      /\ mFifoSize' = mFifoSize + m
      /\ mPushing' = IF w + m = maxPages THEN Tail(mPushing) ELSE mPushing
  <2>1. /\ mRegistry' = [mRegistry EXCEPT ![Head(mPushing)].pushedPages = @ + m]
        /\ mFifoSize' = mFifoSize + m
        /\ mPushing' = IF mRegistry[Head(mPushing)].pushedPages + m = maxPages
                       THEN Tail(mPushing) ELSE mPushing
    BY DEF PushPages
  <2>2. Aged(p) \in Entry
    BY <1>1, AgedFacts
  <2> QED BY <1>1, <1>2, <1>3, <2>1, <2>2 DEF Aged, Entry
<1>5. /\ mRegistry' \in [EntryId -> Entry]
      /\ \A j \in Ages : Aged(j)' = IF j = p THEN e ELSE Aged(j)
      /\ \A j \in Ages : Back(j)' = Back(j)
  BY <1>1, <1>4, AgedChanged DEF Back
<1>6. /\ maxPages \in Nat \ {0} /\ READYFIFO_ENTRIES \in Nat \ {0} /\ READYFIFO_ENTRIES <= maxPages
      /\ mFifoSize \in Nat /\ m <= READYFIFO_ENTRIES - mFifoSize /\ m <= maxPages - w
  BY <1>a, <1>2, CrorcAssumption DEF TypeOK, FullStart
<1>7. \A j \in 1 .. a : j \in Ages /\ Aged(j).received \in Nat /\ Aged(j).pushedPages \in Nat \cup {-1}
  BY <1>1, AgedFacts
<1>8. /\ a <= p + 1
      /\ \A j \in 1 .. a :
             /\ j > p => Aged(j).pushedPages = maxPages
             /\ j = p => w < maxPages
             /\ j < p => Aged(j).pushedPages = 0
             /\ j < a => Aged(j).received = 0
             /\ j = a => Aged(j).received < maxPages
      /\ p = a => mFifoSize = w - Aged(a).received
      /\ p # a => mFifoSize = maxPages - Aged(a).received + w
  BY <1>a, <1>1, <1>2 DEF PageInv
<1>9. w \in Nat
  <2>1. Valid(Aged(p))
    BY <1>a, <1>1 DEF QueueInv
  <2> QED BY <1>2, <2>1 DEF Valid
<1>10. PICK r \in Nat : r = Aged(a).received /\ r < maxPages /\ (Aged(a)').received = r
  <2>1. a \in 1 .. a /\ a \in Ages
    BY <1>1
  <2> QED BY <1>4, <1>5, <1>7, <1>8, <2>1
<1>11. w + m = maxPages => a = p
  BY <1>1, <1>6, <1>8, <1>9, <1>10
<1>12. PICK q : /\ q = Len(mPushing') /\ q = (IF w + m = maxPages THEN p - 1 ELSE p)
                /\ mPushing' \in Seq(EntryId)
                /\ \A k \in 1 .. q : mPushing'[k] = mPushing[k + (p - q)]
  <2>1. CASE w + m = maxPages
    BY <1>a, <1>1, <1>4, <2>1, SetOfTail
  <2>2. CASE w + m # maxPages
    <3>1. \A k \in 1 .. p : k + (p - p) = k
      BY <1>1
    <3> QED BY <1>a, <1>1, <1>4, <2>2, <3>1
  <2> QED BY <2>1, <2>2
<1>b. /\ p \in Nat \ {0} /\ a \in Nat /\ p <= a /\ a <= p + 1 /\ w \in Nat /\ r \in Nat /\ r < maxPages
      /\ m \in Nat /\ maxPages \in Nat \ {0} /\ mFifoSize \in Nat /\ mFifoSize' = mFifoSize + m
      /\ q = (IF w + m = maxPages THEN p - 1 ELSE p) /\ q \in Nat /\ m <= maxPages - w
      /\ w + m = maxPages => a = p
      /\ p = a => mFifoSize = w - r
      /\ p # a => mFifoSize = maxPages - r + w
  <2>1. a \in 1 .. a /\ p \in 1 .. a
    BY <1>1
  <2>2. a <= p + 1 /\ (p = a => mFifoSize = w - r) /\ (p # a => mFifoSize = maxPages - r + w)
    BY <1>8, <1>10
  <2>3. q \in Nat
    BY <1>1, <1>12
  <2> QED BY <1>1, <1>4, <1>6, <1>9, <1>10, <1>11, <1>12, <2>2, <2>3
<1>13. QueueInv'
  <2>1. ASSUME NEW k \in 1 .. q PROVE mPushing'[k] = Back(q + 1 - k)'
    <3>1. k + (p - q) \in 1 .. p /\ p + 1 - (k + (p - q)) = q + 1 - k /\ q + 1 - k \in Ages
      BY <1>1, <1>12
    <3> QED BY <1>a, <1>5, <1>12, <3>1 DEF QueueInv
  <2>2. \A k \in 1 .. a : a + 1 - k \in Ages
    BY <1>1
  <2>3. \A k \in 1 .. n - a : n + 1 - k \in Ages
    BY <1>1
  <2>4. \A k \in 1 .. a : mArrivals[k] = Back(a + 1 - k)'
    BY <1>a, <1>5, <2>2 DEF QueueInv
  <2>5. \A k \in 1 .. n - a : mFilled[k] = Back(n + 1 - k)'
    BY <1>a, <1>1, <1>5, <2>3 DEF QueueInv
  <2>6. ASSUME NEW j \in Ages PROVE Valid(Aged(j)') <=> j <= n
    <3>1. CASE j = p
      <4>1. w + m # -1 /\ p <= n
        BY <1>1, <1>9
      <4> QED BY <1>4, <1>5, <3>1, <4>1 DEF Valid
    <3>2. CASE j # p
      BY <1>a, <1>5, <3>2 DEF QueueInv
    <3> QED BY <3>1, <3>2
  <2>7. q <= a
    BY <1>1, <1>12
  <2> QED BY <1>a, <1>1, <1>12, <2>1, <2>4, <2>5, <2>6, <2>7 DEF QueueInv, Valid
<1>14. \A j \in Ages : (Aged(j)').superpage = Aged(j).superpage /\ (Aged(j)').received = Aged(j).received
  BY <1>4, <1>5
<1>15. OrderInv'
  <2>1. \A k \in 1 .. n : n + 1 - k \in Ages
    BY <1>1
  <2> QED BY <1>a, <1>14, <2>1 DEF OrderInv, Distinct
<1>16. ASSUME NEW j \in 1 .. a
       PROVE  /\ j > q => (Aged(j)').pushedPages = maxPages
              /\ j = q => (Aged(j)').pushedPages < maxPages
              /\ j < q => (Aged(j)').pushedPages = 0
              /\ j < a => (Aged(j)').received = 0
              /\ j = a => (Aged(j)').received < maxPages
  <2>1. j \in Ages
    BY <1>7
  <2>2. /\ j < a => (Aged(j)').received = 0
        /\ j = a => (Aged(j)').received < maxPages
    BY <1>8, <1>14, <2>1
  <2>3. CASE j = p
    <3>1. (Aged(j)').pushedPages = w + m
      BY <1>4, <1>5, <2>1, <2>3
    <3> QED BY <1>b, <2>2, <2>3, <3>1
  <2>4. CASE j # p
    <3>1. (Aged(j)').pushedPages = Aged(j).pushedPages
      BY <1>5, <2>1, <2>4
    <3> QED BY <1>b, <1>8, <2>2, <2>4, <3>1
  <2> QED BY <2>3, <2>4
<1>17. PageInv'
  <2>1. a # 0 /\ a <= q + 1 /\ p \in 1 .. a /\ p \in Ages /\ a \in 1 .. a /\ q \in Nat
    BY <1>1, <1>8, <1>11, <1>12
  <2>2. (Aged(p)').pushedPages = w + m
    BY <1>4, <1>5, <2>1
  <2>3. q = a => mFifoSize' = (Aged(a)').pushedPages - (Aged(a)').received
    <3>1. ASSUME q = a PROVE q = p /\ p = a
      BY <1>b, <3>1
    <3> QED BY <1>b, <1>10, <2>2, <3>1
  <2>4. q # a /\ q = 0 => mFifoSize' = maxPages - (Aged(a)').received
    <3>1. ASSUME q # a, q = 0 PROVE w + m = maxPages
      BY <1>b, <3>1
    <3> QED BY <1>b, <1>10, <3>1
  <2>5. q # a /\ q # 0 => mFifoSize' = maxPages - (Aged(a)').received + (Aged(q)').pushedPages
    <3>1. CASE w + m = maxPages /\ q # 0
      <4>1. q \in 1 .. a /\ q < p /\ q \in Ages /\ q # p
        BY <1>1, <1>12, <3>1
      <4>2. (Aged(q)').pushedPages = 0
        BY <1>5, <1>8, <4>1
      <4>3. mFifoSize' = maxPages - r /\ maxPages - r + 0 = maxPages - r
        BY <1>b, <3>1
      <4> QED BY <1>10, <4>2, <4>3
    <3>2. CASE w + m # maxPages
      BY <1>b, <1>10, <2>2, <3>2
    <3> QED BY <3>1, <3>2
  <2> QED BY <1>a, <1>12, <1>16, <2>1, <2>3, <2>4, <2>5 DEF PageInv
<1>18. mFifoSize' \in 0 .. READYFIFO_ENTRIES
  BY <1>4, <1>6
<1> QED BY <1>a, <1>1, <1>4, <1>5, <1>12, <1>13, <1>14, <1>15, <1>17, <1>18

(* Pages count as received for the oldest superpage of the arrivals queue,   *)
(* which is filled when they are its last.                                   *)
LEMMA PagesReceived ==
    ASSUME TypeOK, QueueInv, OrderInv, PageInv, NEW m \in Nat, mArrivals # << >>,
           Received(Head(mArrivals), m), mFifoSize' = mFifoSize - m,
           m <= Aged(Len(mArrivals)).pushedPages - Aged(Len(mArrivals)).received,
           UNCHANGED <<mNextId, mNumberOfEntries, mPushing, inDriver>>
    PROVE  /\ QueueInv' /\ OrderInv' /\ PageInv'
           /\ mRegistry' \in [EntryId -> Entry] /\ mArrivals' \in Seq(EntryId) /\ mFilled' \in Seq(EntryId)
           /\ mFifoSize' \in Nat
           /\ \A j \in Ages : /\ (Aged(j)').superpage = Aged(j).superpage
                              /\ (Aged(j)').pushedPages = Aged(j).pushedPages
                              /\ j # Len(mArrivals) => Aged(j)' = Aged(j)
           /\ (Aged(Len(mArrivals)).received + m = maxPages
                 /\ Len(mArrivals') = Len(mArrivals) - 1
                 /\ (Len(mArrivals) # 1 => Aged(Len(mArrivals) - 1).received = 0))
              \/ (Aged(Len(mArrivals)).received + m < maxPages
                 /\ mArrivals' = mArrivals
                 /\ \A j \in Ages : j = Len(mArrivals) => (Aged(j)').received = Aged(j).received + m)
<1>a. PICK a, p, n : a = Len(mArrivals) /\ p = Len(mPushing) /\ n = mNumberOfEntries
  OBVIOUS
<1>1. /\ mPushing \in Seq(EntryId) /\ mArrivals \in Seq(EntryId) /\ mFilled \in Seq(EntryId)
      /\ p \in Nat /\ a \in Nat \ {0} /\ n \in Nat /\ p <= a /\ a <= n /\ Len(mFilled) = n - a
      /\ \A j \in 1 .. n : j \in Ages
      /\ Head(mArrivals) = Back(a) /\ a \in Ages /\ Back(a) \in EntryId
  BY <1>a, QueueFacts, BackFacts
<1>2. PICK r \in Nat, w \in Nat \cup {-1} : r = Aged(a).received /\ w = Aged(a).pushedPages
  BY <1>1, AgedFacts
<1>3. PICK e \in Entry : e = [Aged(a) EXCEPT !.received = r + m, !.ready = @ \/ r + m = maxPages]
  <2>1. Aged(a) \in Entry /\ r + m \in Nat /\ (Aged(a).ready \/ r + m = maxPages) \in BOOLEAN
    BY <1>1, <1>2, AgedFacts
  <2> QED BY <2>1 DEF Entry
<1>4. /\ mRegistry' = [mRegistry EXCEPT ![Back(a)] = e]
      /\ e.pushedPages = w /\ e.superpage = Aged(a).superpage /\ e.received = r + m
      /\ IF r + m = maxPages
         THEN mFilled' = Append(mFilled, Back(a)) /\ mArrivals' = Tail(mArrivals)
         ELSE UNCHANGED <<mFilled, mArrivals>>
  <2>1. Aged(a) \in Entry /\ mRegistry \in [EntryId -> Entry]
    BY <1>1, AgedFacts DEF TypeOK
  <2>2. /\ mRegistry' = [mRegistry EXCEPT ![Back(a)].received = @ + m,
                                         ![Back(a)].ready = @ \/ r + m = maxPages]
        /\ IF r + m = maxPages
           THEN mFilled' = Append(mFilled, Back(a)) /\ mArrivals' = Tail(mArrivals)
           ELSE UNCHANGED <<mFilled, mArrivals>>
    BY <1>1, <1>2 DEF Received, Aged
  <2>3. mRegistry' = [mRegistry EXCEPT ![Back(a)] = e]
    BY <1>1, <1>2, <1>3, <2>1, <2>2 DEF Aged, Entry
  <2> QED BY <1>2, <1>3, <2>1, <2>2, <2>3 DEF Entry
<1>5. /\ mRegistry' \in [EntryId -> Entry]
      /\ \A j \in Ages : Aged(j)' = IF j = a THEN e ELSE Aged(j)
      /\ \A j \in Ages : Back(j)' = Back(j)
  BY <1>1, <1>4, AgedChanged DEF Back
<1>6. maxPages \in Nat \ {0} /\ mFifoSize \in Nat /\ w \in Nat /\ mFifoSize' = mFifoSize - m /\ m <= w - r
  <2>1. Valid(Aged(a))
    BY <1>a, <1>1 DEF QueueInv
  <2> QED BY <1>a, <1>2, <2>1, CrorcAssumption DEF TypeOK, Valid
<1>7. \A j \in 1 .. a : j \in Ages /\ Aged(j).received \in Nat /\ Aged(j).pushedPages \in Nat \cup {-1}
  BY <1>1, AgedFacts
<1>8. /\ a <= p + 1
      /\ \A j \in 1 .. a :
             /\ j > p => Aged(j).pushedPages = maxPages
             /\ j = p => Aged(j).pushedPages < maxPages
             /\ j < p => Aged(j).pushedPages = 0
             /\ j < a => Aged(j).received = 0
             /\ j = a => Aged(j).received < maxPages
      /\ p = a => mFifoSize = w - r
      /\ p # a /\ p = 0 => mFifoSize = maxPages - r
      /\ p # a /\ p # 0 => mFifoSize = maxPages - r + Aged(p).pushedPages
  BY <1>a, <1>1, <1>2 DEF PageInv
<1>9. /\ r < maxPages /\ w <= maxPages /\ (p = a => w < maxPages)
      /\ a > p => w = maxPages
  <2>1. a \in 1 .. a
    BY <1>1
  <2> QED BY <1>1, <1>2, <1>6, <1>8, <2>1
<1>10. r + m <= maxPages /\ (r + m = maxPages => p = a - 1)
  BY <1>1, <1>6, <1>8, <1>9
<1>11. PICK b : /\ b = Len(mArrivals') /\ b = (IF r + m = maxPages THEN a - 1 ELSE a)
                /\ mArrivals' \in Seq(EntryId) /\ mFilled' \in Seq(EntryId) /\ Len(mFilled') = n - b
                /\ \A k \in 1 .. b : mArrivals'[k] = mArrivals[k + (a - b)]
                /\ \A k \in 1 .. n - a : mFilled'[k] = mFilled[k]
                /\ b # a => mFilled'[n - a + 1] = Back(a)
  <2>1. CASE r + m = maxPages
    <3>1. /\ Tail(mArrivals) \in Seq(EntryId) /\ Len(Tail(mArrivals)) = a - 1
          /\ \A k \in 1 .. a - 1 : Tail(mArrivals)[k] = mArrivals[k + 1]
      BY <1>a, <1>1, SetOfTail
    <3>2. /\ mFilled' \in Seq(EntryId) /\ Len(mFilled') = Len(mFilled) + 1
          /\ \A k \in 1 .. Len(mFilled) : mFilled'[k] = mFilled[k]
          /\ mFilled'[Len(mFilled) + 1] = Back(a)
      <4>1. mFilled' = Append(mFilled, Back(a)) /\ mFilled \in Seq(EntryId) /\ Back(a) \in EntryId
        BY <1>1, <1>4, <2>1
      <4> QED BY <4>1, SetOfAppend
    <3>3. a - (a - 1) = 1 /\ n - a + 1 = n - (a - 1) /\ Len(mFilled) = n - a
      BY <1>1
    <3> QED BY <1>4, <2>1, <3>1, <3>2, <3>3
  <2>2. CASE r + m # maxPages
    <3>1. \A k \in 1 .. a : k + (a - a) = k
      BY <1>1
    <3> QED BY <1>a, <1>1, <1>4, <2>2, <3>1
  <2> QED BY <2>1, <2>2
<1>c. /\ \A k \in 1 .. n - a : mFilled'[k] = mFilled[k]
      /\ b # a => mFilled'[n - a + 1] = Back(a)
  BY <1>11
<1>b. /\ p \in Nat /\ a \in Nat \ {0} /\ p <= b /\ b <= p + 1 /\ w \in Nat /\ r \in Nat /\ b \in Nat /\ b <= a
      /\ m \in Nat /\ maxPages \in Nat \ {0} /\ mFifoSize \in Nat /\ mFifoSize' = mFifoSize - m
      /\ r + m <= maxPages /\ m <= w - r
      /\ b = (IF r + m = maxPages THEN a - 1 ELSE a)
  <2>1. b = (IF r + m = maxPages THEN a - 1 ELSE a)
    BY <1>11
  <2>2. p <= a /\ a <= p + 1 /\ a \in Nat \ {0} /\ p \in Nat
    BY <1>1, <1>8
  <2>3. p <= b /\ b <= p + 1 /\ b \in Nat /\ b <= a
    BY <1>10, <2>1, <2>2
  <2> QED BY <1>6, <1>10, <2>1, <2>2, <2>3
<1>12. QueueInv'
  <2>1. ASSUME NEW k \in 1 .. b PROVE mArrivals'[k] = Back(b + 1 - k)'
    <3>1. k + (a - b) \in 1 .. a /\ a + 1 - (k + (a - b)) = b + 1 - k /\ b + 1 - k \in Ages
      BY <1>1, <1>b
    <3> QED BY <1>a, <1>5, <1>11, <3>1 DEF QueueInv
  <2>2. \A k \in 1 .. p : p + 1 - k \in Ages
    BY <1>1
  <2>3. \A k \in 1 .. p : mPushing[k] = Back(p + 1 - k)'
    BY <1>a, <1>5, <2>2 DEF QueueInv
  <2>4. ASSUME NEW k \in 1 .. n - b PROVE mFilled'[k] = Back(n + 1 - k)'
    <3>1. CASE k \in 1 .. n - a
      <4>1. n + 1 - k \in Ages
        BY <1>1, <3>1
      <4>2. mFilled[k] = Back(n + 1 - k)
        BY <1>a, <1>1, <3>1 DEF QueueInv
      <4>3. mFilled'[k] = mFilled[k]
        BY <1>c, <3>1
      <4> QED BY <1>5, <4>1, <4>2, <4>3
    <3>2. CASE k \notin 1 .. n - a
      <4>1. b # a /\ k = n - a + 1 /\ n + 1 - k = a
        BY <1>1, <1>b, <3>2
      <4>2. mFilled'[k] = Back(a) /\ n + 1 - k \in Ages
        BY <1>1, <4>1, <1>c
      <4> QED BY <1>5, <4>1, <4>2
    <3> QED BY <3>1, <3>2
  <2>5. ASSUME NEW j \in Ages PROVE Valid(Aged(j)') <=> j <= n
    <3>1. CASE j = a
      <4>1. w # -1 /\ a <= n
        BY <1>1, <1>b
      <4> QED BY <1>4, <1>5, <3>1, <4>1 DEF Valid
    <3>2. CASE j # a
      BY <1>a, <1>5, <3>2 DEF QueueInv
    <3> QED BY <3>1, <3>2
  <2>6. n - b + b = n /\ p <= b
    BY <1>1, <1>b
  <2> QED BY <1>a, <1>1, <1>11, <2>1, <2>3, <2>4, <2>5, <2>6 DEF QueueInv, Valid
<1>13. \A j \in Ages : /\ (Aged(j)').superpage = Aged(j).superpage
                       /\ (Aged(j)').pushedPages = Aged(j).pushedPages
                       /\ j # a => Aged(j)' = Aged(j)
  BY <1>2, <1>4, <1>5
<1>14. OrderInv'
  <2>1. \A k \in 1 .. n : n + 1 - k \in Ages
    BY <1>1
  <2> QED BY <1>a, <1>13, <2>1 DEF OrderInv, Distinct
<1>15. (Aged(a)').received = r + m
  BY <1>1, <1>4, <1>5
<1>16. ASSUME NEW j \in 1 .. b
       PROVE  /\ j > p => (Aged(j)').pushedPages = maxPages
              /\ j = p => (Aged(j)').pushedPages < maxPages
              /\ j < p => (Aged(j)').pushedPages = 0
              /\ j < b => (Aged(j)').received = 0
              /\ j = b => (Aged(j)').received < maxPages
  <2>1. j \in 1 .. a /\ j \in Ages
    BY <1>b, <1>7
  <2>2. CASE j = a
    <3>1. r + m < maxPages /\ j = b
      BY <1>b, <2>2
    <3> QED BY <1>b, <1>8, <1>13, <1>15, <2>1, <2>2, <3>1
  <2>3. CASE j # a
    <3>1. j < a
      BY <1>1, <2>1, <2>3
    <3> QED BY <1>b, <1>8, <1>13, <2>1, <2>3, <3>1
  <2> QED BY <2>2, <2>3
<1>17. PageInv'
  <2>1. b = 0 => mFifoSize' = 0
    BY <1>b, <1>8, <1>10
  <2>2. b # 0 /\ p = b => mFifoSize' = (Aged(b)').pushedPages - (Aged(b)').received
    <3>1. CASE b = a
      <4>1. (Aged(a)').pushedPages = w /\ (Aged(a)').received = r + m
        BY <1>1, <1>2, <1>13, <1>15
      <4>2. p = b => mFifoSize' = w - (r + m)
        BY <1>b, <1>8, <3>1
      <4> QED BY <3>1, <4>1, <4>2
    <3>2. CASE b # a /\ b # 0 /\ p = b
      <4>1. b = a - 1 /\ r + m = maxPages /\ b \in 1 .. a /\ b < a /\ b \in Ages /\ p # a
        BY <1>b, <1>1, <3>2
      <4>2. (Aged(b)').received = 0 /\ (Aged(b)').pushedPages = Aged(b).pushedPages
        BY <1>8, <1>13, <4>1
      <4>3. mFifoSize = maxPages - r + Aged(b).pushedPages /\ Aged(b).pushedPages \in Nat \cup {-1}
        BY <1>8, <1>7, <3>2, <4>1
      <4>4. mFifoSize' = Aged(b).pushedPages
        BY <1>b, <4>1, <4>3
      <4> QED BY <4>2, <4>3, <4>4
    <3> QED BY <3>1, <3>2
  <2>3. b # 0 /\ p # b => b = a
    BY <1>b, <1>10
  <2>4. b # 0 /\ p # b /\ p = 0 => mFifoSize' = maxPages - (Aged(b)').received
    BY <1>b, <1>8, <1>15, <2>3
  <2>5. b # 0 /\ p # b /\ p # 0 => mFifoSize' = maxPages - (Aged(b)').received + (Aged(p)').pushedPages
    <3>1. ASSUME b # 0, p # b, p # 0 PROVE p \in 1 .. a /\ p # a /\ b = a
      BY <1>b, <1>1, <2>3, <3>1
    <3>2. ASSUME b # 0, p # b, p # 0
          PROVE  /\ mFifoSize = maxPages - r + Aged(p).pushedPages /\ Aged(p).pushedPages \in Nat \cup {-1}
                 /\ (Aged(p)').pushedPages = Aged(p).pushedPages /\ (Aged(b)').received = r + m
      BY <1>7, <1>8, <1>13, <1>15, <3>1, <3>2
    <3>3. ASSUME b # 0, p # b, p # 0
          PROVE  mFifoSize' = maxPages - (r + m) + Aged(p).pushedPages
      <4>1. PICK v \in Int, s \in Int, x \in Int :
               v = Aged(p).pushedPages /\ s = mFifoSize /\ x = maxPages
        BY <1>6, <3>2, <3>3
      <4>2. s = x - r + v
        BY <3>2, <3>3, <4>1
      <4>3. r \in Int /\ m \in Int
        BY <1>b
      <4>4. s - m = x - (r + m) + v
        BY <4>1, <4>2, <4>3
      <4> QED BY <1>6, <4>1, <4>4
    <3> QED BY <3>2, <3>3
  <2> QED BY <1>a, <1>b, <1>11, <1>16, <2>1, <2>2, <2>4, <2>5 DEF PageInv
<1>18. mFifoSize' \in Nat
  <2>1. CASE p = a
    BY <1>b, <1>8, <2>1
  <2>2. CASE p # a /\ p = 0
    BY <1>b, <1>8, <2>2
  <2>3. CASE p # a /\ p # 0
    <3>1. p \in 1 .. a
      BY <1>1, <2>3
    <3>2. Aged(p).pushedPages \in Nat
      <4>1. p \in Ages /\ p <= n /\ Aged(p).pushedPages \in Nat \cup {-1}
        BY <1>1, <1>7, <3>1
      <4>2. Valid(Aged(p))
        BY <1>a, <4>1 DEF QueueInv
      <4> QED BY <4>1, <4>2 DEF Valid
    <3> QED BY <1>b, <1>8, <2>3, <3>2
  <2> QED BY <2>1, <2>2, <2>3
<1>19. \/ /\ r + m = maxPages /\ Len(mArrivals') = a - 1
          /\ a # 1 => Aged(a - 1).received = 0
       \/ /\ r + m < maxPages /\ mArrivals' = mArrivals /\ (Aged(a)').received = r + m
  <2>1. CASE r + m = maxPages
    <3>1. a # 1 => a - 1 \in 1 .. a /\ a - 1 < a
      BY <1>1
    <3> QED BY <1>8, <1>11, <2>1, <3>1
  <2>2. CASE r + m # maxPages
    BY <1>b, <1>4, <1>15, <2>2
  <2> QED BY <2>1, <2>2
<1>20. \/ /\ Aged(Len(mArrivals)).received + m = maxPages
          /\ Len(mArrivals') = Len(mArrivals) - 1
          /\ (Len(mArrivals) # 1 => Aged(Len(mArrivals) - 1).received = 0)
       \/ /\ Aged(Len(mArrivals)).received + m < maxPages
          /\ mArrivals' = mArrivals
          /\ \A j \in Ages : j = Len(mArrivals) => (Aged(j)').received = Aged(j).received + m
  BY <1>a, <1>2, <1>19
<1> QED BY <1>a, <1>5, <1>11, <1>12, <1>13, <1>14, <1>17, <1>18, <1>20

-----------------------------------------------------------------------------
Descriptor == [superpage : Superpages, page : Nat, index : FifoIndex]

(* A sequence behind another.                                                *)
LEMMA Joined ==
    ASSUME NEW S, NEW p \in Seq(S), NEW q \in Seq(S)
    PROVE  /\ p \o q \in Seq(S) /\ Len(p \o q) = Len(p) + Len(q) /\ Len(p) \in Nat /\ Len(q) \in Nat
           /\ \A i \in 1 .. Len(p) : (p \o q)[i] = p[i]
           /\ \A i \in 1 .. Len(q) : (p \o q)[Len(p) + i] = q[i]
<1> DEFINE r == p \o q
<1>1. /\ r \in Seq(S) /\ Len(r) = Len(p) + Len(q) /\ Len(p) \in Nat /\ Len(q) \in Nat
      /\ \A i \in 1 .. Len(r) : r[i] = IF i <= Len(p) THEN p[i] ELSE q[i - Len(p)]
  OBVIOUS
<1> HIDE DEF r
<1>2. \A i \in 1 .. Len(p) : r[i] = p[i]
  BY <1>1
<1>3. ASSUME NEW i \in 1 .. Len(q) PROVE r[Len(p) + i] = q[i]
  <2>1. Len(p) + i \in 1 .. Len(r) /\ ~(Len(p) + i <= Len(p)) /\ (Len(p) + i) - Len(p) = i
    BY <1>1
  <2> QED BY <1>1, <2>1
<1> QED BY <1>1, <1>2, <1>3 DEF r

(* The descriptors of the pages pushed, behind those in fifo.                *)
LEMMA DescriptorsPushed ==
    ASSUME TypeOK, QueueInv, NEW m \in Nat, NEW fifo \in Seq(Descriptor), PushPages(m, fifo),
           mPushing # << >>
    PROVE  /\ freeFifo' \in Seq(Descriptor) /\ Len(freeFifo') = Len(fifo) + m /\ Len(fifo) \in Nat
           /\ \A k \in 1 .. Len(fifo) : freeFifo'[k] = fifo[k]
           /\ \A k \in 1 .. m :
                 /\ freeFifo'[Len(fifo) + k].superpage = Aged(Len(mPushing)).superpage
                 /\ freeFifo'[Len(fifo) + k].page = Aged(Len(mPushing)).pushedPages + k - 1
                 /\ freeFifo'[Len(fifo) + k].index = (mFifoBack + mFifoSize + k - 1) % READYFIFO_ENTRIES
<1> DEFINE w == Aged(Len(mPushing)).pushedPages
           s == Aged(Len(mPushing)).superpage
           D(k) == [superpage |-> s, page |-> w + k - 1,
                    index |-> (mFifoBack + mFifoSize + k - 1) % READYFIFO_ENTRIES]
           new == [k \in 1 .. m |-> D(k)]
<1>1. Len(mPushing) \in Ages /\ Head(mPushing) = Back(Len(mPushing))
  BY QueueFacts
<1>2. s \in Superpages /\ w \in Nat
  <2>1. Valid(Aged(Len(mPushing)))
    BY <1>1, QueueFacts DEF QueueInv
  <2> QED BY <1>1, <2>1, AgedFacts DEF Valid
<1>3. freeFifo' = fifo \o new
  BY <1>1 DEF PushPages, Aged
<1>4. ASSUME NEW k \in 1 .. m PROVE D(k) \in Descriptor
  <2>1. w + k - 1 \in Nat
    BY <1>2
  <2>2. mFifoBack + mFifoSize + k - 1 \in Nat /\ READYFIFO_ENTRIES \in Nat \ {0}
    BY CrorcAssumption DEF TypeOK, FifoIndex
  <2>3. (mFifoBack + mFifoSize + k - 1) % READYFIFO_ENTRIES \in FifoIndex
    BY <2>2 DEF FifoIndex
  <2> QED BY <1>2, <2>1, <2>3 DEF Descriptor
<1> HIDE DEF w, s, D
<1>5. new \in Seq(Descriptor) /\ Len(new) = m /\ \A k \in 1 .. m : new[k] = D(k)
  BY <1>4
<1> HIDE DEF new
<1>6. /\ freeFifo' \in Seq(Descriptor) /\ Len(freeFifo') = Len(fifo) + m /\ Len(fifo) \in Nat
      /\ \A k \in 1 .. Len(fifo) : freeFifo'[k] = fifo[k]
      /\ \A k \in 1 .. m : freeFifo'[Len(fifo) + k] = new[k]
  <2>1. fifo \in Seq(Descriptor) /\ new \in Seq(Descriptor)
    BY <1>5
  <2>2. /\ fifo \o new \in Seq(Descriptor) /\ Len(fifo \o new) = Len(fifo) + Len(new) /\ Len(fifo) \in Nat
        /\ \A k \in 1 .. Len(fifo) : (fifo \o new)[k] = fifo[k]
        /\ \A k \in 1 .. Len(new) : (fifo \o new)[Len(fifo) + k] = new[k]
    BY <2>1, Joined
  <2> QED BY <1>3, <1>5, <2>2
<1>7. ASSUME NEW k \in 1 .. m
      PROVE  /\ freeFifo'[Len(fifo) + k].superpage = s
             /\ freeFifo'[Len(fifo) + k].page = w + k - 1
             /\ freeFifo'[Len(fifo) + k].index = (mFifoBack + mFifoSize + k - 1) % READYFIFO_ENTRIES
  <2>1. freeFifo'[Len(fifo) + k] = D(k)
    BY <1>5, <1>6
  <2> QED BY <2>1 DEF D
<1> QED BY <1>6, <1>7 DEF w, s

(* The pages that startPendingDma() pushes fit into the ready FIFO and the    *)
(* superpage.                                                                *)
LEMMA FillStartFacts ==
    ASSUME FullStart, CrorcInv, FillStart
    PROVE  /\ mPushing # << >> /\ PushPages(READYFIFO_ENTRIES, << >>)
           /\ mPendingDmaStart /\ pc = "idle" /\ pc' = "starting" /\ receiving' = TRUE
           /\ readyFifo' = [k \in FifoIndex |-> "none"]
           /\ mFifoSize = 0 /\ mFifoBack = 0 /\ Len(mArrivals) \in Ages /\ Aged(Len(mArrivals)).received = 0
           /\ READYFIFO_ENTRIES <= READYFIFO_ENTRIES - mFifoSize
           /\ READYFIFO_ENTRIES <= maxPages - Aged(Len(mPushing)).pushedPages
           /\ UNCHANGED <<mDmaState, mPendingDmaStart, mFifoBack, mNextId, mNumberOfEntries, mArrivals,
                          mFilled, written, inDriver>>
<1>0. TypeOK /\ QueueInv /\ OrderInv /\ PageInv /\ StartInv
  BY DEF CrorcInv
<1>a. PICK a, p : a = Len(mArrivals) /\ p = Len(mPushing)
  OBVIOUS
<1>1. /\ mPushing # << >> /\ PushPages(READYFIFO_ENTRIES, << >>)
      /\ mPendingDmaStart /\ pc = "idle" /\ pc' = "starting" /\ receiving' = TRUE
      /\ readyFifo' = [k \in FifoIndex |-> "none"]
      /\ UNCHANGED <<mDmaState, mPendingDmaStart, mFifoBack, mNextId, mNumberOfEntries, mArrivals,
                     mFilled, written, inDriver>>
  BY DEF FillStart, FillCalled
<1>2. a \in Nat \ {0} /\ p = a /\ mFifoBack = 0 /\ Aged(a).pushedPages = 0 /\ Aged(a).received = 0 /\ a \in Ages
  BY <1>0, <1>a, <1>1, QueueFacts DEF StartInv
<1>3. mFifoSize = 0
  BY <1>0, <1>a, <1>2 DEF PageInv
<1>4. READYFIFO_ENTRIES \in Nat \ {0} /\ READYFIFO_ENTRIES <= maxPages /\ maxPages \in Nat
  BY CrorcAssumption DEF FullStart
<1>5. READYFIFO_ENTRIES <= READYFIFO_ENTRIES - mFifoSize /\ READYFIFO_ENTRIES <= maxPages - Aged(p).pushedPages
  BY <1>2, <1>3, <1>4
<1> QED BY <1>a, <1>1, <1>2, <1>3, <1>5

(* The first call of fillSuperpages() that finds a superpage.                *)
LEMMA FillStartInvariant == FullStart /\ CrorcInv /\ FillStart => CrorcInv'
<1> SUFFICES ASSUME FullStart, CrorcInv, FillStart PROVE CrorcInv'
  OBVIOUS
<1>0. TypeOK /\ QueueInv /\ OrderInv /\ PageInv /\ StartInv
  BY DEF CrorcInv
<1>1. /\ mPushing # << >> /\ PushPages(READYFIFO_ENTRIES, << >>)
      /\ mPendingDmaStart /\ pc = "idle" /\ pc' = "starting" /\ receiving' = TRUE
      /\ readyFifo' = [k \in FifoIndex |-> "none"]
      /\ UNCHANGED <<mDmaState, mPendingDmaStart, mFifoBack, mNextId, mNumberOfEntries, mArrivals,
                     mFilled, written, inDriver>>
  BY FillStartFacts
<1>2. mFifoBack = 0 /\ mFifoSize = 0 /\ Len(mArrivals) \in Ages /\ Aged(Len(mArrivals)).received = 0
  BY FillStartFacts
<1>4. READYFIFO_ENTRIES \in Nat \ {0} /\ Len(mArrivals) # 0
  BY <1>2, CrorcAssumption DEF Ages
<1>6. /\ QueueInv' /\ OrderInv' /\ PageInv'
      /\ mRegistry' \in [EntryId -> Entry] /\ mPushing' \in Seq(EntryId)
      /\ mFifoSize' = mFifoSize + READYFIFO_ENTRIES /\ mFifoSize' \in 0 .. READYFIFO_ENTRIES
      /\ \A j \in Ages : (Aged(j)').received = Aged(j).received
  BY <1>0, <1>1, <1>4, FillStartFacts, PagesPushed
<1>7. freeFifo' \in Seq(Descriptor)
  <2>1. << >> \in Seq(Descriptor)
    OBVIOUS
  <2> QED BY <1>0, <1>1, <1>4, <2>1, DescriptorsPushed
<1>8. TypeOK'
  <2>1. initialMissing' \in BOOLEAN
    BY DEF FillStart
  <2> QED BY <1>0, <1>1, <1>6, <1>7, <2>1 DEF TypeOK, Descriptor
<1>9. StartInv'
  <2>1. mFifoSize' = READYFIFO_ENTRIES
    BY <1>2, <1>4, <1>6
  <2>2. PICK a \in Ages : a = Len(mArrivals) /\ Aged(a).received = 0 /\ a # 0
    BY <1>2, <1>4
  <2>3. Len(mArrivals') = a /\ (Aged(a)').received = 0
    BY <1>1, <1>6, <2>2
  <2> QED BY <1>1, <1>2, <2>1, <2>2, <2>3 DEF StartInv
<1> QED BY <1>6, <1>8, <1>9 DEF CrorcInv

(* What it counts as received was pushed.                                    *)
LEMMA FillStartedFacts ==
    ASSUME FullStart, CrorcInv, FillStarted
    PROVE  /\ pc = "starting" /\ mArrivals # << >> /\ Received(Head(mArrivals), READYFIFO_ENTRIES)
           /\ readyFifo' = [k \in FifoIndex |-> "none"]
           /\ mFifoBack' = 0 /\ mFifoSize' = 0 /\ mPendingDmaStart' = FALSE /\ pc' = "idle"
           /\ mFifoSize' = mFifoSize - READYFIFO_ENTRIES
           /\ READYFIFO_ENTRIES <= Aged(Len(mArrivals)).pushedPages - Aged(Len(mArrivals)).received
           /\ UNCHANGED <<mDmaState, mNextId, mNumberOfEntries, mPushing, freeFifo, receiving, written, inDriver>>
<1>0. TypeOK /\ QueueInv /\ OrderInv /\ PageInv /\ StartInv
  BY DEF CrorcInv
<1>a. PICK a, p : a = Len(mArrivals) /\ p = Len(mPushing)
  OBVIOUS
<1>1. /\ pc = "starting" /\ Received(Head(mArrivals), READYFIFO_ENTRIES)
      /\ readyFifo' = [k \in FifoIndex |-> "none"]
      /\ mFifoBack' = 0 /\ mFifoSize' = 0 /\ mPendingDmaStart' = FALSE /\ pc' = "idle"
      /\ UNCHANGED <<mDmaState, mNextId, mNumberOfEntries, mPushing, freeFifo, receiving, written, inDriver>>
  BY DEF FillStarted, cardVars
<1>2. /\ a # 0 /\ mFifoSize = READYFIFO_ENTRIES /\ Aged(a).received = 0
  BY <1>0, <1>a, <1>1 DEF StartInv
<1>3. /\ a \in Nat /\ p \in Nat /\ p <= a /\ mArrivals # << >> /\ a \in Ages /\ a \in 1 .. a
      /\ Aged(a).pushedPages \in Nat \cup {-1}
  BY <1>0, <1>a, <1>2, QueueFacts, AgedFacts, SetOfEmpty
<1>4. READYFIFO_ENTRIES \in Nat \ {0} /\ READYFIFO_ENTRIES <= maxPages /\ maxPages \in Nat /\ 0 \in FifoIndex
  BY CrorcAssumption DEF FullStart, FifoIndex
<1>5. READYFIFO_ENTRIES <= Aged(a).pushedPages - Aged(a).received
  <2>1. CASE p = a
    <3>1. mFifoSize = Aged(a).pushedPages - Aged(a).received
      BY <1>0, <1>a, <1>2, <2>1 DEF PageInv
    <3> QED BY <1>2, <1>3, <1>4, <3>1
  <2>2. CASE p # a
    <3>1. a > p
      BY <1>3, <2>2
    <3>2. Aged(a).pushedPages = maxPages
      BY <1>0, <1>a, <1>3, <3>1 DEF PageInv
    <3> QED BY <1>2, <1>4, <3>2
  <2> QED BY <2>1, <2>2
<1>6. mFifoSize' = mFifoSize - READYFIFO_ENTRIES
  BY <1>1, <1>2, <1>4
<1> QED BY <1>a, <1>1, <1>3, <1>5, <1>6

(* ... and its end, after the wait.                                          *)
LEMMA FillStartedInvariant == FullStart /\ CrorcInv /\ FillStarted => CrorcInv'
<1> SUFFICES ASSUME FullStart, CrorcInv, FillStarted PROVE CrorcInv'
  OBVIOUS
<1>0. TypeOK /\ QueueInv /\ OrderInv /\ PageInv /\ StartInv
  BY DEF CrorcInv
<1>1. /\ readyFifo' = [k \in FifoIndex |-> "none"]
      /\ mFifoBack' = 0 /\ mFifoSize' = 0 /\ mPendingDmaStart' = FALSE /\ pc' = "idle"
      /\ UNCHANGED <<mDmaState, mNextId, mNumberOfEntries, mPushing, freeFifo, receiving, written, inDriver>>
  BY FillStartedFacts
<1>4. READYFIFO_ENTRIES \in Nat \ {0} /\ 0 \in FifoIndex
  BY CrorcAssumption DEF FifoIndex
<1>7. /\ QueueInv' /\ OrderInv' /\ PageInv'
      /\ mRegistry' \in [EntryId -> Entry] /\ mArrivals' \in Seq(EntryId) /\ mFilled' \in Seq(EntryId)
  BY <1>0, <1>4, FillStartedFacts, PagesReceived
<1>8. TypeOK'
  <2>1. readyFifo' \in [FifoIndex -> {"none", "part", "whole", "error"}]
    BY <1>1
  <2>2. mFifoBack' \in FifoIndex /\ mPendingDmaStart' \in BOOLEAN
    BY <1>1, <1>4
  <2>3. mFifoSize' \in 0 .. READYFIFO_ENTRIES
    <3>1. mFifoSize' = 0
      BY <1>1
    <3> QED BY <1>4, <3>1
  <2>4. initialMissing' \in BOOLEAN
    BY DEF FillStarted
  <2> QED BY <1>0, <1>1, <1>7, <2>1, <2>2, <2>3, <2>4 DEF TypeOK
<1>9. StartInv'
  BY <1>1 DEF StartInv
<1> QED BY <1>7, <1>8, <1>9 DEF CrorcInv

(* How many pages fillSuperpages() pushes.                                   *)
FillCount ==
    LET left == maxPages - Aged(Len(mPushing)).pushedPages
        free == READYFIFO_ENTRIES - mFifoSize
    IN  IF free < left THEN free ELSE left

(* It fits into the ready FIFO and into the superpage.                     *)
LEMMA FillPushFacts ==
    ASSUME CrorcInv, FillPush
    PROVE  /\ FillCount \in Nat /\ PushPages(FillCount, freeFifo) /\ mPushing # << >>
           /\ FillCount <= READYFIFO_ENTRIES - mFifoSize
           /\ FillCount <= maxPages - Aged(Len(mPushing)).pushedPages
<1>0. TypeOK /\ QueueInv /\ PageInv /\ mPushing # << >>
  BY DEF CrorcInv, FillPush
<1>a. PICK p : p = Len(mPushing)
  OBVIOUS
<1>1. p \in 1 .. Len(mArrivals) /\ p \in Ages /\ Head(mPushing) = Back(p)
  BY <1>0, <1>a, QueueFacts
<1>2. PICK w \in Nat \cup {-1} : w = Aged(p).pushedPages
  BY <1>0, <1>1, AgedFacts
<1>3. w < maxPages
  BY <1>0, <1>a, <1>1, <1>2 DEF PageInv
<1>4. READYFIFO_ENTRIES \in Nat /\ maxPages \in Nat /\ mFifoSize \in 0 .. READYFIFO_ENTRIES
  BY <1>0, CrorcAssumption DEF TypeOK
<1>5. FillCount = IF READYFIFO_ENTRIES - mFifoSize < maxPages - w THEN READYFIFO_ENTRIES - mFifoSize
                  ELSE maxPages - w
  BY <1>a, <1>2 DEF FillCount
<1>6. PushPages(FillCount, freeFifo)
  BY <1>a, <1>1 DEF FillPush, FillCount, Aged
<1>7. FillCount \in Nat /\ FillCount <= READYFIFO_ENTRIES - mFifoSize /\ FillCount <= maxPages - w
  BY <1>2, <1>3, <1>4, <1>5
<1> QED BY <1>0, <1>a, <1>2, <1>6, <1>7

(* The queues and the pages after the pages are pushed.                    *)
LEMMA FillPushInvariant == FullStart /\ CrorcInv /\ FillPush => CrorcInv'
<1> SUFFICES ASSUME FullStart, CrorcInv, FillPush PROVE CrorcInv'
  OBVIOUS
<1>0. TypeOK /\ QueueInv /\ OrderInv /\ PageInv /\ StartInv
  BY DEF CrorcInv
<1>1. /\ ~mPendingDmaStart /\ pc' = "arrivals"
      /\ UNCHANGED <<mDmaState, mPendingDmaStart, mFifoBack, mNextId, mNumberOfEntries, mArrivals,
                     mFilled, readyFifo, receiving, written, inDriver, initialMissing>>
  BY DEF FillPush
<1>2. /\ QueueInv' /\ OrderInv' /\ PageInv'
      /\ mRegistry' \in [EntryId -> Entry] /\ mPushing' \in Seq(EntryId)
      /\ mFifoSize' \in 0 .. READYFIFO_ENTRIES
  BY <1>0, <1>1, FillPushFacts, PagesPushed
<1>3. freeFifo' \in Seq(Descriptor)
  <2>1. freeFifo \in Seq(Descriptor)
    BY <1>0 DEF TypeOK, Descriptor
  <2> QED BY <1>0, <2>1, FillPushFacts, DescriptorsPushed
<1>4. TypeOK'
  BY <1>0, <1>1, <1>2, <1>3 DEF TypeOK, Descriptor
<1>5. StartInv'
  BY <1>1 DEF StartInv
<1> QED BY <1>2, <1>4, <1>5 DEF CrorcInv

-----------------------------------------------------------------------------
(* The oldest page has arrived.                                              *)
LEMMA FillArrivedFacts ==
    ASSUME CrorcInv, FillArrived
    PROVE  /\ mArrivals # << >> /\ Received(Head(mArrivals), 1) /\ mFifoSize' = mFifoSize - 1
           /\ mFifoSize > 0 /\ readyFifo[mFifoBack] = "whole" /\ pc = "arrivals" /\ ~mPendingDmaStart
           /\ readyFifo' = [readyFifo EXCEPT ![mFifoBack] = "none"]
           /\ mFifoBack' = (mFifoBack + 1) % READYFIFO_ENTRIES
           /\ 1 <= Aged(Len(mArrivals)).pushedPages - Aged(Len(mArrivals)).received
           /\ UNCHANGED <<pc, mDmaState, mPendingDmaStart, mNextId, mNumberOfEntries, mPushing,
                          freeFifo, receiving, written, inDriver, initialMissing>>
<1>0. TypeOK /\ QueueInv /\ PageInv /\ StartInv
  BY DEF CrorcInv
<1>a. PICK a, p : a = Len(mArrivals) /\ p = Len(mPushing)
  OBVIOUS
<1>1. /\ pc = "arrivals" /\ mFifoSize > 0
      /\ UNCHANGED <<mDmaState, mPendingDmaStart, mNextId, mNumberOfEntries, mPushing,
                     freeFifo, receiving, written, inDriver, initialMissing>>
  BY DEF FillArrived, cardVars
<1>2. mFifoSize \in Nat /\ a \in Nat /\ p \in Nat /\ p <= a /\ (mArrivals = << >> => a = 0)
  BY <1>0, <1>a, QueueFacts, SetOfEmpty, CrorcAssumption DEF TypeOK
<1>3. a # 0 /\ mArrivals # << >>
  <2>1. a = 0 => mFifoSize = 0
    BY <1>0, <1>a DEF PageInv
  <2> QED BY <1>1, <1>2, <2>1
<1>4. /\ Received(Head(mArrivals), 1) /\ mFifoSize' = mFifoSize - 1
      /\ readyFifo[mFifoBack] = "whole"
      /\ readyFifo' = [readyFifo EXCEPT ![mFifoBack] = "none"]
      /\ mFifoBack' = (mFifoBack + 1) % READYFIFO_ENTRIES /\ pc' = pc
  BY <1>3 DEF FillArrived
<1>5. a \in 1 .. a /\ a \in Ages
  BY <1>0, <1>a, <1>2, <1>3, QueueFacts
<1>6. PICK r \in Nat, w \in Nat \cup {-1} : r = Aged(a).received /\ w = Aged(a).pushedPages
  BY <1>0, <1>5, AgedFacts
<1>7. 1 <= w - r
  <2>1. CASE p = a
    <3>1. mFifoSize = w - r
      BY <1>0, <1>a, <1>3, <1>6, <2>1 DEF PageInv
    <3> QED BY <1>1, <1>2, <1>6, <3>1
  <2>2. CASE p # a
    <3>1. a > p
      BY <1>2, <2>2
    <3>2. w = maxPages /\ r < maxPages
      BY <1>0, <1>a, <1>5, <1>6, <3>1 DEF PageInv
    <3> QED BY <1>6, <3>2, CrorcAssumption
  <2> QED BY <2>1, <2>2
<1>8. ~mPendingDmaStart
  BY <1>0, <1>1 DEF StartInv
<1> QED BY <1>a, <1>1, <1>3, <1>4, <1>6, <1>7, <1>8

(* The queues and the pages after an arrived page is counted.              *)
LEMMA FillArrivedInvariant == CrorcInv /\ FillArrived => CrorcInv'
<1> SUFFICES ASSUME CrorcInv, FillArrived PROVE CrorcInv'
  OBVIOUS
<1>0. TypeOK /\ QueueInv /\ OrderInv /\ PageInv /\ StartInv
  BY DEF CrorcInv
<1>1. /\ UNCHANGED <<pc, mDmaState, mPendingDmaStart, mNextId, mNumberOfEntries, mPushing,
                     freeFifo, receiving, written, inDriver, initialMissing>>
      /\ pc = "arrivals" /\ ~mPendingDmaStart /\ mFifoSize' = mFifoSize - 1 /\ mFifoSize > 0
      /\ readyFifo' = [readyFifo EXCEPT ![mFifoBack] = "none"]
      /\ mFifoBack' = (mFifoBack + 1) % READYFIFO_ENTRIES
  BY FillArrivedFacts
<1>2. /\ QueueInv' /\ OrderInv' /\ PageInv'
      /\ mRegistry' \in [EntryId -> Entry] /\ mArrivals' \in Seq(EntryId) /\ mFilled' \in Seq(EntryId)
  <2>1. UNCHANGED <<mNextId, mNumberOfEntries, mPushing, inDriver>> /\ 1 \in Nat
    BY <1>1
  <2> QED BY <1>0, <2>1, FillArrivedFacts, PagesReceived
<1>3. mFifoBack' \in FifoIndex
  <2>1. mFifoBack + 1 \in Nat /\ READYFIFO_ENTRIES \in Nat \ {0}
    BY <1>0, CrorcAssumption DEF TypeOK, FifoIndex
  <2> QED BY <1>1, <2>1 DEF FifoIndex
<1>4. mFifoSize' \in 0 .. READYFIFO_ENTRIES
  BY <1>0, <1>1, CrorcAssumption DEF TypeOK
<1>5. readyFifo' \in [FifoIndex -> {"none", "part", "whole", "error"}]
  BY <1>0, <1>1 DEF TypeOK
<1>6. TypeOK'
  BY <1>0, <1>1, <1>2, <1>3, <1>4, <1>5 DEF TypeOK
<1>7. StartInv'
  BY <1>1 DEF StartInv
<1> QED BY <1>2, <1>6, <1>7 DEF CrorcInv

(* The other steps do not touch the queues.                                  *)
LEMMA OtherStepsInvariant ==
    ASSUME CrorcInv,
           \/ StopDma \/ ResetChannel \/ FillNothing \/ FillReturn \/ FillThrow
           \/ CardPart \/ CardWhole \/ CardError
    PROVE  CrorcInv' /\ UNCHANGED <<queueVars, inDriver, mFifoSize>>
<1>0. TypeOK /\ QueueInv /\ OrderInv /\ PageInv /\ StartInv
  BY DEF CrorcInv
<1>1. UNCHANGED <<queueVars, inDriver, mFifoSize, mFifoBack, mPendingDmaStart>>
  BY DEF StopDma, ResetChannel, FillNothing, FillReturn, FillThrow, CardPart, CardWhole, CardError
<1>2. QueueInv' /\ OrderInv' /\ PageInv'
  BY <1>0, <1>1, InvKept
<1>3. /\ mDmaState' \in {"STOPPED", "STARTED"} /\ receiving' \in BOOLEAN /\ initialMissing' \in BOOLEAN
      /\ pc' \in {"idle", "starting", "arrivals", "thrown", "undefined"}
  BY <1>0 DEF TypeOK, StopDma, ResetChannel, FillNothing, FillReturn, FillThrow, CardPart, CardWhole,
     CardError, FillCalled, cardVars
<1>4. /\ readyFifo' \in [FifoIndex -> {"none", "part", "whole", "error"}]
      /\ freeFifo' \in Seq(Descriptor) /\ written' \in [Superpages -> SUBSET Nat]
  <2>0. /\ readyFifo \in [FifoIndex -> {"none", "part", "whole", "error"}]
        /\ freeFifo \in Seq(Descriptor) /\ written \in [Superpages -> SUBSET Nat]
    BY <1>0 DEF TypeOK, Descriptor
  <2>1. CASE CardPart
    BY <2>0, <2>1 DEF CardPart, cardVars
  <2>2. CASE CardWhole
    <3>1. freeFifo # << >> /\ freeFifo' = Tail(freeFifo)
      BY <2>2 DEF CardWhole
    <3>2. Tail(freeFifo) \in Seq(Descriptor) /\ Head(freeFifo) \in Descriptor
      BY <2>0, <3>1, SetOfTail
    <3>3. Head(freeFifo).page \in Nat
      BY <3>2 DEF Descriptor
    <3>4. readyFifo' \in [FifoIndex -> {"none", "part", "whole", "error"}]
      BY <2>0, <2>2 DEF CardWhole
    <3>5. written' = [written EXCEPT ![Head(freeFifo).superpage] = @ \cup {Head(freeFifo).page}]
      BY <2>2 DEF CardWhole
    <3>6. written' \in [Superpages -> SUBSET Nat]
      BY <2>0, <3>3, <3>5
    <3> QED BY <3>1, <3>2, <3>4, <3>6
  <2>3. CASE CardError
    <3>1. freeFifo # << >> /\ freeFifo' = Tail(freeFifo) /\ written' = written
      BY <2>3 DEF CardError
    <3>2. Tail(freeFifo) \in Seq(Descriptor)
      BY <2>0, <3>1, SetOfTail
    <3>3. readyFifo' \in [FifoIndex -> {"none", "part", "whole", "error"}]
      BY <2>0, <2>3 DEF CardError
    <3> QED BY <2>0, <3>1, <3>2, <3>3
  <2>4. CASE ResetChannel
    <3>1. << >> \in Seq(Descriptor)
      OBVIOUS
    <3> QED BY <2>0, <2>4, <3>1 DEF ResetChannel
  <2>5. CASE StopDma \/ FillNothing \/ FillReturn \/ FillThrow
    BY <2>0, <2>5 DEF StopDma, FillNothing, FillReturn, FillThrow, cardVars
  <2> QED BY <2>1, <2>2, <2>3, <2>4, <2>5
<1>5. TypeOK'
  BY <1>0, <1>1, <1>3, <1>4 DEF TypeOK, queueVars, Descriptor
<1>6. /\ pc' = pc \/ pc' = "thrown" \/ (pc = "arrivals" /\ pc' = "idle")
         \/ (~mPendingDmaStart /\ pc = "idle" /\ pc' = "arrivals")
  <2>1. CASE FillNothing
    <3>1. mPushing = << >> /\ mArrivals # << >> /\ pc = "idle" /\ pc' = "arrivals"
      BY <2>1 DEF FillNothing, FillCalled
    <3>2. Len(mPushing) = 0 /\ Len(mArrivals) # 0
      BY <1>0, <3>1, QueueFacts, SetOfEmpty, SetOfSeq
    <3> QED BY <1>0, <3>1, <3>2 DEF StartInv
  <2>2. CASE FillReturn \/ FillThrow
    BY <2>2 DEF FillReturn, FillThrow
  <2>3. CASE StopDma \/ ResetChannel \/ CardPart \/ CardWhole \/ CardError
    BY <2>3 DEF StopDma, ResetChannel, CardPart, CardWhole, CardError
  <2> QED BY <2>1, <2>2, <2>3
<1>7. StartInv'
  <2>1. Aged(Len(mArrivals))' = Aged(Len(mArrivals)) /\ mArrivals' = mArrivals /\ mPushing' = mPushing
    BY <1>1 DEF Aged, Back, queueVars
  <2> QED BY <1>0, <1>1, <1>6, <2>1 DEF StartInv
<1> QED BY <1>1, <1>2, <1>5, <1>7 DEF CrorcInv

(* The inductive invariant of the driver.                                    *)
LEMMA StepCrorcInv == FullStart /\ CrorcInv /\ [Next]_vars => CrorcInv'
<1> SUFFICES ASSUME FullStart, CrorcInv, [Next]_vars PROVE CrorcInv'
  OBVIOUS
<1>1. CASE StartDma
  BY <1>1, StartInvariant
<1>2. CASE \E s \in Superpages : PushSuperpage(s)
  BY <1>2, PushInvariant
<1>3. CASE PopSuperpage
  BY <1>3, PopInvariant
<1>4. CASE StopDma \/ ResetChannel \/ FillNothing \/ FillReturn \/ FillThrow \/ Card
  BY <1>4, OtherStepsInvariant DEF Card
<1>5. CASE FillStart \/ FillStarted \/ FillPush \/ FillArrived
  BY <1>5, FillStartInvariant, FillStartedInvariant, FillPushInvariant, FillArrivedInvariant
<1>6. CASE UNCHANGED vars
  <2>1. UNCHANGED <<queueVars, inDriver, mFifoSize>> /\ TypeOK' /\ StartInv'
    BY <1>6 DEF vars, CrorcInv, TypeOK, StartInv, queueVars, cardVars, Aged, Back
  <2> QED BY <2>1, InvKept DEF CrorcInv
<1> QED BY <1>1, <1>2, <1>3, <1>4, <1>5, <1>6 DEF Next, FillSuperpages

(* The invariant of the queues needs nothing from the card, however slow.  *)
LEMMA CrorcInvAlways == ASSUME FullStart PROVE Spec => []CrorcInv
<1>1. FullStart
  OBVIOUS
<1> QED BY <1>1, InitCrorcInv, StepCrorcInv, PTL DEF Spec
-----------------------------------------------------------------------------
(* The filled superpages and the arriving ones, oldest first, are the ring.  *)
LEMMA QueueRing ==
    ASSUME TypeOK, QueueInv
    PROVE  /\ mFilled \o mArrivals \in Seq(EntryId)
           /\ Len(mFilled \o mArrivals) = mNumberOfEntries
           /\ mNumberOfEntries \in Nat /\ Len(mFilled) + Len(mArrivals) = mNumberOfEntries
           /\ \A k \in 1 .. mNumberOfEntries : /\ (mFilled \o mArrivals)[k] = Back(mNumberOfEntries + 1 - k)
                                               /\ mNumberOfEntries + 1 - k \in 1 .. mNumberOfEntries
<1> DEFINE q == mFilled \o mArrivals
<1>a. PICK a, f, n : a = Len(mArrivals) /\ f = Len(mFilled) /\ n = mNumberOfEntries
  OBVIOUS
<1>1. /\ a \in Nat /\ f \in Nat /\ n \in Nat /\ f = n - a /\ a <= n
      /\ mFilled \in Seq(EntryId) /\ mArrivals \in Seq(EntryId)
  BY <1>a, QueueFacts
<1>2. /\ q \in Seq(EntryId) /\ Len(q) = f + a
      /\ \A k \in 1 .. f : q[k] = mFilled[k]
      /\ \A k \in 1 .. a : q[f + k] = mArrivals[k]
  <2>1. mFilled \in Seq(EntryId) /\ mArrivals \in Seq(EntryId)
    BY <1>1
  <2>2. /\ mFilled \o mArrivals \in Seq(EntryId) /\ Len(mFilled \o mArrivals) = Len(mFilled) + Len(mArrivals)
        /\ \A k \in 1 .. Len(mFilled) : (mFilled \o mArrivals)[k] = mFilled[k]
        /\ \A k \in 1 .. Len(mArrivals) : (mFilled \o mArrivals)[Len(mFilled) + k] = mArrivals[k]
    BY <2>1, Joined
  <2> QED BY <1>a, <2>2
<1> HIDE DEF q
<1>3. ASSUME NEW k \in 1 .. n PROVE q[k] = Back(n + 1 - k)
  <2>1. CASE k <= f
    <3>1. k \in 1 .. f
      BY <1>1, <2>1
    <3>2. mFilled[k] = Back(n + 1 - k)
      BY <1>a, <3>1 DEF QueueInv
    <3> QED BY <1>2, <3>1, <3>2
  <2>2. CASE ~(k <= f)
    <3>1. PICK i \in 1 .. a : i = k - f /\ f + i = k /\ a + 1 - i = n + 1 - k
      BY <1>1, <2>2
    <3>2. mArrivals[i] = Back(a + 1 - i)
      BY <1>a DEF QueueInv
    <3> QED BY <1>2, <3>1, <3>2
  <2> QED BY <2>1, <2>2
<1>4. \A k \in 1 .. n : n + 1 - k \in 1 .. n
  BY <1>1
<1>5. f + a = n
  BY <1>1
<1> QED BY <1>a, <1>1, <1>2, <1>3, <1>4, <1>5 DEF q

(* What the driver has is what the client pushed.                            *)
LEMMA OrderKept == CrorcInv => PushOrderKept
<1> SUFFICES ASSUME CrorcInv PROVE PushOrderKept
  OBVIOUS
<1>0. TypeOK /\ QueueInv /\ OrderInv
  BY DEF CrorcInv
<1>a. PICK n : n = mNumberOfEntries
  OBVIOUS
<1>1. /\ n \in Nat /\ Len(mFilled) + Len(mArrivals) = n
      /\ \A k \in 1 .. n : (mFilled \o mArrivals)[k] = Back(n + 1 - k)
  BY <1>0, <1>a, QueueRing
<1>2. Queued = [k \in 1 .. n |-> mRegistry[(mFilled \o mArrivals)[k]].superpage]
  BY <1>1 DEF Queued
<1>3. inDriver \in Seq(Superpages) /\ Len(inDriver) = n
  BY <1>0, <1>a DEF TypeOK, OrderInv
<1>4. ASSUME NEW k \in 1 .. n PROVE inDriver[k] = mRegistry[(mFilled \o mArrivals)[k]].superpage
  BY <1>0, <1>a, <1>1 DEF OrderInv, Aged
<1>5. inDriver = [k \in 1 .. n |-> inDriver[k]]
  BY <1>3
<1> HIDE DEF Queued
<1> QED BY <1>2, <1>4, <1>5 DEF PushOrderKept

(* The queues and the registry agree.                                        *)
LEMMA QueuesDoAgree == CrorcInv => QueuesAgree
<1> SUFFICES ASSUME CrorcInv PROVE QueuesAgree
  OBVIOUS
<1> DEFINE q == mFilled \o mArrivals
<1>0. TypeOK /\ QueueInv
  BY DEF CrorcInv
<1>a. PICK n : n = mNumberOfEntries
  OBVIOUS
<1>1. /\ q \in Seq(EntryId) /\ Len(q) = n /\ n \in Nat /\ Len(mFilled) + Len(mArrivals) = n
      /\ \A k \in 1 .. n : q[k] = Back(n + 1 - k) /\ n + 1 - k \in 1 .. n
  BY <1>0, <1>a, QueueRing
<1>2. ToSet(q) = {q[i] : i \in 1 .. n}
  BY <1>1, SetOfSeq
<1> HIDE DEF q
<1>3. n <= MAX_SUPERPAGES /\ \A j \in 1 .. n : j \in Ages
  BY <1>0, <1>a, QueueFacts
<1>4. Distinct(q)
  <2> SUFFICES ASSUME NEW i \in 1 .. n, NEW j \in 1 .. n, q[i] = q[j] PROVE i = j
    BY <1>1 DEF Distinct
  <2>1. n + 1 - i \in Ages /\ n + 1 - j \in Ages /\ Back(n + 1 - i) = Back(n + 1 - j)
    BY <1>1, <1>3
  <2>2. n + 1 - i = n + 1 - j
    BY <1>0, <2>1, BackFacts
  <2> QED BY <1>1, <2>2
<1>5. ASSUME NEW id \in EntryId PROVE Valid(mRegistry[id]) <=> id \in ToSet(q)
  <2>1. PICK j \in Ages : Back(j) = id
    BY <1>0, BackFacts
  <2>2. Valid(mRegistry[id]) <=> j <= n
    BY <1>0, <1>a, <2>1 DEF QueueInv, Aged
  <2>3. j <= n => id \in ToSet(q)
    <3> SUFFICES ASSUME j <= n PROVE id \in ToSet(q)
      OBVIOUS
    <3>1. PICK k \in 1 .. n : n + 1 - k = j
      <4>1. n + 1 - j \in 1 .. n /\ n + 1 - (n + 1 - j) = j
        BY <1>1 DEF Ages
      <4> QED BY <4>1
    <3> QED BY <1>1, <1>2, <2>1, <3>1
  <2>4. id \in ToSet(q) => j <= n
    <3> SUFFICES ASSUME id \in ToSet(q) PROVE j <= n
      OBVIOUS
    <3>1. PICK k \in 1 .. n : q[k] = id
      BY <1>2
    <3>2. n + 1 - k \in Ages /\ Back(n + 1 - k) = Back(j)
      BY <1>1, <1>3, <2>1, <3>1
    <3>3. n + 1 - k = j
      BY <1>0, <3>2, BackFacts
    <3> QED BY <1>1, <3>3
  <2> QED BY <2>2, <2>3, <2>4
<1>6. IsSuffix(mPushing, mArrivals)
  <2>a. PICK a, p : a = Len(mArrivals) /\ p = Len(mPushing)
    OBVIOUS
  <2>1. /\ mPushing \in Seq(EntryId) /\ mArrivals \in Seq(EntryId) /\ p \in Nat /\ a \in Nat /\ p <= a
    BY <1>0, <2>a, QueueFacts
  <2>2. ASSUME NEW k \in 1 .. p PROVE mPushing[k] = mArrivals[a - p + k]
    <3>1. PICK i \in 1 .. a : i = a - p + k /\ a + 1 - i = p + 1 - k
      BY <2>1
    <3>2. mArrivals[i] = Back(a + 1 - i) /\ mPushing[k] = Back(p + 1 - k)
      BY <1>0, <2>a DEF QueueInv
    <3> QED BY <3>1, <3>2
  <2> QED BY <2>a, <2>1, <2>2, SuffixOf
<1>7. IsInjective(q)
  BY <1>1, <1>4, DistinctInjective
<1>8. n = Len(mFilled) + Len(mArrivals)
  BY <1>1
<1> QED BY <1>a, <1>5, <1>6, <1>7, <1>8 DEF QueuesAgree, q

(* The pages lo .. hi - 1 of one superpage.                                  *)
LEMMA RowCount ==
    ASSUME NEW id, NEW lo \in Nat, NEW hi \in Nat, lo <= hi
    PROVE  IsFiniteSet({id} \X (lo .. hi - 1)) /\ Cardinality({id} \X (lo .. hi - 1)) = hi - lo
<1>1. IsFiniteSet({id}) /\ Cardinality({id}) = 1
  BY FS_Singleton
<1>2. IsFiniteSet(lo .. hi - 1) /\ Cardinality(lo .. hi - 1) = hi - lo
  <2>1. lo \in Int /\ hi - 1 \in Int
    OBVIOUS
  <2>2. /\ IsFiniteSet(lo .. hi - 1)
        /\ Cardinality(lo .. hi - 1) = IF lo > hi - 1 THEN 0 ELSE (hi - 1) - lo + 1
    BY <2>1, FS_Interval
  <2> QED BY <2>2
<1>3. /\ IsFiniteSet({id} \X (lo .. hi - 1))
      /\ Cardinality({id} \X (lo .. hi - 1)) = Cardinality({id}) * Cardinality(lo .. hi - 1)
  BY <1>1, <1>2, FS_Product
<1>4. 1 * (hi - lo) = hi - lo
  OBVIOUS
<1> QED BY <1>1, <1>2, <1>3, <1>4

\* The outstanding pages of the j-th youngest superpage.
Row(j) == {Back(j)} \X (Aged(j).received .. Aged(j).pushedPages - 1)

(* The outstanding pages, superpage by superpage.                          *)
LEMMA OutstandingRows ==
    ASSUME TypeOK, QueueInv
    PROVE  Outstanding = UNION {Row(j) : j \in 1 .. Len(mArrivals)}
<1>a. PICK a : a = Len(mArrivals)
  OBVIOUS
<1>1. a \in Nat /\ mArrivals \in Seq(EntryId)
  BY <1>a, QueueFacts
<1>2. ToSet(mArrivals) = {mArrivals[i] : i \in 1 .. a}
  BY <1>a, <1>1, SetOfSeq
<1>3. \A i \in 1 .. a : mArrivals[i] = Back(a + 1 - i) /\ a + 1 - i \in 1 .. a
  BY <1>a, <1>1 DEF QueueInv
<1>4. \A j \in 1 .. a : a + 1 - j \in 1 .. a /\ a + 1 - (a + 1 - j) = j
  BY <1>1
<1>5. ToSet(mArrivals) = {Back(j) : j \in 1 .. a}
  <2>1. ASSUME NEW x \in ToSet(mArrivals) PROVE \E j \in 1 .. a : x = Back(j)
    BY <1>2, <1>3
  <2>2. ASSUME NEW j \in 1 .. a PROVE Back(j) \in ToSet(mArrivals)
    <3>1. mArrivals[a + 1 - j] = Back(j)
      BY <1>3, <1>4
    <3> QED BY <1>2, <1>4, <3>1
  <2> QED BY <2>1, <2>2
<1>6. Outstanding = UNION {{Back(j)} \X (mRegistry[Back(j)].received .. mRegistry[Back(j)].pushedPages - 1) :
                             j \in 1 .. a}
  BY <1>5 DEF Outstanding
<1> QED BY <1>a, <1>6 DEF Row, Aged

(* The driver counts the outstanding pages.                                  *)
LEMMA PagesDoAgree == CrorcInv => PagesAccounted
<1> SUFFICES ASSUME CrorcInv PROVE PagesAccounted
  OBVIOUS
<1>0. TypeOK /\ QueueInv /\ PageInv /\ StartInv
  BY DEF CrorcInv
<1>a. PICK a, p : a = Len(mArrivals) /\ p = Len(mPushing)
  OBVIOUS
<1>1. /\ a \in Nat /\ p \in Nat /\ p <= a /\ a <= p + 1 /\ \A j \in 1 .. a : j \in Ages
  <2>1. a <= p + 1
    BY <1>0, <1>a DEF PageInv
  <2> QED BY <1>0, <1>a, <2>1, QueueFacts
<1>2. Outstanding = UNION {Row(j) : j \in 1 .. a}
  BY <1>0, <1>a, OutstandingRows
<1>3. ASSUME NEW j \in 1 .. a, j < p PROVE Row(j) = {}
  <2>1. Aged(j).pushedPages = 0 /\ Aged(j).received \in Nat
    BY <1>0, <1>a, <1>1, <1>3, AgedFacts DEF PageInv
  <2>2. Aged(j).received .. Aged(j).pushedPages - 1 = {}
    BY <2>1
  <2> QED BY <2>2 DEF Row
<1>4. mFifoSize \in Nat /\ maxPages \in Nat
  BY <1>0, CrorcAssumption DEF TypeOK
<1>5. CASE a = 0
  <2>1. mFifoSize = 0
    BY <1>0, <1>a, <1>5 DEF PageInv
  <2>2. Outstanding = {}
    BY <1>2, <1>5
  <2>3. Cardinality({}) = 0
    BY FS_EmptySet
  <2> QED BY <1>0, <2>1, <2>2, <2>3 DEF PagesAccounted, StartInv
<1>6. CASE a # 0
  <2>1. a \in 1 .. a /\ a \in Ages
    BY <1>1, <1>6
  <2>2. PICK r \in Nat, w \in Nat \cup {-1} : r = Aged(a).received /\ w = Aged(a).pushedPages
    BY <1>0, <2>1, AgedFacts
  <2>3. r < maxPages
    BY <1>0, <1>a, <2>1, <2>2 DEF PageInv
  <2>4. CASE p = a
    <3>1. Outstanding = Row(a)
      <4>1. \A j \in 1 .. a : j # a => Row(j) = {}
        BY <1>1, <1>3, <2>4
      <4> QED BY <1>2, <2>1, <4>1
    <3>2. mFifoSize = w - r
      BY <1>0, <1>a, <1>6, <2>2, <2>4 DEF PageInv
    <3>3. w \in Nat /\ r <= w
      BY <1>4, <2>2, <3>2
    <3>4. Cardinality(Row(a)) = w - r
      BY <2>2, <3>3, RowCount DEF Row
    <3> QED BY <1>0, <3>1, <3>2, <3>4 DEF PagesAccounted, StartInv
  <2>5. CASE p # a
    <3>1. p = a - 1
      BY <1>1, <2>5
    <3>2. a > p /\ w = maxPages
      <4>1. a > p
        BY <1>1, <2>5
      <4> QED BY <1>0, <1>a, <2>1, <2>2, <4>1 DEF PageInv
    <3>3. IsFiniteSet(Row(a)) /\ Cardinality(Row(a)) = maxPages - r
        <4>1. r <= maxPages
        BY <1>4, <2>2, <2>3
      <4>2. /\ IsFiniteSet({Back(a)} \X (r .. maxPages - 1))
            /\ Cardinality({Back(a)} \X (r .. maxPages - 1)) = maxPages - r
        BY <1>4, <4>1, RowCount
      <4> QED BY <2>2, <3>2, <4>2 DEF Row
    <3>4. CASE p = 0
      <4>1. mFifoSize = maxPages - r
        BY <1>0, <1>a, <1>6, <2>2, <2>5, <3>4 DEF PageInv
      <4>2. Outstanding = Row(a)
        BY <1>2, <2>1, <3>1, <3>4
      <4> QED BY <1>0, <3>3, <4>1, <4>2 DEF PagesAccounted, StartInv
    <3>5. CASE p # 0
      <4>1. p \in 1 .. a /\ p \in Ages /\ p < a
        BY <1>1, <3>1, <3>5
      <4>2. PICK x \in Nat \cup {-1} : x = Aged(p).pushedPages
        BY <1>0, <4>1, AgedFacts
      <4>3. mFifoSize = maxPages - r + x
        BY <1>0, <1>a, <1>6, <2>2, <2>5, <3>5, <4>2 DEF PageInv
      <4>4. Aged(p).received = 0
        BY <1>0, <1>a, <4>1 DEF PageInv
      <4>5. Valid(Aged(p))
        BY <1>0, <1>a, <4>1, QueueFacts DEF QueueInv
      <4>6. x \in Nat
        BY <4>2, <4>5 DEF Valid
      <4>7. IsFiniteSet(Row(p)) /\ Cardinality(Row(p)) = x
        <5>1. 0 \in Nat /\ 0 <= x
          BY <4>6
        <5>2. IsFiniteSet({Back(p)} \X (0 .. x - 1)) /\ Cardinality({Back(p)} \X (0 .. x - 1)) = x - 0
          BY <4>6, <5>1, RowCount
        <5> QED BY <4>2, <4>4, <4>6, <5>2 DEF Row
      <4>8. Row(a) \cap Row(p) = {}
        <5>1. Back(a) # Back(p)
          BY <1>0, <2>1, <4>1, BackFacts
        <5> QED BY <5>1 DEF Row
      <4>9. Outstanding = Row(a) \cup Row(p)
        <5>1. \A j \in 1 .. a : j # a /\ j # p => Row(j) = {}
          <6>1. \A j \in 1 .. a : j # a /\ j # p => j < p
            BY <1>1, <3>1
          <6> QED BY <1>3, <6>1
        <5> QED BY <1>2, <2>1, <4>1, <5>1
      <4>10. Cardinality(Row(a) \cup Row(p)) = maxPages - r + x
        BY <3>3, <4>7, <4>8, DisjointCount
      <4> QED BY <1>0, <4>3, <4>9, <4>10 DEF PagesAccounted, StartInv
    <3> QED BY <3>4, <3>5
  <2> QED BY <2>4, <2>5
<1> QED BY <1>5, <1>6

(* Every superpage comes back once and in the order of the pushes.           *)
THEOREM PushOrderAlways ==
    ASSUME FullStart
    PROVE  Spec => []PushOrderKept
<1>1. Spec => []CrorcInv
  BY CrorcInvAlways
<1> QED BY <1>1, OrderKept, PTL
-----------------------------------------------------------------------------
(* The entries in use are apart.                                             *)
LEMMA SlotFacts ==
    ASSUME TypeOK
    PROVE  /\ \A k \in FifoIndex : SlotAt(k) \in FifoIndex
           /\ \A i, k \in FifoIndex : SlotAt(i) = SlotAt(k) => i = k
           /\ SlotAt(0) = mFifoBack /\ 0 \in FifoIndex
           /\ mFifoBack = 0 => \A k \in FifoIndex : SlotAt(k) = k
           /\ READYFIFO_ENTRIES \in Nat \ {0}
           /\ \A k \in FifoIndex : k \in Nat
           /\ \A k \in 0 .. mFifoSize - 1 : k \in FifoIndex
<1>1. /\ READYFIFO_ENTRIES \in Nat \ {0} /\ mFifoBack \in Nat /\ mFifoBack < READYFIFO_ENTRIES
      /\ mFifoSize \in 0 .. READYFIFO_ENTRIES
  BY CrorcAssumption DEF TypeOK, FifoIndex
<1>2. ASSUME NEW k \in FifoIndex
      PROVE  SlotAt(k) = IF mFifoBack + k < READYFIFO_ENTRIES THEN mFifoBack + k
                         ELSE mFifoBack + k - READYFIFO_ENTRIES
  <2>1. k \in Nat /\ k < READYFIFO_ENTRIES
    BY <1>1 DEF FifoIndex
  <2> QED BY <1>1, <2>1 DEF SlotAt
<1>3. \A k \in FifoIndex : k \in Nat /\ k < READYFIFO_ENTRIES
  BY <1>1 DEF FifoIndex
<1>4. \A k \in FifoIndex : SlotAt(k) \in FifoIndex
  BY <1>1, <1>2, <1>3 DEF FifoIndex
<1>5. \A i, k \in FifoIndex : SlotAt(i) = SlotAt(k) => i = k
  BY <1>1, <1>2, <1>3
<1>6. 0 \in FifoIndex
  BY <1>1 DEF FifoIndex
<1>7. SlotAt(0) = mFifoBack
  BY <1>1, <1>2, <1>6
<1>8. mFifoBack = 0 => \A k \in FifoIndex : SlotAt(k) = k
  BY <1>1, <1>2, <1>3
<1>9. \A k \in 0 .. mFifoSize - 1 : k \in FifoIndex
  BY <1>1 DEF FifoIndex
<1> QED BY <1>1, <1>3, <1>4, <1>5, <1>6, <1>7, <1>8, <1>9

(* Every entry in use reports a page of one of the two oldest superpages     *)
(* that still arrive.                                                        *)
LEMMA TargetFacts ==
    ASSUME CrorcInv, NEW k \in 0 .. mFifoSize - 1, NEW a, a = Len(mArrivals)
    PROVE  /\ a \in Nat \ {0} /\ a \in Ages /\ Aged(a).received \in Nat /\ a \in 1 .. mNumberOfEntries
           /\ Target(k).page \in Pages
           /\ \/ /\ Aged(a).received + k < maxPages
                 /\ Target(k).superpage = Aged(a).superpage /\ Target(k).page = Aged(a).received + k
              \/ /\ ~(Aged(a).received + k < maxPages) /\ a - 1 \in 1 .. a /\ a - 1 \in Ages
                 /\ Target(k).superpage = Aged(a - 1).superpage
                 /\ Target(k).page = Aged(a).received + k - maxPages
           /\ \E j \in 1 .. mNumberOfEntries : j \in Ages /\ Target(k).superpage = Aged(j).superpage
           /\ Target(k).superpage \in Superpages
<1>0. TypeOK /\ QueueInv /\ PageInv
  BY DEF CrorcInv
<1>a. PICK p : p = Len(mPushing)
  OBVIOUS
<1>1. /\ a \in Nat /\ p \in Nat /\ p <= a /\ a <= p + 1 /\ mNumberOfEntries \in Nat /\ a <= mNumberOfEntries
      /\ \A j \in 1 .. mNumberOfEntries : j \in Ages
  <2>1. a <= p + 1
    BY <1>0, <1>a DEF PageInv
  <2> QED BY <1>0, <1>a, <2>1, QueueFacts
<1>2. mFifoSize \in Nat /\ k \in Nat /\ k < mFifoSize /\ maxPages \in Nat \ {0}
  BY <1>0, CrorcAssumption DEF TypeOK
<1>3. a # 0
  <2>1. a = 0 => mFifoSize = 0
    BY <1>0, <1>a DEF PageInv
  <2> QED BY <1>2, <2>1
<1>4. a \in 1 .. a /\ a \in Ages /\ a \in 1 .. mNumberOfEntries
  BY <1>1, <1>3
<1>5. PICK r \in Nat, w \in Nat \cup {-1} : r = Aged(a).received /\ w = Aged(a).pushedPages
  BY <1>0, <1>4, AgedFacts
<1>6. CASE r + k < maxPages
  <2>1. Target(k) = [superpage |-> Aged(a).superpage, page |-> r + k]
    BY <1>5, <1>6 DEF Target
  <2>2. r + k \in Pages
    BY <1>2, <1>5, <1>6 DEF Pages
  <2>3. Aged(a).superpage \in Superpages
    BY <1>0, <1>4, AgedFacts
  <2> QED BY <1>1, <1>3, <1>4, <1>5, <1>6, <2>1, <2>2, <2>3
<1>7. CASE ~(r + k < maxPages)
  <2>1. Target(k) = [superpage |-> Aged(a - 1).superpage, page |-> r + k - maxPages]
    BY <1>1, <1>2, <1>5, <1>7 DEF Target
  <2>2. p # a
    <3> SUFFICES ASSUME p = a PROVE FALSE
      OBVIOUS
    <3>1. mFifoSize = w - r
      BY <1>0, <1>a, <1>3, <1>5 DEF PageInv
    <3>2. w < maxPages
      BY <1>0, <1>a, <1>4, <1>5 DEF PageInv
    <3> QED BY <1>2, <1>5, <1>7, <3>1, <3>2
  <2>3. p = a - 1
    BY <1>1, <2>2
  <2>4. p # 0
    <3> SUFFICES ASSUME p = 0 PROVE FALSE
      OBVIOUS
    <3>1. mFifoSize = maxPages - r
      BY <1>0, <1>a, <1>3, <1>5, <2>2 DEF PageInv
    <3> QED BY <1>2, <1>5, <1>7, <3>1
  <2>5. p \in 1 .. a /\ p \in 1 .. mNumberOfEntries /\ p \in Ages
    BY <1>1, <2>3, <2>4
  <2>6. PICK x \in Nat \cup {-1} : x = Aged(p).pushedPages
    BY <1>0, <2>5, AgedFacts
  <2>7. mFifoSize = maxPages - r + x /\ x < maxPages
    BY <1>0, <1>a, <1>3, <1>5, <2>2, <2>4, <2>5, <2>6 DEF PageInv
  <2>8. r + k - maxPages \in Pages
    <3>1. r + k - maxPages \in Nat
      BY <1>2, <1>5, <1>7
    <3>2. r + k - maxPages < x
      BY <1>2, <1>5, <2>6, <2>7
    <3> QED BY <1>2, <2>6, <2>7, <3>1, <3>2 DEF Pages
  <2>9. Aged(p).superpage \in Superpages
    BY <1>0, <2>5, AgedFacts
  <2> QED BY <1>1, <1>3, <1>4, <1>5, <1>7, <2>1, <2>3, <2>5, <2>8, <2>9
<1> QED BY <1>6, <1>7

(* The entries in use report the same pages as long as the two superpages    *)
(* stay where they are.                                                      *)
LEMMA TargetKept ==
    ASSUME CrorcInv, NEW k \in 0 .. mFifoSize - 1, NEW a, a = Len(mArrivals),
           NEW b, b = Len(mArrivals'), NEW n \in Nat, b = a + n,
           (Aged(b)').superpage = Aged(a).superpage, (Aged(b)').received = Aged(a).received,
           a - 1 \in 1 .. a => (Aged(b - 1)').superpage = Aged(a - 1).superpage
    PROVE  Target(k)' = Target(k)
<1>1. /\ a \in Nat \ {0} /\ b \in Nat /\ k \in Int /\ Aged(a).received \in Nat /\ maxPages \in Nat
      /\ Aged(a).received + k < maxPages \/ (~(Aged(a).received + k < maxPages) /\ a - 1 \in 1 .. a)
  BY TargetFacts, CrorcAssumption
<1>2. Target(k)' = IF Aged(a).received + k < maxPages
                   THEN [superpage |-> (Aged(b)').superpage, page |-> Aged(a).received + k]
                   ELSE [superpage |-> (Aged(b - 1)').superpage, page |-> Aged(a).received + k - maxPages]
  <2>1. Target(k)' = IF (Aged(b)').received + k < maxPages
                     THEN [superpage |-> (Aged(b)').superpage, page |-> (Aged(b)').received + k]
                     ELSE [superpage |-> (Aged(b - 1)').superpage, page |-> (Aged(b)').received + k - maxPages]
    BY <1>1 DEF Target
  <2> QED BY <2>1
<1>3. Target(k) = IF Aged(a).received + k < maxPages
                  THEN [superpage |-> Aged(a).superpage, page |-> Aged(a).received + k]
                  ELSE [superpage |-> Aged(a - 1).superpage, page |-> Aged(a).received + k - maxPages]
  BY <1>1 DEF Target
<1> QED BY <1>1, <1>2, <1>3
-----------------------------------------------------------------------------
(* The descriptors and the entries in use after a step.                      *)
LEMMA WindowNext ==
    ASSUME NEW t, t = Taken', NEW z, z = Len(freeFifo'),
           Active' => /\ t >= 0
                      /\ \A k \in 1 .. z : /\ freeFifo'[k].index = SlotAt(t + k - 1)'
                                           /\ freeFifo'[k].superpage = (Target(t + k - 1)').superpage
                                           /\ freeFifo'[k].page = (Target(t + k - 1)').page
    PROVE  WindowInv'
BY DEF WindowInv

(* ReportedWritten of the next state, for a rigid number of taken entries. *)
LEMMA ReportedNext ==
    ASSUME NEW t, t = Taken',
           Active' => \A k \in 0 .. t - 1 :
              readyFifo'[SlotAt(k)'] = "whole" => (Target(k)').page \in written'[(Target(k)').superpage]
    PROVE  ReportedWritten'
BY DEF ReportedWritten

(* What the card has to fill.                                                *)
LEMMA CardFacts ==
    ASSUME CrorcInv, CardInv, NEW t, t = Taken
    PROVE  /\ freeFifo \in Seq(Descriptor) /\ Len(freeFifo) \in Nat /\ t = mFifoSize - Len(freeFifo) /\ t \in Int
           /\ mFifoSize \in Nat /\ mFifoSize <= READYFIFO_ENTRIES /\ READYFIFO_ENTRIES \in Nat \ {0}
           /\ Active => /\ t \in Nat
                        /\ \A k \in 1 .. Len(freeFifo) :
                             /\ t + k - 1 \in 0 .. mFifoSize - 1 /\ t + k - 1 \in FifoIndex
                             /\ t + k - 1 >= t
                             /\ freeFifo[k].index = SlotAt(t + k - 1)
                             /\ freeFifo[k].superpage = Target(t + k - 1).superpage
                             /\ freeFifo[k].page = Target(t + k - 1).page
<1>0. TypeOK /\ WindowInv
  BY DEF CrorcInv, CardInv
<1>1. /\ freeFifo \in Seq(Descriptor) /\ Len(freeFifo) \in Nat /\ t = mFifoSize - Len(freeFifo)
      /\ mFifoSize \in Nat /\ mFifoSize <= READYFIFO_ENTRIES /\ READYFIFO_ENTRIES \in Nat \ {0}
  BY <1>0, CrorcAssumption DEF TypeOK, Descriptor, Taken
<1>2. ASSUME Active PROVE t \in Nat
  BY <1>0, <1>1, <1>2 DEF WindowInv
<1>3. ASSUME Active, NEW k \in 1 .. Len(freeFifo)
      PROVE  /\ t + k - 1 \in 0 .. mFifoSize - 1 /\ t + k - 1 \in FifoIndex /\ t + k - 1 >= t
             /\ freeFifo[k].index = SlotAt(t + k - 1)
             /\ freeFifo[k].superpage = Target(t + k - 1).superpage
             /\ freeFifo[k].page = Target(t + k - 1).page
  <2>1. t + k - 1 \in 0 .. mFifoSize - 1 /\ t + k - 1 >= t
    BY <1>1, <1>2, <1>3
  <2>2. t + k - 1 \in FifoIndex
    BY <1>0, <2>1, SlotFacts
  <2> QED BY <1>0, <1>3, <2>1, <2>2 DEF WindowInv
<1> QED BY <1>1, <1>2, <1>3

(* Neither the card nor the ready FIFO changes, and no page gets another     *)
(* entry.                                                                    *)
LEMMA WindowKept ==
    ASSUME CrorcInv, CardInv, UNCHANGED <<freeFifo, readyFifo, mFifoBack, mFifoSize>>,
           Active' => Active,
           Active' => \A k \in 0 .. mFifoSize - 1 : Target(k)' = Target(k)
    PROVE  DescriptorsApart' /\ WindowInv' /\ NothingBehind'
<1>a. PICK t, z : t = Taken /\ z = Len(freeFifo)
  OBVIOUS
<1>0. DescriptorsApart /\ NothingBehind
  BY DEF CardInv
<1>1. DescriptorsApart'
  BY <1>0 DEF DescriptorsApart
<1>2. t = Taken' /\ z = Len(freeFifo') /\ \A k : SlotAt(k)' = SlotAt(k)
  BY <1>a DEF Taken, SlotAt
<1>3. WindowInv'
  <2>1. ASSUME Active', NEW k \in 1 .. z
        PROVE  /\ freeFifo'[k].index = SlotAt(t + k - 1)'
               /\ freeFifo'[k].superpage = (Target(t + k - 1)').superpage
               /\ freeFifo'[k].page = (Target(t + k - 1)').page
    <3>1. /\ t + k - 1 \in 0 .. mFifoSize - 1 /\ freeFifo[k].index = SlotAt(t + k - 1)
          /\ freeFifo[k].superpage = Target(t + k - 1).superpage /\ freeFifo[k].page = Target(t + k - 1).page
      BY <1>a, <2>1, CardFacts
    <3>2. Target(t + k - 1)' = Target(t + k - 1)
      BY <2>1, <3>1
    <3> QED BY <1>2, <3>1, <3>2
  <2>2. Active' => t >= 0
    BY <1>a, CardFacts
  <2> QED BY <1>2, <2>1, <2>2, WindowNext
<1>4. NothingBehind'
  BY <1>0, <1>2 DEF NothingBehind
<1> QED BY <1>1, <1>3, <1>4

(* Neither do the queues.                                                    *)
LEMMA CardKept ==
    ASSUME CrorcInv, CardInv, UNCHANGED <<queueVars, freeFifo, readyFifo, mFifoBack, mFifoSize, written>>,
           Active' => Active
    PROVE  CardInv'
<1>1. /\ \A j : Aged(j)' = Aged(j)
      /\ mArrivals' = mArrivals /\ mNumberOfEntries' = mNumberOfEntries
  BY DEF Aged, Back, queueVars
<1>2. \A k : Target(k)' = Target(k)
  BY <1>1 DEF Target
<1>3. DescriptorsApart' /\ WindowInv' /\ NothingBehind'
  BY <1>2, WindowKept
<1>4. ReceivedWritten'
  BY <1>1 DEF CardInv, ReceivedWritten
<1>5. ReportedWritten'
  <2>a. PICK t : t = Taken
    OBVIOUS
  <2>1. t = Taken' /\ \A k : SlotAt(k)' = SlotAt(k)
    BY <2>a DEF Taken, SlotAt
  <2>2. ASSUME Active', NEW k \in 0 .. t - 1, readyFifo'[SlotAt(k)'] = "whole"
        PROVE  (Target(k)').page \in written'[(Target(k)').superpage]
    BY <1>2, <2>a, <2>1, <2>2 DEF CardInv, ReportedWritten
  <2> QED BY <2>1, <2>2, ReportedNext
<1> QED BY <1>3, <1>4, <1>5 DEF CardInv
-----------------------------------------------------------------------------
(* Nothing is in the card.                                                   *)
LEMMA InitCardInv == Init => CardInv
<1> SUFFICES ASSUME Init PROVE CardInv
  OBVIOUS
<1>1. /\ Len(freeFifo) = 0 /\ Len(mArrivals) = 0 /\ mNumberOfEntries = 0 /\ mFifoSize = 0 /\ mFifoBack = 0
      /\ pc = "idle" /\ written = [s \in Superpages |-> {}] /\ Taken = 0
  <2>1. freeFifo = << >> /\ mArrivals = << >> /\ mFifoSize = 0
    BY DEF Init
  <2>2. Len(freeFifo) = 0 /\ Len(mArrivals) = 0
    BY <2>1, SetOfEmpty
  <2>3. Taken = 0
    <3>1. Taken = 0 - 0
      BY <2>1, <2>2 DEF Taken
    <3>2. 0 - 0 = 0
      OBVIOUS
    <3> QED BY <3>1, <3>2
  <2> QED BY <2>1, <2>2, <2>3 DEF Init
<1>2. DescriptorsApart /\ WindowInv /\ ReportedWritten
  BY <1>1 DEF DescriptorsApart, WindowInv, ReportedWritten
<1>3. ReceivedWritten
  BY <1>1 DEF ReceivedWritten
<1>4. NothingBehind
  <2>1. TypeOK /\ readyFifo = [k \in FifoIndex |-> "none"] /\ mFifoSize = 0
    BY InitCrorcInv DEF CrorcInv, Init
  <2> QED BY <2>1, SlotFacts DEF NothingBehind, FifoIndex
<1> QED BY <1>2, <1>3, <1>4 DEF CardInv

(* startDma() forgets the queues; what the card still has belongs to nobody. *)
LEMMA StartCard == CrorcInv /\ CardInv /\ StartDma => CardInv'
<1> SUFFICES ASSUME CrorcInv, CardInv, StartDma PROVE CardInv'
  OBVIOUS
<1>1. /\ UNCHANGED <<freeFifo, readyFifo, written>> /\ ~Active' /\ pc' = "idle"
      /\ Len(mArrivals') = 0 /\ mNumberOfEntries' = 0
  BY DEF StartDma, ClearQueue, Active, cardVars
<1>2. DescriptorsApart' /\ WindowInv' /\ NothingBehind' /\ ReportedWritten'
  BY <1>1 DEF CardInv, DescriptorsApart, WindowInv, NothingBehind, ReportedWritten
<1>3. ReceivedWritten'
  BY <1>1 DEF CardInv, ReceivedWritten
<1> QED BY <1>2, <1>3 DEF CardInv

(* A page pushed is none of those that arrive.                               *)
LEMMA PushCard == ASSUME CrorcInv, CardInv, NEW s \in Superpages, PushSuperpage(s) PROVE CardInv'
<1> DEFINE e == [superpage |-> s, pushedPages |-> 0, received |-> 0, ready |-> FALSE]
<1>a. PICK a, n : a = Len(mArrivals) /\ n = mNumberOfEntries
  OBVIOUS
<1>0. TypeOK /\ QueueInv /\ OrderInv /\ ReceivedWritten /\ ReportedWritten
  BY DEF CrorcInv, CardInv
<1>1. e \in Entry /\ e.received = 0 /\ e.superpage = s
  BY DEF Entry
<1>2. /\ AddToQueue(e) /\ mNumberOfEntries' = n + 1 /\ mArrivals' = Append(mArrivals, mNextId)
      /\ s \notin ToSet(inDriver) /\ written' = [written EXCEPT ![s] = {}]
      /\ UNCHANGED <<pc, mPendingDmaStart, mFifoBack, mFifoSize, readyFifo, freeFifo>> /\ n < MAX_SUPERPAGES
  BY <1>a DEF PushSuperpage, AddToQueue
<1> HIDE DEF e
<1>3. \A j \in Ages : Aged(j)' = IF j = 1 THEN e ELSE Aged(j - 1)
  BY <1>0, <1>1, <1>2, AgedAdded
<1>4. /\ a \in Nat /\ n \in Nat /\ a <= n /\ n < MAX_SUPERPAGES /\ MAX_SUPERPAGES \in Nat
      /\ \A j \in 1 .. n : j \in Ages
  BY <1>0, <1>a, <1>2, QueueFacts
<1>5. Len(mArrivals') = a + 1
  <2>1. mArrivals \in Seq(EntryId) /\ mNextId \in EntryId
    BY <1>0 DEF TypeOK
  <2> QED BY <1>a, <1>2, <2>1, SetOfAppend
<1>6. ASSUME NEW j \in 1 .. n PROVE Aged(j + 1)' = Aged(j) /\ Aged(j).superpage # s /\ j + 1 \in Ages
  <2>1. j + 1 \in Ages /\ j + 1 # 1 /\ (j + 1) - 1 = j
    BY <1>4 DEF Ages
  <2>2. Aged(j + 1)' = Aged(j)
    BY <1>3, <2>1
  <2>3. PICK k \in 1 .. n : n + 1 - k = j
    <3>1. n + 1 - j \in 1 .. n /\ n + 1 - (n + 1 - j) = j
      BY <1>4
    <3> QED BY <3>1
  <2>4. inDriver[k] = Aged(j).superpage /\ inDriver \in Seq(Superpages) /\ k \in 1 .. Len(inDriver)
    BY <1>0, <1>a, <2>3 DEF OrderInv, TypeOK
  <2>5. inDriver[k] \in ToSet(inDriver)
    BY <2>4, SetOfSeq
  <2> QED BY <1>2, <2>1, <2>2, <2>4, <2>5
<1>7. ASSUME NEW k \in 0 .. mFifoSize - 1
      PROVE  Target(k)' = Target(k) /\ Target(k).superpage # s /\ Target(k).superpage \in Superpages
  <2>1. /\ a \in 1 .. n /\ Target(k).superpage \in Superpages
        /\ \E j \in 1 .. n : Target(k).superpage = Aged(j).superpage
    BY <1>a, TargetFacts
  <2>2. Aged(a + 1)' = Aged(a)
    BY <1>6, <2>1
  <2>3. a - 1 \in 1 .. a => Aged((a + 1) - 1)' = Aged(a - 1)
    <3> SUFFICES ASSUME a - 1 \in 1 .. a PROVE Aged((a + 1) - 1)' = Aged(a - 1)
      OBVIOUS
    <3>1. a - 1 \in 1 .. n /\ (a - 1) + 1 = a /\ (a + 1) - 1 = a
      BY <1>4
    <3> QED BY <1>6, <3>1
  <2>4. Target(k)' = Target(k)
    <3>1. PICK b : b = a + 1 /\ b - 1 = (a + 1) - 1
      OBVIOUS
    <3> QED BY <1>a, <1>5, <2>2, <2>3, <3>1, TargetKept
  <2> QED BY <1>6, <2>1, <2>4
<1>8. DescriptorsApart' /\ WindowInv' /\ NothingBehind'
  <2>1. Active' = Active
    BY <1>2 DEF Active
  <2> QED BY <1>2, <1>7, <2>1, WindowKept
<1>9. ReceivedWritten'
  <2>1. \A x \in Superpages : written'[x] \subseteq Pages /\ (x # s => written'[x] = written[x])
    BY <1>0, <1>2 DEF TypeOK, ReceivedWritten
  <2>2. ASSUME NEW j \in (a + 1) + 1 .. n + 1 PROVE written'[(Aged(j)').superpage] = Pages
    <3>1. PICK i \in a + 1 .. n : j = i + 1 /\ i \in 1 .. n
      <4>1. j - 1 \in a + 1 .. n /\ j = (j - 1) + 1 /\ j - 1 \in 1 .. n
        BY <1>4
      <4> QED BY <4>1
    <3>2. Aged(j)' = Aged(i) /\ Aged(i).superpage # s /\ Aged(i).superpage \in Superpages
      BY <1>0, <1>4, <1>6, <3>1, AgedFacts
    <3>3. written[Aged(i).superpage] = Pages
      BY <1>0, <1>a, <3>1 DEF ReceivedWritten
    <3> QED BY <2>1, <3>2, <3>3
  <2>3. ASSUME NEW i \in 0 .. (Aged(a + 1)').received - 1 PROVE i \in written'[(Aged(a + 1)').superpage]
    <3>1. CASE a = 0
      <4>1. a + 1 = 1 /\ 1 \in Ages
        BY <1>4, <3>1 DEF Ages
      <4>2. (Aged(a + 1)').received = 0
        BY <1>1, <1>3, <4>1
      <4> QED BY <4>2
    <3>2. CASE a # 0
      <4>1. a \in 1 .. n
        BY <1>4, <3>2
      <4>2. Aged(a + 1)' = Aged(a) /\ Aged(a).superpage # s /\ Aged(a).superpage \in Superpages
        BY <1>0, <1>4, <1>6, <4>1, AgedFacts
      <4> QED BY <1>0, <1>a, <2>1, <3>2, <4>2 DEF ReceivedWritten
    <3> QED BY <3>1, <3>2
  <2> QED BY <1>2, <1>5, <2>1, <2>2, <2>3 DEF ReceivedWritten
<1>10. ReportedWritten'
  <2>a. PICK t : t = Taken
    OBVIOUS
  <2>1. t = Taken' /\ Active' = Active /\ \A k : SlotAt(k)' = SlotAt(k)
    BY <1>2, <2>a DEF Taken, SlotAt, Active
  <2>2. ASSUME Active', NEW k \in 0 .. t - 1, readyFifo'[SlotAt(k)'] = "whole"
        PROVE  (Target(k)').page \in written'[(Target(k)').superpage]
    <3>1. k \in 0 .. mFifoSize - 1
      BY <2>a, <2>2, CardFacts
    <3>2. Target(k).page \in written[Target(k).superpage]
      BY <1>0, <1>2, <2>a, <2>1, <2>2 DEF ReportedWritten
    <3>3. written'[Target(k).superpage] = written[Target(k).superpage]
      BY <1>0, <1>2, <1>7, <3>1 DEF TypeOK
    <3> QED BY <1>7, <3>1, <3>2, <3>3
  <2> QED BY <2>1, <2>2, ReportedNext
<1> QED BY <1>8, <1>9, <1>10 DEF CardInv
-----------------------------------------------------------------------------
(* The superpages stay where they are, and no page is received.              *)
LEMMA RingKept ==
    ASSUME CrorcInv, ReceivedWritten, Len(mArrivals') = Len(mArrivals), written' = written,
           mNumberOfEntries' \in Nat, mNumberOfEntries' <= mNumberOfEntries,
           \A j \in Ages : /\ (Aged(j)').superpage = Aged(j).superpage
                           /\ (Aged(j)').received = Aged(j).received
    PROVE  ReceivedWritten' /\ \A k \in 0 .. mFifoSize - 1 : Target(k)' = Target(k)
<1>a. PICK a, n, m : a = Len(mArrivals) /\ n = mNumberOfEntries /\ m = mNumberOfEntries'
  OBVIOUS
<1>0. TypeOK /\ QueueInv /\ ReceivedWritten
  BY DEF CrorcInv
<1>1. /\ a \in Nat /\ n \in Nat /\ a <= n /\ \A j \in 1 .. n : j \in Ages
  BY <1>0, <1>a, QueueFacts
<1>2. m \in Nat /\ m <= n /\ Len(mArrivals') = a
  BY <1>a
<1>3. ASSUME NEW j \in a + 1 .. m PROVE written[(Aged(j)').superpage] = Pages
  <2>1. j \in Ages /\ j \in a + 1 .. n
    BY <1>1, <1>2
  <2> QED BY <1>0, <1>a, <2>1 DEF ReceivedWritten
<1>4. ASSUME a # 0, NEW i \in 0 .. (Aged(a)').received - 1 PROVE i \in written[(Aged(a)').superpage]
  <2>1. a \in Ages
    BY <1>1, <1>4
  <2> QED BY <1>0, <1>a, <1>4, <2>1 DEF ReceivedWritten
<1>5. ReceivedWritten'
  BY <1>0, <1>a, <1>2, <1>3, <1>4 DEF ReceivedWritten
<1>6. ASSUME NEW k \in 0 .. mFifoSize - 1 PROVE Target(k)' = Target(k)
  <2>1. a \in Ages /\ a \in 1 .. n
    BY <1>a, TargetFacts
  <2>2. a - 1 \in 1 .. a => (Aged(a - 1)').superpage = Aged(a - 1).superpage
    BY <1>1, <2>1
  <2>3. a = a + 0 /\ 0 \in Nat
    BY <1>1
  <2> QED BY <1>a, <1>2, <2>1, <2>2, <2>3, TargetKept
<1> QED BY <1>5, <1>6

(* popSuperpage() gives the oldest away.                                     *)
LEMMA PopCard == CrorcInv /\ CardInv /\ PopSuperpage => CardInv'
<1> SUFFICES ASSUME CrorcInv, CardInv, PopSuperpage PROVE CardInv'
  OBVIOUS
<1>0. TypeOK /\ QueueInv /\ ReportedWritten
  BY DEF CrorcInv, CardInv
<1>a. PICK n : n = mNumberOfEntries
  OBVIOUS
<1>1. mFilled # << >> /\ n \in Nat /\ n \in 1 .. n /\ n \in Ages /\ Head(mFilled) = Back(n)
  <2>1. mFilled # << >>
    BY DEF PopSuperpage, RemoveFromFilledQueue
  <2>2. Len(mFilled) # 0 /\ Len(mFilled) \in Nat /\ Len(mFilled) = n - Len(mArrivals) /\ Len(mArrivals) \in Nat
        /\ n \in Nat /\ Head(mFilled) = Back(n) /\ \A j \in 1 .. n : j \in Ages
    BY <1>0, <1>a, <2>1, QueueFacts
  <2> QED BY <2>1, <2>2
<1>2. PICK e \in Entry : e = [Aged(n) EXCEPT !.pushedPages = -1]
  <2>1. Aged(n) \in Entry
    BY <1>0, <1>1, AgedFacts
  <2> QED BY <2>1 DEF Entry
<1>3. /\ mRegistry' = [mRegistry EXCEPT ![Back(n)] = e]
      /\ e.superpage = Aged(n).superpage /\ e.received = Aged(n).received
      /\ mNumberOfEntries' = n - 1
      /\ UNCHANGED <<mNextId, mPushing, mArrivals>>
      /\ UNCHANGED <<mPendingDmaStart, mFifoBack, mFifoSize, pc, readyFifo, freeFifo, written>>
  BY <1>a, <1>1, <1>2 DEF PopSuperpage, RemoveFromFilledQueue, Aged, Entry, cardVars
<1>4. \A j \in Ages : Aged(j)' = IF j = n THEN e ELSE Aged(j)
  BY <1>0, <1>1, <1>3, AgedChanged
<1>5. \A j \in Ages : /\ (Aged(j)').superpage = Aged(j).superpage
                      /\ (Aged(j)').received = Aged(j).received
  BY <1>3, <1>4
<1>6. mNumberOfEntries' \in Nat /\ mNumberOfEntries' <= mNumberOfEntries
  BY <1>a, <1>1, <1>3
<1>7. ReceivedWritten' /\ \A k \in 0 .. mFifoSize - 1 : Target(k)' = Target(k)
  BY <1>3, <1>5, <1>6, RingKept DEF CardInv
<1>8. Active' = Active
  BY <1>3 DEF Active
<1>9. DescriptorsApart' /\ WindowInv' /\ NothingBehind'
  BY <1>3, <1>7, <1>8, WindowKept
<1>10. ReportedWritten'
  <2>a. PICK t : t = Taken
    OBVIOUS
  <2>1. t = Taken' /\ \A k : SlotAt(k)' = SlotAt(k)
    BY <1>3, <2>a DEF Taken, SlotAt
  <2>2. ASSUME Active', NEW k \in 0 .. t - 1, readyFifo'[SlotAt(k)'] = "whole"
        PROVE  (Target(k)').page \in written'[(Target(k)').superpage]
    <3>1. k \in 0 .. mFifoSize - 1
      BY <2>a, <2>2, CardFacts
    <3>2. Target(k).page \in written[Target(k).superpage]
      BY <1>0, <1>3, <1>8, <2>a, <2>1, <2>2 DEF ReportedWritten
    <3> QED BY <1>3, <1>7, <3>1, <3>2
  <2> QED BY <2>1, <2>2, ReportedNext
<1> QED BY <1>7, <1>9, <1>10 DEF CardInv

(* The steps of the driver that only read.                                   *)
LEMMA ReadingCard ==
    ASSUME CrorcInv, CardInv, StopDma \/ FillNothing \/ FillReturn \/ FillThrow
    PROVE  CardInv'
<1>1. /\ UNCHANGED <<queueVars, freeFifo, readyFifo, mFifoBack, mFifoSize, written, mPendingDmaStart>>
      /\ pc' = "starting" => pc = "starting"
  BY DEF StopDma, FillNothing, FillReturn, FillThrow, cardVars
<1>2. Active' => Active
  BY <1>1 DEF Active
<1> QED BY <1>1, <1>2, CardKept

(* resetChannel() may make the card forget its descriptors, none of which is *)
(* reported.                                                                 *)
LEMMA ResetCard == CrorcInv /\ CardInv /\ ResetChannel => CardInv'
<1> SUFFICES ASSUME CrorcInv, CardInv, ResetChannel PROVE CardInv'
  OBVIOUS
<1>1. /\ freeFifo' = << >> \/ freeFifo' = freeFifo
      /\ UNCHANGED <<mPendingDmaStart, mFifoBack, mFifoSize, queueVars, pc, readyFifo, written>> /\ pc = "idle"
  BY DEF ResetChannel
<1>2. CASE freeFifo' = freeFifo
  <2>1. Active' = Active
    BY <1>1 DEF Active
  <2> QED BY <1>1, <1>2, <2>1, CardKept
<1>3. CASE freeFifo' = << >>
  <2>a. PICK t : t = Taken
    OBVIOUS
  <2>1. /\ Active' = Active /\ \A k : SlotAt(k)' = SlotAt(k) /\ Target(k)' = Target(k)
    BY <1>1 DEF Active, SlotAt, Target, Aged, Back, queueVars
  <2>2. Len(freeFifo') = 0 /\ Taken' = mFifoSize
    <3>1. Len(freeFifo') = 0
      BY <1>3, SetOfEmpty
    <3>2. mFifoSize - 0 = mFifoSize
      BY <2>a, CardFacts
    <3> QED BY <1>1, <3>1, <3>2 DEF Taken
  <2>3. DescriptorsApart' /\ WindowInv'
    <3>1. mFifoSize >= 0
      BY <2>a, CardFacts
    <3> QED BY <2>2, <3>1 DEF DescriptorsApart, WindowInv
  <2>4. NothingBehind'
    BY <1>1, <2>1 DEF CardInv, NothingBehind
  <2>5. ReceivedWritten'
    BY <1>1 DEF CardInv, ReceivedWritten, Aged, Back, queueVars
  <2>6. ReportedWritten'
    <3>a. PICK m : m = mFifoSize
      OBVIOUS
    <3>1. ASSUME Active', NEW k \in 0 .. m - 1, readyFifo'[SlotAt(k)'] = "whole"
          PROVE  (Target(k)').page \in written'[(Target(k)').superpage]
      <4>1. readyFifo[SlotAt(k)] = "whole" /\ Active
        BY <1>1, <2>1, <3>1
      <4>2. CASE k < t
        <5>1. k \in 0 .. t - 1
          BY <2>a, <3>a, <4>1, <4>2, CardFacts
        <5>2. Target(k).page \in written[Target(k).superpage]
          BY <2>a, <4>1, <5>1 DEF CardInv, ReportedWritten
        <5> QED BY <1>1, <2>1, <5>2
      <4>3. CASE ~(k < t)
        <5>1. PICK i \in 1 .. Len(freeFifo) : t + i - 1 = k
          <6>1. /\ t \in Nat /\ m \in Nat /\ Len(freeFifo) \in Nat /\ t = m - Len(freeFifo)
            BY <2>a, <3>a, <4>1, CardFacts
          <6>2. (k - t) + 1 \in 1 .. Len(freeFifo) /\ t + ((k - t) + 1) - 1 = k
            BY <4>3, <6>1
          <6> QED BY <6>2
        <5>2. freeFifo[i].index = SlotAt(k)
          BY <2>a, <4>1, <5>1, CardFacts
        <5> QED BY <4>1, <5>2 DEF CardInv, DescriptorsApart
      <4> QED BY <4>2, <4>3
    <3>2. m = Taken'
      BY <2>2, <3>a
    <3> QED BY <3>1, <3>2, ReportedNext
  <2> QED BY <2>3, <2>4, <2>5, <2>6 DEF CardInv
<1> QED BY <1>1, <1>2, <1>3

(* The card reports a part of the page.                                      *)
LEMMA PartCard == CrorcInv /\ CardInv /\ CardPart => CardInv'
<1> SUFFICES ASSUME CrorcInv, CardInv, CardPart PROVE CardInv'
  OBVIOUS
<1>a. PICK t, z, h : t = Taken /\ z = Len(freeFifo) /\ h = Head(freeFifo)
  OBVIOUS
<1>0. TypeOK /\ DescriptorsApart /\ ReportedWritten /\ NothingBehind /\ ReceivedWritten
  BY DEF CrorcInv, CardInv
<1>1. /\ readyFifo' = [readyFifo EXCEPT ![h.index] = "part"] /\ freeFifo # << >>
      /\ UNCHANGED <<mPendingDmaStart, mFifoBack, mFifoSize, queueVars, pc, freeFifo, written>>
  BY <1>a DEF CardPart, cardVars
<1>2. /\ Active' = Active /\ t = Taken' /\ z = Len(freeFifo')
      /\ \A k : SlotAt(k)' = SlotAt(k) /\ Target(k)' = Target(k)
  BY <1>1, <1>a DEF Active, Taken, SlotAt, Target, Aged, Back, queueVars
<1>3. /\ readyFifo \in [FifoIndex -> {"none", "part", "whole", "error"}] /\ freeFifo \in Seq(Descriptor)
      /\ z \in Nat \ {0} /\ h = freeFifo[1] /\ h \in Descriptor /\ h.index \in FifoIndex /\ 1 \in 1 .. z
  <2>1. freeFifo \in Seq(Descriptor) /\ readyFifo \in [FifoIndex -> {"none", "part", "whole", "error"}]
    BY <1>0 DEF TypeOK, Descriptor
  <2>2. z \in Nat \ {0} /\ h = freeFifo[1] /\ h \in Descriptor
    BY <1>a, <1>1, <2>1, SetOfTail
  <2>3. h.index \in FifoIndex
    BY <2>2 DEF Descriptor
  <2> QED BY <2>1, <2>2, <2>3
<1>4. \A i \in FifoIndex : readyFifo'[i] = IF i = h.index THEN "part" ELSE readyFifo[i]
  BY <1>1, <1>3
<1>5. Active => h.index = SlotAt(t) /\ t \in FifoIndex /\ t \in Nat /\ t < mFifoSize
  <2> SUFFICES ASSUME Active PROVE h.index = SlotAt(t) /\ t \in FifoIndex /\ t \in Nat /\ t < mFifoSize
    OBVIOUS
  <2>1. /\ t + 1 - 1 \in 0 .. mFifoSize - 1 /\ t + 1 - 1 \in FifoIndex /\ freeFifo[1].index = SlotAt(t + 1 - 1)
        /\ t \in Nat /\ mFifoSize \in Nat
    BY <1>a, <1>3, CardFacts
  <2>2. t + 1 - 1 = t
    BY <2>1
  <2> QED BY <1>3, <2>1, <2>2
<1>6. DescriptorsApart'
  <2>1. ASSUME NEW k \in 1 .. z PROVE freeFifo[k].index \in FifoIndex
    <3>1. freeFifo[k] \in Descriptor
      BY <1>a, <1>3
    <3> QED BY <3>1 DEF Descriptor
  <2>2. \A k \in 1 .. z : readyFifo'[freeFifo[k].index] \in {"none", "part"}
    BY <1>0, <1>a, <1>4, <2>1 DEF DescriptorsApart
  <2> QED BY <1>0, <1>1, <1>a, <2>2 DEF DescriptorsApart
<1>7. WindowInv'
  <2>1. ASSUME Active'
        PROVE  /\ t >= 0
               /\ \A k \in 1 .. z : /\ freeFifo'[k].index = SlotAt(t + k - 1)'
                                    /\ freeFifo'[k].superpage = (Target(t + k - 1)').superpage
                                    /\ freeFifo'[k].page = (Target(t + k - 1)').page
    BY <1>1, <1>2, <1>a, <2>1, CardFacts
  <2> QED BY <1>2, <2>1, WindowNext
<1>8. NothingBehind'
  <2>1. ASSUME Active, NEW k \in mFifoSize .. READYFIFO_ENTRIES - 1 PROVE readyFifo'[SlotAt(k)] = "none"
    <3>1. k \in FifoIndex /\ k # t
      BY <1>a, <1>5, <2>1, CardFacts DEF FifoIndex
    <3>2. SlotAt(k) \in FifoIndex /\ SlotAt(k) # SlotAt(t)
      BY <1>0, <1>5, <2>1, <3>1, SlotFacts
    <3> QED BY <1>0, <1>4, <1>5, <2>1, <3>2 DEF NothingBehind
  <2> QED BY <1>1, <1>2, <2>1 DEF NothingBehind
<1>9. ReceivedWritten'
  BY <1>0, <1>1 DEF ReceivedWritten, Aged, Back, queueVars
<1>10. ASSUME Active, NEW k \in 0 .. t - 1
       PROVE  k \in FifoIndex /\ SlotAt(k) \in FifoIndex /\ SlotAt(k) # h.index
  <2>1. k \in 0 .. mFifoSize - 1 /\ k # t
    BY <1>5, <1>10, <1>a, CardFacts
  <2> QED BY <1>0, <1>5, <1>10, <2>1, SlotFacts
<1>11. ReportedWritten'
  <2>1. ASSUME Active', NEW k \in 0 .. t - 1, readyFifo'[SlotAt(k)'] = "whole"
        PROVE  (Target(k)').page \in written'[(Target(k)').superpage]
    <3>1. readyFifo[SlotAt(k)] = "whole"
      BY <1>2, <1>4, <1>10, <2>1
    <3> QED BY <1>0, <1>1, <1>2, <1>a, <2>1, <3>1 DEF ReportedWritten
  <2> QED BY <1>2, <2>1, ReportedNext
<1> QED BY <1>6, <1>7, <1>8, <1>9, <1>11 DEF CardInv

(* The card reports a page, or an error, and goes on with its next descriptor. *)
LEMMA FilledCard ==
    ASSUME CrorcInv, CardInv, NEW st \in {"whole", "error"}, NEW h, h = Head(freeFifo), freeFifo # << >>,
           readyFifo' = [readyFifo EXCEPT ![h.index] = st], freeFifo' = Tail(freeFifo),
           \A s \in Superpages : written[s] \subseteq written'[s] /\ written'[s] \subseteq Pages,
           st = "whole" => h.page \in written'[h.superpage],
           UNCHANGED <<mPendingDmaStart, mFifoBack, mFifoSize, queueVars, pc>>
    PROVE  CardInv'
<1>a. PICK t, z : t = Taken /\ z = Len(freeFifo)
  OBVIOUS
<1>0. TypeOK /\ QueueInv /\ DescriptorsApart /\ ReportedWritten /\ NothingBehind /\ ReceivedWritten
  BY DEF CrorcInv, CardInv
<1>1. /\ readyFifo \in [FifoIndex -> {"none", "part", "whole", "error"}] /\ freeFifo \in Seq(Descriptor)
      /\ z \in Nat \ {0} /\ h = freeFifo[1] /\ h \in Descriptor /\ h.index \in FifoIndex /\ 1 \in 1 .. z
      /\ freeFifo' \in Seq(Descriptor) /\ Len(freeFifo') = z - 1
      /\ \A k \in 1 .. z - 1 : freeFifo'[k] = freeFifo[k + 1]
  <2>1. freeFifo \in Seq(Descriptor) /\ readyFifo \in [FifoIndex -> {"none", "part", "whole", "error"}]
    BY <1>0 DEF TypeOK, Descriptor
  <2>2. /\ z \in Nat \ {0} /\ h = freeFifo[1] /\ h \in Descriptor
        /\ freeFifo' \in Seq(Descriptor) /\ Len(freeFifo') = z - 1
        /\ \A k \in 1 .. z - 1 : freeFifo'[k] = freeFifo[k + 1]
    BY <1>a, <2>1, SetOfTail
  <2>3. h.index \in FifoIndex
    BY <2>2 DEF Descriptor
  <2> QED BY <2>1, <2>2, <2>3
<1>2. \A i \in FifoIndex : readyFifo'[i] = IF i = h.index THEN st ELSE readyFifo[i]
  BY <1>1
<1>3. t \in Int /\ t = mFifoSize - z /\ mFifoSize \in Nat
  BY <1>a, CardFacts
<1>b. PICK u, y : u = t + 1 /\ y = z - 1
  OBVIOUS
<1>4. /\ Active' = Active /\ u = Taken' /\ y = Len(freeFifo')
      /\ \A k : SlotAt(k)' = SlotAt(k) /\ Target(k)' = Target(k)
      /\ \A j : Aged(j)' = Aged(j)
  <2>1. /\ Active' = Active
        /\ \A k : SlotAt(k)' = SlotAt(k) /\ Target(k)' = Target(k)
        /\ \A j : Aged(j)' = Aged(j)
    BY DEF Active, SlotAt, Target, Aged, Back, queueVars
  <2>2. Taken' = mFifoSize - (z - 1)
    BY <1>1 DEF Taken
  <2>3. mFifoSize - (z - 1) = t + 1
    BY <1>1, <1>3
  <2> QED BY <1>1, <1>b, <2>1, <2>2, <2>3
<1>5. Active => /\ h.index = SlotAt(t) /\ t \in FifoIndex /\ t \in Nat /\ t < mFifoSize
                /\ h.superpage = Target(t).superpage /\ h.page = Target(t).page
  <2> SUFFICES ASSUME Active
               PROVE  /\ h.index = SlotAt(t) /\ t \in FifoIndex /\ t \in Nat /\ t < mFifoSize
                      /\ h.superpage = Target(t).superpage /\ h.page = Target(t).page
    OBVIOUS
  <2>1. /\ t + 1 - 1 \in 0 .. mFifoSize - 1 /\ t + 1 - 1 \in FifoIndex /\ freeFifo[1].index = SlotAt(t + 1 - 1)
        /\ freeFifo[1].superpage = Target(t + 1 - 1).superpage /\ freeFifo[1].page = Target(t + 1 - 1).page
        /\ t \in Nat
    BY <1>a, <1>1, CardFacts
  <2>2. t + 1 - 1 = t
    BY <2>1
  <2> QED BY <1>1, <1>3, <2>1, <2>2
<1>6. ASSUME NEW k \in 1 .. y PROVE k + 1 \in 1 .. z /\ freeFifo'[k] = freeFifo[k + 1] /\ k + 1 # 1
  BY <1>1, <1>b
<1>7. DescriptorsApart'
  <2>1. ASSUME NEW k \in 1 .. y
        PROVE  freeFifo'[k].page \in Pages /\ readyFifo'[freeFifo'[k].index] \in {"none", "part"}
    <3>1. /\ freeFifo[k + 1].page \in Pages /\ freeFifo[k + 1].index # freeFifo[1].index
          /\ readyFifo[freeFifo[k + 1].index] \in {"none", "part"}
      BY <1>0, <1>1, <1>a, <1>6 DEF DescriptorsApart
    <3>2. freeFifo[k + 1] \in Descriptor
      BY <1>1, <1>a, <1>6
    <3>3. freeFifo[k + 1].index \in FifoIndex
      BY <3>2 DEF Descriptor
    <3> QED BY <1>1, <1>2, <1>6, <3>1, <3>3
  <2>2. ASSUME NEW j \in 1 .. y, NEW k \in 1 .. y, freeFifo'[j].index = freeFifo'[k].index PROVE j = k
    <3>1. j + 1 = k + 1
      BY <1>0, <1>a, <1>6, <2>2 DEF DescriptorsApart
    <3> QED BY <1>1, <1>b, <3>1
  <2> QED BY <1>4, <2>1, <2>2 DEF DescriptorsApart
<1>8. WindowInv'
  <2>1. ASSUME Active', NEW k \in 1 .. y
        PROVE  /\ freeFifo'[k].index = SlotAt(u + k - 1)'
               /\ freeFifo'[k].superpage = (Target(u + k - 1)').superpage
               /\ freeFifo'[k].page = (Target(u + k - 1)').page
    <3>1. u + k - 1 = t + (k + 1) - 1
      BY <1>1, <1>3, <1>b
    <3>2. /\ freeFifo[k + 1].index = SlotAt(t + (k + 1) - 1)
          /\ freeFifo[k + 1].superpage = Target(t + (k + 1) - 1).superpage
          /\ freeFifo[k + 1].page = Target(t + (k + 1) - 1).page
      BY <1>4, <1>6, <1>a, <2>1, CardFacts
    <3> QED BY <1>4, <1>6, <3>1, <3>2
  <2>2. Active' => u >= 0
    BY <1>4, <1>5, <1>b
  <2> QED BY <1>4, <2>1, <2>2, WindowNext
<1>9. NothingBehind'
  <2>1. ASSUME Active, NEW k \in mFifoSize .. READYFIFO_ENTRIES - 1 PROVE readyFifo'[SlotAt(k)] = "none"
    <3>1. k \in FifoIndex /\ k # t
      BY <1>a, <1>5, <2>1, CardFacts DEF FifoIndex
    <3>2. SlotAt(k) \in FifoIndex /\ SlotAt(k) # SlotAt(t)
      BY <1>0, <1>5, <2>1, <3>1, SlotFacts
    <3> QED BY <1>0, <1>2, <1>5, <2>1, <3>2 DEF NothingBehind
  <2> QED BY <1>4, <2>1 DEF NothingBehind
<1>10. ReceivedWritten'
  <2>a. PICK a, n : a = Len(mArrivals) /\ n = mNumberOfEntries
    OBVIOUS
  <2>1. a \in Nat /\ n \in Nat /\ a <= n /\ \A j \in 1 .. n : j \in Ages /\ Aged(j).superpage \in Superpages
    BY <1>0, <2>a, QueueFacts, AgedFacts
  <2>2. ASSUME NEW j \in a + 1 .. n PROVE written'[Aged(j).superpage] = Pages
    <3>1. Aged(j).superpage \in Superpages
      BY <2>1
    <3>2. written[Aged(j).superpage] = Pages
      BY <1>0, <2>a DEF ReceivedWritten
    <3> QED BY <3>1, <3>2
  <2>3. ASSUME a # 0, NEW i \in 0 .. Aged(a).received - 1 PROVE i \in written'[Aged(a).superpage]
    <3>1. Aged(a).superpage \in Superpages
      BY <2>1, <2>3
    <3>2. i \in written[Aged(a).superpage]
      BY <1>0, <2>a, <2>3 DEF ReceivedWritten
    <3> QED BY <3>1, <3>2
  <2>4. mArrivals' = mArrivals /\ mNumberOfEntries' = mNumberOfEntries
    BY DEF queueVars
  <2> QED BY <1>4, <2>a, <2>2, <2>3, <2>4 DEF ReceivedWritten
<1>11. ASSUME Active, NEW k \in 0 .. u - 1
       PROVE  /\ k \in FifoIndex /\ SlotAt(k) \in FifoIndex /\ k \in 0 .. mFifoSize - 1
              /\ k = t \/ (k \in 0 .. t - 1 /\ SlotAt(k) # h.index)
  <2>1. k \in 0 .. mFifoSize - 1 /\ (k = t \/ (k \in 0 .. t - 1 /\ k # t))
    BY <1>3, <1>5, <1>11, <1>b
  <2> QED BY <1>0, <1>5, <1>11, <2>1, SlotFacts
<1>12. ReportedWritten'
  <2>1. ASSUME Active', NEW k \in 0 .. u - 1, readyFifo'[SlotAt(k)'] = "whole"
        PROVE  (Target(k)').page \in written'[(Target(k)').superpage]
    <3>0. Active /\ readyFifo'[SlotAt(k)] = "whole"
      BY <1>4, <2>1
    <3>1. CASE k = t
      BY <1>2, <1>4, <1>5, <1>11, <3>0, <3>1
    <3>2. CASE k \in 0 .. t - 1 /\ SlotAt(k) # h.index
      <4>1. readyFifo[SlotAt(k)] = "whole"
        BY <1>2, <1>11, <3>0, <3>2
      <4>2. Target(k).page \in written[Target(k).superpage]
        BY <1>0, <1>a, <3>0, <3>2, <4>1 DEF ReportedWritten
      <4>3. Target(k).superpage \in Superpages
        <5>1. k \in 0 .. mFifoSize - 1
          BY <1>11, <3>0
        <5> QED BY <5>1, TargetFacts
      <4> QED BY <1>4, <4>2, <4>3
    <3> QED BY <1>11, <3>0, <3>1, <3>2
  <2> QED BY <1>4, <2>1, ReportedNext
<1> QED BY <1>7, <1>8, <1>9, <1>10, <1>12 DEF CardInv

(* The card writes a page and reports it, ...                              *)
LEMMA WholeCard == CrorcInv /\ CardInv /\ CardWhole => CardInv'
<1> SUFFICES ASSUME CrorcInv, CardInv, CardWhole PROVE CardInv'
  OBVIOUS
<1>a. PICK h : h = Head(freeFifo)
  OBVIOUS
<1>1. /\ freeFifo # << >> /\ readyFifo' = [readyFifo EXCEPT ![h.index] = "whole"]
      /\ written' = [written EXCEPT ![h.superpage] = @ \cup {h.page}] /\ freeFifo' = Tail(freeFifo)
      /\ UNCHANGED <<mPendingDmaStart, mFifoBack, mFifoSize, queueVars, pc>>
  BY <1>a DEF CardWhole
<1>2. h \in Descriptor /\ h = freeFifo[1] /\ 1 \in 1 .. Len(freeFifo) /\ written \in [Superpages -> SUBSET Nat]
  <2>1. freeFifo \in Seq(Descriptor) /\ written \in [Superpages -> SUBSET Nat]
    BY DEF CrorcInv, TypeOK, Descriptor
  <2> QED BY <1>a, <1>1, <2>1, SetOfTail
<1>3. h.page \in Pages /\ h.superpage \in Superpages
  BY <1>2 DEF CardInv, DescriptorsApart, Descriptor
<1>4. \A s \in Superpages : written[s] \subseteq written'[s] /\ written'[s] \subseteq Pages
  BY <1>1, <1>2, <1>3 DEF CardInv, ReceivedWritten
<1>5. h.page \in written'[h.superpage]
  BY <1>1, <1>2, <1>3
<1> QED BY <1>a, <1>1, <1>4, <1>5, FilledCard

(* ... or it reports an error.                                               *)
LEMMA ErrorCard == CrorcInv /\ CardInv /\ CardError => CardInv'
<1> SUFFICES ASSUME CrorcInv, CardInv, CardError PROVE CardInv'
  OBVIOUS
<1>a. PICK h : h = Head(freeFifo)
  OBVIOUS
<1>1. /\ freeFifo # << >> /\ readyFifo' = [readyFifo EXCEPT ![h.index] = "error"]
      /\ freeFifo' = Tail(freeFifo) /\ written' = written
      /\ UNCHANGED <<mPendingDmaStart, mFifoBack, mFifoSize, queueVars, pc>>
  BY <1>a DEF CardError
<1>2. \A s \in Superpages : written[s] \subseteq written'[s] /\ written'[s] \subseteq Pages
  BY <1>1 DEF CardInv, ReceivedWritten
<1> QED BY <1>a, <1>1, <1>2, FilledCard
-----------------------------------------------------------------------------
(* Where a page is, counted from the first page of the oldest superpage.     *)
LEMMA PageShift ==
    ASSUME NEW r \in Int, NEW w \in Int, NEW q \in Int, NEW k \in Int, NEW n \in Int
    PROVE  /\ q = w - r => r + (q + k - 1) = w + k - 1
           /\ q = n - r + w => r + (q + k - 1) = n + (w + k - 1)
OBVIOUS

(* The pages pushed are the targets of the next entries.                     *)
LEMMA TargetPushed ==
    ASSUME CrorcInv, mPushing # << >>, NEW m \in Nat, m <= maxPages - Aged(Len(mPushing)).pushedPages,
           NEW k \in 1 .. m, NEW x, x = mFifoSize + k - 1, mArrivals' = mArrivals,
           \A j \in Ages : /\ (Aged(j)').superpage = Aged(j).superpage
                           /\ (Aged(j)').received = Aged(j).received
    PROVE  /\ (Target(x)').superpage = Aged(Len(mPushing)).superpage
           /\ (Target(x)').page = Aged(Len(mPushing)).pushedPages + k - 1
           /\ Aged(Len(mPushing)).pushedPages + k - 1 \in Pages
<1>0. TypeOK /\ QueueInv /\ PageInv
  BY DEF CrorcInv
<1>a. PICK a, p : a = Len(mArrivals) /\ p = Len(mPushing)
  OBVIOUS
<1>1. /\ a \in Nat /\ p \in Nat \ {0} /\ p <= a /\ a <= p + 1 /\ a \in Ages /\ p \in Ages /\ p \in 1 .. a
      /\ maxPages \in Nat /\ a - 1 \in Int /\ a # 0 /\ mFifoSize \in Nat /\ a \in 1 .. a
  <2>1. a <= p + 1
    BY <1>0, <1>a DEF PageInv
  <2> QED BY <1>0, <1>a, <2>1, QueueFacts, CrorcAssumption DEF TypeOK
<1>2. PICK r \in Nat, w \in Nat \cup {-1} : r = Aged(a).received /\ w = Aged(p).pushedPages
  BY <1>0, <1>1, AgedFacts
<1>3. w \in Nat /\ k \in Nat \ {0} /\ k <= m /\ m <= maxPages - w /\ w + k - 1 \in Nat /\ w + k - 1 < maxPages
  <2>1. Valid(Aged(p))
    BY <1>0, <1>1, <1>a, QueueFacts DEF QueueInv
  <2>2. w \in Nat
    BY <1>2, <2>1 DEF Valid
  <2> QED BY <1>1, <1>2, <1>a, <2>2
<1>4. w + k - 1 \in Pages
  BY <1>1, <1>3 DEF Pages
<1>5. x \in Nat /\ x = mFifoSize + k - 1
  BY <1>1, <1>3
<1>6. Target(x)' = IF r + x < maxPages THEN [superpage |-> (Aged(a)').superpage, page |-> r + x]
                   ELSE [superpage |-> (Aged(a - 1)').superpage, page |-> r + x - maxPages]
  <2>1. Target(x)' = IF (Aged(a)').received + x < maxPages
                     THEN [superpage |-> (Aged(a)').superpage, page |-> (Aged(a)').received + x]
                     ELSE [superpage |-> (Aged(a - 1)').superpage, page |-> (Aged(a)').received + x - maxPages]
    BY <1>1, <1>2, <1>5, <1>a DEF Target
  <2>2. (Aged(a)').received = r
    BY <1>1, <1>2
  <2> QED BY <2>1, <2>2
<1>7. CASE p = a
  <2>1. mFifoSize = w - r
    BY <1>0, <1>1, <1>2, <1>7, <1>a DEF PageInv
  <2>2. r + x = w + k - 1
    BY <1>1, <1>3, <1>5, <2>1, PageShift
  <2>3. Target(x)' = [superpage |-> (Aged(a)').superpage, page |-> w + k - 1]
    BY <1>3, <1>6, <2>2
  <2> QED BY <1>1, <1>2, <1>4, <1>7, <1>a, <2>3
<1>8. CASE p # a
  <2>1. mFifoSize = maxPages - r + w /\ p = a - 1
    BY <1>0, <1>1, <1>2, <1>8, <1>a DEF PageInv
  <2>2. r + x = maxPages + (w + k - 1)
    BY <1>1, <1>3, <1>5, <2>1, PageShift
  <2>3. ~(r + x < maxPages) /\ r + x - maxPages = w + k - 1
    BY <1>1, <1>3, <2>2
  <2>4. Target(x)' = [superpage |-> (Aged(p)').superpage, page |-> w + k - 1]
    BY <1>6, <2>1, <2>3
  <2> QED BY <1>1, <1>2, <1>4, <1>a, <2>4
<1> QED BY <1>7, <1>8

\* The descriptors in fifo are those of the entries from the t-th on, which like
\* the ones that are not in use report no page.
Before(fifo, t) ==
    \A k \in 1 .. Len(fifo) : /\ fifo[k].index = SlotAt(t + k - 1)
                              /\ fifo[k].superpage = Target(t + k - 1).superpage
                              /\ fifo[k].page = Target(t + k - 1).page
                              /\ readyFifo'[SlotAt(t + k - 1)] \in {"none", "part"}

NoneReported == \A x \in mFifoSize .. READYFIFO_ENTRIES - 1 : readyFifo'[SlotAt(x)] = "none"

(* The card gets m more pages, behind those in fifo.                         *)
LEMMA PushedCard ==
    ASSUME FullStart, CrorcInv, ReceivedWritten, NEW m \in Nat, NEW fifo \in Seq(Descriptor), PushPages(m, fifo),
           mPushing # << >>, m <= READYFIFO_ENTRIES - mFifoSize,
           m <= maxPages - Aged(Len(mPushing)).pushedPages,
           UNCHANGED <<mFifoBack, mNextId, mNumberOfEntries, mArrivals, mFilled, inDriver, written>>,
           NEW t \in Nat, t = mFifoSize - Len(fifo),
           Before(fifo, t), NoneReported
    PROVE  /\ DescriptorsApart' /\ WindowInv' /\ NothingBehind' /\ ReceivedWritten' /\ Taken' = t
           /\ \A k \in 0 .. mFifoSize - 1 : Target(k)' = Target(k)
<1>0. TypeOK /\ QueueInv /\ OrderInv /\ PageInv
  BY DEF CrorcInv
<1>a. PICK z, q, y : z = Len(fifo) /\ q = mFifoSize /\ y = z + m
  OBVIOUS
<1>1. /\ q \in Nat /\ q <= READYFIFO_ENTRIES /\ READYFIFO_ENTRIES \in Nat \ {0} /\ z \in Nat
      /\ t = q - z /\ y \in Nat /\ m <= READYFIFO_ENTRIES - q
  <2>1. q \in Nat /\ q <= READYFIFO_ENTRIES /\ READYFIFO_ENTRIES \in Nat \ {0}
    BY <1>0, <1>a, CrorcAssumption DEF TypeOK
  <2>2. z \in Nat
    BY <1>a, SetOfSeq
  <2> QED BY <1>a, <2>1, <2>2
<1>2. /\ mFifoSize' = q + m
      /\ \A j \in Ages : /\ (Aged(j)').superpage = Aged(j).superpage
                         /\ (Aged(j)').received = Aged(j).received
  BY <1>0, <1>a, PagesPushed
<1>3. /\ Len(freeFifo') = y
      /\ \A k \in 1 .. z : freeFifo'[k] = fifo[k]
      /\ \A k \in 1 .. m :
            /\ freeFifo'[z + k].superpage = Aged(Len(mPushing)).superpage
            /\ freeFifo'[z + k].page = Aged(Len(mPushing)).pushedPages + k - 1
            /\ freeFifo'[z + k].index = (mFifoBack + mFifoSize + k - 1) % READYFIFO_ENTRIES
  BY <1>0, <1>a, DescriptorsPushed
<1>4. ReceivedWritten' /\ \A k \in 0 .. q - 1 : Target(k)' = Target(k)
  <2>1. mNumberOfEntries' \in Nat /\ mNumberOfEntries' <= mNumberOfEntries
    BY <1>0, QueueFacts
  <2> QED BY <1>2, <1>a, <2>1, RingKept
<1>5. Taken' = t
  <2>1. Taken' = (q + m) - y
    BY <1>2, <1>3 DEF Taken
  <2>2. (q + m) - y = t
    BY <1>1, <1>a
  <2> QED BY <2>1, <2>2
<1>6. \A k : SlotAt(k)' = SlotAt(k)
  BY DEF SlotAt
<1>7. ASSUME NEW i \in 1 .. y
      PROVE  /\ t + i - 1 \in FifoIndex
             /\ freeFifo'[i].index = SlotAt(t + i - 1)
             /\ freeFifo'[i].superpage = (Target(t + i - 1)').superpage
             /\ freeFifo'[i].page = (Target(t + i - 1)').page
             /\ freeFifo'[i].page \in Pages
             /\ readyFifo'[SlotAt(t + i - 1)] \in {"none", "part"}
  <2>1. t + i - 1 \in FifoIndex
    BY <1>1, <1>a DEF FifoIndex
  <2>2. CASE i <= z
    <3>1. i \in 1 .. z /\ t + i - 1 \in 0 .. q - 1
      BY <1>1, <1>a, <2>2
    <3>2. Target(t + i - 1)' = Target(t + i - 1) /\ Target(t + i - 1).page \in Pages
      BY <1>4, <1>a, <3>1, TargetFacts
    <3> QED BY <1>3, <1>a, <2>1, <3>1, <3>2 DEF Before
  <2>3. CASE ~(i <= z)
    <3>1. PICK k \in 1 .. m : i = z + k /\ t + i - 1 = q + k - 1
      <4>1. i - z \in 1 .. m /\ i = z + (i - z) /\ t + i - 1 = q + (i - z) - 1
        BY <1>1, <1>a, <2>3
      <4> QED BY <4>1
    <3>2. PICK x : x = q + k - 1
      OBVIOUS
    <3>3. /\ (Target(x)').superpage = Aged(Len(mPushing)).superpage
          /\ (Target(x)').page = Aged(Len(mPushing)).pushedPages + k - 1
          /\ Aged(Len(mPushing)).pushedPages + k - 1 \in Pages
      BY <1>2, <1>a, <3>2, TargetPushed
    <3>4. freeFifo'[i].index = SlotAt(x)
      <4>1. mFifoBack \in Nat
        BY <1>0 DEF TypeOK, FifoIndex
      <4>2. mFifoBack + q + k - 1 = mFifoBack + x
        BY <1>1, <3>2, <4>1
      <4> QED BY <1>3, <1>a, <3>1, <4>2 DEF SlotAt
    <3>5. x \in q .. READYFIFO_ENTRIES - 1
      BY <1>1, <3>2
    <3> QED BY <1>3, <1>a, <2>1, <3>1, <3>2, <3>3, <3>4, <3>5 DEF NoneReported
  <2> QED BY <2>2, <2>3
<1>8. DescriptorsApart'
  <2>1. ASSUME NEW i \in 1 .. y, NEW j \in 1 .. y, freeFifo'[i].index = freeFifo'[j].index PROVE i = j
    <3>1. t + i - 1 = t + j - 1
      BY <1>0, <1>7, <2>1, SlotFacts
    <3> QED BY <1>1, <3>1
  <2> QED BY <1>3, <1>7, <2>1 DEF DescriptorsApart
<1>9. WindowInv'
  <2>1. t = Taken' /\ y = Len(freeFifo') /\ t >= 0
    BY <1>3, <1>5
  <2>2. \A k \in 1 .. y : /\ freeFifo'[k].index = SlotAt(t + k - 1)'
                          /\ freeFifo'[k].superpage = (Target(t + k - 1)').superpage
                          /\ freeFifo'[k].page = (Target(t + k - 1)').page
    BY <1>6, <1>7
  <2> QED BY <2>1, <2>2, WindowNext
<1>10. NothingBehind'
  <2>1. \A x \in q + m .. READYFIFO_ENTRIES - 1 : x \in q .. READYFIFO_ENTRIES - 1
    BY <1>1
  <2> QED BY <1>2, <1>6, <1>a, <2>1 DEF NothingBehind, NoneReported
<1> QED BY <1>4, <1>5, <1>8, <1>9, <1>10, <1>a
-----------------------------------------------------------------------------
(* The card after fillSuperpages() pushed pages ...                        *)
LEMMA FillPushCard == FullStart /\ CrorcInv /\ CardInv /\ FillPush => CardInv'
<1> SUFFICES ASSUME FullStart, CrorcInv, CardInv, FillPush PROVE CardInv'
  OBVIOUS
<1>a. PICK m, t : m = FillCount /\ t = Taken
  OBVIOUS
<1>0. /\ m \in Nat /\ PushPages(m, freeFifo) /\ mPushing # << >>
      /\ m <= READYFIFO_ENTRIES - mFifoSize
      /\ m <= maxPages - Aged(Len(mPushing)).pushedPages
  BY <1>a, FillPushFacts
<1>1. /\ Active /\ Active' /\ pc' = "arrivals"
      /\ UNCHANGED <<mFifoBack, mNextId, mNumberOfEntries, mArrivals, mFilled, inDriver, written, readyFifo>>
  BY DEF FillPush, Active
<1>2. /\ freeFifo \in Seq(Descriptor) /\ t \in Nat /\ t = mFifoSize - Len(freeFifo)
      /\ \A k \in 1 .. Len(freeFifo) : /\ freeFifo[k].index = SlotAt(t + k - 1)
                                       /\ freeFifo[k].superpage = Target(t + k - 1).superpage
                                       /\ freeFifo[k].page = Target(t + k - 1).page
  BY <1>1, <1>a, CardFacts
<1>3. \A k \in 1 .. Len(freeFifo) : readyFifo'[SlotAt(t + k - 1)] \in {"none", "part"}
  BY <1>1, <1>2 DEF CardInv, DescriptorsApart
<1>4. \A x \in mFifoSize .. READYFIFO_ENTRIES - 1 : readyFifo'[SlotAt(x)] = "none"
  BY <1>1 DEF CardInv, NothingBehind
<1>5. /\ DescriptorsApart' /\ WindowInv' /\ NothingBehind' /\ ReceivedWritten' /\ Taken' = t
      /\ \A k \in 0 .. mFifoSize - 1 : Target(k)' = Target(k)
  <2>1. UNCHANGED <<mFifoBack, mNextId, mNumberOfEntries, mArrivals, mFilled, inDriver, written>>
    BY <1>1
  <2>2. Before(freeFifo, t) /\ NoneReported
    BY <1>2, <1>3, <1>4 DEF Before, NoneReported
  <2>3. freeFifo \in Seq(Descriptor) /\ t \in Nat /\ t = mFifoSize - Len(freeFifo)
    BY <1>2
  <2> QED BY <1>0, <2>1, <2>2, <2>3, PushedCard DEF CardInv
<1>6. ReportedWritten'
  <2>1. ASSUME NEW k \in 0 .. t - 1, readyFifo'[SlotAt(k)'] = "whole"
        PROVE  (Target(k)').page \in written'[(Target(k)').superpage]
    <3>1. k \in 0 .. mFifoSize - 1
      BY <1>a, <2>1, CardFacts
    <3>2. readyFifo[SlotAt(k)] = "whole"
      BY <1>1, <2>1 DEF SlotAt
    <3>3. Target(k).page \in written[Target(k).superpage]
      BY <1>1, <1>a, <3>2 DEF CardInv, ReportedWritten
    <3> QED BY <1>1, <1>5, <3>1, <3>3
  <2> QED BY <1>5, <2>1, ReportedNext
<1> QED BY <1>5, <1>6 DEF CardInv

(* ... and after the start, which forgets what was pushed before.          *)
LEMMA FillStartCard == FullStart /\ CrorcInv /\ PagesInv /\ FillStart => CardInv'
<1> SUFFICES ASSUME FullStart, CrorcInv, PagesInv, FillStart PROVE CardInv'
  OBVIOUS
<1>0. TypeOK /\ QueueInv /\ PageInv /\ StartInv
  BY DEF CrorcInv
<1>a. PICK a : a = Len(mArrivals)
  OBVIOUS
<1>1. /\ mPushing # << >> /\ PushPages(READYFIFO_ENTRIES, << >>) /\ mPendingDmaStart /\ pc = "idle"
      /\ readyFifo' = [k \in FifoIndex |-> "none"]
      /\ UNCHANGED <<mFifoBack, mNextId, mNumberOfEntries, mArrivals, mFilled, inDriver, written>>
  BY DEF FillStart, FillCalled
<1>2. a \in Nat \ {0} /\ Len(mPushing) = a /\ Aged(a).pushedPages = 0 /\ Aged(a).received = 0
  BY <1>0, <1>a, <1>1, QueueFacts DEF StartInv
<1>3. mFifoSize = 0
  BY <1>0, <1>a, <1>2 DEF PageInv
<1>4. READYFIFO_ENTRIES \in Nat \ {0} /\ READYFIFO_ENTRIES <= maxPages /\ maxPages \in Nat
  BY CrorcAssumption DEF FullStart
<1>5. READYFIFO_ENTRIES <= READYFIFO_ENTRIES - mFifoSize
      /\ READYFIFO_ENTRIES <= maxPages - Aged(Len(mPushing)).pushedPages
  BY <1>2, <1>3, <1>4
<1>6. \A x \in mFifoSize .. READYFIFO_ENTRIES - 1 : readyFifo'[SlotAt(x)] = "none"
  BY <1>0, <1>1, <1>3, SlotFacts DEF FifoIndex
<1>7. << >> \in Seq(Descriptor) /\ Len(<< >>) = 0 /\ 0 = mFifoSize - 0 /\ 0 \in Nat
  BY <1>3, SetOfEmpty
<1>b. ReceivedWritten
  <2>1. mNumberOfEntries = a
    <3>1. PICK n \in Nat, f \in Nat : n = mNumberOfEntries /\ f = Len(mFilled) /\ f = n - a
      BY <1>0, <1>a, QueueFacts
    <3>2. f = 0
      BY <1>1, <3>1 DEF PagesInv
    <3> QED BY <1>2, <3>1, <3>2
  <2>2. ~\E j \in a + 1 .. a : TRUE
    BY <1>2
  <2>3. ~\E i \in 0 .. 0 - 1 : TRUE
    OBVIOUS
  <2> QED BY <1>2, <1>a, <2>1, <2>2, <2>3 DEF ReceivedWritten, PagesInv
<1>8. DescriptorsApart' /\ WindowInv' /\ NothingBehind' /\ ReceivedWritten' /\ Taken' = 0
  <2>1. UNCHANGED <<mFifoBack, mNextId, mNumberOfEntries, mArrivals, mFilled, inDriver, written>>
    BY <1>1
  <2>2. PICK fifo \in Seq(Descriptor), t \in Nat, m \in Nat : fifo = << >> /\ t = 0 /\ m = READYFIFO_ENTRIES
    BY <1>4, <1>7
  <2>3. Before(fifo, t) /\ NoneReported /\ t = mFifoSize - Len(fifo)
    <3>1. Len(fifo) = 0
      BY <1>7, <2>2
    <3>2. Before(fifo, t)
      BY <3>1 DEF Before
    <3>3. NoneReported
      BY <1>6 DEF NoneReported
    <3> QED BY <1>7, <2>2, <3>1, <3>2, <3>3
  <2>4. /\ PushPages(m, fifo) /\ mPushing # << >> /\ m <= READYFIFO_ENTRIES - mFifoSize
        /\ m <= maxPages - Aged(Len(mPushing)).pushedPages
    BY <1>1, <1>5, <2>2
  <2>5. DescriptorsApart' /\ WindowInv' /\ NothingBehind' /\ ReceivedWritten' /\ Taken' = t
    BY <1>b, <2>1, <2>3, <2>4, PushedCard
  <2> QED BY <2>2, <2>5
<1>9. ReportedWritten'
  BY <1>8 DEF ReportedWritten
<1> QED BY <1>8, <1>9 DEF CardInv

(* The target of an entry after a step.                                      *)
LEMMA TargetNext ==
    ASSUME NEW b \in Nat, b = Len(mArrivals'), NEW r \in Nat, r = (Aged(b)').received, NEW k \in Nat,
           NEW y \in Nat, y = r + k
    PROVE  Target(k)' = IF y < maxPages THEN [superpage |-> (Aged(b)').superpage, page |-> y]
                        ELSE [superpage |-> (Aged(b - 1)').superpage, page |-> y - maxPages]
<1>1. maxPages \in Nat
  BY CrorcAssumption
<1>2. Len(mArrivals') \in Nat /\ (Aged(Len(mArrivals))').received \in Nat
  OBVIOUS
<1> QED BY <1>1, <1>2 DEF Target

(* The page of an entry, for a rigid number of it ...                      *)
LEMMA TargetAt ==
    ASSUME CrorcInv, NEW x \in 0 .. mFifoSize - 1, NEW a, a = Len(mArrivals),
           NEW r \in Nat, r = Aged(a).received, NEW y \in Nat, y = r + x
    PROVE  \/ y < maxPages /\ Target(x).superpage = Aged(a).superpage /\ Target(x).page = y
           \/ /\ ~(y < maxPages) /\ a - 1 \in Ages
              /\ Target(x).superpage = Aged(a - 1).superpage /\ Target(x).page = y - maxPages
<1>1. \/ /\ r + x < maxPages
         /\ Target(x).superpage = Aged(a).superpage /\ Target(x).page = r + x
      \/ /\ ~(r + x < maxPages) /\ a - 1 \in Ages
         /\ Target(x).superpage = Aged(a - 1).superpage /\ Target(x).page = r + x - maxPages
  BY TargetFacts
<1>2. x \in Nat /\ maxPages \in Nat /\ mFifoSize \in Nat
  BY CrorcAssumption DEF CrorcInv, TypeOK
<1>3. r + x = y
  OBVIOUS
<1> QED BY <1>1, <1>2, <1>3

(* ... which moves down with the entries when some are counted.            *)
LEMMA TargetMoved ==
    ASSUME CrorcInv, NEW a, a = Len(mArrivals), mArrivals' = mArrivals, NEW m \in Nat,
           (Aged(a)').received = Aged(a).received + m,
           \A j \in Ages : (Aged(j)').superpage = Aged(j).superpage,
           NEW k \in Nat, NEW x \in 0 .. mFifoSize - 1, x = k + m
    PROVE  (Target(k)').superpage = Target(x).superpage /\ (Target(k)').page = Target(x).page
<1>1. /\ a \in Nat \ {0} /\ a \in Ages /\ Aged(a).received \in Nat
      /\ \/ /\ Aged(a).received + x < maxPages
            /\ Target(x).superpage = Aged(a).superpage /\ Target(x).page = Aged(a).received + x
         \/ /\ ~(Aged(a).received + x < maxPages) /\ a - 1 \in 1 .. a /\ a - 1 \in Ages
            /\ Target(x).superpage = Aged(a - 1).superpage
            /\ Target(x).page = Aged(a).received + x - maxPages
  BY TargetFacts
<1>2. PICK r \in Nat : r = Aged(a).received
  BY <1>1
<1>3. PICK e \in Nat, y \in Nat : e = r + m /\ y = e + k /\ y = r + x /\ x \in Nat /\ maxPages \in Nat
  BY <1>2, CrorcAssumption
<1>4. a \in Nat /\ a = Len(mArrivals') /\ e = (Aged(a)').received
  BY <1>1, <1>2, <1>3
<1>5. Target(k)' = IF y < maxPages THEN [superpage |-> (Aged(a)').superpage, page |-> y]
                   ELSE [superpage |-> (Aged(a - 1)').superpage, page |-> y - maxPages]
  BY <1>3, <1>4, TargetNext
<1>6. \/ y < maxPages /\ Target(x).superpage = Aged(a).superpage /\ Target(x).page = y
      \/ /\ ~(y < maxPages) /\ a - 1 \in Ages
         /\ Target(x).superpage = Aged(a - 1).superpage /\ Target(x).page = y - maxPages
  <2>1. a = Len(mArrivals) /\ x \in 0 .. mFifoSize - 1 /\ r = Aged(a).received /\ y = r + x
    BY <1>2, <1>3
  <2> QED BY <2>1, TargetAt
<1>7. CASE y < maxPages
  BY <1>1, <1>5, <1>6, <1>7
<1>8. CASE ~(y < maxPages)
  <2>1. a - 1 \in Ages
    BY <1>6, <1>8
  <2>2. (Aged(a - 1)').superpage = Aged(a - 1).superpage
    BY <2>1
  <2> QED BY <1>5, <1>6, <1>8, <2>2
<1> QED BY <1>7, <1>8

(* Pages of the oldest superpage are counted as received.                    *)
LEMMA ReceivedCard ==
    ASSUME CrorcInv, CardInv, NEW m \in Nat, mArrivals # << >>, Received(Head(mArrivals), m),
           mFifoSize' = mFifoSize - m,
           m <= Aged(Len(mArrivals)).pushedPages - Aged(Len(mArrivals)).received,
           UNCHANGED <<mNextId, mNumberOfEntries, mPushing, inDriver, written>>,
           \A i \in Aged(Len(mArrivals)).received .. Aged(Len(mArrivals)).received + m - 1 :
              i \in written[Aged(Len(mArrivals)).superpage]
    PROVE  /\ ReceivedWritten'
           /\ \A k \in 0 .. mFifoSize - m - 1 :
                \A x \in Nat : x = k + m => /\ (Target(k)').superpage = Target(x).superpage
                                            /\ (Target(k)').page = Target(x).page
<1>0. TypeOK /\ QueueInv /\ OrderInv /\ PageInv /\ ReceivedWritten
  BY DEF CrorcInv, CardInv
<1>a. PICK a, n : a = Len(mArrivals) /\ n = mNumberOfEntries
  OBVIOUS
<1>1. /\ a \in Nat \ {0} /\ n \in Nat /\ a <= n /\ a \in Ages /\ mFifoSize \in Nat /\ maxPages \in Nat
      /\ \A j \in 1 .. n : j \in Ages
  BY <1>0, <1>a, QueueFacts, CrorcAssumption DEF TypeOK
<1>2. PICK r \in Nat, s \in Superpages : r = Aged(a).received /\ s = Aged(a).superpage
  BY <1>0, <1>1, AgedFacts
<1>3. /\ \A j \in Ages : /\ (Aged(j)').superpage = Aged(j).superpage
                         /\ j # a => Aged(j)' = Aged(j)
      /\ \/ r + m = maxPages /\ Len(mArrivals') = a - 1 /\ (a # 1 => Aged(a - 1).received = 0)
         \/ r + m < maxPages /\ mArrivals' = mArrivals /\ (Aged(a)').received = r + m
  BY <1>0, <1>1, <1>2, <1>a, PagesReceived
<1>4. ASSUME NEW i \in 0 .. r + m - 1 PROVE i \in written[s]
  <2>1. CASE i < r
    <3>1. i \in 0 .. r - 1
      BY <2>1
    <3> QED BY <1>0, <1>1, <1>2, <1>a, <3>1 DEF ReceivedWritten
  <2>2. CASE ~(i < r)
    <3>1. i \in r .. r + m - 1
      BY <2>2
    <3> QED BY <1>2, <1>a, <3>1
  <2> QED BY <2>1, <2>2
<1>5. ASSUME NEW j \in a + 1 .. n PROVE written[(Aged(j)').superpage] = Pages
  <2>1. j \in Ages
    BY <1>1
  <2> QED BY <1>0, <1>3, <1>a, <2>1 DEF ReceivedWritten
<1>6. /\ \A x \in Superpages : written'[x] \subseteq Pages
      /\ mNumberOfEntries' = n /\ written' = written
  BY <1>0, <1>a DEF ReceivedWritten
<1>7. CASE r + m = maxPages /\ Len(mArrivals') = a - 1 /\ (a # 1 => Aged(a - 1).received = 0)
  <2>1. written[s] = Pages
    <3>1. \A i \in Pages : i \in written[s]
      BY <1>4, <1>7 DEF Pages
    <3> QED BY <1>6, <3>1
  <2>2. ASSUME NEW j \in (a - 1) + 1 .. n PROVE written[(Aged(j)').superpage] = Pages
    <3>1. j = a \/ j \in a + 1 .. n
      BY <1>1
    <3> QED BY <1>1, <1>2, <1>3, <1>5, <2>1, <3>1
  <2>3. a - 1 # 0 => (Aged(a - 1)').received = 0
    <3>1. a - 1 # 0 => a - 1 \in Ages /\ a - 1 # a /\ a # 1
      BY <1>1
    <3> QED BY <1>3, <1>7, <3>1
  <2>4. a - 1 # 0 => \A i \in 0 .. (Aged(a - 1)').received - 1 : i \in written[(Aged(a - 1)').superpage]
    BY <2>3
  <2>5. ReceivedWritten'
    <3>1. PICK b : b = a - 1
      OBVIOUS
    <3> QED BY <1>6, <1>7, <2>2, <2>4, <3>1 DEF ReceivedWritten
  <2>6. ASSUME NEW k \in 0 .. mFifoSize - m - 1, NEW x \in Nat, x = k + m
        PROVE  (Target(k)').superpage = Target(x).superpage /\ (Target(k)').page = Target(x).page
    <3>1. x \in 0 .. mFifoSize - 1 /\ k \in Nat
      BY <1>1, <2>6
    <3>2. ~(r + x < maxPages) /\ r + x - maxPages = k
      BY <1>1, <1>7, <2>6, <3>1
    <3>3. a - 1 \in 1 .. a /\ a - 1 \in Ages /\ Target(x).superpage = Aged(a - 1).superpage
          /\ Target(x).page = k /\ Target(x).page \in Pages
      BY <1>2, <1>a, <3>1, <3>2, TargetFacts
    <3>4. PICK b : b = a - 1 /\ b \in Nat
      BY <3>3
    <3>5. k < maxPages
      BY <1>1, <3>1, <3>3 DEF Pages
    <3>6. (Aged(b)').received = 0 /\ (Aged(b)').superpage = Aged(b).superpage /\ Len(mArrivals') = b
      BY <1>1, <1>3, <1>7, <2>3, <3>3, <3>4
    <3>7. 0 + k < maxPages /\ 0 + k = k
      BY <3>1, <3>5
    <3>8. Target(k)' = [superpage |-> (Aged(b)').superpage, page |-> k]
      <4>1. 0 \in Nat /\ k = 0 + k
        BY <3>1
      <4>2. Target(k)' = IF k < maxPages THEN [superpage |-> (Aged(b)').superpage, page |-> k]
                         ELSE [superpage |-> (Aged(b - 1)').superpage, page |-> k - maxPages]
        BY <3>1, <3>4, <3>6, <4>1, TargetNext
      <4> QED BY <3>5, <4>2
    <3> QED BY <3>3, <3>4, <3>6, <3>8
  <2> QED BY <2>5, <2>6
<1>8. CASE r + m < maxPages /\ mArrivals' = mArrivals /\ (Aged(a)').received = r + m
  <2>1. ReceivedWritten'
    BY <1>1, <1>2, <1>3, <1>4, <1>5, <1>6, <1>8, <1>a DEF ReceivedWritten
  <2>2. ASSUME NEW k \in 0 .. mFifoSize - m - 1, NEW x \in Nat, x = k + m
        PROVE  (Target(k)').superpage = Target(x).superpage /\ (Target(k)').page = Target(x).page
    <3>1. x \in 0 .. mFifoSize - 1 /\ k \in Nat
      BY <1>1, <2>2
    <3>2. (Aged(a)').received = Aged(a).received + m
      BY <1>2, <1>8
    <3>3. /\ a = Len(mArrivals) /\ mArrivals' = mArrivals /\ x = k + m
          /\ \A j \in Ages : (Aged(j)').superpage = Aged(j).superpage
      BY <1>3, <1>8, <1>a, <2>2
    <3> QED BY <3>1, <3>2, <3>3, TargetMoved
  <2> QED BY <2>1, <2>2
<1> QED BY <1>3, <1>7, <1>8

(* The wait is over, and all the pages have arrived.                         *)
LEMMA FillStartedCard == FullStart /\ CrorcInv /\ CardInv /\ FillStarted /\ ~initialMissing' => CardInv'
<1> SUFFICES ASSUME FullStart, CrorcInv, CardInv, FillStarted, ~initialMissing' PROVE CardInv'
  OBVIOUS
<1>0. TypeOK /\ QueueInv /\ PageInv /\ StartInv
  BY DEF CrorcInv
<1>a. PICK a, p, m : a = Len(mArrivals) /\ p = Len(mPushing) /\ m = READYFIFO_ENTRIES
  OBVIOUS
<1>1. /\ pc = "starting" /\ freeFifo = << >> /\ (\A k \in FifoIndex : readyFifo[k] = "whole") /\ Received(Head(mArrivals), m)
      /\ readyFifo' = [k \in FifoIndex |-> "none"]
      /\ mFifoBack' = 0 /\ mFifoSize' = 0 /\ pc' = "idle"
      /\ UNCHANGED <<mNextId, mNumberOfEntries, mPushing, inDriver, written>> /\ freeFifo' = << >>
  BY <1>a DEF FillStarted, cardVars
<1>2. a # 0 /\ mFifoSize = m /\ Aged(a).received = 0 /\ mFifoBack = 0 /\ Active
  BY <1>0, <1>1, <1>a DEF StartInv, Active
<1>3. /\ a \in Nat /\ p \in Nat /\ p <= a /\ a <= p + 1 /\ mArrivals # << >> /\ a \in Ages /\ a \in 1 .. a
      /\ m \in Nat \ {0} /\ m <= maxPages /\ maxPages \in Nat
  <2>1. a <= p + 1
    BY <1>0, <1>a DEF PageInv
  <2> QED BY <1>0, <1>2, <1>a, <2>1, QueueFacts, SetOfEmpty, CrorcAssumption DEF FullStart
<1>4. PICK w \in Nat \cup {-1} : w = Aged(a).pushedPages
  BY <1>0, <1>3, AgedFacts
<1>5. m <= w - 0
  <2>1. CASE p = a
    <3>1. mFifoSize = w - Aged(a).received
      BY <1>0, <1>2, <1>4, <1>a, <2>1 DEF PageInv
    <3> QED BY <1>2, <1>3, <3>1
  <2>2. CASE p # a
    <3>1. a > p
      BY <1>3, <2>2
    <3>2. w = maxPages
      BY <1>0, <1>3, <1>4, <1>a, <3>1 DEF PageInv
    <3> QED BY <1>3, <1>4, <3>2
  <2> QED BY <2>1, <2>2
<1>6. Taken = m
  <2>1. Taken = m - 0
    BY <1>1, <1>2, SetOfEmpty DEF Taken
  <2> QED BY <1>3, <2>1
<1>7. ASSUME NEW i \in 0 .. m - 1 PROVE i \in written[Aged(a).superpage]
  <2>1. readyFifo[i] = "whole"
    BY <1>1, <1>a DEF FifoIndex
  <2>2. i \in FifoIndex /\ i \in 0 .. mFifoSize - 1 /\ i \in Nat
    BY <1>2, <1>a DEF FifoIndex
  <2>3. SlotAt(i) = i
    BY <1>0, <1>2, <2>2, SlotFacts
  <2>4. Target(i).page \in written[Target(i).superpage]
    BY <1>2, <1>6, <2>1, <2>3 DEF CardInv, ReportedWritten
  <2>5. 0 + i < maxPages /\ 0 + i = i
    BY <1>3, <2>2
  <2>6. Target(i).superpage = Aged(a).superpage /\ Target(i).page = i
    BY <1>2, <1>a, <2>2, <2>5, TargetFacts
  <2> QED BY <2>4, <2>6
<1>8. ReceivedWritten'
  <2>1. m \in Nat /\ Received(Head(mArrivals), m) /\ mArrivals # << >>
    BY <1>1, <1>3
  <2>2. mFifoSize' = mFifoSize - m
    BY <1>1, <1>2, <1>3
  <2>3. m <= Aged(Len(mArrivals)).pushedPages - Aged(Len(mArrivals)).received
    BY <1>2, <1>4, <1>5, <1>a
  <2>4. UNCHANGED <<mNextId, mNumberOfEntries, mPushing, inDriver, written>>
    BY <1>1
  <2>5. \A i \in Aged(Len(mArrivals)).received .. Aged(Len(mArrivals)).received + m - 1 :
           i \in written[Aged(Len(mArrivals)).superpage]
    <3>1. 0 + m - 1 = m - 1
      BY <1>3
    <3> QED BY <1>2, <1>7, <1>a, <3>1
  <2> QED BY <2>1, <2>2, <2>3, <2>4, <2>5, ReceivedCard
<1>9. Len(freeFifo') = 0 /\ Taken' = 0
  <2>1. Len(freeFifo') = 0
    BY <1>1, SetOfEmpty
  <2>2. Taken' = 0 - 0
    BY <1>1, <2>1 DEF Taken
  <2> QED BY <2>1, <2>2
<1>10. DescriptorsApart' /\ WindowInv' /\ ReportedWritten'
  BY <1>1, <1>9 DEF DescriptorsApart, WindowInv, ReportedWritten
<1>11. NothingBehind'
  <2>1. ASSUME NEW k \in 0 .. m - 1 PROVE readyFifo'[(0 + k) % READYFIFO_ENTRIES] = "none"
    <3>1. (0 + k) % READYFIFO_ENTRIES \in FifoIndex
      BY <1>3, <1>a DEF FifoIndex
    <3> QED BY <1>1, <3>1
  <2> QED BY <1>1, <1>a, <2>1 DEF NothingBehind, SlotAt
<1> QED BY <1>8, <1>10, <1>11 DEF CardInv

(* The page in the oldest entry in use has arrived.                          *)
LEMMA FillArrivedCard == CrorcInv /\ CardInv /\ FillArrived => CardInv'
<1> SUFFICES ASSUME CrorcInv, CardInv, FillArrived PROVE CardInv'
  OBVIOUS
<1>0. TypeOK /\ DescriptorsApart /\ NothingBehind /\ ReportedWritten
  BY DEF CrorcInv, CardInv
<1>a. PICK t, q, z, n : t = Taken /\ q = mFifoSize /\ z = Len(freeFifo) /\ n = READYFIFO_ENTRIES
  OBVIOUS
<1>1. /\ mArrivals # << >> /\ Received(Head(mArrivals), 1) /\ mFifoSize' = q - 1
      /\ q > 0 /\ readyFifo[mFifoBack] = "whole" /\ pc = "arrivals" /\ Active /\ Active'
      /\ readyFifo' = [readyFifo EXCEPT ![mFifoBack] = "none"]
      /\ mFifoBack' = (mFifoBack + 1) % n
      /\ 1 <= Aged(Len(mArrivals)).pushedPages - Aged(Len(mArrivals)).received
      /\ UNCHANGED <<mNextId, mNumberOfEntries, mPushing, inDriver, written>>
      /\ UNCHANGED <<pc, freeFifo>>
  BY <1>a, FillArrivedFacts DEF Active
<1>2. /\ t \in Nat /\ t = q - z /\ q \in Nat /\ z \in Nat /\ q <= n /\ n \in Nat \ {0} /\ freeFifo \in Seq(Descriptor)
      /\ SlotAt(0) = mFifoBack /\ 0 \in FifoIndex /\ mFifoBack \in Nat /\ mFifoBack < n
      /\ readyFifo \in [FifoIndex -> {"none", "part", "whole", "error"}] /\ mFifoBack \in FifoIndex
  <2>1. mFifoBack \in Nat /\ mFifoBack < n /\ mFifoBack \in FifoIndex
        /\ readyFifo \in [FifoIndex -> {"none", "part", "whole", "error"}]
    BY <1>0, <1>a, CrorcAssumption DEF TypeOK, FifoIndex
  <2>2. SlotAt(0) = mFifoBack /\ 0 \in FifoIndex
    BY <1>0, SlotFacts
  <2> QED BY <1>1, <1>a, <2>1, <2>2, CardFacts
<1>3. t # 0
  <2> SUFFICES ASSUME t = 0 PROVE FALSE
    OBVIOUS
  <2>1. 1 \in 1 .. z /\ t + 1 - 1 = 0
    BY <1>1, <1>2
  <2>2. freeFifo[1].index = SlotAt(0)
    <3>1. freeFifo[1].index = SlotAt(t + 1 - 1)
      BY <1>1, <1>a, <2>1, CardFacts
    <3> QED BY <2>1, <3>1
  <2> QED BY <1>0, <1>1, <1>2, <1>a, <2>1, <2>2 DEF DescriptorsApart
<1>b. PICK u : u = t - 1
  OBVIOUS
<1>4. u = Taken' /\ u \in Nat /\ z = Len(freeFifo')
  <2>1. Taken' = (q - 1) - z
    BY <1>1, <1>a DEF Taken
  <2> QED BY <1>1, <1>2, <1>3, <1>a, <1>b, <2>1
<1>5. ASSUME NEW k \in 0 .. n - 2
      PROVE  SlotAt(k)' = SlotAt(k + 1) /\ k + 1 \in FifoIndex /\ SlotAt(k + 1) \in FifoIndex
             /\ SlotAt(k + 1) # mFifoBack
  <2>1. k + 1 \in FifoIndex /\ k + 1 # 0 /\ k \in Nat
    BY <1>2, <1>a DEF FifoIndex
  <2>2. (((mFifoBack + 1) % n) + k) % n = (mFifoBack + (k + 1)) % n
    <3>1. PICK b : b = mFifoBack
      OBVIOUS
    <3>2. b \in Nat /\ b < n /\ k \in Nat /\ k <= n - 2 /\ n \in Nat \ {0}
      BY <1>2, <2>1, <3>1
    <3>3. CASE b + 1 < n
      <4>1. (b + 1) % n = b + 1 /\ (b + 1) + k = b + (k + 1)
        BY <3>2, <3>3
      <4> QED BY <3>1, <4>1
    <3>4. CASE ~(b + 1 < n)
      <4>1. b + 1 = n /\ (b + 1) % n = 0
        BY <3>2, <3>4
      <4>2. (0 + k) % n = k
        BY <3>2
      <4>3. (b + (k + 1)) % n = k
        <5>1. b + (k + 1) = n + k /\ k < n
          BY <3>2, <4>1
        <5> QED BY <3>2, <5>1
      <4> QED BY <3>1, <4>1, <4>2, <4>3
    <3> QED BY <3>3, <3>4
  <2>3. SlotAt(k)' = SlotAt(k + 1)
    BY <1>1, <1>a, <2>2 DEF SlotAt
  <2>4. SlotAt(k + 1) \in FifoIndex /\ SlotAt(k + 1) # SlotAt(0)
    BY <1>0, <1>2, <2>1, SlotFacts
  <2> QED BY <1>2, <2>1, <2>3, <2>4
<1>6. \A i \in FifoIndex : readyFifo'[i] = IF i = mFifoBack THEN "none" ELSE readyFifo[i]
  BY <1>1, <1>2
<1>7. ReceivedWritten'
      /\ \A k \in 0 .. q - 1 - 1 :
           \A x \in Nat : x = k + 1 => /\ (Target(k)').superpage = Target(x).superpage
                                       /\ (Target(k)').page = Target(x).page
  <2>1. 1 \in Nat /\ mArrivals # << >> /\ Received(Head(mArrivals), 1) /\ mFifoSize' = mFifoSize - 1
        /\ 1 <= Aged(Len(mArrivals)).pushedPages - Aged(Len(mArrivals)).received
    BY <1>1, <1>a
  <2>2. UNCHANGED <<mNextId, mNumberOfEntries, mPushing, inDriver, written>>
    BY <1>1
  <2>3. ASSUME NEW i \in Aged(Len(mArrivals)).received .. Aged(Len(mArrivals)).received + 1 - 1
        PROVE  i \in written[Aged(Len(mArrivals)).superpage]
    <3>1. PICK a, p : a = Len(mArrivals) /\ p = Len(mPushing)
      OBVIOUS
    <3>2. 0 \in 0 .. mFifoSize - 1 /\ 0 \in 0 .. t - 1
      BY <1>1, <1>2, <1>3, <1>a
    <3>3. Target(0).page \in written[Target(0).superpage]
      BY <1>0, <1>1, <1>2, <1>a, <3>2 DEF ReportedWritten
    <3>4. a \in Ages /\ a \in 1 .. a
      BY <3>1, <3>2, TargetFacts DEF Ages
    <3>5. PICK r \in Nat : r = Aged(a).received
      BY <1>0, <3>4, AgedFacts
    <3>6. r < maxPages
      BY <3>1, <3>4, <3>5 DEF CrorcInv, PageInv
    <3>7. r + 0 < maxPages /\ r + 0 = r /\ r + 1 - 1 = r
      BY <3>5, <3>6
    <3>8. Target(0).superpage = Aged(a).superpage /\ Target(0).page = r
      BY <3>1, <3>2, <3>5, <3>7, TargetFacts
    <3>9. i = r
      <4>1. i \in r .. r
        BY <2>3, <3>1, <3>5, <3>7
      <4> QED BY <3>5, <4>1
    <3> QED BY <3>1, <3>3, <3>8, <3>9
  <2> QED BY <1>a, <2>1, <2>2, <2>3, ReceivedCard
<1>8. DescriptorsApart'
  <2>1. ASSUME NEW k \in 1 .. z PROVE readyFifo'[freeFifo[k].index] \in {"none", "part"}
    <3>1. freeFifo[k] \in Descriptor
      BY <1>2, <1>a
    <3>2. freeFifo[k].index \in FifoIndex
      BY <3>1 DEF Descriptor
    <3> QED BY <1>0, <1>6, <1>a, <3>2 DEF DescriptorsApart
  <2> QED BY <1>0, <1>1, <1>a, <2>1 DEF DescriptorsApart
<1>9. WindowInv'
  <2>1. ASSUME NEW k \in 1 .. z
        PROVE  /\ freeFifo'[k].index = SlotAt(u + k - 1)'
               /\ freeFifo'[k].superpage = (Target(u + k - 1)').superpage
               /\ freeFifo'[k].page = (Target(u + k - 1)').page
    <3>1. PICK i : i = u + k - 1
      OBVIOUS
    <3>2. i \in 0 .. n - 2 /\ i \in 0 .. q - 1 - 1 /\ i + 1 = t + k - 1 /\ i + 1 \in Nat
      BY <1>2, <1>3, <1>b, <3>1
    <3>3. /\ freeFifo[k].index = SlotAt(i + 1)
          /\ freeFifo[k].superpage = Target(i + 1).superpage /\ freeFifo[k].page = Target(i + 1).page
      BY <1>1, <1>a, <3>2, CardFacts
    <3> QED BY <1>1, <1>5, <1>7, <3>1, <3>2, <3>3
  <2>2. u >= 0
    BY <1>4
  <2> QED BY <1>4, <2>1, <2>2, WindowNext
<1>10. NothingBehind'
  <2>1. ASSUME NEW k \in q - 1 .. n - 1 PROVE readyFifo'[SlotAt(k)'] = "none"
    <3>1. CASE k = n - 1
      <4>1. SlotAt(k)' = mFifoBack
        <5>1. PICK b : b = mFifoBack
          OBVIOUS
        <5>2. (((b + 1) % n) + (n - 1)) % n = b
          <6>1. b \in Nat /\ b < n /\ n \in Nat \ {0}
            BY <1>2, <5>1
          <6>2. CASE b + 1 < n
            <7>1. (b + 1) % n = b + 1 /\ (b + 1) + (n - 1) = n + b
              BY <6>1, <6>2
            <7>2. (n + b) % n = b
              BY <6>1
            <7> QED BY <7>1, <7>2
          <6>3. CASE ~(b + 1 < n)
            <7>1. b = n - 1 /\ (b + 1) % n = 0 /\ (0 + (n - 1)) % n = n - 1
              BY <6>1, <6>3
            <7> QED BY <7>1
          <6> QED BY <6>2, <6>3
        <5> QED BY <1>1, <1>a, <3>1, <5>1, <5>2 DEF SlotAt
      <4> QED BY <1>2, <1>6, <4>1
    <3>2. CASE k # n - 1
      <4>1. k \in 0 .. n - 2 /\ k + 1 \in q .. n - 1
        BY <1>1, <1>2, <3>2
      <4>2. readyFifo[SlotAt(k + 1)] = "none"
        BY <1>0, <1>1, <1>a, <4>1 DEF NothingBehind
      <4> QED BY <1>5, <1>6, <4>1, <4>2
    <3> QED BY <3>1, <3>2
  <2> QED BY <1>1, <1>a, <2>1 DEF NothingBehind
<1>11. ReportedWritten'
  <2>1. ASSUME NEW k \in 0 .. u - 1, readyFifo'[SlotAt(k)'] = "whole"
        PROVE  (Target(k)').page \in written'[(Target(k)').superpage]
    <3>1. k \in 0 .. n - 2 /\ k \in 0 .. q - 1 - 1 /\ k + 1 \in 0 .. t - 1 /\ k + 1 \in Nat
      BY <1>2, <1>3, <1>b, <2>1
    <3>2. readyFifo[SlotAt(k + 1)] = "whole"
      BY <1>5, <1>6, <2>1, <3>1
    <3>3. Target(k + 1).page \in written[Target(k + 1).superpage]
      BY <1>0, <1>1, <1>a, <3>1, <3>2 DEF ReportedWritten
    <3> QED BY <1>1, <1>7, <3>1, <3>3
  <2> QED BY <1>4, <2>1, ReportedNext
<1> QED BY <1>7, <1>8, <1>9, <1>10, <1>11 DEF CardInv
-----------------------------------------------------------------------------
(* The addresses are right whatever the card does.                           *)
LEMMA AddressesPushed ==
    ASSUME CrorcInv, PagesInv, NEW m \in Nat, NEW fifo \in Seq(Descriptor), PushPages(m, fifo),
           mPushing # << >>, m <= maxPages - Aged(Len(mPushing)).pushedPages,
           mArrivals' = mArrivals, \A k \in 1 .. Len(fifo) : fifo[k].page \in Pages,
           \A j \in Ages : /\ (Aged(j)').superpage = Aged(j).superpage
                           /\ (Aged(j)').received = Aged(j).received
    PROVE  \A k \in 1 .. Len(freeFifo') : freeFifo'[k].page \in Pages
<1>a. PICK z : z = Len(fifo)
  OBVIOUS
<1>1. /\ z \in Nat /\ Len(freeFifo') = z + m
      /\ \A k \in 1 .. z : freeFifo'[k] = fifo[k]
      /\ \A k \in 1 .. m : freeFifo'[z + k].page = Aged(Len(mPushing)).pushedPages + k - 1
  BY <1>a, DescriptorsPushed DEF CrorcInv
<1>2. ASSUME NEW k \in 1 .. m PROVE freeFifo'[z + k].page \in Pages
  <2>1. PICK x : x = mFifoSize + k - 1
    OBVIOUS
  <2>2. Aged(Len(mPushing)).pushedPages + k - 1 \in Pages
    BY <2>1, TargetPushed
  <2> QED BY <1>1, <2>2
<1>3. ASSUME NEW k \in 1 .. z + m, ~(k <= z) PROVE k - z \in 1 .. m /\ k = z + (k - z)
  BY <1>1, <1>3
<1>4. ASSUME NEW k \in 1 .. z + m, k <= z PROVE k \in 1 .. z
  BY <1>1, <1>4
<1>5. ASSUME NEW k \in 1 .. z + m PROVE freeFifo'[k].page \in Pages
  <2>1. CASE k <= z
    BY <1>1, <1>4, <1>a, <2>1
  <2>2. CASE ~(k <= z)
    <3>1. PICK i \in 1 .. m : k = z + i
      BY <1>3, <2>2
    <3> QED BY <1>2, <3>1
  <2> QED BY <2>1, <2>2
<1> QED BY <1>1, <1>5

(* The invariant of the addresses is inductive, given that of the queues.    *)
LEMMA StepPagesInv ==
    ASSUME FullStart, CrorcInv, PagesInv, [Next]_vars
    PROVE  PagesInv'
<1>0. TypeOK /\ QueueInv /\ Pages' = Pages
  BY DEF CrorcInv, Pages
<1>1. CASE StartDma
  <2>1. Len(mFilled') = 0 /\ pc' = "idle" /\ UNCHANGED <<freeFifo, written>>
    BY <1>1, SetOfEmpty DEF StartDma, ClearQueue, cardVars
  <2> QED BY <1>0, <2>1 DEF PagesInv
<1>2. ASSUME NEW s \in Superpages, PushSuperpage(s) PROVE PagesInv'
  <2>1. /\ written' = [written EXCEPT ![s] = {}] /\ pc' = "idle"
        /\ UNCHANGED <<mPendingDmaStart, mFilled, freeFifo>>
    BY <1>2 DEF PushSuperpage, AddToQueue
  <2>2. \A x \in Superpages : written'[x] \subseteq Pages
    BY <1>0, <2>1 DEF TypeOK, PagesInv
  <2> QED BY <1>0, <2>1, <2>2 DEF PagesInv
<1>3. CASE PopSuperpage
  <2>1. mFilled # << >> /\ pc' = "idle" /\ UNCHANGED <<mPendingDmaStart, freeFifo, written>>
    BY <1>3 DEF PopSuperpage, RemoveFromFilledQueue, cardVars
  <2>2. ~mPendingDmaStart
    BY <1>0, <2>1, QueueFacts DEF PagesInv
  <2> QED BY <1>0, <2>1, <2>2 DEF PagesInv
<1>4. CASE StopDma \/ FillNothing \/ FillReturn \/ FillThrow \/ CardPart \/ ResetChannel
  <2>1. /\ UNCHANGED <<written, mPendingDmaStart, mFilled, initialMissing>>
        /\ pc' = "starting" => pc = "starting"
        /\ freeFifo' = freeFifo \/ freeFifo' = << >>
    BY <1>4 DEF StopDma, FillNothing, FillReturn, FillThrow, CardPart, ResetChannel, queueVars, cardVars
  <2>2. Len(<< >>) = 0
    OBVIOUS
  <2> QED BY <1>0, <2>1, <2>2 DEF PagesInv
<1>5. CASE CardWhole \/ CardError
  <2>a. PICK h : h = Head(freeFifo)
    OBVIOUS
  <2>1. /\ freeFifo # << >> /\ freeFifo' = Tail(freeFifo)
        /\ UNCHANGED <<mPendingDmaStart, mFilled, initialMissing, pc>>
        /\ written' = written \/ written' = [written EXCEPT ![h.superpage] = @ \cup {h.page}]
    BY <1>5, <2>a DEF CardWhole, CardError, queueVars
  <2>2. /\ freeFifo \in Seq(Descriptor) /\ written \in [Superpages -> SUBSET Nat]
        /\ Len(freeFifo) \in Nat \ {0} /\ h = freeFifo[1] /\ Len(freeFifo') = Len(freeFifo) - 1
        /\ \A k \in 1 .. Len(freeFifo) - 1 : freeFifo'[k] = freeFifo[k + 1]
    <3>1. freeFifo \in Seq(Descriptor) /\ written \in [Superpages -> SUBSET Nat]
      BY <1>0 DEF TypeOK, Descriptor
    <3> QED BY <2>1, <2>a, <3>1, SetOfTail
  <2>3. PICK z \in Nat \ {0} : z = Len(freeFifo)
    BY <2>2
  <2>4. h.page \in Pages
    <3>1. 1 \in 1 .. z
      BY <2>3
    <3> QED BY <2>2, <2>3, <3>1 DEF PagesInv
  <2>5. \A s \in Superpages : written'[s] \subseteq Pages
    BY <2>1, <2>2, <2>4 DEF PagesInv
  <2>6. ASSUME NEW k \in 1 .. Len(freeFifo') PROVE freeFifo'[k].page \in Pages
    <3>1. k \in 1 .. z - 1 /\ k + 1 \in 1 .. z
      BY <2>2, <2>3
    <3> QED BY <2>2, <2>3, <3>1 DEF PagesInv
  <2> QED BY <1>0, <2>1, <2>5, <2>6 DEF PagesInv
<1>6. CASE FillStart
  <2>1. PICK m \in Nat, fifo \in Seq(Descriptor) : m = READYFIFO_ENTRIES /\ fifo = << >>
    <3>1. READYFIFO_ENTRIES \in Nat /\ << >> \in Seq(Descriptor)
      BY CrorcAssumption
    <3> QED BY <3>1
  <2>2. /\ PushPages(m, fifo) /\ mPushing # << >> /\ m <= READYFIFO_ENTRIES - mFifoSize
        /\ m <= maxPages - Aged(Len(mPushing)).pushedPages /\ initialMissing' = FALSE
        /\ UNCHANGED <<mNextId, mNumberOfEntries, mArrivals, mFilled, inDriver, written, mPendingDmaStart>>
    BY <1>6, <2>1, FillStartFacts DEF FillStart
  <2>3. \A j \in Ages : (Aged(j)').superpage = Aged(j).superpage /\ (Aged(j)').received = Aged(j).received
    BY <2>2, PagesPushed DEF CrorcInv
  <2>4. \A k \in 1 .. Len(fifo) : fifo[k].page \in Pages
    BY <2>1
  <2>5. \A k \in 1 .. Len(freeFifo') : freeFifo'[k].page \in Pages
    BY <2>2, <2>3, <2>4, AddressesPushed
  <2> QED BY <1>0, <2>2, <2>5 DEF PagesInv
<1>7. CASE FillPush
  <2>1. PICK m \in Nat : m = FillCount
    BY <1>7, FillPushFacts
  <2>2. /\ PushPages(m, freeFifo) /\ mPushing # << >> /\ m <= READYFIFO_ENTRIES - mFifoSize
        /\ m <= maxPages - Aged(Len(mPushing)).pushedPages
    BY <1>7, <2>1, FillPushFacts
  <2>3. /\ UNCHANGED <<mNextId, mNumberOfEntries, mArrivals, mFilled, inDriver, written, mPendingDmaStart>>
        /\ pc' = "arrivals"
    BY <1>7 DEF FillPush
  <2>4. \A j \in Ages : (Aged(j)').superpage = Aged(j).superpage /\ (Aged(j)').received = Aged(j).received
    BY <2>2, <2>3, PagesPushed DEF CrorcInv
  <2>5. freeFifo \in Seq(Descriptor) /\ \A k \in 1 .. Len(freeFifo) : freeFifo[k].page \in Pages
    BY <1>0 DEF TypeOK, Descriptor, PagesInv
  <2>6. \A k \in 1 .. Len(freeFifo') : freeFifo'[k].page \in Pages
    BY <2>2, <2>3, <2>4, <2>5, AddressesPushed
  <2> QED BY <1>0, <2>3, <2>6 DEF PagesInv
<1>8. CASE FillStarted \/ FillArrived
  <2>1. CASE FillStarted
    <3>1. mPendingDmaStart' = FALSE /\ pc' = "idle" /\ UNCHANGED <<freeFifo, written>>
      BY <2>1 DEF FillStarted, cardVars
    <3> QED BY <1>0, <3>1 DEF PagesInv
  <2>2. CASE FillArrived
    <3>1. ~mPendingDmaStart /\ pc = "arrivals" /\ UNCHANGED <<pc, mPendingDmaStart, freeFifo, written>>
      BY <2>2, FillArrivedFacts
    <3> QED BY <1>0, <3>1 DEF PagesInv
  <2> QED BY <1>8, <2>1, <2>2
<1>9. CASE UNCHANGED vars
  BY <1>0, <1>9 DEF PagesInv, vars, queueVars, cardVars
<1> QED BY <1>1, <1>2, <1>3, <1>4, <1>5, <1>6, <1>7, <1>8, <1>9 DEF Next, FillSuperpages, Card

(* The invariant of the card is inductive as long as no start goes on without *)
(* its initial pages, and the next start restores it.                         *)
LEMMA StepCardInv ==
    ASSUME FullStart, DriverInv, [Next]_vars, ~initialMissing'
    PROVE  CardInv'
<1>0. CrorcInv /\ PagesInv
  BY DEF DriverInv
<1>a. CASE FillStart
  BY <1>0, <1>a, FillStartCard
<1>b. CASE ~FillStart
  <2>0. CardInv
    <3>1. CASE FillStarted
      <4>1. pc = "starting"
        BY <3>1 DEF FillStarted
      <4> QED BY <4>1 DEF DriverInv, PagesInv
    <3>2. CASE ~FillStarted
      <4>1. initialMissing' = initialMissing
        BY <1>b, <3>2 DEF Next, vars, FillSuperpages, Card, StartDma, StopDma, ResetChannel, PushSuperpage,
           PopSuperpage, FillPush, FillNothing, FillArrived, FillReturn, FillThrow, CardPart, CardWhole, CardError
      <4> QED BY <4>1 DEF DriverInv
    <3> QED BY <3>1, <3>2
  <2>1. CASE StartDma
    BY <1>0, <2>0, <2>1, StartCard
  <2>2. CASE \E s \in Superpages : PushSuperpage(s)
    BY <1>0, <2>0, <2>2, PushCard
  <2>3. CASE PopSuperpage \/ ResetChannel
    BY <1>0, <2>0, <2>3, PopCard, ResetCard
  <2>4. CASE StopDma \/ FillNothing \/ FillReturn \/ FillThrow
    BY <1>0, <2>0, <2>4, ReadingCard
  <2>5. CASE FillStarted \/ FillPush \/ FillArrived
    BY <1>0, <2>0, <2>5, FillStartedCard, FillPushCard, FillArrivedCard
  <2>6. CASE Card
    BY <1>0, <2>0, <2>6, PartCard, WholeCard, ErrorCard DEF Card
  <2>7. CASE UNCHANGED vars
    <3>1. Active' = Active
      BY <2>7 DEF vars, Active
    <3> QED BY <1>0, <2>0, <2>7, <3>1, CardKept DEF vars, cardVars
  <2> QED BY <1>b, <2>1, <2>2, <2>3, <2>4, <2>5, <2>6, <2>7 DEF Next, FillSuperpages
<1> QED BY <1>a, <1>b

(* They hold always.                                                         *)
LEMMA DriverInvAlways ==
    ASSUME FullStart
    PROVE  Spec => []DriverInv
<1>1. Init => DriverInv
  <2> SUFFICES ASSUME Init PROVE PagesInv
    BY InitCrorcInv, InitCardInv DEF DriverInv
  <2>1. /\ Len(freeFifo) = 0 /\ Len(mFilled) = 0 /\ pc = "idle"
        /\ \A s \in Superpages : written[s] = {}
    BY SetOfEmpty DEF Init
  <2> QED BY <2>1 DEF PagesInv
<1>2. DriverInv /\ [Next]_vars => DriverInv'
  <2> SUFFICES ASSUME DriverInv, [Next]_vars PROVE DriverInv'
    OBVIOUS
  <2>1. CrorcInv' /\ PagesInv'
    BY StepCrorcInv, StepPagesInv DEF DriverInv
  <2> QED BY <2>1, StepCardInv DEF DriverInv
<1> QED BY <1>1, <1>2, PTL DEF Spec

(* The queues and the counts are consistent, whatever the card does, and      *)
(* every page in use has an entry of the ready FIFO of its own, except after  *)
(* a start that went on without its initial pages, and then until the next.   *)
THEOREM DriverConsistentAlways ==
    ASSUME FullStart
    PROVE  Spec => []DriverConsistent
<1>1. Spec => []DriverInv
  BY DriverInvAlways
<1>2. DriverInv => DriverConsistent
  BY QueuesDoAgree, PagesDoAgree DEF DriverInv, CrorcInv, CardInv, DriverConsistent
<1> QED BY <1>1, <1>2, PTL
-----------------------------------------------------------------------------
(* The superpages of the ring, of the arrivals and of the filled queue.      *)
LEMMA RingSets ==
    ASSUME CrorcInv
    PROVE  /\ \A j \in 1 .. mNumberOfEntries : j \in Ages /\ Aged(j).superpage \in ToSet(inDriver)
           /\ \A x \in ToSet(inDriver) : \E j \in 1 .. mNumberOfEntries : x = Aged(j).superpage
           /\ \A i, j \in 1 .. mNumberOfEntries : Aged(i).superpage = Aged(j).superpage => i = j
           /\ \A j \in 1 .. Len(mArrivals) : Aged(j).superpage \in Arriving
           /\ \A x \in Arriving : \E j \in 1 .. Len(mArrivals) : x = Aged(j).superpage
           /\ Ready \in Seq(Superpages) /\ Len(Ready) = Len(mFilled)
           /\ \A k \in 1 .. Len(mFilled) :
                /\ Ready[k] = Aged(mNumberOfEntries + 1 - k).superpage
                /\ mNumberOfEntries + 1 - k \in 1 .. mNumberOfEntries
<1>0. TypeOK /\ QueueInv /\ OrderInv
  BY DEF CrorcInv
<1>a. PICK a, n, f : a = Len(mArrivals) /\ n = mNumberOfEntries /\ f = Len(mFilled)
  OBVIOUS
<1>1. /\ a \in Nat /\ n \in Nat /\ f \in Nat /\ a <= n /\ f = n - a /\ \A j \in 1 .. n : j \in Ages
      /\ mArrivals \in Seq(EntryId) /\ inDriver \in Seq(Superpages) /\ Len(inDriver) = n
      /\ ToSet(inDriver) = {inDriver[i] : i \in 1 .. n} /\ ToSet(mArrivals) = {mArrivals[i] : i \in 1 .. a}
  <2>1. /\ mArrivals \in Seq(EntryId) /\ inDriver \in Seq(Superpages) /\ Len(inDriver) = n
    BY <1>0, <1>a DEF TypeOK, OrderInv
  <2>2. ToSet(inDriver) = {inDriver[i] : i \in 1 .. n}
    BY <2>1, SetOfSeq
  <2>3. ToSet(mArrivals) = {mArrivals[i] : i \in 1 .. a}
    BY <1>a, <2>1, SetOfSeq
  <2> QED BY <1>0, <1>a, <2>1, <2>2, <2>3, QueueFacts
<1>2. ASSUME NEW j \in 1 .. n
      PROVE  /\ n + 1 - j \in 1 .. n /\ n + 1 - (n + 1 - j) = j
             /\ inDriver[n + 1 - j] = Aged(j).superpage
  <2>1. PICK k \in 1 .. n : k = n + 1 - j /\ n + 1 - k = j
    BY <1>1
  <2>2. inDriver[k] = Aged(j).superpage
    BY <1>0, <1>a, <2>1 DEF OrderInv
  <2> QED BY <2>1, <2>2
<1>3. \A j \in 1 .. n : Aged(j).superpage \in ToSet(inDriver)
  BY <1>1, <1>2
<1>4. ASSUME NEW x \in ToSet(inDriver) PROVE \E j \in 1 .. n : x = Aged(j).superpage
  <2>1. PICK i \in 1 .. n : x = inDriver[i]
    BY <1>1
  <2> QED BY <1>0, <1>a, <1>2, <2>1 DEF OrderInv
<1>5. ASSUME NEW i \in 1 .. n, NEW j \in 1 .. n, Aged(i).superpage = Aged(j).superpage PROVE i = j
  <2>1. n + 1 - i = n + 1 - j
    BY <1>0, <1>1, <1>2, <1>5 DEF OrderInv, Distinct
  <2> QED BY <1>1, <2>1
<1>6. ASSUME NEW j \in 1 .. a PROVE Aged(j).superpage \in Arriving
  <2>1. PICK k \in 1 .. a : k = a + 1 - j /\ a + 1 - k = j
    BY <1>1
  <2>2. mArrivals[k] = Back(j)
    BY <1>0, <1>a, <2>1 DEF QueueInv
  <2> QED BY <1>1, <2>1, <2>2 DEF Arriving, Aged
<1>7. ASSUME NEW x \in Arriving PROVE \E j \in 1 .. a : x = Aged(j).superpage
  <2>1. PICK k \in 1 .. a : x = mRegistry[mArrivals[k]].superpage
    BY <1>1 DEF Arriving
  <2>2. PICK j \in 1 .. a : j = a + 1 - k
    BY <1>1
  <2>3. mArrivals[k] = Back(j)
    BY <1>0, <1>a, <2>2 DEF QueueInv
  <2> QED BY <2>1, <2>3 DEF Aged
<1>8. ASSUME NEW k \in 1 .. f
      PROVE  /\ n + 1 - k \in 1 .. n /\ mRegistry[mFilled[k]].superpage = Aged(n + 1 - k).superpage
             /\ Aged(n + 1 - k).superpage \in Superpages
  <2>1. PICK j \in 1 .. n : j = n + 1 - k
    BY <1>1
  <2>2. mFilled[k] = Back(j)
    BY <1>0, <1>a, <2>1 DEF QueueInv
  <2>3. Aged(j).superpage \in Superpages
    BY <1>0, <1>1, AgedFacts
  <2> QED BY <2>1, <2>2, <2>3 DEF Aged
<1>9. Ready = [k \in 1 .. f |-> mRegistry[mFilled[k]].superpage]
  BY <1>a DEF Ready
<1>10. Ready \in Seq(Superpages) /\ Len(Ready) = f /\ \A k \in 1 .. f : Ready[k] = Aged(n + 1 - k).superpage
  BY <1>1, <1>8, <1>9
<1> QED BY <1>1, <1>3, <1>4, <1>5, <1>6, <1>7, <1>8, <1>10, <1>a

(* DmaChannel has a copy of the operator.                                  *)
LEMMA SameCardinality == \A S : Interface!Cardinality(S) = Cardinality(S)
BY DEF Interface!Cardinality, Cardinality

(* No id changes its superpage when no superpage is added.                   *)
LEMMA SuperpageKept ==
    ASSUME TypeOK, mNextId' = mNextId, \A j \in Ages : (Aged(j)').superpage = Aged(j).superpage
    PROVE  \A id \in EntryId : mRegistry'[id].superpage = mRegistry[id].superpage
<1> SUFFICES ASSUME NEW id \in EntryId PROVE mRegistry'[id].superpage = mRegistry[id].superpage
  OBVIOUS
<1>1. PICK j \in Ages : Back(j) = id
  BY BackFacts
<1>2. Back(j)' = id
  BY <1>1 DEF Back
<1> QED BY <1>1, <1>2 DEF Aged

(* The superpages of the ids are the same, and their queues.                 *)
LEMMA InterfaceKept ==
    ASSUME TypeOK, mNextId' = mNextId, \A j \in Ages : (Aged(j)').superpage = Aged(j).superpage,
           UNCHANGED <<mDmaState, mArrivals, mFilled, inDriver, written>>
    PROVE  UNCHANGED Interface!channelVars
<1>1. \A id \in EntryId : mRegistry'[id].superpage = mRegistry[id].superpage
  BY SuperpageKept
<1>2. ToSet(mArrivals) \subseteq EntryId /\ \A k \in 1 .. Len(mFilled) : mFilled[k] \in EntryId
  <2>1. mArrivals \in Seq(EntryId) /\ mFilled \in Seq(EntryId)
    BY DEF TypeOK
  <2> QED BY <2>1, SetOfSeq
<1>3. Arriving' = Arriving
  <2>1. Arriving' = {mRegistry'[id].superpage : id \in ToSet(mArrivals)}
    BY DEF Arriving
  <2> QED BY <1>1, <1>2, <2>1 DEF Arriving
<1>4. Ready' = Ready
  <2>1. Ready' = [k \in 1 .. Len(mFilled) |-> mRegistry'[mFilled[k]].superpage]
    BY DEF Ready
  <2> QED BY <1>1, <1>2, <2>1 DEF Ready
<1> QED BY <1>3, <1>4 DEF Interface!channelVars

(* A superpage whose last page is counted goes from the arrivals to the      *)
(* filled queue, and the card has written it.                                *)
LEMMA ReceivedInterface ==
    ASSUME CrorcInv, ReceivedWritten', NEW m \in Nat, mArrivals # << >>, Received(Head(mArrivals), m),
           \A j \in Ages : (Aged(j)').superpage = Aged(j).superpage,
           UNCHANGED <<mDmaState, mNextId, mNumberOfEntries, inDriver, written>>
    PROVE  [Interface!ChannelNext]_(Interface!channelVars)
<1>0. TypeOK /\ QueueInv
  BY DEF CrorcInv
<1>a. PICK a, n, f, s : a = Len(mArrivals) /\ n = mNumberOfEntries /\ f = Len(mFilled) /\ s = Aged(a).superpage
  OBVIOUS
<1>1. /\ mArrivals \in Seq(EntryId) /\ mFilled \in Seq(EntryId) /\ a \in Nat \ {0} /\ f \in Nat
      /\ n \in Nat /\ a <= n /\ a \in 1 .. n /\ a \in 1 .. a /\ a \in Ages /\ \A j \in 1 .. n : j \in Ages
      /\ Head(mArrivals) = Back(a) /\ Head(mArrivals) \in EntryId /\ s \in Superpages
  <2>1. a # 0 /\ a \in Nat /\ a <= n /\ n \in Nat /\ Head(mArrivals) = Back(a) /\ \A j \in 1 .. n : j \in Ages
    BY <1>0, <1>a, QueueFacts
  <2>2. a \in 1 .. n /\ a \in 1 .. a
    BY <2>1
  <2>3. a \in Ages
    BY <2>1, <2>2
  <2> QED BY <1>0, <1>a, <2>1, <2>2, <2>3, QueueFacts, AgedFacts, BackFacts
<1>2. \A id \in EntryId : mRegistry'[id].superpage = mRegistry[id].superpage
  BY <1>0, SuperpageKept
<1>3. CASE UNCHANGED <<mFilled, mArrivals>>
  BY <1>0, <1>3, InterfaceKept
<1>4. CASE mFilled' = Append(mFilled, Head(mArrivals)) /\ mArrivals' = Tail(mArrivals)
  <2>1. /\ mArrivals' \in Seq(EntryId) /\ Len(mArrivals') = a - 1 /\ ToSet(mArrivals') \subseteq EntryId
        /\ ToSet(mArrivals) = {Back(a)} \cup ToSet(mArrivals')
        /\ \A i \in 1 .. a - 1 : mArrivals'[i] = mArrivals[i + 1]
        /\ ToSet(mArrivals') = {mArrivals'[i] : i \in 1 .. a - 1}
    <3>1. mArrivals' \in Seq(EntryId) /\ Len(mArrivals') = a - 1
      BY <1>1, <1>a, <1>4, SetOfTail
    <3>2. \A i \in 1 .. a - 1 : mArrivals'[i] = mArrivals[i + 1]
      BY <1>1, <1>a, <1>4, <3>1, SetOfTail
    <3>3. ToSet(mArrivals) = {Back(a)} \cup ToSet(mArrivals')
      BY <1>1, <1>4, SetOfTail
    <3>4. ToSet(mArrivals') \subseteq EntryId /\ ToSet(mArrivals') = {mArrivals'[i] : i \in 1 .. a - 1}
      BY <3>1, SetOfSeq
    <3> QED BY <3>1, <3>2, <3>3, <3>4
  <2>2. ASSUME NEW id \in ToSet(mArrivals') PROVE mRegistry[id].superpage # s
    <3>1. PICK i \in 1 .. a - 1 : id = mArrivals[i + 1]
      BY <2>1
    <3>2. PICK k \in 1 .. a : k = i + 1 /\ a + 1 - k = a - i /\ a - i \in 1 .. n /\ a - i # a
      BY <1>1
    <3>3. id = Back(a - i)
      BY <1>0, <1>a, <3>1, <3>2 DEF QueueInv
    <3>4. Aged(a - i).superpage # Aged(a).superpage
      BY <1>1, <1>a, <3>2, RingSets
    <3> QED BY <1>a, <3>3, <3>4 DEF Aged
  <2>3. Arriving' = {mRegistry'[id].superpage : id \in ToSet(mArrivals')}
    BY DEF Arriving
  <2>4. Arriving' = {mRegistry[id].superpage : id \in ToSet(mArrivals')}
    BY <1>2, <2>1, <2>3
  <2>5. mRegistry[Back(a)].superpage = s
    BY <1>a DEF Aged
  <2>6. Arriving' = Arriving \ {s}
    BY <2>1, <2>2, <2>4, <2>5 DEF Arriving
  <2>7. Ready' = Append(Ready, s)
    <3>1. /\ mFilled' \in Seq(EntryId) /\ Len(mFilled') = f + 1 /\ mFilled'[f + 1] = Back(a)
          /\ \A k \in 1 .. f : mFilled'[k] = mFilled[k] /\ mFilled[k] \in EntryId
      BY <1>1, <1>a, <1>4, SetOfAppend, SetOfSeq
    <3>2. Ready' = [k \in 1 .. f + 1 |-> mRegistry'[mFilled'[k]].superpage]
      BY <3>1 DEF Ready
    <3>3. \A k \in 1 .. f + 1 : Ready'[k] = IF k = f + 1 THEN s ELSE mRegistry[mFilled[k]].superpage
      BY <1>1, <1>2, <2>5, <3>1, <3>2
    <3>4. Ready \in Seq(Superpages) /\ Len(Ready) = f
      BY <1>a, RingSets
    <3>5. \A k \in 1 .. f : Ready[k] = mRegistry[mFilled[k]].superpage
      BY <1>a DEF Ready
    <3>6. Ready' = [k \in 1 .. f + 1 |-> IF k = f + 1 THEN s ELSE Ready[k]]
      BY <1>1, <3>2, <3>3, <3>5
    <3>7. PICK q \in Seq(Superpages) : q = Append(Ready, s)
      BY <1>1, <3>4, SetOfAppend
    <3>8. Len(q) = f + 1 /\ \A k \in 1 .. f + 1 : q[k] = IF k = f + 1 THEN s ELSE Ready[k]
      BY <1>1, <3>4, <3>7
    <3>9. q = [k \in 1 .. f + 1 |-> IF k = f + 1 THEN s ELSE Ready[k]]
      BY <1>1, <3>8
    <3> QED BY <3>6, <3>7, <3>9
  <2>8. s \in Arriving /\ s \in ToSet(inDriver)
    BY <1>1, <1>a, RingSets
  <2>9. written[s] = Pages
    <3>1. a \in Len(mArrivals') + 1 .. mNumberOfEntries'
      BY <1>1, <1>a, <2>1
    <3>2. written'[(Aged(a)').superpage] = Pages
      BY <3>1 DEF ReceivedWritten, Pages
    <3> QED BY <1>1, <1>a, <3>2
  <2>10. UNCHANGED {x \in ToSet(inDriver) : written[x] = Pages}
    BY DEF Pages
  <2>11. Interface!ChannelArrive(s)
    BY <2>6, <2>7, <2>8, <2>9, <2>10 DEF Interface!ChannelArrive
  <2> QED BY <1>1, <2>11 DEF Interface!ChannelNext
<1> QED BY <1>3, <1>4 DEF Received

(* A superpage that is pushed is new to the channel, and there is room.      *)
LEMMA PushInterface ==
    ASSUME CrorcInv, NEW s \in Superpages, PushSuperpage(s)
    PROVE  Interface!ChannelPush(s)
<1>0. TypeOK /\ QueueInv /\ OrderInv
  BY DEF CrorcInv
<1>a. PICK n : n = mNumberOfEntries
  OBVIOUS
<1>1. /\ mArrivals \in Seq(EntryId) /\ mFilled \in Seq(EntryId) /\ mNextId \in EntryId
      /\ mRegistry \in [EntryId -> Entry] /\ inDriver \in Seq(Superpages)
      /\ n \in Nat /\ MAX_SUPERPAGES \in Nat \ {0} /\ \A j \in 1 .. n : j \in Ages /\ j # MAX_SUPERPAGES
      /\ n < MAX_SUPERPAGES /\ s \notin ToSet(inDriver) /\ mDmaState = "STARTED" /\ Distinct(inDriver)
      /\ Len(inDriver) = n /\ Len(mArrivals) \in Nat /\ Len(mArrivals) <= n
      /\ Len(mFilled) = n - Len(mArrivals)
  <2>1. n < MAX_SUPERPAGES /\ s \notin ToSet(inDriver) /\ mDmaState = "STARTED"
    BY <1>a DEF PushSuperpage, AddToQueue
  <2>2. /\ n \in Nat /\ MAX_SUPERPAGES \in Nat \ {0} /\ \A j \in 1 .. n : j \in Ages
        /\ Len(mArrivals) \in Nat /\ Len(mArrivals) <= n /\ Len(mFilled) = n - Len(mArrivals)
    BY <1>0, <1>a, QueueFacts
  <2>3. \A j \in 1 .. n : j # MAX_SUPERPAGES
    BY <2>1, <2>2
  <2>4. /\ mArrivals \in Seq(EntryId) /\ mFilled \in Seq(EntryId) /\ mNextId \in EntryId
        /\ mRegistry \in [EntryId -> Entry] /\ inDriver \in Seq(Superpages)
    BY <1>0 DEF TypeOK
  <2>5. Len(inDriver) = n /\ Distinct(inDriver)
    BY <1>0, <1>a DEF OrderInv
  <2> QED BY <2>1, <2>2, <2>3, <2>4, <2>5
<1>2. /\ mArrivals' = Append(mArrivals, mNextId) /\ inDriver' = Append(inDriver, s)
      /\ mRegistry'[mNextId].superpage = s
      /\ \A id \in EntryId : id # mNextId => mRegistry'[id].superpage = mRegistry[id].superpage
      /\ written' = [written EXCEPT ![s] = {}] /\ UNCHANGED <<mDmaState, mFilled>>
  BY <1>1 DEF PushSuperpage, AddToQueue
<1>3. \A j \in 1 .. n : Back(j) # mNextId /\ Back(j) \in EntryId
  BY <1>0, <1>1, BackFacts
<1>4. ASSUME NEW id \in ToSet(mArrivals)
      PROVE  id \in EntryId /\ id # mNextId
  <2>a. PICK a \in Nat : a = Len(mArrivals) /\ a <= n /\ n \in Nat
    BY <1>1
  <2>1. PICK k \in 1 .. a : id = mArrivals[k]
    BY <1>1, <2>a, SetOfSeq
  <2>2. PICK j \in 1 .. n : j = a + 1 - k
    BY <2>a
  <2>3. id = Back(j)
    BY <1>0, <2>a, <2>1, <2>2 DEF QueueInv
  <2> QED BY <1>3, <2>3
<1>5. ASSUME NEW k \in 1 .. Len(mFilled)
      PROVE  mFilled[k] \in EntryId /\ mFilled[k] # mNextId
  <2>1. PICK j \in 1 .. n : j = n + 1 - k
    BY <1>1
  <2>2. mFilled[k] = Back(j)
    BY <1>0, <1>a, <2>1 DEF QueueInv
  <2> QED BY <1>3, <2>2
<1>6. Arriving' = Arriving \cup {s}
  <2>1. ToSet(mArrivals') = ToSet(mArrivals) \cup {mNextId}
    BY <1>1, <1>2, SetOfAppend
  <2>2. Arriving' = {mRegistry'[id].superpage : id \in ToSet(mArrivals')}
    BY DEF Arriving
  <2> QED BY <1>2, <1>4, <2>1, <2>2 DEF Arriving
<1>7. Ready' = Ready
  <2>1. Ready' = [k \in 1 .. Len(mFilled) |-> mRegistry'[mFilled[k]].superpage]
    BY <1>2 DEF Ready
  <2> QED BY <1>2, <1>5, <2>1 DEF Ready
<1>8. Arriving \subseteq ToSet(inDriver)
  <2> SUFFICES ASSUME NEW x \in Arriving PROVE x \in ToSet(inDriver)
    OBVIOUS
  <2>1. PICK j \in 1 .. Len(mArrivals) : x = Aged(j).superpage
    BY RingSets
  <2> QED BY <1>1, <1>a, <2>1, RingSets
<1>9. Interface!ToSet(Ready) \subseteq ToSet(inDriver)
  <2>1. Ready \in Seq(Superpages) /\ \A k \in 1 .. Len(Ready) : Ready[k] \in ToSet(inDriver)
    BY RingSets
  <2>2. ToSet(Ready) \subseteq ToSet(inDriver)
    BY <2>1, SetOfSeq
  <2> QED BY <2>2 DEF ToSet, Interface!ToSet
<1>10. Interface!Cardinality(Arriving) < MAX_SUPERPAGES
  <2>1. IsFiniteSet(ToSet(inDriver)) /\ Cardinality(ToSet(inDriver)) = n
    BY <1>1, DistinctCount
  <2>2. Cardinality(Arriving) <= n /\ IsFiniteSet(Arriving)
    BY <1>8, <2>1, FS_Subset
  <2>3. Cardinality(Arriving) \in Nat
    BY <2>2, FS_CardinalityType
  <2> QED BY <1>1, <2>2, <2>3, SameCardinality
<1>11. UNCHANGED {x \in ToSet(inDriver) : written[x] = Pages}
  <2>1. ToSet(inDriver') = ToSet(inDriver) \cup {s} /\ ToSet(inDriver) \subseteq Superpages
    BY <1>1, <1>2, SetOfAppend, SetOfSeq
  <2>2. {} # Pages
    BY CrorcAssumption DEF Pages
  <2>3. written'[s] # Pages /\ \A x \in ToSet(inDriver) : written'[x] = written[x]
    BY <1>0, <1>1, <1>2, <2>1, <2>2 DEF TypeOK
  <2>4. {x \in ToSet(inDriver') : written'[x] = Pages} = {x \in ToSet(inDriver) : written[x] = Pages}
    BY <2>1, <2>3
  <2> QED BY <2>4 DEF Pages
<1>12. s \notin Arriving \cup Interface!ToSet(Ready)
  BY <1>1, <1>8, <1>9
<1> QED BY <1>1, <1>2, <1>6, <1>7, <1>10, <1>11, <1>12 DEF Interface!ChannelPush, Interface!TransferAvailable

(* The superpage that is popped was the first one pushed.                    *)
LEMMA PopInterface == CrorcInv /\ PopSuperpage => Interface!ChannelPop
<1> SUFFICES ASSUME CrorcInv, PopSuperpage PROVE Interface!ChannelPop
  OBVIOUS
<1>0. TypeOK /\ QueueInv /\ OrderInv
  BY DEF CrorcInv
<1>a. PICK n, f, s : n = mNumberOfEntries /\ f = Len(mFilled) /\ s = Aged(n).superpage
  OBVIOUS
<1>1. /\ mFilled # << >> /\ mFilled \in Seq(EntryId) /\ f \in Nat \ {0} /\ n \in Nat \ {0} /\ n \in 1 .. n /\ 1 \in 1 .. n
      /\ Head(mFilled) = Back(n) /\ inDriver \in Seq(Superpages) /\ Len(inDriver) = n
      /\ mArrivals \in Seq(EntryId) /\ mRegistry \in [EntryId -> Entry] /\ Head(mFilled) \in EntryId
  <2>1. mFilled # << >>
    BY DEF PopSuperpage, RemoveFromFilledQueue
  <2>2. f # 0 /\ f \in Nat /\ n \in Nat /\ f <= n /\ Head(mFilled) = Back(n)
    BY <1>0, <1>a, <2>1, QueueFacts
  <2>3. n \in 1 .. n /\ n \in Nat \ {0} /\ 1 \in 1 .. n
    BY <2>2
  <2>4. Head(mFilled) \in EntryId
    BY <1>0, <2>1, SetOfTail DEF TypeOK
  <2> QED BY <1>0, <1>a, <2>1, <2>2, <2>3, <2>4 DEF TypeOK, OrderInv
<1>2. /\ mFilled' = Tail(mFilled) /\ UNCHANGED <<mDmaState, mArrivals, written>>
      /\ \A id \in EntryId : mRegistry'[id].superpage = mRegistry[id].superpage
      /\ inDriver' = RemoveFirst(inDriver, s)
  <2>1. mRegistry' = [mRegistry EXCEPT ![Back(n)].pushedPages = -1]
    BY <1>1 DEF PopSuperpage, RemoveFromFilledQueue
  <2>2. \A id \in EntryId : mRegistry'[id].superpage = mRegistry[id].superpage
    BY <1>1, <2>1 DEF Entry
  <2> QED BY <1>1, <1>a, <2>2 DEF PopSuperpage, RemoveFromFilledQueue, Aged, cardVars
<1>3. s = Head(inDriver) /\ inDriver # << >>
  <2>1. inDriver[1] = Aged(n + 1 - 1).superpage
    BY <1>0, <1>1, <1>a DEF OrderInv
  <2> QED BY <1>1, <1>a, <2>1
<1>4. inDriver' = Tail(inDriver)
  BY <1>1, <1>2, <1>3, RemoveFront
<1>5. ToSet(inDriver') = ToSet(inDriver) \ {s}
  BY <1>0, <1>1, <1>3, <1>4, SetOfTail, DistinctTail DEF OrderInv
<1>6. Arriving' = Arriving
  <2>1. Arriving' = {mRegistry'[id].superpage : id \in ToSet(mArrivals)}
    BY <1>2 DEF Arriving
  <2>2. ToSet(mArrivals) \subseteq EntryId
    BY <1>1, SetOfSeq
  <2> QED BY <1>2, <2>1, <2>2 DEF Arriving
<1>7. Ready \in Seq(Superpages) /\ Len(Ready) = f /\ Ready # << >> /\ Head(Ready) = s
  <2>1. Ready \in Seq(Superpages) /\ Len(Ready) = f
    BY <1>a, RingSets
  <2>2. Ready[1] = mRegistry[mFilled[1]].superpage
    BY <1>1, <1>a DEF Ready
  <2>3. mFilled[1] = Back(n)
    BY <1>1
  <2> QED BY <1>1, <1>a, <2>1, <2>2, <2>3 DEF Aged
<1>8. Ready' = Tail(Ready)
  <2>1. /\ Len(mFilled') = f - 1
        /\ \A k \in 1 .. f - 1 : /\ mFilled'[k] = mFilled[k + 1] /\ mFilled[k + 1] \in EntryId
                                 /\ k + 1 \in 1 .. f
    <3>1. \A k \in 1 .. f : mFilled[k] \in EntryId
      BY <1>1, <1>a, SetOfSeq
    <3> QED BY <1>1, <1>2, <1>a, <3>1, SetOfTail
  <2>2. Ready' = [k \in 1 .. f - 1 |-> mRegistry'[mFilled'[k]].superpage]
    BY <2>1 DEF Ready
  <2>3. \A k \in 1 .. f : Ready[k] = mRegistry[mFilled[k]].superpage
    BY <1>a DEF Ready
  <2>4. Ready' = [k \in 1 .. f - 1 |-> Ready[k + 1]]
    BY <1>2, <2>1, <2>2, <2>3
  <2>5. PICK q \in Seq(Superpages) : q = Tail(Ready)
    BY <1>7, SetOfTail
  <2>6. Len(q) = f - 1 /\ \A k \in 1 .. f - 1 : q[k] = Ready[k + 1]
    BY <1>7, <2>5, SetOfTail
  <2>7. q = [k \in 1 .. f - 1 |-> Ready[k + 1]]
    BY <1>1, <2>6
  <2> QED BY <2>4, <2>5, <2>7
<1>9. {x \in ToSet(inDriver) : written[x] = Pages}' = {x \in ToSet(inDriver) : written[x] = Pages} \ {Head(Ready)}
  <2>1. {x \in ToSet(inDriver') : written[x] = Pages} = {x \in ToSet(inDriver) : written[x] = Pages} \ {s}
    BY <1>5
  <2> QED BY <1>2, <1>7, <2>1 DEF Pages
<1> QED BY <1>2, <1>6, <1>7, <1>8, <1>9 DEF Interface!ChannelPop

(* The card completes a superpage only while it is arriving.                 *)
LEMMA WholeInterface == CrorcInv /\ CardInv /\ CardWhole => [Interface!ChannelNext]_(Interface!channelVars)
<1> SUFFICES ASSUME CrorcInv, CardInv, CardWhole
             PROVE  [Interface!ChannelNext]_(Interface!channelVars)
  OBVIOUS
<1> DEFINE complete == {x \in ToSet(inDriver) : written[x] = Pages}
<1>a. PICK s, p : s = Head(freeFifo).superpage /\ p = Head(freeFifo).page
  OBVIOUS
<1>1. /\ freeFifo # << >> /\ written' = [written EXCEPT ![s] = written[s] \cup {p}]
      /\ UNCHANGED <<mDmaState, mNextId, mRegistry, mArrivals, mFilled, inDriver>>
  BY <1>a DEF CardWhole, queueVars
<1>2. /\ written \in [Superpages -> SUBSET Nat] /\ inDriver \in Seq(Superpages)
      /\ freeFifo \in Seq([superpage : Superpages, page : Nat, index : FifoIndex])
  BY DEF CrorcInv, TypeOK
<1>3. s \in Superpages /\ p \in Pages
  <2>1. /\ Head(freeFifo) \in [superpage : Superpages, page : Nat, index : FifoIndex]
        /\ Head(freeFifo) = freeFifo[1] /\ Len(freeFifo) \in Nat \ {0}
    BY <1>1, <1>2, SetOfTail
  <2>2. 1 \in 1 .. Len(freeFifo)
    BY <2>1
  <2>3. freeFifo[1].page \in Pages
    BY <2>2 DEF CardInv, DescriptorsApart
  <2> QED BY <1>a, <2>1, <2>3
<1>4. ToSet(inDriver) \subseteq Superpages
  BY <1>2, SetOfSeq
<1>5. Ready' = Ready /\ Arriving' = Arriving /\ Pages' = Pages
  BY <1>1 DEF Ready, Arriving, Pages
<1>6. complete' = {x \in ToSet(inDriver) : written'[x] = Pages}
  BY <1>1, <1>5
<1>7. CASE complete' = complete
  BY <1>1, <1>5, <1>7 DEF Interface!channelVars
<1>8. CASE complete' # complete
  <2>1. \A x \in ToSet(inDriver) : x # s => written'[x] = written[x]
    BY <1>1, <1>2, <1>4
  <2>2. written'[s] = written[s] \cup {p}
    BY <1>1, <1>2, <1>3
  <2>3. written[s] = Pages => written'[s] = Pages
    BY <1>3, <2>2
  <2>4. complete' \subseteq complete \cup {s} /\ complete \subseteq complete'
    BY <1>6, <2>1, <2>3
  <2>5. s \in complete' /\ s \notin complete /\ complete' = complete \cup {s}
    BY <1>8, <2>4
  <2>6. s \in ToSet(inDriver) /\ written[s] # Pages
    BY <1>6, <2>5
  <2>7. PICK j \in 1 .. mNumberOfEntries : s = Aged(j).superpage
    BY <2>6, RingSets
  <2>8. ~(j \in Len(mArrivals) + 1 .. mNumberOfEntries)
    BY <2>6, <2>7 DEF CardInv, ReceivedWritten
  <2>9. PICK a \in Nat, n \in Nat : a = Len(mArrivals) /\ n = mNumberOfEntries
    BY QueueFacts DEF CrorcInv
  <2>10. j \in 1 .. n /\ ~(j \in a + 1 .. n)
    BY <2>8, <2>9
  <2>11. j \in 1 .. a
    BY <2>10
  <2>12. s \in Arriving
    BY <2>7, <2>9, <2>11, RingSets
  <2>13. Interface!ChannelComplete(s)
    BY <1>1, <1>5, <2>5, <2>12 DEF Interface!ChannelComplete
  <2> QED BY <1>3, <2>13 DEF Interface!ChannelNext
<1> QED BY <1>7, <1>8

(* Every step is one of the interface, or none.                              *)
LEMMA NextInterface ==
    ASSUME FullStart, DriverInv, [Next]_vars, ~initialMissing'
    PROVE  [Interface!ChannelNext]_(Interface!channelVars)
<1>0. CrorcInv /\ TypeOK /\ QueueInv /\ OrderInv /\ PageInv
  BY DEF DriverInv, CrorcInv
<1>a. CrorcInv' /\ ReceivedWritten'
  BY <1>0, StepCrorcInv, StepCardInv DEF CardInv
<1>b. ASSUME UNCHANGED <<mRegistry, mDmaState, mArrivals, mFilled, inDriver, written>>
      PROVE  UNCHANGED Interface!channelVars
  <2>1. Ready' = Ready /\ Arriving' = Arriving /\ Pages' = Pages
    BY <1>b DEF Ready, Arriving, Pages
  <2> QED BY <1>b, <2>1 DEF Interface!channelVars
<1>1. CASE UNCHANGED vars
  BY <1>1, <1>b DEF vars, queueVars, cardVars
<1>2. CASE StartDma
  <2>1. /\ mDmaState' = "STARTED" /\ mArrivals' = << >> /\ mFilled' = << >> /\ inDriver' = << >>
    BY <1>2 DEF StartDma, ClearQueue
  <2>2. ToSet(mArrivals') = {} /\ ToSet(inDriver') = {} /\ Len(mFilled') = 0
    BY <2>1, SetOfEmpty
  <2>3. Arriving' = {}
    BY <2>2 DEF Arriving
  <2>4. Ready' = << >>
    <3>1. Ready' = [k \in 1 .. 0 |-> mRegistry'[mFilled'[k]].superpage]
      BY <2>2 DEF Ready
    <3> QED BY <3>1
  <2>5. Interface!ChannelStart
    BY <2>1, <2>2, <2>3, <2>4 DEF Interface!ChannelStart
  <2> QED BY <2>5 DEF Interface!ChannelNext
<1>3. CASE StopDma
  <2>1. mDmaState' = "STOPPED" /\ UNCHANGED <<mRegistry, mArrivals, mFilled, inDriver, written>>
    BY <1>3 DEF StopDma, queueVars
  <2>2. Ready' = Ready /\ Arriving' = Arriving /\ Pages' = Pages
    BY <2>1 DEF Ready, Arriving, Pages
  <2>3. Interface!ChannelStop
    BY <2>1, <2>2 DEF Interface!ChannelStop
  <2> QED BY <2>3 DEF Interface!ChannelNext
<1>4. CASE ResetChannel \/ FillNothing \/ FillReturn \/ FillThrow \/ CardPart \/ CardError
  <2>1. UNCHANGED <<mRegistry, mDmaState, mArrivals, mFilled, inDriver, written>>
    BY <1>4 DEF ResetChannel, FillNothing, FillReturn, FillThrow, CardPart, CardError, queueVars, cardVars
  <2> QED BY <1>b, <2>1
<1>5. ASSUME NEW s \in Superpages, PushSuperpage(s) PROVE Interface!ChannelNext
  BY <1>0, <1>5, PushInterface DEF Interface!ChannelNext
<1>6. CASE PopSuperpage
  BY <1>0, <1>6, PopInterface DEF Interface!ChannelNext
<1>7. CASE FillStart \/ FillPush
  <2>1. /\ mNextId' = mNextId /\ \A j \in Ages : (Aged(j)').superpage = Aged(j).superpage
    <3>1. CASE FillStart
      <4>1. READYFIFO_ENTRIES \in Nat
        BY CrorcAssumption
      <4> QED BY <1>0, <3>1, <4>1, FillStartFacts, PagesPushed
    <3>2. CASE FillPush
      <4>1. UNCHANGED <<mNextId, mNumberOfEntries, mArrivals, mFilled, inDriver>>
        BY <3>2 DEF FillPush
      <4> QED BY <1>0, <3>2, <4>1, FillPushFacts, PagesPushed
    <3> QED BY <1>7, <3>1, <3>2
  <2>2. UNCHANGED <<mDmaState, mArrivals, mFilled, inDriver, written>>
    BY <1>7 DEF FillStart, FillPush
  <2> QED BY <1>0, <2>1, <2>2, InterfaceKept
<1>8. CASE FillStarted
  <2>1. PICK m \in Nat : m = READYFIFO_ENTRIES
    BY CrorcAssumption
  <2>2. /\ Received(Head(mArrivals), m) /\ mArrivals # << >> /\ mFifoSize' = mFifoSize - m
        /\ UNCHANGED <<mDmaState, mNextId, mNumberOfEntries, mPushing, inDriver, written>>
        /\ m <= Aged(Len(mArrivals)).pushedPages - Aged(Len(mArrivals)).received
    BY <1>0, <1>8, <2>1, FillStartedFacts
  <2>3. \A j \in Ages : (Aged(j)').superpage = Aged(j).superpage
    BY <1>0, <2>2, PagesReceived
  <2> QED BY <1>0, <1>a, <2>2, <2>3, ReceivedInterface
<1>9. CASE FillArrived
  <2>1. PICK m \in Nat : m = 1
    OBVIOUS
  <2>2. /\ Received(Head(mArrivals), m) /\ mArrivals # << >> /\ mFifoSize' = mFifoSize - m
        /\ UNCHANGED <<mDmaState, mNextId, mNumberOfEntries, mPushing, inDriver, written>>
        /\ m <= Aged(Len(mArrivals)).pushedPages - Aged(Len(mArrivals)).received
    BY <1>0, <1>9, <2>1, FillArrivedFacts
  <2>3. \A j \in Ages : (Aged(j)').superpage = Aged(j).superpage
    BY <1>0, <2>2, PagesReceived
  <2> QED BY <1>0, <1>a, <2>2, <2>3, ReceivedInterface
<1>10. CASE CardWhole
  <2>1. initialMissing' = initialMissing
    BY <1>10 DEF CardWhole
  <2> QED BY <1>0, <1>10, <2>1, WholeInterface DEF DriverInv
<1> QED BY <1>1, <1>2, <1>3, <1>4, <1>5, <1>6, <1>7, <1>8, <1>9, <1>10 DEF Next, FillSuperpages, Card

(* For any number of superpages, any size of the registry and superpages not *)
(* smaller than the ready FIFO: the C-RORC's driver is the channel of        *)
(* DmaChannelInterface.h, which gives back every superpage at most once and  *)
(* only when the card has written all of it, although it only counts entries *)
(* of the ready FIFO.  A start that goes on after 10 ms without its initial  *)
(* pages is the only way out of it, and the next start the way back.         *)
THEOREM ImplementsInterfaceAlways ==
    ASSUME FullStart
    PROVE  Spec => ImplementsInterface
<1>1. Init => Interface!ChannelInit
  <2> SUFFICES ASSUME Init PROVE Interface!ChannelInit
    OBVIOUS
  <2>1. mArrivals = << >> /\ mFilled = << >> /\ inDriver = << >> /\ mDmaState = "STOPPED"
    BY DEF Init
  <2>2. Arriving = {} /\ {x \in ToSet(inDriver) : written[x] = Pages} = {}
    BY <2>1, SetOfEmpty DEF Arriving
  <2>3. Ready = << >>
    <3>1. Ready = [k \in 1 .. 0 |-> mRegistry[mFilled[k]].superpage]
      BY <2>1, SetOfEmpty DEF Ready
    <3> QED BY <3>1
  <2> QED BY <2>1, <2>2, <2>3 DEF Interface!ChannelInit
<1>2. DriverInv /\ [Next]_vars => [Interface!ChannelNext \/ initialMissing']_(Interface!channelVars)
  BY NextInterface
<1> QED BY <1>1, <1>2, DriverInvAlways, PTL DEF Spec, ImplementsInterface
=============================================================================
