--------------------------- MODULE CruDmaChannel ----------------------------
(***************************************************************************)
(* The driver of the CRU card: RORC/src/Cru/CruDmaChannel.cxx with the     *)
(* states of DmaChannelPdaBase.cxx, the firmware it talks to, and a client *)
(* that follows DmaChannelInterface.h.                                     *)
(*                                                                         *)
(* Superpages are spread over links, each with a queue in the driver and a *)
(* descriptor FIFO in the firmware.  The firmware counts the superpages it *)
(* has filled on every link in a register of 32 bits; the driver compares  *)
(* it with a counter of its own.  fillSuperpages() reads one register      *)
(* after the other while the firmware goes on.                             *)
(***************************************************************************)
EXTENDS Integers, Sequences, SequencesExt, FiniteSets

CONSTANTS NumLinks,               \* links of the link mask
          LINK_QUEUE_CAPACITY,    \* 128
          READY_QUEUE_CAPACITY,   \* 32
          CounterRange,           \* values of the counters: 2^32
          Superpages              \* the client's superpages

ASSUME CruAssumption ==
    /\ NumLinks \in Nat \ {0}
    /\ LINK_QUEUE_CAPACITY \in Nat \ {0}
    /\ READY_QUEUE_CAPACITY \in Nat \ {0}
    /\ CounterRange \in Nat
    /\ CounterRange > LINK_QUEUE_CAPACITY

VARIABLES
    mDmaState,
    queue,                \* the queue of every link, oldest first
    superpageCounter,     \* the driver's counter of every link
    mReadyQueue,
    mLinkQueuesTotalAvailable,
    pc,                   \* where fillSuperpages() is
    linkIndex,            \* its loop counter over the links
    amountAvailable,      \* superpages of that link still to be moved
    descriptors,          \* the firmware: superpages to fill, by link
    superpageCount,       \* the firmware: its counters
    emulating,            \* the firmware: is the data emulator on?
    inDriver,             \* the client: superpages pushed and not popped
    filled                \* superpages filled since they were pushed

firmware == <<descriptors, superpageCount, emulating, filled>>
queues   == <<queue, superpageCounter, mReadyQueue, mLinkQueuesTotalAvailable>>
fill     == <<pc, linkIndex, amountAvailable>>
vars == <<mDmaState, queues, fill, firmware, inDriver>>

Links == 1 .. NumLinks
Counter == 0 .. CounterRange - 1

TypeOK ==
    /\ mDmaState \in {"STOPPED", "STARTED"}
    /\ queue \in [Links -> Seq(Superpages)]
    /\ superpageCounter \in [Links -> Counter]
    /\ mReadyQueue \in Seq(Superpages)
    /\ Len(mReadyQueue) <= READY_QUEUE_CAPACITY
    /\ mLinkQueuesTotalAvailable \in 0 .. LINK_QUEUE_CAPACITY * NumLinks
    /\ pc \in {"idle", "read", "move", "fatal", "linkFull"}
    /\ linkIndex \in 1 .. NumLinks + 1
    /\ amountAvailable \in Counter
    /\ descriptors \in [Links -> Seq(Superpages)]
    /\ superpageCount \in [Links -> Counter]
    /\ emulating \in BOOLEAN
    /\ inDriver \in SUBSET Superpages
    /\ filled \in SUBSET Superpages

Init ==
    /\ mDmaState = "STOPPED"
    /\ queue = [l \in Links |-> <<>>]
    /\ superpageCounter = [l \in Links |-> 0]
    /\ mReadyQueue = <<>>
    /\ mLinkQueuesTotalAvailable = 0
    /\ pc = "idle"
    /\ linkIndex = 1
    /\ amountAvailable = 0
    /\ descriptors = [l \in Links |-> <<>>]
    /\ superpageCount = [l \in Links |-> 0]
    /\ emulating = FALSE
    /\ inDriver = {}
    /\ filled = {}
-----------------------------------------------------------------------------
\* Calls of the client.

\* BarAccessor::resetCard(): no descriptors are left, the counters are 0.
ResetCru ==
    /\ descriptors' = [l \in Links |-> <<>>]
    /\ superpageCount' = [l \in Links |-> 0]

\* Mutant of StartDma: resetCru() is forgotten.
StartDmaWithoutReset ==
    /\ pc = "idle"
    /\ mDmaState = "STOPPED"
    /\ mDmaState' = "STARTED"
    /\ emulating' = TRUE
    /\ queue' = [l \in Links |-> <<>>]
    /\ superpageCounter' = [l \in Links |-> 0]
    /\ mReadyQueue' = <<>>
    /\ mLinkQueuesTotalAvailable' = LINK_QUEUE_CAPACITY * NumLinks
    /\ inDriver' = {}
    /\ UNCHANGED <<fill, descriptors, superpageCount, filled>>

\* startDma() and deviceStartDma(): what is in the queues is forgotten.
StartDma ==
    /\ pc = "idle"
    /\ mDmaState = "STOPPED"
    /\ mDmaState' = "STARTED"
    /\ ResetCru
    /\ emulating' = TRUE
    /\ queue' = [l \in Links |-> <<>>]
    /\ superpageCounter' = [l \in Links |-> 0]
    /\ mReadyQueue' = <<>>
    /\ mLinkQueuesTotalAvailable' = LINK_QUEUE_CAPACITY * NumLinks
    /\ inDriver' = {}
    /\ UNCHANGED <<fill, filled>>

\* Mutant of StopDma: what is in the ready queue is forgotten.
StopDmaForgets ==
    /\ pc = "idle"
    /\ mDmaState = "STARTED"
    /\ mDmaState' = "STOPPED"
    /\ emulating' = FALSE
    /\ mReadyQueue' = <<>>
    /\ inDriver' = inDriver \ ToSet(mReadyQueue)
    /\ UNCHANGED <<queue, superpageCounter, mLinkQueuesTotalAvailable, fill, descriptors,
                   superpageCount, filled>>

\* stopDma() and deviceStopDma()
StopDma ==
    /\ pc = "idle"
    /\ mDmaState = "STARTED"
    /\ mDmaState' = "STOPPED"
    /\ emulating' = FALSE
    /\ UNCHANGED <<queues, fill, descriptors, superpageCount, filled, inDriver>>

\* resetChannel(), which throws unless DMA is stopped; the level Nothing does
\* nothing.
ResetChannel ==
    /\ pc = "idle"
    /\ mDmaState = "STOPPED"
    /\ ResetCru
    /\ UNCHANGED <<mDmaState, queues, fill, emulating, filled, inDriver>>

\* getNextLinkIndex(): the first of the links with the shortest queue.
NextLinkIndex ==
    CHOOSE l \in Links : \A m \in Links : \/ Len(queue[l]) < Len(queue[m])
                                          \/ Len(queue[l]) = Len(queue[m]) /\ l <= m

\* pushSuperpage() of a superpage the client owns, when
\* getTransferQueueAvailable() is not 0.  That the queue of the link is full
\* "should never happen".
PushSuperpage(s) ==
    LET l == NextLinkIndex
    IN  /\ pc = "idle"
        /\ mDmaState = "STARTED"
        /\ s \notin inDriver
        /\ mLinkQueuesTotalAvailable # 0
        /\ IF Len(queue[l]) >= LINK_QUEUE_CAPACITY
           THEN /\ pc' = "linkFull"
                /\ UNCHANGED <<mLinkQueuesTotalAvailable, queue, descriptors, inDriver, filled>>
           ELSE /\ mLinkQueuesTotalAvailable' = mLinkQueuesTotalAvailable - 1
                /\ queue' = [queue EXCEPT ![l] = Append(@, s)]
                /\ descriptors' = [descriptors EXCEPT ![l] = Append(@, s)]
                /\ inDriver' = inDriver \cup {s}
                /\ filled' = filled \ {s}
                /\ UNCHANGED pc
        /\ UNCHANGED <<mDmaState, superpageCounter, mReadyQueue, linkIndex, amountAvailable,
                       superpageCount, emulating>>

\* popSuperpage(), when getReadyQueueSize() is not 0.
PopSuperpage ==
    /\ pc = "idle"
    /\ mReadyQueue # <<>>
    /\ mReadyQueue' = Tail(mReadyQueue)
    /\ inDriver' = inDriver \ {Head(mReadyQueue)}
    /\ UNCHANGED <<mDmaState, queue, superpageCounter, mLinkQueuesTotalAvailable, fill, firmware>>
-----------------------------------------------------------------------------
\* fillSuperpages(), which the client calls in a loop while DMA is started.

FillBegin ==
    /\ pc = "idle"
    /\ mDmaState = "STARTED"
    /\ pc' = "read"
    /\ linkIndex' = 1
    /\ UNCHANGED <<mDmaState, queues, amountAvailable, firmware, inDriver>>

\* Mutant of FillRead: only the next value of the counter counts.
FillReadNext ==
    /\ pc = "read"
    /\ linkIndex <= NumLinks
    /\ LET count     == superpageCount[linkIndex]
           available == count = superpageCounter[linkIndex] + 1
           amount    == count - superpageCounter[linkIndex]
       IN  \/ /\ ~available
              /\ linkIndex' = linkIndex + 1
              /\ UNCHANGED <<pc, amountAvailable>>
           \/ /\ available
              /\ IF amount > Len(queue[linkIndex])
                 THEN pc' = "fatal" /\ UNCHANGED amountAvailable
                 ELSE pc' = "move" /\ amountAvailable' = amount
              /\ UNCHANGED linkIndex
    /\ UNCHANGED <<mDmaState, queues, firmware, inDriver>>

\* Read the counter of the link once and compare it with the driver's.
FillRead ==
    /\ pc = "read"
    /\ linkIndex <= NumLinks
    /\ LET count     == superpageCount[linkIndex]
           available == count > superpageCounter[linkIndex]
           amount    == count - superpageCounter[linkIndex]
       IN  \/ /\ ~available
              /\ linkIndex' = linkIndex + 1
              /\ UNCHANGED <<pc, amountAvailable>>
           \/ /\ available
              /\ IF amount > Len(queue[linkIndex])
                 THEN pc' = "fatal" /\ UNCHANGED amountAvailable
                 ELSE pc' = "move" /\ amountAvailable' = amount
              /\ UNCHANGED linkIndex
    /\ UNCHANGED <<mDmaState, queues, firmware, inDriver>>

\* The loop over the superpages available ends with the last of them or when
\* the ready queue is full.
FillMove ==
    /\ pc = "move"
    /\ IF amountAvailable = 0 \/ Len(mReadyQueue) >= READY_QUEUE_CAPACITY
       THEN /\ pc' = "read"
            /\ linkIndex' = linkIndex + 1
            /\ amountAvailable' = 0
            /\ UNCHANGED queues
       ELSE /\ mReadyQueue' = Append(mReadyQueue, Head(queue[linkIndex]))
            /\ mLinkQueuesTotalAvailable' = mLinkQueuesTotalAvailable + 1
            /\ queue' = [queue EXCEPT ![linkIndex] = Tail(@)]
            /\ superpageCounter' = [superpageCounter EXCEPT ![linkIndex] = (@ + 1) % CounterRange]
            /\ amountAvailable' = amountAvailable - 1
            /\ UNCHANGED <<pc, linkIndex>>
    /\ UNCHANGED <<mDmaState, firmware, inDriver>>

FillReturn ==
    /\ pc = "read"
    /\ linkIndex > NumLinks
    /\ pc' = "idle"
    /\ UNCHANGED <<mDmaState, queues, linkIndex, amountAvailable, firmware, inDriver>>
-----------------------------------------------------------------------------
\* The firmware fills the superpages of a link in order.
FirmwareFills(l) ==
    /\ emulating
    /\ descriptors[l] # <<>>
    /\ filled' = filled \cup {Head(descriptors[l])}
    /\ descriptors' = [descriptors EXCEPT ![l] = Tail(@)]
    /\ superpageCount' = [superpageCount EXCEPT ![l] = (@ + 1) % CounterRange]
    /\ UNCHANGED <<mDmaState, queues, fill, emulating, inDriver>>

FillSuperpages == FillBegin \/ FillRead \/ FillMove \/ FillReturn

Next ==
    \/ StartDma
    \/ StopDma
    \/ ResetChannel
    \/ \E s \in Superpages : PushSuperpage(s)
    \/ PopSuperpage
    \/ FillSuperpages
    \/ \E l \in Links : FirmwareFills(l)

Spec == Init /\ [][Next]_vars

\* The client calls fillSuperpages() in a loop and pops what it finds ready in
\* every round of it; the firmware serves every link.
FairSpec ==
    /\ Spec
    /\ WF_vars(FillSuperpages)
    /\ SF_vars(PopSuperpage)
    /\ \A l \in Links : WF_vars(FirmwareFills(l))
-----------------------------------------------------------------------------
Interface == INSTANCE DmaChannel WITH
    TransferCapacity <- LINK_QUEUE_CAPACITY * NumLinks,
    started          <- mDmaState = "STARTED",
    transfer         <- UNION {ToSet(queue[l]) : l \in Links},
    ready            <- mReadyQueue,
    complete         <- filled \cap inDriver

(* The driver keeps the promise of DmaChannelInterface.h: every superpage    *)
(* goes from the transfer queue to the ready queue once, and not before the  *)
(* firmware has filled it, although the driver only compares two counters.   *)
ImplementsInterface == Interface!ChannelSpec

(* A superpage the client pushed since the last start and did not pop is in  *)
(* one place: the queue of one link or the ready queue.                      *)
SuperpagesAccounted ==
    /\ inDriver = ToSet(mReadyQueue) \cup UNION {ToSet(queue[l]) : l \in Links}
    /\ IsInjective(mReadyQueue)
    /\ \A l \in Links :
         /\ IsInjective(queue[l])
         /\ ToSet(queue[l]) \cap ToSet(mReadyQueue) = {}
         /\ \A m \in Links \ {l} : ToSet(queue[l]) \cap ToSet(queue[m]) = {}

\* The slots of the link queues, and those in use.
Slots == Links \X (1 .. LINK_QUEUE_CAPACITY)
UsedSlots == {x \in Slots : x[2] <= Len(queue[x[1]])}

(* getTransferQueueAvailable() is the number of free slots of all links, and *)
(* a push that it allows never meets a link without one: the exception "link *)
(* queue was full" is not thrown.                                            *)
FreeSlotsCounted ==
    /\ pc # "linkFull"
    /\ \A l \in Links : Len(queue[l]) <= LINK_QUEUE_CAPACITY
    /\ mDmaState = "STARTED" => mLinkQueuesTotalAvailable = Cardinality(Slots \ UsedSlots)

(* The firmware never reports more superpages than the driver waits for, so  *)
(* the FATAL exception is not thrown, and what the loop is about to move is  *)
(* there although the firmware goes on counting.                             *)
CountersAgree ==
    /\ pc # "fatal"
    /\ pc = "move" => amountAvailable <= Len(queue[linkIndex])
    /\ mDmaState = "STARTED" =>
         \A l \in Links : IsSuffix(descriptors[l], queue[l])

(* The driver's queues and counters and those of the firmware are consistent *)
(* at every instant.                                                         *)
DriverConsistent == TypeOK /\ SuperpagesAccounted /\ FreeSlotsCounted /\ CountersAgree

\* The firmware's counter of the link has wrapped: the driver, which looks for a
\* greater one than its own, takes no more superpages from the link.
Wrapped(l) == superpageCount[l] < superpageCounter[l]

\* The superpage s on the link l leads to the client having it back, if the driver
\* is not stopped and the counter of this link does not wrap.
ComesBack(s, l) ==
    s \in ToSet(queue[l]) ~> s \notin inDriver \/ mDmaState = "STOPPED" \/ Wrapped(l)

(* DmaChannelInterface.h: "When the transfer into a superpage is ready, the  *)
(* driver will move it to the 'ready queue'".  fillSuperpages() serves the   *)
(* links from the first on and stops when the ready queue is full: however   *)
(* long the client goes on pushing it gets back what is on the first link;   *)
(* a later link may starve meanwhile, but when the client stops pushing it   *)
(* gets all of them back.  A stop or a counter that wraps ends this.         *)
SuperpagesComeBack ==
    /\ \A s \in Superpages : ComesBack(s, 1)
    /\ <>[][~ \E s \in Superpages : PushSuperpage(s)]_vars =>
           \A s \in Superpages, l \in Links : ComesBack(s, l)
=============================================================================
