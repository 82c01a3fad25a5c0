-------------------------- MODULE CrorcDmaChannel ---------------------------
(***************************************************************************)
(* The driver of the C-RORC card: RORC/src/Crorc/CrorcDmaChannel.cxx with  *)
(* its SuperpageQueue (SuperpageQueue.h) and the states of                 *)
(* DmaChannelPdaBase.cxx, the card it talks to, and a client that follows  *)
(* DmaChannelInterface.h.                                                  *)
(*                                                                         *)
(* The driver gives the card descriptors (the page to fill and the entry   *)
(* of the ready FIFO to report it in) and polls the ready FIFO, which the  *)
(* card writes at any time.  Sizes are counted in DMA pages.               *)
(***************************************************************************)
EXTENDS Integers, Sequences, SequencesExt, FiniteSets

CONSTANTS READYFIFO_ENTRIES,  \* 128
          MAX_SUPERPAGES,     \* 32
          maxPages,           \* pages in a superpage: a multiple of 128 with
                              \* the default page size, any number otherwise
          Superpages          \* the client's superpages

ASSUME CrorcAssumption ==
    /\ READYFIFO_ENTRIES \in Nat \ {0}
    /\ MAX_SUPERPAGES \in Nat \ {0}
    /\ maxPages \in Nat \ {0}
    /\ Superpages # {}

VARIABLES
    mDmaState, mPendingDmaStart,
    mFifoBack, mFifoSize,              \* the part of the ready FIFO in use
    mRegistry, mNextId, mNumberOfEntries,
    mPushing, mArrivals, mFilled,      \* queues of indices into mRegistry
    pc,           \* where fillSuperpages() is
    readyFifo,    \* status of every entry, written by the card
    freeFifo,     \* the card: descriptors not yet used, oldest first
    receiving,    \* the card: is the data receiver on?
    inDriver,     \* the client: superpages pushed and not popped, oldest first
    written,      \* the pages of each superpage the card wrote since it was pushed
    initialMissing  \* did the last start go on without all of its initial pages?

queueVars == <<mRegistry, mNextId, mNumberOfEntries, mPushing, mArrivals, mFilled>>
cardVars  == <<freeFifo, receiving, written>>
vars == <<mDmaState, mPendingDmaStart, mFifoBack, mFifoSize, queueVars, pc, readyFifo,
          cardVars, inDriver, initialMissing>>

FifoIndex == 0 .. READYFIFO_ENTRIES - 1
EntryId == 0 .. MAX_SUPERPAGES - 1
Pages == 0 .. maxPages - 1
Entry == [superpage : Superpages, pushedPages : Nat \cup {-1}, received : Nat, ready : BOOLEAN]

\* PUSHED_PAGES_INVALID marks an entry that is not in use.
Valid(e) == e.pushedPages # -1

TypeOK ==
    /\ mDmaState \in {"STOPPED", "STARTED"}
    /\ mPendingDmaStart \in BOOLEAN
    /\ mFifoBack \in FifoIndex
    /\ mFifoSize \in 0 .. READYFIFO_ENTRIES
    /\ mRegistry \in [EntryId -> Entry]
    /\ mNextId \in EntryId
    /\ mNumberOfEntries \in 0 .. MAX_SUPERPAGES
    /\ mPushing \in Seq(EntryId)
    /\ mArrivals \in Seq(EntryId)
    /\ mFilled \in Seq(EntryId)
    /\ pc \in {"idle", "starting", "arrivals", "thrown", "undefined"}
    /\ readyFifo \in [FifoIndex -> {"none", "part", "whole", "error"}]
    /\ freeFifo \in Seq([superpage : Superpages, page : Nat, index : FifoIndex])
    /\ receiving \in BOOLEAN
    /\ inDriver \in Seq(Superpages)
    /\ written \in [Superpages -> SUBSET Nat]
    /\ initialMissing \in BOOLEAN

Init ==
    /\ mDmaState = "STOPPED"
    /\ mPendingDmaStart = FALSE
    /\ mFifoBack = 0
    /\ mFifoSize = 0
    /\ mRegistry = [k \in EntryId |-> [superpage   |-> CHOOSE s \in Superpages : TRUE,
                                        pushedPages |-> -1,
                                        received    |-> 0,
                                        ready       |-> FALSE]]
    /\ mNextId = 0
    /\ mNumberOfEntries = 0
    /\ mPushing = <<>>
    /\ mArrivals = <<>>
    /\ mFilled = <<>>
    /\ pc = "idle"
    /\ readyFifo = [k \in FifoIndex |-> "none"]
    /\ freeFifo = <<>>
    /\ receiving = FALSE
    /\ inDriver = <<>>
    /\ written = [s \in Superpages |-> {}]
    /\ initialMissing = FALSE
-----------------------------------------------------------------------------
\* SuperpageQueue.

\* clear()
ClearQueue ==
    /\ mRegistry' = [k \in EntryId |-> [mRegistry[k] EXCEPT !.pushedPages = -1]]
    /\ mPushing' = <<>>
    /\ mArrivals' = <<>>
    /\ mFilled' = <<>>
    /\ mNumberOfEntries' = 0
    /\ mNextId' = 0

\* addToQueue(), which throws on a full queue.
AddToQueue(entry) ==
    /\ mNumberOfEntries < MAX_SUPERPAGES
    /\ mRegistry' = [mRegistry EXCEPT ![mNextId] = entry]
    /\ mNextId' = (mNextId + 1) % MAX_SUPERPAGES
    /\ mNumberOfEntries' = mNumberOfEntries + 1
    /\ mPushing' = Append(mPushing, mNextId)
    /\ mArrivals' = Append(mArrivals, mNextId)
    /\ UNCHANGED mFilled

\* Mutant of RemoveFromFilledQueue: the entry stays valid.
RemoveWithoutReset ==
    /\ mFilled # <<>>
    /\ mNumberOfEntries' = mNumberOfEntries - 1
    /\ mFilled' = Tail(mFilled)
    /\ UNCHANGED <<mRegistry, mNextId, mPushing, mArrivals>>

\* removeFromFilledQueue(), which throws on an empty queue.
RemoveFromFilledQueue ==
    /\ mFilled # <<>>
    /\ mRegistry' = [mRegistry EXCEPT ![Head(mFilled)].pushedPages = -1]
    /\ mNumberOfEntries' = mNumberOfEntries - 1
    /\ mFilled' = Tail(mFilled)
    /\ UNCHANGED <<mNextId, mPushing, mArrivals>>

\* received pages are added to the superpage id; when it is full it is ready
\* and moves from the arrivals to the filled queue.
Received(id, n) ==
    LET filled == mRegistry[id].received + n = maxPages
    IN  /\ mRegistry' = [mRegistry EXCEPT ![id].received = @ + n,
                                          ![id].ready = @ \/ filled]
        /\ IF filled
           THEN /\ mFilled' = Append(mFilled, Head(mArrivals))
                /\ mArrivals' = Tail(mArrivals)
           ELSE UNCHANGED <<mFilled, mArrivals>>
-----------------------------------------------------------------------------
\* Calls of the client.

\* Mutant of StartDma: the queues are not cleared.
StartDmaKeepsQueue ==
    /\ pc = "idle"
    /\ mDmaState = "STOPPED"
    /\ mDmaState' = "STARTED"
    /\ mFifoBack' = 0
    /\ mFifoSize' = 0
    /\ mPendingDmaStart' = TRUE
    /\ inDriver' = <<>>
    /\ UNCHANGED <<queueVars, pc, readyFifo, cardVars, initialMissing>>

\* startDma() and deviceStartDma(): the start is deferred until a superpage is
\* there; what is in the queues is forgotten.
StartDma ==
    /\ pc = "idle"
    /\ mDmaState = "STOPPED"
    /\ mDmaState' = "STARTED"
    /\ mFifoBack' = 0
    /\ mFifoSize' = 0
    /\ ClearQueue
    /\ mPendingDmaStart' = TRUE
    /\ inDriver' = <<>>
    /\ UNCHANGED <<pc, readyFifo, cardVars, initialMissing>>

\* stopDma() and deviceStopDma(): with the generator the receiver is switched
\* off; without it nothing is done, as mNoRDYRX is set.
StopDma ==
    /\ pc = "idle"
    /\ mDmaState = "STARTED"
    /\ mDmaState' = "STOPPED"
    /\ receiving' \in {FALSE, receiving}
    /\ UNCHANGED <<mPendingDmaStart, mFifoBack, mFifoSize, queueVars, pc, readyFifo, freeFifo,
                   written, inDriver, initialMissing>>

\* resetChannel(), which throws unless DMA is stopped: depending on the level
\* and the loopback mode the card forgets its descriptors.
ResetChannel ==
    /\ pc = "idle"
    /\ mDmaState = "STOPPED"
    /\ freeFifo' \in {<<>>, freeFifo}
    /\ UNCHANGED <<mDmaState, mPendingDmaStart, mFifoBack, mFifoSize, queueVars, pc, readyFifo,
                   receiving, written, inDriver, initialMissing>>

\* pushSuperpage() of a superpage the client owns, when
\* getTransferQueueAvailable() is not 0.
PushSuperpage(s) ==
    /\ pc = "idle"
    /\ mDmaState = "STARTED"
    /\ s \notin ToSet(inDriver)
    /\ AddToQueue([superpage |-> s, pushedPages |-> 0, received |-> 0, ready |-> FALSE])
    /\ inDriver' = Append(inDriver, s)
    /\ written' = [written EXCEPT ![s] = {}]
    /\ UNCHANGED <<mDmaState, mPendingDmaStart, mFifoBack, mFifoSize, pc, readyFifo, freeFifo,
                   receiving, initialMissing>>

\* popSuperpage(), when getReadyQueueSize() is not 0.
PopSuperpage ==
    /\ pc = "idle"
    /\ RemoveFromFilledQueue
    /\ inDriver' = RemoveFirst(inDriver, mRegistry[Head(mFilled)].superpage)
    /\ UNCHANGED <<mDmaState, mPendingDmaStart, mFifoBack, mFifoSize, pc, readyFifo, cardVars, initialMissing>>
-----------------------------------------------------------------------------
\* fillSuperpages(), which the client calls in a loop while DMA is started.
FillCalled == pc = "idle" /\ mDmaState = "STARTED"

\* n times pushIntoSuperpage() for the superpage at the front of the pushing
\* queue, which leaves that queue when all its pages are pushed.
PushPages(n, fifo) ==
    LET id == Head(mPushing)
        e  == mRegistry[id]
    IN  /\ freeFifo' = fifo \o [k \in 1 .. n |->
                          [superpage |-> e.superpage,
                           page      |-> e.pushedPages + k - 1,
                           index     |-> (mFifoBack + mFifoSize + k - 1) % READYFIFO_ENTRIES]]
        /\ mFifoSize' = mFifoSize + n
        /\ mRegistry' = [mRegistry EXCEPT ![id].pushedPages = @ + n]
        /\ mPushing' = IF e.pushedPages + n = maxPages THEN Tail(mPushing) ELSE mPushing

\* The first call that finds a superpage, startPendingDma(): the card is reset
\* and told to receive, all entries of the ready FIFO are used.
FillStart ==
    /\ FillCalled
    /\ mPushing # <<>>
    /\ mPendingDmaStart
    /\ readyFifo' = [k \in FifoIndex |-> "none"]
    /\ PushPages(READYFIFO_ENTRIES, <<>>)
    /\ receiving' = TRUE
    /\ initialMissing' = FALSE
    /\ pc' = "starting"
    /\ UNCHANGED <<mDmaState, mPendingDmaStart, mFifoBack, mNextId, mNumberOfEntries, mArrivals,
                   mFilled, written, inDriver>>

\* ... and after a fixed wait of 10 ms the pages count as received, arrived or
\* not: "Initial pages not arrived" is only logged, and only the last entry is
\* looked at.  No page is outstanding then, so the loop over the arrivals ends at
\* once; the card keeps the descriptors it has not used.
FillStarted ==
    /\ pc = "starting"
    /\ readyFifo[READYFIFO_ENTRIES - 1] # "error"
    /\ initialMissing' = (freeFifo # <<>> \/ \E k \in FifoIndex : readyFifo[k] # "whole")
    /\ Received(Head(mArrivals), READYFIFO_ENTRIES)
    /\ readyFifo' = [k \in FifoIndex |-> "none"]
    /\ mFifoBack' = 0
    /\ mFifoSize' = 0
    /\ mPendingDmaStart' = FALSE
    /\ pc' = "idle"
    /\ UNCHANGED <<mDmaState, mNextId, mNumberOfEntries, mPushing, cardVars, inDriver>>

\* As many pages as descriptors are free and the superpage has left.
FillPush ==
    /\ FillCalled
    /\ mPushing # <<>>
    /\ ~mPendingDmaStart
    /\ LET left == maxPages - mRegistry[Head(mPushing)].pushedPages
           free == READYFIFO_ENTRIES - mFifoSize
       IN  PushPages(IF free < left THEN free ELSE left, freeFifo)
    /\ pc' = "arrivals"
    /\ UNCHANGED <<mDmaState, mPendingDmaStart, mFifoBack, mNextId, mNumberOfEntries, mArrivals,
                   mFilled, readyFifo, receiving, written, inDriver, initialMissing>>

\* Mutant of FillNothing: nothing to push ends the call.
FillNothingReturns ==
    /\ FillCalled
    /\ mPushing = <<>>
    /\ mArrivals # <<>>
    /\ UNCHANGED vars

\* Nothing to push; are there superpages to check for arrivals?
FillNothing ==
    /\ FillCalled
    /\ mPushing = <<>>
    /\ mArrivals # <<>>
    /\ pc' = "arrivals"
    /\ UNCHANGED <<mDmaState, mPendingDmaStart, mFifoBack, mFifoSize, queueVars, readyFifo,
                   cardVars, inDriver, initialMissing>>

\* Mutant of FillArrived: a part of a page counts as the page.
FillArrivedPart ==
    /\ pc = "arrivals"
    /\ mFifoSize > 0
    /\ IF mArrivals = <<>>
       THEN /\ pc' = "undefined"
            /\ UNCHANGED <<mFifoBack, mFifoSize, mRegistry, mArrivals, mFilled, readyFifo>>
       ELSE /\ readyFifo[mFifoBack] \in {"part", "whole"}
            /\ readyFifo' = [readyFifo EXCEPT ![mFifoBack] = "none"]
            /\ mFifoSize' = mFifoSize - 1
            /\ mFifoBack' = (mFifoBack + 1) % READYFIFO_ENTRIES
            /\ Received(Head(mArrivals), 1)
            /\ UNCHANGED pc
    /\ UNCHANGED <<mDmaState, mPendingDmaStart, mNextId, mNumberOfEntries, mPushing, cardVars,
                   inDriver, initialMissing>>

\* One round of the loop: the oldest page has arrived.  The loop does not test
\* again whether there is a superpage for it.
FillArrived ==
    /\ pc = "arrivals"
    /\ mFifoSize > 0
    /\ IF mArrivals = <<>>
       THEN /\ pc' = "undefined"
            /\ UNCHANGED <<mFifoBack, mFifoSize, mRegistry, mArrivals, mFilled, readyFifo>>
       ELSE /\ readyFifo[mFifoBack] = "whole"
            /\ readyFifo' = [readyFifo EXCEPT ![mFifoBack] = "none"]
            /\ mFifoSize' = mFifoSize - 1
            /\ mFifoBack' = (mFifoBack + 1) % READYFIFO_ENTRIES
            /\ Received(Head(mArrivals), 1)
            /\ UNCHANGED pc
    /\ UNCHANGED <<mDmaState, mPendingDmaStart, mNextId, mNumberOfEntries, mPushing, cardVars,
                   inDriver, initialMissing>>

\* No more pages, or the oldest one is still to come.
FillReturn ==
    /\ pc = "arrivals"
    /\ mFifoSize = 0 \/ readyFifo[mFifoBack] \in {"none", "part"}
    /\ pc' = "idle"
    /\ UNCHANGED <<mDmaState, mPendingDmaStart, mFifoBack, mFifoSize, queueVars, readyFifo,
                   cardVars, inDriver, initialMissing>>

\* startPendingDma() throws when the link or the card does not answer,
\* dataArrived() on an error status; nobody catches it.
FillThrow ==
    /\ \/ FillCalled /\ mPushing # <<>> /\ mPendingDmaStart
       \/ pc = "starting" /\ readyFifo[READYFIFO_ENTRIES - 1] = "error"
       \/ pc = "arrivals" /\ mFifoSize > 0 /\ readyFifo[mFifoBack] = "error"
    /\ pc' = "thrown"
    /\ UNCHANGED <<mDmaState, mPendingDmaStart, mFifoBack, mFifoSize, queueVars, readyFifo,
                   cardVars, inDriver, initialMissing>>
-----------------------------------------------------------------------------
\* The card takes its descriptors in order; it may report a part of a page
\* first, and errors.

CardPart ==
    /\ receiving /\ freeFifo # <<>>
    /\ readyFifo[Head(freeFifo).index] # "part"
    /\ readyFifo' = [readyFifo EXCEPT ![Head(freeFifo).index] = "part"]
    /\ UNCHANGED <<mDmaState, mPendingDmaStart, mFifoBack, mFifoSize, queueVars, pc, cardVars,
                   inDriver, initialMissing>>

CardWhole ==
    /\ receiving /\ freeFifo # <<>>
    /\ LET d == Head(freeFifo)
       IN  /\ readyFifo' = [readyFifo EXCEPT ![d.index] = "whole"]
           /\ written' = [written EXCEPT ![d.superpage] = @ \cup {d.page}]
    /\ freeFifo' = Tail(freeFifo)
    /\ UNCHANGED <<mDmaState, mPendingDmaStart, mFifoBack, mFifoSize, queueVars, pc, receiving,
                   inDriver, initialMissing>>

CardError ==
    /\ receiving /\ freeFifo # <<>>
    /\ readyFifo' = [readyFifo EXCEPT ![Head(freeFifo).index] = "error"]
    /\ freeFifo' = Tail(freeFifo)
    /\ UNCHANGED <<mDmaState, mPendingDmaStart, mFifoBack, mFifoSize, queueVars, pc, receiving,
                   written, inDriver, initialMissing>>

FillSuperpages ==
    FillStart \/ FillStarted \/ FillPush \/ FillNothing \/ FillArrived \/ FillReturn \/ FillThrow

Card == CardPart \/ CardWhole \/ CardError

Next ==
    \/ StartDma
    \/ StopDma
    \/ ResetChannel
    \/ \E s \in Superpages : PushSuperpage(s)
    \/ PopSuperpage
    \/ FillSuperpages
    \/ Card

Spec == Init /\ [][Next]_vars

\* The client calls fillSuperpages() in a loop and pops what it finds ready in
\* every round of it; the receiver of the card has data to write.
FairSpec ==
    /\ Spec
    /\ WF_vars(FillSuperpages)
    /\ SF_vars(PopSuperpage)
    /\ WF_vars(CardWhole)
-----------------------------------------------------------------------------
\* The superpages in the driver's queues, oldest first.
Queued == [k \in 1 .. Len(mFilled) + Len(mArrivals) |->
             mRegistry[(mFilled \o mArrivals)[k]].superpage]

\* The superpages in the arrivals and in the filled queue.
Arriving == {mRegistry[id].superpage : id \in ToSet(mArrivals)}
Ready == [k \in 1 .. Len(mFilled) |-> mRegistry[mFilled[k]].superpage]

Interface == INSTANCE DmaChannel WITH
    TransferCapacity <- MAX_SUPERPAGES,
    started          <- mDmaState = "STARTED",
    transfer         <- Arriving,
    ready            <- Ready,
    complete         <- {s \in ToSet(inDriver) : written[s] = Pages}

(* The driver keeps the promise of DmaChannelInterface.h: every superpage    *)
(* goes from the transfer queue to the ready queue once, and not before all  *)
(* its pages were written by the card since it was pushed, although the      *)
(* driver only looks at the entries of the ready FIFO.  The one thing that   *)
(* breaks it is a start that went on after 10 ms without its initial pages:  *)
(* from then to the next start the count is ahead of the card.               *)
ImplementsInterface ==
    Interface!ChannelInit
    /\ [][Interface!ChannelNext \/ initialMissing']_(Interface!channelVars)

(* The client gets its superpages back in the order it pushed them, each     *)
(* once, and none that it did not push since the last start.                 *)
PushOrderKept == Queued = inDriver

(* DmaChannelInterface.h: "When the transfer into a superpage is ready, the  *)
(* driver will move it to the 'ready queue'": unless DMA is stopped or the   *)
(* card reports an error, the client gets every superpage back.              *)
SuperpagesComeBack ==
    \A s \in Superpages :
        s \in ToSet(inDriver) ~> \/ s \notin ToSet(inDriver)
                                 \/ mDmaState = "STOPPED"
                                 \/ pc = "thrown"

(* The three queues and the registry agree: the ids in use are distinct and  *)
(* valid, addToQueue() never overwrites one, and the superpages still being  *)
(* pushed are the youngest of those still arriving.                          *)
QueuesAgree ==
    /\ IsInjective(mFilled \o mArrivals)
    /\ mNumberOfEntries = Len(mFilled) + Len(mArrivals)
    /\ \A id \in EntryId : Valid(mRegistry[id]) <=> id \in ToSet(mFilled \o mArrivals)
    /\ IsSuffix(mPushing, mArrivals)

\* The pages pushed to the card and not counted as received.
Outstanding ==
    UNION {{id} \X (mRegistry[id].received .. mRegistry[id].pushedPages - 1) : id \in ToSet(mArrivals)}

(* The driver's count of outstanding pages is that of the superpages in the  *)
(* arrivals queue, so the loop never looks for a superpage in an empty queue *)
(* and never leaves one waiting for a page that was already counted.         *)
PagesAccounted == pc # "undefined" /\ mFifoSize = Cardinality(Outstanding)

(* The card never gets an address behind the end of the superpage, as        *)
(* pushIntoSuperpage() asserts, and two of its descriptors never report in   *)
(* the same entry, nor in one the driver has not read yet.                   *)
DescriptorsApart ==
    \A j, k \in 1 .. Len(freeFifo) :
        /\ freeFifo[j].page \in Pages
        /\ freeFifo[j].index = freeFifo[k].index => j = k
        /\ readyFifo[freeFifo[j].index] \in {"none", "part"}

(* The bookkeeping of SuperpageQueue.h and of the ready FIFO is consistent   *)
(* whenever the client or the card may look at it, also after an exception   *)
(* and after a start without its initial pages, of which only the            *)
(* descriptors show: those the card still has report in entries used again.  *)
DriverConsistent ==
    TypeOK /\ QueuesAgree /\ PagesAccounted /\ (initialMissing \/ DescriptorsApart)
=============================================================================
