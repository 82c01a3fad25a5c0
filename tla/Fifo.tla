-------------------------------- MODULE Fifo --------------------------------
(***************************************************************************)
(* The lock-free one-writer one-reader FIFO of Common/include/Common/Fifo.h.*)
(* One thread calls push(), isFull() and getNumberOfFreeSlots(); another   *)
(* calls pop(), front(), isEmpty() and getNumberOfUsedSlots().  A step is  *)
(* one access to memory the other thread also touches: the two atomic      *)
(* indices and the slots of the circular buffer.  clear() is called with   *)
(* both threads out of the FIFO, the "external protection" Fifo.h asks for.*)
(***************************************************************************)
EXTENDS Integers, Sequences

CONSTANTS Size,            \* constructor argument: elements the FIFO can hold
          Items,           \* the values pushed
          Null,            \* T(0): what pop() leaves in the slot it empties
          MaxIn            \* bound on the number of successful pushes

ASSUME SizeAssumption == Size \in Nat \ {0}
ASSUME NullAssumption == Null \notin Items

VARIABLES indexStart,   \* index of the latest element popped
          indexEnd,     \* index of the latest element pushed
          data,         \* the circular buffer
          slots,        \* data.size()
          nIn, nOut,    \* statistics
          ppc,          \* where the writer is in push()
          indexEndNew,  \* the writer's local of that name
          item,         \* the argument of push()
          pushRet,      \* the last answer of push()
          room,         \* free slots the writer knows of from its last query
          cpc,          \* where the reader is in pop() or front()
          out,          \* the reference argument of pop() and front()
          popRet,       \* the last answer of pop() or front()
          avail         \* used slots the reader knows of from its last query

indices == <<indexStart, indexEnd>>
writer  == <<ppc, indexEndNew, item, pushRet, room>>
reader  == <<cpc, out, popRet, avail>>
fifoVars == <<indexStart, indexEnd, data, slots, nIn, nOut, ppc, indexEndNew, item,
          pushRet, room, cpc, out, popRet, avail>>

Index == 0 .. Size

FifoTypeOK ==
    /\ indexStart \in Index
    /\ indexEnd \in Index
    /\ data \in [Index -> Items \cup {Null}]
    /\ slots \in {0, Size + 1}
    /\ nIn \in Nat
    /\ nOut \in Nat
    /\ ppc \in {"idle", "check", "write", "publish", "count"}
    /\ indexEndNew \in Index
    /\ item \in Items \cup {Null}
    /\ pushRet \in {0, -1}
    /\ room \in Nat
    /\ cpc \in {"idle", "advance", "read", "reset", "count", "front"}
    /\ out \in Items \cup {Null}
    /\ popRet \in {0, -1}
    /\ avail \in Nat

\* The index after i, wrapping behind the last of the Size+1 slots.
Succ(i) == IF i + 1 > Size THEN 0 ELSE i + 1

\* getNumberOfFreeSlots() for the indices read.
FreeSlots(start, end) ==
    IF end >= start THEN Size - end + start ELSE start - end - 1

UsedSlots(start, end) == Size - FreeSlots(start, end)

IsEmpty == indexEnd = indexStart

IsFull == \/ indexEnd + 1 = indexStart
          \/ indexEnd + 1 > Size /\ indexStart = 0

FifoInit ==
    /\ indexStart = 0
    /\ indexEnd = 0
    /\ data = [i \in Index |-> Null]
    /\ slots = Size + 1
    /\ nIn = 0
    /\ nOut = 0
    /\ ppc = "idle"
    /\ indexEndNew = 0
    /\ item = Null
    /\ pushRet = 0
    /\ room = 0
    /\ cpc = "idle"
    /\ out = Null
    /\ popRet = 0
    /\ avail = 0
-----------------------------------------------------------------------------
\* The writer's thread.

\* push(): compute the next index from indexEnd, which only the writer stores.
\* No caller pushes after clear(), which leaves the vector without slots.
PushBegin(x) ==
    /\ ppc = "idle"
    /\ nIn < MaxIn
    /\ slots > 0
    /\ item' = x
    /\ indexEndNew' = Succ(indexEnd)
    /\ ppc' = "check"
    /\ UNCHANGED <<indices, data, slots, nIn, nOut, pushRet, room, reader>>

\* Mutant of PushCheck: the element is published before it is stored.
PushEarly ==
    /\ ppc = "check"
    /\ IF indexEndNew = indexStart
       THEN /\ ppc' = "idle"
            /\ pushRet' = -1
       ELSE /\ ppc' = "write"
            /\ UNCHANGED pushRet
    /\ indexEnd' = IF indexEndNew = indexStart THEN indexEnd ELSE indexEndNew
    /\ UNCHANGED <<indexStart, data, slots, nIn, nOut, indexEndNew, item, room, reader>>

\* push(): read indexStart; no space left returns -1.
PushCheck ==
    /\ ppc = "check"
    /\ IF indexEndNew = indexStart
       THEN /\ ppc' = "idle"
            /\ pushRet' = -1
       ELSE /\ ppc' = "write"
            /\ UNCHANGED pushRet
    /\ UNCHANGED <<indices, data, slots, nIn, nOut, indexEndNew, item, room, reader>>

\* push(): store the element.
PushWrite ==
    /\ ppc = "write"
    /\ data' = [data EXCEPT ![indexEndNew] = item]
    /\ ppc' = "publish"
    /\ UNCHANGED <<indices, slots, nIn, nOut, indexEndNew, item, pushRet, room, reader>>

\* push(): store indexEnd, which hands the slot to the reader.
PushPublish ==
    /\ ppc = "publish"
    /\ indexEnd' = indexEndNew
    /\ ppc' = "count"
    /\ room' = IF room = 0 THEN 0 ELSE room - 1
    /\ UNCHANGED <<indexStart, data, slots, nIn, nOut, indexEndNew, item, pushRet, reader>>

PushCount ==
    /\ ppc = "count"
    /\ nIn' = nIn + 1
    /\ pushRet' = 0
    /\ ppc' = "idle"
    /\ UNCHANGED <<indices, data, slots, nOut, indexEndNew, item, room, reader>>

\* isFull() called by the writer: 0 tells it of one free slot.
IsFullQuery ==
    /\ ppc = "idle"
    /\ room' = IF IsFull THEN 0 ELSE 1
    /\ UNCHANGED <<indices, data, slots, nIn, nOut, ppc, indexEndNew, item, pushRet, reader>>

\* getNumberOfFreeSlots() called by the writer; it reads indexStart once.
FreeSlotsQuery ==
    /\ ppc = "idle"
    /\ room' = FreeSlots(indexStart, indexEnd)
    /\ UNCHANGED <<indices, data, slots, nIn, nOut, ppc, indexEndNew, item, pushRet, reader>>
-----------------------------------------------------------------------------
\* The reader's thread.

\* pop(): isEmpty() returns -1.
PopBegin ==
    /\ cpc = "idle"
    /\ IF IsEmpty
       THEN /\ popRet' = -1
            /\ UNCHANGED cpc
       ELSE /\ cpc' = "advance"
            /\ UNCHANGED popRet
    /\ UNCHANGED <<indices, data, slots, nIn, nOut, writer, out, avail>>

\* pop(): indexStart moves before the element is read.
PopAdvance ==
    /\ cpc = "advance"
    /\ indexStart' = Succ(indexStart)
    /\ cpc' = "read"
    /\ avail' = IF avail = 0 THEN 0 ELSE avail - 1
    /\ UNCHANGED <<indexEnd, data, slots, nIn, nOut, writer, out, popRet>>

PopRead ==
    /\ cpc = "read"
    /\ out' = data[indexStart]
    /\ cpc' = "reset"
    /\ UNCHANGED <<indices, data, slots, nIn, nOut, writer, popRet, avail>>

\* pop(): the slot is reset, so that a shared pointer in it is released.
PopReset ==
    /\ cpc = "reset"
    /\ data' = [data EXCEPT ![indexStart] = Null]
    /\ cpc' = "count"
    /\ UNCHANGED <<indices, slots, nIn, nOut, writer, out, popRet, avail>>

PopCount ==
    /\ cpc = "count"
    /\ nOut' = nOut + 1
    /\ popRet' = 0
    /\ cpc' = "idle"
    /\ UNCHANGED <<indices, data, slots, nIn, writer, out, avail>>

\* Mutant of FrontBegin: front() does not test for an empty FIFO.
FrontUnchecked ==
    /\ cpc = "idle"
    /\ cpc' = "front"
    /\ UNCHANGED <<indices, data, slots, nIn, nOut, writer, out, popRet, avail>>

\* front(): as pop(), but the element stays.
FrontBegin ==
    /\ cpc = "idle"
    /\ IF IsEmpty
       THEN /\ popRet' = -1
            /\ UNCHANGED cpc
       ELSE /\ cpc' = "front"
            /\ UNCHANGED popRet
    /\ UNCHANGED <<indices, data, slots, nIn, nOut, writer, out, avail>>

FrontRead ==
    /\ cpc = "front"
    /\ out' = data[Succ(indexStart)]
    /\ popRet' = 0
    /\ cpc' = "idle"
    /\ UNCHANGED <<indices, data, slots, nIn, nOut, writer, avail>>

\* isEmpty() called by the reader: 0 tells it of one element.
IsEmptyQuery ==
    /\ cpc = "idle"
    /\ avail' = IF IsEmpty THEN 0 ELSE 1
    /\ UNCHANGED <<indices, data, slots, nIn, nOut, writer, cpc, out, popRet>>

\* getNumberOfUsedSlots() called by the reader; it reads indexEnd once.
UsedSlotsQuery ==
    /\ cpc = "idle"
    /\ avail' = UsedSlots(indexStart, indexEnd)
    /\ UNCHANGED <<indices, data, slots, nIn, nOut, writer, cpc, out, popRet>>
-----------------------------------------------------------------------------
\* clear(): the vector is emptied, not refilled with default elements.
Clear ==
    /\ ppc = "idle"
    /\ cpc = "idle"
    /\ data' = [i \in Index |-> Null]
    /\ slots' = 0
    /\ indexStart' = 0
    /\ indexEnd' = 0
    /\ room' = 0
    /\ avail' = 0
    /\ UNCHANGED <<nIn, nOut, ppc, indexEndNew, item, pushRet, cpc, out, popRet>>

Push == \/ \E x \in Items : PushBegin(x)
        \/ PushCheck
        \/ PushWrite
        \/ PushPublish
        \/ PushCount

Pop == PopBegin \/ PopAdvance \/ PopRead \/ PopReset \/ PopCount

FrontCall == FrontBegin \/ FrontRead

Query == IsFullQuery \/ FreeSlotsQuery \/ IsEmptyQuery \/ UsedSlotsQuery

FifoNext == Push \/ Pop \/ FrontCall \/ Query \/ Clear

FifoSpec == FifoInit /\ [][FifoNext]_fifoVars
-----------------------------------------------------------------------------
\* The k-th slot behind start.
Slot(start, k) == IF start + k > Size THEN start + k - Size - 1 ELSE start + k

\* The elements pushed and not yet popped, oldest first.
Content == [k \in 1 .. UsedSlots(indexStart, indexEnd) |-> data[Slot(indexStart, k)]]

\* A pop() that moved indexStart has taken its element, wherever it stands; a
\* push() that stored indexEnd has succeeded.
Queue == INSTANCE BoundedQueue
         WITH queue   <- Content,
              putRet  <- IF ppc = "count" THEN 0 ELSE pushRet,
              takeRet <- IF cpc \in {"read", "reset", "count"} THEN 0 ELSE popRet,
              got     <- IF cpc = "read" THEN data[indexStart] ELSE out

(* Fifo.h: "Two threads can safely work concurrently on the two sides of the *)
(* FIFO": every interleaving of the accesses of push(), pop() and front() is *)
(* one of an atomic queue of Size elements, with its answers.                *)
AtomicQueue == Queue!Spec

(* While pop() reads and resets the slot at indexStart, which it has already *)
(* handed back by moving indexStart, the writer never writes that slot: the  *)
(* extra slot of the buffer keeps them apart.                                *)
NoSlotShared ==
    (ppc = "write" \/ ppc = "publish") /\ cpc \in {"read", "reset", "front"}
    => /\ indexEndNew # indexStart
       /\ cpc = "front" => indexEndNew # Succ(indexStart)

(* What the writer learned from isFull() or getNumberOfFreeSlots() stays     *)
(* true until it pushes, whatever the reader does: the aggregator and the    *)
(* equipments test isFull() long before they push and ignore what push()     *)
(* returns.                                                                  *)
RoomIsStable == room <= FreeSlots(indexStart, indexEnd)

(* What the reader learned from isEmpty() or getNumberOfUsedSlots() stays    *)
(* true until it pops: the aggregator dereferences what front() returns      *)
(* after isEmpty() answered 0, without testing front()'s result.             *)
AvailIsStable == avail <= UsedSlots(indexStart, indexEnd)

=============================================================================
