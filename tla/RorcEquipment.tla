---------------------------- MODULE RorcEquipment ---------------------------
(***************************************************************************)
(* The equipment of the readout that reads a card:                         *)
(* Readout/src/ReadoutEquipmentRORC.cxx.  Its thread gives free superpages *)
(* to the channel and puts filled ones, as blocks, into dataOut.  A block  *)
(* that nobody needs any more returns its superpage to the FIFO            *)
(* pagesAvailable, from whichever thread dropped it last.  That FIFO is    *)
(* Common/Fifo.h, with one writer and one reader in mind.                  *)
(***************************************************************************)
EXTENDS DmaChannel

CONSTANTS DataOutSize,   \* size of dataOut
          Droppers,      \* the threads that drop blocks
          NoPage,        \* the value that pop() leaves in a slot
          MaxOverlapped  \* bound on the blocks dropped from the first overlap on

ASSUME EquipmentAssumption ==
    DataOutSize \in Nat \ {0} /\ NoPage \notin Superpages /\ MaxOverlapped \in Nat

VARIABLES
    equipment,     \* where the equipment is: "off", "failed", or in a step of populateFifoOut()
    slots, indexStart, indexEnd,   \* pagesAvailable
    dataOut,
    blocks,        \* superpages of the blocks taken from dataOut
    drop,          \* [thread -> the superpage it pushes and the index it read]
    overlapped     \* history: blocks dropped since two threads dropped one at the same time

equipmentFifo == <<slots, indexStart, indexEnd>>
equipmentVars == <<equipment, equipmentFifo, dataOut, blocks, drop, overlapped>>

FifoSize == Cardinality(Superpages)
Following(i) == IF i + 1 > FifoSize THEN 0 ELSE i + 1
Idle == [page |-> NoPage, index |-> 0]

\* What pop() gives: the 0 that it leaves in a slot is the offset of the first superpage.
Popped(i) == IF slots[i] = NoPage THEN SetToSeq(Superpages)[1] ELSE slots[i]

EquipmentInit ==
    /\ equipment = "off"
    /\ slots = [i \in 0 .. FifoSize |-> NoPage]
    /\ indexStart = 0 /\ indexEnd = 0
    /\ dataOut = <<>>
    /\ blocks = {}
    /\ drop = [t \in Droppers |-> Idle]
    /\ overlapped = 0

\* The constructor: all superpages are free, the channel is opened, reset and started.
\* If one of it fails the equipment exists but populateFifoOut() only returns an error.
EquipmentStart ==
    /\ equipment = "off"
    /\ slots' = [i \in 0 .. FifoSize |-> IF i = 0 THEN NoPage ELSE SetToSeq(Superpages)[i]]
    /\ indexEnd' = FifoSize
    /\ \/ ChannelStart /\ equipment' \in {"fill", "failed"}
       \/ UNCHANGED channelVars /\ equipment' = "failed"
    /\ UNCHANGED <<indexStart, dataOut, blocks, drop, overlapped>>

\* populateFifoOut(): fillSuperpages(), ...
EquipmentFill ==
    /\ equipment = "fill"
    /\ \/ /\ \E s \in Superpages : ChannelArrive(s)
          /\ UNCHANGED equipment
       \/ /\ equipment' = "give"
          /\ UNCHANGED channelVars
    /\ UNCHANGED <<equipmentFifo, dataOut, blocks, drop, overlapped>>

\* Mutant of EquipmentGive: the index does not go around.
EquipmentGiveOnce ==
    /\ equipment = "give"
    /\ IF TransferAvailable /\ indexStart # indexEnd /\ indexStart < FifoSize
       THEN /\ indexStart' = indexStart + 1
            /\ slots' = [slots EXCEPT ![indexStart + 1] = NoPage]
            /\ ChannelPush(slots[indexStart + 1])
            /\ UNCHANGED equipment
       ELSE /\ equipment' = "check"
            /\ UNCHANGED <<channelVars, slots, indexStart>>
    /\ UNCHANGED <<indexEnd, dataOut, blocks, drop, overlapped>>

\* ... free superpages go to the driver ("twice": one that it has already, with which the
\* model of this process ends), ...
EquipmentGive ==
    /\ equipment = "give"
    /\ IF TransferAvailable /\ indexStart # indexEnd
       THEN LET i == Following(indexStart)
            IN  /\ indexStart' = i
                /\ slots' = [slots EXCEPT ![i] = NoPage]
                /\ IF Popped(i) \in Superpages \ (transfer \cup ToSet(ready))
                   THEN ChannelPush(Popped(i)) /\ UNCHANGED equipment
                   ELSE equipment' = "twice" /\ UNCHANGED channelVars
       ELSE /\ equipment' = "check"
            /\ UNCHANGED <<channelVars, slots, indexStart>>
    /\ UNCHANGED <<indexEnd, dataOut, blocks, drop, overlapped>>

\* Mutant of EquipmentCheck: the superpage stays in the ready queue.
EquipmentCheckKeeps ==
    /\ equipment = "check"
    /\ IF ready # <<>> /\ Len(dataOut) < DataOutSize
       THEN dataOut' = Append(dataOut, Head(ready))
       ELSE UNCHANGED dataOut
    /\ equipment' = "fill"
    /\ UNCHANGED <<channelVars, equipmentFifo, blocks, drop, overlapped>>

\* ... and filled ones go out as blocks, while there is room.
EquipmentCheck ==
    /\ equipment = "check"
    /\ IF ready # <<>> /\ Len(dataOut) < DataOutSize
       THEN /\ dataOut' = Append(dataOut, Head(ready))
            /\ ChannelPop
            /\ UNCHANGED equipment
       ELSE /\ equipment' = "fill"
            /\ UNCHANGED <<channelVars, dataOut>>
    /\ UNCHANGED <<equipmentFifo, blocks, drop, overlapped>>

\* There is no memory for the block: the superpage stays with the channel.
EquipmentNoMemory ==
    /\ equipment = "check" /\ ready # <<>> /\ Len(dataOut) < DataOutSize
    /\ equipment' = "fill"
    /\ UNCHANGED <<channelVars, equipmentFifo, dataOut, blocks, drop, overlapped>>

\* The aggregator takes a block.
TakeBlock ==
    /\ dataOut # <<>>
    /\ blocks' = blocks \cup {Head(dataOut)}
    /\ dataOut' = Tail(dataOut)
    /\ UNCHANGED <<channelVars, equipment, equipmentFifo, drop, overlapped>>

\* ~DataBlockContainerFromRORC(), "todo: add lock": push() reads indexEnd and writes the
\* slot behind it, if there is room, ...
DropBlock(t, s) ==
    /\ s \in blocks /\ drop[t] = Idle /\ overlapped <= MaxOverlapped
    /\ blocks' = blocks \ {s}
    /\ IF Following(indexEnd) = indexStart
       THEN UNCHANGED <<slots, drop>>
       ELSE /\ slots' = [slots EXCEPT ![Following(indexEnd)] = s]
            /\ drop' = [drop EXCEPT ![t] = [page |-> s, index |-> Following(indexEnd)]]
    /\ overlapped' = IF overlapped > 0 \/ \E u \in Droppers : drop[u] # Idle
                     THEN overlapped + 1 ELSE 0
    /\ UNCHANGED <<channelVars, equipment, indexStart, indexEnd, dataOut>>

\* ... then moves indexEnd.
DropDone(t) ==
    /\ drop[t] # Idle
    /\ indexEnd' = drop[t].index
    /\ drop' = [drop EXCEPT ![t] = Idle]
    /\ UNCHANGED <<channelVars, equipment, slots, indexStart, dataOut, blocks, overlapped>>

\* The process ends, and with it all of its state.
EquipmentGone ==
    /\ equipment' = "off"
    /\ slots' = [i \in 0 .. FifoSize |-> NoPage]
    /\ indexStart' = 0 /\ indexEnd' = 0
    /\ dataOut' = <<>>
    /\ blocks' = {}
    /\ drop' = [t \in Droppers |-> Idle]
    /\ overlapped' = 0

\* The destructor, once the thread is stopped.  A block that is still out refers to the
\* channel and keeps it open, so that all of this is over with the last of them.
EquipmentStop ==
    /\ blocks = {} /\ drop = [t \in Droppers |-> Idle]
    /\ \/ equipment = "fill" /\ ChannelStop
       \/ equipment = "failed" /\ UNCHANGED channelVars
    /\ EquipmentGone

EquipmentThread == EquipmentFill \/ EquipmentGive \/ EquipmentCheck

\* The steps of an equipment after its constructor, but for its destructor.
EquipmentNext ==
    \/ EquipmentThread \/ EquipmentNoMemory
    \/ TakeBlock
    \/ \E t \in Droppers : DropDone(t) \/ \E s \in Superpages : DropBlock(t, s)

-----------------------------------------------------------------------------
\* The pages in pagesAvailable, oldest first.
Available ==
    [k \in 1 .. (indexEnd - indexStart + FifoSize + 1) % (FifoSize + 1) |->
       slots[(indexStart + k) % (FifoSize + 1)]]

Dropping == {drop[t].page : t \in Droppers} \ {NoPage}

(* While the equipment runs every superpage is in one place: free, with the  *)
(* channel, in dataOut, in a block somebody refers to, or on its way back.   *)
(* So the card never writes into a block, and no superpage is lost - until   *)
(* two threads have dropped blocks at the same time, for want of the lock    *)
(* that ~DataBlockContainerFromRORC() does not take.                         *)
PagesApart ==
    equipment \notin {"off", "failed"} /\ overlapped = 0 =>
        LET places == Available \o ready \o dataOut
        IN  /\ equipment # "twice"
            /\ IsInjective(places)
            /\ Len(places) + Cardinality(transfer) + Cardinality(blocks) + Cardinality(Dropping)
                 = Cardinality(Superpages)
            /\ ToSet(places) \cup transfer \cup blocks \cup Dropping = Superpages

(* A superpage never stays free for ever while the equipment runs: blocks    *)
(* that are dropped come back to the channel, if no two drops overlap.       *)
PagesCirculate ==
    \A s \in Superpages :
        s \in blocks ~> s \in transfer \/ equipment \in {"off", "failed"} \/ overlapped > 0
=============================================================================
