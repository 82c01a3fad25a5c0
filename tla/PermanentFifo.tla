---------------------------- MODULE PermanentFifo ----------------------------
(***************************************************************************)
(* The persistent FIFO of InfoLogger/src/permanentFIFO.c, in which the     *)
(* transport client keeps messages until the server has acknowledged them. *)
(* Every operation holds the mutex, so it is one step; but the process may *)
(* die between any two of the system calls that change the files, and the  *)
(* next permFIFO_new() starts from what it left.                           *)
(*                                                                         *)
(* A message is its number in the order of the calls of permFIFO_write().  *)
(* A record is written whole: a process dying between the two write()      *)
(* calls of one record, or before the header of a file just created, is    *)
(* not modelled.  Data written stays written, as the machine goes on.      *)
(***************************************************************************)
EXTENDS Integers, Sequences, SequencesExt, FiniteSets

CONSTANTS size,         \* size of the two tables
          MaxWritten,   \* bound on the messages written
          MaxDeaths     \* bound on the deaths of the process

ASSUME PermanentFifoAssumption ==
    /\ size \in Nat \ {0}
    /\ MaxWritten \in Nat
    /\ MaxDeaths \in Nat

VARIABLES
    disk,                 \* the files: current, .old and .new
    up,                   \* is there a permFIFO?
    table_client,         \* items available for the reader
    table_disk,           \* items to be saved on disk
    currentId,            \* last id used
    lastIdOut,            \* id of the last item read
    lastOutOffset,        \* records of the file before the place to read on
    nextIdInClientTable,
    lastIdOnDisk,
    ackOnDisk,
    input_queue,          \* the transport: items read and not acknowledged
    \* history
    written,              \* messages accepted by permFIFO_write()
    acked,                \* messages acknowledged
    lost,                 \* messages that were only in memory at a death
    deaths,
    truncated             \* a death came between ftruncate() and the write of the header

memory == <<up, table_client, table_disk, currentId, lastIdOut, lastOutOffset,
            nextIdInClientTable, lastIdOnDisk, ackOnDisk, input_queue>>
permVars == <<disk, memory, written, acked, lost, deaths, truncated>>

Msg == 1 .. MaxWritten
Item == [id : Nat \ {0}, msg : Msg]
Absent == [lastAckId |-> 0, currentId |-> 0, exists |-> FALSE, items |-> <<>>]
Blank == [Absent EXCEPT !.exists = TRUE]
File == [lastAckId : Nat, currentId : Nat, exists : BOOLEAN, items : Seq(Item)]

TypeOK ==
    /\ disk \in [current : File, old : File, new : File]
    /\ up \in BOOLEAN
    /\ table_client \in Seq(Item) /\ Len(table_client) <= size
    /\ table_disk \in Seq(Item) /\ Len(table_disk) <= size
    /\ currentId \in Nat
    /\ lastIdOut \in 0 .. currentId
    /\ lastOutOffset \in 0 .. Len(disk.current.items)
    /\ nextIdInClientTable \in 0 .. currentId + 1
    /\ lastIdOnDisk \in 0 .. currentId
    /\ ackOnDisk \in BOOLEAN
    /\ input_queue \in Seq(Item) /\ Len(input_queue) <= size
    /\ written \in 0 .. MaxWritten
    /\ acked \in SUBSET Msg
    /\ lost \in SUBSET Msg
    /\ deaths \in 0 .. MaxDeaths
    /\ truncated \in BOOLEAN

\* No process: nothing is in memory.
Forgotten ==
    /\ up' = FALSE
    /\ table_client' = <<>>
    /\ table_disk' = <<>>
    /\ currentId' = 0
    /\ lastIdOut' = 0
    /\ lastOutOffset' = 0
    /\ nextIdInClientTable' = 0
    /\ lastIdOnDisk' = 0
    /\ ackOnDisk' = FALSE
    /\ input_queue' = <<>>

PermInit ==
    /\ disk = [current |-> Absent, old |-> Absent, new |-> Absent]
    /\ up = FALSE
    /\ table_client = <<>>
    /\ table_disk = <<>>
    /\ currentId = 0
    /\ lastIdOut = 0
    /\ lastOutOffset = 0
    /\ nextIdInClientTable = 0
    /\ lastIdOnDisk = 0
    /\ ackOnDisk = FALSE
    /\ input_queue = <<>>
    /\ written = 0
    /\ acked = {}
    /\ lost = {}
    /\ deaths = 0
    /\ truncated = FALSE

Messages(items) == {items[k].msg : k \in DOMAIN items}

\* The items with an id above the given one, in their order.  The ids are in order, so
\* it is the same to skip the others one by one and to stop at the first of these.
Above(items, id) ==
    LET upTo[k \in 0 .. Len(items)] ==
          IF k = 0 THEN <<>>
          ELSE IF items[k].id > id THEN Append(upTo[k - 1], items[k]) ELSE upTo[k - 1]
    IN  upTo[Len(items)]
-----------------------------------------------------------------------------
\* permFIFO_file_clean().

Unacknowledged(file) == Above(file.items, file.lastAckId)

\* The file gets the ids from 1 again.
Renumbered(items) == [k \in 1 .. Len(items) |-> [id |-> k, msg |-> items[k].msg]]

\* Without acknowledged records the file stays, and its header gets the last id.
Kept(file) ==
    [file EXCEPT !.currentId = IF file.items = <<>> THEN @ ELSE Last(file.items).id]

\* Mutant of CleanSteps: the file .old is not looked for.
CleanStepsWithoutOld ==
    LET d2   == [disk EXCEPT !.old = Absent, !.new = Absent]
        kept == Renumbered(Unacknowledged(d2.current))
        copy == [Blank EXCEPT !.items = kept, !.currentId = Len(kept)]
        d3   == [d2 EXCEPT !.new = copy]
        d4   == [d3 EXCEPT !.current = Absent, !.old = d3.current]
        d5   == [d4 EXCEPT !.new = Absent, !.current = copy]
    IN  IF ~disk.current.exists
        THEN <<[disk EXCEPT !.current = Blank]>>
        ELSE IF d2.current.lastAckId = 0
             THEN <<[d2 EXCEPT !.current = Kept(d2.current)]>>
             ELSE <<d3, d4, d5, [d5 EXCEPT !.old = Absent]>>

\* The states of the files, one after each system call.
CleanSteps ==
    LET found == IF disk.current.exists THEN disk
                 ELSE [disk EXCEPT !.current = disk.old, !.old = Absent]
        d1    == [found EXCEPT !.old = Absent]
        d2    == [d1 EXCEPT !.new = Absent]
        kept  == Renumbered(Unacknowledged(d2.current))
        copy  == [Blank EXCEPT !.items = kept, !.currentId = Len(kept)]
        d3    == [d2 EXCEPT !.new = copy]
        d4    == [d3 EXCEPT !.current = Absent, !.old = d3.current]
        d5    == [d4 EXCEPT !.new = Absent, !.current = copy]
        copying == [k \in 1 .. Len(kept) + 1 |->
                      [d2 EXCEPT !.new = [Blank EXCEPT !.items = SubSeq(kept, 1, k - 1)]]]
    IN  IF ~disk.current.exists /\ ~disk.old.exists
        THEN <<[disk EXCEPT !.current = Blank]>>
        ELSE <<found, d1, d2>>
             \o IF d2.current.lastAckId = 0
                THEN <<[d2 EXCEPT !.current = Kept(d2.current)]>>
                ELSE copying \o <<d3, d4, d5, [d5 EXCEPT !.old = Absent]>>

\* permFIFO_new()
New ==
    /\ ~up
    /\ up' = TRUE
    /\ disk' = Last(CleanSteps)
    /\ currentId' = disk'.current.currentId
    /\ lastIdOnDisk' = disk'.current.currentId
    /\ ackOnDisk' = (disk'.current.currentId # 0)
    /\ nextIdInClientTable' = 1
    /\ UNCHANGED <<table_client, table_disk, lastIdOut, lastOutOffset, input_queue,
                   written, acked, lost, deaths, truncated>>
-----------------------------------------------------------------------------
\* permFIFO_save_tabledisk() of the first n items: disk', lastIdOnDisk', ackOnDisk'.
SavedDisk(n) == [disk EXCEPT !.current.items = @ \o SubSeq(table_disk, 1, n)]

Save ==
    /\ disk' = SavedDisk(Len(table_disk))
    /\ IF table_disk = <<>>
       THEN UNCHANGED <<lastIdOnDisk, ackOnDisk>>
       ELSE /\ lastIdOnDisk' = Last(table_disk).id
            /\ ackOnDisk' = TRUE

\* Mutant of Write: an item goes to the table with room, whatever is on disk.
WriteAnyway ==
    LET item == [id |-> currentId + 1, msg |-> written + 1]
        fits == Len(table_client) < size
    IN  /\ up
        /\ written < MaxWritten
        /\ written' = written + 1
        /\ currentId' = item.id
        /\ table_client' = IF fits THEN Append(table_client, item) ELSE table_client
        /\ nextIdInClientTable' = IF fits THEN item.id + 1 ELSE 0
        /\ IF ~fits \/ Len(table_disk) = size
           THEN Save /\ table_disk' = <<item>>
           ELSE /\ table_disk' = Append(table_disk, item)
                /\ UNCHANGED <<disk, lastIdOnDisk, ackOnDisk>>
        /\ UNCHANGED <<up, lastIdOut, lastOutOffset, input_queue, acked, lost, deaths, truncated>>

\* permFIFO_write(), which TR_client_send_msg() calls.
Write ==
    LET item == [id |-> currentId + 1, msg |-> written + 1]
        isNext == item.id = nextIdInClientTable
        fits == isNext /\ Len(table_client) < size
        saves == (isNext /\ ~fits) \/ Len(table_disk) = size
    IN  /\ up
        /\ written < MaxWritten
        /\ written' = written + 1
        /\ currentId' = item.id
        /\ table_client' = IF fits THEN Append(table_client, item) ELSE table_client
        /\ nextIdInClientTable' = IF fits THEN item.id + 1
                                  ELSE IF isNext THEN 0
                                  ELSE nextIdInClientTable
        /\ IF saves
           THEN Save /\ table_disk' = <<item>>
           ELSE /\ table_disk' = Append(table_disk, item)
                /\ UNCHANGED <<disk, lastIdOnDisk, ackOnDisk>>
        /\ UNCHANGED <<up, lastIdOut, lastOutOffset, input_queue, acked, lost, deaths, truncated>>

\* permFIFO_flush(): the timeout has passed.
Flush ==
    /\ up
    /\ Save
    /\ table_disk' = <<>>
    /\ UNCHANGED <<up, table_client, currentId, lastIdOut, lastOutOffset, nextIdInClientTable,
                   input_queue, written, acked, lost, deaths, truncated>>

\* permFIFO_destroy()
Destroy ==
    /\ up
    /\ disk' = SavedDisk(Len(table_disk))
    /\ Forgotten
    /\ UNCHANGED <<written, acked, lost, deaths, truncated>>
-----------------------------------------------------------------------------
\* permFIFO_read() with timeout 0, when the ids say that there is an item; the
\* transport keeps what it got until it is acknowledged.

\* The transport reads when its own queue, of the same size, is not full.
Polls == up /\ Len(input_queue) < size

\* Mutant of HasItem: off by one.
HasTwoItems == lastIdOut + 1 < currentId

HasItem == lastIdOut < currentId

\* The reader gets items[1], the others go to table_client.
ReturnFirst(items) ==
    /\ lastIdOut' = items[1].id
    /\ input_queue' = Append(input_queue, items[1])
    /\ table_client' = Tail(items)

\* From memory.
ReadClient ==
    /\ Polls
    /\ HasItem
    /\ table_client # <<>>
    /\ ReturnFirst(table_client)
    /\ UNCHANGED <<disk, up, table_disk, currentId, lastOutOffset, nextIdInClientTable,
                   lastIdOnDisk, ackOnDisk, written, acked, lost, deaths, truncated>>

\* Items of table_disk from the next one on: none when it is not the first of them.
InDiskTable ==
    LET rest == Above(table_disk, lastIdOut)
    IN  IF rest # <<>> /\ rest[1].id = lastIdOut + 1 THEN rest ELSE <<>>

\* From the items not saved yet.
ReadDiskTable ==
    /\ Polls
    /\ HasItem
    /\ table_client = <<>>
    /\ InDiskTable # <<>>
    /\ ReturnFirst(InDiskTable)
    /\ nextIdInClientTable' = Last(InDiskTable).id + 1
    /\ UNCHANGED <<disk, up, table_disk, currentId, lastOutOffset, lastIdOnDisk, ackOnDisk,
                   written, acked, lost, deaths, truncated>>

\* ct_load(): the records not read yet, as many as the table holds.
InFile ==
    LET rest == Above(SubSeq(disk.current.items, lastOutOffset + 1, Len(disk.current.items)),
                      lastIdOut)
    IN  SubSeq(rest, 1, IF Len(rest) < size THEN Len(rest) ELSE size)

\* From the file.  The offset moves only when the end of the file was read,
\* which a full table prevents.
ReadFile ==
    /\ Polls
    /\ HasItem
    /\ table_client = <<>>
    /\ InDiskTable = <<>>
    /\ lastOutOffset' = IF Len(InFile) < size THEN Len(disk.current.items) ELSE lastOutOffset
    /\ IF InFile = <<>>
       THEN UNCHANGED <<lastIdOut, input_queue, table_client, nextIdInClientTable>>
       ELSE /\ ReturnFirst(InFile)
            /\ nextIdInClientTable' = Last(InFile).id + 1
    /\ UNCHANGED <<disk, up, table_disk, currentId, lastIdOnDisk, ackOnDisk, written, acked,
                   lost, deaths, truncated>>

Read == ReadClient \/ ReadDiskTable \/ ReadFile
-----------------------------------------------------------------------------
\* permFIFO_ack() of the oldest item the transport keeps.

\* Mutant of AckSteps: the header is only written together with a truncation.
AckStepsUnmarked(id) ==
    LET marked == [disk EXCEPT !.current.items = <<>>,
                               !.current.lastAckId = id,
                               !.current.currentId = lastIdOnDisk]
    IN  IF ackOnDisk /\ lastIdOnDisk <= id THEN <<marked>> ELSE <<disk>>

\* The states of the files, one after each system call.
AckSteps(id) ==
    LET dropped == [disk EXCEPT !.current.items = IF lastIdOnDisk <= id THEN <<>> ELSE @]
        marked  == [dropped EXCEPT !.current.lastAckId = id,
                                   !.current.currentId = lastIdOnDisk]
    IN  IF ackOnDisk THEN <<dropped, marked>> ELSE <<disk>>

Ack ==
    /\ up
    /\ input_queue # <<>>
    /\ LET id == input_queue[1].id
           drops == ackOnDisk /\ lastIdOnDisk <= id
       IN  /\ table_disk' = Above(table_disk, id)
           /\ disk' = Last(AckSteps(id))
           /\ lastOutOffset' = IF drops THEN 0 ELSE lastOutOffset
           /\ ackOnDisk' = (ackOnDisk /\ ~drops)
    /\ acked' = acked \cup {input_queue[1].msg}
    /\ input_queue' = Tail(input_queue)
    /\ UNCHANGED <<up, table_client, currentId, lastIdOut, nextIdInClientTable, lastIdOnDisk,
                   written, lost, deaths, truncated>>
-----------------------------------------------------------------------------
\* The process dies: between operations, or before or inside one that saves, cleans or
\* acknowledges.
Dies(files) ==
    /\ deaths < MaxDeaths
    /\ deaths' = deaths + 1
    /\ disk' = files
    /\ Forgotten
    /\ lost' = lost \cup (Messages(table_disk) \ Messages(files.current.items))
    /\ UNCHANGED written

DieSaving ==
    /\ up
    /\ \E n \in 0 .. Len(table_disk) : Dies(SavedDisk(n))
    /\ UNCHANGED <<acked, truncated>>

DieCleaning ==
    /\ ~up
    /\ \E k \in DOMAIN CleanSteps : Dies(CleanSteps[k])
    /\ UNCHANGED <<acked, truncated>>

\* permFIFO_ack() has emptied the file and not yet written its header.
Truncated(files) ==
    /\ files.current.items = <<>>
    /\ files # Last(AckSteps(input_queue[1].id))

\* The server's acknowledgement counts when the file no longer has the record.
DieAcknowledging ==
    /\ up
    /\ input_queue # <<>>
    /\ \E files \in Range(AckSteps(input_queue[1].id)) :
          /\ Dies(files)
          /\ truncated' = (truncated \/ Truncated(files))
          /\ acked' = acked \cup ({input_queue[1].msg} \ Messages(Unacknowledged(files.current)))

PermNext ==
    \/ New \/ Write \/ Flush \/ Destroy \/ Read \/ Ack
    \/ DieSaving \/ DieCleaning \/ DieAcknowledging

PermSpec == PermInit /\ [][PermNext]_permVars

\* The daemon is started again, the transport reads and the server acknowledges.
PermFairSpec == PermSpec /\ WF_permVars(New) /\ SF_permVars(Read) /\ SF_permVars(Ack)
-----------------------------------------------------------------------------
\* What the next start finds in the files.
OnDisk == Unacknowledged(IF disk.current.exists THEN disk.current ELSE disk.old)

Pending == (1 .. written) \ (acked \cup lost)

(* A message accepted by permFIFO_write() is kept until it is acknowledged:   *)
(* it is in the file, or in the table to be saved, whatever was flushed,      *)
(* truncated, copied and renamed, and wherever the process died.              *)
NothingDropped == Pending \subseteq Messages(OnDisk) \cup Messages(table_disk)

(* An acknowledged message does not come back with the next start.            *)
AckedIsFinal == acked \cap Messages(OnDisk) = {}

(* The transport gets the messages in the order they were written and leaves  *)
(* none out, although they take three ways through the two tables and the     *)
(* file.                                                                      *)
ReadInOrder ==
    up => /\ \A i, j \in DOMAIN input_queue :
                i < j => input_queue[i].msg < input_queue[j].msg
          /\ input_queue # <<>> =>
                \A m \in Pending :
                    m <= Last(input_queue).msg => m \in Messages(input_queue)

(* The first items written after a start from a file truncated by a death,    *)
(* with the ids of the items it lost: permFIFO_read() cannot find them as     *)
(* long as they are only in table_disk.                                       *)
Hidden == truncated /\ lastIdOut = 0 /\ table_disk # <<>>

(* permFIFO_read() returns an item whenever there is one it did not return.   *)
(* TR_client_send_msg() promises "0 on success (message will be sent)".  Only *)
(* a death in the middle of the truncation of the file, and only until the    *)
(* next save, hides items.                                                    *)
UnreadIsFound ==
    up /\ ~(Pending \subseteq Messages(input_queue))
    => /\ lastIdOut < currentId
       /\ table_client # <<>> \/ InDiskTable # <<>> \/ InFile # <<>> \/ Hidden

(* What is read is next in the order of the writes, and what is not read can  *)
(* be, whichever of the two tables and the file of permFIFO_read() has it; an *)
(* item is at worst hidden until it is saved.                                 *)
ReadsAreComplete == TypeOK /\ ReadInOrder /\ UnreadIsFound

(* Every message accepted leaves the FIFO: acknowledged, or lost in a death   *)
(* before it was saved.  What a truncated file hides waits for a save, and    *)
(* permFIFO_flush() is only called while there is no connection.              *)
MessagesLeave ==
    \A m \in Msg :
        (m <= written) ~> (m \in acked \cup lost \/ (Hidden /\ m \in Messages(table_disk)))
=============================================================================
