# TLA+ models of FlpPrototype

FlpPrototype is the prototype software of an ALICE O2 First Level Processor (FLP): it reads
detector data from PCIe cards, cuts it into blocks, groups the blocks of the same time window
and hands them to consumers, with libraries for logging, control and monitoring beside it.
This directory holds TLA+ models of the parts of it where correctness depends on the order in
which threads, cards and processes act, TLC configurations that check them on small
instances, and TLAPS proofs of what holds for every instance.

`PROJECT.json` lists, by machine-readable name, the components, the runs, the source lines each
definition models, the hazards, one mutant of the code per checked property, and the theorems.

## 1. Inventory

| Component | State it keeps | Interacts with | What is hard | What makes it correct | Module |
|---|---|---|---|---|---|
| `Common/Fifo.h` | circular buffer, `indexStart`, `indexEnd` | one writer thread, one reader thread, no lock | interleaving of the memory accesses, wrap of the indices | an atomic bounded queue; an answer of a query stays valid until the asker acts | `Fifo`, `BoundedQueue` |
| `Common/Thread.cxx`, `Timer.cxx` | `shutdown` flag, the thread | callbacks of equipments, aggregator, dispatchers | stop during a callback | bounded drain | `Thread` |
| `DataFormat/MemPool.cxx`, `DataBlockContainer.cxx` | a flag per page, two cached indices | equipments get, consumers release | lock-free scans that overtake each other | one holder per page, no page lost, NULL only when memory ran out | `MemPool` |
| Readout: equipments, aggregator, main loop, consumers | FIFOs, locals of a scan, timers, the start/loop/stop sequence | each other | full FIFOs and empty pools, inputs that change during a scan, timeouts, signals, teardown order | a data set has one id and is complete unless a timeout passed; order kept, nothing lost; shutdown ends | `Readout` |
| RORC `SuperpageQueue.h`, `CrorcDmaChannel.cxx` | registry and three queues, window of the ready FIFO | the card, which writes the ready FIFO by DMA | card and driver race; first pages that come late; page arithmetic | a superpage is ready only when the card wrote all of it; order kept | `CrorcDmaChannel` |
| RORC `CruDmaChannel.cxx` | queue and counter per link, ready queue | the firmware's counters | counting instead of handshake; two capacities; counters that wrap; links served in a fixed order | no superpage lost or doubled; the "impossible" exceptions are impossible; superpages come back | `CruDmaChannel` |
| RORC dummy channel, and the interface all channels share | two queues | clients | | superpages pushed come back once, when filled | `DmaChannel` |
| RORC `InterprocessLock.h`, `DmaChannelBase.cxx` | a lock on a file and a named mutex in shared memory | processes that open a channel | crashes at every step, forced unlocking by two processes | one owner; an unclean end is noticed | `ChannelLock` |
| RORC `ProgramDmaBench.cxx` | two queues between its threads, counters, a flag | a channel | three threads, two counters of the same limit, exceptions | superpages in one place; the loop ends | `DmaBench` |
| Readout `ReadoutEquipmentRORC.cxx` | `pagesAvailable`, `dataOut`, blocks out | a channel, the readout process | superpages come back from other threads | superpages in one place; they circulate | `RorcEquipment` |
| InfoLogger `permanentFIFO.c` | two tables in memory, a file | the transport client | deaths between system calls | nothing saved is lost, acknowledged is final, read in order | `PermanentFifo` |
| InfoLogger `transport_client.c`, `transport_server.c` | connection states, input and output queue, acknowledgements | TCP, persistent FIFO, main loop of the server | lost connections, timeouts, restarts on both sides, slots used again | each message arrives, in order, and is forgotten only after that | `LogTransport`, `LogChannel` |
| InfoLogger library, daemon, server, dispatchers | bytes of incomplete lines, dispatch FIFOs, database statements | sockets, transport, MySQL | reads that end anywhere, full queues, failing inserts | lines keep their order; a message that reached the server is stored or its loss is logged | `Logging` |
| Control `StateMachine.cxx`, `BaseControl.cxx` | state and command nodes in ZooKeeper, watches, one pending command per object | handler thread, engine thread, clients | one-shot watches, calls that fail, registration while commands come, clients with two threads | a command runs once; what is published is the state, and a client shows it | `ControlSystem` |
| Control `Zdaq/zdaq.cxx` | module status, thread flags, FIFO, reference count of an event | control thread, module threads | STOP against a running thread; a destructor beside it; timeouts of reads and writes | the event lives while it can be reached; a stopped consumer has flushed | `Zdaq` |
| Quality control, data sampling, GUI, demonstrators, benchmarks | ROOT objects, windows | | little state of their own | | none (section 8) |

Data flow of the readout process:

    equipment thread e --dataOut[e] (Fifo)--> aggregator thread --output (Fifo)--> main thread --> consumers
         ^                                                                                            |
         +---------- pages of a MemPool, or superpages of a channel <--- last reference dropped ------+

Way of a log line:

    process --socket--> infoLoggerD --permanent FIFO--> transport client --TCP--> transport server
        --> main loop of infoLoggerServer --Fifo--> database threads, online dispatcher

## 2. Modules and how they correspond to the code

How they are composed: `Readout` EXTENDS `Thread`; `DmaBench` and `RorcEquipment` EXTEND
`DmaChannel`, and `DmaClients` composes both with `ChannelLock`; `CrorcDmaChannel` and
`CruDmaChannel` are shown to implement `DmaChannel`, `Fifo` to implement `BoundedQueue` and
`LogTransport` to implement `LogChannel`, which `Logging` EXTENDS. So the clients of a channel and
the programs around the transport are checked on top of what the detailed modules were shown to
promise. Each `MC*` module instantiates one specification for TLC.

`Fifo` models `Common/include/Common/Fifo.h`. Variables carry the names of the members and
locals; `ppc` and `cpc` say where the writer and the reader are. One action is one access to
memory the other thread touches. The `std::atomic` indices are sequentially consistent, so
interleaving is exact. The queries record in `room` and `avail` what a caller now believes.
`clear()` is called with both threads outside, which is the condition `Fifo.h` states. The
refinement mapping is the content of the slots between the indices.

`MemPool` models `MemPool.cxx` and the containers: any number of Getters run `getPage()` and of
Releasers `releasePage()`, each round of a scan split at each access to an atomic. `disturbed` and
`lost` are history: the threads during whose scan another one moved what it reads, and the pages
that a `releasePage()` disturbed in this way did not find.

`Thread` models `Thread.cxx`: `start()`, `stop()`, `join()` by an owner, and `threadMain()`
split at each access to `shutdown`. Sleeping takes time and changes no state.

`Readout` composes equipments, aggregator and main thread. FIFOs are atomic queues here, which
`ReadoutProofs` justifies. The aggregator's callback is split at each access to a FIFO. A block is
`<<equipment, id>>`; `populateFifoOut()` gives any increasing ids. Timers are Booleans that
become TRUE at any instant after they were set. A signal arrives at any instant.

`DmaChannel` is what `DmaChannelInterface.h` offers and what the dummy channel does, with the
freedom of the real cards to fill late and, with several links, in another order. The card is
ChannelComplete; `fillSuperpages()` is ChannelArrive.

`CrorcDmaChannel` models `CrorcDmaChannel.cxx`, `SuperpageQueue.h`, `ReadyFifo.h` and the states
of `DmaChannelPdaBase.cxx`, with the card and a client as environment. Sizes are counted in
DMA pages. The card takes descriptors in order, writes a page, then its entry of the ready FIFO:
first with the length of a part, then with the whole or an error. `startPendingDma()` goes on after
10 ms whether the first pages arrived or not, as in the code; `initialMissing` remembers that the last
start did so without all of them. Exceptions of the driver are the locations `thrown` and `undefined`.

`CruDmaChannel` models `CruDmaChannel.cxx`. `fillSuperpages()` reads the register of one link
after the other while the firmware counts on. Counters are taken modulo `CounterRange`, and they do
wrap; the client pushes as long as it likes.

`ChannelLock` models `InterprocessLock.h` and the constructor of `DmaChannelBase.cxx`: both locks,
taken and given back one after the other, the removal of the mutex's name by processes with
`setForcedUnlockEnabled(true)`, one retry, and deaths at every step. A mutex without its name
stays with those who have it open, so mutexes are numbered.

`DmaBench` models `ProgramDmaBench.cxx`: push thread, readout thread and low-priority thread, each
split where it touches what the others touch, the page limit, SIGINT, and an exception in each
thread. `RorcEquipment` models `ReadoutEquipmentRORC.cxx` with `pagesAvailable` as the `Fifo.h` it
is, because that FIFO is written by whichever thread drops a block; Droppers are those threads, and
`overlapped` counts the drops from the first that began while another one was under way.
`DmaClients` lets both run against one channel, opened under the lock, and crash.

`PermanentFifo` models `InfoLogger/src/permanentFIFO.c` with the transport client's queue of
messages read and not acknowledged. An operation holds the mutex and is one step; `CleanSteps`
and `AckSteps` are the states of the three files after each system call, and a death of the
process leaves any of them; `truncated` remembers one between the truncation of the file and the
write of its header. A message that was only in `table_disk` at a death is in `lost`: the code
promises nothing for it.

`LogTransport` models both state machines of the transport and the main loop of the server. A
message is its number; a file has one message and goes as two pieces. One round of the client's
loop is one action, since the server sees nothing in between; on the server an action is one
piece read, one accept, one pass of acknowledgements. `TR_server_ack_file()` takes the mutex of
the connection twice and is two actions. The persistent FIFO is reduced to counters (messages
accepted, read and removed), which is what `PermanentFifo` promises. Connections break, READY
does not come, the watchdog fires, the output queue stays full, the server dies: each takes one
of `MaxFaults`. Its inductive invariant is in `LogTransportInvariant`.

`Logging` models the library, the daemon, the server's main loop and the dispatchers. A line is
its text and its newline; `Cut` is the daemon's loop over the bytes of one `read()`, including its
treatment of a newline that comes first. The transport is `LogChannel`. A database thread has its
connection and prepared statement; using one that was closed is an error or the end of the
process.

`ControlSystem` models an engine with its objects, the directory and clients. ZooKeeper's part is
external: nodes, one-shot watches, a session that expires, calls that fail. Listing the commands,
reading and executing one, and deleting it are three steps of the handler thread; the engine
thread's steps are taken under `mMutex` as in the code; `registerObject()` is four steps, the second
of which deletes the commands it listed one by one (RegisterPurge), so commands can arrive, be
read and be executed before the object is complete. A client has two threads in
`z_watcher_node()`: the one that constructs it (ClientSubscribe) and the one of its watches
(ClientHandle). `zoo_wget()`, the callback that stores the state, and `zoo_wexists()` are steps of
their own in both (ClientGet, ClientStore, ClientExists), and each call may fail. The history
variable `wrong` says what may have made the stored state wrong. Both threads write
`mCurrentState` without a lock; the model takes such a write as one assignment.

`Zdaq` models `daqModule` with the dummy producer and consumer: the commands, the thread with its
flag, the FIFO with timeouts, and the reference count of the one event. The producer may be deleted
at any instant: its own destructor gives the reference back (DestroyProducer), then `~daqModule()`
stops, joins or cancels the thread (DestroyStop, DestroyJoin); `outlived` remembers a `do_loop()`
that was under way, or began, after the first of these.

## 3. Runs

| Run | Question | Bounds and why they are enough |
|---|---|---|
| `buffers` | Does every interleaving of `push`/`pop`/`front`/queries/`clear` behave as an atomic queue? With two threads in `getPage()` and two in `releasePage()`: are pages exclusive, which ones leak, and when is NULL answered? | FIFO: 2 elements (3 slots) and 6 pushes: the indices wrap twice at every alignment. Pool: 2 pages and 2 threads of each kind: every scan wraps and every pair of calls overlaps. The theorems lift both to every size and any number of threads of the pool |
| `pool_parallel_release` | Is `releasePage()` "thread-safe", as `MemPool.h:17` says? No: TLC shows a page lost (section 7, item 1) | 3 pages, one getter, two releasers |
| `readout` | Is a block or page ever lost, duplicated, reordered, put in a data set of another id, or cleared under a thread? | 2 equipments, 2 ids, 2 pages, FIFOs of 1 and 2: every FIFO gets full, every pool empty, and a partner may be missing, late or early |
| `readout_live` | Does a shutdown end, and does no block wait for ever? | 2 equipments with one block each |
| `crorc` | Is the C-RORC driver a DMA channel, in order, with consistent queues, and does the client get all superpages back? | 2 ready FIFO entries, 3 pages per superpage, 2 superpages: the page count is no multiple of the entries, both superpages are in the queues at once, and first pages that come late report in entries used again |
| `cru` | Is the CRU driver a DMA channel, are free slots counted right, does every superpage come back? | 2 links with queues of 2, ready queue of 1, 3 superpages pushed any number of times, counters of 3 values: all queues get full, the second link starves while the first is served, each counter wraps while the other does not |
| `dma_clients` | Do benchmark and readout keep superpages apart, keep the channel to themselves, end when told, and let superpages circulate, with crashes and exceptions? | 2 superpages, a transfer queue of 1, 2 pages per superpage and a limit of 3: the limit falls inside a superpage, queues get full; one crash and one forced unlock (any number in the proofs); two threads that drop blocks, and one more drop after the first overlap (`MaxOverlapped`): what is lost by then stays lost |
| `permfifo` | Is anything accepted lost, repeated after its acknowledgement, read out of order, not found, or kept for ever? | tables of 2 items, 5 messages, 2 deaths: both tables overflow, the file is truncated and extended again, a death can follow the recovery from another |
| `transport` | Do messages arrive in order, without gaps, and are they forgotten only after that? | 2 messages, 2 connections and slots, a server queue of 1, one fault and one orderly restart: an old connection and its successor deliver at the same time, the queue gets full, a slot is used again |
| `logging` | Do lines keep their order and does no message vanish in the server? | 2 processes, one connection (so that one is refused), 2 lines, 2 database threads with FIFOs of 1, one failing insert, one repeated message, one malformed line, one restart of the daemon |
| `control` | Are commands executed once and decided, and is what is published and seen true? | 1 object, 2 clients (two that send commands, so that one can find the object busy, or one that also watches), one failed call of the engine and one of the client, one expired session, one error of the user's code |
| `zdaq` | Does the event live long enough, has a stopped consumer flushed, does STOP end? | FIFO of 2, 2 items per round, 2 STARTs per module, one failed command, the producer deleted at any instant |

Deadlock is checked except where the system may stop: the pool's destructor, the end of `main()`,
an exception of the C-RORC driver that nobody catches, and runs in which all messages, lines or
commands the bounds allow are used up.

Every property has a mutant in `PROJECT.json`: a definition changed the way a plausible error in
that code would change it, under which TLC finds the property violated. The mutated forms stand
before the definitions they change and are marked "Mutant of".

Some properties are conjunctions of named parts that belong together, each stated in the module:
`DataSetsComplete`, `TornDownInOrder` (`Readout`), `DriverConsistent` (both drivers),
`ReadsAreComplete` (`PermanentFifo`), `BenchConsistent` (`DmaBench`).

## 4. Fairness

* `Readout`: weak fairness of every thread's step, as the operating system schedules all
  runnable threads, no thread spins with a lock held, and every callback returns. Strong fairness
  of the aggregator taking a data set when it can: it tests its inputs every few microseconds, so
  a condition that holds again and again is met by one of its polls. Timers run out, consumers
  give references back.
* `CrorcDmaChannel`, `CruDmaChannel`: the client goes on calling `fillSuperpages()` and pops what
  is ready (strong: it may be busy in between), and the card goes on filling as long as it is
  allowed to. Nothing is assumed of starts, stops and resets; the properties are conditional on
  DMA staying on.
* `DmaClients`: the threads of both programs run (weak); a channel for which `fillSuperpages()` is
  called again and again gives back each superpage the card has filled (strong; that is
  `SuperpagesComeBack` of the two drivers); blocks of the readout are dropped some day. Nothing is
  assumed of crashes, SIGINT, exceptions, or of a program starting.
* `PermanentFifo`: a daemon that died is started again (weak); the transport goes on reading
  and the server acknowledging although the process dies now and then (strong). Nothing is assumed of
  `permFIFO_flush()`, which the transport calls only while it has no connection.
* `LogTransport`: the threads of client and server run, sockets that can be read are read, the
  server's pass of acknowledgements comes every second, stopped processes are started again (all
  weak). Nothing is assumed of faults and of new messages. Faults are bounded, which stands for
  a network that works for long enough in the end.
* `ControlSystem`: handler thread and engine thread run (weak); the main thread gets `mMutex` some
  day although the engine takes it again and again (strong, as the engine sleeps 1 ms without
  the mutex whenever it has nothing to do).
* `Zdaq`: module threads and a control thread that waits in STOP run (weak); commands need not come.

## 5. What is proved

All proofs are checked by TLAPS for every value of the constants, under the named ASSUMEs (sizes
and bounds are numbers, positive where the code needs it; ids start at or before the last one; the
null value is no element; there are finitely many database threads), which TLC evaluates too, and under
the hypotheses a theorem itself states, each of which is a border of the code:

* a smallest id other than 0 (`SpecDataSetsComplete`): section 7, item 2;
* `FullStart` (`CrorcProofs`): a superpage is not smaller than the ready FIFO is long.
  `startPendingDma()` pushes 128 pages into the first superpage whatever its size, so the code needs
  it; with 8 KiB pages and superpages that are multiples of 1 MiB it holds.

Where the code breaks a promise on some path, that path is in the model and in the theorem: the
property says what holds on every path, and a history variable says which one is behind it when
more than that does not.

`SequenceFacts` has the lemmas on sequences the other modules cite: their sets of elements, `Distinct`
sequences and how many elements they have, suffixes.

`ReadoutProofs`, the FIFO (every size, any elements, any number of operations). The inductive invariant
`IInv` is the type invariant with three parts: WriterInv (the writer's local `indexEndNew` is the
slot behind `indexEnd`, past the test it is not `indexStart`, and before publishing the slot holds
the item), ReaderInv (past the test the queue is not empty), ContentInv (each slot between the
indices holds an element). It is needed because the safety of a step depends on a comparison
made several steps before, which the other thread can only make truer. Lemmas on the circular
arithmetic (`SuccIndex`, `UsedFacts`, `SlotFacts`) carry the rest. Theorems: `SpecTypeOK`,
`SpecNoSlotShared`, `SpecRoomIsStable`, `SpecAvailIsStable`, and `SpecAtomicQueue`: the
lock-free FIFO implements `BoundedQueue`.

`ReadoutProofs`, the pool (every number of pages, all sets of threads).
* `SpecPoolTypeOK` and `SpecExclusivePages` hold with several getters and releasers at once. The
  strengthening says that the scan tests a flag only within its rounds and that a release clears the
  page it was given.
* `SpecNoPageLeaked`, also with any number of both. `StillFound`: the page a thread releases is still
  ahead of its scan, unless another one moved the index the scan starts from (`disturbed`). So each page
  that stays marked is one of `lost`, and there are such pages (section 7, item 1).
* `SpecNullMeansFull`, likewise. `FreeAhead`: some free page is ahead of a scan unless all were in use
  at an instant since it began, or another `getPage()` took a page or moved the index meanwhile;
  without that, pages can only be given back, and what is behind the scan was in use.

`ReadoutProofs`, the threads (every bound, any set of threads): `SpecThreadTypeOK` and `SpecBoundedDrain`. The
strengthening `LateCounted` relates the calls made since the stop with the rounds counted by
`threadMain()` and the place it is at.

`ReadoutProofs`, the data flow (any number of equipments, pages and ids, any FIFO sizes; signals and timers at any
instant): `SpecNoBlockLost`, `SpecTornDownInOrder`, `SpecOrderKept` and `SpecDataSetsComplete`. One
inductive invariant `Invariant` serves all four. Its parts:
* `Types` and `Callbacks`: what a callback tested at its beginning (room in its output, no data set
  in hand) still holds at its end, because it is the only writer of that FIFO.
* `Shutdown`: which threads are gone at each place of `main()`.
* `InLine`: the blocks of an equipment are sorted by id along the line consumers, main, output FIFO,
  aggregator, input FIFO, hand of the equipment (`Lined`). This gives `OrderKept`, and that no block
  is in two places (`Apart`).
* `Accounted`: the blocks filled are those consumed, in the line, or thrown away; a page is taken
  exactly while its block is in the line or held.
* `Aggregated`: what the aggregator's scan found at the fronts of the inputs stays there while the
  equipments go on pushing behind it; data sets have one id and one block per equipment.

Each step of `Next` is reduced to its effect on the line (`EffectGetPage`, `EffectPush`,
`EffectTake`, `EffectAggPush`, `EffectPop`, `EffectClear`, `EffectRelease`, or `Quiet`), so
that the parts are proved from seven effects and not from every action. `DataSetsComplete` adds
`Complete`: when a data set was created without a timeout, every equipment is `Beyond` its id.
It assumes that the smallest id is not 0 (section 7, item 2).

`DmaClientsProofs`, the lock (any set of processes, any of them forcing the lock, any number of crashes
and removals): `OneOwnerAlways` rests on the lock of the file alone (`LockInv`: who believes to
have it has it), because the name of the mutex can be removed under its owner.
`CrashNoticedAlways` needs more (`CrashInv`): as long as names are removed after crashes only, a
mutex without the name is one that a dead process left locked, an owner has locked the mutex
with the name, and after a crash that mutex is locked and nobody owns the channel.

`DmaClientsProofs`, the clients (any number of superpages, any sizes of the channel's, the
benchmark's and the equipment's queues, crashes at any step). `ClientsUseLock`: a step of the
composition is a step of the lock or leaves it alone, so the two theorems above hold of it.
* `BenchConsistentAlways`: the superpages are the disjoint union of the channel's two queues, the two
  queues between the threads and the hands of the threads; the two limit counters are related to
  the superpages on their way at each place of the push and readout threads.
* `PagesApartAlways`: the same for `pagesAvailable`, the channel and the blocks out. It needs that the
  writer of `pagesAvailable` has stored what it is going to publish, and that its free slots are as
  many as there are superpages elsewhere, so that no `push()` is refused. Any number of threads drop
  blocks; the invariant is about the executions in which no two drops have overlapped so far.

`CruProofs` (any number of links and superpages, any sizes of the queues). The inductive invariant
`CruInv` says, for each link, that the driver's queue is as long as its descriptors that are still
to fill and the filled superpages not counted yet together, the latter at its front
(`LinkAgrees`): so the difference of the firmware's and the driver's counter, modulo their range, is
the number of filled superpages that can be moved; after a wrap the driver sees a smaller counter
and moves none. Each superpage is in one queue (`Apart`), and what `fillSuperpages()`
read of a register is still true when it acts on it (`Filling`). From these, the link chosen
round-robin has room whenever the counter of free slots is not 0 (`PushHasRoom`), no exception
that blames the driver or the firmware is thrown (`DriverConsistentAlways`), and each step is one of
`DmaChannel` or a stutter (`ImplementsInterfaceAlways`).

`CrorcProofs` (any number of superpages, any sizes of registry, ready FIFO and superpages). The
registry is a ring, and the proof numbers its entries by age: `Aged(j)` is the j-th youngest.
* `CrorcInv`, of the queues: each of them is an interval of ages (`QueueInv`); the client's list is
  the ring (`OrderInv`); at most the two oldest arriving superpages have pages pushed, and `mFifoSize`
  is the number of those not received (`PageInv`); nothing is pushed before the deferred start, and one
  ready FIFO of pages during it (`StartInv`). No step of it depends on the card.
* `CardInv`, of the card: it has yet to fill the last of the entries in use, each for the page that the
  driver will count it for (`WindowInv`, `Target`); behind them nothing is reported; an entry reported
  whole means that its page is written (`ReportedWritten`), and so are the pages counted
  (`ReceivedWritten`). This is what makes counting entries enough.
* `PushOrderAlways` needs `CrorcInv`; `DriverConsistentAlways` and `ImplementsInterfaceAlways` need both.
  `CardInv` holds unless the last start went on without its first pages (`initialMissing`): each start
  that had them, and each new start before its wait, establishes it anew.

`LoggingProofs` (any number of clients, lines, database threads, failures and restarts, any queue
sizes): `SpecFateKnown`. `Known(m)` is followed through the steps; the case to look at is the server's
round-robin over the queues, where the message in hand must not be forgotten when all are full.

`LoggingProofs`, the persistent FIFO (any size of the two tables, any number of messages and of deaths,
between any two of the system calls): `NothingIsDropped`, `AckIsFinal` and `AllReadsComplete`, from one
inductive invariant `PermInv`.
* `LiveInv` is about the messages: those in records above the header's `lastAckId`, and those in
  `table_disk`, are the ones accepted and neither acknowledged nor lost. A death can leave any of the
  states of the files inside a save, a cleaning or an acknowledgement, so each is shown to keep the
  live messages (`SaveFacts`, `CleanFacts`, `HalfAckedFacts`), and `ForgottenKeeps` does the rest.
* `Position(a)` is about the ids, with a of them acknowledged. `Reading(a)`: the items the transport
  has and those in `table_client` are the ids from a + 1 on. `Saved(a)`: the file ends with
  `lastIdOnDisk`, begins not behind a + 1, and the remembered offset is not ahead of the reader.
  `Saving(a)`: `table_disk` goes on from there to `currentId`. A restarted process reads id 0 as the
  last one, whatever the file begins with, hence the second case of `Reading`.
* `Agree`: in all files and tables the order of the ids is that of the messages, and equal ids are
  equal items. This is what makes the three places `permFIFO_read()` looks at join
  without a gap, and it must be kept when the cleaning gives new ids.

None of the three excludes a death. After one between the truncation and the header (`truncated`) the
reader of the next start does not know where the ids go on; `Hidden` says until when: section 7, item 4.

`LogTransportProofs` (any number of clients, slots and connections, any queue sizes and counts of
faults and restarts; no assumption but `LogTransportAssumption`): `NoGapsHolds` and
`TransportImplementsChannel`, from `TransportInvariantHolds`. The invariant is in
`LogTransportInvariant`, which has no theorem, so that TLC can check it too; its parts are operators of
the records they speak about, so a step that changes one record needs the part of that record only.
* `NoGaps` is not inductive: that the message dispatched next is the next one depends on what
  waits in the output queue, in the slots and on the connections. `QueueParts` and `SlotParts` say that
  each of these continues what is ahead of it: the message before it was dispatched, is queued,
  held by the same slot, or sent before it on the same connection.
* A client sends what was not acknowledged again on a new connection, while the server may still
  hold the old one. `LinkParts`: everything on a connection that its client still uses is among the
  messages it has sent, the last of them is dispatched or on its way, and an acknowledgement
  counts what this connection delivered. `BooksParts`: the client's queue is what it read of its FIFO
  and has not removed, and what it removed was dispatched.
* `ReplyParts`: an ACK under way names a message that was dispatched and sent, so removing all up
  to it is right. `BacklogParts`: a connection not yet accepted carries no file and no reply.
* `ConnsOwned` and `ServerParts`: a connection has one client and one slot, a slot's `cx_id` is never
  used twice, and so a file whose connection closed while it was queued cannot acknowledge another
  client's. The branch "bad order for ack" is dead because the ids of a connection rise through
  queue, slot and connection (`OrderOK`).
* `TransportImplementsChannel`: each action maps to `Send`, `Deliver` or `Forget` of `LogChannel` or leaves
  its variables. `Forget` needs that acknowledged means dispatched, `Deliver` that a message dispatched
  for the first time is the next one.

`ControlProofs`, the state machines (any objects and commands, any numbers of lost calls, errors and expired sessions):
* `SpecPublishedIsTrue`, from `Published`: an object under construction has its node.
* `SpecClientNotMisled`, from `ClientInv`: what a client has stored, or is about to store, is what the
  node holds, with the watch set, or an event is on its way, or its watch thread is about to read
  again. The two exceptions are in `wrong`: the last change could not be read, or the
  constructing thread stores a value that it read before the last one its watch thread stored. It holds
  whichever calls fail and after the session of the engine expired.
* `SpecCommandOnce`, from `CmdFacts`: the nodes under an object are commands no object was given, but
  for the one between `executeCommand()` and `zoo_delete()`; what the handler has read was not given
  either; the FIFO holds at most one command, and `Stage` says how far the engine thread is with it.
  The places of both threads are needed, because the handler may list a command again while the
  engine executes it.

`ControlProofs`, Zdaq (any FIFO size, any sequence of commands):
* `SpecEventAlive`, from `RefsCounted`: `nRef` is the producer's own reference until its destructor gives
  it back, those in the FIFO, the one in the hand of each thread and those lost by failed writes and
  cancelled threads. It includes the destructor at any instant; a `do_loop()` that goes on after it
  (`outlived`) is what can reach a deleted event.
* `SpecFlushedAtStop`, from `NothingBehind`: while no producer runs nothing overtakes the flush.

## 6. What is only model-checked

Within the bounds of section 3:
* all liveness properties: fairness and ENABLED are out of the prover's reach;
* `LinesInOrder` of `Logging`: what the daemon's loop makes of a `read()` is a fold over its bytes,
  and a theorem would need induction over data, which the prover cannot do.

## 7. What the models show of the code

Each property of a passing run is stated as far as the code keeps it, on all its paths. Where the
code stops short of what one would expect, the property names the condition, and without that
condition TLC finds a counterexample. One such case contradicts what the source says of itself and is
a run of its own, item 1.

1. `MemPool.cxx:94` (run `pool_parallel_release`): two threads in `releasePage()` can leave a page
   marked used for ever: each round of the scan starts from an index the other one moves.
   `MemPool.h:17` says "thread-safe ... can be called in parallel", and in the readout the main
   thread and FairMQ's, which calls back when a message is sent, may each drop the last reference to
   a block.
2. `DataBlockAggregator.cxx:45`: the id 0 stands for an undefined id. With FirstId = 0
   `DataSetsComplete` fails: a complete data set is split. RORC blocks take their id from the data.
3. `CrorcDmaChannel.cxx:147`: after 10 ms the first pages count as received whether or not they
   are (`initialMissing`). The card then goes on with descriptors whose ready FIFO entries the driver
   uses again, so that a superpage is reported ready that the card has not filled. Until the next start
   `ImplementsInterface` and the part `DescriptorsApart` of `DriverConsistent` promise nothing; the queues, the
   counts, the order and the return of the superpages are kept all the same.
4. `permanentFIFO.c:963`: after a death between the truncation of the file and the write of its
   header, the next start goes on with the ids of the items that are gone, while its reader looks for
   id 1 in `table_disk` and finds nothing in the file: what is written is hidden from
   `permFIFO_read()` until a save (`Hidden`). With a connection and too few messages to fill the table
   there is none, and the messages wait.
5. `ReadoutEquipmentRORC.cxx:136`: two threads that drop blocks at the same time push into a FIFO made
   for one writer ("todo: add lock"). A superpage is lost, or one is given to the card twice, and
   `PagesApart` and `PagesCirculate` promise nothing from then on (`overlapped`).
6. `ProgramDmaBench.cxx:466`: an exception in the readout thread tells nobody, and the destructors
   of the futures wait for the other threads (`BenchEnds` excepts it).
7. `InterprocessLock.h:23`: an unclean end is not noticed when a second process removes the
   name of the mutex just after the first has made a new one (`needless` in `CrashIsNoticed`); a
   second opening of the lock file within one process would drop the first one's POSIX lock, which
   the model leaves to the condition that a process opens a channel once.
8. `InfoLoggerDispatchSQL.cxx:230`: after a failed `mysql_stmt_bind_param()` the statement is closed
   and the thread still counts as connected: it uses a closed statement from then on
   (`FateKnown` holds as long as the server lives).
9. `infoLoggerServer.cxx:221`: a message is acknowledged when a dispatch FIFO has it; the death of
   the server loses what is queued.
10. `infoLoggerD.cxx:377`: a newline that is the first byte not yet pushed is no end of a line to
    the daemon's loop, so that two lines can become one message; their order is kept.
11. `StateMachine.cxx:186` and `:209`: a failed `zoo_wget_children()` leaves an object deaf to
    commands for good, and a failed `zoo_delete()` executes a command again (`NoLoss` in
    `CommandOnce` and `CommandsDecided`). A command that finds one pending is dropped with a
    printed line ("todo: reorder queue": they are taken in any order). A command that was read is
    executed although it was purged, or its client has gone, meanwhile.
12. `BaseControl.cxx:156`: commands that arrive during `registerObject()` are ignored or end the
    process, as `pendingCommands` is made last.
13. `StateMachine.cxx:252` and `:280`: a client may show an old state until the next change, when its read
    failed or found no node and `zoo_wexists()` set the watch all the same ("unread"), or when the thread
    that constructs it stores its value after the one of its watch ("overtaken").
14. `zdaq.cxx:1101`: the destructor of the producer gives its reference back before `~daqModule()` stops the
    thread, whose `do_loop()` goes on with an event that may be deleted, although `zdaq.cxx:539` says "If
    non-zero, the object should not be deleted" of a count that is raised again (`outlived`). A thread
    that was only created is not waited for (`th_status` is still 0), and one cancelled after a second
    keeps a STOP under way waiting for ever.
15. `zdaq.cxx:168`: `th_do_stop` is never reset, so that a second START runs no loop; a consumer
    stopped before its producer may flush for ever (`StopCompletes` has the condition); the
    reference of a failed write is not given back, so that the event is never freed.
16. `CruDmaChannel.cxx:236`: the loop over the links starts with the first and ends when the ready queue is
    full. As long as the client goes on pushing, superpages of a later link may never come back
    (`SuperpagesComeBack` promises those of the first link, and all of them when the client pauses).
    `CruDmaChannel.cxx:222`: a link whose 32-bit counter wraps gives nothing back any more; the other
    links are not disturbed.
17. `Fifo.h:204`: `clear()` empties the vector without sizing it again, so a later `push()` stores
    outside it; nobody does.

## 8. What is not modelled

* Pure I/O, parsing and formatting: configuration, logging to files, message encoding, register
  printing utilities, the SQL text, the command-line options, the GUI and the Tcl browser.
* Generated and third-party code: `Configuration_tcl_wrap.cxx`, `zmq.hpp`, `folly`.
* Register protocols with hardware whose reaction the source only implies: `Crorc.cxx` (DDL
  commands, data generator), SCA and flash access. The driver model has "the receiver is on or off"
  in their place. The C files under `RORC/src/c` are not in the build.
* Code that cannot run in this repository: the transport's proxy (started by a command that no
  server sends) and `transport_cache.c` (used by nothing).
* Quality control, data sampling, demonstrators and benchmarks: loops around ROOT objects and
  messages with little state of their own.
* Zdaq's network and file modules, the destructors of its consumer and FIFO, and its own directory
  client `zdaq_ctrl.cxx`, an earlier version of the directory that `ControlSystem` models.
* The session of a client of the directory, which does not expire in the model and whose watches survive a
  reconnection, as ZooKeeper's do. A call of `sendCommand()` that fails sends nothing. What a concurrent
  write and read of `mCurrentState`, a `std::string`, may leave besides one of the two values.
* Time: a timer may run out at any instant after it was set. Wrapping of the identifiers of
  messages. Records of the persistent FIFO that a death cuts in the middle.

These parts are most of the repository's lines and few of its interleavings: what is modelled is
about an eighth of the lines counted as implementation.

What would come next: the consumers of the readout
that keep references in FairMQ messages.
