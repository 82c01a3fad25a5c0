------------------------------- MODULE Readout -------------------------------
(***************************************************************************)
(* The readout process: the equipments' threads (ReadoutEquipment.cxx,     *)
(* ReadoutEquipmentDummy.cxx), the aggregator's (DataBlockAggregator.cxx)  *)
(* and the main thread (mainReadout.cxx), joined by FIFOs.                 *)
(*                                                                         *)
(* A FIFO is an atomic queue, which is what FifoProofs shows of Fifo.h for *)
(* one writer and one reader.  A block is <<equipment, id>>; the page that *)
(* holds it is named by it.                                                *)
(***************************************************************************)
EXTENDS Thread, Sequences, SequencesExt, FiniteSets

CONSTANTS NumEquipments,   \* equipments, in the order of the configuration
          FirstId,         \* smallest block id an equipment gives
          LastId,          \* bound on the ids
          FifoSize,        \* size of every equipment's dataOut
          OutSize,         \* size of the aggregator's output FIFO
          NumPages         \* pages of every equipment's pool

ASSUME ReadoutAssumption ==
    /\ NumEquipments \in Nat \ {0}
    /\ FirstId \in Nat
    /\ LastId \in Nat /\ FirstId <= LastId
    /\ FifoSize \in Nat \ {0}
    /\ OutSize \in Nat \ {0}
    /\ NumPages \in Nat \ {0}

Equipments == 1 .. NumEquipments
Aggregator == 0

\* The Thread objects: one for every equipment and one for the aggregator.
ASSUME ThreadsAssumption == ThreadIds = Equipments \cup {Aggregator}

Id == FirstId .. LastId
Block == Equipments \X Id

VARIABLES
    \* the equipments
    epc,          \* where the callback is: "test", "get" or "push"
    currentId,    \* the id given last
    dataOut,      \* the output FIFO of each equipment
    pages,        \* the blocks whose page is taken from the pool
    \* the aggregator
    apc,          \* where the callback is
    ai,           \* the loop counter over the inputs
    someEmpty, allEmpty, allSame, minId, lastId, \* its locals of these names
    bcv,          \* the data set being put together
    isIncompletePending,
    expired,      \* has incompletePendingTimer run out?
    output,       \* the output FIFO
    \* the main thread and the consumers
    mpc,          \* where main() is
    mi,           \* its loop counter over the equipments
    isRunning,
    bc,           \* the data set it is handing out
    ShutdownRequest,
    exitTimeout,  \* has readout.exitTimeout run out?
    drained,      \* has the delay for emptying the FIFOs run out?
    held,         \* blocks a consumer still refers to after pushData()
    \* history
    given,        \* blocks the equipments filled
    consumed,     \* blocks handed to the consumers
    discarded,    \* blocks thrown away at shutdown
    lastOut,      \* id of the data set pushed last
    everExpired   \* was a data set pushed because of the timer?

equipmentVars  == <<epc, currentId, dataOut, pages, given>>
scanVars       == <<someEmpty, allEmpty, allSame, minId, lastId>>
aggregatorVars == <<apc, ai, scanVars, bcv, isIncompletePending, expired, everExpired, lastOut>>
mainVars       == <<mpc, mi, isRunning, bc, held, consumed, discarded>>
environment    == <<ShutdownRequest, exitTimeout, drained>>
vars == <<threadVars, equipmentVars, aggregatorVars, output, mainVars, environment>>

TypeOK ==
    /\ ThreadTypeOK
    /\ epc \in [Equipments -> {"test", "get", "push"}]
    /\ currentId \in [Equipments -> FirstId - 1 .. LastId]
    /\ \A e \in Equipments : dataOut[e] \in Seq({e} \X Id) /\ Len(dataOut[e]) <= FifoSize
    /\ pages \in [Equipments -> SUBSET Block]
    /\ \A e \in Equipments : Cardinality(pages[e]) <= NumPages
    /\ apc \in {"test", "scan", "wait", "create", "take", "push"}
    /\ ai \in 1 .. NumEquipments + 1
    /\ <<someEmpty, allEmpty, allSame, isIncompletePending, expired, everExpired>>
         \in [1 .. 6 -> BOOLEAN]
    /\ lastOut \in FirstId - 1 .. LastId
    /\ minId \in Id \cup {0} /\ lastId \in Id \cup {0}
    /\ bcv \in Seq(Block)
    /\ output \in Seq(Seq(Block)) /\ Len(output) <= OutSize
    /\ mpc \in {"startAgg", "startEq", "loop", "pop", "consume", "stopEq", "joinEq",
                "stopAgg", "joinAgg", "clearInputs", "popOutput", "consumers",
                "close", "done", "killed"}
    /\ mi \in Equipments
    /\ isRunning \in BOOLEAN
    /\ bc \in Seq(Block)
    /\ <<ShutdownRequest, exitTimeout, drained>> \in [1 .. 3 -> BOOLEAN]
    /\ held \in SUBSET Block
    /\ given \in SUBSET Block
    /\ consumed \in SUBSET Block
    /\ discarded \in SUBSET Block

Init ==
    /\ ThreadInit
    /\ epc = [e \in Equipments |-> "test"]
    /\ currentId = [e \in Equipments |-> FirstId - 1]
    /\ dataOut = [e \in Equipments |-> <<>>]
    /\ pages = [e \in Equipments |-> {}]
    /\ apc = "test"
    /\ ai = 1
    /\ someEmpty = FALSE /\ allEmpty = TRUE /\ allSame = TRUE
    /\ minId = 0 /\ lastId = 0
    /\ bcv = <<>>
    /\ isIncompletePending = FALSE
    /\ expired = FALSE
    /\ output = <<>>
    /\ mpc = "startAgg"
    /\ mi = 1
    /\ isRunning = TRUE
    /\ bc = <<>>
    /\ ShutdownRequest = FALSE /\ exitTimeout = FALSE /\ drained = FALSE
    /\ held = {}
    /\ given = {}
    /\ consumed = {}
    /\ discarded = {}
    /\ lastOut = FirstId - 1
    /\ everExpired = FALSE

\* Once main() has returned or exit() was called there is no thread left.
Alive == mpc \notin {"done", "killed"}

\* The last reference to the blocks bs is dropped: their pages are released.
Released(bs) == [e \in Equipments |-> pages[e] \ bs]
-----------------------------------------------------------------------------
\* The equipments: ReadoutEquipment::threadCallback() calls populateFifoOut().

EqReturn(e, r) ==
    /\ Returned(e, r)
    /\ epc' = [epc EXCEPT ![e] = "test"]

\* A limited readout rate answers Idle, never before the first block.
EqRateReached(e) ==
    /\ Alive
    /\ epc[e] = "test"
    /\ currentId[e] >= FirstId
    /\ EqReturn(e, "Idle")
    /\ UNCHANGED <<currentId, dataOut, pages, given, aggregatorVars, output, mainVars,
                   environment>>

\* Mutant of EqTestFull: dataOut->isFull() is not asked.
EqTestNothing(e) ==
    /\ Alive
    /\ tpc[e] = "call"
    /\ epc[e] = "test"
    /\ epc' = [epc EXCEPT ![e] = "get"]
    /\ UNCHANGED <<threadVars, currentId, dataOut, pages, given, aggregatorVars, output, mainVars,
                   environment>>

EqTestFull(e) ==
    /\ Alive
    /\ tpc[e] = "call"
    /\ epc[e] = "test"
    /\ IF Len(dataOut[e]) = FifoSize
       THEN EqReturn(e, "Idle")
       ELSE /\ epc' = [epc EXCEPT ![e] = "get"]
            /\ UNCHANGED threadVars
    /\ UNCHANGED <<currentId, dataOut, pages, given, aggregatorVars, output, mainVars,
                   environment>>

\* A container is made from a page of the pool and given the next id; ids
\* increase but need not be continuous.
EqGetPage(e) ==
    /\ Alive
    /\ epc[e] = "get"
    /\ Cardinality(pages[e]) < NumPages
    /\ \E id \in currentId[e] + 1 .. LastId :
          /\ currentId' = [currentId EXCEPT ![e] = id]
          /\ pages' = [pages EXCEPT ![e] = @ \cup {<<e, id>>}]
          /\ given' = given \cup {<<e, id>>}
    /\ epc' = [epc EXCEPT ![e] = "push"]
    /\ UNCHANGED <<threadVars, dataOut, aggregatorVars, output, mainVars, environment>>

\* No page, on which the container's constructor throws, or the bound on the
\* ids is reached.
EqNoPage(e) ==
    /\ Alive
    /\ epc[e] = "get"
    /\ Cardinality(pages[e]) = NumPages \/ currentId[e] = LastId
    /\ EqReturn(e, "Idle")
    /\ UNCHANGED <<currentId, dataOut, pages, given, aggregatorVars, output, mainVars,
                   environment>>

\* The answer of push() is ignored: a refused block would go out of scope.
EqPush(e) ==
    /\ Alive
    /\ epc[e] = "push"
    /\ LET b == <<e, currentId[e]>>
       IN  IF Len(dataOut[e]) < FifoSize
           THEN /\ dataOut' = [dataOut EXCEPT ![e] = Append(@, b)]
                /\ UNCHANGED pages
           ELSE /\ pages' = Released({b})
                /\ UNCHANGED dataOut
    /\ EqReturn(e, "Ok")
    /\ UNCHANGED <<currentId, given, aggregatorVars, output, mainVars, environment>>
-----------------------------------------------------------------------------
\* The aggregator: DataBlockAggregator::threadCallback().

\* The locals before the first loop, and whenever no callback is running.
FreshLocals ==
    /\ ai' = 1
    /\ someEmpty' = FALSE
    /\ allEmpty' = TRUE
    /\ allSame' = TRUE
    /\ minId' = 0
    /\ lastId' = 0

AggReturn(r) ==
    /\ Returned(Aggregator, r)
    /\ apc' = "test"
    /\ FreshLocals

AggTestFull ==
    /\ Alive
    /\ tpc[Aggregator] = "call"
    /\ apc = "test"
    /\ IF Len(output) = OutSize
       THEN AggReturn("Idle")
       ELSE /\ apc' = "scan"
            /\ FreshLocals
            /\ UNCHANGED threadVars
    /\ UNCHANGED <<bcv, isIncompletePending, expired, everExpired, lastOut, equipmentVars,
                   output, mainVars, environment>>

\* One round of the first loop; 0 stands for an undefined id.
AggScan ==
    /\ Alive
    /\ apc = "scan"
    /\ ai <= NumEquipments
    /\ ai' = ai + 1
    /\ IF dataOut[ai] # <<>>
       THEN LET newId == Head(dataOut[ai])[2]
            IN  /\ allEmpty' = FALSE
                /\ minId' = IF minId = 0 \/ newId < minId THEN newId ELSE minId
                /\ allSame' = (allSame /\ (lastId = 0 \/ newId = lastId))
                /\ lastId' = newId
                /\ UNCHANGED someEmpty
       ELSE /\ someEmpty' = TRUE
            /\ allSame' = FALSE
            /\ UNCHANGED <<allEmpty, minId, lastId>>
    /\ UNCHANGED <<threadVars, apc, bcv, isIncompletePending, expired, everExpired, lastOut,
                   equipmentVars, output, mainVars, environment>>

\* Mutant of AggScanned: the timer is started again in every round.
AggScannedRestarts ==
    /\ Alive
    /\ apc = "scan"
    /\ ai > NumEquipments
    /\ \/ /\ allEmpty
          /\ AggReturn("Idle")
          /\ UNCHANGED <<isIncompletePending, expired>>
       \/ /\ ~allEmpty /\ someEmpty
          /\ apc' = "wait"
          /\ expired' = FALSE
          /\ isIncompletePending' = TRUE
          /\ UNCHANGED <<threadVars, ai, scanVars>>
       \/ /\ ~allEmpty /\ ~someEmpty
          /\ apc' = "create"
          /\ UNCHANGED <<threadVars, ai, scanVars, isIncompletePending, expired>>
    /\ UNCHANGED <<bcv, everExpired, lastOut, equipmentVars, output, mainVars, environment>>

\* Nothing anywhere, a missing input, or a block at every input.
AggScanned ==
    /\ Alive
    /\ apc = "scan"
    /\ ai > NumEquipments
    /\ \/ /\ allEmpty
          /\ AggReturn("Idle")
          /\ UNCHANGED <<isIncompletePending, expired>>
       \/ /\ ~allEmpty /\ someEmpty
          /\ apc' = "wait"
          /\ expired' = (expired /\ isIncompletePending)
          /\ isIncompletePending' = TRUE
          /\ UNCHANGED <<threadVars, ai, scanVars>>
       \/ /\ ~allEmpty /\ ~someEmpty
          /\ apc' = "create"
          /\ UNCHANGED <<threadVars, ai, scanVars, isIncompletePending, expired>>
    /\ UNCHANGED <<bcv, everExpired, lastOut, equipmentVars, output, mainVars, environment>>

\* incompletePendingTimer.isTimeout()
AggWait ==
    /\ Alive
    /\ apc = "wait"
    /\ IF expired
       THEN /\ apc' = "create"
            /\ everExpired' = TRUE
            /\ UNCHANGED <<threadVars, ai, scanVars>>
       ELSE /\ AggReturn("Idle")
            /\ UNCHANGED everExpired
    /\ UNCHANGED <<bcv, isIncompletePending, expired, lastOut, equipmentVars,
                   output, mainVars, environment>>

\* The data set is allocated; if that fails nothing was taken yet.
AggCreate ==
    /\ Alive
    /\ apc = "create"
    /\ isIncompletePending' = (isIncompletePending /\ ~allSame)
    /\ expired' = (expired /\ isIncompletePending')
    /\ \/ /\ apc' = "take"
          /\ ai' = 1
          /\ UNCHANGED <<threadVars, scanVars>>
       \/ AggReturn("Error")
    /\ UNCHANGED <<bcv, everExpired, lastOut, equipmentVars, output, mainVars, environment>>

\* Mutant of AggTake: the id is not compared.
AggTakeAny ==
    /\ Alive
    /\ apc = "take"
    /\ ai <= NumEquipments
    /\ ai' = ai + 1
    /\ IF dataOut[ai] # <<>>
       THEN /\ bcv' = Append(bcv, Head(dataOut[ai]))
            /\ dataOut' = [dataOut EXCEPT ![ai] = Tail(@)]
       ELSE UNCHANGED <<bcv, dataOut>>
    /\ UNCHANGED <<threadVars, apc, scanVars, isIncompletePending, expired, everExpired,
                   lastOut, epc, currentId, pages, given, output, mainVars, environment>>

\* One round of the second loop, which looks at the input again.
AggTake ==
    /\ Alive
    /\ apc = "take"
    /\ ai <= NumEquipments
    /\ ai' = ai + 1
    /\ IF dataOut[ai] # <<>> /\ Head(dataOut[ai])[2] = minId
       THEN /\ bcv' = Append(bcv, Head(dataOut[ai]))
            /\ dataOut' = [dataOut EXCEPT ![ai] = Tail(@)]
       ELSE UNCHANGED <<bcv, dataOut>>
    /\ UNCHANGED <<threadVars, apc, scanVars, isIncompletePending, expired, everExpired,
                   lastOut, epc, currentId, pages, given, output, mainVars, environment>>

\* The answer of push() is ignored here, too.
AggPush ==
    /\ Alive
    /\ apc = "take"
    /\ ai > NumEquipments
    /\ IF Len(output) < OutSize
       THEN /\ output' = Append(output, bcv)
            /\ UNCHANGED pages
       ELSE /\ pages' = Released(ToSet(bcv))
            /\ UNCHANGED output
    /\ bcv' = <<>>
    /\ lastOut' = minId
    /\ AggReturn("Ok")
    /\ UNCHANGED <<isIncompletePending, expired, everExpired, epc, currentId, dataOut, given,
                   mainVars, environment>>

TimerExpires ==
    /\ Alive
    /\ isIncompletePending
    /\ ~expired
    /\ expired' = TRUE
    /\ UNCHANGED <<threadVars, apc, ai, scanVars, bcv, isIncompletePending, everExpired,
                   lastOut, equipmentVars, output, mainVars, environment>>
-----------------------------------------------------------------------------
\* The main thread: main() of mainReadout.cxx.

MainStartAgg ==
    /\ mpc = "startAgg"
    /\ StartThread(Aggregator)
    /\ mpc' = "startEq"
    /\ UNCHANGED <<equipmentVars, aggregatorVars, output, mi, isRunning, bc, held, consumed,
                   discarded, environment>>

\* Move on to the next equipment, or behind the loop over them.
NextEquipment(stay, behind) ==
    IF mi < NumEquipments
    THEN /\ mi' = mi + 1
         /\ mpc' = stay
    ELSE /\ mi' = 1
         /\ mpc' = behind

MainStartEq ==
    /\ mpc = "startEq"
    /\ StartThread(mi)
    /\ NextEquipment("startEq", "loop")
    /\ UNCHANGED <<equipmentVars, aggregatorVars, output, isRunning, bc, held, consumed,
                   discarded, environment>>

\* The head of the loop: begin the shutdown, end it, or hand out data.
MainLoop ==
    /\ mpc = "loop"
    /\ \/ /\ isRunning /\ (exitTimeout \/ ShutdownRequest)
          /\ isRunning' = FALSE
          /\ mpc' = "stopEq"
       \/ /\ isRunning /\ ~(exitTimeout \/ ShutdownRequest)
          /\ mpc' = "pop"
          /\ UNCHANGED isRunning
       \/ /\ ~isRunning
          /\ mpc' = IF drained THEN "stopAgg" ELSE "pop"
          /\ UNCHANGED isRunning
    /\ UNCHANGED <<threadVars, equipmentVars, aggregatorVars, output, mi, bc, held, consumed,
                   discarded, environment>>

\* ReadoutEquipment::stop() of one equipment after the other.
MainStopEq ==
    /\ mpc = "stopEq"
    /\ StopThread(mi)
    /\ mpc' = "joinEq"
    /\ UNCHANGED <<equipmentVars, aggregatorVars, output, mi, isRunning, bc, held, consumed,
                   discarded, environment>>

MainJoinEq ==
    /\ mpc = "joinEq"
    /\ JoinThread(mi)
    /\ NextEquipment("stopEq", "pop")
    /\ UNCHANGED <<equipmentVars, aggregatorVars, output, isRunning, bc, held, consumed,
                   discarded, environment>>

\* Mutant of MainPop: the newest data set is taken.
MainPopNewest ==
    /\ mpc = "pop"
    /\ IF output # <<>>
       THEN /\ bc' = Last(output)
            /\ output' = Front(output)
            /\ mpc' = "consume"
       ELSE /\ mpc' = "loop"
            /\ UNCHANGED <<bc, output>>
    /\ UNCHANGED <<threadVars, equipmentVars, aggregatorVars, mi, isRunning, held, consumed,
                   discarded, environment>>

MainPop ==
    /\ mpc = "pop"
    /\ IF output # <<>>
       THEN /\ bc' = Head(output)
            /\ output' = Tail(output)
            /\ mpc' = "consume"
       ELSE /\ mpc' = "loop"
            /\ UNCHANGED <<bc, output>>
    /\ UNCHANGED <<threadVars, equipmentVars, aggregatorVars, mi, isRunning, held, consumed,
                   discarded, environment>>

\* Mutant of MainConsume: the pages are released although consumers refer to them.
MainConsumeReleases ==
    /\ mpc = "consume"
    /\ \E keep \in SUBSET ToSet(bc) :
          /\ held' = held \cup keep
          /\ pages' = Released(ToSet(bc))
    /\ consumed' = consumed \cup ToSet(bc)
    /\ bc' = <<>>
    /\ mpc' = "loop"
    /\ UNCHANGED <<threadVars, epc, currentId, dataOut, given, aggregatorVars, output, mi,
                   isRunning, discarded, environment>>

\* pushData() of every block to every consumer, which may keep a reference;
\* then the data set goes out of scope.
MainConsume ==
    /\ mpc = "consume"
    /\ \E keep \in SUBSET ToSet(bc) :
          /\ held' = held \cup keep
          /\ pages' = Released(ToSet(bc) \ keep)
    /\ consumed' = consumed \cup ToSet(bc)
    /\ bc' = <<>>
    /\ mpc' = "loop"
    /\ UNCHANGED <<threadVars, epc, currentId, dataOut, given, aggregatorVars, output, mi,
                   isRunning, discarded, environment>>

\* DataBlockAggregator::stop()
MainStopAgg ==
    /\ mpc = "stopAgg"
    /\ StopThread(Aggregator)
    /\ mpc' = "joinAgg"
    /\ UNCHANGED <<equipmentVars, aggregatorVars, output, mi, isRunning, bc, held, consumed,
                   discarded, environment>>

MainJoinAgg ==
    /\ mpc = "joinAgg"
    /\ JoinThread(Aggregator)
    /\ mpc' = "clearInputs"
    /\ UNCHANGED <<equipmentVars, aggregatorVars, output, mi, isRunning, bc, held, consumed,
                   discarded, environment>>

\* The inputs are the equipments' FIFOs.
MainClearInputs ==
    /\ mpc = "clearInputs"
    /\ LET left == UNION {ToSet(dataOut[e]) : e \in Equipments}
       IN  /\ pages' = Released(left)
           /\ discarded' = discarded \cup left
    /\ dataOut' = [e \in Equipments |-> <<>>]
    /\ mpc' = "popOutput"
    /\ UNCHANGED <<threadVars, epc, currentId, given, aggregatorVars, output, mi, isRunning, bc,
                   held, consumed, environment>>

\* The output FIFO is popped until it is empty, and cleared.
MainPopOutput ==
    /\ mpc = "popOutput"
    /\ LET left == UNION {ToSet(output[k]) : k \in 1 .. Len(output)}
       IN  /\ pages' = Released(left)
           /\ discarded' = discarded \cup left
    /\ output' = <<>>
    /\ mpc' = "consumers"
    /\ UNCHANGED <<threadVars, epc, currentId, dataOut, given, aggregatorVars, mi, isRunning, bc,
                   held, consumed, environment>>

\* dataConsumers.clear(), and the FIFOs cleared a second time.
MainStopConsumers ==
    /\ mpc = "consumers"
    /\ pages' = Released(held)
    /\ held' = {}
    /\ output' = <<>>
    /\ dataOut' = [e \in Equipments |-> <<>>]
    /\ mpc' = "close"
    /\ UNCHANGED <<threadVars, epc, currentId, given, aggregatorVars, mi, isRunning, bc,
                   consumed, discarded, environment>>

\* The equipments are deleted, and with them their pools.
MainClose ==
    /\ mpc = "close"
    /\ mpc' = "done"
    /\ UNCHANGED <<threadVars, equipmentVars, aggregatorVars, output, mi, isRunning, bc, held,
                   consumed, discarded, environment>>
-----------------------------------------------------------------------------
\* The environment.

\* SIGTERM, SIGQUIT or SIGINT: the second one exits at once.
Signal ==
    /\ Alive
    /\ IF ShutdownRequest
       THEN /\ mpc' = "killed"
            /\ UNCHANGED ShutdownRequest
       ELSE /\ ShutdownRequest' = TRUE
            /\ UNCHANGED mpc
    /\ UNCHANGED <<threadVars, equipmentVars, aggregatorVars, output, mi, isRunning, bc, held,
                   consumed, discarded, exitTimeout, drained>>

\* The timer t of main(), first for the exit and then for the drain.
MainTimeout ==
    /\ mpc \in {"loop", "pop", "consume"}
    /\ IF isRunning
       THEN exitTimeout' = TRUE /\ UNCHANGED drained
       ELSE drained' = TRUE /\ UNCHANGED exitTimeout
    /\ UNCHANGED <<threadVars, equipmentVars, aggregatorVars, output, mainVars,
                   ShutdownRequest>>

\* A consumer drops a reference it kept.
ConsumerRelease ==
    /\ Alive
    /\ \E b \in held : /\ held' = held \ {b}
                       /\ pages' = Released({b})
    /\ UNCHANGED <<threadVars, epc, currentId, dataOut, given, aggregatorVars, output, mpc, mi,
                   isRunning, bc, consumed, discarded, environment>>

\* threadMain() around the callbacks.
Looping(t) ==
    /\ Alive
    /\ LoopTop(t) \/ CheckShutdown(t)
    /\ UNCHANGED <<equipmentVars, aggregatorVars, output, mainVars, environment>>

EquipmentThread(e) ==
    \/ Looping(e)
    \/ EqRateReached(e)
    \/ EqTestFull(e)
    \/ EqGetPage(e)
    \/ EqNoPage(e)
    \/ EqPush(e)

AggregatorThread ==
    \/ Looping(Aggregator)
    \/ AggTestFull
    \/ AggScan
    \/ AggScanned
    \/ AggWait
    \/ AggCreate
    \/ AggTake
    \/ AggPush

MainThread ==
    \/ MainStartAgg
    \/ MainStartEq
    \/ MainLoop
    \/ MainStopEq
    \/ MainJoinEq
    \/ MainPop
    \/ MainConsume
    \/ MainStopAgg
    \/ MainJoinAgg
    \/ MainClearInputs
    \/ MainPopOutput
    \/ MainStopConsumers
    \/ MainClose

Next ==
    \/ \E e \in Equipments : EquipmentThread(e)
    \/ AggregatorThread
    \/ MainThread
    \/ TimerExpires
    \/ MainTimeout
    \/ Signal
    \/ ConsumerRelease

Spec == Init /\ [][Next]_vars

\* Threads are scheduled, timers run out, memory is not exhausted for ever and
\* consumers do not keep a block for ever.
FairSpec ==
    /\ Spec
    /\ \A e \in Equipments : WF_vars(EquipmentThread(e))
    /\ WF_vars(AggregatorThread)
    /\ SF_vars(AggCreate /\ apc' = "take")
    /\ WF_vars(MainThread)
    /\ WF_vars(TimerExpires)
    /\ WF_vars(~isRunning /\ MainTimeout)
    /\ WF_vars(ConsumerRelease)
-----------------------------------------------------------------------------
\* The blocks in the FIFOs and in the threads' hands.
InPipeline ==
    (UNION {ToSet(dataOut[e]) : e \in Equipments})
      \cup {<<e, currentId[e]>> : e \in {x \in Equipments : epc[x] = "push"}}
      \cup ToSet(bcv)
      \cup (UNION {ToSet(output[k]) : k \in 1 .. Len(output)})
      \cup ToSet(bc)

(* "Backpressure is applied upstream": every block an equipment filled is on *)
(* its way, was consumed, or was thrown away by the shutdown after the last  *)
(* thread was joined; none is dropped by a push() on a full FIFO, whose      *)
(* answer nobody tests, and none is consumed twice.                          *)
NoBlockLost ==
    /\ given = InPipeline \cup consumed \cup discarded
    /\ InPipeline \cap consumed = {}
    /\ discarded # {} => mpc \in {"popOutput", "consumers", "close", "done", "killed"}

(* A page is out of the pool exactly as long as a reference to its block     *)
(* exists: it is not filled again under a consumer and does not get lost,    *)
(* and when the equipments are deleted all their pages are back: the warning *)
(* "mempool still %d references" is not printed.                             *)
PagesFollowBlocks ==
    /\ UNION {pages[e] : e \in Equipments} = InPipeline \cup held
    /\ mpc \in {"close", "done"} => \A e \in Equipments : pages[e] = {}

(* "putting in the same vector data with matching ID": a data set is not     *)
(* empty, has one id, and has at most one block of every equipment, although *)
(* the inputs change between the two loops of the aggregator.                *)
DataSetsMatch ==
    \A ds \in ToSet(output) \cup (IF mpc = "consume" THEN {bc} ELSE {}) :
        /\ ds # <<>>
        /\ \A j, k \in 1 .. Len(ds) : /\ ds[j][2] = ds[k][2]
                                      /\ ds[j][1] = ds[k][1] => j = k

(* As long as no data set timed out, data sets leave in increasing order of  *)
(* their ids, and with all blocks of that id: nothing at or below the id     *)
(* pushed last is still to come.  It fails with FirstId = 0, which the       *)
(* aggregator takes for an undefined id.                                     *)
MatchingBlocksTogether ==
    ~everExpired =>
        \A e \in Equipments : \A b \in ToSet(dataOut[e]) : b[2] > lastOut

(* The consumers see the blocks of an equipment in the order it filled them, *)
(* timeouts or not.                                                          *)
OrderKept ==
    [][\A b \in consumed' \ consumed, c \in consumed : b[1] = c[1] => b[2] > c[2]]_vars

(* clear() needs "external protection": main() clears the FIFOs only when no *)
(* thread that uses them is left.                                            *)
ClearedAlone ==
    mpc \in {"clearInputs", "popOutput", "consumers", "close"}
      => \A t \in ThreadIds : tpc[t] = "none"

(* The blocks of DataBlockAggregator::threadCallback() come out in the data  *)
(* sets they belong to.                                                      *)
DataSetsComplete == DataSetsMatch /\ MatchingBlocksTogether

(* main() takes the pipeline down in an order in which no thread works on    *)
(* what is gone and no page is left behind.                                  *)
TornDownInOrder == TypeOK /\ ClearedAlone /\ PagesFollowBlocks

(* A request to stop ends the process, however full the FIFOs are.           *)
ShutdownCompletes == ShutdownRequest \/ exitTimeout ~> mpc \in {"done", "killed"}

(* No block waits for ever: not for a partner that never comes, not behind   *)
(* a full FIFO.                                                              *)
NoBlockStuck ==
    \A b \in Block : b \in InPipeline ~> b \notin InPipeline \/ mpc = "killed"
=============================================================================
