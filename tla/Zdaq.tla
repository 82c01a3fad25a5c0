-------------------------------- MODULE Zdaq --------------------------------
(***************************************************************************)
(* The data flow of Control/Zdaq (zdaq.cxx): a producer module that writes *)
(* references to one event into a FIFO, a consumer module that reads and   *)
(* drops them, and the commands that the control thread of each module     *)
(* executes.  A module has a thread that calls do_loop() between START and *)
(* STOP; a consumer flushes the FIFO before its thread ends.               *)
(*                                                                         *)
(* The first read or write of a do_loop() waits 10 ms at the longest and   *)
(* does not look at the FIFO again when the time is over: it may fail      *)
(* although it need not any more.  The others do not wait.                 *)
(***************************************************************************)
EXTENDS Naturals, FiniteSetsExt

CONSTANTS Size,        \* slots of the FIFO
          MaxItems,    \* items of one do_loop(): 100
          MaxRuns,     \* bound on the STARTs of a module
          MaxLeaked,   \* references that are lost are counted up to here
          MaxFailed    \* bound on commands that fail

ASSUME ZdaqAssumption ==
    /\ \A n \in {Size, MaxItems, MaxLeaked} : n \in Nat \ {0}
    /\ \A n \in {MaxRuns, MaxFailed} : n \in Nat

VARIABLES
    status,      \* [module -> mt_status, or "DEAD"]
    control,     \* [module -> "idle", or "stop" while its STOP waits]
    thread,      \* [module -> where its thread is, "none" if it has none]
    th_do_stop,  \* [module -> the flag]
    i,           \* [module -> the loop counter of do_loop(), at most MaxItems]
    fifo,        \* number of items in the FIFO
    nRef,        \* references to the event
    freed,       \* the event is deleted
    leaked,      \* references that nobody will give back
    runs,        \* [module -> STARTs so far]
    quiet,       \* no producer ran since the last STOP of the consumer began
    failures,    \* failures left
    destructor,  \* how far the destructor of the producer is
    outlived     \* do_loop() of the producer ran on after the destructor gave its reference back

zdaqVars == <<status, control, thread, th_do_stop, i, fifo, nRef, freed, leaked, runs, quiet, failures,
              destructor, outlived>>

Modules == {"producer", "consumer"}

ZdaqInit ==
    /\ status = [m \in Modules |-> "NOT_READY"]
    /\ control = [m \in Modules |-> "idle"]
    /\ thread = [m \in Modules |-> "none"]
    /\ th_do_stop = [m \in Modules |-> FALSE]
    /\ i = [m \in Modules |-> 0]
    /\ fifo = 0
    /\ nRef = 1 /\ freed = FALSE /\ leaked = 0
    /\ runs = [m \in Modules |-> 0]
    /\ quiet = FALSE
    /\ failures = MaxFailed
    /\ destructor = "no" /\ outlived = FALSE

eventVars == <<nRef, freed, leaked>>
commandVars == <<status, control, runs, quiet, failures>>
deleteVars == <<destructor, outlived>>

-----------------------------------------------------------------------------
\* executeCommand(): the commands other than STOP, with the status they need and lead to.
\* Any other command changes nothing.
ZdaqTransitions ==
    {<<"INIT", "NOT_READY", "READY">>, <<"START", "READY", "RUNNING">>,
     <<"RELEASE", "READY", "NOT_READY">>, <<"RELEASE", "STOPPED", "NOT_READY">>,
     <<"RESET", "ERROR", "NOT_READY">>}

\* START also creates the thread; the flag th_do_stop stays as it is.
ExecuteZdaqCommand(m, t) ==
    /\ control[m] = "idle" /\ status[m] = t[2]
    /\ status' = [status EXCEPT ![m] = t[3]]
    /\ IF t[1] = "START"
       THEN /\ runs[m] < MaxRuns
            /\ thread' = [thread EXCEPT ![m] = "created"]
            /\ runs' = [runs EXCEPT ![m] = @ + 1]
            /\ quiet' = (quiet /\ m = "consumer")
       ELSE UNCHANGED <<thread, runs, quiet>>
    /\ UNCHANGED <<control, th_do_stop, i, fifo, eventVars, failures, deleteVars>>

\* exec_INIT() or pthread_create() fails.
CommandFails(m) ==
    /\ control[m] = "idle" /\ status[m] \in {"NOT_READY", "READY"}
    /\ failures > 0
    /\ failures' = failures - 1
    /\ status' = [status EXCEPT ![m] = "ERROR"]
    /\ UNCHANGED <<control, thread, runs, quiet, th_do_stop, i, fifo, eventVars, deleteVars>>

\* STOP sets the flag, ...
StopBegin(m) ==
    /\ control[m] = "idle" /\ status[m] = "RUNNING"
    /\ control' = [control EXCEPT ![m] = "stop"]
    /\ th_do_stop' = [th_do_stop EXCEPT ![m] = TRUE]
    /\ quiet' = IF m = "consumer" THEN thread["producer"] = "none" ELSE quiet
    /\ UNCHANGED <<status, thread, runs, i, fifo, eventVars, failures, deleteVars>>

\* ... waits while th_status is 1 and joins the thread, which a destructor may have done
\* before.  A thread that was cancelled leaves th_status as it was.
StopEnd(m) ==
    /\ control[m] = "stop" /\ thread[m] \in {"ended", "none"}
    /\ control' = [control EXCEPT ![m] = "idle"]
    /\ thread' = [thread EXCEPT ![m] = "none"]
    /\ status' = [status EXCEPT ![m] = "STOPPED"]
    /\ UNCHANGED <<th_do_stop, runs, quiet, i, fifo, eventVars, failures, deleteVars>>

\* Mutant of Dereference: dereference() as it was, with the limit "<=1".
DereferenceAtOne ==
    /\ nRef' = nRef - 1
    /\ freed' = (freed \/ nRef' <= 1)
    /\ UNCHANGED leaked

\* dereference(), which deletes the event with its last reference.
Dereference ==
    /\ nRef' = nRef - 1
    /\ freed' = (freed \/ nRef' < 1)
    /\ UNCHANGED leaked

\* The count of the references that nobody gives back stays at MaxLeaked once it is there.
LoseReference ==
    IF leaked < MaxLeaked
    THEN leaked' = leaked + 1 /\ UNCHANGED nRef
    ELSE nRef' = nRef - 1 /\ UNCHANGED leaked

\* The producer is deleted, whatever its thread and its control thread do:
\* ~daqModule_producer_dummy() gives its own reference back, ...
DestroyProducer ==
    /\ destructor = "no"
    /\ destructor' = "dereferenced"
    /\ Dereference
    /\ outlived' = (thread["producer"] \in {"item", "write", "wait"})
    /\ UNCHANGED <<commandVars, thread, th_do_stop, i, fifo>>

\* ... then ~daqModule() stops the thread if th_status says that there is one, which a
\* thread just created has not set, ...
DestroyStop ==
    /\ destructor = "dereferenced"
    /\ IF thread["producer"] \in {"none", "created", "ended"}
       THEN destructor' = "stopped" /\ UNCHANGED th_do_stop
       ELSE /\ destructor' = "waits"
            /\ th_do_stop' = [th_do_stop EXCEPT !["producer"] = TRUE]
    /\ UNCHANGED <<commandVars, thread, i, fifo, eventVars, outlived>>

\* ... joins it, or cancels it after one second wherever it is; ...
DestroyJoin ==
    /\ destructor = "waits"
    /\ destructor' = "stopped"
    /\ thread' = [thread EXCEPT !["producer"] = IF @ \in {"none", "ended"} THEN "none" ELSE "cancelled"]
    /\ IF thread["producer"] \in {"write", "wait"} THEN LoseReference ELSE UNCHANGED <<nRef, leaked>>
    /\ UNCHANGED <<commandVars, th_do_stop, i, fifo, freed, outlived>>

\* ... and the commands end with zookeeper_close(), which waits for the one under way.  A
\* thread that is left runs on in what was the module.
DestroyEnd ==
    /\ destructor = "stopped" /\ control["producer"] = "idle"
    /\ destructor' = "done"
    /\ status' = [status EXCEPT !["producer"] = "DEAD"]
    /\ UNCHANGED <<control, runs, quiet, failures, thread, th_do_stop, i, fifo, eventVars, outlived>>

-----------------------------------------------------------------------------
Goto(m, from, to) ==
    /\ thread[m] = from
    /\ thread' = [thread EXCEPT ![m] = to]

\* The thread starts: th_status is 1.
ThreadStart(m) ==
    /\ Goto(m, "created", "loop")
    /\ UNCHANGED <<commandVars, th_do_stop, i, fifo, eventVars, deleteVars>>

\* In ~daqModule() the producer has no do_loop() of its own any more.
Bare(m) == m = "producer" /\ destructor \in {"waits", "stopped", "done"}

\* Mutant of ThreadLoop: th_stop_immediate stays 1 in a consumer.
ThreadLoopWithoutFlush(m) ==
    /\ Goto(m, "loop", IF th_do_stop[m] THEN "ended" ELSE IF Bare(m) THEN "loop" ELSE "item")
    /\ outlived' = (outlived \/ (m = "producer" /\ thread'[m] = "item" /\ destructor # "no"))
    /\ i' = [i EXCEPT ![m] = 0]
    /\ UNCHANGED <<commandVars, th_do_stop, fifo, eventVars, destructor>>

\* thread_loop(): the flag is read between two calls of do_loop(); a consumer, which has
\* th_stop_immediate = 0, then calls do_loop(0) to flush.
ThreadLoop(m) ==
    LET next == IF ~th_do_stop[m] THEN IF Bare(m) THEN "loop" ELSE "item"
                ELSE IF m = "consumer" THEN "flush" ELSE "ended"
    IN  /\ Goto(m, "loop", next)
        /\ outlived' = (outlived \/ (m = "producer" /\ next = "item" /\ destructor # "no"))
        /\ i' = [i EXCEPT ![m] = 0]
        /\ UNCHANGED <<commandVars, th_do_stop, fifo, eventVars, destructor>>

\* do_loop() of the producer: a reference is taken, ...
ProduceReference ==
    /\ IF i["producer"] < MaxItems
       THEN Goto("producer", "item", "write") /\ nRef' = nRef + 1
       ELSE Goto("producer", "item", "loop") /\ UNCHANGED nRef
    /\ UNCHANGED <<commandVars, th_do_stop, i, fifo, freed, leaked, deleteVars>>

\* ... and written to the FIFO; ...
ProduceWrite ==
    /\ fifo < Size
    /\ Goto("producer", "write", "item")
    /\ fifo' = fifo + 1
    /\ i' = [i EXCEPT !["producer"] = @ + 1]
    /\ UNCHANGED <<commandVars, th_do_stop, eventVars, deleteVars>>

\* ... a write that finds no room and is the first of its do_loop() waits until there is
\* room ...
ProduceWait ==
    /\ \/ fifo = Size /\ i["producer"] = 0 /\ Goto("producer", "write", "wait")
       \/ fifo < Size /\ Goto("producer", "wait", "write")
    /\ UNCHANGED <<commandVars, th_do_stop, i, fifo, eventVars, deleteVars>>

\* ... or the time is over.  A write that failed ends do_loop(), and the reference is not
\* given back.
ProduceFail ==
    /\ \/ fifo = Size /\ i["producer"] > 0 /\ Goto("producer", "write", "loop")
       \/ Goto("producer", "wait", "loop")
    /\ LoseReference
    /\ UNCHANGED <<commandVars, th_do_stop, i, fifo, freed, deleteVars>>

\* do_loop() of the consumer, which ends after MaxItems items unless it flushes: an item
\* is read, ...
ConsumeRead ==
    /\ fifo > 0
    /\ \/ i["consumer"] < MaxItems /\ Goto("consumer", "item", "drop")
       \/ Goto("consumer", "flush", "flushed")
    /\ fifo' = fifo - 1
    /\ UNCHANGED <<commandVars, th_do_stop, i, eventVars, deleteVars>>

\* ... and dropped; ...
ConsumeDrop ==
    /\ \/ Goto("consumer", "drop", "item")
       \/ Goto("consumer", "flushed", "flush")
    /\ Dereference
    /\ i' = [i EXCEPT !["consumer"] = Min({@ + 1, MaxItems})]
    /\ UNCHANGED <<commandVars, th_do_stop, fifo, deleteVars>>

\* ... the first read waits if there is none, ...
ConsumeWait ==
    /\ \/ /\ fifo = 0 /\ i["consumer"] = 0
          /\ Goto("consumer", "item", "wait") \/ Goto("consumer", "flush", "waitflush")
       \/ /\ fifo > 0
          /\ Goto("consumer", "wait", "item") \/ Goto("consumer", "waitflush", "flush")
    /\ UNCHANGED <<commandVars, th_do_stop, i, fifo, eventVars, deleteVars>>

\* Mutant of ConsumeEnd: the read of a flush waits without a limit.
ConsumeEndUnlessFlushing ==
    /\ \/ Goto("consumer", "wait", "loop")
       \/ fifo = 0 /\ i["consumer"] > 0 /\ Goto("consumer", "flush", "ended")
       \/ /\ (fifo = 0 /\ i["consumer"] > 0) \/ i["consumer"] = MaxItems
          /\ Goto("consumer", "item", "loop")
    /\ UNCHANGED <<commandVars, th_do_stop, i, fifo, eventVars, deleteVars>>

\* ... and do_loop() ends when the time is over, when another read finds no item or at the
\* limit.  After the flush so does the thread.
ConsumeEnd ==
    /\ \/ Goto("consumer", "wait", "loop")
       \/ Goto("consumer", "waitflush", "ended")
       \/ fifo = 0 /\ i["consumer"] > 0 /\ Goto("consumer", "flush", "ended")
       \/ /\ (fifo = 0 /\ i["consumer"] > 0) \/ i["consumer"] = MaxItems
          /\ Goto("consumer", "item", "loop")
    /\ UNCHANGED <<commandVars, th_do_stop, i, fifo, eventVars, deleteVars>>

Control ==
    \/ \E m \in Modules, t \in ZdaqTransitions : ExecuteZdaqCommand(m, t)
    \/ \E m \in Modules : CommandFails(m) \/ StopBegin(m) \/ StopEnd(m)
    \/ DestroyProducer \/ DestroyStop \/ DestroyJoin \/ DestroyEnd

ProducerThread ==
    \/ ThreadStart("producer") \/ ThreadLoop("producer")
    \/ ProduceReference \/ ProduceWrite \/ ProduceWait \/ ProduceFail
ConsumerThread ==
    \/ ThreadStart("consumer") \/ ThreadLoop("consumer")
    \/ ConsumeRead \/ ConsumeDrop \/ ConsumeWait \/ ConsumeEnd

ZdaqNext == Control \/ ProducerThread \/ ConsumerThread

ZdaqSpec == ZdaqInit /\ [][ZdaqNext]_zdaqVars

\* The threads run, and so does a control thread in STOP; commands may never come.
ZdaqFairSpec ==
    /\ ZdaqSpec
    /\ WF_zdaqVars(ProducerThread) /\ WF_zdaqVars(ConsumerThread)
    /\ \A m \in Modules : WF_zdaqVars(StopEnd(m))

-----------------------------------------------------------------------------
(* The event is deleted once nobody can reach it any more: the producer has *)
(* given its reference back and is not in do_loop(), no item in the FIFO    *)
(* refers to it and the consumer has dropped its last one                   *)
(* (daqEvent::dereference(), whose limit "was <=1").  The one way to break  *)
(* it is the destructor of the producer, which gives the reference back     *)
(* before the base class stops the thread: do_loop() then goes on with an   *)
(* event that may be deleted.                                               *)
EventAlive ==
    freed => \/ outlived
             \/ /\ destructor # "no"
                /\ thread["producer"] \notin {"item", "write", "wait"}
                /\ fifo = 0
                /\ thread["consumer"] \notin {"drop", "flushed"}

(* A consumer that was stopped after the producer has left nothing in the  *)
(* FIFO ("flush pending work first", zdaq.h).  This is about its first run *)
(* only: START does not reset th_do_stop, so that the thread of a second   *)
(* run flushes at once and ends.                                           *)
FlushedAtStop ==
    status["consumer"] = "STOPPED" /\ quiet /\ runs["consumer"] = 1 => fifo = 0

(* STOP of a producer ends unless its destructor cancels the thread        *)
(* meanwhile, and STOP of a consumer does if no producer goes on filling   *)
(* the FIFO (executeCommand() waits without a limit: "todo: add timeout"). *)
StopCompletes ==
    /\ control["producer"] = "stop" ~> control["producer"] = "idle" \/ thread["producer"] = "cancelled"
    /\ control["consumer"] = "stop" /\ quiet ~> control["consumer"] = "idle" \/ ~quiet
=============================================================================
