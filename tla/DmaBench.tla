------------------------------ MODULE DmaBench ------------------------------
(***************************************************************************)
(* The client loop of RORC/src/CommandLineUtilities/ProgramDmaBench.cxx.   *)
(* Its push thread gives free superpages to the channel and passes filled  *)
(* ones on, the readout thread (main) reads them and frees them, and a low *)
(* priority thread watches for SIGINT.  The threads share two queues of    *)
(* one writer and one reader each, two counters and the flag               *)
(* mDmaLoopBreak.                                                          *)
(***************************************************************************)
EXTENDS DmaChannel

CONSTANTS PagesPerSuperpage,
          MaxPages,     \* mMaxPages, if the number of pages is limited
          None          \* no superpage

ASSUME BenchAssumption ==
    PagesPerSuperpage \in Nat \ {0} /\ MaxPages \in Nat /\ None \notin Superpages

VARIABLES
    main,           \* where the main thread is
    hand,           \* the superpage it reads out
    push,           \* where the push thread is
    counted,        \* currentSuperpagePagesCounted
    low,            \* where the low priority thread is
    limited,        \* ~mInfinitePages
    freeQueue, readoutQueue,
    mDmaLoopBreak,
    mPushCount, mReadoutCount,   \* not counted without a limit, when only the display reads them
    sigInt

benchThreads == <<main, hand, push, counted, low>>
benchShared  == <<limited, freeQueue, readoutQueue, mDmaLoopBreak, mPushCount, mReadoutCount, sigInt>>
benchVars == <<benchThreads, benchShared>>

MaxSuperpages == Cardinality(Superpages)
Count(counter, n) == IF limited THEN counter + n ELSE counter

BenchInit ==
    /\ main = "off" /\ push = "off" /\ low = "off"
    /\ hand = None
    /\ counted = 0
    /\ limited = TRUE
    /\ freeQueue = <<>> /\ readoutQueue = <<>>
    /\ mDmaLoopBreak = FALSE /\ sigInt = FALSE
    /\ mPushCount = 0 /\ mReadoutCount = 0

\* run() and the beginning of dmaLoop(): DMA is started, all superpages are free, and the
\* threads run.
BenchStart ==
    /\ main = "off"
    /\ ChannelStart
    /\ freeQueue' = SetToSeq(Superpages)
    /\ limited' \in BOOLEAN
    /\ main' = "loop" /\ push' = "loop" /\ low' = "loop"
    /\ UNCHANGED <<hand, counted, readoutQueue, mDmaLoopBreak, mPushCount, mReadoutCount, sigInt>>

-----------------------------------------------------------------------------
\* The push thread.

\* Mutant of PushTop: the push thread stops one superpage too early.
PushTopEarly ==
    /\ push = "loop"
    /\ push' = IF mDmaLoopBreak \/ (limited /\ mPushCount + PagesPerSuperpage >= MaxPages)
               THEN "end" ELSE "fill"
    /\ UNCHANGED <<channelVars, main, hand, counted, low, benchShared>>

PushTop ==
    /\ push = "loop"
    /\ push' = IF mDmaLoopBreak \/ (limited /\ mPushCount >= MaxPages /\ counted = 0)
               THEN "end" ELSE "fill"
    /\ UNCHANGED <<channelVars, main, hand, counted, low, benchShared>>

\* fillSuperpages()
PushFill ==
    /\ push = "fill"
    /\ \/ /\ \E s \in Superpages : ChannelArrive(s)
          /\ UNCHANGED push
       \/ /\ push' = "give"
          /\ UNCHANGED channelVars
    /\ UNCHANGED <<main, hand, counted, low, benchShared>>

\* ... or an exception, after which the others are told to stop.
PushThrow ==
    /\ push = "fill"
    /\ mDmaLoopBreak' = TRUE
    /\ push' = "thrown"
    /\ UNCHANGED <<channelVars, main, hand, counted, low, limited, freeQueue, readoutQueue,
                   mPushCount, mReadoutCount, sigInt>>

\* Free superpages go to the driver.
PushGive ==
    /\ push = "give"
    /\ IF TransferAvailable /\ freeQueue # <<>>
       THEN /\ ChannelPush(Head(freeQueue))
            /\ freeQueue' = Tail(freeQueue)
            /\ UNCHANGED push
       ELSE /\ push' = "check"
            /\ UNCHANGED <<channelVars, freeQueue>>
    /\ UNCHANGED <<main, hand, counted, low, limited, readoutQueue, mDmaLoopBreak, mPushCount,
                   mReadoutCount, sigInt>>

\* Mutant of PushCheck: the superpage that was passed on is not popped.
PushCheckKeeps ==
    /\ push = "check"
    /\ IF ready # <<>> /\ Len(readoutQueue) < MaxSuperpages
       THEN /\ readoutQueue' = Append(readoutQueue, Head(ready))
            /\ mPushCount' = Count(mPushCount, PagesPerSuperpage - counted)
            /\ counted' = 0
       ELSE UNCHANGED <<counted, mPushCount, readoutQueue>>
    /\ push' = "loop"
    /\ UNCHANGED <<channelVars, main, hand, low, limited, freeQueue, mDmaLoopBreak, mReadoutCount,
                   sigInt>>

\* The pages of the first superpage that is ready are counted, once; it is written to the
\* readout queue, if there is room, ...
PushCheck ==
    /\ push = "check"
    /\ IF ready = <<>>
       THEN /\ push' = "loop"
            /\ UNCHANGED <<counted, mPushCount, readoutQueue>>
       ELSE /\ mPushCount' = Count(mPushCount, PagesPerSuperpage - counted)
            /\ IF Len(readoutQueue) < MaxSuperpages
               THEN /\ readoutQueue' = Append(readoutQueue, Head(ready))
                    /\ counted' = 0
                    /\ push' = "pop"
               ELSE /\ counted' = PagesPerSuperpage
                    /\ push' = "loop"
                    /\ UNCHANGED readoutQueue
    /\ UNCHANGED <<channelVars, main, hand, low, limited, freeQueue, mDmaLoopBreak, mReadoutCount,
                   sigInt>>

\* ... and taken from the channel, by when the readout thread may already have it.
PushPop ==
    /\ push = "pop"
    /\ ChannelPop
    /\ push' = "check"
    /\ UNCHANGED <<main, hand, counted, low, benchShared>>

-----------------------------------------------------------------------------
\* The readout thread.

ReadoutTop ==
    /\ main = "loop"
    /\ \/ /\ mDmaLoopBreak
          /\ main' = "join"
          /\ UNCHANGED <<mDmaLoopBreak, hand, readoutQueue>>
       \/ /\ ~mDmaLoopBreak /\ limited /\ mReadoutCount >= MaxPages
          /\ mDmaLoopBreak' = TRUE
          /\ main' = "join"
          /\ UNCHANGED <<hand, readoutQueue>>
       \/ /\ ~mDmaLoopBreak /\ ~(limited /\ mReadoutCount >= MaxPages)
          /\ readoutQueue # <<>>
          /\ hand' = Head(readoutQueue)
          /\ readoutQueue' = Tail(readoutQueue)
          /\ main' = "read"
          /\ UNCHANGED mDmaLoopBreak
    /\ UNCHANGED <<channelVars, push, counted, low, limited, freeQueue, mPushCount, mReadoutCount,
                   sigInt>>

\* Every page is read out, then the superpage is free; without room in the queue
\* "Something went horribly wrong".
ReadoutPages ==
    /\ main = "read"
    /\ mReadoutCount' = Count(mReadoutCount, PagesPerSuperpage)
    /\ hand' = None
    /\ IF Len(freeQueue) < MaxSuperpages
       THEN freeQueue' = Append(freeQueue, hand) /\ main' = "loop"
       ELSE UNCHANGED freeQueue /\ main' = "wrong"
    /\ UNCHANGED <<channelVars, push, counted, low, limited, readoutQueue, mDmaLoopBreak, mPushCount,
                   sigInt>>

\* readoutPage() throws (a file, or a card type without error checking).  Nothing tells
\* the other threads, and the destructors of the futures wait for them.
ReadoutThrow ==
    /\ main = "read"
    /\ main' = "unwind"
    /\ hand' = None
    /\ UNCHANGED <<channelVars, push, counted, low, benchShared>>

-----------------------------------------------------------------------------
\* The low priority thread.
LowPriority ==
    /\ low = "loop"
    /\ \/ /\ mDmaLoopBreak
          /\ low' = "end"
          /\ UNCHANGED mDmaLoopBreak
       \/ /\ ~mDmaLoopBreak /\ sigInt
          /\ mDmaLoopBreak' = TRUE
          /\ UNCHANGED low
    /\ UNCHANGED <<channelVars, main, hand, push, counted, limited, freeQueue, readoutQueue,
                   mPushCount, mReadoutCount, sigInt>>

\* The display fails, as when the temperature cannot be read.
LowThrow ==
    /\ low = "loop" /\ ~mDmaLoopBreak /\ ~sigInt
    /\ mDmaLoopBreak' = TRUE
    /\ low' = "thrown"
    /\ UNCHANGED <<channelVars, main, hand, push, counted, limited, freeQueue, readoutQueue,
                   mPushCount, mReadoutCount, sigInt>>

SigInt ==
    /\ main # "off" /\ ~sigInt
    /\ sigInt' = TRUE
    /\ UNCHANGED <<channelVars, benchThreads, limited, freeQueue, readoutQueue, mDmaLoopBreak,
                   mPushCount, mReadoutCount>>

-----------------------------------------------------------------------------
Ended == {"end", "thrown"}

\* get() of both futures: an exception of a thread goes on in main.
Join ==
    /\ main = "join" /\ push \in Ended /\ low \in Ended
    /\ main' = IF "thrown" \in {push, low} THEN "unwind" ELSE "excess"
    /\ UNCHANGED <<channelVars, hand, push, counted, low, benchShared>>

\* freeExcessPages() pops for 10 ms what is ready.
FreeExcessPages ==
    /\ main = "excess"
    /\ ChannelPop
    /\ UNCHANGED benchVars

\* The process ends and with it all of its state.
BenchGone ==
    /\ main' = "off" /\ push' = "off" /\ low' = "off"
    /\ hand' = None
    /\ counted' = 0
    /\ limited' = TRUE
    /\ freeQueue' = <<>> /\ readoutQueue' = <<>>
    /\ mDmaLoopBreak' = FALSE /\ sigInt' = FALSE
    /\ mPushCount' = 0 /\ mReadoutCount' = 0

\* stopDma(), or the end by an exception.
BenchEnd ==
    /\ \/ main = "excess" /\ ChannelStop
       \/ main = "unwind" /\ push \in Ended /\ low \in Ended /\ UNCHANGED channelVars
    /\ BenchGone

PushThread == PushTop \/ PushFill \/ PushGive \/ PushCheck \/ PushPop
MainThread == ReadoutTop \/ ReadoutPages \/ Join

\* The steps of a bench between its start and its end.
BenchNext ==
    \/ PushThread \/ PushThrow
    \/ MainThread \/ ReadoutThrow \/ FreeExcessPages
    \/ LowPriority \/ LowThrow \/ SigInt

-----------------------------------------------------------------------------
InBench(s) == s \in ToSet(freeQueue) \cup ToSet(readoutQueue) \cup {hand}
InChannel(s) == s \in transfer \cup ToSet(IF push = "pop" THEN Tail(ready) ELSE ready)

(* While the loop runs every superpage is in one place: free, with the       *)
(* channel, waiting for the readout or being read out; so the card never     *)
(* overwrites what is being read, and "Something went horribly wrong" is     *)
(* never thrown.  The one exception is the front of the ready queue while    *)
(* the push thread has passed it on but not popped it.                       *)
SuperpagesApart ==
    /\ main # "wrong"
    /\ main \in {"loop", "read", "join"} =>
        /\ \A s \in Superpages : InBench(s) # InChannel(s)
        /\ IsInjective(freeQueue \o readoutQueue \o (IF hand = None THEN <<>> ELSE <<hand>>))

(* With a limit the bench reads out the pages asked for, and less than one   *)
(* superpage more, although the push thread has its own counter.             *)
LimitKept ==
    limited =>
        /\ mReadoutCount < MaxPages + PagesPerSuperpage
        /\ main = "excess" => mReadoutCount >= MaxPages \/ sigInt

(* The loop of the bench does what it is told, with every superpage apart.   *)
BenchConsistent == SuperpagesApart /\ LimitKept

(* A bench that started ends, with a limit or after SIGINT: the push thread  *)
(* never stops before the readout thread has what it waits for.  An          *)
(* exception in the readout thread is the exception: see ReadoutThrow.       *)
BenchEnds == (main = "loop" /\ (limited \/ sigInt)) ~> main \in {"off", "unwind"}
=============================================================================
