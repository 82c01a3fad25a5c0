------------------------------- MODULE Thread -------------------------------
(***************************************************************************)
(* The controllable looping threads of Common/src/Thread.cxx: an owner     *)
(* calls start(), stop() and join() while threadMain() calls the callback  *)
(* again and again.  A step reads or writes the shared flag shutdown once. *)
(* What the callback does is the business of the modules that extend this  *)
(* one; here it returns any result.                                        *)
(***************************************************************************)
EXTENDS Integers

CONSTANTS ThreadIds,          \* the Thread objects
          maxIterOnShutdown   \* callbacks allowed once shutdown is seen

ASSUME IterAssumption == maxIterOnShutdown \in Nat

VARIABLES tpc,                \* where threadMain() is; "none": theThread is NULL
          shutdown,           \* the flag set to request termination
          nIterOnShutdown,    \* threadMain()'s local of that name
          lateCalls           \* callbacks that returned since shutdown was set

threadVars == <<tpc, shutdown, nIterOnShutdown, lateCalls>>

ThreadTypeOK ==
    /\ tpc \in [ThreadIds -> {"none", "top", "call", "check", "exited"}]
    /\ shutdown \in [ThreadIds -> BOOLEAN]
    /\ nIterOnShutdown \in [ThreadIds -> 0 .. maxIterOnShutdown]
    /\ lateCalls \in [ThreadIds -> Nat]

ThreadInit ==
    /\ tpc = [t \in ThreadIds |-> "none"]
    /\ shutdown = [t \in ThreadIds |-> FALSE]
    /\ nIterOnShutdown = [t \in ThreadIds |-> 0]
    /\ lateCalls = [t \in ThreadIds |-> 0]
-----------------------------------------------------------------------------
\* The owner's calls.

\* start() on a thread that already runs does nothing.
StartThread(t) ==
    /\ tpc[t] = "none"
    /\ tpc' = [tpc EXCEPT ![t] = "top"]
    /\ shutdown' = [shutdown EXCEPT ![t] = FALSE]
    /\ nIterOnShutdown' = [nIterOnShutdown EXCEPT ![t] = 0]
    /\ lateCalls' = [lateCalls EXCEPT ![t] = 0]

\* Mutant of StopThread: stop() sets no flag.
StopForgotten(t) ==
    UNCHANGED <<tpc, shutdown, nIterOnShutdown, lateCalls>>

\* stop(), and the first half of join(): without a thread it does nothing.
StopThread(t) ==
    /\ shutdown' = [shutdown EXCEPT ![t] = @ \/ tpc[t] # "none"]
    /\ UNCHANGED <<tpc, nIterOnShutdown, lateCalls>>

\* join() returns once threadMain() has, and forgets the thread.
JoinThread(t) ==
    /\ tpc[t] \in {"exited", "none"}
    /\ tpc' = [tpc EXCEPT ![t] = "none"]
    /\ UNCHANGED <<shutdown, nIterOnShutdown, lateCalls>>
-----------------------------------------------------------------------------
\* threadMain().

\* The top of the loop: with shutdown set, a bounded number of rounds is left.
LoopTop(t) ==
    /\ tpc[t] = "top"
    /\ LET leave == shutdown[t] /\ nIterOnShutdown[t] >= maxIterOnShutdown
       IN  /\ tpc' = [tpc EXCEPT ![t] = IF leave THEN "exited" ELSE "call"]
           /\ nIterOnShutdown' = [nIterOnShutdown EXCEPT ![t] =
                                    IF shutdown[t] /\ ~leave THEN @ + 1 ELSE @]
    /\ UNCHANGED <<shutdown, lateCalls>>

\* The callback returned r: Ok goes round again at once, Idle and Error look
\* at shutdown first, anything else leaves.
Returned(t, r) ==
    /\ tpc[t] = "call"
    /\ tpc' = [tpc EXCEPT ![t] = IF r = "Ok" THEN "top"
                                 ELSE IF r \in {"Idle", "Error"} THEN "check"
                                 ELSE "exited"]
    /\ lateCalls' = [lateCalls EXCEPT ![t] = IF shutdown[t] THEN @ + 1 ELSE @]
    /\ UNCHANGED <<shutdown, nIterOnShutdown>>

CheckShutdown(t) ==
    /\ tpc[t] = "check"
    /\ tpc' = [tpc EXCEPT ![t] = IF shutdown[t] THEN "exited" ELSE "top"]
    /\ UNCHANGED <<shutdown, nIterOnShutdown, lateCalls>>

Owner(t) == StartThread(t) \/ StopThread(t) \/ JoinThread(t)

ThreadMain(t) ==
    \/ LoopTop(t)
    \/ \E r \in {"Ok", "Idle", "Done", "Error"} : Returned(t, r)
    \/ CheckShutdown(t)

ThreadNext == \E t \in ThreadIds : Owner(t) \/ ThreadMain(t)

ThreadSpec == ThreadInit /\ [][ThreadNext]_threadVars

-----------------------------------------------------------------------------
(* stop() is not immediate, but it is bounded: however long the callback     *)
(* keeps answering Ok, it returns at most maxIterOnShutdown + 1 times once    *)
(* shutdown was set.  The one more was already running, or about to, when     *)
(* threadMain() last read the flag.                                           *)
BoundedDrain ==
    \A t \in ThreadIds : lateCalls[t] <= maxIterOnShutdown + 1
=============================================================================
