---------------------------- MODULE BoundedQueue ----------------------------
(***************************************************************************)
(* What Common/Fifo.h promises to its two users: a queue of at most Size   *)
(* elements on which every operation takes effect in one step.             *)
(* The lock-free implementation is module Fifo, which instantiates this    *)
(* module through a refinement mapping.                                    *)
(***************************************************************************)
EXTENDS Integers, Sequences

CONSTANTS Size,      \* number of elements the queue can hold
          Items,     \* what may be pushed
          Null       \* the value T(0) that marks an unset element

VARIABLES queue,     \* the elements, oldest first
          putRet,    \* what the last push() answered: 0 or -1
          takeRet,   \* what the last pop() or front() answered: 0 or -1
          got        \* the element the reader obtained last

vars == <<queue, putRet, takeRet, got>>

TypeOK ==
    /\ queue \in Seq(Items)
    /\ Len(queue) <= Size
    /\ putRet \in {0, -1}
    /\ takeRet \in {0, -1}
    /\ got \in Items \cup {Null}

Init ==
    /\ queue = <<>>
    /\ putRet = 0
    /\ takeRet = 0
    /\ got = Null
-----------------------------------------------------------------------------
\* push() on a queue with room.
Put(x) ==
    /\ Len(queue) < Size
    /\ queue' = Append(queue, x)
    /\ putRet' = 0
    /\ UNCHANGED <<takeRet, got>>

\* push() is refused only at an instant at which the queue is full.
PutFull ==
    /\ Len(queue) = Size
    /\ putRet' = -1
    /\ UNCHANGED <<queue, takeRet, got>>

\* pop() takes the oldest element.
Take ==
    /\ queue # <<>>
    /\ got' = Head(queue)
    /\ queue' = Tail(queue)
    /\ takeRet' = 0
    /\ UNCHANGED putRet

\* front() shows the oldest element and leaves it in place.
Peek ==
    /\ queue # <<>>
    /\ got' = Head(queue)
    /\ takeRet' = 0
    /\ UNCHANGED <<queue, putRet>>

\* pop() and front() fail only at an instant at which the queue is empty.
TakeEmpty ==
    /\ queue = <<>>
    /\ takeRet' = -1
    /\ UNCHANGED <<queue, putRet, got>>

Clear ==
    /\ queue' = <<>>
    /\ UNCHANGED <<putRet, takeRet, got>>

Next ==
    \/ \E x \in Items : Put(x)
    \/ PutFull
    \/ Take
    \/ Peek
    \/ TakeEmpty
    \/ Clear

Spec == Init /\ [][Next]_vars
=============================================================================
