------------------------------ MODULE MemPool -------------------------------
(***************************************************************************)
(* The pool of memory pages of DataFormat/src/MemPool.cxx, with the        *)
(* containers of DataBlockContainer.cxx that hold its pages.  MemPool.h    *)
(* says of getPage() and of releasePage() "thread-safe ... can be called   *)
(* in parallel"; here the threads of Getters run the one and those of      *)
(* Releasers the other, interleaved at every access to an atomic.          *)
(***************************************************************************)
EXTENDS Integers, FiniteSets

CONSTANTS numberOfPages,
          Getters,     \* threads that create containers, and so call getPage()
          Releasers    \* threads that destroy containers: releasePage()

ASSUME PagesAssumption == numberOfPages \in Nat \ {0}

VARIABLES pageIsUsed,            \* the flag of every page
          lastPageIndexGet,      \* where the last successful search ended
          lastPageIndexRelease,  \* where the last release ended
          owned,                 \* pages held by a container nobody destroys yet
          pc,                    \* where a thread is in the pool's code
          iter,                  \* its loop counter
          ix,                    \* its local newIx or pageIx
          arg,                   \* the page it is releasing
          sawFull,               \* was no page free at some instant of its getPage()?
          disturbed,             \* threads during whose scan another one took a page
                                 \* (getPage()) or stored the index the scan reads
          lost,                  \* pages a disturbed releasePage() did not find
          alive,                 \* FALSE once ~MemPool() has run
          nPagesUsed             \* pages deletePages() found in use

Threads == Getters \cup Releasers
Page == 0 .. numberOfPages - 1
lasts == <<lastPageIndexGet, lastPageIndexRelease>>
life  == <<alive, nPagesUsed>>
history == <<sawFull, disturbed, lost>>
poolVars == <<pageIsUsed, lastPageIndexGet, lastPageIndexRelease, owned, pc, iter, ix, arg,
          sawFull, disturbed, lost, alive, nPagesUsed>>

PoolTypeOK ==
    /\ pageIsUsed \in [Page -> BOOLEAN]
    /\ lastPageIndexGet \in Page \cup {-1}
    /\ lastPageIndexRelease \in Page \cup {-1}
    /\ owned \in SUBSET Page
    /\ pc \in [Threads -> {"idle", "getIndex", "getTest", "getStore",
                           "relIndex", "relClear", "relStore"}]
    /\ iter \in [Threads -> 0 .. numberOfPages]
    /\ ix \in [Threads -> Page]
    /\ arg \in [Threads -> Page]
    /\ sawFull \in [Threads -> BOOLEAN]
    /\ disturbed \in SUBSET Threads
    /\ lost \in SUBSET Page
    /\ alive \in BOOLEAN
    /\ nPagesUsed \in Nat

PoolInit ==
    /\ pageIsUsed = [p \in Page |-> FALSE]
    /\ lastPageIndexGet = -1
    /\ lastPageIndexRelease = -1
    /\ owned = {}
    /\ pc = [t \in Threads |-> "idle"]
    /\ iter = [t \in Threads |-> 0]
    /\ ix = [t \in Threads |-> 0]
    /\ arg = [t \in Threads |-> 0]
    /\ sawFull = [t \in Threads |-> FALSE]
    /\ disturbed = {}
    /\ lost = {}
    /\ alive = TRUE
    /\ nPagesUsed = 0

\* No page is free.
Full(used) == \A p \in Page : used[p]

Goto(t, label) == pc' = [pc EXCEPT ![t] = label]

\* Thread t is looking for a free page.
Scanning(t) == pc[t] \in {"getIndex", "getTest"}

\* The index probed in round n of a scan that starts behind index last.
Probe(last, n) == (last + 1 + n) % numberOfPages
-----------------------------------------------------------------------------
\* A container is constructed from the pool: getPage() is called.
GetBegin(t) ==
    /\ alive
    /\ pc[t] = "idle"
    /\ Goto(t, "getIndex")
    /\ iter' = [iter EXCEPT ![t] = 0]
    /\ sawFull' = [sawFull EXCEPT ![t] = Full(pageIsUsed)]
    /\ disturbed' = disturbed \ {t}
    /\ UNCHANGED <<pageIsUsed, lasts, owned, ix, arg, lost, life>>

\* Mutant of GetIndex: every round probes the same page.
GetIndexOnce(t) ==
    /\ pc[t] = "getIndex"
    /\ iter[t] < numberOfPages
    /\ ix' = [ix EXCEPT ![t] = Probe(lastPageIndexGet, 0)]
    /\ Goto(t, "getTest")
    /\ UNCHANGED <<pageIsUsed, lasts, owned, iter, arg, history, life>>

\* Every round reads lastPageIndexGet again.
GetIndex(t) ==
    /\ pc[t] = "getIndex"
    /\ iter[t] < numberOfPages
    /\ ix' = [ix EXCEPT ![t] = Probe(lastPageIndexGet, iter[t])]
    /\ Goto(t, "getTest")
    /\ UNCHANGED <<pageIsUsed, lasts, owned, iter, arg, history, life>>

\* Mutant of GetTest: the flag is tested and not set.
GetTestOnly(t) ==
    /\ pc[t] = "getTest"
    /\ IF pageIsUsed[ix[t]]
       THEN /\ iter' = [iter EXCEPT ![t] = @ + 1]
            /\ Goto(t, "getIndex")
            /\ UNCHANGED <<pageIsUsed, sawFull>>
       ELSE /\ Goto(t, "getStore")
            /\ UNCHANGED <<iter, pageIsUsed, sawFull>>
    /\ UNCHANGED <<lasts, owned, ix, arg, disturbed, lost, life>>

\* test_and_set() on the flag of the page probed.
GetTest(t) ==
    /\ pc[t] = "getTest"
    /\ IF pageIsUsed[ix[t]]
       THEN /\ iter' = [iter EXCEPT ![t] = @ + 1]
            /\ Goto(t, "getIndex")
            /\ UNCHANGED <<pageIsUsed, sawFull, disturbed>>
       ELSE /\ pageIsUsed' = [pageIsUsed EXCEPT ![ix[t]] = TRUE]
            /\ sawFull' = [u \in Threads |-> sawFull[u] \/ (Scanning(u) /\ Full(pageIsUsed'))]
            /\ disturbed' = disturbed \cup {u \in Threads \ {t} : Scanning(u)}
            /\ Goto(t, "getStore")
            /\ UNCHANGED iter
    /\ UNCHANGED <<lasts, owned, ix, arg, lost, life>>

\* The page is returned to the container.
GetStore(t) ==
    /\ pc[t] = "getStore"
    /\ lastPageIndexGet' = ix[t]
    /\ owned' = owned \cup {ix[t]}
    /\ disturbed' = (disturbed \ {t}) \cup {u \in Threads \ {t} : Scanning(u)}
    /\ sawFull' = [sawFull EXCEPT ![t] = FALSE]
    /\ Goto(t, "idle")
    /\ UNCHANGED <<pageIsUsed, lastPageIndexRelease, iter, ix, arg, lost, life>>

\* The loop ends without a page: NULL, on which the container's constructor
\* throws.
GetNull(t) ==
    /\ pc[t] = "getIndex"
    /\ iter[t] = numberOfPages
    /\ disturbed' = disturbed \ {t}
    /\ sawFull' = [sawFull EXCEPT ![t] = FALSE]
    /\ Goto(t, "idle")
    /\ UNCHANGED <<pageIsUsed, lasts, owned, iter, ix, arg, lost, life>>
-----------------------------------------------------------------------------
\* The last reference to the container of page p goes away in thread t: its
\* destructor calls releasePage().
RelBegin(t, p) ==
    /\ pc[t] = "idle"
    /\ p \in owned
    /\ owned' = owned \ {p}
    /\ arg' = [arg EXCEPT ![t] = p]
    /\ iter' = [iter EXCEPT ![t] = 0]
    /\ disturbed' = disturbed \ {t}
    /\ Goto(t, "relIndex")
    /\ UNCHANGED <<pageIsUsed, lasts, ix, sawFull, lost, life>>

\* Every round reads lastPageIndexRelease again and compares the page there; a
\* loop that ends without finding the page returns silently.
RelIndex(t) ==
    /\ pc[t] = "relIndex"
    /\ LET pageIx == Probe(lastPageIndexRelease, iter[t])
           found  == arg[t] = pageIx
       IN  IF iter[t] < numberOfPages
           THEN /\ ix' = [ix EXCEPT ![t] = pageIx]
                /\ iter' = [iter EXCEPT ![t] = IF found THEN @ ELSE @ + 1]
                /\ pc' = [pc EXCEPT ![t] = IF found THEN "relClear" ELSE @]
                /\ UNCHANGED lost
           ELSE /\ lost' = IF t \in disturbed THEN lost \cup {arg[t]} ELSE lost
                /\ Goto(t, "idle")
                /\ UNCHANGED <<iter, ix>>
    /\ UNCHANGED <<pageIsUsed, lasts, owned, arg, sawFull, disturbed, life>>

\* Mutant of RelClear: the flag is not cleared.
RelForget(t) ==
    /\ pc[t] = "relClear"
    /\ Goto(t, "relStore")
    /\ UNCHANGED <<pageIsUsed, lasts, owned, iter, ix, arg, history, life>>

RelClear(t) ==
    /\ pc[t] = "relClear"
    /\ pageIsUsed' = [pageIsUsed EXCEPT ![ix[t]] = FALSE]
    /\ Goto(t, "relStore")
    /\ UNCHANGED <<lasts, owned, iter, ix, arg, history, life>>

RelStore(t) ==
    /\ pc[t] = "relStore"
    /\ lastPageIndexRelease' = ix[t]
    /\ disturbed' = (disturbed \ {t}) \cup {u \in Threads \ {t} : pc[u] = "relIndex"}
    /\ Goto(t, "idle")
    /\ UNCHANGED <<pageIsUsed, lastPageIndexGet, owned, iter, ix, arg, sawFull, lost, life>>
-----------------------------------------------------------------------------
\* The pool is shared by its containers, so ~MemPool() runs when the last one
\* is gone; deletePages() then counts the flags still set.
Destroy ==
    /\ alive
    /\ owned = {}
    /\ \A t \in Threads : pc[t] = "idle"
    /\ alive' = FALSE
    /\ nPagesUsed' = Cardinality({p \in Page : pageIsUsed[p]})
    /\ pageIsUsed' = [p \in Page |-> FALSE]
    /\ UNCHANGED <<lasts, owned, pc, iter, ix, arg, history>>

GetPage(t) == GetBegin(t) \/ GetIndex(t) \/ GetTest(t) \/ GetStore(t) \/ GetNull(t)

ReleasePage(t) ==
    \/ \E p \in Page : RelBegin(t, p)
    \/ RelIndex(t)
    \/ RelClear(t)
    \/ RelStore(t)

PoolNext ==
    \/ \E t \in Getters : GetPage(t)
    \/ \E t \in Releasers : ReleasePage(t)
    \/ Destroy

PoolSpec == PoolInit /\ [][PoolNext]_poolVars

-----------------------------------------------------------------------------
\* The page thread t has taken from the pool and not yet put in a container,
\* or taken from a container and not yet given back.
PagesInHand(t) ==
    {p \in Page : \/ pc[t] = "getStore" /\ p = ix[t]
                  \/ pc[t] \in {"relIndex", "relClear"} /\ p = arg[t]}

(* However getPage() and releasePage() interleave, a page is in one place:   *)
(* one container, or the hands of one thread, and its flag is set as long as *)
(* it is.  Two equipments never fill, and no consumer ever reads, a page     *)
(* that somebody else was given.                                             *)
ExclusivePages ==
    /\ \A p \in owned : pageIsUsed[p]
    /\ \A t \in Threads : /\ PagesInHand(t) \cap owned = {}
                          /\ \A p \in PagesInHand(t) : pageIsUsed[p]
                          /\ \A u \in Threads \ {t} : PagesInHand(t) \cap PagesInHand(u) = {}

(* A flag is set only while somebody holds the page, but for the pages lost  *)
(* in a releasePage() during which another thread ended its own: every round *)
(* of the loop reads lastPageIndexRelease again, so the scan of the one jumps *)
(* when the other stores it, and may miss its page and return silently.      *)
(* Whatever else threads do in parallel, a page is given back, and the       *)
(* warning of deletePages(), "still %d pages in use", counts such pages only. *)
NoPageLeaked ==
    /\ \A p \in Page : pageIsUsed[p] => \/ p \in owned \cup lost
                                        \/ \E t \in Threads : p \in PagesInHand(t)
    /\ nPagesUsed <= Cardinality(lost)

(* getPage() answers NULL only if, at some instant of the call, no page was  *)
(* free, or another getPage() took a page or moved lastPageIndexGet in the   *)
(* middle of its scan: an equipment that goes idle for lack of memory really *)
(* lacked it, although it looks at the flags one after the other and pages   *)
(* are given back behind it.                                                 *)
NullMeansFull ==
    \A t \in Getters : pc[t] = "getIndex" /\ iter[t] = numberOfPages =>
        sawFull[t] \/ t \in disturbed

(* What MemPool.h:17 says of releasePage(), "thread-safe ... can be called   *)
(* in parallel": a page that was given back, by whichever thread and         *)
(* whatever the others do, is free for the next getPage().                   *)
ReleasedInParallel ==
    \A p \in Page : pageIsUsed[p] => p \in owned \/ \E t \in Threads : p \in PagesInHand(t)

=============================================================================
