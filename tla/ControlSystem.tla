--------------------------- MODULE ControlSystem ---------------------------
(***************************************************************************)
(* The control of an O2 process (src/Control/StateMachine): objects with a *)
(* state machine (BaseControl.cxx), driven by the thread of a              *)
(* RuntimeControlEngine, that publish their state in a directory           *)
(* (StateMachine.cxx on ZooKeeper), take commands from it, and clients that*)
(* send commands and watch states.                                         *)
(*                                                                         *)
(* The directory has per object an ephemeral node with the state and one   *)
(* ephemeral sequence node per command.  A watch fires once and is set     *)
(* again by the handler.  Each process has one thread for its watch        *)
(* handlers.                                                               *)
(***************************************************************************)
EXTENDS Naturals, Sequences, SequencesExt, FiniteSets

CONSTANTS Objects,      \* the objects, in the order of their registration
          Commands,     \* the commands that clients send
          MaxClients,   \* bound on the clients: each sends a command or watches an object
          MaxLosses,    \* bound on the calls of the engine's process that fail (lost connection)
          MaxUnread,    \* bound on those of the clients
          MaxExpired,   \* 1 if the session of the engine may expire
          MaxErrors     \* bound on errors of the user's code

ASSUME ControlAssumption ==
    /\ Objects \in Seq(STRING)
    /\ \A n \in {MaxClients, MaxLosses, MaxUnread, MaxExpired, MaxErrors} : n \in Nat
    /\ Commands \subseteq {"prepare", "start", "stop", "pause", "resume", "reset"}

VARIABLES
    node,      \* [object -> what its state node holds: a state, "empty", or "absent"]
    cmds,      \* [object -> the command nodes: the numbers of commands]
    armed,     \* [object -> is the watch on its command nodes set?]
    events,    \* events for the handler thread of the engine's process
    handler,   \* that thread: the commands it has listed
    alive,     \* the process of the engine has not crashed
    expired,   \* its session is gone (zh=0)
    obj,       \* [object -> steps of its construction, state, FIFO pendingCommands]
    purge,     \* the command nodes that SubscribeNewChild() still has to delete
    engine,    \* the engine thread
    mutex,     \* who holds mMutex: "free", "engine" or the object being registered
    client,    \* [object -> its ControlClient: cached state, watch and events]
    place,     \* [object -> [thread of the client -> where it is in z_watcher_node()]]
    val,       \* [object -> [thread of the client -> what it has read of the node]]
    wrong,     \* [object -> what may have made the cached state wrong]
    sent,      \* the commands sent: name, object and what became of each
    budget     \* failures left

Objs == Range(Objects)
dirVars == <<node, cmds, armed, events>>
readVars == <<place, val, wrong>>
vars == <<node, cmds, armed, events, handler, alive, expired, obj, purge, engine, mutex, client,
          place, val, wrong, sent, budget>>

\* z_watcher_node() runs in the thread that constructs the client and in the one of its watch
\* handlers.
Threads == {"main", "watcher"}

Idle == [at |-> "idle", o |-> "none", list |-> {}, cmd |-> 0]

Init ==
    /\ node = [o \in Objs |-> "absent"]
    /\ cmds = [o \in Objs |-> {}]
    /\ armed = [o \in Objs |-> FALSE]
    /\ events = << >>
    /\ handler = Idle
    /\ alive = TRUE /\ expired = FALSE
    /\ obj = [o \in Objs |-> [at |-> "none", state |-> "undefined", pending |-> << >>]]
    /\ purge = {}
    /\ engine = [at |-> "lock", i |-> 1, new |-> "none"]
    /\ mutex = "free"
    /\ client = [o \in Objs |-> [cache |-> "empty", watch |-> FALSE, events |-> << >>]]
    /\ place = [o \in Objs |-> [t \in Threads |-> "idle"]]
    /\ val = [o \in Objs |-> [t \in Threads |-> "empty"]]
    /\ wrong = [o \in Objs |-> {}]
    /\ sent = << >>
    /\ budget = [losses |-> MaxLosses, unread |-> MaxUnread, errors |-> MaxErrors,
                 sessions |-> MaxExpired]

(***************************************************************************)
(* The directory.                                                          *)
(***************************************************************************)
\* A client c that watches a node has event e of it, and its watch is gone.
Notified(c, e) ==
    [cache |-> c.cache, watch |-> FALSE,
     events |-> IF c.watch THEN Append(c.events, e) ELSE c.events]

\* A change of the state node of o to v, and the event for a client that watches.
Changed(o, v) ==
    /\ node' = [node EXCEPT ![o] = v]
    /\ client' = [client EXCEPT ![o] =
                    Notified(@, IF node[o] = "absent" THEN "created" ELSE "changed")]

\* The command nodes of o change.
Commanded(o, s) ==
    /\ cmds' = [cmds EXCEPT ![o] = s]
    /\ armed' = [armed EXCEPT ![o] = @ /\ s = cmds[o]]
    /\ events' = IF armed[o] /\ s # cmds[o] THEN Append(events, o) ELSE events

\* Lose(b): a call fails because the connection was lost.
Lose(b) ==
    /\ b.losses > 0
    /\ budget' = [b EXCEPT !.losses = @ - 1]

\* Unread: a call of a client fails.
Unread ==
    /\ budget.unread > 0
    /\ budget' = [budget EXCEPT !.unread = @ - 1]

\* The state node of o is created; if that fails only a line is printed.
CreateNode(o) ==
    \/ /\ ~expired
       /\ Changed(o, "empty")
       /\ UNCHANGED budget
    \/ /\ expired
       /\ UNCHANGED <<node, client, budget>>
    \/ /\ ~expired
       /\ Lose(budget)
       /\ UNCHANGED <<node, client>>

\* updateState(), in the state ob of the objects and with budget b: without a session or
\* a node nothing is published; a call may fail.  The object changes its state in all
\* cases.
Publish(o, s, ob, b) ==
    /\ obj' = [ob EXCEPT ![o].state = s]
    /\ \/ /\ ~expired /\ node[o] # "absent"
          /\ Changed(o, s)
          /\ budget' = b
       \/ /\ expired \/ node[o] = "absent"
          /\ UNCHANGED <<node, client>>
          /\ budget' = b
       \/ /\ ~expired
          /\ Lose(b)
          /\ UNCHANGED <<node, client>>

\* z_watcher(): the session expires, as it does when the process has died; it is closed,
\* and its nodes and watches are gone.
Expire ==
    /\ ~expired /\ (alive => handler.at = "idle") /\ budget.sessions > 0
    /\ budget' = [budget EXCEPT !.sessions = @ - 1]
    /\ expired' = TRUE
    /\ node' = [o \in Objs |-> "absent"]
    /\ client' = [o \in Objs |-> IF node[o] # "absent" THEN Notified(client[o], "deleted")
                                 ELSE client[o]]
    /\ armed' = [o \in Objs |-> FALSE]
    /\ events' = << >>
    /\ UNCHANGED <<cmds, handler, alive, obj, purge, engine, mutex, sent, readVars>>

(***************************************************************************)
(* registerObject() in the main thread, with the mutex: the constructors   *)
(* ControlObject() and ControlStateMachine().                              *)
(***************************************************************************)
RegisterBegin(o) ==
    /\ alive /\ obj[o].at = "none" /\ mutex = "free"
    /\ \A i \in 1..Len(Objects) : Objects[i] = o => \A j \in 1..i-1 : obj[Objects[j]].at = "done"
    /\ mutex' = o
    /\ obj' = [obj EXCEPT ![o].at = "node"]
    /\ CreateNode(o)
    /\ UNCHANGED <<cmds, armed, events, handler, alive, expired, purge, engine, sent, readVars>>

\* SubscribeNewChild() lists the commands it finds, with a watch, unless that fails, ...
RegisterSubscribe(o) ==
    /\ alive /\ obj[o].at = "node"
    /\ \/ /\ ~expired
          /\ armed' = [armed EXCEPT ![o] = TRUE]
          /\ purge' = cmds[o]
          /\ UNCHANGED budget
       \/ /\ expired
          /\ UNCHANGED <<armed, purge, budget>>
       \/ /\ ~expired /\ Lose(budget)
          /\ UNCHANGED <<armed, purge>>
    /\ obj' = [obj EXCEPT ![o].at = IF purge' = {} THEN "subscribed" ELSE "purging"]
    /\ UNCHANGED <<node, cmds, events, handler, alive, expired, engine, mutex, client,
                   readVars, sent>>

\* ... and deletes them one by one, in any order, whatever the handler does with them and
\* whether a deletion fails or not.
RegisterPurge(o) ==
    /\ alive /\ obj[o].at = "purging"
    /\ \E n \in purge :
         /\ purge' = purge \ {n}
         /\ \/ /\ ~expired
               /\ Commanded(o, cmds[o] \ {n})
               /\ sent' = [sent EXCEPT ![n].fate =
                            IF @ = "sent" /\ n \in cmds[o] THEN "purged" ELSE @]
               /\ UNCHANGED budget
            \/ /\ expired
               /\ UNCHANGED <<cmds, armed, events, sent, budget>>
            \/ /\ ~expired /\ Lose(budget)
               /\ UNCHANGED <<cmds, armed, events, sent>>
    /\ obj' = [obj EXCEPT ![o].at = IF purge' = {} THEN "subscribed" ELSE "purging"]
    /\ UNCHANGED <<node, handler, alive, expired, engine, mutex, client, readVars>>

\* updateState(standby) comes before pendingCommands is made.
RegisterPublish(o) ==
    /\ alive /\ obj[o].at = "subscribed"
    /\ Publish(o, "standby", [obj EXCEPT ![o].at = "published"], budget)
    /\ UNCHANGED <<cmds, armed, events, handler, alive, expired, purge, engine, mutex,
                   sent, readVars>>

RegisterEnd(o) ==
    /\ alive /\ obj[o].at = "published"
    /\ obj' = [obj EXCEPT ![o].at = "done"]
    /\ mutex' = "free"
    /\ UNCHANGED <<dirVars, handler, alive, expired, purge, engine, client, readVars, sent, budget>>

Register(o) ==
    \/ RegisterBegin(o) \/ RegisterSubscribe(o) \/ RegisterPurge(o) \/ RegisterPublish(o)
    \/ RegisterEnd(o)

(***************************************************************************)
(* The handler thread of the engine's process: z_watcher_subNode().        *)
(***************************************************************************)
\* Mutant of HandlerList: the watch is not set again.
HandlerListOnce ==
    /\ alive /\ ~expired /\ handler.at = "idle" /\ events # << >>
    /\ events' = Tail(events)
    /\ handler' = [Idle EXCEPT !.at = "get", !.o = Head(events), !.list = cmds[Head(events)]]
    /\ UNCHANGED <<armed, node, cmds, alive, expired, obj, purge, engine, mutex, client,
                   readVars, sent, budget>>

\* The children are listed in any order, and the watch is set again.  If the call
\* fails the watch is not.
HandlerList ==
    /\ alive /\ ~expired /\ handler.at = "idle" /\ events # << >>
    /\ events' = Tail(events)
    /\ LET o == Head(events)
       IN  \/ /\ armed' = [armed EXCEPT ![o] = TRUE]
              /\ handler' = [Idle EXCEPT !.at = "get", !.o = o, !.list = cmds[o]]
              /\ UNCHANGED budget
           \/ /\ Lose(budget)
              /\ UNCHANGED <<armed, handler>>
    /\ UNCHANGED <<node, cmds, alive, expired, obj, purge, engine, mutex, client, readVars, sent>>

HandlerEnd ==
    /\ alive /\ handler.at = "get" /\ handler.list = {}
    /\ handler' = Idle
    /\ UNCHANGED <<dirVars, alive, expired, obj, purge, engine, mutex, client, readVars,
                   sent, budget>>

\* One of the commands listed is read, ...
HandlerRead(n) ==
    /\ alive /\ handler.at = "get" /\ n \in handler.list
    /\ LET Then(at) == handler' = [handler EXCEPT !.at = at, !.list = @ \ {n}, !.cmd = n]
       IN  \/ n \in cmds[handler.o] /\ Then("execute") /\ UNCHANGED budget
           \/ n \notin cmds[handler.o] /\ Then("delete") /\ UNCHANGED budget
           \/ n \in cmds[handler.o] /\ Then("delete") /\ Lose(budget)
    /\ UNCHANGED <<dirVars, alive, expired, obj, purge, engine, mutex, client, readVars, sent>>

\* A command is given to its object and becomes f.
Called(s, f) == [cmd |-> s.cmd, o |-> s.o, fate |-> f, calls |-> s.calls + 1, times |-> s.times]

\* ... and given to executeCommand() of the class the object has by now, also if it was
\* purged or its client went meanwhile: the base class only prints; the state machine
\* pushes it into its FIFO, which is not there before RegisterEnd().
HandlerExecute ==
    LET o == handler.o
        Becomes(f) == sent' = [sent EXCEPT ![handler.cmd] = Called(@, f)]
    IN  /\ alive /\ handler.at = "execute"
        /\ handler' = [handler EXCEPT !.at = "delete"]
        /\ \/ /\ obj[o].at \in {"node", "purging"}
              /\ Becomes("ignored")
              /\ UNCHANGED <<obj, alive>>
           \/ /\ obj[o].at \in {"subscribed", "published"}
              /\ \/ Becomes("ignored") /\ UNCHANGED alive
                 \/ alive' = FALSE /\ UNCHANGED sent
              /\ UNCHANGED obj
           \/ /\ obj[o].at = "done"
              /\ IF obj[o].pending = << >>
                 THEN obj' = [obj EXCEPT ![o].pending = <<handler.cmd>>] /\ Becomes("pending")
                 ELSE Becomes("busy") /\ UNCHANGED obj
              /\ UNCHANGED alive
        /\ UNCHANGED <<dirVars, expired, purge, engine, mutex, client, readVars, budget>>

\* Mutant of HandlerDelete: the command node stays.
HandlerKeeps ==
    /\ alive /\ handler.at = "delete"
    /\ handler' = [handler EXCEPT !.at = "get", !.cmd = 0]
    /\ UNCHANGED <<dirVars, alive, expired, obj, purge, engine, mutex, client, readVars,
                   sent, budget>>

HandlerDelete ==
    /\ alive /\ handler.at = "delete"
    /\ handler' = [handler EXCEPT !.at = "get", !.cmd = 0]
    /\ LET o == handler.o
       IN  \/ Commanded(o, cmds[o] \ {handler.cmd}) /\ UNCHANGED budget
           \/ /\ Lose(budget)
              /\ UNCHANGED <<cmds, armed, events>>
    /\ UNCHANGED <<node, alive, expired, obj, purge, engine, mutex, client, readVars, sent>>

Handler ==
    \/ HandlerList \/ HandlerEnd \/ HandlerExecute \/ HandlerDelete
    \/ \E n \in 1..MaxClients : HandlerRead(n)

(***************************************************************************)
(* The engine thread: RuntimeControlEngine::Impl::startThread().           *)
(***************************************************************************)
Cur == Objects[engine.i]
Registered == Cardinality({o \in Objs : obj[o].at = "done"})

EngineLock ==
    /\ alive /\ engine.at = "lock" /\ mutex = "free"
    /\ mutex' = "engine"
    /\ engine' = [engine EXCEPT !.at = "front", !.i = 1]
    /\ UNCHANGED <<dirVars, handler, alive, expired, obj, purge, client, readVars, sent, budget>>

EngineUnlock ==
    /\ alive /\ engine.at = "front" /\ engine.i > Registered
    /\ mutex' = "free"
    /\ engine' = [engine EXCEPT !.at = "lock", !.i = 1]
    /\ UNCHANGED <<dirVars, handler, alive, expired, obj, purge, client, readVars, sent, budget>>

\* processStateTransition(): <<state, command, new state>>.
Transitions ==
    {<<"standby", "prepare", "ready">>, <<"ready", "start", "running">>,
     <<"ready", "reset", "standby">>, <<"running", "stop", "ready">>,
     <<"running", "pause", "paused">>, <<"paused", "resume", "running">>,
     <<"paused", "stop", "ready">>, <<"error", "reset", "standby">>}

\* The front of the FIFO is executed and stays there meanwhile.  The user's code may
\* fail; an invalid command changes nothing.
EngineExecute ==
    /\ alive /\ engine.at = "front" /\ engine.i <= Registered
    /\ LET Valid(t, n) == t[1] = obj[Cur].state /\ t[2] = sent[n].cmd
       IN  IF obj[Cur].pending = << >>
           THEN engine' = [engine EXCEPT !.at = "iterate"] /\ UNCHANGED <<sent, budget>>
           ELSE LET n == Head(obj[Cur].pending)
                IN  \/ \E t \in Transitions :
                         /\ Valid(t, n)
                         /\ engine' = [engine EXCEPT !.at = "publish", !.new = t[3]]
                         /\ sent' = [sent EXCEPT ![n].times = @ + 1]
                         /\ UNCHANGED budget
                    \/ /\ budget.errors > 0 /\ \E t \in Transitions : Valid(t, n)
                       /\ engine' = [engine EXCEPT !.at = "publish", !.new = "error"]
                       /\ sent' = [sent EXCEPT ![n].times = @ + 1]
                       /\ budget' = [budget EXCEPT !.errors = @ - 1]
                    \/ /\ \A t \in Transitions : ~Valid(t, n)
                       /\ engine' = [engine EXCEPT !.at = "pop"]
                       /\ sent' = [sent EXCEPT ![n].fate = "invalid"]
                       /\ UNCHANGED budget
    /\ UNCHANGED <<dirVars, handler, alive, expired, obj, purge, mutex, client, readVars>>

EnginePublish ==
    /\ alive /\ engine.at = "publish"
    /\ Publish(Cur, engine.new, obj, budget)
    /\ engine' = [engine EXCEPT !.at = "pop", !.new = "none"]
    /\ sent' = [sent EXCEPT ![Head(obj[Cur].pending)].fate = "done"]
    /\ UNCHANGED <<cmds, armed, events, handler, alive, expired, purge, mutex, readVars>>

EnginePop ==
    /\ alive /\ engine.at = "pop"
    /\ obj' = [obj EXCEPT ![Cur].pending = Tail(@)]
    /\ engine' = [engine EXCEPT !.at = "iterate"]
    /\ UNCHANGED <<dirVars, handler, alive, expired, purge, mutex, client, readVars, sent, budget>>

\* Mutant of EngineIterate: the state is changed without updateState().
EngineIterateSilent ==
    /\ alive /\ engine.at = "iterate"
    /\ engine' = [engine EXCEPT !.at = "front", !.i = @ + 1]
    /\ budget.errors > 0 => obj' \in {obj, [obj EXCEPT ![Cur].state = "error"]}
    /\ budget.errors = 0 => UNCHANGED obj
    /\ budget' = IF obj' = obj THEN budget ELSE [budget EXCEPT !.errors = @ - 1]
    /\ UNCHANGED <<node, client, readVars, cmds, armed, events, handler, alive, expired,
                   purge, mutex, sent>>

\* iterateRunning() and iterateCheck(): each may find an error, the first one only in
\* the state running; then the next object.
EngineIterate ==
    /\ alive /\ engine.at = "iterate"
    /\ engine' = [engine EXCEPT !.at = "front", !.i = @ + 1]
    /\ \/ UNCHANGED <<node, client, obj, budget>>
       \/ /\ budget.errors > 0
          /\ Publish(Cur, "error", obj, [budget EXCEPT !.errors = @ - 1])
    /\ UNCHANGED <<cmds, armed, events, handler, alive, expired, purge, mutex, sent, readVars>>

Engine == EngineLock \/ EngineUnlock \/ EngineExecute \/ EnginePublish \/ EnginePop \/ EngineIterate

(***************************************************************************)
(* Clients.                                                                *)
(***************************************************************************)
\* The clients so far.
Clients == Len(sent) + Cardinality({o \in Objs : place[o]["main"] # "idle"})

\* sendCommand(): an ephemeral sequence node, which the end of the client removes.
SendCommand(o, c) ==
    /\ Clients < MaxClients
    /\ obj[o].at # "none"
    /\ sent' = Append(sent, [cmd |-> c, o |-> o, fate |-> "sent", calls |-> 0, times |-> 0])
    /\ Commanded(o, cmds[o] \cup {Len(sent) + 1})
    /\ UNCHANGED <<node, handler, alive, expired, obj, purge, engine, mutex, client,
                   readVars, budget>>

ClientGone(n) ==
    /\ n \in DOMAIN sent /\ sent[n].fate = "sent" /\ n \in cmds[sent[n].o]
    /\ sent' = [sent EXCEPT ![n].fate = "gone"]
    /\ Commanded(sent[n].o, cmds[sent[n].o] \ {n})
    /\ UNCHANGED <<node, handler, alive, expired, obj, purge, engine, mutex, client,
                   readVars, budget>>

\* Thread t of the client of o goes from one place to another.
ClientGoes(o, t, from, to) ==
    /\ place[o][t] = from
    /\ place' = [place EXCEPT ![o][t] = to]
    /\ UNCHANGED <<dirVars, handler, alive, expired, obj, purge, engine, mutex, sent>>

\* The place of a thread after z_watcher_node().
ClientEnd(t) == IF t = "main" THEN "done" ELSE "idle"

\* The thread of the watch handlers has stored a state, at the latest: what went wrong before
\* does not matter, but a state that main has read by now is late.
Replaced(o) == wrong' = [wrong EXCEPT ![o] = IF place[o]["main"] = "store" THEN {"late"} ELSE {}]

\* ControlClient(): SubscribeNode() calls z_watcher_node() without an event.
ClientSubscribe(o) ==
    /\ Clients < MaxClients
    /\ ClientGoes(o, "main", "idle", "first")
    /\ UNCHANGED <<client, val, wrong, budget>>

\* The next event of the client c is handled, and its state is empty.
Emptied(c) == [cache |-> "empty", watch |-> c.watch, events |-> Tail(c.events)]

\* z_watcher_node() for an event: only a change makes it read the node; the others report
\* an empty state at once.
ClientHandle(o) ==
    /\ client[o].events # << >>
    /\ \/ /\ Head(client[o].events) = "changed"
          /\ ClientGoes(o, "watcher", "idle", "get")
          /\ client' = [client EXCEPT ![o].events = Tail(@)]
          /\ UNCHANGED wrong
       \/ /\ Head(client[o].events) # "changed"
          /\ ClientGoes(o, "watcher", "idle", "exists")
          /\ client' = [client EXCEPT ![o] = Emptied(@)]
          /\ Replaced(o)
    /\ UNCHANGED <<val, budget>>

\* Mutant of ClientGet: zoo_get() instead of zoo_wget().
ClientGetOnce(o, t) ==
    /\ node[o] # "absent"
    /\ ClientGoes(o, t, "get", "store")
    /\ val' = [val EXCEPT ![o][t] = node[o]]
    /\ UNCHANGED <<client, wrong, budget>>

\* The node is read and watched, unless the call fails or the node has gone.
ClientGet(o, t) ==
    \/ /\ node[o] # "absent"
       /\ ClientGoes(o, t, "get", "store")
       /\ val' = [val EXCEPT ![o][t] = node[o]]
       /\ client' = [client EXCEPT ![o].watch = TRUE]
       /\ UNCHANGED <<wrong, budget>>
    \/ /\ \/ node[o] = "absent" /\ UNCHANGED budget
          \/ Unread
       /\ ClientGoes(o, t, "get", "exists")
       /\ wrong' = [wrong EXCEPT ![o] = IF t = "watcher" THEN @ \cup {"unread"} ELSE @]
       /\ UNCHANGED <<client, val>>

\* stateCallback() stores the state.
ClientStore(o, t) ==
    /\ ClientGoes(o, t, "store", ClientEnd(t))
    /\ client' = [client EXCEPT ![o].cache = val[o][t]]
    /\ val' = [val EXCEPT ![o][t] = "empty"]
    /\ IF t = "watcher" THEN Replaced(o)
       ELSE wrong' = [wrong EXCEPT ![o] =
                         IF "late" \in @ THEN (@ \ {"late"}) \cup {"overtaken"} ELSE @]
    /\ UNCHANGED budget

\* zoo_wexists() sets a watch, whether the node is there or not, unless the call fails.  Only
\* the first one goes on to read the node.
ClientExists(o, t) ==
    /\ \/ /\ \/ node[o] # "absent" /\ ClientGoes(o, t, "first", "get")
             \/ node[o] = "absent" /\ ClientGoes(o, t, "first", ClientEnd(t))
             \/ ClientGoes(o, t, "exists", ClientEnd(t))
          /\ client' = [client EXCEPT ![o].watch = TRUE]
          /\ UNCHANGED budget
       \/ /\ \E a \in {"first", "exists"} : ClientGoes(o, t, a, ClientEnd(t))
          /\ Unread
          /\ UNCHANGED client
    /\ UNCHANGED <<val, wrong>>

ControlClient(o) ==
    \/ ClientSubscribe(o) \/ ClientHandle(o)
    \/ \E t \in Threads : ClientGet(o, t) \/ ClientStore(o, t) \/ ClientExists(o, t)

Next ==
    \/ Expire \/ Handler \/ Engine
    \/ \E o \in Objs : Register(o) \/ ControlClient(o)
    \/ \E o \in Objs, c \in Commands : SendCommand(o, c)
    \/ \E n \in 1..MaxClients : ClientGone(n)

Spec == Init /\ [][Next]_vars

\* The engine, the handler thread and the main thread run.
FairSpec ==
    /\ Spec
    /\ WF_vars(Handler) /\ WF_vars(Engine)
    /\ \A o \in Objs : SF_vars(RegisterBegin(o)) /\ WF_vars(Register(o))

-----------------------------------------------------------------------------

NoLoss == budget.losses = MaxLosses
Undecided(n) == n \in DOMAIN sent /\ sent[n].fate \in {"sent", "pending"}

\* The handler lists, reads, executes and deletes command nodes in separate steps while the
\* purge, its own deletions and new commands fire the watch again: all the same a command
\* is given to its object at most once, and executed at most once and never after it was
\* refused, unless a call was lost.
CommandOnce ==
    NoLoss => \A n \in DOMAIN sent :
                /\ sent[n].calls <= 1
                /\ sent[n].times <= sent[n].calls
                /\ sent[n].times = 1 => sent[n].fate \in {"pending", "done"}

\* Whenever the engine is not between an action and updateState(), the directory shows
\* the state of the object, as long as the session lives and no call was lost.
PublishedIsTrue ==
    NoLoss /\ ~expired =>
        \A o \in Objs : obj[o].at \in {"published", "done"} => node[o] = obj[o].state

\* No event is on its way to the client of o, and none of its threads is in z_watcher_node().
ClientRests(o) ==
    /\ client[o].events = << >>
    /\ place[o]["watcher"] = "idle" /\ place[o]["main"] \in {"idle", "done"}

\* A client at rest shows what the directory holds, or no state at all: it may miss the
\* first state of an object, but never a later one, nor the end of its node.  What breaks
\* it is that the thread which constructs the client stores a value that it read before the
\* last one its other thread stored, or that the last change could not be read, because the
\* call failed or the node had gone by then.  The next change sets both right.
ClientNotMisled ==
    \A o \in Objs :
        ClientRests(o) /\ client[o].cache # "empty" =>
            client[o].cache = node[o] \/ wrong[o] # {}

\* Every command that finds the object registered is executed or refused, or goes
\* with its client, unless a call was lost or the session expired.
CommandsDecided ==
    \A n \in 1..MaxClients :
        Undecided(n) ~> (~Undecided(n) \/ ~NoLoss \/ expired \/ ~alive)
=============================================================================
