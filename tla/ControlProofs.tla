--------------------------- MODULE ControlProofs ----------------------------
(***************************************************************************)
(* Proofs about the two control systems.                                   *)
(*                                                                         *)
(* ControlSystem, for any number of objects, commands, calls that fail and *)
(* errors of the user's code.                                              *)
(*                                                                         *)
(* Zdaq, for every size of the FIFO, number of items of a do_loop(),       *)
(* number of runs and of commands that fail: the event lives as long as    *)
(* somebody can reach it, and a consumer stopped after its producer leaves *)
(* nothing behind.                                                         *)
(***************************************************************************)
EXTENDS ControlSystem, Zdaq, FiniteSetTheorems, TLAPS

\* What a state node, a state of an object or a client's cache can hold.
Names == {"absent", "empty", "none", "undefined", "standby", "ready", "running", "paused", "error"}
Steps == {"none", "node", "purging", "subscribed", "published", "done"}
Fates == {"sent", "gone", "purged", "ignored", "pending", "busy", "invalid", "done"}

Command   == [cmd : Commands, o : Objs, fate : Fates, calls : Nat, times : Nat]
Object    == [at : Steps, state : Names, pending : Seq(Nat)]
Client    == [cache : Names, watch : BOOLEAN, events : Seq({"created", "changed", "deleted"})]
HandlerSt == [at : {"idle", "get", "execute", "delete"}, o : Objs \cup {"none"},
              list : SUBSET Nat, cmd : Nat]
EngineSt  == [at : {"lock", "front", "publish", "pop", "iterate"}, i : Nat \ {0}, new : Names]
Budget    == [losses : 0 .. MaxLosses, unread : Nat, errors : Nat, sessions : Nat]

\* A command that is executed stays at the front of its FIFO meanwhile.
FrontThere == engine.at \in {"publish", "pop"} => obj[Cur].pending # << >>

CtrlTypes ==
    /\ node \in [Objs -> Names]
    /\ cmds \in [Objs -> SUBSET Nat]
    /\ events \in Seq(Objs)
    /\ handler \in HandlerSt /\ (handler.at # "idle" => handler.o \in Objs)
    /\ obj \in [Objs -> Object]
    /\ engine \in EngineSt
    /\ engine.at \in {"publish", "pop", "iterate"} => engine.i \in 1 .. Len(Objects)
    /\ FrontThere
    /\ engine.new # "absent"
    /\ client \in [Objs -> Client]
    /\ sent \in Seq(Command)
    /\ budget \in Budget

\* What the threads of the clients hold.
ClientPlaces == {"idle", "first", "get", "store", "exists", "done"}
ReadTypes ==
    /\ val \in [Objs -> [Threads -> Names]]
    /\ place \in [Objs -> [Threads -> ClientPlaces]]
    /\ wrong \in [Objs -> SUBSET {"late", "unread", "overtaken"}]

-----------------------------------------------------------------------------
(* The engine never looks for more objects than there are.                  *)
LEMMA RegisteredBound == Registered \in 0 .. Len(Objects)
<1> DEFINE f == [k \in 1 .. Len(Objects) |-> Objects[k]]
<1>1. Len(Objects) \in Nat /\ Objs = {Objects[k] : k \in 1 .. Len(Objects)}
  BY ControlAssumption DEF Objs, Range
<1>2. IsFiniteSet(1 .. Len(Objects)) /\ Cardinality(1 .. Len(Objects)) = Len(Objects)
  <2>1. Len(Objects) \in Int /\ 1 \in Int
    BY <1>1
  <2>2. /\ IsFiniteSet(1 .. Len(Objects))
        /\ Cardinality(1 .. Len(Objects)) = IF 1 > Len(Objects) THEN 0 ELSE Len(Objects) - 1 + 1
    BY <2>1, FS_Interval, Zenon
  <2>3. (IF 1 > Len(Objects) THEN 0 ELSE Len(Objects) - 1 + 1) = Len(Objects)
    BY <1>1
  <2> QED BY <2>2, <2>3
<1>3. f \in Surjection(1 .. Len(Objects), Objs)
  BY <1>1 DEF Surjection
<1>4. IsFiniteSet(Objs) /\ Cardinality(Objs) <= Len(Objects)
  BY <1>2, <1>3, FS_Surjection
<1>5. /\ IsFiniteSet({o \in Objs : obj[o].at = "done"})
      /\ Cardinality({o \in Objs : obj[o].at = "done"}) <= Cardinality(Objs)
  BY <1>4, FS_Subset
<1> QED BY <1>1, <1>4, <1>5, FS_CardinalityType DEF Registered

(* The object the state machine engine is at is one of the objects.         *)
LEMMA CurIsObject == ASSUME engine.i \in 1 .. Len(Objects) PROVE Cur \in Objs
  BY ControlAssumption DEF Cur, Objs, Range

(* Only the engine takes commands out of a FIFO.                            *)
LEMMA FrontKept ==
    ASSUME CtrlTypes, UNCHANGED engine,
           \A q \in Objs : obj[q].pending # << >> => obj'[q].pending # << >>
    PROVE  FrontThere'
  BY CurIsObject DEF CtrlTypes, FrontThere, Cur

(* A change of a state node: the client that watched has an event, and does *)
(* not watch any more.                                                      *)
LEMMA ChangedTypes ==
    ASSUME CtrlTypes, NEW o \in Objs, NEW v \in Names, Changed(o, v)
    PROVE  /\ node' \in [Objs -> Names] /\ client' \in [Objs -> Client]
           /\ node' = [node EXCEPT ![o] = v]
           /\ \A q \in Objs \ {o} : client'[q] = client[q]
           /\ \E e \in {"created", "changed"} : client'[o] = Notified(client[o], e)
<1> DEFINE e == IF node[o] = "absent" THEN "created" ELSE "changed"
           c == Notified(client[o], e)
<1>1. client[o] \in Client /\ node \in [Objs -> Names]
  BY DEF CtrlTypes
<1>2. c \in Client /\ e \in {"created", "changed"}
  BY <1>1 DEF Client, Notified
<1>3. client' = [client EXCEPT ![o] = c] /\ node' = [node EXCEPT ![o] = v]
  BY DEF Changed
<1> QED BY <1>1, <1>2, <1>3 DEF CtrlTypes

(* A change of the command nodes of one object.                             *)
LEMMA CommandedTypes ==
    ASSUME CtrlTypes, NEW o \in Objs, NEW s \in SUBSET Nat, Commanded(o, s)
    PROVE  cmds' \in [Objs -> SUBSET Nat] /\ events' \in Seq(Objs)
<1>1. cmds' = [cmds EXCEPT ![o] = s] /\ (events' = events \/ events' = Append(events, o))
  BY DEF Commanded
<1> QED BY <1>1 DEF CtrlTypes

(* A call that fails uses up one of the losses.                             *)
LEMMA LoseTypes ==
    ASSUME NEW b \in Budget, Lose(b)
    PROVE  budget' \in Budget /\ budget'.losses < b.losses
  BY ControlAssumption DEF Lose, Budget

(* A call of a client that fails does not count as a loss.                  *)
LEMMA UnreadTypes ==
    ASSUME budget \in Budget, Unread
    PROVE  budget' \in Budget /\ budget'.losses = budget.losses
  BY DEF Unread, Budget

(* What updateState() does to the object and to the directory.              *)
LEMMA PublishTypes ==
    ASSUME CtrlTypes, NEW o \in Objs, NEW s \in Names, NEW ob \in [Objs -> Object],
           NEW b \in Budget, Publish(o, s, ob, b)
    PROVE  /\ node' \in [Objs -> Names] /\ client' \in [Objs -> Client]
           /\ obj' \in [Objs -> Object] /\ budget' \in Budget
<1>1. node \in [Objs -> Names] /\ client \in [Objs -> Client]
  BY DEF CtrlTypes
<1>2. node' \in [Objs -> Names] /\ client' \in [Objs -> Client]
  <2>1. Changed(o, s) \/ UNCHANGED <<node, client>>
    BY DEF Publish
  <2> QED BY <1>1, <2>1, ChangedTypes
<1>3. budget' \in Budget
  <2>1. budget' = b \/ Lose(b)
    BY DEF Publish
  <2> QED BY <2>1, LoseTypes
<1>4. obj' \in [Objs -> Object]
  <2>1. obj' = [ob EXCEPT ![o].state = s]
    BY DEF Publish
  <2> QED BY <2>1 DEF Object
<1> QED BY <1>2, <1>3, <1>4

(* The command that is given to its object.                                 *)
LEMMA CalledFields ==
    ASSUME NEW r \in Command, NEW f
    PROVE  /\ f \in Fates => Called(r, f) \in Command
           /\ Called(r, f).fate = f /\ Called(r, f).calls = r.calls + 1
           /\ Called(r, f).o = r.o /\ Called(r, f).times = r.times
<1>1. r.cmd \in Commands /\ r.o \in Objs /\ r.calls + 1 \in Nat /\ r.times \in Nat
  BY DEF Command
<1> QED BY <1>1 DEF Called, Command

(* The marks that commands get are written into their records.              *)
LEMMA SentTypes ==
    ASSUME CtrlTypes, NEW n
    PROVE  /\ \A f \in Fates : [sent EXCEPT ![n].fate = f] \in Seq(Command)
           /\ \A f \in Fates : [sent EXCEPT ![n] = Called(@, f)] \in Seq(Command)
           /\ [sent EXCEPT ![n].times = @ + 1] \in Seq(Command)
<1>1. /\ Len(sent) \in Nat /\ DOMAIN sent = 1 .. Len(sent)
      /\ sent \in [1 .. Len(sent) -> Command]
  BY DEF CtrlTypes
<1>2. \A k \in 1 .. Len(sent), f \in Fates : [sent[k] EXCEPT !.fate = f] \in Command
  BY <1>1 DEF Command
<1>3. \A k \in 1 .. Len(sent), f \in Fates : Called(sent[k], f) \in Command
  BY <1>1, CalledFields
<1>4. \A k \in 1 .. Len(sent) : [sent[k] EXCEPT !.times = @ + 1] \in Command
  BY <1>1 DEF Command
<1>5. \A f \in Fates : [sent EXCEPT ![n].fate = f] \in [1 .. Len(sent) -> Command]
  BY <1>1, <1>2
<1>6. \A f \in Fates : [sent EXCEPT ![n] = Called(@, f)] \in [1 .. Len(sent) -> Command]
  BY <1>1, <1>3
<1>7. [sent EXCEPT ![n].times = @ + 1] \in [1 .. Len(sent) -> Command]
  BY <1>1, <1>4
<1>8. \A t : t \in [1 .. Len(sent) -> Command] => t \in Seq(Command)
  BY <1>1
<1> QED BY <1>5, <1>6, <1>7, <1>8

(* The steps of a client touch nothing else.                                *)
LEMMA ClientSteps ==
    ASSUME NEW o \in Objs, ControlClient(o)
    PROVE  /\ UNCHANGED <<dirVars, handler, alive, expired, obj, purge, engine, mutex, sent>>
           /\ budget' = budget \/ Unread
           /\ \E t \in Threads, b \in ClientPlaces : place' = [place EXCEPT ![o][t] = b]
<1> USE DEF ClientGoes
<1> DEFINE Rest == /\ UNCHANGED <<dirVars, handler, alive, expired, obj, purge, engine, mutex, sent>>
                   /\ budget' = budget \/ Unread
           Goes == \E t \in Threads, b \in ClientPlaces : place' = [place EXCEPT ![o][t] = b]
<1>1. "main" \in Threads /\ "watcher" \in Threads
  BY DEF Threads
<1>2. \A t : ClientEnd(t) \in ClientPlaces
  BY DEF ClientEnd, ClientPlaces
<1>3. CASE ClientSubscribe(o)
  BY <1>1, <1>3 DEF ClientSubscribe, ClientPlaces
<1>4. CASE ClientHandle(o)
  <2>1. Rest /\ UNCHANGED val
    BY <1>4 DEF ClientHandle
  <2>2. Goes
    BY <1>1, <1>4 DEF ClientHandle, ClientPlaces
  <2> QED BY <2>1, <2>2
<1>5. ASSUME NEW t \in Threads, ClientGet(o, t) PROVE Rest /\ Goes
  <2>1. Rest
    BY <1>5 DEF ClientGet
  <2>2. Goes
    BY <1>5 DEF ClientGet, ClientPlaces
  <2> QED BY <2>1, <2>2
<1>6. ASSUME NEW t \in Threads, ClientStore(o, t) PROVE Rest /\ Goes
  <2>1. Rest
    BY <1>6 DEF ClientStore
  <2>2. Goes
    BY <1>2, <1>6 DEF ClientStore
  <2> QED BY <2>1, <2>2
<1>7. ASSUME NEW t \in Threads, ClientExists(o, t) PROVE Rest /\ Goes
  <2>1. Rest
    BY <1>7 DEF ClientExists
  <2>2. \E b \in {"get", ClientEnd(t)} : place' = [place EXCEPT ![o][t] = b]
    BY <1>7 DEF ClientExists
  <2>3. "get" \in ClientPlaces
    BY DEF ClientPlaces
  <2> QED BY <1>2, <2>1, <2>2, <2>3
<1> QED BY <1>3, <1>4, <1>5, <1>6, <1>7 DEF ControlClient

(* Nor the other clients.                                                   *)
LEMMA ClientApart ==
    ASSUME CtrlTypes, ReadTypes, NEW o \in Objs, NEW q \in Objs, q # o, ControlClient(o)
    PROVE  /\ place'[q] = place[q] /\ val'[q] = val[q] /\ wrong'[q] = wrong[q]
           /\ client'[q] = client[q]
<1>1. place'[q] = place[q]
  BY ClientSteps DEF ReadTypes
<1> USE DEF ClientGoes
<1>2. client \in [Objs -> Client] /\ val \in [Objs -> [Threads -> Names]]
  BY DEF CtrlTypes, ReadTypes
<1>3. wrong \in [Objs -> SUBSET {"late", "unread", "overtaken"}]
  BY DEF ReadTypes
<1>4. CASE ClientSubscribe(o)
  BY <1>1, <1>4 DEF ClientSubscribe
<1>5. CASE ClientHandle(o)
  BY <1>1, <1>2, <1>3, <1>5 DEF ClientHandle, Replaced
<1>6. ASSUME NEW t, ClientGet(o, t) PROVE UNCHANGED <<client[q], val[q], wrong[q]>>
  BY <1>2, <1>3, <1>6 DEF ClientGet
<1>7. ASSUME NEW t, ClientStore(o, t) PROVE UNCHANGED <<client[q], val[q], wrong[q]>>
  BY <1>2, <1>3, <1>7 DEF ClientStore, Replaced
<1>8. ASSUME NEW t, ClientExists(o, t) PROVE UNCHANGED <<client[q], val[q], wrong[q]>>
  BY <1>2, <1>8 DEF ClientExists
<1> QED BY <1>1, <1>4, <1>5, <1>6, <1>7, <1>8 DEF ControlClient

(* They keep the types.                                                     *)
LEMMA ClientTypes ==
    ASSUME CtrlTypes, ReadTypes, NEW o \in Objs, ControlClient(o)
    PROVE  client' \in [Objs -> Client] /\ budget' \in Budget /\ ReadTypes'
<1>1. /\ client[o] \in Client /\ node[o] \in Names /\ client \in [Objs -> Client]
      /\ budget \in Budget /\ "empty" \in Names
  BY DEF CtrlTypes, Names
<1>2. /\ val \in [Objs -> [Threads -> Names]]
      /\ wrong \in [Objs -> SUBSET {"late", "unread", "overtaken"}]
      /\ place \in [Objs -> [Threads -> ClientPlaces]]
  BY DEF ReadTypes
<1>3. budget' \in Budget
  BY <1>1, ClientSteps, UnreadTypes
<1>4. place' \in [Objs -> [Threads -> ClientPlaces]]
  <2>1. PICK t \in Threads, b \in ClientPlaces : place' = [place EXCEPT ![o][t] = b]
    BY ClientSteps
  <2> QED BY <1>2, <2>1
<1> DEFINE Kept == /\ client' \in [Objs -> Client] /\ val' \in [Objs -> [Threads -> Names]]
                   /\ wrong' \in [Objs -> SUBSET {"late", "unread", "overtaken"}]
<1>5. \A c \in Client : [client EXCEPT ![o] = c] \in [Objs -> Client]
  BY <1>1
<1>6. \A c \in SUBSET {"late", "unread", "overtaken"} :
         [wrong EXCEPT ![o] = c] \in [Objs -> SUBSET {"late", "unread", "overtaken"}]
  BY <1>2
<1>14. \A t : \A v \in Names : [val EXCEPT ![o][t] = v] \in [Objs -> [Threads -> Names]]
  <2> SUFFICES ASSUME NEW t, NEW v \in Names
               PROVE  [val EXCEPT ![o][t] = v] \in [Objs -> [Threads -> Names]]
    OBVIOUS
  <2>1. [val[o] EXCEPT ![t] = v] \in [Threads -> Names]
    BY <1>2
  <2> QED BY <1>2, <2>1
<1>7. Replaced(o) => wrong' \in [Objs -> SUBSET {"late", "unread", "overtaken"}]
  <2>1. Replaced(o) => \E c \in {{"late"}, {}} : wrong' = [wrong EXCEPT ![o] = c]
    BY DEF Replaced
  <2> QED BY <1>6, <2>1
<1>8. ASSUME ClientSubscribe(o) PROVE Kept
  <2>1. client' = client /\ val' = val /\ wrong' = wrong
    BY <1>8 DEF ClientSubscribe
  <2>2. client' \in [Objs -> Client]
    BY <1>1, <2>1
  <2>3. val' \in [Objs -> [Threads -> Names]]
    BY <1>2, <2>1
  <2>4. wrong' \in [Objs -> SUBSET {"late", "unread", "overtaken"}]
    BY <1>2, <2>1
  <2> QED BY <2>2, <2>3, <2>4
<1>9. ASSUME ClientHandle(o) PROVE Kept
  <2>1. \E c \in {[client[o] EXCEPT !.events = Tail(@)], Emptied(client[o])} :
           client' = [client EXCEPT ![o] = c]
    BY <1>9 DEF ClientHandle
  <2>2. Tail(client[o].events) \in Seq({"created", "changed", "deleted"})
    BY <1>1, <1>9 DEF ClientHandle, Client
  <2>3. [client[o] EXCEPT !.events = Tail(@)] \in Client /\ Emptied(client[o]) \in Client
    BY <1>1, <2>2 DEF Client, Emptied
  <2>4. client' \in [Objs -> Client]
    <3>1. PICK c \in Client : client' = [client EXCEPT ![o] = c]
      BY <2>1, <2>3
    <3> QED BY <1>5, <3>1
  <2>5. val' = val /\ (wrong' = wrong \/ Replaced(o))
    BY <1>9 DEF ClientHandle
  <2>6. val' \in [Objs -> [Threads -> Names]]
    BY <1>2, <2>5
  <2>7. wrong' \in [Objs -> SUBSET {"late", "unread", "overtaken"}]
    BY <1>2, <1>7, <2>5
  <2> QED BY <2>4, <2>6, <2>7
<1>10. ASSUME NEW t \in Threads, ClientGet(o, t) PROVE Kept
  <2>1. client' = client \/ client' = [client EXCEPT ![o] = [client[o] EXCEPT !.watch = TRUE]]
    BY <1>10 DEF ClientGet
  <2>2. [client[o] EXCEPT !.watch = TRUE] \in Client
    BY <1>1 DEF Client
  <2>3. client' \in [Objs -> Client]
    BY <1>1, <1>5, <2>1, <2>2
  <2>4. val' = val \/ val' = [val EXCEPT ![o][t] = node[o]]
    BY <1>10 DEF ClientGet
  <2>5. val' \in [Objs -> [Threads -> Names]]
    <3>1. node[o] \in Names
      BY <1>1
    <3>2. CASE val' = [val EXCEPT ![o][t] = node[o]]
      BY <1>14, <3>1, <3>2
    <3>3. CASE val' = val
      BY <1>2, <3>3
    <3> QED BY <2>4, <3>2, <3>3
  <2>6. \/ wrong' = wrong
        \/ \E c \in {wrong[o], wrong[o] \cup {"unread"}} : wrong' = [wrong EXCEPT ![o] = c]
    BY <1>10 DEF ClientGet
  <2> QED BY <1>2, <1>6, <2>3, <2>5, <2>6
<1>11. ASSUME NEW t \in Threads, ClientStore(o, t) PROVE Kept
  <2>1. /\ client' = [client EXCEPT ![o] = [client[o] EXCEPT !.cache = val[o][t]]]
        /\ val' = [val EXCEPT ![o][t] = "empty"]
    BY <1>11 DEF ClientStore
  <2>2. [client[o] EXCEPT !.cache = val[o][t]] \in Client
    BY <1>1, <1>2 DEF Client
  <2>3. client' \in [Objs -> Client]
    BY <1>1, <1>5, <2>1, <2>2
  <2>4. val' \in [Objs -> [Threads -> Names]]
    <3>1. "empty" \in Names
      BY <1>1
    <3> QED BY <1>14, <2>1, <3>1
  <2>5. \/ Replaced(o)
        \/ \E c \in {wrong[o], (wrong[o] \ {"late"}) \cup {"overtaken"}} :
              wrong' = [wrong EXCEPT ![o] = c]
    BY <1>11 DEF ClientStore
  <2> QED BY <1>2, <1>6, <1>7, <2>3, <2>4, <2>5
<1>12. ASSUME NEW t \in Threads, ClientExists(o, t) PROVE Kept
  <2>1. client' = client \/ client' = [client EXCEPT ![o] = [client[o] EXCEPT !.watch = TRUE]]
    BY <1>12 DEF ClientExists
  <2>2. [client[o] EXCEPT !.watch = TRUE] \in Client
    BY <1>1 DEF Client
  <2>3. client' \in [Objs -> Client]
    BY <1>1, <1>5, <2>1, <2>2
  <2>4. UNCHANGED <<val, wrong>>
    BY <1>12 DEF ClientExists
  <2> QED BY <1>2, <2>3, <2>4
<1>13. Kept
  <2> HIDE DEF Kept
  <2>1. CASE ClientSubscribe(o) \/ ClientHandle(o)
    <3> USE DEF Kept
    <3> QED BY <1>8, <1>9, <2>1
  <2>2. CASE \E t \in Threads : ClientGet(o, t) \/ ClientStore(o, t) \/ ClientExists(o, t)
    BY <1>10, <1>11, <1>12, <2>2
  <2> QED BY <2>1, <2>2 DEF ControlClient
<1> QED BY <1>3, <1>4, <1>13 DEF ReadTypes

(* All others leave them alone.                                             *)
LEMMA OthersRead ==
    ASSUME [Next]_vars, \A o \in Objs : ~ControlClient(o)
    PROVE  UNCHANGED readVars
<1>1. CASE UNCHANGED vars
  BY <1>1 DEF vars, readVars
<1>2. CASE Expire
  BY <1>2 DEF Expire
<1>3. CASE Handler
  <2>1. CASE HandlerList \/ HandlerEnd \/ HandlerExecute \/ HandlerDelete
    BY <2>1 DEF HandlerList, HandlerEnd, HandlerExecute, HandlerDelete
  <2>2. ASSUME NEW n, HandlerRead(n) PROVE UNCHANGED readVars
    BY <2>2 DEF HandlerRead
  <2> QED BY <1>3, <2>1, <2>2 DEF Handler
<1>4. CASE Engine
  BY <1>4 DEF Engine, EngineLock, EngineUnlock, EngineExecute, EnginePublish, EnginePop,
              EngineIterate
<1>5. ASSUME NEW o \in Objs, Register(o) PROVE UNCHANGED readVars
  BY <1>5 DEF Register, RegisterBegin, RegisterSubscribe, RegisterPurge, RegisterPublish,
              RegisterEnd
<1>6. ASSUME NEW o, NEW c, SendCommand(o, c) PROVE UNCHANGED readVars
  BY <1>6 DEF SendCommand
<1>7. ASSUME NEW n, ClientGone(n) PROVE UNCHANGED readVars
  BY <1>7 DEF ClientGone
<1> QED BY <1>1, <1>2, <1>3, <1>4, <1>5, <1>6, <1>7 DEF Next

LEMMA NextReads == CtrlTypes /\ ReadTypes /\ [Next]_vars => ReadTypes'
<1> SUFFICES ASSUME CtrlTypes, ReadTypes, [Next]_vars PROVE ReadTypes'
  OBVIOUS
<1>1. CASE \E o \in Objs : ControlClient(o)
  BY <1>1, ClientTypes
<1>2. CASE UNCHANGED readVars
  BY <1>2 DEF ReadTypes, readVars
<1> QED BY <1>1, <1>2, OthersRead

(* The types hold after every step.                                         *)
LEMMA NextTypes == CtrlTypes /\ ReadTypes /\ [Next]_vars => CtrlTypes'
<1> SUFFICES ASSUME CtrlTypes, ReadTypes, [Next]_vars PROVE CtrlTypes'
  OBVIOUS
<1> USE DEF dirVars, readVars
<1>1. CASE UNCHANGED vars
  BY <1>1, FrontKept DEF vars, CtrlTypes
<1>2. CASE Expire
  <2>1. client' \in [Objs -> Client]
    <3>1. \A o \in Objs : Notified(client[o], "deleted") \in Client /\ client[o] \in Client
      BY DEF CtrlTypes, Client, Notified
    <3>2. /\ client' = [o \in Objs |-> client'[o]]
          /\ \A o \in Objs : client'[o] \in {Notified(client[o], "deleted"), client[o]}
      BY <1>2 DEF Expire
    <3>3. \A o \in Objs : client'[o] \in Client
      BY <3>1, <3>2
    <3> QED BY <3>2, <3>3
  <2>2. budget' \in Budget
    <3>1. budget \in Budget
      BY DEF CtrlTypes
    <3>2. budget' = [budget EXCEPT !.sessions = @ - 1] /\ budget.sessions > 0
      BY <1>2 DEF Expire
    <3> QED BY <3>1, <3>2 DEF Budget
  <2>3. node' \in [Objs -> Names]
    BY <1>2 DEF Expire, Names
  <2>4. UNCHANGED <<cmds, handler, obj, engine, sent>> /\ events' = << >>
    BY <1>2 DEF Expire
  <2> QED BY <2>1, <2>2, <2>3, <2>4, FrontKept DEF CtrlTypes
<1>3. ASSUME NEW o \in Objs, RegisterBegin(o) PROVE CtrlTypes'
  <2>1. node' \in [Objs -> Names] /\ client' \in [Objs -> Client] /\ budget' \in Budget
    BY <1>3, ChangedTypes, LoseTypes DEF RegisterBegin, CreateNode, CtrlTypes, Names
  <2>2. obj' \in [Objs -> Object]
    BY <1>3 DEF RegisterBegin, CtrlTypes, Object, Steps
  <2>3. \A q \in Objs : obj'[q].pending = obj[q].pending
    BY <1>3 DEF RegisterBegin, CtrlTypes, Object
  <2> QED BY <1>3, <2>1, <2>2, <2>3, FrontKept DEF RegisterBegin, CtrlTypes
<1>4. ASSUME NEW o \in Objs, RegisterSubscribe(o) PROVE CtrlTypes'
  <2>1. budget' \in Budget
    BY <1>4, LoseTypes DEF RegisterSubscribe, CtrlTypes
  <2>2. obj' \in [Objs -> Object]
    BY <1>4 DEF RegisterSubscribe, CtrlTypes, Object, Steps
  <2>3. \A q \in Objs : obj'[q].pending = obj[q].pending
    BY <1>4 DEF RegisterSubscribe, CtrlTypes, Object
  <2> QED BY <1>4, <2>1, <2>2, <2>3, FrontKept DEF RegisterSubscribe, CtrlTypes
<1>4a. ASSUME NEW o \in Objs, RegisterPurge(o) PROVE CtrlTypes'
  <2>1. budget' \in Budget
    BY <1>4a, LoseTypes DEF RegisterPurge, CtrlTypes
  <2>2. obj' \in [Objs -> Object]
    BY <1>4a DEF RegisterPurge, CtrlTypes, Object, Steps
  <2>3. \A q \in Objs : obj'[q].pending = obj[q].pending
    BY <1>4a DEF RegisterPurge, CtrlTypes, Object
  <2>4. PICK n \in purge :
          /\ sent' = sent \/ \E f \in {"purged", sent[n].fate} : sent' = [sent EXCEPT ![n].fate = f]
          /\ UNCHANGED <<cmds, events>> \/ Commanded(o, cmds[o] \ {n})
    BY <1>4a DEF RegisterPurge
  <2>5. sent' \in Seq(Command)
    <3>1. CASE n \notin DOMAIN sent
      BY <2>4, <3>1 DEF CtrlTypes
    <3>2. CASE n \in DOMAIN sent
      <4>1. sent[n].fate \in Fates /\ "purged" \in Fates
        <5>1. sent[n] \in Command
          BY <3>2 DEF CtrlTypes
        <5> QED BY <5>1 DEF Command, Fates
      <4>2. sent' = sent \/ \E f \in Fates : sent' = [sent EXCEPT ![n].fate = f]
        BY <2>4, <4>1, Zenon
      <4>3. \A f \in Fates : [sent EXCEPT ![n].fate = f] \in Seq(Command)
        BY SentTypes, Zenon
      <4>4. sent \in Seq(Command)
        BY DEF CtrlTypes
      <4> QED BY <4>2, <4>3, <4>4
    <3> QED BY <3>1, <3>2
  <2>6. cmds' \in [Objs -> SUBSET Nat] /\ events' \in Seq(Objs)
    <3>1. cmds[o] \ {n} \in SUBSET Nat
      BY DEF CtrlTypes
    <3> QED BY <2>4, <3>1, CommandedTypes DEF CtrlTypes
  <2> QED BY <1>4a, <2>1, <2>2, <2>3, <2>5, <2>6, FrontKept DEF RegisterPurge, CtrlTypes
<1>5. ASSUME NEW o \in Objs, RegisterPublish(o) PROVE CtrlTypes'
  <2>1. [obj EXCEPT ![o].at = "published"] \in [Objs -> Object]
    BY DEF CtrlTypes, Object, Steps
  <2>2. budget \in Budget /\ "standby" \in Names
    BY DEF CtrlTypes, Names
  <2>3. /\ node' \in [Objs -> Names] /\ client' \in [Objs -> Client]
        /\ obj' \in [Objs -> Object] /\ budget' \in Budget
    BY <1>5, <2>1, <2>2, PublishTypes DEF RegisterPublish
  <2>4. \A q \in Objs : obj'[q].pending = obj[q].pending
    BY <1>5 DEF RegisterPublish, Publish, CtrlTypes, Object
  <2> QED BY <1>5, <2>3, <2>4, FrontKept DEF RegisterPublish, CtrlTypes
<1>6. ASSUME NEW o \in Objs, RegisterEnd(o) PROVE CtrlTypes'
  <2>1. obj' \in [Objs -> Object]
    BY <1>6 DEF RegisterEnd, CtrlTypes, Object, Steps
  <2>2. \A q \in Objs : obj'[q].pending = obj[q].pending
    BY <1>6 DEF RegisterEnd, CtrlTypes, Object
  <2> QED BY <1>6, <2>1, <2>2, FrontKept DEF RegisterEnd, CtrlTypes
<1>7. CASE HandlerList
  <2>1. Head(events) \in Objs /\ events' \in Seq(Objs)
    BY <1>7 DEF HandlerList, CtrlTypes
  <2>2. handler' \in HandlerSt /\ (handler'.at # "idle" => handler'.o \in Objs)
    <3>1. \/ handler' = [at |-> "get", o |-> Head(events), list |-> cmds[Head(events)], cmd |-> 0]
          \/ handler' = handler
      BY <1>7 DEF HandlerList, Idle
    <3>2. cmds[Head(events)] \in SUBSET Nat
      BY <2>1 DEF CtrlTypes
    <3> QED BY <2>1, <3>1, <3>2 DEF CtrlTypes, HandlerSt
  <2>3. budget' \in Budget
    BY <1>7, LoseTypes DEF HandlerList, CtrlTypes
  <2> QED BY <1>7, <2>1, <2>2, <2>3, FrontKept DEF HandlerList, CtrlTypes
<1>8. CASE HandlerEnd
  BY <1>8, FrontKept DEF HandlerEnd, CtrlTypes, HandlerSt, Idle
<1>9. CASE HandlerDelete
  <2>1. cmds' \in [Objs -> SUBSET Nat] /\ events' \in Seq(Objs)
    <3>1. handler.o \in Objs /\ cmds[handler.o] \ {handler.cmd} \in SUBSET Nat
      BY <1>9 DEF HandlerDelete, CtrlTypes
    <3> QED BY <1>9, <3>1, CommandedTypes DEF HandlerDelete, CtrlTypes
  <2>2. handler' \in HandlerSt /\ handler'.o \in Objs
    BY <1>9 DEF HandlerDelete, CtrlTypes, HandlerSt
  <2>3. budget' \in Budget
    BY <1>9, LoseTypes DEF HandlerDelete, CtrlTypes
  <2> QED BY <1>9, <2>1, <2>2, <2>3, FrontKept DEF HandlerDelete, CtrlTypes
<1>10. ASSUME NEW n \in 1 .. MaxClients, HandlerRead(n) PROVE CtrlTypes'
  <2>1. handler' \in HandlerSt /\ handler'.o \in Objs
    <3>1. \E a \in {"execute", "delete"} :
             handler' = [handler EXCEPT !.at = a, !.list = @ \ {n}, !.cmd = n]
      BY <1>10 DEF HandlerRead
    <3>2. handler \in HandlerSt /\ handler.o \in Objs /\ n \in Nat
      BY <1>10 DEF HandlerRead, CtrlTypes
    <3> QED BY <3>1, <3>2 DEF HandlerSt
  <2>2. budget' \in Budget
    BY <1>10, LoseTypes DEF HandlerRead, CtrlTypes
  <2> QED BY <1>10, <2>1, <2>2, FrontKept DEF HandlerRead, CtrlTypes
<1>10a. CASE HandlerExecute
  <2> DEFINE n == handler.cmd
  <2>1. handler' \in HandlerSt /\ handler'.o \in Objs
    BY <1>10a DEF HandlerExecute, CtrlTypes, HandlerSt
  <2>2. sent' \in Seq(Command)
    <3>1. sent' = sent \/ \E f \in Fates : sent' = [sent EXCEPT ![n] = Called(@, f)]
      BY <1>10a DEF HandlerExecute, Fates
    <3>2. \A f \in Fates : [sent EXCEPT ![n] = Called(@, f)] \in Seq(Command)
      BY SentTypes, Zenon
    <3> QED BY <3>1, <3>2 DEF CtrlTypes
  <2>3. obj' \in [Objs -> Object] /\ \A o \in Objs : obj[o].pending # << >> => obj'[o].pending # << >>
    <3>1. obj' = obj \/ obj' = [obj EXCEPT ![handler.o].pending = <<n>>]
      BY <1>10a DEF HandlerExecute
    <3>2. n \in Nat /\ <<n>> \in Seq(Nat) /\ <<n>> # << >>
      BY DEF CtrlTypes, HandlerSt
    <3> QED BY <3>1, <3>2 DEF CtrlTypes, Object
  <2> QED BY <1>10a, <2>1, <2>2, <2>3, FrontKept DEF HandlerExecute, CtrlTypes
<1>11. CASE EngineLock \/ EngineUnlock
  <2>1. /\ engine' \in EngineSt /\ engine'.at \in {"lock", "front"} /\ engine'.new = engine.new
        /\ UNCHANGED <<dirVars, handler, obj, client, sent, budget>>
    <3>1. \E a \in {"lock", "front"} : engine' = [at |-> a, i |-> 1, new |-> engine.new]
      BY <1>11 DEF EngineLock, EngineUnlock, CtrlTypes, EngineSt
    <3>2. UNCHANGED <<dirVars, handler, obj, client, sent, budget>>
      BY <1>11 DEF EngineLock, EngineUnlock
    <3> QED BY <3>1, <3>2 DEF CtrlTypes, EngineSt
  <2> QED BY <2>1 DEF CtrlTypes, FrontThere
<1>12. CASE EngineExecute
  <2>1. engine.i \in 1 .. Len(Objects)
    <3>1. engine.i \in Nat \ {0} /\ engine.i <= Registered
      BY <1>12 DEF EngineExecute, CtrlTypes, EngineSt
    <3>2. Len(Objects) \in Nat
      BY ControlAssumption
    <3> QED BY <3>1, <3>2, RegisteredBound
  <2>2. \A t \in Transitions : t[3] \in {"standby", "ready", "running", "paused"}
    BY DEF Transitions
  <2>3. engine' \in EngineSt /\ engine'.i = engine.i /\ engine'.new # "absent"
    <3>1. \/ engine' \in {[engine EXCEPT !.at = a] : a \in {"iterate", "pop"}}
          \/ \E w \in {"standby", "ready", "running", "paused", "error"} :
                engine' = [engine EXCEPT !.at = "publish", !.new = w]
      BY <1>12, <2>2 DEF EngineExecute
    <3>2. CASE engine' \in {[engine EXCEPT !.at = a] : a \in {"iterate", "pop"}}
      BY <3>2 DEF CtrlTypes, EngineSt
    <3>3. ASSUME NEW w \in {"standby", "ready", "running", "paused", "error"},
                 engine' = [engine EXCEPT !.at = "publish", !.new = w]
          PROVE  engine' \in EngineSt /\ engine'.i = engine.i /\ engine'.new # "absent"
      BY <3>3 DEF CtrlTypes, EngineSt, Names
    <3> QED BY <3>1, <3>2, <3>3
  <2>4. budget' \in Budget
    <3>1. budget' = budget \/ (budget.errors > 0 /\ budget' = [budget EXCEPT !.errors = @ - 1])
      BY <1>12 DEF EngineExecute
    <3> QED BY <3>1 DEF CtrlTypes, Budget
  <2>5. sent' \in Seq(Command)
    BY <1>12, SentTypes DEF EngineExecute, CtrlTypes, Fates
  <2>6. engine'.at \in {"publish", "pop"} => obj[Cur].pending # << >>
    BY <1>12 DEF EngineExecute, CtrlTypes, EngineSt
  <2>7. Cur' = Cur /\ UNCHANGED <<dirVars, handler, obj, client>>
    BY <1>12, <2>3 DEF EngineExecute, Cur
  <2> QED BY <2>1, <2>3, <2>4, <2>5, <2>6, <2>7 DEF CtrlTypes, FrontThere
<1>13. CASE EnginePublish
  <2>1. Cur \in Objs /\ budget \in Budget /\ engine.new \in Names
    BY <1>13, CurIsObject DEF EnginePublish, CtrlTypes, EngineSt
  <2>2. /\ node' \in [Objs -> Names] /\ client' \in [Objs -> Client]
        /\ obj' \in [Objs -> Object] /\ budget' \in Budget
    BY <1>13, <2>1, PublishTypes DEF EnginePublish, CtrlTypes
  <2>3. engine' \in EngineSt /\ engine'.i = engine.i /\ engine'.new # "absent"
    BY <1>13 DEF EnginePublish, CtrlTypes, EngineSt, Names
  <2>4. sent' \in Seq(Command)
    BY <1>13, SentTypes DEF EnginePublish, CtrlTypes, Fates
  <2>5. obj'[Cur].pending = obj[Cur].pending
    BY <1>13, <2>1 DEF EnginePublish, Publish, CtrlTypes, Object
  <2> QED BY <1>13, <2>2, <2>3, <2>4, <2>5 DEF EnginePublish, CtrlTypes, FrontThere, Cur
<1>14. CASE EnginePop
  <2>1. Cur \in Objs
    BY <1>14, CurIsObject DEF EnginePop, CtrlTypes
  <2>2. obj' \in [Objs -> Object]
    <3>1. Tail(obj[Cur].pending) \in Seq(Nat)
      BY <1>14, <2>1 DEF EnginePop, CtrlTypes, FrontThere, Object
    <3> QED BY <1>14, <2>1, <3>1 DEF EnginePop, CtrlTypes, Object
  <2>3. /\ engine' \in EngineSt /\ engine'.i = engine.i /\ engine'.new # "absent"
        /\ engine'.at = "iterate"
    BY <1>14 DEF EnginePop, CtrlTypes, EngineSt
  <2> QED BY <1>14, <2>2, <2>3 DEF EnginePop, CtrlTypes, FrontThere
<1>15. CASE EngineIterate
  <2>1. Cur \in Objs /\ "error" \in Names
    BY <1>15, CurIsObject DEF EngineIterate, CtrlTypes, Names
  <2>2. budget.errors > 0 => [budget EXCEPT !.errors = @ - 1] \in Budget
    <3>1. budget \in Budget
      BY DEF CtrlTypes
    <3> QED BY <3>1 DEF Budget
  <2>3. /\ node' \in [Objs -> Names] /\ client' \in [Objs -> Client]
        /\ obj' \in [Objs -> Object] /\ budget' \in Budget
    BY <1>15, <2>1, <2>2, PublishTypes DEF EngineIterate, CtrlTypes
  <2>4. engine' \in EngineSt /\ engine'.at = "front" /\ engine'.new # "absent"
    <3>1. engine' = [engine EXCEPT !.at = "front", !.i = @ + 1] /\ engine.i + 1 \in Nat \ {0}
      BY <1>15 DEF EngineIterate, CtrlTypes, EngineSt
    <3> QED BY <3>1 DEF CtrlTypes, EngineSt
  <2> QED BY <1>15, <2>3, <2>4 DEF EngineIterate, CtrlTypes, FrontThere
<1>16. ASSUME NEW o \in Objs, NEW c \in Commands, SendCommand(o, c) PROVE CtrlTypes'
  <2>1. /\ [cmd |-> c, o |-> o, fate |-> "sent", calls |-> 0, times |-> 0] \in Command
        /\ Len(sent) + 1 \in Nat
    BY DEF Command, Fates, CtrlTypes
  <2>2. sent' \in Seq(Command)
    BY <1>16, <2>1 DEF SendCommand, CtrlTypes
  <2>3. cmds' \in [Objs -> SUBSET Nat] /\ events' \in Seq(Objs)
    BY <1>16, <2>1, CommandedTypes DEF SendCommand, CtrlTypes
  <2> QED BY <1>16, <2>2, <2>3, FrontKept DEF SendCommand, CtrlTypes
<1>17. ASSUME NEW n \in 1 .. MaxClients, ClientGone(n) PROVE CtrlTypes'
  <2>1. sent[n].o \in Objs
    <3>1. n \in 1 .. Len(sent) /\ sent \in [1 .. Len(sent) -> Command]
      BY <1>17 DEF ClientGone, CtrlTypes
    <3> QED BY <3>1 DEF Command
  <2>2. sent' \in Seq(Command)
    BY <1>17, SentTypes DEF ClientGone, CtrlTypes, Fates
  <2>3. cmds' \in [Objs -> SUBSET Nat] /\ events' \in Seq(Objs)
    BY <1>17, <2>1, CommandedTypes DEF ClientGone, CtrlTypes
  <2> QED BY <1>17, <2>2, <2>3, FrontKept DEF ClientGone, CtrlTypes
<1>18. ASSUME NEW o \in Objs, ControlClient(o) PROVE CtrlTypes'
  <2>1. UNCHANGED <<dirVars, handler, obj, purge, engine, sent>>
    BY <1>18, ClientSteps
  <2> QED BY <1>18, <2>1, ClientTypes, FrontKept DEF CtrlTypes
<1> QED BY <1>1, <1>2, <1>3, <1>4, <1>4a, <1>5, <1>6, <1>7, <1>8, <1>9, <1>10, <1>10a, <1>11,
           <1>12, <1>13, <1>14, <1>15, <1>16, <1>17, <1>18
        DEF Next, Register, Handler, Engine

-----------------------------------------------------------------------------
(* The strengthenings.  Those of PublishedIsTrue and CommandOnce are about   *)
(* a run in which no call was lost, as the properties are.                   *)
-----------------------------------------------------------------------------
\* While the session lives an object under construction has its node.
Published(o) ==
    /\ obj[o].at # "none" => node[o] # "absent"
    /\ obj[o].at \in {"published", "done"} => node[o] = obj[o].state
PubInv == NoLoss /\ ~expired => \A o \in Objs : Published(o)

\* The client of o will read the node again: an event is on its way, or it is about to.
Told(o) == client[o].events # << >> \/ place[o]["watcher"] = "get"

\* v is what the node holds, and the client would hear of a change.
Current(o, v) == v = node[o] /\ client[o].watch

\* What a client stores, or has stored, is current or will be replaced, but for the two
\* ways to go wrong.
ClientFine(o) ==
    /\ place[o]["watcher"] = "store" => Current(o, val[o]["watcher"]) \/ client[o].events # << >>
    /\ place[o]["main"] = "store" =>
         \/ "late" \in wrong[o] \/ "unread" \in wrong[o]
         \/ Told(o) \/ place[o]["watcher"] = "store"
         \/ Current(o, val[o]["main"])
    /\ client[o].cache # "empty" =>
         \/ "overtaken" \in wrong[o] \/ "unread" \in wrong[o]
         \/ Told(o) \/ place[o]["watcher"] = "store"
         \/ Current(o, client[o].cache)
ClientInv == \A o \in Objs : ClientFine(o)

\* Command n was sent to object o.
SentTo(n, o) == n \in DOMAIN sent /\ sent[n].o = o

\* The command nodes of o are of commands sent to o that no object was given, but for the
\* one that the handler has not yet deleted.
NodesFresh(o) ==
    \A n \in cmds[o] :
        /\ SentTo(n, o)
        /\ sent[n].calls = 0 \/ (handler.at = "delete" /\ handler.cmd = n)

\* The handler works on commands sent to one object.
HandlerWorks ==
    /\ \A n \in handler.list : SentTo(n, handler.o)
    /\ handler.at \in {"execute", "delete"} => SentTo(handler.cmd, handler.o)
    /\ handler.at = "execute" => sent[handler.cmd].calls = 0

\* What is known of the command at the front of the FIFO of o.
Stage(o, n) ==
    \/ /\ engine.at = "publish" /\ Cur = o
       /\ sent[n].fate = "pending" /\ sent[n].times = 1
    \/ /\ engine.at = "pop" /\ Cur = o
       /\ \/ sent[n].fate = "done" /\ sent[n].times = 1
          \/ sent[n].fate = "invalid" /\ sent[n].times = 0
    \/ /\ ~(engine.at \in {"publish", "pop"} /\ Cur = o)
       /\ sent[n].fate = "pending" /\ sent[n].times = 0

\* The FIFO has room for one command.
OneWaits(o) ==
    \/ obj[o].pending = << >>
    \/ /\ obj[o].at = "done"
       /\ \E n \in DOMAIN sent : obj[o].pending = <<n>> /\ sent[n].o = o /\ Stage(o, n)

\* A command that was executed was so once, by an object that was registered.
Executed(n) ==
    /\ sent[n].calls <= 1 /\ sent[n].times <= sent[n].calls
    /\ sent[n].calls = 0 => sent[n].fate \in {"sent", "purged", "gone"}
    /\ sent[n].times = 1 => sent[n].fate \in {"pending", "done"} /\ obj[sent[n].o].at = "done"

CmdFacts ==
    /\ \A o \in Objs : NodesFresh(o)
    /\ \A o \in Objs : OneWaits(o)
    /\ HandlerWorks
    /\ \A n \in DOMAIN sent : Executed(n)
CmdInv == NoLoss => CmdFacts

-----------------------------------------------------------------------------
(* The types hold initially.                                                *)
LEMMA InitTypes == Init => CtrlTypes
<1> SUFFICES ASSUME Init PROVE CtrlTypes
  OBVIOUS
<1>1. budget \in Budget
  <2>1. budget = [losses |-> MaxLosses, unread |-> MaxUnread, errors |-> MaxErrors,
                  sessions |-> MaxExpired]
    BY DEF Init
  <2>2. MaxUnread \in Nat /\ MaxLosses \in Nat /\ MaxErrors \in Nat /\ MaxExpired \in Nat
    BY ControlAssumption
  <2> QED BY <2>1, <2>2 DEF Budget
<1>2. engine \in EngineSt /\ engine.at = "lock" /\ engine.new # "absent"
  <2>1. engine = [at |-> "lock", i |-> 1, new |-> "none"]
    BY DEF Init
  <2> QED BY <2>1 DEF EngineSt, Names
<1>3. handler \in HandlerSt /\ handler.at = "idle"
  BY DEF Init, HandlerSt, Idle
<1>4. obj \in [Objs -> Object] /\ client \in [Objs -> Client]
  <2>1. [at |-> "none", state |-> "undefined", pending |-> << >>] \in Object
    BY DEF Object, Names, Steps
  <2>2. [cache |-> "empty", watch |-> FALSE, events |-> << >>] \in Client
    BY DEF Client, Names
  <2> QED BY <2>1, <2>2 DEF Init
<1>5. node \in [Objs -> Names] /\ cmds \in [Objs -> SUBSET Nat]
  BY DEF Init, Names
<1>6. events \in Seq(Objs) /\ sent \in Seq(Command)
  <2>1. events = << >> /\ sent = << >>
    BY DEF Init
  <2> QED BY <2>1
<1> QED BY <1>1, <1>2, <1>3, <1>4, <1>5, <1>6 DEF CtrlTypes, FrontThere

LEMMA InitReads == Init => ReadTypes
  BY DEF Init, ReadTypes, ClientPlaces, Names

(* A lost call is never forgotten.                                          *)
LEMMA LossRemains ==
    ASSUME NEW b \in Budget, Lose(b) PROVE ~NoLoss'
<1>1. budget' \in Budget /\ budget'.losses < b.losses
  BY LoseTypes
<1> QED BY <1>1, ControlAssumption DEF Budget, NoLoss

(* If nothing was lost after a step, nothing was before it.                 *)
LEMMA NoLossBefore ==
    ASSUME CtrlTypes, [Next]_vars, NoLoss' PROVE NoLoss /\ (expired => expired')
<1> USE DEF dirVars, readVars
<1>0. budget \in Budget
  BY DEF CtrlTypes
<1>1. ASSUME NEW b \in Budget, NEW o, NEW w, NEW ob, Publish(o, w, ob, b) PROVE budget' = b
  BY <1>1, LossRemains DEF Publish
<1>2. budget.errors > 0 =>
        /\ [budget EXCEPT !.errors = @ - 1] \in Budget
        /\ [budget EXCEPT !.errors = @ - 1].losses = budget.losses
  BY <1>0 DEF Budget
<1>3. CASE UNCHANGED vars
  BY <1>3 DEF vars, NoLoss
<1>4. CASE Expire
  BY <1>0, <1>4 DEF Expire, NoLoss, Budget
<1>5. ASSUME NEW o \in Objs, Register(o) PROVE NoLoss /\ expired' = expired
  <2>1. CASE RegisterBegin(o)
    BY <1>0, <2>1, LossRemains DEF RegisterBegin, CreateNode, NoLoss
  <2>2. CASE RegisterSubscribe(o)
    BY <1>0, <2>2, LossRemains DEF RegisterSubscribe, NoLoss
  <2>2a. CASE RegisterPurge(o)
    BY <1>0, <2>2a, LossRemains DEF RegisterPurge, NoLoss
  <2>3. CASE RegisterPublish(o)
    BY <1>0, <2>3, <1>1 DEF RegisterPublish, NoLoss
  <2>4. CASE RegisterEnd(o)
    BY <2>4 DEF RegisterEnd, NoLoss
  <2> QED BY <1>5, <2>1, <2>2, <2>2a, <2>3, <2>4 DEF Register
<1>6. CASE Handler
  <2>1. CASE HandlerList
    BY <1>0, <2>1, LossRemains DEF HandlerList, NoLoss
  <2>2. CASE HandlerEnd
    BY <2>2 DEF HandlerEnd, NoLoss
  <2>3. CASE HandlerDelete
    BY <1>0, <2>3, LossRemains DEF HandlerDelete, NoLoss
  <2>4. ASSUME NEW n, HandlerRead(n) PROVE NoLoss /\ expired' = expired
    BY <1>0, <2>4, LossRemains DEF HandlerRead, NoLoss
  <2>5. CASE HandlerExecute
    BY <2>5 DEF HandlerExecute, NoLoss
  <2> QED BY <1>6, <2>1, <2>2, <2>3, <2>4, <2>5 DEF Handler
<1>7. CASE Engine
  <2>1. CASE EngineLock \/ EngineUnlock \/ EnginePop
    BY <2>1 DEF EngineLock, EngineUnlock, EnginePop, NoLoss
  <2>2. CASE EngineExecute
    <3>1. budget' = budget \/ (budget.errors > 0 /\ budget' = [budget EXCEPT !.errors = @ - 1])
      BY <2>2 DEF EngineExecute
    <3> QED BY <2>2, <3>1, <1>2 DEF EngineExecute, NoLoss
  <2>3. CASE EnginePublish
    BY <1>0, <1>1, <2>3 DEF EnginePublish, NoLoss
  <2>4. CASE EngineIterate
    BY <1>0, <1>1, <1>2, <2>4 DEF EngineIterate, NoLoss
  <2> QED BY <1>7, <2>1, <2>2, <2>3, <2>4 DEF Engine
<1>8. ASSUME NEW o, NEW c, SendCommand(o, c) PROVE NoLoss /\ expired' = expired
  BY <1>8 DEF SendCommand, NoLoss
<1>9. ASSUME NEW n, ClientGone(n) PROVE NoLoss /\ expired' = expired
  BY <1>9 DEF ClientGone, NoLoss
<1>10. ASSUME NEW o \in Objs, ControlClient(o) PROVE NoLoss /\ expired' = expired
  <2>1. expired' = expired
    BY <1>10, ClientSteps
  <2>2. budget'.losses = budget.losses
    BY <1>0, <1>10, ClientSteps, UnreadTypes
  <2> QED BY <2>1, <2>2 DEF NoLoss
<1> QED BY <1>3, <1>4, <1>5, <1>6, <1>7, <1>8, <1>9, <1>10 DEF Next

(* What updateState() does when no call is lost.                            *)
LEMMA PublishEffect ==
    ASSUME NEW o, NEW w, NEW ob, NEW b \in Budget, Publish(o, w, ob, b), NoLoss', ~expired
    PROVE  /\ obj' = [ob EXCEPT ![o].state = w]
           /\ \/ node[o] # "absent" /\ node' = [node EXCEPT ![o] = w]
              \/ node[o] = "absent" /\ node' = node
  BY LossRemains DEF Publish, Changed

(* PubInv holds after every step.                                           *)
LEMMA NextPub == CtrlTypes /\ PubInv /\ [Next]_vars => PubInv'
<1> SUFFICES ASSUME CtrlTypes, PubInv, [Next]_vars, NoLoss', ~expired',
                    NEW q \in Objs
             PROVE  Published(q)'
  BY DEF PubInv
<1> USE DEF dirVars, readVars
<1>0. /\ NoLoss /\ ~expired /\ budget \in Budget
      /\ node \in [Objs -> Names] /\ obj \in [Objs -> Object] /\ obj[q] \in Object
      /\ \A o \in Objs : Published(o)
  BY NoLossBefore DEF PubInv, CtrlTypes
<1>1. ASSUME UNCHANGED <<node, obj>> PROVE Published(q)'
  BY <1>0, <1>1 DEF Published
<1>2. ASSUME NEW o \in Objs, Register(o) PROVE Published(q)'
  <2>1. CASE RegisterBegin(o)
    <3>1. node' = [node EXCEPT ![o] = "empty"] /\ obj' = [obj EXCEPT ![o].at = "node"]
      BY <1>0, <2>1, LossRemains DEF RegisterBegin, CreateNode, Changed
    <3> QED BY <1>0, <3>1 DEF Published, Object
  <2>2. CASE RegisterSubscribe(o)
    <3>1. /\ node' = node /\ obj[o].at = "node"
          /\ \E a \in {"purging", "subscribed"} : obj' = [obj EXCEPT ![o].at = a]
      BY <2>2 DEF RegisterSubscribe
    <3> QED BY <1>0, <3>1 DEF Published, Object
  <2>2a. CASE RegisterPurge(o)
    <3>1. /\ node' = node /\ obj[o].at = "purging"
          /\ \E a \in {"purging", "subscribed"} : obj' = [obj EXCEPT ![o].at = a]
      BY <2>2a DEF RegisterPurge
    <3> QED BY <1>0, <3>1 DEF Published, Object
  <2>3. CASE RegisterPublish(o)
    <3> DEFINE ob == [obj EXCEPT ![o].at = "published"]
    <3>1. obj[o].at = "subscribed" /\ Publish(o, "standby", ob, budget)
      BY <2>3 DEF RegisterPublish
    <3>2. node' = [node EXCEPT ![o] = "standby"] /\ obj' = [ob EXCEPT ![o].state = "standby"]
      <4>1. node[o] # "absent"
        BY <1>0, <3>1 DEF Published
      <4> QED BY <1>0, <3>1, <4>1, PublishEffect
    <3> QED BY <1>0, <3>2 DEF Published, Object
  <2>4. CASE RegisterEnd(o)
    <3>1. node' = node /\ obj' = [obj EXCEPT ![o].at = "done"] /\ obj[o].at = "published"
      BY <2>4 DEF RegisterEnd
    <3> QED BY <1>0, <3>1 DEF Published, Object
  <2> QED BY <1>2, <2>1, <2>2, <2>2a, <2>3, <2>4 DEF Register
<1>3. CASE HandlerExecute
  <2> DEFINE n == handler.cmd
  <2>1. node' = node /\ (obj' = obj \/ obj' = [obj EXCEPT ![handler.o].pending = <<n>>])
    BY <1>3 DEF HandlerExecute
  <2>2. obj'[q].at = obj[q].at /\ obj'[q].state = obj[q].state
    <3>1. CASE obj' = obj
      BY <3>1
    <3>2. CASE obj' = [obj EXCEPT ![handler.o].pending = <<n>>] /\ handler.o = q
      <4>1. obj'[q] = [obj[q] EXCEPT !.pending = <<n>>]
        BY <1>0, <3>2
      <4> QED BY <1>0, <4>1 DEF Object
    <3>3. CASE obj' = [obj EXCEPT ![handler.o].pending = <<n>>] /\ handler.o # q
      BY <1>0, <3>3
    <3> QED BY <2>1, <3>1, <3>2, <3>3
  <2> QED BY <1>0, <2>1, <2>2 DEF Published
<1>4. ASSUME NEW o \in Objs, NEW w, NEW b \in Budget, Publish(o, w, obj, b), w # "absent"
      PROVE  Published(q)'
  <2>1. /\ obj' = [obj EXCEPT ![o].state = w]
        /\ \/ node[o] # "absent" /\ node' = [node EXCEPT ![o] = w]
           \/ node[o] = "absent" /\ node' = node
    BY <1>0, <1>4, PublishEffect
  <2> QED BY <1>0, <1>4, <2>1 DEF Published, Object
<1>5. CASE Engine
  <2>1. CASE EngineLock \/ EngineUnlock \/ EngineExecute
    BY <1>1, <2>1 DEF EngineLock, EngineUnlock, EngineExecute
  <2>2. CASE EnginePublish
    BY <1>0, <1>4, <2>2, CurIsObject DEF EnginePublish, CtrlTypes
  <2>3. CASE EnginePop
    <3>1. node' = node /\ obj' = [obj EXCEPT ![Cur].pending = Tail(@)]
      BY <2>3 DEF EnginePop
    <3> QED BY <1>0, <3>1 DEF Published, Object
  <2>4. CASE EngineIterate
    <3>1. budget.errors > 0 => [budget EXCEPT !.errors = @ - 1] \in Budget
      BY <1>0 DEF Budget
    <3>2. Cur \in Objs
      BY <2>4, CurIsObject DEF EngineIterate, CtrlTypes
    <3> QED BY <1>1, <1>4, <2>4, <3>1, <3>2 DEF EngineIterate
  <2> QED BY <1>5, <2>1, <2>2, <2>3, <2>4 DEF Engine
<1>6. CASE UNCHANGED vars \/ HandlerList \/ HandlerEnd \/ HandlerDelete
  BY <1>1, <1>6 DEF vars, HandlerList, HandlerEnd, HandlerDelete
<1>7. ASSUME NEW n, HandlerRead(n) \/ ClientGone(n) PROVE Published(q)'
  BY <1>1, <1>7 DEF HandlerRead, ClientGone
<1>8. ASSUME NEW o \in Objs, NEW c, SendCommand(o, c) PROVE Published(q)'
  BY <1>1, <1>8 DEF SendCommand
<1>9. ASSUME NEW o \in Objs, ControlClient(o) PROVE Published(q)'
  BY <1>1, <1>9, ClientSteps
<1> QED BY <1>2, <1>3, <1>5, <1>6, <1>7, <1>8, <1>9 DEF Next, Handler, Expire

(* The directory shows the state of every registered object, unless the     *)
(* session expired or a call was lost.                                      *)
THEOREM SpecPublishedIsTrue == Spec => []PublishedIsTrue
<1>1. Init => PubInv
  <2> SUFFICES ASSUME Init, NEW o \in Objs PROVE obj[o].at = "none"
    BY DEF PubInv, Published
  <2>1. obj = [p \in Objs |-> [at |-> "none", state |-> "undefined", pending |-> << >>]]
    BY DEF Init
  <2> QED BY <2>1
<1>2. PubInv => PublishedIsTrue
  BY DEF PubInv, Published, PublishedIsTrue
<1> QED BY <1>1, <1>2, InitTypes, InitReads, NextTypes, NextReads, NextPub, PTL DEF Spec

-----------------------------------------------------------------------------
(* A change of the node, of which the client hears if it watches.           *)
LEMMA ClientFineChanged ==
    ASSUME CtrlTypes, ClientInv, NEW q \in Objs, NEW e \in {"created", "changed", "deleted"},
           client'[q] = Notified(client[q], e), UNCHANGED readVars
    PROVE  ClientFine(q)'
<1>1. client[q] \in Client /\ ClientFine(q)
  BY DEF CtrlTypes, ClientInv
<1>2. /\ client'[q].watch = FALSE /\ client'[q].cache = client[q].cache
      /\ client[q].watch => client'[q].events # << >>
      /\ ~client[q].watch => client'[q].events = client[q].events
  <2>1. Append(client[q].events, e) # << >>
    BY <1>1 DEF Client
  <2> QED BY <1>1, <2>1 DEF Notified
<1>3. CASE client[q].watch
  BY <1>2, <1>3 DEF ClientFine, Told
<1>4. CASE ~client[q].watch
  BY <1>1, <1>2, <1>4 DEF ClientFine, Told, Current, readVars
<1> QED BY <1>3, <1>4

(* What a client knows after each of its own steps.                         *)
LEMMA ClientFineStep ==
    ASSUME CtrlTypes, ReadTypes, ClientInv, NEW q \in Objs, ControlClient(q)
    PROVE  ClientFine(q)'
<1>1. /\ client[q] \in Client /\ ClientFine(q) /\ client \in [Objs -> Client]
      /\ val \in [Objs -> [Threads -> Names]]
      /\ wrong \in [Objs -> SUBSET {"late", "unread", "overtaken"}]
      /\ place \in [Objs -> [Threads -> ClientPlaces]]
  BY DEF CtrlTypes, ReadTypes, ClientInv
<1>2. node' = node
  BY ClientSteps DEF dirVars
<1>3. ASSUME NEW t \in Threads, NEW a, NEW b, ClientGoes(q, t, a, b)
      PROVE  /\ place[q][t] = a /\ place'[q][t] = b
             /\ \A u \in Threads : u # t => place'[q][u] = place[q][u]
  BY <1>1, <1>3 DEF ClientGoes
<1>4. Threads = {"main", "watcher"}
  BY DEF Threads
<1>5. CASE ClientSubscribe(q)
  <2>1. /\ place'[q]["main"] = "first" /\ place'[q]["watcher"] = place[q]["watcher"]
        /\ UNCHANGED <<client, val, wrong>>
    BY <1>3, <1>4, <1>5 DEF ClientSubscribe
  <2> QED BY <1>1, <1>2, <2>1 DEF ClientFine, Told, Current
<1>6. CASE ClientHandle(q)
  <2>1. CASE Head(client[q].events) = "changed"
    <3>1. /\ place'[q]["watcher"] = "get" /\ place'[q]["main"] = place[q]["main"]
      BY <1>3, <1>4, <1>6, <2>1 DEF ClientHandle
    <3> QED BY <3>1 DEF ClientFine, Told
  <2>2. CASE Head(client[q].events) # "changed"
    <3>1. /\ place'[q]["watcher"] = "exists" /\ place'[q]["main"] = place[q]["main"]
          /\ client'[q].cache = "empty" /\ Replaced(q)
      <4>1. /\ ClientGoes(q, "watcher", "idle", "exists") /\ Replaced(q)
            /\ client' = [client EXCEPT ![q] = Emptied(@)]
        BY <1>6, <2>2 DEF ClientHandle
      <4>2. client'[q].cache = "empty"
        BY <1>1, <4>1 DEF Emptied
      <4> QED BY <1>3, <1>4, <4>1, <4>2
    <3>2. place[q]["main"] = "store" => "late" \in wrong'[q]
      BY <1>1, <3>1 DEF Replaced
    <3> QED BY <3>1, <3>2 DEF ClientFine
  <2> QED BY <2>1, <2>2
<1>7. CASE ClientGet(q, "main")
  <2>1. place'[q]["watcher"] = place[q]["watcher"] /\ place'[q]["main"] \in {"store", "exists"}
    BY <1>3, <1>4, <1>7 DEF ClientGet
  <2>2. CASE node[q] # "absent" /\ val' = [val EXCEPT ![q]["main"] = node[q]]
             /\ client' = [client EXCEPT ![q].watch = TRUE] /\ UNCHANGED wrong
    <3>1. /\ val'[q]["main"] = node[q] /\ val'[q]["watcher"] = val[q]["watcher"]
          /\ client'[q].watch = TRUE /\ client'[q].cache = client[q].cache
          /\ client'[q].events = client[q].events
      BY <1>1, <1>4, <2>2 DEF Client
    <3> QED BY <1>1, <1>2, <2>1, <2>2, <3>1 DEF ClientFine, Told, Current
  <2>3. CASE place'[q]["main"] = "exists" /\ UNCHANGED <<client, val, wrong>>
    BY <1>1, <1>2, <2>1, <2>3 DEF ClientFine, Told, Current
  <2>4. place'[q]["main"] = "exists" /\ wrong' = [wrong EXCEPT ![q] = @] => wrong' = wrong
    BY <1>1
  <2> QED BY <1>3, <1>4, <1>7, <2>2, <2>3, <2>4 DEF ClientGet
<1>8. CASE ClientGet(q, "watcher")
  <2>1. place'[q]["main"] = place[q]["main"]
    BY <1>3, <1>4, <1>8 DEF ClientGet
  <2>2. CASE ClientGoes(q, "watcher", "get", "store") /\ node[q] # "absent"
             /\ val' = [val EXCEPT ![q]["watcher"] = node[q]]
             /\ client' = [client EXCEPT ![q].watch = TRUE] /\ UNCHANGED wrong
    <3>1. /\ val'[q]["watcher"] = node[q] /\ client'[q].watch = TRUE
          /\ place'[q]["watcher"] = "store"
      BY <1>1, <1>3, <1>4, <2>2 DEF Client
    <3> QED BY <1>2, <3>1 DEF ClientFine, Current
  <2>3. CASE ClientGoes(q, "watcher", "get", "exists")
             /\ wrong' = [wrong EXCEPT ![q] = @ \cup {"unread"}]
    <3>1. place'[q]["watcher"] = "exists" /\ "unread" \in wrong'[q]
      BY <1>1, <1>3, <1>4, <2>3
    <3> QED BY <3>1 DEF ClientFine
  <2> QED BY <1>8, <2>2, <2>3 DEF ClientGet
<1>9. CASE ClientStore(q, "main")
  <2>1. /\ place'[q]["watcher"] = place[q]["watcher"] /\ place[q]["main"] = "store"
        /\ place'[q]["main"] = "done"
    BY <1>3, <1>4, <1>9 DEF ClientStore, ClientEnd
  <2>2. /\ client'[q].cache = val[q]["main"] /\ client'[q].watch = client[q].watch
        /\ client'[q].events = client[q].events /\ val'[q]["watcher"] = val[q]["watcher"]
    BY <1>1, <1>4, <1>9 DEF ClientStore, Client
  <2>3. /\ "late" \in wrong[q] => "overtaken" \in wrong'[q]
        /\ "unread" \in wrong[q] => "unread" \in wrong'[q]
    BY <1>1, <1>9 DEF ClientStore
  <2> QED BY <1>1, <1>2, <2>1, <2>2, <2>3 DEF ClientFine, Told, Current
<1>10. CASE ClientStore(q, "watcher")
  <2>1. /\ place'[q]["main"] = place[q]["main"] /\ place[q]["watcher"] = "store"
        /\ place'[q]["watcher"] = "idle"
    BY <1>3, <1>4, <1>10 DEF ClientStore, ClientEnd
  <2>2. /\ client'[q].cache = val[q]["watcher"] /\ client'[q].watch = client[q].watch
        /\ client'[q].events = client[q].events
    BY <1>1, <1>4, <1>10 DEF ClientStore, Client
  <2>3. place[q]["main"] = "store" => "late" \in wrong'[q]
    BY <1>1, <1>10 DEF ClientStore, Replaced
  <2> QED BY <1>1, <1>2, <2>1, <2>2, <2>3 DEF ClientFine, Told, Current
<1>11. ASSUME NEW t \in Threads, ClientExists(q, t) PROVE ClientFine(q)'
  <2>1. \A u \in Threads : /\ place[q][u] = "get" => place'[q][u] = "get"
                           /\ place[q][u] = "store" <=> place'[q][u] = "store"
    <3>1. \E a \in {"first", "exists"}, b \in {"get", "idle", "done"} : ClientGoes(q, t, a, b)
      BY <1>11 DEF ClientExists, ClientEnd
    <3> QED BY <1>3, <3>1
  <2>2. /\ UNCHANGED <<val, wrong>> /\ client'[q].cache = client[q].cache
        /\ client'[q].events = client[q].events /\ (client[q].watch => client'[q].watch)
    BY <1>1, <1>11 DEF ClientExists, Client
  <2>3. /\ place[q]["watcher"] = "get" => place'[q]["watcher"] = "get"
        /\ place[q]["watcher"] = "store" <=> place'[q]["watcher"] = "store"
        /\ place[q]["main"] = "store" <=> place'[q]["main"] = "store"
    <3>1. "main" \in Threads /\ "watcher" \in Threads
      BY <1>4
    <3> QED BY <2>1, <3>1
  <2> QED BY <1>1, <1>2, <2>2, <2>3 DEF ClientFine, Told, Current
<1> QED BY <1>4, <1>5, <1>6, <1>7, <1>8, <1>9, <1>10, <1>11 DEF ControlClient

(* ClientInv holds after every step.                                        *)
LEMMA NextClient == CtrlTypes /\ ReadTypes /\ ClientInv /\ [Next]_vars => ClientInv'
<1> SUFFICES ASSUME CtrlTypes, ReadTypes, ClientInv, [Next]_vars, NEW q \in Objs
             PROVE  ClientFine(q)'
  BY DEF ClientInv
<1> USE DEF dirVars, readVars
<1>0. node \in [Objs -> Names] /\ client \in [Objs -> Client] /\ client[q] \in Client
  BY DEF CtrlTypes
<1>1. ASSUME node'[q] = node[q], client'[q] = client[q], place'[q] = place[q], val'[q] = val[q],
             wrong'[q] = wrong[q]
      PROVE  ClientFine(q)'
  BY <1>1 DEF ClientInv, ClientFine, Told, Current
<1>2. ASSUME NEW o \in Objs, NEW w \in Names, Changed(o, w), UNCHANGED readVars
      PROVE  ClientFine(q)'
  <2>1. CASE o = q
    BY <1>2, <2>1, ChangedTypes, ClientFineChanged
  <2>2. CASE o # q
    BY <1>0, <1>1, <1>2, <2>2, ChangedTypes
  <2> QED BY <2>1, <2>2
<1>3. ASSUME NEW o \in Objs, NEW w \in Names, NEW ob, NEW b, Publish(o, w, ob, b),
             UNCHANGED readVars
      PROVE  ClientFine(q)'
  BY <1>1, <1>2, <1>3 DEF Publish
<1>4. ASSUME NEW o \in Objs, Register(o) PROVE ClientFine(q)'
  <2>1. CASE RegisterBegin(o)
    BY <1>1, <1>2, <2>1 DEF RegisterBegin, CreateNode, Names
  <2>2. CASE RegisterPublish(o)
    BY <1>3, <2>2 DEF RegisterPublish, Names
  <2>3. CASE RegisterSubscribe(o) \/ RegisterPurge(o) \/ RegisterEnd(o)
    BY <1>1, <2>3 DEF RegisterSubscribe, RegisterPurge, RegisterEnd
  <2> QED BY <1>4, <2>1, <2>2, <2>3 DEF Register
<1>5. CASE Engine
  <2>1. CASE EngineLock \/ EngineUnlock \/ EngineExecute \/ EnginePop
    BY <1>1, <2>1 DEF EngineLock, EngineUnlock, EngineExecute, EnginePop
  <2>2. CASE EnginePublish
    <3>1. engine.new \in Names /\ Cur \in Objs
      BY <2>2, CurIsObject DEF EnginePublish, CtrlTypes, EngineSt
    <3> QED BY <1>3, <2>2, <3>1 DEF EnginePublish
  <2>3. CASE EngineIterate
    <3>1. "error" \in Names /\ Cur \in Objs
      BY <2>3, CurIsObject DEF EngineIterate, CtrlTypes, Names
    <3> QED BY <1>1, <1>3, <2>3, <3>1 DEF EngineIterate
  <2> QED BY <1>5, <2>1, <2>2, <2>3 DEF Engine
<1>6. ASSUME NEW o \in Objs, ControlClient(o) PROVE ClientFine(q)'
  <2>1. CASE o = q
    BY <1>6, <2>1, ClientFineStep
  <2>2. CASE o # q
    <3>1. place'[q] = place[q] /\ val'[q] = val[q] /\ wrong'[q] = wrong[q] /\ client'[q] = client[q]
      BY <1>6, <2>2, ClientApart
    <3>2. node' = node
      BY <1>6, ClientSteps
    <3> QED BY <1>1, <3>1, <3>2
  <2> QED BY <2>1, <2>2
<1>7. CASE Expire
  <2>1. CASE node[q] = "absent"
    BY <1>1, <1>7, <2>1 DEF Expire
  <2>2. CASE node[q] # "absent"
    BY <1>7, <2>2, ClientFineChanged DEF Expire
  <2> QED BY <2>1, <2>2
<1>8. CASE UNCHANGED vars \/ HandlerList \/ HandlerEnd \/ HandlerExecute \/ HandlerDelete
  BY <1>1, <1>8 DEF vars, HandlerList, HandlerEnd, HandlerExecute, HandlerDelete
<1>9. ASSUME NEW n, HandlerRead(n) \/ ClientGone(n) PROVE ClientFine(q)'
  BY <1>1, <1>9 DEF HandlerRead, ClientGone
<1>10. ASSUME NEW o, NEW c, SendCommand(o, c) PROVE ClientFine(q)'
  BY <1>1, <1>10 DEF SendCommand
<1> QED BY <1>4, <1>5, <1>6, <1>7, <1>8, <1>9, <1>10 DEF Next, Handler

(* A client at rest shows what the directory holds, or nothing, unless its   *)
(* last read failed or its first one was stored late: whichever calls fail,  *)
(* and also after the session of the engine has expired.                     *)
THEOREM SpecClientNotMisled == Spec => []ClientNotMisled
<1>1. Init => ClientInv
  <2> SUFFICES ASSUME Init, NEW o \in Objs PROVE ClientFine(o)
    BY DEF ClientInv
  <2>1. client[o].cache = "empty" /\ place[o]["main"] = "idle" /\ place[o]["watcher"] = "idle"
    BY DEF Init, Threads
  <2> QED BY <2>1 DEF ClientFine
<1>2. ClientInv => ClientNotMisled
  BY DEF ClientInv, ClientFine, ClientNotMisled, ClientRests, Told, Current
<1> QED BY <1>1, <1>2, InitTypes, InitReads, NextTypes, NextReads, NextClient, PTL DEF Spec

-----------------------------------------------------------------------------
(* The record of a command.                                                 *)
LEMMA SentFields ==
    ASSUME CtrlTypes, NEW n \in DOMAIN sent
    PROVE  /\ sent[n] \in Command /\ sent[n].o \in Objs
           /\ sent[n].times \in Nat /\ sent[n].calls \in Nat
<1>1. sent \in [1 .. Len(sent) -> Command] /\ DOMAIN sent = 1 .. Len(sent)
  BY DEF CtrlTypes
<1> QED BY <1>1 DEF Command

(* What the mark on one command changes.                                    *)
LEMMA FateEffect ==
    ASSUME CtrlTypes, NEW n \in DOMAIN sent, NEW f, sent' = [sent EXCEPT ![n].fate = f]
    PROVE  /\ DOMAIN sent' = DOMAIN sent
           /\ sent'[n].fate = f /\ sent'[n].o = sent[n].o
           /\ sent'[n].times = sent[n].times /\ sent'[n].calls = sent[n].calls
           /\ \A k \in DOMAIN sent : k # n => sent'[k] = sent[k]
<1>1. sent \in [1 .. Len(sent) -> Command] /\ DOMAIN sent = 1 .. Len(sent)
  BY DEF CtrlTypes
<1>2. sent'[n] = [sent[n] EXCEPT !.fate = f] /\ sent[n] \in Command
  BY <1>1
<1> QED BY <1>1, <1>2 DEF Command

(* What giving one command to its object changes.                           *)
LEMMA CallEffect ==
    ASSUME CtrlTypes, NEW n \in DOMAIN sent, NEW f,
           sent' = [sent EXCEPT ![n] = Called(@, f)]
    PROVE  /\ DOMAIN sent' = DOMAIN sent
           /\ sent'[n].fate = f /\ sent'[n].o = sent[n].o
           /\ sent'[n].times = sent[n].times /\ sent'[n].calls = sent[n].calls + 1
           /\ \A k \in DOMAIN sent : k # n => sent'[k] = sent[k]
<1>1. sent \in [1 .. Len(sent) -> Command] /\ DOMAIN sent = 1 .. Len(sent)
  BY DEF CtrlTypes
<1>2. sent'[n] = Called(sent[n], f) /\ sent[n] \in Command
  BY <1>1
<1> QED BY <1>1, <1>2, CalledFields

(* Counting a command leaves all else of it as it was.                      *)
LEMMA TimesEffect ==
    ASSUME CtrlTypes, NEW n \in DOMAIN sent, sent' = [sent EXCEPT ![n].times = @ + 1]
    PROVE  /\ DOMAIN sent' = DOMAIN sent
           /\ sent'[n].fate = sent[n].fate /\ sent'[n].o = sent[n].o
           /\ sent'[n].times = sent[n].times + 1 /\ sent'[n].calls = sent[n].calls
           /\ \A k \in DOMAIN sent : k # n => sent'[k] = sent[k]
<1>1. sent \in [1 .. Len(sent) -> Command] /\ DOMAIN sent = 1 .. Len(sent)
  BY DEF CtrlTypes
<1>2. sent'[n] = [sent[n] EXCEPT !.times = @ + 1] /\ sent[n] \in Command
  BY <1>1
<1> QED BY <1>1, <1>2 DEF Command

(* A step that leaves the commands, their nodes and the FIFOs alone, and    *)
(* does not begin or end the execution of a command.                        *)
LEMMA QuietStep ==
    ASSUME CtrlTypes, CmdFacts, UNCHANGED <<cmds, sent>>,
           \/ handler' = handler
           \/ handler.at # "delete" /\ handler' = Idle,
           \/ engine' = engine
           \/ engine.at \notin {"publish", "pop"} /\ engine'.at \notin {"publish", "pop"},
           \A o \in Objs : /\ obj'[o].pending = obj[o].pending
                           /\ obj[o].at = "done" => obj'[o].at = "done"
    PROVE  CmdFacts'
<1>1. \A o \in Objs : NodesFresh(o)'
  BY DEF CmdFacts, NodesFresh, SentTo, Idle
<1>2. \A o \in Objs : OneWaits(o)'
  BY DEF CmdFacts, OneWaits, Stage, Cur
<1>3. HandlerWorks'
  BY DEF CmdFacts, HandlerWorks, SentTo, Idle
<1>4. \A n \in DOMAIN sent : Executed(n)'
  BY SentFields DEF CmdFacts, Executed
<1> QED BY <1>1, <1>2, <1>3, <1>4 DEF CmdFacts

(* A command that SubscribeNewChild() purges does not wait in a FIFO.        *)
LEMMA PurgeFacts ==
    ASSUME CtrlTypes, CmdFacts, NEW p \in Objs, RegisterPurge(p), NoLoss'
    PROVE  CmdFacts'
<1>1. PICK n \in purge :
        \/ UNCHANGED <<cmds, sent>>
        \/ /\ cmds' = [cmds EXCEPT ![p] = @ \ {n}]
           /\ sent' = [sent EXCEPT ![n].fate = IF @ = "sent" /\ n \in cmds[p] THEN "purged" ELSE @]
  BY LossRemains DEF RegisterPurge, CtrlTypes, Commanded
<1>2. /\ UNCHANGED <<handler, engine>> /\ obj[p].at = "purging"
      /\ \E a \in {"purging", "subscribed"} : obj' = [obj EXCEPT ![p].at = a]
  BY DEF RegisterPurge
<1>3. \A o \in Objs : /\ obj'[o].pending = obj[o].pending
                      /\ obj[o].at = "done" => obj'[o].at = "done"
  BY <1>2 DEF CtrlTypes, Object
<1>4. /\ DOMAIN sent' = DOMAIN sent
      /\ \A k \in DOMAIN sent :
           /\ sent'[k].o = sent[k].o /\ sent'[k].times = sent[k].times /\ sent'[k].calls = sent[k].calls
           /\ \/ sent'[k].fate = sent[k].fate
              \/ sent[k].fate = "sent" /\ sent'[k].fate = "purged"
  <2>1. CASE sent' = sent
    BY <2>1
  <2>2. CASE n \in DOMAIN sent /\ sent' # sent
    <3>1. sent' = [sent EXCEPT ![n].fate = IF sent[n].fate = "sent" /\ n \in cmds[p] THEN "purged"
                                           ELSE sent[n].fate]
      BY <1>1, <2>2
    <3> QED BY <2>2, <3>1, FateEffect
  <2>3. CASE n \notin DOMAIN sent
    BY <1>1, <2>3 DEF CtrlTypes
  <2> QED BY <2>1, <2>2, <2>3
<1>5. \A o \in Objs : cmds'[o] \subseteq cmds[o]
  BY <1>1 DEF CtrlTypes
<1>6. \A o \in Objs : NodesFresh(o)'
  BY <1>2, <1>4, <1>5 DEF CmdFacts, NodesFresh, SentTo
<1>7. HandlerWorks'
  BY <1>2, <1>4 DEF CmdFacts, HandlerWorks, SentTo
<1>8. \A o \in Objs : OneWaits(o)'
  BY <1>2, <1>3, <1>4 DEF CmdFacts, OneWaits, Stage, Cur
<1>9. \A k \in DOMAIN sent' : Executed(k)'
  BY <1>3, <1>4, SentFields DEF CmdFacts, Executed
<1> QED BY <1>6, <1>7, <1>8, <1>9 DEF CmdFacts

(* The handler reads a command that no object was given.                    *)
LEMMA HandlerReadFacts ==
    ASSUME CtrlTypes, CmdFacts, NEW n, HandlerRead(n), NoLoss'
    PROVE  CmdFacts'
<1>1. /\ handler.at = "get" /\ n \in handler.list /\ UNCHANGED <<cmds, sent, obj, engine>>
      /\ \E a \in {"execute", "delete"} :
           /\ handler' = [handler EXCEPT !.at = a, !.list = @ \ {n}, !.cmd = n]
           /\ a = "execute" => n \in cmds[handler.o]
  BY LossRemains DEF HandlerRead, CtrlTypes, dirVars
<1>2. /\ handler'.cmd = n /\ handler'.o = handler.o /\ handler'.list \subseteq handler.list
      /\ handler'.at \in {"execute", "delete"}
      /\ handler'.at = "execute" => n \in cmds[handler.o]
      /\ handler.o \in Objs
  BY <1>1 DEF CtrlTypes, HandlerSt
<1>3. \A o \in Objs : NodesFresh(o)'
  BY <1>1, <1>2 DEF CmdFacts, NodesFresh, SentTo
<1>4. HandlerWorks'
  BY <1>1, <1>2 DEF CmdFacts, HandlerWorks, NodesFresh, SentTo
<1>5. \A o \in Objs : OneWaits(o)'
  BY <1>1 DEF CmdFacts, OneWaits, Stage, Cur
<1>6. \A k \in DOMAIN sent' : Executed(k)'
  BY <1>1 DEF CmdFacts, Executed
<1> QED BY <1>3, <1>4, <1>5, <1>6 DEF CmdFacts

(* The handler gives it to the object, which ignores it, has no room for it *)
(* or keeps it in its FIFO.                                                 *)
LEMMA HandlerExecuteFacts ==
    ASSUME CtrlTypes, CmdFacts, HandlerExecute
    PROVE  CmdFacts'
<1> DEFINE p == handler.o
           n == handler.cmd
           Given(f) == sent' = [sent EXCEPT ![n] = Called(@, f)]
<1>1. /\ handler.at = "execute" /\ UNCHANGED <<cmds, engine>>
      /\ handler' = [handler EXCEPT !.at = "delete"]
      /\ \/ UNCHANGED <<sent, obj>>
         \/ obj' = obj /\ \E f \in {"ignored", "busy"} : Given(f)
         \/ /\ obj[p].at = "done" /\ obj[p].pending = << >>
            /\ obj' = [obj EXCEPT ![p].pending = <<n>>]
            /\ Given("pending")
  BY DEF HandlerExecute, dirVars
<1>2. handler'.at = "delete" /\ handler'.cmd = n /\ handler'.o = p /\ handler'.list = handler.list
  BY <1>1 DEF CtrlTypes, HandlerSt
<1>3. /\ p \in Objs /\ n \in DOMAIN sent /\ sent[n].o = p
      /\ sent[n].calls = 0 /\ sent[n].times = 0 /\ sent[n].fate \notin {"pending", "done", "invalid"}
  <2>1. p \in Objs /\ n \in DOMAIN sent /\ sent[n].o = p /\ sent[n].calls = 0
    BY <1>1 DEF CtrlTypes, CmdFacts, HandlerWorks, SentTo
  <2> QED BY <2>1, SentFields DEF CmdFacts, Executed
<1>4. CASE UNCHANGED <<sent, obj>>
  <2>1. \A o \in Objs : NodesFresh(o)'
    BY <1>1, <1>2, <1>3, <1>4 DEF CmdFacts, NodesFresh, SentTo
  <2>2. HandlerWorks'
    BY <1>1, <1>2, <1>4 DEF CmdFacts, HandlerWorks, SentTo
  <2> QED BY <1>1, <1>4, <2>1, <2>2 DEF CmdFacts, OneWaits, Stage, Cur, Executed
<1>5. ASSUME NEW f \in {"ignored", "busy", "pending"}, Given(f)
      PROVE  /\ DOMAIN sent' = DOMAIN sent
             /\ sent'[n].fate = f /\ sent'[n].o = p /\ sent'[n].times = 0 /\ sent'[n].calls = 1
             /\ \A k \in DOMAIN sent : k # n => sent'[k] = sent[k]
             /\ \A o \in Objs : NodesFresh(o)'
             /\ HandlerWorks'
  <2>1. /\ DOMAIN sent' = DOMAIN sent
        /\ sent'[n].fate = f /\ sent'[n].o = p /\ sent'[n].times = 0 /\ sent'[n].calls = 1
        /\ \A k \in DOMAIN sent : k # n => sent'[k] = sent[k]
    <3>1. /\ DOMAIN sent' = DOMAIN sent
          /\ sent'[n].fate = f /\ sent'[n].o = sent[n].o
          /\ sent'[n].times = sent[n].times /\ sent'[n].calls = sent[n].calls + 1
          /\ \A k \in DOMAIN sent : k # n => sent'[k] = sent[k]
      <4> HIDE DEF n
      <4> QED BY <1>3, <1>5, CallEffect
    <3> QED BY <1>3, <3>1
  <2>2. \A o \in Objs : NodesFresh(o)'
    BY <1>1, <1>2, <1>3, <2>1 DEF CmdFacts, NodesFresh, SentTo
  <2>3. HandlerWorks'
    BY <1>1, <1>2, <1>3, <2>1 DEF CmdFacts, HandlerWorks, SentTo
  <2> QED BY <2>1, <2>2, <2>3
<1>6. ASSUME NEW f \in {"ignored", "busy"}, Given(f), obj' = obj PROVE CmdFacts'
  <2>1. \A o \in Objs : OneWaits(o)'
    BY <1>1, <1>3, <1>5, <1>6 DEF CmdFacts, OneWaits, Stage, Cur
  <2>2. \A k \in DOMAIN sent' : Executed(k)'
    <3>1. /\ DOMAIN sent' = DOMAIN sent
          /\ sent'[n].fate = f /\ sent'[n].times = 0 /\ sent'[n].calls = 1
          /\ \A k \in DOMAIN sent : k # n => sent'[k] = sent[k]
      BY <1>5, <1>6
    <3> QED BY <1>6, <3>1 DEF CmdFacts, Executed
  <2> QED BY <1>5, <1>6, <2>1, <2>2 DEF CmdFacts
<1>7. CASE /\ obj[p].at = "done" /\ obj[p].pending = << >>
           /\ obj' = [obj EXCEPT ![p].pending = <<n>>]
           /\ Given("pending")
  <2>1. /\ DOMAIN sent' = DOMAIN sent
        /\ sent'[n].fate = "pending" /\ sent'[n].o = p /\ sent'[n].times = 0 /\ sent'[n].calls = 1
        /\ \A k \in DOMAIN sent : k # n => sent'[k] = sent[k]
        /\ \A o \in Objs : NodesFresh(o)'
        /\ HandlerWorks'
    BY <1>5, <1>7
  <2>2. /\ obj'[p].pending = <<n>>
        /\ \A o \in Objs : /\ obj'[o].at = obj[o].at
                           /\ o # p => obj'[o] = obj[o]
    BY <1>3, <1>7 DEF CtrlTypes, Object
  <2>3. ~(engine.at \in {"publish", "pop"} /\ Cur = p)
    BY <1>7 DEF CtrlTypes, FrontThere
  <2>4. ASSUME NEW o \in Objs, o # p PROVE OneWaits(o)'
    BY <1>1, <1>3, <2>1, <2>2, <2>4 DEF CmdFacts, OneWaits, Stage, Cur
  <2>5. ASSUME NEW o \in Objs, o = p PROVE OneWaits(o)'
    <3>1. PICK k \in DOMAIN sent : k = n
      BY <1>3
    <3>2. Stage(o, k)'
      BY <1>1, <2>1, <2>3, <2>5, <3>1 DEF Stage, Cur
    <3>3. obj'[o].at = "done" /\ obj'[o].pending = <<k>>
      BY <1>3, <1>7, <2>2, <2>5, <3>1
    <3>4. k \in DOMAIN sent' /\ sent'[k].o = o
      BY <1>3, <2>1, <2>5, <3>1
    <3> QED BY <3>2, <3>3, <3>4 DEF OneWaits
  <2>6. \A k \in DOMAIN sent' : Executed(k)'
    BY <1>3, <2>1, <2>2, SentFields DEF CmdFacts, Executed
  <2> QED BY <2>1, <2>4, <2>5, <2>6 DEF CmdFacts
<1> QED BY <1>1, <1>4, <1>6, <1>7

(* The handler deletes the node of the command it has read.                 *)
LEMMA HandlerDeleteFacts ==
    ASSUME CtrlTypes, CmdFacts, HandlerDelete, NoLoss'
    PROVE  CmdFacts'
<1>1. /\ handler.at = "delete" /\ UNCHANGED <<sent, obj, engine>>
      /\ handler' = [handler EXCEPT !.at = "get", !.cmd = 0]
      /\ cmds' = [cmds EXCEPT ![handler.o] = @ \ {handler.cmd}]
  BY LossRemains DEF HandlerDelete, CtrlTypes, Commanded
<1>2. handler'.at = "get" /\ handler'.o = handler.o /\ handler'.list = handler.list
  BY <1>1 DEF CtrlTypes, HandlerSt
<1>3. handler.o \in Objs
  BY <1>1 DEF CtrlTypes
<1>4. \A o \in Objs : cmds'[o] = IF o = handler.o THEN cmds[o] \ {handler.cmd} ELSE cmds[o]
  BY <1>1 DEF CtrlTypes
<1>5. \A o \in Objs : NodesFresh(o)'
  <2>1. SentTo(handler.cmd, handler.o)
    BY <1>1 DEF CmdFacts, HandlerWorks
  <2> QED BY <1>1, <1>3, <1>4, <2>1 DEF CmdFacts, NodesFresh, SentTo
<1>6. HandlerWorks'
  BY <1>1, <1>2 DEF CmdFacts, HandlerWorks, SentTo
<1>7. \A o \in Objs : OneWaits(o)'
  BY <1>1 DEF CmdFacts, OneWaits, Stage, Cur
<1>8. \A n \in DOMAIN sent' : Executed(n)'
  BY <1>1 DEF CmdFacts, Executed
<1> QED BY <1>5, <1>6, <1>7, <1>8 DEF CmdFacts

(* The handler lists the command nodes of one object.                       *)
LEMMA HandlerListFacts ==
    ASSUME CtrlTypes, CmdFacts, HandlerList, NoLoss'
    PROVE  CmdFacts'
<1>1. /\ handler.at = "idle" /\ UNCHANGED <<cmds, sent, obj, engine>> /\ Head(events) \in Objs
      /\ handler' = [at |-> "get", o |-> Head(events), list |-> cmds[Head(events)], cmd |-> 0]
  <2>1. Head(events) \in Objs /\ budget \in Budget
    BY DEF HandlerList, CtrlTypes
  <2>2. handler.at = "idle" /\ UNCHANGED <<cmds, sent, obj, engine>>
    BY DEF HandlerList
  <2>3. handler' = [Idle EXCEPT !.at = "get", !.o = Head(events), !.list = cmds[Head(events)]]
    BY <2>1, LossRemains DEF HandlerList
  <2> QED BY <2>1, <2>2, <2>3 DEF Idle
<1>2. \A o \in Objs : NodesFresh(o)'
  BY <1>1 DEF CmdFacts, NodesFresh, SentTo
<1>3. HandlerWorks'
  BY <1>1 DEF CmdFacts, NodesFresh, HandlerWorks, SentTo
<1>4. \A o \in Objs : OneWaits(o)'
  BY <1>1 DEF CmdFacts, OneWaits, Stage, Cur
<1>5. \A n \in DOMAIN sent' : Executed(n)'
  BY <1>1 DEF CmdFacts, Executed
<1> QED BY <1>2, <1>3, <1>4, <1>5 DEF CmdFacts

(* A new command.                                                           *)
LEMMA SendCommandFacts ==
    ASSUME CtrlTypes, CmdFacts, NEW p \in Objs, NEW c \in Commands, SendCommand(p, c)
    PROVE  CmdFacts'
<1> DEFINE m == Len(sent) + 1
           new == [cmd |-> c, o |-> p, fate |-> "sent", calls |-> 0, times |-> 0]
<1>1. UNCHANGED <<handler, obj, engine>> /\ sent' = Append(sent, new)
  BY DEF SendCommand
<1>2. \A o \in Objs : cmds'[o] = IF o = p THEN cmds[o] \cup {m} ELSE cmds[o]
  BY DEF SendCommand, Commanded, CtrlTypes
<1>3. /\ DOMAIN sent' = DOMAIN sent \cup {m} /\ m \notin DOMAIN sent
      /\ sent'[m] = new
      /\ \A k \in DOMAIN sent : sent'[k] = sent[k]
  <2>1. Len(sent) \in Nat /\ DOMAIN sent = 1 .. Len(sent) /\ sent \in Seq(Command)
    BY DEF CtrlTypes
  <2>2. new \in Command
    BY DEF Command, Fates
  <2>3. /\ DOMAIN sent' = 1 .. m /\ sent'[m] = new
        /\ \A k \in 1 .. Len(sent) : sent'[k] = sent[k]
    BY <1>1, <2>1, <2>2
  <2> QED BY <2>1, <2>3
<1> HIDE DEF m
<1>4. ASSUME NEW o \in Objs PROVE NodesFresh(o)'
  <2> SUFFICES ASSUME NEW k \in cmds'[o]
               PROVE  /\ k \in DOMAIN sent' /\ sent'[k].o = o
                      /\ sent'[k].calls = 0 \/ (handler.at = "delete" /\ handler.cmd = k)
    BY <1>1 DEF NodesFresh, SentTo
  <2>1. CASE k \in cmds[o]
    BY <1>3, <2>1 DEF CmdFacts, NodesFresh, SentTo
  <2>2. CASE o = p /\ k = m
    BY <1>3, <2>2
  <2> QED BY <1>2, <2>1, <2>2
<1>5. HandlerWorks'
  BY <1>1, <1>3 DEF CmdFacts, HandlerWorks, SentTo
<1>6. \A o \in Objs : OneWaits(o)'
  BY <1>1, <1>3 DEF CmdFacts, OneWaits, Stage, Cur
<1>7. \A n \in DOMAIN sent' : Executed(n)'
  BY <1>1, <1>3 DEF CmdFacts, Executed
<1> QED BY <1>4, <1>5, <1>6, <1>7 DEF CmdFacts

(* A client goes, and its command with it.                                  *)
LEMMA ClientGoneFacts ==
    ASSUME CtrlTypes, CmdFacts, NEW n, ClientGone(n)
    PROVE  CmdFacts'
<1>1. /\ UNCHANGED <<handler, obj, engine>> /\ n \in DOMAIN sent /\ sent[n].fate = "sent"
      /\ sent' = [sent EXCEPT ![n].fate = "gone"]
  BY DEF ClientGone
<1>2. sent[n].times # 1
  BY <1>1 DEF CmdFacts, Executed
<1>3. \A o \in Objs : cmds'[o] = IF o = sent[n].o THEN cmds[o] \ {n} ELSE cmds[o]
  BY DEF ClientGone, Commanded, CtrlTypes
<1>4. /\ DOMAIN sent' = DOMAIN sent
      /\ sent'[n].fate = "gone" /\ sent'[n].o = sent[n].o
      /\ sent'[n].times = sent[n].times /\ sent'[n].calls = sent[n].calls
      /\ \A k \in DOMAIN sent : k # n => sent'[k] = sent[k]
  BY <1>1, <1>2, FateEffect
<1>5. \A o \in Objs : NodesFresh(o)'
  <2> SUFFICES ASSUME NEW o \in Objs, NEW k \in cmds'[o]
               PROVE  /\ k \in DOMAIN sent' /\ sent'[k].o = o
                      /\ sent'[k].calls = 0 \/ (handler.at = "delete" /\ handler.cmd = k)
    BY <1>1 DEF NodesFresh, SentTo
  <2>1. k \in cmds[o] /\ SentTo(k, o)
    BY <1>3 DEF CmdFacts, NodesFresh
  <2>2. k # n
    BY <1>3, <2>1 DEF SentTo
  <2> QED BY <1>4, <2>1, <2>2 DEF CmdFacts, NodesFresh, SentTo
<1>6. HandlerWorks'
  BY <1>1, <1>4 DEF CmdFacts, HandlerWorks, SentTo
<1>7. \A o \in Objs : OneWaits(o)'
  BY <1>1, <1>4 DEF CmdFacts, OneWaits, Stage, Cur
<1>8. \A k \in DOMAIN sent' : Executed(k)'
  BY <1>1, <1>4 DEF CmdFacts, Executed
<1> QED BY <1>5, <1>6, <1>7, <1>8 DEF CmdFacts

(* The engine begins with the command at the front of a FIFO.               *)
LEMMA EngineExecuteFacts ==
    ASSUME CtrlTypes, CmdFacts, EngineExecute
    PROVE  CmdFacts'
<1>1. engine.at = "front" /\ engine.i \in 1 .. Len(Objects) /\ UNCHANGED <<cmds, handler, obj>>
  <2>1. engine.i \in Nat \ {0} /\ engine.i <= Registered
    BY DEF EngineExecute, CtrlTypes, EngineSt
  <2>2. Len(Objects) \in Nat
    BY ControlAssumption
  <2>3. engine.at = "front" /\ UNCHANGED <<cmds, handler, obj>>
    BY DEF EngineExecute, dirVars
  <2> QED BY <2>1, <2>2, <2>3, RegisteredBound
<1>2. Cur \in Objs
  BY <1>1, CurIsObject
<1>3. CASE obj[Cur].pending = << >>
  <2>1. engine' = [engine EXCEPT !.at = "iterate"] /\ sent' = sent
    BY <1>3 DEF EngineExecute
  <2>2. engine'.at = "iterate"
    BY <2>1 DEF CtrlTypes, EngineSt
  <2> QED BY <1>1, <2>1, <2>2, QuietStep
<1>4. CASE obj[Cur].pending # << >>
  <2>1. PICK n \in DOMAIN sent :
          /\ obj[Cur].pending = <<n>> /\ sent[n].o = Cur
          /\ sent[n].fate = "pending" /\ sent[n].times = 0
          /\ obj[Cur].at = "done"
    BY <1>1, <1>2, <1>4 DEF CmdFacts, OneWaits, Stage
  <2>2. \/ /\ \E w : engine' = [engine EXCEPT !.at = "publish", !.new = w]
           /\ sent' = [sent EXCEPT ![n].times = @ + 1]
        \/ /\ engine' = [engine EXCEPT !.at = "pop"]
           /\ sent' = [sent EXCEPT ![n].fate = "invalid"]
    <3>1. Head(obj[Cur].pending) = n
      BY <2>1
    <3> QED BY <1>4, <3>1 DEF EngineExecute
  <2>3. /\ engine'.i = engine.i
        /\ \/ engine'.at = "publish" /\ sent' = [sent EXCEPT ![n].times = @ + 1]
           \/ engine'.at = "pop" /\ sent' = [sent EXCEPT ![n].fate = "invalid"]
    BY <2>2 DEF CtrlTypes, EngineSt
  <2>4. /\ DOMAIN sent' = DOMAIN sent /\ sent'[n].o = Cur /\ sent'[n].calls = sent[n].calls
        /\ \A k \in DOMAIN sent : k # n => sent'[k] = sent[k]
        /\ \/ engine'.at = "publish" /\ sent'[n].times = 1 /\ sent'[n].fate = "pending"
           \/ engine'.at = "pop" /\ sent'[n].times = 0 /\ sent'[n].fate = "invalid"
    BY <2>1, <2>3, FateEffect, TimesEffect
  <2>5. Cur' = Cur
    BY <2>3 DEF Cur
  <2>6. ASSUME NEW o \in Objs PROVE NodesFresh(o)'
    BY <1>1, <2>1, <2>4 DEF CmdFacts, NodesFresh, SentTo
  <2>7. HandlerWorks'
    BY <1>1, <2>1, <2>4 DEF CmdFacts, HandlerWorks, SentTo
  <2>8. ASSUME NEW o \in Objs PROVE OneWaits(o)'
    <3>1. CASE o = Cur
      <4>1. Stage(o, n)'
        BY <2>4, <2>5, <3>1 DEF Stage
      <4> QED BY <1>1, <2>1, <2>4, <3>1, <4>1 DEF OneWaits
    <3>2. CASE o # Cur
      BY <1>1, <2>1, <2>4, <2>5, <3>2 DEF CmdFacts, OneWaits, Stage
    <3> QED BY <3>1, <3>2
  <2>9. \A k \in DOMAIN sent' : Executed(k)'
    <3>1. sent[n].calls = 1
      BY <2>1, SentFields DEF CmdFacts, Executed
    <3>2. Executed(n)'
      BY <1>1, <2>1, <2>4, <3>1 DEF Executed
    <3> QED BY <1>1, <2>4, <3>2 DEF CmdFacts, Executed
  <2> QED BY <2>6, <2>7, <2>8, <2>9 DEF CmdFacts
<1> QED BY <1>3, <1>4

(* The new state of the object is published.                                *)
LEMMA EnginePublishFacts ==
    ASSUME CtrlTypes, CmdFacts, EnginePublish
    PROVE  CmdFacts'
<1>1. /\ engine.at = "publish" /\ Cur \in Objs /\ UNCHANGED <<cmds, handler>>
      /\ sent' = [sent EXCEPT ![Head(obj[Cur].pending)].fate = "done"]
      /\ engine' = [engine EXCEPT !.at = "pop", !.new = "none"]
      /\ obj' = [obj EXCEPT ![Cur].state = engine.new]
  BY CurIsObject DEF EnginePublish, Publish, CtrlTypes
<1>2. \A o \in Objs : obj'[o].pending = obj[o].pending /\ obj'[o].at = obj[o].at
  BY <1>1 DEF CtrlTypes, Object
<1>3. engine'.i = engine.i /\ engine'.at = "pop" /\ Cur' = Cur
  BY <1>1 DEF CtrlTypes, EngineSt, Cur
<1>4. PICK n \in DOMAIN sent :
        /\ obj[Cur].pending = <<n>> /\ sent[n].o = Cur
        /\ sent[n].fate = "pending" /\ sent[n].times = 1
        /\ obj[Cur].at = "done"
  BY <1>1 DEF CtrlTypes, FrontThere, CmdFacts, OneWaits, Stage
<1>5. /\ DOMAIN sent' = DOMAIN sent /\ sent'[n].o = Cur /\ sent'[n].calls = sent[n].calls
      /\ sent'[n].times = 1 /\ sent'[n].fate = "done"
      /\ \A k \in DOMAIN sent : k # n => sent'[k] = sent[k]
  <2>1. Head(obj[Cur].pending) = n
    BY <1>4
  <2> QED BY <1>1, <1>4, <2>1, FateEffect
<1>6. ASSUME NEW o \in Objs PROVE NodesFresh(o)'
  BY <1>1, <1>4, <1>5 DEF CmdFacts, NodesFresh, SentTo
<1>7. HandlerWorks'
  BY <1>1, <1>4, <1>5 DEF CmdFacts, HandlerWorks, SentTo
<1>8. ASSUME NEW o \in Objs PROVE OneWaits(o)'
  <2>1. CASE o = Cur
    <3>1. Stage(o, n)'
      BY <1>3, <1>5, <2>1 DEF Stage
    <3> QED BY <1>2, <1>4, <1>5, <2>1, <3>1 DEF OneWaits
  <2>2. CASE o # Cur
    <3>1. CASE obj[o].pending = << >>
      BY <1>2, <3>1 DEF OneWaits
    <3>2. CASE obj[o].pending # << >>
      <4>1. PICK m \in DOMAIN sent : /\ obj[o].pending = <<m>> /\ sent[m].o = o /\ Stage(o, m)
                                     /\ obj[o].at = "done"
        BY <3>2 DEF CmdFacts, OneWaits
      <4>2. sent'[m] = sent[m]
        BY <1>4, <1>5, <2>2, <4>1
      <4>3. Stage(o, m)'
        BY <1>1, <1>3, <2>2, <4>1, <4>2 DEF Stage
      <4> QED BY <1>2, <1>5, <4>1, <4>2, <4>3 DEF OneWaits
    <3> QED BY <3>1, <3>2
  <2> QED BY <2>1, <2>2
<1>9. \A k \in DOMAIN sent' : Executed(k)'
  <2>1. sent[n].calls = 1
    BY <1>4, SentFields DEF CmdFacts, Executed
  <2>2. Executed(n)'
    <3>1. Cur \in Objs /\ obj'[sent'[n].o].at = "done"
      BY <1>1, <1>2, <1>4, <1>5
    <3>2. sent'[n].calls = 1 /\ sent'[n].times = 1 /\ sent'[n].fate = "done"
      BY <1>5, <2>1
    <3> QED BY <3>1, <3>2 DEF Executed
  <2>3. ASSUME NEW k \in DOMAIN sent, k # n PROVE Executed(k)'
    BY <1>2, <1>5, <2>3, SentFields DEF CmdFacts, Executed
  <2> QED BY <1>5, <2>2, <2>3
<1> QED BY <1>6, <1>7, <1>8, <1>9 DEF CmdFacts

(* The command leaves the FIFO.                                             *)
LEMMA EnginePopFacts ==
    ASSUME CtrlTypes, CmdFacts, EnginePop
    PROVE  CmdFacts'
<1>1. /\ engine.at = "pop" /\ Cur \in Objs /\ UNCHANGED <<cmds, handler, sent>>
      /\ engine' = [engine EXCEPT !.at = "iterate"]
      /\ obj' = [obj EXCEPT ![Cur].pending = Tail(@)]
  BY CurIsObject DEF EnginePop, CtrlTypes, dirVars
<1>2. engine'.at = "iterate"
  BY <1>1 DEF CtrlTypes, EngineSt
<1>3. obj'[Cur].pending = << >>
  <2>1. PICK n \in DOMAIN sent : obj[Cur].pending = <<n>>
    BY <1>1 DEF CtrlTypes, FrontThere, CmdFacts, OneWaits
  <2>2. Tail(obj[Cur].pending) = << >>
    BY <2>1
  <2> QED BY <1>1, <2>2 DEF CtrlTypes, Object
<1>4. \A o \in Objs : obj'[o].at = obj[o].at /\ (o # Cur => obj'[o] = obj[o])
  BY <1>1 DEF CtrlTypes, Object
<1>5. ASSUME NEW o \in Objs PROVE OneWaits(o)'
  BY <1>1, <1>2, <1>3, <1>4 DEF CmdFacts, OneWaits, Stage
<1>6. ASSUME NEW o \in Objs PROVE NodesFresh(o)'
  BY <1>1 DEF CmdFacts, NodesFresh, SentTo
<1>7. HandlerWorks'
  BY <1>1 DEF CmdFacts, HandlerWorks, SentTo
<1>8. \A k \in DOMAIN sent' : Executed(k)'
  BY <1>1, <1>4, SentFields DEF CmdFacts, Executed
<1> QED BY <1>5, <1>6, <1>7, <1>8 DEF CmdFacts

(* CmdInv holds after every step.                                           *)
LEMMA NextCmd == CtrlTypes /\ CmdInv /\ [Next]_vars => CmdInv'
<1> SUFFICES ASSUME CtrlTypes, CmdInv, [Next]_vars, NoLoss' PROVE CmdFacts'
  BY DEF CmdInv
<1> USE DEF dirVars, readVars
<1>0. CmdFacts
  BY NoLossBefore DEF CmdInv
<1>1. CASE UNCHANGED vars \/ Expire
  BY <1>0, <1>1, QuietStep DEF vars, Expire
<1>2. ASSUME NEW o \in Objs, Register(o) PROVE CmdFacts'
  <2>1. CASE RegisterBegin(o)
    <3>1. \A q \in Objs : /\ obj'[q].pending = obj[q].pending
                          /\ obj[q].at = "done" => obj'[q].at = "done"
      BY <2>1 DEF RegisterBegin, CtrlTypes, Object
    <3> QED BY <1>0, <2>1, <3>1, QuietStep DEF RegisterBegin
  <2>2. CASE RegisterSubscribe(o)
    <3>1. \A q \in Objs : /\ obj'[q].pending = obj[q].pending
                          /\ obj[q].at = "done" => obj'[q].at = "done"
      BY <2>2 DEF RegisterSubscribe, CtrlTypes, Object
    <3> QED BY <1>0, <2>2, <3>1, QuietStep DEF RegisterSubscribe
  <2>2a. CASE RegisterPurge(o)
    BY <1>0, <2>2a, PurgeFacts
  <2>3. CASE RegisterPublish(o)
    <3>1. \A q \in Objs : /\ obj'[q].pending = obj[q].pending
                          /\ obj[q].at = "done" => obj'[q].at = "done"
      BY <2>3 DEF RegisterPublish, Publish, CtrlTypes, Object
    <3> QED BY <1>0, <2>3, <3>1, QuietStep DEF RegisterPublish
  <2>4. CASE RegisterEnd(o)
    <3>1. \A q \in Objs : /\ obj'[q].pending = obj[q].pending
                          /\ obj[q].at = "done" => obj'[q].at = "done"
      BY <2>4 DEF RegisterEnd, CtrlTypes, Object
    <3> QED BY <1>0, <2>4, <3>1, QuietStep DEF RegisterEnd
  <2> QED BY <1>2, <2>1, <2>2, <2>2a, <2>3, <2>4 DEF Register
<1>3. CASE Handler
  <2>1. CASE HandlerEnd
    BY <1>0, <2>1, QuietStep DEF HandlerEnd
  <2> QED BY <1>0, <1>3, <2>1, HandlerListFacts, HandlerReadFacts, HandlerExecuteFacts,
             HandlerDeleteFacts
          DEF Handler
<1>4. CASE Engine
  <2>1. CASE EngineLock \/ EngineUnlock
    <3>1. /\ engine.at \notin {"publish", "pop"} /\ engine'.at \notin {"publish", "pop"}
          /\ UNCHANGED <<cmds, sent, handler, obj>>
      BY <2>1 DEF EngineLock, EngineUnlock, CtrlTypes, EngineSt
    <3> QED BY <1>0, <3>1, QuietStep
  <2>2. CASE EngineIterate
    <3>1. /\ engine.at \notin {"publish", "pop"} /\ engine'.at \notin {"publish", "pop"}
          /\ UNCHANGED <<cmds, sent, handler>>
      BY <2>2 DEF EngineIterate, CtrlTypes, EngineSt
    <3>2. obj' = obj \/ obj' = [obj EXCEPT ![Cur].state = "error"]
      BY <2>2 DEF EngineIterate, Publish
    <3>3. \A q \in Objs : obj'[q].pending = obj[q].pending /\ obj'[q].at = obj[q].at
      <4>1. CASE obj' = obj
        BY <4>1
      <4>2. CASE obj' = [obj EXCEPT ![Cur].state = "error"]
        <5>1. Cur \in Objs
          BY <2>2, CurIsObject DEF EngineIterate, CtrlTypes
        <5> QED BY <4>2, <5>1 DEF CtrlTypes, Object
      <4> QED BY <3>2, <4>1, <4>2
    <3> QED BY <1>0, <3>1, <3>3, QuietStep
  <2> QED BY <1>0, <1>4, <2>1, <2>2, EngineExecuteFacts, EnginePublishFacts, EnginePopFacts
          DEF Engine
<1>5. ASSUME NEW o \in Objs, ControlClient(o) PROVE CmdFacts'
  BY <1>0, <1>5, ClientSteps, QuietStep
<1> QED BY <1>0, <1>1, <1>2, <1>3, <1>4, <1>5, SendCommandFacts, ClientGoneFacts DEF Next

(* While no call is lost, a command is executed at most once and never      *)
(* after it was refused.                                                    *)
THEOREM SpecCommandOnce == Spec => []CommandOnce
<1>1. Init => CmdInv
  <2> SUFFICES ASSUME Init PROVE CmdFacts
    BY DEF CmdInv
  <2>1. /\ sent = << >> /\ cmds = [o \in Objs |-> {}] /\ handler = Idle
        /\ obj = [o \in Objs |-> [at |-> "none", state |-> "undefined", pending |-> << >>]]
    BY DEF Init
  <2> QED BY <2>1 DEF CmdFacts, NodesFresh, OneWaits, HandlerWorks, Executed, Idle
<1>2. CmdInv => CommandOnce
  BY DEF CmdInv, CmdFacts, Executed, CommandOnce
<1> QED BY <1>1, <1>2, InitTypes, InitReads, NextTypes, NextReads, NextCmd, PTL DEF Spec

-----------------------------------------------------------------------------
(***************************************************************************)
(* Zdaq.                                                                   *)
(***************************************************************************)

\* Where the thread of a module can be.
Places == {"none", "created", "cancelled", "loop", "item", "write", "wait", "drop", "flush", "flushed",
           "waitflush", "ended"}

\* What the proofs need of the types.
RefTypes ==
    /\ status \in [Modules -> {"NOT_READY", "READY", "RUNNING", "STOPPED", "ERROR", "DEAD"}]
    /\ control \in [Modules -> {"idle", "stop"}]
    /\ thread \in [Modules -> Places]
    /\ th_do_stop \in [Modules -> BOOLEAN]
    /\ runs \in [Modules -> Nat]
    /\ fifo \in Nat /\ nRef \in Int /\ leaked \in Nat
    /\ destructor \in {"no", "dereferenced", "waits", "stopped", "done"}
    /\ outlived \in BOOLEAN

(* A module has a thread while it is RUNNING, and only then STOP waits.      *)
(* Only the destructor of the producer takes the thread of a RUNNING module. *)
ThreadWhileRunning ==
    /\ \A m \in Modules : control[m] = "stop" => status[m] = "RUNNING"
    /\ thread["consumer"] = "none" <=> status["consumer"] # "RUNNING"
    /\ thread["consumer"] # "cancelled"
    /\ status["producer"] \notin {"RUNNING", "DEAD"} => thread["producer"] \in {"none", "cancelled"}

One(b) == IF b THEN 1 ELSE 0

(* The count of the event is what it stands for: the producer's own          *)
(* reference, those in the FIFO, the one in the hand of each thread, and     *)
(* those that were lost.  It is deleted at 0, and only a do_loop() that goes *)
(* on meanwhile counts on.                                                   *)
RefsCounted ==
    /\ nRef = fifo + leaked
                + One(destructor = "no")
                + One(thread["producer"] \in {"write", "wait"})
                + One(thread["consumer"] \in {"drop", "flushed"})
    /\ freed => nRef = 0 \/ outlived
    /\ outlived => destructor # "no"
    /\ destructor # "no" /\ thread["producer"] \in {"item", "write", "wait"} => outlived

RefInv == RefTypes /\ ThreadWhileRunning /\ RefsCounted
-----------------------------------------------------------------------------
(* What a command other than STOP does to its module.                        *)
LEMMA CommandEffect ==
    ASSUME NEW m \in Modules, NEW t \in ZdaqTransitions, ExecuteZdaqCommand(m, t)
    PROVE  \/ /\ status[m] = "READY" /\ status' = [status EXCEPT ![m] = "RUNNING"]
              /\ thread' = [thread EXCEPT ![m] = "created"]
              /\ runs' = [runs EXCEPT ![m] = @ + 1]
              /\ quiet' = (quiet /\ m = "consumer")
           \/ /\ status[m] \notin {"RUNNING", "DEAD"}
              /\ status' \in {[status EXCEPT ![m] = s] : s \in {"READY", "NOT_READY"}}
              /\ UNCHANGED <<thread, runs, quiet>>
<1>1. CASE t = <<"START", "READY", "RUNNING">>
  BY <1>1 DEF ExecuteZdaqCommand
<1>2. CASE t # <<"START", "READY", "RUNNING">>
  <2>1. /\ t[1] # "START" /\ t[2] \notin {"RUNNING", "DEAD"} /\ t[3] \in {"READY", "NOT_READY"}
    BY <1>2 DEF ZdaqTransitions
  <2> QED BY <2>1 DEF ExecuteZdaqCommand
<1> QED BY <1>1, <1>2

(* The threads and the commands of the modules never disagree.               *)
LEMMA NextThreadWhileRunning ==
    RefTypes /\ ThreadWhileRunning /\ [ZdaqNext]_zdaqVars => RefTypes' /\ ThreadWhileRunning'
<1> SUFFICES ASSUME RefTypes, ThreadWhileRunning, [ZdaqNext]_zdaqVars
             PROVE  RefTypes' /\ ThreadWhileRunning'
  OBVIOUS
<1> USE DEF RefTypes, Places, ThreadWhileRunning, Modules, eventVars, commandVars, deleteVars, Goto
<1>1. ASSUME NEW m \in Modules, NEW t \in ZdaqTransitions, ExecuteZdaqCommand(m, t)
      PROVE  RefTypes' /\ ThreadWhileRunning'
  <2>1. /\ UNCHANGED <<control, th_do_stop, i, fifo, eventVars, failures, deleteVars>>
        /\ control[m] = "idle"
    BY <1>1 DEF ExecuteZdaqCommand
  <2> QED BY <1>1, <2>1, CommandEffect
<1>2. ASSUME NEW m \in Modules, CommandFails(m) PROVE RefTypes' /\ ThreadWhileRunning'
  BY <1>2 DEF CommandFails
<1>3. ASSUME NEW m \in Modules, StopBegin(m) PROVE RefTypes' /\ ThreadWhileRunning'
  BY <1>3 DEF StopBegin
<1>4. ASSUME NEW m \in Modules, StopEnd(m) PROVE RefTypes' /\ ThreadWhileRunning'
  BY <1>4 DEF StopEnd
<1>5. CASE DestroyProducer
  BY <1>5 DEF DestroyProducer, Dereference
<1>5a. CASE DestroyStop
  BY <1>5a DEF DestroyStop
<1>5b. CASE DestroyJoin
  BY <1>5b DEF DestroyJoin, LoseReference
<1>5c. CASE DestroyEnd
  BY <1>5c DEF DestroyEnd
<1>6. ASSUME NEW m \in Modules, ThreadStart(m) \/ ThreadLoop(m)
      PROVE  RefTypes' /\ ThreadWhileRunning'
  <2>1. CASE ThreadStart(m)
    BY <2>1 DEF ThreadStart
  <2>2. CASE ThreadLoop(m)
    <3>1. /\ thread[m] = "loop"
          /\ \E p \in {"loop", "item", "flush", "ended"} : thread' = [thread EXCEPT ![m] = p]
          /\ outlived' \in BOOLEAN
      BY <2>2 DEF ThreadLoop
    <3>2. UNCHANGED <<commandVars, th_do_stop, fifo, eventVars, destructor>>
      BY <2>2 DEF ThreadLoop
    <3> QED BY <3>1, <3>2
  <2> QED BY <1>6, <2>1, <2>2
<1>7. CASE ProduceReference \/ ProduceWrite \/ ProduceWait \/ ProduceFail
  BY <1>7 DEF ProduceReference, ProduceWrite, ProduceWait, ProduceFail, LoseReference
<1>8. CASE ConsumeRead \/ ConsumeWait \/ ConsumeEnd
  BY <1>8 DEF ConsumeRead, ConsumeWait, ConsumeEnd
<1>9. CASE ConsumeDrop
  BY <1>9 DEF ConsumeDrop, Dereference
<1>10. CASE UNCHANGED zdaqVars
  BY <1>10 DEF zdaqVars
<1> QED BY <1>1, <1>2, <1>3, <1>4, <1>5, <1>5a, <1>5b, <1>5c, <1>6, <1>7, <1>8, <1>9, <1>10
        DEF ZdaqNext, Control, ProducerThread, ConsumerThread

(* Every reference that is taken, written, read, dropped or lost is counted. *)
LEMMA NextRefsCounted == RefInv /\ [ZdaqNext]_zdaqVars => RefsCounted'
<1> SUFFICES ASSUME RefInv, [ZdaqNext]_zdaqVars PROVE RefsCounted'
  OBVIOUS
<1> USE DEF RefInv, RefTypes, Places, ThreadWhileRunning, RefsCounted, One, Modules,
            eventVars, commandVars, deleteVars, Goto
<1>1. ASSUME NEW m \in Modules, NEW t \in ZdaqTransitions, ExecuteZdaqCommand(m, t) PROVE RefsCounted'
  <2>1. /\ UNCHANGED <<control, th_do_stop, i, fifo, eventVars, failures, deleteVars>>
        /\ control[m] = "idle"
    BY <1>1 DEF ExecuteZdaqCommand
  <2>2. thread'["producer"] \in {"write", "wait"} <=> thread["producer"] \in {"write", "wait"}
    BY <1>1, CommandEffect
  <2>2a. thread'["producer"] = "item" <=> thread["producer"] = "item"
    BY <1>1, CommandEffect
  <2>3. thread'["consumer"] \in {"drop", "flushed"} <=> thread["consumer"] \in {"drop", "flushed"}
    BY <1>1, CommandEffect
  <2>4. status'["producer"] = "DEAD" <=> status["producer"] = "DEAD"
    BY <1>1, CommandEffect
  <2> QED BY <2>1, <2>2, <2>2a, <2>3, <2>4
<1>2. ASSUME NEW m \in Modules, CommandFails(m) PROVE RefsCounted'
  BY <1>2 DEF CommandFails
<1>3. ASSUME NEW m \in Modules, StopBegin(m) PROVE RefsCounted'
  BY <1>3 DEF StopBegin
<1>4. ASSUME NEW m \in Modules, StopEnd(m) PROVE RefsCounted'
  BY <1>4 DEF StopEnd
<1>5. CASE DestroyProducer
  <2>1. freed' => freed \/ nRef' < 1
    BY <1>5, Zenon DEF DestroyProducer, Dereference
  <2>2. /\ nRef' = nRef - 1 /\ UNCHANGED <<fifo, leaked, thread>>
        /\ destructor = "no" /\ destructor' # "no"
    BY <1>5 DEF DestroyProducer, Dereference
  <2>3. outlived' <=> thread["producer"] \in {"item", "write", "wait"}
    BY <1>5, Zenon DEF DestroyProducer
  <2>4. nRef >= 1 /\ ~freed
    BY <2>2
  <2>5. nRef' = 0 \/ ~freed'
    BY <2>1, <2>2, <2>4
  <2> QED BY <2>2, <2>3, <2>5
<1>5a. CASE DestroyStop
  BY <1>5a DEF DestroyStop
<1>5b. CASE DestroyJoin
  BY <1>5b DEF DestroyJoin, LoseReference
<1>5c. CASE DestroyEnd
  BY <1>5c DEF DestroyEnd
<1>6. ASSUME NEW m \in Modules, ThreadStart(m) \/ ThreadLoop(m) PROVE RefsCounted'
  <2>1. CASE ThreadStart(m)
    BY <2>1 DEF ThreadStart
  <2>2. CASE ThreadLoop(m)
    <3>1. /\ thread[m] = "loop"
          /\ \E p \in {"loop", "item", "flush", "ended"} :
                /\ thread' = [thread EXCEPT ![m] = p]
                /\ m = "producer" /\ p = "item" /\ destructor # "no" => outlived'
          /\ outlived => outlived'
          /\ outlived' => outlived \/ destructor # "no"
      BY <2>2 DEF ThreadLoop
    <3>2. UNCHANGED <<fifo, eventVars, destructor>>
      BY <2>2 DEF ThreadLoop
    <3> QED BY <3>1, <3>2
  <2> QED BY <1>6, <2>1, <2>2
<1>7. CASE ProduceReference
  BY <1>7 DEF ProduceReference
<1>8. CASE ProduceWrite
  BY <1>8 DEF ProduceWrite
<1>9. CASE ProduceWait
  BY <1>9 DEF ProduceWait
<1>10. CASE ProduceFail
  BY <1>10 DEF ProduceFail, LoseReference
<1>11. CASE ConsumeRead
  BY <1>11 DEF ConsumeRead
<1>12. CASE ConsumeDrop
  <2>1. freed' => freed \/ nRef' < 1
    BY <1>12, Zenon DEF ConsumeDrop, Dereference
  <2>2. /\ nRef' = nRef - 1 /\ UNCHANGED <<fifo, leaked, deleteVars>>
        /\ thread'["producer"] = thread["producer"]
        /\ thread["consumer"] \in {"drop", "flushed"}
        /\ thread'["consumer"] \notin {"drop", "flushed"}
    BY <1>12 DEF ConsumeDrop, Dereference
  <2> QED BY <2>1, <2>2
<1>13. CASE ConsumeWait
  BY <1>13 DEF ConsumeWait
<1>14. CASE ConsumeEnd
  BY <1>14 DEF ConsumeEnd
<1>15. CASE UNCHANGED zdaqVars
  BY <1>15 DEF zdaqVars
<1> QED BY <1>1, <1>2, <1>3, <1>4, <1>5, <1>5a, <1>5b, <1>5c, <1>6, <1>7, <1>8, <1>9, <1>10,
           <1>11, <1>12, <1>13, <1>14, <1>15
        DEF ZdaqNext, Control, ProducerThread, ConsumerThread

(* Whatever the commands, the threads and the destructor of the producer do, *)
(* dereference() deletes the event only when nothing refers to it any more,  *)
(* unless do_loop() of the producer outlives the reference of its module.    *)
THEOREM SpecEventAlive == ZdaqSpec => []EventAlive
<1>1. ASSUME ZdaqInit PROVE RefInv
  <2>1. RefTypes
    <3>1. outlived \in BOOLEAN
      BY <1>1, Zenon DEF ZdaqInit
    <3>2. th_do_stop \in [Modules -> BOOLEAN]
      BY <1>1, Zenon DEF ZdaqInit
    <3> QED BY <1>1, <3>1, <3>2 DEF ZdaqInit, RefTypes, Places
  <2>2. \A m \in {"producer", "consumer"} :
            status[m] = "NOT_READY" /\ control[m] = "idle" /\ thread[m] = "none"
    BY <1>1 DEF ZdaqInit, Modules
  <2>3. nRef = 1 /\ fifo = 0 /\ leaked = 0 /\ ~freed /\ destructor = "no" /\ ~outlived
    BY <1>1, Zenon DEF ZdaqInit
  <2> QED BY <2>1, <2>2, <2>3 DEF RefInv, ThreadWhileRunning, RefsCounted, One, Modules
<1>2. RefInv /\ [ZdaqNext]_zdaqVars => RefInv'
  BY NextThreadWhileRunning, NextRefsCounted DEF RefInv
<1>3. RefInv => EventAlive
  BY DEF RefInv, RefTypes, RefsCounted, One, EventAlive
<1> QED BY <1>1, <1>2, <1>3, PTL DEF ZdaqSpec
-----------------------------------------------------------------------------
Flushing == {"flush", "flushed", "waitflush", "ended"}

(* Before its first STOP the consumer's flag is not set, and in its first    *)
(* run it flushes only once STOP has set it.                                 *)
FirstRun ==
    /\ status["consumer"] = "RUNNING" => runs["consumer"] > 0
    /\ runs["consumer"] = 0 => ~th_do_stop["consumer"]
    /\ runs["consumer"] = 1 =>
         /\ status["consumer"] = "RUNNING" /\ control["consumer"] = "idle"
              => ~th_do_stop["consumer"]
         /\ thread["consumer"] \in Flushing => control["consumer"] = "stop"

(* While no producer runs the flush cannot be overtaken by a new item.       *)
NothingBehind ==
    /\ quiet => thread["producer"] = "none"
    /\ runs["consumer"] = 1 /\ quiet /\ thread["consumer"] \in {"waitflush", "ended"} => fifo = 0

FlushInv == RefTypes /\ ThreadWhileRunning /\ FirstRun /\ NothingBehind /\ FlushedAtStop

(* A step keeps the three facts about the flush.                            *)
LEMMA NextFlush == FlushInv /\ [ZdaqNext]_zdaqVars => FirstRun' /\ NothingBehind' /\ FlushedAtStop'
<1> DEFINE Kept == FirstRun /\ NothingBehind /\ FlushedAtStop
<1> SUFFICES ASSUME FlushInv, [ZdaqNext]_zdaqVars PROVE Kept'
  OBVIOUS
<1> USE DEF FlushInv, RefTypes, Places, ThreadWhileRunning, FirstRun, NothingBehind, FlushedAtStop,
            Flushing, Modules, eventVars, commandVars, deleteVars, Goto
<1>1. ASSUME NEW m \in Modules, NEW t \in ZdaqTransitions, ExecuteZdaqCommand(m, t) PROVE Kept'
  <2>1. UNCHANGED <<control, th_do_stop, fifo>> /\ control[m] = "idle"
    BY <1>1 DEF ExecuteZdaqCommand
  <2>2. CASE status[m] = "READY" /\ thread' = [thread EXCEPT ![m] = "created"]
             /\ status' = [status EXCEPT ![m] = "RUNNING"]
             /\ runs' = [runs EXCEPT ![m] = @ + 1] /\ quiet' = (quiet /\ m = "consumer")
    <3>1. quiet' => quiet /\ m = "consumer"
      BY <2>2, Zenon
    <3>2. CASE m = "consumer"
      BY <2>1, <2>2, <3>1, <3>2
    <3>3. CASE m = "producer"
      BY <2>1, <2>2, <3>1, <3>3
    <3> QED BY <3>2, <3>3
  <2>3. CASE /\ status[m] \notin {"RUNNING", "DEAD"}
             /\ status' \in {[status EXCEPT ![m] = s] : s \in {"READY", "NOT_READY"}}
             /\ UNCHANGED <<thread, runs, quiet>>
    <3>1. \A n \in Modules : status'[n] = status[n]
                               \/ (n = m /\ status'[n] \in {"READY", "NOT_READY"})
      BY <2>3
    <3> QED BY <2>1, <2>3, <3>1
  <2> QED BY <1>1, <2>2, <2>3, CommandEffect
<1>2. ASSUME NEW m \in Modules, CommandFails(m) PROVE Kept'
  BY <1>2 DEF CommandFails
<1>3. ASSUME NEW m \in Modules, StopBegin(m) PROVE Kept'
  <2>1. /\ UNCHANGED <<status, thread, runs, fifo>> /\ control[m] = "idle" /\ status[m] = "RUNNING"
        /\ control' = [control EXCEPT ![m] = "stop"]
        /\ th_do_stop' = [th_do_stop EXCEPT ![m] = TRUE]
    BY <1>3 DEF StopBegin
  <2>2. CASE m = "consumer"
    <3>1. quiet' => thread["producer"] = "none"
      BY <1>3, <2>2, Zenon DEF StopBegin
    <3>2. runs["consumer"] = 1 => thread["consumer"] \notin Flushing
      BY <2>1, <2>2
    <3> QED BY <2>1, <2>2, <3>1, <3>2
  <2>3. CASE m = "producer"
    <3>1. quiet' = quiet
      BY <1>3, <2>3 DEF StopBegin
    <3> QED BY <2>1, <2>3, <3>1
  <2> QED BY <2>2, <2>3
<1>4. ASSUME NEW m \in Modules, StopEnd(m) PROVE Kept'
  BY <1>4 DEF StopEnd
<1>5. CASE DestroyProducer \/ DestroyStop \/ DestroyJoin
  BY <1>5 DEF DestroyProducer, DestroyStop, DestroyJoin
<1>5a. CASE DestroyEnd
  BY <1>5a DEF DestroyEnd
<1>6. ASSUME NEW m \in Modules, ThreadStart(m) \/ ThreadLoop(m) PROVE Kept'
  <2>1. CASE ThreadStart(m)
    BY <2>1 DEF ThreadStart
  <2>2. CASE ThreadLoop(m)
    <3>1. /\ thread[m] = "loop"
          /\ \E p \in {"loop", "item", "flush", "ended"} :
                /\ thread' = [thread EXCEPT ![m] = p]
                /\ m = "consumer" => p # "ended"
                /\ m = "consumer" /\ p \in Flushing => th_do_stop[m]
      BY <2>2 DEF ThreadLoop, Bare
    <3>2. UNCHANGED <<commandVars, th_do_stop, fifo>>
      BY <2>2 DEF ThreadLoop
    <3> QED BY <3>1, <3>2
  <2> QED BY <1>6, <2>1, <2>2
<1>7. CASE ProduceReference \/ ProduceWait \/ ProduceFail
  BY <1>7 DEF ProduceReference, ProduceWait, ProduceFail
<1>8. CASE ProduceWrite
  BY <1>8 DEF ProduceWrite
<1>9. CASE ConsumeRead
  BY <1>9 DEF ConsumeRead
<1>10. CASE ConsumeDrop
  BY <1>10 DEF ConsumeDrop
<1>11. CASE ConsumeWait
  BY <1>11 DEF ConsumeWait
<1>12. CASE ConsumeEnd
  BY <1>12 DEF ConsumeEnd
<1>13. CASE UNCHANGED zdaqVars
  BY <1>13 DEF zdaqVars
<1> QED BY <1>1, <1>2, <1>3, <1>4, <1>5, <1>5a, <1>6, <1>7, <1>8, <1>9, <1>10, <1>11, <1>12, <1>13
        DEF ZdaqNext, Control, ProducerThread, ConsumerThread

(* A consumer stopped for the first time, after its producer, has flushed    *)
(* the FIFO, whatever its size and however the threads interleave.           *)
THEOREM SpecFlushedAtStop == ZdaqSpec => []FlushedAtStop
<1>1. ASSUME ZdaqInit PROVE FlushInv
  <2>1. RefTypes
    <3>1. outlived \in BOOLEAN
      BY <1>1, Zenon DEF ZdaqInit
    <3>2. th_do_stop \in [Modules -> BOOLEAN]
      BY <1>1, Zenon DEF ZdaqInit
    <3> QED BY <1>1, <3>1, <3>2 DEF ZdaqInit, RefTypes, Places
  <2>2. \A m \in {"producer", "consumer"} :
            /\ status[m] = "NOT_READY" /\ control[m] = "idle" /\ thread[m] = "none"
            /\ runs[m] = 0 /\ th_do_stop[m] = FALSE
    BY <1>1 DEF ZdaqInit, Modules
  <2>3. fifo = 0 /\ quiet = FALSE
    BY <1>1, Zenon DEF ZdaqInit
  <2> QED BY <2>1, <2>2, <2>3 DEF FlushInv, ThreadWhileRunning, FirstRun, NothingBehind,
                                  FlushedAtStop, Flushing, Modules
<1>2. FlushInv /\ [ZdaqNext]_zdaqVars => FlushInv'
  BY NextThreadWhileRunning, NextFlush DEF FlushInv
<1>3. FlushInv => FlushedAtStop
  BY DEF FlushInv
<1> QED BY <1>1, <1>2, <1>3, PTL DEF ZdaqSpec
=============================================================================
