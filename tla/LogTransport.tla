---------------------------- MODULE LogTransport ----------------------------
(***************************************************************************)
(* The transport of InfoLogger messages: the client threads of             *)
(* transport_client.c (one in the infoLoggerD of each host), the server    *)
(* thread of transport_server.c and the main loop of infoLoggerServer.cxx, *)
(* over TCP connections that may break, with either process restarting.    *)
(*                                                                         *)
(* A message is its number in the order in which its client accepted it.   *)
(* A file carries one message (that is all the client ever puts into one)  *)
(* and goes as two pieces, the header with the data and the line END; that *)
(* it may be cut anywhere matters only for the connection breaking between *)
(* them.  majId is 1 for every file of a message queue, so an identifier   *)
(* is its minId.                                                           *)
(* The persistent FIFO is reduced to what it promises (PermanentFifo.tla). *)
(* No server of the repository sends BE_PROXY, USE_PROXY or CLOSE, and the *)
(* reactions of the client to them are left out.                           *)
(***************************************************************************)
EXTENDS Integers, Sequences, SequencesExt, FiniteSets, FiniteSetsExt

CONSTANTS Clients,        \* transport clients, one per infoLoggerD
          Slots,          \* cx_table of the server: 1..max_clients
          Conns,          \* TCP connections that may exist at a time
          ClientQueue,    \* queue_length of a client
          ServerQueue,    \* queue_length of the server
          AckMax,         \* TR_SERVER_ACK_MAX_FILES
          MaxMsg,         \* bound on the messages a client accepts
          MaxFaults,      \* bound on broken connections, timeouts and deaths
          MaxRestarts     \* bound on orderly stops of clients and of the server

ASSUME LogTransportAssumption ==
    /\ \A n \in {ClientQueue, ServerQueue} : n \in Nat \ {0}
    /\ \A n \in {AckMax, MaxMsg, MaxFaults, MaxRestarts} : n \in Nat
    /\ IsFiniteSet(Clients) /\ Slots \subseteq Nat \ {0} /\ Conns \subseteq Nat \ {0}

VARIABLES
    fifo,       \* [Clients -> messages accepted, acknowledged, read]
    cl,         \* [Clients -> the client thread]
    net,        \* [Conns -> the two directions of a TCP connection]
    backlog,    \* connections the server has not accepted yet
    srv,        \* the server: running, cx_counter, output_queue, slot it waits for
    cx,         \* [Slots -> cx_table entry]
    main,       \* the main thread of infoLoggerServer
    dispatched, \* history: [Clients -> messages given to the dispatchers]
    budget      \* faults and restarts left

transportVars == <<fifo, cl, net, backlog, srv, cx, main, dispatched, budget>>

None == 0
NoFile == [c |-> None, id |-> 0, msg |-> 0, sender |-> -1, slot |-> 0]

\* The thread of a client between two connections.
Idle == [state |-> "not_connected", conn |-> None, input_queue |-> << >>,
         index |-> 0, phase |-> "next", current |-> 0, ack_id |-> 0, stop |-> FALSE]

Closed == [socket |-> None, state |-> "init", file |-> NoFile, cx_id |-> -1,
           ack_file |-> 0, non_acknowledged |-> 0]

FreeConn == [client |-> FALSE, server |-> FALSE, broken |-> FALSE,
             up |-> << >>, down |-> << >>]

Down == [running |-> FALSE, cx_counter |-> 0, output_queue |-> << >>, pushing |-> None]

Rest == [at |-> "get", file |-> NoFile]

TransportInit ==
    /\ fifo = [c \in Clients |-> [accepted |-> 0, removed |-> 0, base |-> 0, out |-> 0]]
    /\ cl = [c \in Clients |-> Idle]
    /\ net = [k \in Conns |-> FreeConn]
    /\ backlog = << >>
    /\ srv = [Down EXCEPT !.running = TRUE]
    /\ cx = [i \in Slots |-> Closed]
    /\ main = Rest
    /\ dispatched = [c \in Clients |-> {}]
    /\ budget = [faults |-> MaxFaults, restarts |-> MaxRestarts]

(***************************************************************************)
(* The persistent FIFO of a client.  Items get the identifiers base+1,     *)
(* base+2, ... counted from the last permFIFO_new(), which numbers what    *)
(* was not acknowledged from 1 again.                                      *)
(***************************************************************************)
IdOf(c, m) == m - fifo[c].base

SendMsg(c) ==
    /\ ~cl[c].stop
    /\ fifo[c].accepted < MaxMsg
    /\ fifo' = [fifo EXCEPT ![c].accepted = @ + 1]
    /\ UNCHANGED <<cl, net, backlog, srv, cx, main, dispatched, budget>>

(***************************************************************************)
(* TCP.  A connection has a client end and a server end; what was sent can *)
(* be read after the sender closed its end, but not after the reader did   *)
(* or the connection broke.                                                *)
(***************************************************************************)
Fault == budget.faults > 0 /\ budget' = [budget EXCEPT !.faults = @ - 1]

\* The client learns that there is nobody at the other end.
Lost(k) == ~net[k].server \/ net[k].broken

CloseClientEnd(n, k) ==
    IF n[k].server THEN [n EXCEPT ![k].client = FALSE, ![k].down = << >>]
    ELSE [n EXCEPT ![k] = FreeConn]

CloseServerEnd(n, k) ==
    IF n[k].client THEN [n EXCEPT ![k].server = FALSE, ![k].up = << >>]
    ELSE [n EXCEPT ![k] = FreeConn]

Break(k) ==
    /\ net[k].client /\ ~Lost(k)
    /\ Fault
    /\ net' = [net EXCEPT ![k].broken = TRUE, ![k].up = << >>, ![k].down = << >>]
    /\ UNCHANGED <<fifo, cl, backlog, srv, cx, main, dispatched>>

(***************************************************************************)
(* The client thread.                                                      *)
(***************************************************************************)
\* STATE_NOT_CONNECTED, and the first step of STATE_OPEN_CLIENT: connect and send
\* INI.  An attempt that fails only makes the client wait longer.
Connect(c) ==
    LET unused == {k \in Conns : net[k] = FreeConn}
    IN  /\ cl[c].state = "not_connected" /\ ~cl[c].stop
        /\ srv.running /\ unused # {}
        /\ cl' = [cl EXCEPT ![c].state = "open", ![c].conn = Min(unused)]
        /\ net' = [net EXCEPT ![Min(unused)] =
                      [FreeConn EXCEPT !.client = TRUE, !.server = TRUE,
                                       !.up = <<[kind |-> "INI"]>>]]
        /\ backlog' = Append(backlog, Min(unused))
        /\ UNCHANGED <<fifo, srv, cx, main, dispatched, budget>>

\* STATE_OPEN_CLIENT: READY arrives.  STATE_CONNECTED begins with no file in hand,
\* at the head of the input queue.
Ready(c) ==
    /\ cl[c].state = "open" /\ ~cl[c].stop
    /\ net[cl[c].conn].down # << >> /\ Head(net[cl[c].conn].down).kind = "READY"
    /\ cl' = [cl EXCEPT ![c].state = "connected", ![c].index = 0, ![c].phase = "next",
                        ![c].current = 0]
    /\ net' = [net EXCEPT ![cl[c].conn].down = Tail(@)]
    /\ UNCHANGED <<fifo, backlog, srv, cx, main, dispatched, budget>>

\* STATE_CLOSE_CLIENT.  The input queue stays: it is sent again.
CloseClient(c) ==
    /\ cl' = [cl EXCEPT ![c].state = "not_connected", ![c].conn = None]
    /\ net' = CloseClientEnd(net, cl[c].conn)

\* No READY within ten rounds, which pass at once when the server closed the
\* connection; or a stop request.
GiveUpOpen(c) ==
    /\ cl[c].state = "open"
    /\ IF cl[c].stop \/ Lost(cl[c].conn) THEN UNCHANGED budget ELSE Fault
    /\ CloseClient(c)
    /\ UNCHANGED <<fifo, backlog, srv, cx, main, dispatched>>

\* The last acknowledgement among the replies read.
LastAck(c) ==
    LET down == net[cl[c].conn].down
    IN  IF down = << >> THEN cl[c].ack_id ELSE Last(down).id

\* Mutant of Removable: what was sent counts as acknowledged.
RemovableSent(c, ack) ==
    LET q == cl[c].input_queue
    IN  Cardinality({i \in DOMAIN q : i <= cl[c].index /\ q[i].id # cl[c].current})

\* The files at the head of the input queue that are not being sent and are
\* acknowledged by ack: they leave the queue and the persistent FIFO.
Removable(c, ack) ==
    LET q == cl[c].input_queue
    IN  Cardinality({i \in DOMAIN q :
            \A j \in 1..i : q[j].id # cl[c].current /\ q[j].id <= ack})

\* Mutant of NextFile: the newest message of the persistent FIFO is read.
NextFileNewest(c, q, index) ==
    CASE index < Len(q) -> <<q[index + 1]>>
      [] index >= Len(q) /\ Len(q) < ClientQueue /\ fifo[c].out < fifo[c].accepted ->
            <<[c |-> c, id |-> IdOf(c, fifo[c].accepted), msg |-> fifo[c].accepted,
               sender |-> -1, slot |-> 0]>>
      [] OTHER -> << >>

\* The next file to send: the one at the index, or the next message of the
\* persistent FIFO, unless the queue q is full.
NextFile(c, q, index) ==
    CASE index < Len(q) -> <<q[index + 1]>>
      [] index >= Len(q) /\ Len(q) < ClientQueue /\ fifo[c].out < fifo[c].accepted ->
            <<[c |-> c, id |-> IdOf(c, fifo[c].out + 1), msg |-> fifo[c].out + 1,
               sender |-> -1, slot |-> 0]>>
      [] OTHER -> << >>

\* One round of the loop of STATE_CONNECTED: read the replies, drop what is
\* acknowledged, then choose a file or send the next piece of it.  After the data
\* the file is no more the current one, though END is still to be sent.
Round(c) ==
    LET me == cl[c]
        ack == LastAck(c)
        n == Removable(c, ack)
        q == SubSeq(me.input_queue, n + 1, Len(me.input_queue))
        index == Max({me.index - n, 0})
        next == NextFile(c, q, index)
        fresh == next # << >> /\ index >= Len(q)
        mine == CHOOSE f \in ToSet(me.input_queue) : f.id = me.current
    IN  /\ me.state = "connected" /\ ~me.stop /\ ~Lost(me.conn)
        /\ fifo' = [fifo EXCEPT ![c].removed = @ + n,
                                ![c].out = IF me.phase = "next" /\ fresh THEN @ + 1 ELSE @]
        /\ \/ /\ me.phase = "next"
              /\ cl' = [cl EXCEPT ![c].ack_id = ack,
                                  ![c].input_queue = IF fresh THEN q \o next ELSE q,
                                  ![c].index = index + Len(next),
                                  ![c].current = IF next = << >> THEN 0 ELSE Head(next).id,
                                  ![c].phase = IF next = << >> THEN "next" ELSE "file"]
              /\ net' = [net EXCEPT ![me.conn].down = << >>]
           \/ /\ me.phase = "file"
              /\ cl' = [cl EXCEPT ![c].ack_id = ack, ![c].input_queue = q,
                                  ![c].index = index, ![c].phase = "end", ![c].current = 0]
              /\ net' = [net EXCEPT ![me.conn].down = << >>,
                                    ![me.conn].up = Append(@, [kind |-> "File", file |-> mine])]
           \/ /\ me.phase = "end"
              /\ cl' = [cl EXCEPT ![c].ack_id = ack, ![c].input_queue = q,
                                  ![c].index = index, ![c].phase = "next"]
              /\ net' = [net EXCEPT ![me.conn].down = << >>,
                                    ![me.conn].up = Append(@, [kind |-> "END"])]
        /\ UNCHANGED <<backlog, srv, cx, main, dispatched, budget>>

\* The loop is left: end of file (what came with it is not parsed), a send that
\* fails, a stop request, or the watchdog that finds no progress for 30 s.
LeaveLoop(c) ==
    /\ cl[c].state = "connected"
    /\ IF cl[c].stop \/ Lost(cl[c].conn)
       THEN UNCHANGED budget
       ELSE cl[c].phase # "next" /\ Fault
    /\ CloseClient(c)
    /\ UNCHANGED <<fifo, backlog, srv, cx, main, dispatched>>

ClientStop(c) ==
    /\ budget.restarts > 0 /\ ~cl[c].stop
    /\ cl' = [cl EXCEPT ![c].stop = TRUE]
    /\ budget' = [budget EXCEPT !.restarts = @ - 1]
    /\ UNCHANGED <<fifo, net, backlog, srv, cx, main, dispatched>>

\* The thread ends, TR_client_stop() throws the input queue away and saves the
\* FIFO, and the next TR_client_start() finds it there.
ClientRestart(c) ==
    /\ cl[c].stop /\ cl[c].state = "not_connected"
    /\ cl' = [cl EXCEPT ![c] = Idle]
    /\ fifo' = [fifo EXCEPT ![c].base = fifo[c].removed, ![c].out = fifo[c].removed]
    /\ UNCHANGED <<net, backlog, srv, cx, main, dispatched, budget>>

(***************************************************************************)
(* The server thread: it reads from the connections, accepts new ones and  *)
(* acknowledges once a second.  While it waits for room in the output      *)
(* queue it does nothing else.                                             *)
(***************************************************************************)
Free == srv.running /\ srv.pushing = None

ConnectionClose(i) ==
    /\ cx' = [cx EXCEPT ![i].socket = None, ![i].cx_id = -1, ![i].file = NoFile]
    /\ net' = CloseServerEnd(net, cx[i].socket)

Accept ==
    /\ Free /\ backlog # << >>
    /\ backlog' = Tail(backlog)
    /\ LET room == {i \in Slots : cx[i].socket = None}
       IN  \/ /\ room # {}
              /\ cx' = [cx EXCEPT ![Min(room)] =
                          [Closed EXCEPT !.socket = Head(backlog), !.cx_id = srv.cx_counter]]
              /\ srv' = [srv EXCEPT !.cx_counter = @ + 1]
              /\ UNCHANGED net
           \/ /\ room = {}
              /\ net' = CloseServerEnd(net, Head(backlog))
              /\ UNCHANGED <<cx, srv>>
    /\ UNCHANGED <<fifo, cl, main, dispatched, budget>>

PushFile(i) ==
    /\ srv' = [srv EXCEPT !.output_queue = Append(@, cx[i].file), !.pushing = None]
    /\ cx' = [cx EXCEPT ![i].file = NoFile, ![i].state = "begin"]

\* TR_server_connection_read() with one piece in the buffer.
Read(i) ==
    LET k == cx[i].socket
        up == net[k].up
        p == Head(up)
        rest == [net EXCEPT ![k].up = Tail(@)]
    IN  /\ Free /\ k # None /\ up # << >>
        /\ \/ /\ cx[i].state = "init"
              /\ net' = [rest EXCEPT ![k].down = IF net[k].client
                                                 /\ ~net[k].broken
                                                 THEN Append(@, [kind |-> "READY"]) ELSE @]
              /\ cx' = [cx EXCEPT ![i].state = "begin"]
              /\ UNCHANGED srv
           \/ /\ cx[i].state = "begin" /\ p.kind = "File"
              /\ cx' = [cx EXCEPT ![i].state = "end",
                                  ![i].file = [p.file EXCEPT !.sender = cx[i].cx_id, !.slot = i]]
              /\ net' = rest
              /\ UNCHANGED srv
           \/ /\ cx[i].state = "end" /\ p.kind = "END"
              /\ IF Len(srv.output_queue) < ServerQueue
                 THEN PushFile(i)
                 ELSE srv' = [srv EXCEPT !.pushing = i] /\ UNCHANGED cx
              /\ net' = rest
        /\ UNCHANGED <<fifo, cl, backlog, main, dispatched, budget>>

\* End of file or an error on the socket.
ReadEnd(i) ==
    LET k == cx[i].socket
    IN  /\ Free /\ k # None
        /\ net[k].up = << >> /\ (~net[k].client \/ net[k].broken)
        /\ ConnectionClose(i)
        /\ UNCHANGED <<fifo, cl, backlog, srv, main, dispatched, budget>>

\* ptFIFO_write() of the complete file had to wait and now finds room.
PushWaiting ==
    /\ srv.running /\ srv.pushing # None
    /\ Len(srv.output_queue) < ServerQueue
    /\ PushFile(srv.pushing)
    /\ UNCHANGED <<fifo, cl, net, backlog, main, dispatched, budget>>

\* It found none for eleven seconds: the connection is closed and the file dropped.
PushTimeout ==
    /\ srv.running /\ srv.pushing # None
    /\ Len(srv.output_queue) >= ServerQueue
    /\ Fault
    /\ ConnectionClose(srv.pushing)
    /\ srv' = [srv EXCEPT !.pushing = None]
    /\ UNCHANGED <<fifo, cl, backlog, main, dispatched>>

\* TR_server_acknowledge_files(cx, min_number), for the connections in the slots S.
AcknowledgeFiles(S, min_number) ==
    LET due == {i \in S : cx[i].socket # None /\ cx[i].non_acknowledged > min_number}
        Reply(k) == {[kind |-> "ACK", id |-> cx[i].ack_file] :
                        i \in {j \in due : cx[j].socket = k}}
    IN  /\ cx' = [i \in Slots |-> IF i \in due THEN [cx[i] EXCEPT !.non_acknowledged = 0]
                                              ELSE cx[i]]
        /\ net' = [k \in Conns |->
                      IF net[k].client /\ ~net[k].broken
                      THEN [net[k] EXCEPT !.down = @ \o SetToSeq(Reply(k))]
                      ELSE net[k]]

\* Mutant of EverySecond: a single file is not worth an acknowledgement.
EverySecondMany ==
    /\ Free
    /\ AcknowledgeFiles(Slots, AckMax)
    /\ UNCHANGED <<fifo, cl, backlog, srv, main, dispatched, budget>>

\* Once a second, for every connection.
EverySecond ==
    /\ Free
    /\ AcknowledgeFiles(Slots, 0)
    /\ UNCHANGED <<fifo, cl, backlog, srv, main, dispatched, budget>>

(***************************************************************************)
(* The main thread: InfoLoggerServer::doLoop() takes a file, gives it to   *)
(* the dispatchers and acknowledges it, in TR_server_ack_file() with the   *)
(* mutex of the connection taken twice.                                    *)
(***************************************************************************)
GetFile ==
    /\ srv.running /\ main.at = "get" /\ srv.output_queue # << >>
    /\ LET f == Head(srv.output_queue)
       IN  /\ main' = [at |-> "ack", file |-> f]
           /\ dispatched' = [dispatched EXCEPT ![f.c] = @ \cup {f.msg}]
    /\ srv' = [srv EXCEPT !.output_queue = Tail(@)]
    /\ UNCHANGED <<fifo, cl, net, backlog, cx, budget>>

AckFile ==
    LET i == main.file.slot
    IN  /\ main.at = "ack"
        /\ cx' = IF cx[i].cx_id = main.file.sender /\ main.file.id > cx[i].ack_file
                 THEN [cx EXCEPT ![i].ack_file = main.file.id, ![i].non_acknowledged = @ + 1]
                 ELSE cx
        /\ main' = [main EXCEPT !.at = "acked"]
        /\ UNCHANGED <<fifo, cl, net, backlog, srv, dispatched, budget>>

AckMany ==
    /\ main.at = "acked"
    /\ AcknowledgeFiles({main.file.slot}, AckMax)
    /\ main' = Rest
    /\ UNCHANGED <<fifo, cl, backlog, srv, dispatched, budget>>

\* All ends of the server close; files received and not dispatched are gone.
ServerGone ==
    /\ srv' = Down
    /\ cx' = [i \in Slots |-> Closed]
    /\ backlog' = << >>
    /\ main' = Rest
    /\ net' = [k \in Conns |-> IF net[k].client
                               THEN [net[k] EXCEPT !.server = FALSE, !.up = << >>]
                               ELSE FreeConn]
    /\ UNCHANGED <<fifo, cl, dispatched>>

\* TR_server_stop(), called by the main thread between two rounds of doLoop().
ServerStop ==
    /\ srv.running /\ main.at = "get" /\ srv.pushing = None
    /\ budget.restarts > 0
    /\ budget' = [budget EXCEPT !.restarts = @ - 1]
    /\ ServerGone

ServerDies ==
    /\ srv.running
    /\ Fault
    /\ ServerGone

ServerStart ==
    /\ ~srv.running
    /\ srv' = [Down EXCEPT !.running = TRUE]
    /\ UNCHANGED <<fifo, cl, net, backlog, cx, main, dispatched, budget>>

ClientNext(c) ==
    \/ Connect(c) \/ Ready(c) \/ GiveUpOpen(c) \/ Round(c) \/ LeaveLoop(c)
    \/ ClientRestart(c)

ServerNext ==
    \/ Accept \/ PushWaiting \/ PushTimeout
    \/ \E i \in Slots : Read(i) \/ ReadEnd(i)
    \/ EverySecond \/ ServerStart

MainNext == GetFile \/ AckFile \/ AckMany

Faults == ServerStop \/ ServerDies \/ \E k \in Conns : Break(k)

TransportNext ==
    \/ \E c \in Clients : SendMsg(c) \/ ClientStop(c) \/ ClientNext(c)
    \/ ServerNext
    \/ MainNext
    \/ Faults

TransportSpec == TransportInit /\ [][TransportNext]_transportVars

\* Threads are scheduled, the network is read, and processes that stopped are
\* started again; faults and new messages need not happen.
Fairness ==
    /\ \A c \in Clients : WF_transportVars(ClientNext(c))
    /\ WF_transportVars(Accept \/ PushWaiting \/ ServerStart)
    /\ \A i \in Slots : WF_transportVars(Read(i) \/ ReadEnd(i))
    /\ WF_transportVars(EverySecond)
    /\ WF_transportVars(MainNext)

FairSpec == TransportSpec /\ Fairness

-----------------------------------------------------------------------------

\* The transport as the channel it promises to be.
Channel == INSTANCE LogChannel WITH
    accepted <- [c \in Clients |-> fifo[c].accepted],
    delivered <- [c \in Clients |-> Cardinality(dispatched[c])],
    removed <- [c \in Clients |-> fifo[c].removed]

\* Whatever connections break and processes restart, a message leaves the
\* persistent FIFO of the client only after a server gave it to the dispatchers,
\* and messages are dispatched for the first time in the order in which they were
\* accepted, without a gap, even when a connection the server has not given up yet
\* and its successor deliver at the same time.
ImplementsChannel == Channel!ChannelSpec

\* The branch "bad order for ack" of TR_server_ack_file() is never taken.
NeverBadOrder ==
    main.at = "ack" /\ cx[main.file.slot].cx_id = main.file.sender
        => main.file.id > cx[main.file.slot].ack_file

\* What has been dispatched of a client is a prefix of what it accepted, and the files of
\* a connection come in the order of their identifiers.
NoGaps ==
    /\ \A c \in Clients : dispatched[c] = 1..Cardinality(dispatched[c])
    /\ NeverBadOrder

\* Every message accepted is dispatched and acknowledged in the end.
MessagesArrive ==
    \A c \in Clients : \A m \in 1..MaxMsg :
        fifo[c].accepted >= m ~> fifo[c].removed >= m
=============================================================================
