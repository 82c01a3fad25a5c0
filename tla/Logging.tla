------------------------------ MODULE Logging ------------------------------
(***************************************************************************)
(* A log line from the process that writes it to the database: the library *)
(* InfoLogger.cxx, the daemon infoLoggerD.cxx that cuts the bytes of its   *)
(* clients into messages, the transport (as the channel that LogTransport  *)
(* implements), the main loop of infoLoggerServer.cxx, and the threads of  *)
(* InfoLoggerDispatchSQL.cxx and InfoLoggerDispatchBrowser.cxx.            *)
(*                                                                         *)
(* The bytes of a line are its text and its newline.  A read() of the      *)
(* daemon may end anywhere; where it ends inside a text changes nothing,   *)
(* so only the two places after the text and after the newline are kept.   *)
(***************************************************************************)
EXTENDS LogChannel, Sequences, SequencesExt, FiniteSets, FiniteSetsExt

CONSTANTS Apps,            \* processes that log
          MaxLines,        \* bound on the lines of all processes
          RxMax,           \* rxMaxConnections of the daemon
          DbThreads,       \* dispatchEnginesDB: 0..dbNThreads-1
          DispatchQueue,   \* dbDispatchQueueSize
          MaxDaemonStops,  \* bound on the restarts of the daemon
          MaxDbFailures,   \* bound on inserts that fail
          MaxRepeats,      \* bound on messages the channel delivers again
          MaxMalformed     \* bound on lines that do not follow the protocol

ASSUME LoggingAssumption ==
    /\ \A n \in {MaxLines, RxMax, MaxDaemonStops, MaxDbFailures, MaxRepeats,
                MaxMalformed} : n \in Nat
    /\ DispatchQueue \in Nat \ {0}
    /\ Cardinality(DbThreads) \in Nat /\ DbThreads = 0..(Cardinality(DbThreads) - 1)
    /\ Clients = {"infoLoggerD"}

VARIABLES
    app,       \* [Apps -> output mode and number of lines logged]
    sock,      \* [Apps -> bytes written to the daemon and not yet read]
    buffer,    \* [Apps -> bytes of an incomplete line in the daemon]
    connected, \* sequence of the connections of the daemon
    sent,      \* the messages given to TR_client_send_msg()
    main,      \* the main loop of the server
    rr,        \* dbRoundRobinIx
    dbq,       \* [DbThreads -> input FIFO]
    db,        \* [DbThreads -> connection and statement]
    online,    \* input FIFO of the online dispatcher
    inserted,  \* messages in the database
    reported,  \* messages whose loss was logged
    budget

loggingVars == <<channelVars, app, sock, buffer, connected, sent, main, rr, dbq, db,
                 online, inserted, reported, budget>>
clientSide == <<app, sock, buffer, connected>>
serverSide == <<main, rr, dbq, db, online, inserted, reported>>

d == "infoLoggerD"
Text(a, k, ok) == [line |-> <<a, k>>, newline |-> FALSE, ok |-> ok]
Newline(a, k) == [line |-> <<a, k>>, newline |-> TRUE, ok |-> TRUE]

Alive == main.at # "dead"

Init ==
    /\ ChannelInit
    /\ app = [a \in Apps |-> [mode |-> "new", lines |-> 0]]
    /\ sock = [a \in Apps |-> << >>]
    /\ buffer = [a \in Apps |-> << >>]
    /\ connected = << >>
    /\ sent = << >>
    /\ main = [at |-> "get", msg |-> 0, nTry |-> 0]
    /\ rr = 0
    /\ dbq = [t \in DbThreads |-> << >>]
    /\ db = [t \in DbThreads |-> [isConnected |-> FALSE, stmt |-> "null", at |-> "loop"]]
    /\ online = << >>
    /\ inserted = {} /\ reported = {}
    /\ budget = [stops |-> MaxDaemonStops, failures |-> MaxDbFailures, repeats |-> MaxRepeats,
                 malformed |-> MaxMalformed]

(***************************************************************************)
(* The library.  It connects once; a write that fails later is not noticed.*)
(***************************************************************************)
\* InfoLogger::Impl(): the mode "cut" is that of a process whose writes go nowhere.
\* With too many connections the daemon closes the new one, but
\* connect() has succeeded and the library does not fall back to stdout.
Open(a) ==
    /\ app[a].mode = "new"
    /\ IF Len(connected) < RxMax
       THEN /\ app' = [app EXCEPT ![a].mode = "daemon"]
            /\ connected' = Append(connected, a)
       ELSE /\ app' = [app EXCEPT ![a].mode = "cut"]
            /\ UNCHANGED connected
    /\ UNCHANGED <<channelVars, sock, buffer, sent, serverSide, budget>>

\* log(): one write() of the whole line.  Not every process uses the library, so a
\* line may not follow the protocol.
Log(a) ==
    /\ app[a].mode = "daemon"
    /\ MapThenSumSet(LAMBDA b : app[b].lines, Apps) < MaxLines
    /\ \E ok \in BOOLEAN :
         LET k == app[a].lines + 1
         IN  /\ ok \/ budget.malformed > 0
             /\ app' = [app EXCEPT ![a].lines = k]
             /\ sock' = [sock EXCEPT ![a] = @ \o <<Text(a, k, ok), Newline(a, k)>>]
             /\ budget' = [budget EXCEPT !.malformed = IF ok THEN @ ELSE @ - 1]
    /\ UNCHANGED <<channelVars, buffer, connected, sent, serverSide>>

Close(a) ==
    /\ app[a].mode = "daemon"
    /\ app' = [app EXCEPT ![a].mode = "closed"]
    /\ UNCHANGED <<channelVars, sock, buffer, connected, sent, serverSide, budget>>

(***************************************************************************)
(* The daemon: InfoLoggerD::doLoop().                                      *)
(***************************************************************************)
\* The loop over the bytes of one read(): ix is where the bytes not yet pushed
\* begin.  A newline right at ix is not the end of a line to this code.
Cut(buf, data) ==
    LET Step(s, i) ==
            LET endOfLine == data[i].newline
                nToPush == IF endOfLine THEN i - s.ix ELSE IF i = Len(data) THEN i - s.ix + 1 ELSE 0
                all == s.buf \o SubSeq(data, s.ix, s.ix + nToPush - 1)
            IN  IF nToPush = 0 THEN s
                ELSE [ix |-> i + 1,
                      buf |-> IF endOfLine THEN << >> ELSE all,
                      msgs |-> IF endOfLine THEN Append(s.msgs, all) ELSE s.msgs]
    IN  FoldLeft(Step, [ix |-> 1, buf |-> buf, msgs |-> << >>], [i \in 1..Len(data) |-> i])

\* Mutant of Receive: the incomplete line of the last read() is forgotten.
ReceiveForgets(a) ==
    /\ Contains(connected, a)
    /\ \E n \in 1..Len(sock[a]) :
         /\ LET cut == Cut(<< >>, SubSeq(sock[a], 1, n))
            IN  /\ buffer' = [buffer EXCEPT ![a] = cut.buf]
                /\ sent' = sent \o cut.msgs
                /\ accepted' = [accepted EXCEPT ![d] = @ + Len(cut.msgs)]
         /\ sock' = [sock EXCEPT ![a] = SubSeq(@, n + 1, Len(@))]
    /\ accepted'[d] <= MaxMsg
    /\ UNCHANGED <<delivered, removed, app, connected, serverSide, budget>>

Receive(a) ==
    /\ Contains(connected, a)
    /\ \E n \in 1..Len(sock[a]) :
         /\ LET cut == Cut(buffer[a], SubSeq(sock[a], 1, n))
            IN  /\ buffer' = [buffer EXCEPT ![a] = cut.buf]
                /\ sent' = sent \o cut.msgs
                /\ accepted' = [accepted EXCEPT ![d] = @ + Len(cut.msgs)]
         /\ sock' = [sock EXCEPT ![a] = SubSeq(@, n + 1, Len(@))]
    /\ accepted'[d] <= MaxMsg
    /\ UNCHANGED <<delivered, removed, app, connected, serverSide, budget>>

\* End of file: what is in the buffer is dropped.
Hangup(a) ==
    /\ Contains(connected, a) /\ sock[a] = << >> /\ app[a].mode = "closed"
    /\ connected' = SelectSeq(connected, LAMBDA b : b # a)
    /\ buffer' = [buffer EXCEPT ![a] = << >>]
    /\ UNCHANGED <<channelVars, app, sock, sent, serverSide, budget>>

\* The daemon stops and starts: its connections are gone, what it had accepted is in
\* the persistent FIFO.
DaemonRestart ==
    /\ budget.stops > 0
    /\ budget' = [budget EXCEPT !.stops = @ - 1]
    /\ connected' = << >>
    /\ sock' = [a \in Apps |-> << >>]
    /\ buffer' = [a \in Apps |-> << >>]
    /\ app' = [a \in Apps |-> IF app[a].mode = "daemon" THEN [app[a] EXCEPT !.mode = "cut"]
                              ELSE app[a]]
    /\ UNCHANGED <<channelVars, sent, serverSide>>

(***************************************************************************)
(* The main loop of the server: InfoLoggerServer::doLoop().                *)
(***************************************************************************)
\* infoLog_decode(): only the beginning is checked, the last field takes the rest, so
\* that a message with several lines is taken for one.  A failure is logged.
Decodes(m) == Head(sent[m]).ok

\* A file arrives (perhaps again); the online dispatcher gets it if it has room.
Take(m) ==
    /\ main.at = "get"
    /\ m <= Len(sent) /\ Deliver(d, m)
    /\ m > delivered[d] \/ budget.repeats > 0
    /\ budget' = [budget EXCEPT !.repeats = IF m > delivered[d] THEN @ ELSE @ - 1]
    /\ IF Decodes(m)
       THEN /\ main' = [at |-> "db", msg |-> m, nTry |-> 1]
            /\ online' = IF Len(online) < DispatchQueue THEN Append(online, m) ELSE online
            /\ UNCHANGED reported
       ELSE /\ reported' = reported \cup {m}
            /\ UNCHANGED <<main, online>>
    /\ UNCHANGED <<clientSide, sent, rr, dbq, db, inserted>>

\* Mutant of TryEngines: the answer of pushMessage() is not looked at.
TryEnginesAnyway ==
    /\ main.at = "db" /\ main.nTry <= 3
    /\ dbq' = IF Len(dbq[rr]) < DispatchQueue THEN [dbq EXCEPT ![rr] = Append(@, main.msg)]
              ELSE dbq
    /\ rr' = (rr + 1) % Cardinality(DbThreads)
    /\ main' = [main EXCEPT !.at = "get", !.msg = 0, !.nTry = 0]
    /\ UNCHANGED <<channelVars, clientSide, sent, db, online, inserted, reported, budget>>

\* One turn over the database engines, from dbRoundRobinIx on, until one has room.
\* There are three turns at most, and a wait after each.
TryEngines ==
    /\ main.at = "db" /\ main.nTry <= 3
    /\ LET n == Cardinality(DbThreads)
           Room(i) == Len(dbq[(rr + i) % n]) < DispatchQueue
       IN  IF \E i \in 0..n-1 : Room(i)
           THEN LET k == CHOOSE i \in 0..n-1 : Room(i) /\ \A j \in 0..i-1 : ~Room(j)
                IN  /\ dbq' = [dbq EXCEPT ![(rr + k) % n] = Append(@, main.msg)]
                    /\ rr' = (rr + k + 1) % n
                    /\ main' = [main EXCEPT !.at = "get", !.msg = 0, !.nTry = 0]
           ELSE /\ main' = [main EXCEPT !.nTry = @ + 1]
                /\ UNCHANGED <<rr, dbq>>
    /\ UNCHANGED <<channelVars, clientSide, sent, db, online, inserted, reported, budget>>

\* "DB dispatch full, 1 message lost".
EnginesFull ==
    /\ main.at = "db" /\ main.nTry > 3
    /\ reported' = reported \cup {main.msg}
    /\ main' = [main EXCEPT !.at = "get", !.msg = 0, !.nTry = 0]
    /\ UNCHANGED <<channelVars, clientSide, sent, rr, dbq, db, online, inserted, budget>>

(***************************************************************************)
(* A database thread: threadCallback() runs customLoop(), which connects   *)
(* if needed, and then processes the messages of its FIFO until it is      *)
(* empty.                                                                  *)
(***************************************************************************)
CustomLoop(t) ==
    /\ Alive /\ db[t].at = "loop"
    /\ \/ /\ ~db[t].isConnected
          /\ db' = [db EXCEPT ![t] = [isConnected |-> TRUE, stmt |-> "open", at |-> "process"]]
       \/ \* connected, or the attempt failed, or it is too early for the next one
          /\ db[t].isConnected \/ db[t].stmt # "open"
          /\ db' = [db EXCEPT ![t].at = "process"]
    /\ UNCHANGED <<channelVars, clientSide, sent, main, rr, dbq, online, inserted, reported,
                   budget>>

Process(t) ==
    /\ Alive /\ db[t].at = "process"
    /\ \/ /\ dbq[t] = << >>
          /\ db' = [db EXCEPT ![t].at = "loop"]
          /\ UNCHANGED <<main, dbq, inserted, reported, budget>>
       \/ /\ dbq[t] # << >> /\ db[t].stmt = "open"
          /\ inserted' = inserted \cup {Head(dbq[t])}
          /\ dbq' = [dbq EXCEPT ![t] = Tail(@)]
          /\ UNCHANGED <<main, db, reported, budget>>
       \/ \* mysql_stmt_execute() fails, or mysql_stmt_bind_param(): only the first one
          \* makes the thread connect again
          /\ dbq[t] # << >> /\ db[t].stmt = "open" /\ budget.failures > 0
          /\ \E again \in BOOLEAN :
               db' = [db EXCEPT ![t].isConnected = ~again, ![t].stmt = "closed"]
          /\ reported' = reported \cup {Head(dbq[t])}
          /\ dbq' = [dbq EXCEPT ![t] = Tail(@)]
          /\ budget' = [budget EXCEPT !.failures = @ - 1]
          /\ UNCHANGED <<main, inserted>>
       \/ \* a statement that was freed or never made is used: an error, or the end
          /\ dbq[t] # << >> /\ db[t].stmt # "open"
          /\ \/ /\ reported' = reported \cup {Head(dbq[t])}
                /\ dbq' = [dbq EXCEPT ![t] = Tail(@)]
                /\ UNCHANGED main
             \/ /\ main' = [main EXCEPT !.at = "dead"]
                /\ UNCHANGED <<dbq, reported>>
          /\ UNCHANGED <<db, inserted, budget>>
    /\ UNCHANGED <<channelVars, clientSide, sent, rr, online>>

\* The online dispatcher: the message goes to every browser connected, and one that
\* cannot be written to within three seconds is closed; nothing waits for it.
Broadcast ==
    /\ Alive /\ online # << >>
    /\ online' = Tail(online)
    /\ UNCHANGED <<channelVars, clientSide, sent, main, rr, dbq, db, inserted, reported, budget>>

Next ==
    \/ \E a \in Apps : Open(a) \/ Log(a) \/ Close(a) \/ Receive(a) \/ Hangup(a)
    \/ DaemonRestart
    \/ \E m \in 1..MaxMsg : Take(m)
    \/ TryEngines \/ EnginesFull
    \/ \E t \in DbThreads : CustomLoop(t) \/ Process(t)
    \/ Broadcast

Spec == Init /\ [][Next]_loggingVars

-----------------------------------------------------------------------------

\* The lines of process a whose text is in the bytes b, in order.
LinesIn(b, a) ==
    LET texts == SelectSeq(b, LAMBDA x : ~x.newline /\ x.line[1] = a)
    IN  [i \in DOMAIN texts |-> texts[i].line[2]]

UpTo(n) == [i \in 1..n |-> i]

\* infoLoggerD never mixes the bytes of two processes in one message, and wherever its
\* read() calls end it keeps the lines of a process in order without a gap: each is in
\* a message, in the buffer of the connection or still to be read.
LinesInOrder ==
    LET all == FlattenSeq(sent)
    IN  /\ \A m \in DOMAIN sent : \A x, y \in Range(sent[m]) : x.line[1] = y.line[1]
        /\ \A a \in Apps :
             /\ LinesIn(all, a) = UpTo(Len(LinesIn(all, a)))
             /\ Contains(connected, a)
                    => LinesIn(all \o buffer[a] \o sock[a], a) = UpTo(app[a].lines)

\* As long as the server lives, a message that reached it is in hand, queued, in the
\* database or its loss was logged: the round-robin over the database threads, their
\* failures and the retries never lose one silently.
FateKnown ==
    Alive => \A m \in 1..delivered[d] :
                \/ main.at = "db" /\ main.msg = m
                \/ \E t \in DbThreads : Contains(dbq[t], m)
                \/ m \in inserted \cup reported

=============================================================================
