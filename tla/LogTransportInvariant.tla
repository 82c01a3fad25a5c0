----------------------- MODULE LogTransportInvariant -----------------------
(***************************************************************************)
(* The inductive invariant of LogTransport.                                *)
(*                                                                         *)
(* Every message that is somewhere between a client and the dispatchers    *)
(* continues what is ahead of it: the slot of its connection, the output   *)
(* queue, what was dispatched.  A message that is sent again on a new      *)
(* connection while the old one still delivers finds it ahead for the same *)
(* reason, or finds it dispatched.  So the link of a client to its slot    *)
(* says that the last message sent is dispatched or on its way, and the    *)
(* books of a client that it sends nothing before what it has not sent.    *)
(* On each connection the identifiers rise, which is what the second half  *)
(* of TR_server_ack_file() relies on.                                      *)
(*                                                                         *)
(* The parts are operators of the records they speak about, so that a step *)
(* that changes one record is a fact about that record.                    *)
(***************************************************************************)
EXTENDS LogTransport

\* The messages, as the pieces and the queues carry them.
FileSet == [c : Clients, id : Nat, msg : Nat, sender : Int, slot : Nat]

\* What a slot or the main thread holds, if anything.
AnyFile == FileSet \cup {NoFile}

\* The pieces a client sends and the replies of the server.
UpMsg == [kind : {"INI", "END"}] \cup [kind : {"File"}, file : FileSet]
DownMsg == [kind : {"READY"}] \cup [kind : {"ACK"}, id : Nat]

\* The records of the state.
FifoRec == [accepted : Nat, removed : Nat, base : Nat, out : Nat]

ClientRec == [state : {"not_connected", "open", "connected"},
              conn : Conns \cup {None}, input_queue : Seq(FileSet),
              index : Nat, phase : {"next", "file", "end"},
              current : Nat, ack_id : Nat, stop : BOOLEAN]

ConnRec == [client : BOOLEAN, server : BOOLEAN, broken : BOOLEAN,
            up : Seq(UpMsg), down : Seq(DownMsg)]

ServerRec == [running : BOOLEAN, cx_counter : Nat, output_queue : Seq(FileSet),
              pushing : Slots \cup {None}]

SlotRec == [socket : Conns \cup {None}, state : {"init", "begin", "end"},
            file : AnyFile, cx_id : Int, ack_file : Nat, non_acknowledged : Nat]

MainRec == [at : {"get", "ack", "acked"}, file : AnyFile]

\* The values of the variables.
TransportTypeOK ==
    /\ fifo \in [Clients -> FifoRec]
    /\ cl \in [Clients -> ClientRec]
    /\ net \in [Conns -> ConnRec]
    /\ backlog \in Seq(Conns)
    /\ srv \in ServerRec
    /\ cx \in [Slots -> SlotRec]
    /\ main \in MainRec
    /\ dispatched \in [Clients -> SUBSET Nat]
    /\ budget \in [faults : Nat, restarts : Nat]

\* The messages of its client that a client thread has sent, as far as it goes.
SentBy(me, f) == f.removed + me.index - (IF me.phase = "file" THEN 1 ELSE 0)

\* The order of the files on their way: up is what comes up a connection, oq the
\* output queue, x a slot.
NoFiles(up) == \A a \in 1 .. Len(up) : up[a].kind # "File"

Rising(up) == \A a, b \in 1 .. Len(up) :
    a < b /\ up[a].kind = "File" /\ up[b].kind = "File" => up[a].file.id < up[b].file.id

FilesAbove(up, n) == \A a \in 1 .. Len(up) : up[a].kind = "File" => up[a].file.id > n

QueuedAbove(oq, s, n) == \A l \in 1 .. Len(oq) : oq[l].sender = s => oq[l].id > n

HeldAbove(x, n) == x.state = "end" => x.file.id > n

\* The message m of client c is queued; f is a message that was accepted; f comes
\* right behind the file that slot x holds, or behind one sent before it.
InQueue(oq, c, m) == \E l \in 1 .. Len(oq) : oq[l].c = c /\ oq[l].msg = m

Counted(f, books) == 1 <= f.msg /\ f.msg <= books[f.c].accepted

\* The message before f was dispatched or is queued.
Preceded(f, disp, oq) ==
    f.msg <= Cardinality(disp[f.c]) + 1 \/ InQueue(oq, f.c, f.msg - 1)

HeldBefore(x, f) == x.state = "end" /\ x.file.c = f.c /\ x.file.msg = f.msg - 1

SentBefore(up, a) == \E b \in 1 .. a - 1 :
    /\ up[b].kind = "File" /\ up[b].file.c = up[a].file.c
    /\ up[b].file.msg = up[a].file.msg - 1

\* A connection has one client and one slot or place in the backlog.
OwnersOK(l, n, x, b) ==
    /\ \A c \in Clients : l[c].conn = None <=> l[c].state = "not_connected"
    /\ \A c \in Clients : l[c].conn # None => n[l[c].conn].client
    /\ \A c, d \in Clients : l[c].conn = l[d].conn /\ l[c].conn # None => c = d
    /\ \A i \in Slots : x[i].socket # None => n[x[i].socket].server
    /\ \A i, j \in Slots : x[i].socket # None /\ x[i].socket = x[j].socket => i = j
    /\ \A e \in 1 .. Len(b) : n[b[e]].server
    /\ \A e \in 1 .. Len(b) : \A i \in Slots : x[i].socket # b[e]
    /\ \A d, e \in 1 .. Len(b) : b[d] = b[e] => d = e

\* The slot of a file is the one of its sender, if that still has one.
Addressed(f, s, x) ==
    /\ f.slot \in Slots /\ 0 <= f.sender /\ f.sender < s.cx_counter
    /\ \A i \in Slots : f.sender = x[i].cx_id => f.slot = i

\* The slots, the files they hold and where the files received came from.
ServerOK(s, x, m) ==
    /\ ~s.running => s.cx_counter = 0 /\ s.output_queue = << >> /\ s.pushing = None
    /\ s.pushing # None => x[s.pushing].socket # None /\ x[s.pushing].state = "end"
    /\ \A i \in Slots : x[i].cx_id < s.cx_counter
    /\ \A i \in Slots : x[i].socket # None <=> x[i].cx_id >= 0
    /\ \A i, j \in Slots : x[i].socket # None /\ x[i].cx_id = x[j].cx_id => i = j
    /\ \A i \in Slots : x[i].socket # None /\ x[i].state = "end" =>
           x[i].file \in FileSet /\ x[i].file.sender = x[i].cx_id /\ x[i].file.slot = i
    /\ \A e \in 1 .. Len(s.output_queue) : Addressed(s.output_queue[e], s, x)
    /\ m.at # "get" => m.file \in FileSet /\ Addressed(m.file, s, x)

\* What was dispatched of a client is a prefix of what it accepted.
DispatchedOK(books, disp) == \A c \in Clients :
    /\ Cardinality(disp[c]) \in Nat /\ disp[c] = 1 .. Cardinality(disp[c])
    /\ Cardinality(disp[c]) <= books[c].accepted

\* The output queue continues what was dispatched: the message before a queued one
\* was dispatched or is ahead of it, and the files of a connection keep their order.
QueueOK(oq, books, disp, m) ==
    /\ m.at # "get" => m.file.msg <= Cardinality(disp[m.file.c])
    /\ \A e \in 1 .. Len(oq) : Counted(oq[e], books)
    /\ \A e \in 1 .. Len(oq) :
           \/ oq[e].msg <= Cardinality(disp[oq[e].c]) + 1
           \/ \E j \in 1 .. e - 1 : oq[j].c = oq[e].c /\ oq[j].msg = oq[e].msg - 1
    /\ \A j, e \in 1 .. Len(oq) : j < e /\ oq[j].sender = oq[e].sender => oq[j].id < oq[e].id

\* The messages in an open slot and on its connection continue the queue.
ChainOK(x, up, books, disp, oq) ==
    /\ x.state = "end" => Counted(x.file, books) /\ Preceded(x.file, disp, oq)
    /\ \A a \in 1 .. Len(up) : up[a].kind = "File" =>
          /\ Counted(up[a].file, books)
          /\ \/ Preceded(up[a].file, disp, oq) \/ HeldBefore(x, up[a].file) \/ SentBefore(up, a)

\* The identifiers rise from the last acknowledged file through the one the main
\* thread has, the queue and the slot to the connection.
OrderOK(x, up, oq, m) ==
    /\ Rising(up)
    /\ x.state = "end" => FilesAbove(up, x.file.id)
    /\ \A e \in 1 .. Len(oq) : oq[e].sender = x.cx_id =>
          HeldAbove(x, oq[e].id) /\ FilesAbove(up, oq[e].id)
    /\ FilesAbove(up, x.ack_file) /\ HeldAbove(x, x.ack_file)
    /\ QueuedAbove(oq, x.cx_id, x.ack_file)
    /\ m.at = "ack" /\ m.file.sender = x.cx_id =>
          /\ m.file.id > x.ack_file
          /\ QueuedAbove(oq, x.cx_id, m.file.id)
          /\ HeldAbove(x, m.file.id) /\ FilesAbove(up, m.file.id)

\* An open slot x with the pieces up on its connection.
SlotOK(x, up, books, disp, oq, m) ==
    /\ ChainOK(x, up, books, disp, oq)
    /\ OrderOK(x, up, oq, m)
    /\ x.state = "init" => NoFiles(up)

\* The books of client c: its input queue is what is read and not removed.
BooksOK(c, me, f, n) ==
    /\ f.base <= f.removed /\ f.removed <= f.out /\ f.out <= f.accepted
    /\ f.accepted <= MaxMsg /\ f.removed <= n
    /\ Len(me.input_queue) = f.out - f.removed
    /\ \A j \in 1 .. Len(me.input_queue) :
          /\ me.input_queue[j].c = c /\ me.input_queue[j].msg = f.removed + j
          /\ me.input_queue[j].id = f.removed + j - f.base
    /\ me.ack_id + f.base <= f.removed
    /\ me.state = "connected" =>
          /\ me.index <= Len(me.input_queue)
          /\ me.phase = "file" => 0 < me.index /\ me.current = f.removed + me.index - f.base
          /\ me.phase # "file" => me.current = 0

\* The replies on the way to a client tell it nothing that is not so.
RepliesOK(me, f, n, down) ==
    /\ me.state = "connected" => \A a \in 1 .. Len(down) :
           /\ down[a].kind = "ACK"
           /\ down[a].id + f.base <= n /\ down[a].id + f.base <= SentBy(me, f)
    /\ me.state = "open" =>
           Len(down) <= 1 /\ \A a \in 1 .. Len(down) : down[a].kind = "READY"

\* A connection the server has not accepted carries no file and no reply.
BacklogOK(b, n, l) == \A e \in 1 .. Len(b) :
    /\ NoFiles(n[b[e]].up)
    /\ \A c \in Clients : l[c].conn = b[e] => l[c].state = "open" /\ n[b[e]].down = << >>

\* The link of a client to its slot before READY and after it.
OpenLinkOK(x, k, oq, m) ==
    /\ x.ack_file = 0 /\ x.non_acknowledged = 0 /\ x.state # "end"
    /\ \A e \in 1 .. Len(oq) : oq[e].sender # x.cx_id
    /\ ~(m.at = "ack" /\ m.file.sender = x.cx_id)
    /\ NoFiles(k.up)
    /\ x.state = "init" => k.down = << >>

\* Client c sent the file f, one of its first s messages, on this connection.
Mine(f, c, base, s) == f.c = c /\ f.msg = f.id + base /\ f.msg <= s

\* Message s of client c is on its way.
OnItsWay(c, s, x, up, oq) ==
    \/ InQueue(oq, c, s)
    \/ x.state = "end" /\ x.file.c = c /\ x.file.msg = s
    \/ \E a \in 1 .. Len(up) : up[a].kind = "File" /\ up[a].file.c = c /\ up[a].file.msg = s

\* The client c has sent s messages, counted from its first, and n are dispatched: all
\* that was received on the connection is one of them, and while it holds the last of
\* them was dispatched or is on its way.
ConnectedLinkOK(c, base, s, n, x, k, oq, m) ==
    /\ x.state # "init"
    /\ x.ack_file + base <= n /\ x.ack_file + base <= s
    /\ \A e \in 1 .. Len(oq) : oq[e].sender = x.cx_id => Mine(oq[e], c, base, s)
    /\ x.state = "end" => Mine(x.file, c, base, s)
    /\ \A a \in 1 .. Len(k.up) : k.up[a].kind = "File" => Mine(k.up[a].file, c, base, s)
    /\ m.at = "ack" /\ m.file.sender = x.cx_id => Mine(m.file, c, base, s)
    /\ ~k.broken => s <= n \/ OnItsWay(c, s, x, k.up, oq)

\* The client and the slot at the two ends of a connection.
LinkOK(c, me, b, n, x, k, oq, m) ==
    /\ me.state = "open" => OpenLinkOK(x, k, oq, m)
    /\ me.state = "connected" => ConnectedLinkOK(c, b.base, SentBy(me, b), n, x, k, oq, m)

-----------------------------------------------------------------------------

\* The invariant, part by part.
ConnsOwned == OwnersOK(cl, net, cx, backlog)

ServerParts == ServerOK(srv, cx, main)

QueueParts == DispatchedOK(fifo, dispatched) /\ QueueOK(srv.output_queue, fifo, dispatched, main)

SlotParts == \A i \in Slots : cx[i].socket # None =>
    SlotOK(cx[i], net[cx[i].socket].up, fifo, dispatched, srv.output_queue, main)

BooksParts == \A c \in Clients : BooksOK(c, cl[c], fifo[c], Cardinality(dispatched[c]))

ReplyParts == \A c \in Clients : cl[c].conn # None =>
    RepliesOK(cl[c], fifo[c], Cardinality(dispatched[c]), net[cl[c].conn].down)

BacklogParts == BacklogOK(backlog, net, cl)

LinkParts == \A c \in Clients, i \in Slots :
    cx[i].socket # None /\ cl[c].conn = cx[i].socket =>
        LinkOK(c, cl[c], fifo[c], Cardinality(dispatched[c]), cx[i], net[cx[i].socket],
               srv.output_queue, main)

\* The parts hold together.
TransportInvariant ==
    /\ TransportTypeOK /\ ConnsOwned /\ ServerParts /\ QueueParts
    /\ SlotParts /\ BooksParts /\ ReplyParts /\ BacklogParts /\ LinkParts
=============================================================================
