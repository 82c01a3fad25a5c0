------------------------- MODULE LogTransportProofs -------------------------
(***************************************************************************)
(* Proofs about LogTransport, for any number of clients, slots and         *)
(* connections, any size of the two queues and any number of messages,     *)
(* broken connections, deaths and restarts.                                *)
(*                                                                         *)
(* First what a change of one record does to the parts of the invariant    *)
(* that speak about it (queues, slots, links, books), then one lemma for   *)
(* each action, then the theorems.                                         *)
(***************************************************************************)
EXTENDS LogTransportInvariant, SequenceFacts

\* 0 is the slot and the connection that there is not.
LEMMA NothingIsNone == None \notin Slots /\ None \notin Conns
  BY LogTransportAssumption DEF None

(* A piece that is a file carries one.                                      *)
LEMMA FilePieces ==
    ASSUME NEW x \in UpMsg, x.kind = "File"
    PROVE  x.file \in FileSet /\ x = [kind |-> "File", file |-> x.file]
  BY DEF UpMsg

\* An acknowledgement carries an identifier.
LEMMA AckPieces ==
    ASSUME NEW x \in DownMsg, x.kind = "ACK"
    PROVE  x.id \in Nat
  BY DEF DownMsg

\* The fields of a message.
LEMMA FileFields ==
    ASSUME NEW f \in FileSet
    PROVE  /\ f.c \in Clients /\ f.id \in Nat /\ f.msg \in Nat
           /\ f.sender \in Int /\ f.slot \in Nat
  BY DEF FileSet

\* The types of the fields of every variable, as the inner lemmas use them.
TypeFacts ==
    /\ \A c \in Clients : /\ fifo[c].accepted \in Nat /\ fifo[c].removed \in Nat
                          /\ fifo[c].base \in Nat /\ fifo[c].out \in Nat
                          /\ cl[c].conn \in Conns \cup {None}
                          /\ cl[c].input_queue \in Seq(FileSet)
                          /\ cl[c].state \in {"not_connected", "open", "connected"}
                          /\ cl[c].phase \in {"next", "file", "end"}
                          /\ cl[c].index \in Nat /\ cl[c].current \in Nat
                          /\ cl[c].ack_id \in Nat /\ cl[c].stop \in BOOLEAN
                          /\ dispatched[c] \in SUBSET Nat
    /\ \A k \in Conns : /\ net[k].client \in BOOLEAN /\ net[k].server \in BOOLEAN
                        /\ net[k].broken \in BOOLEAN
                        /\ net[k].up \in Seq(UpMsg) /\ net[k].down \in Seq(DownMsg)
    /\ backlog \in Seq(Conns)
    /\ srv.running \in BOOLEAN /\ srv.cx_counter \in Nat
    /\ srv.output_queue \in Seq(FileSet) /\ srv.pushing \in Slots \cup {None}
    /\ \A i \in Slots : /\ cx[i].socket \in Conns \cup {None}
                        /\ cx[i].state \in {"init", "begin", "end"}
                        /\ cx[i].file \in AnyFile /\ cx[i].cx_id \in Int
                        /\ cx[i].ack_file \in Nat /\ cx[i].non_acknowledged \in Nat
    /\ main.at \in {"get", "ack", "acked"} /\ main.file \in AnyFile
    /\ budget.faults \in Nat /\ budget.restarts \in Nat

\* The fields have their types.
LEMMA Types ==
    ASSUME TransportTypeOK PROVE TypeFacts
<1> USE DEF TransportTypeOK, FifoRec, ClientRec, ConnRec, ServerRec, SlotRec, MainRec
<1>1. \A c \in Clients : fifo[c] \in [accepted : Nat, removed : Nat, base : Nat, out : Nat]
  OBVIOUS
<1>2. \A c \in Clients : cl[c] \in
          [state : {"not_connected", "open", "connected"},
           conn : Conns \cup {None}, input_queue : Seq(FileSet),
           index : Nat, phase : {"next", "file", "end"},
           current : Nat, ack_id : Nat, stop : BOOLEAN]
  OBVIOUS
<1>3. \A k \in Conns : net[k] \in
          [client : BOOLEAN, server : BOOLEAN, broken : BOOLEAN,
           up : Seq(UpMsg), down : Seq(DownMsg)]
  OBVIOUS
<1>4. \A i \in Slots : cx[i] \in
          [socket : Conns \cup {None}, state : {"init", "begin", "end"},
           file : AnyFile, cx_id : Int, ack_file : Nat, non_acknowledged : Nat]
  OBVIOUS
<1>5. \A c \in Clients : dispatched[c] \in SUBSET Nat
  OBVIOUS
<1>6. /\ srv.running \in BOOLEAN /\ srv.cx_counter \in Nat
      /\ srv.output_queue \in Seq(FileSet) /\ srv.pushing \in Slots \cup {None}
  OBVIOUS
<1>7. main.at \in {"get", "ack", "acked"} /\ main.file \in AnyFile
  OBVIOUS
<1>8. budget.faults \in Nat /\ budget.restarts \in Nat
  OBVIOUS
<1>9. backlog \in Seq(Conns)
  OBVIOUS
<1> HIDE DEF TransportTypeOK, FifoRec, ClientRec, ConnRec, ServerRec, SlotRec, MainRec
<1> QED BY <1>1, <1>2, <1>3, <1>4, <1>5, <1>6, <1>7, <1>8, <1>9 DEF TypeFacts

\* So have they after a step.
LEMMA NextTypes == TransportTypeOK' => TypeFacts'
<1>1. TransportTypeOK => TypeFacts
  BY Types
<1> QED BY <1>1, PTL

(* What comes up an open slot, and what is queued.                          *)
SlotFacts ==
    /\ \A i \in Slots : cx[i].socket # None =>
          /\ cx[i].socket \in Conns /\ net[cx[i].socket].up \in Seq(UpMsg)
    /\ srv.output_queue \in Seq(FileSet)

\* What is read from a slot has its type.
LEMMA SlotTypes ==
    ASSUME TransportTypeOK PROVE SlotFacts
  BY Types DEF TypeFacts, SlotFacts

\* The pieces on a connection.
LEMMA UpFacts ==
    ASSUME NEW up \in Seq(UpMsg)
    PROVE  /\ Len(up) \in Nat
           /\ \A a \in 1 .. Len(up) : up[a] \in UpMsg
           /\ \A a \in 1 .. Len(up) : up[a].kind = "File" => up[a].file \in FileSet
<1>1. Len(up) \in Nat /\ \A a \in 1 .. Len(up) : up[a] \in UpMsg
  OBVIOUS
<1> QED BY <1>1, FilePieces

\* The messages in the output queue.
LEMMA QueueFacts ==
    ASSUME NEW oq \in Seq(FileSet)
    PROVE  Len(oq) \in Nat /\ \A e \in 1 .. Len(oq) : oq[e] \in FileSet
  OBVIOUS

-----------------------------------------------------------------------------
(***************************************************************************)
(* Slots and the queue when little changes, and when a client sends.       *)
(***************************************************************************)

\* The main thread has not taken a file.
MainKept(m, m2) ==
    /\ m2.at # "get" => m.at # "get" /\ m2.file = m.file
    /\ m2.at = "ack" => m.at = "ack"

\* Clients accept more messages, or none.
Growing(books, books2) == \A c \in Clients :
    /\ books[c].accepted \in Nat /\ books2[c].accepted \in Nat
    /\ books2[c].accepted >= books[c].accepted

\* The fields of a slot that the invariant reads.
SameSlot(x, x2) ==
    /\ x2.socket = x.socket /\ x2.state = x.state /\ x2.file = x.file /\ x2.cx_id = x.cx_id
    /\ x2.ack_file = x.ack_file

\* A message stays accepted.
LEMMA CountedGrows ==
    ASSUME NEW books, NEW books2, Growing(books, books2), NEW f \in FileSet, Counted(f, books)
    PROVE  Counted(f, books2)
<1>1. f.c \in Clients /\ f.msg \in Nat
  BY FileFields
<1> QED BY <1>1 DEF Counted, Growing

\* The queue stays in order when messages are accepted or the main thread goes on.
LEMMA QueueGrows ==
    ASSUME NEW oq \in Seq(FileSet), NEW books, NEW books2, NEW disp, NEW m, NEW m2,
           Growing(books, books2), MainKept(m, m2), QueueOK(oq, books, disp, m)
    PROVE  QueueOK(oq, books2, disp, m2)
<1>1. \A e \in 1 .. Len(oq) : oq[e] \in FileSet
  BY QueueFacts
<1>2. \A e \in 1 .. Len(oq) : Counted(oq[e], books2)
  BY <1>1, CountedGrows DEF QueueOK
<1>3. m2.at # "get" => m2.file.msg <= Cardinality(disp[m2.file.c])
  BY DEF QueueOK, MainKept
<1> QED BY <1>2, <1>3 DEF QueueOK

\* So does what was dispatched.
LEMMA DispatchedGrows ==
    ASSUME NEW books, NEW books2, NEW disp, Growing(books, books2), DispatchedOK(books, disp)
    PROVE  DispatchedOK(books2, disp)
  BY DEF DispatchedOK, Growing

\* A connection on which nothing comes.
LEMMA NothingUp ==
    ASSUME NEW up, up = << >>
    PROVE  /\ \A n : FilesAbove(up, n)
           /\ Rising(up) /\ NoFiles(up) /\ \A a \in 1 .. Len(up) : FALSE
<1>1. \A a \in 1 .. Len(up) : FALSE
  OBVIOUS
<1> QED BY <1>1 DEF FilesAbove, Rising, NoFiles

\* A slot stays in order, also when its connection loses what was on it.
LEMMA SlotGrows ==
    ASSUME NEW x, NEW x2, NEW up \in Seq(UpMsg), NEW up2, NEW books, NEW books2, NEW disp,
           NEW oq, NEW m, NEW m2,
           SlotOK(x, up, books, disp, oq, m), SameSlot(x, x2), up2 = up \/ up2 = << >>,
           x.state = "end" => x.file \in FileSet,
           Growing(books, books2), MainKept(m, m2)
    PROVE  SlotOK(x2, up2, books2, disp, oq, m2)
<1>1. \A a \in 1 .. Len(up) : up[a].kind = "File" => up[a].file \in FileSet
  BY UpFacts
<1>2. ChainOK(x, up, books2, disp, oq)
  <2>1. x.state = "end" => Counted(x.file, books2)
    BY CountedGrows DEF SlotOK, ChainOK
  <2>2. \A a \in 1 .. Len(up) : up[a].kind = "File" => Counted(up[a].file, books2)
    BY <1>1, CountedGrows DEF SlotOK, ChainOK
  <2> QED BY <2>1, <2>2 DEF SlotOK, ChainOK
<1>3. OrderOK(x, up, oq, m2)
  BY DEF SlotOK, OrderOK, MainKept
<1>4. ChainOK(x2, up2, books2, disp, oq)
  <2>1. CASE up2 = << >>
    BY <2>1, <1>2, NothingUp DEF ChainOK, SameSlot
  <2>2. CASE up2 = up
    BY <2>2, <1>2 DEF ChainOK, SameSlot, HeldBefore
  <2> QED BY <2>1, <2>2
<1>5. OrderOK(x2, up2, oq, m2)
  <2>1. CASE up2 = << >>
    BY <2>1, <1>3, NothingUp DEF OrderOK, SameSlot, HeldAbove
  <2>2. CASE up2 = up
    BY <2>2, <1>3 DEF OrderOK, SameSlot, HeldAbove
  <2> QED BY <2>1, <2>2
<1> QED BY <1>4, <1>5, NothingUp DEF SlotOK, SameSlot

\* A file that may be sent up behind up.
SlotSends(x, up, books, disp, oq, m, f) ==
    /\ Counted(f, books)
    /\ \/ Preceded(f, disp, oq) \/ HeldBefore(x, f)
       \/ \E b \in 1 .. Len(up) : /\ up[b].kind = "File" /\ up[b].file.c = f.c
                                  /\ up[b].file.msg = f.msg - 1
    /\ \A a \in 1 .. Len(up) : up[a].kind = "File" => up[a].file.id < f.id
    /\ x.state = "end" => f.id > x.file.id
    /\ \A e \in 1 .. Len(oq) : oq[e].sender = x.cx_id => f.id > oq[e].id
    /\ f.id > x.ack_file
    /\ m.at = "ack" /\ m.file.sender = x.cx_id => f.id > m.file.id
    /\ x.state # "init"

\* A slot stays in order when a piece that fits is sent to it.
LEMMA SlotReceives ==
    ASSUME NEW x, NEW up \in Seq(UpMsg), NEW p \in UpMsg, NEW books, NEW disp,
           NEW oq, NEW m,
           SlotOK(x, up, books, disp, oq, m),
           p.kind = "File" => SlotSends(x, up, books, disp, oq, m, p.file)
    PROVE  SlotOK(x, Append(up, p), books, disp, oq, m)
<1> DEFINE up2 == Append(up, p)
<1>1. /\ Len(up) \in Nat /\ Len(up2) = Len(up) + 1
      /\ \A a \in 1 .. Len(up) : up2[a] = up[a]
      /\ up2[Len(up) + 1] = p
  BY SetOfAppend, UpFacts
<1> HIDE DEF up2
<1>2. \A a \in 1 .. Len(up2) : a \in 1 .. Len(up) \/ a = Len(up) + 1
  BY <1>1
<1>3. ASSUME NEW a \in 1 .. Len(up) PROVE a \in Nat /\ \A b \in 1 .. a - 1 : b \in 1 .. Len(up)
  BY <1>1
<1>4. ChainOK(x, up2, books, disp, oq)
  <2>1. ASSUME NEW a \in 1 .. Len(up2), up2[a].kind = "File"
        PROVE  /\ Counted(up2[a].file, books)
               /\ \/ Preceded(up2[a].file, disp, oq) \/ HeldBefore(x, up2[a].file)
                  \/ SentBefore(up2, a)
    <3>1. CASE a \in 1 .. Len(up)
      <4>1. SentBefore(up, a) => SentBefore(up2, a)
        BY <3>1, <1>1, <1>3 DEF SentBefore
      <4>2. up2[a] = up[a]
        BY <3>1, <1>1
      <4> QED BY <2>1, <3>1, <4>1, <4>2 DEF SlotOK, ChainOK
    <3>2. CASE a = Len(up) + 1
      <4>1. up2[a] = p /\ 1 .. a - 1 = 1 .. Len(up)
        BY <3>2, <1>1
      <4>2. (\E b \in 1 .. Len(up) : /\ up[b].kind = "File" /\ up[b].file.c = p.file.c
                                     /\ up[b].file.msg = p.file.msg - 1)
              => SentBefore(up2, a)
        BY <4>1, <1>1 DEF SentBefore
      <4> QED BY <2>1, <4>1, <4>2 DEF SlotSends
    <3> QED BY <3>1, <3>2, <1>2
  <2> QED BY <2>1 DEF ChainOK, SlotOK
<1>5. \A n : FilesAbove(up, n) /\ (p.kind = "File" => p.file.id > n) => FilesAbove(up2, n)
  BY <1>1, <1>2 DEF FilesAbove
<1>6. Rising(up2)
  <2>1. ASSUME NEW a \in 1 .. Len(up2), NEW b \in 1 .. Len(up2), a < b,
               up2[a].kind = "File", up2[b].kind = "File"
        PROVE  up2[a].file.id < up2[b].file.id
    <3>1. a \in 1 .. Len(up)
      BY <1>1, <2>1
    <3>2. CASE b \in 1 .. Len(up)
      BY <3>1, <3>2, <2>1, <1>1 DEF SlotOK, OrderOK, Rising
    <3>3. CASE b = Len(up) + 1
      BY <3>1, <3>3, <2>1, <1>1 DEF SlotSends
    <3> QED BY <3>2, <3>3, <1>2
  <2> QED BY <2>1 DEF Rising
<1>7. OrderOK(x, up2, oq, m)
  BY <1>5, <1>6 DEF SlotOK, OrderOK, SlotSends
<1>8. NoFiles(up) /\ p.kind # "File" => NoFiles(up2)
  BY <1>1, <1>2 DEF NoFiles
<1> QED BY <1>4, <1>7, <1>8 DEF SlotOK, SlotSends, up2

-----------------------------------------------------------------------------
(***************************************************************************)
(* Slots and the queue when the server reads and queues a file.            *)
(***************************************************************************)

\* A connection without its first piece.
LEMMA TailFacts ==
    ASSUME NEW up \in Seq(UpMsg), up # << >>
    PROVE  /\ Len(up) \in Nat /\ Len(Tail(up)) = Len(up) - 1 /\ Tail(up) \in Seq(UpMsg)
           /\ \A a \in 1 .. Len(Tail(up)) : Tail(up)[a] = up[a + 1] /\ a + 1 \in 2 .. Len(up)
           /\ Head(up) = up[1] /\ Head(up) \in UpMsg /\ 1 \in 1 .. Len(up)
<1>1. /\ Tail(up) \in Seq(UpMsg) /\ Len(up) \in Nat \ {0}
      /\ Len(Tail(up)) = Len(up) - 1
      /\ \A i \in 1 .. Len(Tail(up)) : Tail(up)[i] = up[i + 1]
      /\ Head(up) = up[1] /\ Head(up) \in UpMsg
  BY SetOfTail
<1> QED BY <1>1

\* Its order is what it was.
LEMMA OrderOfTail ==
    ASSUME NEW up \in Seq(UpMsg), up # << >>
    PROVE  /\ Rising(up) => Rising(Tail(up))
           /\ \A n : FilesAbove(up, n) => FilesAbove(Tail(up), n)
           /\ NoFiles(up) => NoFiles(Tail(up))
           /\ Rising(up) /\ Head(up).kind = "File" => FilesAbove(Tail(up), Head(up).file.id)
<1> DEFINE up2 == Tail(up)
<1>1. /\ Len(up) \in Nat /\ Len(up2) = Len(up) - 1
      /\ \A a \in 1 .. Len(up2) : up2[a] = up[a + 1] /\ a + 1 \in 2 .. Len(up)
      /\ Head(up) = up[1] /\ 1 \in 1 .. Len(up)
  BY TailFacts
<1> HIDE DEF up2
<1>2. \A a \in 1 .. Len(up2) : a + 1 \in 1 .. Len(up) /\ 1 < a + 1
  BY <1>1
<1>3. \A a, b \in 1 .. Len(up2) : a < b => a + 1 < b + 1
  BY <1>1
<1>4. Rising(up) => Rising(up2)
  BY <1>1, <1>2, <1>3 DEF Rising
<1>5. \A n : FilesAbove(up, n) => FilesAbove(up2, n)
  BY <1>1, <1>2 DEF FilesAbove
<1>6. NoFiles(up) => NoFiles(up2)
  BY <1>1, <1>2 DEF NoFiles
<1>7. Rising(up) /\ Head(up).kind = "File" => FilesAbove(up2, Head(up).file.id)
  <2>1. SUFFICES ASSUME Rising(up), up[1].kind = "File", NEW a \in 1 .. Len(up2), up2[a].kind = "File"
                 PROVE  up2[a].file.id > up[1].file.id
    BY <1>1 DEF FilesAbove
  <2>2. up[1].file.id < up[a + 1].file.id
    BY <2>1, <1>1, <1>2 DEF Rising
  <2>3. up[a + 1] \in UpMsg /\ up[1] \in UpMsg /\ up[a + 1].kind = "File"
    BY <2>1, <1>1, <1>2, UpFacts
  <2>4. up[a + 1].file.id \in Nat /\ up[1].file.id \in Nat
    BY <2>1, <2>3, FilePieces, FileFields
  <2> QED BY <2>2, <2>4, <1>1
<1> QED BY <1>4, <1>5, <1>6, <1>7 DEF up2

\* A piece that is no file is read.
LEMMA SlotSkips ==
    ASSUME NEW x, NEW up \in Seq(UpMsg), up # << >>, NEW books, NEW disp, NEW oq, NEW m,
           SlotOK(x, up, books, disp, oq, m), Head(up).kind # "File"
    PROVE  SlotOK(x, Tail(up), books, disp, oq, m)
<1> DEFINE up2 == Tail(up)
<1>1. /\ Len(up) \in Nat /\ Len(up2) = Len(up) - 1
      /\ \A a \in 1 .. Len(up2) : up2[a] = up[a + 1] /\ a + 1 \in 2 .. Len(up)
      /\ Head(up) = up[1] /\ 1 \in 1 .. Len(up)
  BY TailFacts
<1>2. /\ Rising(up) => Rising(up2)
      /\ \A n : FilesAbove(up, n) => FilesAbove(up2, n)
      /\ NoFiles(up) => NoFiles(up2)
  BY OrderOfTail
<1> HIDE DEF up2
<1>3. ASSUME NEW a \in 1 .. Len(up2), up2[a].kind = "File"
      PROVE  /\ Counted(up2[a].file, books)
             /\ \/ Preceded(up2[a].file, disp, oq) \/ HeldBefore(x, up2[a].file)
                \/ SentBefore(up2, a)
  <2>1. SentBefore(up, a + 1) => SentBefore(up2, a)
    <3>1. SUFFICES ASSUME NEW b \in 1 .. (a + 1) - 1, up[b].kind = "File",
                          up[b].file.c = up[a + 1].file.c,
                          up[b].file.msg = up[a + 1].file.msg - 1
                   PROVE  SentBefore(up2, a)
      BY DEF SentBefore
    <3>2. b # 1
      BY <3>1, <1>1
    <3>3. b - 1 \in 1 .. a - 1 /\ b - 1 \in 1 .. Len(up2) /\ (b - 1) + 1 = b
      BY <3>2, <1>1
    <3>4. up2[b - 1] = up[b] /\ up2[a] = up[a + 1]
      BY <3>3, <1>1
    <3> QED BY <3>1, <3>3, <3>4 DEF SentBefore
  <2>2. a + 1 \in 1 .. Len(up) /\ up2[a] = up[a + 1]
    BY <1>1
  <2> QED BY <1>3, <2>1, <2>2 DEF SlotOK, ChainOK
<1>4. ChainOK(x, up2, books, disp, oq)
  BY <1>3 DEF SlotOK, ChainOK
<1>5. OrderOK(x, up2, oq, m)
  BY <1>2 DEF SlotOK, OrderOK
<1> QED BY <1>2, <1>4, <1>5 DEF SlotOK, up2

\* A slot without files in it.
LEMMA SlotBegins ==
    ASSUME NEW x, NEW x2, NEW up \in Seq(UpMsg), NEW books, NEW disp, NEW oq, NEW m,
           SlotOK(x, up, books, disp, oq, m), NoFiles(up), x2.state = "begin",
           x2.cx_id = x.cx_id, x2.ack_file = x.ack_file
    PROVE  SlotOK(x2, up, books, disp, oq, m)
<1>1. /\ Rising(up) /\ \A n : FilesAbove(up, n)
      /\ \A n : HeldAbove(x2, n)
      /\ \A a \in 1 .. Len(up) : up[a].kind # "File"
  BY DEF NoFiles, Rising, FilesAbove, HeldAbove
<1>2. ChainOK(x2, up, books, disp, oq)
  BY <1>1 DEF ChainOK
<1>3. OrderOK(x2, up, oq, m)
  BY <1>1 DEF SlotOK, OrderOK
<1> QED BY <1>2, <1>3 DEF SlotOK

\* A slot that was just opened is in order.
LEMMA SlotOpens ==
    ASSUME NEW x, NEW up \in Seq(UpMsg), NEW books, NEW disp, NEW oq, NEW m,
           NoFiles(up), x.state = "init",
           \A e \in 1 .. Len(oq) : oq[e].sender # x.cx_id,
           ~(m.at = "ack" /\ m.file.sender = x.cx_id)
    PROVE  SlotOK(x, up, books, disp, oq, m)
<1>1. /\ Rising(up) /\ \A n : FilesAbove(up, n)
      /\ \A n : HeldAbove(x, n) /\ QueuedAbove(oq, x.cx_id, n)
      /\ \A a \in 1 .. Len(up) : up[a].kind # "File"
  BY DEF NoFiles, Rising, FilesAbove, HeldAbove, QueuedAbove
<1>2. ChainOK(x, up, books, disp, oq)
  BY <1>1 DEF ChainOK
<1>3. OrderOK(x, up, oq, m)
  BY <1>1 DEF OrderOK
<1> QED BY <1>2, <1>3 DEF SlotOK

\* The file at the head is read.
LEMMA SlotTakes ==
    ASSUME NEW x, NEW x2, NEW up \in Seq(UpMsg), up # << >>, NEW books, NEW disp, NEW oq, NEW m,
           SlotOK(x, up, books, disp, oq, m), Head(up).kind = "File",
           x.state = "begin", x2.state = "end", x2.cx_id = x.cx_id, x2.ack_file = x.ack_file,
           x2.file.c = Head(up).file.c, x2.file.id = Head(up).file.id,
           x2.file.msg = Head(up).file.msg
    PROVE  SlotOK(x2, Tail(up), books, disp, oq, m)
<1> DEFINE up2 == Tail(up)
           h == Head(up).file
<1>1. /\ Len(up) \in Nat /\ Len(up2) = Len(up) - 1
      /\ \A a \in 1 .. Len(up2) : up2[a] = up[a + 1] /\ a + 1 \in 2 .. Len(up)
      /\ Head(up) = up[1] /\ 1 \in 1 .. Len(up)
  BY TailFacts
<1>2. /\ Rising(up) => Rising(up2)
      /\ \A n : FilesAbove(up, n) => FilesAbove(up2, n)
      /\ NoFiles(up) => NoFiles(up2)
      /\ Rising(up) => FilesAbove(up2, h.id)
  BY OrderOfTail
<1>3. /\ up[1].kind = "File" /\ h = up[1].file
      /\ x2.file.c = h.c /\ x2.file.id = h.id /\ x2.file.msg = h.msg
  BY <1>1
<1> HIDE DEF up2, h
<1>4. Counted(x2.file, books) /\ Preceded(x2.file, disp, oq)
  <2>1. ~SentBefore(up, 1) /\ ~HeldBefore(x, h)
    BY DEF SentBefore, HeldBefore
  <2>2. Counted(h, books) /\ Preceded(h, disp, oq)
    BY <2>1, <1>1, <1>3 DEF SlotOK, ChainOK
  <2> QED BY <2>2, <1>3 DEF Counted, Preceded
<1>5. ASSUME NEW a \in 1 .. Len(up2), up2[a].kind = "File"
      PROVE  /\ Counted(up2[a].file, books)
             /\ \/ Preceded(up2[a].file, disp, oq) \/ HeldBefore(x2, up2[a].file)
                \/ SentBefore(up2, a)
  <2>2. a + 1 \in 1 .. Len(up) /\ up2[a] = up[a + 1]
    BY <1>1
  <2>1. SentBefore(up, a + 1) => SentBefore(up2, a) \/ HeldBefore(x2, up2[a].file)
    <3>1. SUFFICES ASSUME NEW b \in 1 .. (a + 1) - 1, up[b].kind = "File",
                          up[b].file.c = up[a + 1].file.c,
                          up[b].file.msg = up[a + 1].file.msg - 1
                   PROVE  SentBefore(up2, a) \/ HeldBefore(x2, up2[a].file)
      BY DEF SentBefore
    <3>2. CASE b = 1
      BY <3>1, <3>2, <2>2, <1>3 DEF HeldBefore
    <3>3. CASE b # 1
      <4>1. b - 1 \in 1 .. a - 1 /\ b - 1 \in 1 .. Len(up2) /\ (b - 1) + 1 = b
        BY <3>3, <1>1
      <4>2. up2[b - 1] = up[b]
        BY <4>1, <1>1
      <4> QED BY <3>1, <4>1, <4>2, <2>2 DEF SentBefore
    <3> QED BY <3>2, <3>3
  <2>3. ~HeldBefore(x, up2[a].file)
    BY DEF HeldBefore
  <2> QED BY <1>5, <2>1, <2>2, <2>3 DEF SlotOK, ChainOK
<1>6. ChainOK(x2, up2, books, disp, oq)
  BY <1>4, <1>5 DEF ChainOK
<1>7. \A n : FilesAbove(up, n) => HeldAbove(x2, n)
  BY <1>1, <1>3 DEF FilesAbove, HeldAbove
<1>8. OrderOK(x2, up2, oq, m)
  BY <1>2, <1>3, <1>7 DEF SlotOK, OrderOK
<1> QED BY <1>6, <1>8 DEF SlotOK, up2

\* The queue with one more message.
LEMMA AppendedQueue ==
    ASSUME NEW oq \in Seq(FileSet), NEW f \in FileSet
    PROVE  /\ Append(oq, f) \in Seq(FileSet) /\ Len(oq) \in Nat
           /\ Len(Append(oq, f)) = Len(oq) + 1
           /\ \A e \in 1 .. Len(oq) : Append(oq, f)[e] = oq[e]
           /\ Append(oq, f)[Len(oq) + 1] = f
           /\ \A e \in 1 .. Len(Append(oq, f)) : e \in 1 .. Len(oq) \/ e = Len(oq) + 1
           /\ \A c, n : InQueue(oq, c, n) => InQueue(Append(oq, f), c, n)
           /\ InQueue(Append(oq, f), f.c, f.msg)
<1> DEFINE q == Append(oq, f)
<1>1. /\ q \in Seq(FileSet) /\ Len(oq) \in Nat /\ Len(q) = Len(oq) + 1
      /\ \A e \in 1 .. Len(oq) : q[e] = oq[e]
      /\ q[Len(oq) + 1] = f
  BY SetOfAppend, QueueFacts
<1> HIDE DEF q
<1>2. \A e \in 1 .. Len(q) : e \in 1 .. Len(oq) \/ e = Len(oq) + 1
  BY <1>1
<1>3. /\ \A e \in 1 .. Len(oq) : e \in 1 .. Len(q)
      /\ Len(oq) + 1 \in 1 .. Len(q)
  BY <1>1
<1>4. \A c, n : InQueue(oq, c, n) => InQueue(q, c, n)
  BY <1>1, <1>3 DEF InQueue
<1>5. InQueue(q, f.c, f.msg)
  BY <1>1, <1>3 DEF InQueue
<1> QED BY <1>1, <1>2, <1>4, <1>5 DEF q

\* The file of the slot is pushed.
LEMMA SlotPushes ==
    ASSUME NEW x, NEW x2, NEW up \in Seq(UpMsg), NEW books, NEW disp, NEW oq \in Seq(FileSet), NEW m,
           SlotOK(x, up, books, disp, oq, m), x.state = "end", x.file \in FileSet,
           x.file.sender = x.cx_id,
           x2.state = "begin", x2.cx_id = x.cx_id, x2.ack_file = x.ack_file
    PROVE  SlotOK(x2, up, books, disp, Append(oq, x.file), m)
<1> DEFINE q == Append(oq, x.file)
<1>1. /\ \A e \in 1 .. Len(oq) : q[e] = oq[e]
      /\ q[Len(oq) + 1] = x.file
      /\ \A e \in 1 .. Len(q) : e \in 1 .. Len(oq) \/ e = Len(oq) + 1
      /\ \A c, n : InQueue(oq, c, n) => InQueue(q, c, n)
      /\ InQueue(q, x.file.c, x.file.msg)
  BY AppendedQueue
<1> HIDE DEF q
<1>2. \A f : Preceded(f, disp, oq) \/ HeldBefore(x, f) => Preceded(f, disp, q)
  BY <1>1 DEF Preceded, HeldBefore
<1>3. ChainOK(x2, up, books, disp, q)
  BY <1>2 DEF SlotOK, ChainOK
<1>4. \A n : HeldAbove(x2, n)
  BY DEF HeldAbove
<1>5. \A n : QueuedAbove(oq, x.cx_id, n) /\ HeldAbove(x, n) => QueuedAbove(q, x.cx_id, n)
  BY <1>1 DEF QueuedAbove, HeldAbove
<1>6. \A e \in 1 .. Len(q) : q[e].sender = x.cx_id => FilesAbove(up, q[e].id)
  BY <1>1 DEF SlotOK, OrderOK
<1>7. OrderOK(x2, up, q, m)
  BY <1>4, <1>5, <1>6 DEF SlotOK, OrderOK
<1> QED BY <1>3, <1>7 DEF SlotOK, q

\* Another one is pushed.
LEMMA SlotWatches ==
    ASSUME NEW x, NEW up \in Seq(UpMsg), NEW books, NEW disp, NEW oq \in Seq(FileSet), NEW m,
           SlotOK(x, up, books, disp, oq, m), NEW f \in FileSet, f.sender # x.cx_id
    PROVE  SlotOK(x, up, books, disp, Append(oq, f), m)
<1> DEFINE q == Append(oq, f)
<1>1. /\ \A e \in 1 .. Len(oq) : q[e] = oq[e]
      /\ q[Len(oq) + 1] = f
      /\ \A e \in 1 .. Len(q) : e \in 1 .. Len(oq) \/ e = Len(oq) + 1
      /\ \A c, n : InQueue(oq, c, n) => InQueue(q, c, n)
  BY AppendedQueue
<1> HIDE DEF q
<1>2. \A g : Preceded(g, disp, oq) => Preceded(g, disp, q)
  BY <1>1 DEF Preceded
<1>3. ChainOK(x, up, books, disp, q)
  BY <1>2 DEF SlotOK, ChainOK
<1>5. \A n : QueuedAbove(oq, x.cx_id, n) => QueuedAbove(q, x.cx_id, n)
  BY <1>1 DEF QueuedAbove
<1>6. \A e \in 1 .. Len(q) : q[e].sender = x.cx_id => HeldAbove(x, q[e].id) /\ FilesAbove(up, q[e].id)
  BY <1>1 DEF SlotOK, OrderOK
<1>7. OrderOK(x, up, q, m)
  BY <1>5, <1>6 DEF SlotOK, OrderOK
<1> QED BY <1>3, <1>7 DEF SlotOK, q

\* The queue stays in order when the next message comes.
LEMMA QueuePushes ==
    ASSUME NEW oq \in Seq(FileSet), NEW books, NEW disp, NEW m, NEW f \in FileSet,
           QueueOK(oq, books, disp, m), Counted(f, books), Preceded(f, disp, oq),
           \A e \in 1 .. Len(oq) : oq[e].sender = f.sender => oq[e].id < f.id
    PROVE  QueueOK(Append(oq, f), books, disp, m)
<1> DEFINE q == Append(oq, f)
<1>1. /\ \A e \in 1 .. Len(oq) : q[e] = oq[e]
      /\ q[Len(oq) + 1] = f /\ Len(oq) \in Nat
      /\ \A e \in 1 .. Len(q) : e \in 1 .. Len(oq) \/ e = Len(oq) + 1
  BY AppendedQueue
<1> HIDE DEF q
<1>2. \A e \in 1 .. Len(q) : Counted(q[e], books)
  BY <1>1 DEF QueueOK
<1>3. ASSUME NEW e \in 1 .. Len(q)
      PROVE  \/ q[e].msg <= Cardinality(disp[q[e].c]) + 1
             \/ \E j \in 1 .. e - 1 : q[j].c = q[e].c /\ q[j].msg = q[e].msg - 1
  <2>1. CASE e \in 1 .. Len(oq)
    <3>1. \A j \in 1 .. e - 1 : j \in 1 .. Len(oq)
      BY <1>1, <2>1
    <3> QED BY <2>1, <3>1, <1>1 DEF QueueOK
  <2>2. CASE e = Len(oq) + 1
    <3>1. 1 .. e - 1 = 1 .. Len(oq) /\ q[e] = f
      BY <1>1, <2>2
    <3> QED BY <3>1, <1>1 DEF Preceded, InQueue
  <2> QED BY <2>1, <2>2, <1>1
<1>4. ASSUME NEW j \in 1 .. Len(q), NEW e \in 1 .. Len(q), j < e, q[j].sender = q[e].sender
      PROVE  q[j].id < q[e].id
  <2>1. j \in 1 .. Len(oq)
    BY <1>1, <1>4
  <2>2. CASE e \in 1 .. Len(oq)
    BY <1>1, <1>4, <2>1, <2>2 DEF QueueOK
  <2>3. CASE e = Len(oq) + 1
    BY <1>1, <1>4, <2>1, <2>3
  <2> QED BY <2>2, <2>3, <1>1
<1> QED BY <1>2, <1>3, <1>4 DEF QueueOK, q

-----------------------------------------------------------------------------
(***************************************************************************)
(* Slots and the queue when the main thread takes and acknowledges a file. *)
(***************************************************************************)

\* More is dispatched of each client, h with it.
Covered(disp, disp2, h) ==
    /\ \A c \in Clients : /\ Cardinality(disp[c]) \in Nat /\ Cardinality(disp2[c]) \in Nat
                          /\ Cardinality(disp2[c]) >= Cardinality(disp[c])
    /\ Cardinality(disp2[h.c]) >= h.msg

\* What is dispatched stays a prefix when its next message, or an old one, is added.
LEMMA DispatchedTakes ==
    ASSUME NEW books, NEW disp \in [Clients -> SUBSET Nat], NEW h \in FileSet,
           DispatchedOK(books, disp), Counted(h, books), h.msg <= Cardinality(disp[h.c]) + 1
    PROVE  /\ DispatchedOK(books, [disp EXCEPT ![h.c] = @ \cup {h.msg}])
           /\ Covered(disp, [disp EXCEPT ![h.c] = @ \cup {h.msg}], h)
           /\ \A c \in Clients : Cardinality([disp EXCEPT ![h.c] = @ \cup {h.msg}][c]) =
                  IF c = h.c /\ h.msg > Cardinality(disp[c]) THEN h.msg ELSE Cardinality(disp[c])
<1> DEFINE disp2 == [disp EXCEPT ![h.c] = @ \cup {h.msg}]
           n == Cardinality(disp[h.c])
<1>1. h.c \in Clients /\ h.msg \in Nat
  BY FileFields
<1>2. /\ disp2[h.c] = disp[h.c] \cup {h.msg}
      /\ \A c \in Clients : c # h.c => disp2[c] = disp[c]
  BY <1>1
<1>3. n \in Nat /\ disp[h.c] = 1 .. n /\ h.msg <= n + 1 /\ 1 <= h.msg
  BY <1>1 DEF DispatchedOK, Counted
<1> HIDE DEF disp2, n
<1>4. PICK k \in Nat : disp2[h.c] = 1 .. k /\ k = IF h.msg > n THEN h.msg ELSE n
  <2>1. CASE h.msg > n
    <3>1. (1 .. n) \cup {h.msg} = 1 .. h.msg
      BY <1>1, <1>3, <2>1
    <3> QED BY <3>1, <1>1, <1>2, <1>3, <2>1
  <2>2. CASE ~(h.msg > n)
    <3>1. (1 .. n) \cup {h.msg} = 1 .. n
      BY <1>1, <1>3, <2>2
    <3> QED BY <3>1, <1>2, <1>3, <2>2
  <2> QED BY <2>1, <2>2
<1>5. Cardinality(1 .. k) = k
  <2>1. 1 \in Int /\ k \in Int
    BY <1>4
  <2>2. Cardinality(1 .. k) = IF 1 > k THEN 0 ELSE k - 1 + 1
    BY <2>1, FS_Interval
  <2> QED BY <2>2, <1>4
<1>6. Cardinality(disp2[h.c]) = k /\ k >= n /\ k >= h.msg
  BY <1>1, <1>3, <1>4, <1>5
<1>7. k <= books[h.c].accepted
  BY <1>1, <1>4 DEF DispatchedOK, Counted, n
<1>8. ASSUME NEW c \in Clients
      PROVE  /\ Cardinality(disp2[c]) \in Nat /\ disp2[c] = 1 .. Cardinality(disp2[c])
             /\ Cardinality(disp2[c]) <= books[c].accepted
             /\ Cardinality(disp[c]) \in Nat
             /\ Cardinality(disp2[c]) >= Cardinality(disp[c])
             /\ Cardinality(disp2[c]) =
                  IF c = h.c /\ h.msg > Cardinality(disp[c]) THEN h.msg ELSE Cardinality(disp[c])
  <2>1. CASE c = h.c
    BY <2>1, <1>3, <1>4, <1>6, <1>7 DEF n
  <2>2. CASE c # h.c
    <3>1. disp2[c] = disp[c]
      BY <2>2, <1>2
    <3>2. Cardinality(disp[c]) \in Nat /\ disp[c] = 1 .. Cardinality(disp[c])
          /\ Cardinality(disp[c]) <= books[c].accepted
      BY DEF DispatchedOK
    <3> QED BY <2>2, <3>1, <3>2
  <2> QED BY <2>1, <2>2
<1>9. DispatchedOK(books, disp2)
  BY <1>8 DEF DispatchedOK
<1>10. Covered(disp, disp2, h)
  BY <1>6, <1>8 DEF Covered
<1> QED BY <1>8, <1>9, <1>10 DEF disp2

\* The queue without its first message.
LEMMA QueueTail ==
    ASSUME NEW oq \in Seq(FileSet), oq # << >>
    PROVE  /\ Len(oq) \in Nat /\ Len(Tail(oq)) = Len(oq) - 1 /\ Tail(oq) \in Seq(FileSet)
           /\ \A e \in 1 .. Len(Tail(oq)) : Tail(oq)[e] = oq[e + 1] /\ e + 1 \in 2 .. Len(oq)
           /\ Head(oq) = oq[1] /\ Head(oq) \in FileSet /\ 1 \in 1 .. Len(oq)
           /\ \A e \in 1 .. Len(oq) : e = 1 \/ (e - 1 \in 1 .. Len(Tail(oq)) /\ Tail(oq)[e - 1] = oq[e])
           /\ \A c, n : InQueue(oq, c, n) => InQueue(Tail(oq), c, n) \/ (Head(oq).c = c /\ Head(oq).msg = n)
           /\ \A s, n : QueuedAbove(oq, s, n) => QueuedAbove(Tail(oq), s, n)
<1> DEFINE q == Tail(oq)
<1>1. /\ q \in Seq(FileSet) /\ Len(oq) \in Nat \ {0}
      /\ Len(q) = Len(oq) - 1
      /\ \A i \in 1 .. Len(q) : q[i] = oq[i + 1]
      /\ Head(oq) = oq[1] /\ Head(oq) \in FileSet
  BY SetOfTail
<1> HIDE DEF q
<1>2. \A e \in 1 .. Len(q) : q[e] = oq[e + 1] /\ e + 1 \in 2 .. Len(oq) /\ e + 1 \in 1 .. Len(oq)
  BY <1>1
<1>3. ASSUME NEW e \in 1 .. Len(oq), e # 1
      PROVE  e - 1 \in 1 .. Len(q) /\ q[e - 1] = oq[e]
  <2>1. e - 1 \in 1 .. Len(q) /\ (e - 1) + 1 = e
    BY <1>1, <1>3
  <2> QED BY <2>1, <1>2
<1>4. \A c, n : InQueue(oq, c, n) => InQueue(q, c, n) \/ (Head(oq).c = c /\ Head(oq).msg = n)
  BY <1>1, <1>3 DEF InQueue
<1>5. \A s, n : QueuedAbove(oq, s, n) => QueuedAbove(q, s, n)
  BY <1>2 DEF QueuedAbove
<1>6. 1 \in 1 .. Len(oq)
  BY <1>1
<1> QED BY <1>1, <1>2, <1>3, <1>4, <1>5, <1>6 DEF q

\* A message stays preceded when the first of the queue is dispatched.
LEMMA PrecededStays ==
    ASSUME NEW oq \in Seq(FileSet), oq # << >>, NEW disp, NEW disp2, Covered(disp, disp2, Head(oq)),
           NEW f \in FileSet, Preceded(f, disp, oq)
    PROVE  Preceded(f, disp2, Tail(oq))
<1> DEFINE h == Head(oq)
           q == Tail(oq)
<1>1. /\ h \in FileSet
      /\ \A c, n : InQueue(oq, c, n) => InQueue(q, c, n) \/ (h.c = c /\ h.msg = n)
  BY QueueTail
<1>2. f.c \in Clients /\ f.msg \in Nat /\ h.msg \in Nat /\ h.c \in Clients
  BY <1>1, FileFields
<1>3. /\ Cardinality(disp[f.c]) \in Nat /\ Cardinality(disp2[f.c]) \in Nat
      /\ Cardinality(disp2[f.c]) >= Cardinality(disp[f.c])
      /\ Cardinality(disp2[h.c]) >= h.msg
  BY <1>2 DEF Covered
<1> HIDE DEF h, q
<1>4. CASE f.msg <= Cardinality(disp[f.c]) + 1
  <2>1. f.msg <= Cardinality(disp2[f.c]) + 1
    BY <1>2, <1>3, <1>4
  <2> QED BY <2>1 DEF Preceded, q
<1>5. CASE InQueue(q, f.c, f.msg - 1)
  BY <1>5 DEF Preceded, q
<1>6. CASE h.c = f.c /\ h.msg = f.msg - 1
  <2>1. f.msg <= Cardinality(disp2[f.c]) + 1
    BY <1>2, <1>3, <1>6
  <2> QED BY <2>1 DEF Preceded, q
<1> QED BY <1>1, <1>4, <1>5, <1>6 DEF Preceded, h, q

\* The main thread takes the head of the queue.
LEMMA QueueDispatches ==
    ASSUME NEW oq \in Seq(FileSet), oq # << >>, NEW books, NEW disp, NEW disp2, NEW m,
           Covered(disp, disp2, Head(oq)), QueueOK(oq, books, disp, m)
    PROVE  QueueOK(Tail(oq), books, disp2, [at |-> "ack", file |-> Head(oq)])
<1> DEFINE h == Head(oq)
           q == Tail(oq)
           m2 == [at |-> "ack", file |-> h]
<1>1. /\ Len(oq) \in Nat /\ Len(q) = Len(oq) - 1 /\ q \in Seq(FileSet)
      /\ \A e \in 1 .. Len(q) : q[e] = oq[e + 1] /\ e + 1 \in 2 .. Len(oq)
      /\ h = oq[1] /\ h \in FileSet /\ 1 \in 1 .. Len(oq)
      /\ \A e \in 1 .. Len(oq) : e = 1 \/ (e - 1 \in 1 .. Len(q) /\ q[e - 1] = oq[e])
  BY QueueTail
<1>2. m2.at # "get" => m2.file.msg <= Cardinality(disp2[m2.file.c])
  <2>1. h.msg \in Nat /\ h.c \in Clients
    BY <1>1, FileFields
  <2>2. Cardinality(disp2[h.c]) \in Nat /\ Cardinality(disp2[h.c]) >= h.msg
    BY <2>1 DEF Covered
  <2>3. h.msg <= Cardinality(disp2[h.c])
    BY <2>1, <2>2
  <2> QED BY <2>3
<1> HIDE DEF q, m2
<1>3. \A e \in 1 .. Len(q) : e + 1 \in 1 .. Len(oq)
  BY <1>1
<1>4. \A e \in 1 .. Len(q) : Counted(q[e], books)
  BY <1>1, <1>3 DEF QueueOK
<1>5. ASSUME NEW e \in 1 .. Len(q)
      PROVE  \/ q[e].msg <= Cardinality(disp2[q[e].c]) + 1
             \/ \E j \in 1 .. e - 1 : q[j].c = q[e].c /\ q[j].msg = q[e].msg - 1
  <2>1. q[e] = oq[e + 1] /\ e + 1 \in 1 .. Len(oq) /\ q[e] \in FileSet
    BY <1>1, <1>3
  <2>2. q[e].c \in Clients /\ q[e].msg \in Nat /\ h.msg \in Nat /\ h.c \in Clients
    BY <2>1, <1>1, FileFields
  <2>3. /\ Cardinality(disp[q[e].c]) \in Nat /\ Cardinality(disp2[q[e].c]) \in Nat
        /\ Cardinality(disp2[q[e].c]) >= Cardinality(disp[q[e].c])
        /\ Cardinality(disp2[h.c]) >= h.msg
    BY <2>2 DEF Covered
  <2>4. \/ q[e].msg <= Cardinality(disp[q[e].c]) + 1
        \/ \E j \in 1 .. (e + 1) - 1 : oq[j].c = q[e].c /\ oq[j].msg = q[e].msg - 1
    BY <2>1 DEF QueueOK
  <2>5. CASE q[e].msg <= Cardinality(disp[q[e].c]) + 1
    BY <2>2, <2>3, <2>5
  <2>6. ASSUME NEW j \in 1 .. (e + 1) - 1, oq[j].c = q[e].c, oq[j].msg = q[e].msg - 1
        PROVE  \/ q[e].msg <= Cardinality(disp2[q[e].c]) + 1
               \/ \E i \in 1 .. e - 1 : q[i].c = q[e].c /\ q[i].msg = q[e].msg - 1
    <3>1. CASE j = 1
      <4>1. h.c = q[e].c /\ h.msg = q[e].msg - 1
        BY <2>6, <3>1, <1>1
      <4>2. Cardinality(disp2[q[e].c]) >= q[e].msg - 1
        BY ONLY <4>1, <2>3
      <4>3. Cardinality(disp2[q[e].c]) \in Nat /\ q[e].msg \in Nat
        BY ONLY <2>2, <2>3
      <4> QED BY ONLY <4>2, <4>3
    <3>2. CASE j # 1
      <4>1. j \in 1 .. Len(oq) /\ j - 1 \in 1 .. e - 1
        BY <2>6, <3>2, <1>1, <1>3
      <4>2. q[j - 1] = oq[j]
        BY <4>1, <3>2, <1>1
      <4> QED BY <4>1, <4>2, <2>6
    <3> QED BY <3>1, <3>2
  <2> QED BY <2>4, <2>5, <2>6
<1>6. ASSUME NEW j \in 1 .. Len(q), NEW e \in 1 .. Len(q), j < e, q[j].sender = q[e].sender
      PROVE  q[j].id < q[e].id
  <2>1. j + 1 < e + 1 /\ j + 1 \in 1 .. Len(oq) /\ e + 1 \in 1 .. Len(oq)
    BY <1>1, <1>3, <1>6
  <2>2. q[j] = oq[j + 1] /\ q[e] = oq[e + 1]
    BY <1>1
  <2> QED BY <2>1, <2>2, <1>6 DEF QueueOK
<1> QED BY <1>2, <1>4, <1>5, <1>6 DEF QueueOK, q, m2

\* So do those of a slot.
LEMMA SlotDispatches ==
    ASSUME NEW x, NEW up \in Seq(UpMsg), NEW books, NEW disp, NEW disp2,
           NEW oq \in Seq(FileSet), oq # << >>, NEW m,
           Covered(disp, disp2, Head(oq)), QueueOK(oq, books, disp, m),
           x.state = "end" => x.file \in FileSet,
           SlotOK(x, up, books, disp, oq, m)
    PROVE  SlotOK(x, up, books, disp2, Tail(oq), [at |-> "ack", file |-> Head(oq)])
<1> DEFINE h == Head(oq)
           q == Tail(oq)
           m2 == [at |-> "ack", file |-> h]
<1>1. /\ Len(oq) \in Nat /\ Len(q) = Len(oq) - 1 /\ q \in Seq(FileSet)
      /\ \A e \in 1 .. Len(q) : q[e] = oq[e + 1] /\ e + 1 \in 2 .. Len(oq)
      /\ h = oq[1] /\ h \in FileSet /\ 1 \in 1 .. Len(oq)
      /\ \A s, n : QueuedAbove(oq, s, n) => QueuedAbove(q, s, n)
  BY QueueTail
<1>2. \A f \in FileSet : Preceded(f, disp, oq) => Preceded(f, disp2, q)
  BY PrecededStays
<1>3. m2.at = "ack" /\ m2.file = h
  OBVIOUS
<1> HIDE DEF h, q, m2
<1>4. \A a \in 1 .. Len(up) : up[a].kind = "File" => up[a].file \in FileSet
  BY UpFacts
<1>5. ChainOK(x, up, books, disp2, q)
  BY <1>2, <1>4 DEF SlotOK, ChainOK
<1>6. \A e \in 1 .. Len(q) : e + 1 \in 1 .. Len(oq) /\ 1 < e + 1 /\ q[e] = oq[e + 1]
  BY <1>1
<1>7. h.sender = x.cx_id =>
          /\ h.id > x.ack_file
          /\ QueuedAbove(q, x.cx_id, h.id)
          /\ HeldAbove(x, h.id) /\ FilesAbove(up, h.id)
  <2>1. h.sender = x.cx_id => h.id > x.ack_file
    BY <1>1 DEF SlotOK, OrderOK, QueuedAbove
  <2>2. h.sender = x.cx_id => HeldAbove(x, h.id) /\ FilesAbove(up, h.id)
    BY <1>1 DEF SlotOK, OrderOK
  <2>3. ASSUME h.sender = x.cx_id, NEW e \in 1 .. Len(q), q[e].sender = x.cx_id
        PROVE  q[e].id > h.id
    <3>1. h.id < q[e].id
      BY <2>3, <1>1, <1>6 DEF QueueOK
    <3>2. h.id \in Nat /\ q[e].id \in Nat
      <4>1. q[e] \in FileSet
        BY <1>1, QueueFacts
      <4> QED BY <4>1, <1>1, FileFields
    <3> QED BY <3>1, <3>2
  <2>4. h.sender = x.cx_id => QueuedAbove(q, x.cx_id, h.id)
    BY <2>3 DEF QueuedAbove
  <2> QED BY <2>1, <2>2, <2>4
<1>8. OrderOK(x, up, q, m2)
  BY <1>1, <1>3, <1>6, <1>7 DEF SlotOK, OrderOK
<1> QED BY <1>5, <1>8 DEF SlotOK, q, m2, h

\* The file that the main thread has is acknowledged.
LEMMA SlotAcks ==
    ASSUME NEW x, NEW x2, NEW up, NEW books, NEW disp, NEW oq, NEW m, NEW m2,
           SlotOK(x, up, books, disp, oq, m), m.at = "ack", m.file.sender = x.cx_id,
           x2.state = x.state, x2.file = x.file, x2.cx_id = x.cx_id,
           x2.ack_file = m.file.id, m2.at = "acked"
    PROVE  SlotOK(x2, up, books, disp, oq, m2)
<1>1. ChainOK(x2, up, books, disp, oq)
  BY DEF SlotOK, ChainOK, HeldBefore
<1>2. OrderOK(x2, up, oq, m2)
  BY DEF SlotOK, OrderOK, HeldAbove
<1> QED BY <1>1, <1>2 DEF SlotOK

-----------------------------------------------------------------------------
(***************************************************************************)
(* Links.                                                                  *)
(***************************************************************************)

\* The connection k becomes k2 without anything new for the server.
SameLine(me, k, k2) ==
    /\ k2.up = k.up \/ (k2.up = << >> /\ k2.broken)
    /\ ~k2.broken => ~k.broken
    /\ k2.down = k.down \/ k2.down = << >> \/ me.state = "connected"

\* A link stays in order when more is dispatched, and when the connection breaks.
LEMMA LinkGrows ==
    ASSUME NEW c, NEW me, NEW b, NEW n \in Nat, NEW n2 \in Nat, NEW x, NEW x2, NEW k, NEW k2,
           NEW oq, NEW m, NEW m2, b.base \in Nat, x.ack_file \in Nat, SentBy(me, b) \in Int,
           LinkOK(c, me, b, n, x, k, oq, m), n2 >= n, SameSlot(x, x2), MainKept(m, m2),
           x2.non_acknowledged = x.non_acknowledged \/ x2.non_acknowledged = 0,
           SameLine(me, k, k2)
    PROVE  LinkOK(c, me, b, n2, x2, k2, oq, m2)
<1> DEFINE s == SentBy(me, b)
<1>0. \A up, z : up = << >> => NoFiles(up) /\ ~(\E a \in 1 .. Len(up) : z)
  BY NothingUp
<1>1. ASSUME me.state = "open" PROVE OpenLinkOK(x2, k2, oq, m2)
  <2>1. OpenLinkOK(x, k, oq, m)
    BY <1>1 DEF LinkOK
  <2>2. NoFiles(k2.up)
    BY <2>1, NothingUp DEF OpenLinkOK, SameLine
  <2>3. x2.state = "init" => k2.down = << >>
    BY <1>1, <2>1 DEF OpenLinkOK, SameLine, SameSlot
  <2> QED BY <2>1, <2>2, <2>3 DEF OpenLinkOK, SameSlot, MainKept
<1>2. ASSUME me.state = "connected" PROVE ConnectedLinkOK(c, b.base, s, n2, x2, k2, oq, m2)
  <2>1. ConnectedLinkOK(c, b.base, s, n, x, k, oq, m)
    BY <1>2 DEF LinkOK
  <2> DEFINE base == b.base
  <2>2. s \in Int /\ base \in Nat
    OBVIOUS
  <2> HIDE DEF s, base
  <2>3. /\ x2.state # "init"
        /\ x2.ack_file + base <= n2 /\ x2.ack_file + base <= s
    BY <2>1, <2>2 DEF ConnectedLinkOK, SameSlot, base
  <2>4. /\ \A e \in 1 .. Len(oq) : oq[e].sender = x2.cx_id => Mine(oq[e], c, base, s)
        /\ x2.state = "end" => Mine(x2.file, c, base, s)
        /\ m2.at = "ack" /\ m2.file.sender = x2.cx_id => Mine(m2.file, c, base, s)
    BY <2>1 DEF ConnectedLinkOK, SameSlot, MainKept, base
  <2>5. \A a \in 1 .. Len(k2.up) : k2.up[a].kind = "File" => Mine(k2.up[a].file, c, base, s)
    BY <2>1, NothingUp DEF ConnectedLinkOK, SameLine, base
  <2>6. ASSUME ~k2.broken PROVE s <= n2 \/ OnItsWay(c, s, x2, k2.up, oq)
    <3>1. k2.up = k.up /\ ~k.broken
      BY <2>6 DEF SameLine
    <3>2. s <= n \/ OnItsWay(c, s, x, k.up, oq)
      BY <2>1, <3>1 DEF ConnectedLinkOK
    <3>3. s <= n => s <= n2
      BY <2>2
    <3> QED BY <3>1, <3>2, <3>3 DEF OnItsWay, SameSlot
  <2> QED BY <2>3, <2>4, <2>5, <2>6 DEF ConnectedLinkOK, base
<1> QED BY <1>1, <1>2 DEF LinkOK

\* The client sends the next piece of a file.
LEMMA LinkSends ==
    ASSUME NEW c, NEW base \in Nat, NEW s \in Int, NEW s2 \in Int, NEW n, NEW x, NEW k, NEW k2,
           NEW oq \in Seq(FileSet), NEW m, NEW p \in UpMsg, k.up \in Seq(UpMsg),
           x.ack_file \in Nat, x.state = "end" => x.file \in FileSet,
           m.at = "ack" => m.file \in FileSet,
           ConnectedLinkOK(c, base, s, n, x, k, oq, m),
           k2.up = Append(k.up, p), k2.broken = k.broken,
           \/ p.kind # "File" /\ s2 = s
           \/ p.kind = "File" /\ s2 = s + 1 /\ p.file.c = c /\ p.file.msg = s2
              /\ p.file.msg = p.file.id + base
    PROVE  ConnectedLinkOK(c, base, s2, n, x, k2, oq, m)
<1> DEFINE up == k.up
           up2 == Append(up, p)
<1>1. /\ Len(up) \in Nat /\ Len(up2) = Len(up) + 1
      /\ \A a \in 1 .. Len(up) : up2[a] = up[a]
      /\ up2[Len(up) + 1] = p
  BY SetOfAppend, UpFacts
<1>2. k2.up = up2 /\ k2.broken = k.broken
  OBVIOUS
<1>3. \A a \in 1 .. Len(up) : up[a].kind = "File" => up[a].file \in FileSet
  BY UpFacts
<1>4. \A e \in 1 .. Len(oq) : oq[e] \in FileSet
  BY QueueFacts
<1>5. ConnectedLinkOK(c, base, s, n, x, k, oq, m) /\ up = k.up
  OBVIOUS
<1> HIDE DEF up, up2
<1>6. \A a \in 1 .. Len(up2) : a \in 1 .. Len(up) \/ a = Len(up) + 1
  BY <1>1
<1>7. \A a \in 1 .. Len(up) : a \in 1 .. Len(up2)
  BY <1>1
<1>8. Len(up) + 1 \in 1 .. Len(up2)
  BY <1>1
<1>9. \A f \in FileSet : Mine(f, c, base, s) => Mine(f, c, base, s2)
  <2>1. ASSUME NEW f \in FileSet, f.msg <= s PROVE f.msg <= s2
    <3>1. f.msg \in Nat
      BY FileFields
    <3>2. s2 = s \/ s2 = s + 1
      OBVIOUS
    <3> QED BY <2>1, <3>1, <3>2
  <2> QED BY <2>1 DEF Mine
<1>10. p.kind = "File" => Mine(p.file, c, base, s2)
  BY DEF Mine
<1>11. /\ x.state # "init" /\ x.ack_file + base <= n /\ x.ack_file + base <= s2
  <2>1. x.state # "init" /\ x.ack_file + base <= n /\ x.ack_file + base <= s
    BY <1>5 DEF ConnectedLinkOK
  <2>2. s2 = s \/ s2 = s + 1
    OBVIOUS
  <2>3. x.ack_file \in Nat /\ base \in Nat /\ s \in Int
    OBVIOUS
  <2> QED BY ONLY <2>1, <2>2, <2>3
<1>12. /\ \A e \in 1 .. Len(oq) : oq[e].sender = x.cx_id => Mine(oq[e], c, base, s2)
       /\ x.state = "end" => Mine(x.file, c, base, s2)
       /\ m.at = "ack" /\ m.file.sender = x.cx_id => Mine(m.file, c, base, s2)
  BY <1>4, <1>5, <1>9 DEF ConnectedLinkOK
<1>13. \A a \in 1 .. Len(up2) : up2[a].kind = "File" => Mine(up2[a].file, c, base, s2)
  <2>1. \A a \in 1 .. Len(up) : up[a].kind = "File" => Mine(up[a].file, c, base, s2)
    BY <1>3, <1>5, <1>9 DEF ConnectedLinkOK
  <2> QED BY <2>1, <1>1, <1>6, <1>10
<1>14. ASSUME ~k2.broken PROVE s2 <= n \/ OnItsWay(c, s2, x, up2, oq)
  <2>1. CASE p.kind # "File" /\ s2 = s
    <3>1. s <= n \/ OnItsWay(c, s, x, up, oq)
      BY <1>2, <1>5, <1>14 DEF ConnectedLinkOK
    <3>2. OnItsWay(c, s, x, up, oq) => OnItsWay(c, s, x, up2, oq)
      BY <1>1, <1>7 DEF OnItsWay
    <3> QED BY <2>1, <3>1, <3>2
  <2>2. CASE p.kind = "File" /\ p.file.c = c /\ p.file.msg = s2
    BY <2>2, <1>1, <1>8 DEF OnItsWay
  <2> QED BY <2>1, <2>2
<1> QED BY <1>2, <1>11, <1>12, <1>13, <1>14 DEF ConnectedLinkOK

\* READY has arrived: nothing has been sent, and nothing is acknowledged.
LEMMA LinkReady ==
    ASSUME NEW c, NEW base \in Nat, NEW s \in Int, NEW n \in Nat, NEW x, NEW k, NEW k2, NEW oq, NEW m,
           OpenLinkOK(x, k, oq, m), k.down # << >>, k2.up = k.up,
           base <= s, s <= n
    PROVE  ConnectedLinkOK(c, base, s, n, x, k2, oq, m)
<1>1. x.state # "init" /\ x.ack_file = 0 /\ x.state # "end"
  BY DEF OpenLinkOK
<1>2. x.ack_file + base <= n /\ x.ack_file + base <= s
  BY <1>1
<1>3. \A a \in 1 .. Len(k2.up) : k2.up[a].kind # "File"
  BY DEF OpenLinkOK, NoFiles
<1> QED BY <1>1, <1>2, <1>3 DEF OpenLinkOK, ConnectedLinkOK

\* The server reads a piece.
LEMMA LinkReadsHello ==
    ASSUME NEW c, NEW me, NEW b, NEW n, NEW x, NEW x2, NEW k, NEW k2, NEW oq, NEW m,
           LinkOK(c, me, b, n, x, k, oq, m), x.state = "init", k.up \in Seq(UpMsg), k.up # << >>,
           k2.up = Tail(k.up), x2.state = "begin", x2.cx_id = x.cx_id, x2.ack_file = x.ack_file,
           x2.non_acknowledged = x.non_acknowledged
    PROVE  LinkOK(c, me, b, n, x2, k2, oq, m)
<1>1. NoFiles(k.up) => NoFiles(k2.up)
  BY OrderOfTail
<1> QED BY <1>1 DEF LinkOK, OpenLinkOK, ConnectedLinkOK

\* A link stays in order when END is read;
LEMMA LinkSkips ==
    ASSUME NEW c, NEW me, NEW b, NEW n, NEW x, NEW k, NEW k2, NEW oq, NEW m,
           LinkOK(c, me, b, n, x, k, oq, m), k.up \in Seq(UpMsg), k.up # << >>,
           Head(k.up).kind # "File", x.state # "init",
           k2.up = Tail(k.up), k2.broken = k.broken
    PROVE  LinkOK(c, me, b, n, x, k2, oq, m)
<1> DEFINE s == SentBy(me, b)
           up == k.up
           up2 == Tail(up)
<1>1. NoFiles(k.up) => NoFiles(k2.up)
  BY OrderOfTail
<1>2. me.state = "open" => OpenLinkOK(x, k2, oq, m)
  BY <1>1 DEF LinkOK, OpenLinkOK
<1>3. /\ Len(up) \in Nat /\ Len(up2) = Len(up) - 1
      /\ \A a \in 1 .. Len(up2) : up2[a] = up[a + 1] /\ a + 1 \in 2 .. Len(up)
      /\ Head(up) = up[1] /\ 1 \in 1 .. Len(up)
  BY TailFacts
<1>4. up[1].kind # "File" /\ k2.up = up2 /\ k.up = up
  BY <1>3
<1> HIDE DEF s, up, up2
<1>5. \A a \in 1 .. Len(up2) : a + 1 \in 1 .. Len(up)
  BY <1>3
<1>6. \A a \in 1 .. Len(up) : up[a].kind = "File" =>
          a - 1 \in 1 .. Len(up2) /\ up2[a - 1] = up[a]
  <2>1. ASSUME NEW a \in 1 .. Len(up), a # 1
        PROVE  a - 1 \in 1 .. Len(up2) /\ (a - 1) + 1 = a
    BY <2>1, <1>3
  <2> QED BY <2>1, <1>3, <1>4
<1>7. ASSUME ConnectedLinkOK(c, b.base, s, n, x, k, oq, m)
      PROVE  ConnectedLinkOK(c, b.base, s, n, x, k2, oq, m)
  <2>1. \A a \in 1 .. Len(up2) : up2[a].kind = "File" => Mine(up2[a].file, c, b.base, s)
    BY <1>7, <1>3, <1>4, <1>5 DEF ConnectedLinkOK
  <2>2. OnItsWay(c, s, x, up, oq) => OnItsWay(c, s, x, up2, oq)
    BY <1>6 DEF OnItsWay
  <2> QED BY <2>1, <2>2, <1>4, <1>7 DEF ConnectedLinkOK
<1> QED BY <1>2, <1>7 DEF LinkOK, s

\* when a file is read;
LEMMA LinkTakes ==
    ASSUME NEW c, NEW me, NEW b, NEW n, NEW x, NEW x2, NEW k, NEW k2, NEW oq, NEW m,
           LinkOK(c, me, b, n, x, k, oq, m), k.up \in Seq(UpMsg), k.up # << >>,
           Head(k.up).kind = "File", x.state = "begin",
           x2.state = "end", x2.cx_id = x.cx_id, x2.ack_file = x.ack_file,
           x2.file.c = Head(k.up).file.c, x2.file.id = Head(k.up).file.id,
           x2.file.msg = Head(k.up).file.msg,
           k2.up = Tail(k.up), k2.broken = k.broken
    PROVE  LinkOK(c, me, b, n, x2, k2, oq, m)
<1> DEFINE s == SentBy(me, b)
           up == k.up
           up2 == Tail(up)
           h == Head(up).file
<1>3. /\ Len(up) \in Nat /\ Len(up2) = Len(up) - 1
      /\ \A a \in 1 .. Len(up2) : up2[a] = up[a + 1] /\ a + 1 \in 2 .. Len(up)
      /\ Head(up) = up[1] /\ 1 \in 1 .. Len(up)
  BY TailFacts
<1>4. /\ up[1].kind = "File" /\ up[1].file = h /\ k2.up = up2 /\ k.up = up
      /\ x2.file.c = h.c /\ x2.file.id = h.id /\ x2.file.msg = h.msg
  BY <1>3
<1> HIDE DEF s, up, up2, h
<1>2. me.state # "open"
  BY <1>3, <1>4 DEF LinkOK, OpenLinkOK, NoFiles
<1>5. \A a \in 1 .. Len(up2) : a + 1 \in 1 .. Len(up)
  BY <1>3
<1>6. ASSUME NEW a \in 1 .. Len(up), a # 1
      PROVE  a - 1 \in 1 .. Len(up2) /\ up2[a - 1] = up[a]
  <2>1. a - 1 \in 1 .. Len(up2) /\ (a - 1) + 1 = a
    BY <1>6, <1>3
  <2> QED BY <2>1, <1>3
<1>7. ASSUME ConnectedLinkOK(c, b.base, s, n, x, k, oq, m)
      PROVE  ConnectedLinkOK(c, b.base, s, n, x2, k2, oq, m)
  <2>1. \A a \in 1 .. Len(up2) : up2[a].kind = "File" => Mine(up2[a].file, c, b.base, s)
    BY <1>7, <1>3, <1>4, <1>5 DEF ConnectedLinkOK
  <2>2. Mine(x2.file, c, b.base, s)
    BY <1>7, <1>3, <1>4 DEF ConnectedLinkOK, Mine
  <2>3. OnItsWay(c, s, x, up, oq) => OnItsWay(c, s, x2, up2, oq)
    BY <1>4, <1>6 DEF OnItsWay
  <2> QED BY <2>1, <2>2, <2>3, <1>4, <1>7 DEF ConnectedLinkOK
<1> QED BY <1>2, <1>7 DEF LinkOK, s

\* when its slot queues its file;
LEMMA LinkPushes ==
    ASSUME NEW c, NEW me, NEW b, NEW n, NEW x, NEW x2, NEW k, NEW oq \in Seq(FileSet), NEW m,
           LinkOK(c, me, b, n, x, k, oq, m), x.state = "end", x.file \in FileSet,
           x2.state = "begin", x2.cx_id = x.cx_id, x2.ack_file = x.ack_file
    PROVE  LinkOK(c, me, b, n, x2, k, Append(oq, x.file), m)
<1> DEFINE q == Append(oq, x.file)
           s == SentBy(me, b)
<1>1. /\ \A e \in 1 .. Len(oq) : q[e] = oq[e]
      /\ q[Len(oq) + 1] = x.file
      /\ \A e \in 1 .. Len(q) : e \in 1 .. Len(oq) \/ e = Len(oq) + 1
      /\ \A d, i : InQueue(oq, d, i) => InQueue(q, d, i)
      /\ InQueue(q, x.file.c, x.file.msg)
  BY AppendedQueue
<1> HIDE DEF q, s
<1>2. me.state # "open"
  BY DEF LinkOK, OpenLinkOK
<1>3. ASSUME ConnectedLinkOK(c, b.base, s, n, x, k, oq, m)
      PROVE  ConnectedLinkOK(c, b.base, s, n, x2, k, q, m)
  <2>1. \A e \in 1 .. Len(q) : q[e].sender = x2.cx_id => Mine(q[e], c, b.base, s)
    BY <1>1, <1>3 DEF ConnectedLinkOK
  <2>2. OnItsWay(c, s, x, k.up, oq) => OnItsWay(c, s, x2, k.up, q)
    BY <1>1 DEF OnItsWay
  <2> QED BY <2>1, <2>2, <1>3 DEF ConnectedLinkOK
<1> QED BY <1>2, <1>3 DEF LinkOK, s, q

\* when another slot queues one;
LEMMA LinkWatches ==
    ASSUME NEW c, NEW me, NEW b, NEW n, NEW x, NEW k, NEW oq \in Seq(FileSet), NEW m,
           LinkOK(c, me, b, n, x, k, oq, m), NEW f \in FileSet, f.sender # x.cx_id
    PROVE  LinkOK(c, me, b, n, x, k, Append(oq, f), m)
<1> DEFINE q == Append(oq, f)
           s == SentBy(me, b)
<1>1. /\ \A e \in 1 .. Len(oq) : q[e] = oq[e]
      /\ q[Len(oq) + 1] = f
      /\ \A e \in 1 .. Len(q) : e \in 1 .. Len(oq) \/ e = Len(oq) + 1
      /\ \A d, i : InQueue(oq, d, i) => InQueue(q, d, i)
  BY AppendedQueue
<1> HIDE DEF q, s
<1>2. OpenLinkOK(x, k, oq, m) => OpenLinkOK(x, k, q, m)
  BY <1>1 DEF OpenLinkOK
<1>3. ASSUME ConnectedLinkOK(c, b.base, s, n, x, k, oq, m)
      PROVE  ConnectedLinkOK(c, b.base, s, n, x, k, q, m)
  <2>1. \A e \in 1 .. Len(q) : q[e].sender = x.cx_id => Mine(q[e], c, b.base, s)
    BY <1>1, <1>3 DEF ConnectedLinkOK
  <2>2. OnItsWay(c, s, x, k.up, oq) => OnItsWay(c, s, x, k.up, q)
    BY <1>1 DEF OnItsWay
  <2> QED BY <2>1, <2>2, <1>3 DEF ConnectedLinkOK
<1> QED BY <1>2, <1>3 DEF LinkOK, s, q

\* n and n2 are how much of c was dispatched.
LEMMA LinkDispatches ==
    ASSUME NEW c \in Clients, NEW me, NEW b, NEW n \in Nat, NEW n2 \in Nat, NEW x, NEW k,
           NEW oq \in Seq(FileSet), oq # << >>, NEW m, b.base \in Nat, x.ack_file \in Nat,
           SentBy(me, b) \in Int,
           LinkOK(c, me, b, n, x, k, oq, m), n2 >= n, Head(oq).c = c => n2 >= Head(oq).msg
    PROVE  LinkOK(c, me, b, n2, x, k, Tail(oq), [at |-> "ack", file |-> Head(oq)])
<1> DEFINE h == Head(oq)
           q == Tail(oq)
           m2 == [at |-> "ack", file |-> h]
           s == SentBy(me, b)
           base == b.base
<1>1. /\ \A e \in 1 .. Len(q) : q[e] = oq[e + 1] /\ e + 1 \in 2 .. Len(oq)
      /\ h = oq[1] /\ h \in FileSet /\ 1 \in 1 .. Len(oq) /\ Len(oq) \in Nat
      /\ \A d, i : InQueue(oq, d, i) => InQueue(q, d, i) \/ (h.c = d /\ h.msg = i)
  BY QueueTail
<1>2. m2.at = "ack" /\ m2.file = h /\ s \in Int /\ base \in Nat
  OBVIOUS
<1>8. h.c = c => n2 >= h.msg
  OBVIOUS
<1> HIDE DEF h, q, m2, s, base
<1>3. \A e \in 1 .. Len(q) : q[e] = oq[e + 1] /\ e + 1 \in 1 .. Len(oq)
  BY <1>1
<1>4. OpenLinkOK(x, k, oq, m) => OpenLinkOK(x, k, q, m2)
  BY <1>1, <1>2, <1>3 DEF OpenLinkOK
<1>5. ASSUME ConnectedLinkOK(c, base, s, n, x, k, oq, m)
      PROVE  ConnectedLinkOK(c, base, s, n2, x, k, q, m2)
  <2>1. \A e \in 1 .. Len(q) : q[e].sender = x.cx_id => Mine(q[e], c, base, s)
    BY <1>3, <1>5 DEF ConnectedLinkOK
  <2>2. h.sender = x.cx_id => Mine(h, c, base, s)
    BY <1>1, <1>5 DEF ConnectedLinkOK
  <2>3. x.ack_file + base <= n2
    BY <1>2, <1>5 DEF ConnectedLinkOK
  <2>4. s <= n => s <= n2
    BY <1>2
  <2>5. h.msg = s /\ h.c = c => s <= n2
    BY <1>2, <1>8
  <2>6. OnItsWay(c, s, x, k.up, oq) => s <= n2 \/ OnItsWay(c, s, x, k.up, q)
    BY <1>1, <2>5 DEF OnItsWay
  <2> QED BY <2>1, <2>2, <2>3, <2>4, <2>6, <1>2, <1>5 DEF ConnectedLinkOK
<1> QED BY <1>4, <1>5 DEF LinkOK, s, q, m2, h, base

\* when a file of the slot is acknowledged.
LEMMA LinkAcks ==
    ASSUME NEW c \in Clients, NEW me, NEW b, NEW n \in Nat, NEW x, NEW x2, NEW k,
           NEW oq, NEW m, NEW m2, b.base \in Nat, SentBy(me, b) \in Int,
           LinkOK(c, me, b, n, x, k, oq, m), m.at = "ack", m.file \in FileSet,
           m.file.sender = x.cx_id, m.file.c = c => m.file.msg <= n,
           x2.state = x.state, x2.file = x.file, x2.cx_id = x.cx_id,
           x2.ack_file = m.file.id, m2.at = "acked"
    PROVE  LinkOK(c, me, b, n, x2, k, oq, m2)
<1> DEFINE s == SentBy(me, b)
           base == b.base
<1>1. m.file.id \in Nat /\ m.file.msg \in Nat /\ base \in Nat /\ s \in Int
  BY FileFields
<1> HIDE DEF s, base
<1>2. me.state # "open"
  BY DEF LinkOK, OpenLinkOK
<1>3. ASSUME ConnectedLinkOK(c, base, s, n, x, k, oq, m)
      PROVE  ConnectedLinkOK(c, base, s, n, x2, k, oq, m2)
  <2>1. Mine(m.file, c, base, s)
    BY <1>3 DEF ConnectedLinkOK
  <2>2. x2.ack_file + base <= n /\ x2.ack_file + base <= s
    BY <2>1, <1>1 DEF Mine
  <2> QED BY <2>2, <1>3 DEF ConnectedLinkOK, OnItsWay
<1> QED BY <1>2, <1>3 DEF LinkOK, s, base

\* A link that was just accepted is in order.
LEMMA LinkOpens ==
    ASSUME NEW c, NEW me, NEW b, NEW n, NEW x, NEW k, NEW oq, NEW m,
           me.state = "open", NoFiles(k.up), k.down = << >>, x.state = "init", x.ack_file = 0,
           x.non_acknowledged = 0,
           \A e \in 1 .. Len(oq) : oq[e].sender # x.cx_id,
           ~(m.at = "ack" /\ m.file.sender = x.cx_id)
    PROVE  LinkOK(c, me, b, n, x, k, oq, m)
  BY DEF LinkOK, OpenLinkOK

-----------------------------------------------------------------------------
(***************************************************************************)
(* The books of a client.                                                  *)
(***************************************************************************)

\* The fields of a client and of its persistent FIFO.
ClientTyped(me) ==
    /\ me.input_queue \in Seq(FileSet) /\ me.index \in Nat /\ me.current \in Nat
    /\ me.ack_id \in Nat /\ me.phase \in {"next", "file", "end"}

\* The fields of a persistent FIFO.
FifoTyped(f) == f.accepted \in Nat /\ f.removed \in Nat /\ f.base \in Nat /\ f.out \in Nat

\* How many files ack removes.
Acked(f, ack) == IF ack + f.base > f.removed THEN ack + f.base - f.removed ELSE 0

\* What was sent, by phase.
LEMMA SentFacts ==
    ASSUME NEW me, NEW f, ClientTyped(me), FifoTyped(f)
    PROVE  /\ SentBy(me, f) \in Int
           /\ me.phase = "file" => SentBy(me, f) = f.removed + me.index - 1
           /\ me.phase # "file" => SentBy(me, f) = f.removed + me.index
  BY DEF SentBy, ClientTyped, FifoTyped

\* An acknowledgement of what was sent and dispatched goes no further than both.
LEMMA AckedArithmetic ==
    ASSUME NEW ack \in Nat, NEW base \in Nat, NEW removed \in Nat, NEW index \in Nat,
           NEW sent \in Int, NEW n \in Nat, NEW r,
           r = (IF ack + base > removed THEN ack + base - removed ELSE 0),
           sent = removed + index \/ (sent = removed + index - 1 /\ 0 < index),
           ack + base <= sent, ack + base <= n, removed <= n
    PROVE  /\ r \in Nat /\ r <= index
           /\ sent = removed + index - 1 => r < index
           /\ ack + base <= removed + r /\ removed + r <= n
<1>1. CASE ack + base > removed
  BY <1>1
<1>2. CASE ~(ack + base > removed)
  BY <1>2
<1> QED BY <1>1, <1>2

\* So it does for a client whose books are right.
LEMMA AckedFacts ==
    ASSUME NEW c, NEW me, NEW f, NEW n \in Nat, NEW ack \in Nat, ClientTyped(me), FifoTyped(f),
           BooksOK(c, me, f, n), me.state = "connected",
           ack + f.base <= n, ack + f.base <= SentBy(me, f)
    PROVE  /\ Acked(f, ack) \in Nat /\ Acked(f, ack) <= me.index
           /\ Acked(f, ack) <= Len(me.input_queue)
           /\ me.phase = "file" => Acked(f, ack) < me.index
           /\ ack + f.base <= f.removed + Acked(f, ack)
           /\ f.removed + Acked(f, ack) <= n
<1>1. /\ me.index \in Nat /\ me.phase \in {"next", "file", "end"}
      /\ f.removed \in Nat /\ f.base \in Nat
      /\ Len(me.input_queue) \in Nat
  BY DEF ClientTyped, FifoTyped
<1>2. /\ me.phase = "file" => SentBy(me, f) = f.removed + me.index - 1
      /\ me.phase # "file" => SentBy(me, f) = f.removed + me.index
  BY SentFacts
<1>3. /\ me.index <= Len(me.input_queue) /\ f.removed <= n
      /\ me.phase = "file" => 0 < me.index
  BY DEF BooksOK
<1>4. Acked(f, ack) = IF ack + f.base > f.removed THEN ack + f.base - f.removed ELSE 0
  BY DEF Acked
<1> DEFINE r == Acked(f, ack)
           sent == SentBy(me, f)
<1>5. sent \in Int
  BY SentFacts
<1>6. sent = f.removed + me.index \/ (sent = f.removed + me.index - 1 /\ 0 < me.index)
  BY <1>1, <1>2, <1>3
<1>7. /\ f.removed \in Nat /\ f.base \in Nat /\ me.index \in Nat
      /\ ack + f.base <= sent /\ f.removed <= n
      /\ r = IF ack + f.base > f.removed THEN ack + f.base - f.removed ELSE 0
  BY <1>1, <1>3, <1>4
<1> HIDE DEF r, sent
<1>8. /\ r \in Nat /\ r <= me.index
      /\ sent = f.removed + me.index - 1 => r < me.index
      /\ ack + f.base <= f.removed + r /\ f.removed + r <= n
  BY <1>5, <1>6, <1>7, AckedArithmetic
<1>9. r <= Len(me.input_queue)
  BY <1>1, <1>3, <1>8
<1> QED BY <1>2, <1>8, <1>9 DEF r, sent

\* The files removed are those the acknowledgement covers: the test of the current
\* file stops no earlier, because what is acknowledged was sent.
LEMMA RemovableCount ==
    ASSUME NEW c, NEW me, NEW f, NEW n \in Nat, NEW ack \in Nat, ClientTyped(me), FifoTyped(f),
           BooksOK(c, me, f, n), me.state = "connected",
           ack + f.base <= n, ack + f.base <= SentBy(me, f)
    PROVE  Cardinality({i \in DOMAIN me.input_queue : \A j \in 1 .. i :
               me.input_queue[j].id # me.current /\ me.input_queue[j].id <= ack}) = Acked(f, ack)
<1> DEFINE q == me.input_queue
           r == Acked(f, ack)
<1>1. /\ r \in Nat /\ r <= me.index /\ r <= Len(q)
      /\ me.phase = "file" => r < me.index
  BY AckedFacts
<1>2. /\ Len(q) \in Nat /\ DOMAIN q = 1 .. Len(q) /\ me.index \in Nat
      /\ f.removed \in Nat /\ f.base \in Nat
  BY DEF ClientTyped, FifoTyped
<1>3. /\ \A j \in 1 .. Len(q) : q[j].id = f.removed + j - f.base
      /\ f.base <= f.removed
      /\ me.phase = "file" => me.current = f.removed + me.index - f.base
      /\ me.phase # "file" => me.current = 0
  BY DEF BooksOK
<1>4. r = IF ack + f.base > f.removed THEN ack + f.base - f.removed ELSE 0
  BY DEF Acked
<1> HIDE DEF q, r
<1>5. ASSUME NEW i \in 1 .. Len(q), i <= r, NEW j \in 1 .. i
      PROVE  q[j].id # me.current /\ q[j].id <= ack
  <2>1. j \in 1 .. Len(q) /\ j <= r
    BY <1>1, <1>2, <1>5
  <2>2. q[j].id = f.removed + j - f.base
    BY <2>1, <1>3
  <2>3. q[j].id <= ack
    BY <2>1, <2>2, <1>1, <1>2, <1>4
  <2>4. q[j].id # me.current
    <3>1. CASE me.phase = "file"
      <4>1. me.current = f.removed + me.index - f.base /\ r < me.index
        BY <3>1, <1>1, <1>3
      <4> QED BY <4>1, <2>1, <2>2, <1>1, <1>2
    <3>2. CASE me.phase # "file"
      <4>1. me.current = 0 /\ f.base <= f.removed
        BY <3>2, <1>3
      <4> QED BY <4>1, <2>1, <2>2, <1>2
    <3> QED BY <3>1, <3>2
  <2> QED BY <2>3, <2>4
<1>6. ASSUME NEW i \in 1 .. Len(q), q[i].id <= ack
      PROVE  i <= r
  <2>1. q[i].id = f.removed + i - f.base
    BY <1>3
  <2> QED BY <2>1, <1>2, <1>4, <1>6
<1>7. {i \in DOMAIN q : \A j \in 1 .. i : q[j].id # me.current /\ q[j].id <= ack} = 1 .. r
  <2>1. ASSUME NEW i \in 1 .. Len(q), \A j \in 1 .. i : q[j].id # me.current /\ q[j].id <= ack
        PROVE  i \in 1 .. r
    <3>1. i \in 1 .. i
      BY <1>2
    <3>2. i <= r
      BY <2>1, <3>1, <1>6
    <3> QED BY <3>2, <1>1, <1>2
  <2>2. ASSUME NEW i \in 1 .. r
        PROVE  i \in 1 .. Len(q) /\ i <= r
    BY <1>1, <1>2
  <2>3. \A i \in 1 .. r : i \in DOMAIN q /\ \A j \in 1 .. i : q[j].id # me.current /\ q[j].id <= ack
    BY <2>2, <1>2, <1>5
  <2> QED BY <2>1, <2>3, <1>2
<1>8. Cardinality(1 .. r) = r
  <2>1. 1 \in Int /\ r \in Int
    BY <1>1
  <2>2. Cardinality(1 .. r) = IF 1 > r THEN 0 ELSE r - 1 + 1
    BY <2>1, FS_Interval
  <2> QED BY <2>2, <1>1
<1> QED BY <1>7, <1>8 DEF q, r

\* The index that Round() computes.
LEMMA NotNegative ==
    ASSUME NEW n \in Nat PROVE Max({n, 0}) = n
<1>1. n \in {n, 0} /\ \A y \in {n, 0} : n >= y
  OBVIOUS
<1>2. \A x \in {n, 0} : (\A y \in {n, 0} : x >= y) => x = n
  OBVIOUS
<1> QED BY <1>1, <1>2 DEF Max

\* What is acknowledged is removed.
\* What ack acknowledges leaves the input queue and the persistent FIFO.
AckTaken(me, me1, f, f1, ack) ==
    /\ me1.state = "connected" /\ me1.phase = me.phase /\ me1.current = me.current
    /\ me1.ack_id = ack /\ me1.index = me.index - Acked(f, ack)
    /\ me1.input_queue = SubSeq(me.input_queue, Acked(f, ack) + 1, Len(me.input_queue))
    /\ f1.accepted = f.accepted /\ f1.out = f.out /\ f1.base = f.base
    /\ f1.removed = f.removed + Acked(f, ack)

\* The books stay right when what is acknowledged is removed;
LEMMA BooksRemove ==
    ASSUME NEW c, NEW me, NEW me1, NEW f, NEW f1, NEW n \in Nat, NEW ack \in Nat,
           ClientTyped(me), FifoTyped(f),
           BooksOK(c, me, f, n), me.state = "connected",
           ack + f.base <= n, ack + f.base <= SentBy(me, f),
           AckTaken(me, me1, f, f1, ack)
    PROVE  /\ ClientTyped(me1) /\ FifoTyped(f1)
           /\ BooksOK(c, me1, f1, n) /\ SentBy(me1, f1) = SentBy(me, f)
<1> USE DEF AckTaken
<1> DEFINE q == me.input_queue
           r == Acked(f, ack)
           q1 == SubSeq(q, r + 1, Len(q))
<1>1. /\ r \in Nat /\ r <= me.index /\ r <= Len(q)
      /\ me.phase = "file" => r < me.index
      /\ ack + f.base <= f.removed + r
      /\ f.removed + r <= n
  BY AckedFacts
<1>2. /\ Len(q) \in Nat /\ me.index \in Nat /\ q \in Seq(FileSet)
      /\ me.phase \in {"next", "file", "end"} /\ me.current \in Nat
      /\ f.removed \in Nat /\ f.base \in Nat /\ f.out \in Nat /\ f.accepted \in Nat
  BY DEF ClientTyped, FifoTyped
<1>3. /\ me1.input_queue = q1 /\ me1.index = me.index - r /\ f1.removed = f.removed + r
  OBVIOUS
<1> HIDE DEF q, r
<1>4. q1 \in Seq(FileSet) /\ Len(q1) = Len(q) - r /\ \A j \in 1 .. Len(q1) : q1[j] = q[r + j]
  <2>1. r + 1 \in Nat /\ r + 1 >= 1 /\ Len(q) >= r
    BY <1>1, <1>2
  <2>2. q1 = [j \in 1 .. (Len(q) - r) |-> q[r + j]]
    BY <2>1, <1>1, <1>2
  <2>3. \A j \in 1 .. (Len(q) - r) : r + j \in 1 .. Len(q)
    BY <1>1, <1>2
  <2>4. Len(q) - r \in Nat
    BY <1>1, <1>2
  <2>5. \A j \in 1 .. Len(q) : q[j] \in FileSet
    BY <1>2
  <2> HIDE DEF q1
  <2>6. q1 \in Seq(FileSet) /\ Len(q1) = Len(q) - r
    BY <2>2, <2>3, <2>4, <2>5
  <2> QED BY <2>2, <2>6
<1> HIDE DEF q1
<1>5. /\ f.base <= f.removed /\ f.removed <= f.out /\ f.out <= f.accepted
      /\ f.accepted <= MaxMsg /\ f.removed <= n
      /\ Len(q) = f.out - f.removed
      /\ \A j \in 1 .. Len(q) : /\ q[j].c = c /\ q[j].msg = f.removed + j
                                /\ q[j].id = f.removed + j - f.base
      /\ me.index <= Len(q)
      /\ me.phase = "file" => 0 < me.index /\ me.current = f.removed + me.index - f.base
      /\ me.phase # "file" => me.current = 0
  BY DEF BooksOK, q
<1>6. /\ f.base <= f.removed + r /\ f.removed + r <= f.out /\ f.removed + r \in Nat
      /\ Len(q) - r = f.out - (f.removed + r)
      /\ me.index - r \in Nat /\ me.index - r <= Len(q) - r
      /\ r < me.index => 0 < me.index - r
      /\ f.removed + me.index - f.base = (f.removed + r) + (me.index - r) - f.base
      /\ f.removed + me.index = (f.removed + r) + (me.index - r)
      /\ \A j \in 1 .. Len(q) - r :
            /\ r + j \in 1 .. Len(q)
            /\ f.removed + (r + j) = (f.removed + r) + j
            /\ f.removed + (r + j) - f.base = (f.removed + r) + j - f.base
  <2>1. /\ r \in Nat /\ f.removed \in Nat /\ f.base \in Nat /\ f.out \in Nat
        /\ me.index \in Nat /\ Len(q) \in Nat /\ r <= me.index /\ me.index <= Len(q)
        /\ Len(q) = f.out - f.removed /\ f.base <= f.removed
    BY <1>1, <1>2, <1>5
  <2>2. /\ f.base <= f.removed + r /\ f.removed + r <= f.out /\ f.removed + r \in Nat
        /\ Len(q) - r = f.out - (f.removed + r)
        /\ me.index - r \in Nat /\ me.index - r <= Len(q) - r
        /\ r < me.index => 0 < me.index - r
    <3>1. me.index - r \in Nat /\ (r < me.index => 0 < me.index - r)
      BY ONLY <2>1
    <3>2. me.index - r <= Len(q) - r
      BY ONLY <2>1
    <3>3. Len(q) - r = f.out - (f.removed + r)
      BY ONLY <2>1
    <3>4. f.base <= f.removed + r /\ f.removed + r \in Nat
      BY ONLY <2>1
    <3>5. f.removed + r <= f.out
      BY ONLY <2>1
    <3> QED BY ONLY <3>1, <3>2, <3>3, <3>4, <3>5
  <2>3. /\ f.removed + me.index - f.base = (f.removed + r) + (me.index - r) - f.base
        /\ f.removed + me.index = (f.removed + r) + (me.index - r)
    BY ONLY <2>1
  <2>4. \A j \in 1 .. Len(q) - r :
            /\ r + j \in 1 .. Len(q)
            /\ f.removed + (r + j) = (f.removed + r) + j
            /\ f.removed + (r + j) - f.base = (f.removed + r) + j - f.base
    BY ONLY <2>1
  <2> QED BY ONLY <2>2, <2>3, <2>4
<1>7. ClientTyped(me1) /\ FifoTyped(f1)
  <2>1. me1.index \in Nat /\ f1.removed \in Nat
    BY <1>3, <1>6
  <2>2. me1.input_queue \in Seq(FileSet)
    BY <1>3, <1>4
  <2> QED BY <2>1, <2>2, <1>2 DEF ClientTyped, FifoTyped
<1>8. \A j \in 1 .. Len(q1) : /\ q1[j].c = c /\ q1[j].msg = f1.removed + j
                              /\ q1[j].id = f1.removed + j - f1.base
  <2> TAKE j \in 1 .. Len(q1)
  <2>1. /\ r + j \in 1 .. Len(q)
        /\ f.removed + (r + j) = (f.removed + r) + j
        /\ f.removed + (r + j) - f.base = (f.removed + r) + j - f.base
    BY <1>4, <1>6
  <2>2. q1[j] = q[r + j]
    BY <1>4
  <2>3. /\ q1[j].c = c /\ q1[j].msg = f.removed + (r + j)
        /\ q1[j].id = f.removed + (r + j) - f.base
    BY <2>1, <2>2, <1>5
  <2> QED BY <2>1, <2>3, <1>3
<1>9. /\ f1.base <= f1.removed /\ f1.removed <= f1.out /\ f1.removed <= n
      /\ Len(q1) = f1.out - f1.removed
      /\ me1.ack_id + f1.base <= f1.removed
      /\ me1.index <= Len(q1)
  <2>1. /\ f.base <= f.removed + r /\ f.removed + r <= f.out
        /\ Len(q1) = f.out - (f.removed + r) /\ me.index - r <= Len(q1)
    BY <1>4, <1>6
  <2> QED BY <2>1, <1>1, <1>3
<1>10. f1.out <= f1.accepted /\ f1.accepted <= MaxMsg
  BY <1>5
<1>11. me1.phase = "file" => 0 < me1.index /\ me1.current = f1.removed + me1.index - f1.base
  <2>1. ASSUME me.phase = "file"
        PROVE  0 < me.index - r /\ me.current = (f.removed + r) + (me.index - r) - f.base
    BY <2>1, <1>1, <1>5, <1>6
  <2> QED BY <2>1, <1>3
<1>12. me1.phase # "file" => me1.current = 0
  BY <1>5
<1>13. BooksOK(c, me1, f1, n)
  BY <1>3, <1>8, <1>9, <1>10, <1>11, <1>12 DEF BooksOK
<1>14. SentBy(me1, f1) = SentBy(me, f)
  <2>1. f1.removed + me1.index = f.removed + me.index
    BY <1>3, <1>6
  <2>2. me1.phase = me.phase
    OBVIOUS
  <2>3. /\ f1.removed \in Int /\ me1.index \in Int /\ f.removed \in Int /\ me.index \in Int
    BY <1>2, <1>7 DEF ClientTyped, FifoTyped
  <2> QED BY ONLY <2>1, <2>2, <2>3 DEF SentBy
<1> QED BY <1>7, <1>13, <1>14

\* The next file is one of the queue.
\* The next file of the input queue is chosen.
FileChosen(me, me2) ==
    /\ me.index < Len(me.input_queue)
    /\ me2.state = "connected" /\ me2.phase = "file" /\ me2.input_queue = me.input_queue
    /\ me2.index = me.index + 1 /\ me2.ack_id = me.ack_id
    /\ me2.current = me.input_queue[me.index + 1].id

\* when a file is sent again;
LEMMA BooksChoose ==
    ASSUME NEW c, NEW me, NEW me2, NEW f, NEW n \in Nat, ClientTyped(me), FifoTyped(f),
           BooksOK(c, me, f, n), me.state = "connected", me.phase = "next",
           FileChosen(me, me2)
    PROVE  BooksOK(c, me2, f, n) /\ SentBy(me2, f) = SentBy(me, f)
<1> USE DEF FileChosen
<1>1. /\ Len(me.input_queue) \in Nat /\ me.index \in Nat /\ f.removed \in Nat /\ f.base \in Nat
  BY DEF ClientTyped, FifoTyped
<1>2. me.index + 1 \in 1 .. Len(me.input_queue)
  BY <1>1
<1>3. me2.current = f.removed + me2.index - f.base
  BY <1>2 DEF BooksOK
<1>4. me2.index <= Len(me2.input_queue) /\ 0 < me2.index
  BY <1>1
<1>5. BooksOK(c, me2, f, n)
  BY <1>3, <1>4 DEF BooksOK
<1>6. SentBy(me2, f) = SentBy(me, f)
  BY <1>1 DEF SentBy
<1> QED BY <1>5, <1>6

\* The next file is a message of the persistent FIFO.
\* The next message of the persistent FIFO is read into the file g.
FileTaken(c, me, me2, f, f2, g) ==
    /\ me.index >= Len(me.input_queue) /\ f.out < f.accepted
    /\ g.c = c /\ g.msg = f.out + 1 /\ g.id = f.out + 1 - f.base
    /\ f2.accepted = f.accepted /\ f2.removed = f.removed /\ f2.base = f.base
    /\ f2.out = f.out + 1
    /\ me2.state = "connected" /\ me2.phase = "file"
    /\ me2.input_queue = Append(me.input_queue, g)
    /\ me2.index = me.index + 1 /\ me2.ack_id = me.ack_id /\ me2.current = g.id

\* when the next message is read from the persistent FIFO;
LEMMA BooksRead ==
    ASSUME NEW c \in Clients, NEW me, NEW me2, NEW f, NEW f2, NEW n \in Nat, NEW g \in FileSet,
           ClientTyped(me), FifoTyped(f),
           BooksOK(c, me, f, n), me.state = "connected", me.phase = "next",
           FileTaken(c, me, me2, f, f2, g)
    PROVE  BooksOK(c, me2, f2, n) /\ SentBy(me2, f2) = SentBy(me, f)
<1> USE DEF FileTaken
<1> DEFINE q == me.input_queue
           q2 == Append(q, g)
<1>1. /\ Len(q) \in Nat /\ me.index \in Nat /\ f.removed \in Nat /\ f.base \in Nat
      /\ f.out \in Nat /\ f.accepted \in Nat /\ q \in Seq(FileSet)
  BY DEF ClientTyped, FifoTyped
<1>2. /\ Len(q2) = Len(q) + 1
      /\ \A j \in 1 .. Len(q) : q2[j] = q[j]
      /\ q2[Len(q) + 1] = g
      /\ \A j \in 1 .. Len(q2) : j \in 1 .. Len(q) \/ j = Len(q) + 1
  BY <1>1, AppendedQueue
<1>3. me2.input_queue = q2
  OBVIOUS
<1> HIDE DEF q, q2
<1>4. /\ f.base <= f.removed /\ f.removed <= f.out /\ f.out <= f.accepted
      /\ f.accepted <= MaxMsg /\ f.removed <= n
      /\ Len(q) = f.out - f.removed
      /\ \A j \in 1 .. Len(q) : /\ q[j].c = c /\ q[j].msg = f.removed + j
                                /\ q[j].id = f.removed + j - f.base
      /\ me.ack_id + f.base <= f.removed
      /\ me.index <= Len(q)
  BY DEF BooksOK, q
<1>5. me.index = Len(q)
  <2>1. me.index >= Len(q)
    BY DEF q
  <2> QED BY <2>1, <1>1, <1>4
<1>6. \A j \in 1 .. Len(q2) : /\ q2[j].c = c /\ q2[j].msg = f2.removed + j
                              /\ q2[j].id = f2.removed + j - f2.base
  <2> TAKE j \in 1 .. Len(q2)
  <2>1. CASE j \in 1 .. Len(q)
    BY <2>1, <1>2, <1>4
  <2>2. CASE j = Len(q) + 1
    <3>1. f.removed + j = f.out + 1
      BY <2>2, <1>1, <1>4
    <3>2. q2[j] = g
      BY <2>2, <1>2
    <3>3. /\ f2.removed = f.removed /\ f2.base = f.base
          /\ g.c = c /\ g.msg = f.out + 1 /\ g.id = f.out + 1 - f.base
      OBVIOUS
    <3>4. f.removed \in Int /\ f.out \in Int /\ f.base \in Int /\ j \in Int
      BY <1>1, <2>2
    <3> QED BY ONLY <3>1, <3>2, <3>3, <3>4
  <2> QED BY <2>1, <2>2, <1>2
<1>7. /\ f2.removed <= f2.out /\ f2.out <= f2.accepted
      /\ Len(q2) = f2.out - f2.removed
      /\ me2.index <= Len(q2) /\ 0 < me2.index
      /\ me2.current = f2.removed + me2.index - f2.base
  <2>1. /\ f.removed <= f.out + 1 /\ f.out + 1 <= f.accepted
        /\ Len(q) + 1 = (f.out + 1) - f.removed
        /\ me.index + 1 <= Len(q) + 1 /\ 0 < me.index + 1
    BY <1>1, <1>4, <1>5
  <2>2. f.removed + (me.index + 1) = f.out + 1
    BY <1>1, <1>4, <1>5
  <2>4. me2.current = f.out + 1 - f.base
    OBVIOUS
  <2>3. me2.current = f.removed + (me.index + 1) - f.base
    <3>1. f.removed + (me.index + 1) - f.base = f.out + 1 - f.base
      BY <1>1, <1>4, <1>5
    <3> QED BY ONLY <2>4, <3>1
  <2> QED BY <2>1, <2>3, <1>2
<1>8. BooksOK(c, me2, f2, n)
  BY <1>3, <1>4, <1>6, <1>7 DEF BooksOK
<1>9. SentBy(me2, f2) = SentBy(me, f)
  BY <1>1 DEF SentBy
<1> QED BY <1>8, <1>9

\* The data of the file is sent; END is; or there is nothing to do.
\* A piece is sent, or nothing is to be sent.
NothingChosen(me, me2) ==
    /\ me2.state = "connected" /\ me2.input_queue = me.input_queue
    /\ me2.index = me.index /\ me2.ack_id = me.ack_id
    /\ me2.phase # "file" /\ me2.current = 0

\* when a piece is sent, or nothing.
LEMMA BooksSend ==
    ASSUME NEW c, NEW me, NEW me2, NEW f, NEW n \in Nat, ClientTyped(me), FifoTyped(f),
           BooksOK(c, me, f, n), me.state = "connected", NothingChosen(me, me2)
    PROVE  /\ BooksOK(c, me2, f, n)
           /\ SentBy(me2, f) = SentBy(me, f) + (IF me.phase = "file" THEN 1 ELSE 0)
<1> USE DEF NothingChosen
<1>1. BooksOK(c, me2, f, n)
  BY DEF BooksOK
<1>2. me.index \in Nat /\ f.removed \in Nat
  BY DEF ClientTyped, FifoTyped
<1>3. SentBy(me2, f) = SentBy(me, f) + (IF me.phase = "file" THEN 1 ELSE 0)
  BY <1>2 DEF SentBy
<1> QED BY <1>1, <1>3

\* The file in hand.
LEMMA FileInHand ==
    ASSUME NEW c, NEW me, NEW f, NEW n \in Nat, ClientTyped(me), FifoTyped(f),
           BooksOK(c, me, f, n), me.state = "connected", me.phase = "file"
    PROVE  \E g \in ToSet(me.input_queue) :
              /\ g = (CHOOSE h \in ToSet(me.input_queue) : h.id = me.current)
              /\ g \in FileSet /\ g.c = c /\ g.msg = SentBy(me, f) + 1 /\ g.msg = g.id + f.base
              /\ 1 <= g.msg /\ g.msg <= f.accepted
<1> DEFINE q == me.input_queue
           g == CHOOSE h \in ToSet(q) : h.id = me.current
<1>1. /\ Len(q) \in Nat /\ me.index \in Nat /\ f.removed \in Nat /\ f.base \in Nat
      /\ f.out \in Nat /\ f.accepted \in Nat /\ q \in Seq(FileSet)
  BY DEF ClientTyped, FifoTyped
<1>2. /\ \A j \in 1 .. Len(q) : /\ q[j].c = c /\ q[j].msg = f.removed + j
                                /\ q[j].id = f.removed + j - f.base
      /\ me.index <= Len(q) /\ 0 < me.index /\ me.current = f.removed + me.index - f.base
      /\ f.removed <= f.out /\ f.out <= f.accepted /\ Len(q) = f.out - f.removed
  BY DEF BooksOK
<1>3. ToSet(q) = {q[i] : i \in 1 .. Len(q)} /\ \A i \in 1 .. Len(q) : q[i] \in FileSet
  BY <1>1, SetOfSeq
<1>4. SentBy(me, f) = f.removed + me.index - 1
  BY SentFacts
<1> HIDE DEF q
<1>5. me.index \in 1 .. Len(q)
  BY <1>1, <1>2
<1>6. q[me.index] \in ToSet(q) /\ q[me.index].id = me.current
  BY <1>2, <1>3, <1>5
<1>7. g \in ToSet(q) /\ g.id = me.current
  BY <1>6
<1> HIDE DEF g
<1>8. PICK j \in 1 .. Len(q) : g = q[j]
  BY <1>3, <1>7
<1>9. /\ g.c = c /\ g.msg = f.removed + j /\ g.id = f.removed + j - f.base /\ g \in FileSet
  BY <1>2, <1>3, <1>8
<1>10. j = me.index
  BY <1>1, <1>2, <1>7, <1>8, <1>9
<1>11. /\ g.msg = SentBy(me, f) + 1 /\ g.msg = g.id + f.base
       /\ 1 <= g.msg /\ g.msg <= f.accepted
  BY <1>1, <1>2, <1>4, <1>8, <1>9, <1>10
<1> QED BY <1>7, <1>9, <1>11 DEF g, q

-----------------------------------------------------------------------------
(***************************************************************************)
(* Steps that leave a part of the state alone.                             *)
(***************************************************************************)

\* The fields of a client that the invariant reads.
SameClient(me, me2) ==
    /\ me2.conn = me.conn /\ me2.state = me.state /\ me2.input_queue = me.input_queue
    /\ me2.index = me.index /\ me2.phase = me.phase /\ me2.current = me.current
    /\ me2.ack_id = me.ack_id

\* The books stay right when messages are accepted or dispatched.
LEMMA BooksKeep ==
    ASSUME NEW c, NEW me, NEW me2, NEW f, NEW f2, NEW n \in Nat, NEW n2 \in Nat, FifoTyped(f),
           BooksOK(c, me, f, n), n2 >= n,
           me2.input_queue = me.input_queue, me2.ack_id = me.ack_id,
           me2.state = "connected" => /\ me.state = "connected" /\ me2.index = me.index
                                      /\ me2.phase = me.phase /\ me2.current = me.current,
           f2.removed = f.removed, f2.base = f.base, f2.out = f.out, f2.accepted \in Nat,
           f2.accepted >= f.accepted, f2.accepted <= MaxMsg
    PROVE  BooksOK(c, me2, f2, n2)
<1>1. f2.removed <= n2 /\ f2.out <= f2.accepted
  BY DEF BooksOK, FifoTyped
<1> QED BY <1>1 DEF BooksOK

\* The replies stay true when more is dispatched.
LEMMA RepliesKeep ==
    ASSUME NEW me, NEW me2, NEW f, NEW f2, NEW n \in Nat, NEW n2 \in Nat,
           NEW down \in Seq(DownMsg), NEW down2, FifoTyped(f), ClientTyped(me),
           RepliesOK(me, f, n, down), n2 >= n, SameClient(me, me2),
           f2.removed = f.removed, f2.base = f.base, down2 = down \/ down2 = << >>
    PROVE  RepliesOK(me2, f2, n2, down2)
<1>1. SentBy(me2, f2) = SentBy(me, f) /\ f.base \in Nat
  BY DEF SentBy, SameClient, FifoTyped
<1>2. CASE down2 = << >>
  <2>1. Len(down2) <= 1 /\ \A a \in 1 .. Len(down2) : FALSE
    BY <1>2
  <2> QED BY <2>1 DEF RepliesOK
<1>3. CASE down2 = down
  <2>1. ASSUME NEW a \in 1 .. Len(down), me.state = "connected"
        PROVE  /\ down[a].kind = "ACK"
               /\ down[a].id + f.base <= n2 /\ down[a].id + f.base <= SentBy(me, f)
    <3>1. /\ down[a].kind = "ACK"
          /\ down[a].id + f.base <= n /\ down[a].id + f.base <= SentBy(me, f)
      BY <2>1 DEF RepliesOK
    <3>2. down[a].id \in Nat
      <4>1. down[a] \in DownMsg
        OBVIOUS
      <4> QED BY <4>1, <3>1, AckPieces
    <3> QED BY <3>1, <3>2, <1>1
  <2>2. me.state = "open" =>
           Len(down2) <= 1 /\ \A a \in 1 .. Len(down2) : down2[a].kind = "READY"
    BY <1>3 DEF RepliesOK
  <2> QED BY <2>1, <2>2, <1>1, <1>3 DEF RepliesOK, SameClient
<1> QED BY <1>2, <1>3

\* Clients and their persistent FIFOs have their types;
LEMMA TypedClients ==
    ASSUME TransportTypeOK, NEW c \in Clients
    PROVE  /\ ClientTyped(cl[c]) /\ FifoTyped(fifo[c]) /\ SentBy(cl[c], fifo[c]) \in Int
           /\ fifo[c].base \in Nat
<1>1. ClientTyped(cl[c]) /\ FifoTyped(fifo[c])
  BY Types DEF TypeFacts, ClientTyped, FifoTyped
<1> QED BY <1>1, SentFacts DEF FifoTyped

\* after a step too.
LEMMA NextTypedClients ==
    ASSUME TransportTypeOK', NEW c \in Clients
    PROVE  ClientTyped(cl'[c]) /\ FifoTyped(fifo'[c]) /\ fifo'[c].base \in Nat
  BY NextTypes DEF TypeFacts, ClientTyped, FifoTyped

-----------------------------------------------------------------------------
(* Parts of the invariant whose variables a step leaves alone, or nearly.   *)

LEMMA KeepOwners ==
    ASSUME ConnsOwned,
           \A c \in Clients : cl'[c].conn = cl[c].conn /\ cl'[c].state = cl[c].state,
           \A k \in Conns : net'[k].client = net[k].client /\ net'[k].server = net[k].server,
           \A i \in Slots : cx'[i].socket = cx[i].socket, backlog' = backlog, TransportTypeOK
    PROVE  ConnsOwned'
<1>1. /\ \A c \in Clients : cl[c].conn # None => cl[c].conn \in Conns
      /\ \A i \in Slots : cx[i].socket # None => cx[i].socket \in Conns
      /\ \A e \in 1 .. Len(backlog) : backlog[e] \in Conns
  BY Types DEF TypeFacts
<1>2. OwnersOK(cl', net', cx', backlog)
  BY <1>1 DEF ConnsOwned, OwnersOK
<1> QED BY <1>2 DEF ConnsOwned

\* The server keeps its part when no slot changes hands.
LEMMA KeepServer ==
    ASSUME ServerParts, srv' = srv, MainKept(main, main'), TransportTypeOK,
           \A i \in Slots : /\ cx'[i].socket = cx[i].socket /\ cx'[i].state = cx[i].state
                            /\ cx'[i].file = cx[i].file /\ cx'[i].cx_id = cx[i].cx_id
    PROVE  ServerParts'
<1>1. srv.pushing # None => srv.pushing \in Slots
  BY Types DEF TypeFacts
<1>2. \A f : Addressed(f, srv, cx) => Addressed(f, srv, cx')
  BY DEF Addressed
<1>3. ServerOK(srv, cx', main')
  BY <1>1, <1>2 DEF ServerParts, ServerOK, MainKept
<1> QED BY <1>3 DEF ServerParts

\* The queue keeps its part when it does not change.
LEMMA KeepQueue ==
    ASSUME TransportTypeOK, QueueParts, srv'.output_queue = srv.output_queue,
           dispatched' = dispatched, MainKept(main, main'), Growing(fifo, fifo')
    PROVE  QueueParts'
<1>1. srv.output_queue \in Seq(FileSet)
  BY SlotTypes DEF SlotFacts
<1>2. DispatchedOK(fifo', dispatched)
  BY DispatchedGrows DEF QueueParts
<1>3. QueueOK(srv.output_queue, fifo', dispatched, main')
  BY <1>1, QueueGrows DEF QueueParts
<1> QED BY <1>2, <1>3 DEF QueueParts

\* A slot between a file and its END holds it.
LEMMA HeldFiles ==
    ASSUME ServerParts, NEW i \in Slots, cx[i].socket # None, cx[i].state = "end"
    PROVE  cx[i].file \in FileSet /\ cx[i].file.sender = cx[i].cx_id /\ cx[i].file.slot = i
  BY DEF ServerParts, ServerOK

\* A slot keeps its part when it changes little;
LEMMA KeepSlot ==
    ASSUME TransportTypeOK, ServerParts, SlotParts, srv'.output_queue = srv.output_queue,
           dispatched' = dispatched, MainKept(main, main'), Growing(fifo, fifo'),
           NEW i \in Slots, cx[i].socket # None, SameSlot(cx[i], cx'[i]),
           \/ net'[cx[i].socket].up = net[cx[i].socket].up
           \/ net'[cx[i].socket].up = << >>
    PROVE  SlotOK(cx'[i], net'[cx[i].socket].up, fifo', dispatched', srv'.output_queue, main')
<1>1. SlotOK(cx[i], net[cx[i].socket].up, fifo, dispatched, srv.output_queue, main)
  BY DEF SlotParts
<1>2. net[cx[i].socket].up \in Seq(UpMsg) /\ (cx[i].state = "end" => cx[i].file \in FileSet)
  BY SlotTypes, HeldFiles DEF SlotFacts
<1>3. SlotOK(cx'[i], net'[cx[i].socket].up, fifo', dispatched, srv.output_queue, main')
  BY <1>1, <1>2, SlotGrows
<1> QED BY <1>3

\* all slots do.
LEMMA KeepSlots ==
    ASSUME TransportTypeOK, ServerParts, SlotParts, srv'.output_queue = srv.output_queue,
           dispatched' = dispatched, MainKept(main, main'), Growing(fifo, fifo'),
           \A i \in Slots : cx'[i].socket # None =>
               /\ SameSlot(cx[i], cx'[i])
               /\ \/ net'[cx[i].socket].up = net[cx[i].socket].up
                  \/ net'[cx[i].socket].up = << >>
    PROVE  SlotParts'
<1>1. ASSUME NEW i \in Slots, cx'[i].socket # None
      PROVE  SlotOK(cx'[i], net'[cx'[i].socket].up, fifo', dispatched', srv'.output_queue, main')
  <2>1. cx'[i].socket = cx[i].socket /\ SameSlot(cx[i], cx'[i])
    BY <1>1 DEF SameSlot
  <2>2. SlotOK(cx'[i], net'[cx[i].socket].up, fifo', dispatched', srv'.output_queue, main')
    BY <1>1, <2>1, KeepSlot
  <2> QED BY <2>1, <2>2
<1> QED BY <1>1 DEF SlotParts

\* The fields of a persistent FIFO that only its client changes.
SameFifo(f, f2) == f2.removed = f.removed /\ f2.base = f.base /\ f2.out = f.out

\* A client that is left alone keeps its books.
LEMMA KeepBooks ==
    ASSUME TransportTypeOK, QueueParts, BooksParts, NEW c \in Clients,
           dispatched' = dispatched, SameFifo(fifo[c], fifo'[c]), fifo'[c].accepted \in Nat,
           fifo'[c].accepted >= fifo[c].accepted, fifo'[c].accepted <= MaxMsg,
           cl'[c].input_queue = cl[c].input_queue, cl'[c].ack_id = cl[c].ack_id,
           cl'[c].state = "connected" =>
               /\ cl[c].state = "connected" /\ cl'[c].index = cl[c].index
               /\ cl'[c].phase = cl[c].phase /\ cl'[c].current = cl[c].current
    PROVE  BooksOK(c, cl'[c], fifo'[c], Cardinality(dispatched'[c]))
<1> DEFINE n == Cardinality(dispatched[c])
<1>1. n \in Nat /\ n >= n
  BY DEF QueueParts, DispatchedOK
<1>2. BooksOK(c, cl[c], fifo[c], n) /\ FifoTyped(fifo[c])
  BY TypedClients DEF BooksParts
<1> HIDE DEF n
<1>3. BooksOK(c, cl'[c], fifo'[c], n)
  BY <1>1, <1>2, BooksKeep DEF SameFifo
<1> QED BY <1>3 DEF n

\* Its replies stay true.
LEMMA KeepReplies ==
    ASSUME TransportTypeOK, QueueParts, ReplyParts, NEW c \in Clients, cl[c].conn # None,
           dispatched' = dispatched, SameFifo(fifo[c], fifo'[c]), SameClient(cl[c], cl'[c]),
           \/ net'[cl[c].conn].down = net[cl[c].conn].down
           \/ net'[cl[c].conn].down = << >>
    PROVE  RepliesOK(cl'[c], fifo'[c], Cardinality(dispatched'[c]), net'[cl'[c].conn].down)
<1> DEFINE n == Cardinality(dispatched[c])
<1>1. n \in Nat /\ n >= n
  BY DEF QueueParts, DispatchedOK
<1>2. cl'[c].conn = cl[c].conn /\ cl[c].conn \in Conns
  BY Types DEF SameClient, TypeFacts
<1>3. net[cl[c].conn].down \in Seq(DownMsg)
  BY <1>2, Types DEF TypeFacts
<1>4. /\ RepliesOK(cl[c], fifo[c], n, net[cl[c].conn].down)
      /\ FifoTyped(fifo[c]) /\ ClientTyped(cl[c])
  BY TypedClients DEF ReplyParts
<1> HIDE DEF n
<1>5. RepliesOK(cl'[c], fifo'[c], n, net'[cl[c].conn].down)
  BY <1>1, <1>3, <1>4, RepliesKeep DEF SameFifo
<1> QED BY <1>2, <1>5 DEF n

\* A link reads of the client only what was sent.
LEMMA SameSent ==
    ASSUME NEW c, NEW me, NEW me2, NEW b, NEW b2, NEW n, NEW x, NEW k, NEW oq, NEW m,
           LinkOK(c, me, b, n, x, k, oq, m), SameClient(me, me2),
           b2.removed = b.removed, b2.base = b.base
    PROVE  LinkOK(c, me2, b2, n, x, k, oq, m)
<1>1. SentBy(me2, b2) = SentBy(me, b)
  BY DEF SentBy, SameClient
<1> QED BY <1>1 DEF LinkOK, SameClient

\* A link keeps its part when its ends change little;
LEMMA KeepLink ==
    ASSUME TransportTypeOK, QueueParts, LinkParts, NEW c \in Clients, NEW i \in Slots,
           cx[i].socket # None, cl[c].conn = cx[i].socket,
           srv'.output_queue = srv.output_queue,
           dispatched' = dispatched, MainKept(main, main'),
           SameFifo(fifo[c], fifo'[c]), SameClient(cl[c], cl'[c]), SameSlot(cx[i], cx'[i]),
           cx'[i].non_acknowledged = cx[i].non_acknowledged \/ cx'[i].non_acknowledged = 0,
           SameLine(cl[c], net[cx[i].socket], net'[cx[i].socket])
    PROVE  LinkOK(c, cl'[c], fifo'[c], Cardinality(dispatched'[c]), cx'[i], net'[cx[i].socket],
                  srv'.output_queue, main')
<1> DEFINE n == Cardinality(dispatched[c])
           k == net[cx[i].socket]
           k2 == net'[cx[i].socket]
           oq == srv.output_queue
<1>1. n \in Nat /\ n >= n
  BY DEF QueueParts, DispatchedOK
<1>2. /\ LinkOK(c, cl[c], fifo[c], n, cx[i], k, oq, main)
      /\ fifo[c].base \in Nat /\ SentBy(cl[c], fifo[c]) \in Int /\ cx[i].ack_file \in Nat
  BY TypedClients, Types DEF LinkParts, TypeFacts
<1>3. SameLine(cl[c], k, k2)
  OBVIOUS
<1> HIDE DEF n, k, k2, oq
<1>4. LinkOK(c, cl[c], fifo[c], n, cx'[i], k2, oq, main')
  BY <1>1, <1>2, <1>3, LinkGrows
<1>5. LinkOK(c, cl'[c], fifo'[c], n, cx'[i], k2, oq, main')
  BY <1>4, SameSent DEF SameFifo
<1> QED BY <1>5 DEF n, k2, oq

\* all links do.
LEMMA KeepLinks ==
    ASSUME TransportTypeOK, QueueParts, LinkParts,
           srv'.output_queue = srv.output_queue,
           dispatched' = dispatched, MainKept(main, main'),
           \A c \in Clients, i \in Slots : cx'[i].socket # None /\ cl'[c].conn = cx'[i].socket =>
              /\ SameFifo(fifo[c], fifo'[c]) /\ SameClient(cl[c], cl'[c]) /\ SameSlot(cx[i], cx'[i])
              /\ cx'[i].non_acknowledged = cx[i].non_acknowledged \/ cx'[i].non_acknowledged = 0
              /\ SameLine(cl[c], net[cx[i].socket], net'[cx[i].socket])
    PROVE  LinkParts'
<1>1. ASSUME NEW c \in Clients, NEW i \in Slots, cx'[i].socket # None, cl'[c].conn = cx'[i].socket
      PROVE  LinkOK(c, cl'[c], fifo'[c], Cardinality(dispatched'[c]), cx'[i], net'[cx'[i].socket],
                    srv'.output_queue, main')
  <2>1. /\ SameFifo(fifo[c], fifo'[c]) /\ SameClient(cl[c], cl'[c]) /\ SameSlot(cx[i], cx'[i])
        /\ cx'[i].non_acknowledged = cx[i].non_acknowledged \/ cx'[i].non_acknowledged = 0
        /\ SameLine(cl[c], net[cx[i].socket], net'[cx[i].socket])
    BY <1>1
  <2>2. cx'[i].socket = cx[i].socket /\ cl'[c].conn = cl[c].conn
    BY <2>1 DEF SameSlot, SameClient
  <2>3. LinkOK(c, cl'[c], fifo'[c], Cardinality(dispatched'[c]), cx'[i], net'[cx[i].socket],
                  srv'.output_queue, main')
    BY <1>1, <2>1, <2>2, KeepLink
  <2> QED BY <2>2, <2>3
<1> QED BY <1>1 DEF LinkParts

\* The backlog keeps its part when nothing is sent on its connections.
LEMMA KeepBacklog ==
    ASSUME TransportTypeOK, BacklogParts,
           backlog' = backlog,
           \A e \in 1 .. Len(backlog) :
              /\ net'[backlog[e]].up = net[backlog[e]].up \/ net'[backlog[e]].up = << >>
              /\ net'[backlog[e]].down = net[backlog[e]].down \/ net'[backlog[e]].down = << >>
              /\ \A c \in Clients : cl'[c].conn = backlog[e] =>
                     cl'[c].state = cl[c].state /\ cl'[c].conn = cl[c].conn
    PROVE  BacklogParts'
<1>1. \A e \in 1 .. Len(backlog) : NoFiles(net'[backlog[e]].up)
  BY NothingUp DEF BacklogParts, BacklogOK
<1>2. BacklogOK(backlog, net', cl')
  BY <1>1 DEF BacklogParts, BacklogOK
<1> QED BY <1>2 DEF BacklogParts

-----------------------------------------------------------------------------
(***************************************************************************)
(* The steps of a client.                                                  *)
(***************************************************************************)

\* The least of a set is in it.
LEMMA LeastOf ==
    ASSUME NEW S \in SUBSET Nat, S # {}
    PROVE  Min(S) \in S
<1>1. PICK i \in S : \A j \in S : i <= j
  BY LeastNatural
<1> QED BY <1>1 DEF Min

\* What does not change is the same.
LEMMA Unchanging ==
    ASSUME TransportTypeOK
    PROVE  /\ MainKept(main, main) /\ Growing(fifo, fifo) /\ \A c : SameFifo(fifo[c], fifo[c])
           /\ \A c : SameClient(cl[c], cl[c]) /\ \A i : SameSlot(cx[i], cx[i])
           /\ \A me, k : SameLine(me, k, k)
<1>1. \A c \in Clients : fifo[c].accepted \in Nat
  BY Types DEF TypeFacts
<1> QED BY <1>1 DEF MainKept, Growing, SameFifo, SameClient, SameSlot, SameLine

\* No client accepts more than MaxMsg messages.
LEMMA AcceptedBound ==
    ASSUME TransportTypeOK, BooksParts
    PROVE  \A c \in Clients : fifo[c].accepted \in Nat /\ fifo[c].accepted <= MaxMsg
  BY Types DEF TypeFacts, BooksParts, BooksOK

\* A message is accepted.
LEMMA SendMsgStep ==
    ASSUME TransportInvariant, NEW c \in Clients, SendMsg(c)
    PROVE  TransportInvariant'
<1> USE DEF TransportInvariant
<1>1. /\ fifo' = [fifo EXCEPT ![c].accepted = @ + 1] /\ fifo[c].accepted < MaxMsg
      /\ UNCHANGED <<cl, net, backlog, srv, cx, main, dispatched, budget>>
  BY DEF SendMsg
<1>2. TransportTypeOK'
  <2>1. fifo \in [Clients -> FifoRec]
    BY DEF TransportTypeOK
  <2>2. fifo' \in [Clients -> FifoRec]
    BY <1>1, <2>1 DEF FifoRec
  <2> QED BY <1>1, <2>2 DEF TransportTypeOK
<1>3. \A d \in Clients : /\ SameFifo(fifo[d], fifo'[d])
                         /\ fifo'[d].accepted = IF d = c THEN fifo[d].accepted + 1 ELSE fifo[d].accepted
  <2>1. fifo \in [Clients -> FifoRec]
    BY DEF TransportTypeOK
  <2> QED BY <1>1, <2>1 DEF SameFifo, FifoRec
<1>4. \A d \in Clients : /\ fifo[d].accepted \in Nat /\ fifo'[d].accepted \in Nat
                         /\ fifo'[d].accepted >= fifo[d].accepted
                         /\ fifo'[d].accepted <= MaxMsg
  <2>1. \A d \in Clients : fifo[d].accepted \in Nat /\ fifo[d].accepted <= MaxMsg
    BY AcceptedBound
  <2>2. MaxMsg \in Nat
    BY LogTransportAssumption
  <2> QED BY <2>1, <2>2, <1>1, <1>3
<1>5. Growing(fifo, fifo')
  BY <1>4 DEF Growing
<1>6. ConnsOwned' /\ ServerParts' /\ BacklogParts'
  BY <1>1 DEF ConnsOwned, ServerParts, BacklogParts
<1>7. MainKept(main, main')
  BY <1>1 DEF MainKept
<1>8. QueueParts'
  BY <1>1, <1>5, <1>7, KeepQueue
<1>9. SlotParts'
  BY <1>1, <1>5, <1>7, Unchanging, KeepSlots
<1>10. BooksParts'
  <2>1. ASSUME NEW d \in Clients
        PROVE  BooksOK(d, cl'[d], fifo'[d], Cardinality(dispatched'[d]))
    BY <1>1, <1>3, <1>4, KeepBooks
  <2> QED BY <2>1 DEF BooksParts
<1>11. ReplyParts'
  <2>1. ASSUME NEW d \in Clients, cl'[d].conn # None
        PROVE  RepliesOK(cl'[d], fifo'[d], Cardinality(dispatched'[d]), net'[cl'[d].conn].down)
    <3>1. SameClient(cl[d], cl'[d]) /\ SameFifo(fifo[d], fifo'[d]) /\ cl[d].conn # None
          /\ net'[cl[d].conn].down = net[cl[d].conn].down /\ dispatched' = dispatched
      BY <1>1, <1>3, <2>1, Unchanging
    <3> QED BY <3>1, KeepReplies
  <2> QED BY <2>1 DEF ReplyParts
<1>12. LinkParts'
  <2>1. /\ srv'.output_queue = srv.output_queue /\ dispatched' = dispatched
        /\ \A d \in Clients, i \in Slots : cx'[i].socket # None /\ cl'[d].conn = cx'[i].socket =>
              /\ SameFifo(fifo[d], fifo'[d]) /\ SameClient(cl[d], cl'[d]) /\ SameSlot(cx[i], cx'[i])
              /\ cx'[i].non_acknowledged = cx[i].non_acknowledged \/ cx'[i].non_acknowledged = 0
              /\ SameLine(cl[d], net[cx[i].socket], net'[cx[i].socket])
    BY <1>1, <1>3, Unchanging
  <2> QED BY <2>1, <1>7, KeepLinks
<1> QED BY <1>2, <1>6, <1>8, <1>9, <1>10, <1>11, <1>12

\* A step of the client that only sets stop.
LEMMA ClientStopStep ==
    ASSUME TransportInvariant, NEW c \in Clients, ClientStop(c)
    PROVE  TransportInvariant'
<1> USE DEF TransportInvariant
<1>1. /\ cl' = [cl EXCEPT ![c].stop = TRUE] /\ budget' = [budget EXCEPT !.restarts = @ - 1]
      /\ budget.restarts > 0
      /\ UNCHANGED <<fifo, net, backlog, srv, cx, main, dispatched>>
  BY DEF ClientStop
<1>2. TransportTypeOK'
  <2>1. cl \in [Clients -> ClientRec] /\ budget \in [faults : Nat, restarts : Nat]
    BY DEF TransportTypeOK
  <2>2. cl' \in [Clients -> ClientRec]
    BY <1>1, <2>1 DEF ClientRec
  <2>3. budget' \in [faults : Nat, restarts : Nat]
    BY <1>1, <2>1
  <2> QED BY <1>1, <2>2, <2>3 DEF TransportTypeOK
<1>3. \A d \in Clients : SameClient(cl[d], cl'[d])
  <2>1. cl \in [Clients -> ClientRec]
    BY DEF TransportTypeOK
  <2> QED BY <1>1, <2>1 DEF SameClient, ClientRec
<1>4. /\ MainKept(main, main') /\ Growing(fifo, fifo') /\ \A d : SameFifo(fifo[d], fifo'[d])
      /\ \A i : SameSlot(cx[i], cx'[i]) /\ \A me, k : SameLine(me, net[k], net'[k])
  BY <1>1, Unchanging
<1>5. ConnsOwned'
  BY <1>1, <1>3, KeepOwners DEF SameClient
<1>6. ServerParts' /\ QueueParts' /\ SlotParts'
  BY <1>1 DEF ServerParts, QueueParts, SlotParts
<1>7. BooksParts'
  <2>1. ASSUME NEW d \in Clients
        PROVE  BooksOK(d, cl'[d], fifo'[d], Cardinality(dispatched'[d]))
    <3>1. fifo'[d].accepted \in Nat /\ fifo'[d].accepted >= fifo[d].accepted
          /\ fifo'[d].accepted <= MaxMsg
      BY <1>1, AcceptedBound
    <3> QED BY <1>1, <1>3, <1>4, <3>1, KeepBooks DEF SameClient
  <2> QED BY <2>1 DEF BooksParts
<1>8. ReplyParts'
  <2>1. ASSUME NEW d \in Clients, cl'[d].conn # None
        PROVE  RepliesOK(cl'[d], fifo'[d], Cardinality(dispatched'[d]), net'[cl'[d].conn].down)
    <3>1. SameClient(cl[d], cl'[d]) /\ SameFifo(fifo[d], fifo'[d]) /\ cl[d].conn # None
          /\ net'[cl[d].conn].down = net[cl[d].conn].down /\ dispatched' = dispatched
      BY <1>1, <1>3, <1>4, <2>1 DEF SameClient
    <3> QED BY <3>1, KeepReplies
  <2> QED BY <2>1 DEF ReplyParts
<1>9. BacklogParts'
  BY <1>1, <1>3, KeepBacklog DEF SameClient
<1>10. LinkParts'
  BY <1>1, <1>3, <1>4, KeepLinks
<1> QED BY <1>2, <1>5, <1>6, <1>7, <1>8, <1>9, <1>10

\* A connection that is opened is one.
LEMMA OpenedConn ==
    ASSUME NEW k \in ConnRec, NEW u \in Seq(UpMsg)
    PROVE  [k EXCEPT !.client = TRUE, !.server = TRUE, !.up = u] \in ConnRec
  BY DEF ConnRec

\* The client connects and says INI.
LEMMA ConnectStep ==
    ASSUME TransportInvariant, NEW c \in Clients, Connect(c)
    PROVE  TransportInvariant'
<1> USE DEF TransportInvariant
<1> DEFINE unused == {j \in Conns : net[j] = FreeConn}
           hello == [FreeConn EXCEPT !.client = TRUE, !.server = TRUE, !.up = <<[kind |-> "INI"]>>]
<1>1. PICK k \in Conns : k = Min(unused) /\ net[k] = FreeConn
  <2>1. unused \in SUBSET Nat /\ unused # {}
    BY LogTransportAssumption DEF Connect
  <2> QED BY <2>1, LeastOf
<1>2. /\ cl' = [cl EXCEPT ![c].state = "open", ![c].conn = k]
      /\ net' = [net EXCEPT ![k] = hello]
      /\ backlog' = Append(backlog, k)
      /\ cl[c].state = "not_connected"
      /\ UNCHANGED <<fifo, srv, cx, main, dispatched, budget>>
  BY <1>1 DEF Connect
<1>3. /\ cl \in [Clients -> ClientRec] /\ net \in [Conns -> ConnRec] /\ backlog \in Seq(Conns)
  BY DEF TransportTypeOK
<1>4. /\ hello.client = TRUE /\ hello.server = TRUE /\ hello.broken = FALSE
      /\ hello.up = <<[kind |-> "INI"]>> /\ hello.down = << >>
  BY DEF FreeConn
<1>5. NoFiles(<<[kind |-> "INI"]>>) /\ <<[kind |-> "INI"]>> \in Seq(UpMsg)
  <2>1. [kind |-> "INI"] \in UpMsg
    BY DEF UpMsg
  <2>2. <<[kind |-> "INI"]>> \in Seq(UpMsg) /\ Len(<<[kind |-> "INI"]>>) = 1
        /\ <<[kind |-> "INI"]>>[1] = [kind |-> "INI"]
    BY <2>1
  <2>3. \A a \in 1 .. 1 : a = 1
    OBVIOUS
  <2>4. NoFiles(<<[kind |-> "INI"]>>)
    BY <2>2, <2>3 DEF NoFiles
  <2> QED BY <2>2, <2>4
<1>6. hello \in ConnRec
  <2>1. << >> \in Seq(DownMsg) /\ << >> \in Seq(UpMsg)
    OBVIOUS
  <2>2. FreeConn \in ConnRec
    BY <2>1 DEF FreeConn, ConnRec
  <2> QED BY <1>5, <2>2, OpenedConn
<1> HIDE DEF hello, unused
<1>7. /\ cl' \in [Clients -> ClientRec]
      /\ cl'[c].state = "open" /\ cl'[c].conn = k
      /\ cl'[c].input_queue = cl[c].input_queue /\ cl'[c].ack_id = cl[c].ack_id
      /\ \A d \in Clients : d # c => cl'[d] = cl[d]
  BY <1>2, <1>3 DEF ClientRec
<1>8. /\ net' \in [Conns -> ConnRec] /\ net'[k] = hello
      /\ \A j \in Conns : j # k => net'[j] = net[j]
  BY <1>2, <1>3, <1>6
<1>9. /\ backlog' \in Seq(Conns) /\ Len(backlog') = Len(backlog) + 1 /\ Len(backlog) \in Nat
      /\ \A e \in 1 .. Len(backlog) : backlog'[e] = backlog[e] /\ backlog[e] \in Conns
      /\ backlog'[Len(backlog) + 1] = k
  <2>1. /\ Append(backlog, k) \in Seq(Conns) /\ Len(Append(backlog, k)) = Len(backlog) + 1
        /\ \A e \in 1 .. Len(backlog) : Append(backlog, k)[e] = backlog[e]
        /\ Append(backlog, k)[Len(backlog) + 1] = k
    BY <1>1, <1>3, SetOfAppend
  <2>2. Len(backlog) \in Nat /\ \A e \in 1 .. Len(backlog) : backlog[e] \in Conns
    BY <1>3
  <2> QED BY <2>1, <2>2, <1>2
<1>10. \A e \in 1 .. Len(backlog') : e \in 1 .. Len(backlog) \/ e = Len(backlog) + 1
  BY <1>9
<1>11. TransportTypeOK'
  BY <1>2, <1>7, <1>8, <1>9 DEF TransportTypeOK
<1>12. net[k].client = FALSE /\ net[k].server = FALSE
  BY <1>1 DEF FreeConn
<1>13. /\ \A d \in Clients : cl[d].conn \in Conns \cup {None}
       /\ \A i \in Slots : cx[i].socket \in Conns \cup {None}
  BY Types DEF TypeFacts
<1>14. /\ \A d \in Clients : cl[d].conn # k
       /\ \A i \in Slots : cx[i].socket # k
       /\ \A e \in 1 .. Len(backlog) : backlog[e] # k
       /\ cl[c].conn = None /\ k # None
  BY <1>1, <1>2, <1>12, <1>13, NothingIsNone DEF ConnsOwned, OwnersOK
<1>15. ConnsOwned'
  <2>1. /\ \A d \in Clients : cl'[d].conn = None <=> cl'[d].state = "not_connected"
        /\ \A d \in Clients : cl'[d].conn # None => net'[cl'[d].conn].client
        /\ \A d, e \in Clients : cl'[d].conn = cl'[e].conn /\ cl'[d].conn # None => d = e
    BY <1>4, <1>7, <1>8, <1>13, <1>14 DEF ConnsOwned, OwnersOK
  <2>2. /\ \A i \in Slots : cx'[i].socket # None => net'[cx'[i].socket].server
        /\ \A i, j \in Slots : cx'[i].socket # None /\ cx'[i].socket = cx'[j].socket => i = j
    BY <1>2, <1>8, <1>13, <1>14 DEF ConnsOwned, OwnersOK
  <2>3. /\ \A e \in 1 .. Len(backlog') : net'[backlog'[e]].server
        /\ \A e \in 1 .. Len(backlog') : \A i \in Slots : cx'[i].socket # backlog'[e]
        /\ \A d, e \in 1 .. Len(backlog') : backlog'[d] = backlog'[e] => d = e
    BY <1>2, <1>4, <1>8, <1>9, <1>10, <1>14 DEF ConnsOwned, OwnersOK
  <2> QED BY <2>1, <2>2, <2>3 DEF ConnsOwned, OwnersOK
<1>16. ServerParts' /\ QueueParts'
  BY <1>2 DEF ServerParts, QueueParts
<1>17. /\ MainKept(main, main') /\ Growing(fifo, fifo') /\ \A d : SameFifo(fifo[d], fifo'[d])
       /\ \A i : SameSlot(cx[i], cx'[i])
  BY <1>2, Unchanging
<1>18. \A i \in Slots : cx'[i].socket # None => net'[cx[i].socket] = net[cx[i].socket]
  BY <1>2, <1>8, <1>13, <1>14
<1>19. SlotParts'
  BY <1>2, <1>17, <1>18, KeepSlots
<1>20. BooksParts'
  <2>1. ASSUME NEW d \in Clients
        PROVE  BooksOK(d, cl'[d], fifo'[d], Cardinality(dispatched'[d]))
    <3>1. fifo'[d].accepted \in Nat /\ fifo'[d].accepted >= fifo[d].accepted
          /\ fifo'[d].accepted <= MaxMsg
      BY <1>2, AcceptedBound
    <3>2. /\ cl'[d].input_queue = cl[d].input_queue /\ cl'[d].ack_id = cl[d].ack_id
          /\ cl'[d].state = "connected" => cl'[d] = cl[d]
      BY <1>7
    <3> QED BY <1>2, <1>17, <3>1, <3>2, KeepBooks
  <2> QED BY <2>1 DEF BooksParts
<1>21. ReplyParts'
  <2>1. ASSUME NEW d \in Clients, cl'[d].conn # None
        PROVE  RepliesOK(cl'[d], fifo'[d], Cardinality(dispatched'[d]), net'[cl'[d].conn].down)
    <3>1. CASE d = c
      <4>1. cl'[d].state = "open" /\ net'[cl'[d].conn].down = << >>
        BY <3>1, <1>4, <1>7, <1>8
      <4>2. Len(<< >>) <= 1 /\ \A a \in 1 .. Len(<< >>) : FALSE
        OBVIOUS
      <4> QED BY <4>1, <4>2 DEF RepliesOK
    <3>2. CASE d # c
      <4>1. cl'[d] = cl[d] /\ cl[d].conn # None /\ net'[cl[d].conn] = net[cl[d].conn]
        BY <2>1, <3>2, <1>7, <1>8, <1>13, <1>14
      <4>2. SameClient(cl[d], cl'[d])
        BY <4>1 DEF SameClient
      <4> QED BY <4>1, <4>2, <1>2, <1>17, KeepReplies
    <3> QED BY <3>1, <3>2
  <2> QED BY <2>1 DEF ReplyParts
<1>22. BacklogParts'
  <2>1. ASSUME NEW e \in 1 .. Len(backlog')
        PROVE  /\ NoFiles(net'[backlog'[e]].up)
               /\ \A d \in Clients : cl'[d].conn = backlog'[e] =>
                      cl'[d].state = "open" /\ net'[backlog'[e]].down = << >>
    <3>1. CASE e \in 1 .. Len(backlog)
      <4>1. backlog'[e] = backlog[e] /\ net'[backlog[e]] = net[backlog[e]] /\ backlog[e] # k
        BY <3>1, <1>8, <1>9, <1>14
      <4>2. \A d \in Clients : cl'[d].conn = backlog[e] => cl'[d] = cl[d]
        BY <4>1, <1>7
      <4> QED BY <3>1, <4>1, <4>2 DEF BacklogParts, BacklogOK
    <3>2. CASE e = Len(backlog) + 1
      <4>1. backlog'[e] = k
        BY <3>2, <1>9
      <4>2. \A d \in Clients : cl'[d].conn = k => d = c
        BY <1>7, <1>14
      <4> QED BY <4>1, <4>2, <1>4, <1>5, <1>7, <1>8
    <3> QED BY <3>1, <3>2, <1>10
  <2> QED BY <2>1 DEF BacklogParts, BacklogOK
<1>23. LinkParts'
  <2>1. ASSUME NEW d \in Clients, NEW i \in Slots, cx'[i].socket # None, cl'[d].conn = cx'[i].socket
        PROVE  /\ SameFifo(fifo[d], fifo'[d]) /\ SameClient(cl[d], cl'[d]) /\ SameSlot(cx[i], cx'[i])
               /\ cx'[i].non_acknowledged = cx[i].non_acknowledged \/ cx'[i].non_acknowledged = 0
               /\ SameLine(cl[d], net[cx[i].socket], net'[cx[i].socket])
    <3>1. d # c
      BY <2>1, <1>2, <1>7, <1>14
    <3>2. cl'[d] = cl[d] /\ net'[cx[i].socket] = net[cx[i].socket] /\ cx' = cx
      BY <2>1, <3>1, <1>2, <1>7, <1>18
    <3> QED BY <3>2, <1>17, Unchanging
  <2> QED BY <2>1, <1>2, <1>17, KeepLinks
<1> QED BY <1>11, <1>15, <1>16, <1>19, <1>20, <1>21, <1>22, <1>23

\* STATE_CLOSE_CLIENT.
LEMMA CloseClientStep ==
    ASSUME TransportInvariant, NEW c \in Clients, CloseClient(c), cl[c].conn # None,
           budget' \in [faults : Nat, restarts : Nat],
           UNCHANGED <<fifo, backlog, srv, cx, main, dispatched>>
    PROVE  TransportInvariant'
<1> USE DEF TransportInvariant
<1>1. PICK k \in Conns : k = cl[c].conn
  BY Types DEF TypeFacts
<1>2. /\ cl' = [cl EXCEPT ![c].state = "not_connected", ![c].conn = None]
      /\ net' = CloseClientEnd(net, k)
  BY <1>1 DEF CloseClient
<1>3. /\ cl \in [Clients -> ClientRec] /\ net \in [Conns -> ConnRec]
  BY DEF TransportTypeOK
<1>4. << >> \in Seq(DownMsg) /\ << >> \in Seq(UpMsg)
  OBVIOUS
<1>5. FreeConn \in ConnRec
  BY <1>4 DEF FreeConn, ConnRec
<1>6. /\ cl' \in [Clients -> ClientRec]
      /\ cl'[c].state = "not_connected" /\ cl'[c].conn = None
      /\ cl'[c].input_queue = cl[c].input_queue /\ cl'[c].ack_id = cl[c].ack_id
      /\ \A d \in Clients : d # c => cl'[d] = cl[d]
  BY <1>2, <1>3 DEF ClientRec
<1>7. /\ net' \in [Conns -> ConnRec]
      /\ \A j \in Conns : j # k => net'[j] = net[j]
      /\ net[k].server => /\ net'[k].server /\ net'[k].up = net[k].up /\ net'[k].down = << >>
                          /\ net'[k].broken = net[k].broken
  <2>1. CASE net[k].server
    <3>1. net' = [net EXCEPT ![k].client = FALSE, ![k].down = << >>]
      BY <1>2, <2>1 DEF CloseClientEnd
    <3> QED BY <2>1, <3>1, <1>3, <1>4 DEF ConnRec
  <2>2. CASE ~net[k].server
    <3>1. net' = [net EXCEPT ![k] = FreeConn]
      BY <1>2, <2>2 DEF CloseClientEnd
    <3> QED BY <2>2, <3>1, <1>3, <1>5
  <2> QED BY <2>1, <2>2
<1>8. TransportTypeOK'
  BY <1>6, <1>7 DEF TransportTypeOK
<1>13. /\ \A d \in Clients : cl[d].conn \in Conns \cup {None}
       /\ \A i \in Slots : cx[i].socket \in Conns \cup {None}
       /\ \A e \in 1 .. Len(backlog) : backlog[e] \in Conns
  BY Types DEF TypeFacts
<1>14. /\ \A d \in Clients : d # c => cl[d].conn # k
       /\ \A i \in Slots : cx[i].socket # None => net[cx[i].socket].server
       /\ \A e \in 1 .. Len(backlog) : net[backlog[e]].server
       /\ k # None
  BY <1>1 DEF ConnsOwned, OwnersOK
<1>15. ConnsOwned'
  <2>1. /\ \A d \in Clients : cl'[d].conn = None <=> cl'[d].state = "not_connected"
        /\ \A d \in Clients : cl'[d].conn # None => net'[cl'[d].conn].client
        /\ \A d, e \in Clients : cl'[d].conn = cl'[e].conn /\ cl'[d].conn # None => d = e
    BY <1>6, <1>7, <1>13, <1>14 DEF ConnsOwned, OwnersOK
  <2>2. /\ \A i \in Slots : cx'[i].socket # None => net'[cx'[i].socket].server
        /\ \A i, j \in Slots : cx'[i].socket # None /\ cx'[i].socket = cx'[j].socket => i = j
    BY <1>7, <1>13, <1>14 DEF ConnsOwned, OwnersOK
  <2>3. /\ \A e \in 1 .. Len(backlog) : net'[backlog[e]].server
        /\ \A e \in 1 .. Len(backlog) : \A i \in Slots : cx'[i].socket # backlog[e]
        /\ \A d, e \in 1 .. Len(backlog) : backlog[d] = backlog[e] => d = e
    BY <1>7, <1>13, <1>14 DEF ConnsOwned, OwnersOK
  <2> QED BY <2>1, <2>2, <2>3 DEF ConnsOwned, OwnersOK
<1>16. ServerParts' /\ QueueParts'
  BY DEF ServerParts, QueueParts
<1>17. /\ MainKept(main, main') /\ Growing(fifo, fifo') /\ \A d : SameFifo(fifo[d], fifo'[d])
       /\ \A i : SameSlot(cx[i], cx'[i])
  BY Unchanging
<1>18. \A i \in Slots : cx'[i].socket # None => net'[cx[i].socket].up = net[cx[i].socket].up
  BY <1>7, <1>13, <1>14
<1>19. SlotParts'
  BY <1>17, <1>18, KeepSlots
<1>20. BooksParts'
  <2>1. ASSUME NEW d \in Clients
        PROVE  BooksOK(d, cl'[d], fifo'[d], Cardinality(dispatched'[d]))
    <3>1. fifo'[d].accepted \in Nat /\ fifo'[d].accepted >= fifo[d].accepted
          /\ fifo'[d].accepted <= MaxMsg
      BY AcceptedBound
    <3>2. /\ cl'[d].input_queue = cl[d].input_queue /\ cl'[d].ack_id = cl[d].ack_id
          /\ cl'[d].state = "connected" => cl'[d] = cl[d]
      BY <1>6
    <3> QED BY <1>17, <3>1, <3>2, KeepBooks
  <2> QED BY <2>1 DEF BooksParts
<1>21. ReplyParts'
  <2>1. ASSUME NEW d \in Clients, cl'[d].conn # None
        PROVE  RepliesOK(cl'[d], fifo'[d], Cardinality(dispatched'[d]), net'[cl'[d].conn].down)
    <3>1. d # c
      BY <2>1, <1>6
    <3>2. cl'[d] = cl[d] /\ cl[d].conn # None /\ net'[cl[d].conn] = net[cl[d].conn]
      BY <2>1, <3>1, <1>6, <1>7, <1>13, <1>14
    <3>3. SameClient(cl[d], cl'[d])
      BY <3>2 DEF SameClient
    <3> QED BY <3>2, <3>3, <1>17, KeepReplies
  <2> QED BY <2>1 DEF ReplyParts
<1>22. BacklogParts'
  <2>1. ASSUME NEW e \in 1 .. Len(backlog)
        PROVE  /\ net'[backlog[e]].up = net[backlog[e]].up
               /\ net'[backlog[e]].down = net[backlog[e]].down \/ net'[backlog[e]].down = << >>
               /\ \A d \in Clients : cl'[d].conn = backlog[e] =>
                      cl'[d].state = cl[d].state /\ cl'[d].conn = cl[d].conn
    <3>1. net[backlog[e]].server /\ backlog[e] \in Conns /\ backlog[e] # None
      BY <1>13, <1>14, NothingIsNone
    <3>2. \A d \in Clients : cl'[d].conn = backlog[e] => d # c
      BY <3>1, <1>6
    <3> QED BY <3>1, <3>2, <1>6, <1>7
  <2> QED BY <2>1, KeepBacklog
<1>23. LinkParts'
  <2>1. ASSUME NEW d \in Clients, NEW i \in Slots, cx'[i].socket # None, cl'[d].conn = cx'[i].socket
        PROVE  /\ SameFifo(fifo[d], fifo'[d]) /\ SameClient(cl[d], cl'[d]) /\ SameSlot(cx[i], cx'[i])
               /\ cx'[i].non_acknowledged = cx[i].non_acknowledged \/ cx'[i].non_acknowledged = 0
               /\ SameLine(cl[d], net[cx[i].socket], net'[cx[i].socket])
    <3>1. d # c
      BY <2>1, <1>6
    <3>2. cl'[d] = cl[d] /\ cx' = cx /\ cx[i].socket # k
      BY <2>1, <3>1, <1>6, <1>14
    <3>3. net'[cx[i].socket] = net[cx[i].socket]
      BY <2>1, <3>2, <1>7, <1>13
    <3> QED BY <3>2, <3>3, <1>17, Unchanging
  <2> QED BY <2>1, <1>17, KeepLinks
<1> QED BY <1>8, <1>15, <1>16, <1>19, <1>20, <1>21, <1>22, <1>23

\* Faults are counted down.
LEMMA FaultCounted ==
    ASSUME TransportTypeOK, Fault PROVE budget' \in [faults : Nat, restarts : Nat]
<1>1. budget \in [faults : Nat, restarts : Nat]
  BY DEF TransportTypeOK
<1>2. budget.faults > 0 /\ budget' = [budget EXCEPT !.faults = @ - 1]
  BY DEF Fault
<1> QED BY <1>1, <1>2

\* No READY came.
LEMMA GiveUpOpenStep ==
    ASSUME TransportInvariant, NEW c \in Clients, GiveUpOpen(c)
    PROVE  TransportInvariant'
<1>1. /\ cl[c].state = "open" /\ CloseClient(c)
      /\ UNCHANGED <<fifo, backlog, srv, cx, main, dispatched>>
      /\ UNCHANGED budget \/ Fault
  BY DEF GiveUpOpen
<1>2. TransportTypeOK /\ cl[c].conn # None
  BY <1>1 DEF TransportInvariant, ConnsOwned, OwnersOK
<1>3. budget' \in [faults : Nat, restarts : Nat]
  BY <1>1, <1>2, FaultCounted DEF TransportTypeOK
<1> QED BY <1>1, <1>2, <1>3, CloseClientStep

\* The connection is lost, or the client is told to stop.
LEMMA LeaveLoopStep ==
    ASSUME TransportInvariant, NEW c \in Clients, LeaveLoop(c)
    PROVE  TransportInvariant'
<1>1. /\ cl[c].state = "connected" /\ CloseClient(c)
      /\ UNCHANGED <<fifo, backlog, srv, cx, main, dispatched>>
      /\ UNCHANGED budget \/ Fault
  BY DEF LeaveLoop
<1>2. TransportTypeOK /\ cl[c].conn # None
  BY <1>1 DEF TransportInvariant, ConnsOwned, OwnersOK
<1>3. budget' \in [faults : Nat, restarts : Nat]
  BY <1>1, <1>2, FaultCounted DEF TransportTypeOK
<1> QED BY <1>1, <1>2, <1>3, CloseClientStep

\* A connection breaks: both ends keep it and nothing comes of what was sent.
LEMMA BreakStep ==
    ASSUME TransportInvariant, NEW k \in Conns, Break(k)
    PROVE  TransportInvariant'
<1> USE DEF TransportInvariant
<1>1. /\ Fault /\ net' = [net EXCEPT ![k].broken = TRUE, ![k].up = << >>, ![k].down = << >>]
      /\ UNCHANGED <<fifo, cl, backlog, srv, cx, main, dispatched>>
  BY DEF Break
<1>2. net \in [Conns -> ConnRec] /\ << >> \in Seq(UpMsg) /\ << >> \in Seq(DownMsg)
  BY DEF TransportTypeOK
<1>3. /\ net' \in [Conns -> ConnRec]
      /\ \A j \in Conns : net'[j].client = net[j].client /\ net'[j].server = net[j].server
      /\ \A j \in Conns : \/ net'[j] = net[j]
                          \/ net'[j].up = << >> /\ net'[j].down = << >> /\ net'[j].broken
  BY <1>1, <1>2 DEF ConnRec
<1>4. TransportTypeOK'
  BY <1>1, <1>3, FaultCounted DEF TransportTypeOK
<1>5. /\ \A d \in Clients : cl[d].conn \in Conns \cup {None}
      /\ \A i \in Slots : cx[i].socket \in Conns \cup {None}
      /\ \A e \in 1 .. Len(backlog) : backlog[e] \in Conns
  BY Types DEF TypeFacts
<1>6. /\ MainKept(main, main') /\ Growing(fifo, fifo') /\ \A d : SameFifo(fifo[d], fifo'[d])
      /\ \A i : SameSlot(cx[i], cx'[i]) /\ \A d : SameClient(cl[d], cl'[d])
  BY <1>1, Unchanging
<1>7. ConnsOwned'
  BY <1>1, <1>3, KeepOwners
<1>8. ServerParts' /\ QueueParts' /\ BooksParts'
  BY <1>1 DEF ServerParts, QueueParts, BooksParts
<1>9. SlotParts'
  BY <1>1, <1>3, <1>5, <1>6, KeepSlots
<1>10. ReplyParts'
  <2>1. ASSUME NEW d \in Clients, cl'[d].conn # None
        PROVE  RepliesOK(cl'[d], fifo'[d], Cardinality(dispatched'[d]), net'[cl'[d].conn].down)
    <3>1. /\ cl[d].conn # None /\ dispatched' = dispatched
          /\ \/ net'[cl[d].conn].down = net[cl[d].conn].down
             \/ net'[cl[d].conn].down = << >>
      BY <1>1, <1>3, <1>5, <2>1
    <3> QED BY <3>1, <1>6, KeepReplies
  <2> QED BY <2>1 DEF ReplyParts
<1>11. BacklogParts'
  BY <1>1, <1>3, <1>5, KeepBacklog
<1>12. LinkParts'
  <2>1. \A i \in Slots : cx[i].socket # None =>
            \A d : SameLine(cl[d], net[cx[i].socket], net'[cx[i].socket])
    BY <1>3, <1>5 DEF SameLine
  <2> QED BY <2>1, <1>1, <1>6, KeepLinks
<1> QED BY <1>4, <1>7, <1>8, <1>9, <1>10, <1>11, <1>12

\* READY comes and the client starts from the head of its input queue.
LEMMA ReadyStep ==
    ASSUME TransportInvariant, NEW c \in Clients, Ready(c)
    PROVE  TransportInvariant'
<1> USE DEF TransportInvariant
<1>1. PICK k \in Conns : k = cl[c].conn /\ k # None
  <2>1. cl[c].conn # None
    BY DEF Ready, ConnsOwned, OwnersOK
  <2> QED BY <2>1, Types DEF TypeFacts
<1>2. /\ cl[c].state = "open" /\ net[k].down # << >>
      /\ cl' = [cl EXCEPT ![c].state = "connected", ![c].index = 0, ![c].phase = "next",
                          ![c].current = 0]
      /\ net' = [net EXCEPT ![k].down = Tail(@)]
      /\ UNCHANGED <<fifo, backlog, srv, cx, main, dispatched, budget>>
  BY <1>1 DEF Ready
<1>3. /\ cl \in [Clients -> ClientRec] /\ net \in [Conns -> ConnRec]
  BY DEF TransportTypeOK
<1>4. net[k].down \in Seq(DownMsg) /\ Len(net[k].down) <= 1
  BY <1>1, <1>2, Types DEF TypeFacts, ReplyParts, RepliesOK
<1>5. Tail(net[k].down) = << >> /\ << >> \in Seq(DownMsg)
  BY <1>2, <1>4
<1>6. /\ cl' \in [Clients -> ClientRec]
      /\ cl'[c].state = "connected" /\ cl'[c].conn = k /\ cl'[c].index = 0
      /\ cl'[c].phase = "next" /\ cl'[c].current = 0
      /\ cl'[c].input_queue = cl[c].input_queue /\ cl'[c].ack_id = cl[c].ack_id
      /\ \A d \in Clients : d # c => cl'[d] = cl[d]
  <2>1. cl[c] \in ClientRec /\ cl' = [cl EXCEPT ![c] = cl'[c]]
        /\ cl'[c] = [cl[c] EXCEPT !.state = "connected", !.index = 0, !.phase = "next",
                                  !.current = 0]
    BY <1>2, <1>3
  <2>2. cl'[c] \in ClientRec
    <3>1. [cl[c] EXCEPT !.state = "connected", !.index = 0, !.phase = "next",
                        !.current = 0] \in ClientRec
      BY <2>1 DEF ClientRec
    <3> QED BY <2>1, <3>1
  <2>3. cl' \in [Clients -> ClientRec] /\ \A d \in Clients : d # c => cl'[d] = cl[d]
    BY <2>1, <2>2, <1>3
  <2> QED BY <2>1, <2>3, <1>1 DEF ClientRec
<1>7. /\ net' \in [Conns -> ConnRec]
      /\ net'[k].down = << >> /\ net'[k].up = net[k].up
      /\ \A j \in Conns : net'[j].client = net[j].client /\ net'[j].server = net[j].server
      /\ \A j \in Conns : net'[j].up = net[j].up
      /\ \A j \in Conns : j # k => net'[j] = net[j]
  <2>1. net' = [net EXCEPT ![k].down = << >>]
    BY <1>2, <1>5
  <2> QED BY <2>1, <1>3, <1>5 DEF ConnRec
<1>8. TransportTypeOK'
  BY <1>2, <1>6, <1>7 DEF TransportTypeOK
<1>9. /\ \A d \in Clients : cl[d].conn \in Conns \cup {None}
      /\ \A i \in Slots : cx[i].socket \in Conns \cup {None}
      /\ \A e \in 1 .. Len(backlog) : backlog[e] \in Conns
  BY Types DEF TypeFacts
<1>10. /\ \A d \in Clients : d # c => cl[d].conn # k
       /\ \A e \in 1 .. Len(backlog) : backlog[e] # k
  BY <1>1, <1>2 DEF ConnsOwned, OwnersOK, BacklogParts, BacklogOK
<1>11. /\ MainKept(main, main') /\ Growing(fifo, fifo') /\ \A d : SameFifo(fifo[d], fifo'[d])
       /\ \A i : SameSlot(cx[i], cx'[i])
  BY <1>2, Unchanging
<1>12. ConnsOwned'
  <2>1. /\ \A d \in Clients : cl'[d].conn = None <=> cl'[d].state = "not_connected"
        /\ \A d \in Clients : cl'[d].conn = cl[d].conn
    BY <1>1, <1>2, <1>6 DEF ConnsOwned, OwnersOK
  <2>2. /\ \A d \in Clients : cl'[d].conn # None => net'[cl'[d].conn].client
        /\ \A d, e \in Clients : cl'[d].conn = cl'[e].conn /\ cl'[d].conn # None => d = e
    BY <2>1, <1>7, <1>9 DEF ConnsOwned, OwnersOK
  <2>3. /\ \A i \in Slots : cx'[i].socket # None => net'[cx'[i].socket].server
        /\ \A i, j \in Slots : cx'[i].socket # None /\ cx'[i].socket = cx'[j].socket => i = j
    BY <1>2, <1>7, <1>9 DEF ConnsOwned, OwnersOK
  <2>4. /\ \A e \in 1 .. Len(backlog') : net'[backlog'[e]].server
        /\ \A e \in 1 .. Len(backlog') : \A i \in Slots : cx'[i].socket # backlog'[e]
        /\ \A d, e \in 1 .. Len(backlog') : backlog'[d] = backlog'[e] => d = e
    BY <1>2, <1>7, <1>9 DEF ConnsOwned, OwnersOK
  <2> QED BY <2>1, <2>2, <2>3, <2>4 DEF ConnsOwned, OwnersOK
<1>13. ServerParts' /\ QueueParts'
  BY <1>2 DEF ServerParts, QueueParts
<1>14. SlotParts'
  BY <1>2, <1>7, <1>9, <1>11, KeepSlots
<1>15. BooksParts'
  <2>1. ASSUME NEW d \in Clients
        PROVE  BooksOK(d, cl'[d], fifo'[d], Cardinality(dispatched'[d]))
    <3>1. CASE d = c
      <4>1. BooksOK(c, cl[c], fifo[c], Cardinality(dispatched[c]))
        BY DEF BooksParts
      <4>2. 0 <= Len(cl[c].input_queue)
        BY Types DEF TypeFacts
      <4> QED BY <3>1, <4>1, <4>2, <1>2, <1>6 DEF BooksOK
    <3>2. CASE d # c
      BY <3>2, <1>2, <1>6 DEF BooksParts
    <3> QED BY <3>1, <3>2
  <2> QED BY <2>1 DEF BooksParts
<1>16. ReplyParts'
  <2>1. ASSUME NEW d \in Clients, cl'[d].conn # None
        PROVE  RepliesOK(cl'[d], fifo'[d], Cardinality(dispatched'[d]), net'[cl'[d].conn].down)
    <3>1. CASE d = c
      <4>1. net'[cl'[d].conn].down = << >>
        BY <3>1, <1>6, <1>7
      <4>2. Len(<< >>) <= 1 /\ \A a \in 1 .. Len(<< >>) : FALSE
        OBVIOUS
      <4> QED BY <4>1, <4>2 DEF RepliesOK
    <3>2. CASE d # c
      BY <2>1, <3>2, <1>2, <1>6, <1>7, <1>9, <1>10 DEF ReplyParts
    <3> QED BY <3>1, <3>2
  <2> QED BY <2>1 DEF ReplyParts
<1>17. BacklogParts'
  <2>1. \A e \in 1 .. Len(backlog) :
            /\ net'[backlog[e]] = net[backlog[e]]
            /\ \A d \in Clients : cl'[d].conn = backlog[e] =>
                   cl'[d].state = cl[d].state /\ cl'[d].conn = cl[d].conn
    BY <1>6, <1>7, <1>9, <1>10
  <2> QED BY <2>1, <1>2, KeepBacklog
<1>18. LinkParts'
  <2>1. ASSUME NEW d \in Clients, NEW i \in Slots, cx'[i].socket # None, cl'[d].conn = cx'[i].socket
        PROVE  LinkOK(d, cl'[d], fifo'[d], Cardinality(dispatched'[d]), cx'[i], net'[cx'[i].socket],
                      srv'.output_queue, main')
    <3>1. CASE d = c
      <4> DEFINE f == fifo[c]
                 n == Cardinality(dispatched[c])
                 s == SentBy(cl'[c], f)
      <4>1. cx[i].socket = k /\ OpenLinkOK(cx[i], net[k], srv.output_queue, main)
        BY <2>1, <3>1, <1>1, <1>2, <1>6 DEF LinkParts, LinkOK
      <4>2. f.base \in Nat /\ f.removed \in Nat /\ n \in Nat /\ f.base <= f.removed /\ f.removed <= n
        BY Types DEF TypeFacts, BooksParts, BooksOK, QueueParts, DispatchedOK
      <4>3. s = f.removed
        BY <4>2, <1>6 DEF SentBy
      <4>5. s \in Int /\ f.base <= s /\ s <= n
        BY <4>2, <4>3
      <4>6. net[k].down # << >> /\ net'[k].up = net[k].up
        BY <1>2, <1>7
      <4> HIDE DEF f, n, s
      <4>4. ConnectedLinkOK(c, f.base, s, n, cx[i], net'[k], srv.output_queue, main)
        BY ONLY <4>1, <4>2, <4>5, <4>6, LinkReady
      <4> QED BY <3>1, <4>1, <4>4, <1>2, <1>6 DEF f, n, s, LinkOK
    <3>2. CASE d # c
      <4>1. cl'[d] = cl[d] /\ net'[cx[i].socket] = net[cx[i].socket]
        BY <2>1, <3>2, <1>2, <1>6, <1>7, <1>9, <1>10
      <4> QED BY <2>1, <4>1, <1>2 DEF LinkParts
    <3> QED BY <3>1, <3>2
  <2> QED BY <2>1 DEF LinkParts
<1> QED BY <1>8, <1>12, <1>13, <1>14, <1>15, <1>16, <1>17, <1>18

\* A client that starts again numbers what it did not see acknowledged from 1.
LEMMA ClientRestartStep ==
    ASSUME TransportInvariant, NEW c \in Clients, ClientRestart(c)
    PROVE  TransportInvariant'
<1> USE DEF TransportInvariant
<1>1. /\ cl[c].state = "not_connected" /\ cl' = [cl EXCEPT ![c] = Idle]
      /\ fifo' = [fifo EXCEPT ![c].base = fifo[c].removed, ![c].out = fifo[c].removed]
      /\ UNCHANGED <<net, backlog, srv, cx, main, dispatched, budget>>
  BY DEF ClientRestart
<1>2. /\ cl \in [Clients -> ClientRec] /\ fifo \in [Clients -> FifoRec]
      /\ << >> \in Seq(FileSet) /\ Len(<< >>) = 0 /\ \A a \in 1 .. Len(<< >>) : FALSE
  BY DEF TransportTypeOK
<1>3. /\ Idle \in ClientRec /\ Idle.state = "not_connected" /\ Idle.conn = None
      /\ Idle.input_queue = << >> /\ Idle.ack_id = 0
  BY <1>2 DEF Idle, ClientRec
<1>4. /\ cl' \in [Clients -> ClientRec] /\ cl'[c] = Idle
      /\ \A d \in Clients : d # c => cl'[d] = cl[d]
  BY <1>1, <1>2, <1>3
<1>5. /\ fifo' \in [Clients -> FifoRec]
      /\ \A d \in Clients : d # c => fifo'[d] = fifo[d]
      /\ fifo'[c].base = fifo[c].removed /\ fifo'[c].out = fifo[c].removed
      /\ fifo'[c].removed = fifo[c].removed /\ fifo'[c].accepted = fifo[c].accepted
  BY <1>1, <1>2 DEF FifoRec
<1>6. TransportTypeOK'
  BY <1>1, <1>4, <1>5 DEF TransportTypeOK
<1>7. cl[c].conn = None
  BY <1>1 DEF ConnsOwned, OwnersOK
<1>8. MainKept(main, main') /\ \A i : SameSlot(cx[i], cx'[i])
  BY <1>1, Unchanging
<1>9. Growing(fifo, fifo')
  BY <1>5, Unchanging DEF Growing
<1>10. ConnsOwned'
  BY <1>1, <1>3, <1>4, <1>7, KeepOwners
<1>11. ServerParts'
  BY <1>1 DEF ServerParts
<1>12. QueueParts'
  BY <1>1, <1>8, <1>9, KeepQueue
<1>13. SlotParts'
  BY <1>1, <1>8, <1>9, KeepSlots
<1>14. BooksParts'
  <2>1. ASSUME NEW d \in Clients
        PROVE  BooksOK(d, cl'[d], fifo'[d], Cardinality(dispatched'[d]))
    <3>1. CASE d = c
      <4> DEFINE f == fifo[c]
      <4>1. BooksOK(c, cl[c], f, Cardinality(dispatched[c]))
        BY DEF BooksParts
      <4>2. f.removed \in Nat /\ f.base \in Nat /\ f.out \in Nat /\ f.accepted \in Nat
        BY Types DEF TypeFacts
      <4>3. f.removed <= f.accepted
        BY <4>1, <4>2 DEF BooksOK
      <4> QED BY <3>1, <4>1, <4>2, <4>3, <1>1, <1>2, <1>3, <1>4, <1>5 DEF BooksOK
    <3>2. CASE d # c
      BY <3>2, <1>1, <1>4, <1>5 DEF BooksParts
    <3> QED BY <3>1, <3>2
  <2> QED BY <2>1 DEF BooksParts
<1>15. ReplyParts'
  BY <1>1, <1>3, <1>4, <1>5 DEF ReplyParts
<1>16. BacklogParts'
  <2>1. \A d \in Clients : cl'[d].conn = cl[d].conn /\ cl'[d].state = cl[d].state
    BY <1>1, <1>3, <1>4, <1>7
  <2> QED BY <2>1, <1>1, KeepBacklog
<1>17. LinkParts'
  <2>1. \A d \in Clients, i \in Slots : cx'[i].socket # None /\ cl'[d].conn = cx'[i].socket => d # c
    BY <1>3, <1>4
  <2>2. \A d : \A i : SameLine(cl[d], net[cx[i].socket], net'[cx[i].socket])
    BY <1>1, Unchanging
  <2>3. \A d : SameFifo(fifo[d], fifo[d]) /\ SameClient(cl[d], cl[d])
    BY Unchanging
  <2> QED BY <2>1, <2>2, <2>3, <1>1, <1>4, <1>5, <1>8, KeepLinks
<1> QED BY <1>6, <1>10, <1>11, <1>12, <1>13, <1>14, <1>15, <1>16, <1>17

-----------------------------------------------------------------------------
(***************************************************************************)
(* A round of a connected client.                                          *)
(***************************************************************************)

\* What the numbers of a client that is connected come to.
LEMMA RoundTypes ==
    ASSUME TransportInvariant, NEW c \in Clients, cl[c].state = "connected"
    PROVE  /\ ClientTyped(cl[c]) /\ FifoTyped(fifo[c]) /\ SentBy(cl[c], fifo[c]) \in Int
           /\ Cardinality(dispatched[c]) \in Nat
           /\ BooksOK(c, cl[c], fifo[c], Cardinality(dispatched[c]))
           /\ cl[c].conn \in Conns /\ cl[c].conn # None
           /\ net[cl[c].conn].client
           /\ fifo[c].removed <= SentBy(cl[c], fifo[c])
<1> USE DEF TransportInvariant
<1>1. /\ ClientTyped(cl[c]) /\ FifoTyped(fifo[c]) /\ SentBy(cl[c], fifo[c]) \in Int
  BY TypedClients
<1>2. Cardinality(dispatched[c]) \in Nat /\ BooksOK(c, cl[c], fifo[c], Cardinality(dispatched[c]))
  BY DEF QueueParts, DispatchedOK, BooksParts
<1>3. cl[c].conn \in Conns /\ cl[c].conn # None /\ net[cl[c].conn].client
  BY Types DEF TypeFacts, ConnsOwned, OwnersOK
<1>4. fifo[c].removed <= SentBy(cl[c], fifo[c])
  <2>1. /\ fifo[c].removed \in Nat /\ cl[c].index \in Nat
        /\ cl[c].phase = "file" => 0 < cl[c].index
    BY <1>1, <1>2 DEF ClientTyped, FifoTyped, BooksOK
  <2>2. /\ cl[c].phase = "file" => SentBy(cl[c], fifo[c]) = fifo[c].removed + cl[c].index - 1
        /\ cl[c].phase # "file" => SentBy(cl[c], fifo[c]) = fifo[c].removed + cl[c].index
    BY <1>1, SentFacts
  <2> QED BY ONLY <2>1, <2>2
<1> QED BY <1>1, <1>2, <1>3, <1>4

\* The last acknowledgement covers only what was sent and dispatched.
LEMMA AckOfRound ==
    ASSUME TransportInvariant, NEW c \in Clients, cl[c].state = "connected"
    PROVE  /\ LastAck(c) \in Nat
           /\ LastAck(c) + fifo[c].base <= Cardinality(dispatched[c])
           /\ LastAck(c) + fifo[c].base <= SentBy(cl[c], fifo[c])
<1> USE DEF TransportInvariant
<1> DEFINE down == net[cl[c].conn].down
           n == Cardinality(dispatched[c])
           s == SentBy(cl[c], fifo[c])
<1>1. /\ n \in Nat /\ s \in Int /\ BooksOK(c, cl[c], fifo[c], n) /\ fifo[c].removed <= s
      /\ cl[c].conn \in Conns /\ cl[c].conn # None
      /\ fifo[c].base \in Nat /\ fifo[c].removed \in Nat /\ cl[c].ack_id \in Nat
  BY RoundTypes DEF FifoTyped, ClientTyped
<1>2. down \in Seq(DownMsg) /\ RepliesOK(cl[c], fifo[c], n, down)
  BY <1>1, Types DEF TypeFacts, ReplyParts
<1>3. CASE down = << >>
  <2>1. LastAck(c) = cl[c].ack_id
    BY <1>3 DEF LastAck
  <2>2. cl[c].ack_id + fifo[c].base <= fifo[c].removed /\ fifo[c].removed <= n
    BY <1>1 DEF BooksOK
  <2> HIDE DEF n, s, down
  <2>3. cl[c].ack_id + fifo[c].base <= n /\ cl[c].ack_id + fifo[c].base <= s
    BY ONLY <2>2, <1>1
  <2> QED BY <2>1, <2>3, <1>1 DEF n, s
<1>4. CASE down # << >>
  <2>1. LastAck(c) = down[Len(down)].id
    BY <1>4 DEF LastAck, Last
  <2>2. Len(down) \in 1 .. Len(down)
    BY <1>2, <1>4
  <2>3. down[Len(down)] \in DownMsg
    BY <1>2, <2>2
  <2> HIDE DEF n, s, down
  <2>4. /\ down[Len(down)].kind = "ACK" /\ down[Len(down)].id + fifo[c].base <= n
        /\ down[Len(down)].id + fifo[c].base <= s
    BY <2>2, <1>2 DEF RepliesOK, s
  <2>5. down[Len(down)].id \in Nat
    BY <2>3, <2>4, AckPieces
  <2> QED BY <2>1, <2>4, <2>5 DEF n, s
<1> QED BY <1>3, <1>4

\* The books of a client after a round, before the choice of a file.
AfterAck(c, me1, f1, r, q, index) ==
    /\ r = Removable(c, LastAck(c))
    /\ q = SubSeq(cl[c].input_queue, r + 1, Len(cl[c].input_queue))
    /\ index = Max({cl[c].index - r, 0})
    /\ me1 = [cl[c] EXCEPT !.ack_id = LastAck(c), !.input_queue = q, !.index = index]
    /\ f1 = [fifo[c] EXCEPT !.removed = @ + r]

\* Both are right.
LEMMA RoundRemoves ==
    ASSUME TransportInvariant, NEW c \in Clients, cl[c].state = "connected",
           NEW me1, NEW f1, NEW r, NEW q, NEW index, AfterAck(c, me1, f1, r, q, index)
    PROVE  /\ r = Acked(fifo[c], LastAck(c)) /\ r \in Nat
           /\ index = cl[c].index - r /\ index \in Nat /\ LastAck(c) \in Nat
           /\ fifo[c].removed + r <= Cardinality(dispatched[c])
           /\ me1 \in ClientRec /\ f1 \in FifoRec
           /\ ClientTyped(me1) /\ FifoTyped(f1)
           /\ BooksOK(c, me1, f1, Cardinality(dispatched[c]))
           /\ SentBy(me1, f1) = SentBy(cl[c], fifo[c])
           /\ me1.phase = cl[c].phase /\ me1.current = cl[c].current /\ me1.state = cl[c].state
           /\ me1.input_queue = q /\ me1.index = index /\ me1.ack_id = LastAck(c)
           /\ me1.conn = cl[c].conn
           /\ f1.accepted = fifo[c].accepted /\ f1.out = fifo[c].out /\ f1.base = fifo[c].base
           /\ f1.removed = fifo[c].removed + r
<1> DEFINE me == cl[c]
           f == fifo[c]
           n == Cardinality(dispatched[c])
           ack == LastAck(c)
<1>0. TransportTypeOK
  BY DEF TransportInvariant
<1>1. /\ ClientTyped(me) /\ FifoTyped(f) /\ n \in Nat /\ BooksOK(c, me, f, n)
      /\ me.state = "connected"
  BY RoundTypes
<1>2. ack \in Nat /\ ack + f.base <= n /\ ack + f.base <= SentBy(me, f)
  BY AckOfRound
<1>3. me \in ClientRec /\ f \in FifoRec
  BY <1>0 DEF TransportTypeOK
<1>4. r = Cardinality({i \in DOMAIN me.input_queue : \A j \in 1 .. i :
               me.input_queue[j].id # me.current /\ me.input_queue[j].id <= ack})
  BY DEF Removable, AfterAck
<1>5. me1 = [me EXCEPT !.ack_id = ack, !.input_queue = q, !.index = index]
      /\ f1 = [f EXCEPT !.removed = @ + r]
      /\ q = SubSeq(me.input_queue, r + 1, Len(me.input_queue))
      /\ index = Max({me.index - r, 0})
  BY DEF AfterAck
<1> HIDE DEF me, f, n, ack
<1>6. r = Acked(f, ack)
  BY <1>1, <1>2, <1>4, RemovableCount
<1>7. /\ r \in Nat /\ r <= me.index /\ r <= Len(me.input_queue) /\ f.removed + r <= n
  BY <1>1, <1>2, <1>6, AckedFacts
<1>8. me.index - r \in Nat
  BY <1>1, <1>7 DEF ClientTyped
<1>9. index = me.index - r /\ index \in Nat
  BY <1>5, <1>8, NotNegative
<1>10. q \in Seq(FileSet)
  <2>1. me.input_queue \in Seq(FileSet)
    BY <1>1 DEF ClientTyped
  <2>2. /\ q = SubSeq(me.input_queue, r + 1, Len(me.input_queue))
        /\ r \in Nat /\ r <= Len(me.input_queue)
    BY ONLY <1>5, <1>7
  <2>3. q = [j \in 1 .. (Len(me.input_queue) - r) |-> me.input_queue[r + j]]
    BY ONLY <2>1, <2>2
  <2>4. \A j \in 1 .. (Len(me.input_queue) - r) : me.input_queue[r + j] \in FileSet
    BY ONLY <2>1, <2>2
  <2>5. Len(me.input_queue) - r \in Nat
    BY ONLY <2>1, <2>2
  <2> QED BY ONLY <2>3, <2>4, <2>5
<1>11. f1 \in FifoRec /\ f1.accepted = f.accepted /\ f1.out = f.out /\ f1.base = f.base
       /\ f1.removed = f.removed + r
  <2>1. f \in FifoRec /\ f1 = [f EXCEPT !.removed = @ + r] /\ r \in Nat
    BY <1>3, <1>5, <1>7
  <2> QED BY ONLY <2>1 DEF FifoRec
<1>12. me1 \in ClientRec
  BY <1>2, <1>3, <1>5, <1>9, <1>10 DEF ClientRec
<1>13. /\ me1.phase = me.phase /\ me1.current = me.current /\ me1.state = me.state
       /\ me1.input_queue = q /\ me1.index = index /\ me1.ack_id = ack /\ me1.conn = me.conn
  BY <1>3, <1>5 DEF ClientRec
<1>14. AckTaken(me, me1, f, f1, ack)
  BY ONLY <1>1, <1>5, <1>6, <1>9, <1>11, <1>13 DEF AckTaken
<1>15. /\ ClientTyped(me1) /\ FifoTyped(f1)
       /\ BooksOK(c, me1, f1, n) /\ SentBy(me1, f1) = SentBy(me, f)
  BY ONLY <1>1, <1>2, <1>14, BooksRemove
<1> QED BY <1>2, <1>6, <1>7, <1>9, <1>11, <1>12, <1>13, <1>15 DEF me, f, n, ack

\* The client thread and the persistent FIFO of c after a round.
Rounded(c, me2, f2) ==
    /\ me2 \in ClientRec /\ f2 \in FifoRec
    /\ me2.conn = cl[c].conn /\ me2.state = "connected"
    /\ f2.base = fifo[c].base /\ f2.accepted = fifo[c].accepted
    /\ f2.removed >= fifo[c].removed /\ f2.removed <= Cardinality(dispatched[c])
    /\ BooksOK(c, me2, f2, Cardinality(dispatched[c]))
    /\ SentBy(me2, f2) = SentBy(cl[c], fifo[c]) + (IF cl[c].phase = "file" THEN 1 ELSE 0)

\* The next message of the persistent FIFO.
LEMMA FileRead ==
    ASSUME NEW c \in Clients, NEW f, FifoTyped(f), f.base <= f.removed, f.removed <= f.out
    PROVE  [c |-> c, id |-> f.out + 1 - f.base, msg |-> f.out + 1, sender |-> -1, slot |-> 0]
               \in FileSet
<1>1. f.out + 1 - f.base \in Nat /\ f.out + 1 \in Nat
  BY DEF FifoTyped
<1> QED BY <1>1 DEF FileSet

\* A round that chooses no file;
LEMMA RoundPlain ==
    ASSUME TransportInvariant, NEW c \in Clients, cl[c].state = "connected",
           NEW me1, NEW f1, NEW r, NEW q, NEW index, NEW me2, NEW f2,
           AfterAck(c, me1, f1, r, q, index),
           f2 = f1, NEW ph \in {"next", "end"},
           me2 = [me1 EXCEPT !.phase = ph, !.current = 0]
    PROVE  Rounded(c, me2, f2)
<1> DEFINE n == Cardinality(dispatched[c])
<1>1. /\ me1 \in ClientRec /\ f1 \in FifoRec
      /\ ClientTyped(me1) /\ FifoTyped(f1)
      /\ BooksOK(c, me1, f1, n)
      /\ SentBy(me1, f1) = SentBy(cl[c], fifo[c])
      /\ me1.phase = cl[c].phase /\ me1.state = "connected"
      /\ me1.conn = cl[c].conn
      /\ f1.accepted = fifo[c].accepted /\ f1.base = fifo[c].base
      /\ f1.removed = fifo[c].removed + r /\ r \in Nat /\ fifo[c].removed + r <= n
  BY RoundRemoves
<1>2. n \in Nat /\ fifo[c].removed \in Nat
  BY RoundTypes DEF FifoTyped
<1>3. f1.removed >= fifo[c].removed /\ f1.removed <= n
  BY ONLY <1>1, <1>2
<1>4. me2 = [me1 EXCEPT !.phase = ph, !.current = 0] /\ f2 = f1
  OBVIOUS
<1>5. me2 \in ClientRec
  BY ONLY <1>1, <1>4 DEF ClientRec
<1>6. /\ me2.conn = me1.conn /\ me2.state = me1.state /\ me2.input_queue = me1.input_queue
      /\ me2.index = me1.index /\ me2.ack_id = me1.ack_id /\ me2.phase # "file"
      /\ me2.current = 0
  BY ONLY <1>1, <1>4 DEF ClientRec
<1> HIDE DEF n
<1>7. /\ BooksOK(c, me2, f1, n)
      /\ SentBy(me2, f1) = SentBy(me1, f1) + (IF me1.phase = "file" THEN 1 ELSE 0)
  <2>1. NothingChosen(me1, me2)
    BY ONLY <1>1, <1>6 DEF NothingChosen
  <2>2. /\ ClientTyped(me1) /\ FifoTyped(f1) /\ BooksOK(c, me1, f1, n)
        /\ me1.state = "connected" /\ n \in Nat
    BY ONLY <1>1, <1>2
  <2> QED BY ONLY <2>1, <2>2, BooksSend
<1> QED BY ONLY <1>1, <1>3, <1>4, <1>5, <1>6, <1>7 DEF Rounded, n

\* one that chooses a file of the input queue;
LEMMA RoundAgain ==
    ASSUME TransportInvariant, NEW c \in Clients, cl[c].state = "connected",
           NEW me1, NEW f1, NEW r, NEW q, NEW index, NEW me2, NEW f2,
           AfterAck(c, me1, f1, r, q, index),
           cl[c].phase = "next", index < Len(q), f2 = f1,
           me2 = [me1 EXCEPT !.index = index + 1, !.phase = "file", !.current = q[index + 1].id]
    PROVE  Rounded(c, me2, f2)
<1> DEFINE n == Cardinality(dispatched[c])
<1>1. /\ me1 \in ClientRec /\ f1 \in FifoRec
      /\ ClientTyped(me1) /\ FifoTyped(f1)
      /\ BooksOK(c, me1, f1, n)
      /\ SentBy(me1, f1) = SentBy(cl[c], fifo[c])
      /\ me1.phase = "next" /\ cl[c].phase = "next" /\ me1.state = "connected"
      /\ me1.conn = cl[c].conn /\ me1.input_queue = q /\ me1.index = index /\ index \in Nat
      /\ f1.accepted = fifo[c].accepted /\ f1.base = fifo[c].base
      /\ f1.removed = fifo[c].removed + r /\ r \in Nat /\ fifo[c].removed + r <= n
  BY RoundRemoves
<1>2. n \in Nat /\ fifo[c].removed \in Nat
  BY RoundTypes DEF FifoTyped
<1>3. f1.removed >= fifo[c].removed /\ f1.removed <= n
  BY ONLY <1>1, <1>2
<1>4. /\ me2 = [me1 EXCEPT !.index = index + 1, !.phase = "file", !.current = q[index + 1].id]
      /\ f2 = f1
  OBVIOUS
<1>5. q[index + 1].id \in Nat /\ index + 1 \in Nat
  <2>1. q \in Seq(FileSet) /\ index \in Nat /\ index < Len(q)
    BY <1>1 DEF ClientTyped
  <2>2. q[index + 1] \in FileSet /\ index + 1 \in Nat
    BY ONLY <2>1
  <2> QED BY <2>2, FileFields
<1>6. me2 \in ClientRec
  BY ONLY <1>1, <1>4, <1>5 DEF ClientRec
<1>7. /\ me2.conn = me1.conn /\ me2.state = me1.state /\ me2.input_queue = me1.input_queue
      /\ me2.index = me1.index + 1 /\ me2.ack_id = me1.ack_id /\ me2.phase = "file"
      /\ me2.current = me1.input_queue[me1.index + 1].id
      /\ me1.index < Len(me1.input_queue)
  <2>1. index < Len(q)
    OBVIOUS
  <2> QED BY ONLY <1>1, <1>4, <2>1 DEF ClientRec
<1> HIDE DEF n
<1>8. BooksOK(c, me2, f1, n) /\ SentBy(me2, f1) = SentBy(me1, f1)
  <2>1. FileChosen(me1, me2)
    BY ONLY <1>1, <1>7 DEF FileChosen
  <2>2. /\ ClientTyped(me1) /\ FifoTyped(f1) /\ BooksOK(c, me1, f1, n)
        /\ me1.state = "connected" /\ me1.phase = "next" /\ n \in Nat
    BY ONLY <1>1, <1>2
  <2> QED BY ONLY <2>1, <2>2, BooksChoose
<1>9. SentBy(cl[c], fifo[c]) \in Int
  BY RoundTypes
<1>10. SentBy(me2, f1) = SentBy(cl[c], fifo[c]) + (IF cl[c].phase = "file" THEN 1 ELSE 0)
  BY ONLY <1>1, <1>8, <1>9
<1> QED BY ONLY <1>1, <1>3, <1>4, <1>6, <1>7, <1>8, <1>10 DEF Rounded, n

\* The next message of the persistent FIFO becomes the file g.
MessageRead(c, me1, f1, q, index, me2, f2, g) ==
    /\ cl[c].phase = "next" /\ index >= Len(q) /\ fifo[c].out < fifo[c].accepted
    /\ g = [c |-> c, id |-> fifo[c].out + 1 - fifo[c].base, msg |-> fifo[c].out + 1,
            sender |-> -1, slot |-> 0]
    /\ f2 = [f1 EXCEPT !.out = @ + 1]
    /\ me2 = [me1 EXCEPT !.input_queue = Append(q, g), !.index = index + 1, !.phase = "file",
                         !.current = g.id]

\* one that reads a message.
LEMMA RoundReads ==
    ASSUME TransportInvariant, NEW c \in Clients, cl[c].state = "connected",
           NEW me1, NEW f1, NEW r, NEW q, NEW index, NEW me2, NEW f2, NEW g,
           AfterAck(c, me1, f1, r, q, index),
           MessageRead(c, me1, f1, q, index, me2, f2, g)
    PROVE  Rounded(c, me2, f2)
<1> USE DEF MessageRead
<1> DEFINE n == Cardinality(dispatched[c])
<1>1. /\ me1 \in ClientRec /\ f1 \in FifoRec
      /\ ClientTyped(me1) /\ FifoTyped(f1)
      /\ BooksOK(c, me1, f1, n)
      /\ SentBy(me1, f1) = SentBy(cl[c], fifo[c])
      /\ me1.phase = "next" /\ cl[c].phase = "next" /\ me1.state = "connected"
      /\ me1.conn = cl[c].conn /\ me1.input_queue = q /\ me1.index = index /\ index \in Nat
      /\ f1.accepted = fifo[c].accepted /\ f1.base = fifo[c].base /\ f1.out = fifo[c].out
      /\ f1.removed = fifo[c].removed + r /\ r \in Nat /\ fifo[c].removed + r <= n
  BY RoundRemoves
<1>2. n \in Nat /\ fifo[c].removed \in Nat
  BY RoundTypes DEF FifoTyped
<1>3. f1.removed >= fifo[c].removed /\ f1.removed <= n
  BY ONLY <1>1, <1>2
<1>4. /\ me2 = [me1 EXCEPT !.input_queue = Append(q, g), !.index = index + 1, !.phase = "file",
                           !.current = g.id]
      /\ f2 = [f1 EXCEPT !.out = @ + 1]
  OBVIOUS
<1>5. g = [c |-> c, id |-> f1.out + 1 - f1.base, msg |-> f1.out + 1, sender |-> -1, slot |-> 0]
  BY <1>1
<1>6. g \in FileSet /\ g.c = c /\ g.msg = f1.out + 1 /\ g.id = f1.out + 1 - f1.base /\ g.id \in Nat
  <2>1. f1.base <= f1.removed /\ f1.removed <= f1.out
    BY <1>1 DEF BooksOK
  <2>2. g \in FileSet
    BY ONLY <1>1, <1>5, <2>1, FileRead, c \in Clients
  <2> QED BY ONLY <1>5, <2>2, FileFields
<1>7. q \in Seq(FileSet) /\ Append(q, g) \in Seq(FileSet) /\ index + 1 \in Nat
  <2>1. q \in Seq(FileSet)
    BY <1>1 DEF ClientTyped
  <2> QED BY ONLY <1>1, <1>6, <2>1
<1>8. me2 \in ClientRec
  BY ONLY <1>1, <1>4, <1>6, <1>7 DEF ClientRec
<1>9. /\ me2.conn = me1.conn /\ me2.state = me1.state /\ me2.input_queue = Append(me1.input_queue, g)
      /\ me2.index = me1.index + 1 /\ me2.ack_id = me1.ack_id /\ me2.phase = "file"
      /\ me2.current = g.id
  BY ONLY <1>1, <1>4 DEF ClientRec
<1>10. /\ f2 \in FifoRec /\ f2.accepted = f1.accepted /\ f2.removed = f1.removed
       /\ f2.base = f1.base /\ f2.out = f1.out + 1
  BY ONLY <1>1, <1>4 DEF FifoRec
<1>11. me1.index >= Len(me1.input_queue) /\ f1.out < f1.accepted
  BY <1>1
<1> HIDE DEF n
<1>12. BooksOK(c, me2, f2, n) /\ SentBy(me2, f2) = SentBy(me1, f1)
  <2>1. FileTaken(c, me1, me2, f1, f2, g)
    BY ONLY <1>1, <1>6, <1>9, <1>10, <1>11 DEF FileTaken
  <2>2. /\ ClientTyped(me1) /\ FifoTyped(f1) /\ BooksOK(c, me1, f1, n)
        /\ me1.state = "connected" /\ me1.phase = "next" /\ n \in Nat /\ g \in FileSet
    BY ONLY <1>1, <1>2, <1>6
  <2> QED BY ONLY <2>1, <2>2, BooksRead
<1>13. SentBy(cl[c], fifo[c]) \in Int
  BY RoundTypes
<1>14. SentBy(me2, f2) = SentBy(cl[c], fifo[c]) + (IF cl[c].phase = "file" THEN 1 ELSE 0)
  BY ONLY <1>1, <1>12, <1>13
<1> QED BY ONLY <1>1, <1>3, <1>8, <1>9, <1>10, <1>12, <1>14 DEF Rounded, n

\* Two ways to write the records after a round.
LEMMA ClientAfter ==
    ASSUME NEW me \in ClientRec, NEW a, NEW q, NEW n, NEW ph, NEW cur
    PROVE  [me EXCEPT !.ack_id = a, !.input_queue = q, !.index = n, !.phase = ph, !.current = cur]
           = [[me EXCEPT !.ack_id = a, !.input_queue = q, !.index = n]
                 EXCEPT !.phase = ph, !.current = cur]
  BY DEF ClientRec

\* The two changes of a round, one after the other, are one.
LEMMA ClientReads ==
    ASSUME NEW me \in ClientRec, NEW a, NEW q, NEW n, NEW q2, NEW n2, NEW cur
    PROVE  [me EXCEPT !.ack_id = a, !.input_queue = q2, !.index = n2, !.phase = "file", !.current = cur]
           = [[me EXCEPT !.ack_id = a, !.input_queue = q, !.index = n]
                 EXCEPT !.input_queue = q2, !.index = n2, !.phase = "file", !.current = cur]
  BY DEF ClientRec

\* The same for a file of the input queue.
LEMMA ClientChooses ==
    ASSUME NEW me \in ClientRec, NEW a, NEW q, NEW n, NEW n2, NEW cur
    PROVE  [me EXCEPT !.ack_id = a, !.input_queue = q, !.index = n2, !.phase = "file", !.current = cur]
           = [[me EXCEPT !.ack_id = a, !.input_queue = q, !.index = n]
                 EXCEPT !.index = n2, !.phase = "file", !.current = cur]
  BY DEF ClientRec

\* The same for the persistent FIFO.
LEMMA FifoAfter ==
    ASSUME NEW f \in FifoRec, NEW r
    PROVE  /\ [f EXCEPT !.removed = @ + r, !.out = @] = [f EXCEPT !.removed = @ + r]
           /\ [f EXCEPT !.removed = @ + r, !.out = @ + 1]
              = [[f EXCEPT !.removed = @ + r] EXCEPT !.out = @ + 1]
  BY DEF FifoRec

\* The choice of a file: one of the input queue, a new one or none.
LEMMA NextFiles ==
    ASSUME NEW c \in Clients, NEW q \in Seq(FileSet), NEW index \in Nat, NEW next,
           next = NextFile(c, q, index), FifoTyped(fifo[c])
    PROVE  \/ next = << >>
           \/ index < Len(q) /\ next = <<q[index + 1]>>
           \/ /\ index >= Len(q) /\ fifo[c].out < fifo[c].accepted
              /\ next = <<[c |-> c, id |-> fifo[c].out + 1 - fifo[c].base, msg |-> fifo[c].out + 1,
                           sender |-> -1, slot |-> 0]>>
<1>1. Len(q) \in Nat
  OBVIOUS
<1>2. CASE index < Len(q)
  <2>1. NextFile(c, q, index) = <<q[index + 1]>>
    BY <1>2, <1>1 DEF NextFile
  <2> QED BY <1>2, <2>1
<1>3. CASE index >= Len(q) /\ Len(q) < ClientQueue /\ fifo[c].out < fifo[c].accepted
  <2>1. ~(index < Len(q))
    BY <1>3, <1>1
  <2>2. NextFile(c, q, index) =
            <<[c |-> c, id |-> IdOf(c, fifo[c].out + 1), msg |-> fifo[c].out + 1,
               sender |-> -1, slot |-> 0]>>
    BY ONLY <1>3, <2>1 DEF NextFile
  <2>3. IdOf(c, fifo[c].out + 1) = fifo[c].out + 1 - fifo[c].base
    BY DEF IdOf, FifoTyped
  <2>4. next = NextFile(c, q, index)
    OBVIOUS
  <2>5. next = <<[c |-> c, id |-> fifo[c].out + 1 - fifo[c].base, msg |-> fifo[c].out + 1,
                  sender |-> -1, slot |-> 0]>>
    BY ONLY <2>2, <2>3, <2>4
  <2> QED BY <1>3, <2>5
<1>4. CASE ~(index < Len(q)) /\ ~(index >= Len(q) /\ Len(q) < ClientQueue
                                     /\ fifo[c].out < fifo[c].accepted)
  <2>1. NextFile(c, q, index) = << >>
    BY ONLY <1>4 DEF NextFile
  <2> QED BY <2>1
<1> QED BY <1>2, <1>3, <1>4

\* A round leaves the books right.
LEMMA RoundBooks ==
    ASSUME TransportInvariant, NEW c \in Clients, Round(c)
    PROVE  /\ Rounded(c, cl'[c], fifo'[c])
           /\ cl' \in [Clients -> ClientRec] /\ fifo' \in [Clients -> FifoRec]
           /\ \A d \in Clients : d # c => cl'[d] = cl[d] /\ fifo'[d] = fifo[d]
<1> DEFINE me == cl[c]
           ack == LastAck(c)
           r == Removable(c, ack)
           q == SubSeq(me.input_queue, r + 1, Len(me.input_queue))
           index == Max({me.index - r, 0})
           next == NextFile(c, q, index)
           fresh == next # << >> /\ index >= Len(q)
           me1 == [me EXCEPT !.ack_id = ack, !.input_queue = q, !.index = index]
           f1 == [fifo[c] EXCEPT !.removed = @ + r]
<1>1. /\ cl \in [Clients -> ClientRec] /\ fifo \in [Clients -> FifoRec]
      /\ me \in ClientRec /\ fifo[c] \in FifoRec
  BY DEF TransportInvariant, TransportTypeOK
<1>2. AfterAck(c, me1, f1, r, q, index)
  BY DEF AfterAck
<1>3. /\ me.state = "connected"
      /\ fifo' = [fifo EXCEPT ![c].removed = @ + r,
                              ![c].out = IF me.phase = "next" /\ fresh THEN @ + 1 ELSE @]
      /\ \/ /\ me.phase = "next"
            /\ cl' = [cl EXCEPT ![c].ack_id = ack,
                                ![c].input_queue = IF fresh THEN q \o next ELSE q,
                                ![c].index = index + Len(next),
                                ![c].current = IF next = << >> THEN 0 ELSE Head(next).id,
                                ![c].phase = IF next = << >> THEN "next" ELSE "file"]
         \/ /\ me.phase = "file"
            /\ cl' = [cl EXCEPT ![c].ack_id = ack, ![c].input_queue = q,
                                ![c].index = index, ![c].phase = "end", ![c].current = 0]
         \/ /\ me.phase = "end"
            /\ cl' = [cl EXCEPT ![c].ack_id = ack, ![c].input_queue = q,
                                ![c].index = index, ![c].phase = "next"]
  BY DEF Round
<1>4. ClientTyped(me1) /\ me1.input_queue = q /\ me1.index = index /\ index \in Nat /\ r \in Nat
  <2> HIDE DEF ack, r, q, index, me1, f1
  <2> QED BY <1>2, <1>3, RoundRemoves
<1>5. q \in Seq(FileSet) /\ Len(q) \in Nat
  BY <1>4 DEF ClientTyped
<1>14. FifoTyped(fifo[c])
  BY <1>3, RoundTypes
<1>6. me.phase = "end" => me.current = 0
  BY <1>3, RoundTypes DEF BooksOK
<1> HIDE DEF ack, r, q, index, next
<1>7. /\ ~(me.phase = "next" /\ fresh) => fifo'[c] = f1
      /\ me.phase = "next" /\ fresh => fifo'[c] = [f1 EXCEPT !.out = @ + 1]
  <2>1. CASE ~(me.phase = "next" /\ fresh)
    <3>1. fifo'[c] = [fifo[c] EXCEPT !.removed = @ + r, !.out = @]
      BY ONLY <1>1, <1>3, <2>1
    <3> QED BY <3>1, <2>1, <1>1, FifoAfter
  <2>2. CASE me.phase = "next" /\ fresh
    <3>1. fifo'[c] = [fifo[c] EXCEPT !.removed = @ + r, !.out = @ + 1]
      BY ONLY <1>1, <1>3, <2>2
    <3> QED BY <3>1, <2>2, <1>1, FifoAfter
  <2> QED BY <2>1, <2>2
<1>8. ASSUME NEW me2, NEW f2, Rounded(c, me2, f2), cl'[c] = me2, fifo'[c] = f2,
             cl' = [cl EXCEPT ![c] = me2], fifo' = [fifo EXCEPT ![c] = f2]
      PROVE  /\ Rounded(c, cl'[c], fifo'[c])
             /\ cl' \in [Clients -> ClientRec] /\ fifo' \in [Clients -> FifoRec]
             /\ \A d \in Clients : d # c => cl'[d] = cl[d] /\ fifo'[d] = fifo[d]
  BY <1>1, <1>8 DEF Rounded
<1>9. cl' = [cl EXCEPT ![c] = cl'[c]] /\ fifo' = [fifo EXCEPT ![c] = fifo'[c]]
  <2>1. fifo' = [fifo EXCEPT ![c] = fifo'[c]]
    BY ONLY <1>1, <1>3
  <2>2. cl' = [cl EXCEPT ![c] = cl'[c]]
    BY ONLY <1>1, <1>3
  <2> QED BY <2>1, <2>2
<1>10. CASE me.phase = "file"
  <2>1. cl'[c] = [me EXCEPT !.ack_id = ack, !.input_queue = q, !.index = index,
                            !.phase = "end", !.current = 0]
    BY ONLY <1>1, <1>3, <1>10
  <2>2. cl'[c] = [me1 EXCEPT !.phase = "end", !.current = 0] /\ fifo'[c] = f1
    BY <2>1, <1>1, <1>7, <1>10, ClientAfter
  <2>3. Rounded(c, cl'[c], fifo'[c])
    BY <2>2, <1>2, <1>3, RoundPlain
  <2> QED BY <2>3, <1>8, <1>9
<1>11. CASE me.phase = "end"
  <2>1. cl'[c] = [me EXCEPT !.ack_id = ack, !.input_queue = q, !.index = index,
                            !.phase = "next", !.current = 0]
    <3>1. cl'[c] = [me EXCEPT !.ack_id = ack, !.input_queue = q, !.index = index,
                              !.phase = "next"]
      BY ONLY <1>1, <1>3, <1>11
    <3> QED BY ONLY <3>1, <1>1, <1>6, <1>11 DEF ClientRec
  <2>2. cl'[c] = [me1 EXCEPT !.phase = "next", !.current = 0] /\ fifo'[c] = f1
    BY <2>1, <1>1, <1>7, <1>11, ClientAfter
  <2>3. Rounded(c, cl'[c], fifo'[c])
    BY <2>2, <1>2, <1>3, RoundPlain
  <2> QED BY <2>3, <1>8, <1>9
<1>12. CASE me.phase = "next"
  <2>1. cl'[c] = [me EXCEPT !.ack_id = ack, !.input_queue = IF fresh THEN q \o next ELSE q,
                            !.index = index + Len(next),
                            !.current = IF next = << >> THEN 0 ELSE Head(next).id,
                            !.phase = IF next = << >> THEN "next" ELSE "file"]
    BY ONLY <1>1, <1>3, <1>12
  <2>2. CASE next = << >>
    <3>1. ~fresh /\ index + Len(next) = index
      BY <2>2, <1>4
    <3>2. cl'[c] = [me EXCEPT !.ack_id = ack, !.input_queue = q, !.index = index,
                              !.phase = "next", !.current = 0]
      BY ONLY <2>1, <2>2, <3>1, <1>1 DEF ClientRec
    <3>3. cl'[c] = [me1 EXCEPT !.phase = "next", !.current = 0] /\ fifo'[c] = f1
      BY <3>1, <3>2, <1>1, <1>7, ClientAfter
    <3>4. Rounded(c, cl'[c], fifo'[c])
      BY <3>3, <1>2, <1>3, RoundPlain
    <3> QED BY <3>4, <1>8, <1>9
  <2>3. CASE index < Len(q) /\ next = <<q[index + 1]>>
    <3>1. /\ ~fresh /\ index + Len(next) = index + 1 /\ next # << >>
          /\ Head(next) = q[index + 1]
      BY <2>3, <1>4, <1>5
    <3>2. cl'[c] = [me EXCEPT !.ack_id = ack, !.input_queue = q, !.index = index + 1,
                              !.phase = "file", !.current = q[index + 1].id]
      BY ONLY <2>1, <3>1, <1>1 DEF ClientRec
    <3>3. /\ cl'[c] = [me1 EXCEPT !.index = index + 1, !.phase = "file",
                                  !.current = q[index + 1].id]
          /\ fifo'[c] = f1
      BY <3>1, <3>2, <1>1, <1>7, ClientChooses
    <3>4. Rounded(c, cl'[c], fifo'[c])
      BY <3>3, <2>3, <1>2, <1>3, <1>12, RoundAgain
    <3> QED BY <3>4, <1>8, <1>9
  <2>4. CASE /\ index >= Len(q) /\ fifo[c].out < fifo[c].accepted
             /\ next = <<[c |-> c, id |-> fifo[c].out + 1 - fifo[c].base, msg |-> fifo[c].out + 1,
                          sender |-> -1, slot |-> 0]>>
    <3> DEFINE g == [c |-> c, id |-> fifo[c].out + 1 - fifo[c].base, msg |-> fifo[c].out + 1,
                     sender |-> -1, slot |-> 0]
    <3>1. next = <<g>>
      BY <2>4
    <3> HIDE DEF g
    <3>2. /\ fresh /\ index + Len(next) = index + 1 /\ next # << >> /\ Head(next) = g
          /\ q \o next = Append(q, g)
      BY <3>1, <2>4, <1>5
    <3>3. cl'[c] = [me EXCEPT !.ack_id = ack, !.input_queue = Append(q, g), !.index = index + 1,
                              !.phase = "file", !.current = g.id]
      BY ONLY <2>1, <3>2, <1>1 DEF ClientRec
    <3>4. /\ cl'[c] = [me1 EXCEPT !.input_queue = Append(q, g), !.index = index + 1,
                                  !.phase = "file", !.current = g.id]
          /\ fifo'[c] = [f1 EXCEPT !.out = @ + 1]
      BY <3>2, <3>3, <1>1, <1>7, <1>12, ClientReads
    <3>5. Rounded(c, cl'[c], fifo'[c])
      <4>1. MessageRead(c, me1, f1, q, index, cl'[c], fifo'[c], g)
        BY ONLY <3>4, <2>4, <1>12 DEF MessageRead, g
      <4> HIDE DEF me1, f1
      <4> QED BY <4>1, <1>2, <1>3, RoundReads
    <3> QED BY <3>5, <1>8, <1>9
  <2> QED BY <2>2, <2>3, <2>4, <1>4, <1>5, <1>14, NextFiles DEF next
<1>13. me.phase \in {"next", "file", "end"}
  BY <1>1 DEF ClientRec
<1> QED BY <1>10, <1>11, <1>12, <1>13

\* A piece that client c sends.
Piece(c, p) ==
    \/ p.kind # "File" /\ cl[c].phase # "file"
    \/ /\ p.kind = "File" /\ cl[c].phase = "file" /\ p.file.c = c
       /\ p.file.msg = SentBy(cl[c], fifo[c]) + 1 /\ p.file.msg = p.file.id + fifo[c].base
       /\ 1 <= p.file.msg /\ p.file.msg <= fifo[c].accepted

\* A connection whose replies were read.
LEMMA EmptiedConn ==
    ASSUME NEW k \in ConnRec, NEW u \in Seq(UpMsg)
    PROVE  /\ [k EXCEPT !.down = << >>, !.up = u] \in ConnRec
           /\ [k EXCEPT !.down = << >>] \in ConnRec
<1>1. << >> \in Seq(DownMsg)
  OBVIOUS
<1> QED BY <1>1 DEF ConnRec

\* A round sends one piece or none.
LEMMA RoundSends ==
    ASSUME TransportInvariant, NEW c \in Clients, Round(c)
    PROVE  \E k \in Conns :
              /\ k = cl[c].conn /\ k # None /\ cl[c].state = "connected"
              /\ net' \in [Conns -> ConnRec]
              /\ \A j \in Conns : j # k => net'[j] = net[j]
              /\ net'[k].client = net[k].client /\ net'[k].server = net[k].server
              /\ net'[k].broken = net[k].broken /\ net'[k].down = << >> /\ ~net[k].broken
              /\ \/ cl[c].phase # "file" /\ net'[k].up = net[k].up
                 \/ \E p \in UpMsg : Piece(c, p) /\ net'[k].up = Append(net[k].up, p)
<1> DEFINE me == cl[c]
           mine == CHOOSE h \in ToSet(me.input_queue) : h.id = me.current
<1>1. /\ me.state = "connected" /\ ~Lost(me.conn)
      /\ \/ /\ me.phase = "next"
            /\ net' = [net EXCEPT ![me.conn].down = << >>]
         \/ /\ me.phase = "file"
            /\ net' = [net EXCEPT ![me.conn].down = << >>,
                                  ![me.conn].up = Append(@, [kind |-> "File", file |-> mine])]
         \/ /\ me.phase = "end"
            /\ net' = [net EXCEPT ![me.conn].down = << >>,
                                  ![me.conn].up = Append(@, [kind |-> "END"])]
  BY DEF Round
<1>2. /\ ClientTyped(me) /\ FifoTyped(fifo[c]) /\ SentBy(me, fifo[c]) \in Int
      /\ Cardinality(dispatched[c]) \in Nat /\ BooksOK(c, me, fifo[c], Cardinality(dispatched[c]))
      /\ me.conn \in Conns /\ me.conn # None
  BY <1>1, RoundTypes
<1>3. PICK k \in Conns : k = me.conn
  BY <1>2
<1>4. net \in [Conns -> ConnRec] /\ net[k] \in ConnRec /\ net[k].up \in Seq(UpMsg)
  <2>1. net \in [Conns -> ConnRec] /\ net[k] \in ConnRec
    BY DEF TransportInvariant, TransportTypeOK
  <2> QED BY <2>1 DEF ConnRec
<1>5. ASSUME NEW u \in Seq(UpMsg), net' = [net EXCEPT ![k].down = << >>, ![k].up = u]
      PROVE  /\ net' \in [Conns -> ConnRec]
             /\ \A j \in Conns : j # k => net'[j] = net[j]
             /\ net'[k].client = net[k].client /\ net'[k].server = net[k].server
             /\ net'[k].broken = net[k].broken /\ net'[k].down = << >> /\ net'[k].up = u
  <2>1. net' = [net EXCEPT ![k] = [net[k] EXCEPT !.down = << >>, !.up = u]]
    BY <1>4, <1>5
  <2>2. [net[k] EXCEPT !.down = << >>, !.up = u] \in ConnRec
    BY <1>4, EmptiedConn
  <2>3. net'[k] = [net[k] EXCEPT !.down = << >>, !.up = u]
    BY <1>4, <2>1
  <2>4. /\ net'[k].client = net[k].client /\ net'[k].server = net[k].server
        /\ net'[k].broken = net[k].broken /\ net'[k].down = << >> /\ net'[k].up = u
    BY <1>4, <2>3 DEF ConnRec
  <2> QED BY <1>4, <2>1, <2>2, <2>4
<1>6. ~net[k].broken
  BY <1>1, <1>3 DEF Lost
<1>7. CASE me.phase = "next"
  <2>1. net' = [net EXCEPT ![k].down = << >>]
    BY <1>1, <1>3, <1>7
  <2>2. [net[k] EXCEPT !.down = << >>] \in ConnRec
    BY <1>4, EmptiedConn
  <2>3. /\ net' = [net EXCEPT ![k] = [net[k] EXCEPT !.down = << >>]]
        /\ net'[k] = [net[k] EXCEPT !.down = << >>]
    BY <1>4, <2>1
  <2>4. /\ net'[k].client = net[k].client /\ net'[k].server = net[k].server
        /\ net'[k].broken = net[k].broken /\ net'[k].down = << >> /\ net'[k].up = net[k].up
    BY <1>4, <2>3 DEF ConnRec
  <2>5. net' \in [Conns -> ConnRec] /\ \A j \in Conns : j # k => net'[j] = net[j]
    BY <1>4, <2>2, <2>3
  <2> QED BY <2>4, <2>5, <1>1, <1>2, <1>3, <1>6, <1>7
<1>8. CASE me.phase = "file"
  <2>1. /\ mine \in FileSet /\ mine.c = c /\ mine.msg = SentBy(me, fifo[c]) + 1
        /\ mine.msg = mine.id + fifo[c].base
        /\ 1 <= mine.msg /\ mine.msg <= fifo[c].accepted
    <3>1. PICK g \in ToSet(me.input_queue) :
              /\ g = mine
              /\ g \in FileSet /\ g.c = c /\ g.msg = SentBy(me, fifo[c]) + 1
              /\ g.msg = g.id + fifo[c].base
              /\ 1 <= g.msg /\ g.msg <= fifo[c].accepted
      <4> HIDE DEF me
      <4> QED BY ONLY <1>1, <1>2, <1>8, FileInHand
    <3> QED BY ONLY <3>1
  <2>2. PICK p \in UpMsg : p = [kind |-> "File", file |-> mine]
    BY <2>1 DEF UpMsg
  <2>3. p.kind = "File" /\ p.file = mine
    BY <2>2
  <2> HIDE DEF mine
  <2>4. Piece(c, p)
    BY <2>1, <2>3, <1>8 DEF Piece
  <2>5. Append(net[k].up, p) \in Seq(UpMsg)
    BY <1>4
  <2>6. net' = [net EXCEPT ![k].down = << >>, ![k].up = Append(net[k].up, p)]
    <3>1. net' = [net EXCEPT ![k].down = << >>,
                             ![k].up = Append(@, [kind |-> "File", file |-> mine])]
      BY ONLY <1>1, <1>3, <1>8
    <3> QED BY ONLY <3>1, <2>2, <1>4
  <2> QED BY <2>4, <2>5, <2>6, <1>1, <1>2, <1>3, <1>5, <1>6
<1>9. CASE me.phase = "end"
  <2>1. PICK p \in UpMsg : p = [kind |-> "END"]
    BY DEF UpMsg
  <2>2. Piece(c, p)
    BY <2>1, <1>9 DEF Piece
  <2>3. Append(net[k].up, p) \in Seq(UpMsg)
    BY <1>4
  <2>4. net' = [net EXCEPT ![k].down = << >>, ![k].up = Append(net[k].up, p)]
    BY <1>1, <1>3, <1>4, <1>9, <2>1
  <2> QED BY <2>2, <2>3, <2>4, <1>1, <1>2, <1>3, <1>5, <1>6
<1> QED BY <1>1, <1>7, <1>8, <1>9

\* What client c sends may be sent up to its slot.
LEMMA PieceFits ==
    ASSUME NEW c, NEW base \in Nat, NEW s \in Int, NEW n \in Nat, NEW x, NEW k, NEW oq, NEW m,
           NEW books, NEW disp, NEW f \in FileSet, k.up \in Seq(UpMsg), x.ack_file \in Nat,
           oq \in Seq(FileSet), x.state = "end" => x.file \in FileSet,
           m.at = "ack" => m.file \in FileSet,
           ConnectedLinkOK(c, base, s, n, x, k, oq, m), ~k.broken, n = Cardinality(disp[c]),
           f.c = c, f.msg = s + 1, f.msg = f.id + base, 1 <= f.msg, f.msg <= books[c].accepted
    PROVE  SlotSends(x, k.up, books, disp, oq, m, f)
<1>1. f.id \in Nat /\ f.msg \in Nat /\ f.msg - 1 = s
  BY FileFields
<1>2. \A g \in FileSet : Mine(g, c, base, s) => g.id < f.id
  <2>1. ASSUME NEW g \in FileSet, Mine(g, c, base, s) PROVE g.id < f.id
    <3>1. g.id \in Nat /\ g.msg \in Nat /\ g.msg = g.id + base /\ g.msg <= s
      BY <2>1, FileFields DEF Mine
    <3>2. f.msg = s + 1 /\ f.msg = f.id + base
      OBVIOUS
    <3> QED BY ONLY <1>1, <3>1, <3>2, base \in Nat, s \in Int
  <2> QED BY <2>1
<1>3. Counted(f, books)
  BY DEF Counted
<1>4. /\ x.state # "init"
      /\ x.ack_file + base <= s
      /\ \A e \in 1 .. Len(oq) : oq[e].sender = x.cx_id => Mine(oq[e], c, base, s)
      /\ x.state = "end" => Mine(x.file, c, base, s)
      /\ \A a \in 1 .. Len(k.up) : k.up[a].kind = "File" => Mine(k.up[a].file, c, base, s)
      /\ m.at = "ack" /\ m.file.sender = x.cx_id => Mine(m.file, c, base, s)
      /\ s <= n \/ OnItsWay(c, s, x, k.up, oq)
  BY DEF ConnectedLinkOK
<1>5. f.id > x.ack_file
  BY <1>1, <1>4
<1>6. /\ \A a \in 1 .. Len(k.up) : k.up[a].kind = "File" => k.up[a].file.id < f.id
      /\ x.state = "end" => f.id > x.file.id
      /\ \A e \in 1 .. Len(oq) : oq[e].sender = x.cx_id => f.id > oq[e].id
      /\ m.at = "ack" /\ m.file.sender = x.cx_id => f.id > m.file.id
  <2>1. \A a \in 1 .. Len(k.up) : k.up[a].kind = "File" => k.up[a].file.id < f.id
    BY <1>2, <1>4, UpFacts
  <2>2. x.state = "end" => f.id > x.file.id
    <3>1. ASSUME x.state = "end" PROVE x.file.id < f.id
      BY <3>1, <1>2, <1>4
    <3>2. x.state = "end" => x.file.id \in Nat
      BY FileFields
    <3> QED BY <3>1, <3>2, <1>1
  <2>3. \A e \in 1 .. Len(oq) : oq[e].sender = x.cx_id => f.id > oq[e].id
    <3>1. \A e \in 1 .. Len(oq) : oq[e] \in FileSet /\ oq[e].id \in Nat
      BY QueueFacts, FileFields
    <3> QED BY <3>1, <1>1, <1>2, <1>4
  <2>4. m.at = "ack" /\ m.file.sender = x.cx_id => f.id > m.file.id
    <3>1. m.at = "ack" => m.file \in FileSet /\ m.file.id \in Nat
      BY FileFields
    <3> QED BY <3>1, <1>1, <1>2, <1>4
  <2> QED BY <2>1, <2>2, <2>3, <2>4
<1>7. \/ Preceded(f, disp, oq) \/ HeldBefore(x, f)
      \/ \E b \in 1 .. Len(k.up) : /\ k.up[b].kind = "File" /\ k.up[b].file.c = f.c
                                   /\ k.up[b].file.msg = f.msg - 1
  <2>1. CASE s <= n
    BY <2>1, <1>1 DEF Preceded
  <2>2. CASE OnItsWay(c, s, x, k.up, oq)
    BY <2>2, <1>1 DEF OnItsWay, Preceded, HeldBefore
  <2> QED BY <2>1, <2>2, <1>4
<1> QED BY <1>3, <1>4, <1>5, <1>6, <1>7 DEF SlotSends

\* The link of client c to its slot i, over the connection k.
LEMMA LinkOfConnected ==
    ASSUME TransportInvariant, NEW c \in Clients, NEW i \in Slots, cl[c].state = "connected",
           cx[i].socket # None, cl[c].conn = cx[i].socket
    PROVE  /\ ConnectedLinkOK(c, fifo[c].base, SentBy(cl[c], fifo[c]), Cardinality(dispatched[c]),
                              cx[i], net[cx[i].socket], srv.output_queue, main)
           /\ cx[i].ack_file \in Nat /\ srv.output_queue \in Seq(FileSet)
           /\ net[cx[i].socket].up \in Seq(UpMsg)
           /\ cx[i].state = "end" => cx[i].file \in FileSet
           /\ main.at = "ack" => main.file \in FileSet
           /\ fifo[c].base \in Nat
<1> USE DEF TransportInvariant
<1>1. LinkOK(c, cl[c], fifo[c], Cardinality(dispatched[c]), cx[i], net[cx[i].socket],
             srv.output_queue, main)
  BY DEF LinkParts
<1>2. /\ cx[i].ack_file \in Nat /\ srv.output_queue \in Seq(FileSet)
      /\ net[cx[i].socket].up \in Seq(UpMsg) /\ fifo[c].base \in Nat
  BY Types DEF TypeFacts
<1>3. cx[i].state = "end" => cx[i].file \in FileSet
  BY HeldFiles
<1>4. main.at = "ack" => main.file \in FileSet
  BY DEF ServerParts, ServerOK
<1> QED BY <1>1, <1>2, <1>3, <1>4 DEF LinkOK

\* A round of the client.
LEMMA RoundStep ==
    ASSUME TransportInvariant, NEW c \in Clients, Round(c)
    PROVE  TransportInvariant'
<1> USE DEF TransportInvariant
<1>1. PICK k \in Conns :
         /\ k = cl[c].conn /\ k # None /\ cl[c].state = "connected"
         /\ net' \in [Conns -> ConnRec]
         /\ \A j \in Conns : j # k => net'[j] = net[j]
         /\ net'[k].client = net[k].client /\ net'[k].server = net[k].server
         /\ net'[k].broken = net[k].broken /\ net'[k].down = << >> /\ ~net[k].broken
         /\ \/ cl[c].phase # "file" /\ net'[k].up = net[k].up
            \/ \E p \in UpMsg : Piece(c, p) /\ net'[k].up = Append(net[k].up, p)
  BY RoundSends
<1>2. /\ Rounded(c, cl'[c], fifo'[c])
      /\ cl' \in [Clients -> ClientRec] /\ fifo' \in [Clients -> FifoRec]
      /\ \A d \in Clients : d # c => cl'[d] = cl[d] /\ fifo'[d] = fifo[d]
  BY RoundBooks
<1>3. UNCHANGED <<backlog, srv, cx, main, dispatched, budget>>
  BY DEF Round
<1>4. TransportTypeOK'
  BY <1>1, <1>2, <1>3 DEF TransportTypeOK
<1>5. /\ cl'[c].conn = cl[c].conn /\ cl'[c].state = "connected"
      /\ fifo'[c].base = fifo[c].base /\ fifo'[c].accepted = fifo[c].accepted
      /\ BooksOK(c, cl'[c], fifo'[c], Cardinality(dispatched[c]))
      /\ SentBy(cl'[c], fifo'[c])
         = SentBy(cl[c], fifo[c]) + (IF cl[c].phase = "file" THEN 1 ELSE 0)
  BY <1>2 DEF Rounded
<1>6. /\ \A d \in Clients : cl[d].conn \in Conns \cup {None}
      /\ \A i \in Slots : cx[i].socket \in Conns \cup {None}
      /\ \A e \in 1 .. Len(backlog) : backlog[e] \in Conns
  BY Types DEF TypeFacts
<1>7. /\ \A d \in Clients : d # c => cl[d].conn # k
      /\ \A e \in 1 .. Len(backlog) : backlog[e] # k
  BY <1>1 DEF ConnsOwned, OwnersOK, BacklogParts, BacklogOK
<1>8. MainKept(main, main') /\ \A i : SameSlot(cx[i], cx'[i])
  BY <1>3, Unchanging
<1>9. Growing(fifo, fifo')
  BY <1>2, <1>5, Unchanging DEF Growing
<1>10. ConnsOwned'
  <2>1. \A d \in Clients : cl'[d].conn = cl[d].conn /\ cl'[d].state = cl[d].state
    BY <1>1, <1>2, <1>5
  <2>2. \A j \in Conns : net'[j].client = net[j].client /\ net'[j].server = net[j].server
    BY <1>1
  <2> QED BY <2>1, <2>2, <1>3, KeepOwners
<1>11. ServerParts'
  BY <1>3 DEF ServerParts
<1>12. QueueParts'
  BY <1>3, <1>8, <1>9, KeepQueue
<1>13. BooksParts'
  BY <1>2, <1>3, <1>5 DEF BooksParts
<1>14. ReplyParts'
  <2>1. ASSUME NEW d \in Clients, cl'[d].conn # None
        PROVE  RepliesOK(cl'[d], fifo'[d], Cardinality(dispatched'[d]), net'[cl'[d].conn].down)
    <3>1. CASE d = c
      <4>1. net'[cl'[d].conn].down = << >>
        BY <3>1, <1>1, <1>5
      <4>2. Len(<< >>) <= 1 /\ \A a \in 1 .. Len(<< >>) : FALSE
        OBVIOUS
      <4> QED BY <4>1, <4>2 DEF RepliesOK
    <3>2. CASE d # c
      <4>1. cl'[d] = cl[d] /\ fifo'[d] = fifo[d] /\ cl[d].conn # None
        BY <2>1, <3>2, <1>2
      <4>2. cl[d].conn # k /\ cl[d].conn \in Conns
        BY <3>2, <4>1, <1>6, <1>7
      <4>3. net'[cl[d].conn] = net[cl[d].conn]
        BY ONLY <4>2, <1>1
      <4> QED BY <4>1, <4>3, <1>3 DEF ReplyParts
    <3> QED BY <3>1, <3>2
  <2> QED BY <2>1 DEF ReplyParts
<1>15. BacklogParts'
  <2>1. \A e \in 1 .. Len(backlog) :
            /\ net'[backlog[e]] = net[backlog[e]]
            /\ \A d \in Clients : cl'[d].conn = backlog[e] =>
                   cl'[d].state = cl[d].state /\ cl'[d].conn = cl[d].conn
    BY <1>1, <1>2, <1>5, <1>6, <1>7
  <2> QED BY <2>1, <1>3, KeepBacklog
<1>16. SlotParts'
  <2>1. ASSUME NEW i \in Slots, cx'[i].socket # None
        PROVE  SlotOK(cx'[i], net'[cx'[i].socket].up, fifo', dispatched', srv'.output_queue, main')
    <3>1. cx[i].socket # None /\ cx'[i] = cx[i]
      BY <2>1, <1>3
    <3>2. CASE net'[cx[i].socket].up = net[cx[i].socket].up
      <4>1. SlotOK(cx'[i], net'[cx[i].socket].up, fifo', dispatched', srv'.output_queue, main')
        BY <3>1, <3>2, <1>3, <1>8, <1>9, KeepSlot
      <4> QED BY <3>1, <4>1
    <3>3. CASE net'[cx[i].socket].up # net[cx[i].socket].up
      <4>1. cx[i].socket = k
        BY <3>1, <3>3, <1>1, <1>6
      <4>2. PICK p \in UpMsg : Piece(c, p) /\ net'[k].up = Append(net[k].up, p)
        BY <3>3, <4>1, <1>1
      <4>3. SlotOK(cx[i], net[k].up, fifo, dispatched, srv.output_queue, main)
        BY <3>1, <4>1 DEF SlotParts
      <4>4. /\ ConnectedLinkOK(c, fifo[c].base, SentBy(cl[c], fifo[c]),
                  Cardinality(dispatched[c]), cx[i], net[k], srv.output_queue, main)
            /\ cx[i].ack_file \in Nat /\ srv.output_queue \in Seq(FileSet)
            /\ net[k].up \in Seq(UpMsg)
            /\ cx[i].state = "end" => cx[i].file \in FileSet
            /\ main.at = "ack" => main.file \in FileSet
            /\ fifo[c].base \in Nat
        BY <3>1, <4>1, <1>1, LinkOfConnected
      <4>5. SentBy(cl[c], fifo[c]) \in Int /\ Cardinality(dispatched[c]) \in Nat
        BY <1>1, RoundTypes
      <4>6. p.kind = "File" => SlotSends(cx[i], net[k].up, fifo, dispatched, srv.output_queue,
                                         main, p.file)
        <5>1. ASSUME p.kind = "File"
              PROVE  SlotSends(cx[i], net[k].up, fifo, dispatched, srv.output_queue, main, p.file)
          <6>1. /\ p.file \in FileSet /\ p.file.c = c
                /\ p.file.msg = SentBy(cl[c], fifo[c]) + 1 /\ p.file.msg = p.file.id + fifo[c].base
                /\ 1 <= p.file.msg /\ p.file.msg <= fifo[c].accepted
            BY <4>2, <5>1, FilePieces DEF Piece
          <6> QED BY <6>1, <4>4, <4>5, <1>1, PieceFits
        <5> QED BY <5>1
      <4>7. SlotOK(cx[i], net'[k].up, fifo, dispatched, srv.output_queue, main)
        BY <4>2, <4>3, <4>4, <4>6, SlotReceives
      <4>8. net'[k].up \in Seq(UpMsg)
        BY <4>2, <4>4
      <4>9. SlotOK(cx[i], net'[k].up, fifo', dispatched, srv.output_queue, main')
        BY <4>4, <4>7, <4>8, <1>8, <1>9, Unchanging, SlotGrows
      <4> QED BY <4>9, <4>1, <3>1, <1>3
    <3> QED BY <3>2, <3>3
  <2> QED BY <2>1 DEF SlotParts
<1>17. LinkParts'
  <2>1. ASSUME NEW d \in Clients, NEW i \in Slots, cx'[i].socket # None, cl'[d].conn = cx'[i].socket
        PROVE  LinkOK(d, cl'[d], fifo'[d], Cardinality(dispatched'[d]), cx'[i], net'[cx'[i].socket],
                      srv'.output_queue, main')
    <3>1. CASE d # c
      BY <2>1, <3>1, <1>1, <1>2, <1>3, <1>6, <1>7 DEF LinkParts
    <3>2. CASE d = c
      <4>1. cx[i].socket = k /\ cx[i].socket # None /\ cl[c].conn = cx[i].socket
        BY <2>1, <3>2, <1>1, <1>3, <1>5
      <4> DEFINE base == fifo[c].base
                 s == SentBy(cl[c], fifo[c])
                 s2 == SentBy(cl'[c], fifo'[c])
                 n == Cardinality(dispatched[c])
                 x == cx[i]
                 oq == srv.output_queue
      <4>2. /\ ConnectedLinkOK(c, base, s, n, x, net[k], oq, main)
            /\ x.ack_file \in Nat /\ oq \in Seq(FileSet)
            /\ net[k].up \in Seq(UpMsg)
            /\ x.state = "end" => x.file \in FileSet
            /\ main.at = "ack" => main.file \in FileSet
            /\ base \in Nat
        BY <4>1, <1>1, LinkOfConnected
      <4>3. s \in Int /\ s2 = s + (IF cl[c].phase = "file" THEN 1 ELSE 0)
        BY <1>1, <1>5, RoundTypes
      <4> HIDE DEF base, s, s2, n, x, oq
      <4>4. ConnectedLinkOK(c, base, s2, n, x, net'[k], oq, main)
        <5>1. CASE net'[k].up = net[k].up /\ cl[c].phase # "file"
          <6>1. s2 = s
            BY <4>3, <5>1
          <6> QED BY <4>2, <5>1, <6>1, <1>1 DEF ConnectedLinkOK
        <5>2. CASE \E p \in UpMsg : Piece(c, p) /\ net'[k].up = Append(net[k].up, p)
          <6>1. PICK p \in UpMsg : Piece(c, p) /\ net'[k].up = Append(net[k].up, p)
            BY <5>2
          <6>2. /\ s2 \in Int
                /\ \/ p.kind # "File" /\ s2 = s
                   \/ p.kind = "File" /\ s2 = s + 1 /\ p.file.c = c /\ p.file.msg = s2
                      /\ p.file.msg = p.file.id + base
            BY <6>1, <4>3 DEF Piece, s, base
          <6>3. net'[k].broken = net[k].broken /\ net'[k].up = Append(net[k].up, p)
            BY <6>1, <1>1
          <6> QED BY ONLY <6>1, <6>2, <6>3, <4>2, <4>3, LinkSends
        <5> QED BY <5>1, <5>2, <1>1
      <4>5. cl'[c].state = "connected" /\ fifo'[c].base = base
        BY <1>5 DEF base
      <4>6. LinkOK(c, cl'[c], fifo'[c], n, x, net'[k], oq, main)
        BY ONLY <4>4, <4>5 DEF LinkOK, s2
      <4> QED BY <3>2, <4>1, <4>6, <1>3 DEF n, x, oq
    <3> QED BY <3>1, <3>2
  <2> QED BY <2>1 DEF LinkParts
<1> QED BY <1>4, <1>10, <1>11, <1>12, <1>13, <1>14, <1>15, <1>16, <1>17

-----------------------------------------------------------------------------
(***************************************************************************)
(* The steps of the server.                                                *)
(***************************************************************************)

\* The server closes its end of the connection k.
LEMMA HangUp ==
    ASSUME TransportTypeOK, NEW k \in Conns, net' = CloseServerEnd(net, k)
    PROVE  /\ net' \in [Conns -> ConnRec]
           /\ \A j \in Conns : j # k => net'[j] = net[j]
           /\ net[k].client => net'[k].client /\ net'[k].down = net[k].down
<1>1. net \in [Conns -> ConnRec] /\ net[k] \in ConnRec
  BY DEF TransportTypeOK
<1>2. << >> \in Seq(DownMsg) /\ << >> \in Seq(UpMsg)
  OBVIOUS
<1>3. CASE net[k].client
  <2>1. net' = [net EXCEPT ![k].server = FALSE, ![k].up = << >>]
    BY <1>3 DEF CloseServerEnd
  <2> QED BY <1>1, <1>2, <2>1 DEF ConnRec
<1>4. CASE ~net[k].client
  <2>1. net' = [net EXCEPT ![k] = FreeConn]
    BY <1>4 DEF CloseServerEnd
  <2>2. FreeConn \in ConnRec
    BY <1>2 DEF FreeConn, ConnRec
  <2> QED BY <1>1, <1>4, <2>1, <2>2
<1> QED BY <1>3, <1>4

\* The server closes the connection of slot i.
LEMMA CloseStep ==
    ASSUME TransportInvariant, NEW i \in Slots, ConnectionClose(i), cx[i].socket # None,
           srv' = [srv EXCEPT !.pushing = None], srv.running,
           budget' \in [faults : Nat, restarts : Nat],
           UNCHANGED <<fifo, cl, backlog, main, dispatched>>
    PROVE  TransportInvariant'
<1> USE DEF TransportInvariant
<1>1. /\ cl \in [Clients -> ClientRec] /\ cx \in [Slots -> SlotRec] /\ srv \in ServerRec
  BY DEF TransportTypeOK
<1>2. PICK k \in Conns : k = cx[i].socket /\ k # None
  BY Types DEF TypeFacts
<1>3. /\ net' \in [Conns -> ConnRec]
      /\ \A j \in Conns : j # k => net'[j] = net[j]
      /\ net[k].client => net'[k].client /\ net'[k].down = net[k].down
  BY <1>2, HangUp DEF ConnectionClose
<1>4. /\ cx' \in [Slots -> SlotRec]
      /\ cx'[i].socket = None /\ cx'[i].cx_id = -1
      /\ \A j \in Slots : j # i => cx'[j] = cx[j]
  <2>1. cx' = [cx EXCEPT ![i].socket = None, ![i].cx_id = -1, ![i].file = NoFile]
    BY DEF ConnectionClose
  <2>2. cx[i] \in SlotRec /\ NoFile \in AnyFile
    BY <1>1 DEF AnyFile
  <2>3. [cx[i] EXCEPT !.socket = None, !.cx_id = -1, !.file = NoFile] \in SlotRec
    <3>1. None \in Conns \cup {None} /\ -1 \in Int
      OBVIOUS
    <3> QED BY ONLY <3>1, <2>2 DEF SlotRec
  <2>4. cx' = [cx EXCEPT ![i] = [cx[i] EXCEPT !.socket = None, !.cx_id = -1, !.file = NoFile]]
    BY <2>1
  <2>5. cx'[i] = [cx[i] EXCEPT !.socket = None, !.cx_id = -1, !.file = NoFile]
    BY <2>4, <1>1
  <2>6. cx'[i].socket = None /\ cx'[i].cx_id = -1
    BY <2>2, <2>5 DEF SlotRec
  <2> QED BY <2>3, <2>4, <2>6, <1>1
<1>5. /\ srv' \in ServerRec /\ srv'.running /\ srv'.cx_counter = srv.cx_counter
      /\ srv'.output_queue = srv.output_queue /\ srv'.pushing = None
  BY <1>1 DEF ServerRec
<1>6. TransportTypeOK'
  BY <1>3, <1>4, <1>5 DEF TransportTypeOK
<1>7. /\ \A d \in Clients : cl[d].conn \in Conns \cup {None}
      /\ \A j \in Slots : cx[j].socket \in Conns \cup {None}
      /\ \A e \in 1 .. Len(backlog) : backlog[e] \in Conns
  BY Types DEF TypeFacts
<1>8. /\ \A j \in Slots : j # i => cx[j].socket # k
      /\ \A e \in 1 .. Len(backlog) : backlog[e] # k
      /\ \A d \in Clients : cl[d].conn # None => net[cl[d].conn].client
  BY <1>2 DEF ConnsOwned, OwnersOK
<1>9. /\ MainKept(main, main') /\ Growing(fifo, fifo') /\ \A d : SameFifo(fifo[d], fifo'[d])
      /\ \A d : SameClient(cl[d], cl'[d])
      /\ \A j \in Slots : cx'[j].socket # None => SameSlot(cx[j], cx'[j]) /\ j # i
  BY <1>4, Unchanging
<1>10. /\ \A j \in Slots : j # i /\ cx[j].socket # None => net'[cx[j].socket] = net[cx[j].socket]
       /\ \A d \in Clients : cl[d].conn # None =>
              net'[cl[d].conn].client /\ net'[cl[d].conn].down = net[cl[d].conn].down
       /\ \A e \in 1 .. Len(backlog) : net'[backlog[e]] = net[backlog[e]]
  BY <1>3, <1>7, <1>8
<1>11. ConnsOwned'
  <2>1. \A j \in Slots : cx'[j].socket # None => j # i /\ cx'[j] = cx[j]
    BY <1>4
  <2>2. /\ \A d \in Clients : cl[d].conn = None <=> cl[d].state = "not_connected"
        /\ \A d \in Clients : cl[d].conn # None => net'[cl[d].conn].client
        /\ \A d, e \in Clients : cl[d].conn = cl[e].conn /\ cl[d].conn # None => d = e
    BY <1>10 DEF ConnsOwned, OwnersOK
  <2>3. /\ \A j \in Slots : cx'[j].socket # None => net'[cx'[j].socket].server
        /\ \A j, l \in Slots : cx'[j].socket # None /\ cx'[j].socket = cx'[l].socket => j = l
    BY <2>1, <1>10 DEF ConnsOwned, OwnersOK
  <2>4. /\ \A e \in 1 .. Len(backlog) : net'[backlog[e]].server
        /\ \A e \in 1 .. Len(backlog) : \A j \in Slots : cx'[j].socket # backlog[e]
        /\ \A d, e \in 1 .. Len(backlog) : backlog[d] = backlog[e] => d = e
    <3>1. \A e \in 1 .. Len(backlog) : backlog[e] # None
      BY <1>7, NothingIsNone
    <3> QED BY <3>1, <1>4, <1>10 DEF ConnsOwned, OwnersOK
  <2> QED BY <2>2, <2>3, <2>4 DEF ConnsOwned, OwnersOK
<1>12. ServerParts'
  <2>1. \A f : Addressed(f, srv, cx) => Addressed(f, srv', cx')
    <3>1. ASSUME NEW f, Addressed(f, srv, cx) PROVE Addressed(f, srv', cx')
      <4>1. /\ f.slot \in Slots /\ 0 <= f.sender /\ f.sender < srv'.cx_counter
            /\ \A j \in Slots : f.sender = cx[j].cx_id => f.slot = j
        BY <3>1, <1>5 DEF Addressed
      <4>2. f.sender # -1
        BY <4>1
      <4>3. \A j \in Slots : f.sender = cx'[j].cx_id => f.slot = j
        BY <4>1, <4>2, <1>4
      <4> QED BY <4>1, <4>3 DEF Addressed
    <3> QED BY <3>1
  <2>2. /\ \A j \in Slots : cx'[j].cx_id < srv.cx_counter
        /\ \A j \in Slots : cx'[j].socket # None <=> cx'[j].cx_id >= 0
        /\ \A j, l \in Slots : cx'[j].socket # None /\ cx'[j].cx_id = cx'[l].cx_id => j = l
    <3>1. srv.cx_counter \in Nat
      BY Types DEF TypeFacts
    <3>2. \A j \in Slots : j # i => cx'[j].cx_id < srv.cx_counter
      BY <1>4 DEF ServerParts, ServerOK
    <3>3. \A j \in Slots : j # i => (cx'[j].socket # None <=> cx'[j].cx_id >= 0)
      BY <1>4 DEF ServerParts, ServerOK
    <3>4. cx'[i].cx_id < srv.cx_counter /\ ~(cx'[i].cx_id >= 0)
      BY <3>1, <1>4
    <3>5. \A j, l \in Slots : j # i /\ l # i /\ cx'[j].socket # None /\ cx'[j].cx_id = cx'[l].cx_id
              => j = l
      BY <1>4 DEF ServerParts, ServerOK
    <3>6. \A j \in Slots : cx'[j].socket # None => cx'[j].cx_id # cx'[i].cx_id
      BY <3>3, <3>4, <1>4
    <3> QED BY <3>2, <3>3, <3>4, <3>5, <3>6, <1>4
  <2>3. \A j \in Slots : cx'[j].socket # None /\ cx'[j].state = "end" =>
           cx'[j].file \in FileSet /\ cx'[j].file.sender = cx'[j].cx_id /\ cx'[j].file.slot = j
    BY <1>4 DEF ServerParts, ServerOK
  <2>4. /\ \A e \in 1 .. Len(srv.output_queue) : Addressed(srv.output_queue[e], srv', cx')
        /\ main.at # "get" => main.file \in FileSet /\ Addressed(main.file, srv', cx')
    BY <2>1 DEF ServerParts, ServerOK
  <2> QED BY <2>2, <2>3, <2>4, <1>5 DEF ServerParts, ServerOK
<1>13. QueueParts'
  BY <1>5 DEF QueueParts
<1>14. SlotParts'
  <2>1. \A j \in Slots : cx'[j].socket # None =>
            SameSlot(cx[j], cx'[j]) /\ net'[cx[j].socket].up = net[cx[j].socket].up
    BY <1>4, <1>9, <1>10
  <2> QED BY <2>1, <1>5, <1>9, KeepSlots
<1>15. BooksParts'
  BY DEF BooksParts
<1>16. ReplyParts'
  BY <1>10 DEF ReplyParts
<1>17. BacklogParts'
  BY <1>10, KeepBacklog
<1>18. LinkParts'
  <2>0. LinkParts /\ QueueParts /\ TransportTypeOK
    OBVIOUS
  <2>1. \A me, n : SameLine(me, n, n)
    BY Unchanging
  <2>2. \A j \in Slots : j # i => cx'[j] = cx[j]
    BY <1>4
  <2> QED BY <2>1, <2>2, <1>5, <1>9, <1>10, KeepLinks
<1> QED BY <1>6, <1>11, <1>12, <1>13, <1>14, <1>15, <1>16, <1>17, <1>18

\* It does at the end of file,
LEMMA ReadEndStep ==
    ASSUME TransportInvariant, NEW i \in Slots, ReadEnd(i)
    PROVE  TransportInvariant'
<1>1. /\ srv.running /\ srv.pushing = None /\ cx[i].socket # None /\ ConnectionClose(i)
      /\ UNCHANGED <<fifo, cl, backlog, srv, main, dispatched, budget>>
  BY DEF ReadEnd, Free
<1>2. srv \in ServerRec /\ budget \in [faults : Nat, restarts : Nat]
  BY DEF TransportInvariant, TransportTypeOK
<1>3. srv' = [srv EXCEPT !.pushing = None]
  BY <1>1, <1>2 DEF ServerRec
<1> QED BY <1>1, <1>2, <1>3, CloseStep

\* and when there was no room for the file.
LEMMA PushTimeoutStep ==
    ASSUME TransportInvariant, PushTimeout
    PROVE  TransportInvariant'
<1>1. /\ srv.running /\ srv.pushing # None /\ ConnectionClose(srv.pushing) /\ Fault
      /\ srv' = [srv EXCEPT !.pushing = None]
      /\ UNCHANGED <<fifo, cl, backlog, main, dispatched>>
  BY DEF PushTimeout
<1>2. TransportTypeOK
  BY DEF TransportInvariant
<1>3. srv.pushing \in Slots
  BY <1>1, <1>2, Types DEF TypeFacts
<1>4. cx[srv.pushing].socket # None
  BY <1>1 DEF TransportInvariant, ServerParts, ServerOK
<1>5. budget' \in [faults : Nat, restarts : Nat]
  BY <1>1, <1>2, FaultCounted
<1> QED BY <1>1, <1>3, <1>4, <1>5, CloseStep

\* The backlog without its first connection.
LEMMA BacklogTail ==
    ASSUME NEW b \in Seq(Conns), b # << >>
    PROVE  /\ Head(b) \in Conns /\ Head(b) = b[1] /\ Tail(b) \in Seq(Conns)
           /\ 1 \in 1 .. Len(b)
           /\ \A e \in 1 .. Len(Tail(b)) : Tail(b)[e] = b[e + 1] /\ e + 1 \in 1 .. Len(b)
                                           /\ e + 1 # 1
<1>1. Len(b) \in Nat /\ Len(b) > 0
  OBVIOUS
<1>2. Len(Tail(b)) = Len(b) - 1 /\ Tail(b) \in Seq(Conns)
  OBVIOUS
<1>3. \A e \in 1 .. Len(Tail(b)) : e + 1 \in 1 .. Len(b) /\ e + 1 # 1
  BY <1>1, <1>2
<1>4. \A e \in 1 .. Len(Tail(b)) : Tail(b)[e] = b[e + 1]
  BY <1>1, <1>2
<1> QED BY <1>1, <1>2, <1>3, <1>4

\* There is no slot left: the connection is closed at once.
LEMMA RefuseStep ==
    ASSUME TransportInvariant, backlog # << >>, backlog' = Tail(backlog),
           net' = CloseServerEnd(net, Head(backlog)),
           UNCHANGED <<fifo, cl, srv, cx, main, dispatched, budget>>
    PROVE  TransportInvariant'
<1> USE DEF TransportInvariant
<1>1. PICK k \in Conns : k = Head(backlog)
  BY BacklogTail DEF TransportTypeOK
<1>2. /\ k = backlog[1] /\ 1 \in 1 .. Len(backlog) /\ backlog' \in Seq(Conns)
      /\ \A e \in 1 .. Len(backlog') : backlog'[e] = backlog[e + 1] /\ e + 1 \in 1 .. Len(backlog)
                                       /\ e + 1 # 1
  BY <1>1, BacklogTail DEF TransportTypeOK
<1>3. /\ net' \in [Conns -> ConnRec]
      /\ \A j \in Conns : j # k => net'[j] = net[j]
      /\ net[k].client => net'[k].client /\ net'[k].down = net[k].down
  BY <1>1, HangUp
<1>4. TransportTypeOK'
  BY <1>2, <1>3 DEF TransportTypeOK
<1>5. /\ \A d \in Clients : cl[d].conn \in Conns \cup {None}
      /\ \A j \in Slots : cx[j].socket \in Conns \cup {None}
      /\ \A e \in 1 .. Len(backlog) : backlog[e] \in Conns
  BY Types DEF TypeFacts
<1>6. /\ \A j \in Slots : cx[j].socket # k
      /\ \A e \in 1 .. Len(backlog) : e # 1 => backlog[e] # k
      /\ \A d \in Clients : cl[d].conn # None => net[cl[d].conn].client
  BY <1>2 DEF ConnsOwned, OwnersOK
<1>7. /\ \A j \in Slots : cx[j].socket # None => net'[cx[j].socket] = net[cx[j].socket]
      /\ \A d \in Clients : cl[d].conn # None =>
             net'[cl[d].conn].client /\ net'[cl[d].conn].down = net[cl[d].conn].down
      /\ \A e \in 1 .. Len(backlog) : e # 1 => net'[backlog[e]] = net[backlog[e]]
  BY <1>3, <1>5, <1>6
<1>8. /\ MainKept(main, main') /\ Growing(fifo, fifo') /\ \A d : SameFifo(fifo[d], fifo'[d])
      /\ \A d : SameClient(cl[d], cl'[d]) /\ \A j : SameSlot(cx[j], cx'[j])
  BY Unchanging
<1>9. ConnsOwned'
  <2>1. /\ \A d \in Clients : cl[d].conn = None <=> cl[d].state = "not_connected"
        /\ \A d \in Clients : cl[d].conn # None => net'[cl[d].conn].client
        /\ \A d, e \in Clients : cl[d].conn = cl[e].conn /\ cl[d].conn # None => d = e
    BY <1>7 DEF ConnsOwned, OwnersOK
  <2>2. /\ \A j \in Slots : cx[j].socket # None => net'[cx[j].socket].server
        /\ \A j, l \in Slots : cx[j].socket # None /\ cx[j].socket = cx[l].socket => j = l
    BY <1>7 DEF ConnsOwned, OwnersOK
  <2>3. /\ \A e \in 1 .. Len(backlog) : e # 1 => net'[backlog[e]].server
        /\ \A e \in 1 .. Len(backlog) : \A j \in Slots : cx[j].socket # backlog[e]
        /\ \A d, e \in 1 .. Len(backlog) : backlog[d] = backlog[e] => d = e
    BY <1>7 DEF ConnsOwned, OwnersOK
  <2>4. \A d, e \in 1 .. Len(backlog') : d + 1 = e + 1 => d = e
    OBVIOUS
  <2>5. /\ \A e \in 1 .. Len(backlog') : net'[backlog'[e]].server
        /\ \A e \in 1 .. Len(backlog') : \A j \in Slots : cx[j].socket # backlog'[e]
        /\ \A d, e \in 1 .. Len(backlog') : backlog'[d] = backlog'[e] => d = e
    BY <2>3, <2>4, <1>2
  <2> QED BY <2>1, <2>2, <2>5 DEF ConnsOwned, OwnersOK
<1>10. ServerParts' /\ QueueParts' /\ BooksParts'
  BY DEF ServerParts, QueueParts, BooksParts
<1>11. SlotParts'
  BY <1>7, <1>8, KeepSlots
<1>12. ReplyParts'
  BY <1>7 DEF ReplyParts
<1>13. BacklogParts'
  BY <1>2, <1>7 DEF BacklogParts, BacklogOK
<1>14. LinkParts'
  BY <1>7, <1>8, Unchanging, KeepLinks
<1> QED BY <1>4, <1>9, <1>10, <1>11, <1>12, <1>13, <1>14

\* The slot of a connection just accepted.
Opened(k, n) == [Closed EXCEPT !.socket = k, !.cx_id = n]

\* It is one.
LEMMA OpenedSlot ==
    ASSUME NEW k \in Conns, NEW n \in Nat
    PROVE  /\ Opened(k, n) \in SlotRec /\ Opened(k, n).socket = k /\ Opened(k, n).state = "init"
           /\ Opened(k, n).cx_id = n
           /\ Opened(k, n).ack_file = 0 /\ Opened(k, n).non_acknowledged = 0
<1>1. NoFile \in AnyFile
  BY DEF AnyFile
<1>2. Closed \in [socket : Conns \cup {None}, state : {"init", "begin", "end"},
                  file : AnyFile, cx_id : Int, ack_file : Nat, non_acknowledged : Nat]
  BY <1>1 DEF Closed
<1>3. Closed.state = "init" /\ Closed.ack_file = 0 /\ Closed.non_acknowledged = 0
  BY DEF Closed
<1>4. Closed \in SlotRec
  BY <1>2 DEF SlotRec
<1>5. Opened(k, n) = [Closed EXCEPT !.socket = k, !.cx_id = n]
  BY DEF Opened
<1>6. k \in Conns \cup {None} /\ n \in Int
  OBVIOUS
<1>7. Opened(k, n) \in SlotRec
  BY ONLY <1>4, <1>5, <1>6 DEF SlotRec
<1>8. /\ Opened(k, n).socket = k /\ Opened(k, n).cx_id = n
      /\ Opened(k, n).state = Closed.state /\ Opened(k, n).ack_file = Closed.ack_file
      /\ Opened(k, n).non_acknowledged = Closed.non_acknowledged
  BY ONLY <1>4, <1>5 DEF SlotRec
<1> QED BY <1>3, <1>7, <1>8

\* The connection gets the slot i and a number that was never used.
LEMMA AdmitStep ==
    ASSUME TransportInvariant, backlog # << >>, backlog' = Tail(backlog), NEW i \in Slots,
           srv.running, cx[i].socket = None,
           cx' = [cx EXCEPT ![i] = [Closed EXCEPT !.socket = Head(backlog), !.cx_id = srv.cx_counter]],
           srv' = [srv EXCEPT !.cx_counter = @ + 1],
           UNCHANGED <<fifo, cl, net, main, dispatched, budget>>
    PROVE  TransportInvariant'
<1> USE DEF TransportInvariant
<1>1. PICK k \in Conns : k = Head(backlog)
  BY BacklogTail DEF TransportTypeOK
<1>2. /\ k = backlog[1] /\ 1 \in 1 .. Len(backlog) /\ backlog' \in Seq(Conns)
      /\ \A e \in 1 .. Len(backlog') : backlog'[e] = backlog[e + 1] /\ e + 1 \in 1 .. Len(backlog)
                                       /\ e + 1 # 1
  BY <1>1, BacklogTail DEF TransportTypeOK
<1>3. cx \in [Slots -> SlotRec] /\ srv \in ServerRec /\ srv.cx_counter \in Nat
  BY Types DEF TransportTypeOK, TypeFacts
<1>4. /\ srv' \in ServerRec /\ srv'.running /\ srv'.cx_counter = srv.cx_counter + 1
      /\ srv'.output_queue = srv.output_queue /\ srv'.pushing = srv.pushing
  BY <1>3 DEF ServerRec
<1>5. PICK x \in SlotRec :
         /\ cx' = [cx EXCEPT ![i] = x]
         /\ x.socket = k /\ x.state = "init" /\ x.cx_id = srv.cx_counter
         /\ x.ack_file = 0 /\ x.non_acknowledged = 0
  <2>1. cx' = [cx EXCEPT ![i] = Opened(k, srv.cx_counter)]
    BY <1>1 DEF Opened
  <2>2. k \in Conns /\ srv.cx_counter \in Nat
    BY <1>1, <1>3
  <2>3. /\ Opened(k, srv.cx_counter) \in SlotRec
        /\ Opened(k, srv.cx_counter).socket = k /\ Opened(k, srv.cx_counter).state = "init"
        /\ Opened(k, srv.cx_counter).cx_id = srv.cx_counter
        /\ Opened(k, srv.cx_counter).ack_file = 0
        /\ Opened(k, srv.cx_counter).non_acknowledged = 0
    BY ONLY <2>2, OpenedSlot
  <2> QED BY ONLY <2>1, <2>3
<1>6. /\ cx' \in [Slots -> SlotRec] /\ cx'[i] = x
      /\ \A j \in Slots : j # i => cx'[j] = cx[j]
  BY <1>3, <1>5
<1>7. TransportTypeOK'
  BY <1>2, <1>4, <1>6 DEF TransportTypeOK
<1>8. /\ \A d \in Clients : cl[d].conn \in Conns \cup {None}
      /\ \A j \in Slots : cx[j].socket \in Conns \cup {None}
      /\ \A e \in 1 .. Len(backlog) : backlog[e] \in Conns
      /\ k # None
  BY Types, NothingIsNone DEF TypeFacts
<1>9. /\ \A j \in Slots : cx[j].socket # k
      /\ \A e \in 1 .. Len(backlog) : e # 1 => backlog[e] # k
      /\ net[k].server
      /\ NoFiles(net[k].up)
      /\ \A d \in Clients : cl[d].conn = k => cl[d].state = "open" /\ net[k].down = << >>
  BY <1>2 DEF ConnsOwned, OwnersOK, BacklogParts, BacklogOK
<1>10. /\ \A j \in Slots : cx[j].cx_id < srv.cx_counter
       /\ \A e \in 1 .. Len(srv.output_queue) : srv.output_queue[e].sender < srv.cx_counter
       /\ main.at # "get" => main.file.sender < srv.cx_counter
  BY DEF ServerParts, ServerOK, Addressed
<1>11. /\ MainKept(main, main') /\ Growing(fifo, fifo') /\ \A d : SameFifo(fifo[d], fifo'[d])
       /\ \A d : SameClient(cl[d], cl'[d])
       /\ \A j \in Slots : j # i => SameSlot(cx[j], cx'[j])
  BY <1>6, Unchanging
<1>12. ConnsOwned'
  <2>1. /\ \A d \in Clients : cl[d].conn = None <=> cl[d].state = "not_connected"
        /\ \A d \in Clients : cl[d].conn # None => net[cl[d].conn].client
        /\ \A d, e \in Clients : cl[d].conn = cl[e].conn /\ cl[d].conn # None => d = e
    BY DEF ConnsOwned, OwnersOK
  <2>2. /\ \A j \in Slots : cx'[j].socket # None => net[cx'[j].socket].server
        /\ \A j, l \in Slots : cx'[j].socket # None /\ cx'[j].socket = cx'[l].socket => j = l
    BY <1>5, <1>6, <1>9 DEF ConnsOwned, OwnersOK
  <2>3. /\ \A e \in 1 .. Len(backlog) : net[backlog[e]].server
        /\ \A e \in 1 .. Len(backlog) : \A j \in Slots : cx[j].socket # backlog[e]
        /\ \A d, e \in 1 .. Len(backlog) : backlog[d] = backlog[e] => d = e
    BY DEF ConnsOwned, OwnersOK
  <2>4. \A e \in 1 .. Len(backlog) : e # 1 => \A j \in Slots : cx'[j].socket # backlog[e]
    BY <2>3, <1>5, <1>6, <1>9
  <2>5. \A d, e \in 1 .. Len(backlog') : d + 1 = e + 1 => d = e
    OBVIOUS
  <2>6. /\ \A e \in 1 .. Len(backlog') : net[backlog'[e]].server
        /\ \A e \in 1 .. Len(backlog') : \A j \in Slots : cx'[j].socket # backlog'[e]
        /\ \A d, e \in 1 .. Len(backlog') : backlog'[d] = backlog'[e] => d = e
    BY <2>3, <2>4, <2>5, <1>2
  <2> QED BY <2>1, <2>2, <2>6 DEF ConnsOwned, OwnersOK
<1>13. ServerParts'
  <2>1. ASSUME NEW f \in FileSet, Addressed(f, srv, cx) PROVE Addressed(f, srv', cx')
    <3>1. /\ f.slot \in Slots /\ 0 <= f.sender /\ f.sender < srv.cx_counter
          /\ \A j \in Slots : f.sender = cx[j].cx_id => f.slot = j
      BY <2>1 DEF Addressed
    <3>2. f.sender < srv.cx_counter + 1 /\ f.sender # srv.cx_counter
      <4>1. 0 <= f.sender /\ f.sender < srv.cx_counter => f.sender < srv.cx_counter + 1
        BY <1>3, FileFields
      <4>2. f.sender # srv.cx_counter
        BY <3>1, <1>3, FileFields
      <4> QED BY <3>1, <4>1, <4>2
    <3>3. \A j \in Slots : f.sender = cx'[j].cx_id => f.slot = j
      BY <3>1, <3>2, <1>5, <1>6
    <3> QED BY <3>1, <3>2, <3>3, <1>4 DEF Addressed
  <2>2. \A j \in Slots : cx[j].cx_id \in Int
    BY Types DEF TypeFacts
  <2>3. \A j \in Slots : cx'[j].cx_id < srv.cx_counter + 1
    BY <2>2, <1>3, <1>5, <1>6, <1>10
  <2>4. \A j \in Slots : cx'[j].socket # None <=> cx'[j].cx_id >= 0
    <3>1. \A j \in Slots : j # i => (cx'[j].socket # None <=> cx'[j].cx_id >= 0)
      BY <1>6 DEF ServerParts, ServerOK
    <3>2. cx'[i].socket # None /\ cx'[i].cx_id >= 0
      <4>1. cx'[i].socket = k /\ cx'[i].cx_id = srv.cx_counter
        BY ONLY <1>5, <1>6
      <4> QED BY ONLY <4>1, <1>3, <1>8
    <3> QED BY ONLY <3>1, <3>2
  <2>5. \A j \in Slots : j # i => cx'[j].cx_id # srv.cx_counter
    BY <2>2, <1>3, <1>6, <1>10
  <2>6. \A j, l \in Slots : cx'[j].socket # None /\ cx'[j].cx_id = cx'[l].cx_id => j = l
    BY <2>5, <1>5, <1>6 DEF ServerParts, ServerOK
  <2>7. \A j \in Slots : cx'[j].socket # None /\ cx'[j].state = "end" =>
           cx'[j].file \in FileSet /\ cx'[j].file.sender = cx'[j].cx_id /\ cx'[j].file.slot = j
    <3>1. ASSUME NEW j \in Slots, cx'[j].socket # None, cx'[j].state = "end"
          PROVE  cx'[j] = cx[j]
      BY <3>1, <1>5, <1>6
    <3> QED BY <3>1, HeldFiles
  <2>8. srv.pushing # None => cx'[srv.pushing].socket # None /\ cx'[srv.pushing].state = "end"
    <3>1. srv.pushing # None => srv.pushing \in Slots /\ cx[srv.pushing].socket # None
      BY Types DEF TypeFacts, ServerParts, ServerOK
    <3> QED BY <3>1, <1>6 DEF ServerParts, ServerOK
  <2>9. /\ \A e \in 1 .. Len(srv.output_queue) : Addressed(srv.output_queue[e], srv', cx')
        /\ main.at # "get" => main.file \in FileSet /\ Addressed(main.file, srv', cx')
    <3>1. \A e \in 1 .. Len(srv.output_queue) : srv.output_queue[e] \in FileSet
      BY SlotTypes, QueueFacts DEF SlotFacts
    <3> QED BY <3>1, <2>1 DEF ServerParts, ServerOK
  <2>10. ServerOK(srv', cx', main)
    BY ONLY <2>3, <2>4, <2>6, <2>7, <2>8, <2>9, <1>4 DEF ServerOK
  <2> QED BY <2>10 DEF ServerParts
<1>14. QueueParts' /\ BooksParts' /\ ReplyParts'
  BY <1>4 DEF QueueParts, BooksParts, ReplyParts
<1>15. /\ \A e \in 1 .. Len(srv.output_queue) : srv.output_queue[e].sender # x.cx_id
       /\ ~(main.at = "ack" /\ main.file.sender = x.cx_id)
  <2>1. \A e \in 1 .. Len(srv.output_queue) : srv.output_queue[e].sender \in Int
    BY SlotTypes, QueueFacts, FileFields DEF SlotFacts
  <2>2. main.at # "get" => main.file.sender \in Int
    BY FileFields DEF ServerParts, ServerOK
  <2> QED BY <2>1, <2>2, <1>3, <1>5, <1>10
<1>16. SlotParts'
  <2>1. ASSUME NEW j \in Slots, cx'[j].socket # None
        PROVE  SlotOK(cx'[j], net'[cx'[j].socket].up, fifo', dispatched', srv'.output_queue, main')
    <3>1. CASE j = i
      <4>1. net[k].up \in Seq(UpMsg)
        BY <1>1, Types DEF TypeFacts
      <4>2. SlotOK(x, net[k].up, fifo, dispatched, srv.output_queue, main)
        BY <4>1, <1>5, <1>9, <1>15, SlotOpens
      <4> QED BY <3>1, <4>2, <1>4, <1>5, <1>6
    <3>2. CASE j # i
      BY <2>1, <3>2, <1>4, <1>6 DEF SlotParts
    <3> QED BY <3>1, <3>2
  <2> QED BY <2>1 DEF SlotParts
<1>17. BacklogParts'
  BY <1>2 DEF BacklogParts, BacklogOK
<1>18. LinkParts'
  <2>1. ASSUME NEW d \in Clients, NEW j \in Slots, cx'[j].socket # None, cl'[d].conn = cx'[j].socket
        PROVE  LinkOK(d, cl'[d], fifo'[d], Cardinality(dispatched'[d]), cx'[j], net'[cx'[j].socket],
                      srv'.output_queue, main')
    <3>1. CASE j = i
      <4>1. cl[d].conn = k
        BY <2>1, <3>1, <1>5, <1>6
      <4>2. LinkOK(d, cl[d], fifo[d], Cardinality(dispatched[d]), x, net[k], srv.output_queue, main)
        BY <4>1, <1>5, <1>9, <1>15, LinkOpens
      <4> QED BY <3>1, <4>2, <1>4, <1>5, <1>6
    <3>2. CASE j # i
      BY <2>1, <3>2, <1>4, <1>6 DEF LinkParts
    <3> QED BY <3>1, <3>2
  <2> QED BY <2>1 DEF LinkParts
<1> QED BY <1>7, <1>12, <1>13, <1>14, <1>16, <1>17, <1>18

\* The server accepts a connection or refuses it.
LEMMA AcceptStep ==
    ASSUME TransportInvariant, Accept
    PROVE  TransportInvariant'
<1> DEFINE room == {i \in Slots : cx[i].socket = None}
<1>1. /\ srv.running /\ backlog # << >> /\ backlog' = Tail(backlog)
      /\ UNCHANGED <<fifo, cl, main, dispatched, budget>>
      /\ \/ /\ room # {}
            /\ cx' = [cx EXCEPT ![Min(room)] =
                        [Closed EXCEPT !.socket = Head(backlog), !.cx_id = srv.cx_counter]]
            /\ srv' = [srv EXCEPT !.cx_counter = @ + 1]
            /\ UNCHANGED net
         \/ /\ net' = CloseServerEnd(net, Head(backlog))
            /\ UNCHANGED <<cx, srv>>
  BY DEF Accept, Free
<1>2. CASE /\ room # {}
           /\ cx' = [cx EXCEPT ![Min(room)] =
                       [Closed EXCEPT !.socket = Head(backlog), !.cx_id = srv.cx_counter]]
           /\ srv' = [srv EXCEPT !.cx_counter = @ + 1]
           /\ UNCHANGED net
  <2>1. room \in SUBSET Nat
    BY LogTransportAssumption
  <2>2. Min(room) \in room
    BY <2>1, <1>2, LeastOf
  <2>3. PICK i \in Slots : i = Min(room) /\ cx[i].socket = None
    BY <2>2
  <2> HIDE DEF room
  <2> QED BY <1>1, <1>2, <2>3, AdmitStep
<1>3. CASE net' = CloseServerEnd(net, Head(backlog)) /\ UNCHANGED <<cx, srv>>
  BY <1>1, <1>3, RefuseStep
<1> QED BY <1>1, <1>2, <1>3

\* At most a piece that is no file is taken from the connection.
LineSkips(k, k2) ==
    /\ k2.client = k.client /\ k2.server = k.server /\ k2.broken = k.broken /\ k2.down = k.down
    /\ \/ k2.up = k.up
       \/ k.up # << >> /\ Head(k.up).kind # "File" /\ k2.up = Tail(k.up)

\* A slot stays in order when END is read;
LEMMA SkipSlot ==
    ASSUME NEW x, NEW k, NEW k2, NEW books, NEW disp, NEW oq, NEW m, k.up \in Seq(UpMsg),
           SlotOK(x, k.up, books, disp, oq, m), LineSkips(k, k2)
    PROVE  SlotOK(x, k2.up, books, disp, oq, m)
<1>1. CASE k2.up = k.up
  BY <1>1
<1>2. CASE k.up # << >> /\ Head(k.up).kind # "File" /\ k2.up = Tail(k.up)
  BY <1>2, SlotSkips
<1> QED BY <1>1, <1>2 DEF LineSkips

\* so does its link.
LEMMA SkipLink ==
    ASSUME NEW c, NEW me, NEW b, NEW n, NEW x, NEW k, NEW k2, NEW oq, NEW m, k.up \in Seq(UpMsg),
           LinkOK(c, me, b, n, x, k, oq, m), x.state # "init", LineSkips(k, k2)
    PROVE  LinkOK(c, me, b, n, x, k2, oq, m)
<1>1. CASE k2.up = k.up
  <2>1. k2.broken = k.broken /\ k2.down = k.down
    BY DEF LineSkips
  <2> QED BY <1>1, <2>1 DEF LinkOK, OpenLinkOK, ConnectedLinkOK
<1>2. CASE k.up # << >> /\ Head(k.up).kind # "File" /\ k2.up = Tail(k.up)
  <2>1. k2.broken = k.broken
    BY DEF LineSkips
  <2> QED BY <1>2, <2>1, LinkSkips
<1> QED BY <1>1, <1>2 DEF LineSkips

\* What the connection of slot i is, and who is at its ends.
LEMMA LineFacts ==
    ASSUME TransportInvariant, NEW i \in Slots, NEW k \in Conns, cx[i].socket # None,
           k = cx[i].socket
    PROVE  /\ k # None /\ net[k] \in ConnRec /\ net[k].up \in Seq(UpMsg)
           /\ \A j \in Slots : j # i => cx[j].socket # k
           /\ \A e \in 1 .. Len(backlog) : backlog[e] # k
           /\ \A d \in Clients : cl[d].conn \in Conns \cup {None}
           /\ \A j \in Slots : cx[j].socket \in Conns \cup {None}
           /\ \A e \in 1 .. Len(backlog) : backlog[e] \in Conns
           /\ net \in [Conns -> ConnRec] /\ cx \in [Slots -> SlotRec] /\ srv \in ServerRec
<1> USE DEF TransportInvariant
<1>1. /\ \A j \in Slots : j # i => cx[j].socket # k
      /\ \A e \in 1 .. Len(backlog) : backlog[e] # k
  BY DEF ConnsOwned, OwnersOK
<1>2. /\ \A d \in Clients : cl[d].conn \in Conns \cup {None}
      /\ \A j \in Slots : cx[j].socket \in Conns \cup {None}
      /\ \A e \in 1 .. Len(backlog) : backlog[e] \in Conns
      /\ net[k].up \in Seq(UpMsg)
  BY Types DEF TypeFacts
<1>3. net \in [Conns -> ConnRec] /\ cx \in [Slots -> SlotRec] /\ srv \in ServerRec
      /\ net[k] \in ConnRec
  BY DEF TransportTypeOK
<1> QED BY <1>1, <1>2, <1>3

\* The complete file of slot i goes to the output queue.
LEMMA PushStep ==
    ASSUME TransportInvariant, NEW i \in Slots, NEW k \in Conns, k = cx[i].socket,
           cx[i].socket # None, cx[i].state = "end", srv.running, PushFile(i),
           net' \in [Conns -> ConnRec], LineSkips(net[k], net'[k]),
           \A j \in Conns : j # k => net'[j] = net[j],
           UNCHANGED <<fifo, cl, backlog, main, dispatched, budget>>
    PROVE  TransportInvariant'
<1> USE DEF TransportInvariant
<1> DEFINE f == cx[i].file
           oq == srv.output_queue
<1>1. /\ k # None /\ net[k] \in ConnRec /\ net[k].up \in Seq(UpMsg)
      /\ \A j \in Slots : j # i => cx[j].socket # k
      /\ \A e \in 1 .. Len(backlog) : backlog[e] # k
      /\ \A d \in Clients : cl[d].conn \in Conns \cup {None}
      /\ \A j \in Slots : cx[j].socket \in Conns \cup {None}
      /\ \A e \in 1 .. Len(backlog) : backlog[e] \in Conns
      /\ net \in [Conns -> ConnRec] /\ cx \in [Slots -> SlotRec] /\ srv \in ServerRec
  BY LineFacts
<1>2. f \in FileSet /\ f.sender = cx[i].cx_id /\ f.slot = i
  BY HeldFiles
<1>3. oq \in Seq(FileSet)
  BY SlotTypes DEF SlotFacts
<1>4. /\ srv' \in ServerRec /\ srv'.running /\ srv'.cx_counter = srv.cx_counter
      /\ srv'.output_queue = Append(oq, f) /\ srv'.pushing = None
  <2>1. srv' = [srv EXCEPT !.output_queue = Append(@, f), !.pushing = None]
    BY DEF PushFile
  <2>2. Append(oq, f) \in Seq(FileSet)
    BY <1>2, <1>3
  <2> QED BY <2>1, <2>2, <1>1 DEF ServerRec
<1>5. PICK x \in SlotRec :
         /\ cx' = [cx EXCEPT ![i] = x]
         /\ x.socket = k /\ x.state = "begin" /\ x.cx_id = cx[i].cx_id
         /\ x.ack_file = cx[i].ack_file /\ x.non_acknowledged = cx[i].non_acknowledged
  <2>1. cx' = [cx EXCEPT ![i] = [cx[i] EXCEPT !.file = NoFile, !.state = "begin"]]
    BY <1>1 DEF PushFile
  <2>2. cx[i] \in SlotRec /\ NoFile \in AnyFile
    BY <1>1 DEF AnyFile
  <2>3. [cx[i] EXCEPT !.file = NoFile, !.state = "begin"] \in SlotRec
    BY ONLY <2>2 DEF SlotRec
  <2>4. \A x : x = [cx[i] EXCEPT !.file = NoFile, !.state = "begin"] =>
            /\ x.socket = k /\ x.state = "begin" /\ x.cx_id = cx[i].cx_id
            /\ x.ack_file = cx[i].ack_file /\ x.non_acknowledged = cx[i].non_acknowledged
    BY <2>2 DEF SlotRec
  <2> QED BY <2>1, <2>3, <2>4
<1>6. /\ cx' \in [Slots -> SlotRec] /\ cx'[i] = x
      /\ \A j \in Slots : j # i => cx'[j] = cx[j]
      /\ \A j \in Slots : cx'[j].socket = cx[j].socket /\ cx'[j].cx_id = cx[j].cx_id
  BY <1>1, <1>5
<1>7. TransportTypeOK'
  BY <1>4, <1>6 DEF TransportTypeOK
<1>8. /\ \A j \in Conns : net'[j].client = net[j].client /\ net'[j].server = net[j].server
                          /\ net'[j].down = net[j].down
      /\ \A e \in 1 .. Len(backlog) : net'[backlog[e]] = net[backlog[e]]
      /\ \A j \in Slots : j # i /\ cx[j].socket # None => net'[cx[j].socket] = net[cx[j].socket]
  BY <1>1 DEF LineSkips
<1>9. ConnsOwned'
  BY <1>6, <1>8, KeepOwners
<1>10. SlotOK(cx[i], net[k].up, fifo, dispatched, oq, main)
  BY DEF SlotParts
<1>11. ServerParts'
  <2>1. \A g : Addressed(g, srv, cx) => Addressed(g, srv', cx')
    BY <1>4, <1>6 DEF Addressed
  <2>2. Addressed(f, srv', cx')
    <3>1. cx[i].cx_id < srv.cx_counter /\ cx[i].cx_id >= 0
      BY DEF ServerParts, ServerOK
    <3>2. \A j \in Slots : cx[i].cx_id = cx[j].cx_id => i = j
      BY DEF ServerParts, ServerOK
    <3> QED BY <3>1, <3>2, <1>2, <1>4, <1>6 DEF Addressed
  <2>3. \A e \in 1 .. Len(srv'.output_queue) : Addressed(srv'.output_queue[e], srv', cx')
    <3>1. \A e \in 1 .. Len(oq) : Addressed(oq[e], srv', cx')
      BY <2>1 DEF ServerParts, ServerOK
    <3> HIDE DEF f, oq
    <3> QED BY <3>1, <2>2, <1>2, <1>3, <1>4, AppendedQueue
  <2>4. \A j \in Slots : cx'[j].socket # None /\ cx'[j].state = "end" =>
           cx'[j].file \in FileSet /\ cx'[j].file.sender = cx'[j].cx_id /\ cx'[j].file.slot = j
    BY <1>5, <1>6, HeldFiles
  <2>5. main.at # "get" => main.file \in FileSet /\ Addressed(main.file, srv', cx')
    BY <2>1 DEF ServerParts, ServerOK
  <2>6. /\ \A j \in Slots : cx'[j].cx_id < srv.cx_counter
        /\ \A j \in Slots : cx'[j].socket # None <=> cx'[j].cx_id >= 0
        /\ \A j, l \in Slots : cx'[j].socket # None /\ cx'[j].cx_id = cx'[l].cx_id => j = l
    BY <1>6 DEF ServerParts, ServerOK
  <2>7. ServerOK(srv', cx', main)
    BY ONLY <2>3, <2>4, <2>5, <2>6, <1>4 DEF ServerOK
  <2> QED BY <2>7 DEF ServerParts
<1>12. QueueParts'
  <2>1. Counted(f, fifo) /\ Preceded(f, dispatched, oq)
    BY <1>10 DEF SlotOK, ChainOK
  <2>2. \A e \in 1 .. Len(oq) : oq[e].sender = f.sender => oq[e].id < f.id
    <3>1. \A e \in 1 .. Len(oq) : oq[e].sender = f.sender => f.id > oq[e].id
      BY <1>2, <1>10 DEF SlotOK, OrderOK, HeldAbove
    <3>2. \A e \in 1 .. Len(oq) : oq[e].id \in Nat
      BY <1>3, QueueFacts, FileFields
    <3> QED BY <3>1, <3>2, <1>2, FileFields
  <2>3. QueueOK(Append(oq, f), fifo, dispatched, main)
    BY <2>1, <2>2, <1>2, <1>3, QueuePushes DEF QueueParts
  <2> QED BY <2>3, <1>4 DEF QueueParts
<1>13. BooksParts'
  BY DEF BooksParts
<1>14. ReplyParts'
  BY <1>1, <1>8 DEF ReplyParts
<1>15. BacklogParts'
  BY <1>8 DEF BacklogParts, BacklogOK
<1>16. \A j \in Slots : j # i /\ cx[j].socket # None => f.sender # cx[j].cx_id
  BY <1>2 DEF ServerParts, ServerOK
<1>17. SlotParts'
  <2>1. ASSUME NEW j \in Slots, cx'[j].socket # None
        PROVE  SlotOK(cx'[j], net'[cx'[j].socket].up, fifo', dispatched', srv'.output_queue, main')
    <3>1. CASE j = i
      <4>1. SlotOK(cx[i], net'[k].up, fifo, dispatched, oq, main)
        BY <1>1, <1>10, SkipSlot
      <4>2. net'[k].up \in Seq(UpMsg)
        BY DEF ConnRec
      <4>3. SlotOK(x, net'[k].up, fifo, dispatched, Append(oq, f), main)
        BY <4>1, <4>2, <1>2, <1>3, <1>5, SlotPushes
      <4> QED BY <3>1, <4>3, <1>4, <1>5, <1>6
    <3>2. CASE j # i
      <4>1. /\ cx[j].socket # None /\ cx'[j] = cx[j] /\ net'[cx[j].socket] = net[cx[j].socket]
            /\ f.sender # cx[j].cx_id
        BY <2>1, <3>2, <1>6, <1>8, <1>16
      <4>2. /\ SlotOK(cx[j], net[cx[j].socket].up, fifo, dispatched, oq, main)
            /\ net[cx[j].socket].up \in Seq(UpMsg)
        BY <4>1, SlotTypes DEF SlotParts, SlotFacts
      <4>3. SlotOK(cx[j], net[cx[j].socket].up, fifo, dispatched, Append(oq, f), main)
        BY <4>1, <4>2, <1>2, <1>3, SlotWatches
      <4> QED BY <4>1, <4>3, <1>4
    <3> QED BY <3>1, <3>2
  <2> QED BY <2>1 DEF SlotParts
<1>18. LinkParts'
  <2>1. ASSUME NEW d \in Clients, NEW j \in Slots, cx'[j].socket # None, cl'[d].conn = cx'[j].socket
        PROVE  LinkOK(d, cl'[d], fifo'[d], Cardinality(dispatched'[d]), cx'[j], net'[cx'[j].socket],
                      srv'.output_queue, main')
    <3> DEFINE n == Cardinality(dispatched[d])
    <3>0. LinkOK(d, cl[d], fifo[d], n, cx[j], net[cx[j].socket], oq, main)
      BY <2>1, <1>6 DEF LinkParts
    <3> HIDE DEF n
    <3>1. CASE j = i
      <4>1. LinkOK(d, cl[d], fifo[d], n, cx[i], net'[k], oq, main)
        BY <3>0, <3>1, <1>1, SkipLink
      <4>2. LinkOK(d, cl[d], fifo[d], n, x, net'[k], Append(oq, f), main)
        BY <4>1, <1>2, <1>3, <1>5, LinkPushes
      <4> QED BY <3>1, <4>2, <1>4, <1>5, <1>6 DEF n
    <3>2. CASE j # i
      <4>1. /\ cx[j].socket # None /\ cx'[j] = cx[j] /\ net'[cx[j].socket] = net[cx[j].socket]
            /\ f.sender # cx[j].cx_id
        BY <2>1, <3>2, <1>6, <1>8, <1>16
      <4>2. LinkOK(d, cl[d], fifo[d], n, cx[j], net[cx[j].socket], Append(oq, f), main)
        BY <3>0, <4>1, <1>2, <1>3, LinkWatches
      <4> QED BY <4>1, <4>2, <1>4 DEF n
    <3> QED BY <3>1, <3>2
  <2> QED BY <2>1 DEF LinkParts
<1> QED BY <1>7, <1>9, <1>11, <1>12, <1>13, <1>14, <1>15, <1>17, <1>18

\* Once there is room, the file that waits goes to the output queue.
LEMMA PushWaitingStep ==
    ASSUME TransportInvariant, PushWaiting
    PROVE  TransportInvariant'
<1> USE DEF TransportInvariant
<1>1. srv.pushing \in Slots /\ srv.pushing # None /\ srv.running
  <2>1. srv.pushing \in Slots \cup {None}
    BY Types DEF TypeFacts
  <2> QED BY <2>1 DEF PushWaiting
<1>2. cx[srv.pushing].socket # None /\ cx[srv.pushing].state = "end"
  BY <1>1 DEF ServerParts, ServerOK
<1>3. cx[srv.pushing].socket \in Conns
  BY <1>1, <1>2, Types DEF TypeFacts
<1>4. /\ PushFile(srv.pushing)
      /\ UNCHANGED <<fifo, cl, net, backlog, main, dispatched, budget>>
  BY DEF PushWaiting
<1>5. net' \in [Conns -> ConnRec] /\ \A j \in Conns : net'[j] = net[j] /\ LineSkips(net[j], net'[j])
  BY <1>4 DEF TransportTypeOK, LineSkips
<1> QED BY <1>1, <1>2, <1>3, <1>4, <1>5, PushStep

\* The server read a piece from the connection k of slot i, which is x now; if the
\* piece completed a file for which there is no room, it waits.
PieceRead(i, k, x) ==
    /\ cx' = [cx EXCEPT ![i] = x]
    /\ x.socket = k /\ x.cx_id = cx[i].cx_id
    /\ x.state = "end" => x.file \in FileSet /\ x.file.sender = x.cx_id /\ x.file.slot = i
    /\ \/ srv' = srv /\ srv.pushing = None
       \/ srv' = [srv EXCEPT !.pushing = i] /\ x.state = "end"
    /\ net' \in [Conns -> ConnRec] /\ \A j \in Conns : j # k => net'[j] = net[j]
    /\ net'[k].client = net[k].client /\ net'[k].server = net[k].server
    /\ UNCHANGED <<fifo, cl, backlog, main, dispatched, budget>>

\* The piece read leaves the types.
LEMMA ReadTypes ==
    ASSUME TransportTypeOK, NEW i \in Slots, NEW k \in Conns, NEW x \in SlotRec, PieceRead(i, k, x)
    PROVE  /\ TransportTypeOK'
           /\ srv'.output_queue = srv.output_queue /\ srv'.running = srv.running
           /\ srv'.cx_counter = srv.cx_counter
           /\ srv'.pushing # None => srv'.pushing = i /\ x.state = "end"
           /\ cx'[i] = x /\ \A j \in Slots : j # i => cx'[j] = cx[j]
<1>1. srv \in ServerRec /\ cx \in [Slots -> SlotRec]
  BY DEF TransportTypeOK
<1>2. cx' = [cx EXCEPT ![i] = x]
  BY DEF PieceRead
<1>3. cx' \in [Slots -> SlotRec] /\ cx'[i] = x /\ \A j \in Slots : j # i => cx'[j] = cx[j]
  BY <1>1, <1>2
<1>4. /\ srv' \in ServerRec
      /\ srv'.output_queue = srv.output_queue /\ srv'.running = srv.running
      /\ srv'.cx_counter = srv.cx_counter
      /\ srv'.pushing # None => srv'.pushing = i /\ x.state = "end"
  <2>1. CASE srv' = srv /\ srv.pushing = None
    BY <2>1, <1>1
  <2>2. CASE srv' = [srv EXCEPT !.pushing = i] /\ x.state = "end"
    <3>1. srv' \in ServerRec /\ srv'.pushing = i
      BY ONLY <2>2, <1>1, i \in Slots DEF ServerRec
    <3>2. /\ srv'.output_queue = srv.output_queue /\ srv'.running = srv.running
          /\ srv'.cx_counter = srv.cx_counter
      BY ONLY <2>2, <1>1 DEF ServerRec
    <3> QED BY <2>2, <3>1, <3>2
  <2> QED BY <2>1, <2>2 DEF PieceRead
<1>5. net' \in [Conns -> ConnRec] /\ UNCHANGED <<fifo, cl, backlog, main, dispatched, budget>>
  BY DEF PieceRead
<1>6. TransportTypeOK'
  BY <1>3, <1>4, <1>5 DEF TransportTypeOK
<1> QED BY <1>3, <1>4, <1>6

\* What a piece may do to the rest of the invariant is a matter of its slot and of the
\* client at the other end.
LEMMA PieceStep ==
    ASSUME TransportInvariant, NEW i \in Slots, NEW k \in Conns, k = cx[i].socket,
           cx[i].socket # None, srv.running, NEW x \in SlotRec, PieceRead(i, k, x),
           SlotOK(x, net'[k].up, fifo, dispatched, srv.output_queue, main),
           \A d \in Clients : cl[d].conn = k =>
              /\ LinkOK(d, cl[d], fifo[d], Cardinality(dispatched[d]), x, net'[k],
                        srv.output_queue, main)
              /\ RepliesOK(cl[d], fifo[d], Cardinality(dispatched[d]), net'[k].down)
    PROVE  TransportInvariant'
<1> USE DEF TransportInvariant
<1>1. /\ k # None
      /\ \A j \in Slots : j # i => cx[j].socket # k
      /\ \A e \in 1 .. Len(backlog) : backlog[e] # k
      /\ \A d \in Clients : cl[d].conn \in Conns \cup {None}
      /\ \A j \in Slots : cx[j].socket \in Conns \cup {None}
      /\ \A e \in 1 .. Len(backlog) : backlog[e] \in Conns
  BY LineFacts
<1>2. /\ TransportTypeOK'
      /\ srv'.output_queue = srv.output_queue /\ srv'.running = srv.running
      /\ srv'.cx_counter = srv.cx_counter
      /\ srv'.pushing # None => srv'.pushing = i /\ x.state = "end"
      /\ cx'[i] = x /\ \A j \in Slots : j # i => cx'[j] = cx[j]
  BY ReadTypes
<1>3. /\ x.socket = k /\ x.cx_id = cx[i].cx_id
      /\ x.state = "end" => x.file \in FileSet /\ x.file.sender = x.cx_id /\ x.file.slot = i
      /\ \A j \in Conns : j # k => net'[j] = net[j]
      /\ net'[k].client = net[k].client /\ net'[k].server = net[k].server
      /\ UNCHANGED <<fifo, cl, backlog, main, dispatched, budget>>
  BY DEF PieceRead
<1>4. \A j \in Slots : cx'[j].socket = cx[j].socket /\ cx'[j].cx_id = cx[j].cx_id
  BY <1>2, <1>3
<1>5. /\ \A j \in Conns : net'[j].client = net[j].client /\ net'[j].server = net[j].server
      /\ \A e \in 1 .. Len(backlog) : net'[backlog[e]] = net[backlog[e]]
      /\ \A j \in Slots : j # i /\ cx[j].socket # None => net'[cx[j].socket] = net[cx[j].socket]
      /\ \A d \in Clients : cl[d].conn # None /\ cl[d].conn # k => net'[cl[d].conn] = net[cl[d].conn]
  BY <1>1, <1>3
<1>6. ConnsOwned'
  BY <1>3, <1>4, <1>5, KeepOwners
<1>7. ServerParts'
  <2>1. \A g : Addressed(g, srv, cx) => Addressed(g, srv', cx')
    BY <1>2, <1>4 DEF Addressed
  <2>2. \A e \in 1 .. Len(srv'.output_queue) : Addressed(srv'.output_queue[e], srv', cx')
    BY <2>1, <1>2 DEF ServerParts, ServerOK
  <2>3. \A j \in Slots : cx'[j].socket # None /\ cx'[j].state = "end" =>
           cx'[j].file \in FileSet /\ cx'[j].file.sender = cx'[j].cx_id /\ cx'[j].file.slot = j
    BY <1>2, <1>3, HeldFiles
  <2>4. main'.at # "get" => main'.file \in FileSet /\ Addressed(main'.file, srv', cx')
    BY <2>1, <1>3 DEF ServerParts, ServerOK
  <2>5. /\ \A j \in Slots : cx'[j].cx_id < srv'.cx_counter
        /\ \A j \in Slots : cx'[j].socket # None <=> cx'[j].cx_id >= 0
        /\ \A j, l \in Slots : cx'[j].socket # None /\ cx'[j].cx_id = cx'[l].cx_id => j = l
    BY <1>2, <1>4 DEF ServerParts, ServerOK
  <2>6. srv'.pushing # None => cx'[srv'.pushing].socket # None /\ cx'[srv'.pushing].state = "end"
    BY <1>1, <1>2, <1>3
  <2>7. ServerOK(srv', cx', main')
    BY ONLY <2>2, <2>3, <2>4, <2>5, <2>6, <1>2, srv.running DEF ServerOK
  <2> QED BY <2>7 DEF ServerParts
<1>8. QueueParts'
  BY <1>2, <1>3 DEF QueueParts
<1>9. BooksParts'
  BY <1>3 DEF BooksParts
<1>10. ReplyParts'
  <2>1. ASSUME NEW d \in Clients, cl[d].conn # None
        PROVE  RepliesOK(cl[d], fifo[d], Cardinality(dispatched[d]), net'[cl[d].conn].down)
    <3>1. CASE cl[d].conn = k
      BY <3>1
    <3>2. CASE cl[d].conn # k
      BY <2>1, <3>2, <1>5 DEF ReplyParts
    <3> QED BY <3>1, <3>2
  <2> QED BY <2>1, <1>3 DEF ReplyParts
<1>11. BacklogParts'
  BY <1>3, <1>5 DEF BacklogParts, BacklogOK
<1>12. SlotParts'
  <2>1. ASSUME NEW j \in Slots, cx'[j].socket # None
        PROVE  SlotOK(cx'[j], net'[cx'[j].socket].up, fifo', dispatched', srv'.output_queue, main')
    <3>1. CASE j = i
      BY <3>1, <1>2, <1>3
    <3>2. CASE j # i
      <4>1. /\ cx[j].socket # None /\ cx'[j] = cx[j] /\ net'[cx[j].socket] = net[cx[j].socket]
        BY <2>1, <3>2, <1>2, <1>5
      <4> QED BY <4>1, <1>2, <1>3 DEF SlotParts
    <3> QED BY <3>1, <3>2
  <2> QED BY <2>1 DEF SlotParts
<1>13. LinkParts'
  <2>1. ASSUME NEW d \in Clients, NEW j \in Slots, cx'[j].socket # None, cl[d].conn = cx'[j].socket
        PROVE  LinkOK(d, cl'[d], fifo'[d], Cardinality(dispatched'[d]), cx'[j], net'[cx'[j].socket],
                      srv'.output_queue, main')
    <3>1. CASE j = i
      BY <2>1, <3>1, <1>2, <1>3
    <3>2. CASE j # i
      <4>1. /\ cx[j].socket # None /\ cx'[j] = cx[j] /\ net'[cx[j].socket] = net[cx[j].socket]
        BY <2>1, <3>2, <1>2, <1>5
      <4> QED BY <2>1, <4>1, <1>2, <1>3 DEF LinkParts
    <3> QED BY <3>1, <3>2
  <2> QED BY <2>1, <1>3 DEF LinkParts
<1> QED BY <1>2, <1>6, <1>7, <1>8, <1>9, <1>10, <1>11, <1>12, <1>13

\* The connection without the piece read.
LEMMA TakenPiece ==
    ASSUME TransportTypeOK, NEW k \in Conns, net[k].up # << >>, NEW n,
           n = [net EXCEPT ![k].up = Tail(@)]
    PROVE  /\ n \in [Conns -> ConnRec] /\ \A j \in Conns : j # k => n[j] = net[j]
           /\ n[k].client = net[k].client /\ n[k].server = net[k].server
           /\ n[k].broken = net[k].broken /\ n[k].down = net[k].down
           /\ n[k].up = Tail(net[k].up)
<1>1. net \in [Conns -> ConnRec] /\ net[k] \in ConnRec
  BY DEF TransportTypeOK
<1>2. net[k].up \in Seq(UpMsg)
  BY <1>1 DEF ConnRec
<1>3. Tail(net[k].up) \in Seq(UpMsg)
  BY ONLY <1>2, net[k].up # << >>
<1>4. [net[k] EXCEPT !.up = Tail(@)] \in ConnRec
  BY ONLY <1>1, <1>3 DEF ConnRec
<1>5. n[k] = [net[k] EXCEPT !.up = Tail(@)] /\ \A j \in Conns : j # k => n[j] = net[j]
  BY <1>1
<1>6. n \in [Conns -> ConnRec]
  BY <1>1, <1>4
<1> QED BY ONLY <1>1, <1>5, <1>6 DEF ConnRec

\* A file whose data has come.
LEMMA TakeStep ==
    ASSUME TransportInvariant, NEW i \in Slots, NEW k \in Conns, k = cx[i].socket,
           cx[i].socket # None, Free, net[k].up # << >>,
           cx[i].state = "begin", Head(net[k].up).kind = "File",
           cx' = [cx EXCEPT ![i].state = "end",
                     ![i].file = [Head(net[k].up).file EXCEPT !.sender = cx[i].cx_id, !.slot = i]],
           net' = [net EXCEPT ![k].up = Tail(@)],
           UNCHANGED <<fifo, cl, backlog, srv, main, dispatched, budget>>
    PROVE  TransportInvariant'
<1> USE DEF TransportInvariant
<1> DEFINE h == Head(net[k].up).file
           g == [h EXCEPT !.sender = cx[i].cx_id, !.slot = i]
           x == [cx[i] EXCEPT !.state = "end", !.file = g]
<1>1. net[k].up \in Seq(UpMsg) /\ cx[i] \in SlotRec /\ cx \in [Slots -> SlotRec]
  BY LineFacts DEF TransportTypeOK
<1>2. h \in FileSet
  BY <1>1, TailFacts, FilePieces
<1>3. cx[i].cx_id \in Int /\ i \in Nat
  BY <1>1, LogTransportAssumption DEF SlotRec
<1>4. /\ g \in FileSet /\ g.sender = cx[i].cx_id /\ g.slot = i
      /\ g.c = h.c /\ g.id = h.id /\ g.msg = h.msg
  <2> HIDE DEF h
  <2> QED BY ONLY <1>2, <1>3 DEF FileSet
<1>5. /\ x \in SlotRec /\ x.socket = k /\ x.cx_id = cx[i].cx_id /\ x.state = "end" /\ x.file = g
      /\ x.ack_file = cx[i].ack_file
  <2>1. g \in AnyFile
    BY <1>4 DEF AnyFile
  <2> HIDE DEF g
  <2>2. x \in SlotRec
    BY ONLY <1>1, <2>1 DEF SlotRec
  <2> QED BY ONLY <1>1, k = cx[i].socket, <2>2 DEF SlotRec
<1>6. /\ net' \in [Conns -> ConnRec] /\ \A j \in Conns : j # k => net'[j] = net[j]
      /\ net'[k].client = net[k].client /\ net'[k].server = net[k].server
      /\ net'[k].broken = net[k].broken /\ net'[k].down = net[k].down
      /\ net'[k].up = Tail(net[k].up)
  BY TakenPiece
<1>7. cx' = [cx EXCEPT ![i] = x]
  BY <1>1
<1>8. PieceRead(i, k, x)
  <2>1. srv' = srv /\ srv.pushing = None
    BY DEF Free
  <2>2. x.file \in FileSet /\ x.file.sender = x.cx_id /\ x.file.slot = i
    BY ONLY <1>4, <1>5
  <2>3. UNCHANGED <<fifo, cl, backlog, main, dispatched, budget>>
    OBVIOUS
  <2> HIDE DEF x
  <2> QED BY ONLY <2>1, <2>2, <2>3, <1>5, <1>6, <1>7 DEF PieceRead
<1>9. SlotOK(x, net'[k].up, fifo, dispatched, srv.output_queue, main)
  <2>1. SlotOK(cx[i], net[k].up, fifo, dispatched, srv.output_queue, main)
    BY DEF SlotParts
  <2>2. x.file.c = h.c /\ x.file.id = h.id /\ x.file.msg = h.msg
    BY ONLY <1>4, <1>5
  <2> HIDE DEF x
  <2>3. SlotOK(x, Tail(net[k].up), fifo, dispatched, srv.output_queue, main)
    BY ONLY <2>1, <2>2, <1>1, <1>5, net[k].up # << >>, cx[i].state = "begin",
            Head(net[k].up).kind = "File", SlotTakes
  <2> QED BY <2>3, <1>6
<1>10. ASSUME NEW d \in Clients, cl[d].conn = k
       PROVE  /\ LinkOK(d, cl[d], fifo[d], Cardinality(dispatched[d]), x, net'[k],
                        srv.output_queue, main)
              /\ RepliesOK(cl[d], fifo[d], Cardinality(dispatched[d]), net'[k].down)
  <2>1. LinkOK(d, cl[d], fifo[d], Cardinality(dispatched[d]), cx[i], net[k], srv.output_queue, main)
    BY <1>10 DEF LinkParts
  <2>2. x.file.c = h.c /\ x.file.id = h.id /\ x.file.msg = h.msg
    BY ONLY <1>4, <1>5
  <2>3. RepliesOK(cl[d], fifo[d], Cardinality(dispatched[d]), net'[k].down)
    BY <1>6, <1>10, LineFacts DEF ReplyParts
  <2>5. x.state = "end" /\ x.cx_id = cx[i].cx_id /\ x.ack_file = cx[i].ack_file
    BY <1>5
  <2>6. net'[k].up = Tail(net[k].up) /\ net'[k].broken = net[k].broken
    BY <1>6
  <2> HIDE DEF x, g
  <2>4. LinkOK(d, cl[d], fifo[d], Cardinality(dispatched[d]), x, net'[k], srv.output_queue, main)
    BY ONLY <2>1, <2>2, <1>1, <2>5, <2>6, net[k].up # << >>, cx[i].state = "begin",
            Head(net[k].up).kind = "File", LinkTakes
  <2> QED BY <2>3, <2>4
<1> HIDE DEF x
<1>11. srv.running /\ x \in SlotRec
  BY <1>5 DEF Free
<1> HIDE DEF TransportInvariant
<1> QED BY ONLY TransportInvariant, k = cx[i].socket, cx[i].socket # None,
           <1>8, <1>9, <1>10, <1>11, PieceStep

\* END has come and the output queue is full: the server waits.
LEMMA FullStep ==
    ASSUME TransportInvariant, NEW i \in Slots, NEW k \in Conns, k = cx[i].socket,
           cx[i].socket # None, Free, net[k].up # << >>,
           cx[i].state = "end", Head(net[k].up).kind = "END",
           srv' = [srv EXCEPT !.pushing = i],
           net' = [net EXCEPT ![k].up = Tail(@)],
           UNCHANGED <<fifo, cl, backlog, cx, main, dispatched, budget>>
    PROVE  TransportInvariant'
<1> USE DEF TransportInvariant
<1>1. net[k].up \in Seq(UpMsg) /\ cx[i] \in SlotRec /\ cx \in [Slots -> SlotRec]
  BY LineFacts DEF TransportTypeOK
<1>2. /\ net' \in [Conns -> ConnRec] /\ \A j \in Conns : j # k => net'[j] = net[j]
      /\ net'[k].client = net[k].client /\ net'[k].server = net[k].server
      /\ net'[k].broken = net[k].broken /\ net'[k].down = net[k].down
      /\ net'[k].up = Tail(net[k].up)
  BY TakenPiece
<1>3. LineSkips(net[k], net'[k])
  BY <1>2 DEF LineSkips
<1>4. cx' = [cx EXCEPT ![i] = cx[i]]
  BY <1>1
<1>5. PieceRead(i, k, cx[i])
  BY <1>2, <1>4, HeldFiles DEF PieceRead
<1>6. SlotOK(cx[i], net'[k].up, fifo, dispatched, srv.output_queue, main)
  BY <1>1, <1>3, SkipSlot DEF SlotParts
<1>7. ASSUME NEW d \in Clients, cl[d].conn = k
      PROVE  /\ LinkOK(d, cl[d], fifo[d], Cardinality(dispatched[d]), cx[i], net'[k],
                       srv.output_queue, main)
             /\ RepliesOK(cl[d], fifo[d], Cardinality(dispatched[d]), net'[k].down)
  <2>1. LinkOK(d, cl[d], fifo[d], Cardinality(dispatched[d]), cx[i], net[k], srv.output_queue, main)
    BY <1>7 DEF LinkParts
  <2>2. LinkOK(d, cl[d], fifo[d], Cardinality(dispatched[d]), cx[i], net'[k], srv.output_queue, main)
    BY <2>1, <1>1, <1>3, SkipLink
  <2>3. RepliesOK(cl[d], fifo[d], Cardinality(dispatched[d]), net'[k].down)
    BY <1>2, <1>7, LineFacts DEF ReplyParts
  <2> QED BY <2>2, <2>3
<1> QED BY <1>1, <1>5, <1>6, <1>7, PieceStep DEF Free

\* The connection after INI was read.
LEMMA GreetedConn ==
    ASSUME TransportTypeOK, NEW k \in Conns, net[k].up # << >>,
           net' = [[net EXCEPT ![k].up = Tail(@)] EXCEPT
                      ![k].down = IF net[k].client /\ ~net[k].broken
                                  THEN Append(@, [kind |-> "READY"]) ELSE @]
    PROVE  /\ net' \in [Conns -> ConnRec] /\ \A j \in Conns : j # k => net'[j] = net[j]
           /\ net'[k].client = net[k].client /\ net'[k].server = net[k].server
           /\ net'[k].broken = net[k].broken /\ net'[k].up = Tail(net[k].up)
           /\ \/ net'[k].down = net[k].down
              \/ net'[k].down = Append(net[k].down, [kind |-> "READY"])
<1> DEFINE r == [net EXCEPT ![k].up = Tail(@)]
           d == IF net[k].client /\ ~net[k].broken
                THEN Append(r[k].down, [kind |-> "READY"]) ELSE r[k].down
<1>1. /\ r \in [Conns -> ConnRec] /\ \A j \in Conns : j # k => r[j] = net[j]
      /\ r[k].client = net[k].client /\ r[k].server = net[k].server
      /\ r[k].broken = net[k].broken /\ r[k].down = net[k].down
      /\ r[k].up = Tail(net[k].up)
  BY TakenPiece
<1>2. net' = [r EXCEPT ![k] = [r[k] EXCEPT !.down = d]]
  OBVIOUS
<1> HIDE DEF r
<1>3. r[k] \in ConnRec
  BY <1>1
<1>4. r[k].down \in Seq(DownMsg)
  BY <1>3 DEF ConnRec
<1>5. [kind |-> "READY"] \in DownMsg
  BY DEF DownMsg
<1>6. d \in Seq(DownMsg)
  BY ONLY <1>4, <1>5
<1>7. d = r[k].down \/ d = Append(r[k].down, [kind |-> "READY"])
  OBVIOUS
<1> HIDE DEF d
<1>8. [r[k] EXCEPT !.down = d] \in ConnRec
  BY ONLY <1>3, <1>6 DEF ConnRec
<1>9. net'[k] = [r[k] EXCEPT !.down = d] /\ \A j \in Conns : j # k => net'[j] = r[j]
  BY ONLY <1>1, <1>2, k \in Conns
<1>10. net' \in [Conns -> ConnRec]
  BY ONLY <1>1, <1>2, <1>8, k \in Conns
<1>11. /\ net'[k].client = r[k].client /\ net'[k].server = r[k].server
       /\ net'[k].broken = r[k].broken /\ net'[k].up = r[k].up /\ net'[k].down = d
  BY ONLY <1>3, <1>9 DEF ConnRec
<1> QED BY ONLY <1>1, <1>7, <1>9, <1>10, <1>11

\* READY is the only reply then.
LEMMA Greeting ==
    ASSUME NEW down, down = << >>, NEW down2, down2 = down \/ down2 = Append(down, [kind |-> "READY"])
    PROVE  Len(down2) <= 1 /\ \A a \in 1 .. Len(down2) : down2[a].kind = "READY"
<1> DEFINE p == [kind |-> "READY"]
<1>1. p.kind = "READY"
  OBVIOUS
<1> HIDE DEF p
<1>2. CASE down2 = << >>
  BY <1>2
<1>3. CASE down2 = << p >>
  <2>1. Len(down2) = 1 /\ down2[1] = p
    BY <1>3
  <2> QED BY <1>1, <2>1
<1>4. Append(<< >>, p) = << p >>
  OBVIOUS
<1> QED BY <1>2, <1>3, <1>4 DEF p

\* INI has come: the server answers READY.
LEMMA HelloStep ==
    ASSUME TransportInvariant, NEW i \in Slots, NEW k \in Conns, k = cx[i].socket,
           cx[i].socket # None, Free, net[k].up # << >>, cx[i].state = "init",
           cx' = [cx EXCEPT ![i].state = "begin"],
           net' = [[net EXCEPT ![k].up = Tail(@)] EXCEPT
                      ![k].down = IF net[k].client /\ ~net[k].broken
                                  THEN Append(@, [kind |-> "READY"]) ELSE @],
           UNCHANGED <<fifo, cl, backlog, srv, main, dispatched, budget>>
    PROVE  TransportInvariant'
<1> USE DEF TransportInvariant
<1> DEFINE x == [cx[i] EXCEPT !.state = "begin"]
           oq == srv.output_queue
<1>1. /\ net[k].up \in Seq(UpMsg) /\ cx[i] \in SlotRec /\ cx \in [Slots -> SlotRec]
      /\ net[k].down \in Seq(DownMsg)
  BY LineFacts, Types DEF TransportTypeOK, TypeFacts
<1>2. /\ x \in SlotRec /\ x.socket = k /\ x.cx_id = cx[i].cx_id /\ x.state = "begin"
      /\ x.ack_file = cx[i].ack_file /\ x.non_acknowledged = cx[i].non_acknowledged
  BY ONLY <1>1, k = cx[i].socket DEF SlotRec
<1>3. /\ net' \in [Conns -> ConnRec] /\ \A j \in Conns : j # k => net'[j] = net[j]
      /\ net'[k].client = net[k].client /\ net'[k].server = net[k].server
      /\ net'[k].broken = net[k].broken /\ net'[k].up = Tail(net[k].up)
      /\ \/ net'[k].down = net[k].down
         \/ net'[k].down = Append(net[k].down, [kind |-> "READY"])
  BY GreetedConn
<1>4. cx' = [cx EXCEPT ![i] = x]
  BY <1>1
<1>5. PieceRead(i, k, x)
  <2>1. srv' = srv /\ srv.pushing = None
    BY DEF Free
  <2>2. x.state # "end"
    BY <1>2
  <2> HIDE DEF x
  <2> QED BY <2>1, <2>2, <1>2, <1>3, <1>4 DEF PieceRead
<1>6. SlotOK(cx[i], net[k].up, fifo, dispatched, oq, main)
  BY DEF SlotParts
<1>7. NoFiles(net[k].up)
  BY <1>6 DEF SlotOK
<1> HIDE DEF x
<1>8. SlotOK(x, net[k].up, fifo, dispatched, oq, main)
  BY <1>1, <1>2, <1>6, <1>7, SlotBegins
<1>9. Head(net[k].up).kind # "File"
  <2>1. Head(net[k].up) = net[k].up[1] /\ 1 \in 1 .. Len(net[k].up)
    BY ONLY <1>1, net[k].up # << >>, TailFacts
  <2> QED BY <2>1, <1>7 DEF NoFiles
<1>10. SlotOK(x, net'[k].up, fifo, dispatched, oq, main)
  <2>1. SlotOK(x, Tail(net[k].up), fifo, dispatched, oq, main)
    BY ONLY <1>1, <1>8, <1>9, net[k].up # << >>, SlotSkips
  <2> QED BY <2>1, <1>3
<1>11. ASSUME NEW d \in Clients, cl[d].conn = k
       PROVE  /\ LinkOK(d, cl[d], fifo[d], Cardinality(dispatched[d]), x, net'[k], oq, main)
              /\ RepliesOK(cl[d], fifo[d], Cardinality(dispatched[d]), net'[k].down)
  <2>1. LinkOK(d, cl[d], fifo[d], Cardinality(dispatched[d]), cx[i], net[k], oq, main)
    BY <1>11 DEF LinkParts
  <2>2. LinkOK(d, cl[d], fifo[d], Cardinality(dispatched[d]), x, net'[k], oq, main)
    BY ONLY <2>1, <1>1, <1>2, <1>3, net[k].up # << >>, cx[i].state = "init", LinkReadsHello
  <2>3. cl[d].state # "connected"
    BY <2>1 DEF LinkOK, ConnectedLinkOK
  <2>4. cl[d].state = "open" => net[k].down = << >>
    BY <2>1 DEF LinkOK, OpenLinkOK
  <2>6. cl[d].state = "open" =>
           Len(net'[k].down) <= 1 /\ \A a \in 1 .. Len(net'[k].down) : net'[k].down[a].kind = "READY"
    BY ONLY <2>4, <1>3, Greeting
  <2>7. RepliesOK(cl[d], fifo[d], Cardinality(dispatched[d]), net'[k].down)
    BY <2>3, <2>6 DEF RepliesOK
  <2> QED BY <2>2, <2>7
<1> HIDE DEF TransportInvariant
<1>12. srv.running /\ x \in SlotRec
  BY <1>2 DEF Free
<1> QED BY ONLY TransportInvariant, k = cx[i].socket, cx[i].socket # None,
           <1>5, <1>10, <1>11, <1>12, PieceStep

\* The server reads a piece.
LEMMA ReadStep ==
    ASSUME TransportInvariant, NEW i \in Slots, Read(i)
    PROVE  TransportInvariant'
<1>1. PICK k \in Conns : k = cx[i].socket
  BY Types DEF TransportInvariant, TypeFacts, Read
<1>2. cx[i].socket # None /\ Free /\ net[k].up # << >>
      /\ UNCHANGED <<fifo, cl, backlog, main, dispatched, budget>>
  BY <1>1 DEF Read
<1> DEFINE rest == [net EXCEPT ![k].up = Tail(@)]
<1>3. CASE /\ cx[i].state = "init"
           /\ net' = [rest EXCEPT ![k].down = IF net[k].client /\ ~net[k].broken
                                              THEN Append(@, [kind |-> "READY"]) ELSE @]
           /\ cx' = [cx EXCEPT ![i].state = "begin"]
           /\ UNCHANGED srv
  BY <1>1, <1>2, <1>3, HelloStep
<1>4. CASE /\ cx[i].state = "begin" /\ Head(net[k].up).kind = "File"
           /\ cx' = [cx EXCEPT ![i].state = "end",
                       ![i].file = [Head(net[k].up).file EXCEPT !.sender = cx[i].cx_id, !.slot = i]]
           /\ net' = rest
           /\ UNCHANGED srv
  BY <1>1, <1>2, <1>4, TakeStep
<1>5. CASE /\ cx[i].state = "end" /\ Head(net[k].up).kind = "END"
           /\ PushFile(i) /\ net' = rest
  <2>1. /\ net' \in [Conns -> ConnRec] /\ \A j \in Conns : j # k => net'[j] = net[j]
        /\ net'[k].client = net[k].client /\ net'[k].server = net[k].server
        /\ net'[k].broken = net[k].broken /\ net'[k].down = net[k].down
        /\ net'[k].up = Tail(net[k].up)
    BY <1>2, <1>5, TakenPiece DEF TransportInvariant
  <2>2. LineSkips(net[k], net'[k])
    BY <1>2, <1>5, <2>1 DEF LineSkips
  <2>3. srv.running
    BY <1>2 DEF Free
  <2> QED BY <1>1, <1>2, <1>5, <2>1, <2>2, <2>3, PushStep
<1>6. CASE /\ cx[i].state = "end" /\ Head(net[k].up).kind = "END"
           /\ srv' = [srv EXCEPT !.pushing = i] /\ UNCHANGED cx /\ net' = rest
  BY <1>1, <1>2, <1>6, FullStep
<1> HIDE DEF rest
<1> QED BY <1>1, <1>3, <1>4, <1>5, <1>6 DEF Read, rest

-----------------------------------------------------------------------------
(***************************************************************************)
(* Acknowledgements.                                                       *)
(***************************************************************************)

(* The sequence of at most one element.                                     *)
LEMMA OneElement ==
    ASSUME NEW s, NEW r
    PROVE  /\ SetToSeq({}) = << >>
           /\ SetToSeq({r}) = << r >>
<1>1. SetToSeq({}) = << >>
  <2>1. SetToSeq({}) = CHOOSE f \in [{} -> {}] : IsInjective(f)
    <3>1. 1 .. Cardinality({}) = {}
      BY FS_EmptySet
    <3> QED BY <3>1 DEF SetToSeq
  <2>2. \A f \in [{} -> {}] : f = << >>
    OBVIOUS
  <2>3. << >> \in [{} -> {}] /\ IsInjective(<< >>)
    BY DEF IsInjective
  <2> QED BY <2>1, <2>2, <2>3
<1>2. SetToSeq({r}) = << r >>
  <2>1. SetToSeq({r}) = CHOOSE f \in [{1} -> {r}] : IsInjective(f)
    <3>1. Cardinality({r}) = 1 /\ 1 .. 1 = {1}
      BY FS_Singleton
    <3> QED BY <3>1 DEF SetToSeq
  <2>2. \A f \in [{1} -> {r}] : f = << r >>
    OBVIOUS
  <2>3. << r >> \in [{1} -> {r}] /\ IsInjective(<< r >>)
    BY DEF IsInjective
  <2> QED BY <2>1, <2>2, <2>3
<1> QED BY <1>1, <1>2

\* A connection after the server acknowledged: nothing was sent on it, or the
\* acknowledgement of its slot.
Answered(k, k2, x) ==
    /\ k2.client = k.client /\ k2.server = k.server /\ k2.broken = k.broken /\ k2.up = k.up
    /\ \/ k2.down = k.down
       \/ /\ x.non_acknowledged > 0
          /\ k2.down = Append(k.down, [kind |-> "ACK", id |-> x.ack_file])

\* A connection with one more reply.
LEMMA AcknowledgedConn ==
    ASSUME NEW k \in ConnRec, NEW n \in Nat
    PROVE  /\ [k EXCEPT !.down = @ \o << >>] = k
           /\ [k EXCEPT !.down = @ \o << [kind |-> "ACK", id |-> n] >>] \in ConnRec
           /\ \A k2 : k2 = [k EXCEPT !.down = @ \o << [kind |-> "ACK", id |-> n] >>] =>
                 /\ k2.client = k.client /\ k2.server = k.server /\ k2.broken = k.broken
                 /\ k2.up = k.up /\ k2.down = Append(k.down, [kind |-> "ACK", id |-> n])
<1> DEFINE p == [kind |-> "ACK", id |-> n]
           d == k.down \o << p >>
<1>1. k.down \in Seq(DownMsg)
  BY DEF ConnRec
<1>2. p \in DownMsg
  BY DEF DownMsg
<1> HIDE DEF p
<1>3. d \in Seq(DownMsg) /\ d = Append(k.down, p) /\ k.down \o << >> = k.down
  BY ONLY <1>1, <1>2
<1> HIDE DEF d
<1>4. [k EXCEPT !.down = d] \in ConnRec
  BY <1>3 DEF ConnRec
<1>5. \A k2 : k2 = [k EXCEPT !.down = d] =>
         /\ k2.client = k.client /\ k2.server = k.server /\ k2.broken = k.broken
         /\ k2.up = k.up /\ k2.down = d
  BY <1>3 DEF ConnRec
<1>6. [k EXCEPT !.down = @ \o << >>] = [k EXCEPT !.down = k.down]
  BY <1>3
<1>7. [k EXCEPT !.down = k.down] = k
  BY DEF ConnRec
<1> QED BY <1>3, <1>4, <1>5, <1>6, <1>7 DEF d, p

\* What TR_server_acknowledge_files() changes.
LEMMA AcknowledgedFacts ==
    ASSUME TransportTypeOK, ConnsOwned, NEW S \in SUBSET Slots, NEW n \in Nat,
           AcknowledgeFiles(S, n)
    PROVE  /\ cx' \in [Slots -> SlotRec] /\ net' \in [Conns -> ConnRec]
           /\ \A i \in Slots : SameSlot(cx[i], cx'[i])
           /\ \A i \in Slots : \/ cx'[i].non_acknowledged = cx[i].non_acknowledged
                               \/ cx'[i].non_acknowledged = 0
           /\ \A k \in Conns : \/ net'[k] = net[k]
                               \/ \E i \in Slots : /\ cx[i].socket # None /\ cx[i].socket = k
                                                   /\ Answered(net[k], net'[k], cx[i])
<1> DEFINE due == {i \in S : cx[i].socket # None /\ cx[i].non_acknowledged > n}
           Reply(k) == {[kind |-> "ACK", id |-> cx[i].ack_file] :
                           i \in {j \in due : cx[j].socket = k}}
<1>1. /\ cx' = [i \in Slots |-> IF i \in due THEN [cx[i] EXCEPT !.non_acknowledged = 0] ELSE cx[i]]
      /\ net' = [k \in Conns |-> IF net[k].client /\ ~net[k].broken
                                 THEN [net[k] EXCEPT !.down = @ \o SetToSeq(Reply(k))]
                                 ELSE net[k]]
  BY DEF AcknowledgeFiles
<1>2. /\ due \subseteq Slots
      /\ \A i \in due : cx[i].socket # None /\ cx[i].non_acknowledged > 0
  <2>1. \A i \in Slots : cx[i].non_acknowledged \in Nat
    BY Types DEF TypeFacts
  <2> QED BY <2>1
<1>3. cx \in [Slots -> SlotRec] /\ net \in [Conns -> ConnRec]
  BY DEF TransportTypeOK
<1>4. ASSUME NEW i \in Slots
      PROVE  /\ cx'[i] \in SlotRec /\ SameSlot(cx[i], cx'[i])
             /\ \/ cx'[i].non_acknowledged = cx[i].non_acknowledged
                \/ cx'[i].non_acknowledged = 0
  <2>1. cx[i] \in SlotRec
    BY <1>3
  <2>2. cx'[i] = cx[i] \/ cx'[i] = [cx[i] EXCEPT !.non_acknowledged = 0]
    BY <1>1
  <2>3. CASE cx'[i] = cx[i]
    BY <2>1, <2>3 DEF SameSlot
  <2>4. CASE cx'[i] = [cx[i] EXCEPT !.non_acknowledged = 0]
    BY ONLY <2>1, <2>4 DEF SameSlot, SlotRec
  <2> QED BY <2>2, <2>3, <2>4
<1>5. cx' \in [Slots -> SlotRec]
  BY <1>1, <1>4
<1>6. \A i, j \in due : cx[i].socket = cx[j].socket => i = j
  BY <1>2 DEF ConnsOwned, OwnersOK
<1> HIDE DEF due
<1>7. ASSUME NEW k \in Conns
      PROVE  /\ net'[k] \in ConnRec
             /\ \/ net'[k] = net[k]
                \/ \E i \in Slots : /\ cx[i].socket # None /\ cx[i].socket = k
                                    /\ Answered(net[k], net'[k], cx[i])
  <2>1. net[k] \in ConnRec
    BY <1>3
  <2>2. \/ net'[k] = net[k]
        \/ net'[k] = [net[k] EXCEPT !.down = @ \o SetToSeq(Reply(k))]
    BY <1>1
  <2>3. CASE net'[k] = net[k]
    BY <2>1, <2>3
  <2>4. CASE /\ net'[k] = [net[k] EXCEPT !.down = @ \o SetToSeq(Reply(k))]
             /\ \A i \in due : cx[i].socket # k
    <3>1. Reply(k) = {}
      BY <2>4
    <3>2. SetToSeq(Reply(k)) = << >>
      BY <3>1, OneElement
    <3>3. net'[k] = [net[k] EXCEPT !.down = @ \o << >>]
      BY <2>4, <3>2
    <3> QED BY <2>1, <3>3, AcknowledgedConn
  <2>5. ASSUME net'[k] = [net[k] EXCEPT !.down = @ \o SetToSeq(Reply(k))],
               NEW i \in due, cx[i].socket = k
        PROVE  /\ net'[k] \in ConnRec
               /\ i \in Slots /\ cx[i].socket # None /\ Answered(net[k], net'[k], cx[i])
    <3>1. {j \in due : cx[j].socket = k} = {i}
      BY <1>6, <2>5
    <3>2. Reply(k) = {[kind |-> "ACK", id |-> cx[i].ack_file]}
      BY <3>1
    <3>3. SetToSeq(Reply(k)) = << [kind |-> "ACK", id |-> cx[i].ack_file] >>
      BY <3>2, OneElement
    <3>4. net'[k] = [net[k] EXCEPT !.down = @ \o << [kind |-> "ACK", id |-> cx[i].ack_file] >>]
      BY <2>5, <3>3
    <3>5. i \in Slots /\ cx[i].socket # None /\ cx[i].non_acknowledged > 0
      BY <1>2
    <3>6. cx[i].ack_file \in Nat
      BY <3>5, Types DEF TypeFacts
    <3> HIDE DEF Reply
    <3>7. PICK a \in Nat : a = cx[i].ack_file
      BY <3>6
    <3>8. net'[k] = [net[k] EXCEPT !.down = @ \o << [kind |-> "ACK", id |-> a] >>]
      BY <3>4, <3>7
    <3>9. net'[k] \in ConnRec
      BY ONLY <2>1, <3>7, <3>8, AcknowledgedConn
    <3>10. /\ net'[k].client = net[k].client /\ net'[k].server = net[k].server
           /\ net'[k].broken = net[k].broken
           /\ net'[k].up = net[k].up /\ net'[k].down = Append(net[k].down, [kind |-> "ACK", id |-> a])
      BY ONLY <2>1, <3>7, <3>8, AcknowledgedConn
    <3> QED BY ONLY <3>5, <3>7, <3>9, <3>10 DEF Answered
  <2> QED BY <2>2, <2>3, <2>4, <2>5
<1>8. net' \in [Conns -> ConnRec]
  BY <1>1, <1>7
<1> QED BY <1>4, <1>5, <1>7, <1>8

\* The acknowledgement of a slot is one its client may get.
LEMMA RepliesAnswer ==
    ASSUME NEW c, NEW me, NEW b, NEW n, NEW x, NEW k, NEW k2, NEW oq, NEW m,
           k.down \in Seq(DownMsg),
           RepliesOK(me, b, n, k.down), LinkOK(c, me, b, n, x, k, oq, m), Answered(k, k2, x)
    PROVE  RepliesOK(me, b, n, k2.down)
<1>1. CASE k2.down = k.down
  BY <1>1
<1>2. CASE /\ x.non_acknowledged > 0
           /\ k2.down = Append(k.down, [kind |-> "ACK", id |-> x.ack_file])
  <2>1. me.state # "open"
    BY <1>2 DEF LinkOK, OpenLinkOK
  <2>2. ASSUME me.state = "connected", NEW a \in 1 .. Len(k2.down)
        PROVE  /\ k2.down[a].kind = "ACK"
               /\ k2.down[a].id + b.base <= n /\ k2.down[a].id + b.base <= SentBy(me, b)
    <3>1. CASE a \in 1 .. Len(k.down)
      <4>1. k2.down[a] = k.down[a]
        BY <1>2, <3>1
      <4> QED BY <2>2, <3>1, <4>1 DEF RepliesOK
    <3>2. CASE a = Len(k.down) + 1
      <4>1. k2.down[a] = [kind |-> "ACK", id |-> x.ack_file]
        BY <1>2, <3>2
      <4>2. x.ack_file + b.base <= n /\ x.ack_file + b.base <= SentBy(me, b)
        BY <2>2 DEF LinkOK, ConnectedLinkOK
      <4> QED BY <4>1, <4>2
    <3>3. Len(k2.down) = Len(k.down) + 1 /\ Len(k.down) \in Nat
      BY <1>2
    <3> QED BY <3>1, <3>2, <3>3
  <2> QED BY <2>1, <2>2 DEF RepliesOK
<1> QED BY <1>1, <1>2 DEF Answered

\* TR_server_acknowledge_files() tells no client of a message that was not dispatched.
LEMMA AcknowledgeStep ==
    ASSUME TransportInvariant, NEW S \in SUBSET Slots, NEW n \in Nat, AcknowledgeFiles(S, n),
           MainKept(main, main'), main' \in MainRec,
           UNCHANGED <<fifo, cl, backlog, srv, dispatched, budget>>
    PROVE  TransportInvariant'
<1> USE DEF TransportInvariant
<1>1. /\ cx' \in [Slots -> SlotRec] /\ net' \in [Conns -> ConnRec]
      /\ \A i \in Slots : SameSlot(cx[i], cx'[i])
      /\ \A i \in Slots : \/ cx'[i].non_acknowledged = cx[i].non_acknowledged
                          \/ cx'[i].non_acknowledged = 0
      /\ \A k \in Conns : \/ net'[k] = net[k]
                          \/ \E i \in Slots : /\ cx[i].socket # None /\ cx[i].socket = k
                                              /\ Answered(net[k], net'[k], cx[i])
  BY AcknowledgedFacts
<1>2. TransportTypeOK'
  BY <1>1 DEF TransportTypeOK
<1>3. /\ Growing(fifo, fifo') /\ \A d : SameFifo(fifo[d], fifo'[d])
      /\ \A d : SameClient(cl[d], cl'[d])
  BY Unchanging
<1>4. \A k \in Conns : /\ net'[k].client = net[k].client /\ net'[k].server = net[k].server
                       /\ net'[k].broken = net[k].broken /\ net'[k].up = net[k].up
  BY <1>1 DEF Answered
<1>5. /\ \A i \in Slots : cx[i].socket \in Conns \cup {None}
      /\ \A d \in Clients : cl[d].conn \in Conns \cup {None}
      /\ \A e \in 1 .. Len(backlog) : backlog[e] \in Conns
      /\ \A k \in Conns : net[k].down \in Seq(DownMsg)
  BY Types DEF TypeFacts
<1>6. \A i \in Slots : cx'[i].socket = cx[i].socket
  BY <1>1 DEF SameSlot
<1>7. ConnsOwned'
  BY <1>4, <1>6, KeepOwners
<1>8. ServerParts'
  BY <1>1, KeepServer DEF SameSlot
<1>9. QueueParts'
  BY <1>3, KeepQueue
<1>10. SlotParts'
  <2>1. \A i \in Slots : cx'[i].socket # None =>
           SameSlot(cx[i], cx'[i]) /\ net'[cx[i].socket].up = net[cx[i].socket].up
    BY <1>1, <1>4, <1>5, <1>6
  <2> QED BY <1>3, <2>1, KeepSlots
<1>11. BooksParts'
  BY DEF BooksParts
<1>12. BacklogParts'
  <2>1. \A e \in 1 .. Len(backlog) : net'[backlog[e]] = net[backlog[e]]
    <3>1. \A e \in 1 .. Len(backlog) : \A i \in Slots : cx[i].socket # backlog[e]
      BY DEF ConnsOwned, OwnersOK
    <3> QED BY <3>1, <1>1, <1>5
  <2> QED BY <2>1 DEF BacklogParts, BacklogOK
<1>13. ReplyParts'
  <2>1. ASSUME NEW d \in Clients, cl[d].conn # None
        PROVE  RepliesOK(cl[d], fifo[d], Cardinality(dispatched[d]), net'[cl[d].conn].down)
    <3> DEFINE k == cl[d].conn
    <3>1. k \in Conns
      BY <1>5, <2>1
    <3>2. RepliesOK(cl[d], fifo[d], Cardinality(dispatched[d]), net[k].down)
      BY <2>1 DEF ReplyParts
    <3>3. CASE net'[k] = net[k]
      BY <3>2, <3>3
    <3>4. ASSUME NEW i \in Slots, cx[i].socket # None, cx[i].socket = k,
                 Answered(net[k], net'[k], cx[i])
          PROVE  RepliesOK(cl[d], fifo[d], Cardinality(dispatched[d]), net'[k].down)
      <4>1. LinkOK(d, cl[d], fifo[d], Cardinality(dispatched[d]), cx[i], net[k],
                   srv.output_queue, main)
        BY <3>4 DEF LinkParts
      <4>2. net[k].down \in Seq(DownMsg)
        BY <1>5, <3>1
      <4> QED BY ONLY <3>2, <3>4, <4>1, <4>2, RepliesAnswer
    <3> QED BY <1>1, <3>1, <3>3, <3>4
  <2> QED BY <2>1 DEF ReplyParts
<1>14. LinkParts'
  <2>1. ASSUME NEW d \in Clients, NEW i \in Slots, cx'[i].socket # None, cl'[d].conn = cx'[i].socket
        PROVE  SameLine(cl[d], net[cx[i].socket], net'[cx[i].socket])
    <3> DEFINE k == cx[i].socket
    <3>1. k \in Conns /\ cx[i].socket # None /\ cl[d].conn = k
      BY <1>5, <1>6, <2>1
    <3>2. net'[k] = net[k] \/ Answered(net[k], net'[k], cx[i])
      <4>1. \A j \in Slots : cx[j].socket # None /\ cx[j].socket = k => j = i
        BY <3>1 DEF ConnsOwned, OwnersOK
      <4> QED BY <4>1, <3>1, <1>1
    <3>3. cl[d].state # "connected" => net'[k].down = net[k].down
      <4>1. LinkOK(d, cl[d], fifo[d], Cardinality(dispatched[d]), cx[i], net[k],
                   srv.output_queue, main)
        BY <3>1 DEF LinkParts
      <4>2. cl[d].state \in {"open", "connected"}
        <5>1. cl[d].state # "not_connected"
          BY <3>1 DEF ConnsOwned, OwnersOK
        <5>2. cl[d].state \in {"not_connected", "open", "connected"}
          BY Types DEF TypeFacts
        <5> QED BY <5>1, <5>2
      <4>3. cl[d].state = "open" => cx[i].non_acknowledged = 0
        BY <4>1 DEF LinkOK, OpenLinkOK
      <4> QED BY <3>2, <4>2, <4>3 DEF Answered
    <3> QED BY <1>4, <3>1, <3>3 DEF SameLine
  <2> QED BY <1>1, <1>3, <2>1, KeepLinks
<1> QED BY <1>2, <1>7, <1>8, <1>9, <1>10, <1>11, <1>12, <1>13, <1>14

\* Once a second.
LEMMA EverySecondStep ==
    ASSUME TransportInvariant, EverySecond
    PROVE  TransportInvariant'
<1>1. /\ AcknowledgeFiles(Slots, 0)
      /\ UNCHANGED <<fifo, cl, backlog, srv, main, dispatched, budget>>
  BY DEF EverySecond
<1>2. MainKept(main, main') /\ main' \in MainRec
  BY <1>1, Unchanging DEF TransportInvariant, TransportTypeOK
<1>3. Slots \in SUBSET Slots /\ 0 \in Nat
  OBVIOUS
<1> QED BY <1>1, <1>2, <1>3, AcknowledgeStep

\* When many files wait for their acknowledgement.
LEMMA AckManyStep ==
    ASSUME TransportInvariant, AckMany
    PROVE  TransportInvariant'
<1>1. /\ main.at = "acked" /\ AcknowledgeFiles({main.file.slot}, AckMax)
      /\ main' = Rest
      /\ UNCHANGED <<fifo, cl, backlog, srv, dispatched, budget>>
  BY DEF AckMany
<1>2. main.file.slot \in Slots
  BY <1>1 DEF TransportInvariant, ServerParts, ServerOK, Addressed
<1>3. MainKept(main, main') /\ main' \in MainRec
  BY <1>1 DEF MainKept, Rest, MainRec, AnyFile
<1>4. {main.file.slot} \in SUBSET Slots /\ AckMax \in Nat
  BY <1>2, LogTransportAssumption
<1> QED BY <1>1, <1>3, <1>4, AcknowledgeStep

-----------------------------------------------------------------------------
(***************************************************************************)
(* The main thread.                                                        *)
(***************************************************************************)

\* The main thread takes the oldest file and gives it to the dispatchers.
LEMMA GetFileStep ==
    ASSUME TransportInvariant, GetFile
    PROVE  TransportInvariant'
<1> USE DEF TransportInvariant
<1> DEFINE oq == srv.output_queue
           h == Head(oq)
           m2 == [at |-> "ack", file |-> h]
<1>1. /\ srv.running /\ oq # << >> /\ main' = m2
      /\ dispatched' = [dispatched EXCEPT ![h.c] = @ \cup {h.msg}]
      /\ srv' = [srv EXCEPT !.output_queue = Tail(@)]
      /\ UNCHANGED <<fifo, cl, net, backlog, cx, budget>>
  BY DEF GetFile
<1>2. oq \in Seq(FileSet) /\ srv \in ServerRec /\ dispatched \in [Clients -> SUBSET Nat]
  BY SlotTypes DEF SlotFacts, TransportTypeOK
<1>3. /\ Len(oq) \in Nat /\ Len(Tail(oq)) = Len(oq) - 1 /\ Tail(oq) \in Seq(FileSet)
      /\ \A e \in 1 .. Len(Tail(oq)) : Tail(oq)[e] = oq[e + 1] /\ e + 1 \in 2 .. Len(oq)
      /\ h = oq[1] /\ h \in FileSet /\ 1 \in 1 .. Len(oq)
  BY ONLY <1>1, <1>2, QueueTail
<1>4. QueueOK(oq, fifo, dispatched, main) /\ DispatchedOK(fifo, dispatched)
  BY DEF QueueParts
<1>5. Counted(h, fifo) /\ h.msg <= Cardinality(dispatched[h.c]) + 1
  <2>1. Counted(oq[1], fifo)
    BY <1>3, <1>4 DEF QueueOK
  <2>2. \/ oq[1].msg <= Cardinality(dispatched[oq[1].c]) + 1
        \/ \E j \in 1 .. 1 - 1 : oq[j].c = oq[1].c /\ oq[j].msg = oq[1].msg - 1
    BY <1>3, <1>4 DEF QueueOK
  <2>3. 1 .. 1 - 1 = {}
    OBVIOUS
  <2> QED BY <1>3, <2>1, <2>2, <2>3
<1> HIDE DEF h
<1>6. /\ DispatchedOK(fifo, dispatched') /\ Covered(dispatched, dispatched', h)
  BY ONLY <1>1, <1>2, <1>3, <1>4, <1>5, DispatchedTakes
<1>7. h.c \in Clients /\ h.msg \in Nat
  BY ONLY <1>3, FileFields
<1>8. dispatched' \in [Clients -> SUBSET Nat]
  <2>1. dispatched[h.c] \cup {h.msg} \in SUBSET Nat
    BY <1>2, <1>7
  <2> QED BY ONLY <1>1, <1>2, <2>1, <1>7
<1>9. /\ srv' \in ServerRec /\ srv'.output_queue = Tail(oq) /\ srv'.running = srv.running
      /\ srv'.cx_counter = srv.cx_counter /\ srv'.pushing = srv.pushing
  BY <1>1, <1>2, <1>3 DEF ServerRec
<1>10. main' \in MainRec
  BY <1>1, <1>3 DEF MainRec, AnyFile
<1>11. TransportTypeOK'
  BY <1>1, <1>8, <1>9, <1>10 DEF TransportTypeOK
<1>12. ConnsOwned' /\ BacklogParts'
  BY <1>1 DEF ConnsOwned, BacklogParts
<1>13. ServerParts'
  <2>1. \A g : Addressed(g, srv, cx) => Addressed(g, srv', cx)
    BY <1>9 DEF Addressed
  <2>2. \A e \in 1 .. Len(oq) : Addressed(oq[e], srv', cx)
    BY <2>1 DEF ServerParts, ServerOK
  <2>3. \A e \in 1 .. Len(srv'.output_queue) : Addressed(srv'.output_queue[e], srv', cx)
    <3>1. \A e \in 1 .. Len(Tail(oq)) : e + 1 \in 1 .. Len(oq)
      BY ONLY <1>3
    <3> QED BY <1>3, <1>9, <2>2, <3>1
  <2>4. m2.file \in FileSet /\ Addressed(m2.file, srv', cx)
    BY <1>3, <2>2
  <2>5. /\ srv.pushing # None => cx[srv.pushing].socket # None /\ cx[srv.pushing].state = "end"
        /\ \A i \in Slots : cx[i].cx_id < srv.cx_counter
        /\ \A i \in Slots : cx[i].socket # None <=> cx[i].cx_id >= 0
        /\ \A i, j \in Slots : cx[i].socket # None /\ cx[i].cx_id = cx[j].cx_id => i = j
        /\ \A i \in Slots : cx[i].socket # None /\ cx[i].state = "end" =>
             cx[i].file \in FileSet /\ cx[i].file.sender = cx[i].cx_id /\ cx[i].file.slot = i
    BY DEF ServerParts, ServerOK
  <2> HIDE DEF m2
  <2>6. ServerOK(srv', cx, m2)
    BY ONLY <1>1, <1>9, <2>3, <2>4, <2>5 DEF ServerOK
  <2> QED BY <2>6, <1>1 DEF ServerParts
<1>14. QueueParts'
  <2>1. QueueOK(Tail(oq), fifo, dispatched', m2)
    BY ONLY <1>1, <1>2, <1>4, <1>6, QueueDispatches DEF h
  <2> QED BY <2>1, <1>1, <1>6, <1>9 DEF QueueParts
<1>15. SlotParts'
  <2>1. ASSUME NEW i \in Slots, cx[i].socket # None
        PROVE  SlotOK(cx[i], net[cx[i].socket].up, fifo, dispatched', Tail(oq), m2)
    <3>1. SlotOK(cx[i], net[cx[i].socket].up, fifo, dispatched, oq, main)
      BY <2>1 DEF SlotParts
    <3>2. cx[i].state = "end" => cx[i].file \in FileSet
      BY <2>1, HeldFiles
    <3>3. net[cx[i].socket].up \in Seq(UpMsg)
      BY <2>1, SlotTypes DEF SlotFacts
    <3> QED BY ONLY <1>1, <1>2, <1>4, <1>6, <3>1, <3>2, <3>3, SlotDispatches DEF h
  <2> QED BY <2>1, <1>1, <1>9 DEF SlotParts
<1>16. \A d \in Clients : /\ Cardinality(dispatched[d]) \in Nat /\ Cardinality(dispatched'[d]) \in Nat
                          /\ Cardinality(dispatched'[d]) >= Cardinality(dispatched[d])
  BY <1>6 DEF Covered
<1>17. BooksParts'
  <2>1. ASSUME NEW d \in Clients
        PROVE  BooksOK(d, cl[d], fifo[d], Cardinality(dispatched'[d]))
    <3>1. BooksOK(d, cl[d], fifo[d], Cardinality(dispatched[d]))
      BY DEF BooksParts
    <3>2. FifoTyped(fifo[d]) /\ fifo[d].accepted \in Nat /\ fifo[d].accepted <= MaxMsg
      BY TypedClients, AcceptedBound
    <3>3. fifo[d].accepted >= fifo[d].accepted
      BY <3>2
    <3> QED BY ONLY <3>1, <3>2, <3>3, <1>16, BooksKeep
  <2> QED BY <2>1, <1>1 DEF BooksParts
<1>18. ReplyParts'
  <2>1. ASSUME NEW d \in Clients, cl[d].conn # None
        PROVE  RepliesOK(cl[d], fifo[d], Cardinality(dispatched'[d]), net[cl[d].conn].down)
    <3>1. RepliesOK(cl[d], fifo[d], Cardinality(dispatched[d]), net[cl[d].conn].down)
      BY <2>1 DEF ReplyParts
    <3>2. FifoTyped(fifo[d]) /\ ClientTyped(cl[d]) /\ SameClient(cl[d], cl[d])
      BY TypedClients, Unchanging
    <3>3. net[cl[d].conn].down \in Seq(DownMsg)
      BY <2>1, Types DEF TypeFacts
    <3> QED BY ONLY <3>1, <3>2, <3>3, <1>16, RepliesKeep
  <2> QED BY <2>1, <1>1 DEF ReplyParts
<1>19. LinkParts'
  <2>1. ASSUME NEW d \in Clients, NEW i \in Slots, cx[i].socket # None, cl[d].conn = cx[i].socket
        PROVE  LinkOK(d, cl[d], fifo[d], Cardinality(dispatched'[d]), cx[i], net[cx[i].socket],
                      Tail(oq), m2)
    <3>1. LinkOK(d, cl[d], fifo[d], Cardinality(dispatched[d]), cx[i], net[cx[i].socket], oq, main)
      BY <2>1 DEF LinkParts
    <3>2. fifo[d].base \in Nat /\ SentBy(cl[d], fifo[d]) \in Int /\ cx[i].ack_file \in Nat
      BY TypedClients, Types DEF TypeFacts
    <3>3. h.c = d => Cardinality(dispatched'[d]) >= h.msg
      BY <1>6 DEF Covered
    <3> QED BY ONLY <1>1, <1>2, <1>16, <3>1, <3>2, <3>3, LinkDispatches DEF h
  <2> QED BY <2>1, <1>1, <1>9 DEF LinkParts
<1> QED BY <1>11, <1>12, <1>13, <1>14, <1>15, <1>17, <1>18, <1>19

\* The first half of TR_server_ack_file(): the slot i is x2 now.
AckedAs(x, x2, n) == x2 = [x EXCEPT !.ack_file = n, !.non_acknowledged = @ + 1]

\* It is a slot.
LEMMA AckedSlot ==
    ASSUME NEW x \in SlotRec, NEW n \in Nat, NEW x2, AckedAs(x, x2, n)
    PROVE  /\ x2 \in SlotRec /\ x2.socket = x.socket /\ x2.state = x.state /\ x2.file = x.file
           /\ x2.cx_id = x.cx_id /\ x2.ack_file = n
<1>1. x.non_acknowledged + 1 \in Nat
  BY DEF SlotRec
<1>2. x2 \in SlotRec
  BY ONLY <1>1, x \in SlotRec, n \in Nat, AckedAs(x, x2, n) DEF SlotRec, AckedAs
<1>3. /\ x2.socket = x.socket /\ x2.state = x.state /\ x2.file = x.file
      /\ x2.cx_id = x.cx_id /\ x2.ack_file = n
  BY ONLY <1>1, x \in SlotRec, n \in Nat, AckedAs(x, x2, n) DEF SlotRec, AckedAs
<1> QED BY <1>2, <1>3

\* The main thread has dispatched the file and marks it in its slot, if that still
\* belongs to the connection it came on.
LEMMA AckFileStep ==
    ASSUME TransportInvariant, AckFile
    PROVE  TransportInvariant'
<1> USE DEF TransportInvariant
<1> DEFINE f == main.file
<1>1. /\ main.at = "ack" /\ main' = [main EXCEPT !.at = "acked"]
      /\ cx' = IF cx[f.slot].cx_id = f.sender /\ f.id > cx[f.slot].ack_file
               THEN [cx EXCEPT ![f.slot].ack_file = f.id, ![f.slot].non_acknowledged = @ + 1]
               ELSE cx
      /\ UNCHANGED <<fifo, cl, net, backlog, srv, dispatched, budget>>
  BY DEF AckFile
<1>2. PICK i \in Slots : i = f.slot
  BY <1>1 DEF ServerParts, ServerOK, Addressed
<1>3. f \in FileSet /\ 0 <= f.sender
  BY <1>1 DEF ServerParts, ServerOK, Addressed
<1>4. main \in MainRec /\ cx \in [Slots -> SlotRec] /\ cx[i] \in SlotRec
  BY DEF TransportTypeOK
<1>5. main' \in MainRec /\ main'.at = "acked" /\ main'.file = f
  BY <1>1, <1>4 DEF MainRec
<1>6. MainKept(main, main')
  BY <1>1, <1>5 DEF MainKept
<1>7. /\ Growing(fifo, fifo') /\ \A d : SameFifo(fifo[d], fifo'[d])
      /\ \A d : SameClient(cl[d], cl'[d]) /\ \A j : SameSlot(cx[j], cx[j])
      /\ \A me, k : SameLine(me, net[k], net'[k])
  BY <1>1, Unchanging
<1>8. /\ cx' \in [Slots -> SlotRec] /\ \A j \in Slots : j # i => cx'[j] = cx[j]
      /\ cx'[i].socket = cx[i].socket /\ cx'[i].state = cx[i].state
      /\ cx'[i].file = cx[i].file /\ cx'[i].cx_id = cx[i].cx_id
      /\ cx'[i] = cx[i] \/ (cx'[i].ack_file = f.id /\ f.sender = cx[i].cx_id)
  <2>1. CASE cx' = cx
    BY <2>1, <1>4
  <2>2. ASSUME cx[i].cx_id = f.sender,
               cx' = [cx EXCEPT ![i].ack_file = f.id, ![i].non_acknowledged = @ + 1]
        PROVE  <1>8!:
    <3>1. f.id \in Nat
      BY <1>3, FileFields
    <3> DEFINE x2 == [cx[i] EXCEPT !.ack_file = f.id, !.non_acknowledged = @ + 1]
    <3>2. cx' = [cx EXCEPT ![i] = x2]
      BY <2>2, <1>4
    <3> HIDE DEF f
    <3>4. AckedAs(cx[i], x2, f.id)
      BY DEF AckedAs
    <3> HIDE DEF x2
    <3>3. /\ x2 \in SlotRec /\ x2.socket = cx[i].socket /\ x2.state = cx[i].state
          /\ x2.file = cx[i].file /\ x2.cx_id = cx[i].cx_id /\ x2.ack_file = f.id
      <4>1. cx[i] \in SlotRec
        BY <1>4
      <4> QED BY ONLY <4>1, <3>1, <3>4, AckedSlot
    <3> QED BY ONLY <1>4, <2>2, <3>2, <3>3
  <2> QED BY <1>1, <1>2, <2>1, <2>2
<1>9. \A j \in Slots : /\ cx'[j].socket = cx[j].socket /\ cx'[j].state = cx[j].state
                       /\ cx'[j].file = cx[j].file /\ cx'[j].cx_id = cx[j].cx_id
  BY <1>8
<1>10. TransportTypeOK'
  BY <1>1, <1>5, <1>8 DEF TransportTypeOK
<1>11. ConnsOwned'
  BY <1>1, <1>9, KeepOwners
<1>12. ServerParts'
  BY <1>1, <1>6, <1>9, KeepServer
<1>13. QueueParts'
  BY <1>1, <1>6, <1>7, KeepQueue
<1>14. BooksParts' /\ ReplyParts' /\ BacklogParts'
  BY <1>1 DEF BooksParts, ReplyParts, BacklogParts
<1>15. SlotParts'
  <2>1. ASSUME NEW j \in Slots, cx[j].socket # None
        PROVE  SlotOK(cx'[j], net[cx[j].socket].up, fifo, dispatched, srv.output_queue, main')
    <3>1. CASE cx'[j] = cx[j]
      <4>1. SameSlot(cx[j], cx'[j])
        BY <1>7, <3>1
      <4> QED BY <4>1, <2>1, <1>1, <1>6, <1>7, KeepSlot
    <3>2. CASE j = i /\ cx'[i].ack_file = f.id /\ f.sender = cx[i].cx_id
      <4>1. SlotOK(cx[i], net[cx[i].socket].up, fifo, dispatched, srv.output_queue, main)
        BY <2>1, <3>2 DEF SlotParts
      <4>2. SlotOK(cx'[i], net[cx[i].socket].up, fifo, dispatched, srv.output_queue, main')
        <5>1. main.at = "ack" /\ main.file.sender = cx[i].cx_id /\ main'.at = "acked"
          BY <1>1, <1>5, <3>2
        <5>2. /\ cx'[i].state = cx[i].state /\ cx'[i].file = cx[i].file
              /\ cx'[i].cx_id = cx[i].cx_id /\ cx'[i].ack_file = main.file.id
          BY <1>8, <3>2
        <5> QED BY ONLY <4>1, <5>1, <5>2, SlotAcks
      <4> QED BY <4>2, <3>2
    <3> QED BY <1>8, <3>1, <3>2
  <2> QED BY <2>1, <1>1, <1>9 DEF SlotParts
<1>16. LinkParts'
  <2>1. ASSUME NEW d \in Clients, NEW j \in Slots, cx[j].socket # None, cl[d].conn = cx[j].socket
        PROVE  LinkOK(d, cl[d], fifo[d], Cardinality(dispatched[d]), cx'[j], net[cx[j].socket],
                      srv.output_queue, main')
    <3>1. CASE cx'[j] = cx[j]
      <4>1. SameSlot(cx[j], cx'[j]) /\ cx'[j].non_acknowledged = cx[j].non_acknowledged
        BY <1>7, <3>1
      <4>2. LinkOK(d, cl'[d], fifo'[d], Cardinality(dispatched'[d]), cx'[j], net'[cx[j].socket],
                   srv'.output_queue, main')
        BY <4>1, <2>1, <1>1, <1>6, <1>7, KeepLink
      <4> QED BY <4>2, <1>1
    <3>2. CASE j = i /\ cx'[i].ack_file = f.id /\ f.sender = cx[i].cx_id
      <4>1. LinkOK(d, cl[d], fifo[d], Cardinality(dispatched[d]), cx[i], net[cx[i].socket],
                   srv.output_queue, main)
        BY <2>1, <3>2 DEF LinkParts
      <4>2. f.c = d => f.msg <= Cardinality(dispatched[d])
        BY <1>1 DEF QueueParts, QueueOK
      <4>3. fifo[d].base \in Nat /\ SentBy(cl[d], fifo[d]) \in Int
            /\ Cardinality(dispatched[d]) \in Nat
        BY TypedClients DEF QueueParts, DispatchedOK
      <4>4. LinkOK(d, cl[d], fifo[d], Cardinality(dispatched[d]), cx'[i], net[cx[i].socket],
                   srv.output_queue, main')
        <5>1. main.at = "ack" /\ main.file.sender = cx[i].cx_id /\ main'.at = "acked"
          BY <1>1, <1>5, <3>2
        <5>2. /\ cx'[i].state = cx[i].state /\ cx'[i].file = cx[i].file
              /\ cx'[i].cx_id = cx[i].cx_id /\ cx'[i].ack_file = main.file.id
          BY <1>8, <3>2
        <5>3. main.file \in FileSet
          BY <1>3
        <5> QED BY ONLY <4>1, <4>2, <4>3, <5>1, <5>2, <5>3, LinkAcks
      <4> QED BY <4>4, <3>2
    <3> QED BY <1>8, <3>1, <3>2
  <2> QED BY <2>1, <1>1, <1>9 DEF LinkParts
<1> QED BY <1>10, <1>11, <1>12, <1>13, <1>14, <1>15, <1>16

\* The server starts again.
LEMMA ServerStartStep ==
    ASSUME TransportInvariant, ServerStart
    PROVE  TransportInvariant'
<1> USE DEF TransportInvariant
<1>1. /\ ~srv.running /\ srv' = [Down EXCEPT !.running = TRUE]
      /\ UNCHANGED <<fifo, cl, net, backlog, cx, main, dispatched, budget>>
  BY DEF ServerStart
<1>2. srv.cx_counter = 0 /\ srv.output_queue = << >> /\ srv.pushing = None
  BY <1>1 DEF ServerParts, ServerOK
<1>3. /\ srv' \in ServerRec /\ srv'.running /\ srv'.cx_counter = srv.cx_counter
      /\ srv'.output_queue = srv.output_queue /\ srv'.pushing = srv.pushing
  <2>1. << >> \in Seq(FileSet)
    OBVIOUS
  <2>2. srv' = [running |-> TRUE, cx_counter |-> 0, output_queue |-> << >>, pushing |-> None]
    BY ONLY <1>1 DEF Down
  <2> QED BY ONLY <1>2, <2>1, <2>2 DEF ServerRec
<1>4. TransportTypeOK'
  BY <1>1, <1>3 DEF TransportTypeOK
<1>5. ServerParts'
  <2>1. \A g : Addressed(g, srv, cx) => Addressed(g, srv', cx)
    BY <1>3 DEF Addressed
  <2>2. ServerOK(srv', cx, main)
    BY <1>3, <2>1 DEF ServerParts, ServerOK
  <2> QED BY <1>1, <2>2 DEF ServerParts
<1>6. ConnsOwned' /\ QueueParts' /\ SlotParts' /\ BooksParts' /\ ReplyParts' /\ BacklogParts'
      /\ LinkParts'
  BY <1>1, <1>3 DEF ConnsOwned, QueueParts, SlotParts, BooksParts, ReplyParts, BacklogParts,
                    LinkParts
<1> QED BY <1>4, <1>5, <1>6

-----------------------------------------------------------------------------
(***************************************************************************)
(* All ends of the server close; the theorems.                             *)
(***************************************************************************)

\* A connection without its server.
LEMMA DroppedConn ==
    ASSUME NEW k \in ConnRec, NEW k2,
           k2 = IF k.client THEN [k EXCEPT !.server = FALSE, !.up = << >>] ELSE FreeConn
    PROVE  k2 \in ConnRec /\ (k.client => k2.client /\ k2.down = k.down)
<1>1. << >> \in Seq(UpMsg) /\ << >> \in Seq(DownMsg)
  OBVIOUS
<1>2. CASE ~k.client
  <2>1. FreeConn \in ConnRec
    BY ONLY <1>1 DEF FreeConn, ConnRec
  <2> QED BY <1>2, <2>1
<1>3. CASE k.client
  <2>1. k2 = [k EXCEPT !.server = FALSE, !.up = << >>]
    BY <1>3
  <2> QED BY ONLY k \in ConnRec, <1>1, <1>3, <2>1 DEF ConnRec
<1> QED BY <1>2, <1>3

\* All ends of the server close.
LEMMA ServerGoneStep ==
    ASSUME TransportInvariant, ServerGone, budget' \in [faults : Nat, restarts : Nat]
    PROVE  TransportInvariant'
<1> USE DEF TransportInvariant
<1>1. /\ srv' = Down /\ cx' = [i \in Slots |-> Closed] /\ backlog' = << >> /\ main' = Rest
      /\ net' = [k \in Conns |-> IF net[k].client THEN [net[k] EXCEPT !.server = FALSE, !.up = << >>]
                                 ELSE FreeConn]
      /\ UNCHANGED <<fifo, cl, dispatched>>
  BY DEF ServerGone
<1>2. \A k \in Conns : /\ net'[k] \in ConnRec
                       /\ net[k].client => net'[k].client /\ net'[k].down = net[k].down
  <2>1. \A k \in Conns : net[k] \in ConnRec
    BY DEF TransportTypeOK
  <2>2. ASSUME NEW k \in Conns
        PROVE  net'[k] = IF net[k].client THEN [net[k] EXCEPT !.server = FALSE, !.up = << >>]
                         ELSE FreeConn
    BY <1>1
  <2> QED BY ONLY <2>1, <2>2, DroppedConn
<1>3. net' \in [Conns -> ConnRec]
  BY <1>1, <1>2
<1>4. Closed \in SlotRec /\ Closed.socket = None /\ Closed.cx_id = -1
  BY DEF Closed, SlotRec, AnyFile
<1>5. \A i \in Slots : cx'[i].socket = None /\ cx'[i].cx_id = -1
  BY <1>1, <1>4
<1>6. /\ srv' \in ServerRec /\ srv'.cx_counter = 0 /\ srv'.output_queue = << >>
      /\ srv'.pushing = None
  <2>1. << >> \in Seq(FileSet)
    OBVIOUS
  <2> QED BY ONLY <1>1, <2>1 DEF Down, ServerRec
<1>7. main' \in MainRec /\ main'.at = "get"
  BY <1>1 DEF Rest, MainRec, AnyFile
<1>8. TransportTypeOK'
  <2>1. cx' \in [Slots -> SlotRec]
    BY <1>1, <1>4
  <2>2. backlog' \in Seq(Conns)
    <3>1. << >> \in Seq(Conns)
      OBVIOUS
    <3> QED BY ONLY <1>1, <3>1
  <2>3. /\ fifo \in [Clients -> FifoRec] /\ cl \in [Clients -> ClientRec]
        /\ dispatched \in [Clients -> SUBSET Nat]
    BY DEF TransportTypeOK
  <2> QED BY ONLY <1>1, <2>3, budget' \in [faults : Nat, restarts : Nat], <1>3, <1>6, <1>7, <2>1, <2>2 DEF TransportTypeOK
<1>9. Len(backlog') = 0 /\ 1 .. Len(backlog') = {} /\ 1 .. Len(srv'.output_queue) = {}
  <2>1. Len(<< >>) = 0 /\ 1 .. 0 = {}
    OBVIOUS
  <2> QED BY ONLY <2>1, <1>1, <1>6
<1>10. \A c \in Clients : cl[c].conn # None => cl[c].conn \in Conns /\ net[cl[c].conn].client
  BY Types DEF TypeFacts, ConnsOwned, OwnersOK
<1>11. ConnsOwned'
  <2>1. /\ \A c \in Clients : cl[c].conn = None <=> cl[c].state = "not_connected"
        /\ \A c, d \in Clients : cl[c].conn = cl[d].conn /\ cl[c].conn # None => c = d
    BY DEF ConnsOwned, OwnersOK
  <2>2. \A c \in Clients : cl[c].conn # None => net'[cl[c].conn].client
    BY <1>2, <1>10
  <2>3. OwnersOK(cl, net', cx', backlog')
    BY ONLY <2>1, <2>2, <1>5, <1>9 DEF OwnersOK
  <2> QED BY <2>3, <1>1 DEF ConnsOwned
<1>12. ServerParts'
  <2>1. \A i \in Slots : cx'[i].cx_id < srv'.cx_counter /\ ~(cx'[i].cx_id >= 0)
    BY <1>5, <1>6
  <2>2. ServerOK(srv', cx', main')
    BY ONLY <2>1, <1>5, <1>6, <1>7, <1>9 DEF ServerOK
  <2> QED BY <2>2 DEF ServerParts
<1>13. QueueParts'
  <2>1. QueueOK(srv'.output_queue, fifo, dispatched, main')
    BY <1>7, <1>9 DEF QueueOK
  <2> QED BY <2>1, <1>1 DEF QueueParts
<1>14. SlotParts' /\ LinkParts'
  BY <1>5 DEF SlotParts, LinkParts
<1>15. BooksParts'
  BY <1>1 DEF BooksParts
<1>16. ReplyParts'
  <2>1. ASSUME NEW c \in Clients, cl[c].conn # None
        PROVE  net'[cl[c].conn].down = net[cl[c].conn].down
    BY <2>1, <1>2, <1>10
  <2> QED BY <2>1, <1>1 DEF ReplyParts
<1>17. BacklogParts'
  BY <1>9 DEF BacklogParts, BacklogOK
<1> QED BY <1>8, <1>11, <1>12, <1>13, <1>14, <1>15, <1>16, <1>17

\* The server is stopped.
LEMMA ServerStopStep ==
    ASSUME TransportInvariant, ServerStop
    PROVE  TransportInvariant'
<1>1. budget \in [faults : Nat, restarts : Nat]
  BY DEF TransportInvariant, TransportTypeOK
<1>2. budget.restarts > 0 /\ budget' = [budget EXCEPT !.restarts = @ - 1] /\ ServerGone
  BY DEF ServerStop
<1>3. budget' \in [faults : Nat, restarts : Nat]
  BY <1>1, <1>2
<1> QED BY <1>2, <1>3, ServerGoneStep

\* The server dies.
LEMMA ServerDiesStep ==
    ASSUME TransportInvariant, ServerDies
    PROVE  TransportInvariant'
<1>1. budget' \in [faults : Nat, restarts : Nat]
  BY FaultCounted DEF TransportInvariant, ServerDies
<1> QED BY <1>1, ServerGoneStep DEF ServerDies

\* Nothing has happened yet.
LEMMA TransportStarts ==
    ASSUME TransportInit
    PROVE  TransportInvariant
<1> USE DEF TransportInit
<1>1. /\ << >> \in Seq(FileSet) /\ << >> \in Seq(UpMsg) /\ << >> \in Seq(DownMsg)
      /\ << >> \in Seq(Conns)
  OBVIOUS
<1>2. \A c \in Clients : fifo[c] = [accepted |-> 0, removed |-> 0, base |-> 0, out |-> 0]
                         /\ cl[c] = Idle /\ dispatched[c] = {}
  OBVIOUS
<1>3. TransportTypeOK
  <2>1. fifo \in [Clients -> FifoRec]
    BY DEF FifoRec
  <2>2. Idle \in ClientRec
    BY ONLY <1>1 DEF Idle, ClientRec
  <2>3. FreeConn \in ConnRec
    BY ONLY <1>1 DEF FreeConn, ConnRec
  <2>4. Closed \in SlotRec
    BY DEF Closed, SlotRec, AnyFile
  <2>5. srv \in ServerRec
    <3>1. srv = [running |-> TRUE, cx_counter |-> 0, output_queue |-> << >>, pushing |-> None]
      BY DEF Down
    <3> QED BY ONLY <1>1, <3>1 DEF ServerRec
  <2>6. main \in MainRec
    BY DEF Rest, MainRec, AnyFile
  <2>7. budget \in [faults : Nat, restarts : Nat]
    BY LogTransportAssumption
  <2>8. dispatched \in [Clients -> SUBSET Nat]
    OBVIOUS
  <2> QED BY <1>1, <2>1, <2>2, <2>3, <2>4, <2>5, <2>6, <2>7, <2>8 DEF TransportTypeOK
<1>4. /\ \A c \in Clients : cl[c].state = "not_connected" /\ cl[c].conn = None
                            /\ cl[c].input_queue = << >> /\ cl[c].ack_id = 0
  BY <1>2 DEF Idle
<1>5. \A i \in Slots : cx[i].socket = None /\ cx[i].cx_id = -1
  BY DEF Closed
<1>6. Len(backlog) = 0 /\ 1 .. Len(backlog) = {}
  OBVIOUS
<1>7. srv.running /\ srv.cx_counter = 0 /\ srv.output_queue = << >> /\ srv.pushing = None
      /\ 1 .. Len(srv.output_queue) = {}
  BY DEF Down
<1>8. main.at = "get"
  BY DEF Rest
<1> HIDE DEF TransportInit
<1>9. ConnsOwned
  BY <1>4, <1>5, <1>6 DEF ConnsOwned, OwnersOK
<1>10. ServerParts
  <2>1. \A i \in Slots : cx[i].cx_id < srv.cx_counter /\ ~(cx[i].cx_id >= 0)
    BY <1>5, <1>7
  <2> QED BY <2>1, <1>5, <1>7, <1>8 DEF ServerParts, ServerOK
<1>11. QueueParts
  <2>1. \A c \in Clients : Cardinality(dispatched[c]) = 0 /\ dispatched[c] = 1 .. 0
    <3>1. 1 .. 0 = {}
      OBVIOUS
    <3> QED BY <3>1, <1>2, FS_EmptySet
  <2>2. \A c \in Clients : 0 <= fifo[c].accepted
    BY <1>2
  <2>3. DispatchedOK(fifo, dispatched)
    <3>1. ASSUME NEW c \in Clients
          PROVE  /\ Cardinality(dispatched[c]) \in Nat
                 /\ dispatched[c] = 1 .. Cardinality(dispatched[c])
                 /\ Cardinality(dispatched[c]) <= fifo[c].accepted
      <4>1. Cardinality(dispatched[c]) = 0
        BY ONLY <2>1
      <4>2. dispatched[c] = 1 .. 0
        BY ONLY <2>1
      <4>3. 0 <= fifo[c].accepted
        BY ONLY <2>2
      <4>4. dispatched[c] = 1 .. Cardinality(dispatched[c])
        BY ONLY <4>1, <4>2, Zenon
      <4> QED BY ONLY <4>1, <4>3, <4>4
    <3> QED BY <3>1 DEF DispatchedOK
  <2>4. QueueOK(srv.output_queue, fifo, dispatched, main)
    BY <1>7, <1>8 DEF QueueOK
  <2> QED BY <2>3, <2>4 DEF QueueParts
<1>12. SlotParts /\ LinkParts
  BY <1>5 DEF SlotParts, LinkParts
<1>13. BooksParts
  <2>1. ASSUME NEW c \in Clients
        PROVE  BooksOK(c, cl[c], fifo[c], Cardinality(dispatched[c]))
    <3>1. Cardinality(dispatched[c]) = 0
      BY <1>2, FS_EmptySet
    <3>2. fifo[c].accepted = 0 /\ fifo[c].removed = 0 /\ fifo[c].base = 0 /\ fifo[c].out = 0
      BY <1>2
    <3>3. Len(cl[c].input_queue) = 0 /\ 1 .. Len(cl[c].input_queue) = {}
      BY <1>4
    <3>4. 0 <= MaxMsg
      BY LogTransportAssumption
    <3> QED BY ONLY <3>1, <3>2, <3>3, <3>4, <1>4 DEF BooksOK
  <2> QED BY <2>1 DEF BooksParts
<1>14. ReplyParts
  BY <1>4 DEF ReplyParts
<1>15. BacklogParts
  BY <1>6 DEF BacklogParts, BacklogOK
<1> QED BY <1>3, <1>9, <1>10, <1>11, <1>12, <1>13, <1>14, <1>15 DEF TransportInvariant

\* Every step keeps the invariant.
LEMMA TransportStep ==
    ASSUME TransportInvariant, [TransportNext]_transportVars
    PROVE  TransportInvariant'
<1>1. CASE UNCHANGED transportVars
  BY <1>1 DEF transportVars, TransportInvariant, TransportTypeOK, ConnsOwned, ServerParts, QueueParts,
              SlotParts, BooksParts, ReplyParts, BacklogParts, LinkParts
<1>2. ASSUME NEW c \in Clients, SendMsg(c) \/ ClientStop(c) \/ ClientNext(c)
      PROVE  TransportInvariant'
  BY <1>2, SendMsgStep, ClientStopStep, ConnectStep, ReadyStep, GiveUpOpenStep, RoundStep,
     LeaveLoopStep, ClientRestartStep DEF ClientNext
<1>3. CASE ServerNext
  BY <1>3, AcceptStep, PushWaitingStep, PushTimeoutStep, ReadStep, ReadEndStep, EverySecondStep,
     ServerStartStep DEF ServerNext
<1>4. CASE MainNext
  BY <1>4, GetFileStep, AckFileStep, AckManyStep DEF MainNext
<1>5. CASE Faults
  BY <1>5, ServerStopStep, ServerDiesStep, BreakStep DEF Faults
<1> QED BY <1>1, <1>2, <1>3, <1>4, <1>5 DEF TransportNext

(***************************************************************************)
(* The invariant holds whatever connections break and processes restart.   *)
(***************************************************************************)
THEOREM TransportInvariantHolds == TransportSpec => []TransportInvariant
<1>1. TransportInit => TransportInvariant
  BY TransportStarts
<1>2. TransportInvariant /\ [TransportNext]_transportVars => TransportInvariant'
  BY TransportStep
<1> QED BY <1>1, <1>2, PTL DEF TransportSpec

\* It says what NoGaps asks.
LEMMA NoGapsFollows ==
    ASSUME TransportInvariant
    PROVE  NoGaps
<1> USE DEF TransportInvariant
<1>1. \A c \in Clients : dispatched[c] = 1 .. Cardinality(dispatched[c])
  BY DEF QueueParts, DispatchedOK
<1>2. ASSUME main.at = "ack", cx[main.file.slot].cx_id = main.file.sender
      PROVE  main.file.id > cx[main.file.slot].ack_file
  <2> DEFINE i == main.file.slot
  <2>1. i \in Slots /\ 0 <= main.file.sender
    BY <1>2 DEF ServerParts, ServerOK, Addressed
  <2>2. cx[i].socket # None
    BY <1>2, <2>1 DEF ServerParts, ServerOK
  <2>3. OrderOK(cx[i], net[cx[i].socket].up, srv.output_queue, main)
    BY <2>1, <2>2 DEF SlotParts, SlotOK
  <2> QED BY <1>2, <2>3 DEF OrderOK
<1> QED BY <1>1, <1>2 DEF NoGaps, NeverBadOrder

(***************************************************************************)
(* What infoLoggerServer dispatched of a client is at any time a prefix of *)
(* what the client accepted, and TR_server_ack_file() never meets a file   *)
(* older than one it acknowledged on the same connection.                  *)
(***************************************************************************)
THEOREM NoGapsHolds == TransportSpec => []NoGaps
  BY TransportInvariantHolds, NoGapsFollows, PTL

-----------------------------------------------------------------------------
(***************************************************************************)
(* The channel.                                                            *)
(***************************************************************************)

\* Most steps change none of the counts of the channel.
LEMMA SameCounts ==
    ASSUME UNCHANGED <<fifo, dispatched>>
    PROVE  UNCHANGED Channel!channelVars
  BY DEF Channel!channelVars

\* A message is accepted.
LEMMA ChannelSends ==
    ASSUME TransportInvariant, NEW c \in Clients, SendMsg(c)
    PROVE  Channel!Send(c)
<1>1. /\ fifo[c].accepted < MaxMsg
      /\ fifo' = [fifo EXCEPT ![c].accepted = @ + 1] /\ dispatched' = dispatched
  BY DEF SendMsg
<1>2. fifo \in [Clients -> FifoRec]
  BY DEF TransportInvariant, TransportTypeOK
<1>3. \A d \in Clients : fifo'[d].removed = fifo[d].removed
  BY <1>1, <1>2 DEF FifoRec
<1>4. \A d \in Clients : fifo'[d].accepted = IF d = c THEN fifo[d].accepted + 1 ELSE fifo[d].accepted
  BY <1>1, <1>2 DEF FifoRec
<1>5. [d \in Clients |-> fifo'[d].accepted]
         = [[d \in Clients |-> fifo[d].accepted] EXCEPT ![c] = @ + 1]
  BY <1>4
<1>6. [d \in Clients |-> fifo'[d].removed] = [d \in Clients |-> fifo[d].removed]
  BY <1>3
<1>7. [d \in Clients |-> fifo[d].accepted][c] < MaxMsg
  BY <1>1
<1> QED BY ONLY <1>1, <1>5, <1>6, <1>7 DEF Channel!Send

\* A file is given to the dispatchers.
LEMMA ChannelDelivers ==
    ASSUME TransportInvariant, GetFile
    PROVE  Channel!ChannelNext
<1> USE DEF TransportInvariant
<1> DEFINE h == Head(srv.output_queue)
<1>1. /\ srv.output_queue # << >>
      /\ dispatched' = [dispatched EXCEPT ![h.c] = @ \cup {h.msg}] /\ fifo' = fifo
  BY DEF GetFile
<1>2. srv.output_queue \in Seq(FileSet) /\ dispatched \in [Clients -> SUBSET Nat]
  BY SlotTypes DEF SlotFacts, TransportTypeOK
<1>3. h = srv.output_queue[1] /\ h \in FileSet /\ 1 \in 1 .. Len(srv.output_queue)
  BY ONLY <1>1, <1>2, QueueTail
<1>4. QueueOK(srv.output_queue, fifo, dispatched, main) /\ DispatchedOK(fifo, dispatched)
  BY DEF QueueParts
<1>5. Counted(h, fifo) /\ h.msg <= Cardinality(dispatched[h.c]) + 1
  <2>1. Counted(srv.output_queue[1], fifo)
    BY <1>3, <1>4 DEF QueueOK
  <2>2. \/ srv.output_queue[1].msg <= Cardinality(dispatched[srv.output_queue[1].c]) + 1
        \/ \E j \in 1 .. 1 - 1 : /\ srv.output_queue[j].c = srv.output_queue[1].c
                                 /\ srv.output_queue[j].msg = srv.output_queue[1].msg - 1
    BY <1>3, <1>4 DEF QueueOK
  <2>3. 1 .. 1 - 1 = {}
    OBVIOUS
  <2> QED BY <1>3, <2>1, <2>2, <2>3
<1> HIDE DEF h
<1>6. \A d \in Clients : Cardinality(dispatched'[d]) =
         IF d = h.c /\ h.msg > Cardinality(dispatched[d]) THEN h.msg ELSE Cardinality(dispatched[d])
  BY ONLY <1>1, <1>2, <1>3, <1>4, <1>5, DispatchedTakes
<1>7. h.c \in Clients /\ h.msg \in Nat
  BY ONLY <1>3, FileFields
<1> DEFINE before == [d \in Clients |-> Cardinality(dispatched[d])]
<1>8. [d \in Clients |-> Cardinality(dispatched'[d])]
         = [before EXCEPT ![h.c] = IF h.msg > @ THEN h.msg ELSE @]
  BY <1>6, <1>7
<1>9. 1 <= h.msg /\ h.msg <= before[h.c] + 1 /\ h.msg <= [d \in Clients |-> fifo[d].accepted][h.c]
  BY <1>5, <1>7 DEF Counted
<1>10. h.msg \in 1 .. MaxMsg
  <2>1. fifo[h.c].accepted \in Nat /\ fifo[h.c].accepted <= MaxMsg /\ MaxMsg \in Nat
    BY <1>7, AcceptedBound, LogTransportAssumption
  <2> QED BY ONLY <2>1, <1>5, <1>7 DEF Counted
<1>11. Channel!Deliver(h.c, h.msg)
  BY ONLY <1>1, <1>8, <1>9 DEF Channel!Deliver
<1> QED BY ONLY <1>7, <1>10, <1>11 DEF Channel!ChannelNext

\* What a client drops from its persistent FIFO was dispatched.
LEMMA ChannelForgets ==
    ASSUME TransportInvariant, NEW c \in Clients, Round(c)
    PROVE  Channel!Forget(c)
<1>1. /\ Rounded(c, cl'[c], fifo'[c])
      /\ \A d \in Clients : d # c => fifo'[d] = fifo[d]
  BY RoundBooks
<1>2. dispatched' = dispatched
  BY DEF Round
<1>3. /\ fifo'[c].removed >= fifo[c].removed /\ fifo'[c].removed <= Cardinality(dispatched[c])
      /\ fifo'[c].accepted = fifo[c].accepted /\ fifo'[c].removed \in Nat
  BY <1>1 DEF Rounded, FifoRec
<1>4. fifo[c].removed \in Nat /\ Cardinality(dispatched[c]) \in Nat
  BY TypedClients DEF TransportInvariant, FifoTyped, QueueParts, DispatchedOK
<1>5. [d \in Clients |-> fifo'[d].removed]
         = [[d \in Clients |-> fifo[d].removed] EXCEPT ![c] = fifo'[c].removed]
  BY <1>1
<1>6. [d \in Clients |-> fifo'[d].accepted] = [d \in Clients |-> fifo[d].accepted]
  BY <1>1, <1>3
<1>7. fifo'[c].removed \in [d \in Clients |-> fifo[d].removed][c] ..
                           [d \in Clients |-> Cardinality(dispatched[d])][c]
  BY <1>3, <1>4
<1> QED BY ONLY <1>2, <1>5, <1>6, <1>7 DEF Channel!Forget

\* A restart numbers the files anew and changes none of the counts.
LEMMA RestartKeepsCounts ==
    ASSUME TransportInvariant, NEW c \in Clients, ClientRestart(c)
    PROVE  UNCHANGED Channel!channelVars
<1>1. fifo' = [fifo EXCEPT ![c].base = fifo[c].removed, ![c].out = fifo[c].removed]
      /\ dispatched' = dispatched
  BY DEF ClientRestart
<1>2. fifo \in [Clients -> FifoRec]
  BY DEF TransportInvariant, TransportTypeOK
<1>3. \A d \in Clients : fifo'[d].removed = fifo[d].removed /\ fifo'[d].accepted = fifo[d].accepted
  BY <1>1, <1>2 DEF FifoRec
<1> QED BY <1>1, <1>3 DEF Channel!channelVars

\* Every step of the transport is one of the channel, or none.
LEMMA ChannelSteps ==
    ASSUME TransportInvariant, [TransportNext]_transportVars
    PROVE  [Channel!ChannelNext]_(Channel!channelVars)
<1>1. CASE UNCHANGED transportVars
  BY <1>1, SameCounts DEF transportVars
<1>2. ASSUME NEW c \in Clients, SendMsg(c)
      PROVE  [Channel!ChannelNext]_(Channel!channelVars)
  BY <1>2, ChannelSends DEF Channel!ChannelNext
<1>3. ASSUME NEW c \in Clients, ClientStop(c)
      PROVE  [Channel!ChannelNext]_(Channel!channelVars)
  BY <1>3, SameCounts DEF ClientStop
<1>4. ASSUME NEW c \in Clients, ClientNext(c)
      PROVE  [Channel!ChannelNext]_(Channel!channelVars)
  <2>1. CASE Connect(c) \/ Ready(c) \/ GiveUpOpen(c) \/ LeaveLoop(c)
    BY <2>1, SameCounts DEF Connect, Ready, GiveUpOpen, LeaveLoop
  <2>2. CASE Round(c)
    BY <2>2, ChannelForgets DEF Channel!ChannelNext
  <2>3. CASE ClientRestart(c)
    BY <2>3, RestartKeepsCounts
  <2> QED BY <1>4, <2>1, <2>2, <2>3 DEF ClientNext
<1>5. CASE ServerNext
  BY <1>5, SameCounts DEF ServerNext, Accept, PushWaiting, PushTimeout, Read, ReadEnd, EverySecond,
                          ServerStart
<1>6. CASE MainNext
  BY <1>6, ChannelDelivers, SameCounts DEF MainNext, AckFile, AckMany
<1>7. CASE Faults
  BY <1>7, SameCounts DEF Faults, ServerStop, ServerDies, ServerGone, Break
<1> QED BY <1>1, <1>2, <1>3, <1>4, <1>5, <1>6, <1>7 DEF TransportNext

\* The channel starts empty.
LEMMA ChannelStarts ==
    ASSUME TransportInit
    PROVE  Channel!ChannelInit
<1>1. \A c \in Clients : /\ fifo[c].accepted = 0 /\ fifo[c].removed = 0
                         /\ Cardinality(dispatched[c]) = 0
  BY FS_EmptySet DEF TransportInit
<1> QED BY <1>1 DEF Channel!ChannelInit

(***************************************************************************)
(* The transport implements LogChannel, on which Logging builds: messages are *)
(* delivered in order and without gaps, possibly again, and a client forgets *)
(* a message only after it was delivered.                                  *)
(***************************************************************************)
THEOREM TransportImplementsChannel == TransportSpec => ImplementsChannel
<1>1. TransportInit => Channel!ChannelInit
  BY ChannelStarts
<1>2. TransportInvariant /\ [TransportNext]_transportVars
         => [Channel!ChannelNext]_(Channel!channelVars)
  BY ChannelSteps
<1> QED BY <1>1, <1>2, TransportInvariantHolds, PTL
        DEF TransportSpec, ImplementsChannel, Channel!ChannelSpec
=============================================================================
