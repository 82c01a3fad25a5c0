----------------------------- MODULE DmaChannel -----------------------------
(***************************************************************************)
(* What a DMA channel promises its client (DmaChannelInterface.h), and all *)
(* that the dummy channel does (Dummy/DummyDmaChannel.cxx): superpages     *)
(* pushed into the transfer queue are filled and come back, once each, in  *)
(* the ready queue.  A channel with several links may reorder them.        *)
(***************************************************************************)
EXTENDS Naturals, Sequences, SequencesExt, FiniteSets

CONSTANTS Superpages,         \* the client's superpages
          TransferCapacity    \* room for superpages being transferred

ASSUME ChannelAssumption == TransferCapacity \in Nat \ {0} /\ IsFiniteSet(Superpages)

VARIABLES started,
          transfer,   \* superpages pushed and not ready
          ready,      \* the ready queue
          complete    \* superpages of the two that the card has filled

channelVars == <<started, transfer, ready, complete>>

ChannelInit ==
    /\ started = FALSE
    /\ transfer = {}
    /\ ready = <<>>
    /\ complete = {}

\* getTransferQueueAvailable() is not 0.
TransferAvailable == Cardinality(transfer) < TransferCapacity

\* startDma() forgets what is in the queues.
ChannelStart ==
    /\ started' = TRUE
    /\ transfer' = {}
    /\ ready' = <<>>
    /\ complete' = {}

ChannelStop ==
    /\ started' = FALSE
    /\ UNCHANGED <<transfer, ready, complete>>

\* pushSuperpage(), which throws without room.
ChannelPush(s) ==
    /\ started
    /\ s \notin transfer \cup ToSet(ready)
    /\ TransferAvailable
    /\ transfer' = transfer \cup {s}
    /\ UNCHANGED <<started, ready, complete>>

\* The card fills a superpage at any time.
ChannelComplete(s) ==
    /\ s \in transfer \ complete
    /\ complete' = complete \cup {s}
    /\ UNCHANGED <<started, transfer, ready>>

\* fillSuperpages() finds one of the superpages filled.
ChannelArrive(s) ==
    /\ s \in transfer \cap complete
    /\ transfer' = transfer \ {s}
    /\ ready' = Append(ready, s)
    /\ UNCHANGED <<started, complete>>

\* popSuperpage(), which throws on an empty queue.
ChannelPop ==
    /\ ready # <<>>
    /\ ready' = Tail(ready)
    /\ complete' = complete \ {Head(ready)}
    /\ UNCHANGED <<started, transfer>>

ChannelNext ==
    \/ ChannelStart \/ ChannelStop \/ ChannelPop
    \/ \E s \in Superpages : ChannelPush(s) \/ ChannelComplete(s) \/ ChannelArrive(s)

ChannelSpec == ChannelInit /\ [][ChannelNext]_channelVars
=============================================================================
