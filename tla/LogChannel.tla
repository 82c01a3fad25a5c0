----------------------------- MODULE LogChannel -----------------------------
(***************************************************************************)
(* What the InfoLogger transport promises: the messages that               *)
(* TR_client_send_msg() accepted reach the main loop of infoLoggerServer   *)
(* in order and without gaps, possibly more than once, and leave the       *)
(* buffer of the client only after that.                                   *)
(***************************************************************************)
EXTENDS Naturals

CONSTANTS Clients, MaxMsg

ASSUME LogChannelAssumption == MaxMsg \in Nat

VARIABLES
    accepted,   \* [Clients -> number of messages accepted]
    delivered,  \* [Clients -> number of messages given to the main loop]
    removed     \* [Clients -> number of messages the client has forgotten]

channelVars == <<accepted, delivered, removed>>

ChannelInit ==
    /\ accepted = [c \in Clients |-> 0]
    /\ delivered = [c \in Clients |-> 0]
    /\ removed = [c \in Clients |-> 0]

Send(c) ==
    /\ accepted[c] < MaxMsg
    /\ accepted' = [accepted EXCEPT ![c] = @ + 1]
    /\ UNCHANGED <<delivered, removed>>

\* Message m is delivered: the next one, or one that was delivered before.
Deliver(c, m) ==
    /\ 1 <= m /\ m <= delivered[c] + 1 /\ m <= accepted[c]
    /\ delivered' = [delivered EXCEPT ![c] = IF m > @ THEN m ELSE @]
    /\ UNCHANGED <<accepted, removed>>

Forget(c) ==
    /\ \E n \in removed[c]..delivered[c] : removed' = [removed EXCEPT ![c] = n]
    /\ UNCHANGED <<accepted, delivered>>

ChannelNext ==
    \E c \in Clients : Send(c) \/ Forget(c) \/ \E m \in 1..MaxMsg : Deliver(c, m)

ChannelSpec == ChannelInit /\ [][ChannelNext]_channelVars
=============================================================================
