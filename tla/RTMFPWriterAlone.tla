-------------------------- MODULE RTMFPWriterAlone --------------------------
(***************************************************************************)
(* The writer against any peer: acknowledgments carry any stage and any    *)
(* number of losses, also ones that answer nothing that was sent.          *)
(* Datagrams are never removed from `wire`, which is the history of what   *)
(* the writer put on the network.                                          *)
(***************************************************************************)
EXTENDS RTMFPWriter

CONSTANTS
    Acks,           \* stages the peer may acknowledge
    Losses          \* numbers of lost fragments it may announce

ASSUME AloneAssumption == Acks \subseteq Nat /\ Losses \subseteq Nat

peerAck == \E ack \in Acks, lost \in Losses :
    /\ acquit(ack, lost)
    /\ UNCHANGED wire

AloneNext ==
    \/ \E size \in Sizes, reliable \in BOOLEAN : newMessage(size, reliable)
    \/ flush
    \/ peerAck
    \/ \E error \in BOOLEAN : close(error) /\ UNCHANGED wire
    \/ consumed
    \/ sendingThread

AloneSpec == WriterInit /\ [][AloneNext]_writerVars

=============================================================================
