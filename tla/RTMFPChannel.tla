---------------------------- MODULE RTMFPChannel ----------------------------
(***************************************************************************)
(* One direction of a connected RTMFP session: a writer at one end, its    *)
(* flow at the other, and UDP between them.  With CanDuplicate nothing     *)
(* leaves the network: a datagram or an acknowledgment may arrive at any   *)
(* time, any number of times, or never, which is UDP's loss, duplication   *)
(* and reordering.  Without it each arrives once, in any order, and may    *)
(* be asked to arrive eventually.  The receiving end is the part           *)
(* of FlowManager::receive that dispatches the 0x10 and 0x11 messages of a *)
(* datagram and answers with a 0x51; the sending end the part that reads   *)
(* the 0x51 and gives it to the writer.                                    *)
(*                                                                         *)
(* The session is followed until one of its ends closes it.                *)
(***************************************************************************)
EXTENDS RTMFPWriter, RTMFPFlow

CONSTANTS
    Reliability,    \* values of `reliable` the application uses
    RecvBufferSize, \* Net::GetRecvBufferSize(), in content units
    CanDuplicate,   \* TRUE if UDP may deliver a datagram more than once
    CanClose,       \* TRUE if the application closes the writer
    MaxVolume       \* bound: content units the application writes

ASSUME ChannelAssumption ==
    /\ Reliability \subseteq BOOLEAN
    /\ RecvBufferSize \in Nat
    /\ CanDuplicate \in BOOLEAN /\ CanClose \in BOOLEAN
    /\ MaxVolume \in Nat

VARIABLES
    known,          \* TRUE if the flow is in FlowManager::_flows
    flow,           \* its state, that of a new flow if it is not there
    acks,           \* 0x51 messages on their way back
    status,         \* RTMFP::SessionStatus of the sending end
    farStatus       \* RTMFP::SessionStatus of the receiving end

channelVars == <<writerVars, known, flow, acks, status, farStatus>>

\* The acknowledgment of a known flow leaves room, that of an unknown flow
\* has a buffer size of 0.
Ack(stg, losts) == [stage |-> stg, losts |-> losts, room |-> TRUE]
NegativeAck(stg) == [stage |-> stg, losts |-> <<>>, room |-> FALSE]

ChannelInit ==
    /\ WriterInit
    /\ known = FALSE /\ flow = NewFlow
    /\ acks = {}
    /\ status = "CONNECTED" /\ farStatus = "CONNECTED"

-----------------------------------------------------------------------------
(* The network *)

afterDelivery(net, m) == IF CanDuplicate THEN net ELSE net \ {m}

-----------------------------------------------------------------------------
(* FlowManager::receive at the receiving end *)

\* A datagram whose first message has the OPTIONS part creates its flow.
hasFlow(d) == known \/ d.frags[1].options

\* The flow after the first k messages of datagram d.
flowAfter(d) ==
    LET after[k \in 0..Len(d.frags)] ==
            IF k = 0 THEN flow ELSE input(after[k - 1], d.first + k - 1, d.frags[k])
    IN  after

congested(f) == f.fragmentation > RecvBufferSize

\* Every message of the datagram is given to the flow, then it is acknowledged.
receiveDatagram(d) ==
    /\ hasFlow(d)
    /\ known' = TRUE
    /\ \A k \in 1..Len(d.frags) : ~congested(flowAfter(d)[k])
    /\ flow' = flowAfter(d)[Len(d.frags)]
    /\ LET ack == buildAck(flow') IN acks' = acks \union {Ack(ack.stage, ack.losts)}
    /\ UNCHANGED farStatus

\* Too much waits in _fragments: the session is closed without an ack and
\* the rest of the datagram is dropped.
receiveCongested(d) ==
    /\ hasFlow(d)
    /\ known' = TRUE
    /\ \E k \in 1..Len(d.frags) :
          /\ congested(flowAfter(d)[k])
          /\ \A j \in 1..(k - 1) : ~congested(flowAfter(d)[j])
          /\ flow' = flowAfter(d)[k]
    /\ farStatus' = "NEAR_CLOSED"
    /\ UNCHANGED acks

\* A datagram of an unknown flow: the first message leaves the local `stage`
\* one behind, and a stage of 0 is not acknowledged.
receiveUnknown(d) ==
    /\ ~hasFlow(d)
    /\ LET stg == d.first + Len(d.frags) - 2
       IN  acks' = IF stg = 0 THEN acks ELSE acks \union {NegativeAck(stg)}
    /\ UNCHANGED <<known, flow, farStatus>>

receive(d) ==
    /\ farStatus = "CONNECTED" /\ status = "CONNECTED"
    /\ receiveDatagram(d) \/ receiveCongested(d) \/ receiveUnknown(d)
    /\ wire' = afterDelivery(wire, d)
    /\ UNCHANGED <<mainVars, threadVars, status>>

-----------------------------------------------------------------------------
(* FlowManager::receive at the sending end: the 0x51 message *)

lostCount(a) == IF a.losts = <<>> THEN 0 ELSE 1 + a.losts[1]

\* The writer takes the acknowledgment, if it still exists.
receiveAck(a) ==
    /\ a.room
    /\ IF wState = "CONSUMED"
       THEN UNCHANGED <<mainVars, threadVars>>
       ELSE acquit(a.stage, lostCount(a))
    /\ UNCHANGED status

\* "No more place to write": close(false) clears the writer and the session.
receiveNegativeAck(a) ==
    /\ ~a.room
    /\ IF closed
       THEN UNCHANGED <<mainVars, status>>
       ELSE /\ status' = "NEAR_CLOSED"
            /\ pending' = <<>>
            /\ UNCHANGED <<wState, wStageAck, wLostCount, repeating, log>>
    /\ UNCHANGED threadVars

receiveAcknowledgment(a) ==
    /\ status = "CONNECTED"
    /\ receiveAck(a) \/ receiveNegativeAck(a)
    /\ acks' = afterDelivery(acks, a)
    /\ UNCHANGED <<wire, known, flow, farStatus>>

-----------------------------------------------------------------------------
applicationWrites ==
    LET volume[n \in 0..Len(log)] == IF n = 0 THEN 0 ELSE volume[n - 1] + log[n].size
    IN \E size \in Sizes, reliable \in Reliability :
          volume[Len(log)] + size <= MaxVolume /\ newMessage(size, reliable)

writerStep ==
    \/ applicationWrites
    \/ flush
    \/ CanClose /\ \E error \in BOOLEAN : close(error) /\ UNCHANGED wire
    \/ consumed
    \/ sendingThread

ChannelNext ==
    \/ status = "CONNECTED" /\ writerStep /\ UNCHANGED <<known, flow, acks, status, farStatus>>
    \/ \E d \in wire : receive(d)
    \/ \E a \in acks : receiveAcknowledgment(a)

ChannelSpec == ChannelInit /\ [][ChannelNext]_channelVars

-----------------------------------------------------------------------------
(* Correctness *)

DeliveredIds == [i \in 1..Len(flow.delivered) |-> flow.delivered[i][1].msg]

\* The parts p of a message put together are the whole of the message m.
Whole(p, m) ==
    LET upTo[i \in 0..Len(p)] == IF i = 0 THEN 0 ELSE upTo[i - 1] + p[i].size
    IN  /\ \A i \in 1..Len(p) : p[i].msg = m.id /\ p[i].from = upTo[i - 1]
        /\ upTo[Len(p)] = m.size

\* Whatever UDP did and whatever was repeated or abandoned, a message that
\* RTMFPFlow::output gives to its stream is one the application wrote, whole
\* and never glued to a piece of another one.
DeliveredWhole ==
    \A i \in 1..Len(flow.delivered) :
        LET p == flow.delivered[i]
        IN  p[1].msg \in 1..Len(log) /\ Whole(p, log[p[1].msg])

\* The sender forgets a packet only when the receiver has all of it: the
\* sender's stageAck and every acknowledgment on its way are behind the
\* flow's stage, although acknowledgments are reordered and an ack inside
\* a packet releases the whole packet.
ForgottenOnlyIfReceived ==
    (known /\ ~completed(flow)) =>
        /\ stageAck <= flow.stage
        /\ \A a \in acks : a.room => a.stage <= flow.stage

\* The fragments held back are beyond a gap: buildAck's first - stage - 2
\* does not underflow, and the ranges it sends describe _fragments exactly.
AckDescribesBuffer ==
    /\ \A s \in DOMAIN flow.fragments : s > flow.stage + 1
    /\ announced(buildAck(flow)) = DOMAIN flow.fragments

\* The counter that closes the session for congestion is the size of what
\* _fragments holds, after any mixture of buffering, draining and ABANDON.
FragmentationExact == flow.fragmentation = sizeOf(flow.fragments, DOMAIN flow.fragments)

\* The channel is a MessageStream: order, at most once, no reliable message
\* skipped, one end and nothing after it, although packets are repeated,
\* abandoned, reordered and acknowledged late.
Stream == INSTANCE MessageStream WITH delivered <- DeliveredIds, ended <- flow.ended

ImplementsMessageStream == Stream!StreamSpec

-----------------------------------------------------------------------------
(* Liveness *)

MaxStage == MaxMessages * (CHOOSE n \in Sizes : \A k \in Sizes : k <= n)

\* The session's thread calls flushWriters on every turn of its loop, the
\* pool's thread runs every runner it is given, and a datagram that UDP does
\* not lose arrives.
ChannelFairness ==
    /\ WF_channelVars(flush /\ UNCHANGED <<known, flow, acks, status, farStatus>>)
    /\ WF_channelVars(sendingThread /\ UNCHANGED <<known, flow, acks, status, farStatus>>)
    /\ \A s \in 1..MaxStage : WF_channelVars(\E d \in wire : d.first = s /\ receive(d))
    /\ \A s \in 0..MaxStage :
          WF_channelVars(\E a \in acks : a.stage = s /\ receiveAcknowledgment(a))

FairChannelSpec == ChannelSpec /\ ChannelFairness

\* A reliable message that is written is delivered, although a window of
\* SENDABLE_MAX packets is only reopened by acknowledgments that are
\* themselves reordered.
ReliableDelivered ==
    \A m \in 1..MaxMessages :
        (Len(log) >= m /\ log[m].reliable)
            ~> \E i \in 1..Len(DeliveredIds) : DeliveredIds[i] = m

=============================================================================
