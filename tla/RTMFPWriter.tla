---------------------------- MODULE RTMFPWriter ----------------------------
(***************************************************************************)
(* One RTMFPWriter, the sending half of an RTMFP flow.  Two threads share  *)
(* it.  The session's thread creates messages, flushes them, reads         *)
(* acknowledgments and closes the writer (RTMFPWriter.cpp).  It never      *)
(* touches the packets itself: it hands runners (RTMFPMessenger,           *)
(* RTMFPAcquiter, RTMFPRepeater) to one thread of the pool, which runs     *)
(* them in order (RTMFPSender.cpp).  Every loop iteration of that thread   *)
(* that moves a packet is a step of its own, so the two threads interleave *)
(* here as they do in the program.                                         *)
(*                                                                         *)
(* Bytes are abstracted to content units: a packet holds Capacity units    *)
(* and headers are free.  Time is abstracted: the repeat timer of a writer *)
(* may expire whenever it is armed (repeatDelay # 0 in the code).          *)
(***************************************************************************)
EXTENDS Naturals, Sequences, FiniteSets

CONSTANTS
    Sizes,          \* content sizes of the application's messages, in units
    Capacity,       \* RTMFP::SIZE_PACKET, in units
    SENDABLE_MAX,   \* packets that may leave before an ack is received
    MaxMessages,    \* bound: messages the application writes
    MaxRunners,     \* bound: runners that wait when an acknowledgment is read
    SendCanFail     \* TRUE if a write on the UDP socket may fail

ASSUME WriterAssumption ==
    /\ Sizes \subseteq Nat \ {0}
    /\ Capacity \in Nat \ {0}
    /\ SENDABLE_MAX \in Nat \ {0}
    /\ MaxMessages \in Nat /\ MaxRunners \in Nat \ {0}
    /\ SendCanFail \in BOOLEAN

VARIABLES
    \* owned by the session's thread
    wState,         \* FlashWriter::_state
    pending,        \* messages of the RTMFPMessenger held in _pSender
    wStageAck,      \* RTMFPWriter::_stageAck
    wLostCount,     \* RTMFPWriter::_lostCount
    repeating,      \* _repeatDelay # 0
    log,            \* history: every message of the application, in order
    \* owned by the sending thread
    runners,        \* runners waiting in the thread's queue
    pc,             \* what the thread is doing
    job,            \* the runner being run
    buf,            \* RTMFPMessenger::_pBuffer, the packet being filled
    queue,          \* RTMFPSender::Queue as a deque: packets not yet sent
    sending,        \* Queue::sending: packets sent and not yet acknowledged
    stage, stageSending, stageAck,  \* the counters of RTMFPSender::Queue
    sendable,       \* RTMFPSender::Session::sendable
    \* the network
    wire            \* datagrams on their way to the receiver

mainVars   == <<wState, pending, wStageAck, wLostCount, repeating, log>>
stageVars  == <<stage, stageSending, stageAck>>
threadVars == <<runners, pc, job, buf, queue, sending, stageVars, sendable>>
writerVars == <<mainVars, threadVars, wire>>

-----------------------------------------------------------------------------
(* Data *)

\* RTMFPMessenger::Message; id 0 is the empty message that ends the flow.
Message == [id : Nat, size : Nat, reliable : BOOLEAN]
EndMessage == [id |-> 0, size |-> 0, reliable |-> TRUE]

\* A fragment of a message as it is written in a datagram: its content and
\* the flags of its header (MESSAGE_RELIABLE is never written).
Fragment == [msg : Nat, from : Nat, size : Nat, before : BOOLEAN, after : BOOLEAN,
             abandon : BOOLEAN, end : BOOLEAN, options : BOOLEAN]

EndFragment == [msg |-> 0, from |-> 0, size |-> 0, before |-> FALSE, after |-> FALSE,
                abandon |-> TRUE, end |-> TRUE, options |-> FALSE]
AbandonFragment == [EndFragment EXCEPT !.end = FALSE]

\* RTMFPSender::Packet.  `first` is the stage written in its 0x10 header; the
\* fragments that follow in 0x11 headers have the next stages.
Packet == [first : Nat, fragments : Nat, used : Nat, reliable : BOOLEAN, frags : Seq(Fragment)]
NoBuffer == [first |-> 0, fragments |-> 0, used |-> 0, reliable |-> FALSE, frags |-> <<>>]
LastStage(p) == p.first + p.fragments - 1

\* The stages a packet counts for in stageSending and stageAck.
oneStagePerPacket(p) == 1
stagesOf(p) == p.fragments

Datagram(p) == [first |-> p.first, frags |-> p.frags]
AbandonDatagram(s) == [first |-> s, frags |-> <<AbandonFragment>>]

Runner == [kind : {"Messenger", "Acquiter", "Repeater"}, messages : Seq(Message),
           stageAck : Nat, fragments : Nat]
Messenger(ms) == [kind |-> "Messenger", messages |-> ms, stageAck |-> 0, fragments |-> 0]
Acquiter(s)   == [kind |-> "Acquiter", messages |-> <<>>, stageAck |-> s, fragments |-> 0]
Repeater(f)   == [kind |-> "Repeater", messages |-> <<>>, stageAck |-> 0, fragments |-> f]

Job == [messages : Seq(Message), offset : Nat, after : BOOLEAN, stageAck : Nat]
NoJob == [messages |-> <<>>, offset |-> 0, after |-> FALSE, stageAck |-> 0]

\* _pQueue.unique(): neither a waiting or running runner nor the messenger
\* kept in _pSender holds a reference to the queue.
UniqueWhenNotRunning == pc = "idle"
Unique == pending = <<>> /\ runners = <<>> /\ pc = "idle"

closed == wState # "OPENED"

-----------------------------------------------------------------------------
WriterInit ==
    /\ wState = "OPENED" /\ pending = <<>> /\ log = <<>>
    /\ wStageAck = 0 /\ wLostCount = 0 /\ repeating = FALSE
    /\ runners = <<>> /\ pc = "idle" /\ job = NoJob /\ buf = NoBuffer
    /\ queue = <<>> /\ sending = <<>>
    /\ stage = 0 /\ stageSending = 0 /\ stageAck = 0
    /\ sendable = SENDABLE_MAX
    /\ wire = {}

-----------------------------------------------------------------------------
(* The session's thread *)

\* newMessage: the message is appended to the messenger kept in _pSender.
newMessage(size, reliable) ==
    /\ ~closed
    /\ Len(log) < MaxMessages
    /\ LET m == [id |-> Len(log) + 1, size |-> size, reliable |-> reliable]
       IN  /\ pending' = Append(pending, m)
           /\ log' = Append(log, m)
    /\ UNCHANGED <<wState, wStageAck, wLostCount, repeating, threadVars, wire>>

\* flush with messages to send.  The messenger itself shares the queue, so
\* repeatMessages returns at its unique() test.
flushMessages ==
    /\ pending # <<>>
    /\ repeating' = TRUE
    /\ runners' = Append(runners, Messenger(pending))
    /\ pending' = <<>>
    /\ UNCHANGED <<wState, wStageAck, wLostCount, log, pc, job, buf, queue, sending,
                   stageVars, sendable, wire>>

\* The queue that repeatMessages tests before it stops the timer.
nothingToRepeat == queue = <<>>

\* flush without messages, repeatMessages finds nothing to repeat.
stopRepeat ==
    /\ Unique
    /\ nothingToRepeat
    /\ repeating
    /\ repeating' = FALSE
    /\ UNCHANGED <<wState, pending, wStageAck, wLostCount, log, threadVars, wire>>

\* flush without messages, the repeat delay has elapsed.
timedRepeat ==
    /\ Unique
    /\ ~nothingToRepeat
    /\ runners' = Append(runners, Repeater(0))
    /\ UNCHANGED <<mainVars, pc, job, buf, queue, sending, stageVars, sendable, wire>>

flush == flushMessages \/ stopRepeat \/ timedRepeat

\* acquit: progress resets the repeat timer and lets more packets go, new
\* losses are repeated at once, anything else is obsolete.
progress(ack) ==
    /\ ack > wStageAck
    /\ wStageAck' = ack
    /\ wLostCount' = 0
    /\ repeating' = TRUE
    /\ runners' = Append(runners, Acquiter(ack))

newLosses(ack, lost) ==
    /\ ack <= wStageAck
    /\ lost > wLostCount
    /\ wLostCount' = lost
    /\ runners' = Append(runners, Repeater(IF lost > 255 THEN 255 ELSE lost))
    /\ UNCHANGED <<wStageAck, repeating>>

obsolete(ack, lost) ==
    /\ ack <= wStageAck
    /\ lost <= wLostCount
    /\ UNCHANGED <<wStageAck, wLostCount, repeating, runners>>

acquit(ack, lost) ==
    /\ wState # "CONSUMED"
    /\ Len(runners) < MaxRunners
    /\ progress(ack) \/ newLosses(ack, lost) \/ obsolete(ack, lost)
    /\ UNCHANGED <<wState, pending, log, pc, job, buf, queue, sending, stageVars, sendable>>

\* close(error): an error drops the unsent messages; otherwise the end of
\* the flow is written when the far side may know the flow, and flushed.
\* A second close only changes the state.
close(error) ==
    /\ wState \in {"OPENED", "NEAR_CLOSED"}
    /\ wState' = IF wState = "OPENED" THEN "NEAR_CLOSED" ELSE "CLOSED"
    /\ LET toSend == IF wState # "OPENED" THEN <<>>
                     ELSE IF wStageAck > 0 \/ repeating THEN Append(pending, EndMessage)
                     ELSE pending
       IN  IF error \/ toSend = <<>>
           THEN UNCHANGED <<repeating, runners>>
           ELSE repeating' = TRUE /\ runners' = Append(runners, Messenger(toSend))
    /\ pending' = IF wState = "OPENED" THEN <<>> ELSE pending
    /\ UNCHANGED <<wStageAck, wLostCount, log, pc, job, buf, queue, sending,
                   stageVars, sendable>>

\* flushWriters erases a writer that is closed and consumed (130 s later).
consumed ==
    /\ wState \in {"NEAR_CLOSED", "CLOSED"}
    /\ Unique
    /\ queue = <<>>
    /\ wState' = "CONSUMED"
    /\ UNCHANGED <<pending, wStageAck, wLostCount, repeating, log, threadVars, wire>>

-----------------------------------------------------------------------------
(* The sending thread: RTMFPSender::run *)

start(kind) ==
    /\ pc = "idle"
    /\ runners # <<>>
    /\ Head(runners).kind = kind
    /\ runners' = Tail(runners)
    /\ UNCHANGED <<mainVars, queue, sending, stageVars>>

startMessenger ==
    /\ start("Messenger")
    /\ pc' = "write"
    /\ job' = [NoJob EXCEPT !.messages = Head(runners).messages]
    /\ UNCHANGED <<buf, sendable, wire>>

\* ++pQueue->stage: every fragment has a stage of its own.
stagePerPacket == IF buf = NoBuffer THEN stage + 1 ELSE stage
nextStage == stage + 1

\* A new packet when the one being filled is full or has the other reliability.
opensPacket ==
    \/ buf = NoBuffer
    \/ buf.used >= Capacity
    \/ Head(job.messages).reliable # buf.reliable

\* availableToWrite, size and contentSize of that turn.
roomLeft == IF opensPacket THEN Capacity ELSE Capacity - buf.used
sizeLeft == Head(job.messages).size - job.offset
contentSize == IF sizeLeft < roomLeft THEN sizeLeft ELSE roomLeft

\* The fragment of the first message that comes next, with its flags.
nextFragment ==
    IF contentSize = 0 THEN EndFragment
    ELSE [msg |-> Head(job.messages).id, from |-> job.offset, size |-> contentSize,
          before |-> job.after, after |-> sizeLeft > contentSize,
          abandon |-> FALSE, end |-> FALSE, options |-> opensPacket /\ stageAck = 0]

\* RTMFPMessenger::write, one turn of its loop: the next fragment of the
\* first message is appended to the packet being filled, or to a new one.
writeFragment ==
    /\ pc = "write"
    /\ job.messages # <<>>
    /\ stage' = nextStage
    /\ IF opensPacket
       THEN /\ queue' = IF buf = NoBuffer THEN queue ELSE Append(queue, buf)
            /\ buf' = [first |-> nextStage, fragments |-> 1, used |-> contentSize,
                       reliable |-> Head(job.messages).reliable, frags |-> <<nextFragment>>]
       ELSE /\ buf' = [buf EXCEPT !.fragments = @ + 1, !.used = @ + contentSize,
                                  !.frags = Append(@, nextFragment)]
            /\ UNCHANGED queue
    /\ job' = IF contentSize < sizeLeft
              THEN [job EXCEPT !.offset = @ + contentSize, !.after = TRUE]
              ELSE [job EXCEPT !.messages = Tail(@), !.offset = 0, !.after = FALSE]
    /\ UNCHANGED <<mainVars, runners, pc, sending, stageSending, stageAck, sendable, wire>>

\* The end of RTMFPMessenger::run: the last packet joins the queue.
endMessenger ==
    /\ pc = "write"
    /\ job.messages = <<>>
    /\ queue' = IF buf = NoBuffer THEN queue ELSE Append(queue, buf)
    /\ buf' = NoBuffer
    /\ job' = NoJob
    /\ pc' = "flush"
    /\ UNCHANGED <<mainVars, runners, sending, stageVars, sendable, wire>>

\* RTMFPAcquiter::run: an ack of more than was sent is cut down ...
startAcquiter ==
    /\ start("Acquiter")
    /\ pc' = "ack"
    /\ LET ack == Head(runners).stageAck
       IN  job' = [NoJob EXCEPT !.stageAck = IF ack > stageSending THEN stageSending ELSE ack]
    /\ UNCHANGED <<buf, sendable, wire>>

\* ... then packets leave `sending` while the ack is ahead of the queue's.
acknowledged == sending # <<>> /\ job.stageAck > stageAck

\* Progress lets the session send SENDABLE_MAX packets again.
reopenedTwice == sendable + SENDABLE_MAX
notReopened == sendable
reopened == SENDABLE_MAX

ackPacket ==
    /\ pc = "ack"
    /\ acknowledged
    /\ stageAck' = stageAck + stagesOf(Head(sending))
    /\ sending' = Tail(sending)
    /\ sendable' = reopened
    /\ UNCHANGED <<mainVars, runners, pc, job, buf, queue, stage, stageSending, wire>>

endAcquiter ==
    /\ pc = "ack"
    /\ ~acknowledged
    /\ pc' = "flush"
    /\ job' = NoJob
    /\ UNCHANGED <<mainVars, runners, buf, queue, sending, stageVars, sendable, wire>>

\* RTMFPRepeater::run.  The packets it visits are a prefix of `sending`: it
\* stops once `fragments` (if not 0) stages or SENDABLE_MAX reliable packets
\* are covered.
visited(fragments) ==
    {i \in 1..Len(sending) :
        /\ i = 1 \/ fragments = 0 \/ LastStage(sending[i-1]) < stageAck + fragments
        /\ Cardinality({j \in 1..(i-1) : sending[j].reliable}) < SENDABLE_MAX}

\* The unreliable packets visited before any reliable one are abandoned.
abandonedAnywhere(seen) == {i \in seen : ~sending[i].reliable}
abandoned(seen) ==
    {i \in seen : \A j \in 1..i : ~sending[j].reliable}

\* The loop also stops at the first write that fails: only the packets
\* before it have been repeated and sending is paused.
startRepeater ==
    /\ start("Repeater")
    /\ LET seen  == visited(Head(runners).fragments)
           again == {i \in seen : sending[i].reliable}
           lost  == {LastStage(sending[i]) : i \in abandoned(seen)}
           abandons == {AbandonDatagram(s) : s \in {t \in lost : \A u \in lost : u <= t}}
       IN  \/ /\ wire' = wire \union abandons \union {Datagram(sending[i]) : i \in again}
              /\ UNCHANGED sendable
           \/ /\ SendCanFail
              /\ \E failed \in again :
                     wire' = wire \union abandons
                                  \union {Datagram(sending[i]) : i \in {j \in again : j < failed}}
              /\ sendable' = 0
    /\ pc' = "flush"
    /\ UNCHANGED <<job, buf>>

\* What is kept of a packet once sent: an unreliable one is released.
sent(p) == IF p.reliable THEN p ELSE [p EXCEPT !.frags = <<>>]

\* The flush loop that ends every run: one packet leaves.
sendPacket ==
    /\ pc = "flush"
    /\ sendable > 0 /\ queue # <<>>
    /\ wire' = wire \union {Datagram(Head(queue))}
    /\ sendable' = sendable - 1
    /\ stageSending' = stageSending + stagesOf(Head(queue))
    /\ sending' = Append(sending, sent(Head(queue)))
    /\ queue' = Tail(queue)
    /\ UNCHANGED <<mainVars, runners, pc, job, buf, stage, stageAck>>

\* The write fails: sending is paused and the packet stays in the queue.
sendFailure ==
    /\ pc = "flush"
    /\ sendable > 0 /\ queue # <<>>
    /\ SendCanFail
    /\ sendable' = 0
    /\ pc' = "idle"
    /\ UNCHANGED <<mainVars, runners, job, buf, queue, sending, stageVars, wire>>

endRun ==
    /\ pc = "flush"
    /\ sendable = 0 \/ queue = <<>>
    /\ pc' = "idle"
    /\ UNCHANGED <<mainVars, runners, job, buf, queue, sending, stageVars, sendable, wire>>

sendingThread ==
    \/ startMessenger \/ writeFragment \/ endMessenger
    \/ startAcquiter \/ ackPacket \/ endAcquiter
    \/ startRepeater
    \/ sendPacket \/ sendFailure \/ endRun

-----------------------------------------------------------------------------
(* Correctness *)

WriterTypeOK ==
    /\ wState \in {"OPENED", "NEAR_CLOSED", "CLOSED", "CONSUMED"}
    /\ pending \in Seq(Message) /\ log \in Seq(Message)
    /\ wStageAck \in Nat /\ wLostCount \in Nat /\ repeating \in BOOLEAN
    /\ runners \in Seq(Runner)
    /\ pc \in {"idle", "write", "ack", "flush"}
    /\ job \in Job /\ buf \in Packet
    /\ queue \in Seq(Packet) /\ sending \in Seq(Packet)
    /\ stage \in Nat /\ stageSending \in Nat /\ stageAck \in Nat
    /\ sendable \in 0..SENDABLE_MAX

\* A sequence of packets covers the stages from + 1 .. to without hole,
\* overlap or empty packet.
Covers(packets, from, to) ==
    /\ packets = <<>> => from = to
    /\ packets # <<>> =>
         /\ packets[1].first = from + 1
         /\ LastStage(packets[Len(packets)]) = to
    /\ \A i \in 1..Len(packets) :
         packets[i].fragments > 0 /\ from < packets[i].first /\ LastStage(packets[i]) <= to
    /\ \A i, j \in 1..Len(packets) : i < j =>
         LastStage(packets[i]) < packets[j].first
    /\ \A i \in 1..(Len(packets) - 1) :
         packets[i + 1].first = LastStage(packets[i]) + 1

unsent == IF buf = NoBuffer THEN queue ELSE Append(queue, buf)

\* The three counters of RTMFPSender::Queue stay what the code reads in
\* them although three kinds of runners move them separately: `sending` is
\* exactly the stages after stageAck up to stageSending, the packets not
\* yet sent exactly those up to stage.  No stage is forgotten between the
\* two deques, none is in both.
EveryStageHeldOnce ==
    /\ Covers(sending, stageAck, stageSending)
    /\ Covers(unsent, stageSending, stage)

\* RTMFPSender.h, on the counters of the queue.
StageOrder == stageAck <= stageSending /\ stageSending <= stage

\* The repeat timer is armed as long as a message or a packet waits to be
\* sent: flush() would otherwise never start an RTMFPRepeater again.
UnsentKeepsTimer ==
    (queue # <<>> \/ pc = "write" \/ \E i \in 1..Len(runners) : runners[i].kind = "Messenger")
        => repeating

\* sendAbandon tells the receiver to give up every stage up to s: no packet
\* of a reliable message that is not acknowledged is among them, whatever
\* acknowledgments, repeats and new messages happened since.
AbandonSparesReliable ==
    \A d \in wire : d.frags = <<AbandonFragment>> =>
        \A i \in 1..Len(sending \o unsent) :
            LET p == (sending \o unsent)[i] IN p.reliable => d.first < p.first

\* The fragments of a datagram, by stage.
Carries(d) == [s \in d.first..(d.first + Len(d.frags) - 1) |-> d.frags[s - d.first + 1]]

\* A stage has one content: whatever is repeated after new messages were
\* written carries at each stage what was sent first.
StageIsStable ==
    \A d, e \in {x \in wire : x.frags # <<AbandonFragment>>} :
        \A s \in DOMAIN Carries(d) \intersect DOMAIN Carries(e) : Carries(d)[s] = Carries(e)[s]

=============================================================================
