------------------------------- MODULE Invoker -------------------------------
(***************************************************************************)
(* The Invoker, between the threads of the application, its own thread and *)
(* the thread that bufferizes medias.  The calls of the application queue  *)
(* an event for the Invoker and wait for its answer or for the end of the  *)
(* connection, which whoever sees it first removes.  A connection to a     *)
(* NetGroup can have a fallback, a second connection the Invoker opens     *)
(* when the group delivers nothing and closes at its first packet.         *)
(*                                                                         *)
(* What is done under _mutexConnections is one step; a waiting call looks  *)
(* again after 200 ms at most, the signal only makes it faster.  What goes *)
(* on in a session is reduced to its status, the packets to their count.   *)
(* An event that comes after its call has returned answers nobody.         *)
(***************************************************************************)
EXTENDS Integers, Sequences, FiniteSets, Functions

CONSTANTS
    Callers,            \* threads of the application
    MaxOpened,          \* bound: the application opens connections up to this index
    MaxConnections,     \* bound: connections and fallbacks created
    MaxCalls,           \* bound: calls made
    MaxPackets          \* bound: packets pushed

ASSUME InvokerAssumption ==
    MaxOpened \in Nat /\ MaxConnections \in Nat /\ MaxCalls \in Nat /\ MaxPackets \in Nat

Ids == 1 .. MaxConnections
NoId == 0
\* A session: entry is that of _waitingFallback its event refers to when it is
\* a fallback, failed (history) says that its group failed and has delivered
\* nothing since.
NewSession(entry) ==
    [status |-> "opening", entry |-> entry, joined |-> FALSE, failed |-> FALSE]
NewCall(call, kind, i) ==
    [call |-> call, kind |-> kind, id |-> i, ready |-> FALSE, mediaId |-> 0]
Idle == NewCall(0, "idle", NoId)

VARIABLES
    running, stopping,      \* Thread::running(), Thread::_requestStop
    lastIndex,              \* _lastIndex
    connections,            \* _mapConnections
    waitingFallback,        \* _waitingFallback
    buffers,                \* _connection2Buffer: id -> has each media packets?
    handler,                \* events of _handler
    pushed,                 \* packets queued in _threadPush
    caller,                 \* the call each thread is in
    calls, packets          \* counters for the bounds

mapVars == <<connections, waitingFallback, buffers>>
threadVars == <<running, stopping>>
countVars == <<calls, packets>>
invokerVars == <<threadVars, mapVars, lastIndex, handler, pushed, caller, countVars>>

InvokerInit ==
    /\ running = TRUE /\ stopping = FALSE
    /\ lastIndex = 0
    /\ connections = <<>> /\ waitingFallback = <<>> /\ buffers = <<>>
    /\ handler = <<>> /\ pushed = <<>>
    /\ caller = [c \in Callers |-> Idle]
    /\ calls = 0 /\ packets = 0

exists(i) == i \in DOMAIN connections
with(f, i, v) == [j \in DOMAIN f \cup {i} |-> IF j = i THEN v ELSE f[j]]
without(f, S) == Restrict(f, DOMAIN f \ S)

-----------------------------------------------------------------------------

\* Mutant of withFallback: the fallback is left to itself.
onlyItself(i) == {i}

\* The connections that go with i: its fallback, if it is still there.
withFallback(i) ==
    {i} \cup (IF i \in DOMAIN waitingFallback
              THEN {waitingFallback[i].idFallback} \cap DOMAIN connections ELSE {})

\* Mutant of removeConnection: the data that is saved stays.
removeButBuffer(i) ==
    /\ connections' = without(connections, withFallback(i))
    /\ waitingFallback' = without(waitingFallback, withFallback(i))
    /\ UNCHANGED buffers

\* removeConnection(it): the connection, its fallback, their data.
removeConnection(i) ==
    /\ connections' = without(connections, withFallback(i))
    /\ waitingFallback' = without(waitingFallback, withFallback(i))
    /\ buffers' = without(buffers, withFallback(i))

\* The session is created, and kept among the others if its connect() can send.
startFallback(i, others) ==
    IF waitingFallback[i].idFallback # NoId
    THEN connections' = others /\ UNCHANGED <<waitingFallback, lastIndex>>
    ELSE /\ lastIndex < MaxConnections
         /\ lastIndex' = lastIndex + 1
         /\ waitingFallback' = [waitingFallback EXCEPT ![i].idFallback = lastIndex + 1]
         /\ \/ connections' = with(others, lastIndex + 1, NewSession(i))
            \/ connections' = others

-----------------------------------------------------------------------------
(* The threads of the application *)

connect(c) ==
    /\ ~stopping /\ caller[c] = Idle
    /\ lastIndex < MaxOpened /\ lastIndex < MaxConnections
    /\ lastIndex' = lastIndex + 1
    /\ connections' = with(connections, lastIndex + 1, NewSession(NoId))
    /\ UNCHANGED <<threadVars, waitingFallback, buffers, handler, pushed, caller, countVars>>

\* connect2Peer and addStream ("stream"), connect2Group, a removeConnection
\* that blocks, waitForEvent and read.  The fallbacks' ids are not known.
Queued == {"stream", "group", "remove"}
enter(c, kind, i) ==
    /\ ~stopping /\ caller[c] = Idle
    /\ calls < MaxCalls
    /\ exists(i) /\ connections[i].entry = NoId
    /\ calls' = calls + 1
    /\ caller' = [caller EXCEPT ![c] = NewCall(calls + 1, kind, i)]
    /\ handler' = IF kind \in Queued
                  THEN Append(handler, [kind |-> kind, id |-> i, call |-> calls + 1])
                  ELSE handler
    /\ UNCHANGED <<threadVars, mapVars, lastIndex, pushed, packets>>

\* A removal that does not block; that of the last connection is refused.
removeLater(c, i) ==
    /\ ~stopping /\ caller[c] = Idle
    /\ calls < MaxCalls
    /\ exists(i) /\ connections[i].entry = NoId /\ Cardinality(DOMAIN connections) > 1
    /\ calls' = calls + 1
    /\ handler' = Append(handler, [kind |-> "remove", id |-> i, call |-> 0])
    /\ UNCHANGED <<threadVars, mapVars, lastIndex, pushed, caller, packets>>

leave(c) == caller' = [caller EXCEPT ![c] = Idle]

\* The loop of a call sees the answer.  connect2Group goes on.
answered(c) ==
    /\ caller[c].ready
    /\ IF caller[c].kind = "group"
       THEN caller' = [caller EXCEPT ![c].kind = "register", ![c].ready = FALSE]
       ELSE leave(c)
    /\ UNCHANGED <<threadVars, mapVars, lastIndex, handler, pushed, countVars>>

\* connect2Group then registers the fallback of a player.
registerFallback(c) ==
    LET i == caller[c].id
        new == [idFallback |-> NoId, mediaId |-> caller[c].mediaId,
                running |-> FALSE, switched |-> FALSE]
    IN
    /\ caller[c].kind = "register"
    /\ waitingFallback' = IF i \in DOMAIN waitingFallback THEN waitingFallback
                          ELSE with(waitingFallback, i, new)
    /\ leave(c)
    /\ UNCHANGED <<threadVars, connections, buffers, lastIndex,
                   handler, pushed, countVars>>

\* isInterrupted, in the loop of every call.
Looping == Queued \cup {"wait", "read"}
isInterrupted(c) ==
    LET i == caller[c].id IN
    /\ caller[c].kind \in Looping
    /\ \/ (~running \/ ~exists(i)) /\ UNCHANGED mapVars
       \/ running /\ exists(i) /\ connections[i].status = "closing" /\ removeConnection(i)
    /\ leave(c)
    /\ UNCHANGED <<threadVars, lastIndex, handler, pushed, countVars>>

\* The same, when the interrupt callback of the application asks for it.
userInterrupts(c) ==
    LET i == caller[c].id IN
    /\ caller[c].kind \in Looping
    /\ running /\ exists(i)
    /\ removeConnection(i)
    /\ leave(c)
    /\ UNCHANGED <<threadVars, lastIndex, handler, pushed, countVars>>

\* waitForEvent finds the event it waits for.
eventHappened(c) ==
    /\ caller[c].kind = "wait"
    /\ exists(caller[c].id) /\ connections[caller[c].id].status = "connected"
    /\ leave(c)
    /\ UNCHANGED <<threadVars, mapVars, lastIndex, handler, pushed, countVars>>

\* read of a media, which takes the packets that fit.
read(c) ==
    LET i == caller[c].id IN
    /\ caller[c].kind = "read"
    /\ \/ i \notin DOMAIN buffers /\ UNCHANGED buffers
       \/ /\ i \in DOMAIN buffers
          /\ \E m \in 1 .. MaxCalls :
                \/ m > Len(buffers[i]) /\ UNCHANGED buffers
                \/ /\ m <= Len(buffers[i]) /\ buffers[i][m]
                   /\ \E left \in BOOLEAN : buffers' = [buffers EXCEPT ![i][m] = left]
    /\ leave(c)
    /\ UNCHANGED <<threadVars, connections, waitingFallback, lastIndex,
                   handler, pushed, countVars>>

RTMFP_Terminate(c) ==
    /\ caller[c] = Idle
    /\ ~stopping /\ stopping' = TRUE
    /\ UNCHANGED <<running, mapVars, lastIndex, handler, pushed, caller, countVars>>

-----------------------------------------------------------------------------
(* The thread of the Invoker *)

\* Mutant of answer: a call that got no media is not answered.
answerIfMedia(call, mediaId) ==
    caller' = [c \in Callers |->
                  IF running /\ mediaId # 0 /\ call # 0 /\ caller[c].call = call
                     /\ caller[c].kind \in Queued
                  THEN [caller[c] EXCEPT !.ready = TRUE, !.mediaId = mediaId]
                  ELSE caller[c]]

\* The answer reaches the call if it is still waiting for it.
answer(call, mediaId) ==
    caller' = [c \in Callers |->
                  IF running /\ call # 0 /\ caller[c].call = call
                     /\ caller[c].kind \in Queued
                  THEN [caller[c] EXCEPT !.ready = TRUE, !.mediaId = mediaId]
                  ELSE caller[c]]

\* createMediaBuffer: the buffer of the connection is created in any case.
createMediaBuffer(i, ok) ==
    LET medias == IF i \in DOMAIN buffers THEN buffers[i] ELSE <<>>
    IN buffers' = with(buffers, i, IF ok THEN Append(medias, FALSE) ELSE medias)

\* onCreateStream, onConnect2Peer and onConnect2Group.  The session refuses
\* when it is not connected, or for a reason of its own.
onCreateStream ==
    LET event == Head(handler) IN
    /\ handler # <<>> /\ event.kind \in {"stream", "group"}
    /\ handler' = Tail(handler)
    /\ IF exists(event.id) /\ running
       THEN \E ok \in BOOLEAN :
               /\ ok => connections[event.id].status = "connected"
               /\ createMediaBuffer(event.id, ok)
               /\ connections' = IF ok /\ event.kind = "group"
                                 THEN [connections EXCEPT ![event.id].joined = TRUE]
                                 ELSE connections
               /\ answer(event.call, IF ok THEN Len(buffers'[event.id]) ELSE 0)
       ELSE answer(event.call, 0) /\ UNCHANGED <<buffers, connections>>
    /\ UNCHANGED <<threadVars, waitingFallback, lastIndex, pushed, countVars>>

onRemoveConnection ==
    LET event == Head(handler) IN
    /\ handler # <<>> /\ event.kind = "remove"
    /\ handler' = Tail(handler)
    /\ IF exists(event.id) THEN removeConnection(event.id) ELSE UNCHANGED mapVars
    /\ answer(event.call, 0)
    /\ UNCHANGED <<threadVars, lastIndex, pushed, countVars>>

\* A session connects; that of a fallback starts to play.
onConnectionEvent(i) ==
    /\ running /\ exists(i) /\ connections[i].status = "opening"
    /\ connections' = [connections EXCEPT ![i].status = "connected"]
    /\ waitingFallback' = IF connections[i].entry \in DOMAIN waitingFallback
                          THEN [waitingFallback EXCEPT ![connections[i].entry].running = TRUE]
                          ELSE waitingFallback
    /\ UNCHANGED <<threadVars, buffers, lastIndex, handler, pushed, caller, countVars>>

\* A session closes, by itself or because the server does.
sessionCloses(i) ==
    /\ running /\ exists(i) /\ connections[i].status # "closing"
    /\ connections' = [connections EXCEPT ![i].status = "closing", ![i].joined = FALSE]
    /\ UNCHANGED <<threadVars, waitingFallback, buffers, lastIndex, handler, pushed,
                   caller, countVars>>

\* The group of a session is given up (NetGroup), the session stays.
onNetGroupException(i) ==
    /\ running /\ exists(i) /\ connections[i].joined
    /\ LET left == [connections EXCEPT ![i].joined = FALSE, ![i].failed = TRUE] IN
       IF i \in DOMAIN waitingFallback /\ ~waitingFallback[i].running
       THEN startFallback(i, left)
       ELSE connections' = left /\ UNCHANGED <<waitingFallback, lastIndex>>
    /\ UNCHANGED <<threadVars, buffers, handler, pushed, caller, countVars>>

\* manage: nothing came from the group for some time.
manage(i) ==
    /\ running
    /\ i \in DOMAIN waitingFallback
    /\ waitingFallback[i].idFallback = NoId
    /\ ~waitingFallback[i].switched /\ ~waitingFallback[i].running
    /\ startFallback(i, connections)
    /\ UNCHANGED <<threadVars, buffers, handler, pushed, caller, countVars>>

\* run() leaves its loop and flushes the handler, then removes what is left.
threadStop ==
    /\ running /\ stopping /\ handler = <<>>
    /\ running' = FALSE
    /\ UNCHANGED <<stopping, mapVars, lastIndex, handler, pushed, caller, countVars>>

destroyConnections ==
    /\ ~running /\ connections # <<>>
    /\ connections' = <<>>
    /\ waitingFallback' = without(waitingFallback, DOMAIN connections)
    /\ buffers' = without(buffers, DOMAIN connections)
    /\ UNCHANGED <<threadVars, lastIndex, handler, pushed, caller, countVars>>

-----------------------------------------------------------------------------
(* Medias *)

\* A session has a packet for one of its medias, a fallback for its only one.
pushMedia(i) ==
    /\ running /\ packets < MaxPackets
    /\ exists(i) /\ connections[i].status = "connected"
    /\ \E m \in 1 .. MaxCalls :
          /\ IF connections[i].entry # NoId THEN m = 1 ELSE i \in DOMAIN buffers /\ m <= Len(buffers[i])
          /\ pushed' = Append(pushed, [id |-> i, mediaId |-> m])
    /\ packets' = packets + 1
    /\ UNCHANGED <<threadVars, mapVars, lastIndex, handler, caller, calls>>

\* The packet of a fallback goes to the media of its owner.
redirected(packet) ==
    LET mains == {i \in DOMAIN waitingFallback : waitingFallback[i].idFallback = packet.id}
    IN IF packet.id \in DOMAIN waitingFallback \/ mains = {} THEN packet
       ELSE LET i == CHOOSE j \in mains : TRUE
            IN [id |-> i, mediaId |-> waitingFallback[i].mediaId]

\* The packet is the first one of a connection that has a fallback.
isFirst(packet) ==
    packet.id \in DOMAIN waitingFallback /\ ~waitingFallback[packet.id].switched

\* Mutant of ended: a fallback that does not play yet goes on.
endedIfRunning(packet) ==
    IF isFirst(packet) /\ waitingFallback[packet.id].running
    THEN {waitingFallback[packet.id].idFallback} \cap DOMAIN connections
    ELSE {}

\* A fallback that is ended by the packet.
ended(packet) ==
    IF isFirst(packet) THEN {waitingFallback[packet.id].idFallback} \cap DOMAIN connections
    ELSE {}

\* A packet is dropped when its media is gone or waits for its codec.
bufferizeMedia ==
    LET packet == Head(pushed)
        to == redirected(packet)
        kept == without(buffers, ended(packet))
    IN
    /\ pushed # <<>> /\ pushed' = Tail(pushed)
    /\ connections' = [j \in DOMAIN connections \ ended(packet) |->
                          [connections[j] EXCEPT !.failed = @ /\ ~(j = packet.id /\ isFirst(packet))]]
    /\ waitingFallback' = IF isFirst(packet)
                          THEN [waitingFallback EXCEPT ![packet.id].running = FALSE,
                                                       ![packet.id].idFallback = NoId,
                                                       ![packet.id].switched = TRUE]
                          ELSE waitingFallback
    /\ \/ buffers' = kept
       \/ /\ to.id \in DOMAIN kept /\ to.mediaId \in DOMAIN kept[to.id]
          /\ buffers' = [kept EXCEPT ![to.id][to.mediaId] = TRUE]
    /\ UNCHANGED <<threadVars, lastIndex, handler, caller, countVars>>

-----------------------------------------------------------------------------

CallerStep(c) ==
    \/ answered(c) \/ registerFallback(c) \/ isInterrupted(c)

InvokerNext ==
    \/ \E c \in Callers :
          \/ connect(c) \/ CallerStep(c) \/ userInterrupts(c) \/ eventHappened(c) \/ read(c)
          \/ RTMFP_Terminate(c)
          \/ \E i \in Ids : removeLater(c, i) \/ \E kind \in Looping : enter(c, kind, i)
    \/ onCreateStream \/ onRemoveConnection
    \/ \E i \in Ids :
          \/ onConnectionEvent(i) \/ sessionCloses(i) \/ onNetGroupException(i) \/ manage(i)
          \/ pushMedia(i)
    \/ threadStop \/ destroyConnections
    \/ bufferizeMedia

\* The thread of the Invoker runs its events and a call that waits looks
\* again.  Neither a server nor the application has to do anything.
InvokerSpec ==
    /\ InvokerInit /\ [][InvokerNext]_invokerVars
    /\ WF_invokerVars(onCreateStream \/ onRemoveConnection)
    /\ \A c \in Callers : WF_invokerVars(CallerStep(c))

-----------------------------------------------------------------------------

Sessions == [status : {"opening", "connected", "closing"}, entry : Ids \cup {NoId},
             joined : BOOLEAN, failed : BOOLEAN]
Entries == [idFallback : Ids \cup {NoId}, mediaId : Nat, running : BOOLEAN, switched : BOOLEAN]
Calls == [call : Nat, kind : Looping \cup {"idle", "register"}, id : Ids \cup {NoId},
          ready : BOOLEAN, mediaId : Nat]
Events == [kind : Queued, id : Ids, call : Nat]

(***************************************************************************)
(* Every variable keeps its type; the indexes used are those given.        *)
(***************************************************************************)
InvokerTypeOK ==
    /\ running \in BOOLEAN /\ stopping \in BOOLEAN
    /\ lastIndex \in 0 .. MaxConnections
    /\ connections \in [DOMAIN connections -> Sessions]
    /\ waitingFallback \in [DOMAIN waitingFallback -> Entries]
    /\ buffers \in [DOMAIN buffers -> Seq(BOOLEAN)]
    /\ DOMAIN connections \cup DOMAIN waitingFallback \subseteq 1 .. lastIndex
    /\ handler \in Seq(Events)
    /\ pushed \in Seq([id : Ids, mediaId : Nat])
    /\ caller \in [Callers -> Calls]
    /\ calls \in 0 .. MaxCalls /\ packets \in 0 .. MaxPackets

(***************************************************************************)
(* A media buffer belongs to a connection: whichever thread removes the    *)
(* connection, and whatever events for it are still queued, no buffer of   *)
(* it is left or made again.  The buffers have a mutex of their own.       *)
(***************************************************************************)
BuffersOfConnections == DOMAIN buffers \subseteq DOMAIN connections

(***************************************************************************)
(* The event of a fallback session refers to an entry of _waitingFallback: *)
(* while the session can raise it the entry exists and is the one of this  *)
(* session, which is how it is found and closed with its owner.            *)
(***************************************************************************)
FallbackHasItsEntry ==
    \A i \in DOMAIN connections :
        LET entry == connections[i].entry IN
        entry # NoId => /\ entry \in DOMAIN waitingFallback
                        /\ waitingFallback[entry].idFallback = i

(***************************************************************************)
(* Once the group delivered, its fallback is closed and none is started    *)
(* unless the group fails: the timeout, a session that was still           *)
(* connecting or a packet that was still queued do not bring it back.      *)
(***************************************************************************)
SwitchEndsFallback ==
    \A i \in DOMAIN waitingFallback :
        waitingFallback[i].switched /\ ~(exists(i) /\ connections[i].failed) =>
            /\ waitingFallback[i].idFallback = NoId /\ ~waitingFallback[i].running
            /\ \A j \in DOMAIN connections : connections[j].entry # i

(***************************************************************************)
(* A call that asks the Invoker for something returns; one that waits for  *)
(* an event or for data returns once the connection closed or was removed  *)
(* by another thread, or the Invoker stopped.                              *)
(***************************************************************************)
mustReturn(c) ==
    \/ caller[c].kind \in Queued
    \/ caller[c].kind \in Looping
       /\ (~running \/ ~exists(caller[c].id) \/ connections[caller[c].id].status = "closing")
CallsReturn == \A c \in Callers : mustReturn(c) ~> caller[c] = Idle
=============================================================================
