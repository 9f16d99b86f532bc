# A verification project for librtmfp

librtmfp is a C++ client library for RTMFP, the peer-to-peer media protocol of
Flash.  An application connects to a server, publishes and plays streams, alone,
from peer to peer, or in a NetGroup whose members exchange the fragments of a
stream.  This directory holds TLA+ models of its core, the TLC configurations
that check them, and proofs checked by TLAPS.

Sections: 1 inventory, 2 modules and how they correspond to the code, 3 runs,
4 fairness, 5 proofs, 6 disagreements between the code and its comments, 7 what
is left out, 8 plan.

## 1. Inventory of the system

| Component | State it keeps | Operations | Talks to |
|---|---|---|---|
| `RTMFPWriter` (sources/RTMFPWriter.cpp) | state, messages not flushed, `_stageAck`, `_lostCount`, repeat timer | newMessage/write, flush, acquit, repeatMessages, close, consumed | hands runners to a pool thread |
| `RTMFPSender` and its runners (RTMFPSender.cpp) | `Queue`: unsent packets, `sending`, `stage`, `stageSending`, `stageAck`; `Session::sendable` | Messenger, Acquiter and Repeater `run`, the flush loop | UDP socket |
| `RTMFPFlow` (RTMFPFlow.cpp) | `_stage`, `_stageEnd`, `_fragments`, `fragmentation`, `_pBuffer` | input, onFragment, output, buildAck | FlashStream above it |
| `FlowManager` (FlowManager.cpp) | session status, flows, writers, keys, address, ping | receive (address or packet), send, manage, close, flushWriters, createFlow, removeFlow | writers, flows, handshake |
| `RTMFPHandshaker`, `RTMFPSession`, `P2PSession` | handshakes by tag and cookie, attempts, addresses, concurrent connections | handshakes 30/38/70/71/78, retries, removal | server, peers |
| `NetGroup` | heard, died, best and connected peers | add, connect, disconnect, build the best list, clean | P2PSessions, GroupMedia |
| `GroupMedia`, `PeerMedia` | fragments by id and by time, pull and push state, fragments maps | add, push, pull and time-out, map update, erase old | GroupBuffer, peers |
| `GroupBuffer` | fragments waiting for reassembly, by media, in a thread of its own | add, remove, start processing | Invoker |
| `Thread`, `Signal`, `ThreadQueue`, `ThreadPool` (Base) | `_stop`, `_requestStop`, the signal, `_runners` | queue, start, stop, join, the loop of the OS thread | everyone that sends |
| `Invoker` and the C interface | connections, read and write buffers, fallbacks | connect, read, write, close, run | application threads, Handler |
| `Publisher`, `Listener` | listeners of a publication, start times | start, stop, push audio, video and data | writers, groups |
| `FlashConnection`, `FlashStream`, AMF | parsing of stream messages | | flows |

What is hard in it:

* **Two threads share every writer.**  The session's thread never touches the
  packets; it queues runners.  Three kinds of runners move packets between two
  deques and update three counters in whatever order they were queued.
* **UDP.**  Datagrams and acknowledgments are lost, duplicated and reordered.
  Unreliable messages are abandoned by a fragment that is itself reordered.
* **Threads that come and go.**  A pool thread ends by itself after two idle
  minutes, while others queue runners and ask it to stop.
* **A window.**  Only an acknowledgment lets a session send again.
* **Time-outs and retries** in the handshakes, the close of a session and the
  pull requests of a group; **several addresses and two initiators** for one P2P
  session.

What makes each component correct: a writer loses, renumbers and duplicates no
stage; a flow delivers whole messages, in order, at most once and skips only
unreliable ones; the counters that trigger congestion are exact; a runner that
is queued is run once and in order; a stop returns and has drained the queue; a
handshake ends with one session per peer and equal keys at both ends; a group
media delivers what it has in order and stops asking for what it got.  The
hazards, each at its line, are in `PROJECT.json`; a few that no model reaches are at the
end of section 6.

## 2. Modules

### RTMFPWriter: the sending half of a flow

State and code: `pending` is the RTMFPMessenger in `_pSender`; `queue`,
`sending`, `stage`, `stageSending`, `stageAck` are the fields of
`RTMFPSender::Queue`; `buf` is the packet that `RTMFPMessenger::write` is
filling; `repeating` is `_repeatDelay != 0`; `runners` and `pc` are the queue of
the pool thread and what it is doing.  The actions on the session's thread are
`newMessage`, `flush` (three alternatives), `acquit` (progress, new losses,
obsolete), `close`, `consumed`.  The pool thread runs one runner after the
other, and each turn of its loops that moves a packet is one step
(`writeFragment`, `ackPacket`, `sendPacket`), so acknowledgments and writes of
the session interleave with them.  The Repeater's walk over `sending` is one
step: only the pool thread touches what it reads.

Data: a packet holds `Capacity` units of content and headers are free; a message
is an identifier, a size and its reliability.  The repeat timer may expire at
any moment while it is armed.

`RTMFPWriterAlone` closes the module with a peer that may acknowledge any stage
and announce any number of losses at any time, also ones it never received.

### RTMFPFlow: the receiving half

One thread owns a flow, so its methods are operators on a record of its fields.
`input` is the whole of `RTMFPFlow::input`: the test for a completed flow, the
known end, the duplicate, the ABANDON branch, the buffering beyond a gap, the
loop that hands on what the gap held back, and the end signal.  `buildAck`
returns the stage and the ranges that the code writes in a 0x51 message.
`delivered` and `ended` are histories of the calls of `output`.

### RTMFPChannel: one direction of a session

Composes writer and flow through `FlowManager::receive`: the 0x10 and 0x11
messages of a datagram create the flow or find it, are given to it one by one
with the congestion test after each, and are answered by one acknowledgment; an
unknown flow is answered by a negative one.  With `CanDuplicate` the two sets of
messages in flight only grow, which is loss, duplication and reordering at once;
without it a message is consumed by its delivery.

`MessageStream` is the abstract specification: a log of written messages and a
sequence of delivered identifiers.  The channel implements it with
`delivered <- DeliveredIds, ended <- flow.ended`.

### ThreadQueue: a thread of the pool

Every access to shared state is a step: the mutex of the list, the mutex of the
thread, the signal, `_stop` and `_requestStop`.  `caller` is the program counter
of each calling thread and `worker` that of the OS thread.  `GroupBuffer` has the
same loop and the same entry points.  The constructor leaves `_requestStop`
uninitialised: Init takes both values.

`RunnerQueue` is the abstract specification: runners are executed once, in the
order of the calls, and all of them.  It is what `RTMFPWriter` assumes of its
sending thread, and `ThreadQueue` implements it.

### GroupBuffer and GroupReception: a player of a group media

`GroupBuffer` is the buffer's thread: `requests` is `_waitingRequests`, and
`exists`, `fragments`, `currentId`, `started` are the `MediaBuffer`.  Taking a
request is a step; each call of `processFragment` in the loop that follows is
another, with `itFragment` as the iterator, and one action per outcome of the
call.  `stream` is what the publisher made of its messages (`onMedia` splits them,
with its UInt8 counter), so a fragment is an index in it; `pushed` is the history
of the packets given to the application and `resets` counts how often unread
fragments were removed.

`GroupReception` adds the window that `GroupMedia` keeps (`stored`, and the time
references in `references`): `onFragment` is `_onFragment` with `addFragment` for a
fragment that is not ignored, `eraseOldFragments` the whole of that function,
`deleteMedia` the end of a media in `NetGroup::manage`.  Any fragment may arrive at
any time and again after it was removed, which stands for several neighbours that
push it and for pulls that are repeated; processing may be started at any moment,
since three places of `sendPullRequests` and `_onFragment` ask for it, some of them
more than once.

### P2PSessions: two peers that connect to each other

`session` is the P2PSession that each peer has for the other (`_mapPeersById` and
`_mapSessions`), `handshakes` the handshaker's `_mapTags`; `_mapCookies` is the set of
those that have a cookie.  The id of a session stands for its random tag and its two
random nonces as well; the keys of a session are the pair of nonces they are computed
from.  `other(p)` has its own copy of all this, and the peers' ids are numbers, since
only their order matters (`_parent->peerId() > peerId`).

One action per handler: `connect2Peer` with `startHandshake`; the attempts of
`processManage` (`sendHandshake30`, `sendHandshake38`, `lastAttempt`,
`releaseCookie`); `handleHandshake30` with `sendHandshake70`, `handleHandshake70` with
the 38 it sends, `sendHandshake78` with `onNewPeerId`, `onHandshake38` and
`computeKeys` (a new session, one that takes the handshake, one that refuses it);
`sendConnect` and `receiveData` with `onConnection` and the group's refusal;
`close`, `receiveClose`, `repeatClose`, `deleteSession`, `removePeer`.  A handshake's
status is not a variable: for a handshake with a session it follows from the session's
status and from whose tag it has.  The network only grows, so every message may arrive
late, again or never; timers may expire at any moment, except in the liveness run.
HANDSHAKE30 is merged with STOPPED and HANDSHAKE70 is never the status of a session.

### FragmentsMap and FragmentsExchange: what a neighbour believes we hold

`FragmentsMap` holds the pure part: `updateFragmentMap` writes the id of the last
fragment and a string of bytes, `handleFragmentsMap` stores them in the PeerMedia of
the neighbour, `hasFragment` reads a bit.  A byte is the set of its bits, of which
there are `ByteBits`.  Both writers are there, the faster one of the publisher and the
loop of a player with its early end, and the places they do not write hold anything.

`FragmentsExchange` is one member (`fragments`, `endFragment`) and one neighbour
(`map`) with the history `announced` of what was held when the last accepted map was
written.  It adds fragments in order (publisher) or in any order (player), erases old
ones, closes, and sends its map when the last fragment has changed.

### GroupMedia: push and pull of a player

The other half of `GroupMedia.cpp`: where the fragments come from.  `pushInMode` is
that of each PeerMedia as a set of bits, `mapPushMasks` gives each bit its pusher and
the last fragment that one sent; the three iterators on `_mapPeers` are a neighbour or
`End`; `waiting` is `_mapWaitingFragments`, `mapIds` the ids in
`_mapPullTime2Fragment`.  One action per callback or part of `manage`:
`handleFragmentsMap` (`_onFragmentsMap`, with the first push request), `onFragment`
(`_onFragment` with `addFragment`), `managePush`, `sendFragmentsMap` with
`eraseOldFragments`, `pausePull`, `firstPullRequests`, `pullRequests` (the three exits
and the loop of `sendPullRequests`), `addPeer`, `onPeerClose`, `deleteMedia`.
`subtractMask` is the subtraction of bytes that the code does, with its borrow.
`pullStart` is a history: where the first pull began.

There is no clock, and a neighbour announces and sends any fragment at any time, asked
or not, several times or never, so pulls that are answered late, retried and duplicated
need no action of their own.

### NetGroup: who is a neighbour

`heard`, `died`, `mapPeers` and `bestList` are the lists of the class, `session` is the
status of the P2PSession of each member, so that the module spans `NetGroup`,
`RTMFPSession` and the parts of `P2PSession` and `RTMFPHandshaker` that tell the group
what happened.  An action is a whole handler, through all these classes:
`handleNewGroupPeer` (with `connect2Peer`, `p2pNewPeer` and `newGroupPeer`),
`onNewPeerId`, `onHandshake38` that gives way, `onConnection` with `addPeer`,
`removeHandshake`, `handlePeerDisconnection`, `close`, `deleteClosed`, `onGroupReport`,
`manageBestList`, `cleanHeardList`, `manageFails`.  Which members the best list takes
among more than `ClosestPeers` depends on addresses and latencies and is left open.
`sought` is the history of the sessions that the best list began.  The constructor leaves
`_startedBestList` uninitialised: Init takes both values.

### Invoker: the threads of the application

`connections`, `waitingFallback` and `buffers` are the three maps, the first two under
`_mutexConnections`, the last one under `_mutexRead`; what is done under the first mutex is one
step.  `handler` is the queue of events for the Invoker's thread, `pushed` the queue of
packets for the thread that bufferizes medias, `caller` the call that each thread of the
application is in.  A call that waits looks again every 200 ms (`DELAY_BLOCKING_SIGNALS`),
so the signal needs no variable.  `connect`, `enter`, `answered`, `registerFallback`,
`isInterrupted`, `eventHappened`, `read` and `removeLater` are the threads of the
application; `onCreateStream` (for the three events that create a media),
`onRemoveConnection`, `onConnectionEvent`, `onNetGroupException`, `manage`,
`threadStop` and `destroyConnections` are the Invoker's thread; `bufferizeMedia` with
`redirected` and `ended` is the third one.  `removeConnection` can be called by all of
them.

## 3. Runs

| Run | Configuration | Result | What it asks |
|---|---|---|---|
| writer_alone | RTMFPWriterAlone.cfg | pass | Do the two threads keep packets, stages and timer consistent against any peer, failing sends and closes? |
| channel_delivery | ChannelDelivery.cfg | pass | Whole, in order, at most once over a bad network, with congestion and a close at any moment, nothing after the end? Do acknowledgments tell the truth? |
| channel_live | ChannelLive.cfg | pass | Is every reliable message delivered when UDP only reorders? |
| thread_queue | ThreadQueue.cfg | pass | No runner without a thread, no lost wake-up? Does a stop drain and return? Is every runner run, once and in order? |
| group_reception | GroupReception.cfg | pass | Whole messages, no gap, nothing ready that waits, while the window moves? Are the "implementation error" branches dead? |
| group_reception_live | GroupReceptionLive.cfg | pass | Does a reader go on when every fragment arrives? |
| p2p_sessions | P2PSessions.cfg | pass | Do handshakes and sessions always agree about each other? Same keys at both ends, no step back, whatever is closed, removed, repeated or late? |
| p2p_live | P2PLive.cfg | pass | Do both ends connect when nothing fails, also when they start at the same time? |
| fragments_map | FragmentsExchange.cfg | pass | Does the neighbour read exactly what was held, for every window, publisher and player? |
| group_media | GroupMedia.cfg | pass | Do iterators, masks, pulls and window stay consistent while neighbours come and go and fragments come as they like? |
| net_group | NetGroup.cfg (module MCNetGroup) | pass | Do the lists of the group agree with the sessions, and does the unsigned count of attempts cover what it counts? |
| invoker | Invoker.cfg | pass | Do buffers, fallbacks and calls survive every interleaving of removal, shutdown, time-out and first packet? Does every call return? |

Bounds and why they are enough:

* Two messages of sizes 1 and 3 with packets of 2 units: a message that fits, one
  that is split, two in one packet, a part of one and the beginning of the next in
  one packet, and a change of reliability between them.  That gives up to five
  stages and three packets, which is the least that has a packet before, in and
  after a hole.
* `SENDABLE_MAX` of 2 is smaller than the number of packets, so that the
  window closes; the code's value is 6.
* `Acks = 0..3`, `Losses = 0..1` for the free peer: behind, inside, at and beyond
  what was sent.
* `RecvBufferSize = 3` is exceeded by two buffered fragments, so congestion
  happens; in the liveness runs it is out of reach.
* `MaxRunners` bounds the acknowledgments that wait for the pool thread; in the
  liveness runs it is never reached.  `MaxVolume` bounds the content written: 4 units
  with a close in the delivery run (one message of each size), 6 in the liveness run.
* Two producers, two stoppers, three runners and two stops: a start during a
  stop, a stop during a start, and a restart after both.
* `UInt8Range = 4` instead of 256, and messages of 1, 2, 3 and 5 fragments: alone,
  split with and without a NEXT, and one whose counter wraps, which becomes the lone
  END of the code's special case.  Three messages in at most six fragments: one
  before, in and after a hole.  A message of exactly 4 is left out: it stands for
  one of 256, for which the code breaks `MessagesMerged` (section 6).
* `MaxTime = 3` and a window of 1: three references that span more than the
  window, as the test of the age needs, and two removals.
* Two sessions, two cookies and one attempt of each kind for each peer: a session that
  is removed and begun again while messages of the first are on their way, one handshake
  taken over by another, and two that cross.  The liveness run has one session for each
  peer and no failure.

* `ByteBits = 2` and six fragments: maps of no byte, one, two and three, the last one full
  or not, windows that begin anywhere, and the first fragments of the stream, where the
  loop of a player ends early.
* Two neighbours, four fragments of which two are references, one bit of mask and
  `MinReferences = 1`: the pull begins at the second fragment at the latest and has a
  hole to find behind it; both roles of a pusher; a removal of old fragments under the
  pull.  Borrows between masks need two bits: the proof has any number of them.
* Three members (interchangeable, hence the symmetry) and `ClosestPeers = 1`: a best
  list that has to choose, an attempt in each list, one dead and one connected at the
  same time.  `MaxTries = 5` attempts are more than `MinTries = 2`, 10 in the code.
* Two threads, two connections and one fallback, two calls and two packets: a removal
  during a call, one for each of the two connections, a packet of the fallback before and
  after the first one of the group.

Deadlock is not checked: the bounds end every behaviour.

Some invariants are proved and are in no configuration, since they add little to what a
run asks: `P2PTypeOK`, `ThreadQueueTypeOK`, `InvokerTypeOK`, `StageOrder` (from
`EveryStageHeldOnce`), `PendingMeansRunning` (the runs check it as a part of
`ImplementsRunnerQueue`), `DeadStayOut`, `WaitsForMissing`.  Each can be added to the
configuration of its module.

## 4. Fairness

`ChannelFairness`: the session's thread calls `flushWriters` at each `manage`,
hence weak fairness of `flush`; the pool runs the runners it is given, which
`ThreadQueue` shows; a datagram or acknowledgment that is not lost arrives.
`ThreadQueueFairness` is weak fairness of the OS thread and of
every thread that is inside a call; nobody has to begin one, so a stop must return
without the help of later calls.
`ReceptionLive`: the thread of the buffer runs (weak fairness), and every fragment
of the stream arrives, since `sendPullRequests` asks for a hole again and again.
The second is strong fairness only because the bound `MaxRequests` disables the
arrival for a moment; the deque of the code has no bound.
`P2PFairness`: what is sent arrives (one arrival that changes something is taken as
long as there is one), `manage` repeats the 30 until it is answered, and a connected
session sends its ping.
`InvokerSpec`: the thread of the Invoker runs the events of its handler, and a call that
waits looks again after 200 ms at most (weak fairness of `CallerStep` for each thread).
Nothing is asked of the servers, of the other threads or of the application:
`CallsReturn` demands a return only when an event was queued or the connection closed.

## 5. Proofs

`RTMFPWriterProofs` (module RTMFPWriterAlone, for every size, capacity, window and
set of acknowledgments, assuming only `WriterAssumption` and `AloneAssumption`):

* `WriterTypeCorrect`: types, no underflow, `sendable <= SENDABLE_MAX`.
* `StagesHeldOnce`: `EveryStageHeldOnce`.  The argument is about `Covers(packets,
  from, to)`: appending a packet that starts at `to + 1`, growing the last
  packet, and removing the first one keep a sequence of packets a partition of an
  interval.  The invariant says this of `sending` with the counters `stageAck`
  and `stageSending`, and of the unsent packets together with the packet being
  filled.
* `StagesOrdered`: the order of the counters follows, since an interval is not
  negative.
* `AbandonIsSafe`: every abandon on the network is behind every reliable packet
  that is held.  It needs the partition, because only the order of the stages
  tells that a packet written later is beyond an old abandon.
* `TimerArmed`: the timer is armed while something is unsent.  The inductive form
  also says which runners and which program counters imply unsent packets.
* `StageContentIsStable`: `StageIsStable`.  The writer follows a *script*, a sequence
  with one fragment per stage that only grows (`nextScript`); no variable holds it, the
  invariant `ScriptInv` says that there is one and that every packet and every datagram
  reads it.  It relies on the partition of the stages: a packet takes the next stages
  and no other.

`RTMFPChannelProofs` (module RTMFPChannel, for every size, capacity, window, reception
buffer and volume; nothing assumed but `WriterAssumption` and `ChannelAssumption`).  The
argument continues the one of the script:

* The script cuts the messages of the log one after the other (`WellCut`: a fragment
  follows the one before within its message or begins the next message, and END comes
  last), also while messages wait in `pending`, in runners and in the messenger's hands
  (`QueuedInv`, `WrittenInv`).
* The flow reads the script.  `FlowOk(flow, h, log, n)` says that what it has delivered
  and holds in its buffer is explained by the script up to its stage, and that
  `fragments` holds stages of the script beyond a gap.  It is kept by `onFragment`
  for one stage, by `unbuffer`, by ABANDON and by a whole datagram.
* The two ends agree.  Neither `stageAck` nor any acknowledgment that travels, waits in a
  runner or is being read is beyond the flow's stage, or inside a packet that the sender
  keeps (`AckInv`, `Uncut`).  An abandon only jumps over unreliable stages
  (`AbandonedInv`).  A datagram holds all stages of a packet that is kept or none
  (`ApartInv`), since packets are repeated whole, and so the receiver has all of them or
  none (`WholeInv`): this is why an acknowledgment never releases a packet of which a
  part is missing.
* `ChannelInv(h)` is all of this for a script `h`, and the inductive invariant is that
  there is one.  From it: `DeliveriesAreWhole`, `ForgottenIsReceived`, and
  `AcknowledgmentIsExact`, for which `buildAck` is shown to go from one run of buffered
  stages to the next and `announced` to read them back.
* `ChannelIsStream`: the channel implements `MessageStream`.  The mapped variables are
  the ids delivered, the log and the end of the flow; a datagram maps to as many
  deliveries as it completes, which the abstract step allows, everything
  else to a write or a stutter.
* `CounterIsExact`: `FragmentationExact`.  `sizeOf` adds the sizes in the order in which
  CHOOSE visits the stages; it is compared with a sum along the stages (`SumTo`), which
  does not depend on that order.
* `ChannelKeepsWriter`: every step of the channel is one of the writer that
  `RTMFPWriterProofs` is about, so that its invariants hold here too, also when the session is
  closed under it.

`ThreadQueueProofs` (for any numbers of producers and stoppers and any bounds):

* The inductive invariant `ThreadQueueInv` says who holds the two mutexes at each
  program counter (`LockInv`), what `_stop` is at each point of a start and at
  each point of the OS thread (`StopInv`), that runners exist only for a serving
  thread (`WorkInv`), and that executed runners, the batch and the waiting runners
  are consecutive numbers (`OrderInv`).
* From it: `ThreadQueueTypeCorrect`, `PendingServed`, `WakeUpNotLost`,
  `JoinLosesNothing`, and `RefinesRunnerQueue`, the safety part of
  `ImplementsRunnerQueue`.

`GroupReceptionProofs` (for every stream of fragments, window, clock and number of
waiting requests, assuming `UInt8Assumption` and `ReceptionAssumption`):

* `ReceptionTypeCorrect`: the loop never continues on an erased fragment.  It needs
  that a non-empty set of numbers has a smallest element (`HasSmallest`, from the
  well-foundedness of `<`), and a largest one if it is bounded (`HasLargest`).
* `ReferencesFound`: references grow with time, so that the first one kept has the
  smallest id, and the window keeps everything from the fragment before it.
* `RemovalIsSafe`: `QueueInv` says that a waiting removal has its buffer or waits
  behind the fragment that creates it, that the same holds for one that may still be
  asked for, and that nothing waits behind the removal of the buffer.
* `NothingSkipped`: `GapInv` ties the last packet pushed since the last reset to
  `currentId`, except when the media is gone for good, which needs `QueueInv`.
* `PacketsAreMessages` and `CompleteIsRead`: `MessagesMerged` and `NothingReadyWaits`.
  `PublishedLayout` shows by induction over the messages what `publishedStream` is: each
  message is a run of ids that counts down to its last one, with a START first if there
  are several.  `MergeInv` says that `currentId` is 0 or the last id of a message, and
  that whenever the next message is complete the loop is on one of its fragments.  Both
  theorems have the hypothesis `NoFullMessage`: no message has exactly as many fragments
  as a UInt8 counts.  It is needed, the code breaks both without it (section 6).

`P2PSessionsProofs` (for any two peer ids and any numbers of sessions, cookies and
attempts, assuming `PeersAssumption`):

* All variables but the network belong to one peer, so the invariant is `LocalInv` of the
  state of one peer, and `LocalStep` lifts it.  Its core is `Owned`: a handshake with a
  session and a session that is not connected name each other, the handshake that an
  initiator started has no cookie (so that the handshake a 38 finds by its cookie is never
  the one that is erased by the take-over), and only responders are in HANDSHAKE78.
* One lemma for each thing that happens to a peer's maps (`CloseLocal`, `TakenOver`,
  `EraseLocal`, ...), one for each group of actions, then `P2PTypeCorrect`,
  `SessionPointersSafe` and `ConnectingOwned`.
* `SessionsMoveForward`: `Staged` says that a session has no keys and is no responder before
  HANDSHAKE78 or the connection, so that a 38 or a 78 only sets keys that were not set.
  `MovesOf` is what each action does to the session of its peer.
* `KeysMutual`: keys are `Earned`, by the nonce of the session and one that was received in
  a 38 or a 78, and a message is `Truthful` about its sender: who sent a 38 is an initiator
  or has given way, which only the peer of the smaller id does, and who sent a 78 is a
  responder for ever.  Two ends that name each other cannot both have given way, nor both
  be initiators, so one has each role and their nonces agree.

`GroupMediaProofs` (for any number of neighbours, fragments and masks, assuming
`GroupMediaAssumption`):

* `GroupMediaTypeCorrect` needs that `getNextPeer` ends on a neighbour (`NextIsPeer`) and
  that the iterator of a peer that leaves goes to another one or to `End`.
* `PushersKnown` and `MasksStayPushed`: a mask is only subtracted from one of two
  neighbours that both push it, so the invariant `PusherWasAsked` gives both that the
  subtraction never borrows and that the other one goes on.
* `NoHoleForgotten` and `AskedIsMissing`: the pull moves over a fragment only when it is
  stored or waited for, the window removes both kinds below the same fragment, and a
  removal keeps a reference behind everything that it removed.

`NetGroupProofs`, on the fragments maps (module FragmentsExchange, for any width of a byte
and length of the stream, assuming `ByteBitsAssumption` and `ExchangeAssumption`):

* `BeliefIsExact`: `BeliefExact`.  The arithmetic of the places is in four lemmas about
  quotient and remainder (`RoomForAll`: the last byte has room for the last fragment;
  `NoByteTooMany`: no byte begins beyond the window, so that the loop of a player ends
  early only at the start of the stream), and `BitOfFragment` says that a bit and its
  fragment find each other.  The invariant adds that a publisher has no hole between two
  fragments, which justifies its "faster treatment".

`NetGroupProofs`, on the group (module NetGroup, for any finite set of members and any
limits, assuming `NetGroupAssumption`): the five invariants are inductive together (`GroupInv`).
`CountCoversAttempts` is arithmetic about cardinals: whatever takes one from `countP2P`
takes a session out of "initiating" too (`OneLess`), and whatever starts sessions counts
them (`AtMostAdded`); `NetGroupTypeCorrect` follows.

`InvokerProofs` (for any number of threads, connections, calls and packets, assuming
`InvokerAssumption`): `InvokerInv` adds to the invariants that a fallback has no
fallback, that the index in an entry was given to the fallback of this entry and to no
other session, and that calls are about indexes the application knows.  With it a
removal that takes one fallback along takes all sessions that refer to the entry
(`FallbacksFindTheirEntry`), and a switch ends the only one there is (`SwitchIsFinal`).

Recursive definitions are functions (`flowAfter`, `unbuffer`, `buildAck`, `sizeOf`,
`publishedStream`, ...).  The rule of induction of the library takes an operator, which
the provers cannot instantiate, so `Induction` and `SetInduction` state it for a set of
numbers, from the well-foundedness of `<`; each recursive function is then shown to exist before its equations
are used (`FlowAfterExists`, `PublishedExists`).

Every invariant and every action property that a run checks is also a theorem.  Only
model-checked are the liveness properties `ReliableDelivered`, `StopReturns`,
`ReadingGoesOn`, `BothConnect` and `CallsReturn`, and the fairness part of the refinement
of `RunnerQueue` in `ImplementsRunnerQueue` (`RefinesRunnerQueue` is its safety part):
they need ENABLED and fairness, which this prover does not handle.

## 6. Where the code and its comments disagree

Behaviours of the models that no run of the project asks about: the runs ask what
holds.  Each was seen as a counterexample to the sentence that is quoted:

* RTMFPWriter.cpp:91, "nothing to repeat, stop repeat": `repeatMessages` stops the timer
  when the deque of unsent packets is empty.  The packets to repeat are in `sending`:
  when the last packets of a burst are lost nothing repeats them until another message
  is written.
* RTMFPFlow.cpp:93, "END has always ABANDON too => no data lost!": an END that
  overtakes data on the network makes the receiver skip it.
* P2PSession.cpp:479, "Reset parameters (concurrent connection or old handshake)":
  a responder in HANDSHAKE78 takes the new handshake of a peer that was removed and
  began again, and answers it, but keeps the keys and the far id of the old one
  (RTMFPHandshaker.cpp:457).  The new initiator is connected and nothing it sends can
  be decoded, until the cookie is released after 95 s.
* RTMFPSender.cpp:93, "pause sending!": only an acknowledgment ends the pause, and there
  may be none to come when nothing is in flight.  Seen with `SendCanFail`,
  `SENDABLE_MAX = 1` and fair writes in `RTMFPChannel`.
* GroupBuffer.cpp:179, "Try to process again the fragments": the loop ends at a NEXT or
  END at the head of what remains, which is what `eraseOldFragments` usually leaves there;
  the complete messages behind it wait.
* FlowManager.cpp:266, "no more place to write": the same acknowledgment is sent
  for a flow that is not known yet (line 371), and closes the session.  The abandon
  of an unreliable message, written without the options of the flow, is enough when
  it arrives before the message.
* Thread.cpp:184, "mutex it to avoid a Signal::reset before on start call!": the
  signal is protected, `_requestStop` is not, so a start between the two halves of a
  stop erases the request and the stop waits for the idle time-out of two minutes.
* GroupBuffer.cpp:237, "wait fulfil if there is a hole": a fragment that was
  erased because no START had been seen is kept by GroupMedia, which never hands it
  on again, so the hole stays until the window removes the message.  This is the last
  disjunct of `ReadingGoesOn`.
* GroupBuffer.cpp:217: `currentId` becomes 0 for a START with id 1, and 0 means
  that no start was found; the other parts are erased.
* GroupMedia.cpp:162, "We must ignore fragments too old": not with two references
  or fewer, so that a late copy may be delivered again after a reset.  This is why
  `GaplessBetweenResets` says nothing across a reset.
* GroupBuffer.cpp:231, "Check if all splitted fragments are present": none is
  checked when there are 256, since `nbFragments` is a UInt8.

Group medias and fragments maps, as the models have them:

* A map of a single fragment has no bytes.  `PeerMedia::handleFragmentsMap` keeps the
  bytes of the last map with the new id, or those of a buffer that nobody wrote, so the
  neighbour is believed to have or to miss what it did not say.  The bytes a player
  leaves unwritten (GroupMedia.cpp:414 ends at `index >= 8`) are of the same kind, and
  `hasFragment` reads one byte past the end when `offset` is the size.  `BeliefExact` is
  about the other places.
* A closed GroupMedia writes `_endFragment` in the header and the bytes for `lastFragment`:
  every bit is read one place away from where it was written, and the id is that of a
  fragment that does not exist.
* After the end of a stream no newer map comes, the pull pauses, and the last holes are
  not asked for again.
* GroupMedia.cpp:505, "blacklist the peer and send back the request to another peer": the
  next peer in the circle is asked, which may be the same one; none is blacklisted.

Groups:

* NetGroup.cpp:361, "implementation error": a member that was declared dead or timed out
  and connects nevertheless takes this branch, and its session is closed for 90 s.
* `handleNewGroupPeer` counts an attempt also when `connect2Peer` refused because there is
  a session: such an attempt never succeeds, and the rate that closes the group falls.
* The loop over the lowest latencies (NetGroup.cpp:544) begins with `++itLatency`: the
  fastest peer is never among them.
* The best list starts only with a report that names an unknown member; without one a
  group has no best list.  But `_startedBestList`, which tells whether it has started, is
  not in the initialisers of the constructor (NetGroup.cpp:101): when it happens to be true
  the list begins with the first period of `manage`, and no report starts it.

Invoker:

* A call that is interrupted returns while its event still refers to its variables
  (Invoker.cpp:558 and the other calls); the handler writes to them afterwards.
* `connect2Group` registers a fallback after its wait (line 648), when the connection may
  be gone, with `mediaId` 0 if the group was refused: an entry nobody removes.
* After a failure the group may be joined again, but `switched` stays, so the fallback
  that was started then is never ended by the group's packets.

Met while reading: in Invoker.cpp, `read` unlocks twice (lines 905 and 913) and computes
`size - 15` on an unsigned number, `write` can make a buffer for a connection that is gone;
a group joined again on the same connection meets the sessions of the first one, which
take from its count or keep it from connecting; the socket chosen by the family of the old address
(FlowManager.cpp:543), a clamp of the ping that can never apply
(FlowManager.cpp:627), a congestion flag that is never raised (RTMFPSender.h:52), the answer "send back 4C message anyway"
(FlowManager.cpp:193) that is behind a return for the same condition (line 158), `time -= _startTime`
(Listener.cpp:140), which wraps for a packet older than the first one of the listener, and
`NetGroup::close` (NetGroup.cpp:311), which sets `onNextPacket` to null while the thread of
the GroupBuffer may be about to call it.

## 7. What is left out

* Bytes, headers, encryption and the contents of messages.
* The removal of a completed flow after 120 s of silence and of a consumed writer
  after 130 s: `consumed` may happen at once in the model, a completed flow is kept.
  A datagram older than two minutes is outside of the model.
* In the channel: the session's other direction and its close, which `P2PSessions` has.
* In `P2PSessions`: addresses and their changes, the rendez-vous service and its delay,
  redirections, the handshake with the server, malformed packets, and the media of a
  session.  The 0x0F exchange of the server is the same as a 30 that arrives.
* The choice of a pool thread: a session always uses the same one, and one thread
  is followed.
* In a group: several medias at once (each has its own buffer and nothing in common but
  the thread), what is pushed to neighbours and the answers to their pulls, which keep no
  state; the layout and the initiator of group reports, addresses, media subscriptions; a
  second group on one connection.  `Time::Now()` is taken to never go back.
* In the Invoker: write buffers, publications, decoding, calls that race with
  `RTMFP_Terminate` (the C interface gives them a pointer that is being reset).
* Serialisation (AMF), operating system wrappers, the test client.

## 8. Plan

The order is by importance to what a user of the library sees.

1. Done: writer, flow, channel, pool thread.
2. Done: `GroupBuffer` and the window of `GroupMedia`.
3. Done: `P2PSessions`, with theorems for all its safety properties.  Left of it: the
   handshake with the server and its redirections.
4. Done: `FragmentsMap` and `FragmentsExchange`, with the theorem for `BeliefExact`.
5. Done: `GroupMedia` and `NetGroup`.  Left: who initiates a group report, which needs two
   members, and the media subscriptions that follow it.
6. Done: `Invoker`.  Left: the write buffers with `Publisher` and `Listener`, whose start
   times wrap.
7. Done: a theorem for every safety property, the last ones about the flow end to end
   (`RTMFPChannelProofs`) and the reassembly of group messages.
8. Left: an abstract specification of the group's reader (messages in order between two
   resets), implemented by `GroupReception`; `NetGroup` as an environment of `GroupMedia`.
