----------------------------- MODULE GroupMedia -----------------------------
(***************************************************************************)
(* How a player of a group media gets its fragments from its neighbours:   *)
(* GroupMedia with the PeerMedia of each of them.  It asks every neighbour *)
(* to push one fragment out of ByteBits (a mask), keeps for each mask the  *)
(* fastest one, and pulls what the neighbours announced some time ago and  *)
(* nobody pushed.  What becomes of the fragments is GroupReception.        *)
(*                                                                         *)
(* There is no clock: a period may have elapsed or not at every step.      *)
(* _mapPullTime2Fragment and _mapTime2Fragment, whose ids grow with time,  *)
(* are the sets of their ids.  A neighbour announces and sends what it     *)
(* likes, in any order and several times.  The first pull that is answered *)
(* starts the reader (onStartProcessing), which GroupReception lets happen *)
(* at any time.                                                            *)
(***************************************************************************)
EXTENDS Integers, FiniteSets

CONSTANTS
    NbNeighbours,       \* bound: peers that may become neighbours
    MaxFragments,       \* bound: length of the stream
    References,         \* its DATA and START fragments
    Masks,              \* bits of a push mask, 8 in the code
    MinReferences,      \* references before which nothing is too old, 2 in the code
    availabilitySendToAll   \* of RTMFPGroupConfig

End == 0        \* _mapPeers.end()
NoMask == -1    \* no bit: _currentPushMask = 0

ASSUME GroupMediaAssumption ==
    /\ NbNeighbours \in Nat /\ MinReferences \in Nat
    /\ MaxFragments \in Nat /\ References \subseteq 1 .. MaxFragments
    /\ Masks \in Nat \ {0}
    /\ availabilitySendToAll \in BOOLEAN

Neighbours == 1 .. NbNeighbours   \* in the order of the keys of _mapPeers
Fragments == 1 .. MaxFragments
Bits == 0 .. Masks - 1
NoPusher == [peer |-> End, id |-> 0]

VARIABLES
    mapPeers,           \* keys of _mapPeers
    \* push
    pushInMode,         \* of each PeerMedia: the bits of the mode
    mapPushMasks,       \* bit -> the peer that pushes it and its last fragment
    currentPushMask, startedPushRequests, itPushPeer,
    \* fragments maps
    itFragmentsPeer,
    mapIds,             \* ids in _mapPullTime2Fragment
    lastFragmentMapId,
    \* pull
    pullPaused, itPullPeer,
    waiting,            \* keys of _mapWaitingFragments
    currentPullFragment,
    pullStart,          \* history: where the pull began
    \* window
    stored,             \* ids in _fragments
    references          \* ids in _mapTime2Fragment

pushVars == <<pushInMode, mapPushMasks, currentPushMask, startedPushRequests, itPushPeer>>
mapVars == <<itFragmentsPeer, mapIds, lastFragmentMapId>>
pullVars == <<pullPaused, itPullPeer, waiting,
              currentPullFragment, pullStart>>
windowVars == <<stored, references>>
groupMediaVars == <<mapPeers, pushVars, mapVars, pullVars, windowVars>>

GroupMediaInit ==
    /\ mapPeers = {}
    /\ pushInMode = [p \in Neighbours |-> {}]
    /\ mapPushMasks = [b \in Bits |-> NoPusher]
    /\ currentPushMask = NoMask /\ startedPushRequests = FALSE
    /\ itPushPeer = End /\ itFragmentsPeer = End /\ itPullPeer = End
    /\ mapIds = {} /\ lastFragmentMapId = 0
    /\ pullPaused = FALSE
    /\ waiting = {} /\ currentPullFragment = 0 /\ pullStart = 0
    /\ stored = {} /\ references = {}

smallest(S) == CHOOSE x \in S : \A y \in S : x <= y
largest(S) == CHOOSE x \in S : \A y \in S : x >= y

-----------------------------------------------------------------------------
(* Iterators on _mapPeers                                                  *)

\* Where getNextPeer looks: ascending from end() it stops after begin().
visited(it, ascending) ==
    IF ascending /\ it = End THEN {smallest(mapPeers)} ELSE mapPeers

\* getNextPeer: the next of the allowed peers in the circle.  Without one, the
\* iterator stays, or leaves end() for begin().
getNextPeer(it, ascending, allowed) ==
    LET from == IF it = End THEN smallest(mapPeers) ELSE it
        found == allowed \cap visited(it, ascending)
        after == {q \in found : IF ascending THEN q > from ELSE q < from}
        nearest == IF after = {} THEN found ELSE after
    IN IF found = {} THEN from
       ELSE IF ascending THEN smallest(nearest) ELSE largest(nearest)

\* GetRandomIt: any of the allowed peers; without one, the iterator is left anywhere.
randomPeers(allowed) == IF allowed = {} THEN mapPeers ELSE allowed

-----------------------------------------------------------------------------
(* Push                                                                    *)

\* mode - mask, in 8 bits: without the bit it would borrow from the next one.
subtractMask(mode, b) ==
    LET higher == {c \in mode : c > b}
        borrowed == IF higher = {} THEN Masks ELSE smallest(higher)
    IN IF b \in mode THEN mode \ {b} ELSE (mode \ {borrowed}) \cup (b .. borrowed - 1)

nextMasks ==
    IF currentPushMask = NoMask THEN Bits ELSE {(currentPushMask + 1) % Masks}

\* sendPushRequests
sendPushRequests ==
    IF mapPeers = {} THEN UNCHANGED <<pushInMode, currentPushMask, itPushPeer>>
    ELSE \E b \in nextMasks :
            LET allowed == {p \in mapPeers : b \notin pushInMode[p]} IN
            /\ currentPushMask' = b
            /\ itPushPeer' \in IF itPushPeer = End THEN randomPeers(allowed)
                               ELSE {getNextPeer(itPushPeer, FALSE, allowed)}
            /\ pushInMode' = IF allowed = {} THEN pushInMode
                             ELSE [pushInMode EXCEPT ![itPushPeer'] = @ \cup {b}]

\* Mutant of resetPusher: the one that is tested is reset in both cases.
resetTested(pusher, p, id) == p
\* "Peer is faster?": the other one is reset.
resetPusher(pusher, p, id) == IF pusher.id < id THEN pusher.peer ELSE p

\* The part of _onFragment for a fragment that was not pulled.
pushed(p, id) ==
    LET b == id % Masks
        pusher == mapPushMasks[b]
        reset == resetPusher(pusher, p, id)
    IN IF b \notin pushInMode[p] THEN UNCHANGED <<mapPushMasks, pushInMode>>
       ELSE /\ mapPushMasks' = IF pusher.id < id
                               THEN [mapPushMasks EXCEPT ![b] = [peer |-> p, id |-> id]]
                               ELSE mapPushMasks
            /\ pushInMode' = IF pusher = NoPusher \/ pusher.peer = p \/ reset \notin mapPeers
                             THEN pushInMode
                             ELSE [pushInMode EXCEPT ![reset] = subtractMask(@, b)]

\* manage: NETGROUP_PUSH_DELAY elapsed.
managePush ==
    /\ startedPushRequests
    /\ sendPushRequests
    /\ UNCHANGED <<mapPeers, mapPushMasks, startedPushRequests, mapVars, pullVars, windowVars>>

-----------------------------------------------------------------------------
(* Fragments maps                                                          *)

\* handleFragmentsMap and _onFragmentsMap.  Two maps of the same millisecond:
\* emplace drops the second.
handleFragmentsMap(p, id) ==
    /\ p \in mapPeers
    /\ IF lastFragmentMapId < id
       THEN /\ lastFragmentMapId' = id
            /\ mapIds' \in {mapIds \cup {id}} \cup (IF mapIds = {} THEN {} ELSE {mapIds})
            /\ pullPaused' = FALSE
       ELSE UNCHANGED <<lastFragmentMapId, mapIds, pullPaused>>
    /\ IF currentPushMask = NoMask /\ ~startedPushRequests
       THEN sendPushRequests /\ startedPushRequests' = TRUE
       ELSE UNCHANGED <<pushInMode, currentPushMask, itPushPeer, startedPushRequests>>
    /\ UNCHANGED <<mapPeers, mapPushMasks, itFragmentsPeer,
                   itPullPeer, waiting, currentPullFragment, pullStart, windowVars>>

\* eraseOldFragments, when reference is the first one to keep.
eraseOldFragments(reference) ==
    LET before == {f \in stored : f < reference}
        first == IF before = {} THEN reference ELSE largest(before)
    IN /\ stored' = {f \in stored : f >= first}
       /\ references' = {f \in references : f >= reference}
       /\ waiting' = {f \in waiting : f >= first}
       /\ currentPullFragment' = IF currentPullFragment < first THEN first ELSE currentPullFragment
       /\ pullStart' = IF currentPullFragment = 0 THEN first ELSE pullStart
       /\ \E kept \in mapIds \cup {0} : mapIds' = {i \in mapIds : i >= kept}

oldReferences == {r \in references : r # smallest(references)}

\* updateFragmentMap, but for the map itself (FragmentsMap).
updateFragmentMap ==
    \/ UNCHANGED <<stored, references, waiting, currentPullFragment, pullStart, mapIds>>
    \/ stored # {} /\ \E reference \in oldReferences : eraseOldFragments(reference)

\* manage: availabilityUpdatePeriod elapsed.
sendFragmentsMap ==
    /\ updateFragmentMap
    /\ IF stored = {} \/ availabilitySendToAll \/ mapPeers = {} THEN UNCHANGED itFragmentsPeer
       ELSE itFragmentsPeer' \in IF itFragmentsPeer = End THEN mapPeers
                                 ELSE {getNextPeer(itFragmentsPeer, FALSE, mapPeers)}
    /\ UNCHANGED <<mapPeers, pushVars, lastFragmentMapId, pullPaused, itPullPeer>>

-----------------------------------------------------------------------------
(* Neighbours                                                              *)

\* addPeer with a new PeerMedia; the group media and the map are sent.
addPeer(p) ==
    /\ p \notin mapPeers
    /\ mapPeers' = mapPeers \cup {p}
    /\ pushInMode' = [pushInMode EXCEPT ![p] = {}]
    /\ updateFragmentMap
    /\ UNCHANGED <<mapPushMasks, currentPushMask, startedPushRequests, itPushPeer,
                   itFragmentsPeer, lastFragmentMapId,
                   pullPaused, itPullPeer>>

\* Mutant of leave: the iterator stays when it is the only peer.
stay(it, p, ascending) == IF it # p THEN it ELSE getNextPeer(it, ascending, mapPeers)
\* "If it is a current peer => increment", "to avoid bad pointer"
leave(it, p, ascending) ==
    IF it # p THEN it
    ELSE IF mapPeers = {p} THEN End
    ELSE getNextPeer(it, ascending, mapPeers)

\* Mutant of releasedMasks: the masks that the peer pushed stay.
keptMasks(p) == mapPushMasks
\* "unset push masks"
releasedMasks(p) ==
    [b \in Bits |-> IF b \in pushInMode[p] /\ mapPushMasks[b].peer = p
                    THEN NoPusher ELSE mapPushMasks[b]]

\* PeerMedia::close, _onPeerClose and removePeer.
onPeerClose(p) ==
    /\ p \in mapPeers
    /\ mapPushMasks' = releasedMasks(p)
    /\ itPullPeer' = leave(itPullPeer, p, TRUE)
    /\ itPushPeer' = leave(itPushPeer, p, FALSE)
    /\ itFragmentsPeer' = leave(itFragmentsPeer, p, FALSE)
    /\ mapPeers' = mapPeers \ {p}
    /\ UNCHANGED <<pushInMode, currentPushMask, startedPushRequests,
                   mapIds, lastFragmentMapId, pullPaused,
                   waiting, currentPullFragment, pullStart, windowVars>>

-----------------------------------------------------------------------------
(* Fragments                                                               *)

\* "We must ignore fragments too old", when windowDuration elapsed.
tooOld(id) == Cardinality(references) > MinReferences /\ smallest(references) > id

\* addFragment.  A reference of the same millisecond takes the place of the last one.
addFragment(id) ==
    /\ stored' = stored \cup {id}
    /\ IF id \in References /\ (references = {} \/ id > largest(references))
       THEN \/ references' = references \cup {id}
            \/ references # {} /\ references' = (references \ {largest(references)}) \cup {id}
       ELSE UNCHANGED references

\* _onFragment
onFragment(p, id) ==
    /\ p \in mapPeers
    /\ waiting' = waiting \ {id}
    /\ IF id \in waiting
       THEN UNCHANGED <<mapPushMasks, pushInMode>>
       ELSE pushed(p, id)
    /\ \/ id \notin stored /\ addFragment(id)
       \/ (id \in stored \/ tooOld(id)) /\ UNCHANGED windowVars
    /\ UNCHANGED <<mapPeers, currentPushMask, startedPushRequests, itPushPeer, mapVars,
                   pullPaused, itPullPeer, currentPullFragment, pullStart>>

-----------------------------------------------------------------------------
(* Pull.  hasFragment of a neighbour answers from the bytes of its last    *)
(* map, which are its own affair (FragmentsMap): it may say yes or no.     *)

canPull == mapPeers # {} /\ mapIds # {} /\ ~pullPaused

\* No fragments map since fetchPeriod.
pausePull ==
    /\ canPull
    /\ pullPaused' = TRUE
    /\ UNCHANGED <<mapPeers, pushVars, mapVars,
                   itPullPeer, waiting, currentPullFragment, pullStart, windowVars>>

\* "get the first fragment < the fetch period": one that was followed by others.
lastFragments == {i \in mapIds : i # largest(mapIds)}

\* The first request is for the two last fragments, those of them that some
\* neighbour has.
firstPullRequests ==
    /\ canPull
    /\ currentPullFragment = 0
    /\ \E last \in lastFragments, hasSecond \in SUBSET mapPeers :
         LET first == IF last > 1 THEN last - 1 ELSE 1
             second == first + 1
         IN \E asked \in SUBSET {first, second} :
              /\ second \in asked <=> hasSecond # {}
              /\ waiting' = waiting \cup (asked \ stored)
              /\ itPullPeer' \in randomPeers(hasSecond)
              /\ currentPullFragment' = IF second \in asked THEN second ELSE 0
              /\ pullStart' = IF second \in asked THEN smallest(asked) ELSE 0
    /\ UNCHANGED <<mapPeers, pushVars, mapVars, pullPaused, windowVars>>

\* Mutant of holes: the test is for the current fragment, not for the next one.
holesBehind(n) == {f \in currentPullFragment + 1 .. n : f - 1 \notin stored}
\* "Find the holes", up to n.
holes(n) == {f \in currentPullFragment + 1 .. n : f \notin stored}

\* sendPullRequests after the first time, when the loop stops at the fragment n:
\* the last one, or the one before a hole that no peer is found for.  Which peer
\* is asked, and retries of fragments that wait for more than fetchPeriod, only
\* show in the iterator.
pullRequests ==
    /\ canPull
    /\ currentPullFragment # 0
    /\ \E last \in lastFragments :
          \/ currentPullFragment >= last /\ UNCHANGED <<waiting, currentPullFragment>>
          \/ \E n \in currentPullFragment .. last :
                /\ n < last => n + 1 \notin stored
                /\ waiting' = waiting \cup holes(n)
                /\ currentPullFragment' = n
    /\ itPullPeer' \in mapPeers \cup {itPullPeer}
    /\ UNCHANGED <<mapPeers, pushVars, mapVars, pullPaused, pullStart, windowVars>>

\* NETGROUP_MEDIA_TIMEOUT elapsed, or NETGROUP_PULL_TIMEOUT with more than
\* NETGROUP_PULL_LIMIT fragments waiting: NetGroup deletes the object.  Its destructor closes the PeerMedias, and another one may begin.
deleteMedia ==
    /\ mapPeers' = {}
    /\ pushInMode' = [p \in Neighbours |-> {}]
    /\ mapPushMasks' = [b \in Bits |-> NoPusher]
    /\ currentPushMask' = NoMask /\ startedPushRequests' = FALSE
    /\ itPushPeer' = End /\ itFragmentsPeer' = End /\ itPullPeer' = End
    /\ mapIds' = {} /\ lastFragmentMapId' = 0
    /\ pullPaused' = FALSE
    /\ waiting' = {} /\ currentPullFragment' = 0 /\ pullStart' = 0
    /\ stored' = {} /\ references' = {}

-----------------------------------------------------------------------------
(* Specification                                                           *)

GroupMediaNext ==
    \/ \E p \in Neighbours : addPeer(p) \/ onPeerClose(p)
    \/ \E p \in Neighbours, id \in Fragments : handleFragmentsMap(p, id) \/ onFragment(p, id)
    \/ sendFragmentsMap
    \/ managePush
    \/ pausePull
    \/ firstPullRequests
    \/ pullRequests
    \/ deleteMedia

GroupMediaSpec == GroupMediaInit /\ [][GroupMediaNext]_groupMediaVars

-----------------------------------------------------------------------------
(* Properties                                                              *)

\* Types.  The three iterators are end() or a peer of the map whatever was
\* removed in between: they are kept across removals and dereferenced unchecked.
GroupMediaTypeOK ==
    /\ mapPeers \subseteq Neighbours
    /\ {itPushPeer, itFragmentsPeer, itPullPeer} \subseteq mapPeers \cup {End}
    /\ pushInMode \in [Neighbours -> SUBSET Bits]
    /\ mapPushMasks \in [Bits -> [peer : Neighbours \cup {End}, id : Fragments \cup {0}]]
    /\ currentPushMask \in Bits \cup {NoMask}
    /\ startedPushRequests \in BOOLEAN /\ pullPaused \in BOOLEAN
    /\ lastFragmentMapId \in Fragments \cup {0}
    /\ currentPullFragment \in Fragments \cup {0} /\ pullStart \in Fragments \cup {0}
    /\ mapIds \subseteq Fragments /\ waiting \subseteq Fragments
    /\ stored \subseteq Fragments /\ references \subseteq stored

\* The pusher of a mask is a neighbour that was asked for it: pushInMode - mask
\* never borrows from another mask, and no mask belongs to a peer that left.
PusherWasAsked ==
    \A b \in Bits : mapPushMasks[b] # NoPusher =>
        /\ mapPushMasks[b].peer \in mapPeers
        /\ b \in pushInMode[mapPushMasks[b].peer]

\* A mask that some neighbour pushes goes on being pushed by one: changing the
\* pusher, or giving up one that is slower, never leaves the mask to nobody.
askedMasks == UNION {pushInMode[p] : p \in mapPeers}
MaskKeepsPusher == [][mapPeers \subseteq mapPeers' => askedMasks \subseteq askedMasks']_groupMediaVars

\* No hole is forgotten: a fragment between the first pull and the current one
\* is there, or is waited for, or is older than the window.
HolesAccounted ==
    \A f \in pullStart .. currentPullFragment :
        f = 0 \/ f \in stored \/ f \in waiting \/ (references # {} /\ f < smallest(references))

\* Only fragments that are missing are waited for and asked again, and all of
\* them were announced by a neighbour.
WaitsForMissing == waiting \cap stored = {} /\ \A f \in waiting : f <= lastFragmentMapId

=============================================================================
