------------------------- MODULE FragmentsExchange --------------------------
(***************************************************************************)
(* What a neighbour believes we hold.  A member of a group stores          *)
(* fragments as they come, erases old ones, closes the stream, and sends   *)
(* its fragments map to a neighbour, which answers hasFragment from it.    *)
(* Maps travel on a reliable and ordered flow: a map is handled when it is *)
(* sent.  The memory that updateFragmentMap or PeerMedia do not write      *)
(* holds anything.                                                         *)
(***************************************************************************)
EXTENDS FragmentsMap

CONSTANTS
    MaxFragments,   \* bound: length of the stream
    InitialSize     \* of the buffer of a new PeerMedia, MAX_FRAGMENT_MAP_SIZE * 4 in the code

ASSUME ExchangeAssumption == MaxFragments \in Nat /\ InitialSize \in Nat

Fragments == 1 .. MaxFragments

VARIABLES
    isPublisher,        \* RTMFPGroupConfig
    fragments,          \* keys of _fragments
    endFragment,        \* _endFragment
    idFragmentsMapOut,  \* of the PeerMedia here
    map,                \* _idFragmentsMapIn and _fragmentsMap of the PeerMedia there
    announced           \* history: the state of the member at the last map that was handled

exchangeVars == <<isPublisher, fragments, endFragment, idFragmentsMapOut, map, announced>>

smallest(S) == CHOOSE x \in S : \A y \in S : x <= y
largest(S) == CHOOSE x \in S : \A y \in S : x >= y

Nothing == [fragments |-> {}, closed |-> TRUE, withBytes |-> FALSE]

ExchangeInit ==
    /\ isPublisher \in BOOLEAN
    /\ fragments = {}
    /\ endFragment = 0
    /\ idFragmentsMapOut = 0
    /\ map = [id |-> 0, size |-> InitialSize, bytes |-> [k \in 0 .. InitialSize - 1 |-> {}]]
    /\ announced = Nothing

\* A publisher creates its fragments in order, a player gets them in any order.
addFragment(f) ==
    /\ f \notin fragments
    /\ endFragment # 0 => f < endFragment
    /\ isPublisher => endFragment = 0 /\ f = 1 + (IF fragments = {} THEN 0 ELSE largest(fragments))
    /\ fragments' = fragments \cup {f}
    /\ UNCHANGED <<isPublisher, endFragment, idFragmentsMapOut, map, announced>>

\* eraseOldFragments: all but the last one may go.
eraseOldFragments(first) ==
    /\ first \in fragments
    /\ fragments' = {f \in fragments : f >= first}
    /\ UNCHANGED <<isPublisher, endFragment, idFragmentsMapOut, map, announced>>

\* closePublisher counts one fragment more, which is never created; a player
\* hears of this number from a neighbour.
closeMedia(end) ==
    /\ endFragment = 0
    /\ fragments # {} => end > largest(fragments)
    /\ isPublisher => end - 1 \in fragments
    /\ endFragment' = end
    /\ UNCHANGED <<isPublisher, fragments, idFragmentsMapOut, map, announced>>

\* GroupMedia::sendFragmentsMap, PeerMedia::sendFragmentsMap and, on the other
\* side, handleFragmentsMap.
sendFragmentsMap ==
    LET first == IF fragments = {} THEN endFragment ELSE smallest(fragments)
        last == IF fragments = {} THEN endFragment ELSE largest(fragments)
    IN /\ last # 0
       /\ last # idFragmentsMapOut
       /\ idFragmentsMapOut' = last
       /\ \E previous \in [0 .. nbBytes(last - first) - 1 -> Byte] :
            LET sent == updateFragmentMap(fragments, first, last, endFragment, isPublisher, previous)
            IN /\ map' = handleFragmentsMap(map, sent)
               /\ announced' = IF sent.id <= map.id THEN announced
                               ELSE [fragments |-> fragments, closed |-> endFragment # 0,
                                     withBytes |-> sent.size # 0]
       /\ UNCHANGED <<isPublisher, fragments, endFragment>>

ExchangeNext ==
    \/ \E f \in Fragments : addFragment(f) \/ eraseOldFragments(f) \/ closeMedia(f)
    \/ sendFragmentsMap

ExchangeSpec == ExchangeInit /\ [][ExchangeNext]_exchangeVars

-----------------------------------------------------------------------------
(* Properties                                                              *)

\* The bytes that stand for what was held: those of the last map, if it had
\* some and the stream was not closed, and for a player only those above the
\* first ByteBits fragments of the stream.
written(f) ==
    /\ announced.withBytes /\ ~announced.closed
    /\ f < map.id /\ offsetOf(map, f) < map.size
    /\ isPublisher \/ map.id - 1 - ByteBits * offsetOf(map, f) >= ByteBits

\* What the neighbour reads there is exactly what was held when the map was
\* written, and the fragment of its id was held too: encoder and reader agree on
\* the place of each bit, whatever the first and the last fragment, and no
\* fragment falls behind the last byte.
BeliefExact ==
    /\ announced.withBytes /\ ~announced.closed =>
            \A f \in announced.fragments : f < map.id => offsetOf(map, f) < map.size
    /\ \A f \in Fragments : written(f) =>
            (hasFragment(map, f, {}) <=> f \in announced.fragments)
    /\ ~announced.closed => map.id \in announced.fragments

=============================================================================
