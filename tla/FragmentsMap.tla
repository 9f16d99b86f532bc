---------------------------- MODULE FragmentsMap ----------------------------
(***************************************************************************)
(* The fragments map, by which the members of a group tell each other      *)
(* which fragments they hold: GroupMedia::updateFragmentMap writes it and  *)
(* PeerMedia::handleFragmentsMap and hasFragment read it.                  *)
(*                                                                         *)
(* A map is the id of the last fragment and a string of bytes, bit b of    *)
(* byte k standing for fragment id - 1 - ByteBits * k - b.  A byte is the  *)
(* set of its bits that are 1.                                             *)
(***************************************************************************)
EXTENDS Integers, FiniteSets

CONSTANT
    ByteBits        \* 8 in the code

ASSUME ByteBitsAssumption == ByteBits \in Nat \ {0}

Bits == 0 .. ByteBits - 1
Byte == SUBSET Bits

\* Mutant of nbBytes: no byte for the last bits.
wholeBytes(nbFragments) == nbFragments \div ByteBits
\* Bytes of the map: all the fragments before the last one, by ByteBits.
nbBytes(nbFragments) ==
    nbFragments \div ByteBits + (IF nbFragments % ByteBits > 0 THEN 1 ELSE 0)

\* The fragment of bit b of byte k.
fragmentOf(last, k, b) == last - 1 - ByteBits * k - b

\* "Publisher : We have all fragments, faster treatment"
publisherByte(first, last, k) ==
    {b \in Bits : ByteBits * k + b < last - first}

\* "Loop on each bit": the loop ends with the first index under ByteBits too, and
\* what the buffer held before stays in the bytes that are left.
relayByte(fragments, first, last, k, previous) ==
    IF last - 1 - ByteBits * k >= first /\ last - 1 - ByteBits * k >= ByteBits
    THEN {b \in Bits : fragmentOf(last, k, b) >= first /\ fragmentOf(last, k, b) \in fragments}
    ELSE previous

\* updateFragmentMap.  first and last are the bounds of the fragments held;
\* a GroupMedia that is closed announces endFragment in the place of last.
updateFragmentMap(fragments, first, last, endFragment, isPublisher, previous) ==
    [id |-> IF endFragment # 0 THEN endFragment ELSE last,
     size |-> nbBytes(last - first),
     bytes |-> [k \in 0 .. nbBytes(last - first) - 1 |->
                   IF isPublisher
                   THEN publisherByte(first, last, k)
                   ELSE relayByte(fragments, first, last, k, previous[k])]]

\* PeerMedia::handleFragmentsMap: a map without bytes leaves those of the last one.
handleFragmentsMap(map, received) ==
    IF received.id <= map.id THEN map
    ELSE IF received.size = 0 THEN [map EXCEPT !.id = received.id]
    ELSE received

offsetOf(map, index) == (map.id - index - 1) \div ByteBits
restOf(map, index) == (map.id - index - 1) % ByteBits

\* PeerMedia::hasFragment.  An offset equal to the size passes the test: past is
\* the byte that is read there.
hasFragment(map, index, past) ==
    \/ map.id # 0 /\ map.id = index
    \/ /\ map.id > index
       /\ offsetOf(map, index) <= map.size
       /\ restOf(map, index) \in IF offsetOf(map, index) < map.size
                                 THEN map.bytes[offsetOf(map, index)]
                                 ELSE past

=============================================================================
