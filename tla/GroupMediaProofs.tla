------------------------- MODULE GroupMediaProofs --------------------------
(***************************************************************************)
(* Proofs about GroupMedia, for any number of neighbours, fragments and    *)
(* masks: the iterators kept across removals stay valid, a mask that is    *)
(* given up is pushed by another neighbour, and the pull forgets no hole.  *)
(***************************************************************************)
EXTENDS GroupMedia, FiniteSetTheorems, NaturalsInduction, WellFoundedInduction, TLAPS

\* A non-empty set of natural numbers has a smallest element.
LEMMA HasSmallest ==
    ASSUME NEW S, S \subseteq Nat, S # {}
    PROVE  smallest(S) \in S /\ \A y \in S : smallest(S) <= y
<1> DEFINE R == OpToRel(<, Nat)
<1>1. IsWellFoundedOn(R, Nat)
    BY NatLessThanWellFounded
<1> HIDE DEF R
<1>2. PICK x \in S : \A y \in S : ~(<<y, x>> \in R)
    BY <1>1, WFMin
<1>3. ASSUME NEW y \in S
      PROVE  x <= y
    <2>1. y < x => <<y, x>> \in R
        BY DEF R, OpToRel
    <2> QED
        BY <2>1, <1>2
<1> QED
    BY <1>3 DEF smallest

\* A non-empty set of natural numbers with a bound has a largest one.
LEMMA HasLargest ==
    ASSUME NEW n \in Nat, NEW S, S \subseteq 0 .. n, S # {}
    PROVE  largest(S) \in S /\ \A y \in S : largest(S) >= y
<1> DEFINE T == {n - x : x \in S}
<1>1. T \subseteq Nat
    OBVIOUS
<1>5. T # {}
    OBVIOUS
<1>2. smallest(T) \in T /\ \A t \in T : smallest(T) <= t
    <2> HIDE DEF T
    <2> QED
        BY <1>1, <1>5, HasSmallest
<1>3. PICK x \in S : smallest(T) = n - x
    BY <1>2
<1>4. ASSUME NEW y \in S
      PROVE  x >= y
    <2>1. n - y \in T
        OBVIOUS
    <2>2. n - x <= n - y
        BY <2>1, <1>2, <1>3
    <2> QED
        BY <2>2
<1> QED
    BY <1>4 DEF largest

-----------------------------------------------------------------------------
(* Iterators *)

\* getNextPeer ends on a neighbour.
LEMMA NextIsPeer ==
    ASSUME mapPeers \subseteq Neighbours, mapPeers # {},
           NEW it \in mapPeers \cup {End}, NEW ascending \in BOOLEAN,
           NEW allowed \in SUBSET mapPeers
    PROVE  getNextPeer(it, ascending, allowed) \in mapPeers
<1> USE GroupMediaAssumption
<1> DEFINE from == IF it = End THEN smallest(mapPeers) ELSE it
           found == allowed \cap visited(it, ascending)
           after == {q \in found : IF ascending THEN q > from ELSE q < from}
           nearest == IF after = {} THEN found ELSE after
<1>1. from \in mapPeers
    <2>1. mapPeers \subseteq Nat
        BY DEF Neighbours
    <2> QED
        BY <2>1, HasSmallest
<1>3. mapPeers \subseteq Nat /\ mapPeers \subseteq 0 .. NbNeighbours
    BY DEF Neighbours
<1>2. ASSUME found # {}
      PROVE  smallest(nearest) \in mapPeers /\ largest(nearest) \in mapPeers
    <2>1. nearest # {} /\ nearest \subseteq mapPeers
        BY <1>2
    <2> HIDE DEF nearest
    <2>2. nearest \subseteq Nat /\ nearest \subseteq 0 .. NbNeighbours
        BY <2>1, <1>3
    <2>3. smallest(nearest) \in nearest /\ largest(nearest) \in nearest
        BY <2>1, <2>2, HasSmallest, HasLargest
    <2> QED
        BY <2>1, <2>3
<1> QED
    BY <1>1, <1>2 DEF getNextPeer

\* In a map of several peers, the next of any of them is another one.
LEMMA NextIsOther ==
    ASSUME mapPeers \subseteq Neighbours, NEW p \in mapPeers, mapPeers # {p},
           NEW ascending \in BOOLEAN
    PROVE  getNextPeer(p, ascending, mapPeers) # p
<1> USE GroupMediaAssumption
<1> DEFINE after == {q \in mapPeers : IF ascending THEN q > p ELSE q < p}
           nearest == IF after = {} THEN mapPeers ELSE after
<1>1. p # End
    BY DEF Neighbours, End
<1>2. getNextPeer(p, ascending, mapPeers) = IF ascending THEN smallest(nearest) ELSE largest(nearest)
    <2>1. mapPeers \cap visited(p, ascending) = mapPeers
        BY <1>1 DEF visited
    <2> QED
        BY <1>1, <2>1 DEF getNextPeer
<1>3. nearest # {} /\ nearest \subseteq mapPeers
    OBVIOUS
<1>4. nearest \subseteq Nat /\ nearest \subseteq 0 .. NbNeighbours
    <2>1. mapPeers \subseteq Nat /\ mapPeers \subseteq 0 .. NbNeighbours
        BY DEF Neighbours
    <2> HIDE DEF nearest
    <2> QED
        BY <2>1, <1>3
<1>5. /\ smallest(nearest) \in nearest /\ \A y \in nearest : smallest(nearest) <= y
      /\ largest(nearest) \in nearest /\ \A y \in nearest : largest(nearest) >= y
    <2> HIDE DEF nearest
    <2> QED
        BY <1>3, <1>4, HasSmallest, HasLargest
<1>6. CASE after # {}
    BY <1>2, <1>5, <1>6 DEF Neighbours
<1>7. CASE after = {}
    <2>1. PICK q \in mapPeers : q # p
        OBVIOUS
    <2>2. nearest = mapPeers
        BY <1>7
    <2>3. IF ascending THEN q < p ELSE q > p
        BY <1>7, <2>1 DEF Neighbours
    <2>4. p \in Nat /\ q \in Nat /\ q \in nearest
        BY <2>2 DEF Neighbours
    <2> HIDE DEF nearest
    <2>5. CASE ascending
        BY <1>2, <1>5, <2>3, <2>4, <2>5
    <2>6. CASE ~ascending
        BY <1>2, <1>5, <2>3, <2>4, <2>6
    <2> QED
        BY <2>5, <2>6
<1> QED
    BY <1>6, <1>7

\* "to avoid bad pointer": the iterator of a peer that leaves moves off it.
LEMMA LeaveIsSafe ==
    ASSUME mapPeers \subseteq Neighbours, NEW p \in mapPeers,
           NEW it \in mapPeers \cup {End}, NEW ascending \in BOOLEAN
    PROVE  leave(it, p, ascending) \in (mapPeers \ {p}) \cup {End}
BY NextIsPeer, NextIsOther DEF leave

-----------------------------------------------------------------------------
(* Types *)

\* Types, and the ids of the fragments maps are not beyond the last one.
TypeInv == GroupMediaTypeOK /\ \A i \in mapIds : i <= lastFragmentMapId

\* What the types say of numbers.
LEMMA NumberFacts ==
    /\ Fragments \subseteq Nat /\ Fragments \subseteq 0 .. MaxFragments /\ Bits \subseteq Nat
    /\ \A f : f \in Fragments <=> f \in Nat /\ 1 <= f /\ f <= MaxFragments
    /\ TypeInv => /\ mapIds \subseteq 0 .. MaxFragments /\ stored \subseteq 0 .. MaxFragments
                  /\ lastFragmentMapId \in Nat /\ currentPullFragment \in Nat
                  /\ pullStart \in Nat
                  /\ \A i \in mapIds : i \in Fragments /\ i <= lastFragmentMapId
<1>1. /\ Fragments \subseteq Nat /\ Fragments \subseteq 0 .. MaxFragments /\ Bits \subseteq Nat
      /\ \A f : f \in Fragments <=> f \in Nat /\ 1 <= f /\ f <= MaxFragments
    BY GroupMediaAssumption DEF Fragments, Bits
<1> QED
    BY <1>1 DEF TypeInv, GroupMediaTypeOK

LEMMA TypeInit == GroupMediaInit => TypeInv
<1> SUFFICES ASSUME GroupMediaInit PROVE TypeInv
    OBVIOUS
<1> USE DEF GroupMediaInit
<1>1. mapPushMasks \in [Bits -> [peer : Neighbours \cup {End}, id : Fragments \cup {0}]]
    BY DEF NoPusher
<1>2. pushInMode \in [Neighbours -> SUBSET Bits]
    OBVIOUS
<1> QED
    BY <1>1, <1>2 DEF TypeInv, GroupMediaTypeOK

\* What sendPushRequests leaves.
LEMMA PushRequestTypes ==
    ASSUME TypeInv, sendPushRequests
    PROVE  /\ itPushPeer' \in mapPeers \cup {End}
           /\ pushInMode' \in [Neighbours -> SUBSET Bits]
           /\ currentPushMask' \in Bits \cup {NoMask}
<1> USE GroupMediaAssumption DEF TypeInv, GroupMediaTypeOK
<1>1. CASE mapPeers = {}
    BY <1>1 DEF sendPushRequests
<1>2. CASE mapPeers # {}
    <2>1. PICK b \in nextMasks :
            LET allowed == {p \in mapPeers : b \notin pushInMode[p]} IN
            /\ currentPushMask' = b
            /\ itPushPeer' \in IF itPushPeer = End THEN randomPeers(allowed)
                               ELSE {getNextPeer(itPushPeer, FALSE, allowed)}
            /\ pushInMode' = IF allowed = {} THEN pushInMode
                             ELSE [pushInMode EXCEPT ![itPushPeer'] = @ \cup {b}]
        BY <1>2 DEF sendPushRequests
    <2> DEFINE allowed == {p \in mapPeers : b \notin pushInMode[p]}
    <2>2. b \in Bits
        BY DEF nextMasks, Bits, NoMask
    <2>3. itPushPeer' \in mapPeers
        <3>1. getNextPeer(itPushPeer, FALSE, allowed) \in mapPeers
            BY <1>2, NextIsPeer
        <3> QED
            BY <2>1, <3>1, <1>2 DEF randomPeers
    <2>4. pushInMode' \in [Neighbours -> SUBSET Bits]
        BY <2>1, <2>2, <2>3
    <2> QED
        BY <2>1, <2>2, <2>3, <2>4
<1> QED
    BY <1>1, <1>2

\* The first fragment that eraseOldFragments keeps.
firstKept(reference) ==
    IF {f \in stored : f < reference} = {} THEN reference
    ELSE largest({f \in stored : f < reference})

LEMMA FirstKeptStored ==
    ASSUME TypeInv, NEW reference \in references
    PROVE  /\ firstKept(reference) \in stored
           /\ firstKept(reference) <= reference
<1> USE GroupMediaAssumption DEF TypeInv, GroupMediaTypeOK
<1> DEFINE before == {f \in stored : f < reference}
<1>1. before \subseteq 0 .. MaxFragments
    BY NumberFacts
<1>2. before # {} => largest(before) \in before
    <2> HIDE DEF before
    <2> QED
        BY <1>1, HasLargest
<1>3. firstKept(reference) = IF before = {} THEN reference ELSE largest(before)
    BY DEF firstKept
<1>4. reference \in stored /\ reference \in Nat /\ \A f \in before : f \in Nat /\ f < reference
    BY NumberFacts
<1>5. CASE before = {}
    BY <1>3, <1>4, <1>5
<1>6. CASE before # {}
    <2>1. largest(before) \in before
        BY <1>2, <1>6
    <2>2. largest(before) \in stored
        BY <2>1
    <2>3. largest(before) < reference /\ largest(before) \in Nat
        BY <2>1, <1>4
    <2> QED
        BY <1>3, <1>4, <1>6, <2>2, <2>3
<1> QED
    BY <1>5, <1>6

\* What updateFragmentMap leaves.
LEMMA MapTypes ==
    ASSUME TypeInv, updateFragmentMap
    PROVE  /\ stored' \subseteq Fragments /\ references' \subseteq stored'
           /\ waiting' \subseteq Fragments
           /\ currentPullFragment' \in Fragments \cup {0} /\ pullStart' \in Fragments \cup {0}
           /\ mapIds' \subseteq mapIds
<1> USE GroupMediaAssumption DEF TypeInv, GroupMediaTypeOK
<1>1. CASE UNCHANGED <<stored, references, waiting, currentPullFragment, pullStart, mapIds>>
    BY <1>1
<1>2. ASSUME NEW reference \in oldReferences, eraseOldFragments(reference)
      PROVE  /\ stored' \subseteq Fragments /\ references' \subseteq stored'
             /\ waiting' \subseteq Fragments
             /\ currentPullFragment' \in Fragments \cup {0} /\ pullStart' \in Fragments \cup {0}
             /\ mapIds' \subseteq mapIds
    <2>1. reference \in references
        BY DEF oldReferences
    <2>2. firstKept(reference) \in stored /\ firstKept(reference) <= reference
        BY <2>1, FirstKeptStored
    <2>3. /\ stored' = {f \in stored : f >= firstKept(reference)}
          /\ references' = {f \in references : f >= reference}
          /\ waiting' \subseteq waiting
          /\ currentPullFragment' \in {currentPullFragment, firstKept(reference)}
          /\ pullStart' \in {pullStart, firstKept(reference)}
          /\ mapIds' \subseteq mapIds
        BY <1>2 DEF eraseOldFragments, firstKept
    <2>4. reference \in Nat /\ firstKept(reference) \in Nat /\ references \subseteq Nat
        BY <2>1, <2>2, NumberFacts
    <2>5. references' \subseteq stored'
        <3> HIDE DEF TypeInv, GroupMediaTypeOK
        <3>1. \A f \in references : f >= reference => f \in stored /\ f >= firstKept(reference)
            BY <2>2, <2>4 DEF TypeInv, GroupMediaTypeOK
        <3> QED
            BY <2>3, <3>1
    <2> QED
        BY <2>2, <2>3, <2>5
<1> QED
    BY <1>1, <1>2 DEF updateFragmentMap

\* The two fragments of the first request were announced.
LEMMA FirstPullInStream ==
    ASSUME TypeInv, NEW last \in lastFragments
    PROVE  LET first == IF last > 1 THEN last - 1 ELSE 1
           IN /\ first \in Fragments /\ first + 1 \in Fragments
              /\ first + 1 <= lastFragmentMapId
<1>1. last \in mapIds /\ last # largest(mapIds)
    BY DEF lastFragments
<1>2. mapIds \subseteq 0 .. MaxFragments
    BY NumberFacts
<1>3. largest(mapIds) \in mapIds /\ largest(mapIds) >= last
    BY <1>1, <1>2, HasLargest, GroupMediaAssumption
<1>4. /\ last \in Nat /\ 1 <= last /\ largest(mapIds) \in Nat /\ lastFragmentMapId \in Nat
      /\ largest(mapIds) <= lastFragmentMapId /\ largest(mapIds) <= MaxFragments
      /\ MaxFragments \in Nat
    BY <1>1, <1>3, NumberFacts, GroupMediaAssumption
<1>5. last < largest(mapIds)
    BY <1>1, <1>3, <1>4
<1>6. \A f \in Nat : 1 <= f /\ f <= MaxFragments => f \in Fragments
    BY NumberFacts
<1> QED
    BY <1>4, <1>5, <1>6

\* The types of what each action changes.
LEMMA TypeStep == TypeInv /\ [GroupMediaNext]_groupMediaVars => TypeInv'
<1> SUFFICES ASSUME TypeInv, [GroupMediaNext]_groupMediaVars PROVE TypeInv'
    OBVIOUS
<1> USE GroupMediaAssumption DEF TypeInv, GroupMediaTypeOK, pushVars, mapVars, pullVars, windowVars
<1>1. ASSUME NEW p \in Neighbours, addPeer(p)
      PROVE  TypeInv'
    <2>1. /\ stored' \subseteq Fragments /\ references' \subseteq stored'
          /\ waiting' \subseteq Fragments
          /\ currentPullFragment' \in Fragments \cup {0} /\ pullStart' \in Fragments \cup {0}
          /\ mapIds' \subseteq mapIds
        BY <1>1, MapTypes DEF addPeer
    <2>2. mapPeers' = mapPeers \cup {p} /\ pushInMode' = [pushInMode EXCEPT ![p] = {}]
        BY <1>1 DEF addPeer
    <2>3. UNCHANGED <<mapPushMasks, currentPushMask, startedPushRequests, itPushPeer,
                      itFragmentsPeer, lastFragmentMapId, pullPaused, itPullPeer>>
        BY <1>1 DEF addPeer
    <2>4. pushInMode' \in [Neighbours -> SUBSET Bits]
        BY <2>2
    <2>5. {itPushPeer, itFragmentsPeer, itPullPeer}' \subseteq mapPeers' \cup {End}
        BY <2>2, <2>3
    <2> QED
        BY <2>1, <2>2, <2>3, <2>4, <2>5
<1>2. ASSUME NEW p \in Neighbours, onPeerClose(p)
      PROVE  TypeInv'
    <2>1. p \in mapPeers /\ mapPeers' = mapPeers \ {p}
        BY <1>2 DEF onPeerClose
    <2>2. /\ leave(itPullPeer, p, TRUE) \in (mapPeers \ {p}) \cup {End}
          /\ leave(itPushPeer, p, FALSE) \in (mapPeers \ {p}) \cup {End}
          /\ leave(itFragmentsPeer, p, FALSE) \in (mapPeers \ {p}) \cup {End}
        BY <2>1, LeaveIsSafe
    <2>3. {itPushPeer, itFragmentsPeer, itPullPeer}' \subseteq mapPeers' \cup {End}
        BY <1>2, <2>1, <2>2 DEF onPeerClose
    <2>4. mapPushMasks' \in [Bits -> [peer : Neighbours \cup {End}, id : Fragments \cup {0}]]
        BY <1>2 DEF onPeerClose, releasedMasks, NoPusher
    <2> QED
        BY <1>2, <2>1, <2>3, <2>4 DEF onPeerClose
<1>3. ASSUME NEW p \in Neighbours, NEW id \in Fragments, handleFragmentsMap(p, id)
      PROVE  TypeInv'
    <2>1. /\ mapIds' \subseteq Fragments /\ lastFragmentMapId' \in Fragments \cup {0}
          /\ \A i \in mapIds' : i <= lastFragmentMapId'
          /\ pullPaused' \in BOOLEAN
        <3>1. CASE lastFragmentMapId < id
            <4>1. lastFragmentMapId' = id /\ mapIds' \subseteq mapIds \cup {id} /\ pullPaused' = FALSE
                BY <1>3, <3>1 DEF handleFragmentsMap
            <4>2. \A i \in mapIds \cup {id} : i \in Fragments /\ i <= id
                <5> HIDE DEF TypeInv, GroupMediaTypeOK
                <5> QED
                    BY <3>1, NumberFacts
            <4> QED
                BY <4>1, <4>2
        <3>2. CASE ~(lastFragmentMapId < id)
            BY <1>3, <3>2 DEF handleFragmentsMap
        <3> QED
            BY <3>1, <3>2
    <2>2. /\ itPushPeer' \in mapPeers \cup {End}
          /\ pushInMode' \in [Neighbours -> SUBSET Bits]
          /\ currentPushMask' \in Bits \cup {NoMask}
          /\ startedPushRequests' \in BOOLEAN
        <3>1. CASE currentPushMask = NoMask /\ ~startedPushRequests
            BY <1>3, <3>1, PushRequestTypes DEF handleFragmentsMap
        <3>2. CASE ~(currentPushMask = NoMask /\ ~startedPushRequests)
            BY <1>3, <3>2 DEF handleFragmentsMap
        <3> QED
            BY <3>1, <3>2
    <2>3. UNCHANGED <<mapPeers, mapPushMasks, itFragmentsPeer, itPullPeer, waiting,
                      currentPullFragment, pullStart, stored, references>>
        BY <1>3 DEF handleFragmentsMap
    <2> QED
        BY <2>1, <2>2, <2>3
<1>4. ASSUME NEW p \in Neighbours, NEW id \in Fragments, onFragment(p, id)
      PROVE  TypeInv'
    <2>1. waiting' \subseteq Fragments /\ p \in mapPeers
        BY <1>4 DEF onFragment
    <2>2. /\ mapPushMasks' \in [Bits -> [peer : Neighbours \cup {End}, id : Fragments \cup {0}]]
          /\ pushInMode' \in [Neighbours -> SUBSET Bits]
        <3>1. CASE id \in waiting
            BY <1>4, <3>1 DEF onFragment
        <3>2. CASE id \notin waiting
            <4> DEFINE b == id % Masks
                       reset == resetPusher(mapPushMasks[b], p, id)
            <4>1. pushed(p, id)
                BY <1>4, <3>2 DEF onFragment
            <4>2. b \in Bits
                BY DEF Bits, Fragments
            <4>3. mapPushMasks' \in [Bits -> [peer : Neighbours \cup {End}, id : Fragments \cup {0}]]
                BY <4>1, <4>2 DEF pushed
            <4>4. pushInMode' = pushInMode
                    \/ (b \in Bits /\ pushInMode' = [pushInMode EXCEPT ![reset] = subtractMask(@, b)])
                BY <4>1, <4>2 DEF pushed
            <4>5. ASSUME NEW mode \in SUBSET Bits
                  PROVE  subtractMask(mode, b) \in SUBSET Bits
                <5> DEFINE higher == {c \in mode : c > b}
                <5>1. higher # {} => smallest(higher) \in higher
                    <6>1. higher \subseteq Nat
                        <7> HIDE DEF TypeInv, GroupMediaTypeOK
                        <7> QED
                            BY NumberFacts
                    <6> HIDE DEF higher
                    <6> QED
                        BY <6>1, HasSmallest
                <5>2. smallest(higher) \in Bits \/ higher = {}
                    BY <5>1
                <5> HIDE DEF higher
                <5> DEFINE borrowed == IF higher = {} THEN Masks ELSE smallest(higher)
                <5>3. borrowed \in 0 .. Masks
                    BY <5>2 DEF Bits
                <5> HIDE DEF borrowed
                <5>4. b .. borrowed - 1 \subseteq Bits
                    BY <5>3, <4>2 DEF Bits
                <5>5. (mode \ {borrowed}) \cup (b .. borrowed - 1) \subseteq Bits
                    BY <5>4
                <5>6. subtractMask(mode, b)
                        = IF b \in mode THEN mode \ {b} ELSE (mode \ {borrowed}) \cup (b .. borrowed - 1)
                    BY DEF subtractMask, borrowed, higher
                <5> QED
                    BY <5>5, <5>6
            <4> QED
                BY <4>3, <4>4, <4>5
        <3> QED
            BY <3>1, <3>2
    <2>3. stored' \subseteq Fragments /\ references' \subseteq stored'
        BY <1>4 DEF onFragment, addFragment
    <2>4. UNCHANGED <<mapPeers, currentPushMask, startedPushRequests, itPushPeer, mapVars,
                      pullPaused, itPullPeer, currentPullFragment, pullStart>>
        BY <1>4 DEF onFragment
    <2> QED
        BY <2>1, <2>2, <2>3, <2>4
<1>5. CASE sendFragmentsMap
    <2>1. /\ stored' \subseteq Fragments /\ references' \subseteq stored'
          /\ waiting' \subseteq Fragments
          /\ currentPullFragment' \in Fragments \cup {0} /\ pullStart' \in Fragments \cup {0}
          /\ mapIds' \subseteq mapIds
        BY <1>5, MapTypes DEF sendFragmentsMap
    <2>2. itFragmentsPeer' \in mapPeers \cup {End}
        <3>1. mapPeers # {} => getNextPeer(itFragmentsPeer, FALSE, mapPeers) \in mapPeers
            BY NextIsPeer
        <3> QED
            BY <1>5, <3>1 DEF sendFragmentsMap
    <2>3. UNCHANGED <<mapPeers, pushVars, lastFragmentMapId, pullPaused, itPullPeer>>
        BY <1>5 DEF sendFragmentsMap
    <2> QED
        BY <2>1, <2>2, <2>3
<1>6. CASE managePush
    <2>1. /\ itPushPeer' \in mapPeers \cup {End}
          /\ pushInMode' \in [Neighbours -> SUBSET Bits]
          /\ currentPushMask' \in Bits \cup {NoMask}
        BY <1>6, PushRequestTypes DEF managePush
    <2> QED
        BY <1>6, <2>1 DEF managePush
<1>7. CASE pausePull
    BY <1>7 DEF pausePull
<1>8. CASE firstPullRequests
    <2>1. PICK last \in lastFragments, hasSecond \in SUBSET mapPeers :
            LET first == IF last > 1 THEN last - 1 ELSE 1
                second == first + 1
            IN \E asked \in SUBSET {first, second} :
                 /\ second \in asked <=> hasSecond # {}
                 /\ waiting' = waiting \cup (asked \ stored)
                 /\ itPullPeer' \in randomPeers(hasSecond)
                 /\ currentPullFragment' = IF second \in asked THEN second ELSE 0
                 /\ pullStart' = IF second \in asked THEN smallest(asked) ELSE 0
        BY <1>8 DEF firstPullRequests
    <2> DEFINE first == IF last > 1 THEN last - 1 ELSE 1
               second == first + 1
    <2>2. PICK asked \in SUBSET {first, second} :
            /\ waiting' = waiting \cup (asked \ stored)
            /\ itPullPeer' \in randomPeers(hasSecond)
            /\ currentPullFragment' = IF second \in asked THEN second ELSE 0
            /\ pullStart' = IF second \in asked THEN smallest(asked) ELSE 0
        BY <2>1
    <2>3. first \in Fragments /\ second \in Fragments
        BY FirstPullInStream
    <2>4. second \in asked => smallest(asked) \in asked
        <3>1. asked \subseteq Nat
            BY <2>3 DEF Fragments
        <3> QED
            BY <3>1, HasSmallest
    <2>5. asked \subseteq Fragments
        BY <2>3
    <2>6. itPullPeer' \in mapPeers
        BY <2>2 DEF randomPeers
    <2>7. UNCHANGED <<mapPeers, pushVars, mapVars, pullPaused, windowVars>>
        BY <1>8 DEF firstPullRequests
    <2>8. /\ waiting' \subseteq Fragments
          /\ currentPullFragment' \in Fragments \cup {0} /\ pullStart' \in Fragments \cup {0}
        BY <2>2, <2>3, <2>4, <2>5
    <2> QED
        BY <2>6, <2>7, <2>8
<1>9. CASE pullRequests
    <2>1. waiting' \subseteq Fragments /\ currentPullFragment' \in Fragments \cup {0}
        <3>1. PICK last \in lastFragments :
                \/ UNCHANGED <<waiting, currentPullFragment>>
                \/ \E n \in currentPullFragment .. last :
                      waiting' = waiting \cup holes(n) /\ currentPullFragment' = n
            BY <1>9 DEF pullRequests
        <3>2. CASE UNCHANGED <<waiting, currentPullFragment>>
            BY <3>2
        <3>3. ASSUME NEW n \in currentPullFragment .. last,
                     waiting' = waiting \cup holes(n), currentPullFragment' = n
              PROVE  waiting' \subseteq Fragments /\ currentPullFragment' \in Fragments \cup {0}
            <4>1. last \in Fragments
                BY DEF lastFragments
            <4>2. n \in Fragments \cup {0} /\ holes(n) \subseteq Fragments
                BY <4>1 DEF Fragments, holes
            <4> QED
                BY <3>3, <4>2
        <3> QED
            BY <3>1, <3>2, <3>3
    <2>2. itPullPeer' \in mapPeers \cup {End}
        BY <1>9 DEF pullRequests
    <2>3. UNCHANGED <<mapPeers, pushVars, mapVars, pullPaused, pullStart, windowVars>>
        BY <1>9 DEF pullRequests
    <2> QED
        BY <2>1, <2>2, <2>3
<1>10. CASE deleteMedia
    <2>1. mapPushMasks' \in [Bits -> [peer : Neighbours \cup {End}, id : Fragments \cup {0}]]
        BY <1>10 DEF deleteMedia, NoPusher
    <2>2. pushInMode' \in [Neighbours -> SUBSET Bits]
        BY <1>10 DEF deleteMedia
    <2> QED
        BY <1>10, <2>1, <2>2 DEF deleteMedia
<1>11. CASE UNCHANGED groupMediaVars
    BY <1>11 DEF groupMediaVars
<1> QED
    BY <1>1, <1>2, <1>3, <1>4, <1>5, <1>6, <1>7, <1>8, <1>9, <1>10, <1>11 DEF GroupMediaNext

\* The iterators are valid and every id is one of the stream.
THEOREM GroupMediaTypeCorrect == GroupMediaSpec => []GroupMediaTypeOK
<1>1. TypeInv => GroupMediaTypeOK
    BY DEF TypeInv
<1> QED
    BY <1>1, TypeInit, TypeStep, PTL DEF GroupMediaSpec

-----------------------------------------------------------------------------
(* Push *)

PushInv == TypeInv /\ PusherWasAsked

\* A request adds a bit and takes none away.
LEMMA RequestsOnlyAdd ==
    ASSUME TypeInv, sendPushRequests, NEW p \in Neighbours
    PROVE  pushInMode[p] \subseteq pushInMode'[p]
<1> USE DEF TypeInv, GroupMediaTypeOK
<1>1. CASE mapPeers = {}
    BY <1>1 DEF sendPushRequests
<1>2. CASE mapPeers # {}
    <2>1. \E b \in nextMasks : pushInMode' \in
            {pushInMode, [pushInMode EXCEPT ![itPushPeer'] = @ \cup {b}]}
        BY <1>2 DEF sendPushRequests
    <2> QED
        BY <2>1
<1> QED
    BY <1>1, <1>2

\* What a pushed fragment does to the masks: the peer that is reset gave up one
\* bit that it had, and the pusher of that mask is another one, that has it.
LEMMA PushedFacts ==
    ASSUME PushInv, NEW p \in mapPeers, NEW id \in Fragments, pushed(p, id)
    PROVE  \E b \in Bits :
             /\ \A c \in Bits : c # b => mapPushMasks'[c] = mapPushMasks[c]
             /\ \/ /\ pushInMode' = pushInMode
                   /\ \/ mapPushMasks'[b] = mapPushMasks[b]
                      \/ mapPushMasks'[b].peer = p /\ b \in pushInMode[p]
                \/ \E reset \in mapPeers :
                     /\ pushInMode' = [pushInMode EXCEPT ![reset] = @ \ {b}]
                     /\ mapPushMasks'[b].peer \in mapPeers \ {reset}
                     /\ b \in pushInMode[mapPushMasks'[b].peer]
<1> USE DEF PushInv, TypeInv, GroupMediaTypeOK, PusherWasAsked
<1> DEFINE b == id % Masks
           pusher == mapPushMasks[b]
           reset == resetPusher(pusher, p, id)
<1>1. b \in Bits
    BY GroupMediaAssumption DEF Bits, Fragments
<1>2. CASE b \notin pushInMode[p]
    BY <1>1, <1>2 DEF pushed
<1>3. CASE b \in pushInMode[p]
    <2>1. /\ mapPushMasks' = IF pusher.id < id
                             THEN [mapPushMasks EXCEPT ![b] = [peer |-> p, id |-> id]]
                             ELSE mapPushMasks
          /\ pushInMode' = IF pusher = NoPusher \/ pusher.peer = p \/ reset \notin mapPeers
                           THEN pushInMode
                           ELSE [pushInMode EXCEPT ![reset] = subtractMask(@, b)]
        BY <1>3 DEF pushed
    <2>2. \A c \in Bits : c # b => mapPushMasks'[c] = mapPushMasks[c]
        BY <2>1
    <2>3. CASE pusher = NoPusher \/ pusher.peer = p \/ reset \notin mapPeers
        <3>1. pushInMode' = pushInMode
            BY <2>1, <2>3
        <3>2. mapPushMasks'[b] = mapPushMasks[b] \/ mapPushMasks'[b].peer = p
            BY <2>1, <1>1
        <3> QED
            BY <3>1, <3>2, <1>1, <1>3, <2>2
    <2>4. CASE ~(pusher = NoPusher \/ pusher.peer = p \/ reset \notin mapPeers)
        <3>1. pusher.peer \in mapPeers /\ b \in pushInMode[pusher.peer]
            BY <1>1, <2>4
        <3>2. b \in pushInMode[reset]
            BY <1>3, <3>1 DEF resetPusher
        <3>3. pushInMode' = [pushInMode EXCEPT ![reset] = @ \ {b}]
            BY <2>1, <2>4, <3>2 DEF subtractMask
        <3>4. mapPushMasks'[b].peer \in mapPeers \ {reset} /\ b \in pushInMode[mapPushMasks'[b].peer]
            <4>1. CASE pusher.id < id
                <5>1. mapPushMasks'[b].peer = p /\ reset = pusher.peer
                    BY <4>1, <2>1, <1>1 DEF resetPusher
                <5> QED
                    BY <5>1, <1>3, <2>4
            <4>2. CASE ~(pusher.id < id)
                <5>1. mapPushMasks'[b].peer = pusher.peer /\ reset = p
                    BY <4>2, <2>1 DEF resetPusher
                <5> QED
                    BY <5>1, <3>1, <2>4
            <4> QED
                BY <4>1, <4>2
        <3> QED
            BY <1>1, <2>2, <2>4, <3>3, <3>4
    <2> QED
        BY <2>3, <2>4
<1> QED
    BY <1>2, <1>3

LEMMA PushInit == GroupMediaInit => PushInv
BY TypeInit DEF GroupMediaInit, PushInv, PusherWasAsked

\* The steps that may change a mask or take a peer away.
LEMMA PushStep == PushInv /\ [GroupMediaNext]_groupMediaVars => PushInv'
<1> SUFFICES ASSUME PushInv, [GroupMediaNext]_groupMediaVars PROVE PusherWasAsked'
    BY TypeStep DEF PushInv
<1> USE DEF PushInv, TypeInv, GroupMediaTypeOK, PusherWasAsked,
            pushVars, mapVars, pullVars, windowVars
<1>1. ASSUME NEW p \in Neighbours, addPeer(p)
      PROVE  PusherWasAsked'
    BY <1>1 DEF addPeer
<1>2. ASSUME NEW p \in Neighbours, onPeerClose(p)
      PROVE  PusherWasAsked'
    <2>1. mapPeers' = mapPeers \ {p} /\ mapPushMasks' = releasedMasks(p) /\ UNCHANGED pushInMode
        BY <1>2 DEF onPeerClose
    <2>2. \A b \in Bits : mapPushMasks'[b] # NoPusher =>
            mapPushMasks'[b] = mapPushMasks[b] /\ mapPushMasks[b].peer # p
        BY <2>1 DEF releasedMasks
    <2> QED
        BY <2>1, <2>2
<1>3. ASSUME sendPushRequests, UNCHANGED <<mapPeers, mapPushMasks>>
      PROVE  PusherWasAsked'
    BY <1>3, RequestsOnlyAdd
<1>4. ASSUME NEW p \in Neighbours, NEW id \in Fragments, handleFragmentsMap(p, id)
      PROVE  PusherWasAsked'
    BY <1>3, <1>4 DEF handleFragmentsMap
<1>5. ASSUME NEW p \in Neighbours, NEW id \in Fragments, onFragment(p, id)
      PROVE  PusherWasAsked'
    <2>1. p \in mapPeers /\ UNCHANGED mapPeers
        BY <1>5 DEF onFragment
    <2>2. CASE pushed(p, id)
        <3>1. PICK b \in Bits :
                /\ \A c \in Bits : c # b => mapPushMasks'[c] = mapPushMasks[c]
                /\ \/ /\ pushInMode' = pushInMode
                      /\ \/ mapPushMasks'[b] = mapPushMasks[b]
                         \/ mapPushMasks'[b].peer = p /\ b \in pushInMode[p]
                   \/ \E reset \in mapPeers :
                        /\ pushInMode' = [pushInMode EXCEPT ![reset] = @ \ {b}]
                        /\ mapPushMasks'[b].peer \in mapPeers \ {reset}
                        /\ b \in pushInMode[mapPushMasks'[b].peer]
            BY <2>1, <2>2, PushedFacts
        <3>2. CASE pushInMode' = pushInMode
            BY <2>1, <3>1, <3>2
        <3>3. ASSUME NEW reset \in mapPeers,
                     pushInMode' = [pushInMode EXCEPT ![reset] = @ \ {b}],
                     mapPushMasks'[b].peer \in mapPeers \ {reset},
                     b \in pushInMode[mapPushMasks'[b].peer]
              PROVE  PusherWasAsked'
            BY <2>1, <3>1, <3>3
        <3> QED
            BY <3>1, <3>2, <3>3
    <2>3. CASE UNCHANGED <<mapPushMasks, pushInMode>>
        BY <2>1, <2>3
    <2> QED
        BY <1>5, <2>2, <2>3 DEF onFragment
<1>6. CASE sendFragmentsMap
    BY <1>6 DEF sendFragmentsMap
<1>7. CASE managePush
    BY <1>3, <1>7 DEF managePush
<1>8. CASE pausePull
    BY <1>8 DEF pausePull
<1>9. CASE firstPullRequests
    BY <1>9 DEF firstPullRequests
<1>10. CASE pullRequests
    BY <1>10 DEF pullRequests
<1>11. CASE deleteMedia
    BY <1>11 DEF deleteMedia
<1>12. CASE UNCHANGED groupMediaVars
    BY <1>12 DEF groupMediaVars
<1> QED
    BY <1>1, <1>2, <1>4, <1>5, <1>6, <1>7, <1>8, <1>9, <1>10, <1>11, <1>12 DEF GroupMediaNext

\* pushInMode - mask never borrows, and no mask belongs to a peer that left.
THEOREM PushersKnown == GroupMediaSpec => []PusherWasAsked
<1>1. PushInv => PusherWasAsked
    BY DEF PushInv
<1> QED
    BY <1>1, PushInit, PushStep, PTL DEF GroupMediaSpec

\* A step that removes nobody leaves every mask to somebody.
LEMMA MasksKept ==
    ASSUME PushInv, [GroupMediaNext]_groupMediaVars, mapPeers \subseteq mapPeers'
    PROVE  askedMasks \subseteq askedMasks'
<1> USE DEF PushInv, TypeInv, GroupMediaTypeOK, pushVars, mapVars, pullVars, windowVars, askedMasks
<1> DEFINE Kept == \A p \in mapPeers : pushInMode[p] \subseteq pushInMode'[p]
<1>1. Kept => askedMasks \subseteq askedMasks'
    OBVIOUS
<1>2. ASSUME NEW p \in Neighbours, addPeer(p)
      PROVE  Kept
    BY <1>2 DEF addPeer
<1>3. ASSUME NEW p \in Neighbours, onPeerClose(p)
      PROVE  Kept
    BY <1>3 DEF onPeerClose
<1>4. ASSUME sendPushRequests
      PROVE  Kept
    BY <1>4, RequestsOnlyAdd
<1>5. ASSUME NEW p \in Neighbours, NEW id \in Fragments, handleFragmentsMap(p, id)
      PROVE  Kept
    BY <1>4, <1>5 DEF handleFragmentsMap
<1>6. ASSUME NEW p \in Neighbours, NEW id \in Fragments, onFragment(p, id)
      PROVE  askedMasks \subseteq askedMasks'
    <2>1. p \in mapPeers /\ UNCHANGED mapPeers
        BY <1>6 DEF onFragment
    <2>2. CASE pushed(p, id)
        <3>1. PICK b \in Bits :
                \/ pushInMode' = pushInMode
                \/ \E reset \in mapPeers :
                     /\ pushInMode' = [pushInMode EXCEPT ![reset] = @ \ {b}]
                     /\ mapPushMasks'[b].peer \in mapPeers \ {reset}
                     /\ b \in pushInMode[mapPushMasks'[b].peer]
            BY <2>1, <2>2, PushedFacts
        <3>2. ASSUME NEW reset \in mapPeers,
                     pushInMode' = [pushInMode EXCEPT ![reset] = @ \ {b}],
                     mapPushMasks'[b].peer \in mapPeers \ {reset},
                     b \in pushInMode[mapPushMasks'[b].peer]
              PROVE  askedMasks \subseteq askedMasks'
            <4>1. ASSUME NEW q \in mapPeers, NEW c \in pushInMode[q]
                  PROVE  \E r \in mapPeers : c \in pushInMode'[r]
                BY <3>2, <4>1
            <4> QED
                BY <2>1, <4>1
        <3> QED
            BY <1>1, <3>1, <3>2
    <2>3. CASE UNCHANGED <<mapPushMasks, pushInMode>>
        BY <1>1, <2>3
    <2> QED
        BY <1>6, <2>2, <2>3 DEF onFragment
<1>7. CASE sendFragmentsMap
    BY <1>1, <1>7 DEF sendFragmentsMap
<1>8. CASE managePush
    BY <1>1, <1>4, <1>8 DEF managePush
<1>9. CASE pausePull
    BY <1>1, <1>9 DEF pausePull
<1>10. CASE firstPullRequests
    BY <1>1, <1>10 DEF firstPullRequests
<1>11. CASE pullRequests
    BY <1>1, <1>11 DEF pullRequests
<1>12. CASE deleteMedia
    BY <1>12 DEF deleteMedia
<1>13. CASE UNCHANGED groupMediaVars
    BY <1>1, <1>13 DEF groupMediaVars
<1> QED
    BY <1>1, <1>2, <1>3, <1>5, <1>6, <1>7, <1>8, <1>9, <1>10, <1>11, <1>12, <1>13 DEF GroupMediaNext

\* Changing the pusher of a mask, or giving up a slower one, never leaves the
\* mask to nobody.
THEOREM MasksStayPushed == GroupMediaSpec => MaskKeepsPusher
<1>1. PushInv /\ [GroupMediaNext]_groupMediaVars
        => [mapPeers \subseteq mapPeers' => askedMasks \subseteq askedMasks']_groupMediaVars
    BY MasksKept
<1> QED
    BY <1>1, PushInit, PushStep, PTL DEF GroupMediaSpec, MaskKeepsPusher

-----------------------------------------------------------------------------
(* Pull *)

\* A fragment that is older than the window.
older(f) == references # {} /\ f < smallest(references)
accounted(f) == f = 0 \/ f \in stored \/ f \in waiting \/ older(f)
PullInv == TypeInv /\ HolesAccounted /\ WaitsForMissing

LEMMA HolesMeaning == HolesAccounted <=> \A f \in pullStart .. currentPullFragment : accounted(f)
BY DEF HolesAccounted, accounted, older

\* A step that changes neither the window nor the pull.
LEMMA PullUnchanged ==
    ASSUME PullInv, lastFragmentMapId <= lastFragmentMapId', lastFragmentMapId' \in Nat,
           UNCHANGED <<stored, references, waiting, currentPullFragment, pullStart>>
    PROVE  (HolesAccounted /\ WaitsForMissing)'
<1>1. \A f \in waiting : f \in Nat /\ f <= lastFragmentMapId /\ lastFragmentMapId \in Nat
    BY NumberFacts DEF PullInv, TypeInv, GroupMediaTypeOK, WaitsForMissing
<1> QED
    BY <1>1 DEF PullInv, HolesAccounted, WaitsForMissing

\* eraseOldFragments takes away only what is older than the window that is left,
\* and the fragment the pull is moved to is stored.
LEMMA ErasedIsOlder ==
    ASSUME PullInv, NEW reference \in references, eraseOldFragments(reference)
    PROVE  /\ \A f \in Nat : accounted(f) => accounted(f)'
           /\ \A f \in pullStart' .. currentPullFragment' :
                 f \in pullStart .. currentPullFragment \/ accounted(f)'
           /\ stored' \subseteq stored /\ waiting' \subseteq waiting
<1> DEFINE first == firstKept(reference)
<1>1. first \in stored /\ first <= reference
    BY FirstKeptStored DEF PullInv
<1>2. reference \in Nat /\ first \in Nat /\ references \subseteq Nat /\ stored \subseteq Nat
    BY <1>1, NumberFacts DEF PullInv, TypeInv, GroupMediaTypeOK
<1>3. /\ stored' = {f \in stored : f >= first}
      /\ references' = {f \in references : f >= reference}
      /\ waiting' = {f \in waiting : f >= first}
      /\ currentPullFragment' = IF currentPullFragment < first THEN first ELSE currentPullFragment
      /\ pullStart' = IF currentPullFragment = 0 THEN first ELSE pullStart
    BY DEF eraseOldFragments, firstKept
<1> HIDE DEF first
<1>4. references' # {} /\ references' \subseteq Nat /\ \A r \in references' : r >= reference
    <2>1. reference >= reference
        BY <1>2
    <2>2. reference \in references'
        BY <1>3, <2>1
    <2>3. \A r \in references' : r \in references /\ r >= reference
        BY <1>3
    <2> QED
        BY <1>2, <2>2, <2>3
<1>5. smallest(references') \in Nat /\ smallest(references') >= reference
    BY <1>4, HasSmallest
<1>6. \A f \in Nat : f < reference => older(f)'
    BY <1>2, <1>4, <1>5 DEF older
<1>7. \A f \in Nat : f < first => older(f)'
    BY <1>1, <1>2, <1>6
<1>8. ASSUME NEW f \in Nat, accounted(f)
      PROVE  accounted(f)'
    <2>1. CASE f = 0
        BY <2>1 DEF accounted
    <2>2. CASE f \in stored \/ f \in waiting
        BY <1>2, <1>3, <1>7, <2>2 DEF accounted
    <2>3. CASE older(f)
        <3>1. smallest(references) \in Nat /\ smallest(references) <= reference
            BY <1>2, HasSmallest
        <3>2. f < reference
            BY <2>3, <3>1, <1>2 DEF older
        <3> QED
            BY <3>2, <1>6 DEF accounted
    <2> QED
        BY <1>8, <2>1, <2>2, <2>3 DEF accounted
<1>9. ASSUME NEW f \in pullStart' .. currentPullFragment', f \notin pullStart .. currentPullFragment
      PROVE  accounted(f)'
    <2>1. currentPullFragment \in Nat /\ pullStart \in Nat
        BY NumberFacts DEF PullInv
    <2>2. f \in Nat /\ f <= first
        BY <1>2, <1>3, <1>9, <2>1
    <2>3. first \in stored'
        BY <1>1, <1>2, <1>3
    <2>4. f < first \/ f = first
        BY <1>2, <2>2
    <2> QED
        BY <1>7, <2>2, <2>3, <2>4 DEF accounted
<1> QED
    BY <1>3, <1>8, <1>9

LEMMA MapStep ==
    ASSUME PullInv, updateFragmentMap, UNCHANGED lastFragmentMapId
    PROVE  (HolesAccounted /\ WaitsForMissing)'
<1>1. CASE UNCHANGED <<stored, references, waiting, currentPullFragment, pullStart, mapIds>>
    BY <1>1, PullUnchanged, NumberFacts DEF PullInv
<1>2. ASSUME NEW reference \in oldReferences, eraseOldFragments(reference)
      PROVE  (HolesAccounted /\ WaitsForMissing)'
    <2>1. reference \in references
        BY DEF oldReferences
    <2>2. /\ \A f \in Nat : accounted(f) => accounted(f)'
          /\ \A f \in pullStart' .. currentPullFragment' :
                f \in pullStart .. currentPullFragment \/ accounted(f)'
          /\ stored' \subseteq stored /\ waiting' \subseteq waiting
        BY <1>2, <2>1, ErasedIsOlder
    <2>3. \A f \in pullStart .. currentPullFragment : f \in Nat /\ accounted(f)
        BY HolesMeaning, NumberFacts DEF PullInv
    <2>4. \A f \in pullStart' .. currentPullFragment' : accounted(f)'
        BY <2>2, <2>3
    <2>5. HolesAccounted'
        BY <2>4 DEF HolesAccounted, accounted, older
    <2>6. WaitsForMissing'
        BY <2>2 DEF PullInv, WaitsForMissing
    <2> QED
        BY <2>5, <2>6
<1> QED
    BY <1>1, <1>2 DEF updateFragmentMap

\* A new reference never makes the window begin earlier.
LEMMA ReferencesGrow ==
    ASSUME TypeInv, NEW id \in Fragments, addFragment(id), NEW f \in Nat, older(f)
    PROVE  older(f)'
<1>1. references \subseteq 0 .. MaxFragments /\ references \subseteq Nat /\ references # {} /\ id \in Nat
    BY NumberFacts DEF TypeInv, GroupMediaTypeOK, older
<1>2. /\ smallest(references) \in references /\ \A r \in references : smallest(references) <= r
      /\ largest(references) \in references
    BY <1>1, HasSmallest, HasLargest, GroupMediaAssumption
<1>3. CASE UNCHANGED references
    BY <1>3 DEF older
<1>4. CASE id > largest(references) /\ id \in references' /\ references' \subseteq references \cup {id}
    <2>1. references' # {} /\ references' \subseteq Nat
        BY <1>1, <1>4
    <2>2. smallest(references') \in references'
        BY <2>1, HasSmallest
    <2>3. \A r \in references' : r \in Nat /\ smallest(references) <= r
        <3>1. smallest(references) \in Nat /\ largest(references) \in Nat
            BY <1>1, <1>2
        <3>2. smallest(references) <= id
            BY <1>1, <1>2, <1>4, <3>1
        <3>3. \A r \in references \cup {id} : r \in Nat /\ smallest(references) <= r
            BY <1>1, <1>2, <3>2
        <3> QED
            BY <1>4, <3>3
    <2>4. smallest(references) \in Nat /\ smallest(references') \in Nat
          /\ smallest(references) <= smallest(references')
        BY <1>1, <1>2, <2>2, <2>3
    <2>5. f < smallest(references)
        BY DEF older
    <2> QED
        BY <2>1, <2>4, <2>5 DEF older
<1> QED
    BY <1>1, <1>3, <1>4 DEF addFragment

LEMMA PullInit == GroupMediaInit => PullInv
<1> SUFFICES ASSUME GroupMediaInit PROVE HolesAccounted /\ WaitsForMissing
    BY TypeInit DEF PullInv
<1>1. \A f \in 0 .. 0 : f = 0
    OBVIOUS
<1> QED
    BY <1>1 DEF GroupMediaInit, HolesAccounted, WaitsForMissing

\* The steps that change the window or the pull.
LEMMA PullStep == PullInv /\ [GroupMediaNext]_groupMediaVars => PullInv'
<1> SUFFICES ASSUME PullInv, [GroupMediaNext]_groupMediaVars PROVE (HolesAccounted /\ WaitsForMissing)'
    BY TypeStep DEF PullInv
<1> USE DEF pushVars, mapVars, pullVars, windowVars
<1>0. /\ TypeInv /\ lastFragmentMapId \in Nat /\ currentPullFragment \in Nat /\ pullStart \in Nat
      /\ waiting \subseteq Nat /\ waiting \cap stored = {}
      /\ \A f \in waiting : f <= lastFragmentMapId
      /\ \A f \in pullStart .. currentPullFragment : accounted(f)
    BY NumberFacts, HolesMeaning DEF PullInv, TypeInv, GroupMediaTypeOK, WaitsForMissing
<1>1. ASSUME NEW p \in Neighbours, addPeer(p)
      PROVE  (HolesAccounted /\ WaitsForMissing)'
    BY <1>1, MapStep DEF addPeer
<1>2. ASSUME NEW p \in Neighbours, onPeerClose(p)
      PROVE  (HolesAccounted /\ WaitsForMissing)'
    BY <1>0, <1>2, PullUnchanged DEF onPeerClose
<1>3. ASSUME NEW p \in Neighbours, NEW id \in Fragments, handleFragmentsMap(p, id)
      PROVE  (HolesAccounted /\ WaitsForMissing)'
    <2>1. id \in Nat
        BY NumberFacts
    <2>2. lastFragmentMapId <= lastFragmentMapId' /\ lastFragmentMapId' \in Nat
        BY <1>0, <1>3, <2>1 DEF handleFragmentsMap
    <2> QED
        BY <1>3, <2>2, PullUnchanged DEF handleFragmentsMap
<1>4. ASSUME NEW p \in Neighbours, NEW id \in Fragments, onFragment(p, id)
      PROVE  (HolesAccounted /\ WaitsForMissing)'
    <2>1. waiting' = waiting \ {id} /\ UNCHANGED <<lastFragmentMapId, currentPullFragment, pullStart>>
        BY <1>4 DEF onFragment
    <2>2. CASE addFragment(id)
        <3>1. stored' = stored \cup {id}
            BY <2>2 DEF addFragment
        <3>2. \A f \in pullStart .. currentPullFragment : accounted(f)'
            BY <1>0, <2>1, <2>2, <3>1, ReferencesGrow DEF accounted
        <3> QED
            BY <1>0, <2>1, <3>1, <3>2 DEF HolesAccounted, WaitsForMissing, accounted, older
    <2>3. CASE (id \in stored \/ tooOld(id)) /\ UNCHANGED windowVars
        <3>1. id \in stored \/ older(id)
            <4>1. ASSUME tooOld(id) PROVE references # {}
                <5>1. references = {} => Cardinality(references) = 0
                    BY FS_EmptySet
                <5> QED
                    BY <4>1, <5>1, GroupMediaAssumption DEF tooOld
            <4>2. ASSUME tooOld(id) PROVE id < smallest(references)
                <5>1. references \subseteq Nat /\ references # {} /\ id \in Nat
                    BY <4>1, <4>2, NumberFacts, <1>0 DEF TypeInv, GroupMediaTypeOK
                <5>2. smallest(references) \in Nat
                    BY <5>1, HasSmallest
                <5> QED
                    BY <4>2, <5>1, <5>2 DEF tooOld
            <4> QED
                BY <2>3, <4>1, <4>2 DEF older
        <3>2. \A f \in pullStart .. currentPullFragment : accounted(f)'
            BY <1>0, <2>1, <2>3, <3>1 DEF accounted, older
        <3> QED
            BY <1>0, <2>1, <2>3, <3>2 DEF HolesAccounted, WaitsForMissing, accounted, older
    <2> QED
        BY <1>4, <2>2, <2>3 DEF onFragment
<1>5. CASE sendFragmentsMap
    BY <1>5, MapStep DEF sendFragmentsMap
<1>6. CASE managePush
    BY <1>0, <1>6, PullUnchanged DEF managePush
<1>7. CASE pausePull
    BY <1>0, <1>7, PullUnchanged DEF pausePull
<1>8. CASE firstPullRequests
    <2>1. PICK last \in lastFragments :
            LET first == IF last > 1 THEN last - 1 ELSE 1
                second == first + 1
            IN \E asked \in SUBSET {first, second} :
                 /\ waiting' = waiting \cup (asked \ stored)
                 /\ currentPullFragment' = IF second \in asked THEN second ELSE 0
                 /\ pullStart' = IF second \in asked THEN smallest(asked) ELSE 0
        BY <1>8 DEF firstPullRequests
    <2> DEFINE first == IF last > 1 THEN last - 1 ELSE 1
               second == first + 1
    <2>2. PICK asked \in SUBSET {first, second} :
            /\ waiting' = waiting \cup (asked \ stored)
            /\ currentPullFragment' = IF second \in asked THEN second ELSE 0
            /\ pullStart' = IF second \in asked THEN smallest(asked) ELSE 0
        BY <2>1
    <2>3. first \in Fragments /\ second \in Fragments /\ second <= lastFragmentMapId
        BY <1>0, FirstPullInStream
    <2>4. first \in Nat /\ second \in Nat /\ first <= lastFragmentMapId
        BY <1>0, <2>3, NumberFacts
    <2>5. UNCHANGED <<stored, references, lastFragmentMapId>>
        BY <1>8 DEF firstPullRequests
    <2> HIDE DEF first
    <2>6. \A f \in asked : f \in stored \/ f \in waiting'
        BY <2>2
    <2>7. \A f \in pullStart' .. currentPullFragment' : f = 0 \/ f \in asked
        <3>1. CASE second \in asked
            <4>1. smallest(asked) \in asked
                <5>1. asked \subseteq Nat
                    BY <2>4
                <5> QED
                    BY <3>1, <5>1, HasSmallest
            <4>2. pullStart' \in {first, second} /\ pullStart' \in asked /\ currentPullFragment' = second
                BY <2>2, <3>1, <4>1
            <4>3. \A f \in pullStart' .. second : f \in {pullStart', second}
                BY <2>4, <4>2
            <4> QED
                BY <3>1, <4>2, <4>3
        <3>2. CASE second \notin asked
            BY <2>2, <3>2
        <3> QED
            BY <3>1, <3>2
    <2>8. HolesAccounted'
        BY <2>5, <2>6, <2>7 DEF HolesAccounted
    <2>9. WaitsForMissing'
        <3>1. \A f \in asked : f <= lastFragmentMapId
            BY <2>3, <2>4
        <3> QED
            BY <1>0, <2>2, <2>5, <3>1 DEF WaitsForMissing
    <2> QED
        BY <2>8, <2>9
<1>9. CASE pullRequests
    <2>1. UNCHANGED <<stored, references, pullStart, lastFragmentMapId>>
        BY <1>9 DEF pullRequests
    <2>2. CASE UNCHANGED <<waiting, currentPullFragment>>
        BY <1>0, <2>1, <2>2, PullUnchanged
    <2>3. ASSUME NEW last \in lastFragments, NEW n \in currentPullFragment .. last,
                 waiting' = waiting \cup holes(n), currentPullFragment' = n
          PROVE  (HolesAccounted /\ WaitsForMissing)'
        <3>1. last \in Nat /\ last <= lastFragmentMapId /\ n \in Nat /\ n <= lastFragmentMapId
            <4>1. last \in mapIds
                BY DEF lastFragments
            <4>2. last \in Nat /\ last <= lastFragmentMapId
                BY <1>0, <4>1, NumberFacts
            <4> QED
                BY <1>0, <4>2
        <3>2. \A f \in pullStart .. n :
                f \in pullStart .. currentPullFragment \/ f \in currentPullFragment + 1 .. n
            BY <1>0, <3>1
        <3>3. \A f \in currentPullFragment + 1 .. n : f \in stored \/ f \in waiting'
            BY <2>3 DEF holes
        <3>4. \A f \in pullStart .. n : accounted(f)'
            BY <1>0, <2>1, <2>3, <3>2, <3>3 DEF accounted, older
        <3>5. \A f \in holes(n) : f <= lastFragmentMapId /\ f \notin stored
            BY <1>0, <3>1 DEF holes
        <3> QED
            BY <1>0, <2>1, <2>3, <3>4, <3>5 DEF HolesAccounted, WaitsForMissing, accounted, older
    <2> QED
        BY <1>9, <2>2, <2>3 DEF pullRequests
<1>10. CASE deleteMedia
    <2>1. \A f \in 0 .. 0 : f = 0
        OBVIOUS
    <2> QED
        BY <1>10, <2>1 DEF deleteMedia, HolesAccounted, WaitsForMissing
<1>11. CASE UNCHANGED groupMediaVars
    BY <1>0, <1>11, PullUnchanged DEF groupMediaVars
<1> QED
    BY <1>1, <1>2, <1>3, <1>4, <1>5, <1>6, <1>7, <1>8, <1>9, <1>10, <1>11 DEF GroupMediaNext

\* The pull passes over no hole.
THEOREM NoHoleForgotten == GroupMediaSpec => []HolesAccounted
<1>1. PullInv => HolesAccounted
    BY DEF PullInv
<1> QED
    BY <1>1, PullInit, PullStep, PTL DEF GroupMediaSpec

\* Only missing fragments that a neighbour announced are asked for.
THEOREM AskedIsMissing == GroupMediaSpec => []WaitsForMissing
<1>1. PullInv => WaitsForMissing
    BY DEF PullInv
<1> QED
    BY <1>1, PullInit, PullStep, PTL DEF GroupMediaSpec

=============================================================================
