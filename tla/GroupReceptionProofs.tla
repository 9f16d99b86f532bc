------------------------ MODULE GroupReceptionProofs ------------------------
(***************************************************************************)
(* Proofs about GroupReception, for every stream, every window, every      *)
(* order of arrival and any bounds.                                        *)
(***************************************************************************)
EXTENDS GroupReception, WellFoundedInduction, TLAPS

-----------------------------------------------------------------------------
(* The two ends of a set of numbers *)

\* A non-empty set of natural numbers has a smallest element.
LEMMA HasSmallest ==
    ASSUME NEW S, S \subseteq Nat, S # {}
    PROVE  smallest(S) \in S /\ \A y \in S : smallest(S) <= y
<1> DEFINE R == OpToRel(<, Nat)
<1>1. IsWellFoundedOn(R, Nat)
    BY NatLessThanWellFounded
<1> HIDE DEF R
<1>2. PICK x \in S : \A y \in S : ~(<<y, x>> \in R)
    BY <1>1, WFMin
<1>3. ASSUME NEW y \in S
      PROVE  x <= y
    <2>1. y < x => <<y, x>> \in R
        BY DEF R, OpToRel
    <2> QED
        BY <2>1, <1>2
<1> QED
    BY <1>3 DEF smallest

\* A non-empty set of natural numbers with a bound has a largest one.
LEMMA HasLargest ==
    ASSUME NEW n \in Nat, NEW S, S \subseteq 0 .. n, S # {}
    PROVE  largest(S) \in S /\ \A y \in S : largest(S) >= y
<1> DEFINE T == {n - x : x \in S}
<1>1. T \subseteq Nat
    OBVIOUS
<1>2. T # {}
    OBVIOUS
<1>3. smallest(T) \in T /\ \A t \in T : smallest(T) <= t
    <2> HIDE DEF T
    <2> QED
        BY <1>1, <1>2, HasSmallest
<1>4. PICK x \in S : smallest(T) = n - x
    BY <1>3
<1>5. ASSUME NEW y \in S
      PROVE  x >= y
    <2>1. n - y \in T
        OBVIOUS
    <2>2. n - x <= n - y
        BY <2>1, <1>3, <1>4
    <2> QED
        BY <2>2
<1> QED
    BY <1>5 DEF largest

\* begin() of an ordered map is one of its keys, or end().
LEMMA BeginInSet ==
    ASSUME NEW S, S \subseteq Nat
    PROVE  begin(S) \in S \cup {0}
BY HasSmallest DEF begin

-----------------------------------------------------------------------------
(* Types *)

TypeInv == ReceptionTypeOK /\ stream \in Seq(Fragment)

\* What the types say of numbers.
LEMMA TypeFacts ==
    ASSUME TypeInv
    PROVE  /\ Len(stream) \in Nat
           /\ Ids \subseteq 0 .. Len(stream)
           /\ Ids \subseteq Nat \ {0}
           /\ \A id \in Ids : stream[id] \in Fragment
           /\ fragments \subseteq Ids /\ fragments \subseteq Nat /\ stored \subseteq Ids
           /\ currentId \in 0 .. Len(stream)
           /\ now \in Nat /\ times \subseteq 0 .. now /\ times \subseteq Nat
           /\ \A t \in times : references[t] \in Ids
<1>1. Len(stream) \in Nat /\ \A id \in 1 .. Len(stream) : stream[id] \in Fragment
    BY DEF TypeInv
<1>2. Ids \subseteq 0 .. Len(stream) /\ Ids \subseteq Nat \ {0}
    BY <1>1 DEF Ids
<1>3. fragments \subseteq Ids /\ stored \subseteq Ids /\ currentId \in 0 .. Len(stream)
    BY DEF TypeInv, ReceptionTypeOK
<1>4. now \in Nat /\ times \subseteq 0 .. now /\ \A t \in times : references[t] \in Ids
    BY DEF TypeInv, ReceptionTypeOK
<1> QED
    BY <1>1, <1>2, <1>3, <1>4 DEF Ids

\* A step that leaves the stream alone leaves the types alone.
LEMMA SameTypes ==
    ASSUME stream' = stream
    PROVE  Ids' = Ids /\ Requests' = Requests /\ MediaPackets' = MediaPackets
BY DEF Ids, Request, Requests, MediaPacket, MediaPackets

\* The queue of requests at its two ends.
LEMMA RequestAdded ==
    ASSUME NEW q \in Requests, NEW r \in Request
    PROVE  Append(q, r) \in Requests
BY DEF Requests

LEMMA RequestTaken ==
    ASSUME NEW q \in Requests, q # << >>
    PROVE  Head(q) \in Request /\ Tail(q) \in Requests
BY DEF Requests

\* One more packet for the application.
LEMMA PacketPushed ==
    ASSUME TypeInv, NEW first \in Ids, NEW last \in Ids
    PROVE  Append(pushed, packet(first, last)) \in MediaPackets
<1>1. packet(first, last) \in MediaPacket
    BY DEF TypeInv, ReceptionTypeOK, packet, MediaPacket
<1>2. pushed \in Seq(MediaPacket)
    BY DEF TypeInv, ReceptionTypeOK, MediaPackets
<1> QED
    BY <1>1, <1>2 DEF MediaPackets

\* The fragments of a message, from its START on, are ids of the stream.
LEMMA LastFragmentStored ==
    ASSUME TypeInv, NEW s \in fragments, s .. lastFragment(s) \subseteq fragments
    PROVE  lastFragment(s) \in fragments /\ lastFragment(s) >= s
<1>1. s \in Nat /\ stream[s].splittedId \in Nat
    BY TypeFacts DEF Fragment
<1>2. nbFragments(s) \in Nat
    BY <1>1, UInt8Assumption DEF nbFragments
<1>3. lastFragment(s) \in Nat /\ lastFragment(s) >= s
    BY <1>1, <1>2 DEF lastFragment
<1> QED
    BY <1>1, <1>3

\* The iterator after ++ is a fragment of the buffer, or the end.
LEMMA FollowingStored ==
    ASSUME TypeInv, NEW id
    PROVE  following(id) \in fragments \cup {0}
<1>1. {f \in fragments : f > id} \subseteq Nat
    BY TypeFacts
<1> QED
    BY <1>1, BeginInSet DEF following

\* The first fragment that a window keeps is one it has had, not after the
\* first reference that it keeps.
LEMMA FirstKeptStored ==
    ASSUME TypeInv, keptTimes # {}
    PROVE  /\ firstKept \in Ids
           /\ smallest(keptTimes) \in keptTimes
           /\ \A t \in keptTimes : smallest(keptTimes) <= t
           /\ firstKept <= references[smallest(keptTimes)]
<1>1. keptTimes \subseteq Nat /\ keptTimes \subseteq times
    BY TypeFacts DEF keptTimes
<1>2. smallest(keptTimes) \in keptTimes /\ \A t \in keptTimes : smallest(keptTimes) <= t
    BY <1>1, HasSmallest
<1> DEFINE reference == references[smallest(keptTimes)]
<1> DEFINE before == {f \in stored : f < reference}
<1>3. reference \in Ids
    BY <1>1, <1>2, TypeFacts
<1>4. CASE before = {}
    BY <1>2, <1>3, <1>4, TypeFacts DEF firstKept
<1>5. CASE before # {}
    <2>1. before \subseteq 0 .. Len(stream) /\ Len(stream) \in Nat
        BY TypeFacts
    <2>2. largest(before) \in before
        BY <1>5, <2>1, HasLargest
    <2>3. firstKept = largest(before)
        BY <1>5 DEF firstKept
    <2>4. firstKept \in Ids /\ firstKept < reference
        BY <2>2, <2>3, TypeFacts
    <2>5. firstKept <= reference
        BY <1>3, <2>4, TypeFacts
    <2> QED
        BY <1>2, <2>4, <2>5
<1> QED
    BY <1>4, <1>5

LEMMA TypeInit == ReceptionInit => TypeInv
<1> SUFFICES ASSUME ReceptionInit
             PROVE  TypeInv
    OBVIOUS
<1>1. stream \in Seq(Fragment) /\ Len(stream) \in Nat
    BY DEF ReceptionInit
<1>2. times = {}
    BY DEF ReceptionInit, times
<1>3. requests \in Requests /\ pushed \in MediaPackets
    BY DEF ReceptionInit, BufferInit, Requests, MediaPackets
<1>4. currentId \in 0 .. Len(stream) /\ resets \in Nat /\ now \in Nat
    BY <1>1 DEF ReceptionInit, BufferInit
<1>5. exists \in BOOLEAN /\ started \in BOOLEAN /\ closed \in BOOLEAN
    BY DEF ReceptionInit, BufferInit
<1>6. fragments = {} /\ stored = {} /\ itFragment = 0
    BY DEF ReceptionInit, BufferInit
<1> QED
    BY <1>1, <1>2, <1>3, <1>4, <1>5, <1>6, Zenon DEF TypeInv, ReceptionTypeOK

LEMMA TypeStep == TypeInv /\ [ReceptionNext]_receptionVars => TypeInv'
<1> SUFFICES ASSUME TypeInv, [ReceptionNext]_receptionVars
             PROVE  TypeInv'
    OBVIOUS
<1>a. stream' = stream
    BY DEF ReceptionNext, receptionVars, onFragment, onStartProcessing, eraseOldFragments,
           deleteMedia, tick, bufferThread, processStart, processAddFragment,
           processRemoveFragments, removeNothing, removeUnread, removeRead,
           processRemoveBuffer, processFragment, pushAlone, aloneTooEarly, ignoreSplitted,
           pushSplitted, splittedTooEarly, takes, processes
<1>b. Ids' = Ids /\ Requests' = Requests /\ MediaPackets' = MediaPackets
    BY <1>a, SameTypes
<1> USE <1>a, <1>b DEF TypeInv, ReceptionTypeOK, windowVars, bufferVars
<1>1. ASSUME NEW id \in Ids, onFragment(id)
      PROVE  TypeInv'
    <2>1. requests' \in Requests
        BY <1>1, RequestAdded DEF onFragment, add, request, Request
    <2>2. times' \subseteq 0 .. now' /\ \A t \in times' : references'[t] \in Ids
        BY <1>1 DEF onFragment, referenced, times
    <2> QED
        BY <1>1, <2>1, <2>2 DEF onFragment
<1>2. ASSUME onStartProcessing
      PROVE  TypeInv'
    <2>1. requests' \in Requests
        BY <1>2, RequestAdded DEF onStartProcessing, startProcessing, request, Request
    <2> QED
        BY <1>2, <2>1 DEF onStartProcessing, times
<1>3. ASSUME eraseOldFragments
      PROVE  TypeInv'
    <2>1. firstKept \in Ids
        BY <1>3, FirstKeptStored DEF eraseOldFragments, oldFragments
    <2>2. requests' \in Requests
        BY <1>3, <2>1, RequestAdded DEF eraseOldFragments, removeFragments, request, Request
    <2>3. times' \subseteq 0 .. now' /\ \A t \in times' : references'[t] \in Ids
        BY <1>3 DEF eraseOldFragments, keptTimes, times
    <2> QED
        BY <1>3, <2>2, <2>3 DEF eraseOldFragments
<1>4. ASSUME deleteMedia
      PROVE  TypeInv'
    <2>1. requests' \in Requests
        BY <1>4, RequestAdded DEF deleteMedia, removeBuffer, request, Request
    <2> QED
        BY <1>4, <2>1 DEF deleteMedia, times
<1>5. ASSUME tick
      PROVE  TypeInv'
    BY <1>5 DEF tick, times
<1>6. ASSUME processStart, UNCHANGED windowVars
      PROVE  TypeInv'
    <2>1. requests' \in Requests
        BY <1>6, RequestTaken DEF processStart, takes
    <2>2. begin(fragments) \in fragments \cup {0}
        BY BeginInSet, TypeFacts
    <2> QED
        BY <1>6, <2>1, <2>2 DEF processStart, times
<1>7. ASSUME processAddFragment, UNCHANGED windowVars
      PROVE  TypeInv'
    <2>1. Head(requests) \in Request /\ requests' \in Requests
        BY <1>7, RequestTaken DEF processAddFragment, takes
    <2>2. Head(requests).id \in Ids /\ itFragment = 0
        BY <1>7, <2>1 DEF processAddFragment, takes, Request
    <2> QED
        BY <1>7, <2>1, <2>2 DEF processAddFragment, times
<1>8. ASSUME processRemoveFragments, UNCHANGED windowVars
      PROVE  TypeInv'
    <2> DEFINE kept == keptFrom(Head(requests).id)
    <2>1. requests' \in Requests /\ itFragment = 0
        BY <1>8, RequestTaken
           DEF processRemoveFragments, removeNothing, removeUnread, removeRead, takes
    <2>2. kept \subseteq fragments /\ begin(kept) \in kept \cup {0}
        BY BeginInSet, TypeFacts DEF keptFrom
    <2> HIDE DEF kept
    <2>3. CASE removeNothing
        BY <1>8, <2>1, <2>3 DEF removeNothing, times
    <2>4. CASE removeUnread
        BY <1>8, <2>1, <2>2, <2>4, TypeFacts DEF removeUnread, times, kept
    <2>5. CASE removeRead
        BY <1>8, <2>1, <2>2, <2>5 DEF removeRead, times, kept
    <2> QED
        BY <1>8, <2>3, <2>4, <2>5 DEF processRemoveFragments
<1>9. ASSUME processRemoveBuffer, UNCHANGED windowVars
      PROVE  TypeInv'
    <2>1. requests' \in Requests /\ itFragment = 0
        BY <1>9, RequestTaken DEF processRemoveBuffer, takes
    <2>2. currentId' \in 0 .. Len(stream)
        BY <1>9, TypeFacts DEF processRemoveBuffer
    <2>3. exists' \in BOOLEAN /\ started' \in BOOLEAN
        BY <1>9 DEF processRemoveBuffer
    <2> QED
        BY <1>9, <2>1, <2>2, <2>3 DEF processRemoveBuffer, times
<1>10. ASSUME processFragment, UNCHANGED windowVars
       PROVE  TypeInv'
    <2>1. UNCHANGED <<requests, exists, started, resets>> /\ itFragment \in fragments
        BY <1>10 DEF processFragment, pushAlone, aloneTooEarly, ignoreSplitted,
                     pushSplitted, splittedTooEarly, processes
    <2>2. itFragment \in Ids /\ itFragment \in 0 .. Len(stream)
        BY <2>1, TypeFacts
    <2>3. CASE pushAlone
        <3>1. following(itFragment) \in fragments \cup {0}
            BY FollowingStored
        <3>2. pushed' \in MediaPackets
            BY <2>2, <2>3, PacketPushed DEF pushAlone
        <3> QED
            BY <1>10, <2>1, <2>2, <2>3, <3>1, <3>2 DEF pushAlone, times
    <2>4. CASE aloneTooEarly
        BY <1>10, <2>1, <2>4 DEF aloneTooEarly, times
    <2>5. CASE ignoreSplitted
        BY <1>10, <2>1, <2>5 DEF ignoreSplitted, times
    <2>6. CASE pushSplitted
        <3>1. PICK s \in ready :
                 /\ currentId' = lastFragment(s)
                 /\ pushed' = Append(pushed, packet(s, lastFragment(s)))
                 /\ itFragment' = following(lastFragment(s))
            BY <2>6 DEF pushSplitted
        <3>2. s \in fragments /\ lastFragment(s) \in fragments
            BY <3>1, LastFragmentStored DEF ready, starts
        <3>3. lastFragment(s) \in 0 .. Len(stream)
            BY <3>2, TypeFacts
        <3>4. following(lastFragment(s)) \in fragments \cup {0}
            BY FollowingStored
        <3>5. pushed' \in MediaPackets
            BY <3>1, <3>2, PacketPushed, TypeFacts
        <3> QED
            BY <1>10, <2>1, <2>6, <3>1, <3>3, <3>4, <3>5 DEF pushSplitted, times
    <2>7. CASE splittedTooEarly
        <3>1. awaited \in 0 .. Len(stream)
            BY <2>2, TypeFacts DEF awaited
        <3> QED
            BY <1>10, <2>1, <2>7, <3>1 DEF splittedTooEarly, times
    <2> QED
        BY <1>10, <2>3, <2>4, <2>5, <2>6, <2>7 DEF processFragment
<1>11. CASE UNCHANGED receptionVars
    BY <1>11 DEF receptionVars, times
<1> QED
    BY <1>1, <1>2, <1>3, <1>4, <1>5, <1>6, <1>7, <1>8, <1>9, <1>10, <1>11
       DEF ReceptionNext, bufferThread

\* Every id that waits somewhere is one of the stream, and the loop over
\* processFragment never continues on a fragment that was erased.
THEOREM ReceptionTypeCorrect == ReceptionSpec => []ReceptionTypeOK
<1>1. TypeInv => ReceptionTypeOK
    BY DEF TypeInv
<1> QED
    BY <1>1, TypeInit, TypeStep, PTL DEF ReceptionSpec

-----------------------------------------------------------------------------
(* The references into the window *)

LEMMA ReferencesInit == ReceptionInit => ReferencesStored
BY DEF ReceptionInit, ReferencesStored, times

LEMMA ReferencesStep ==
    TypeInv /\ ReferencesStored /\ [ReceptionNext]_receptionVars => ReferencesStored'
<1> SUFFICES ASSUME TypeInv, ReferencesStored, [ReceptionNext]_receptionVars
             PROVE  ReferencesStored'
    OBVIOUS
<1>1. ASSUME NEW id \in Ids, onFragment(id)
      PROVE  ReferencesStored'
    <2>1. stored' = stored \cup {id} /\ references' = referenced(id)
        BY <1>1 DEF onFragment
    <2>2. CASE isReference(id)
        <3>1. references' = [t \in times \cup {now} |-> IF t = now THEN id ELSE references[t]]
            BY <2>1, <2>2 DEF referenced
        <3>2. times' = times \cup {now} /\ \A t \in times' :
                 references'[t] = IF t = now THEN id ELSE references[t]
            BY <3>1 DEF times
        <3>3. \A t \in times : references[t] < id
            <4>1. ASSUME NEW t \in times
                  PROVE  references[t] < id
                <5>1. largest(times) \in times /\ largest(times) >= t
                    BY HasLargest, TypeFacts
                <5>2. id > references[largest(times)]
                    BY <2>2, <4>1 DEF isReference
                <5>3. references[t] <= references[largest(times)]
                    BY <5>1, TypeFacts DEF ReferencesStored
                <5> QED
                    BY <5>1, <5>2, <5>3, TypeFacts
            <4> QED
                BY <4>1
        <3>4. \A t \in times' : references'[t] \in stored'
            BY <2>1, <3>2 DEF ReferencesStored
        <3>5. ASSUME NEW t \in times', NEW u \in times', t < u
              PROVE  references'[t] < references'[u]
            <4>1. t # now /\ t \in times
                BY <3>2, <3>5, TypeFacts
            <4>2. CASE u = now
                BY <3>2, <3>3, <4>1, <4>2
            <4>3. CASE u # now
                BY <3>2, <3>5, <4>1, <4>3 DEF ReferencesStored
            <4> QED
                BY <4>2, <4>3
        <3> QED
            BY <3>4, <3>5 DEF ReferencesStored
    <2>3. CASE ~isReference(id)
        BY <2>1, <2>3 DEF referenced, ReferencesStored, times
    <2> QED
        BY <2>2, <2>3
<1>2. ASSUME eraseOldFragments
      PROVE  ReferencesStored'
    <2>1. /\ stored' = {f \in stored : f >= firstKept}
          /\ times' = keptTimes /\ \A t \in keptTimes : references'[t] = references[t]
          /\ keptTimes # {} /\ keptTimes \subseteq times
        BY <1>2 DEF eraseOldFragments, oldFragments, times, keptTimes
    <2>2. /\ firstKept \in Ids /\ smallest(keptTimes) \in keptTimes
          /\ \A t \in keptTimes : smallest(keptTimes) <= t
          /\ firstKept <= references[smallest(keptTimes)]
        BY <2>1, FirstKeptStored
    <2>3. ASSUME NEW t \in keptTimes
          PROVE  references[t] \in stored /\ references[t] >= firstKept
        <3>1. references[smallest(keptTimes)] <= references[t]
            BY <2>1, <2>2, TypeFacts DEF ReferencesStored
        <3> QED
            BY <2>1, <2>2, <3>1, TypeFacts DEF ReferencesStored
    <2> QED
        BY <2>1, <2>3 DEF ReferencesStored
<1>3. CASE UNCHANGED <<stored, references>>
    BY <1>3 DEF ReferencesStored, times
<1>4. onStartProcessing \/ deleteMedia \/ tick \/ UNCHANGED windowVars
        => UNCHANGED <<stored, references>>
    BY DEF onStartProcessing, deleteMedia, tick, windowVars
<1> QED
    BY <1>1, <1>2, <1>3, <1>4 DEF ReceptionNext, receptionVars, windowVars

\* eraseOldFragments always finds the fragment of the reference that it keeps,
\* whatever the window, the clock and the order of arrival.
THEOREM ReferencesFound == ReceptionSpec => []ReferencesStored
<1>1. ReceptionSpec => [](TypeInv /\ ReferencesStored)
    BY TypeInit, TypeStep, ReferencesInit, ReferencesStep, PTL DEF ReceptionSpec
<1> QED
    BY <1>1, PTL

-----------------------------------------------------------------------------
(* The buffer that a removal needs *)

Waits(command, i) == requests[i].command = command

\* A removal that waits has its buffer, or waits behind the fragment that will
\* create it; so will one that the window may still ask for.  Nothing is behind
\* the removal of the buffer.
QueueInv ==
    /\ \A i \in 1 .. Len(requests) : Waits("REMOVE_FRAGMENTS", i) =>
          exists \/ \E j \in 1 .. i - 1 : Waits("ADD_FRAGMENT", j)
    /\ ~closed /\ times # {} =>
          exists \/ \E j \in 1 .. Len(requests) : Waits("ADD_FRAGMENT", j)
    /\ \A i \in 1 .. Len(requests) : Waits("REMOVE_BUFFER", i) => closed /\ i = Len(requests)

\* The last packet pushed since the last reset ends at currentId, until the
\* media is gone for good.
GapInv ==
    /\ \A i \in 1 .. Len(pushed) : pushed[i].resets <= resets
    /\ (pushed # << >> /\ pushed[Len(pushed)].resets = resets) =>
          \/ currentId = pushed[Len(pushed)].last
          \/ closed /\ requests = << >> /\ fragments = {}
    /\ GaplessBetweenResets

\* Where the requests are after one is added at the end or taken at the front.
LEMMA AddedShape ==
    ASSUME NEW q \in Requests, NEW r \in Request
    PROVE  /\ Len(q) \in Nat /\ Len(Append(q, r)) = Len(q) + 1
           /\ \A i \in 1 .. Len(q) : Append(q, r)[i] = q[i]
           /\ Append(q, r)[Len(q) + 1] = r
BY DEF Requests

LEMMA TakenShape ==
    ASSUME NEW q \in Requests, q # << >>
    PROVE  /\ Len(q) \in Nat \ {0} /\ Len(Tail(q)) = Len(q) - 1
           /\ \A i \in 1 .. Len(q) - 1 : Tail(q)[i] = q[i + 1]
           /\ Head(q) = q[1]
BY DEF Requests

LEMMA QueueInit == ReceptionInit => QueueInv
BY DEF ReceptionInit, BufferInit, QueueInv, times

\* A request of the session's thread: a removal needs the buffer or a fragment
\* that waits, and the media is still there.
LEMMA QueueAdd ==
    ASSUME TypeInv, QueueInv, ~closed, NEW r \in Request,
           requests' = Append(requests, r), exists' = exists,
           r.command = "REMOVE_BUFFER" => closed',
           r.command = "REMOVE_FRAGMENTS" => times # {},
           times' # {} => times # {} \/ r.command = "ADD_FRAGMENT"
    PROVE  QueueInv'
<1> DEFINE n == Len(requests)
<1>1. /\ n \in Nat /\ Len(requests') = n + 1
      /\ \A i \in 1 .. n : requests'[i] = requests[i]
      /\ requests'[n + 1] = r
    BY AddedShape DEF TypeInv, ReceptionTypeOK
<1>2. \A i \in 1 .. n : ~Waits("REMOVE_BUFFER", i)
    BY DEF QueueInv
<1>3. ASSUME NEW i \in 1 .. n + 1, Waits("REMOVE_FRAGMENTS", i)'
      PROVE  exists' \/ \E j \in 1 .. i - 1 : Waits("ADD_FRAGMENT", j)'
    <2>1. exists \/ \E j \in 1 .. i - 1 : Waits("ADD_FRAGMENT", j)
        <3>1. CASE i = n + 1
            BY <1>1, <1>3, <3>1 DEF QueueInv, Waits
        <3>2. CASE i \in 1 .. n
            BY <1>1, <1>3, <3>2 DEF QueueInv, Waits
        <3> QED
            BY <1>1, <3>1, <3>2
    <2>2. \A j \in 1 .. i - 1 : Waits("ADD_FRAGMENT", j) => Waits("ADD_FRAGMENT", j)'
        BY <1>1 DEF Waits
    <2> QED
        BY <2>1, <2>2
<1>4. ASSUME ~closed', times' # {}
      PROVE  exists' \/ \E j \in 1 .. n + 1 : Waits("ADD_FRAGMENT", j)'
    <2>1. CASE r.command = "ADD_FRAGMENT"
        BY <1>1, <2>1 DEF Waits
    <2>2. CASE times # {}
        <3>1. exists \/ \E j \in 1 .. n : Waits("ADD_FRAGMENT", j)
            BY <2>2 DEF QueueInv
        <3> QED
            BY <1>1, <3>1 DEF Waits
    <2> QED
        BY <1>4, <2>1, <2>2
<1>5. ASSUME NEW i \in 1 .. n + 1, Waits("REMOVE_BUFFER", i)'
      PROVE  closed' /\ i = n + 1
    BY <1>1, <1>2, <1>5 DEF Waits
<1> QED
    BY <1>1, <1>3, <1>4, <1>5 DEF QueueInv

\* The thread takes a request: the buffer it creates is there for all that wait
\* behind it, and behind the removal of the buffer nothing waits.
LEMMA QueueTake ==
    ASSUME TypeInv, QueueInv, requests # << >>, requests' = Tail(requests),
           UNCHANGED <<closed, references>>,
           Waits("ADD_FRAGMENT", 1) => exists',
           Waits("REMOVE_BUFFER", 1) \/ exists' \/ exists' = exists
    PROVE  QueueInv'
<1> DEFINE n == Len(requests)
<1>1. /\ n \in Nat \ {0} /\ Len(requests') = n - 1
      /\ \A i \in 1 .. n - 1 : requests'[i] = requests[i + 1]
    BY TakenShape DEF TypeInv, ReceptionTypeOK
<1>2. times' = times
    BY DEF times
<1>d. \A i \in 1 .. n - 1 : i + 1 = n => i = n - 1
    <2> HIDE DEF n
    <2> QED
        BY <1>1
<1>e. \A i \in 1 .. n : Waits("REMOVE_BUFFER", i) => closed
    BY DEF QueueInv
<1>f. \A i \in 1 .. n : Waits("REMOVE_BUFFER", i) => i = n
    BY DEF QueueInv
<1>3. ASSUME Waits("REMOVE_BUFFER", 1)
      PROVE  QueueInv'
    <2>1. 1 \in 1 .. n
        BY <1>1
    <2>2. closed'
        BY <1>3, <1>e, <2>1
    <2>3. n = 1
        BY <1>3, <1>f, <2>1
    <2>4. Len(requests') = 0
        BY <1>1, <2>3
    <2>5. 1 .. 0 = {}
        OBVIOUS
    <2> QED
        BY <2>2, <2>4, <2>5 DEF QueueInv
<1>4. ASSUME exists'
      PROVE  QueueInv'
    <2>1. ASSUME NEW i \in 1 .. n - 1, Waits("REMOVE_BUFFER", i)'
          PROVE  closed' /\ i = n - 1
        <3>1. i + 1 \in 1 .. n /\ Waits("REMOVE_BUFFER", i + 1)
            BY <1>1, <2>1 DEF Waits
        <3>2. closed'
            BY <3>1, <1>e
        <3>3. i + 1 = n
            BY <3>1, <1>f
        <3>4. i = n - 1
            BY <1>d, <3>3
        <3> QED
            BY <3>2, <3>4
    <2> QED
        BY <1>1, <1>4, <2>1 DEF QueueInv
<1>5. ASSUME ~Waits("REMOVE_BUFFER", 1), ~exists', exists' = exists
      PROVE  QueueInv'
    <2>1. ~exists /\ ~Waits("ADD_FRAGMENT", 1)
        BY <1>5
    <2>2. ASSUME NEW i \in 1 .. n - 1, Waits("REMOVE_FRAGMENTS", i)'
          PROVE  \E j \in 1 .. i - 1 : Waits("ADD_FRAGMENT", j)'
        <3>1. i + 1 \in 1 .. n /\ Waits("REMOVE_FRAGMENTS", i + 1)
            BY <1>1, <2>2 DEF Waits
        <3>2. PICK j \in 1 .. i : Waits("ADD_FRAGMENT", j)
            BY <2>1, <3>1 DEF QueueInv
        <3>3. j - 1 \in 1 .. i - 1 /\ Waits("ADD_FRAGMENT", j - 1)'
            BY <1>1, <2>1, <3>1, <3>2 DEF Waits
        <3> QED
            BY <3>3
    <2>3. ASSUME ~closed', times' # {}
          PROVE  \E j \in 1 .. n - 1 : Waits("ADD_FRAGMENT", j)'
        <3>1. PICK j \in 1 .. n : Waits("ADD_FRAGMENT", j)
            BY <1>2, <2>1, <2>3 DEF QueueInv
        <3>2. j - 1 \in 1 .. n - 1 /\ Waits("ADD_FRAGMENT", j - 1)'
            BY <1>1, <2>1, <3>1 DEF Waits
        <3> QED
            BY <3>2
    <2>4. ASSUME NEW i \in 1 .. n - 1, Waits("REMOVE_BUFFER", i)'
          PROVE  closed' /\ i = n - 1
        <3>1. i + 1 \in 1 .. n /\ Waits("REMOVE_BUFFER", i + 1)
            BY <1>1, <2>4 DEF Waits
        <3>2. closed'
            BY <3>1, <1>e
        <3>3. i + 1 = n
            BY <3>1, <1>f
        <3>4. i = n - 1
            BY <1>d, <3>3
        <3> QED
            BY <3>2, <3>4
    <2> QED
        BY <1>1, <2>2, <2>3, <2>4 DEF QueueInv
<1> QED
    BY <1>3, <1>4, <1>5

LEMMA QueueStep == TypeInv /\ QueueInv /\ [ReceptionNext]_receptionVars => QueueInv'
<1> SUFFICES ASSUME TypeInv, QueueInv, [ReceptionNext]_receptionVars
             PROVE  QueueInv'
    OBVIOUS
<1> USE DEF bufferVars, windowVars
<1>1. ASSUME NEW id \in Ids, onFragment(id)
      PROVE  QueueInv'
    <2> DEFINE r == [command |-> "ADD_FRAGMENT", id |-> id]
    <2>1. r \in Request
        BY DEF Request
    <2> QED
        BY <1>1, <2>1, QueueAdd DEF onFragment, add, request
<1>2. ASSUME onStartProcessing
      PROVE  QueueInv'
    <2> DEFINE r == [command |-> "START_PROCESSING", id |-> 0]
    <2>1. r \in Request
        BY DEF Request
    <2> QED
        BY <1>2, <2>1, QueueAdd DEF onStartProcessing, startProcessing, request, times
<1>3. ASSUME eraseOldFragments
      PROVE  QueueInv'
    <2> DEFINE r == [command |-> "REMOVE_FRAGMENTS", id |-> firstKept]
    <2>1. firstKept \in Ids /\ times # {}
        BY <1>3, FirstKeptStored DEF eraseOldFragments, oldFragments, keptTimes
    <2>2. r \in Request
        BY <2>1 DEF Request
    <2> QED
        BY <1>3, <2>1, <2>2, QueueAdd DEF eraseOldFragments, removeFragments, request
<1>4. ASSUME deleteMedia
      PROVE  QueueInv'
    <2> DEFINE r == [command |-> "REMOVE_BUFFER", id |-> 0]
    <2>1. r \in Request
        BY DEF Request
    <2> QED
        BY <1>4, <2>1, QueueAdd DEF deleteMedia, removeBuffer, request, times
<1>5. ASSUME bufferThread, requests # << >>, requests' = Tail(requests), UNCHANGED windowVars,
             Waits("ADD_FRAGMENT", 1) => exists',
             Waits("REMOVE_BUFFER", 1) \/ exists' \/ exists' = exists
      PROVE  QueueInv'
    BY <1>5, QueueTake
<1>6. requests # << >> => Head(requests) = requests[1]
    BY TakenShape DEF TypeInv, ReceptionTypeOK
<1>7. ASSUME processStart \/ processAddFragment, UNCHANGED windowVars
      PROVE  QueueInv'
    BY <1>5, <1>7 DEF processStart, processAddFragment, takes, bufferThread
<1>8. ASSUME processRemoveFragments, UNCHANGED windowVars
      PROVE  QueueInv'
    <2>1. /\ takes("REMOVE_FRAGMENTS") /\ exists' = exists
        BY <1>8 DEF processRemoveFragments, removeNothing, removeUnread, removeRead
    <2>2. ~Waits("ADD_FRAGMENT", 1)
        BY <1>6, <2>1 DEF takes, Waits
    <2> QED
        BY <1>5, <1>8, <2>1, <2>2 DEF takes, bufferThread
<1>9. ASSUME processRemoveBuffer, UNCHANGED windowVars
      PROVE  QueueInv'
    <2>1. Waits("REMOVE_BUFFER", 1) /\ ~Waits("ADD_FRAGMENT", 1)
        BY <1>6, <1>9 DEF processRemoveBuffer, takes, Waits
    <2> QED
        BY <1>5, <1>9, <2>1 DEF processRemoveBuffer, takes, bufferThread
<1>10. CASE UNCHANGED <<requests, exists, closed, references>>
    BY <1>10 DEF QueueInv, Waits, times
<1>11. processFragment => UNCHANGED <<requests, exists>>
    BY DEF processFragment, pushAlone, aloneTooEarly, ignoreSplitted,
           pushSplitted, splittedTooEarly, processes
<1> QED
    BY <1>1, <1>2, <1>3, <1>4, <1>7, <1>8, <1>9, <1>10, <1>11
       DEF ReceptionNext, bufferThread, tick, receptionVars

\* The "implementation error" of a removal without buffer cannot happen.
THEOREM RemovalIsSafe == ReceptionSpec => []RemovalFindsBuffer
<1>1. ReceptionSpec => [](TypeInv /\ QueueInv)
    BY TypeInit, TypeStep, QueueInit, QueueStep, PTL DEF ReceptionSpec
<1>2. TypeInv /\ QueueInv => RemovalFindsBuffer
    <2> SUFFICES ASSUME TypeInv, QueueInv, requests # << >>,
                        Head(requests).command = "REMOVE_FRAGMENTS"
                 PROVE  exists
        BY DEF RemovalFindsBuffer
    <2>1. Len(requests) \in Nat \ {0} /\ Head(requests) = requests[1]
        BY TakenShape DEF TypeInv, ReceptionTypeOK
    <2>2. 1 \in 1 .. Len(requests) /\ Waits("REMOVE_FRAGMENTS", 1)
        BY <2>1 DEF Waits
    <2>3. 1 .. 1 - 1 = {}
        OBVIOUS
    <2> QED
        BY <2>2, <2>3 DEF QueueInv
<1> QED
    BY <1>1, <1>2, PTL

-----------------------------------------------------------------------------
(* Nothing is skipped between two resets *)

\* Every packet that was pushed ends at an id of the stream.
LEMMA PushedTyped ==
    ASSUME TypeInv
    PROVE  /\ pushed \in Seq(MediaPacket) /\ Len(pushed) \in Nat
           /\ \A i \in 1 .. Len(pushed) : pushed[i].resets \in Nat /\ pushed[i].last \in Ids
<1>1. pushed \in Seq(MediaPacket)
    BY DEF TypeInv, ReceptionTypeOK, MediaPackets
<1>2. Len(pushed) \in Nat /\ \A i \in 1 .. Len(pushed) : pushed[i] \in MediaPacket
    BY <1>1
<1>3. \A x \in MediaPacket : x.resets \in Nat /\ x.last \in Ids
    BY DEF MediaPacket
<1> QED
    BY <1>1, <1>2, <1>3

LEMMA GapInit == ReceptionInit => GapInv
BY DEF ReceptionInit, BufferInit, GapInv, GaplessBetweenResets

\* A packet is pushed that begins where the last one ended, or is the first one
\* since the reset.
LEMMA GapPush ==
    ASSUME TypeInv, GapInv, fragments # {}, NEW first \in Ids, NEW last \in Ids,
           currentId = 0 \/ first = currentId + 1,
           pushed' = Append(pushed, packet(first, last)), currentId' = last, resets' = resets
    PROVE  GapInv'
<1> DEFINE n == Len(pushed)
<1>1. pushed \in Seq(MediaPacket) /\ packet(first, last) \in MediaPacket /\ resets \in Nat
    BY DEF TypeInv, ReceptionTypeOK, MediaPackets, packet, MediaPacket
<1>2. /\ n \in Nat /\ Len(pushed') = n + 1
      /\ \A i \in 1 .. n : pushed'[i] = pushed[i]
      /\ pushed'[n + 1] = packet(first, last)
    BY <1>1
<1>3. pushed'[n + 1].resets = resets /\ pushed'[n + 1].first = first /\ pushed'[n + 1].last = last
    BY <1>2 DEF packet
<1>4. \A i \in 1 .. n : pushed[i].resets \in Nat /\ pushed[i].last \in Ids
    BY PushedTyped
<1>5. ASSUME NEW i \in 1 .. n + 1
      PROVE  pushed'[i].resets <= resets'
    <2>1. CASE i = n + 1
        BY <1>1, <1>3, <2>1
    <2>2. CASE i \in 1 .. n
        BY <1>2, <2>2 DEF GapInv
    <2> QED
        BY <1>2, <2>1, <2>2
<1>6. ASSUME n # 0, pushed[n].resets = resets
      PROVE  first = pushed[n].last + 1
    <2>1. n \in 1 .. n /\ pushed # << >>
        BY <1>2, <1>6
    <2>2. currentId = pushed[n].last
        BY <1>6, <2>1 DEF GapInv
    <2>3. currentId # 0
        BY <1>4, <2>1, <2>2, TypeFacts
    <2> QED
        BY <2>2, <2>3
<1>7. ASSUME NEW i \in 2 .. n + 1, pushed'[i].resets = pushed'[i - 1].resets
      PROVE  pushed'[i].first = pushed'[i - 1].last + 1
    <2>1. CASE i = n + 1
        <3>1. i - 1 = n /\ n \in 1 .. n /\ n # 0
            BY <1>2, <2>1
        <3>2. pushed'[i - 1] = pushed[n]
            BY <1>2, <3>1
        <3>3. pushed[n].resets = resets
            BY <1>3, <1>7, <2>1, <3>2
        <3> QED
            BY <1>3, <1>6, <2>1, <3>1, <3>2, <3>3
    <2>2. CASE i \in 2 .. n
        <3>1. i \in 1 .. n /\ i - 1 \in 1 .. n
            BY <1>2, <2>2
        <3>2. pushed'[i] = pushed[i] /\ pushed'[i - 1] = pushed[i - 1]
            BY <1>2, <3>1
        <3> QED
            BY <1>7, <2>2, <3>2 DEF GapInv, GaplessBetweenResets
    <2> QED
        BY <1>2, <2>1, <2>2
<1>8. pushed'[Len(pushed')].last = currentId'
    BY <1>2, <1>3
<1> QED
    BY <1>2, <1>5, <1>7, <1>8 DEF GapInv, GaplessBetweenResets

LEMMA GapStep ==
    TypeInv /\ QueueInv /\ GapInv /\ [ReceptionNext]_receptionVars => GapInv'
<1> SUFFICES ASSUME TypeInv, QueueInv, GapInv, [ReceptionNext]_receptionVars
             PROVE  GapInv'
    OBVIOUS
<1> USE DEF bufferVars, windowVars
<1> DEFINE n == Len(pushed)
<1>1. /\ n \in Nat /\ pushed \in Seq(MediaPacket)
      /\ \A i \in 1 .. n : pushed[i].resets \in Nat /\ pushed[i].last \in Ids
      /\ resets \in Nat
    BY PushedTyped DEF TypeInv, ReceptionTypeOK
<1>2. ASSUME ~closed, UNCHANGED <<pushed, resets, currentId>>
      PROVE  GapInv'
    BY <1>2 DEF GapInv, GaplessBetweenResets
<1>3. ASSUME requests # << >> \/ fragments # {}, UNCHANGED <<pushed, resets, currentId>>
      PROVE  GapInv'
    BY <1>3 DEF GapInv, GaplessBetweenResets
<1>4. CASE UNCHANGED <<pushed, resets, currentId, closed, requests, fragments>>
    BY <1>4 DEF GapInv, GaplessBetweenResets
<1>5. ASSUME removeUnread
      PROVE  GapInv'
    <2>1. UNCHANGED pushed /\ resets' = resets + 1
        BY <1>5 DEF removeUnread
    <2>2. \A i \in 1 .. n : pushed[i].resets < resets'
        BY <1>1, <2>1 DEF GapInv
    <2>3. pushed # << >> => n \in 1 .. n
        BY <1>1
    <2>4. pushed # << >> => pushed[n].resets # resets'
        BY <1>1, <2>1, <2>2, <2>3
    <2>5. \A i \in 1 .. n : pushed[i].resets <= resets'
        BY <1>1, <2>1, <2>2
    <2> QED
        BY <2>1, <2>4, <2>5 DEF GapInv, GaplessBetweenResets
<1>6. ASSUME processRemoveBuffer, UNCHANGED windowVars
      PROVE  GapInv'
    <2>1. /\ requests # << >> /\ requests' = Tail(requests)
          /\ Head(requests).command = "REMOVE_BUFFER"
          /\ fragments' = {} /\ UNCHANGED <<pushed, resets>>
        BY <1>6 DEF processRemoveBuffer, takes
    <2>2. Len(requests) \in Nat \ {0} /\ Waits("REMOVE_BUFFER", 1)
        BY <2>1, TakenShape DEF TypeInv, ReceptionTypeOK, Waits
    <2>3. 1 \in 1 .. Len(requests)
        BY <2>2
    <2>4. closed
        BY <2>2, <2>3 DEF QueueInv
    <2>5. 1 = Len(requests)
        BY <2>2, <2>3 DEF QueueInv
    <2>6. requests' = << >>
        BY <2>1, <2>5 DEF TypeInv, ReceptionTypeOK, Requests
    <2>7. closed'
        BY <1>6, <2>4
    <2> QED
        BY <2>1, <2>6, <2>7 DEF GapInv, GaplessBetweenResets
<1>7. ASSUME processFragment, UNCHANGED windowVars
      PROVE  GapInv'
    <2>1. itFragment \in fragments /\ resets' = resets
        BY <1>7 DEF processFragment, pushAlone, aloneTooEarly, ignoreSplitted,
                    pushSplitted, splittedTooEarly, processes, TypeInv, ReceptionTypeOK
    <2>2. itFragment \in Ids
        BY <2>1, TypeFacts
    <2>3. CASE pushAlone
        BY <2>1, <2>2, <2>3, GapPush DEF pushAlone, isNext
    <2>4. CASE aloneTooEarly
        BY <1>3, <2>1, <2>4 DEF aloneTooEarly
    <2>5. CASE ignoreSplitted
        <3>1. currentId = 0 /\ UNCHANGED <<currentId, pushed>>
            BY <2>5 DEF ignoreSplitted
        <3> QED
            BY <1>3, <2>1, <3>1
    <2>6. CASE pushSplitted
        <3>1. PICK s \in ready :
                 /\ currentId' = lastFragment(s)
                 /\ pushed' = Append(pushed, packet(s, lastFragment(s)))
            BY <2>6 DEF pushSplitted
        <3>2. s \in fragments /\ lastFragment(s) \in fragments
            BY <3>1, LastFragmentStored DEF ready, starts
        <3>3. s \in Ids /\ lastFragment(s) \in Ids
            BY <3>2, TypeFacts
        <3>4. currentId = 0 \/ s = currentId + 1
            BY <3>1 DEF ready, isNext, awaited
        <3> QED
            BY <2>1, <3>1, <3>2, <3>3, <3>4, GapPush
    <2>7. CASE splittedTooEarly
        <3>1. UNCHANGED <<pushed, resets>> /\ currentId' = awaited
            BY <2>1, <2>7 DEF splittedTooEarly
        <3>2. CASE currentId # 0
            BY <1>3, <2>1, <3>1, <3>2 DEF awaited
        <3>3. CASE currentId = 0
            <4>1. pushed # << >> => pushed[n].resets # resets
                <5> SUFFICES ASSUME pushed # << >>, pushed[n].resets = resets
                             PROVE  FALSE
                    OBVIOUS
                <5>1. n \in 1 .. n
                    BY <1>1
                <5>2. currentId = pushed[n].last
                    BY <2>1 DEF GapInv
                <5> QED
                    BY <1>1, <3>3, <5>1, <5>2, TypeFacts
            <4> QED
                BY <3>1, <4>1 DEF GapInv, GaplessBetweenResets
        <3> QED
            BY <3>2, <3>3
    <2> QED
        BY <1>7, <2>3, <2>4, <2>5, <2>6, <2>7 DEF processFragment
<1>8. ASSUME processStart \/ processAddFragment \/ removeNothing \/ removeRead
      PROVE  GapInv'
    BY <1>3, <1>8 DEF processStart, processAddFragment, removeNothing, removeRead, takes
<1>9. (\E id \in Ids : onFragment(id)) \/ onStartProcessing \/ eraseOldFragments \/ deleteMedia
        => ~closed /\ UNCHANGED <<pushed, resets, currentId>>
    BY DEF onFragment, onStartProcessing, eraseOldFragments, deleteMedia
<1>10. tick \/ UNCHANGED receptionVars
        => UNCHANGED <<pushed, resets, currentId, closed, requests, fragments>>
    BY DEF tick, receptionVars
<1> QED
    BY <1>2, <1>4, <1>5, <1>6, <1>7, <1>8, <1>9, <1>10
       DEF ReceptionNext, bufferThread, processRemoveFragments

\* Between two removals of unread fragments the application receives every
\* message after the first, once and in order, for every stream and every order
\* of arrival.
THEOREM NothingSkipped == ReceptionSpec => []GaplessBetweenResets
<1>1. ReceptionSpec => [](TypeInv /\ QueueInv /\ GapInv)
    BY TypeInit, TypeStep, QueueInit, QueueStep, GapInit, GapStep, PTL DEF ReceptionSpec
<1>2. GapInv => GaplessBetweenResets
    BY DEF GapInv
<1> QED
    BY <1>1, <1>2, PTL

-----------------------------------------------------------------------------
(* The layout of the stream: the messages of the publisher one after the   *)
(* other, each a run of consecutive ids that counts down to its last one.  *)

\* No message has exactly as many fragments as a UInt8 counts, for which
\* nbFragments is 0 (GroupBuffer.cpp:232).
NoFullMessage == \A size \in Sizes : splitCounter(size) # UInt8Range - 1

\* The ids a .. b are the message m of the stream str.
IsMessage(str, a, b, m) ==
    /\ a \in 1 .. b /\ b \in 1 .. Len(str)
    /\ b - a + 1 < UInt8Range
    /\ \A f \in 1 .. Len(str) : str[f].message = m <=> f \in a .. b
    /\ \A f \in a .. b :
          /\ str[f].splittedId = b - f
          /\ str[f].marker = "START" <=> f = a /\ a # b
          /\ str[f].marker = "DATA" => a = b
          /\ str[f].marker = "END" => f = b
    /\ a = b => str[a].marker \in {"DATA", "END"}

\* A stream of n messages.
Layout(str, n) ==
    /\ str \in Seq(Fragment)
    /\ \A f \in 1 .. Len(str) : \E m \in 1 .. n : \E a, b \in 1 .. Len(str) :
          IsMessage(str, a, b, m) /\ f \in a .. b

LEMMA SetInduction ==
    ASSUME NEW T, 0 \in T, \A n \in Nat : n \in T => n + 1 \in T
    PROVE  Nat \subseteq T
<1> DEFINE S == Nat \ T
<1>1. SUFFICES ASSUME S # {} PROVE FALSE
    OBVIOUS
<1>2. smallest(S) \in S /\ \A y \in S : smallest(S) <= y
    <2> HIDE DEF S
    <2>1. S \subseteq Nat
        BY DEF S
    <2> QED
        BY <1>1, <2>1, HasSmallest
<1> DEFINE x == smallest(S)
<1>3. x \in Nat /\ x # 0 /\ x - 1 \in Nat /\ x - 1 \notin S
    BY <1>2
<1>4. (x - 1) + 1 \in T
    BY <1>3
<1> QED
    BY <1>2, <1>3, <1>4

\* The counter of a message that is not full.
LEMMA CounterRange ==
    ASSUME NoFullMessage, NEW size \in Sizes
    PROVE  splitCounter(size) \in 0 .. UInt8Range - 2
<1>1. size \in Nat \ {0} /\ UInt8Range \in Nat \ {0, 1}
    BY ReceptionAssumption, UInt8Assumption
<1>2. splitCounter(size) \in 0 .. UInt8Range - 1
    BY <1>1 DEF splitCounter
<1> QED
    BY <1>1, <1>2 DEF NoFullMessage

\* One more message at the end of a stream.
LEMMA LayoutGrows ==
    ASSUME NoFullMessage, NEW str, NEW n, n \in Nat, Layout(str, n), NEW size \in Sizes
    PROVE  Layout(onMedia(str, size, n + 1), n + 1)
<1> DEFINE k == splitCounter(size)
<1> DEFINE new == [i \in 1 .. k + 1 |-> splitted(size, i - 1, n + 1)]
<1> DEFINE res == onMedia(str, size, n + 1)
<1> DEFINE L == Len(str)
<1>1. k \in 0 .. UInt8Range - 2 /\ UInt8Range \in Nat \ {0, 1} /\ k \in Nat
    BY CounterRange, UInt8Assumption
<1>2. size = 1 => k = 0
    <2>1. 0 % UInt8Range = 0
        BY <1>1
    <2> QED
        BY <2>1 DEF splitCounter
<1>3. str \in Seq(Fragment) /\ L \in Nat
    BY DEF Layout
<1>4. ASSUME NEW i \in 1 .. k + 1
      PROVE  /\ splitted(size, i - 1, n + 1) \in Fragment
             /\ splitted(size, i - 1, n + 1).message = n + 1
             /\ splitted(size, i - 1, n + 1).splittedId = k + 1 - i
             /\ splitted(size, i - 1, n + 1).marker = "START" <=> i = 1 /\ k # 0
             /\ splitted(size, i - 1, n + 1).marker = "DATA" => k = 0
             /\ splitted(size, i - 1, n + 1).marker = "END" => i = k + 1
             /\ k = 0 => splitted(size, i - 1, n + 1).marker \in {"DATA", "END"}
    <2> HIDE DEF k
    <2>1. k - (i - 1) \in Nat /\ k - (i - 1) = k + 1 - i
        BY <1>1
    <2>2. splitted(size, i - 1, n + 1) =
             [marker |-> IF size = 1 THEN "DATA"
                         ELSE IF k - (i - 1) = 0 THEN "END"
                         ELSE IF i - 1 = 0 THEN "START" ELSE "NEXT",
              splittedId |-> k - (i - 1), message |-> n + 1]
        BY DEF splitted, k
    <2> QED
        BY <1>1, <1>2, <2>1, <2>2 DEF Fragment
<1> HIDE DEF k
<1>5. new \in Seq(Fragment) /\ Len(new) = k + 1
    <2>1. new \in [1 .. k + 1 -> Fragment]
        BY <1>4
    <2> QED
        BY <1>1, <2>1
<1>6. res = str \o new
    BY DEF onMedia, k
<1>7. \A i \in 1 .. k + 1 : new[i] = splitted(size, i - 1, n + 1)
    OBVIOUS
<1> HIDE DEF new, res
<1>8. /\ res \in Seq(Fragment) /\ Len(res) = L + k + 1
      /\ \A f \in 1 .. L : res[f] = str[f]
      /\ \A f \in L + 1 .. L + k + 1 : res[f] = new[f - L]
    BY <1>1, <1>3, <1>5, <1>6
<1>9. \A f \in 1 .. L : str[f].message \in 1 .. n
    <2>1. ASSUME NEW f \in 1 .. L
          PROVE  str[f].message \in 1 .. n
        <3>1. PICK m \in 1 .. n, a \in 1 .. L, b \in 1 .. L :
                 IsMessage(str, a, b, m) /\ f \in a .. b
            BY DEF Layout
        <3> QED
            BY <3>1 DEF IsMessage
    <2> QED
        BY <2>1
<1>10. ASSUME NEW f \in L + 1 .. L + k + 1
       PROVE  /\ res[f].message = n + 1
              /\ res[f].splittedId = L + k + 1 - f
              /\ res[f].marker = "START" <=> f = L + 1 /\ k # 0
              /\ res[f].marker = "DATA" => k = 0
              /\ res[f].marker = "END" => f = L + k + 1
              /\ k = 0 => res[f].marker \in {"DATA", "END"}
    <2>1. f - L \in 1 .. k + 1
        BY <1>1, <1>3
    <2>2. res[f] = splitted(size, (f - L) - 1, n + 1)
        BY <1>7, <1>8, <2>1
    <2>3. k + 1 - (f - L) = L + k + 1 - f /\ (f - L = 1 <=> f = L + 1)
          /\ (f - L = k + 1 <=> f = L + k + 1)
        BY <1>1, <1>3
    <2> QED
        BY <1>4, <2>1, <2>2, <2>3
<1>11. ASSUME NEW f \in 1 .. L
       PROVE  \E m \in 1 .. n + 1 : \E a, b \in 1 .. Len(res) :
                 IsMessage(res, a, b, m) /\ f \in a .. b
    <2>1. PICK m \in 1 .. n, a \in 1 .. L, b \in 1 .. L :
             IsMessage(str, a, b, m) /\ f \in a .. b
        BY DEF Layout
    <2>2. m \in 1 .. n + 1 /\ a \in 1 .. Len(res) /\ b \in 1 .. Len(res) /\ m # n + 1
        BY <1>1, <1>3, <1>8
    <2>3. \A g \in 1 .. Len(res) : g \in 1 .. L \/ g \in L + 1 .. L + k + 1
        BY <1>1, <1>3, <1>8
    <2>4. \A g \in a .. b : g \in 1 .. L
        BY <1>3
    <2>5. \A g \in 1 .. Len(res) : res[g].message = m <=> g \in a .. b
        <3>1. ASSUME NEW g \in 1 .. L
              PROVE  res[g].message = m <=> g \in a .. b
            BY <1>8, <2>1 DEF IsMessage
        <3>2. ASSUME NEW g \in L + 1 .. L + k + 1
              PROVE  res[g].message # m /\ g \notin a .. b
            BY <1>3, <1>10, <2>2
        <3> QED
            BY <2>3, <3>1, <3>2
    <2>6. a \in 1 .. b /\ b - a + 1 < UInt8Range
        BY <2>1 DEF IsMessage
    <2>7. \A g \in a .. b :
             /\ res[g].splittedId = b - g
             /\ res[g].marker = "START" <=> g = a /\ a # b
             /\ res[g].marker = "DATA" => a = b
             /\ res[g].marker = "END" => g = b
        BY <1>8, <2>1, <2>4 DEF IsMessage
    <2>8. a = b => res[a].marker \in {"DATA", "END"}
        BY <1>8, <2>1 DEF IsMessage
    <2>9. IsMessage(res, a, b, m)
        BY <2>2, <2>5, <2>6, <2>7, <2>8 DEF IsMessage
    <2> QED
        BY <2>1, <2>2, <2>9
<1>12. ASSUME NEW f \in L + 1 .. L + k + 1
       PROVE  \E m \in 1 .. n + 1 : \E a, b \in 1 .. Len(res) :
                 IsMessage(res, a, b, m) /\ f \in a .. b
    <2> DEFINE a == L + 1
    <2> DEFINE b == L + k + 1
    <2>1. /\ a \in 1 .. Len(res) /\ b \in 1 .. Len(res) /\ a \in 1 .. b
          /\ n + 1 \in 1 .. n + 1 /\ b - a + 1 < UInt8Range
          /\ (a = b <=> k = 0) /\ L \notin a .. b
        BY <1>1, <1>3, <1>8
    <2>2. \A g \in 1 .. Len(res) : g \in 1 .. L \/ g \in a .. b
        BY <1>1, <1>3, <1>8
    <2>3. \A g \in 1 .. L : res[g].message # n + 1 /\ g \notin a .. b
        BY <1>3, <1>8, <1>9
    <2>4. \A g \in a .. b : res[g].message = n + 1
        BY <1>10
    <2>5. \A g \in 1 .. Len(res) : res[g].message = n + 1 <=> g \in a .. b
        <3> HIDE DEF a, b
        <3> QED
            BY <2>2, <2>3, <2>4
    <2>6. ASSUME NEW g \in a .. b
          PROVE  /\ res[g].splittedId = b - g
                 /\ res[g].marker = "START" <=> g = a /\ a # b
                 /\ res[g].marker = "DATA" => a = b
                 /\ res[g].marker = "END" => g = b
        <3>1. L + k + 1 - g = b - g
            BY <1>1, <1>3
        <3>2. a = b <=> k = 0
            BY <2>1
        <3> QED
            BY <1>10, <3>1, <3>2
    <2>7. a = b => res[a].marker \in {"DATA", "END"}
        <3>1. a \in L + 1 .. L + k + 1
            BY <1>1, <1>3
        <3> QED
            BY <1>10, <2>1, <3>1
    <2>8. f \in a .. b
        OBVIOUS
    <2> HIDE DEF a, b
    <2>9. IsMessage(res, a, b, n + 1)
        BY <2>1, <2>5, <2>6, <2>7 DEF IsMessage
    <2> QED
        BY <2>1, <2>8, <2>9
<1>13. \A f \in 1 .. Len(res) : f \in 1 .. L \/ f \in L + 1 .. L + k + 1
    BY <1>1, <1>3, <1>8
<1>14. Layout(res, n + 1)
    BY <1>8, <1>11, <1>12, <1>13 DEF Layout
<1> QED
    BY <1>14 DEF res

\* The recursion of publishedStream has a solution.
LEMMA PublishedExists ==
    ASSUME NEW sizes
    PROVE  \E g : g = [m \in 0 .. Messages |->
                          IF m = 0 THEN << >> ELSE onMedia(g[m - 1], sizes[m], m)]
<1> DEFINE body(g, m) == IF m = 0 THEN << >> ELSE onMedia(g[m - 1], sizes[m], m)
<1> DEFINE T == {n \in Nat : \E g : g = [m \in 0 .. n |-> body(g, m)]}
<1>1. 0 \in T
    <2> DEFINE g == [m \in 0 .. 0 |-> << >>]
    <2>1. \A m \in 0 .. 0 : m = 0
        OBVIOUS
    <2>2. g = [m \in 0 .. 0 |-> body(g, m)]
        BY <2>1
    <2> QED
        BY <2>2
<1>2. ASSUME NEW n \in Nat, n \in T
      PROVE  n + 1 \in T
    <2>1. PICK g : g = [m \in 0 .. n |-> body(g, m)]
        BY <1>2
    <2> DEFINE e == [m \in 0 .. n + 1 |->
                        IF m = n + 1 THEN onMedia(g[n], sizes[m], m) ELSE g[m]]
    <2>2. ASSUME NEW m \in 0 .. n + 1
          PROVE  e[m] = body(e, m)
        <3>1. CASE m = n + 1
            <4>1. m - 1 = n /\ n \in 0 .. n + 1 /\ n # n + 1 /\ m # 0
                BY <3>1
            <4>2. e[m - 1] = g[n]
                BY <4>1
            <4> QED
                BY <3>1, <4>1, <4>2
        <3>2. CASE m # n + 1
            <4>1. m \in 0 .. n
                BY <3>2
            <4>2. e[m] = g[m] /\ g[m] = body(g, m)
                BY <3>2, <4>1, <2>1
            <4>3. m # 0 => m - 1 \in 0 .. n + 1 /\ m - 1 # n + 1
                BY <4>1
            <4>4. m # 0 => e[m - 1] = g[m - 1]
                BY <4>3
            <4> QED
                BY <4>2, <4>4
        <3> QED
            BY <3>1, <3>2
    <2>3. e = [m \in 0 .. n + 1 |-> body(e, m)]
        BY <2>2
    <2> HIDE DEF e
    <2> QED
        BY <2>3
<1> HIDE DEF T
<1>3. Messages \in T
    BY <1>1, <1>2, SetInduction, ReceptionAssumption
<1> QED
    BY <1>3 DEF T

\* What the publisher sends has the layout.
LEMMA PublishedLayout ==
    ASSUME NoFullMessage, NEW sizes \in [1 .. Messages -> Sizes]
    PROVE  Layout(publishedStream(sizes), Messages)
<1> DEFINE p == CHOOSE g : g = [m \in 0 .. Messages |->
                          IF m = 0 THEN << >> ELSE onMedia(g[m - 1], sizes[m], m)]
<1>1. p = [m \in 0 .. Messages |-> IF m = 0 THEN << >> ELSE onMedia(p[m - 1], sizes[m], m)]
    BY PublishedExists
<1>2. publishedStream(sizes) = p[Messages]
    BY DEF publishedStream
<1> HIDE DEF p
<1> DEFINE T == {n \in Nat : n <= Messages => Layout(p[n], n)}
<1>3. Messages \in Nat
    BY ReceptionAssumption
<1>4. 0 \in T
    <2>1. p[0] = << >>
        BY <1>1, <1>3
    <2>2. Layout(<< >>, 0)
        BY DEF Layout
    <2> QED
        BY <2>1, <2>2
<1>5. ASSUME NEW n \in Nat, n \in T
      PROVE  n + 1 \in T
    <2>1. SUFFICES ASSUME n + 1 <= Messages
                   PROVE  Layout(p[n + 1], n + 1)
        OBVIOUS
    <2>2. n + 1 \in 0 .. Messages /\ n + 1 # 0 /\ (n + 1) - 1 = n /\ n + 1 \in 1 .. Messages
        BY <2>1, <1>3
    <2>3. p[n + 1] = onMedia(p[n], sizes[n + 1], n + 1)
        BY <1>1, <2>2
    <2>4. Layout(p[n], n) /\ sizes[n + 1] \in Sizes
        BY <1>3, <1>5, <2>1, <2>2
    <2> QED
        BY <2>3, <2>4, LayoutGrows
<1> HIDE DEF T
<1>6. Messages \in T
    BY <1>3, <1>4, <1>5, SetInduction
<1> QED
    BY <1>2, <1>3, <1>6 DEF T

-----------------------------------------------------------------------------
(* Reading whole messages *)

LayoutInv == Layout(stream, Messages)

\* currentId is the last fragment of a message: splittedId counts down to it.
BoundaryInv == currentId # 0 => stream[currentId].splittedId = 0

\* When the next message is complete in the buffer, the loop is on one of its
\* fragments.
WaitInv ==
    /\ itFragment # 0 => started
    /\ ~started => currentId = 0
    /\ (currentId \in 1 .. Len(stream) - 1 /\ messageAt(currentId + 1) \subseteq fragments) =>
          itFragment \in messageAt(currentId + 1)

MergeInv == LayoutInv /\ BoundaryInv /\ MessagesMerged /\ WaitInv

\* Every fragment is of one message, and messageAt finds all of it.
LEMMA MessageOf ==
    ASSUME LayoutInv, NEW f \in Ids
    PROVE  \E m \in 1 .. Messages : \E a, b \in Ids : IsMessage(stream, a, b, m) /\ f \in a .. b
BY DEF LayoutInv, Layout, Ids

LEMMA MessageIds ==
    ASSUME LayoutInv, NEW a, NEW b, NEW m, IsMessage(stream, a, b, m), NEW f \in a .. b
    PROVE  /\ messageAt(f) = a .. b
           /\ {x \in Ids : stream[x].message = m} = a .. b
           /\ a \in Ids /\ b \in Ids /\ f \in Ids
<1>1. Len(stream) \in Nat /\ a \in 1 .. b /\ b \in Ids
    BY DEF LayoutInv, Layout, IsMessage, Ids
<1>2. a .. b \subseteq Ids
    BY <1>1 DEF Ids
<1>3. \A x \in Ids : stream[x].message = m <=> x \in a .. b
    BY DEF IsMessage, Ids
<1>4. f \in Ids /\ a \in Ids
    BY <1>1, <1>2
<1>5. stream[f].message = m
    BY <1>3, <1>4
<1>6. {x \in Ids : stream[x].message = m} = a .. b
    BY <1>2, <1>3
<1> QED
    BY <1>1, <1>4, <1>5, <1>6 DEF messageAt

\* After the last fragment of a message, or the beginning, comes a first one.
LEMMA NextStarts ==
    ASSUME LayoutInv, NEW c \in Nat, c # 0 => stream[c].splittedId = 0,
           NEW a, NEW b, NEW m, IsMessage(stream, a, b, m), c + 1 \in a .. b
    PROVE  a = c + 1
<1>1. a \in 1 .. b /\ b \in Nat
    BY DEF IsMessage
<1>2. SUFFICES ASSUME a # c + 1 PROVE FALSE
    OBVIOUS
<1>3. c \in a .. b /\ c # 0 /\ b - c # 0
    BY <1>1, <1>2
<1>4. stream[c].splittedId = b - c
    BY <1>3 DEF IsMessage
<1> QED
    BY <1>3, <1>4

\* Before a START is the end of a message, or the beginning.
LEMMA BeforeStart ==
    ASSUME LayoutInv, NEW s \in Ids, marker(s) = "START", s # 1
    PROVE  s - 1 \in Ids /\ stream[s - 1].splittedId = 0
<1>1. Len(stream) \in Nat
    BY DEF LayoutInv, Layout
<1>2. s - 1 \in Ids /\ s \in Nat
    BY <1>1 DEF Ids
<1>3. PICK m \in 1 .. Messages, a \in Ids, b \in Ids :
         IsMessage(stream, a, b, m) /\ s - 1 \in a .. b
    BY <1>2, MessageOf
<1>4. a \in Nat /\ b \in Nat
    BY <1>1 DEF Ids
<1>5. s \notin a .. b
    <2>1. SUFFICES ASSUME s \in a .. b PROVE FALSE
        OBVIOUS
    <2>2. s = a
        BY <1>3, <2>1 DEF IsMessage, marker
    <2> QED
        BY <1>2, <1>3, <1>4, <2>2
<1>6. s - 1 = b
    BY <1>2, <1>3, <1>4, <1>5
<1>7. stream[s - 1].splittedId = b - b
    BY <1>3, <1>6 DEF IsMessage
<1> QED
    BY <1>2, <1>4, <1>7

\* The loop that starts at a START finds the end of the message.
LEMMA WholeFromStart ==
    ASSUME LayoutInv, NEW s \in Ids, marker(s) = "START",
           NEW a, NEW b, NEW m, IsMessage(stream, a, b, m), s \in a .. b
    PROVE  s = a /\ a # b /\ lastFragment(s) = b
<1>1. a \in 1 .. b /\ b \in Nat /\ b - a + 1 < UInt8Range /\ UInt8Range \in Nat
    BY UInt8Assumption DEF IsMessage
<1>2. s = a /\ a # b /\ stream[s].splittedId = b - s
    BY DEF IsMessage, marker
<1>3. (b - a + 1) % UInt8Range = b - a + 1
    <2> DEFINE n == b - a + 1
    <2>1. n \in Nat /\ n < UInt8Range
        BY <1>1
    <2> HIDE DEF n
    <2>2. n % UInt8Range = n
        BY <1>1, <2>1
    <2> QED
        BY <2>2 DEF n
<1>4. nbFragments(s) = b - a + 1
    BY <1>2, <1>3 DEF nbFragments
<1>5. b - a + 1 # 0 /\ a + (b - a + 1) - 1 = b
    BY <1>1
<1> QED
    BY <1>2, <1>4, <1>5 DEF lastFragment

\* WaitInv after a step.
LEMMA WaitAfter ==
    ASSUME stream' = stream,
           itFragment' # 0 => started',
           ~started' => currentId' = 0,
           (currentId' \in 1 .. Len(stream) - 1 /\ messageAt(currentId' + 1) \subseteq fragments')
               => itFragment' \in messageAt(currentId' + 1)
    PROVE  WaitInv'
BY DEF WaitInv, messageAt, Ids

\* A whole message is pushed.
LEMMA MergedPush ==
    ASSUME TypeInv, LayoutInv, MessagesMerged, stream' = stream,
           NEW a, NEW b, NEW m \in 1 .. Messages, IsMessage(stream, a, b, m),
           pushed' = Append(pushed, packet(a, b))
    PROVE  MessagesMerged'
<1> DEFINE n == Len(pushed)
<1> DEFINE of(x) == {f \in Ids : stream[f].message = x}
<1>1. pushed \in Seq(MediaPacket) /\ n \in Nat
    BY PushedTyped
<1>2. /\ Len(pushed') = n + 1
      /\ \A i \in 1 .. n : pushed'[i] = pushed[i]
      /\ pushed'[n + 1] = packet(a, b)
    BY <1>1
<1>3. a .. b = of(m)
    <2>1. a \in a .. b
        BY DEF IsMessage
    <2> QED
        BY <2>1, MessageIds
<1>4. \A i \in 1 .. n : \E x \in 1 .. Messages : pushed[i].first .. pushed[i].last = of(x)
    BY DEF MessagesMerged
<1>5. packet(a, b).first = a /\ packet(a, b).last = b
    BY DEF packet
<1> HIDE DEF of
<1>6. ASSUME NEW i \in 1 .. n + 1
      PROVE  \E x \in 1 .. Messages : pushed'[i].first .. pushed'[i].last = of(x)
    <2>1. CASE i = n + 1
        BY <1>2, <1>3, <1>5, <2>1
    <2>2. CASE i \in 1 .. n
        BY <1>2, <1>4, <2>2
    <2> QED
        BY <1>1, <2>1, <2>2
<1> QED
    BY <1>2, <1>6 DEF MessagesMerged, of, Ids

\* After a message is read the loop is on the next fragment, if it is there.
LEMMA ReadPush ==
    ASSUME TypeInv, MergeInv, itFragment # 0, stream' = stream,
           NEW a, NEW b, NEW m \in 1 .. Messages, IsMessage(stream, a, b, m),
           pushed' = Append(pushed, packet(a, b)), currentId' = b,
           itFragment' = following(b), UNCHANGED <<fragments, started>>
    PROVE  MergeInv'
<1>1. LayoutInv' /\ MessagesMerged'
    BY MergedPush DEF MergeInv, LayoutInv
<1>2. b \in Ids /\ b \in Nat /\ b - b = 0 /\ b \in a .. b
    BY TypeFacts DEF IsMessage, Ids
<1>3. stream[b].splittedId = 0
    BY <1>2 DEF IsMessage
<1>4. ASSUME b \in 1 .. Len(stream) - 1, messageAt(b + 1) \subseteq fragments
      PROVE  following(b) \in messageAt(b + 1)
    <2>1. b + 1 \in Ids
        BY <1>2, <1>4, TypeFacts DEF Ids
    <2>2. b + 1 \in messageAt(b + 1)
        BY <2>1 DEF messageAt
    <2> DEFINE S == {f \in fragments : f > b}
    <2>3. b + 1 \in S
        BY <1>2, <1>4, <2>2
    <2>4. S \subseteq Nat
        BY TypeFacts
    <2>5. following(b) = smallest(S)
        BY <2>3 DEF following, begin
    <2>6. \A f \in S : f > b
        OBVIOUS
    <2> HIDE DEF S
    <2>7. smallest(S) \in S /\ smallest(S) <= b + 1
        BY <2>3, <2>4, HasSmallest
    <2>8. smallest(S) = b + 1
        <3> DEFINE x == smallest(S)
        <3>1. x \in Nat /\ x > b /\ x <= b + 1
            BY <2>4, <2>6, <2>7
        <3> HIDE DEF x
        <3>2. x = b + 1
            BY <1>2, <3>1
        <3> QED
            BY <3>2 DEF x
    <2> QED
        BY <2>2, <2>5, <2>8
<1>5. started
    BY DEF MergeInv, WaitInv
<1>6. WaitInv'
    BY <1>4, <1>5, WaitAfter
<1> QED
    BY <1>1, <1>3, <1>6 DEF MergeInv, BoundaryInv

\* A step that leaves currentId and the packets alone.
LEMMA MergeKept ==
    ASSUME MergeInv, UNCHANGED <<stream, pushed, currentId>>, WaitInv'
    PROVE  MergeInv'
BY DEF MergeInv, LayoutInv, BoundaryInv, MessagesMerged, Ids

\* When no loop runs, the next message is not complete.
LEMMA NotComplete ==
    ASSUME TypeInv, MergeInv, itFragment = 0, currentId \in 1 .. Len(stream) - 1
    PROVE  ~(messageAt(currentId + 1) \subseteq fragments)
<1>1. 0 \notin messageAt(currentId + 1)
    BY TypeFacts DEF messageAt
<1> QED
    BY <1>1 DEF MergeInv, WaitInv

LEMMA MergeInit == NoFullMessage /\ ReceptionInit => MergeInv
<1> SUFFICES ASSUME NoFullMessage, ReceptionInit
             PROVE  MergeInv
    OBVIOUS
<1>1. LayoutInv
    BY PublishedLayout DEF ReceptionInit, LayoutInv
<1>2. BoundaryInv /\ MessagesMerged /\ WaitInv
    BY DEF ReceptionInit, BufferInit, BoundaryInv, MessagesMerged, WaitInv
<1> QED
    BY <1>1, <1>2 DEF MergeInv

\* A fragment that stands alone.
LEMMA MergeAlone ==
    ASSUME TypeInv, MergeInv, pushAlone \/ aloneTooEarly
    PROVE  MergeInv'
<1> DEFINE f == itFragment
<1>1. f # 0 /\ f \in Ids /\ standAlone(f) /\ UNCHANGED <<stream, requests, exists, started, resets>>
    BY TypeFacts DEF pushAlone, aloneTooEarly, processes, TypeInv, ReceptionTypeOK
<1>2. LayoutInv /\ currentId \in Nat
    BY TypeFacts DEF MergeInv
<1>3. PICK m \in 1 .. Messages, a \in Ids, b \in Ids : IsMessage(stream, a, b, m) /\ f \in a .. b
    BY <1>1, <1>2, MessageOf
<1>4. marker(f) = "DATA" => a = f /\ b = f
    BY <1>1, <1>3, TypeFacts DEF IsMessage, marker
<1>5. ASSUME f = currentId + 1
      PROVE  a = f
    <2>1. currentId # 0 => stream[currentId].splittedId = 0
        BY DEF MergeInv, BoundaryInv
    <2> QED
        BY <1>2, <1>3, <1>5, <2>1, NextStarts
<1>6. CASE pushAlone
    <2>1. a = f /\ b = f
        <3>1. CASE marker(f) = "DATA"
            BY <1>4, <3>1
        <3>2. CASE marker(f) = "END" /\ f = currentId + 1
            BY <1>3, <1>5, <3>2 DEF IsMessage, marker
        <3> QED
            BY <1>1, <3>1, <3>2 DEF standAlone
    <2>2. /\ pushed' = Append(pushed, packet(f, f)) /\ currentId' = f
          /\ itFragment' = following(f) /\ UNCHANGED fragments
        BY <1>6 DEF pushAlone
    <2> HIDE DEF f
    <2>3. itFragment # 0
        BY <1>1 DEF f
    <2> QED
        BY <1>1, <1>3, <2>1, <2>2, <2>3, ReadPush
<1>7. CASE aloneTooEarly
    <2>1. /\ currentId # 0 /\ f # currentId + 1 /\ itFragment' = 0
          /\ UNCHANGED <<fragments, currentId, pushed>>
        BY <1>7 DEF aloneTooEarly, isNext
    <2>2. marker(f) = "DATA" /\ a = f /\ b = f
        BY <1>1, <1>4, <2>1 DEF standAlone
    <2>3. ASSUME currentId \in 1 .. Len(stream) - 1, messageAt(currentId + 1) \subseteq fragments
          PROVE  FALSE
        <3>1. f \in messageAt(currentId + 1)
            BY <2>3 DEF MergeInv, WaitInv
        <3>2. currentId + 1 \in Ids
            BY <1>2, <2>3, TypeFacts DEF Ids
        <3>3. stream[currentId + 1].message = m
            BY <1>3, <3>1 DEF messageAt, IsMessage, Ids
        <3>4. currentId + 1 \in a .. b
            BY <1>3, <3>2, <3>3 DEF IsMessage, Ids
        <3> QED
            BY <2>1, <2>2, <3>4, <1>1, <1>2, TypeFacts
    <2>4. started
        BY <1>1 DEF MergeInv, WaitInv
    <2>5. WaitInv'
        BY <1>1, <2>1, <2>3, <2>4, WaitAfter
    <2> QED
        BY <1>1, <2>1, <2>5, MergeKept
<1> QED
    BY <1>6, <1>7

\* A fragment of a message of several.
LEMMA MergeSplitted ==
    ASSUME TypeInv, MergeInv, pushSplitted \/ splittedTooEarly
    PROVE  MergeInv'
<1> DEFINE f == itFragment
<1>1. /\ f # 0 /\ f \in fragments /\ f \in Ids /\ ~standAlone(f)
      /\ currentId # 0 \/ marker(f) = "START"
      /\ UNCHANGED <<stream, requests, exists, started, resets, fragments>>
    BY TypeFacts DEF pushSplitted, splittedTooEarly, processes, TypeInv, ReceptionTypeOK
<1>2. LayoutInv /\ currentId \in Nat /\ started
    BY <1>1, TypeFacts DEF MergeInv, WaitInv
<1>3. /\ awaited \in 0 .. Len(stream)
      /\ awaited # 0 => stream[awaited].splittedId = 0
    <2>1. CASE currentId # 0
        BY <2>1, TypeFacts DEF awaited, MergeInv, BoundaryInv
    <2>2. CASE currentId = 0
        <3>1. marker(f) = "START" /\ awaited = f - 1
            BY <1>1, <2>2 DEF awaited
        <3>2. f = 1 => awaited = 0
            BY <3>1
        <3>3. f # 1 => f - 1 \in Ids /\ stream[f - 1].splittedId = 0
            BY <1>1, <1>2, <3>1, BeforeStart
        <3>4. awaited \in 0 .. Len(stream)
            BY <3>1, <1>1, TypeFacts DEF Ids
        <3> QED
            BY <3>1, <3>2, <3>3, <3>4
    <2> QED
        BY <2>1, <2>2
<1>4. CASE pushSplitted
    <2>1. PICK s \in ready :
             /\ currentId' = lastFragment(s)
             /\ pushed' = Append(pushed, packet(s, lastFragment(s)))
             /\ itFragment' = following(lastFragment(s))
        BY <1>4 DEF pushSplitted
    <2>2. s \in Ids /\ marker(s) = "START"
        BY <2>1, TypeFacts DEF ready, starts
    <2>3. PICK m \in 1 .. Messages, a \in Ids, b \in Ids :
             IsMessage(stream, a, b, m) /\ s \in a .. b
        BY <1>2, <2>2, MessageOf
    <2>4. s = a /\ lastFragment(s) = b
        BY <1>2, <2>2, <2>3, WholeFromStart
    <2> QED
        BY <1>1, <2>1, <2>3, <2>4, ReadPush
<1>5. CASE splittedTooEarly
    <2>1. ready = {} /\ currentId' = awaited /\ itFragment' = 0 /\ UNCHANGED pushed
        BY <1>5 DEF splittedTooEarly
    <2> DEFINE c == awaited
    <2>2. ASSUME c \in 1 .. Len(stream) - 1, messageAt(c + 1) \subseteq fragments
          PROVE  FALSE
        <3>1. c + 1 \in Ids /\ c \in Nat
            BY <2>2, TypeFacts DEF Ids
        <3>2. PICK m \in 1 .. Messages, a \in Ids, b \in Ids :
                 IsMessage(stream, a, b, m) /\ c + 1 \in a .. b
            BY <1>2, <3>1, MessageOf
        <3>3. a = c + 1
            BY <1>2, <1>3, <3>1, <3>2, NextStarts
        <3>4. messageAt(c + 1) = a .. b
            BY <1>2, <3>2, MessageIds
        <3>5. f \in a .. b
            <4>1. CASE currentId # 0
                BY <2>2, <3>4, <4>1 DEF awaited, MergeInv, WaitInv
            <4>2. CASE currentId = 0
                BY <1>1, <3>2, <3>3, <4>2, TypeFacts DEF awaited
            <4> QED
                BY <4>1, <4>2
        <3>6. a # b
            <4>1. SUFFICES ASSUME a = b PROVE FALSE
                OBVIOUS
            <4>2. f = a /\ marker(f) \in {"DATA", "END"}
                BY <3>2, <3>5, <4>1, TypeFacts DEF IsMessage, marker
            <4>3. currentId # 0 => c = currentId
                BY DEF awaited
            <4> QED
                BY <1>1, <3>3, <4>2, <4>3 DEF standAlone
        <3>7. a \in a .. b /\ a \in Nat /\ b \in Nat
            BY <3>2, TypeFacts DEF IsMessage
        <3>8. marker(a) = "START"
            BY <3>2, <3>6, <3>7 DEF IsMessage, marker
        <3>9. a .. b \subseteq fragments
            BY <2>2, <3>4
        <3>10. a .. f \subseteq fragments /\ a <= f
            BY <3>5, <3>7, <3>9
        <3>11. \A g \in (a + 1) .. f : marker(g) # "START"
            BY <3>2, <3>5, <3>7 DEF IsMessage, marker
        <3>12. a \in starts(f)
            BY <3>7, <3>8, <3>9, <3>10, <3>11 DEF starts
        <3>13. lastFragment(a) = b
            BY <1>2, <3>2, <3>7, <3>8, WholeFromStart
        <3> QED
            BY <2>1, <3>3, <3>9, <3>12, <3>13 DEF ready, isNext
    <2> HIDE DEF c
    <2>3. currentId' = c
        BY <2>1 DEF c
    <2>4. WaitInv'
        BY <1>1, <1>2, <2>1, <2>2, <2>3, WaitAfter
    <2>5. LayoutInv' /\ MessagesMerged'
        BY <1>1, <2>1 DEF MergeInv, LayoutInv, MessagesMerged, Ids
    <2>6. BoundaryInv'
        BY <1>1, <1>3, <2>1 DEF BoundaryInv
    <2> QED
        BY <2>4, <2>5, <2>6 DEF MergeInv
<1> QED
    BY <1>4, <1>5

LEMMA MergeStep == TypeInv /\ MergeInv /\ [ReceptionNext]_receptionVars => MergeInv'
<1> SUFFICES ASSUME TypeInv, MergeInv, [ReceptionNext]_receptionVars
             PROVE  MergeInv'
    OBVIOUS
<1>1. ASSUME UNCHANGED <<stream, bufferVars>>
      PROVE  MergeInv'
    BY <1>1 DEF MergeInv, LayoutInv, BoundaryInv, MessagesMerged, WaitInv, Ids, messageAt, bufferVars
<1>2. (\E id \in Ids : onFragment(id)) \/ onStartProcessing \/ eraseOldFragments \/ deleteMedia
        \/ tick \/ removeNothing \/ UNCHANGED receptionVars => UNCHANGED <<stream, bufferVars>>
    BY DEF onFragment, onStartProcessing, eraseOldFragments, deleteMedia, tick, removeNothing,
           takes, receptionVars
<1>3. ASSUME processStart
      PROVE  MergeInv'
    <2>1. /\ itFragment = 0 /\ started' = TRUE
          /\ UNCHANGED <<stream, fragments, currentId, pushed>>
        BY <1>3 DEF processStart, takes
    <2>2. WaitInv'
        BY <2>1, NotComplete, WaitAfter
    <2> QED
        BY <2>1, <2>2, MergeKept
<1>4. ASSUME processAddFragment
      PROVE  MergeInv'
    <2> DEFINE id == Head(requests).id
    <2>1. itFragment = 0 /\ UNCHANGED <<stream, currentId, started, pushed>>
        BY <1>4 DEF processAddFragment, takes
    <2>2. CASE UNCHANGED <<fragments, itFragment>>
        BY <2>1, <2>2, WaitAfter, MergeKept DEF MergeInv, WaitInv
    <2>3. CASE fragments' = fragments \cup {id} /\ itFragment' = IF started THEN id ELSE 0
        <3>1. ASSUME currentId \in 1 .. Len(stream) - 1,
                     messageAt(currentId + 1) \subseteq fragments'
              PROVE  itFragment' \in messageAt(currentId + 1)
            <4>1. ~(messageAt(currentId + 1) \subseteq fragments)
                BY <2>1, <3>1, NotComplete
            <4>2. id \in messageAt(currentId + 1)
                BY <2>3, <3>1, <4>1
            <4>3. started
                BY <3>1 DEF MergeInv, WaitInv
            <4> QED
                BY <2>3, <4>2, <4>3
        <3>2. (itFragment' # 0 => started) /\ (~started => currentId = 0)
            BY <2>3 DEF MergeInv, WaitInv
        <3>3. WaitInv'
            BY <2>1, <3>1, <3>2, WaitAfter
        <3> QED
            BY <2>1, <3>3, MergeKept
    <2> QED
        BY <1>4, <2>2, <2>3 DEF processAddFragment
<1>5. ASSUME currentId' = 0, UNCHANGED <<stream, pushed>>, itFragment' # 0 => started'
      PROVE  MergeInv'
    <2>1. WaitInv'
        BY <1>5, WaitAfter
    <2> QED
        BY <1>5, <2>1 DEF MergeInv, LayoutInv, BoundaryInv, MessagesMerged, Ids
<1>6. ASSUME removeUnread
      PROVE  MergeInv'
    BY <1>5, <1>6 DEF removeUnread, takes
<1>7. ASSUME processRemoveBuffer
      PROVE  MergeInv'
    BY <1>5, <1>7 DEF processRemoveBuffer, takes
<1>8. ASSUME UNCHANGED <<stream, pushed, currentId, started>>, fragments' \subseteq fragments,
             itFragment = 0, itFragment' = 0
      PROVE  MergeInv'
    <2>1. ASSUME currentId \in 1 .. Len(stream) - 1, messageAt(currentId + 1) \subseteq fragments'
          PROVE  FALSE
        BY <1>8, <2>1, NotComplete
    <2>2. WaitInv'
        BY <1>8, <2>1, WaitAfter DEF MergeInv, WaitInv
    <2> QED
        BY <1>8, <2>2, MergeKept
<1>9. ASSUME removeRead
      PROVE  MergeInv'
    BY <1>8, <1>9 DEF removeRead, takes, keptFrom
<1>10. ASSUME ignoreSplitted
       PROVE  MergeInv'
    <2>1. /\ currentId' = 0 /\ itFragment' = 0 /\ UNCHANGED <<stream, pushed>>
        BY <1>10 DEF ignoreSplitted, processes
    <2> QED
        BY <1>5, <2>1
<1> QED
    BY <1>1, <1>2, <1>3, <1>4, <1>6, <1>7, <1>9, <1>10, MergeAlone, MergeSplitted
       DEF ReceptionNext, bufferThread, processRemoveFragments, processFragment

LEMMA MergeInvariant == NoFullMessage /\ ReceptionSpec => [](TypeInv /\ MergeInv)
BY TypeInit, TypeStep, MergeInit, MergeStep, PTL DEF ReceptionSpec

\* Unless a message has exactly as many fragments as a UInt8 counts, every
\* packet given to the application is one whole message of the publisher, for
\* every stream, every order of arrival and every removal (processFragment).
THEOREM PacketsAreMessages == NoFullMessage /\ ReceptionSpec => []MessagesMerged
<1>1. MergeInv => MessagesMerged
    BY DEF MergeInv
<1> QED
    BY <1>1, MergeInvariant, PTL

\* Unless a message has exactly as many fragments as a UInt8 counts, the loop
\* over processFragment never ends while the next message is complete.
THEOREM CompleteIsRead == NoFullMessage /\ ReceptionSpec => []NothingReadyWaits
<1>1. TypeInv /\ MergeInv => NothingReadyWaits
    BY NotComplete DEF NothingReadyWaits
<1> QED
    BY <1>1, MergeInvariant, PTL

=============================================================================
