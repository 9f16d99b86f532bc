--------------------------- MODULE GroupReception ---------------------------
(***************************************************************************)
(* A player of a group media: the window of fragments that GroupMedia      *)
(* keeps for its neighbours, which decides what reaches the GroupBuffer    *)
(* and when old fragments leave it.  Any fragment of the stream may arrive *)
(* at any time and several times: several neighbours push it, and pulls    *)
(* are repeated.  The choice of neighbours (push masks, pull requests) is  *)
(* left to that.                                                           *)
(***************************************************************************)
EXTENDS GroupBuffer

CONSTANTS
    Sizes,          \* sizes of messages, in fragments
    Messages,       \* number of messages of the stream
    MaxFragments,   \* bound: length of the stream
    windowDuration, relayMargin,    \* of RTMFPGroupConfig
    MaxTime,        \* bound: the clock
    MaxRequests     \* bound: requests waiting for the buffer's thread

ASSUME ReceptionAssumption ==
    /\ Sizes \subseteq Nat \ {0}
    /\ {Messages, MaxFragments, windowDuration, relayMargin, MaxTime, MaxRequests} \subseteq Nat

VARIABLES
    stored,         \* ids in _fragments
    references,     \* _mapTime2Fragment: time of reception -> DATA or START fragment
    now,            \* Time::Now()
    closed          \* the GroupMedia is deleted

windowVars == <<stored, references, now, closed>>
receptionVars == <<stream, requests, bufferVars, windowVars>>

\* The stream of one publisher: its messages split one after the other.
publishedStream(sizes) ==
    LET published[m \in 0 .. Messages] ==
            IF m = 0 THEN << >> ELSE onMedia(published[m - 1], sizes[m], m)
    IN published[Messages]

ReceptionInit ==
    /\ \E sizes \in [1 .. Messages -> Sizes] : stream = publishedStream(sizes)
    /\ stream \in Seq(Fragment) /\ Len(stream) <= MaxFragments
    /\ BufferInit
    /\ stored = {}
    /\ references = << >>
    /\ now = 0
    /\ closed = FALSE

largest(S) == CHOOSE x \in S : \A y \in S : x >= y
times == DOMAIN references

\* "We must ignore fragments too old"
tooOld(id) ==
    /\ Cardinality(times) > 2
    /\ largest(times) - smallest(times) > windowDuration
    /\ references[smallest(times)] > id

\* Mutant of isReference: also a late fragment.
anyReference(id) == marker(id) \in {"DATA", "START"}
\* A DATA or START fragment beyond the last reference becomes one.
isReference(id) ==
    /\ marker(id) \in {"DATA", "START"}
    /\ times = {} \/ id > references[largest(times)]

referenced(id) ==
    IF isReference(id)
    THEN [t \in times \cup {now} |-> IF t = now THEN id ELSE references[t]]
    ELSE references

\* _onFragment and addFragment, for a fragment that is not ignored.
onFragment(id) ==
    /\ ~closed
    /\ Len(requests) < MaxRequests
    /\ id \notin stored
    /\ ~tooOld(id)
    /\ stored' = stored \cup {id}
    /\ references' = referenced(id)
    /\ add(id)
    /\ UNCHANGED <<stream, bufferVars, now, closed>>

\* The first pull is answered, or there is nothing to pull.
onStartProcessing ==
    /\ ~closed
    /\ Len(requests) < MaxRequests
    /\ startProcessing
    /\ UNCHANGED <<stream, bufferVars, windowVars>>

\* lower_bound of _mapTime2Fragment
keptTimes == {t \in times : t >= now - (windowDuration + relayMargin)}

\* The first fragment before the first reference that is kept.
firstKept ==
    LET reference == references[smallest(keptTimes)]
        before == {f \in stored : f < reference}
    IN IF before = {} THEN reference ELSE largest(before)

oldFragments == keptTimes # {} /\ keptTimes # times

\* Called when the fragments map is built for a neighbour.
eraseOldFragments ==
    /\ ~closed
    /\ Len(requests) < MaxRequests
    /\ oldFragments
    /\ stored' = {f \in stored : f >= firstKept}
    /\ references' = [t \in keptTimes |-> references[t]]
    /\ removeFragments(firstKept)
    /\ UNCHANGED <<stream, bufferVars, now, closed>>

\* Mutant of deleteMedia: the buffer goes, the media stays.
deleteBufferOnly ==
    /\ ~closed
    /\ Len(requests) < MaxRequests
    /\ removeBuffer
    /\ UNCHANGED <<stream, bufferVars, windowVars>>
\* manage() returns false: five minutes without reception.
deleteMedia ==
    /\ ~closed
    /\ Len(requests) < MaxRequests
    /\ closed' = TRUE
    /\ removeBuffer
    /\ UNCHANGED <<stream, bufferVars, stored, references, now>>

tick ==
    /\ now < MaxTime
    /\ now' = now + 1
    /\ UNCHANGED <<stream, requests, bufferVars, stored, references, closed>>

ReceptionNext ==
    \/ \E id \in Ids : onFragment(id)
    \/ onStartProcessing
    \/ eraseOldFragments
    \/ deleteMedia
    \/ tick
    \/ bufferThread /\ UNCHANGED windowVars

ReceptionSpec == ReceptionInit /\ [][ReceptionNext]_receptionVars

-----------------------------------------------------------------------------
(* Properties                                                              *)

\* Types; an id that waits in a request, in the buffer or in the window is one
\* of the stream, the loop's iterator is never a fragment that was erased, and
\* currentId never leaves the stream.
ReceptionTypeOK ==
    /\ requests \in Requests
    /\ exists \in BOOLEAN /\ started \in BOOLEAN /\ closed \in BOOLEAN
    /\ fragments \subseteq Ids /\ stored \subseteq Ids
    /\ currentId \in 0 .. Len(stream)
    /\ itFragment \in fragments \cup {0}
    /\ pushed \in MediaPackets
    /\ resets \in Nat /\ now \in Nat
    /\ times \subseteq 0 .. now
    /\ \A t \in times : references[t] \in Ids

\* What is handed to the application is one whole message of the publisher:
\* no part of it is missing and no part of another is glued to it, whatever the
\* order of arrival, removals and the special case of a lone END.
MessagesMerged ==
    \A i \in 1 .. Len(pushed) :
        \E m \in 1 .. Messages :
            pushed[i].first .. pushed[i].last = {f \in Ids : stream[f].message = m}

\* Between two removals of unread fragments nothing is skipped, repeated or
\* reordered: each packet begins where the one before ended.
GaplessBetweenResets ==
    \A i \in 2 .. Len(pushed) :
        pushed[i].resets = pushed[i - 1].resets => pushed[i].first = pushed[i - 1].last + 1

\* The fragments of the message that begins at id.
messageAt(id) == {f \in Ids : stream[f].message = stream[id].message}

\* Once reading has begun, the next message is handed on as soon as its last
\* missing fragment is processed: it never waits for another event.
NothingReadyWaits ==
    (itFragment = 0 /\ started /\ currentId \in 1 .. Len(stream) - 1)
        => ~(messageAt(currentId + 1) \subseteq fragments)

\* The reference that eraseOldFragments looks up is in the window, so that the
\* "implementation error" branch is dead, and references grow with time: window
\* and references are trimmed separately, by id and by time.
ReferencesStored ==
    /\ \A t \in times : references[t] \in stored
    /\ \A t, u \in times : t < u => references[t] < references[u]

\* A removal always finds its buffer, the other "implementation error": the
\* buffer was created by an earlier request and outlives all removals.
RemovalFindsBuffer ==
    (requests # << >> /\ Head(requests).command = "REMOVE_FRAGMENTS") => exists

-----------------------------------------------------------------------------
(* Liveness.  The thread runs, and a fragment is asked again until it      *)
(* arrives.  Fairness of its arrival is strong only because MaxRequests    *)
(* bounds a queue that has no bound in the code.                           *)

ReceptionLive ==
    /\ ReceptionSpec
    /\ WF_receptionVars(bufferThread /\ UNCHANGED windowVars)
    /\ \A id \in 1 .. MaxFragments : SF_receptionVars(id \in Ids /\ onFragment(id))

\* Fragments that the window has and that will not be given to the buffer again.
ignored == {f \in stored \ fragments :
               \A i \in 1 .. Len(requests) : requests[i] # [command |-> "ADD_FRAGMENT", id |-> f]}

\* When nothing is removed, a reader that has begun reaches the end of the
\* stream, or stops at a message of which the buffer ignored a fragment.
ReadingGoesOn ==
    (currentId > 0) ~>
        \/ closed
        \/ currentId = Len(stream)
        \/ currentId > 0 /\ messageAt(currentId + 1) \cap ignored # {}

=============================================================================
