----------------------------- MODULE GroupBuffer -----------------------------
(***************************************************************************)
(* The reassembly of one group media (GroupBuffer.cpp).  The session's     *)
(* thread appends requests to _waitingRequests; the thread of the buffer   *)
(* takes them in order, stores fragments by id, and hands whole messages   *)
(* to the application.  One call of processFragment is one step.           *)
(*                                                                         *)
(* A fragment is its id, the index in `stream`, the sequence of fragments  *)
(* that the publisher made of its messages (GroupMedia.cpp, onMedia).      *)
(* `pushed` is the history of the packets given to onNextPacket, each with *)
(* the number of times currentId had been reset before it.                 *)
(* The batch that run() takes under its mutex is taken request by request: *)
(* nothing else touches what the thread works on.                          *)
(***************************************************************************)
EXTENDS Integers, Sequences, FiniteSets

CONSTANTS
    UInt8Range      \* number of values of a UInt8 (256 in the code)

ASSUME UInt8Assumption == UInt8Range \in Nat \ {0, 1}

VARIABLES
    stream,         \* what the publisher sent: [marker, splittedId, message] by id
    requests,       \* _waitingRequests
    exists,         \* _mapGroupMedia2fragments has an entry for the media
    fragments,      \* ids in MediaBuffer
    currentId,      \* MediaBuffer::currentId
    started,        \* MediaBuffer::started
    itFragment,     \* iterator of the loop over processFragment, 0 when no loop runs
    pushed,         \* history: packets given to the application
    resets          \* history: how often processRemoveFragments reset currentId

bufferVars == <<exists, fragments, currentId, started, itFragment, pushed, resets>>

\* marker and splittedId of GroupFragment, and the message it is a part of.
Fragment == [marker : {"DATA", "START", "NEXT", "END"}, splittedId : Nat, message : Nat]
Ids == 1 .. Len(stream)

Request ==
    [command : {"START_PROCESSING", "REMOVE_BUFFER"}, id : {0}]
        \cup [command : {"ADD_FRAGMENT", "REMOVE_FRAGMENTS"}, id : Ids]
Requests == Seq(Request)

MediaPacket == [first : Ids, last : Ids, resets : Nat]
MediaPackets == Seq(MediaPacket)

\* Constructor of MediaBuffer, and no request yet.
BufferInit ==
    /\ requests = << >>
    /\ exists = FALSE
    /\ fragments = {}
    /\ currentId = 0
    /\ started = FALSE
    /\ itFragment = 0
    /\ pushed = << >>
    /\ resets = 0

-----------------------------------------------------------------------------
(* The publisher's splitting: a message of `size` times the maximal size.  *)

\* splitCounter, a UInt8.
splitCounter(size) == (size - 1) % UInt8Range

\* The i-th fragment, from 0, of a message.
splitted(size, i, message) ==
    LET left == splitCounter(size) - i IN
    [marker |-> IF size = 1 THEN "DATA"
                ELSE IF left = 0 THEN "END"
                ELSE IF i = 0 THEN "START" ELSE "NEXT",
     splittedId |-> left,
     message |-> message]

onMedia(str, size, message) ==
    str \o [i \in 1 .. splitCounter(size) + 1 |-> splitted(size, i - 1, message)]

-----------------------------------------------------------------------------
(* Entry points, on the session's thread.                                  *)

request(command, id) == Append(requests, [command |-> command, id |-> id])

add(id) == requests' = request("ADD_FRAGMENT", id)
removeFragments(id) == requests' = request("REMOVE_FRAGMENTS", id)
startProcessing == requests' = request("START_PROCESSING", 0)
removeBuffer == requests' = request("REMOVE_BUFFER", 0)

-----------------------------------------------------------------------------
(* The thread of the buffer.                                               *)

smallest(S) == CHOOSE x \in S : \A y \in S : x <= y
begin(S) == IF S = {} THEN 0 ELSE smallest(S)
\* Mutants of following: ids taken as contiguous; the loop stops after one.
followingById(id) == id + 1
stopsAfterOne(id) == 0
\* ++itFragment
following(id) == begin({f \in fragments : f > id})

takes(command) ==
    /\ itFragment = 0
    /\ requests # << >>
    /\ Head(requests).command = command
    /\ requests' = Tail(requests)
    /\ UNCHANGED stream

processStart ==
    /\ takes("START_PROCESSING")
    /\ exists' = TRUE
    /\ itFragment' = begin(fragments)
    /\ started' = TRUE
    /\ UNCHANGED <<fragments, currentId, pushed, resets>>

processAddFragment ==
    /\ takes("ADD_FRAGMENT")
    /\ exists' = TRUE
    /\ LET id == Head(requests).id IN
       IF id \in fragments
       THEN UNCHANGED <<fragments, itFragment>>
       ELSE /\ fragments' = fragments \cup {id}
            /\ itFragment' = IF started THEN id ELSE 0
    /\ UNCHANGED <<currentId, started, pushed, resets>>

\* The fragments that a removal keeps.
keptFrom(id) == {f \in fragments : f >= id}

\* The removal that finds nothing older, or no buffer at all (FATAL_ERROR).
removeNothing ==
    /\ takes("REMOVE_FRAGMENTS")
    /\ keptFrom(Head(requests).id) = fragments
    /\ UNCHANGED bufferVars

\* The unread fragments have to go too: restart with what is left.
removeUnread ==
    /\ takes("REMOVE_FRAGMENTS")
    /\ LET id == Head(requests).id IN
       /\ keptFrom(id) # fragments
       /\ currentId < id
       /\ fragments' = keptFrom(id)
       /\ itFragment' = IF started THEN begin(keptFrom(id)) ELSE 0
    /\ currentId' = 0
    /\ resets' = resets + 1
    /\ UNCHANGED <<exists, started, pushed>>

removeRead ==
    /\ takes("REMOVE_FRAGMENTS")
    /\ LET id == Head(requests).id IN
       /\ keptFrom(id) # fragments
       /\ currentId >= id
       /\ fragments' = keptFrom(id)
    /\ UNCHANGED <<exists, currentId, started, itFragment, pushed, resets>>

processRemoveFragments == removeNothing \/ removeUnread \/ removeRead

processRemoveBuffer ==
    /\ takes("REMOVE_BUFFER")
    /\ exists' = FALSE
    /\ fragments' = {}
    /\ currentId' = 0
    /\ started' = FALSE
    /\ UNCHANGED <<itFragment, pushed, resets>>

-----------------------------------------------------------------------------
(* processFragment                                                         *)

marker(id) == stream[id].marker

standAlone(id) ==
    \/ marker(id) = "DATA"
    \/ marker(id) = "END" /\ id = currentId + 1

\* Mutant of isNext: anything later is accepted.
isLater(id, current) == id > current
isNext(id, current) == id = current + 1

packet(first, last) == [first |-> first, last |-> last, resets |-> resets]

processes == itFragment # 0 /\ UNCHANGED <<stream, requests, exists, started, resets>>

pushAlone ==
    /\ processes
    /\ standAlone(itFragment)
    /\ currentId = 0 \/ isNext(itFragment, currentId)
    /\ currentId' = itFragment
    /\ pushed' = Append(pushed, packet(itFragment, itFragment))
    /\ itFragment' = following(itFragment)
    /\ UNCHANGED fragments

aloneTooEarly ==
    /\ processes
    /\ standAlone(itFragment)
    /\ currentId # 0 /\ ~isNext(itFragment, currentId)
    /\ itFragment' = 0
    /\ UNCHANGED <<fragments, currentId, pushed>>

\* "Ignoring splitted fragment, we are waiting for a starting fragment"
ignoreSplitted ==
    /\ processes
    /\ ~standAlone(itFragment)
    /\ currentId = 0
    /\ marker(itFragment) # "START"
    /\ fragments' = fragments \ {itFragment}
    /\ itFragment' = 0
    /\ UNCHANGED <<currentId, pushed>>

\* Mutant of starts: only a START that arrives last completes a message.
startsHere(id) == {s \in fragments : s = id /\ marker(s) = "START"}
\* The search back for the start fragment, over ids without a hole.
starts(id) ==
    {s \in fragments :
        /\ s <= id
        /\ marker(s) = "START"
        /\ s .. id \subseteq fragments
        /\ \A f \in (s + 1) .. id : marker(f) # "START"}

\* Mutant of nbFragments: the START itself is not counted.
nbWithoutStart(id) == stream[id].splittedId % UInt8Range
\* The last fragment of the message that starts at id: nbFragments is a UInt8.
nbFragments(id) == (stream[id].splittedId + 1) % UInt8Range
lastFragment(id) == IF nbFragments(id) = 0 THEN id ELSE id + nbFragments(id) - 1

\* A START at the beginning sets currentId so that it is the next fragment.
awaited == IF currentId = 0 THEN itFragment - 1 ELSE currentId

\* The message that is complete and next, by its start.
ready == {s \in starts(itFragment) :
             isNext(s, awaited) /\ s .. lastFragment(s) \subseteq fragments}

pushSplitted ==
    /\ processes
    /\ ~standAlone(itFragment)
    /\ currentId # 0 \/ marker(itFragment) = "START"
    /\ \E s \in ready :
          /\ currentId' = lastFragment(s)
          /\ pushed' = Append(pushed, packet(s, lastFragment(s)))
          /\ itFragment' = following(lastFragment(s))
    /\ UNCHANGED fragments

splittedTooEarly ==
    /\ processes
    /\ ~standAlone(itFragment)
    /\ currentId # 0 \/ marker(itFragment) = "START"
    /\ ready = {}
    /\ currentId' = awaited
    /\ itFragment' = 0
    /\ UNCHANGED <<fragments, pushed>>

processFragment ==
    \/ pushAlone
    \/ aloneTooEarly
    \/ ignoreSplitted
    \/ pushSplitted
    \/ splittedTooEarly

bufferThread ==
    \/ processStart
    \/ processAddFragment
    \/ processRemoveFragments
    \/ processRemoveBuffer
    \/ processFragment

=============================================================================
