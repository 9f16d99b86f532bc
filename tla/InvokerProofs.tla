---------------------------- MODULE InvokerProofs ----------------------------
(***************************************************************************)
(* Proofs about the Invoker, for any number of threads, of connections, of *)
(* calls and of packets: no buffer outlives its connection, the session of *)
(* a fallback always finds its entry and a switched fallback is over.      *)
(***************************************************************************)
EXTENDS Invoker, TLAPS

maps == <<mapVars, lastIndex>>

\* The part of the type that is about what _mutexConnections protects.
MapTypeOK ==
    /\ lastIndex \in 0 .. MaxConnections
    /\ connections \in [DOMAIN connections -> Sessions]
    /\ waitingFallback \in [DOMAIN waitingFallback -> Entries]
    /\ buffers \in [DOMAIN buffers -> Seq(BOOLEAN)]
    /\ DOMAIN connections \subseteq 1 .. lastIndex
    /\ DOMAIN waitingFallback \subseteq 1 .. lastIndex

\* A fallback has no fallback: the index of one is not known to the
\* application, which makes the entries.
NoFallbackOfFallback ==
    \A i \in DOMAIN waitingFallback : exists(i) => connections[i].entry = NoId

\* The index kept in an entry was given to its fallback and to no other session.
FallbackOfEntry ==
    \A i \in DOMAIN waitingFallback :
        LET fallback == waitingFallback[i].idFallback IN
        /\ fallback <= lastIndex
        /\ exists(fallback) => connections[fallback].entry = i

MapInv ==
    /\ MapTypeOK
    /\ BuffersOfConnections
    /\ FallbackHasItsEntry
    /\ SwitchEndsFallback
    /\ NoFallbackOfFallback
    /\ FallbackOfEntry

QueueTypeOK ==
    /\ running \in BOOLEAN /\ stopping \in BOOLEAN
    /\ handler \in Seq(Events)
    /\ pushed \in Seq([id : Ids, mediaId : Nat])
    /\ caller \in [Callers -> Calls]
    /\ calls \in 0 .. MaxCalls /\ packets \in 0 .. MaxPackets

\* A call is about an index that was given to the application.
CallsOfApplication ==
    \A c \in Callers : caller[c].kind # "idle" =>
        /\ caller[c].id \in 1 .. lastIndex
        /\ exists(caller[c].id) => connections[caller[c].id].entry = NoId

InvokerInv == MapInv /\ QueueTypeOK /\ CallsOfApplication

LEMMA InvokerInvSplits == InvokerInv => InvokerTypeOK
    BY DEF InvokerInv, MapInv, MapTypeOK, QueueTypeOK, InvokerTypeOK

\* What a step does to the sessions, as far as the calls can tell: indexes are
\* new, and a session keeps its entry.
SessionsGrow ==
    /\ lastIndex' \in Nat /\ lastIndex <= lastIndex'
    /\ \A j \in DOMAIN connections' :
          \/ j \in DOMAIN connections /\ connections'[j].entry = connections[j].entry
          \/ j > lastIndex

-----------------------------------------------------------------------------
(* Sequences *)

LEMMA AppendsOf ==
    ASSUME NEW S, NEW s \in Seq(S), NEW e \in S
    PROVE  Append(s, e) \in Seq(S)
    OBVIOUS

LEMMA EmptyOf == \A S : <<>> \in Seq(S)
    OBVIOUS

LEMMA HeadAndTailOf ==
    ASSUME NEW S, NEW s \in Seq(S), s # <<>>
    PROVE  Head(s) \in S /\ Tail(s) \in Seq(S)
    OBVIOUS

-----------------------------------------------------------------------------
(* The maps of the connections *)

LEMMA MapsUnchanged ==
    ASSUME MapInv, UNCHANGED maps
    PROVE  MapInv' /\ SessionsGrow
<1> USE DEF maps, mapVars
<1>1. MapInv'
    BY DEF MapInv, MapTypeOK, BuffersOfConnections, FallbackHasItsEntry, SwitchEndsFallback,
           NoFallbackOfFallback, FallbackOfEntry, exists
<1>2. SessionsGrow
    BY InvokerAssumption DEF SessionsGrow, MapInv, MapTypeOK
<1> QED
    BY <1>1, <1>2

\* What goes with a session leaves no entry behind that refers to it, and no
\* session whose entry is gone.
LEMMA RemovalKeeps ==
    ASSUME NEW i, MapInv, removeConnection(i), UNCHANGED lastIndex
    PROVE  MapInv' /\ SessionsGrow
<1> DEFINE R == withFallback(i)
<1>1. /\ DOMAIN connections' = DOMAIN connections \ R
      /\ \A j \in DOMAIN connections' : connections'[j] = connections[j]
      /\ DOMAIN waitingFallback' = DOMAIN waitingFallback \ R
      /\ \A j \in DOMAIN waitingFallback' : waitingFallback'[j] = waitingFallback[j]
      /\ DOMAIN buffers' = DOMAIN buffers \ R
      /\ \A j \in DOMAIN buffers' : buffers'[j] = buffers[j]
    BY DEF removeConnection, without, Restrict
<1>2. MapTypeOK'
    BY <1>1 DEF MapInv, MapTypeOK, removeConnection, without, Restrict
<1>3. BuffersOfConnections'
    BY <1>1 DEF MapInv, BuffersOfConnections
<1>4. FallbackHasItsEntry'
    <2> SUFFICES ASSUME NEW j \in DOMAIN connections', connections'[j].entry # NoId
                 PROVE  /\ connections'[j].entry \in DOMAIN waitingFallback'
                        /\ waitingFallback'[connections'[j].entry].idFallback = j
        BY DEF FallbackHasItsEntry
    <2> DEFINE e == connections[j].entry
    <2>1. /\ j \in DOMAIN connections /\ j \notin R /\ connections'[j].entry = e
          /\ e \in DOMAIN waitingFallback /\ waitingFallback[e].idFallback = j
        BY <1>1 DEF MapInv, FallbackHasItsEntry
    <2>2. e # i
        BY <2>1 DEF withFallback
    <2>3. ASSUME e \in R
          PROVE  FALSE
        <3>1. i \in DOMAIN waitingFallback /\ waitingFallback[i].idFallback = e /\ e \in DOMAIN connections
            BY <2>2, <2>3 DEF withFallback
        <3>2. connections[e].entry = NoId
            BY <2>1, <3>1 DEF MapInv, NoFallbackOfFallback, exists
        <3> QED
            BY <2>1, <3>1, <3>2 DEF MapInv, MapTypeOK, FallbackOfEntry, exists, Ids, NoId
    <2> QED
        BY <1>1, <2>1, <2>3
<1>5. SwitchEndsFallback'
    <2> SUFFICES ASSUME NEW j \in DOMAIN waitingFallback', waitingFallback'[j].switched,
                        ~(j \in DOMAIN connections' /\ connections'[j].failed)
                 PROVE  /\ waitingFallback'[j].idFallback = NoId /\ ~waitingFallback'[j].running
                        /\ \A k \in DOMAIN connections' : connections'[k].entry # j
        BY DEF SwitchEndsFallback, exists
    <2>1. /\ j \in DOMAIN waitingFallback /\ waitingFallback'[j] = waitingFallback[j] /\ j \notin R
          /\ ~(j \in DOMAIN connections /\ connections[j].failed)
        BY <1>1
    <2> QED
        BY <1>1, <2>1 DEF MapInv, SwitchEndsFallback, exists
<1>6. NoFallbackOfFallback'
    BY <1>1 DEF MapInv, NoFallbackOfFallback, exists
<1>7. FallbackOfEntry'
    BY <1>1 DEF MapInv, FallbackOfEntry, exists
<1>8. SessionsGrow
    BY <1>1, InvokerAssumption DEF SessionsGrow, MapInv, MapTypeOK
<1> QED
    BY <1>2, <1>3, <1>4, <1>5, <1>6, <1>7, <1>8 DEF MapInv

\* startFallback, when the entry may have one: the group has not delivered
\* or it failed.  The sessions are those there are, but for what failed.
LEMMA FallbackStarts ==
    ASSUME NEW i \in DOMAIN waitingFallback, MapInv, UNCHANGED buffers,
           NEW others \in [DOMAIN connections -> Sessions],
           \A j \in DOMAIN connections :
              /\ others[j].entry = connections[j].entry
              /\ connections[j].failed => others[j].failed,
           waitingFallback[i].switched => exists(i) /\ others[i].failed,
           startFallback(i, others)
    PROVE  MapInv' /\ SessionsGrow
<1>0. MaxConnections \in Nat /\ lastIndex \in Nat
    BY InvokerAssumption DEF MapInv, MapTypeOK
<1>1. CASE connections' = others /\ UNCHANGED <<waitingFallback, lastIndex>>
    <2>1. MapTypeOK' /\ BuffersOfConnections'
        BY <1>1 DEF MapInv, MapTypeOK, BuffersOfConnections
    <2>2. FallbackHasItsEntry'
        BY <1>1 DEF MapInv, FallbackHasItsEntry
    <2>3. SwitchEndsFallback'
        BY <1>1 DEF MapInv, SwitchEndsFallback, exists
    <2>4. NoFallbackOfFallback' /\ FallbackOfEntry'
        BY <1>1 DEF MapInv, NoFallbackOfFallback, FallbackOfEntry, exists
    <2>5. SessionsGrow
        BY <1>0, <1>1 DEF SessionsGrow
    <2> QED
        BY <2>1, <2>2, <2>3, <2>4, <2>5 DEF MapInv
<1>2. CASE /\ waitingFallback[i].idFallback = NoId
           /\ lastIndex < MaxConnections /\ lastIndex' = lastIndex + 1
           /\ waitingFallback' = [waitingFallback EXCEPT ![i].idFallback = lastIndex + 1]
           /\ \/ connections' = with(others, lastIndex + 1, NewSession(i))
              \/ connections' = others
    <2> DEFINE new == lastIndex + 1
    <2>1. /\ new \in Ids /\ new \notin DOMAIN connections /\ new \notin DOMAIN waitingFallback
          /\ i \in Ids /\ i # new /\ new # NoId
        BY <1>0, <1>2 DEF MapInv, MapTypeOK, Ids, NoId
    <2>2. /\ DOMAIN waitingFallback' = DOMAIN waitingFallback
          /\ waitingFallback'[i] = [waitingFallback[i] EXCEPT !.idFallback = new]
          /\ \A j \in DOMAIN waitingFallback \ {i} : waitingFallback'[j] = waitingFallback[j]
        BY <1>2 DEF MapInv, MapTypeOK
    <2>3. /\ waitingFallback'[i].idFallback = new
          /\ waitingFallback'[i].switched = waitingFallback[i].switched
        BY <2>2 DEF MapInv, MapTypeOK, Entries
    <2>4. /\ DOMAIN connections \subseteq DOMAIN connections'
          /\ DOMAIN connections' \subseteq DOMAIN connections \cup {new}
          /\ \A j \in DOMAIN connections : connections'[j] = others[j]
          /\ new \in DOMAIN connections' =>
                connections'[new] = NewSession(i)
        BY <1>2, <2>1 DEF with
    <2>5. new \in DOMAIN connections' =>
              connections'[new] \in Sessions /\ connections'[new].entry = i
        <3>1. NewSession(i) \in Sessions
            BY <2>1 DEF NewSession, Sessions
        <3>2. NewSession(i).entry = i
            BY DEF NewSession
        <3> QED
            BY <2>4, <3>1, <3>2
    <2>6. MapTypeOK'
        <3>1. waitingFallback' \in [DOMAIN waitingFallback' -> Entries]
            <4>1. waitingFallback \in [DOMAIN waitingFallback -> Entries]
                BY DEF MapInv, MapTypeOK
            <4>2. [waitingFallback[i] EXCEPT !.idFallback = new] \in Entries
                BY <2>1, <4>1 DEF Entries
            <4> QED
                BY <1>2, <2>2, <4>1, <4>2
        <3>2. connections' \in [DOMAIN connections' -> Sessions]
            BY <1>2, <2>4, <2>5 DEF with
        <3>3. /\ DOMAIN connections' \subseteq 1 .. lastIndex'
              /\ DOMAIN waitingFallback' \subseteq 1 .. lastIndex'
              /\ lastIndex' \in 0 .. MaxConnections
            BY <1>0, <1>2, <2>2, <2>4 DEF MapInv, MapTypeOK
        <3> QED
            BY <3>1, <3>2, <3>3 DEF MapInv, MapTypeOK
    <2>7. BuffersOfConnections'
        BY <2>4 DEF MapInv, BuffersOfConnections
    <2>8. \A j \in DOMAIN connections : connections[j].entry # i
        BY <1>2 DEF MapInv, MapTypeOK, FallbackHasItsEntry, Ids, NoId
    <2>9. FallbackHasItsEntry'
        <3> SUFFICES ASSUME NEW j \in DOMAIN connections', connections'[j].entry # NoId
                     PROVE  /\ connections'[j].entry \in DOMAIN waitingFallback'
                            /\ waitingFallback'[connections'[j].entry].idFallback = j
            BY DEF FallbackHasItsEntry
        <3>1. CASE j = new
            BY <3>1, <2>2, <2>3, <2>5
        <3>2. CASE j # new
            <4>1. j \in DOMAIN connections /\ connections'[j].entry = connections[j].entry
                BY <3>2, <2>4
            <4> QED
                BY <4>1, <2>2, <2>8 DEF MapInv, FallbackHasItsEntry
        <3> QED
            BY <3>1, <3>2
    <2>10. SwitchEndsFallback'
        <3> SUFFICES ASSUME NEW j \in DOMAIN waitingFallback', waitingFallback'[j].switched,
                            ~(j \in DOMAIN connections' /\ connections'[j].failed)
                     PROVE  /\ waitingFallback'[j].idFallback = NoId
                            /\ ~waitingFallback'[j].running
                            /\ \A k \in DOMAIN connections' : connections'[k].entry # j
            BY DEF SwitchEndsFallback, exists
        <3>1. j # i
            BY <2>3, <2>4 DEF exists
        <3>2. /\ j \in DOMAIN waitingFallback /\ waitingFallback'[j] = waitingFallback[j]
              /\ ~(j \in DOMAIN connections /\ connections[j].failed)
            BY <3>1, <2>2, <2>4
        <3>3. /\ waitingFallback[j].idFallback = NoId /\ ~waitingFallback[j].running
              /\ \A k \in DOMAIN connections : connections[k].entry # j
            BY <3>2 DEF MapInv, SwitchEndsFallback, exists
        <3> QED
            BY <3>1, <3>2, <3>3, <2>4, <2>5
    <2>11. NoFallbackOfFallback'
        BY <2>1, <2>2, <2>4 DEF MapInv, NoFallbackOfFallback, exists
    <2>12. FallbackOfEntry'
        <3> SUFFICES ASSUME NEW j \in DOMAIN waitingFallback'
                     PROVE  /\ waitingFallback'[j].idFallback <= lastIndex'
                            /\ waitingFallback'[j].idFallback \in DOMAIN connections' =>
                                  connections'[waitingFallback'[j].idFallback].entry = j
            BY DEF FallbackOfEntry, exists
        <3>1. CASE j = i
            BY <3>1, <1>0, <1>2, <2>3, <2>5
        <3>2. CASE j # i
            <4>1. j \in DOMAIN waitingFallback /\ waitingFallback'[j] = waitingFallback[j]
                BY <3>2, <2>2
            <4>2. waitingFallback[j] \in Entries
                BY <4>1 DEF MapInv, MapTypeOK
            <4>3. waitingFallback[j].idFallback \in Nat
                BY <4>2, <1>0 DEF Entries, Ids, NoId
            <4>4. waitingFallback[j].idFallback <= lastIndex
                BY <4>1 DEF MapInv, FallbackOfEntry
            <4> QED
                BY <4>1, <4>3, <4>4, <1>0, <1>2, <2>4 DEF MapInv, FallbackOfEntry, exists
        <3> QED
            BY <3>1, <3>2
    <2>13. SessionsGrow
        BY <1>0, <1>2, <2>4 DEF SessionsGrow
    <2> QED
        BY <2>6, <2>7, <2>9, <2>10, <2>11, <2>12, <2>13 DEF MapInv
<1> QED
    BY <1>1, <1>2 DEF startFallback

\* Sessions that change but for their entries, and buffers of sessions.
LEMMA SessionsChange ==
    ASSUME MapInv, UNCHANGED <<waitingFallback, lastIndex>>,
           connections' \in [DOMAIN connections -> Sessions],
           \A j \in DOMAIN connections :
              /\ connections'[j].entry = connections[j].entry
              /\ connections[j].failed => connections'[j].failed,
           buffers' \in [DOMAIN buffers' -> Seq(BOOLEAN)],
           DOMAIN buffers' \subseteq DOMAIN connections
    PROVE  MapInv' /\ SessionsGrow
<1>1. MapTypeOK' /\ BuffersOfConnections'
    BY DEF MapInv, MapTypeOK, BuffersOfConnections
<1>2. FallbackHasItsEntry' /\ SwitchEndsFallback'
    BY DEF MapInv, FallbackHasItsEntry, SwitchEndsFallback, exists
<1>3. NoFallbackOfFallback' /\ FallbackOfEntry'
    BY DEF MapInv, NoFallbackOfFallback, FallbackOfEntry, exists
<1>4. SessionsGrow
    BY InvokerAssumption DEF SessionsGrow, MapInv, MapTypeOK
<1> QED
    BY <1>1, <1>2, <1>3, <1>4 DEF MapInv

LEMMA ConnectKeepsMaps ==
    ASSUME NEW c \in Callers, MapInv, connect(c)
    PROVE  MapInv' /\ SessionsGrow
<1> DEFINE new == lastIndex + 1
<1>0. /\ MaxConnections \in Nat /\ lastIndex \in Nat /\ lastIndex < MaxConnections
      /\ lastIndex' = new
    BY InvokerAssumption DEF MapInv, MapTypeOK, connect
<1>1. /\ new \notin DOMAIN connections /\ new \notin DOMAIN waitingFallback
      /\ \A i \in DOMAIN waitingFallback :
            waitingFallback[i].idFallback \in Nat /\ waitingFallback[i].idFallback # new
    <2>1. new \notin DOMAIN connections /\ new \notin DOMAIN waitingFallback
        BY <1>0 DEF MapInv, MapTypeOK
    <2>2. ASSUME NEW i \in DOMAIN waitingFallback
          PROVE  waitingFallback[i].idFallback \in Nat /\ waitingFallback[i].idFallback # new
        <3>1. waitingFallback[i] \in Entries
            BY DEF MapInv, MapTypeOK
        <3>2. waitingFallback[i].idFallback \in Nat
            BY <3>1, <1>0 DEF Entries, Ids, NoId
        <3>3. waitingFallback[i].idFallback <= lastIndex
            BY DEF MapInv, FallbackOfEntry
        <3> QED
            BY <1>0, <3>2, <3>3
    <2> QED
        BY <2>1, <2>2
<1>2. /\ DOMAIN connections' = DOMAIN connections \cup {new}
      /\ \A j \in DOMAIN connections : connections'[j] = connections[j]
      /\ connections'[new] = NewSession(NoId)
    BY <1>1 DEF connect, with
<1>3. connections'[new] \in Sessions /\ connections'[new].entry = NoId
    <2>1. NewSession(NoId) \in Sessions
        BY DEF NewSession, Sessions
    <2>2. NewSession(NoId).entry = NoId
        BY DEF NewSession
    <2> QED
        BY <1>2, <2>1, <2>2
<1>4. MapTypeOK'
    <2>1. connections' \in [DOMAIN connections' -> Sessions]
        BY <1>2, <1>3 DEF MapInv, MapTypeOK, connect, with
    <2>2. /\ DOMAIN connections' \subseteq 1 .. lastIndex'
          /\ DOMAIN waitingFallback' \subseteq 1 .. lastIndex'
          /\ lastIndex' \in 0 .. MaxConnections
        BY <1>0, <1>2 DEF MapInv, MapTypeOK, connect
    <2> QED
        BY <2>1, <2>2 DEF MapInv, MapTypeOK, connect
<1>5. BuffersOfConnections' /\ NoFallbackOfFallback'
    BY <1>1, <1>2 DEF MapInv, BuffersOfConnections, NoFallbackOfFallback, connect, exists
<1>6. FallbackHasItsEntry'
    BY <1>2, <1>3 DEF MapInv, FallbackHasItsEntry, connect
<1>7. SwitchEndsFallback'
    <2> SUFFICES ASSUME NEW j \in DOMAIN waitingFallback, waitingFallback[j].switched,
                        ~(j \in DOMAIN connections' /\ connections'[j].failed)
                 PROVE  /\ waitingFallback[j].idFallback = NoId /\ ~waitingFallback[j].running
                        /\ \A k \in DOMAIN connections' : connections'[k].entry # j
        BY DEF SwitchEndsFallback, exists, connect
    <2>1. ~(j \in DOMAIN connections /\ connections[j].failed)
        BY <1>2
    <2>2. /\ waitingFallback[j].idFallback = NoId /\ ~waitingFallback[j].running
          /\ \A k \in DOMAIN connections : connections[k].entry # j
        BY <2>1 DEF MapInv, SwitchEndsFallback, exists
    <2>3. j # NoId
        BY <1>0 DEF MapInv, MapTypeOK, NoId
    <2> QED
        BY <1>2, <1>3, <2>2, <2>3
<1>8. FallbackOfEntry'
    <2> SUFFICES ASSUME NEW i \in DOMAIN waitingFallback
                 PROVE  /\ waitingFallback[i].idFallback <= lastIndex'
                        /\ waitingFallback[i].idFallback \in DOMAIN connections' =>
                              connections'[waitingFallback[i].idFallback].entry = i
        BY DEF FallbackOfEntry, exists, connect
    <2>1. waitingFallback[i].idFallback <= lastIndex /\ waitingFallback[i].idFallback \in Nat
        BY <1>1 DEF MapInv, FallbackOfEntry
    <2> QED
        BY <1>0, <1>1, <1>2, <2>1 DEF MapInv, FallbackOfEntry, exists
<1>9. SessionsGrow
    BY <1>0, <1>2 DEF SessionsGrow
<1> QED
    BY <1>4, <1>5, <1>6, <1>7, <1>8, <1>9 DEF MapInv

LEMMA RegisterKeepsMaps ==
    ASSUME NEW c \in Callers, MapInv, QueueTypeOK, CallsOfApplication, registerFallback(c)
    PROVE  MapInv' /\ SessionsGrow
<1> DEFINE i == caller[c].id
           new == [idFallback |-> NoId, mediaId |-> caller[c].mediaId,
                   running |-> FALSE, switched |-> FALSE]
<1>1. CASE i \in DOMAIN waitingFallback
    BY <1>1, MapsUnchanged DEF registerFallback, maps, mapVars
<1>2. CASE i \notin DOMAIN waitingFallback
    <2>1. /\ waitingFallback' = with(waitingFallback, i, new)
          /\ UNCHANGED <<connections, buffers, lastIndex>>
        BY <1>2 DEF registerFallback
    <2>2. i \in 1 .. lastIndex /\ (exists(i) => connections[i].entry = NoId)
        BY DEF registerFallback, CallsOfApplication
    <2>3. new \in Entries
        BY DEF QueueTypeOK, Calls, Entries
    <2>4. /\ DOMAIN waitingFallback' = DOMAIN waitingFallback \cup {i}
          /\ \A j \in DOMAIN waitingFallback : waitingFallback'[j] = waitingFallback[j]
          /\ waitingFallback'[i] = new
          /\ waitingFallback'[i].idFallback = NoId /\ ~waitingFallback'[i].switched
        BY <1>2, <2>1 DEF with
    <2>5. MapTypeOK'
        BY <2>1, <2>2, <2>3, <2>4 DEF MapInv, MapTypeOK, with
    <2>6. BuffersOfConnections' /\ NoFallbackOfFallback'
        BY <2>1, <2>2, <2>4 DEF MapInv, BuffersOfConnections, NoFallbackOfFallback, exists
    <2>7. FallbackHasItsEntry'
        BY <1>2, <2>1, <2>4 DEF MapInv, FallbackHasItsEntry
    <2>8. SwitchEndsFallback'
        <3> SUFFICES ASSUME NEW j \in DOMAIN waitingFallback', waitingFallback'[j].switched,
                            ~(j \in DOMAIN connections' /\ connections'[j].failed)
                     PROVE  /\ waitingFallback'[j].idFallback = NoId
                            /\ ~waitingFallback'[j].running
                            /\ \A k \in DOMAIN connections' : connections'[k].entry # j
            BY DEF SwitchEndsFallback, exists
        <3>1. j \in DOMAIN waitingFallback /\ waitingFallback'[j] = waitingFallback[j]
            BY <2>4
        <3> QED
            BY <3>1, <2>1 DEF MapInv, SwitchEndsFallback, exists
    <2>9. FallbackOfEntry'
        <3>1. NoId <= lastIndex /\ NoId \notin DOMAIN connections
            BY InvokerAssumption DEF MapInv, MapTypeOK, NoId
        <3>2. ASSUME NEW j \in DOMAIN waitingFallback'
              PROVE  /\ waitingFallback'[j].idFallback <= lastIndex'
                     /\ waitingFallback'[j].idFallback \in DOMAIN connections' =>
                           connections'[waitingFallback'[j].idFallback].entry = j
            <4>1. CASE j = i
                BY <4>1, <2>1, <2>4, <3>1
            <4>2. CASE j # i
                BY <4>2, <2>1, <2>4 DEF MapInv, FallbackOfEntry, exists
            <4> QED
                BY <4>1, <4>2
        <3> QED
            BY <3>2 DEF FallbackOfEntry, exists
    <2>10. SessionsGrow
        BY <2>1, InvokerAssumption DEF SessionsGrow, MapInv, MapTypeOK
    <2> QED
        BY <2>5, <2>6, <2>7, <2>8, <2>9, <2>10 DEF MapInv
<1> QED
    BY <1>1, <1>2

LEMMA CreateStreamKeepsMaps ==
    ASSUME MapInv, QueueTypeOK, onCreateStream
    PROVE  MapInv' /\ SessionsGrow
<1> DEFINE event == Head(handler)
<1>1. CASE UNCHANGED <<buffers, connections>>
    BY <1>1, MapsUnchanged DEF onCreateStream, maps, mapVars
<1>2. CASE exists(event.id) /\ running
    <2>1. PICK ok \in BOOLEAN :
             /\ createMediaBuffer(event.id, ok)
             /\ connections' = IF ok /\ event.kind = "group"
                               THEN [connections EXCEPT ![event.id].joined = TRUE]
                               ELSE connections
        BY <1>2 DEF onCreateStream
    <2> DEFINE medias == IF event.id \in DOMAIN buffers THEN buffers[event.id] ELSE <<>>
               added == IF ok THEN Append(medias, FALSE) ELSE medias
    <2>2. added \in Seq(BOOLEAN)
        <3>1. CASE event.id \in DOMAIN buffers
            <4>1. buffers[event.id] \in Seq(BOOLEAN)
                BY <3>1 DEF MapInv, MapTypeOK
            <4> QED
                BY <3>1, <4>1, AppendsOf
        <3>2. CASE event.id \notin DOMAIN buffers
            <4>1. <<>> \in Seq(BOOLEAN)
                BY EmptyOf
            <4> QED
                BY <3>2, <4>1, AppendsOf
        <3> QED
            BY <3>1, <3>2
    <2>3. buffers' = with(buffers, event.id, added)
        BY <2>1 DEF createMediaBuffer
    <2> HIDE DEF added
    <2>4. /\ buffers' \in [DOMAIN buffers' -> Seq(BOOLEAN)]
          /\ DOMAIN buffers' \subseteq DOMAIN connections
        BY <1>2, <2>2, <2>3 DEF MapInv, MapTypeOK, BuffersOfConnections, with, exists
    <2>5. /\ connections' \in [DOMAIN connections -> Sessions]
          /\ \A j \in DOMAIN connections :
                /\ connections'[j].entry = connections[j].entry
                /\ connections[j].failed => connections'[j].failed
        <3>1. /\ connections \in [DOMAIN connections -> Sessions]
              /\ event.id \in DOMAIN connections
            BY <1>2 DEF MapInv, MapTypeOK, exists
        <3>2. CASE connections' = connections
            BY <3>1, <3>2
        <3>3. CASE connections' = [connections EXCEPT ![event.id].joined = TRUE]
            <4> DEFINE s == [connections[event.id] EXCEPT !.joined = TRUE]
            <4>1. /\ s \in Sessions
                  /\ s.entry = connections[event.id].entry
                  /\ s.failed = connections[event.id].failed
                BY <3>1 DEF Sessions
            <4>2. connections' = [connections EXCEPT ![event.id] = s]
                BY <3>1, <3>3
            <4> HIDE DEF s
            <4> QED
                BY <3>1, <4>1, <4>2
        <3> QED
            BY <2>1, <3>2, <3>3
    <2> QED
        BY <2>4, <2>5, SessionsChange DEF onCreateStream
<1> QED
    BY <1>1, <1>2 DEF onCreateStream

LEMMA ConnectionEventKeepsMaps ==
    ASSUME NEW i \in Ids, MapInv, onConnectionEvent(i)
    PROVE  MapInv' /\ SessionsGrow
<1> DEFINE e == connections[i].entry
<1>1. /\ i \in DOMAIN connections
      /\ connections' \in [DOMAIN connections -> Sessions]
      /\ \A j \in DOMAIN connections :
            /\ connections'[j].entry = connections[j].entry
            /\ connections'[j].failed = connections[j].failed
    BY DEF MapInv, MapTypeOK, Sessions, onConnectionEvent, exists
<1>2. /\ waitingFallback' \in [DOMAIN waitingFallback -> Entries]
      /\ \A j \in DOMAIN waitingFallback :
            /\ waitingFallback'[j].idFallback = waitingFallback[j].idFallback
            /\ waitingFallback'[j].switched = waitingFallback[j].switched
            /\ j # e => waitingFallback'[j].running = waitingFallback[j].running
    BY DEF MapInv, MapTypeOK, Entries, onConnectionEvent
<1>3. UNCHANGED <<buffers, lastIndex>>
    BY DEF onConnectionEvent
<1>4. MapTypeOK' /\ BuffersOfConnections'
    BY <1>1, <1>2, <1>3 DEF MapInv, MapTypeOK, BuffersOfConnections
<1>5. FallbackHasItsEntry' /\ NoFallbackOfFallback'
    BY <1>1, <1>2 DEF MapInv, FallbackHasItsEntry, NoFallbackOfFallback, exists
<1>6. FallbackOfEntry'
    BY <1>1, <1>2, <1>3 DEF MapInv, FallbackOfEntry, exists
<1>7. SwitchEndsFallback'
    <2> SUFFICES ASSUME NEW j \in DOMAIN waitingFallback, waitingFallback'[j].switched,
                        ~(j \in DOMAIN connections /\ connections'[j].failed)
                 PROVE  /\ waitingFallback'[j].idFallback = NoId
                        /\ ~waitingFallback'[j].running
                        /\ \A k \in DOMAIN connections : connections'[k].entry # j
        BY <1>1, <1>2 DEF SwitchEndsFallback, exists
    <2>1. /\ waitingFallback[j].idFallback = NoId /\ ~waitingFallback[j].running
          /\ \A k \in DOMAIN connections : connections[k].entry # j
        BY <1>1, <1>2 DEF MapInv, SwitchEndsFallback, exists
    <2> QED
        BY <1>1, <1>2, <2>1
<1>8. SessionsGrow
    BY <1>1, <1>3, InvokerAssumption DEF SessionsGrow, MapInv, MapTypeOK
<1> QED
    BY <1>4, <1>5, <1>6, <1>7, <1>8 DEF MapInv

LEMMA SessionClosesKeepsMaps ==
    ASSUME NEW i \in Ids, MapInv, sessionCloses(i)
    PROVE  MapInv' /\ SessionsGrow
<1>1. /\ connections' \in [DOMAIN connections -> Sessions]
      /\ \A j \in DOMAIN connections :
            /\ connections'[j].entry = connections[j].entry
            /\ connections[j].failed => connections'[j].failed
    BY DEF MapInv, MapTypeOK, Sessions, sessionCloses, exists
<1>2. /\ buffers' \in [DOMAIN buffers' -> Seq(BOOLEAN)]
      /\ DOMAIN buffers' \subseteq DOMAIN connections
    BY DEF MapInv, MapTypeOK, BuffersOfConnections, sessionCloses
<1> QED
    BY <1>1, <1>2, SessionsChange DEF sessionCloses

LEMMA ExceptionKeepsMaps ==
    ASSUME NEW i \in Ids, MapInv, onNetGroupException(i)
    PROVE  MapInv' /\ SessionsGrow
<1> DEFINE left == [connections EXCEPT ![i].joined = FALSE, ![i].failed = TRUE]
<1>1. /\ left \in [DOMAIN connections -> Sessions]
      /\ left[i].failed /\ exists(i)
      /\ \A j \in DOMAIN connections :
            /\ left[j].entry = connections[j].entry
            /\ connections[j].failed => left[j].failed
    BY DEF MapInv, MapTypeOK, Sessions, onNetGroupException, exists
<1>2. /\ buffers' \in [DOMAIN buffers' -> Seq(BOOLEAN)]
      /\ DOMAIN buffers' \subseteq DOMAIN connections
      /\ UNCHANGED buffers
    BY DEF MapInv, MapTypeOK, BuffersOfConnections, onNetGroupException
<1>3. \/ i \in DOMAIN waitingFallback /\ startFallback(i, left)
      \/ connections' = left /\ UNCHANGED <<waitingFallback, lastIndex>>
    BY DEF onNetGroupException
<1> HIDE DEF left
<1>4. CASE i \in DOMAIN waitingFallback /\ startFallback(i, left)
    BY <1>1, <1>2, <1>4, FallbackStarts
<1>5. CASE connections' = left /\ UNCHANGED <<waitingFallback, lastIndex>>
    BY <1>1, <1>2, <1>5, SessionsChange
<1> QED
    BY <1>3, <1>4, <1>5

LEMMA ManageKeepsMaps ==
    ASSUME NEW i \in Ids, MapInv, manage(i)
    PROVE  MapInv' /\ SessionsGrow
<1>1. connections \in [DOMAIN connections -> Sessions]
    BY DEF MapInv, MapTypeOK
<1>2. /\ i \in DOMAIN waitingFallback /\ ~waitingFallback[i].switched
      /\ startFallback(i, connections) /\ UNCHANGED buffers
    BY DEF manage
<1> QED
    BY <1>1, <1>2, FallbackStarts

LEMMA ReadKeepsMaps ==
    ASSUME NEW c \in Callers, MapInv, read(c)
    PROVE  MapInv' /\ SessionsGrow
<1> DEFINE i == caller[c].id
<1>1. /\ buffers' \in [DOMAIN buffers -> Seq(BOOLEAN)]
      /\ DOMAIN buffers' = DOMAIN buffers
    <2>1. CASE UNCHANGED buffers
        BY <2>1 DEF MapInv, MapTypeOK
    <2>2. CASE /\ i \in DOMAIN buffers
               /\ \E m \in 1 .. MaxCalls :
                     /\ m <= Len(buffers[i])
                     /\ \E left \in BOOLEAN : buffers' = [buffers EXCEPT ![i][m] = left]
        <3>1. PICK m \in 1 .. MaxCalls, left \in BOOLEAN :
                 /\ m <= Len(buffers[i])
                 /\ buffers' = [buffers EXCEPT ![i][m] = left]
            BY <2>2
        <3>2. buffers[i] \in Seq(BOOLEAN) /\ m \in 1 .. Len(buffers[i])
            BY <2>2, <3>1, InvokerAssumption DEF MapInv, MapTypeOK
        <3>3. [buffers[i] EXCEPT ![m] = left] \in Seq(BOOLEAN)
            BY <3>2
        <3> QED
            BY <2>2, <3>1, <3>3 DEF MapInv, MapTypeOK
    <2> QED
        BY <2>1, <2>2 DEF read
<1>2. /\ UNCHANGED <<connections, waitingFallback, lastIndex>>
      /\ connections \in [DOMAIN connections -> Sessions]
      /\ DOMAIN buffers \subseteq DOMAIN connections
    BY DEF MapInv, MapTypeOK, BuffersOfConnections, read
<1> QED
    BY <1>1, <1>2, SessionsChange

LEMMA DestroyKeepsMaps ==
    ASSUME MapInv, destroyConnections
    PROVE  MapInv' /\ SessionsGrow
<1>1. /\ DOMAIN connections' = {} /\ UNCHANGED lastIndex
      /\ connections' \in [DOMAIN connections' -> Sessions]
    BY DEF destroyConnections
<1>2. /\ waitingFallback' \in [DOMAIN waitingFallback' -> Entries]
      /\ DOMAIN waitingFallback' = DOMAIN waitingFallback \ DOMAIN connections
      /\ \A j \in DOMAIN waitingFallback' : waitingFallback'[j] = waitingFallback[j]
      /\ buffers' \in [DOMAIN buffers' -> Seq(BOOLEAN)]
      /\ DOMAIN buffers' = DOMAIN buffers \ DOMAIN connections
    BY DEF destroyConnections, without, Restrict, MapInv, MapTypeOK
<1>3. MapTypeOK' /\ BuffersOfConnections'
    BY <1>1, <1>2 DEF MapInv, MapTypeOK, BuffersOfConnections
<1>4. FallbackHasItsEntry' /\ NoFallbackOfFallback'
    BY <1>1 DEF FallbackHasItsEntry, NoFallbackOfFallback, exists
<1>5. SwitchEndsFallback' /\ FallbackOfEntry'
    BY <1>1, <1>2 DEF MapInv, SwitchEndsFallback, FallbackOfEntry, exists
<1>6. SessionsGrow
    BY <1>1, InvokerAssumption DEF SessionsGrow, MapInv, MapTypeOK
<1> QED
    BY <1>3, <1>4, <1>5, <1>6 DEF MapInv

LEMMA BufferizeKeepsMaps ==
    ASSUME MapInv, bufferizeMedia
    PROVE  MapInv' /\ SessionsGrow
<1> DEFINE packet == Head(pushed)
           p == packet.id
           first == isFirst(packet)
           E == ended(packet)
<1>1. /\ connections' \in [DOMAIN connections \ E -> Sessions]
      /\ \A j \in DOMAIN connections \ E :
            /\ connections'[j].entry = connections[j].entry
            /\ j # p \/ ~first => connections'[j].failed = connections[j].failed
    <2>1. connections' = [j \in DOMAIN connections \ E |->
                            [connections[j] EXCEPT !.failed = @ /\ ~(j = p /\ first)]]
        BY DEF bufferizeMedia
    <2>2. \A j \in DOMAIN connections : connections[j] \in Sessions
        BY DEF MapInv, MapTypeOK
    <2> HIDE DEF E, p, first
    <2>3. \A j \in DOMAIN connections \ E :
             connections'[j] = [connections[j] EXCEPT !.failed = @ /\ ~(j = p /\ first)]
        BY <2>1
    <2>4. ASSUME NEW j \in DOMAIN connections \ E
          PROVE  /\ connections'[j] \in Sessions
                 /\ connections'[j].entry = connections[j].entry
                 /\ j # p \/ ~first => connections'[j].failed = connections[j].failed
        <3>1. connections[j] \in Sessions
            BY <2>2
        <3>2. connections'[j] = [connections[j] EXCEPT
                                    !.failed = connections[j].failed /\ ~(j = p /\ first)]
            BY <2>3
        <3>3. CASE j = p /\ first
            <4>1. connections'[j] = [connections[j] EXCEPT !.failed = FALSE]
                BY <3>1, <3>2, <3>3
            <4> QED
                BY <3>1, <3>3, <4>1 DEF Sessions
        <3>4. CASE ~(j = p /\ first)
            <4>1. connections'[j] = [connections[j] EXCEPT !.failed = connections[j].failed]
                BY <3>1, <3>2, <3>4 DEF Sessions
            <4> QED
                BY <3>1, <4>1 DEF Sessions
        <3> QED
            BY <3>3, <3>4
    <2> QED
        BY <2>1, <2>4
<1>2. /\ waitingFallback' \in [DOMAIN waitingFallback -> Entries]
      /\ \A j \in DOMAIN waitingFallback :
            j # p \/ ~first => waitingFallback'[j] = waitingFallback[j]
      /\ first => /\ p \in DOMAIN waitingFallback
                  /\ waitingFallback'[p].idFallback = NoId
                  /\ ~waitingFallback'[p].running
    <2>1. CASE first
        <3>1. /\ p \in DOMAIN waitingFallback
              /\ waitingFallback' = [waitingFallback EXCEPT ![p].running = FALSE,
                                                            ![p].idFallback = NoId,
                                                            ![p].switched = TRUE]
            BY <2>1 DEF bufferizeMedia, isFirst
        <3> HIDE DEF p, first
        <3>2. waitingFallback \in [DOMAIN waitingFallback -> Entries]
            BY DEF MapInv, MapTypeOK
        <3> QED
            BY <2>1, <3>1, <3>2 DEF Entries
    <2>2. CASE ~first
        BY <2>2 DEF bufferizeMedia, MapInv, MapTypeOK
    <2> QED
        BY <2>1, <2>2
<1>3. UNCHANGED lastIndex /\ lastIndex \in Nat
    BY InvokerAssumption DEF bufferizeMedia, MapInv, MapTypeOK
<1>4. /\ buffers' \in [DOMAIN buffers' -> Seq(BOOLEAN)]
      /\ DOMAIN buffers' = DOMAIN buffers \ E
    <2> DEFINE kept == without(buffers, E)
               to == redirected(packet)
    <2>1. kept \in [DOMAIN buffers \ E -> Seq(BOOLEAN)]
        BY DEF without, Restrict, MapInv, MapTypeOK
    <2>2. \/ buffers' = kept
          \/ /\ to.id \in DOMAIN kept /\ to.mediaId \in DOMAIN kept[to.id]
             /\ buffers' = [kept EXCEPT ![to.id][to.mediaId] = TRUE]
        BY DEF bufferizeMedia
    <2> HIDE DEF kept, E, to
    <2>3. CASE buffers' = kept
        BY <2>1, <2>3
    <2>4. CASE /\ to.id \in DOMAIN kept /\ to.mediaId \in DOMAIN kept[to.id]
               /\ buffers' = [kept EXCEPT ![to.id][to.mediaId] = TRUE]
        <3>1. [kept[to.id] EXCEPT ![to.mediaId] = TRUE] \in Seq(BOOLEAN)
            <4>1. kept[to.id] \in Seq(BOOLEAN)
                BY <2>1, <2>4
            <4> QED
                BY <2>4, <4>1
        <3> QED
            BY <2>1, <2>4, <3>1
    <2> QED
        BY <2>2, <2>3, <2>4
<1>5. /\ E \subseteq DOMAIN connections
      /\ E # {} => first
      /\ first /\ waitingFallback[p].idFallback \in DOMAIN connections =>
            waitingFallback[p].idFallback \in E
      /\ \A j \in E : j = waitingFallback[p].idFallback
    BY DEF ended
<1> HIDE DEF E, first, p
<1>6. MapTypeOK' /\ BuffersOfConnections'
    BY <1>1, <1>2, <1>3, <1>4, <1>5 DEF MapInv, MapTypeOK, BuffersOfConnections
\* No session is left whose entry gave up its fallback.
<1>7. ASSUME NEW k \in DOMAIN connections', connections'[k].entry # NoId
      PROVE  /\ ~(first /\ connections'[k].entry = p)
             /\ connections'[k].entry \in DOMAIN waitingFallback
             /\ waitingFallback[connections'[k].entry].idFallback = k
    BY <1>1, <1>5, <1>7 DEF MapInv, FallbackHasItsEntry
<1>8. FallbackHasItsEntry'
    BY <1>2, <1>7 DEF FallbackHasItsEntry
<1>9. ASSUME NEW j \in DOMAIN waitingFallback
      PROVE  j \notin E
    <2>1. ASSUME j \in E
          PROVE  FALSE
        <3>1. p \in DOMAIN waitingFallback /\ p # NoId
            BY <1>2, <1>3, <1>5, <2>1 DEF MapInv, MapTypeOK, NoId
        <3>2. connections[j].entry = p
            BY <1>5, <2>1, <3>1 DEF MapInv, FallbackOfEntry, exists
        <3>3. connections[j].entry = NoId
            BY <1>5, <2>1 DEF MapInv, NoFallbackOfFallback, exists
        <3> QED
            BY <3>1, <3>2, <3>3
    <2> QED
        BY <2>1
<1>10. SwitchEndsFallback'
    <2> SUFFICES ASSUME NEW j \in DOMAIN waitingFallback', waitingFallback'[j].switched,
                        ~(j \in DOMAIN connections' /\ connections'[j].failed)
                 PROVE  /\ waitingFallback'[j].idFallback = NoId
                        /\ ~waitingFallback'[j].running
                        /\ \A k \in DOMAIN connections' : connections'[k].entry # j
        BY DEF SwitchEndsFallback, exists
    <2>1. j \in DOMAIN waitingFallback /\ j # NoId
        BY <1>2, <1>3 DEF MapInv, MapTypeOK, NoId
    <2>2. CASE first /\ j = p
        BY <1>2, <1>7, <2>1, <2>2
    <2>3. CASE ~(first /\ j = p)
        <3>1. waitingFallback'[j] = waitingFallback[j]
            BY <1>2, <2>1, <2>3
        <3>2. ~(j \in DOMAIN connections /\ connections[j].failed)
            BY <1>1, <1>9, <2>1, <2>3
        <3>3. /\ waitingFallback[j].idFallback = NoId /\ ~waitingFallback[j].running
              /\ \A k \in DOMAIN connections : connections[k].entry # j
            BY <2>1, <3>1, <3>2 DEF MapInv, SwitchEndsFallback, exists
        <3> QED
            BY <1>1, <3>1, <3>3
    <2> QED
        BY <2>2, <2>3
<1>11. NoFallbackOfFallback'
    BY <1>1, <1>2 DEF MapInv, NoFallbackOfFallback, exists
<1>12. FallbackOfEntry'
    <2> SUFFICES ASSUME NEW j \in DOMAIN waitingFallback'
                 PROVE  /\ waitingFallback'[j].idFallback <= lastIndex'
                        /\ waitingFallback'[j].idFallback \in DOMAIN connections' =>
                              connections'[waitingFallback'[j].idFallback].entry = j
        BY DEF FallbackOfEntry, exists
    <2>1. NoId <= lastIndex /\ NoId \notin DOMAIN connections
        BY <1>3 DEF MapInv, MapTypeOK, NoId
    <2>2. CASE first /\ j = p
        BY <1>1, <1>2, <1>3, <2>1, <2>2
    <2>3. CASE ~(first /\ j = p)
        BY <1>1, <1>2, <1>3, <2>3 DEF MapInv, FallbackOfEntry, exists
    <2> QED
        BY <2>2, <2>3
<1>13. SessionsGrow
    BY <1>1, <1>3 DEF SessionsGrow
<1> QED
    BY <1>6, <1>8, <1>10, <1>11, <1>12, <1>13 DEF MapInv

-----------------------------------------------------------------------------
(* The calls and the queues *)

\* A step that starts no call: those that run go on about the same index.
CallersKeep ==
    /\ caller' \in [Callers -> Calls]
    /\ \A c \in Callers : caller'[c].kind # "idle" =>
          caller[c].kind # "idle" /\ caller'[c].id = caller[c].id

LEMMA QueuesKeep ==
    ASSUME InvokerInv, MapInv', SessionsGrow, CallersKeep,
           running' \in BOOLEAN, stopping' \in BOOLEAN,
           handler' \in Seq(Events), pushed' \in Seq([id : Ids, mediaId : Nat]),
           calls' \in 0 .. MaxCalls, packets' \in 0 .. MaxPackets
    PROVE  InvokerInv'
<1>1. QueueTypeOK'
    BY DEF QueueTypeOK, CallersKeep
<1>2. ASSUME NEW c \in Callers, caller'[c].kind # "idle"
      PROVE  /\ caller'[c].id \in 1 .. lastIndex'
             /\ caller'[c].id \in DOMAIN connections' =>
                   connections'[caller'[c].id].entry = NoId
    <2>1. /\ caller'[c].id = caller[c].id /\ caller[c].id \in 1 .. lastIndex
          /\ caller[c].id \in DOMAIN connections => connections[caller[c].id].entry = NoId
        BY <1>2 DEF InvokerInv, CallsOfApplication, CallersKeep, exists
    <2>2. lastIndex \in Nat /\ lastIndex' \in Nat /\ lastIndex <= lastIndex'
        BY InvokerAssumption DEF SessionsGrow, InvokerInv, MapInv, MapTypeOK
    <2> QED
        BY <2>1, <2>2 DEF SessionsGrow
<1>3. CallsOfApplication'
    BY <1>2 DEF CallsOfApplication, exists
<1> QED
    BY <1>1, <1>3 DEF InvokerInv

LEMMA SameCallers ==
    ASSUME QueueTypeOK, UNCHANGED caller
    PROVE  CallersKeep
    BY DEF QueueTypeOK, CallersKeep

LEMMA IdleIsCall == Idle \in Calls /\ Idle.kind = "idle"
    BY DEF Idle, NewCall, Calls, NoId

LEMMA LeaveKeeps ==
    ASSUME NEW c \in Callers, QueueTypeOK, leave(c)
    PROVE  CallersKeep
<1>1. caller' = [caller EXCEPT ![c] = Idle]
    BY DEF leave
<1> QED
    BY <1>1, IdleIsCall DEF QueueTypeOK, CallersKeep

LEMMA AnswerKeeps ==
    ASSUME QueueTypeOK, NEW call, NEW mediaId \in Nat, answer(call, mediaId)
    PROVE  CallersKeep
<1>1. ASSUME NEW c \in Callers
      PROVE  /\ caller'[c] \in Calls
             /\ caller'[c].kind = caller[c].kind /\ caller'[c].id = caller[c].id
    <2>1. caller[c] \in Calls
        BY DEF QueueTypeOK
    <2>2. \/ caller'[c] = caller[c]
          \/ caller'[c] = [caller[c] EXCEPT !.ready = TRUE, !.mediaId = mediaId]
        BY DEF answer
    <2> QED
        BY <2>1, <2>2 DEF Calls
<1>2. caller' \in [Callers -> Calls]
    BY <1>1 DEF answer
<1> QED
    BY <1>1, <1>2 DEF CallersKeep

\* The queues of a step that leaves them alone.
LEMMA SameQueues ==
    ASSUME QueueTypeOK, UNCHANGED <<threadVars, handler, pushed, countVars>>
    PROVE  /\ running' \in BOOLEAN /\ stopping' \in BOOLEAN
           /\ handler' \in Seq(Events) /\ pushed' \in Seq([id : Ids, mediaId : Nat])
           /\ calls' \in 0 .. MaxCalls /\ packets' \in 0 .. MaxPackets
    BY DEF QueueTypeOK, threadVars, countVars

-----------------------------------------------------------------------------
(* One lemma per action, or per few that do the same *)

LEMMA EnterKeeps ==
    ASSUME NEW c \in Callers, NEW kind \in Looping, NEW i \in Ids, InvokerInv, enter(c, kind, i)
    PROVE  InvokerInv'
<1> DEFINE new == [call |-> calls + 1, kind |-> kind, id |-> i, ready |-> FALSE, mediaId |-> 0]
           event == [kind |-> kind, id |-> i, call |-> calls + 1]
<1>1. MapInv' /\ SessionsGrow /\ UNCHANGED maps
    BY MapsUnchanged DEF InvokerInv, enter, maps
<1>2. calls \in Nat /\ calls' \in 0 .. MaxCalls
    BY InvokerAssumption DEF InvokerInv, QueueTypeOK, enter
<1>3. handler' \in Seq(Events)
    <2>1. CASE kind \in Queued
        <3>1. event \in Events
            BY <1>2, <2>1 DEF Events
        <3>2. handler' = Append(handler, event)
            BY <2>1 DEF enter
        <3> QED
            BY <3>1, <3>2, AppendsOf DEF InvokerInv, QueueTypeOK
    <2>2. CASE kind \notin Queued
        BY <2>2 DEF enter, InvokerInv, QueueTypeOK
    <2> QED
        BY <2>1, <2>2
<1>4. new \in Calls
    BY <1>2 DEF Calls
<1>5. caller' = [caller EXCEPT ![c] = new]
    BY DEF enter, NewCall
<1>6. QueueTypeOK'
    BY <1>2, <1>3, <1>4, <1>5 DEF enter, InvokerInv, QueueTypeOK, threadVars
<1>7. CallsOfApplication'
    <2>1. i \in 1 .. lastIndex /\ connections[i].entry = NoId
        BY DEF enter, exists, InvokerInv, MapInv, MapTypeOK
    <2>2. UNCHANGED <<connections, lastIndex>>
        BY <1>1 DEF maps, mapVars
    <2> QED
        BY <1>5, <2>1, <2>2 DEF InvokerInv, QueueTypeOK, CallsOfApplication, exists
<1> QED
    BY <1>1, <1>6, <1>7 DEF InvokerInv

LEMMA RemoveLaterKeeps ==
    ASSUME NEW c \in Callers, NEW i \in Ids, InvokerInv, removeLater(c, i)
    PROVE  InvokerInv'
<1> DEFINE event == [kind |-> "remove", id |-> i, call |-> 0]
<1>1. MapInv' /\ SessionsGrow
    BY MapsUnchanged DEF InvokerInv, removeLater, maps
<1>2. handler' \in Seq(Events)
    <2>1. event \in Events
        BY DEF Events, Queued
    <2> QED
        BY <2>1, AppendsOf DEF removeLater, InvokerInv, QueueTypeOK
<1>3. /\ running' \in BOOLEAN /\ stopping' \in BOOLEAN
      /\ pushed' \in Seq([id : Ids, mediaId : Nat])
      /\ calls' \in 0 .. MaxCalls /\ packets' \in 0 .. MaxPackets
    BY InvokerAssumption DEF removeLater, InvokerInv, QueueTypeOK, threadVars
<1>4. CallersKeep
    BY SameCallers DEF removeLater, InvokerInv
<1> QED
    BY <1>1, <1>2, <1>3, <1>4, QueuesKeep

LEMMA AnsweredKeeps ==
    ASSUME NEW c \in Callers, InvokerInv, answered(c)
    PROVE  InvokerInv'
<1>1. MapInv' /\ SessionsGrow
    BY MapsUnchanged DEF InvokerInv, answered, maps
<1>2. CallersKeep
    <2>1. CASE caller[c].kind = "group"
        <3>1. caller' = [caller EXCEPT ![c].kind = "register", ![c].ready = FALSE]
            BY <2>1 DEF answered
        <3>2. caller[c] \in Calls
            BY DEF InvokerInv, QueueTypeOK
        <3> QED
            BY <2>1, <3>1, <3>2 DEF CallersKeep, InvokerInv, QueueTypeOK, Calls
    <2>2. CASE caller[c].kind # "group"
        BY <2>2, LeaveKeeps DEF answered, InvokerInv
    <2> QED
        BY <2>1, <2>2
<1> QED
    BY <1>1, <1>2, SameQueues, QueuesKeep DEF answered, InvokerInv

\* The actions of a call that end it.
LEMMA CallEndsKeep ==
    ASSUME NEW c \in Callers, InvokerInv,
           \/ registerFallback(c) \/ isInterrupted(c) \/ userInterrupts(c)
           \/ eventHappened(c) \/ read(c)
    PROVE  InvokerInv'
<1>1. CallersKeep
    BY LeaveKeeps DEF InvokerInv, registerFallback, isInterrupted, userInterrupts, eventHappened, read
<1>2. UNCHANGED <<threadVars, handler, pushed, countVars>>
    BY DEF registerFallback, isInterrupted, userInterrupts, eventHappened, read
<1>3. MapInv' /\ SessionsGrow
    <2>1. CASE registerFallback(c)
        BY <2>1, RegisterKeepsMaps DEF InvokerInv
    <2>2. CASE isInterrupted(c)
        BY <2>2, RemovalKeeps, MapsUnchanged DEF InvokerInv, isInterrupted, maps
    <2>3. CASE userInterrupts(c)
        BY <2>3, RemovalKeeps DEF InvokerInv, userInterrupts
    <2>4. CASE eventHappened(c)
        BY <2>4, MapsUnchanged DEF InvokerInv, eventHappened, maps
    <2>5. CASE read(c)
        BY <2>5, ReadKeepsMaps DEF InvokerInv
    <2> QED
        BY <2>1, <2>2, <2>3, <2>4, <2>5
<1> QED
    BY <1>1, <1>2, <1>3, SameQueues, QueuesKeep DEF InvokerInv

\* The actions that leave the calls and the queues alone.
LEMMA SessionsKeep ==
    ASSUME InvokerInv,
           \/ \E c \in Callers : connect(c)
           \/ \E i \in Ids : \/ onConnectionEvent(i) \/ sessionCloses(i)
                           \/ onNetGroupException(i) \/ manage(i)
           \/ destroyConnections
    PROVE  InvokerInv'
<1>1. UNCHANGED <<threadVars, handler, pushed, caller, countVars>>
    BY DEF connect, onConnectionEvent, sessionCloses, onNetGroupException, manage,
           destroyConnections
<1>2. CallersKeep
    BY <1>1, SameCallers DEF InvokerInv
<1>3. MapInv' /\ SessionsGrow
    BY ConnectKeepsMaps, ConnectionEventKeepsMaps, SessionClosesKeepsMaps, ExceptionKeepsMaps,
       ManageKeepsMaps, DestroyKeepsMaps DEF InvokerInv
<1> QED
    BY <1>1, <1>2, <1>3, SameQueues, QueuesKeep DEF InvokerInv

LEMMA CreateStreamKeeps ==
    ASSUME InvokerInv, onCreateStream
    PROVE  InvokerInv'
<1> DEFINE event == Head(handler)
<1>1. MapInv' /\ SessionsGrow
    BY CreateStreamKeepsMaps DEF InvokerInv
<1>2. handler' \in Seq(Events)
    BY HeadAndTailOf DEF onCreateStream, InvokerInv, QueueTypeOK
<1>3. CallersKeep
    <2>1. ASSUME NEW m \in Nat, answer(event.call, m)
          PROVE  CallersKeep
        BY <2>1, AnswerKeeps DEF InvokerInv
    <2>2. CASE exists(event.id) /\ running
        <3>1. PICK ok \in BOOLEAN : /\ createMediaBuffer(event.id, ok)
                                    /\ answer(event.call, IF ok THEN Len(buffers'[event.id]) ELSE 0)
            BY <2>2 DEF onCreateStream
        <3>2. event.id \in DOMAIN buffers'
            BY <3>1 DEF createMediaBuffer, with
        <3>3. buffers'[event.id] \in Seq(BOOLEAN)
            BY <1>1, <3>2 DEF MapInv, MapTypeOK
        <3>4. Len(buffers'[event.id]) \in Nat
            BY <3>3
        <3> QED
            BY <2>1, <3>1, <3>4
    <2>3. CASE ~(exists(event.id) /\ running)
        BY <2>1, <2>3 DEF onCreateStream
    <2> QED
        BY <2>2, <2>3
<1>4. /\ running' \in BOOLEAN /\ stopping' \in BOOLEAN
      /\ pushed' \in Seq([id : Ids, mediaId : Nat])
      /\ calls' \in 0 .. MaxCalls /\ packets' \in 0 .. MaxPackets
    BY DEF onCreateStream, InvokerInv, QueueTypeOK, threadVars, countVars
<1> QED
    BY <1>1, <1>2, <1>3, <1>4, QueuesKeep

LEMMA RemoveConnectionKeeps ==
    ASSUME InvokerInv, onRemoveConnection
    PROVE  InvokerInv'
<1> DEFINE event == Head(handler)
<1>1. MapInv' /\ SessionsGrow
    BY RemovalKeeps, MapsUnchanged DEF onRemoveConnection, InvokerInv, maps
<1>2. handler' \in Seq(Events)
    BY HeadAndTailOf DEF onRemoveConnection, InvokerInv, QueueTypeOK
<1>3. CallersKeep
    BY AnswerKeeps DEF onRemoveConnection, InvokerInv
<1>4. /\ running' \in BOOLEAN /\ stopping' \in BOOLEAN
      /\ pushed' \in Seq([id : Ids, mediaId : Nat])
      /\ calls' \in 0 .. MaxCalls /\ packets' \in 0 .. MaxPackets
    BY DEF onRemoveConnection, InvokerInv, QueueTypeOK, threadVars, countVars
<1> QED
    BY <1>1, <1>2, <1>3, <1>4, QueuesKeep

LEMMA PushMediaKeeps ==
    ASSUME NEW i \in Ids, InvokerInv, pushMedia(i)
    PROVE  InvokerInv'
<1>1. MapInv' /\ SessionsGrow
    BY MapsUnchanged DEF pushMedia, InvokerInv, maps
<1>2. pushed' \in Seq([id : Ids, mediaId : Nat])
    <2>1. PICK m \in 1 .. MaxCalls : pushed' = Append(pushed, [id |-> i, mediaId |-> m])
        BY DEF pushMedia
    <2>2. [id |-> i, mediaId |-> m] \in [id : Ids, mediaId : Nat]
        OBVIOUS
    <2> QED
        BY <2>1, <2>2, AppendsOf DEF InvokerInv, QueueTypeOK
<1>3. CallersKeep
    BY SameCallers DEF pushMedia, InvokerInv
<1>4. /\ running' \in BOOLEAN /\ stopping' \in BOOLEAN /\ handler' \in Seq(Events)
      /\ calls' \in 0 .. MaxCalls /\ packets' \in 0 .. MaxPackets
    BY InvokerAssumption DEF pushMedia, InvokerInv, QueueTypeOK, threadVars
<1> QED
    BY <1>1, <1>2, <1>3, <1>4, QueuesKeep

LEMMA BufferizeKeeps ==
    ASSUME InvokerInv, bufferizeMedia
    PROVE  InvokerInv'
<1>1. MapInv' /\ SessionsGrow
    BY BufferizeKeepsMaps DEF InvokerInv
<1>2. pushed' \in Seq([id : Ids, mediaId : Nat])
    BY HeadAndTailOf DEF bufferizeMedia, InvokerInv, QueueTypeOK
<1>3. CallersKeep
    BY SameCallers DEF bufferizeMedia, InvokerInv
<1>4. /\ running' \in BOOLEAN /\ stopping' \in BOOLEAN /\ handler' \in Seq(Events)
      /\ calls' \in 0 .. MaxCalls /\ packets' \in 0 .. MaxPackets
    BY DEF bufferizeMedia, InvokerInv, QueueTypeOK, threadVars, countVars
<1> QED
    BY <1>1, <1>2, <1>3, <1>4, QueuesKeep

LEMMA ThreadKeeps ==
    ASSUME InvokerInv, (\E c \in Callers : RTMFP_Terminate(c)) \/ threadStop
    PROVE  InvokerInv'
<1>1. UNCHANGED <<mapVars, lastIndex, handler, pushed, caller, countVars>>
    BY DEF RTMFP_Terminate, threadStop
<1>2. MapInv' /\ SessionsGrow
    BY <1>1, MapsUnchanged DEF InvokerInv, maps
<1>3. CallersKeep
    BY <1>1, SameCallers DEF InvokerInv
<1>4. /\ running' \in BOOLEAN /\ stopping' \in BOOLEAN
      /\ handler' \in Seq(Events) /\ pushed' \in Seq([id : Ids, mediaId : Nat])
      /\ calls' \in 0 .. MaxCalls /\ packets' \in 0 .. MaxPackets
    BY <1>1 DEF RTMFP_Terminate, threadStop, InvokerInv, QueueTypeOK, countVars
<1> QED
    BY <1>2, <1>3, <1>4, QueuesKeep

-----------------------------------------------------------------------------
(* The inductive invariant *)

LEMMA InvokerInvInit == InvokerInit => InvokerInv
<1> SUFFICES ASSUME InvokerInit
             PROVE  InvokerInv
    OBVIOUS
<1> USE InvokerAssumption DEF InvokerInit
<1>1. MapTypeOK
    BY DEF MapTypeOK
<1>2. BuffersOfConnections /\ FallbackHasItsEntry /\ SwitchEndsFallback
    BY DEF BuffersOfConnections, FallbackHasItsEntry, SwitchEndsFallback
<1>3. NoFallbackOfFallback /\ FallbackOfEntry
    BY DEF NoFallbackOfFallback, FallbackOfEntry
<1>4. QueueTypeOK
    <2>1. handler \in Seq(Events) /\ pushed \in Seq([id : Ids, mediaId : Nat])
        BY EmptyOf
    <2>2. caller \in [Callers -> Calls] /\ running \in BOOLEAN /\ stopping \in BOOLEAN
        BY IdleIsCall
    <2>3. calls \in 0 .. MaxCalls /\ packets \in 0 .. MaxPackets
        OBVIOUS
    <2> QED
        BY <2>1, <2>2, <2>3 DEF QueueTypeOK
<1>5. CallsOfApplication
    BY IdleIsCall DEF CallsOfApplication
<1> QED
    BY <1>1, <1>2, <1>3, <1>4, <1>5 DEF InvokerInv, MapInv

LEMMA InvokerInvStep == InvokerInv /\ [InvokerNext]_invokerVars => InvokerInv'
<1> SUFFICES ASSUME InvokerInv, [InvokerNext]_invokerVars
             PROVE  InvokerInv'
    OBVIOUS
<1>1. CASE UNCHANGED invokerVars
    <2>1. UNCHANGED <<threadVars, mapVars, lastIndex, handler, pushed, caller, countVars>>
        BY <1>1 DEF invokerVars
    <2>2. MapInv' /\ SessionsGrow
        BY <2>1, MapsUnchanged DEF InvokerInv, maps
    <2>3. CallersKeep
        BY <2>1, SameCallers DEF InvokerInv
    <2> QED
        BY <2>1, <2>2, <2>3, SameQueues, QueuesKeep DEF InvokerInv
<1>2. ASSUME NEW c \in Callers, CallerStep(c)
      PROVE  InvokerInv'
    BY <1>2, AnsweredKeeps, CallEndsKeep DEF CallerStep
<1>3. ASSUME NEW c \in Callers,
             userInterrupts(c) \/ eventHappened(c) \/ read(c) \/ connect(c) \/ RTMFP_Terminate(c)
      PROVE  InvokerInv'
    BY <1>3, CallEndsKeep, SessionsKeep, ThreadKeeps
<1>4. ASSUME NEW c \in Callers, NEW i \in Ids,
             removeLater(c, i) \/ \E kind \in Looping : enter(c, kind, i)
      PROVE  InvokerInv'
    BY <1>4, RemoveLaterKeeps, EnterKeeps
<1>5. CASE onCreateStream \/ onRemoveConnection \/ threadStop \/ destroyConnections \/ bufferizeMedia
    BY <1>5, CreateStreamKeeps, RemoveConnectionKeeps, ThreadKeeps, SessionsKeep, BufferizeKeeps
<1>6. ASSUME NEW i \in Ids,
             onConnectionEvent(i) \/ sessionCloses(i) \/ onNetGroupException(i) \/ manage(i)
      PROVE  InvokerInv'
    BY <1>6, SessionsKeep
<1>7. ASSUME NEW i \in Ids, pushMedia(i)
      PROVE  InvokerInv'
    BY <1>7, PushMediaKeeps
<1> QED
    BY <1>1, <1>2, <1>3, <1>4, <1>5, <1>6, <1>7 DEF InvokerNext

LEMMA InvokerInvAlways == InvokerSpec => []InvokerInv
    BY InvokerInvInit, InvokerInvStep, PTL DEF InvokerSpec

(***************************************************************************)
(* Every variable keeps its type, whatever the threads call in what order. *)
(***************************************************************************)
THEOREM InvokerTypeCorrect == InvokerSpec => []InvokerTypeOK
    BY InvokerInvAlways, InvokerInvSplits, PTL

(***************************************************************************)
(* No media buffer outlives its connection or is made after it is removed. *)
(***************************************************************************)
THEOREM BuffersGoWithConnections == InvokerSpec => []BuffersOfConnections
<1>1. InvokerInv => BuffersOfConnections
    BY DEF InvokerInv, MapInv
<1> QED
    BY <1>1, InvokerInvAlways, PTL

(***************************************************************************)
(* The entry that the event of a fallback session refers to exists as long *)
(* as the session, and is its own.                                         *)
(***************************************************************************)
THEOREM FallbacksFindTheirEntry == InvokerSpec => []FallbackHasItsEntry
<1>1. InvokerInv => FallbackHasItsEntry
    BY DEF InvokerInv, MapInv
<1> QED
    BY <1>1, InvokerInvAlways, PTL

(***************************************************************************)
(* After the switch to the group there is no fallback until the group      *)
(* fails.                                                                  *)
(***************************************************************************)
THEOREM SwitchIsFinal == InvokerSpec => []SwitchEndsFallback
<1>1. InvokerInv => SwitchEndsFallback
    BY DEF InvokerInv, MapInv
<1> QED
    BY <1>1, InvokerInvAlways, PTL
=============================================================================
