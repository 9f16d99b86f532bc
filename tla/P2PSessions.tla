----------------------------- MODULE P2PSessions -----------------------------
(***************************************************************************)
(* Two peers that connect to each other (RTMFPHandshaker.cpp,              *)
(* P2PSession.cpp, and what RTMFPSession.cpp and FlowManager.cpp do for a  *)
(* P2P session): handshakes 30, 70, 38 and 78, both sides starting at the  *)
(* same time, retries and time-outs, closes, and a peer that is removed    *)
(* and connected again while old messages are still on their way.          *)
(*                                                                         *)
(* The id of a session is also its random tag and the random nonce of each *)
(* of its two roles.  A message stays in the network: it may arrive late,  *)
(* several times or never.  Addresses, the rendez-vous service and the     *)
(* Diffie-Hellman secret, which is the same for all sessions of two peers, *)
(* are left out.  Timers may expire at any moment.                         *)
(***************************************************************************)
EXTENDS Integers

CONSTANTS
    Peers,          \* two peers, whose numbers are their peer ids
    NoId,           \* NULL, for sessions, tags and nonces
    MaxSessions,    \* bound: sessions that a peer creates
    MaxCookies,     \* bound: cookies that a peer creates
    MaxAttempts,    \* 11 in the code
    CanFail         \* whether timers expire and sessions are closed

ASSUME PeersAssumption ==
    /\ Peers \subseteq Nat
    /\ \A p \in Peers : \E q \in Peers : q # p /\ Peers = {p, q}
    /\ NoId \notin Peers \X Nat
    /\ MaxSessions \in Nat /\ MaxCookies \in Nat /\ MaxAttempts \in Nat
    /\ CanFail \in BOOLEAN

VARIABLES
    session,        \* the P2PSession in _mapPeersById of each peer
    handshakes,     \* _mapTags of each peer: tag -> Handshake
    nextId,         \* P2PSessionCounter
    cookies,        \* cookies made so far; _mapCookies is derived from handshakes
    network         \* messages sent

p2pVars == <<session, handshakes, nextId, cookies, network>>

other(p) == CHOOSE q \in Peers : q # p

Ids == Peers \X Nat
Id == Ids \cup {NoId}

\* The values of SessionStatus a P2P session takes, in their order, and NONE
\* where there is no session.
Statuses == {"NONE", "STOPPED", "HANDSHAKE38", "HANDSHAKE78", "CONNECTED", "NEAR_CLOSED", "FAILED"}
rank == [NONE |-> 0, STOPPED |-> 1, HANDSHAKE38 |-> 2, HANDSHAKE78 |-> 3,
         CONNECTED |-> 4, NEAR_CLOSED |-> 5, FAILED |-> 6]

\* The states before the connection: up to HANDSHAKE78.
Connecting == {"STOPPED", "HANDSHAKE38", "HANDSHAKE78"}

\* Both ends compute their keys from the initiator's and the responder's nonce.
Keys == [initiator : Id, responder : Id]
NoKeys == [initiator |-> NoId, responder |-> NoId]

Session == [id : Id, status : Statuses, responder : BOOLEAN,
            handshake : Id, keys : Keys]
NoSession == [id |-> NoId, status |-> "NONE", responder |-> FALSE,
              handshake |-> NoId, keys |-> NoKeys]

\* pSession, pCookie (0 for NULL), cookieReceived and attempt of a Handshake.
Handshake == [session : Id, cookie : Nat, cookieReceived : Nat, attempt : Nat]

Message == [type : {"30", "70", "38", "78", "DATA", "CLOSE"}, to : Peers,
            id : Id, from : Id, cookie : Nat, keys : Keys]

message(type, to, id, from, cookie, keys) ==
    [type |-> type, to |-> to, id |-> id, from |-> from, cookie |-> cookie, keys |-> keys]

handshake30(p, tag) == message("30", other(p), tag, NoId, 0, NoKeys)
handshake70(p, tag, cookie) == message("70", other(p), tag, NoId, cookie, NoKeys)
handshake38(p, from, cookie) == message("38", other(p), NoId, from, cookie, NoKeys)
handshake78(p, to, from) == message("78", other(p), to, from, 0, NoKeys)

\* _farId: computeKeys saves it together with the keys.
farId(s) == IF s.responder THEN s.keys.initiator ELSE s.keys.responder

\* A message under the keys of the session.
sealed(p, s, type) == message(type, other(p), farId(s), s.id, 0, s.keys)

P2PInit ==
    /\ session = [p \in Peers |-> NoSession]
    /\ handshakes = [p \in Peers |-> << >>]
    /\ nextId = [p \in Peers |-> 1]
    /\ cookies = [p \in Peers |-> 0]
    /\ network = {}

-----------------------------------------------------------------------------
(* Closing                                                                 *)

\* hs without some tags, and with one handshake more or another value of it.
erase(hs, tags) == [t \in DOMAIN hs \ tags |-> hs[t]]
put(hs, tag, h) == [t \in DOMAIN hs \cup {tag} |-> IF t = tag THEN h ELSE hs[t]]

closes(s, abrupt) ==
    s.status # "NONE" /\ s.status # "FAILED" /\ (abrupt \/ s.status # "NEAR_CLOSED")

\* P2PSession::close and FlowManager::close.  The session's handshake is removed;
\* _pHandshake may keep the object when the handshaker removed it, with a pSession
\* that is NULL, and then every later use of it does nothing.
closed(s, abrupt) ==
    IF closes(s, abrupt)
    THEN [s EXCEPT !.status = IF abrupt THEN "FAILED" ELSE "NEAR_CLOSED", !.handshake = NoId]
    ELSE s

\* sendCloseChunk: one without keys is sent to the handshaker, which ignores it.
closeChunk(p, s, abrupt) ==
    IF closes(s, abrupt) /\ s.status \in {"CONNECTED", "NEAR_CLOSED"} /\ s.keys # NoKeys
    THEN {sealed(p, s, "CLOSE")}
    ELSE {}

\* The whole of a close of the session s of p, in its handshakes hs.
closeWith(p, s, hs, abrupt) ==
    /\ session' = [session EXCEPT ![p] = closed(s, abrupt)]
    /\ handshakes' = [handshakes EXCEPT
           ![p] = IF closes(s, abrupt) THEN erase(hs, {s.handshake}) ELSE hs]
    /\ network' = network \cup closeChunk(p, s, abrupt)

\* A close by the application, the group, an exception of a writer, congestion,
\* the server's answer that the peer is gone, or six minutes of silence.
close(p, abrupt) ==
    /\ CanFail
    /\ closes(session[p], abrupt)
    /\ closeWith(p, session[p], handshakes[p], abrupt)
    /\ UNCHANGED <<nextId, cookies>>

\* RTMFPHandshaker::removeHandshake
removeHandshake(p, tag) ==
    IF handshakes[p][tag].session = NoId
    THEN /\ handshakes' = [handshakes EXCEPT ![p] = erase(handshakes[p], {tag})]
         /\ UNCHANGED <<session, network>>
    ELSE closeWith(p, session[p], erase(handshakes[p], {tag}), FALSE)

\* manage(): every 5 s until the other end answers.
repeatClose(p) ==
    /\ session[p].status = "NEAR_CLOSED"
    /\ session[p].keys # NoKeys
    /\ network' = network \cup {sealed(p, session[p], "CLOSE")}
    /\ UNCHANGED <<session, handshakes, nextId, cookies>>

\* failed() and the destructor, which closes abruptly: 19 s or 90 s after the close.
deleteSession(p) ==
    /\ session[p].status \in {"NEAR_CLOSED", "FAILED"}
    /\ session' = [session EXCEPT ![p] = NoSession]
    /\ network' = network \cup closeChunk(p, session[p], TRUE)
    /\ UNCHANGED <<handshakes, nextId, cookies>>

\* RTMFPSession::removePeer of a peer that is not connected yet.
removePeer(p) ==
    /\ CanFail
    /\ session[p].status \in Connecting
    /\ session' = [session EXCEPT ![p] = NoSession]
    /\ handshakes' = [handshakes EXCEPT ![p] = erase(handshakes[p], {session[p].handshake})]
    /\ UNCHANGED <<nextId, cookies, network>>

-----------------------------------------------------------------------------
(* Handshakes                                                              *)

\* Constructor of P2PSession.
newSession(p, responder, tag) ==
    [id |-> <<p, nextId[p]>>, status |-> "STOPPED", responder |-> responder,
     handshake |-> tag, keys |-> NoKeys]

\* RTMFPSession::connect2Peer and startHandshake
connect2Peer(p) ==
    /\ session[p].id = NoId
    /\ nextId[p] <= MaxSessions
    /\ LET s == newSession(p, FALSE, <<p, nextId[p]>>)
           h == [session |-> s.id, cookie |-> 0, cookieReceived |-> 0, attempt |-> 0]
       IN /\ session' = [session EXCEPT ![p] = s]
          /\ handshakes' = [handshakes EXCEPT ![p] = put(handshakes[p], s.id, h)]
    /\ nextId' = [nextId EXCEPT ![p] = @ + 1]
    /\ UNCHANGED <<cookies, network>>

\* The handshakes that processManage repeats: those of an initiator.
repeats(p, status) ==
    {t \in DOMAIN handshakes[p] : t = session[p].id /\ session[p].status = status}

\* processManage: another attempt, the 30 or the 38 again, until MaxAttempts.
attempt(p, tag, status, sent) ==
    /\ tag \in repeats(p, status)
    /\ handshakes[p][tag].attempt < MaxAttempts
    /\ handshakes' = [handshakes EXCEPT ![p][tag].attempt = @ + 1]
    /\ network' = network \cup {sent}
    /\ UNCHANGED <<session, nextId, cookies>>

sendHandshake30(p, tag) == attempt(p, tag, "STOPPED", handshake30(p, tag))

sendHandshake38(p, tag) ==
    /\ tag \in DOMAIN handshakes[p]
    /\ attempt(p, tag, "HANDSHAKE38", handshake38(p, tag, handshakes[p][tag].cookieReceived))

\* "has reached 11 attempt without answer, closing..."
lastAttempt(p, tag) ==
    /\ CanFail
    /\ tag \in repeats(p, "STOPPED") \cup repeats(p, "HANDSHAKE38")
    /\ handshakes[p][tag].attempt = MaxAttempts
    /\ removeHandshake(p, tag)
    /\ UNCHANGED <<nextId, cookies>>

\* Mutant of releaseCookie: the handshake goes and its session stays.
releaseCookieOnly(p, tag) ==
    /\ CanFail
    /\ tag \in DOMAIN handshakes[p]
    /\ handshakes[p][tag].cookie # 0
    /\ handshakes' = [handshakes EXCEPT ![p] = erase(handshakes[p], {tag})]
    /\ UNCHANGED <<session, nextId, cookies, network>>
\* "Release cookies after 95s"
releaseCookie(p, tag) ==
    /\ CanFail
    /\ tag \in DOMAIN handshakes[p]
    /\ handshakes[p][tag].cookie # 0
    /\ removeHandshake(p, tag)
    /\ UNCHANGED <<nextId, cookies>>

\* handleHandshake30, or the server's address exchange, and sendHandshake70.
handleHandshake30(p, m) ==
    /\ m.type = "30"
    /\ \/ /\ m.id \in DOMAIN handshakes[p]
          /\ handshakes[p][m.id].cookie # 0
          /\ network' = network \cup {handshake70(p, m.id, handshakes[p][m.id].cookie)}
          /\ UNCHANGED <<handshakes, cookies>>
       \/ /\ m.id \notin DOMAIN handshakes[p]
          /\ cookies[p] < MaxCookies
          /\ LET h == [session |-> NoId, cookie |-> cookies[p] + 1,
                       cookieReceived |-> 0, attempt |-> 0]
             IN handshakes' = [handshakes EXCEPT ![p] = put(handshakes[p], m.id, h)]
          /\ cookies' = [cookies EXCEPT ![p] = @ + 1]
          /\ network' = network \cup {handshake70(p, m.id, cookies[p] + 1)}
    /\ UNCHANGED <<session, nextId>>

\* handleHandshake70, for a known tag and a session that waits for the answer.
handleHandshake70(p, m) ==
    /\ m.type = "70"
    /\ m.id \in DOMAIN handshakes[p]
    /\ handshakes[p][m.id].session # NoId
    /\ session[p].status = "STOPPED"
    /\ handshakes' = [handshakes EXCEPT ![p][m.id].attempt = 1,
                                        ![p][m.id].cookieReceived = m.cookie]
    /\ session' = [session EXCEPT ![p].status = "HANDSHAKE38"]
    /\ network' = network \cup {handshake38(p, session[p].id, m.cookie)}
    /\ UNCHANGED <<nextId, cookies>>

\* Mutant of accepts: the ids of the peers are not compared.
acceptsAlways(p, s) == s.status \in Connecting
\* Mutant of accepts: an initiator that got an answer never switches.
neverSwitches(p, s) == s.status \in Connecting /\ (s.responder \/ s.status = "STOPPED")
\* P2PSession::onHandshake38: the session takes the handshake, unless it is
\* connected or it is the initiator that goes on, the one of the bigger id.
accepts(p, s) ==
    /\ s.status \in Connecting
    /\ s.responder \/ s.status = "STOPPED" \/ p < other(p)

\* Mutant of takenOver: the old handshake keeps its session.
keepsSession(hs, s, tag) == put(hs, tag, [hs[tag] EXCEPT !.session = s.id])
\* The handshakes when session s takes the one of `tag`: an initiator's own is
\* removed, one of an earlier 38 loses its session.
takenOver(hs, s, tag) ==
    LET others == IF s.responder THEN hs ELSE erase(hs, {s.handshake})
    IN [t \in DOMAIN others |->
           [others[t] EXCEPT !.session =
               IF t = tag THEN s.id ELSE IF t = s.handshake THEN NoId ELSE @]]

\* Mutant of answered: keys and status are set again by every 38.
answeredAgain(s, tag, m) ==
    [s EXCEPT !.responder = TRUE, !.handshake = tag, !.status = "HANDSHAKE78",
              !.keys = [initiator |-> m.from, responder |-> s.id]]
\* The session after it took the handshake and computed its keys "if not already
\* computed".
answered(s, tag, m) ==
    IF s.status # "HANDSHAKE78"
    THEN [s EXCEPT !.responder = TRUE, !.handshake = tag, !.status = "HANDSHAKE78",
                   !.keys = [initiator |-> m.from, responder |-> s.id]]
    ELSE [s EXCEPT !.handshake = tag]

\* RTMFPHandshaker::sendHandshake78 and onNewPeerId: a new session, a session
\* that takes the handshake, or one that refuses it.
answers(p, s, tag, m) ==
    /\ handshakes' = [handshakes EXCEPT ![p] = takenOver(handshakes[p], s, tag)]
    /\ session' = [session EXCEPT ![p] = answered(s, tag, m)]
    /\ network' = network \cup {handshake78(p, m.from, s.id)}

refuses(p, s, tag) ==
    /\ s.id # NoId /\ ~accepts(p, s)
    /\ removeHandshake(p, tag)

\* _mapCookies
withCookie(p, cookie) ==
    {t \in DOMAIN handshakes[p] : handshakes[p][t].cookie = cookie /\ cookie # 0}

sendHandshake78(p, m) ==
    /\ m.type = "38"
    /\ \E tag \in withCookie(p, m.cookie) :
          \/ /\ session[p].id = NoId
             /\ nextId[p] <= MaxSessions
             /\ answers(p, newSession(p, TRUE, tag), tag, m)
             /\ nextId' = [nextId EXCEPT ![p] = @ + 1]
          \/ /\ session[p].id # NoId /\ accepts(p, session[p])
             /\ answers(p, session[p], tag, m)
             /\ UNCHANGED nextId
          \/ /\ refuses(p, session[p], tag)
             /\ UNCHANGED nextId
    /\ UNCHANGED cookies

\* P2PSession::onConnection: the handshake is not needed any more.
connected(s) == [s EXCEPT !.status = "CONNECTED", !.handshake = NoId]

\* onConnection, and the close that follows when the group refuses the peer.
onConnection(p, s) ==
    LET hs == erase(handshakes[p], {s.handshake}) IN
    \/ /\ session' = [session EXCEPT ![p] = connected(s)]
       /\ handshakes' = [handshakes EXCEPT ![p] = hs]
       /\ UNCHANGED network
    \/ /\ CanFail
       /\ closeWith(p, connected(s), hs, FALSE)

\* FlowManager::sendConnect: the initiator has its answer.
sendConnect(p, m) ==
    /\ m.type = "78"
    /\ m.id = session[p].id
    /\ session[p].status = "HANDSHAKE38"
    /\ onConnection(p, [session[p] EXCEPT !.keys = [initiator |-> m.id, responder |-> m.from]])
    /\ UNCHANGED <<nextId, cookies>>

-----------------------------------------------------------------------------
(* Under the keys of the session                                           *)

\* A ping or a message of a connected session.
sendData(p) ==
    /\ session[p].status = "CONNECTED"
    /\ network' = network \cup {sealed(p, session[p], "DATA")}
    /\ UNCHANGED <<session, handshakes, nextId, cookies>>

\* The packet finds its session, which decodes it.
decoded(p, m) ==
    /\ m.id = session[p].id
    /\ m.keys = session[p].keys
    /\ session[p].status # "FAILED"

\* FlowManager::receive: the first message of a responder connects it.
receiveData(p, m) ==
    /\ m.type = "DATA"
    /\ decoded(p, m)
    /\ session[p].responder /\ session[p].status = "HANDSHAKE78"
    /\ onConnection(p, session[p])
    /\ UNCHANGED <<nextId, cookies>>

\* 0x0C and 0x4C: also one of them may be the first message.
receiveClose(p, m) ==
    /\ m.type = "CLOSE"
    /\ decoded(p, m)
    /\ IF session[p].status = "HANDSHAKE78"
       THEN closeWith(p, connected(session[p]),
                      erase(handshakes[p], {session[p].handshake}), TRUE)
       ELSE closeWith(p, session[p], handshakes[p], TRUE)
    /\ UNCHANGED <<nextId, cookies>>

receive(p, m) ==
    /\ m.to = p
    /\ \/ handleHandshake30(p, m)
       \/ handleHandshake70(p, m)
       \/ sendHandshake78(p, m)
       \/ sendConnect(p, m)
       \/ receiveData(p, m)
       \/ receiveClose(p, m)

P2PNext ==
    \E p \in Peers :
        \/ connect2Peer(p)
        \/ \E abrupt \in BOOLEAN : close(p, abrupt)
        \/ repeatClose(p)
        \/ deleteSession(p)
        \/ removePeer(p)
        \/ sendData(p)
        \/ \E tag \in DOMAIN handshakes[p] :
              \/ sendHandshake30(p, tag)
              \/ sendHandshake38(p, tag)
              \/ lastAttempt(p, tag)
              \/ releaseCookie(p, tag)
        \/ \E m \in network : receive(p, m)

P2PSpec == P2PInit /\ [][P2PNext]_p2pVars

-----------------------------------------------------------------------------
(* Properties                                                              *)

\* Types; ids are used once.
P2PTypeOK ==
    /\ session \in [Peers -> Session]
    /\ \A p \in Peers :
          /\ DOMAIN handshakes[p] \subseteq Ids
          /\ \A t \in DOMAIN handshakes[p] : handshakes[p][t] \in Handshake
          /\ session[p].id \in {NoId} \cup {<<p, n>> : n \in 1 .. nextId[p] - 1}
          /\ \A t \in DOMAIN handshakes[p] : handshakes[p][t].cookie <= cookies[p]
    /\ nextId \in [Peers -> Nat]
    /\ cookies \in [Peers -> Nat]
    /\ network \subseteq Message

\* Handshake::pSession is a plain pointer.  It is NULL or points to the session
\* that exists and that has this handshake as its own, however often handshakes
\* are replaced, refused, released or closed.
NoDanglingSession ==
    \A p \in Peers : \A t \in DOMAIN handshakes[p] :
        handshakes[p][t].session # NoId =>
            /\ handshakes[p][t].session = session[p].id
            /\ session[p].handshake = t
            /\ session[p].status \in Connecting

\* A session that is not connected yet has a handshake, in the map and pointing
\* back: sendConnect, computeKeys and onConnection use _pHandshake without a
\* test, and only a handshake in the map has a timer that ends the attempt.
ConnectingHasHandshake ==
    \A p \in Peers :
        session[p].status \in Connecting =>
            /\ session[p].handshake \in DOMAIN handshakes[p]
            /\ handshakes[p][session[p].handshake].session = session[p].id

\* Two sessions that write to each other have the same keys and opposite roles,
\* also when both peers began at the same time and one of them switched.
MutualKeys ==
    \A p \in Peers :
        LET mine == session[p]
            far == session[other(p)]
        IN (/\ mine.keys # NoKeys /\ far.keys # NoKeys
            /\ farId(mine) = far.id /\ farId(far) = mine.id)
               => mine.keys = far.keys /\ mine.responder # far.responder

\* A session only moves forward in the order of SessionStatus, never goes back
\* from responder to initiator, and never changes the keys it has.
SessionMovesForward ==
    [][\A p \in Peers : session'[p].id = session[p].id =>
           /\ rank[session'[p].status] >= rank[session[p].status]
           /\ session[p].responder => session'[p].responder
           /\ session[p].keys # NoKeys => session'[p].keys = session[p].keys]_p2pVars

-----------------------------------------------------------------------------
(* Liveness: when nothing fails, what is sent arrives, the handshaker is   *)
(* managed, and a connected session sends its pings.                       *)

P2PFairness ==
    \A p \in Peers :
        /\ WF_p2pVars(\E m \in network : receive(p, m))
        /\ WF_p2pVars(\E tag \in DOMAIN handshakes[p] : sendHandshake30(p, tag))
        /\ WF_p2pVars(sendData(p))

FairP2PSpec == P2PSpec /\ P2PFairness

\* A peer that starts to connect gets connected, and so does the other end,
\* whether it starts too or not and whatever overtakes what.
BothConnect ==
    \A p \in Peers :
        session[p].id # NoId ~> \A q \in Peers : session[q].status = "CONNECTED"

=============================================================================
