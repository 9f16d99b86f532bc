------------------------------ MODULE NetGroup ------------------------------
(***************************************************************************)
(* Which members of a NetGroup a peer is connected to: NetGroup with the   *)
(* P2P sessions of its RTMFPSession.  The server and the reports of the    *)
(* neighbours name members; every 10 s a best list is built from them and  *)
(* the sessions are started and dropped to match it; sessions connect,     *)
(* lose a race, fail and close on their own.  When too few of the attempts *)
(* succeed the group is given up.                                          *)
(*                                                                         *)
(* _mapGroupAddress has the members of _mapHeardList under another key,    *)
(* each line that changes one changes the other: it is heard.  A session   *)
(* is reduced to what the group sees of it (P2PSessions has the rest), its *)
(* reports and medias are left out.  There is no clock.                    *)
(***************************************************************************)
EXTENDS Integers, FiniteSets

CONSTANTS
    Peers,              \* the other members of the group
    Tags,               \* tags of the peers that announce a handshake
    ClosestPeers,       \* a best list has at least so many, 6 in the code
    NETGROUP_MIN_PEERS_TIMEOUT, NETGROUP_RATE_MIN,
    MinTries,           \* no rate is computed before, 10 in the code
    MaxTries            \* bound: connections counted

ASSUME NetGroupAssumption ==
    /\ IsFiniteSet(Peers) /\ ClosestPeers \in Nat
    /\ NETGROUP_MIN_PEERS_TIMEOUT \in Nat /\ NETGROUP_RATE_MIN \in Nat
    /\ MinTries \in Nat /\ MaxTries \in Nat

Statuses == {"none", "initiating", "answering", "connected", "nearClosed", "failed"}
Pending == {"initiating", "answering"}

VARIABLES
    group,                          \* RTMFPSession::_group is set
    session,                        \* status of each member of _mapPeersById
    heard, died,                    \* _mapHeardList, _mapDiedPeers
    mapPeers,                       \* _mapPeers
    bestList, startedBestList,
    sought,                         \* history: sessions the best list started
    p2pAble, p2pEntities,
    countP2P, countP2PSuccess

listVars == <<bestList, startedBestList, sought>>
ableVars == <<p2pAble, p2pEntities>>
countVars == <<countP2P, countP2PSuccess>>
netGroupVars == <<group, session, heard, died, mapPeers, listVars, ableVars, countVars>>

\* The constructor leaves _startedBestList uninitialised: it may be either.
NetGroupInit ==
    /\ group = TRUE
    /\ session = [p \in Peers |-> "none"]
    /\ heard = {} /\ died = {} /\ mapPeers = {}
    /\ bestList = {} /\ startedBestList \in BOOLEAN /\ sought = {}
    /\ p2pAble = FALSE /\ p2pEntities = {}
    /\ countP2P = 0 /\ countP2PSuccess = 0

inStatus(S) == {p \in Peers : session[p] \in S}
set(P, status) == [p \in Peers |-> IF p \in P THEN status ELSE session[p]]

\* A peer is added unless it died.
addPeer2HeardList(P) == heard' = heard \cup (P \ died)

(***************************************************************************)
(* Members announced by the server, and by peers about to connect.         *)
(***************************************************************************)

p2PAddressExchange(tag) ==
    p2pEntities' = IF ~p2pAble /\ Cardinality(p2pEntities) < NETGROUP_MIN_PEERS_TIMEOUT
                   THEN p2pEntities \cup {tag} ELSE p2pEntities

handleP2PAddressExchange(tag) ==
    /\ group
    /\ p2PAddressExchange(tag)
    /\ UNCHANGED <<group, session, heard, died, mapPeers, listVars, p2pAble, countVars>>

\* Mutant of handleNewGroupPeer: a peer already heard of is not counted.
countNewPeerOnly(p) ==
    /\ group /\ countP2P < MaxTries
    /\ p2PAddressExchange(p)
    /\ IF p \in mapPeers
       THEN UNCHANGED <<session, heard, countP2P>>
       ELSE /\ session' = IF session[p] = "none" THEN set({p}, "initiating") ELSE session
            /\ countP2P' = countP2P + (IF p \in heard THEN 0 ELSE 1)
            /\ addPeer2HeardList({p})
    /\ UNCHANGED <<group, died, mapPeers, listVars, p2pAble, countP2PSuccess>>

\* connect2Peer does nothing when there is a session already, which is not
\* tested: the connection is counted.
handleNewGroupPeer(p) ==
    /\ group /\ countP2P < MaxTries
    /\ p2PAddressExchange(p)
    /\ IF p \in mapPeers
       THEN UNCHANGED <<session, heard, countP2P>>
       ELSE /\ session' = IF session[p] = "none" THEN set({p}, "initiating") ELSE session
            /\ countP2P' = countP2P + 1
            /\ addPeer2HeardList({p})
    /\ UNCHANGED <<group, died, mapPeers, listVars, p2pAble, countP2PSuccess>>

\* First handshake of a peer.
onNewPeerId(p) ==
    /\ group
    /\ session[p] = "none"
    /\ session' = set({p}, "answering")
    /\ addPeer2HeardList({p})
    /\ UNCHANGED <<group, died, mapPeers, listVars, ableVars, countVars>>

\* Mutant of onHandshake38: a second handshake is taken for a lost race.
switchAgain(p) ==
    /\ group
    /\ session[p] \in Pending
    /\ session' = set({p}, "answering")
    /\ countP2P' = countP2P - 1
    /\ sought' = sought \ {p}
    /\ UNCHANGED <<group, heard, died, mapPeers, bestList, startedBestList,
                   ableVars, countP2PSuccess>>

\* Both have started one, this peer gives its own up.
onHandshake38(p) ==
    /\ group
    /\ session[p] = "initiating"
    /\ session' = set({p}, "answering")
    /\ countP2P' = countP2P - 1
    /\ sought' = sought \ {p}
    /\ UNCHANGED <<group, heard, died, mapPeers, bestList, startedBestList,
                   ableVars, countP2PSuccess>>

(***************************************************************************)
(* Connections that open, fail and close.                                  *)
(***************************************************************************)

\* P2PSession::onConnection, with addPeer.
onConnection(p) ==
    /\ group
    /\ session[p] \in Pending
    /\ IF p \in heard \ mapPeers
       THEN /\ session' = set({p}, "connected")
            /\ mapPeers' = mapPeers \cup {p}
            /\ p2pAble' = TRUE
            /\ countP2PSuccess' = countP2PSuccess
                                    + (IF session[p] = "initiating" THEN 1 ELSE 0)
       ELSE /\ session' = set({p}, "nearClosed")
            /\ UNCHANGED <<mapPeers, p2pAble, countP2PSuccess>>
    /\ sought' = sought \ {p}
    /\ UNCHANGED <<group, heard, died, bestList, startedBestList, p2pEntities, countP2P>>

\* The handshake is removed after its last attempt.
removeHandshake(p) ==
    /\ group
    /\ session[p] \in Pending
    /\ session' = set({p}, "nearClosed")
    /\ sought' = sought \ {p}
    /\ UNCHANGED <<group, heard, died, mapPeers, bestList, startedBestList,
                   ableVars, countVars>>

\* The server says that the peer it was asked for is gone.
handlePeerDisconnection(p) ==
    /\ group
    /\ session[p] = "initiating"
    /\ session' = set({p}, "failed")
    /\ sought' = sought \ {p}
    /\ IF p \in heard \ died
       THEN /\ died' = died \cup {p} /\ heard' = heard \ {p}
            /\ countP2P' = countP2P - 1
       ELSE UNCHANGED <<died, heard, countP2P>>
    /\ UNCHANGED <<group, mapPeers, bestList, startedBestList, ableVars, countP2PSuccess>>

\* P2PSession::close of a session that was connected, with onPeerClose.
close(p) ==
    /\ group
    /\ \/ session[p] = "connected" /\ session' \in {set({p}, "nearClosed"), set({p}, "failed")}
       \/ session[p] = "nearClosed" /\ session' = set({p}, "failed")
    /\ mapPeers' = mapPeers \ {p}
    /\ UNCHANGED <<group, heard, died, listVars, ableVars, countVars>>

\* RTMFPSession::manage deletes a session some time after its close.
deleteClosed(p) ==
    /\ session[p] \in {"nearClosed", "failed"}
    /\ session' = set({p}, "none")
    /\ UNCHANGED <<group, heard, died, mapPeers, listVars, ableVars, countVars>>

(***************************************************************************)
(* RTMFPSession::removePeer of each of P: a session that is not connected  *)
(* is deleted with its handshake.                                          *)
(***************************************************************************)
removed(P) ==
    [p \in Peers |-> IF p \in P
                     THEN IF session[p] \in Pending \cup {"none"} THEN "none" ELSE "failed"
                     ELSE session[p]]

(***************************************************************************)
(* The best list.  Up to ClosestPeers members are all in it.  Which others *)
(* are, the closest on the ring, the fastest of the connected ones and a   *)
(* few more, is left open.                                                 *)
(***************************************************************************)
buildBestList(members) ==
    IF Cardinality(members) <= ClosestPeers THEN {members}
    ELSE {S \in SUBSET (members \cup mapPeers) : Cardinality(S) >= ClosestPeers}

\* Mutant of dropped: the count of peers to close limits the removals too.
droppedIfTooMany(oldList, list) ==
    IF Cardinality(mapPeers) > Cardinality(list) THEN (oldList \ list) \ mapPeers ELSE {}

\* Members of the list left that are not connected are removed.  Those that
\* are connected are asked to close (0C), which they do if they like.
dropped(oldList, list) == (oldList \ list) \ mapPeers

\* Those of the list to start a session with, up to the size of the list.
toConnect(list, sessions, members) ==
    LET free == {p \in (list \ mapPeers) \cap members : sessions[p] = "none"}
        nbConnect == Cardinality(list) - Cardinality(mapPeers)
    IN {C \in SUBSET free :
            \/ C = free /\ Cardinality(free) <= nbConnect
            \/ Cardinality(C) = nbConnect
            \/ C = {} /\ nbConnect < 0}

updateBestList(members) ==
    \E list \in buildBestList(members) :
        LET sessions == removed(dropped(bestList, list))
        IN \E C \in toConnect(list, sessions, members) :
               /\ countP2P + Cardinality(C) <= MaxTries
               /\ bestList' = list
               /\ session' = [p \in Peers |-> IF p \in C THEN "initiating" ELSE sessions[p]]
               /\ sought' = {p \in sought \cup C : session'[p] \in Pending}
               /\ countP2P' = countP2P + Cardinality(C)

\* The report of a neighbour names members.  The first one that has a new
\* one starts the best list.
onGroupReport(p, named) ==
    /\ group /\ p \in mapPeers \cap heard
    /\ addPeer2HeardList(named)
    /\ IF named \subseteq heard \/ bestList # {} \/ startedBestList
       THEN UNCHANGED <<session, listVars, countP2P>>
       ELSE updateBestList(heard') /\ startedBestList' = TRUE
    /\ UNCHANGED <<group, died, mapPeers, ableVars, countP2PSuccess>>

\* NetGroup::manage, a period elapsed.
manageBestList ==
    /\ group /\ startedBestList
    /\ updateBestList(heard)
    /\ UNCHANGED <<group, heard, died, mapPeers, startedBestList, ableVars, countP2PSuccess>>

\* Mutant of cleanHeardList: the sessions are left open.
cleanHeardListOnly(P) ==
    /\ group
    /\ P # {} /\ P \subseteq heard \cup died
    /\ heard' = heard \ P /\ died' = died \ P
    /\ UNCHANGED <<group, session, mapPeers, listVars, ableVars, countVars>>

\* Members, known or dead, that no report named for 5 minutes.
cleanHeardList(P) ==
    /\ group
    /\ P # {} /\ P \subseteq heard \cup died
    /\ session' = removed(P)
    /\ mapPeers' = mapPeers \ P
    /\ heard' = heard \ P /\ died' = died \ P
    /\ sought' = sought \ P
    /\ UNCHANGED <<group, bestList, startedBestList, ableVars, countVars>>

\* NetGroup::manage of a player gives the group up; the sessions stay but
\* they are of no group any more.  (A pull that lasts too long, which is left
\* to time, gives it up too.)
manageFails ==
    /\ group
    /\ \/ ~p2pAble /\ Cardinality(p2pEntities) >= NETGROUP_MIN_PEERS_TIMEOUT
       \/ countP2P > MinTries /\ (countP2PSuccess * 100) \div countP2P < NETGROUP_RATE_MIN
    /\ group' = FALSE /\ mapPeers' = {}
    /\ UNCHANGED <<session, heard, died, listVars, ableVars, countVars>>

NetGroupNext ==
    \/ \E tag \in Tags : handleP2PAddressExchange(tag)
    \/ \E p \in Peers :
          \/ handleNewGroupPeer(p) \/ onNewPeerId(p) \/ onHandshake38(p)
          \/ onConnection(p) \/ removeHandshake(p) \/ handlePeerDisconnection(p)
          \/ close(p) \/ deleteClosed(p)
          \/ \E named \in SUBSET Peers : onGroupReport(p, named)
    \/ manageBestList
    \/ \E P \in SUBSET Peers : cleanHeardList(P)
    \/ manageFails

NetGroupSpec == NetGroupInit /\ [][NetGroupNext]_netGroupVars

-----------------------------------------------------------------------------

(***************************************************************************)
(* Every variable keeps its type; _countP2P, an unsigned number that some  *)
(* handlers decrement, never goes below zero.                              *)
(***************************************************************************)
NetGroupTypeOK ==
    /\ group \in BOOLEAN
    /\ session \in [Peers -> Statuses]
    /\ heard \subseteq Peers /\ died \subseteq Peers /\ mapPeers \subseteq Peers
    /\ bestList \subseteq Peers /\ startedBestList \in BOOLEAN
    /\ sought \subseteq Peers
    /\ p2pAble \in BOOLEAN /\ p2pEntities \subseteq Peers \cup Tags
    /\ countP2P \in Nat /\ countP2PSuccess \in Nat

(***************************************************************************)
(* The peers of the group are its connected sessions, and each is in the   *)
(* heard list.  sendGroupReport, which looks its peer up there, calls the  *)
(* contrary an implementation error, and so does manageBestConnections of  *)
(* a best list made of them; a session that closes, times out of the heard *)
(* list or is removed must leave both.                                     *)
(***************************************************************************)
PeersAreHeard ==
    group => /\ mapPeers = inStatus({"connected"})
             /\ mapPeers \subseteq heard

(***************************************************************************)
(* The attempts counted are at least those that succeeded and those still  *)
(* running.  _countP2P is an unsigned number that a lost race and a peer   *)
(* gone take one from: below this it would wrap, and the rate, which       *)
(* divides by it, close the group.                                         *)
(***************************************************************************)
AttemptsCounted ==
    countP2PSuccess + Cardinality(inStatus({"initiating"})) <= countP2P

(***************************************************************************)
(* A session the best list started and that is still connecting is of a    *)
(* peer of the best list: when the list changes the others are removed,    *)
(* whatever became of them in between.                                     *)
(***************************************************************************)
NoAttemptLeftBehind ==
    group => sought \subseteq bestList /\ sought \subseteq inStatus(Pending)

(***************************************************************************)
(* A peer that was declared dead is not heard of, whoever names it, until  *)
(* it is cleaned out of the list of the dead.                              *)
(***************************************************************************)
DeadStayOut == heard \cap died = {}
=============================================================================
