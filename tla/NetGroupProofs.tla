--------------------------- MODULE NetGroupProofs ---------------------------
(***************************************************************************)
(* Proofs about a group.  NetGroup, for any number of members: the peers   *)
(* of a group are its connected sessions and are heard of, and _countP2P   *)
(* covers the attempts that succeeded and those that are running.          *)
(* FragmentsExchange, for any number of bits in a byte and any length of   *)
(* the stream: a neighbour finds each bit of a map where it was written.   *)
(***************************************************************************)
EXTENDS NetGroup, FragmentsExchange, FiniteSetTheorems, WellFoundedInduction, TLAPS

initiators == inStatus({"initiating"})

\* The parts of the inductive invariant are the invariants themselves: the
\* count stays above zero because it covers the attempts, and the best list
\* lies in the heard list because the connected peers do.
GroupInv ==
    /\ NetGroupTypeOK
    /\ PeersAreHeard
    /\ AttemptsCounted
    /\ NoAttemptLeftBehind
    /\ DeadStayOut

-----------------------------------------------------------------------------
(* Cardinals *)

LEMMA InitiatorsFinite ==
    IsFiniteSet(initiators) /\ Cardinality(initiators) \in Nat
<1>1. initiators \in SUBSET Peers
    BY DEF initiators, inStatus
<1> QED
    BY <1>1, FS_Subset, FS_CardinalityType, NetGroupAssumption

\* Sessions started add at most their number to the attempts that run.
LEMMA AtMostAdded ==
    ASSUME NEW I, NEW J, NEW C, I \subseteq Peers, C \subseteq Peers, J \subseteq I \cup C
    PROVE  /\ Cardinality(I) \in Nat /\ Cardinality(J) \in Nat /\ Cardinality(C) \in Nat
           /\ Cardinality(J) <= Cardinality(I) + Cardinality(C)
<1>1. IsFiniteSet(I) /\ IsFiniteSet(C)
    BY FS_Subset, NetGroupAssumption
<1>2. IsFiniteSet(I \cup C) /\ IsFiniteSet(I \cap C)
    <2>1. IsFiniteSet(I \cup C)
        BY <1>1, FS_Union
    <2>2. I \cap C \in SUBSET I
        OBVIOUS
    <2> QED
        BY <1>1, <2>1, <2>2, FS_Subset
<1>3. Cardinality(I \cup C) = Cardinality(I) + Cardinality(C) - Cardinality(I \cap C)
    BY <1>1, FS_Union
<1>4. IsFiniteSet(J) /\ Cardinality(J) <= Cardinality(I \cup C)
    BY <1>2, FS_Subset
<1>5. /\ Cardinality(I) \in Nat /\ Cardinality(C) \in Nat /\ Cardinality(J) \in Nat
      /\ Cardinality(I \cap C) \in Nat /\ Cardinality(I \cup C) \in Nat
    BY <1>1, <1>2, <1>4, FS_CardinalityType
<1> QED
    BY <1>3, <1>4, <1>5

\* An attempt that ends is one less.
LEMMA OneLess ==
    ASSUME NEW I, NEW p \in I, NEW J, I \subseteq Peers, J \subseteq I \ {p}
    PROVE  /\ Cardinality(I) \in Nat /\ Cardinality(J) \in Nat
           /\ Cardinality(J) <= Cardinality(I) - 1
<1>1. IsFiniteSet(I)
    BY FS_Subset, NetGroupAssumption
<1>2. IsFiniteSet(I \ {p}) /\ Cardinality(I \ {p}) = Cardinality(I) - 1
    BY <1>1, FS_RemoveElement
<1>3. IsFiniteSet(J) /\ Cardinality(J) <= Cardinality(I \ {p})
    BY <1>2, FS_Subset
<1>4. Cardinality(I) \in Nat /\ Cardinality(J) \in Nat
    BY <1>1, <1>3, FS_CardinalityType
<1> QED
    BY <1>2, <1>3, <1>4

\* The set of one peer counts for one.
LEMMA OnePeer == \A p \in Peers : Cardinality({p}) = 1
    BY FS_Singleton

\* A step that starts no attempt and counts none keeps the attempts counted.
LEMMA NoneStarted ==
    ASSUME NetGroupTypeOK, AttemptsCounted,
           initiators' \subseteq initiators,
           countP2P' = countP2P, countP2PSuccess' = countP2PSuccess
    PROVE  AttemptsCounted'
<1>1. initiators \subseteq Peers /\ initiators' \subseteq initiators \cup {}
    BY DEF initiators, inStatus
<1>2. /\ Cardinality(initiators) \in Nat /\ Cardinality(initiators') \in Nat
      /\ Cardinality(initiators') <= Cardinality(initiators)
    <2>1. Cardinality({}) = 0
        BY FS_EmptySet
    <2> QED
        BY <1>1, <2>1, AtMostAdded
<1>3. countP2PSuccess + Cardinality(initiators) <= countP2P
    BY DEF AttemptsCounted, initiators
<1>4. countP2PSuccess + Cardinality(initiators') <= countP2P
    BY <1>2, <1>3 DEF NetGroupTypeOK
<1> QED
    BY <1>4 DEF AttemptsCounted, initiators

-----------------------------------------------------------------------------
(* One lemma per action *)

LEMMA ExchangeKeeps ==
    ASSUME NEW tag \in Tags, GroupInv, handleP2PAddressExchange(tag)
    PROVE  GroupInv'
<1> USE DEF handleP2PAddressExchange, listVars, countVars
<1>1. NetGroupTypeOK'
    BY DEF GroupInv, NetGroupTypeOK, p2PAddressExchange
<1>2. (PeersAreHeard /\ NoAttemptLeftBehind /\ DeadStayOut)'
    BY DEF GroupInv, PeersAreHeard, NoAttemptLeftBehind, DeadStayOut, inStatus
<1>3. AttemptsCounted'
    BY DEF GroupInv, AttemptsCounted, inStatus
<1> QED
    BY <1>1, <1>2, <1>3 DEF GroupInv

LEMMA NewGroupPeerKeeps ==
    ASSUME NEW p \in Peers, GroupInv, handleNewGroupPeer(p)
    PROVE  GroupInv'
<1> USE DEF handleNewGroupPeer, listVars, addPeer2HeardList, set
<1>1. NetGroupTypeOK'
    BY DEF GroupInv, NetGroupTypeOK, p2PAddressExchange, Statuses
<1>2. PeersAreHeard' /\ DeadStayOut'
    BY DEF GroupInv, PeersAreHeard, DeadStayOut, inStatus, NetGroupTypeOK
<1>3. NoAttemptLeftBehind'
    BY DEF GroupInv, NoAttemptLeftBehind, inStatus, Pending, NetGroupTypeOK
<1>4. AttemptsCounted'
    <2>1. CASE p \in mapPeers
        BY <2>1 DEF GroupInv, AttemptsCounted, inStatus
    <2>2. CASE p \notin mapPeers
        <3>1. initiators \subseteq Peers /\ initiators' \subseteq initiators \cup {p}
            BY <2>2 DEF initiators, inStatus, GroupInv, NetGroupTypeOK
        <3>2. /\ Cardinality(initiators) \in Nat /\ Cardinality(initiators') \in Nat
              /\ Cardinality(initiators') <= Cardinality(initiators) + 1
            BY <3>1, AtMostAdded, OnePeer
        <3>3. countP2PSuccess + Cardinality(initiators) <= countP2P
            BY DEF GroupInv, AttemptsCounted, initiators
        <3>4. countP2PSuccess' + Cardinality(initiators') <= countP2P'
            BY <2>2, <3>2, <3>3 DEF GroupInv, NetGroupTypeOK
        <3> QED
            BY <3>4 DEF AttemptsCounted, initiators
    <2> QED
        BY <2>1, <2>2
<1> QED
    BY <1>1, <1>2, <1>3, <1>4 DEF GroupInv

LEMMA NewPeerIdKeeps ==
    ASSUME NEW p \in Peers, GroupInv, onNewPeerId(p)
    PROVE  GroupInv'
<1> USE DEF onNewPeerId, listVars, ableVars, countVars, addPeer2HeardList, set
<1>1. NetGroupTypeOK'
    BY DEF GroupInv, NetGroupTypeOK, Statuses
<1>2. PeersAreHeard' /\ DeadStayOut'
    BY DEF GroupInv, PeersAreHeard, DeadStayOut, inStatus, NetGroupTypeOK
<1>3. NoAttemptLeftBehind'
    BY DEF GroupInv, NoAttemptLeftBehind, inStatus, Pending, NetGroupTypeOK
<1>4. initiators' \subseteq initiators
    BY DEF initiators, inStatus, GroupInv, NetGroupTypeOK
<1>5. AttemptsCounted'
    BY <1>4, NoneStarted DEF GroupInv
<1> QED
    BY <1>1, <1>2, <1>3, <1>5 DEF GroupInv

LEMMA SwitchKeeps ==
    ASSUME NEW p \in Peers, GroupInv, onHandshake38(p)
    PROVE  GroupInv'
<1> USE DEF onHandshake38, ableVars, set
<1>1. initiators \subseteq Peers /\ p \in initiators /\ initiators' \subseteq initiators \ {p}
    BY DEF initiators, inStatus, GroupInv, NetGroupTypeOK
<1>2. /\ Cardinality(initiators) \in Nat /\ Cardinality(initiators') \in Nat
      /\ Cardinality(initiators') <= Cardinality(initiators) - 1
    BY <1>1, OneLess
<1>3. countP2PSuccess + Cardinality(initiators) <= countP2P
    BY DEF GroupInv, AttemptsCounted, initiators
<1>4. countP2PSuccess' + Cardinality(initiators') <= countP2P' /\ countP2P' \in Nat
    BY <1>2, <1>3 DEF GroupInv, NetGroupTypeOK
<1>5. NetGroupTypeOK'
    BY <1>4 DEF GroupInv, NetGroupTypeOK, Statuses
<1>6. PeersAreHeard' /\ DeadStayOut'
    BY DEF GroupInv, PeersAreHeard, DeadStayOut, inStatus, NetGroupTypeOK
<1>7. NoAttemptLeftBehind'
    BY DEF GroupInv, NoAttemptLeftBehind, inStatus, Pending, NetGroupTypeOK
<1> QED
    BY <1>4, <1>5, <1>6, <1>7 DEF GroupInv, AttemptsCounted, initiators

LEMMA ConnectionKeeps ==
    ASSUME NEW p \in Peers, GroupInv, onConnection(p)
    PROVE  GroupInv'
<1> USE DEF onConnection, set, Pending
<1>1. NetGroupTypeOK'
    <2>1. session' \in [Peers -> Statuses]
        BY DEF GroupInv, NetGroupTypeOK, Statuses
    <2>2. countP2PSuccess' \in Nat
        BY DEF GroupInv, NetGroupTypeOK
    <2>3. mapPeers' \subseteq Peers /\ sought' \subseteq Peers /\ p2pAble' \in BOOLEAN
        BY DEF GroupInv, NetGroupTypeOK
    <2> QED
        BY <2>1, <2>2, <2>3 DEF GroupInv, NetGroupTypeOK
<1>2. PeersAreHeard' /\ DeadStayOut'
    BY DEF GroupInv, PeersAreHeard, DeadStayOut, inStatus, NetGroupTypeOK
<1>3. NoAttemptLeftBehind'
    BY DEF GroupInv, NoAttemptLeftBehind, inStatus, NetGroupTypeOK
<1>4. AttemptsCounted'
    <2>1. CASE session[p] = "initiating"
        <3>1. /\ initiators \subseteq Peers /\ p \in initiators
              /\ initiators' \subseteq initiators \ {p}
            BY <2>1 DEF initiators, inStatus, GroupInv, NetGroupTypeOK
        <3>2. /\ Cardinality(initiators) \in Nat /\ Cardinality(initiators') \in Nat
              /\ Cardinality(initiators') <= Cardinality(initiators) - 1
            BY <3>1, OneLess
        <3>3. countP2PSuccess + Cardinality(initiators) <= countP2P
            BY DEF GroupInv, AttemptsCounted, initiators
        <3>5. countP2PSuccess' <= countP2PSuccess + 1 /\ countP2PSuccess' \in Nat
            BY <1>1, <2>1 DEF GroupInv, NetGroupTypeOK
        <3>4. countP2PSuccess' + Cardinality(initiators') <= countP2P'
            BY <3>2, <3>3, <3>5 DEF GroupInv, NetGroupTypeOK
        <3> QED
            BY <3>4 DEF AttemptsCounted, initiators
    <2>2. CASE session[p] # "initiating"
        <3>1. countP2PSuccess' = countP2PSuccess
            BY <2>2 DEF GroupInv, NetGroupTypeOK
        <3>2. initiators' \subseteq initiators
            BY <2>2 DEF initiators, inStatus, GroupInv, NetGroupTypeOK
        <3> QED
            BY <3>1, <3>2, NoneStarted DEF GroupInv
    <2> QED
        BY <2>1, <2>2
<1> QED
    BY <1>1, <1>2, <1>3, <1>4 DEF GroupInv

LEMMA HandshakeRemovedKeeps ==
    ASSUME NEW p \in Peers, GroupInv, removeHandshake(p)
    PROVE  GroupInv'
<1> USE DEF removeHandshake, ableVars, countVars, set, Pending
<1>1. NetGroupTypeOK'
    BY DEF GroupInv, NetGroupTypeOK, Statuses
<1>2. PeersAreHeard' /\ DeadStayOut'
    BY DEF GroupInv, PeersAreHeard, DeadStayOut, inStatus, NetGroupTypeOK
<1>3. NoAttemptLeftBehind'
    BY DEF GroupInv, NoAttemptLeftBehind, inStatus, NetGroupTypeOK
<1>4. initiators' \subseteq initiators
    BY DEF initiators, inStatus, GroupInv, NetGroupTypeOK
<1>5. AttemptsCounted'
    BY <1>4, NoneStarted DEF GroupInv
<1> QED
    BY <1>1, <1>2, <1>3, <1>5 DEF GroupInv

LEMMA DisconnectionKeeps ==
    ASSUME NEW p \in Peers, GroupInv, handlePeerDisconnection(p)
    PROVE  GroupInv'
<1> USE DEF handlePeerDisconnection, ableVars, set
<1>1. initiators \subseteq Peers /\ p \in initiators /\ initiators' \subseteq initiators \ {p}
    BY DEF initiators, inStatus, GroupInv, NetGroupTypeOK
<1>2. /\ Cardinality(initiators) \in Nat /\ Cardinality(initiators') \in Nat
      /\ Cardinality(initiators') <= Cardinality(initiators) - 1
    BY <1>1, OneLess
<1>3. countP2PSuccess + Cardinality(initiators) <= countP2P
    BY DEF GroupInv, AttemptsCounted, initiators
<1>4. countP2PSuccess' + Cardinality(initiators') <= countP2P' /\ countP2P' \in Nat
    BY <1>2, <1>3 DEF GroupInv, NetGroupTypeOK
<1>5. NetGroupTypeOK'
    BY <1>4 DEF GroupInv, NetGroupTypeOK, Statuses
<1>6. PeersAreHeard' /\ DeadStayOut'
    BY DEF GroupInv, PeersAreHeard, DeadStayOut, inStatus, NetGroupTypeOK
<1>7. NoAttemptLeftBehind'
    BY DEF GroupInv, NoAttemptLeftBehind, inStatus, Pending, NetGroupTypeOK
<1> QED
    BY <1>4, <1>5, <1>6, <1>7 DEF GroupInv, AttemptsCounted, initiators

LEMMA CloseKeeps ==
    ASSUME NEW p \in Peers, GroupInv, close(p) \/ deleteClosed(p)
    PROVE  GroupInv'
<1> USE DEF close, deleteClosed, listVars, ableVars, countVars, set
<1>1. NetGroupTypeOK'
    BY DEF GroupInv, NetGroupTypeOK, Statuses
<1>2. PeersAreHeard' /\ DeadStayOut'
    BY DEF GroupInv, PeersAreHeard, DeadStayOut, inStatus, NetGroupTypeOK
<1>3. NoAttemptLeftBehind'
    BY DEF GroupInv, NoAttemptLeftBehind, inStatus, Pending, NetGroupTypeOK
<1>4. initiators' \subseteq initiators
    BY DEF initiators, inStatus, GroupInv, NetGroupTypeOK
<1>5. AttemptsCounted'
    BY <1>4, NoneStarted DEF GroupInv
<1> QED
    BY <1>1, <1>2, <1>3, <1>5 DEF GroupInv

\* The best list starts the sessions it counts, and drops those it started
\* for peers that left it and are not connected.
LEMMA BestListKeeps ==
    ASSUME GroupInv, group, NEW members \in SUBSET Peers, updateBestList(members),
           UNCHANGED <<mapPeers, countP2PSuccess>>
    PROVE  /\ session' \in [Peers -> Statuses]
           /\ bestList' \subseteq Peers /\ sought' \subseteq Peers /\ countP2P' \in Nat
           /\ inStatus({"connected"})' = mapPeers
           /\ sought' \subseteq bestList' /\ sought' \subseteq inStatus(Pending)'
           /\ AttemptsCounted'
<1> USE DEF GroupInv, NetGroupTypeOK, Pending
<1>1. PICK list \in buildBestList(members) :
          \E C \in toConnect(list, removed(dropped(bestList, list)), members) :
               /\ countP2P + Cardinality(C) <= MaxTries
               /\ bestList' = list
               /\ session' = [p \in Peers |-> IF p \in C THEN "initiating"
                                               ELSE removed(dropped(bestList, list))[p]]
               /\ sought' = {p \in sought \cup C : session'[p] \in Pending}
               /\ countP2P' = countP2P + Cardinality(C)
    BY DEF updateBestList
<1> DEFINE sessions == removed(dropped(bestList, list))
<1>2. PICK C \in toConnect(list, sessions, members) :
               /\ bestList' = list
               /\ session' = [p \in Peers |-> IF p \in C THEN "initiating" ELSE sessions[p]]
               /\ sought' = {p \in sought \cup C : session'[p] \in Pending}
               /\ countP2P' = countP2P + Cardinality(C)
    BY <1>1
<1>3. list \subseteq Peers
    BY DEF buildBestList
<1>4. C \subseteq Peers /\ C \subseteq list /\ \A p \in C : sessions[p] = "none"
    BY <1>2 DEF toConnect
<1>5. \A p \in Peers :
          sessions[p] = IF p \in dropped(bestList, list)
                        THEN IF session[p] \in Pending \cup {"none"} THEN "none" ELSE "failed"
                        ELSE session[p]
    BY DEF removed
<1>6. mapPeers = inStatus({"connected"})
    BY DEF PeersAreHeard
<1> HIDE DEF sessions
<1>7. session' \in [Peers -> Statuses]
    BY <1>2, <1>5 DEF Statuses
<1>8. inStatus({"connected"})' = mapPeers
    BY <1>2, <1>4, <1>5, <1>6 DEF inStatus, dropped
<1>9. sought' \subseteq bestList'
    <2>1. ASSUME NEW p \in sought, session'[p] \in Pending
          PROVE  p \in list
        <3>1. p \in bestList /\ session[p] \in Pending /\ p \in Peers /\ p \notin mapPeers
            BY <1>6 DEF NoAttemptLeftBehind, inStatus
        <3>2. p \notin list => p \in dropped(bestList, list)
            BY <3>1 DEF dropped
        <3>3. p \notin list => sessions[p] = "none" /\ p \notin C
            BY <1>4, <1>5, <3>1, <3>2
        <3> QED
            BY <1>2, <2>1, <3>1, <3>3
    <2> QED
        BY <1>2, <1>4, <2>1
<1>10. sought' \subseteq Peers /\ sought' \subseteq inStatus(Pending)'
    BY <1>2, <1>4 DEF inStatus
<1>11. initiators \subseteq Peers /\ initiators' \subseteq initiators \cup C
    BY <1>2, <1>5 DEF initiators, inStatus
<1>12. /\ Cardinality(initiators) \in Nat /\ Cardinality(initiators') \in Nat
       /\ Cardinality(C) \in Nat
       /\ Cardinality(initiators') <= Cardinality(initiators) + Cardinality(C)
    BY <1>4, <1>11, AtMostAdded
<1>13. countP2PSuccess + Cardinality(initiators) <= countP2P
    BY DEF AttemptsCounted, initiators
<1>14. countP2PSuccess' + Cardinality(initiators') <= countP2P' /\ countP2P' \in Nat
    BY <1>2, <1>12, <1>13
<1> QED
    BY <1>2, <1>3, <1>7, <1>8, <1>9, <1>10, <1>14 DEF AttemptsCounted, initiators

LEMMA GroupReportKeeps ==
    ASSUME NEW p \in Peers, NEW named \in SUBSET Peers, GroupInv, onGroupReport(p, named)
    PROVE  GroupInv'
<1> USE DEF onGroupReport, ableVars, addPeer2HeardList
<1>1. heard' \in SUBSET Peers /\ heard \subseteq heard' /\ DeadStayOut'
    BY DEF GroupInv, NetGroupTypeOK, DeadStayOut
<1>2. CASE UNCHANGED <<session, listVars, countP2P>>
    <2>1. NetGroupTypeOK' /\ PeersAreHeard' /\ NoAttemptLeftBehind'
        BY <1>1, <1>2 DEF GroupInv, NetGroupTypeOK, PeersAreHeard, NoAttemptLeftBehind,
                          listVars, inStatus
    <2>2. AttemptsCounted'
        BY <1>2 DEF GroupInv, AttemptsCounted, inStatus
    <2> QED
        BY <1>1, <2>1, <2>2 DEF GroupInv
<1>3. CASE updateBestList(heard') /\ startedBestList' = TRUE
    <2>1. /\ session' \in [Peers -> Statuses]
          /\ bestList' \subseteq Peers /\ sought' \subseteq Peers /\ countP2P' \in Nat
          /\ inStatus({"connected"})' = mapPeers
          /\ sought' \subseteq bestList' /\ sought' \subseteq inStatus(Pending)'
          /\ AttemptsCounted'
        BY <1>1, <1>3, BestListKeeps
    <2>2. NetGroupTypeOK'
        BY <1>1, <1>3, <2>1 DEF GroupInv, NetGroupTypeOK
    <2>3. PeersAreHeard' /\ NoAttemptLeftBehind'
        BY <1>1, <2>1 DEF GroupInv, PeersAreHeard, NoAttemptLeftBehind
    <2> QED
        BY <1>1, <2>1, <2>2, <2>3 DEF GroupInv
<1> QED
    BY <1>2, <1>3

LEMMA ManageBestListKeeps ==
    ASSUME GroupInv, manageBestList
    PROVE  GroupInv'
<1> USE DEF manageBestList, ableVars
<1>1. /\ session' \in [Peers -> Statuses]
      /\ bestList' \subseteq Peers /\ sought' \subseteq Peers /\ countP2P' \in Nat
      /\ inStatus({"connected"})' = mapPeers
      /\ sought' \subseteq bestList' /\ sought' \subseteq inStatus(Pending)'
      /\ AttemptsCounted'
    <2>1. heard \in SUBSET Peers
        BY DEF GroupInv, NetGroupTypeOK
    <2> QED
        BY <2>1, BestListKeeps
<1>2. NetGroupTypeOK'
    BY <1>1 DEF GroupInv, NetGroupTypeOK
<1>3. PeersAreHeard' /\ NoAttemptLeftBehind' /\ DeadStayOut'
    BY <1>1 DEF GroupInv, PeersAreHeard, NoAttemptLeftBehind, DeadStayOut
<1> QED
    BY <1>1, <1>2, <1>3 DEF GroupInv

LEMMA CleanKeeps ==
    ASSUME NEW P \in SUBSET Peers, GroupInv, cleanHeardList(P)
    PROVE  GroupInv'
<1> USE DEF cleanHeardList, ableVars, countVars, removed, Pending
<1>1. NetGroupTypeOK'
    BY DEF GroupInv, NetGroupTypeOK, Statuses
<1>2. PeersAreHeard' /\ DeadStayOut'
    BY DEF GroupInv, PeersAreHeard, DeadStayOut, inStatus, NetGroupTypeOK
<1>3. NoAttemptLeftBehind'
    BY DEF GroupInv, NoAttemptLeftBehind, inStatus, NetGroupTypeOK
<1>4. initiators' \subseteq initiators
    BY DEF initiators, inStatus, GroupInv, NetGroupTypeOK
<1>5. AttemptsCounted'
    BY <1>4, NoneStarted DEF GroupInv
<1> QED
    BY <1>1, <1>2, <1>3, <1>5 DEF GroupInv

LEMMA ManageFailsKeeps ==
    ASSUME GroupInv, manageFails
    PROVE  GroupInv'
<1> USE DEF manageFails, listVars, ableVars, countVars
<1>1. NetGroupTypeOK' /\ DeadStayOut'
    BY DEF GroupInv, NetGroupTypeOK, DeadStayOut
<1>2. PeersAreHeard' /\ NoAttemptLeftBehind'
    BY DEF PeersAreHeard, NoAttemptLeftBehind
<1>3. AttemptsCounted'
    BY DEF GroupInv, AttemptsCounted, inStatus
<1> QED
    BY <1>1, <1>2, <1>3 DEF GroupInv

-----------------------------------------------------------------------------

\* The group starts with no peer, no attempt and no count.
LEMMA GroupInvInit == NetGroupInit => GroupInv
<1> SUFFICES ASSUME NetGroupInit
             PROVE  GroupInv
    OBVIOUS
<1> USE DEF NetGroupInit
<1>1. NetGroupTypeOK
    BY DEF NetGroupTypeOK, Statuses
<1>2. PeersAreHeard /\ NoAttemptLeftBehind /\ DeadStayOut
    BY DEF PeersAreHeard, NoAttemptLeftBehind, DeadStayOut, inStatus
<1>3. inStatus({"initiating"}) = {}
    BY DEF inStatus
<1>4. AttemptsCounted
    BY <1>3, FS_EmptySet DEF AttemptsCounted
<1> QED
    BY <1>1, <1>2, <1>4 DEF GroupInv

\* Every step keeps the invariant.
LEMMA GroupInvStep == GroupInv /\ [NetGroupNext]_netGroupVars => GroupInv'
<1> SUFFICES ASSUME GroupInv, [NetGroupNext]_netGroupVars
             PROVE  GroupInv'
    OBVIOUS
<1>1. CASE UNCHANGED netGroupVars
    <2>1. (NetGroupTypeOK /\ PeersAreHeard /\ NoAttemptLeftBehind /\ DeadStayOut)'
        BY <1>1 DEF GroupInv, NetGroupTypeOK, PeersAreHeard, NoAttemptLeftBehind, DeadStayOut,
                    inStatus, netGroupVars, listVars, ableVars, countVars
    <2>2. AttemptsCounted'
        BY <1>1 DEF GroupInv, AttemptsCounted, inStatus, netGroupVars, countVars
    <2> QED
        BY <2>1, <2>2 DEF GroupInv
<1>2. ASSUME NEW tag \in Tags, handleP2PAddressExchange(tag)
      PROVE  GroupInv'
    BY <1>2, ExchangeKeeps
<1>3. ASSUME NEW p \in Peers,
             \/ handleNewGroupPeer(p) \/ onNewPeerId(p) \/ onHandshake38(p)
             \/ onConnection(p) \/ removeHandshake(p) \/ handlePeerDisconnection(p)
             \/ close(p) \/ deleteClosed(p)
             \/ \E named \in SUBSET Peers : onGroupReport(p, named)
      PROVE  GroupInv'
    BY <1>3, NewGroupPeerKeeps, NewPeerIdKeeps, SwitchKeeps, ConnectionKeeps,
       HandshakeRemovedKeeps, DisconnectionKeeps, CloseKeeps, GroupReportKeeps
<1>4. CASE manageBestList
    BY <1>4, ManageBestListKeeps
<1>5. ASSUME NEW P \in SUBSET Peers, cleanHeardList(P)
      PROVE  GroupInv'
    BY <1>5, CleanKeeps
<1>6. CASE manageFails
    BY <1>6, ManageFailsKeeps
<1> QED
    BY <1>1, <1>2, <1>3, <1>4, <1>5, <1>6 DEF NetGroupNext

LEMMA GroupInvAlways == NetGroupSpec => []GroupInv
    BY GroupInvInit, GroupInvStep, PTL DEF NetGroupSpec

(***************************************************************************)
(* Every variable keeps its type: _countP2P does not wrap.                 *)
(***************************************************************************)
THEOREM NetGroupTypeCorrect == NetGroupSpec => []NetGroupTypeOK
<1>1. GroupInv => NetGroupTypeOK
    BY DEF GroupInv
<1> QED
    BY <1>1, GroupInvAlways, PTL

(***************************************************************************)
(* The peers of a group are its connected sessions, all of them heard of.  *)
(***************************************************************************)
THEOREM ConnectedPeersAreHeard == NetGroupSpec => []PeersAreHeard
<1>1. GroupInv => PeersAreHeard
    BY DEF GroupInv
<1> QED
    BY <1>1, GroupInvAlways, PTL

(***************************************************************************)
(* The count of attempts covers those that succeeded and those that run.   *)
(***************************************************************************)
THEOREM CountCoversAttempts == NetGroupSpec => []AttemptsCounted
<1>1. GroupInv => AttemptsCounted
    BY DEF GroupInv
<1> QED
    BY <1>1, GroupInvAlways, PTL

(***************************************************************************)
(* No session the best list started outlives the peer's place in the list. *)
(***************************************************************************)
THEOREM BestListKeepsItsAttempts == NetGroupSpec => []NoAttemptLeftBehind
<1>1. GroupInv => NoAttemptLeftBehind
    BY DEF GroupInv
<1> QED
    BY <1>1, GroupInvAlways, PTL

(***************************************************************************)
(* A dead peer is not heard of.                                            *)
(***************************************************************************)
THEOREM DeadAreNotHeard == NetGroupSpec => []DeadStayOut
<1>1. GroupInv => DeadStayOut
    BY DEF GroupInv
<1> QED
    BY <1>1, GroupInvAlways, PTL

-----------------------------------------------------------------------------
(* FragmentsExchange *)

\* A publisher holds all the fragments between two that it holds, which is why
\* it may fill its bytes without looking.
NoHoles(S) == \A a, b \in S : \A f \in Fragments : a <= f /\ f <= b => f \in S

ExchangeInv ==
    /\ isPublisher \in BOOLEAN
    /\ fragments \subseteq Fragments
    /\ endFragment \in Fragments \cup {0}
    /\ isPublisher => NoHoles(fragments)
    /\ BeliefExact

-----------------------------------------------------------------------------
(* The bounds of the window *)

\* A non-empty set of fragments has a first one.
LEMMA HasSmallest ==
    ASSUME NEW S, S \subseteq Nat, S # {}
    PROVE  smallest(S) \in S /\ \A y \in S : smallest(S) <= y
<1> DEFINE R == OpToRel(<, Nat)
<1>1. IsWellFoundedOn(R, Nat)
    BY NatLessThanWellFounded
<1> HIDE DEF R
<1>2. PICK x \in S : \A y \in S : ~(<<y, x>> \in R)
    BY <1>1, WFMin
<1>3. ASSUME NEW y \in S
      PROVE  x <= y
    <2>1. y < x => <<y, x>> \in R
        BY DEF R, OpToRel
    <2> QED
        BY <2>1, <1>2
<1> QED
    BY <1>3 DEF smallest

\* It has a last one too, since the stream is bounded.
LEMMA HasLargest ==
    ASSUME NEW S, S \subseteq Fragments, S # {}
    PROVE  largest(S) \in S /\ \A y \in S : largest(S) >= y
<1> DEFINE T == {MaxFragments - x : x \in S}
<1>1. T \subseteq Nat
    BY ExchangeAssumption DEF Fragments
<1>2. T # {}
    OBVIOUS
<1>3. smallest(T) \in T /\ \A t \in T : smallest(T) <= t
    <2> HIDE DEF T
    <2> QED
        BY <1>1, <1>2, HasSmallest
<1>4. PICK x \in S : smallest(T) = MaxFragments - x
    BY <1>3
<1>5. \A y \in S : MaxFragments - x <= MaxFragments - y
    BY <1>3, <1>4
<1>6. \A y \in S : x >= y
    BY <1>5, ExchangeAssumption DEF Fragments
<1> QED
    BY <1>6 DEF largest

-----------------------------------------------------------------------------
(* The place of a bit *)

\* Quotient and remainder by the width of a byte.
LEMMA Divides ==
    ASSUME NEW n \in Nat
    PROVE  /\ n \div ByteBits \in Nat /\ n % ByteBits \in Bits
           /\ n = ByteBits * (n \div ByteBits) + (n % ByteBits)
BY ByteBitsAssumption, SMT DEF Bits

\* The first bit of a byte.
LEMMA FirstBit ==
    ASSUME NEW k \in Nat
    PROVE  ByteBits * k \in Nat
BY ByteBitsAssumption, SMT

\* The bytes of a map have room for its fragments, the last one included.
LEMMA RoomForAll ==
    ASSUME NEW n \in Nat, NEW m \in Nat, m < n
    PROVE  m \div ByteBits < nbBytes(n)
<1>1. /\ n \div ByteBits \in Nat /\ n % ByteBits \in Bits
      /\ n = ByteBits * (n \div ByteBits) + (n % ByteBits)
    BY Divides
<1>2. /\ m \div ByteBits \in Nat /\ m % ByteBits \in Bits
      /\ m = ByteBits * (m \div ByteBits) + (m % ByteBits)
    BY Divides
<1> DEFINE q == n \div ByteBits
           r == n % ByteBits
           k == m \div ByteBits
           b == m % ByteBits
<1>3. nbBytes(n) = q + (IF r > 0 THEN 1 ELSE 0)
    BY DEF nbBytes
<1> HIDE DEF q, r, k, b
<1>4. q \in Nat /\ r \in Bits /\ k \in Nat /\ b \in Bits /\ ByteBits * k + b < ByteBits * q + r
    BY <1>1, <1>2 DEF q, r, k, b
<1>5. k <= q
    BY <1>4, ByteBitsAssumption, SMT DEF Bits
<1>6. k = q => r > 0
    BY <1>4, ByteBitsAssumption DEF Bits
<1> QED
    BY <1>3, <1>4, <1>5, <1>6, ByteBitsAssumption DEF k, Bits

\* No byte of a map begins beyond its fragments.
LEMMA NoByteTooMany ==
    ASSUME NEW n \in Nat, NEW k \in Nat, k < nbBytes(n)
    PROVE  ByteBits * k < n
<1>1. /\ n \div ByteBits \in Nat /\ n % ByteBits \in Bits
      /\ n = ByteBits * (n \div ByteBits) + (n % ByteBits)
    BY Divides
<1> DEFINE q == n \div ByteBits
           r == n % ByteBits
<1>2. k < q + (IF r > 0 THEN 1 ELSE 0)
    BY DEF nbBytes
<1>3. q \in Nat /\ r \in Bits /\ n = ByteBits * q + r
    BY <1>1
<1> HIDE DEF q, r
<1>4. CASE r > 0
    <2>1. ByteBits * k <= ByteBits * q
        BY <1>2, <1>3, <1>4, ByteBitsAssumption, SMT DEF Bits
    <2> QED
        BY <2>1, <1>3, <1>4, ByteBitsAssumption DEF Bits
<1>5. CASE r = 0
    BY <1>2, <1>3, <1>5, ByteBitsAssumption, SMT
<1> QED
    BY <1>3, <1>4, <1>5, ByteBitsAssumption DEF Bits

-----------------------------------------------------------------------------
(* Writing and reading a map *)

\* The bounds of what is held.
LEMMA Window ==
    ASSUME fragments \subseteq Fragments, fragments # {}
    PROVE  /\ smallest(fragments) \in fragments /\ smallest(fragments) \in Nat
           /\ largest(fragments) \in fragments /\ largest(fragments) \in Nat
           /\ \A f \in fragments : f \in Nat /\ smallest(fragments) <= f /\ f <= largest(fragments)
<1>1. fragments \subseteq Nat
    BY ExchangeAssumption DEF Fragments
<1> QED
    BY <1>1, HasSmallest, HasLargest

\* A bit of the map that was written says whether its fragment is held.
LEMMA BitOfFragment ==
    ASSUME fragments \subseteq Fragments, fragments # {}, isPublisher \in BOOLEAN,
           isPublisher => NoHoles(fragments),
           NEW f \in Fragments, NEW previous,
           f < largest(fragments),
           NEW k, k = (largest(fragments) - f - 1) \div ByteBits,
           NEW b, b = (largest(fragments) - f - 1) % ByteBits,
           k < nbBytes(largest(fragments) - smallest(fragments)),
           isPublisher \/ largest(fragments) - 1 - ByteBits * k >= ByteBits
    PROVE  b \in (IF isPublisher
                  THEN publisherByte(smallest(fragments), largest(fragments), k)
                  ELSE relayByte(fragments, smallest(fragments), largest(fragments), k, previous))
           <=> f \in fragments
<1> DEFINE first == smallest(fragments)
           last == largest(fragments)
<1>1. /\ first \in fragments /\ first \in Nat /\ last \in fragments /\ last \in Nat
      /\ \A g \in fragments : g \in Nat /\ first <= g /\ g <= last
    BY Window
<1>2. f \in Nat
    BY ExchangeAssumption DEF Fragments
<1>3. k \in Nat /\ b \in Bits /\ last - f - 1 = ByteBits * k + b
    BY <1>1, <1>2, Divides
<1>4. k < nbBytes(last - first)
    OBVIOUS
<1>5. f < last /\ (isPublisher \/ last - 1 - ByteBits * k >= ByteBits)
    OBVIOUS
<1>6. last - first \in Nat
    BY <1>1
<1>7. ByteBits * k \in Nat /\ ByteBits * k < last - first
    <2>1. ByteBits * k \in Nat
        BY <1>3, FirstBit
    <2> QED
        BY <2>1, <1>3, <1>4, <1>6, NoByteTooMany
<1>8. CASE isPublisher
    <2>1. b \in publisherByte(first, last, k) <=> last - f - 1 < last - first
        BY <1>3 DEF publisherByte
    <2>2. last - f - 1 < last - first <=> first <= f
        BY <1>1, <1>2
    <2>3. first <= f => f \in fragments
        BY <1>1, <1>5, <1>8, <1>2 DEF NoHoles
    <2> QED
        BY <2>1, <2>2, <2>3, <1>1, <1>8
<1>9. CASE ~isPublisher
    <2> DEFINE p == ByteBits * k
    <2>1. p \in Nat /\ p < last - first /\ last - f - 1 = p + b /\ b \in Int
        BY <1>3, <1>7, ByteBitsAssumption DEF Bits
    <2>2. last - 1 - p >= first /\ fragmentOf(last, k, b) = f
        <3>1. fragmentOf(last, k, b) = last - 1 - p - b
            BY DEF fragmentOf
        <3> HIDE DEF p, first, last
        <3> QED
            BY <3>1, <2>1, <1>1, <1>2
    <2>3. b \in relayByte(fragments, first, last, k, previous) <=> f >= first /\ f \in fragments
        BY <2>2, <1>3, <1>5, <1>9 DEF relayByte
    <2> QED
        BY <2>3, <1>1, <1>9
<1> QED
    BY <1>8, <1>9

\* A map that takes the place of the last one, sent while the stream is open.
LEMMA MapIsExact ==
    ASSUME ExchangeInv, fragments # {}, endFragment = 0, NEW previous,
           map' = updateFragmentMap(fragments, smallest(fragments), largest(fragments),
                                    endFragment, isPublisher, previous),
           announced' = [fragments |-> fragments, closed |-> FALSE, withBytes |-> TRUE],
           isPublisher' = isPublisher
    PROVE  BeliefExact'
<1> DEFINE first == smallest(fragments)
           last == largest(fragments)
<1>1. /\ first \in fragments /\ first \in Nat /\ last \in fragments /\ last \in Nat
      /\ \A g \in fragments : g \in Nat /\ first <= g /\ g <= last
    BY Window DEF ExchangeInv
<1>2. /\ map'.id = last /\ map'.size = nbBytes(last - first)
      /\ \A k \in 0 .. nbBytes(last - first) - 1 :
            map'.bytes[k] = (IF isPublisher THEN publisherByte(first, last, k)
                             ELSE relayByte(fragments, first, last, k, previous[k]))
    BY DEF updateFragmentMap
<1>3. /\ announced'.fragments = fragments
      /\ ~announced'.closed /\ announced'.withBytes
    OBVIOUS
<1>4. last - first \in Nat
    BY <1>1
<1>5. nbBytes(last - first) \in Nat
    BY <1>4, Divides DEF nbBytes
<1> HIDE DEF first, last
<1>6. \A f : offsetOf(map, f)' = (last - f - 1) \div ByteBits
             /\ restOf(map, f)' = (last - f - 1) % ByteBits
    BY <1>2 DEF offsetOf, restOf
<1>7. ASSUME NEW f \in fragments, f < last
      PROVE  offsetOf(map, f)' < map'.size
    <2>1. last - f - 1 \in Nat /\ last - f - 1 < last - first
        BY <1>1, <1>7
    <2> QED
        BY <2>1, <1>2, <1>4, <1>6, RoomForAll
<1>8. ASSUME NEW f \in Fragments, written(f)'
      PROVE  hasFragment(map, f, {})' <=> f \in fragments
    <2> DEFINE k == (last - f - 1) \div ByteBits
               b == (last - f - 1) % ByteBits
    <2>1. f \in Nat /\ f < last
        BY <1>2, <1>8, ExchangeAssumption DEF written, Fragments
    <2>2. k < nbBytes(last - first) /\ (isPublisher \/ last - 1 - ByteBits * k >= ByteBits)
        BY <1>2, <1>6, <1>8 DEF written
    <2>3. k \in Nat
        BY <2>1, <1>1, Divides
    <2>4. k \in 0 .. nbBytes(last - first) - 1
        BY <2>2, <2>3, <1>5
    <2>5. offsetOf(map, f)' = k /\ restOf(map, f)' = b
        BY <1>6
    <2> HIDE DEF k, b
    <2>6. hasFragment(map, f, {})' <=> b \in map'.bytes[k]
        BY <2>1, <2>2, <2>3, <2>5, <1>1, <1>2, <1>5 DEF hasFragment
    <2>7. b \in map'.bytes[k] <=> f \in fragments
        BY <2>1, <2>2, <2>4, <1>2, BitOfFragment DEF k, b, first, last, ExchangeInv
    <2> QED
        BY <2>6, <2>7
<1> QED
    BY <1>1, <1>2, <1>3, <1>7, <1>8 DEF BeliefExact

-----------------------------------------------------------------------------
(* The steps *)

\* Nothing is announced at first.
LEMMA InitExact == ExchangeInit => ExchangeInv
<1> SUFFICES ASSUME ExchangeInit PROVE ExchangeInv
    OBVIOUS
<1>1. announced.closed /\ ~announced.withBytes
    BY DEF ExchangeInit, Nothing
<1>2. BeliefExact
    BY <1>1 DEF BeliefExact, written
<1> QED
    BY <1>2 DEF ExchangeInit, ExchangeInv, NoHoles

\* BeliefExact is about the neighbour: what happens here does not disturb it.
LEMMA BeliefKept ==
    ASSUME BeliefExact, UNCHANGED <<isPublisher, map, announced>>
    PROVE  BeliefExact'
BY DEF BeliefExact, written, hasFragment, offsetOf, restOf

\* Fragments that come and go leave a publisher without holes.
LEMMA WindowStep ==
    ASSUME ExchangeInv, NEW f \in Fragments,
           addFragment(f) \/ eraseOldFragments(f) \/ closeMedia(f)
    PROVE  ExchangeInv'
<1>1. isPublisher' = isPublisher /\ isPublisher \in BOOLEAN /\ BeliefExact'
    BY BeliefKept DEF ExchangeInv, addFragment, eraseOldFragments, closeMedia
<1>2. CASE addFragment(f)
    <2>1. fragments' = fragments \cup {f} /\ fragments' \subseteq Fragments
          /\ endFragment' = endFragment /\ endFragment \in Fragments \cup {0}
        BY <1>2 DEF addFragment, ExchangeInv
    <2>2. ASSUME isPublisher
          PROVE  NoHoles(fragments')
        <3>1. NoHoles(fragments) /\ fragments \subseteq Fragments
            BY <2>2 DEF ExchangeInv
        <3>2. CASE fragments = {}
            BY <3>2, <2>1, ExchangeAssumption DEF NoHoles, Fragments
        <3>3. CASE fragments # {}
            <4>1. largest(fragments) \in fragments /\ \A y \in fragments : largest(fragments) >= y
                BY <3>1, <3>3, HasLargest
            <4>2. f = 1 + largest(fragments)
                BY <1>2, <2>2, <3>3 DEF addFragment
            <4>3. ASSUME NEW a \in fragments', NEW b \in fragments', NEW g \in Fragments, a <= g, g <= b
                  PROVE  g \in fragments'
                <5>1. CASE a = f
                    BY <5>1, <4>1, <4>2, <4>3, <3>1, <2>1, ExchangeAssumption DEF Fragments
                <5>2. CASE a \in fragments
                    BY <5>2, <4>1, <4>2, <4>3, <3>1, <2>1, ExchangeAssumption DEF Fragments, NoHoles
                <5> QED
                    BY <5>1, <5>2, <2>1
            <4> QED
                BY <4>3 DEF NoHoles
        <3> QED
            BY <3>2, <3>3
    <2> QED
        BY <1>1, <2>1, <2>2 DEF ExchangeInv
<1>3. CASE eraseOldFragments(f)
    <2>1. fragments' = {g \in fragments : g >= f} /\ endFragment' = endFragment
        BY <1>3 DEF eraseOldFragments
    <2>2. fragments \subseteq Fragments /\ endFragment \in Fragments \cup {0}
          /\ (isPublisher => NoHoles(fragments))
        BY DEF ExchangeInv
    <2>3. NoHoles(fragments) => NoHoles(fragments')
        BY <2>1, <2>2, ExchangeAssumption DEF NoHoles, Fragments
    <2> QED
        BY <1>1, <2>1, <2>2, <2>3 DEF ExchangeInv
<1>4. CASE closeMedia(f)
    BY <1>1, <1>4 DEF closeMedia, ExchangeInv
<1> QED
    BY <1>2, <1>3, <1>4

\* A map is older than the last one, has no byte, is that of a closed stream,
\* or is exact.
LEMMA MapStep ==
    ASSUME ExchangeInv, sendFragmentsMap
    PROVE  ExchangeInv'
<1> DEFINE first == IF fragments = {} THEN endFragment ELSE smallest(fragments)
           last == IF fragments = {} THEN endFragment ELSE largest(fragments)
           sent(previous) == updateFragmentMap(fragments, first, last, endFragment, isPublisher, previous)
<1>1. last # 0 /\ UNCHANGED <<isPublisher, fragments, endFragment>>
    BY DEF sendFragmentsMap
<1>2. PICK previous :
        /\ map' = handleFragmentsMap(map, sent(previous))
        /\ announced' = IF sent(previous).id <= map.id THEN announced
                        ELSE [fragments |-> fragments, closed |-> endFragment # 0,
                              withBytes |-> sent(previous).size # 0]
    BY DEF sendFragmentsMap
<1>3. sent(previous).id = (IF endFragment # 0 THEN endFragment ELSE last)
    BY DEF updateFragmentMap
<1>4. CASE sent(previous).id <= map.id
    <2>1. map' = map /\ announced' = announced
        BY <1>2, <1>4 DEF handleFragmentsMap
    <2> QED
        BY <1>1, <2>1, BeliefKept DEF ExchangeInv
<1>5. CASE ~(sent(previous).id <= map.id)
    <2>1. announced' = [fragments |-> fragments, closed |-> endFragment # 0,
                        withBytes |-> sent(previous).size # 0]
        BY <1>2, <1>5
    <2>2. CASE endFragment # 0
        <3>1. announced'.closed
            BY <2>1, <2>2
        <3>2. BeliefExact'
            BY <3>1 DEF BeliefExact, written
        <3> QED
            BY <3>2, <1>1 DEF ExchangeInv
    <2>3. CASE endFragment = 0 /\ sent(previous).size = 0
        <3>1. ~announced'.withBytes /\ announced'.fragments = fragments
            BY <2>1, <2>3
        <3>2. map'.id = largest(fragments) /\ fragments # {}
            BY <1>1, <1>2, <1>3, <1>5, <2>3 DEF handleFragmentsMap
        <3>3. largest(fragments) \in fragments
            BY <3>2, Window DEF ExchangeInv
        <3>4. BeliefExact'
            BY <3>1, <3>2, <3>3 DEF BeliefExact, written
        <3> QED
            BY <3>4, <1>1 DEF ExchangeInv
    <2>4. CASE endFragment = 0 /\ sent(previous).size # 0
        <3>1. fragments # {}
            BY <1>1, <2>4
        <3>2. map' = updateFragmentMap(fragments, smallest(fragments), largest(fragments),
                                       endFragment, isPublisher, previous)
            BY <1>2, <1>5, <2>4, <3>1 DEF handleFragmentsMap
        <3>3. announced' = [fragments |-> fragments, closed |-> FALSE, withBytes |-> TRUE]
            BY <2>1, <2>4
        <3>4. BeliefExact'
            BY <1>1, <2>4, <3>1, <3>2, <3>3, MapIsExact
        <3> QED
            BY <3>4, <1>1 DEF ExchangeInv
    <2> QED
        BY <2>2, <2>3, <2>4
<1> QED
    BY <1>4, <1>5

-----------------------------------------------------------------------------
(* The theorem *)

\* For every width of a byte and every length of the stream, what a neighbour
\* reads in a map that was written (updateFragmentMap, handleFragmentsMap and
\* hasFragment) is exactly what was held, whatever window it was written for.
THEOREM BeliefIsExact == ExchangeSpec => []BeliefExact
<1>1. ExchangeInit => ExchangeInv
    BY InitExact
<1>2. ExchangeInv /\ [ExchangeNext]_exchangeVars => ExchangeInv'
    <2> SUFFICES ASSUME ExchangeInv, [ExchangeNext]_exchangeVars PROVE ExchangeInv'
        OBVIOUS
    <2>1. ASSUME NEW f \in Fragments, addFragment(f) \/ eraseOldFragments(f) \/ closeMedia(f)
          PROVE  ExchangeInv'
        BY <2>1, WindowStep
    <2>2. CASE sendFragmentsMap
        BY <2>2, MapStep
    <2>3. CASE UNCHANGED exchangeVars
        BY <2>3, BeliefKept DEF exchangeVars, ExchangeInv, NoHoles
    <2> QED
        BY <2>1, <2>2, <2>3 DEF ExchangeNext
<1>3. ExchangeInv => BeliefExact
    BY DEF ExchangeInv
<1> QED
    BY <1>1, <1>2, <1>3, PTL DEF ExchangeSpec

=============================================================================
