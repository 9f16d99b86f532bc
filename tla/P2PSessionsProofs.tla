-------------------------- MODULE P2PSessionsProofs --------------------------
(***************************************************************************)
(* Proofs about P2PSessions, for any two peer ids and any bounds.  All but *)
(* the network is local to a peer, so the invariant is stated on the state *)
(* of one peer and each action has to keep it for the peer that takes it.  *)
(* The keys relate both peers, by what the messages say of their senders.  *)
(***************************************************************************)
EXTENDS P2PSessions, TLAPS

HandshakeMaps == UNION {[T -> Handshake] : T \in SUBSET Ids}

\* The handshakes hs and the session s of a peer point to each other; the
\* handshake that an initiator started has no cookie.
Owned(s, hs) ==
    /\ \A t \in DOMAIN hs : hs[t].session # NoId =>
           hs[t].session = s.id /\ s.handshake = t /\ s.status \in Connecting
    /\ s.status \in Connecting =>
           /\ s.id # NoId
           /\ s.handshake \in DOMAIN hs
           /\ hs[s.handshake].session = s.id
    /\ (s.status \in Connecting /\ ~s.responder) => hs[s.handshake].cookie = 0
    /\ s.status = "HANDSHAKE78" => s.responder

Fresh(p, n) == {NoId} \cup {<<p, k>> : k \in 1 .. n - 1}

\* The invariant of one peer: its session, handshakes and two counters.
LocalInv(p, s, hs, n, c) ==
    /\ s \in Session
    /\ hs \in HandshakeMaps
    /\ n \in Nat /\ n >= 1 /\ c \in Nat
    /\ s.id \in Fresh(p, n)
    /\ \A t \in DOMAIN hs : hs[t].cookie <= c
    /\ Owned(s, hs)

\* What the peers send: a handshake 30 has a tag.
Sent == {m \in Message : m.type = "30" => m.id # NoId}

P2PInv ==
    /\ DOMAIN session = Peers /\ session = [p \in Peers |-> session[p]]
    /\ DOMAIN handshakes = Peers /\ handshakes = [p \in Peers |-> handshakes[p]]
    /\ nextId \in [Peers -> Nat] /\ cookies \in [Peers -> Nat]
    /\ network \subseteq Sent
    /\ \A p \in Peers : LocalInv(p, session[p], handshakes[p], nextId[p], cookies[p])

-----------------------------------------------------------------------------
(* The operators                                                           *)

\* NULL is not the id of a session, and each peer has another.
LEMMA IdFacts ==
    /\ NoId \in Id /\ NoId \notin Ids
    /\ \A p \in Peers : other(p) \in Peers /\ other(p) # p
    /\ \A p \in Peers, n \in Nat : <<p, n>> \in Ids /\ <<p, n>> \in Id
    /\ NoKeys \in Keys
    /\ NoSession \in Session
<1>1. NoId \in Id /\ NoId \notin Ids
  BY PeersAssumption DEF Id, Ids
<1>2. ASSUME NEW p \in Peers PROVE other(p) \in Peers /\ other(p) # p
  <2>1. \E q \in Peers : q # p
    BY PeersAssumption
  <2> QED BY <2>1 DEF other
<1>3. \A p \in Peers, n \in Nat : <<p, n>> \in Ids /\ <<p, n>> \in Id
  BY DEF Id, Ids
<1>4. NoKeys \in Keys
  BY <1>1 DEF NoKeys, Keys
<1>5. NoSession \in Session
  BY <1>1, <1>4 DEF NoSession, Session, Statuses
<1> QED BY <1>1, <1>2, <1>3, <1>4, <1>5

\* The keys and values of a map of handshakes.
LEMMA MapFacts ==
    ASSUME NEW hs \in HandshakeMaps
    PROVE  /\ DOMAIN hs \subseteq Ids
           /\ \A t \in DOMAIN hs : hs[t] \in Handshake
           /\ hs \in [DOMAIN hs -> Handshake]
<1>1. PICK S \in SUBSET Ids : hs \in [S -> Handshake]
  BY DEF HandshakeMaps
<1> QED BY <1>1

\* A function on tags with handshakes as values is a map of handshakes.
LEMMA MakeMap ==
    ASSUME NEW S, S \subseteq Ids, NEW hs \in [S -> Handshake]
    PROVE  hs \in HandshakeMaps
BY DEF HandshakeMaps

\* What erase returns.
LEMMA EraseFacts ==
    ASSUME NEW hs \in HandshakeMaps, NEW T
    PROVE  /\ erase(hs, T) \in HandshakeMaps
           /\ DOMAIN erase(hs, T) = DOMAIN hs \ T
           /\ \A t \in DOMAIN hs \ T : erase(hs, T)[t] = hs[t]
<1>1. erase(hs, T) \in [DOMAIN hs \ T -> Handshake]
  BY MapFacts DEF erase
<1>2. DOMAIN hs \ T \subseteq Ids
  BY MapFacts
<1>3. erase(hs, T) \in HandshakeMaps
  BY <1>1, <1>2, MakeMap
<1> QED BY <1>3 DEF erase

\* What put returns.
LEMMA PutFacts ==
    ASSUME NEW hs \in HandshakeMaps, NEW tag \in Ids, NEW h \in Handshake
    PROVE  /\ put(hs, tag, h) \in HandshakeMaps
           /\ DOMAIN put(hs, tag, h) = DOMAIN hs \cup {tag}
           /\ \A t \in DOMAIN hs \cup {tag} :
                 put(hs, tag, h)[t] = IF t = tag THEN h ELSE hs[t]
<1>1. put(hs, tag, h) \in [DOMAIN hs \cup {tag} -> Handshake]
  BY MapFacts DEF put
<1>2. DOMAIN hs \cup {tag} \subseteq Ids
  BY MapFacts
<1>3. put(hs, tag, h) \in HandshakeMaps
  BY <1>1, <1>2, MakeMap
<1> QED BY <1>3 DEF put

\* Every message that the actions send.
LEMMA MessageFacts ==
    ASSUME NEW p \in Peers
    PROVE  /\ \A tag \in Ids : handshake30(p, tag) \in Sent
           /\ \A tag \in Id, cookie \in Nat : handshake70(p, tag, cookie) \in Sent
           /\ \A from \in Id, cookie \in Nat : handshake38(p, from, cookie) \in Sent
           /\ \A to \in Id, from \in Id : handshake78(p, to, from) \in Sent
           /\ \A s \in Session : /\ sealed(p, s, "DATA") \in Sent
                                 /\ sealed(p, s, "CLOSE") \in Sent
BY IdFacts DEF handshake30, handshake70, handshake38, handshake78, sealed, message,
               Sent, Message, Session, Id, Keys, farId

\* A close keeps the invariant of a peer: afterwards no handshake has a session.
LEMMA CloseLocal ==
    ASSUME NEW p \in Peers, NEW s, NEW hs, NEW n, NEW c, NEW abrupt \in BOOLEAN,
           LocalInv(p, s, hs, n, c)
    PROVE  LET after == IF closes(s, abrupt) THEN erase(hs, {s.handshake}) ELSE hs
           IN /\ LocalInv(p, closed(s, abrupt), after, n, c)
              /\ closeChunk(p, s, abrupt) \subseteq Sent
<1>1. hs \in HandshakeMaps /\ s \in Session
  BY DEF LocalInv
<1>2. closeChunk(p, s, abrupt) \subseteq Sent
  BY <1>1, MessageFacts DEF closeChunk
<1>3. CASE ~closes(s, abrupt)
  BY <1>2, <1>3 DEF closed
<1>4. CASE closes(s, abrupt)
  <2> DEFINE hs2 == erase(hs, {s.handshake})
             s2 == closed(s, abrupt)
  <2>1. /\ s2 \in Session /\ s2.id = s.id
        /\ s2.status \notin Connecting
    BY <1>1, <1>4, IdFacts DEF closed, Session, Connecting, Statuses
  <2>2. /\ hs2 \in HandshakeMaps
        /\ DOMAIN hs2 = DOMAIN hs \ {s.handshake}
        /\ \A t \in DOMAIN hs2 : hs2[t] = hs[t]
    BY <1>1, EraseFacts
  <2>3. \A t \in DOMAIN hs2 : hs2[t].session = NoId
    BY <2>2 DEF LocalInv, Owned
  <2>4. Owned(s2, hs2)
    BY <2>1, <2>3 DEF Owned, Connecting
  <2> HIDE DEF hs2, s2
  <2>5. LocalInv(p, s2, hs2, n, c)
    BY <2>1, <2>2, <2>4 DEF LocalInv
  <2> QED BY <1>2, <1>4, <2>5 DEF hs2, s2
<1> QED BY <1>3, <1>4

\* onConnection keeps it too: the handshake that is erased was the session's.
LEMMA ConnectedLocal ==
    ASSUME NEW p \in Peers, NEW s, NEW hs, NEW n, NEW c, NEW keys \in Keys,
           LocalInv(p, s, hs, n, c)
    PROVE  LocalInv(p, connected([s EXCEPT !.keys = keys]), erase(hs, {s.handshake}), n, c)
<1> DEFINE hs2 == erase(hs, {s.handshake})
           s2 == connected([s EXCEPT !.keys = keys])
<1>1. hs \in HandshakeMaps /\ s \in Session
  BY DEF LocalInv
<1>2. s2 \in Session /\ s2.id = s.id /\ s2.status \notin Connecting
  BY <1>1, IdFacts DEF connected, Session, Connecting, Statuses
<1>3. /\ hs2 \in HandshakeMaps
      /\ DOMAIN hs2 = DOMAIN hs \ {s.handshake}
      /\ \A t \in DOMAIN hs2 : hs2[t] = hs[t]
  BY <1>1, EraseFacts
<1>4. \A t \in DOMAIN hs2 : hs2[t].session = NoId
  BY <1>3 DEF LocalInv, Owned
<1>5. Owned(s2, hs2)
  BY <1>2, <1>4 DEF Owned, Connecting
<1> HIDE DEF hs2, s2
<1>6. LocalInv(p, s2, hs2, n, c)
  BY <1>2, <1>3, <1>5 DEF LocalInv
<1> QED BY <1>6 DEF hs2, s2

\* The handshakes after a session took one of them: only this one has a session.
LEMMA TakenOver ==
    ASSUME NEW s \in Session, NEW hs \in HandshakeMaps, NEW tag \in DOMAIN hs,
           s.id # NoId,
           \A t \in DOMAIN hs : hs[t].session # NoId => s.handshake = t,
           ~s.responder => tag # s.handshake
    PROVE  /\ takenOver(hs, s, tag) \in HandshakeMaps
           /\ DOMAIN takenOver(hs, s, tag) \subseteq DOMAIN hs
           /\ tag \in DOMAIN takenOver(hs, s, tag)
           /\ takenOver(hs, s, tag)[tag].session = s.id
           /\ \A t \in DOMAIN takenOver(hs, s, tag) :
                 /\ takenOver(hs, s, tag)[t].cookie = hs[t].cookie
                 /\ t # tag => takenOver(hs, s, tag)[t].session = NoId
<1> DEFINE others == IF s.responder THEN hs ELSE erase(hs, {s.handshake})
           taken == [t \in DOMAIN others |->
                        [others[t] EXCEPT !.session =
                            IF t = tag THEN s.id ELSE IF t = s.handshake THEN NoId ELSE @]]
<1>1. /\ others \in HandshakeMaps
      /\ DOMAIN others \subseteq DOMAIN hs
      /\ tag \in DOMAIN others
      /\ \A t \in DOMAIN others : others[t] = hs[t]
  <2>1. CASE s.responder
    BY <2>1
  <2>2. CASE ~s.responder
    <3>1. others = erase(hs, {s.handshake})
      BY <2>2
    <3> HIDE DEF others, taken
    <3>2. /\ others \in HandshakeMaps
          /\ DOMAIN others = DOMAIN hs \ {s.handshake}
          /\ \A t \in DOMAIN hs \ {s.handshake} : others[t] = hs[t]
      BY <3>1, EraseFacts
    <3> QED BY <2>2, <3>2
  <2> QED BY <2>1, <2>2
<1> HIDE DEF others
<1>2. /\ DOMAIN others \subseteq Ids
      /\ \A t \in DOMAIN others : others[t] \in Handshake
  BY <1>1, MapFacts
<1>3. \A t \in DOMAIN others :
         /\ taken[t] \in Handshake
         /\ taken[t].cookie = hs[t].cookie
         /\ taken[t].session = IF t = tag THEN s.id ELSE IF t = s.handshake THEN NoId ELSE hs[t].session
  BY <1>1, <1>2, IdFacts DEF Handshake, Session
<1>4. \A t \in DOMAIN others : t # tag => taken[t].session = NoId
  BY <1>1, <1>3
<1>5. taken \in [DOMAIN others -> Handshake]
  BY <1>3
<1>6. taken \in HandshakeMaps
  BY <1>2, <1>5, MakeMap
<1>7. takenOver(hs, s, tag) = taken
  BY DEF takenOver, others
<1>8. DOMAIN taken = DOMAIN others
  OBVIOUS
<1> HIDE DEF taken
<1> QED BY <1>1, <1>3, <1>4, <1>6, <1>7, <1>8

\* A session that answers a 38 takes its handshake and keeps the invariant.
LEMMA AnswerLocal ==
    ASSUME NEW p \in Peers, NEW s, NEW hs, NEW n, NEW c, NEW m \in Message,
           NEW tag \in DOMAIN hs,
           LocalInv(p, s, hs, n, c), s.status \in Connecting, hs[tag].cookie # 0
    PROVE  LocalInv(p, answered(s, tag, m), takenOver(hs, s, tag), n, c)
<1> DEFINE hs2 == takenOver(hs, s, tag)
           s2 == answered(s, tag, m)
<1>1. hs \in HandshakeMaps /\ s \in Session /\ s.id # NoId
  BY DEF LocalInv, Owned
<1>2. /\ \A t \in DOMAIN hs : hs[t].session # NoId => s.handshake = t
      /\ ~s.responder => tag # s.handshake
  BY DEF LocalInv, Owned
<1>3. /\ hs2 \in HandshakeMaps
      /\ DOMAIN hs2 \subseteq DOMAIN hs
      /\ tag \in DOMAIN hs2
      /\ hs2[tag].session = s.id
      /\ \A t \in DOMAIN hs2 :
            /\ hs2[t].cookie = hs[t].cookie
            /\ t # tag => hs2[t].session = NoId
  BY <1>1, <1>2, TakenOver
<1>4. tag \in Id
  BY <1>1, MapFacts DEF Id
<1>5. m.from \in Id
  BY DEF Message
<1>6. s2 \in Session /\ s2.id = s.id /\ s2.handshake = tag /\ s2.status = "HANDSHAKE78"
  <2>1. CASE s.status # "HANDSHAKE78"
    BY <1>1, <1>4, <1>5, <2>1 DEF answered, Session, Statuses, Keys
  <2>2. CASE s.status = "HANDSHAKE78"
    BY <1>1, <1>4, <1>5, <2>2 DEF answered, Session, Statuses, Keys
  <2> QED BY <2>1, <2>2
<1>7. s2.responder
  BY <1>1 DEF answered, Session, LocalInv, Owned
<1> HIDE DEF hs2, s2
<1>8. Owned(s2, hs2)
  BY <1>3, <1>6, <1>7, <1>1 DEF Owned, Connecting
<1>9. LocalInv(p, s2, hs2, n, c)
  BY <1>3, <1>6, <1>8 DEF LocalInv
<1> QED BY <1>9 DEF hs2, s2

\* The same for a session that the 38 creates.
LEMMA AnswerNewLocal ==
    ASSUME NEW p \in Peers, NEW s, NEW hs, NEW c, NEW m \in Message,
           NEW tag \in DOMAIN hs, nextId[p] \in Nat,
           LocalInv(p, s, hs, nextId[p], c), s.id = NoId
    PROVE  LET new == newSession(p, TRUE, tag)
           IN LocalInv(p, answered(new, tag, m), takenOver(hs, new, tag), nextId[p] + 1, c)
<1> DEFINE n == nextId[p]
           new == newSession(p, TRUE, tag)
           hs2 == takenOver(hs, new, tag)
           s2 == answered(new, tag, m)
<1>1. hs \in HandshakeMaps /\ n >= 1
  BY DEF LocalInv
<1>2. tag \in Id /\ m.from \in Id
  BY <1>1, MapFacts DEF Id, Message
<1>3. /\ new \in Session /\ new.id = <<p, n>> /\ new.status = "STOPPED"
      /\ new.responder /\ new.id # NoId
  BY <1>2, IdFacts DEF newSession, Session, Statuses
<1>4. \A t \in DOMAIN hs : hs[t].session = NoId
  BY DEF LocalInv, Owned
<1> HIDE DEF new, n, s2
<1>5. /\ hs2 \in HandshakeMaps
      /\ DOMAIN hs2 \subseteq DOMAIN hs
      /\ tag \in DOMAIN hs2
      /\ hs2[tag].session = new.id
      /\ \A t \in DOMAIN hs2 :
            /\ hs2[t].cookie = hs[t].cookie
            /\ t # tag => hs2[t].session = NoId
  <2>1. \A t \in DOMAIN hs : hs[t].session # NoId => new.handshake = t
    BY <1>4
  <2>2. ~new.responder => tag # new.handshake
    BY <1>3
  <2> QED BY <1>1, <1>3, <2>1, <2>2, TakenOver
<1>6. /\ s2 \in Session /\ s2.id = new.id /\ s2.handshake = tag
      /\ s2.status = "HANDSHAKE78" /\ s2.responder
  BY <1>2, <1>3 DEF s2, answered, Session, Statuses, Keys
<1>7. s2.id \in Fresh(p, n + 1)
  BY <1>1, <1>3, <1>6 DEF Fresh, n
<1> HIDE DEF hs2, s2
<1>8. Owned(s2, hs2)
  BY <1>3, <1>5, <1>6 DEF Owned, Connecting
<1>9. LocalInv(p, s2, hs2, n + 1, c)
  BY <1>1, <1>5, <1>6, <1>7, <1>8 DEF LocalInv, n
<1> QED BY <1>9 DEF hs2, s2, new, n

\* Another attempt: a handshake keeps its session and cookie.
LEMMA TouchLocal ==
    ASSUME NEW p \in Peers, NEW s, NEW hs, NEW n, NEW c, NEW tag \in DOMAIN hs,
           NEW h \in Handshake, h.session = hs[tag].session, h.cookie = hs[tag].cookie,
           LocalInv(p, s, hs, n, c)
    PROVE  LocalInv(p, s, [hs EXCEPT ![tag] = h], n, c)
<1> DEFINE hs2 == [hs EXCEPT ![tag] = h]
<1>1. /\ DOMAIN hs2 = DOMAIN hs
      /\ \A t \in DOMAIN hs : hs2[t].session = hs[t].session /\ hs2[t].cookie = hs[t].cookie
  OBVIOUS
<1>2. hs \in HandshakeMaps
  BY DEF LocalInv
<1>3. hs2 \in [DOMAIN hs -> Handshake] /\ DOMAIN hs \subseteq Ids
  BY <1>2, MapFacts
<1>4. hs2 \in HandshakeMaps
  BY <1>3, MakeMap
<1> HIDE DEF hs2
<1>5. Owned(s, hs2)
  BY <1>1 DEF LocalInv, Owned
<1>6. LocalInv(p, s, hs2, n, c)
  BY <1>1, <1>4, <1>5 DEF LocalInv
<1> QED BY <1>6 DEF hs2

\* The answer to a 30: the session waits for the 78.
LEMMA WaitLocal ==
    ASSUME NEW p \in Peers, NEW s, NEW hs, NEW n, NEW c,
           LocalInv(p, s, hs, n, c), s.status = "STOPPED"
    PROVE  LocalInv(p, [s EXCEPT !.status = "HANDSHAKE38"], hs, n, c)
<1> DEFINE s2 == [s EXCEPT !.status = "HANDSHAKE38"]
<1>1. s \in Session
  BY DEF LocalInv
<1>2. /\ s2 \in Session /\ s2.status = "HANDSHAKE38" /\ s2.id = s.id
      /\ s2.responder = s.responder /\ s2.handshake = s.handshake
  BY <1>1 DEF Session, Statuses
<1> HIDE DEF s2
<1>3. Owned(s2, hs)
  BY <1>2 DEF LocalInv, Owned, Connecting
<1>4. LocalInv(p, s2, hs, n, c)
  BY <1>2, <1>3 DEF LocalInv
<1> QED BY <1>4 DEF s2

\* A handshake without session may go.
LEMMA EraseLocal ==
    ASSUME NEW p \in Peers, NEW s, NEW hs, NEW n, NEW c, NEW tag \in DOMAIN hs,
           LocalInv(p, s, hs, n, c), hs[tag].session = NoId
    PROVE  LocalInv(p, s, erase(hs, {tag}), n, c)
<1> DEFINE hs2 == erase(hs, {tag})
<1>1. hs \in HandshakeMaps
  BY DEF LocalInv
<1>2. /\ hs2 \in HandshakeMaps
      /\ DOMAIN hs2 = DOMAIN hs \ {tag}
      /\ \A t \in DOMAIN hs2 : hs2[t] = hs[t]
  BY <1>1, EraseFacts
<1> HIDE DEF hs2
<1>3. Owned(s, hs2)
  BY <1>2 DEF LocalInv, Owned
<1>4. LocalInv(p, s, hs2, n, c)
  BY <1>2, <1>3 DEF LocalInv
<1> QED BY <1>4 DEF hs2

\* Without a session no handshake has one.
LEMMA ForgetLocal ==
    ASSUME NEW p \in Peers, NEW s, NEW hs, NEW n, NEW c, NEW hs2 \in HandshakeMaps,
           LocalInv(p, s, hs, n, c),
           DOMAIN hs2 \subseteq DOMAIN hs, \A t \in DOMAIN hs2 : hs2[t] = hs[t],
           s.status \notin Connecting \/ s.handshake \notin DOMAIN hs2
    PROVE  LocalInv(p, NoSession, hs2, n, c)
<1>1. \A t \in DOMAIN hs2 : hs2[t].session = NoId
  BY DEF LocalInv, Owned
<1>2. NoSession.status \notin Connecting /\ NoSession.id = NoId
  BY DEF NoSession, Connecting
<1>3. Owned(NoSession, hs2)
  BY <1>1, <1>2 DEF Owned, Connecting
<1> QED BY <1>2, <1>3, IdFacts DEF LocalInv, Fresh

\* A new session that starts its own handshake.
LEMMA StartLocal ==
    ASSUME NEW p \in Peers, NEW s, NEW hs, NEW c, nextId[p] \in Nat,
           LocalInv(p, s, hs, nextId[p], c), s.id = NoId
    PROVE  LET id == <<p, nextId[p]>>
               h == [session |-> id, cookie |-> 0, cookieReceived |-> 0, attempt |-> 0]
           IN LocalInv(p, newSession(p, FALSE, id), put(hs, id, h), nextId[p] + 1, c)
<1> DEFINE n == nextId[p]
           id == <<p, n>>
           h == [session |-> id, cookie |-> 0, cookieReceived |-> 0, attempt |-> 0]
           new == newSession(p, FALSE, id)
           hs2 == put(hs, id, h)
<1>1. hs \in HandshakeMaps /\ n >= 1 /\ n \in Nat /\ c \in Nat
  BY DEF LocalInv
<1>2. id \in Ids /\ id \in Id /\ id # NoId
  BY <1>1, IdFacts
<1>3. h \in Handshake /\ h.session = id /\ h.cookie = 0
  BY <1>2 DEF Handshake
<1>4. /\ new \in Session /\ new.id = id /\ new.status = "STOPPED"
      /\ new.handshake = id
  BY <1>2, IdFacts DEF newSession, Session, Statuses
<1>5. \A t \in DOMAIN hs : hs[t].session = NoId
  BY DEF LocalInv, Owned
<1>6. new.id \in Fresh(p, n + 1)
  <2> HIDE DEF n, new, hs2, h
  <2>1. n \in 1 .. (n + 1) - 1
    BY <1>1
  <2>2. <<p, n>> \in Fresh(p, n + 1)
    BY <2>1 DEF Fresh
  <2> QED BY <2>2, <1>4
<1> HIDE DEF n, id, h, new, hs2
<1>7. /\ hs2 \in HandshakeMaps
      /\ DOMAIN hs2 = DOMAIN hs \cup {id}
      /\ \A t \in DOMAIN hs2 : hs2[t] = IF t = id THEN h ELSE hs[t]
  <2>1. DOMAIN hs \cup {id} \subseteq Ids /\ \A t \in DOMAIN hs : hs[t] \in Handshake
    BY <1>1, <1>2, MapFacts
  <2>2. hs2 = [t \in DOMAIN hs \cup {id} |-> IF t = id THEN h ELSE hs[t]]
    BY DEF hs2, put
  <2>3. hs2 \in [DOMAIN hs \cup {id} -> Handshake]
    BY <1>3, <2>1, <2>2
  <2>4. hs2 \in HandshakeMaps
    BY <2>1, <2>3, MakeMap
  <2> QED BY <2>2, <2>4
<1>8. Owned(new, hs2)
  BY <1>2, <1>3, <1>4, <1>5, <1>7 DEF Owned, Connecting
<1>9. \A t \in DOMAIN hs2 : hs2[t].cookie <= c
  BY <1>1, <1>3, <1>7 DEF LocalInv
<1>10. LocalInv(p, new, hs2, n + 1, c)
  BY <1>1, <1>4, <1>6, <1>7, <1>8, <1>9 DEF LocalInv
<1> QED BY <1>10 DEF n, id, h, new, hs2

\* A handshake with a new cookie.
LEMMA CookieLocal ==
    ASSUME NEW p \in Peers, NEW s, NEW hs, NEW n, NEW c, NEW tag \in Ids,
           LocalInv(p, s, hs, n, c), tag \notin DOMAIN hs
    PROVE  LET h == [session |-> NoId, cookie |-> c + 1, cookieReceived |-> 0, attempt |-> 0]
           IN LocalInv(p, s, put(hs, tag, h), n, c + 1)
<1> DEFINE h == [session |-> NoId, cookie |-> c + 1, cookieReceived |-> 0, attempt |-> 0]
           hs2 == put(hs, tag, h)
<1>1. hs \in HandshakeMaps /\ c \in Nat
  BY DEF LocalInv
<1>2. h \in Handshake /\ h.session = NoId /\ h.cookie = c + 1
  BY <1>1, IdFacts DEF Handshake
<1> HIDE DEF h
<1>3. /\ hs2 \in HandshakeMaps
      /\ DOMAIN hs2 = DOMAIN hs \cup {tag}
      /\ \A t \in DOMAIN hs2 : hs2[t] = IF t = tag THEN h ELSE hs[t]
  BY <1>1, <1>2, PutFacts
<1> HIDE DEF hs2
<1>4. Owned(s, hs2)
  BY <1>2, <1>3 DEF LocalInv, Owned
<1>5. \A t \in DOMAIN hs2 : hs2[t].cookie <= c + 1
  <2>1. \A t \in DOMAIN hs : hs[t].cookie \in Nat
    BY <1>1, MapFacts DEF Handshake
  <2> QED BY <1>1, <1>2, <1>3, <2>1 DEF LocalInv
<1>6. LocalInv(p, s, hs2, n, c + 1)
  BY <1>1, <1>3, <1>4, <1>5 DEF LocalInv
<1> QED BY <1>6 DEF h, hs2

-----------------------------------------------------------------------------
(* One step of one peer                                                    *)

\* The variables of the other peer do not change.
OnlyOf(p) ==
    /\ session' = [session EXCEPT ![p] = session'[p]]
    /\ handshakes' = [handshakes EXCEPT ![p] = handshakes'[p]]
    /\ nextId' = [nextId EXCEPT ![p] = nextId'[p]]
    /\ cookies' = [cookies EXCEPT ![p] = cookies'[p]]

\* A step of one peer that keeps the invariant of this peer keeps all of it.
LEMMA LocalStep ==
    ASSUME P2PInv, NEW p \in Peers, OnlyOf(p), network' \subseteq Sent,
           LocalInv(p, session'[p], handshakes'[p], nextId'[p], cookies'[p])
    PROVE  P2PInv'
<1>1. nextId'[p] \in Nat /\ cookies'[p] \in Nat
  BY DEF LocalInv
<1>2. nextId' \in [Peers -> Nat] /\ cookies' \in [Peers -> Nat]
  BY <1>1 DEF P2PInv, OnlyOf
<1>3. DOMAIN session' = Peers /\ session' = [q \in Peers |-> session'[q]]
  BY DEF P2PInv, OnlyOf
<1>4. DOMAIN handshakes' = Peers /\ handshakes' = [q \in Peers |-> handshakes'[q]]
  BY DEF P2PInv, OnlyOf
<1>5. ASSUME NEW q \in Peers
      PROVE  LocalInv(q, session'[q], handshakes'[q], nextId'[q], cookies'[q])
  <2>1. CASE q = p
    BY <2>1
  <2>2. CASE q # p
    <3>1. /\ session'[q] = session[q] /\ handshakes'[q] = handshakes[q]
          /\ nextId'[q] = nextId[q] /\ cookies'[q] = cookies[q]
      BY <2>2 DEF P2PInv, OnlyOf
    <3>2. LocalInv(q, session[q], handshakes[q], nextId[q], cookies[q])
      BY DEF P2PInv
    <3> QED BY <3>1, <3>2
  <2> QED BY <2>1, <2>2
<1> QED BY <1>2, <1>3, <1>4, <1>5 DEF P2PInv, LocalInv, Owned

\* What closeWith does when session s and handshakes hs satisfy the invariant.
LEMMA CloseStep ==
    ASSUME P2PInv, NEW p \in Peers, NEW s, NEW hs, NEW abrupt \in BOOLEAN,
           LocalInv(p, s, hs, nextId[p], cookies[p]),
           closeWith(p, s, hs, abrupt), UNCHANGED <<nextId, cookies>>
    PROVE  P2PInv'
<1> DEFINE after == IF closes(s, abrupt) THEN erase(hs, {s.handshake}) ELSE hs
<1>1. /\ LocalInv(p, closed(s, abrupt), after, nextId[p], cookies[p])
      /\ closeChunk(p, s, abrupt) \subseteq Sent
  BY CloseLocal
<1> HIDE DEF after
<1>2. /\ session' = [session EXCEPT ![p] = closed(s, abrupt)]
      /\ handshakes' = [handshakes EXCEPT ![p] = after]
      /\ network' = network \cup closeChunk(p, s, abrupt)
  BY DEF closeWith, after
<1>3. network' \subseteq Sent
  BY <1>1, <1>2 DEF P2PInv
<1>4. session'[p] = closed(s, abrupt) /\ handshakes'[p] = after
  BY <1>2 DEF P2PInv
<1>5. OnlyOf(p)
  BY <1>2, <1>4 DEF OnlyOf, P2PInv
<1>6. LocalInv(p, session'[p], handshakes'[p], nextId'[p], cookies'[p])
  BY <1>1, <1>4
<1> QED BY <1>3, <1>5, <1>6, LocalStep

\* removeHandshake: either the handshake has no session, or it is the one of the
\* session, which is not connected and gets closed.
LEMMA RemoveStep ==
    ASSUME P2PInv, NEW p \in Peers, NEW tag \in DOMAIN handshakes[p],
           removeHandshake(p, tag), UNCHANGED <<nextId, cookies>>
    PROVE  P2PInv'
<1> DEFINE s == session[p]
           hs == handshakes[p]
<1>1. LocalInv(p, s, hs, nextId[p], cookies[p])
  BY DEF P2PInv
<1>2. CASE hs[tag].session = NoId
  <2>1. LocalInv(p, s, erase(hs, {tag}), nextId[p], cookies[p])
    BY <1>1, <1>2, EraseLocal
  <2>2. /\ handshakes' = [handshakes EXCEPT ![p] = erase(hs, {tag})]
        /\ UNCHANGED <<session, network>>
    BY <1>2 DEF removeHandshake
  <2>3. handshakes'[p] = erase(hs, {tag}) /\ session'[p] = s
    BY <2>2 DEF P2PInv
  <2>4. OnlyOf(p) /\ network' \subseteq Sent
    BY <2>2, <2>3 DEF OnlyOf, P2PInv
  <2> QED BY <2>1, <2>3, <2>4, LocalStep
<1>3. CASE hs[tag].session # NoId
  <2>1. s.handshake = tag /\ s.status \in Connecting
    BY <1>1, <1>3 DEF LocalInv, Owned
  <2>2. closes(s, FALSE)
    BY <2>1 DEF closes, Connecting
  <2>3. erase(erase(hs, {tag}), {s.handshake}) = erase(hs, {s.handshake})
    BY <2>1 DEF erase
  <2>4. closeWith(p, s, erase(hs, {tag}), FALSE)
    BY <1>3 DEF removeHandshake
  <2>5. closeWith(p, s, hs, FALSE)
    BY <2>2, <2>3, <2>4 DEF closeWith
  <2> QED BY <1>1, <2>5, CloseStep
<1> QED BY <1>2, <1>3

\* onConnection of a session that keeps or just got its keys.
LEMMA ConnectionStep ==
    ASSUME P2PInv, NEW p \in Peers, NEW keys \in Keys,
           onConnection(p, [session[p] EXCEPT !.keys = keys]), UNCHANGED <<nextId, cookies>>
    PROVE  P2PInv'
<1> DEFINE s == [session[p] EXCEPT !.keys = keys]
           hs == erase(handshakes[p], {session[p].handshake})
<1>1. LocalInv(p, session[p], handshakes[p], nextId[p], cookies[p])
  BY DEF P2PInv
<1>2. s.handshake = session[p].handshake
  BY <1>1 DEF LocalInv, Session
<1>3. LocalInv(p, connected(s), hs, nextId[p], cookies[p])
  BY <1>1, ConnectedLocal
<1>4. \/ /\ session' = [session EXCEPT ![p] = connected(s)]
         /\ handshakes' = [handshakes EXCEPT ![p] = hs]
         /\ UNCHANGED network
      \/ closeWith(p, connected(s), hs, FALSE)
  BY <1>2 DEF onConnection
<1> HIDE DEF s, hs
<1>5. CASE closeWith(p, connected(s), hs, FALSE)
  BY <1>3, <1>5, CloseStep
<1>6. CASE /\ session' = [session EXCEPT ![p] = connected(s)]
           /\ handshakes' = [handshakes EXCEPT ![p] = hs]
           /\ UNCHANGED network
  <2>1. session'[p] = connected(s) /\ handshakes'[p] = hs
    BY <1>6 DEF P2PInv
  <2>2. OnlyOf(p) /\ network' \subseteq Sent
    BY <1>6, <2>1 DEF OnlyOf, P2PInv
  <2> QED BY <1>3, <2>1, <2>2, LocalStep
<1> QED BY <1>4, <1>5, <1>6

\* Every action of peer p that is not the arrival of a message.
LEMMA OwnStep ==
    ASSUME P2PInv, NEW p \in Peers,
           \/ connect2Peer(p)
           \/ \E abrupt \in BOOLEAN : close(p, abrupt)
           \/ repeatClose(p)
           \/ deleteSession(p)
           \/ removePeer(p)
           \/ sendData(p)
    PROVE  P2PInv'
<1> DEFINE s == session[p]
           hs == handshakes[p]
<1>1. LocalInv(p, s, hs, nextId[p], cookies[p])
  BY DEF P2PInv
<1>2. s \in Session /\ hs \in HandshakeMaps /\ network \subseteq Sent
  BY <1>1 DEF LocalInv, P2PInv
<1>3. /\ sealed(p, s, "DATA") \in Sent
      /\ sealed(p, s, "CLOSE") \in Sent
  BY <1>2, MessageFacts
<1>4. CASE connect2Peer(p)
  <2> DEFINE id == <<p, nextId[p]>>
             h == [session |-> id, cookie |-> 0, cookieReceived |-> 0, attempt |-> 0]
             new == newSession(p, FALSE, id)
  <2>1. LocalInv(p, new, put(hs, id, h), nextId[p] + 1, cookies[p])
    <3>1. nextId[p] \in Nat /\ s.id = NoId
      BY <1>1, <1>4 DEF LocalInv, connect2Peer
    <3> QED BY <1>1, <3>1, StartLocal
  <2>2. new.id = id
    BY DEF newSession
  <2>3. /\ session' = [session EXCEPT ![p] = new]
        /\ handshakes' = [handshakes EXCEPT ![p] = put(hs, id, h)]
        /\ nextId' = [nextId EXCEPT ![p] = @ + 1]
        /\ UNCHANGED <<cookies, network>>
    BY <1>4, <2>2 DEF connect2Peer
  <2> HIDE DEF new, id, h
  <2>4. session'[p] = new /\ handshakes'[p] = put(hs, id, h) /\ nextId'[p] = nextId[p] + 1
    BY <2>3 DEF P2PInv
  <2>5. OnlyOf(p) /\ network' \subseteq Sent
    BY <1>2, <2>3, <2>4 DEF OnlyOf, P2PInv
  <2> QED BY <2>1, <2>3, <2>4, <2>5, LocalStep
<1>5. ASSUME NEW abrupt \in BOOLEAN, close(p, abrupt) PROVE P2PInv'
  BY <1>1, <1>5, CloseStep DEF close
<1>6. CASE repeatClose(p) \/ sendData(p)
  <2>1. UNCHANGED <<session, handshakes, nextId, cookies>> /\ network' \subseteq Sent
    BY <1>2, <1>3, <1>6 DEF repeatClose, sendData
  <2>2. OnlyOf(p)
    BY <2>1 DEF OnlyOf, P2PInv
  <2> QED BY <1>1, <2>1, <2>2, LocalStep
<1>7. CASE deleteSession(p)
  <2>1. s.status \notin Connecting
    BY <1>7 DEF deleteSession, Connecting
  <2>2. LocalInv(p, NoSession, hs, nextId[p], cookies[p])
    BY <1>1, <1>2, <2>1, ForgetLocal
  <2>3. closeChunk(p, s, TRUE) \subseteq Sent
    BY <1>3 DEF closeChunk
  <2>4. session'[p] = NoSession /\ handshakes'[p] = hs /\ network' \subseteq Sent
    BY <1>2, <1>7, <2>3 DEF deleteSession, P2PInv
  <2>5. OnlyOf(p) /\ nextId' = nextId /\ cookies' = cookies
    BY <1>7, <2>4 DEF deleteSession, OnlyOf, P2PInv
  <2> QED BY <2>2, <2>4, <2>5, LocalStep
<1>8. CASE removePeer(p)
  <2> DEFINE hs2 == erase(hs, {s.handshake})
  <2>1. /\ hs2 \in HandshakeMaps
        /\ DOMAIN hs2 = DOMAIN hs \ {s.handshake}
        /\ \A t \in DOMAIN hs2 : hs2[t] = hs[t]
    <3> DEFINE T == {s.handshake}
    <3> HIDE DEF T, s, hs
    <3>1. /\ erase(hs, T) \in HandshakeMaps
          /\ DOMAIN erase(hs, T) = DOMAIN hs \ T
          /\ \A t \in DOMAIN hs \ T : erase(hs, T)[t] = hs[t]
      BY <1>2, EraseFacts
    <3> QED BY <3>1 DEF T
  <2>2. /\ session' = [session EXCEPT ![p] = NoSession]
        /\ handshakes' = [handshakes EXCEPT ![p] = hs2]
        /\ UNCHANGED <<nextId, cookies, network>>
    BY <1>8 DEF removePeer
  <2> HIDE DEF hs2
  <2>3. LocalInv(p, NoSession, hs2, nextId[p], cookies[p])
    BY <1>1, <2>1, ForgetLocal
  <2>4. session'[p] = NoSession /\ handshakes'[p] = hs2 /\ network' \subseteq Sent
    BY <1>2, <2>2 DEF P2PInv
  <2>5. OnlyOf(p)
    BY <2>2, <2>4 DEF OnlyOf, P2PInv
  <2> QED BY <2>2, <2>3, <2>4, <2>5, LocalStep
<1> QED BY <1>4, <1>5, <1>6, <1>7, <1>8

\* The attempts and time-outs of the handshaker.
LEMMA ManageStep ==
    ASSUME P2PInv, NEW p \in Peers, NEW tag \in DOMAIN handshakes[p],
           \/ sendHandshake30(p, tag)
           \/ sendHandshake38(p, tag)
           \/ lastAttempt(p, tag)
           \/ releaseCookie(p, tag)
    PROVE  P2PInv'
<1> DEFINE hs == handshakes[p]
           h == [hs[tag] EXCEPT !.attempt = @ + 1]
<1>1. LocalInv(p, session[p], hs, nextId[p], cookies[p])
  BY DEF P2PInv
<1>2. hs \in HandshakeMaps
  BY <1>1 DEF LocalInv
<1>3. tag \in Ids /\ tag \in Id /\ hs[tag] \in Handshake
  BY <1>2, MapFacts DEF Id
<1>4. /\ handshake30(p, tag) \in Sent
      /\ handshake38(p, tag, hs[tag].cookieReceived) \in Sent
  BY <1>3, MessageFacts DEF Handshake
<1>5. ASSUME NEW status, NEW sent \in Sent, attempt(p, tag, status, sent) PROVE P2PInv'
  <2>1. h \in Handshake /\ h.session = hs[tag].session /\ h.cookie = hs[tag].cookie
    BY <1>3 DEF Handshake
  <2>2. LocalInv(p, session[p], [hs EXCEPT ![tag] = h], nextId[p], cookies[p])
    BY <1>1, <2>1, TouchLocal
  <2>3. handshakes' = [handshakes EXCEPT ![p] = [hs EXCEPT ![tag] = h]]
    BY <1>5 DEF attempt
  <2>4. /\ UNCHANGED <<session, nextId, cookies>>
        /\ network' \subseteq Sent
    BY <1>5 DEF attempt, P2PInv
  <2> HIDE DEF h
  <2>5. handshakes'[p] = [hs EXCEPT ![tag] = h]
    BY <2>3 DEF P2PInv
  <2>6. OnlyOf(p)
    BY <2>3, <2>4, <2>5 DEF OnlyOf, P2PInv
  <2> QED BY <2>2, <2>4, <2>5, <2>6, LocalStep
<1>6. CASE sendHandshake30(p, tag)
  BY <1>4, <1>5, <1>6 DEF sendHandshake30
<1>7. CASE sendHandshake38(p, tag)
  BY <1>4, <1>5, <1>7 DEF sendHandshake38
<1>8. CASE lastAttempt(p, tag)
  BY <1>8, RemoveStep DEF lastAttempt
<1>9. CASE releaseCookie(p, tag)
  BY <1>9, RemoveStep DEF releaseCookie
<1> QED BY <1>6, <1>7, <1>8, <1>9

\* Handshakes 30 and 70.
LEMMA HandshakeStep ==
    ASSUME P2PInv, NEW p \in Peers, NEW m \in network,
           handleHandshake30(p, m) \/ handleHandshake70(p, m)
    PROVE  P2PInv'
<1> DEFINE s == session[p]
           hs == handshakes[p]
           tag == m.id
<1>1. LocalInv(p, s, hs, nextId[p], cookies[p])
  BY DEF P2PInv
<1>2. /\ s \in Session /\ hs \in HandshakeMaps /\ network \subseteq Sent
      /\ cookies[p] \in Nat
  BY <1>1 DEF LocalInv, P2PInv
<1>3. m \in Sent /\ tag \in Id /\ m.cookie \in Nat
  BY <1>2 DEF Sent, Message
<1>4. CASE /\ handleHandshake30(p, m)
           /\ tag \in DOMAIN hs
  <2>1. hs[tag].cookie \in Nat
    BY <1>2, <1>4, MapFacts DEF Handshake
  <2>2. handshake70(p, tag, hs[tag].cookie) \in Sent
    BY <1>3, <2>1, MessageFacts
  <2>3. UNCHANGED <<session, handshakes, nextId, cookies>> /\ network' \subseteq Sent
    BY <1>2, <1>4, <2>2 DEF handleHandshake30
  <2>4. OnlyOf(p)
    BY <2>3 DEF OnlyOf, P2PInv
  <2> QED BY <1>1, <2>3, <2>4, LocalStep
<1>5. CASE /\ handleHandshake30(p, m)
           /\ tag \notin DOMAIN hs
  <2> DEFINE c == cookies[p]
             h == [session |-> NoId, cookie |-> c + 1, cookieReceived |-> 0, attempt |-> 0]
  <2>1. tag \in Ids
    BY <1>3, <1>5 DEF handleHandshake30, Sent, Id
  <2>2. LocalInv(p, s, put(hs, tag, h), nextId[p], c + 1)
    BY <1>1, <1>5, <2>1, CookieLocal
  <2>3. handshake70(p, tag, c + 1) \in Sent
    BY <1>2, <1>3, MessageFacts
  <2>4. /\ handshakes' = [handshakes EXCEPT ![p] = put(hs, tag, h)]
        /\ cookies' = [cookies EXCEPT ![p] = @ + 1]
        /\ UNCHANGED <<session, nextId>>
        /\ network' \subseteq Sent
    BY <1>2, <1>5, <2>3 DEF handleHandshake30
  <2> HIDE DEF h
  <2>5. handshakes'[p] = put(hs, tag, h) /\ cookies'[p] = c + 1
    BY <2>4 DEF P2PInv
  <2>6. OnlyOf(p)
    BY <2>4, <2>5 DEF OnlyOf, P2PInv
  <2> QED BY <2>2, <2>4, <2>5, <2>6, LocalStep
<1>6. CASE handleHandshake70(p, m)
  <2> DEFINE h == [hs[tag] EXCEPT !.attempt = 1, !.cookieReceived = m.cookie]
             hs2 == [hs EXCEPT ![tag] = h]
             s2 == [s EXCEPT !.status = "HANDSHAKE38"]
  <2>1. tag \in DOMAIN hs /\ hs[tag] \in Handshake /\ s.status = "STOPPED"
    BY <1>2, <1>6, MapFacts DEF handleHandshake70
  <2>2. h \in Handshake /\ h.session = hs[tag].session /\ h.cookie = hs[tag].cookie
    BY <1>3, <2>1 DEF Handshake
  <2>3. /\ handshakes' = [handshakes EXCEPT ![p] = hs2]
        /\ session' = [session EXCEPT ![p] = s2]
        /\ network' = network \cup {handshake38(p, s.id, m.cookie)}
        /\ UNCHANGED <<nextId, cookies>>
    BY <1>6, <2>1 DEF handleHandshake70, P2PInv
  <2>4. LocalInv(p, s2, hs, nextId[p], cookies[p])
    BY <1>1, <2>1, WaitLocal
  <2> HIDE DEF h, s2
  <2>5. LocalInv(p, s2, hs2, nextId[p], cookies[p])
    BY <2>1, <2>2, <2>4, TouchLocal
  <2>6. network' \subseteq Sent
    BY <1>2, <1>3, <2>3, MessageFacts DEF Session
  <2> HIDE DEF hs2
  <2>7. handshakes'[p] = hs2 /\ session'[p] = s2
    BY <2>3 DEF P2PInv
  <2>8. OnlyOf(p)
    BY <2>3, <2>7 DEF OnlyOf, P2PInv
  <2> QED BY <2>3, <2>5, <2>6, <2>7, <2>8, LocalStep
<1> QED BY <1>4, <1>5, <1>6

\* What sendHandshake78 needs of the session it answers for.
LEMMA AnswersStep ==
    ASSUME P2PInv, NEW p \in Peers, NEW m \in network, NEW s, NEW tag,
           s.id \in Id, answers(p, s, tag, m), UNCHANGED cookies,
           nextId' = [nextId EXCEPT ![p] = nextId'[p]],
           LocalInv(p, answered(s, tag, m), takenOver(handshakes[p], s, tag),
                    nextId'[p], cookies[p])
    PROVE  P2PInv'
<1>1. m.from \in Id /\ network \subseteq Sent
  BY DEF P2PInv, Sent, Message
<1>2. handshake78(p, m.from, s.id) \in Sent
  BY <1>1, MessageFacts
<1>3. /\ session'[p] = answered(s, tag, m)
      /\ handshakes'[p] = takenOver(handshakes[p], s, tag)
      /\ network' \subseteq Sent
  BY <1>1, <1>2 DEF answers, P2PInv
<1>4. OnlyOf(p)
  BY <1>3 DEF answers, OnlyOf, P2PInv
<1> QED BY <1>3, <1>4, LocalStep

\* Handshake 38: a new session, one that takes the handshake, one that refuses it.
LEMMA AnswerStep ==
    ASSUME P2PInv, NEW p \in Peers, NEW m \in network, sendHandshake78(p, m)
    PROVE  P2PInv'
<1> DEFINE s == session[p]
           hs == handshakes[p]
<1>1. LocalInv(p, s, hs, nextId[p], cookies[p])
  BY DEF P2PInv
<1>2. s \in Session /\ m \in Message /\ nextId[p] \in Nat
  BY <1>1 DEF LocalInv, P2PInv, Sent
<1>3. PICK tag \in withCookie(p, m.cookie) :
         \/ /\ session[p].id = NoId
            /\ answers(p, newSession(p, TRUE, tag), tag, m)
            /\ nextId' = [nextId EXCEPT ![p] = @ + 1]
         \/ /\ accepts(p, session[p])
            /\ answers(p, session[p], tag, m)
            /\ UNCHANGED nextId
         \/ /\ refuses(p, session[p], tag)
            /\ UNCHANGED nextId
  BY DEF sendHandshake78
<1>4. tag \in DOMAIN hs /\ hs[tag].cookie # 0
  BY <1>3 DEF withCookie
<1>5. UNCHANGED cookies
  BY DEF sendHandshake78
<1>6. CASE /\ session[p].id = NoId
           /\ answers(p, newSession(p, TRUE, tag), tag, m)
           /\ nextId' = [nextId EXCEPT ![p] = @ + 1]
  <2> DEFINE new == newSession(p, TRUE, tag)
  <2>1. LocalInv(p, answered(new, tag, m), takenOver(hs, new, tag), nextId[p] + 1, cookies[p])
    BY <1>1, <1>2, <1>4, <1>6, AnswerNewLocal
  <2>2. nextId'[p] = nextId[p] + 1 /\ nextId' = [nextId EXCEPT ![p] = nextId'[p]]
    BY <1>6 DEF P2PInv
  <2>3. new.id \in Id
    BY <1>2, IdFacts DEF newSession
  <2> HIDE DEF new
  <2> QED BY <1>5, <1>6, <2>1, <2>2, <2>3, AnswersStep DEF new
<1>7. CASE /\ accepts(p, session[p])
           /\ answers(p, session[p], tag, m)
           /\ UNCHANGED nextId
  <2>1. s.status \in Connecting
    BY <1>7 DEF accepts
  <2>2. LocalInv(p, answered(s, tag, m), takenOver(hs, s, tag), nextId[p], cookies[p])
    BY <1>1, <1>2, <1>4, <2>1, AnswerLocal
  <2>3. nextId' = [nextId EXCEPT ![p] = nextId'[p]]
    BY <1>7 DEF P2PInv
  <2>4. s.id \in Id
    BY <1>2 DEF Session
  <2> QED BY <1>5, <1>7, <2>2, <2>3, <2>4, AnswersStep
<1>8. CASE refuses(p, session[p], tag) /\ UNCHANGED nextId
  BY <1>4, <1>5, <1>8, RemoveStep DEF refuses
<1> QED BY <1>3, <1>6, <1>7, <1>8

\* Handshake 78 and what is received under the keys.
LEMMA KeysStep ==
    ASSUME P2PInv, NEW p \in Peers, NEW m \in network,
           sendConnect(p, m) \/ receiveData(p, m) \/ receiveClose(p, m)
    PROVE  P2PInv'
<1> DEFINE s == session[p]
           hs == handshakes[p]
<1>1. LocalInv(p, s, hs, nextId[p], cookies[p])
  BY DEF P2PInv
<1>2. s \in Session /\ m \in Message
  BY <1>1 DEF LocalInv, P2PInv, Sent
<1>3. s.keys \in Keys /\ [s EXCEPT !.keys = s.keys] = s
  BY <1>2 DEF Session
<1>4. CASE sendConnect(p, m)
  <2>1. [initiator |-> m.id, responder |-> m.from] \in Keys
    BY <1>2 DEF Message, Keys
  <2> QED BY <1>4, <2>1, ConnectionStep DEF sendConnect
<1>5. CASE receiveData(p, m)
  <2>1. onConnection(p, [s EXCEPT !.keys = s.keys]) /\ UNCHANGED <<nextId, cookies>>
    BY <1>3, <1>5 DEF receiveData
  <2> QED BY <1>3, <2>1, ConnectionStep
<1>6. CASE receiveClose(p, m)
  <2>1. LocalInv(p, connected([s EXCEPT !.keys = s.keys]), erase(hs, {s.handshake}),
                 nextId[p], cookies[p])
    BY <1>1, <1>3, ConnectedLocal
  <2>2. LocalInv(p, connected(s), erase(hs, {s.handshake}), nextId[p], cookies[p])
    BY <1>3, <2>1
  <2>3. UNCHANGED <<nextId, cookies>>
    BY <1>6 DEF receiveClose
  <2>4. \/ closeWith(p, connected(s), erase(hs, {s.handshake}), TRUE)
        \/ closeWith(p, s, hs, TRUE)
    BY <1>6 DEF receiveClose
  <2> QED BY <1>1, <2>2, <2>3, <2>4, CloseStep
<1> QED BY <1>4, <1>5, <1>6

-----------------------------------------------------------------------------
(* The theorems                                                            *)

\* The invariant holds at the start and every step keeps it.
LEMMA P2PInvariant == P2PSpec => []P2PInv
<1>1. P2PInit => P2PInv
  <2> SUFFICES ASSUME P2PInit PROVE P2PInv
    OBVIOUS
  <2>1. /\ DOMAIN session = Peers /\ session = [p \in Peers |-> session[p]]
        /\ DOMAIN handshakes = Peers /\ handshakes = [p \in Peers |-> handshakes[p]]
        /\ nextId \in [Peers -> Nat] /\ cookies \in [Peers -> Nat]
        /\ network \subseteq Sent
    BY DEF P2PInit
  <2>2. ASSUME NEW p \in Peers
        PROVE  LocalInv(p, session[p], handshakes[p], nextId[p], cookies[p])
    <3>1. /\ session[p] = NoSession /\ handshakes[p] = << >>
          /\ nextId[p] = 1 /\ cookies[p] = 0
      BY DEF P2PInit
    <3>2. DOMAIN handshakes[p] = {} /\ handshakes[p] \in [{} -> Handshake]
      BY <3>1
    <3>3. handshakes[p] \in HandshakeMaps
      BY <3>2, MakeMap
    <3>4. NoSession.status = "NONE" /\ NoSession.id = NoId
      BY DEF NoSession
    <3>5. Owned(NoSession, handshakes[p])
      BY <3>2, <3>4 DEF Owned, Connecting
    <3> QED BY <3>1, <3>2, <3>3, <3>4, <3>5, IdFacts DEF LocalInv, Fresh
  <2> QED BY <2>1, <2>2 DEF P2PInv
<1>2. P2PInv /\ [P2PNext]_p2pVars => P2PInv'
  <2> SUFFICES ASSUME P2PInv, [P2PNext]_p2pVars PROVE P2PInv'
    OBVIOUS
  <2>1. CASE UNCHANGED p2pVars
    BY <2>1 DEF p2pVars, P2PInv, LocalInv, Owned
  <2>2. CASE P2PNext
    <3>1. PICK p \in Peers :
             \/ \/ connect2Peer(p)
                \/ \E abrupt \in BOOLEAN : close(p, abrupt)
                \/ repeatClose(p)
                \/ deleteSession(p)
                \/ removePeer(p)
                \/ sendData(p)
             \/ \E tag \in DOMAIN handshakes[p] :
                   \/ sendHandshake30(p, tag)
                   \/ sendHandshake38(p, tag)
                   \/ lastAttempt(p, tag)
                   \/ releaseCookie(p, tag)
             \/ \E m \in network : receive(p, m)
      BY <2>2 DEF P2PNext
    <3>2. CASE \E tag \in DOMAIN handshakes[p] :
                   \/ sendHandshake30(p, tag)
                   \/ sendHandshake38(p, tag)
                   \/ lastAttempt(p, tag)
                   \/ releaseCookie(p, tag)
      BY <3>2, ManageStep
    <3>3. CASE \E m \in network : receive(p, m)
      <4>1. PICK m \in network : receive(p, m)
        BY <3>3
      <4> QED BY <4>1, HandshakeStep, AnswerStep, KeysStep DEF receive
    <3> QED BY <3>1, <3>2, <3>3, OwnStep
  <2> QED BY <2>1, <2>2
<1> QED BY <1>1, <1>2, PTL DEF P2PSpec

\* The types of P2PTypeOK for any bounds: session ids are used once, and every
\* message has a session id or tag, cookie and keys of the right kind.
THEOREM P2PTypeCorrect == P2PSpec => []P2PTypeOK
<1>1. P2PInv => P2PTypeOK
  <2> SUFFICES ASSUME P2PInv PROVE P2PTypeOK
    OBVIOUS
  <2>1. session \in [Peers -> Session]
    BY DEF P2PInv, LocalInv
  <2>2. network \subseteq Message
    BY DEF P2PInv, Sent
  <2>3. ASSUME NEW p \in Peers
        PROVE  /\ DOMAIN handshakes[p] \subseteq Ids
               /\ \A t \in DOMAIN handshakes[p] : handshakes[p][t] \in Handshake
               /\ session[p].id \in {NoId} \cup {<<p, n>> : n \in 1 .. nextId[p] - 1}
               /\ \A t \in DOMAIN handshakes[p] : handshakes[p][t].cookie <= cookies[p]
    <3>1. LocalInv(p, session[p], handshakes[p], nextId[p], cookies[p])
      BY DEF P2PInv
    <3>2. handshakes[p] \in HandshakeMaps
      BY <3>1 DEF LocalInv
    <3>3. session[p].id \in {NoId} \cup {<<p, n>> : n \in 1 .. nextId[p] - 1}
      BY <3>1 DEF LocalInv, Fresh
    <3> QED BY <3>1, <3>2, <3>3, MapFacts DEF LocalInv
  <2> QED BY <2>1, <2>2, <2>3 DEF P2PTypeOK, P2PInv
<1> QED BY <1>1, P2PInvariant, PTL

\* Handshake::pSession never dangles: whatever interleaving of connections,
\* retries, refusals, take-overs, closes, removals and late messages, a handshake
\* in the map has no session or the one of this peer, which has it as its own.
THEOREM SessionPointersSafe == P2PSpec => []NoDanglingSession
<1>1. P2PInv => NoDanglingSession
  BY DEF P2PInv, LocalInv, Owned, NoDanglingSession
<1> QED BY <1>1, P2PInvariant, PTL

\* A session that is not connected has its handshake in the map, pointing back:
\* the uses of _pHandshake without a test are safe and a timer remains.
THEOREM ConnectingOwned == P2PSpec => []ConnectingHasHandshake
<1>1. P2PInv => ConnectingHasHandshake
  BY DEF P2PInv, LocalInv, Owned, ConnectingHasHandshake
<1> QED BY <1>1, P2PInvariant, PTL

-----------------------------------------------------------------------------
(* Sessions move forward                                                   *)

\* There is a status where there is a session, and the role of responder and the
\* keys come with HANDSHAKE78 or with the connection.
Staged(s) ==
    /\ s.id = NoId <=> s.status = "NONE"
    /\ s.status \in {"NONE", "STOPPED", "HANDSHAKE38"} => ~s.responder
    /\ s.status \in {"NONE", "STOPPED", "HANDSHAKE38"} => s.keys = NoKeys

StagedInv == \A p \in Peers : Staged(session[p])

\* What SessionMovesForward asks of one session.
Forward(s, next) ==
    next.id = s.id =>
        /\ rank[next.status] >= rank[s.status]
        /\ s.responder => next.responder
        /\ s.keys # NoKeys => next.keys = s.keys

MovesOf(p) ==
    /\ \A q \in Peers \ {p} : session'[q] = session[q]
    /\ Staged(session'[p])
    /\ Forward(session[p], session'[p])

\* The ranks are those of the enumeration.
LEMMA RankFacts ==
    /\ rank["NONE"] = 0 /\ rank["STOPPED"] = 1 /\ rank["HANDSHAKE38"] = 2
    /\ rank["HANDSHAKE78"] = 3 /\ rank["CONNECTED"] = 4
    /\ rank["NEAR_CLOSED"] = 5 /\ rank["FAILED"] = 6
    /\ \A status \in Statuses : rank[status] \in 0 .. 6
BY DEF rank, Statuses

\* A step that leaves the session alone, and one that gives it another value.
LEMMA SameSession ==
    ASSUME P2PInv, StagedInv, NEW p \in Peers, session' = session
    PROVE  MovesOf(p)
<1>1. session[p].status \in Statuses
  BY DEF P2PInv, LocalInv, Session
<1> QED BY <1>1, RankFacts DEF MovesOf, StagedInv, Forward

LEMMA NextSession ==
    ASSUME P2PInv, NEW p \in Peers, NEW next,
           session' = [session EXCEPT ![p] = next],
           Staged(next), Forward(session[p], next)
    PROVE  MovesOf(p)
<1>1. session'[p] = next /\ \A q \in Peers \ {p} : session'[q] = session[q]
  BY DEF P2PInv
<1> QED BY <1>1 DEF MovesOf

\* A close, of a session that was just connected too.
LEMMA CloseMoves ==
    ASSUME NEW s \in Session, NEW abrupt \in BOOLEAN, Staged(s)
    PROVE  Staged(closed(s, abrupt)) /\ Forward(s, closed(s, abrupt))
<1>1. s.status \in Statuses /\ rank[s.status] \in 0 .. 6
  BY RankFacts DEF Session
<1>2. CASE ~closes(s, abrupt)
  BY <1>1, <1>2 DEF closed, Forward
<1>3. CASE closes(s, abrupt)
  <2> DEFINE next == closed(s, abrupt)
  <2>1. /\ next.id = s.id /\ next.responder = s.responder /\ next.keys = s.keys
        /\ next.status = IF abrupt THEN "FAILED" ELSE "NEAR_CLOSED"
    BY <1>3 DEF closed, Session
  <2>2. s.status # "NONE" /\ s.status # "FAILED" /\ (abrupt \/ s.status # "NEAR_CLOSED")
    BY <1>3 DEF closes
  <2> HIDE DEF next
  <2>3. rank[next.status] >= rank[s.status]
    BY <1>1, <2>1, <2>2, RankFacts DEF Statuses
  <2>4. Staged(next)
    BY <2>1, <2>2 DEF Staged
  <2>5. Forward(s, next)
    BY <2>1, <2>3 DEF Forward
  <2> QED BY <2>4, <2>5 DEF next
<1> QED BY <1>2, <1>3

\* onConnection, with the keys the session has or with its first ones.
LEMMA ConnectedMoves ==
    ASSUME NEW s \in Session, NEW keys \in Keys, Staged(s),
           s.status \in Connecting, s.keys # NoKeys => keys = s.keys
    PROVE  LET next == connected([s EXCEPT !.keys = keys])
           IN /\ next \in Session /\ Staged(next) /\ Forward(s, next)
              /\ next.id = s.id /\ next.responder = s.responder
              /\ next.keys = keys /\ next.status = "CONNECTED"
<1> DEFINE next == connected([s EXCEPT !.keys = keys])
<1>1. /\ next \in Session /\ next.id = s.id /\ next.responder = s.responder
      /\ next.keys = keys /\ next.status = "CONNECTED"
  BY IdFacts DEF connected, Session, Statuses
<1> HIDE DEF next
<1>2. s.status \in Connecting /\ (s.keys # NoKeys => keys = s.keys) /\ Staged(s)
  OBVIOUS
<1>3. rank[next.status] >= rank[s.status]
  BY <1>1, <1>2, RankFacts DEF Connecting
<1>4. Staged(next)
  BY <1>1, <1>2 DEF Staged, Connecting
<1>5. Forward(s, next)
  BY <1>1, <1>2, <1>3 DEF Forward
<1> QED BY <1>1, <1>4, <1>5 DEF next

\* A session that answers a 38 had no keys, or keeps those it has.
LEMMA AnsweredMoves ==
    ASSUME NEW s \in Session, NEW tag, NEW m, Staged(s), s.status \in Connecting
    PROVE  Staged(answered(s, tag, m)) /\ Forward(s, answered(s, tag, m))
<1> DEFINE next == answered(s, tag, m)
<1>1. s.status \in Connecting /\ Staged(s)
  OBVIOUS
<1>2. CASE s.status # "HANDSHAKE78"
  <2>1. next.id = s.id /\ next.responder /\ next.status = "HANDSHAKE78"
    BY <1>2 DEF answered, Session
  <2>2. s.keys = NoKeys /\ s.id # NoId
    BY <1>1, <1>2 DEF Staged, Connecting
  <2> HIDE DEF next
  <2>3. rank[next.status] >= rank[s.status]
    BY <1>1, <1>2, <2>1, RankFacts DEF Connecting
  <2> QED BY <2>1, <2>2, <2>3 DEF Staged, Forward, next
<1>3. CASE s.status = "HANDSHAKE78"
  <2>1. /\ next.id = s.id /\ next.responder = s.responder
        /\ next.status = "HANDSHAKE78" /\ next.keys = s.keys
    BY <1>3 DEF answered, Session
  <2> HIDE DEF next
  <2> QED BY <1>1, <1>3, <2>1, RankFacts DEF Staged, Forward, next
<1> QED BY <1>2, <1>3

\* The types of a peer's session that the steps below need.
LEMMA SessionTyped ==
    ASSUME P2PInv, NEW p \in Peers
    PROVE  session[p] \in Session /\ session[p].keys \in Keys /\ session[p].id \in Id
BY DEF P2PInv, LocalInv, Session

\* closeWith, of the session or of what onConnection made of it.
LEMMA CloseWithMoves ==
    ASSUME P2PInv, StagedInv, NEW p \in Peers, NEW hs, NEW abrupt \in BOOLEAN,
           NEW s \in Session, Staged(s), Forward(session[p], s),
           s.id = session[p].id, closeWith(p, s, hs, abrupt)
    PROVE  MovesOf(p)
<1> DEFINE next == closed(s, abrupt)
<1>1. Staged(next) /\ Forward(s, next)
  BY CloseMoves
<1>2. session' = [session EXCEPT ![p] = next]
  BY DEF closeWith
<1>3. next.id = s.id
  BY DEF closed, Session
<1>4. /\ s.status \in Statuses /\ next.status \in Statuses /\ session[p].status \in Statuses
      /\ s.id = session[p].id /\ Forward(session[p], s)
  BY SessionTyped DEF closed, Session, Statuses
<1> HIDE DEF next
<1>5. Forward(session[p], next)
  BY <1>1, <1>3, <1>4, RankFacts DEF Forward
<1> QED BY <1>1, <1>2, <1>5, NextSession

\* A session that stays as it is moves forward.
LEMMA StaysForward ==
    ASSUME P2PInv, NEW p \in Peers
    PROVE  Forward(session[p], session[p])
<1>1. session[p].status \in Statuses
  BY SessionTyped DEF Session
<1> QED BY <1>1, RankFacts DEF Forward

\* Closes and removals by the peer itself, and its handshaker.
LEMMA OwnMoves ==
    ASSUME P2PInv, StagedInv, NEW p \in Peers,
           \/ connect2Peer(p)
           \/ \E abrupt \in BOOLEAN : close(p, abrupt)
           \/ repeatClose(p)
           \/ deleteSession(p)
           \/ removePeer(p)
           \/ sendData(p)
           \/ \E tag \in DOMAIN handshakes[p] :
                 \/ sendHandshake30(p, tag)
                 \/ sendHandshake38(p, tag)
                 \/ lastAttempt(p, tag)
                 \/ releaseCookie(p, tag)
    PROVE  MovesOf(p)
<1>1. session[p] \in Session /\ Staged(session[p]) /\ Forward(session[p], session[p])
  BY SessionTyped, StaysForward DEF StagedInv
<1>2. CASE connect2Peer(p)
  <2> DEFINE new == newSession(p, FALSE, <<p, nextId[p]>>)
  <2>1. session' = [session EXCEPT ![p] = new] /\ session[p].id = NoId
    BY <1>2 DEF connect2Peer
  <2>2. new.id # NoId
    BY IdFacts DEF newSession, P2PInv
  <2>3. new.status = "STOPPED" /\ new.keys = NoKeys /\ ~new.responder
    BY DEF newSession
  <2> HIDE DEF new
  <2>4. Staged(new) /\ Forward(session[p], new)
    BY <2>1, <2>2, <2>3 DEF Staged, Forward
  <2> QED BY <2>1, <2>4, NextSession
<1>3. CASE \E abrupt \in BOOLEAN : close(p, abrupt)
  BY <1>1, <1>3, CloseWithMoves DEF close
<1>4. CASE deleteSession(p) \/ removePeer(p)
  <2>1. session' = [session EXCEPT ![p] = NoSession] /\ session[p].status # "NONE"
    BY <1>4 DEF deleteSession, removePeer, Connecting
  <2>2. session[p].id # NoId /\ NoSession.id = NoId
    BY <1>1, <2>1 DEF Staged, NoSession
  <2>3. Staged(NoSession) /\ Forward(session[p], NoSession)
    BY <2>2 DEF Staged, Forward, NoSession
  <2> QED BY <2>1, <2>3, NextSession
<1>5. CASE repeatClose(p) \/ sendData(p)
  BY <1>5, SameSession DEF repeatClose, sendData
<1>6. ASSUME NEW tag \in DOMAIN handshakes[p],
             \/ sendHandshake30(p, tag)
             \/ sendHandshake38(p, tag)
             \/ removeHandshake(p, tag)
      PROVE  MovesOf(p)
  <2>1. CASE session' = session
    BY <2>1, SameSession
  <2>2. CASE closeWith(p, session[p], erase(handshakes[p], {tag}), FALSE)
    BY <1>1, <2>2, CloseWithMoves
  <2> QED
    BY <1>6, <2>1, <2>2 DEF sendHandshake30, sendHandshake38, attempt, removeHandshake
<1> QED
  BY <1>2, <1>3, <1>4, <1>5, <1>6 DEF lastAttempt, releaseCookie

\* Messages of a handshake.
LEMMA HandshakeMoves ==
    ASSUME P2PInv, StagedInv, NEW p \in Peers, NEW m \in network,
           handleHandshake30(p, m) \/ handleHandshake70(p, m) \/ sendHandshake78(p, m)
    PROVE  MovesOf(p)
<1> DEFINE s == session[p]
<1>1. s \in Session /\ Staged(s) /\ Forward(s, s)
  BY SessionTyped, StaysForward DEF StagedInv
<1>2. CASE handleHandshake30(p, m)
  BY <1>2, SameSession DEF handleHandshake30
<1>3. CASE handleHandshake70(p, m)
  <2> DEFINE next == [s EXCEPT !.status = "HANDSHAKE38"]
  <2>1. s.status = "STOPPED" /\ session' = [session EXCEPT ![p] = next]
    BY <1>3 DEF handleHandshake70, P2PInv
  <2>2. /\ next.id = s.id /\ next.responder = s.responder
        /\ next.keys = s.keys /\ next.status = "HANDSHAKE38"
    BY <1>1 DEF Session
  <2> HIDE DEF next
  <2>3. Staged(next) /\ Forward(s, next)
    BY <1>1, <2>1, <2>2, RankFacts DEF Staged, Forward
  <2> QED BY <2>1, <2>3, NextSession
<1>4. CASE sendHandshake78(p, m)
  <2>1. PICK tag \in withCookie(p, m.cookie) :
           \/ s.id = NoId /\ answers(p, newSession(p, TRUE, tag), tag, m)
           \/ accepts(p, s) /\ answers(p, s, tag, m)
           \/ removeHandshake(p, tag)
    BY <1>4 DEF sendHandshake78, refuses
  <2>2. CASE s.id = NoId /\ answers(p, newSession(p, TRUE, tag), tag, m)
    <3> DEFINE next == answered(newSession(p, TRUE, tag), tag, m)
    <3>1. session' = [session EXCEPT ![p] = next]
      BY <2>2 DEF answers
    <3>2. next.id = <<p, nextId[p]>> /\ next.status = "HANDSHAKE78"
      BY DEF answered, newSession
    <3>3. next.id # NoId
      BY <3>2, IdFacts DEF P2PInv
    <3> HIDE DEF next
    <3>4. Staged(next) /\ Forward(s, next)
      BY <2>2, <3>2, <3>3 DEF Staged, Forward
    <3> QED BY <3>1, <3>4, NextSession
  <2>3. CASE accepts(p, s) /\ answers(p, s, tag, m)
    <3>1. Staged(answered(s, tag, m)) /\ Forward(s, answered(s, tag, m))
      BY <1>1, <2>3, AnsweredMoves DEF accepts
    <3>2. session' = [session EXCEPT ![p] = answered(s, tag, m)]
      BY <2>3 DEF answers
    <3> QED BY <3>1, <3>2, NextSession
  <2>4. CASE removeHandshake(p, tag)
    BY <1>1, <2>4, SameSession, CloseWithMoves DEF removeHandshake
  <2> QED BY <2>1, <2>2, <2>3, <2>4
<1> QED BY <1>2, <1>3, <1>4

\* Handshake 78 and what is received under the keys.
LEMMA KeysMoves ==
    ASSUME P2PInv, StagedInv, NEW p \in Peers, NEW m \in network,
           sendConnect(p, m) \/ receiveData(p, m) \/ receiveClose(p, m)
    PROVE  MovesOf(p)
<1> DEFINE s == session[p]
           first == [initiator |-> m.id, responder |-> m.from]
<1>1. s \in Session /\ Staged(s) /\ s.keys \in Keys /\ Forward(s, s)
  BY SessionTyped, StaysForward DEF StagedInv
<1>2. [s EXCEPT !.keys = s.keys] = s
  BY <1>1 DEF Session
<1>3. ASSUME NEW keys \in Keys, s.status \in Connecting, s.keys # NoKeys => keys = s.keys,
             onConnection(p, [s EXCEPT !.keys = keys])
      PROVE  MovesOf(p)
  <2> DEFINE next == connected([s EXCEPT !.keys = keys])
  <2>1. next \in Session /\ Staged(next) /\ Forward(s, next) /\ next.id = s.id
    BY <1>1, <1>3, ConnectedMoves
  <2>2. \/ session' = [session EXCEPT ![p] = next]
        \/ \E hs : closeWith(p, next, hs, FALSE)
    BY <1>3 DEF onConnection
  <2> HIDE DEF next
  <2> QED BY <2>1, <2>2, NextSession, CloseWithMoves
<1>4. CASE sendConnect(p, m)
  <2>1. first \in Keys
    BY DEF P2PInv, Sent, Message, Keys
  <2>2. s.status = "HANDSHAKE38" /\ onConnection(p, [s EXCEPT !.keys = first])
    BY <1>4 DEF sendConnect
  <2>3. s.keys = NoKeys /\ s.status \in Connecting
    BY <1>1, <2>2 DEF Staged, Connecting
  <2> QED BY <1>3, <2>1, <2>2, <2>3
<1>5. CASE receiveData(p, m)
  <2>1. s.status \in Connecting /\ onConnection(p, [s EXCEPT !.keys = s.keys])
    BY <1>2, <1>5 DEF receiveData, Connecting
  <2> QED BY <1>1, <1>3, <2>1
<1>6. CASE receiveClose(p, m)
  <2>1. CASE s.status = "HANDSHAKE78"
    <3> DEFINE next == connected([s EXCEPT !.keys = s.keys])
    <3>1. next \in Session /\ Staged(next) /\ Forward(s, next) /\ next.id = s.id
      BY <1>1, <2>1, ConnectedMoves DEF Connecting
    <3>2. closeWith(p, next, erase(handshakes[p], {s.handshake}), TRUE)
      BY <1>2, <1>6, <2>1 DEF receiveClose
    <3> HIDE DEF next
    <3> QED BY <3>1, <3>2, CloseWithMoves
  <2>2. CASE s.status # "HANDSHAKE78"
    BY <1>1, <1>6, <2>2, CloseWithMoves DEF receiveClose
  <2> QED BY <2>1, <2>2
<1> QED BY <1>4, <1>5, <1>6

\* Every step moves one session forward or none.
LEMMA StagedStep ==
    ASSUME P2PInv, StagedInv, [P2PNext]_p2pVars
    PROVE  /\ StagedInv'
           /\ \A p \in Peers : Forward(session[p], session'[p])
<1>1. CASE UNCHANGED p2pVars
  BY <1>1, StaysForward DEF p2pVars, StagedInv
<1>2. ASSUME NEW p \in Peers, MovesOf(p)
      PROVE  /\ StagedInv'
             /\ \A q \in Peers : Forward(session[q], session'[q])
  BY <1>2, StaysForward DEF MovesOf, StagedInv
<1>3. CASE P2PNext
  BY <1>2, <1>3, OwnMoves, HandshakeMoves, KeysMoves DEF P2PNext, receive
<1> QED BY <1>1, <1>3

\* No session goes back in the order of SessionStatus, from responder to
\* initiator or to other keys, whatever messages come late, again or crossed
\* (P2PSession::onHandshake38, sendHandshake78, onConnection, close).
THEOREM SessionsMoveForward == P2PSpec => SessionMovesForward
<1>1. P2PInit => StagedInv
  <2>1. Staged(NoSession)
    BY DEF Staged, NoSession
  <2> QED BY <2>1 DEF P2PInit, StagedInv
<1>2. P2PInv /\ StagedInv /\ [P2PNext]_p2pVars =>
          /\ StagedInv'
          /\ [\A p \in Peers : session'[p].id = session[p].id =>
                 /\ rank[session'[p].status] >= rank[session[p].status]
                 /\ session[p].responder => session'[p].responder
                 /\ session[p].keys # NoKeys => session'[p].keys = session[p].keys]_p2pVars
  BY StagedStep DEF Forward
<1> QED
  BY <1>1, <1>2, P2PInvariant, PTL DEF P2PSpec, SessionMovesForward

-----------------------------------------------------------------------------
(* The keys of both ends                                                   *)

\* What a message says of its sender, as long as this session exists: a 38 comes
\* from an initiator, which only gives way if its id is the smaller one, a 78 from
\* a responder.
Truthful(m) ==
    LET q == other(m.to) IN
    m.type \in {"38", "78"} =>
        /\ m.from \in Fresh(q, nextId[q]) \ {NoId}
        /\ m.from = session[q].id =>
              IF m.type = "38"
              THEN session[q].status # "STOPPED" /\ (session[q].responder => q < m.to)
              ELSE session[q].responder

\* A message of this type from the session `from` to p.
Received(p, type, from) == \E m \in network : m.type = type /\ m.to = p /\ m.from = from

\* The keys hold the nonce of the session itself and one that was received.
Earned(p, s) ==
    IF s.responder
    THEN s.keys.responder = s.id /\ Received(p, "38", s.keys.initiator)
    ELSE s.keys.initiator = s.id /\ Received(p, "78", s.keys.responder)

KeysInv ==
    /\ \A m \in network : Truthful(m)
    /\ \A p \in Peers : session[p].keys # NoKeys => Earned(p, session[p])

\* What a step of p may do to its session, its counter and the network.
StepOf(p) ==
    LET s == session[p]
        next == session'[p]
    IN /\ \A q \in Peers \ {p} : nextId'[q] = nextId[q]
       /\ nextId'[p] \in {nextId[p], nextId[p] + 1}
       /\ \/ next.id = s.id
          \/ next.id = NoId
          \/ next.id = <<p, nextId[p]>> /\ nextId'[p] = nextId[p] + 1
       /\ network \subseteq network'
       /\ \A m \in network' \ network :
             m.type \in {"38", "78"} =>
                 /\ m.to = other(p) /\ m.from = next.id
                 /\ next.id # NoId /\ next.status # "STOPPED"
                 /\ next.responder <=> m.type = "78"
       /\ next.id = s.id /\ ~s.responder /\ next.responder =>
             s.status = "STOPPED" \/ p < other(p)
       /\ \/ next.keys = NoKeys
          \/ next.keys = s.keys /\ next.id = s.id /\ next.responder = s.responder
          \/ Earned(p, next)

\* Each peer is the other's other, and their ids are different numbers.
LEMMA Opposite ==
    ASSUME NEW p \in Peers
    PROVE  /\ other(p) \in Peers /\ other(p) # p /\ other(other(p)) = p
           /\ \A q \in Peers : q # p => q = other(p)
           /\ p \in Nat /\ other(p) \in Nat
<1>1. PICK q \in Peers : q # p /\ Peers = {p, q}
  BY PeersAssumption
<1>2. other(p) \in Peers /\ other(p) # p /\ other(other(p)) \in Peers /\ other(other(p)) # other(p)
  BY IdFacts
<1> QED BY <1>1, <1>2, PeersAssumption

\* Two ends whose keys are earned and that name each other have the same keys.
LEMMA KeysAreMutual == ASSUME P2PInv, KeysInv PROVE MutualKeys
<1> SUFFICES ASSUME NEW p \in Peers,
                    session[p].keys # NoKeys, session[other(p)].keys # NoKeys,
                    farId(session[p]) = session[other(p)].id,
                    farId(session[other(p)]) = session[p].id
             PROVE  /\ session[p].keys = session[other(p)].keys
                    /\ session[p].responder # session[other(p)].responder
  BY DEF MutualKeys
<1> DEFINE q == other(p)
           mine == session[p]
           far == session[q]
<1>1. q \in Peers /\ other(q) = p /\ p \in Nat /\ q \in Nat /\ p # q
  BY Opposite
<1>2. mine \in Session /\ far \in Session
  BY <1>1, SessionTyped
<1>3. Earned(p, mine) /\ Earned(q, far)
  BY <1>1 DEF KeysInv
<1>4. farId(mine) = far.id /\ farId(far) = mine.id
  OBVIOUS
<1>5. /\ mine.keys = [initiator |-> mine.keys.initiator, responder |-> mine.keys.responder]
      /\ far.keys = [initiator |-> far.keys.initiator, responder |-> far.keys.responder]
      /\ mine.responder \in BOOLEAN /\ far.responder \in BOOLEAN
  BY <1>2 DEF Session, Keys
<1>6. \A m \in network : Truthful(m)
  BY DEF KeysInv
<1> HIDE DEF q, mine, far
<1>7. CASE mine.responder /\ far.responder
  <2>1. Received(p, "38", far.id) /\ Received(q, "38", mine.id)
    BY <1>3, <1>4, <1>7 DEF Earned, farId
  <2>2. q < p
    BY <1>1, <1>6, <1>7, <2>1 DEF Received, Truthful, far, q
  <2>3. p < q
    BY <1>1, <1>6, <1>7, <2>1 DEF Received, Truthful, mine
  <2> QED BY <1>1, <2>2, <2>3
<1>8. CASE ~mine.responder /\ ~far.responder
  <2>1. Received(p, "78", far.id)
    BY <1>3, <1>4, <1>8 DEF Earned, farId
  <2>2. far.responder
    BY <1>1, <1>6, <2>1 DEF Received, Truthful, far, q
  <2> QED BY <1>8, <2>2
<1>9. CASE mine.responder /\ ~far.responder
  BY <1>3, <1>4, <1>5, <1>9 DEF Earned, farId, mine, far, q
<1>10. CASE ~mine.responder /\ far.responder
  BY <1>3, <1>4, <1>5, <1>10 DEF Earned, farId, mine, far, q
<1> QED BY <1>5, <1>7, <1>8, <1>9, <1>10

\* A step of p leaves what the messages say of their senders true, and every key
\* earned.
LEMMA KeysKept ==
    ASSUME P2PInv, P2PInv', StagedInv, KeysInv, NEW p \in Peers, MovesOf(p), StepOf(p)
    PROVE  KeysInv'
<1> DEFINE s == session[p]
           next == session'[p]
<1>1. /\ nextId[p] \in Nat /\ nextId'[p] \in {nextId[p], nextId[p] + 1}
      /\ \A q \in Peers \ {p} : nextId'[q] = nextId[q] /\ session'[q] = session[q]
      /\ network \subseteq network'
  BY DEF P2PInv, StepOf, MovesOf
<1>2. /\ s.status \in Statuses /\ next.status \in Statuses /\ next.id \in Fresh(p, nextId'[p])
      /\ Staged(s) /\ Forward(s, next)
  BY DEF P2PInv, LocalInv, Session, StagedInv, MovesOf
<1>3. ASSUME NEW m \in network' PROVE Truthful(m)'
  <2> DEFINE q == other(m.to)
  <2>1. m.to \in Peers /\ q \in Peers /\ m.to = other(q)
    BY Opposite DEF P2PInv, Sent, Message
  <2>2. CASE m \in network /\ q # p
    <3>1. Truthful(m)
      BY <2>2 DEF KeysInv
    <3>2. session'[q] = session[q] /\ nextId'[q] = nextId[q]
      BY <1>1, <2>1, <2>2
    <3> QED BY <3>1, <3>2 DEF Truthful
  <2>3. CASE m \in network /\ q = p /\ m.type \in {"38", "78"}
    <3>1. /\ m.from \in Fresh(p, nextId[p]) \ {NoId}
          /\ m.from = s.id =>
                IF m.type = "38"
                THEN s.status # "STOPPED" /\ (s.responder => p < m.to)
                ELSE s.responder
      BY <2>3 DEF KeysInv, Truthful
    <3>2. m.from \in Fresh(p, nextId'[p]) \ {NoId} /\ m.from # <<p, nextId[p]>>
      BY <1>1, <3>1 DEF Fresh
    <3>3. ASSUME m.from = next.id
          PROVE  IF m.type = "38"
                 THEN next.status # "STOPPED" /\ (next.responder => p < m.to)
                 ELSE next.responder
      <4>1. next.id = s.id
        BY <3>2, <3>3 DEF StepOf
      <4>2. /\ rank[next.status] >= rank[s.status] /\ s.status # "NONE"
            /\ s.responder => next.responder
        BY <1>2, <3>2, <3>3, <4>1 DEF Forward, Staged
      <4>3. CASE m.type = "38"
        <5>1. s.status # "STOPPED" /\ (s.responder => p < m.to)
          BY <3>1, <3>3, <4>1, <4>3
        <5>2. next.status # "STOPPED"
          BY <1>2, <4>2, <5>1, RankFacts DEF Statuses
        <5>3. next.responder => p < m.to
          BY <2>1, <2>3, <4>1, <5>1 DEF StepOf
        <5> QED BY <4>3, <5>2, <5>3
      <4>4. CASE m.type # "38"
        BY <3>1, <3>3, <4>1, <4>2, <4>4
      <4> QED BY <4>3, <4>4
    <3> QED BY <2>3, <3>2, <3>3 DEF Truthful
  <2>4. CASE m \notin network /\ m.type \in {"38", "78"}
    <3>1. /\ m.to = other(p) /\ m.from = next.id
          /\ next.id # NoId /\ next.status # "STOPPED"
          /\ next.responder <=> m.type = "78"
      BY <2>4 DEF StepOf
    <3>2. q = p
      BY <3>1, Opposite
    <3> QED BY <1>2, <2>4, <3>1, <3>2 DEF Truthful
  <2>5. CASE m.type \notin {"38", "78"}
    BY <2>5 DEF Truthful
  <2> QED BY <2>2, <2>3, <2>4, <2>5
<1>4. ASSUME NEW q \in Peers, session'[q].keys # NoKeys
      PROVE  Earned(q, session[q])'
  <2>1. ASSUME NEW type, NEW from, Received(q, type, from)
        PROVE  Received(q, type, from)'
    BY <1>1, <2>1 DEF Received
  <2>2. CASE Earned(q, session'[q])
    BY <2>1, <2>2 DEF Earned
  <2>3. CASE q # p
    <3>1. session'[q] = session[q]
      BY <1>1, <2>3
    <3> QED BY <1>4, <2>2, <3>1 DEF KeysInv
  <2>4. CASE q = p
    <3>1. CASE next.keys = s.keys /\ next.id = s.id /\ next.responder = s.responder
      <4>1. Earned(p, s)
        BY <1>4, <2>4, <3>1 DEF KeysInv
      <4>2. Earned(p, next)
        BY <3>1, <4>1 DEF Earned
      <4> QED BY <2>2, <2>4, <4>2
    <3> QED BY <1>4, <2>2, <2>4, <3>1 DEF StepOf
  <2> QED BY <2>3, <2>4
<1> QED BY <1>3, <1>4 DEF KeysInv

\* A step that sends no 38 or 78 and changes at most status and handshake.
LEMMA QuietStep ==
    ASSUME P2PInv, NEW p \in Peers, NEW next,
           session' = [session EXCEPT ![p] = next],
           next.id = session[p].id, next.responder = session[p].responder,
           next.keys = session[p].keys,
           network \subseteq network', nextId' = nextId,
           \A m \in network' \ network : m.type \notin {"38", "78"}
    PROVE  StepOf(p)
<1>1. session'[p] = next
  BY DEF P2PInv
<1> QED BY <1>1 DEF StepOf

\* The same when nothing but the network may change.
LEMMA SilentStep ==
    ASSUME P2PInv, NEW p \in Peers, session' = session,
           network \subseteq network', nextId' = nextId,
           \A m \in network' \ network : m.type \notin {"38", "78"}
    PROVE  StepOf(p)
<1>1. session' = [session EXCEPT ![p] = session[p]]
  BY DEF P2PInv
<1> QED BY <1>1, QuietStep

\* The types of messages.
LEMMA MessageTypes ==
    ASSUME NEW p \in Peers
    PROVE  /\ \A tag : handshake30(p, tag).type = "30"
           /\ \A tag, cookie : handshake70(p, tag, cookie).type = "70"
           /\ \A from, cookie : /\ handshake38(p, from, cookie).type = "38"
                                /\ handshake38(p, from, cookie).to = other(p)
                                /\ handshake38(p, from, cookie).from = from
           /\ \A to, from : /\ handshake78(p, to, from).type = "78"
                            /\ handshake78(p, to, from).to = other(p)
                            /\ handshake78(p, to, from).from = from
           /\ \A s : sealed(p, s, "DATA").type = "DATA" /\ sealed(p, s, "CLOSE").type = "CLOSE"
BY DEF handshake30, handshake70, handshake38, handshake78, sealed, message

\* A close chunk, whether the close is abrupt or not.
LEMMA ChunkType ==
    ASSUME NEW p, NEW s, NEW abrupt, NEW m \in closeChunk(p, s, abrupt)
    PROVE  m.type = "CLOSE"
<1>1. m = sealed(p, s, "CLOSE")
  BY DEF closeChunk
<1> QED BY <1>1 DEF sealed, message

\* A close.
LEMMA CloseWithStep ==
    ASSUME P2PInv, NEW p \in Peers, NEW hs, NEW abrupt, NEW s \in Session,
           s.id = session[p].id, s.responder = session[p].responder, s.keys = session[p].keys,
           closeWith(p, s, hs, abrupt), nextId' = nextId
    PROVE  StepOf(p)
<1> DEFINE next == closed(s, abrupt)
<1>1. next.id = s.id /\ next.responder = s.responder /\ next.keys = s.keys
  BY DEF closed, Session
<1>2. /\ session' = [session EXCEPT ![p] = next]
      /\ network' = network \cup closeChunk(p, s, abrupt)
  BY DEF closeWith
<1> HIDE DEF next
<1>3. \A m \in network' \ network : m.type = "CLOSE"
  BY <1>2, ChunkType
<1> QED BY <1>1, <1>2, <1>3, QuietStep

\* What p does by itself.
LEMMA OwnSends ==
    ASSUME P2PInv, StagedInv, NEW p \in Peers,
           \/ connect2Peer(p)
           \/ \E abrupt \in BOOLEAN : close(p, abrupt)
           \/ repeatClose(p)
           \/ deleteSession(p)
           \/ removePeer(p)
           \/ sendData(p)
           \/ \E tag \in DOMAIN handshakes[p] :
                 \/ sendHandshake30(p, tag)
                 \/ sendHandshake38(p, tag)
                 \/ lastAttempt(p, tag)
                 \/ releaseCookie(p, tag)
    PROVE  StepOf(p)
<1>1. session[p] \in Session /\ Staged(session[p])
  BY SessionTyped DEF StagedInv
<1>2. CASE connect2Peer(p)
  <2> DEFINE new == newSession(p, FALSE, <<p, nextId[p]>>)
  <2>1. /\ session' = [session EXCEPT ![p] = new] /\ nextId' = [nextId EXCEPT ![p] = @ + 1]
        /\ network' = network /\ session[p].id = NoId
    BY <1>2 DEF connect2Peer
  <2>2. new.id = <<p, nextId[p]>> /\ new.keys = NoKeys
    BY DEF newSession
  <2>3. new.id # NoId
    BY <2>2, IdFacts DEF P2PInv
  <2> HIDE DEF new
  <2>4. session'[p] = new /\ nextId'[p] = nextId[p] + 1 /\ \A q \in Peers \ {p} : nextId'[q] = nextId[q]
    BY <2>1 DEF P2PInv
  <2> QED BY <2>1, <2>2, <2>3, <2>4 DEF StepOf
<1>3. CASE \E abrupt \in BOOLEAN : close(p, abrupt)
  BY <1>1, <1>3, CloseWithStep DEF close
<1>4. CASE repeatClose(p) \/ sendData(p)
  BY <1>4, SilentStep, MessageTypes DEF repeatClose, sendData
<1>5. CASE deleteSession(p) \/ removePeer(p)
  <2>1. /\ session' = [session EXCEPT ![p] = NoSession] /\ session[p].status # "NONE"
        /\ nextId' = nextId /\ network \subseteq network'
        /\ \A m \in network' \ network : m.type = "CLOSE"
    <3>1. CASE deleteSession(p)
      <4>1. \A m \in closeChunk(p, session[p], TRUE) : m.type = "CLOSE"
        BY ChunkType
      <4> QED BY <3>1, <4>1 DEF deleteSession
    <3>2. CASE removePeer(p)
      BY <3>2 DEF removePeer, Connecting
    <3> QED BY <1>5, <3>1, <3>2
  <2>2. session[p].id # NoId
    BY <1>1, <2>1 DEF Staged
  <2>3. session'[p] = NoSession /\ NoSession.id = NoId /\ NoSession.keys = NoKeys
    BY <2>1 DEF P2PInv, NoSession
  <2> QED BY <2>1, <2>2, <2>3 DEF StepOf
<1>6. ASSUME NEW tag \in DOMAIN handshakes[p], sendHandshake30(p, tag)
      PROVE  StepOf(p)
  BY <1>6, SilentStep, MessageTypes DEF sendHandshake30, attempt
<1>7. ASSUME NEW tag \in DOMAIN handshakes[p], sendHandshake38(p, tag)
      PROVE  StepOf(p)
  <2> DEFINE sent == handshake38(p, tag, handshakes[p][tag].cookieReceived)
  <2>1. /\ tag = session[p].id /\ session[p].status = "HANDSHAKE38"
        /\ session' = session /\ nextId' = nextId /\ network' = network \cup {sent}
    BY <1>7 DEF sendHandshake38, attempt, repeats
  <2>2. sent.type = "38" /\ sent.to = other(p) /\ sent.from = session[p].id
    BY <2>1, MessageTypes
  <2>3. session[p].id # NoId /\ ~session[p].responder
    BY <1>1, <2>1 DEF Staged
  <2> HIDE DEF sent
  <2> QED BY <2>1, <2>2, <2>3 DEF StepOf
<1>8. ASSUME NEW tag \in DOMAIN handshakes[p], removeHandshake(p, tag), nextId' = nextId
      PROVE  StepOf(p)
  <2>1. CASE UNCHANGED <<session, network>>
    BY <1>8, <2>1, SilentStep
  <2>2. CASE closeWith(p, session[p], erase(handshakes[p], {tag}), FALSE)
    BY <1>1, <1>8, <2>2, CloseWithStep
  <2> QED BY <1>8, <2>1, <2>2 DEF removeHandshake
<1> QED
  BY <1>2, <1>3, <1>4, <1>5, <1>6, <1>7, <1>8 DEF lastAttempt, releaseCookie

\* Messages of a handshake.
LEMMA HandshakeSends ==
    ASSUME P2PInv, StagedInv, KeysInv, NEW p \in Peers, NEW m \in network, m.to = p,
           handleHandshake30(p, m) \/ handleHandshake70(p, m) \/ sendHandshake78(p, m)
    PROVE  StepOf(p)
<1> DEFINE s == session[p]
<1>1. s \in Session /\ Staged(s)
  BY SessionTyped DEF StagedInv
<1>2. CASE handleHandshake30(p, m)
  <2>1. /\ session' = session /\ nextId' = nextId /\ network \subseteq network'
        /\ \A sent \in network' \ network : sent.type = "70"
    BY <1>2, MessageTypes DEF handleHandshake30
  <2> QED BY <2>1, SilentStep
<1>3. CASE handleHandshake70(p, m)
  <2> DEFINE next == [s EXCEPT !.status = "HANDSHAKE38"]
             sent == handshake38(p, s.id, m.cookie)
  <2>1. /\ s.status = "STOPPED" /\ session' = [session EXCEPT ![p] = next]
        /\ nextId' = nextId /\ network' = network \cup {sent}
    BY <1>3 DEF handleHandshake70, P2PInv
  <2>2. /\ next.id = s.id /\ next.responder = s.responder
        /\ next.keys = s.keys /\ next.status = "HANDSHAKE38"
    BY <1>1 DEF Session
  <2>3. s.id # NoId /\ ~s.responder
    BY <1>1, <2>1 DEF Staged
  <2>4. sent.type = "38" /\ sent.to = other(p) /\ sent.from = s.id
    BY MessageTypes
  <2> HIDE DEF next, sent
  <2>5. session'[p] = next
    BY <2>1 DEF P2PInv
  <2> QED BY <2>1, <2>2, <2>3, <2>4, <2>5 DEF StepOf
<1>4. CASE sendHandshake78(p, m)
  <2>1. m.type = "38"
    BY <1>4 DEF sendHandshake78
  <2>2. PICK tag \in withCookie(p, m.cookie) :
           \/ /\ s.id = NoId /\ answers(p, newSession(p, TRUE, tag), tag, m)
              /\ nextId' = [nextId EXCEPT ![p] = @ + 1]
           \/ /\ s.id # NoId /\ accepts(p, s) /\ answers(p, s, tag, m) /\ nextId' = nextId
           \/ removeHandshake(p, tag) /\ nextId' = nextId
    BY <1>4 DEF sendHandshake78, refuses
  <2>3. ASSUME NEW old, NEW next, answers(p, old, tag, m), next = answered(old, tag, m)
        PROVE  /\ session'[p] = next
               /\ network \subseteq network'
               /\ \A sent \in network' \ network :
                     sent.type = "78" /\ sent.to = other(p) /\ sent.from = old.id
    BY <2>3, MessageTypes DEF answers, P2PInv
  <2>4. CASE /\ s.id = NoId /\ answers(p, newSession(p, TRUE, tag), tag, m)
             /\ nextId' = [nextId EXCEPT ![p] = @ + 1]
    <3> DEFINE new == newSession(p, TRUE, tag)
               next == answered(new, tag, m)
    <3>1. /\ new.id = <<p, nextId[p]>> /\ next.id = new.id /\ next.status = "HANDSHAKE78"
          /\ next.responder = TRUE
          /\ next.keys.initiator = m.from /\ next.keys.responder = next.id
      BY DEF answered, newSession
    <3>2. new.id # NoId
      BY <3>1, IdFacts DEF P2PInv
    <3>3. /\ session'[p] = next /\ network \subseteq network'
          /\ \A sent \in network' \ network :
                sent.type = "78" /\ sent.to = other(p) /\ sent.from = new.id
      BY <2>3, <2>4
    <3>4. /\ nextId'[p] = nextId[p] + 1
          /\ \A q \in Peers \ {p} : nextId'[q] = nextId[q]
      BY <2>4 DEF P2PInv
    <3> HIDE DEF new, next
    <3>5. Earned(p, next)
      BY <2>1, <3>1 DEF Earned, Received
    <3> QED BY <2>4, <3>1, <3>2, <3>3, <3>4, <3>5 DEF StepOf
  <2>5. CASE s.id # NoId /\ accepts(p, s) /\ answers(p, s, tag, m) /\ nextId' = nextId
    <3> DEFINE next == answered(s, tag, m)
    <3>1. /\ session'[p] = next /\ network \subseteq network'
          /\ \A sent \in network' \ network :
                sent.type = "78" /\ sent.to = other(p) /\ sent.from = s.id
      BY <2>3, <2>5
    <3>2. /\ s.status \in Connecting
          /\ s.responder \/ s.status = "STOPPED" \/ p < other(p)
      BY <2>5 DEF accepts
    <3>3. s.status = "HANDSHAKE78" => s.responder
      BY DEF P2PInv, LocalInv, Owned
    <3>4. CASE s.status # "HANDSHAKE78"
      <4>1. /\ next.id = s.id /\ next.status = "HANDSHAKE78" /\ next.responder = TRUE
            /\ next.keys.initiator = m.from /\ next.keys.responder = s.id
        BY <1>1, <3>4 DEF answered, Session
      <4> HIDE DEF next
      <4>2. Earned(p, next)
        BY <2>1, <4>1 DEF Earned, Received
      <4> QED BY <2>5, <3>1, <3>2, <4>1, <4>2 DEF StepOf
    <3>5. CASE s.status = "HANDSHAKE78"
      <4>1. /\ next.id = s.id /\ next.status = "HANDSHAKE78"
            /\ next.responder = s.responder /\ next.keys = s.keys
        BY <1>1, <3>5 DEF answered, Session
      <4> HIDE DEF next
      <4> QED BY <2>5, <3>1, <3>3, <3>5, <4>1 DEF StepOf
    <3> QED BY <3>4, <3>5
  <2>6. CASE removeHandshake(p, tag) /\ nextId' = nextId
    BY <1>1, <2>6, SilentStep, CloseWithStep DEF removeHandshake
  <2> QED BY <2>2, <2>4, <2>5, <2>6
<1> QED BY <1>2, <1>3, <1>4

\* Handshake 78 and what is received under the keys.
LEMMA KeysSends ==
    ASSUME P2PInv, StagedInv, KeysInv, NEW p \in Peers, NEW m \in network, m.to = p,
           sendConnect(p, m) \/ receiveData(p, m) \/ receiveClose(p, m)
    PROVE  StepOf(p)
<1> DEFINE s == session[p]
<1>1. s \in Session /\ Staged(s)
  BY SessionTyped DEF StagedInv
<1>2. CASE sendConnect(p, m)
  <2> DEFINE first == [initiator |-> m.id, responder |-> m.from]
             met == [s EXCEPT !.keys = first]
             next == session'[p]
  <2>1. m.type = "78" /\ m.id = s.id /\ s.status = "HANDSHAKE38" /\ onConnection(p, met)
    BY <1>2 DEF sendConnect
  <2>2. ~s.responder
    BY <1>1, <2>1 DEF Staged
  <2>3. first \in Keys
    BY DEF P2PInv, Sent, Message, Keys
  <2>4. /\ connected(met).id = s.id /\ connected(met).responder = s.responder
        /\ connected(met).keys = first /\ connected(met) \in Session
    BY <1>1, <2>3, IdFacts DEF connected, Session, Statuses
  <2>5. /\ closed(connected(met), FALSE).id = s.id
        /\ closed(connected(met), FALSE).responder = s.responder
        /\ closed(connected(met), FALSE).keys = first
    BY <2>4 DEF closed, Session
  <2>6. /\ next = connected(met) \/ next = closed(connected(met), FALSE)
        /\ nextId' = nextId /\ network \subseteq network'
        /\ \A sent \in network' \ network : sent.type = "CLOSE"
    <3> DEFINE now == connected(met)
               chunk == closeChunk(p, now, FALSE)
    <3>1. \/ session' = [session EXCEPT ![p] = now] /\ network' = network
          \/ session' = [session EXCEPT ![p] = closed(now, FALSE)] /\ network' = network \cup chunk
      BY <2>1 DEF onConnection, closeWith
    <3>2. \A sent \in chunk : sent.type = "CLOSE"
      BY ChunkType DEF chunk
    <3>3. nextId' = nextId
      BY <1>2 DEF sendConnect
    <3> HIDE DEF now, chunk
    <3> QED BY <3>1, <3>2, <3>3 DEF P2PInv, now
  <2>7. /\ next.id = s.id /\ next.responder = s.responder
        /\ next.keys.initiator = m.id /\ next.keys.responder = m.from
    <3>1. first.initiator = m.id /\ first.responder = m.from
      OBVIOUS
    <3> HIDE DEF first, met, next
    <3> QED BY <2>4, <2>5, <2>6, <3>1
  <2> HIDE DEF next
  <2>8. Earned(p, next)
    BY <2>1, <2>2, <2>7 DEF Earned, Received
  <2> QED BY <2>6, <2>7, <2>8 DEF StepOf, next
<1>3. /\ connected(s).id = s.id /\ connected(s).responder = s.responder
      /\ connected(s).keys = s.keys /\ connected(s) \in Session
  BY <1>1, IdFacts DEF connected, Session, Statuses
<1>4. CASE receiveData(p, m)
  BY <1>3, <1>4, QuietStep, CloseWithStep DEF receiveData, onConnection
<1>5. CASE receiveClose(p, m)
  BY <1>1, <1>3, <1>5, CloseWithStep DEF receiveClose
<1> QED BY <1>2, <1>4, <1>5

\* All steps of a peer.
LEMMA PeerStep ==
    ASSUME P2PInv, P2PInv', StagedInv, KeysInv, P2PNext
    PROVE  KeysInv'
<1>1. ASSUME NEW p \in Peers, MovesOf(p), StepOf(p)
      PROVE  KeysInv'
  BY <1>1, KeysKept
<1>2. ASSUME NEW p \in Peers, NEW m \in network, receive(p, m)
      PROVE  KeysInv'
  <2>1. MovesOf(p)
    BY <1>2, HandshakeMoves, KeysMoves DEF receive
  <2>2. StepOf(p)
    BY <1>2, HandshakeSends, KeysSends DEF receive
  <2> QED BY <1>1, <2>1, <2>2
<1> QED BY <1>1, <1>2, OwnMoves, OwnSends DEF P2PNext

\* Two sessions that write to each other have the same keys and opposite roles,
\* also when their handshakes crossed and one of them switched to responder
\* (P2PSession::onHandshake38): of two peers only the one of the smaller id gives
\* way, and none gives way back.
THEOREM KeysMutual == P2PSpec => []MutualKeys
<1>1. P2PInit => StagedInv /\ KeysInv
  <2>1. Staged(NoSession) /\ NoSession.keys = NoKeys
    BY DEF Staged, NoSession
  <2> QED BY <2>1 DEF P2PInit, StagedInv, KeysInv
<1>2. P2PInv /\ StagedInv /\ [P2PNext]_p2pVars => StagedInv'
  BY StagedStep
<1>3. P2PInv /\ P2PInv' /\ StagedInv /\ KeysInv /\ [P2PNext]_p2pVars => KeysInv'
  <2> SUFFICES ASSUME P2PInv, P2PInv', StagedInv, KeysInv, [P2PNext]_p2pVars PROVE KeysInv'
    OBVIOUS
  <2>1. CASE P2PNext
    BY <2>1, PeerStep
  <2>2. CASE UNCHANGED p2pVars
    BY <2>2 DEF p2pVars, KeysInv, Truthful, Earned, Received
  <2> QED BY <2>1, <2>2
<1>4. P2PInv /\ KeysInv => MutualKeys
  BY KeysAreMutual
<1> QED
  BY <1>1, <1>2, <1>3, <1>4, P2PInvariant, PTL DEF P2PSpec
=============================================================================
