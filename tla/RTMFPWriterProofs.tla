------------------------- MODULE RTMFPWriterProofs -------------------------
(***************************************************************************)
(* Proofs about the writer against any peer, for every value of the        *)
(* constants.                                                              *)
(***************************************************************************)
EXTENDS RTMFPWriterAlone, Integers, TLAPS

-----------------------------------------------------------------------------
(* The steps of the writer whatever its peer, its network and the session  *)
(* around it do: the invariants below are preserved by every one of them,  *)
(* so they hold of any specification that lets the writer make no other.   *)

anyAck == \E ack, lost \in Nat : acquit(ack, lost) /\ UNCHANGED wire

\* The network loses datagrams, the session drops what is not flushed.
outside ==
    /\ wire' \in SUBSET wire
    /\ pending' \in {pending, <<>>}
    /\ UNCHANGED <<wState, wStageAck, wLostCount, repeating, log, threadVars>>

WriterNext ==
    \/ \E size \in Sizes, reliable \in BOOLEAN : newMessage(size, reliable)
    \/ flush
    \/ anyAck
    \/ \E error \in BOOLEAN : close(error) /\ UNCHANGED wire
    \/ consumed
    \/ sendingThread
    \/ outside

\* The writer alone is one of these specifications.
LEMMA AloneStep == [AloneNext]_writerVars => [WriterNext]_writerVars
BY AloneAssumption DEF AloneNext, WriterNext, peerAck, anyAck

-----------------------------------------------------------------------------
(* Covers: what appending, removing and growing a packet does to the       *)
(* stages a sequence of packets covers.                                    *)

\* The fields of a packet that the stages depend on.
LEMMA PacketFields ==
    ASSUME NEW p \in Packet
    PROVE  p.first \in Nat /\ p.fragments \in Nat /\ LastStage(p) = p.first + p.fragments - 1
BY DEF Packet, LastStage

\* An interval of stages is never negative.
LEMMA CoversOrder ==
    ASSUME NEW s \in Seq(Packet), NEW from \in Nat, NEW to \in Nat, Covers(s, from, to)
    PROVE  from <= to
<1>1. CASE s = <<>>
  BY <1>1 DEF Covers
<1>2. CASE s # <<>>
  <2>1. 1 \in 1..Len(s) /\ s[1] \in Packet
    BY <1>2
  <2> QED
    BY <2>1 DEF Covers, LastStage, Packet
<1> QED
  BY <1>1, <1>2

\* A packet that starts after the last stage extends the interval.
LEMMA CoversAppend ==
    ASSUME NEW s \in Seq(Packet), NEW from \in Nat, NEW to \in Nat, Covers(s, from, to),
           NEW p \in Packet, p.first = to + 1, p.fragments > 0
    PROVE  Covers(Append(s, p), from, to + p.fragments)
<1> DEFINE t == Append(s, p)
<1>1. /\ t \in Seq(Packet) /\ Len(t) = Len(s) + 1 /\ t # <<>>
      /\ t[Len(t)] = p
      /\ \A i \in 1..Len(s) : t[i] = s[i]
  OBVIOUS
<1>2. LastStage(p) = to + p.fragments /\ p.fragments \in Nat
  BY DEF LastStage, Packet
<1>3. from <= to
  BY CoversOrder
<1>4. \A i \in 1..Len(s) : LastStage(s[i]) \in Int /\ s[i].first \in Nat
  <2> TAKE i \in 1..Len(s)
  <2>1. s[i] \in Packet
    OBVIOUS
  <2> QED
    BY <2>1, PacketFields
<1>5. t[1].first = from + 1
  BY <1>1 DEF Covers
<1>6. \A i \in 1..Len(t) :
        t[i].fragments > 0 /\ from < t[i].first /\ LastStage(t[i]) <= to + p.fragments
  BY <1>1, <1>2, <1>3, <1>4 DEF Covers
<1>7. \A i, j \in 1..Len(t) : i < j => LastStage(t[i]) < t[j].first
  <2> SUFFICES ASSUME NEW i \in 1..Len(t), NEW j \in 1..Len(t), i < j
               PROVE  LastStage(t[i]) < t[j].first
    OBVIOUS
  <2>1. i \in 1..Len(s) /\ t[i] = s[i]
    BY <1>1
  <2>2. CASE j \in 1..Len(s)
    BY <2>1, <2>2, <1>1 DEF Covers
  <2>3. CASE j = Len(s) + 1
    BY <2>1, <2>3, <1>1, <1>4 DEF Covers
  <2> QED
    BY <2>2, <2>3, <1>1
<1>8. \A i \in 1..(Len(t) - 1) : t[i + 1].first = LastStage(t[i]) + 1
  <2> SUFFICES ASSUME NEW i \in 1..(Len(t) - 1) PROVE t[i + 1].first = LastStage(t[i]) + 1
    OBVIOUS
  <2>1. CASE i = Len(s)
    BY <2>1, <1>1, <1>4 DEF Covers
  <2>2. CASE i # Len(s)
    <3>1. i \in 1..(Len(s) - 1) /\ i \in 1..Len(s) /\ i + 1 \in 1..Len(s)
      BY <2>2, <1>1
    <3> QED
      BY <3>1, <1>1 DEF Covers
  <2> QED
    BY <2>1, <2>2
<1> HIDE DEF t
<1> QED
  BY <1>1, <1>2, <1>5, <1>6, <1>7, <1>8 DEF Covers, t

\* Without its first packet a sequence covers what follows that packet.
LEMMA CoversTail ==
    ASSUME NEW s \in Seq(Packet), NEW from \in Nat, NEW to \in Nat, Covers(s, from, to),
           s # <<>>
    PROVE  /\ Head(s) \in Packet
           /\ from + Head(s).fragments = LastStage(Head(s))
           /\ from + Head(s).fragments \in Nat
           /\ Tail(s) \in Seq(Packet)
           /\ Covers(Tail(s), from + Head(s).fragments, to)
           /\ Head(s).first = from + 1 /\ Head(s).fragments > 0
<1> DEFINE t == Tail(s)
           mid == from + s[1].fragments
<1>1. /\ Head(s) = s[1] /\ s[1] \in Packet /\ t \in Seq(Packet) /\ Len(s) >= 1
      /\ Len(t) = Len(s) - 1 /\ \A i \in 1..Len(t) : t[i] = s[i + 1]
  OBVIOUS
<1>2. /\ s[1].first = from + 1 /\ s[1].fragments > 0 /\ s[1].fragments \in Nat
      /\ mid = LastStage(s[1]) /\ mid \in Nat
  <2>1. 1 \in 1..Len(s) /\ s # <<>>
    BY <1>1
  <2>2. s[1].first = from + 1 /\ s[1].fragments > 0
    BY <2>1 DEF Covers
  <2> QED
    BY <2>2, <1>1, PacketFields
<1>3. \A i \in 1..Len(s) : LastStage(s[i]) \in Int /\ s[i].first \in Nat
  <2> TAKE i \in 1..Len(s)
  <2>1. s[i] \in Packet
    OBVIOUS
  <2> QED
    BY <2>1, PacketFields
<1>4. t = <<>> => mid = to
  <2> HAVE t = <<>>
  <2>1. Len(s) = 1
    BY <1>1
  <2>2. LastStage(s[Len(s)]) = to
    BY <1>1 DEF Covers
  <2> QED
    BY <2>1, <2>2, <1>2
<1>5. t # <<>> => t[1].first = mid + 1 /\ LastStage(t[Len(t)]) = to
  <2> HAVE t # <<>>
  <2>1. Len(t) >= 1 /\ 1 \in 1..Len(t) /\ Len(t) \in 1..Len(t) /\ 1 \in 1..(Len(s) - 1)
    BY <1>1
  <2>2. t[1] = s[2] /\ t[Len(t)] = s[Len(s)]
    BY <2>1, <1>1
  <2> QED
    BY <2>1, <2>2, <1>1, <1>2 DEF Covers
<1>6. \A i \in 1..Len(t) :
        t[i].fragments > 0 /\ mid < t[i].first /\ LastStage(t[i]) <= to
  <2> TAKE i \in 1..Len(t)
  <2>1. i + 1 \in 1..Len(s) /\ 1 \in 1..Len(s) /\ 1 < i + 1 /\ t[i] = s[i + 1]
    BY <1>1
  <2> QED
    BY <2>1, <1>2, <1>3 DEF Covers
<1>7. \A i, j \in 1..Len(t) : i < j => LastStage(t[i]) < t[j].first
  <2> TAKE i, j \in 1..Len(t)
  <2>1. i + 1 \in 1..Len(s) /\ j + 1 \in 1..Len(s) /\ t[i] = s[i + 1] /\ t[j] = s[j + 1]
    BY <1>1
  <2> QED
    BY <2>1 DEF Covers
<1>8. \A i \in 1..(Len(t) - 1) : t[i + 1].first = LastStage(t[i]) + 1
  <2> TAKE i \in 1..(Len(t) - 1)
  <2>1. /\ i + 1 \in 1..(Len(s) - 1) /\ i \in 1..Len(t) /\ i + 1 \in 1..Len(t)
        /\ t[i] = s[i + 1] /\ t[i + 1] = s[(i + 1) + 1]
    BY <1>1
  <2> QED
    BY <2>1 DEF Covers
<1> HIDE DEF t, mid
<1>9. Covers(t, mid, to)
  BY <1>4, <1>5, <1>6, <1>7, <1>8 DEF Covers
<1> QED
  BY <1>1, <1>2, <1>9 DEF t, mid

\* One more fragment in the last packet.
LEMMA CoversGrow ==
    ASSUME NEW s \in Seq(Packet), NEW from \in Nat, NEW to \in Nat,
           NEW p \in Packet, NEW t, t = Append(s, p), Covers(t, from, to),
           NEW q \in Packet, q.first = p.first, q.fragments > 0,
           LastStage(q) = LastStage(p) + 1
    PROVE  Covers(Append(s, q), from, to + 1)
<1> DEFINE u == Append(s, q)
<1>1. /\ Len(t) = Len(s) + 1 /\ t[Len(t)] = p /\ \A i \in 1..Len(s) : t[i] = s[i]
      /\ Len(u) = Len(s) + 1 /\ u[Len(u)] = q /\ \A i \in 1..Len(s) : u[i] = s[i]
      /\ t # <<>> /\ u # <<>> /\ Len(s) \in Nat
  OBVIOUS
<1> HIDE DEF u
<1>2. LastStage(p) = to /\ LastStage(q) = to + 1 /\ p.fragments > 0 /\ q.fragments > 0
  <2>1. Len(t) \in 1..Len(t)
    BY <1>1
  <2> QED
    BY <2>1, <1>1 DEF Covers
<1>3. \A i \in 1..Len(s) : LastStage(s[i]) \in Int /\ s[i].first \in Nat
  <2> TAKE i \in 1..Len(s)
  <2>1. s[i] \in Packet
    OBVIOUS
  <2> QED
    BY <2>1, PacketFields
<1>4. \A i \in 1..Len(t) : u[i].first = t[i].first /\ (i # Len(t) => u[i] = t[i])
  BY <1>1
<1>5. u[1].first = from + 1 /\ LastStage(u[Len(u)]) = to + 1
  <2>1. 1 \in 1..Len(t)
    BY <1>1
  <2> QED
    BY <2>1, <1>1, <1>2, <1>4 DEF Covers
<1>6. \A i \in 1..Len(u) :
        u[i].fragments > 0 /\ from < u[i].first /\ LastStage(u[i]) <= to + 1
  <2> TAKE i \in 1..Len(u)
  <2>1. i \in 1..Len(t) /\ from < u[i].first
    BY <1>1, <1>4 DEF Covers
  <2>2. CASE i = Len(u)
    BY <2>1, <2>2, <1>1, <1>2
  <2>3. CASE i # Len(u)
    <3>1. u[i] = t[i] /\ u[i] = s[i] /\ i \in 1..Len(s)
      BY <2>1, <2>3, <1>1, <1>4
    <3>2. t[i].fragments > 0 /\ LastStage(t[i]) <= to
      BY <2>1 DEF Covers
    <3> QED
      BY <2>1, <3>1, <3>2, <1>3
  <2> QED
    BY <2>2, <2>3
<1>7. \A i, j \in 1..Len(u) : i < j => LastStage(u[i]) < u[j].first
  <2> SUFFICES ASSUME NEW i \in 1..Len(u), NEW j \in 1..Len(u), i < j
               PROVE  LastStage(u[i]) < u[j].first
    OBVIOUS
  <2>1. i \in 1..Len(t) /\ j \in 1..Len(t) /\ i # Len(t)
    BY <1>1
  <2>2. u[i] = t[i] /\ u[j].first = t[j].first
    BY <2>1, <1>4
  <2>3. LastStage(t[i]) < t[j].first
    BY <2>1 DEF Covers
  <2> QED
    BY <2>2, <2>3
<1>8. \A i \in 1..(Len(u) - 1) : u[i + 1].first = LastStage(u[i]) + 1
  <2> TAKE i \in 1..(Len(u) - 1)
  <2>1. i \in 1..(Len(t) - 1) /\ i + 1 \in 1..Len(t) /\ i \in 1..Len(t) /\ i # Len(t)
    BY <1>1
  <2>2. t[i + 1].first = LastStage(t[i]) + 1
    BY <2>1 DEF Covers
  <2> QED
    BY <2>1, <2>2, <1>4
<1>9. Covers(u, from, to + 1)
  BY <1>1, <1>5, <1>6, <1>7, <1>8 DEF Covers
<1> QED
  BY <1>9 DEF u

-----------------------------------------------------------------------------
(* Type correctness *)

\* The offset of the messenger stays inside the message it writes: without
\* it `left` in writeFragment would not be a natural number.
JobFits == job.messages # <<>> => job.offset <= Head(job.messages).size

TypeInv == WriterTypeOK /\ JobFits

\* The runners handed to the sending thread have their type.
LEMMA RunnerTypes ==
    /\ \A ms \in Seq(Message) : Messenger(ms) \in Runner
    /\ \A n \in Nat : Acquiter(n) \in Runner /\ Repeater(n) \in Runner
BY DEF Runner, Messenger, Acquiter, Repeater

LEMMA AppendRunner ==
    \A rs \in Seq(Runner), r \in Runner : Append(rs, r) \in Seq(Runner)
OBVIOUS

LEMMA ConstantTypes ==
    NoJob \in Job /\ NoBuffer \in Packet /\ EndMessage \in Message /\ EndFragment \in Fragment
BY DEF NoJob, Job, NoBuffer, Packet, EndMessage, Message, EndFragment, Fragment

\* What the updates of a job and of a packet keep.
LEMMA JobUpdates ==
    ASSUME NEW j \in Job, NEW n \in Nat
    PROVE  /\ [j EXCEPT !.offset = n, !.after = TRUE] \in Job
           /\ [j EXCEPT !.offset = n, !.after = TRUE].messages = j.messages
           /\ [j EXCEPT !.offset = n, !.after = TRUE].offset = n
           /\ [j EXCEPT !.stageAck = n] \in Job
           /\ [j EXCEPT !.stageAck = n].messages = j.messages
BY DEF Job

LEMMA JobMessages ==
    ASSUME NEW j \in Job, NEW ms \in Seq(Message)
    PROVE  /\ [j EXCEPT !.messages = ms, !.offset = 0, !.after = FALSE] \in Job
           /\ [j EXCEPT !.messages = ms, !.offset = 0, !.after = FALSE].messages = ms
           /\ [j EXCEPT !.messages = ms, !.offset = 0, !.after = FALSE].offset = 0
           /\ [j EXCEPT !.messages = ms] \in Job
           /\ [j EXCEPT !.messages = ms].messages = ms
           /\ [j EXCEPT !.messages = ms].offset = j.offset
BY DEF Job

LEMMA PacketUpdates ==
    ASSUME NEW p \in Packet, NEW f \in Nat, NEW u \in Nat, NEW fs \in Seq(Fragment)
    PROVE  /\ [p EXCEPT !.fragments = f, !.used = u, !.frags = fs] \in Packet
           /\ [p EXCEPT !.fragments = f, !.used = u, !.frags = fs].first = p.first
           /\ [p EXCEPT !.fragments = f, !.used = u, !.frags = fs].fragments = f
           /\ [p EXCEPT !.frags = fs] \in Packet
           /\ [p EXCEPT !.frags = fs].first = p.first
           /\ [p EXCEPT !.frags = fs].fragments = p.fragments
           /\ [p EXCEPT !.frags = fs].reliable = p.reliable
BY DEF Packet

LEMMA NewPacketType ==
    ASSUME NEW n \in Nat, NEW u \in Nat, NEW r \in BOOLEAN, NEW fs \in Seq(Fragment)
    PROVE  [first |-> n, fragments |-> 1, used |-> u, reliable |-> r, frags |-> fs] \in Packet
BY DEF Packet

\* What sent() keeps of a packet.
LEMMA SentPacket ==
    ASSUME NEW p \in Packet
    PROVE  /\ sent(p) \in Packet
           /\ sent(p).first = p.first /\ sent(p).fragments = p.fragments
           /\ sent(p).reliable = p.reliable
<1>1. <<>> \in Seq(Fragment)
  OBVIOUS
<1> QED
  BY <1>1, PacketUpdates DEF sent

LEMMA TypeInit == WriterInit => TypeInv
<1> SUFFICES ASSUME WriterInit PROVE TypeInv
  OBVIOUS
<1>1. NoJob.messages = <<>>
  BY DEF NoJob
<1>2. job \in Job /\ buf \in Packet /\ JobFits
  BY <1>1, ConstantTypes DEF WriterInit, JobFits
<1>3. /\ pending \in Seq(Message) /\ log \in Seq(Message) /\ runners \in Seq(Runner)
      /\ queue \in Seq(Packet) /\ sending \in Seq(Packet)
  BY DEF WriterInit
<1>4. sendable \in 0..SENDABLE_MAX
  BY WriterAssumption DEF WriterInit
<1> QED
  BY <1>2, <1>3, <1>4 DEF WriterInit, TypeInv, WriterTypeOK

\* The fragment that RTMFPMessenger::write is about to write.
LEMMA NextFragmentTypes ==
    ASSUME TypeInv, job.messages # <<>>
    PROVE  /\ Head(job.messages) \in Message /\ Tail(job.messages) \in Seq(Message)
           /\ sizeLeft \in Nat /\ roomLeft \in Nat
           /\ contentSize \in Nat /\ contentSize <= sizeLeft
           /\ nextFragment \in Fragment /\ nextFragment # AbandonFragment
<1> DEFINE m == Head(job.messages)
<1>1. /\ job \in Job /\ buf \in Packet
      /\ job.messages \in Seq(Message) /\ job.offset \in Nat /\ job.after \in BOOLEAN
      /\ buf.used \in Nat
  BY DEF TypeInv, WriterTypeOK, Job, Packet
<1>2. m \in Message /\ m.size \in Nat /\ m.id \in Nat /\ Tail(job.messages) \in Seq(Message)
  <2>1. m \in Message /\ Tail(job.messages) \in Seq(Message)
    BY <1>1
  <2> QED
    BY <2>1 DEF Message
<1>3. sizeLeft \in Nat
  BY <1>1, <1>2 DEF TypeInv, JobFits, sizeLeft
<1>4. roomLeft \in Nat
  BY <1>1, WriterAssumption DEF roomLeft, opensPacket
<1>5. contentSize \in Nat /\ contentSize <= sizeLeft
  BY <1>3, <1>4 DEF contentSize
<1>6. nextFragment \in Fragment
  <2>1. (sizeLeft > contentSize) \in BOOLEAN /\ (opensPacket /\ stageAck = 0) \in BOOLEAN
    OBVIOUS
  <2> HIDE DEF m
  <2>2. CASE contentSize = 0
    BY <2>2, ConstantTypes DEF nextFragment
  <2>3. CASE contentSize # 0
    BY <2>1, <2>3, <1>1, <1>2, <1>5 DEF nextFragment, Fragment, m
  <2> QED
    BY <2>2, <2>3
<1>7. nextFragment # AbandonFragment
  <2>1. EndFragment.end = TRUE /\ AbandonFragment.end = FALSE /\ AbandonFragment.abandon = TRUE
    BY DEF EndFragment, AbandonFragment
  <2>2. CASE contentSize = 0
    BY <2>1, <2>2 DEF nextFragment
  <2>3. CASE contentSize # 0
    <3>1. nextFragment.abandon = FALSE
      BY <2>3 DEF nextFragment
    <3> QED
      BY <2>1, <3>1
  <2> QED
    BY <2>2, <2>3
<1> QED
  BY <1>2, <1>3, <1>4, <1>5, <1>6, <1>7

\* It opens a new packet or is added to the one being filled.
LEMMA WriteFragmentCases ==
    ASSUME TypeInv, writeFragment
    PROVE  /\ buf' \in Packet /\ buf' # NoBuffer
           /\ \/ /\ opensPacket /\ queue' = IF buf = NoBuffer THEN queue ELSE Append(queue, buf)
                 /\ buf'.first = stage + 1 /\ buf'.fragments = 1
                 /\ buf'.reliable = Head(job.messages).reliable
                 /\ buf'.frags = <<nextFragment>>
              \/ /\ ~opensPacket /\ buf # NoBuffer /\ queue' = queue
                 /\ buf'.first = buf.first /\ buf'.fragments = buf.fragments + 1
                 /\ buf'.reliable = buf.reliable
                 /\ buf'.frags = Append(buf.frags, nextFragment)
<1>1. job.messages # <<>> /\ buf \in Packet /\ stage \in Nat
  BY DEF writeFragment, TypeInv, WriterTypeOK
<1>2. /\ Head(job.messages) \in Message /\ contentSize \in Nat /\ nextFragment \in Fragment
  BY <1>1, NextFragmentTypes
<1>3. CASE opensPacket
  <2>1. /\ queue' = IF buf = NoBuffer THEN queue ELSE Append(queue, buf)
        /\ buf' = [first |-> stage + 1, fragments |-> 1, used |-> contentSize,
                   reliable |-> Head(job.messages).reliable, frags |-> <<nextFragment>>]
    BY <1>3 DEF writeFragment, nextStage
  <2>2. /\ <<nextFragment>> \in Seq(Fragment) /\ Head(job.messages).reliable \in BOOLEAN
        /\ stage + 1 \in Nat
    BY <1>1, <1>2 DEF Message
  <2>3. buf' \in Packet
    BY <2>1, <2>2, <1>1, <1>2, NewPacketType
  <2>4. buf'.fragments = 1 /\ NoBuffer.fragments = 0
    BY <2>1 DEF NoBuffer
  <2> QED
    BY <1>3, <2>1, <2>3, <2>4
<1>4. CASE ~opensPacket
  <2>1. /\ queue' = queue /\ buf # NoBuffer
        /\ buf' = [buf EXCEPT !.fragments = buf.fragments + 1, !.used = buf.used + contentSize,
                              !.frags = Append(buf.frags, nextFragment)]
    BY <1>4 DEF writeFragment, opensPacket
  <2>2. buf.frags \in Seq(Fragment) /\ buf.fragments \in Nat /\ buf.used \in Nat
    BY <1>1 DEF Packet
  <2>3. /\ Append(buf.frags, nextFragment) \in Seq(Fragment)
        /\ buf.fragments + 1 \in Nat /\ buf.used + contentSize \in Nat
    BY <2>2, <1>2
  <2>4. /\ buf' \in Packet /\ buf'.first = buf.first /\ buf'.fragments = buf.fragments + 1
        /\ buf'.frags = Append(buf.frags, nextFragment) /\ buf'.reliable = buf.reliable
    <3> DEFINE n == buf.fragments + 1
               u == buf.used + contentSize
               fs == Append(buf.frags, nextFragment)
    <3>1. /\ n \in Nat /\ u \in Nat /\ fs \in Seq(Fragment)
          /\ buf' = [buf EXCEPT !.fragments = n, !.used = u, !.frags = fs]
      BY <2>1, <2>3
    <3> HIDE DEF n, u, fs
    <3>2. ASSUME NEW a \in Nat, NEW b \in Nat, NEW c \in Seq(Fragment),
                 buf' = [buf EXCEPT !.fragments = a, !.used = b, !.frags = c]
          PROVE  /\ buf' \in Packet /\ buf'.first = buf.first /\ buf'.fragments = a
                 /\ buf'.frags = c /\ buf'.reliable = buf.reliable
      BY <3>2, <1>1 DEF Packet
    <3>3. /\ buf' \in Packet /\ buf'.first = buf.first /\ buf'.fragments = n
          /\ buf'.frags = fs /\ buf'.reliable = buf.reliable
      BY <3>1, <3>2
    <3> QED
      BY <3>3 DEF n, fs
  <2>5. buf'.fragments # NoBuffer.fragments
    BY <2>2, <2>4 DEF NoBuffer
  <2> QED
    BY <1>4, <2>1, <2>4, <2>5
<1> QED
  BY <1>3, <1>4

\* Writing a fragment keeps the types: the one step with arithmetic.
LEMMA WriteFragmentTypes ==
    ASSUME TypeInv, writeFragment
    PROVE  TypeInv'
<1>1. job \in Job /\ job.messages # <<>> /\ queue \in Seq(Packet) /\ buf \in Packet
  BY DEF TypeInv, WriterTypeOK, writeFragment
<1>2. /\ job.offset \in Nat /\ job.messages \in Seq(Message) /\ contentSize \in Nat
      /\ Head(job.messages).size \in Nat /\ Tail(job.messages) \in Seq(Message)
  <2>1. Head(job.messages) \in Message
    BY <1>1, NextFragmentTypes
  <2> QED
    BY <1>1, <2>1, NextFragmentTypes DEF Job, Message
<1>3. buf' \in Packet
  BY WriteFragmentCases
<1>4. queue' \in Seq(Packet)
  <2>1. queue' = queue \/ queue' = Append(queue, buf)
    BY WriteFragmentCases
  <2> QED
    BY <2>1, <1>1
<1>5. job' \in Job /\ JobFits'
  <2>1. CASE contentSize < sizeLeft
    <3>1. job' = [job EXCEPT !.offset = job.offset + contentSize, !.after = TRUE]
      BY <2>1 DEF writeFragment
    <3>2. /\ job'.messages = job.messages /\ job'.offset = job.offset + contentSize
          /\ job' \in Job
      <4>1. job.offset + contentSize \in Nat
        BY <1>2
      <4> QED
        BY <3>1, <4>1, <1>1, JobUpdates
    <3>3. job.offset + contentSize <= Head(job.messages).size
      BY <2>1, <1>2 DEF sizeLeft
    <3> QED
      BY <3>2, <3>3 DEF JobFits
  <2>2. CASE ~(contentSize < sizeLeft)
    <3>1. job' = [job EXCEPT !.messages = Tail(job.messages), !.offset = 0, !.after = FALSE]
      BY <2>2 DEF writeFragment
    <3>2. job'.messages = Tail(job.messages) /\ job'.offset = 0 /\ job' \in Job
      BY <3>1, <1>1, <1>2, JobMessages
    <3>3. job'.messages # <<>> => Head(job'.messages) \in Message
      BY <3>2, <1>2
    <3> QED
      BY <3>2, <3>3 DEF JobFits, Message
  <2> QED
    BY <2>1, <2>2
<1> QED
  BY <1>3, <1>4, <1>5 DEF TypeInv, WriterTypeOK, writeFragment, nextStage, mainVars

LEMMA TypeStep == TypeInv /\ [WriterNext]_writerVars => TypeInv'
<1> SUFFICES ASSUME TypeInv, [WriterNext]_writerVars PROVE TypeInv'
  OBVIOUS
<1> USE DEF TypeInv, WriterTypeOK
<1>1. ASSUME NEW size \in Sizes, NEW reliable \in BOOLEAN, newMessage(size, reliable)
      PROVE  TypeInv'
  BY <1>1, WriterAssumption DEF newMessage, Message, JobFits, threadVars, stageVars
<1>2. CASE flushMessages
  BY <1>2, RunnerTypes DEF flushMessages, JobFits, stageVars
<1>3. CASE stopRepeat
  BY <1>3 DEF stopRepeat, JobFits, threadVars, stageVars
<1>4. CASE timedRepeat
  BY <1>4, RunnerTypes DEF timedRepeat, JobFits, mainVars, stageVars
<1>5. CASE anyAck
  <2>1. PICK ack \in Nat, lost \in Nat : acquit(ack, lost)
    BY <1>5 DEF anyAck
  <2>2. (IF lost > 255 THEN 255 ELSE lost) \in Nat
    OBVIOUS
  <2>3. wStageAck' \in Nat /\ wLostCount' \in Nat /\ repeating' \in BOOLEAN
    <3>1. CASE progress(ack)
      BY <3>1 DEF progress
    <3>2. CASE newLosses(ack, lost)
      BY <3>2 DEF newLosses
    <3>3. CASE obsolete(ack, lost)
      BY <3>3 DEF obsolete
    <3> QED
      BY <2>1, <3>1, <3>2, <3>3 DEF acquit
  <2>4. runners' \in Seq(Runner)
    <3>1. \/ runners' = runners
          \/ runners' = Append(runners, Acquiter(ack))
          \/ runners' = Append(runners, Repeater(IF lost > 255 THEN 255 ELSE lost))
      BY <2>1 DEF acquit, progress, newLosses, obsolete
    <3>2. /\ Acquiter(ack) \in Runner
          /\ Repeater(IF lost > 255 THEN 255 ELSE lost) \in Runner
      BY <2>2, RunnerTypes
    <3>3. runners \in Seq(Runner)
      OBVIOUS
    <3> QED
      BY <3>1, <3>2, <3>3, AppendRunner
  <2> QED
    BY <2>1, <2>3, <2>4 DEF acquit, JobFits, stageVars
<1>6. ASSUME NEW error \in BOOLEAN, close(error) PROVE TypeInv'
  <2> DEFINE toSend == IF wState # "OPENED" THEN <<>>
                       ELSE IF wStageAck > 0 \/ repeating THEN Append(pending, EndMessage)
                       ELSE pending
  <2>1. toSend \in Seq(Message)
    BY ConstantTypes
  <2>2. runners' \in Seq(Runner) /\ repeating' \in BOOLEAN
    <3>1. \/ UNCHANGED <<repeating, runners>>
          \/ repeating' = TRUE /\ runners' = Append(runners, Messenger(toSend))
      BY <1>6 DEF close
    <3> HIDE DEF toSend
    <3>2. Messenger(toSend) \in Runner
      BY <2>1, RunnerTypes
    <3>3. runners \in Seq(Runner) /\ repeating \in BOOLEAN
      OBVIOUS
    <3> QED
      BY <3>1, <3>2, <3>3, AppendRunner
  <2>3. pending' \in Seq(Message)
    BY <1>6 DEF close
  <2>4. wState' \in {"NEAR_CLOSED", "CLOSED"}
    BY <1>6 DEF close
  <2> QED
    BY <1>6, <2>2, <2>3, <2>4 DEF close, JobFits, stageVars
<1>7. CASE consumed
  BY <1>7 DEF consumed, JobFits, threadVars, stageVars
<1>8. CASE startMessenger
  <2>1. Head(runners) \in Runner /\ runners' \in Seq(Runner)
    BY <1>8 DEF startMessenger, start
  <2>2. job' \in Job /\ job'.offset = 0 /\ job'.messages \in Seq(Message)
    BY <1>8, <2>1 DEF startMessenger, NoJob, Job, Runner
  <2>3. JobFits'
    <3>1. job'.messages # <<>> => Head(job'.messages) \in Message
      BY <2>2
    <3> QED
      BY <2>2, <3>1 DEF JobFits, Message
  <2> QED
    BY <1>8, <2>1, <2>2, <2>3 DEF startMessenger, start, mainVars, stageVars
<1>9. CASE writeFragment
  BY <1>9, WriteFragmentTypes
<1>10. CASE endMessenger
  BY <1>10, ConstantTypes DEF endMessenger, JobFits, NoJob, mainVars, stageVars
<1>11. CASE startAcquiter
  <2>1. Head(runners) \in Runner /\ runners' \in Seq(Runner)
    BY <1>11 DEF startAcquiter, start
  <2>2. job' \in Job /\ job'.messages = <<>>
    <3> DEFINE ack == Head(runners).stageAck
               cut == IF ack > stageSending THEN stageSending ELSE ack
    <3>1. cut \in Nat
      BY <2>1 DEF Runner
    <3>2. job' = [NoJob EXCEPT !.stageAck = cut]
      BY <1>11 DEF startAcquiter
    <3>3. NoJob.messages = <<>>
      BY DEF NoJob
    <3> HIDE DEF cut
    <3> QED
      BY <3>1, <3>2, <3>3, ConstantTypes, JobUpdates
  <2> QED
    BY <1>11, <2>1, <2>2 DEF startAcquiter, start, JobFits, mainVars, stageVars
<1>12. CASE ackPacket
  <2>1. Head(sending) \in Packet /\ sending' \in Seq(Packet)
    BY <1>12 DEF ackPacket, acknowledged
  <2>2. stageAck' \in Nat
    BY <1>12, <2>1, PacketFields DEF ackPacket, stagesOf
  <2> QED
    BY <1>12, <2>1, <2>2, WriterAssumption DEF ackPacket, reopened, JobFits, mainVars
<1>13. CASE endAcquiter
  BY <1>13, ConstantTypes DEF endAcquiter, JobFits, NoJob, mainVars, stageVars
<1>14. CASE startRepeater
  <2>1. runners' \in Seq(Runner) /\ pc' = "flush"
    BY <1>14 DEF startRepeater, start
  <2>2. sendable' \in 0..SENDABLE_MAX
    BY <1>14, WriterAssumption DEF startRepeater
  <2>3. UNCHANGED <<mainVars, queue, sending, stageVars, job, buf>>
    BY <1>14 DEF startRepeater, start
  <2> QED
    BY <2>1, <2>2, <2>3 DEF JobFits, mainVars, stageVars
<1>15. CASE sendPacket
  <2>1. Head(queue) \in Packet /\ queue' \in Seq(Packet)
    BY <1>15 DEF sendPacket
  <2>2. sent(Head(queue)) \in Packet
    BY <2>1, SentPacket
  <2>3. stageSending' \in Nat /\ sending' \in Seq(Packet)
    BY <1>15, <2>1, <2>2, PacketFields DEF sendPacket, stagesOf
  <2> QED
    BY <1>15, <2>1, <2>3, WriterAssumption DEF sendPacket, JobFits, mainVars
<1>16. CASE sendFailure
  BY <1>16, WriterAssumption DEF sendFailure, JobFits, mainVars, stageVars
<1>17. CASE endRun
  BY <1>17 DEF endRun, JobFits, mainVars, stageVars
<1>18. CASE UNCHANGED writerVars
  BY <1>18 DEF writerVars, mainVars, threadVars, stageVars, JobFits
<1>19. CASE outside
  <2>1. pending' = pending \/ pending' = <<>>
    BY <1>19 DEF outside
  <2>2. pending' \in Seq(Message)
    <3>1. pending \in Seq(Message) /\ <<>> \in Seq(Message)
      OBVIOUS
    <3> QED
      BY <2>1, <3>1
  <2> QED
    BY <1>19, <2>2 DEF outside, threadVars, stageVars, JobFits
<1> QED
  BY <1>19, <1>1, <1>2, <1>3, <1>4, <1>5, <1>6, <1>7, <1>8, <1>9, <1>10, <1>11, <1>12, <1>13,
     <1>14, <1>15, <1>16, <1>17, <1>18
  DEF WriterNext, flush, sendingThread

\* Every field of the writer and of its queue keeps its type, whatever the
\* peer acknowledges: the offsets and counters of RTMFPMessenger::write and
\* RTMFPAcquiter::run never underflow and the window of packets that may be
\* sent stays within SENDABLE_MAX.
THEOREM WriterTypeCorrect == AloneSpec => []WriterTypeOK
<1>1. AloneSpec => []TypeInv
  BY TypeInit, TypeStep, AloneStep, PTL DEF AloneSpec
<1>2. TypeInv => WriterTypeOK
  BY DEF TypeInv
<1> QED
  BY <1>1, <1>2, PTL

-----------------------------------------------------------------------------
(* The stages held by the queue *)

\* Only a messenger that runs has a packet being filled.
BufferOnlyWhileWriting == pc # "write" => buf = NoBuffer

StageInv == EveryStageHeldOnce /\ BufferOnlyWhileWriting

LEMMA StageInit == WriterInit => StageInv
<1> SUFFICES ASSUME WriterInit PROVE StageInv
  OBVIOUS
<1>1. \A n \in Nat : Covers(<<>>, n, n)
  BY DEF Covers
<1>2. unsent = <<>> /\ sending = <<>> /\ stage = 0 /\ stageSending = 0 /\ stageAck = 0
  BY DEF WriterInit, unsent
<1>3. EveryStageHeldOnce
  BY <1>1, <1>2 DEF EveryStageHeldOnce
<1> QED
  BY <1>3 DEF StageInv, BufferOnlyWhileWriting, WriterInit

\* The steps that touch no packet and leave no messenger half done.
LEMMA StageUntouched ==
    ASSUME StageInv, UNCHANGED <<buf, queue, sending, stageVars>>,
           pc' = pc \/ pc # "write"
    PROVE  StageInv'
<1>1. EveryStageHeldOnce'
  BY DEF StageInv, EveryStageHeldOnce, unsent, stageVars
<1> QED
  BY <1>1 DEF StageInv, BufferOnlyWhileWriting

\* A fragment goes to a new packet or to the last one: in both cases the
\* packets that are not sent cover one stage more.
LEMMA WriteFragmentStages ==
    ASSUME TypeInv, StageInv, writeFragment
    PROVE  StageInv'
<1>1. /\ queue \in Seq(Packet) /\ buf \in Packet /\ stage \in Nat /\ stageSending \in Nat
      /\ buf' \in Packet /\ queue' \in Seq(Packet)
  <2>1. TypeInv'
    BY WriteFragmentTypes
  <2> QED
    BY <2>1 DEF TypeInv, WriterTypeOK
<1>2. Covers(unsent, stageSending, stage) /\ unsent \in Seq(Packet)
  BY <1>1 DEF StageInv, EveryStageHeldOnce, unsent
<1>3. /\ pc' = "write" /\ stage' = stage + 1
      /\ UNCHANGED <<sending, stageSending, stageAck>>
  BY DEF writeFragment, nextStage
<1>4. Covers(unsent', stageSending, stage + 1)
  <2>1. buf' # NoBuffer /\ unsent' = Append(queue', buf')
    BY WriteFragmentCases DEF unsent
  <2>2. CASE queue' = unsent /\ buf'.first = stage + 1 /\ buf'.fragments = 1
    BY <1>1, <1>2, <2>1, <2>2, CoversAppend
  <2>3. CASE /\ queue' = queue /\ buf # NoBuffer
             /\ buf'.first = buf.first /\ buf'.fragments = buf.fragments + 1
    <3>1. unsent = Append(queue, buf) /\ unsent' = Append(queue, buf')
      BY <2>1, <2>3 DEF unsent
    <3>2. buf'.fragments > 0 /\ LastStage(buf') = LastStage(buf) + 1
      BY <1>1, <2>3 DEF LastStage, Packet
    <3> QED
      BY <1>1, <1>2, <2>3, <3>1, <3>2, CoversGrow
  <2> QED
    BY <2>2, <2>3, WriteFragmentCases DEF unsent
<1> QED
  BY <1>3, <1>4 DEF StageInv, EveryStageHeldOnce, BufferOnlyWhileWriting

LEMMA StageStep == TypeInv /\ StageInv /\ [WriterNext]_writerVars => StageInv'
<1> SUFFICES ASSUME TypeInv, StageInv, [WriterNext]_writerVars PROVE StageInv'
  OBVIOUS
<1>1. ASSUME NEW size \in Sizes, NEW reliable \in BOOLEAN, newMessage(size, reliable)
      PROVE  StageInv'
  BY <1>1, StageUntouched DEF newMessage, threadVars
<1>2. CASE flushMessages
  BY <1>2, StageUntouched DEF flushMessages
<1>3. CASE stopRepeat
  BY <1>3, StageUntouched DEF stopRepeat, threadVars
<1>4. CASE timedRepeat
  BY <1>4, StageUntouched DEF timedRepeat
<1>5. CASE anyAck
  BY <1>5, StageUntouched DEF anyAck, acquit
<1>6. ASSUME NEW error \in BOOLEAN, close(error) PROVE StageInv'
  BY <1>6, StageUntouched DEF close
<1>7. CASE consumed
  BY <1>7, StageUntouched DEF consumed, threadVars
<1>8. CASE startMessenger
  BY <1>8, StageUntouched DEF startMessenger, start
<1>9. CASE writeFragment
  BY <1>9, WriteFragmentStages
<1>10. CASE endMessenger
  <2>1. unsent' = unsent /\ buf' = NoBuffer
    BY <1>10 DEF endMessenger, unsent
  <2> QED
    BY <1>10, <2>1
    DEF endMessenger, StageInv, EveryStageHeldOnce, BufferOnlyWhileWriting, stageVars
<1>11. CASE startAcquiter
  BY <1>11, StageUntouched DEF startAcquiter, start
<1>12. CASE ackPacket
  <2>1. /\ sending \in Seq(Packet) /\ stageAck \in Nat /\ stageSending \in Nat
        /\ sending # <<>> /\ Covers(sending, stageAck, stageSending)
    BY <1>12 DEF ackPacket, acknowledged, TypeInv, WriterTypeOK, StageInv, EveryStageHeldOnce
  <2>2. Covers(Tail(sending), stageAck + Head(sending).fragments, stageSending)
    BY <2>1, CoversTail
  <2>3. Covers(sending', stageAck', stageSending)
    BY <1>12, <2>2 DEF ackPacket, stagesOf
  <2>4. UNCHANGED <<pc, buf, queue, stage, stageSending>>
    BY <1>12 DEF ackPacket
  <2> QED
    BY <2>3, <2>4 DEF StageInv, EveryStageHeldOnce, BufferOnlyWhileWriting, unsent
<1>13. CASE endAcquiter
  BY <1>13, StageUntouched DEF endAcquiter
<1>14. CASE startRepeater
  BY <1>14, StageUntouched DEF startRepeater, start
<1>15. CASE sendPacket
  <2>1. /\ queue \in Seq(Packet) /\ sending \in Seq(Packet)
        /\ stageAck \in Nat /\ stageSending \in Nat /\ stage \in Nat
        /\ queue # <<>> /\ buf = NoBuffer
        /\ Covers(sending, stageAck, stageSending)
    BY <1>15 DEF sendPacket, TypeInv, WriterTypeOK, StageInv, EveryStageHeldOnce,
                 BufferOnlyWhileWriting
  <2>2. unsent = queue /\ unsent' = Tail(queue)
    BY <1>15, <2>1 DEF sendPacket, unsent
  <2>3. Covers(queue, stageSending, stage)
    BY <2>2 DEF StageInv, EveryStageHeldOnce
  <2> DEFINE p == Head(queue)
  <2>4. /\ p \in Packet /\ p.first = stageSending + 1 /\ p.fragments > 0
        /\ Covers(Tail(queue), stageSending + p.fragments, stage)
    BY <2>1, <2>3, CoversTail
  <2>5. Covers(Append(sending, sent(p)), stageAck, stageSending + sent(p).fragments)
    <3>1. sent(p) \in Packet /\ sent(p).first = stageSending + 1 /\ sent(p).fragments > 0
      BY <2>4, SentPacket
    <3> HIDE DEF p
    <3> QED
      BY <2>1, <3>1, CoversAppend
  <2>6. sent(p).fragments = p.fragments
    BY <2>4, SentPacket
  <2>7. /\ sending' = Append(sending, sent(p)) /\ stageSending' = stageSending + p.fragments
        /\ UNCHANGED <<pc, buf, stage, stageAck>>
    BY <1>15 DEF sendPacket, stagesOf
  <2> HIDE DEF p
  <2> QED
    BY <2>1, <2>2, <2>4, <2>5, <2>6, <2>7 DEF StageInv, EveryStageHeldOnce, BufferOnlyWhileWriting
<1>16. CASE sendFailure
  BY <1>16, StageUntouched DEF sendFailure
<1>17. CASE endRun
  BY <1>17, StageUntouched DEF endRun
<1>18. CASE UNCHANGED writerVars
  BY <1>18, StageUntouched DEF writerVars, threadVars
<1>19. CASE outside
  BY <1>19, StageUntouched DEF outside, threadVars
<1> QED
  BY <1>19, <1>1, <1>2, <1>3, <1>4, <1>5, <1>6, <1>7, <1>8, <1>9, <1>10, <1>11, <1>12, <1>13,
     <1>14, <1>15, <1>16, <1>17, <1>18
  DEF WriterNext, flush, sendingThread

\* Both deques of RTMFPSender::Queue and its three counters describe the
\* same stages for ever, whatever is acknowledged, repeated or refused by
\* the socket: no stage is lost between the deques and none is in both.
THEOREM StagesHeldOnce == AloneSpec => []EveryStageHeldOnce
<1>1. AloneSpec => [](TypeInv /\ StageInv)
  BY TypeInit, TypeStep, StageInit, StageStep, AloneStep, PTL DEF AloneSpec
<1>2. StageInv => EveryStageHeldOnce
  BY DEF StageInv
<1> QED
  BY <1>1, <1>2, PTL

\* What RTMFPSender.h says of the counters: stageAck <= stageSending <= stage.
THEOREM StagesOrdered == AloneSpec => []StageOrder
<1>1. AloneSpec => [](TypeInv /\ StageInv)
  BY TypeInit, TypeStep, StageInit, StageStep, AloneStep, PTL DEF AloneSpec
<1>2. TypeInv /\ StageInv => StageOrder
  <2> SUFFICES ASSUME TypeInv, StageInv PROVE StageOrder
    OBVIOUS
  <2>1. /\ sending \in Seq(Packet) /\ unsent \in Seq(Packet)
        /\ stage \in Nat /\ stageSending \in Nat /\ stageAck \in Nat
    BY DEF TypeInv, WriterTypeOK, unsent
  <2>2. Covers(sending, stageAck, stageSending) /\ Covers(unsent, stageSending, stage)
    BY DEF StageInv, EveryStageHeldOnce
  <2> QED
    BY <2>1, <2>2, CoversOrder DEF StageOrder
<1> QED
  BY <1>1, <1>2, PTL

-----------------------------------------------------------------------------
(* Abandonment *)

Plain(packets) == \A i \in 1..Len(packets) : packets[i].frags # <<AbandonFragment>>

\* What sendAbandon announced is sent, before every reliable packet still in
\* `sending`; and no packet of the queue looks like an abandonment.
AbandonInv ==
    /\ \A d \in wire : d.frags = <<AbandonFragment>> =>
          /\ d.first \in Int /\ d.first <= stageSending
          /\ \A i \in 1..Len(sending) : sending[i].reliable => d.first < sending[i].first
    /\ Plain(sending) /\ Plain(queue) /\ buf.frags # <<AbandonFragment>>

LEMMA AbandonInit == WriterInit => AbandonInv
BY DEF WriterInit, AbandonInv, Plain, NoBuffer

LEMMA PlainAppend ==
    ASSUME NEW s \in Seq(Packet), Plain(s), NEW p \in Packet, p.frags # <<AbandonFragment>>
    PROVE  Plain(Append(s, p))
BY DEF Plain

LEMMA PlainTail ==
    ASSUME NEW s \in Seq(Packet), Plain(s), s # <<>>
    PROVE  Plain(Tail(s)) /\ Head(s).frags # <<AbandonFragment>>
BY DEF Plain

LEMMA AbandonUntouched ==
    ASSUME AbandonInv, wire' \in SUBSET wire, UNCHANGED <<stageSending, sending, queue, buf>>
    PROVE  AbandonInv'
BY DEF AbandonInv, Plain

LEMMA WriteFragmentAbandon ==
    ASSUME TypeInv, AbandonInv, writeFragment
    PROVE  AbandonInv'
<1>1. queue \in Seq(Packet) /\ buf \in Packet /\ Plain(queue) /\ buf.frags # <<AbandonFragment>>
  BY DEF TypeInv, WriterTypeOK, AbandonInv
<1>2. Plain(queue')
  BY <1>1, PlainAppend, WriteFragmentCases
<1>3. nextFragment \in Fragment /\ nextFragment # AbandonFragment
  BY NextFragmentTypes DEF writeFragment
<1>4. buf'.frags # <<AbandonFragment>>
  <2>1. CASE buf'.frags = <<nextFragment>>
    BY <2>1, <1>3
  <2>2. CASE buf'.frags = Append(buf.frags, nextFragment)
    <3>1. buf.frags \in Seq(Fragment)
      BY <1>1 DEF Packet
    <3>2. buf'.frags[Len(buf'.frags)] = nextFragment /\ <<AbandonFragment>>[1] = AbandonFragment
      BY <2>2, <3>1, <1>3
    <3>3. Len(<<AbandonFragment>>) = 1
      OBVIOUS
    <3> QED
      BY <3>2, <3>3, <1>3
  <2> QED
    BY <2>1, <2>2, WriteFragmentCases
<1>5. UNCHANGED <<wire, sending, stageSending>>
  BY DEF writeFragment
<1> QED
  BY <1>2, <1>4, <1>5 DEF AbandonInv

\* What RTMFPRepeater::run puts on the network: one abandonment of packets
\* that are not reliable, and packets that are.
LEMMA RepeaterWire ==
    ASSUME startRepeater
    PROVE  \A d \in wire' :
             \/ d \in wire
             \/ \E i \in 1..Len(sending) :
                   d = AbandonDatagram(LastStage(sending[i])) /\ \A j \in 1..i : ~sending[j].reliable
             \/ \E i \in 1..Len(sending) : d = Datagram(sending[i]) /\ sending[i].reliable
<1> DEFINE seen == visited(Head(runners).fragments)
           again == {i \in seen : sending[i].reliable}
           lost == {LastStage(sending[i]) : i \in abandoned(seen)}
           abandons == {AbandonDatagram(n) : n \in {t \in lost : \A u \in lost : u <= t}}
<1>1. seen \subseteq 1..Len(sending)
  BY DEF visited
<1>2. \A i \in again : i \in 1..Len(sending) /\ sending[i].reliable
  BY <1>1
<1>3. \A d \in abandons : \E i \in 1..Len(sending) :
         d = AbandonDatagram(LastStage(sending[i])) /\ \A j \in 1..i : ~sending[j].reliable
  BY <1>1 DEF abandoned
<1>4. \/ wire' = wire \union abandons \union {Datagram(sending[i]) : i \in again}
      \/ \E failed \in again :
            wire' = wire \union abandons
                         \union {Datagram(sending[i]) : i \in {j \in again : j < failed}}
  BY DEF startRepeater
<1> HIDE DEF abandons, again
<1> QED
  BY <1>2, <1>3, <1>4

LEMMA RepeaterAbandon ==
    ASSUME TypeInv, StageInv, AbandonInv, startRepeater
    PROVE  AbandonInv'
<1>1. UNCHANGED <<sending, queue, stageSending, buf>>
  BY DEF startRepeater, start, stageVars
<1>2. sending \in Seq(Packet) /\ Covers(sending, stageAck, stageSending) /\ Plain(sending)
  BY DEF TypeInv, WriterTypeOK, StageInv, EveryStageHeldOnce, AbandonInv
<1>4. ASSUME NEW d \in wire', d.frags = <<AbandonFragment>>
      PROVE  /\ d.first \in Int /\ d.first <= stageSending
             /\ \A k \in 1..Len(sending) : sending[k].reliable => d.first < sending[k].first
  <2>1. CASE d \in wire
    BY <1>4, <2>1 DEF AbandonInv
  <2>2. ASSUME NEW i \in 1..Len(sending),
               d = AbandonDatagram(LastStage(sending[i])), \A j \in 1..i : ~sending[j].reliable
        PROVE  /\ d.first \in Int /\ d.first <= stageSending
               /\ \A k \in 1..Len(sending) : sending[k].reliable => d.first < sending[k].first
    <3>1. d.first = LastStage(sending[i])
      BY <2>2 DEF AbandonDatagram
    <3>2. LastStage(sending[i]) <= stageSending /\ LastStage(sending[i]) \in Int
      <4>1. sending[i] \in Packet
        BY <1>2
      <4>2. LastStage(sending[i]) \in Int
        BY <4>1, PacketFields
      <4> QED
        BY <4>2, <1>2 DEF Covers
    <3>3. ASSUME NEW k \in 1..Len(sending), sending[k].reliable
          PROVE  LastStage(sending[i]) < sending[k].first
      <4>1. i < k
        BY <2>2, <3>3
      <4> QED
        BY <4>1, <1>2 DEF Covers
    <3> QED
      BY <3>1, <3>2, <3>3
  <2>3. ASSUME NEW i \in 1..Len(sending), d = Datagram(sending[i])
        PROVE  FALSE
    <3>1. d.frags = sending[i].frags
      BY <2>3 DEF Datagram
    <3> QED
      BY <1>2, <1>4, <3>1 DEF Plain
  <2> QED
    BY RepeaterWire, <2>1, <2>2, <2>3
<1>5. Plain(sending) /\ Plain(queue) /\ buf.frags # <<AbandonFragment>>
  BY DEF AbandonInv
<1> QED
  BY <1>1, <1>4, <1>5 DEF AbandonInv, Plain

LEMMA SendPacketAbandon ==
    ASSUME TypeInv, StageInv, AbandonInv, sendPacket
    PROVE  AbandonInv'
<1> DEFINE p == Head(queue)
<1>1. /\ queue \in Seq(Packet) /\ sending \in Seq(Packet) /\ queue # <<>>
      /\ stageSending \in Nat /\ stage \in Nat /\ buf = NoBuffer
      /\ Plain(queue) /\ Plain(sending)
  BY DEF sendPacket, TypeInv, WriterTypeOK, StageInv, BufferOnlyWhileWriting, AbandonInv
<1>2. Covers(queue, stageSending, stage)
  BY <1>1 DEF StageInv, EveryStageHeldOnce, unsent
<1>3. p \in Packet /\ p.first = stageSending + 1 /\ p.fragments \in Nat
  BY <1>1, <1>2, CoversTail, PacketFields
<1>4. p.frags # <<AbandonFragment>> /\ Plain(queue')
  BY <1>1, PlainTail DEF sendPacket
<1>5. sent(p) \in Packet /\ sent(p).first = stageSending + 1
  BY <1>3, SentPacket
<1>6. sent(p).frags # <<AbandonFragment>>
  <2>1. sent(p).frags = p.frags \/ sent(p).frags = <<>>
    BY <1>3 DEF sent, Packet
  <2> QED
    BY <2>1, <1>4
<1>7. /\ sending' = Append(sending, sent(p)) /\ buf' = buf
      /\ stageSending' = stageSending + p.fragments
      /\ wire' = wire \union {Datagram(p)}
  BY DEF sendPacket, stagesOf
<1> HIDE DEF p
<1>8. Plain(sending')
  BY <1>1, <1>5, <1>6, <1>7, PlainAppend
<1>9. ASSUME NEW d \in wire', d.frags = <<AbandonFragment>>
      PROVE  /\ d.first \in Int /\ d.first <= stageSending'
             /\ \A k \in 1..Len(sending') : sending'[k].reliable => d.first < sending'[k].first
  <2>1. Datagram(p).frags = p.frags
    BY DEF Datagram
  <2>2. d \in wire
    BY <1>4, <1>7, <1>9, <2>1
  <2>3. /\ d.first \in Int /\ d.first <= stageSending
        /\ \A k \in 1..Len(sending) : sending[k].reliable => d.first < sending[k].first
    BY <1>9, <2>2 DEF AbandonInv
  <2>5. d.first <= stageSending'
    <3>1. stageSending \in Int /\ stageSending' \in Int /\ stageSending <= stageSending'
      BY <1>1, <1>3, <1>7
    <3> QED
      BY <2>3, <3>1
  <2>6. ASSUME NEW k \in 1..Len(sending'), sending'[k].reliable
        PROVE  d.first < sending'[k].first
    <3>1. Len(sending') = Len(sending) + 1 /\ Len(sending) \in Nat
      BY <1>1, <1>5, <1>7
    <3>2. CASE k = Len(sending) + 1
      <4>1. sending'[k] = sent(p)
        BY <1>1, <1>5, <1>7, <3>2
      <4> QED
        BY <4>1, <1>1, <1>5, <2>3
    <3>3. CASE k \in 1..Len(sending)
      <4>1. sending'[k] = sending[k]
        BY <1>1, <1>5, <1>7, <3>3
      <4> QED
        BY <2>3, <2>6, <3>3, <4>1
    <3> QED
      BY <3>1, <3>2, <3>3
  <2> QED
    BY <2>3, <2>5, <2>6
<1> QED
  BY <1>1, <1>4, <1>7, <1>8, <1>9 DEF AbandonInv, NoBuffer

LEMMA AbandonStep ==
    TypeInv /\ StageInv /\ AbandonInv /\ [WriterNext]_writerVars => AbandonInv'
<1> SUFFICES ASSUME TypeInv, StageInv, AbandonInv, [WriterNext]_writerVars PROVE AbandonInv'
  OBVIOUS
<1>1. ASSUME NEW size \in Sizes, NEW reliable \in BOOLEAN, newMessage(size, reliable)
      PROVE  AbandonInv'
  BY <1>1, AbandonUntouched DEF newMessage, threadVars, stageVars
<1>2. CASE flush
  BY <1>2, AbandonUntouched
  DEF flush, flushMessages, stopRepeat, timedRepeat, threadVars, stageVars
<1>3. CASE anyAck
  BY <1>3, AbandonUntouched DEF anyAck, acquit, stageVars
<1>4. ASSUME NEW error \in BOOLEAN, close(error), UNCHANGED wire PROVE AbandonInv'
  BY <1>4, AbandonUntouched DEF close, stageVars
<1>5. CASE consumed
  BY <1>5, AbandonUntouched DEF consumed, threadVars, stageVars
<1>6. CASE startMessenger \/ startAcquiter
  BY <1>6, AbandonUntouched DEF startMessenger, startAcquiter, start, stageVars
<1>7. CASE writeFragment
  BY <1>7, WriteFragmentAbandon
<1>8. CASE endMessenger
  <2>1. Plain(queue')
    BY <1>8, PlainAppend DEF endMessenger, AbandonInv, TypeInv, WriterTypeOK
  <2>2. buf'.frags # <<AbandonFragment>>
    BY <1>8 DEF endMessenger, NoBuffer
  <2> QED
    BY <1>8, <2>1, <2>2 DEF endMessenger, AbandonInv, stageVars
<1>9. CASE ackPacket
  <2>1. /\ sending \in Seq(Packet) /\ sending # <<>> /\ sending' = Tail(sending)
        /\ UNCHANGED <<wire, queue, buf, stageSending>>
    BY <1>9 DEF ackPacket, acknowledged, TypeInv, WriterTypeOK
  <2>2. Plain(sending')
    BY <2>1, PlainTail DEF AbandonInv
  <2>3. \A k \in 1..Len(sending') : k + 1 \in 1..Len(sending) /\ sending'[k] = sending[k + 1]
    BY <2>1
  <2> QED
    BY <2>1, <2>2, <2>3 DEF AbandonInv
<1>10. CASE endAcquiter \/ sendFailure \/ endRun
  BY <1>10, AbandonUntouched DEF endAcquiter, sendFailure, endRun, stageVars
<1>11. CASE startRepeater
  BY <1>11, RepeaterAbandon
<1>12. CASE sendPacket
  BY <1>12, SendPacketAbandon
<1>13. CASE UNCHANGED writerVars
  BY <1>13, AbandonUntouched DEF writerVars, threadVars, stageVars
<1>14. CASE outside
  BY <1>14, AbandonUntouched DEF outside, threadVars, stageVars
<1> QED
  BY <1>14, <1>1, <1>2, <1>3, <1>4, <1>5, <1>6, <1>7, <1>8, <1>9, <1>10, <1>11, <1>12, <1>13
  DEF WriterNext, sendingThread

\* What the three invariants say of every abandon on the network.
LEMMA AbandonSpares == TypeInv /\ StageInv /\ AbandonInv => AbandonSparesReliable
<1> SUFFICES ASSUME TypeInv, StageInv, AbandonInv,
                    NEW d \in wire, d.frags = <<AbandonFragment>>,
                    NEW i \in 1..Len(sending \o unsent), (sending \o unsent)[i].reliable
             PROVE  d.first < (sending \o unsent)[i].first
  BY DEF AbandonSparesReliable
<1>1. /\ sending \in Seq(Packet) /\ unsent \in Seq(Packet) /\ stageSending \in Nat
      /\ Covers(unsent, stageSending, stage)
  BY DEF TypeInv, WriterTypeOK, unsent, StageInv, EveryStageHeldOnce
<1>2. CASE i \in 1..Len(sending)
  <2>1. (sending \o unsent)[i] = sending[i]
    BY <1>1, <1>2
  <2> QED
    BY <1>2, <2>1 DEF AbandonInv
<1>3. CASE i \notin 1..Len(sending)
  <2> DEFINE k == i - Len(sending)
  <2>1. k \in 1..Len(unsent) /\ (sending \o unsent)[i] = unsent[k]
    BY <1>1, <1>3
  <2>2. unsent[k] \in Packet /\ stageSending < unsent[k].first
    BY <1>1, <2>1 DEF Covers
  <2>3. d.first \in Int /\ d.first <= stageSending /\ unsent[k].first \in Nat
    BY <2>2, PacketFields DEF AbandonInv
  <2> HIDE DEF k
  <2> QED
    BY <1>1, <2>1, <2>2, <2>3
<1> QED
  BY <1>2, <1>3

\* RTMFPRepeater::sendAbandon never gives up a stage of a reliable message
\* that is not acknowledged, neither when it is sent nor whenever it arrives.
THEOREM AbandonIsSafe == AloneSpec => []AbandonSparesReliable
<1>1. AloneSpec => [](TypeInv /\ StageInv /\ AbandonInv)
  BY TypeInit, TypeStep, StageInit, StageStep, AbandonInit, AbandonStep, AloneStep, PTL DEF AloneSpec
<1> QED
  BY <1>1, AbandonSpares, PTL

-----------------------------------------------------------------------------
(* The script of a writer: the fragments it has written, one per stage.    *)
(* No variable holds it, the invariant says that it exists.                *)

Follows(h, first, frags) ==
    /\ first \in Nat \ {0} /\ frags \in Seq(Fragment)
    /\ first + Len(frags) - 1 <= Len(h)
    /\ \A k \in 1..Len(frags) : frags[k] = h[first + k - 1]

\* A packet that holds its content holds that of its stages.
Keeps(h, p) == Len(p.frags) = p.fragments /\ Follows(h, p.first, p.frags)

\* A datagram that was sent carries the content of its stages.
Conveys(h, d) ==
    /\ d.frags # <<>> /\ Follows(h, d.first, d.frags)
    /\ d.first + Len(d.frags) - 1 <= stageSending

ScriptInv(h) ==
    /\ h \in Seq(Fragment) /\ Len(h) = stage
    /\ \A i \in 1..Len(unsent) : Keeps(h, unsent[i])
    /\ \A i \in 1..Len(sending) : sending[i].reliable => Keeps(h, sending[i])
    /\ \A d \in wire : d.frags # <<AbandonFragment>> => Conveys(h, d)

\* The script after a step: only writeFragment creates a stage.
nextScript(h) == IF stage' = stage THEN h ELSE Append(h, nextFragment)

LEMMA FollowsAppend ==
    ASSUME NEW h \in Seq(Fragment), NEW f \in Fragment, NEW first, NEW frags, Follows(h, first, frags)
    PROVE  Follows(Append(h, f), first, frags)
<1>1. /\ first \in Nat \ {0} /\ frags \in Seq(Fragment)
      /\ first + Len(frags) - 1 <= Len(h)
      /\ \A k \in 1..Len(frags) : frags[k] = h[first + k - 1]
  BY DEF Follows
<1>2. Len(Append(h, f)) = Len(h) + 1 /\ \A k \in 1..Len(h) : Append(h, f)[k] = h[k]
  OBVIOUS
<1>3. \A k \in 1..Len(frags) : first + k - 1 \in 1..Len(h)
  BY <1>1
<1> QED
  BY <1>1, <1>2, <1>3 DEF Follows

\* The packet that ends the script is one fragment longer.
LEMMA FollowsGrow ==
    ASSUME NEW h \in Seq(Fragment), NEW f \in Fragment, NEW first, NEW frags, Follows(h, first, frags),
           first + Len(frags) - 1 = Len(h)
    PROVE  Follows(Append(h, f), first, Append(frags, f))
<1>1. /\ first \in Nat \ {0} /\ frags \in Seq(Fragment)
      /\ \A k \in 1..Len(frags) : frags[k] = h[first + k - 1]
  BY DEF Follows
<1> DEFINE g == Append(h, f)
           gs == Append(frags, f)
<1>2. /\ Len(g) = Len(h) + 1 /\ \A k \in 1..Len(h) : g[k] = h[k]
      /\ g[Len(h) + 1] = f
      /\ gs \in Seq(Fragment) /\ Len(gs) = Len(frags) + 1
      /\ \A k \in 1..Len(frags) : gs[k] = frags[k]
      /\ gs[Len(frags) + 1] = f
  BY <1>1
<1> HIDE DEF g, gs
<1>3. \A k \in 1..Len(gs) : gs[k] = g[first + k - 1]
  <2> TAKE k \in 1..Len(gs)
  <2>1. CASE k \in 1..Len(frags)
    <3>1. first + k - 1 \in 1..Len(h)
      BY <1>1, <2>1
    <3> QED
      BY <3>1, <2>1, <1>1, <1>2
  <2>2. CASE k = Len(frags) + 1
    BY <2>2, <1>1, <1>2
  <2> QED
    BY <2>1, <2>2, <1>1, <1>2
<1>4. first + Len(gs) - 1 <= Len(g)
  BY <1>1, <1>2
<1> QED
  BY <1>1, <1>2, <1>3, <1>4 DEF Follows, g, gs

\* The steps that touch no packet and send none.
LEMMA ScriptUntouched ==
    ASSUME NEW h, ScriptInv(h), wire' \in SUBSET wire,
           UNCHANGED <<buf, queue, sending, stage, stageSending>>
    PROVE  ScriptInv(h)'
<1>1. unsent' = unsent
  BY DEF unsent
<1> QED
  BY <1>1 DEF ScriptInv, Conveys

LEMMA WriteFragmentScript ==
    ASSUME NEW h, TypeInv, StageInv, ScriptInv(h), writeFragment,
           NEW g, g = Append(h, nextFragment)
    PROVE  ScriptInv(g)'
<1>1. /\ queue \in Seq(Packet) /\ buf \in Packet /\ stage \in Nat /\ stageSending \in Nat
      /\ unsent \in Seq(Packet) /\ sending \in Seq(Packet)
      /\ Covers(unsent, stageSending, stage)
      /\ h \in Seq(Fragment) /\ Len(h) = stage
  BY DEF TypeInv, WriterTypeOK, StageInv, EveryStageHeldOnce, unsent, ScriptInv
<1> DEFINE f == nextFragment
<1>2. f \in Fragment
  BY NextFragmentTypes DEF writeFragment
<1>3. stage' = stage + 1 /\ UNCHANGED <<sending, stageSending, wire>>
  BY DEF writeFragment, nextStage
<1>4. buf' \in Packet /\ unsent' = Append(queue', buf')
  BY WriteFragmentCases DEF unsent
<1>a. g = Append(h, f)
  OBVIOUS
<1> HIDE DEF f
<1>5. g \in Seq(Fragment) /\ Len(g) = stage + 1 /\ g[stage + 1] = f
  BY <1>a, <1>1, <1>2
<1>6. \A p : Keeps(h, p) => Keeps(g, p)
  BY <1>a, <1>1, <1>2, FollowsAppend DEF Keeps
<1>7. \A i \in 1..Len(unsent') : Keeps(g, unsent'[i])
  <2>1. CASE /\ queue' = unsent
             /\ buf'.first = stage + 1 /\ buf'.fragments = 1 /\ buf'.frags = <<f>>
    <3>1. Keeps(g, buf')
      BY <1>1, <1>2, <1>5, <2>1 DEF Keeps, Follows
    <3>2. \A i \in 1..Len(unsent) : Keeps(g, unsent[i])
      BY <1>6 DEF ScriptInv
    <3> QED
      BY <3>1, <3>2, <1>1, <1>4, <2>1
  <2>2. CASE /\ queue' = queue /\ buf # NoBuffer
             /\ buf'.first = buf.first /\ buf'.fragments = buf.fragments + 1
             /\ buf'.frags = Append(buf.frags, f)
    <3>1. /\ unsent = Append(queue, buf) /\ unsent # <<>>
          /\ Len(unsent) = Len(queue) + 1 /\ unsent[Len(unsent)] = buf
          /\ \A i \in 1..Len(queue) : unsent[i] = queue[i] /\ i \in 1..Len(unsent)
          /\ Len(unsent) \in 1..Len(unsent)
      BY <1>1, <2>2 DEF unsent
    <3>2. Keeps(h, buf) /\ LastStage(buf) = stage
      BY <3>1, <1>1 DEF ScriptInv, Covers
    <3>3. /\ Len(buf.frags) = buf.fragments /\ Follows(h, buf.first, buf.frags)
          /\ buf.frags \in Seq(Fragment) /\ buf.first \in Nat /\ buf.fragments \in Nat
      BY <3>2, <1>1 DEF Keeps, Packet
    <3>4. buf.first + Len(buf.frags) - 1 = Len(h)
      BY <3>2, <3>3, <1>1 DEF LastStage
    <3>5. Follows(g, buf.first, Append(buf.frags, f))
      BY <3>3, <3>4, <1>a, <1>1, <1>2, FollowsGrow
    <3>6. Keeps(g, buf')
      BY <2>2, <3>3, <3>5, <1>2 DEF Keeps
    <3>7. \A i \in 1..Len(queue) : Keeps(g, queue[i])
      BY <3>1, <1>6 DEF ScriptInv
    <3> QED
      BY <3>6, <3>7, <1>1, <1>4, <2>2
  <2> QED
    BY <2>1, <2>2, WriteFragmentCases DEF unsent, f
<1>8. \A i \in 1..Len(sending) : sending[i].reliable => Keeps(g, sending[i])
  BY <1>6 DEF ScriptInv
<1>9. \A d \in wire : d.frags # <<AbandonFragment>> => Conveys(g, d)
  BY <1>a, <1>1, <1>2, FollowsAppend DEF ScriptInv, Conveys
<1> QED
  BY <1>3, <1>5, <1>7, <1>8, <1>9 DEF ScriptInv, Conveys

\* What a packet that is sent leaves in `sending` and on the network.
LEMMA SendPacketScript ==
    ASSUME NEW h, TypeInv, StageInv, ScriptInv(h), sendPacket
    PROVE  ScriptInv(h)'
<1> DEFINE p == Head(queue)
<1>1. /\ queue \in Seq(Packet) /\ sending \in Seq(Packet) /\ queue # <<>>
      /\ stageSending \in Nat /\ stage \in Nat /\ buf = NoBuffer
  BY DEF sendPacket, TypeInv, WriterTypeOK, StageInv, BufferOnlyWhileWriting
<1>2. unsent = queue /\ unsent' = Tail(queue) /\ Covers(queue, stageSending, stage)
  BY <1>1 DEF sendPacket, unsent, StageInv, EveryStageHeldOnce
<1>3. p \in Packet /\ p.first = stageSending + 1 /\ p.fragments \in Nat /\ p.fragments > 0
  BY <1>1, <1>2, CoversTail, PacketFields
<1>4. Keeps(h, p)
  <2>1. 1 \in 1..Len(queue) /\ p = queue[1]
    BY <1>1
  <2> QED
    BY <2>1, <1>2 DEF ScriptInv
<1>5. /\ sending' = Append(sending, sent(p))
      /\ stageSending' = stageSending + p.fragments
      /\ wire' = wire \union {Datagram(p)} /\ stage' = stage
  BY DEF sendPacket, stagesOf
<1>6. sent(p) \in Packet /\ (sent(p).reliable => Keeps(h, sent(p)))
  BY <1>3, <1>4, SentPacket DEF sent
<1>7. Datagram(p).first = p.first /\ Datagram(p).frags = p.frags
  BY DEF Datagram
<1> HIDE DEF p
<1>8. \A i \in 1..Len(sending') : sending'[i].reliable => Keeps(h, sending'[i])
  <2> TAKE i \in 1..Len(sending')
  <2>1. CASE i \in 1..Len(sending)
    BY <2>1, <1>1, <1>5, <1>6 DEF ScriptInv
  <2>2. CASE i = Len(sending) + 1
    BY <2>2, <1>1, <1>5, <1>6
  <2> QED
    BY <2>1, <2>2, <1>1, <1>5, <1>6
<1>9. \A d \in wire' : d.frags # <<AbandonFragment>> =>
         /\ d.frags # <<>> /\ Follows(h, d.first, d.frags)
         /\ d.first + Len(d.frags) - 1 <= stageSending'
  <2> SUFFICES ASSUME NEW d \in wire', d.frags # <<AbandonFragment>>
               PROVE  /\ d.frags # <<>> /\ Follows(h, d.first, d.frags)
                      /\ d.first + Len(d.frags) - 1 <= stageSending'
    OBVIOUS
  <2>1. CASE d \in wire
    <3>1. Conveys(h, d) /\ d.first \in Nat /\ Len(d.frags) \in Nat
      BY <2>1 DEF ScriptInv, Conveys, Follows
    <3> QED
      BY <3>1, <1>1, <1>3, <1>5, SMTT(20) DEF Conveys
  <2>2. CASE d = Datagram(p)
    <3>1. Follows(h, p.first, p.frags) /\ Len(p.frags) = p.fragments /\ p.frags # <<>>
      <4>1. Len(p.frags) = p.fragments /\ Follows(h, p.first, p.frags)
        BY <1>4 DEF Keeps
      <4> QED
        BY <4>1, <1>3
    <3>2. p.first + Len(p.frags) - 1 <= stageSending'
      BY <3>1, <1>1, <1>3, <1>5
    <3> QED
      BY <3>1, <3>2, <2>2, <1>7
  <2> QED
    BY <2>1, <2>2, <1>5
<1>10. \A i \in 1..Len(unsent') : Keeps(h, unsent'[i])
  <2> TAKE i \in 1..Len(unsent')
  <2>1. i + 1 \in 1..Len(queue) /\ unsent'[i] = queue[i + 1]
    BY <1>1, <1>2
  <2> QED
    BY <2>1, <1>2 DEF ScriptInv
<1> QED
  BY <1>5, <1>8, <1>9, <1>10 DEF ScriptInv, Conveys

LEMMA RepeaterScript ==
    ASSUME NEW h, TypeInv, StageInv, ScriptInv(h), startRepeater
    PROVE  ScriptInv(h)'
<1>1. UNCHANGED <<sending, queue, stage, stageSending, buf>> /\ unsent' = unsent
  BY DEF startRepeater, start, stageVars, unsent
<1>2. sending \in Seq(Packet) /\ Covers(sending, stageAck, stageSending)
  BY DEF TypeInv, WriterTypeOK, StageInv, EveryStageHeldOnce
<1>3. ASSUME NEW i \in 1..Len(sending), sending[i].reliable
      PROVE  Conveys(h, Datagram(sending[i]))
  <2>1. /\ Keeps(h, sending[i]) /\ sending[i] \in Packet
        /\ sending[i].fragments > 0 /\ LastStage(sending[i]) <= stageSending
    BY <1>2, <1>3 DEF ScriptInv, Covers
  <2>2. Datagram(sending[i]).first = sending[i].first /\ Datagram(sending[i]).frags = sending[i].frags
    BY DEF Datagram
  <2> QED
    BY <2>1, <2>2 DEF Keeps, Conveys, LastStage
<1>4. ASSUME NEW d \in wire', d.frags # <<AbandonFragment>> PROVE Conveys(h, d)
  <2>1. \A n : AbandonDatagram(n).frags = <<AbandonFragment>>
    BY DEF AbandonDatagram
  <2> QED
    BY <2>1, <1>3, <1>4, RepeaterWire DEF ScriptInv
<1> QED
  BY <1>1, <1>4 DEF ScriptInv, Conveys

LEMMA AckPacketScript ==
    ASSUME NEW h, TypeInv, ScriptInv(h), ackPacket
    PROVE  ScriptInv(h)'
<1>1. /\ sending \in Seq(Packet) /\ sending # <<>> /\ sending' = Tail(sending)
      /\ UNCHANGED <<wire, queue, buf, stage, stageSending>> /\ unsent' = unsent
  BY DEF ackPacket, acknowledged, TypeInv, WriterTypeOK, unsent
<1>2. \A k \in 1..Len(sending') : k + 1 \in 1..Len(sending) /\ sending'[k] = sending[k + 1]
  BY <1>1
<1> QED
  BY <1>1, <1>2 DEF ScriptInv, Conveys

LEMMA ScriptInit == WriterInit => ScriptInv(<<>>)
BY DEF WriterInit, ScriptInv, unsent

LEMMA ScriptStep ==
    ASSUME NEW h, TypeInv, StageInv, ScriptInv(h), [WriterNext]_writerVars,
           NEW g, g = nextScript(h)
    PROVE  ScriptInv(g)'
<1>a. stage \in Nat
  BY DEF TypeInv, WriterTypeOK
<1>b. stage' = stage => g = h
  BY DEF nextScript
<1>1. ASSUME NEW size \in Sizes, NEW reliable \in BOOLEAN, newMessage(size, reliable)
      PROVE  ScriptInv(g)'
  BY <1>1, <1>b, ScriptUntouched DEF newMessage, threadVars, stageVars
<1>2. CASE flush
  BY <1>2, <1>b, ScriptUntouched
  DEF flush, flushMessages, stopRepeat, timedRepeat, threadVars, stageVars
<1>3. CASE anyAck
  BY <1>3, <1>b, ScriptUntouched DEF anyAck, acquit, stageVars
<1>4. ASSUME NEW error \in BOOLEAN, close(error), UNCHANGED wire PROVE ScriptInv(g)'
  BY <1>4, <1>b, ScriptUntouched DEF close, stageVars
<1>5. CASE consumed
  BY <1>5, <1>b, ScriptUntouched DEF consumed, threadVars, stageVars
<1>6. CASE startMessenger \/ startAcquiter
  BY <1>6, <1>b, ScriptUntouched DEF startMessenger, startAcquiter, start, stageVars
<1>7. CASE writeFragment
  <2>1. stage' # stage
    BY <1>7, <1>a DEF writeFragment, nextStage
  <2> QED
    BY <1>7, <2>1, WriteFragmentScript DEF nextScript
<1>8. CASE endMessenger
  <2>1. unsent' = unsent /\ UNCHANGED <<sending, stage, stageSending, wire>>
    BY <1>8 DEF endMessenger, unsent, stageVars
  <2> QED
    BY <2>1, <1>b DEF ScriptInv, Conveys
<1>9. CASE ackPacket
  BY <1>9, <1>b, AckPacketScript DEF ackPacket
<1>10. CASE endAcquiter \/ sendFailure \/ endRun
  BY <1>10, <1>b, ScriptUntouched DEF endAcquiter, sendFailure, endRun, stageVars
<1>11. CASE startRepeater
  BY <1>11, <1>b, RepeaterScript DEF startRepeater, start, stageVars
<1>12. CASE sendPacket
  BY <1>12, <1>b, SendPacketScript DEF sendPacket
<1>13. CASE UNCHANGED writerVars
  BY <1>13, <1>b, ScriptUntouched DEF writerVars, threadVars, stageVars
<1>14. CASE outside
  BY <1>14, <1>b, ScriptUntouched DEF outside, threadVars, stageVars
<1> QED
  BY <1>1, <1>2, <1>3, <1>4, <1>5, <1>6, <1>7, <1>8, <1>9, <1>10, <1>11, <1>12, <1>13, <1>14
  DEF WriterNext, sendingThread

\* All datagrams read one script.
LEMMA ScriptStable ==
    ASSUME NEW h, ScriptInv(h)
    PROVE  StageIsStable
<1> SUFFICES ASSUME NEW d \in wire, NEW e \in wire,
                    d.frags # <<AbandonFragment>>, e.frags # <<AbandonFragment>>,
                    NEW s, s \in DOMAIN Carries(d), s \in DOMAIN Carries(e)
             PROVE  Carries(d)[s] = Carries(e)[s]
  BY DEF StageIsStable
<1>1. ASSUME NEW x \in wire, x.frags # <<AbandonFragment>>, s \in DOMAIN Carries(x)
      PROVE  Carries(x)[s] = h[s]
  <2>1. Follows(h, x.first, x.frags) /\ x.first \in Nat /\ x.frags \in Seq(Fragment)
    BY <1>1 DEF ScriptInv, Conveys, Follows
  <2>2. /\ s \in x.first..(x.first + Len(x.frags) - 1)
        /\ Carries(x)[s] = x.frags[s - x.first + 1]
    BY <1>1 DEF Carries
  <2>3. s - x.first + 1 \in 1..Len(x.frags) /\ x.first + (s - x.first + 1) - 1 = s
    BY <2>1, <2>2
  <2> QED
    BY <2>1, <2>2, <2>3 DEF Follows
<1> QED
  BY <1>1

\* A datagram repeated after new messages were written carries at each stage
\* what was sent first: every datagram reads the same script.
THEOREM StageContentIsStable == AloneSpec => []StageIsStable
<1> DEFINE Inv == \E h : ScriptInv(h)
<1>1. WriterInit => Inv
  BY ScriptInit
<1>2. TypeInv /\ StageInv /\ Inv /\ [AloneNext]_writerVars => Inv'
  BY AloneStep, ScriptStep
<1>3. Inv => StageIsStable
  BY ScriptStable
<1> HIDE DEF Inv
<1>4. AloneSpec => [](TypeInv /\ StageInv /\ Inv)
  BY TypeInit, TypeStep, StageInit, StageStep, AloneStep, <1>1, <1>2, PTL DEF AloneSpec
<1> QED
  BY <1>3, <1>4, PTL

-----------------------------------------------------------------------------
(* The repeat timer *)

LEMMA TimerInit == WriterInit => UnsentKeepsTimer
BY DEF WriterInit, UnsentKeepsTimer

\* A runner that is no messenger brings no message to send.
LEMMA OtherRunner ==
    ASSUME NEW rs \in Seq(Runner), NEW r \in Runner, r.kind # "Messenger",
           NEW i \in 1..Len(Append(rs, r)), Append(rs, r)[i].kind = "Messenger"
    PROVE  \E j \in 1..Len(rs) : rs[j].kind = "Messenger"
OBVIOUS

LEMMA TimerStep == TypeInv /\ UnsentKeepsTimer /\ [WriterNext]_writerVars => UnsentKeepsTimer'
<1> SUFFICES ASSUME TypeInv, UnsentKeepsTimer, [WriterNext]_writerVars PROVE UnsentKeepsTimer'
  OBVIOUS
<1>a. runners \in Seq(Runner) /\ queue \in Seq(Packet) /\ repeating \in BOOLEAN
  BY DEF TypeInv, WriterTypeOK
<1>b. ASSUME UNCHANGED <<queue, pc, repeating>>, NEW r \in Runner, r.kind # "Messenger",
             runners' = runners \/ runners' = Append(runners, r)
      PROVE  UnsentKeepsTimer'
  BY <1>a, <1>b, OtherRunner DEF UnsentKeepsTimer
<1>c. \A n \in Nat : /\ Acquiter(n) \in Runner /\ Acquiter(n).kind # "Messenger"
                      /\ Repeater(n) \in Runner /\ Repeater(n).kind # "Messenger"
  BY DEF Acquiter, Repeater, Runner
<1>d. ASSUME UNCHANGED <<runners, queue, pc, repeating>> PROVE UnsentKeepsTimer'
  BY <1>d DEF UnsentKeepsTimer
<1>e. ASSUME repeating' = TRUE PROVE UnsentKeepsTimer'
  BY <1>e DEF UnsentKeepsTimer
<1>1. ASSUME NEW size \in Sizes, NEW reliable \in BOOLEAN, newMessage(size, reliable)
      PROVE  UnsentKeepsTimer'
  BY <1>1, <1>d DEF newMessage, threadVars
<1>2. CASE flushMessages
  BY <1>2, <1>e DEF flushMessages
<1>3. CASE stopRepeat
  BY <1>3 DEF stopRepeat, UnsentKeepsTimer, Unique, nothingToRepeat, threadVars
<1>4. CASE timedRepeat
  BY <1>4, <1>b, <1>c DEF timedRepeat, mainVars
<1>5. CASE anyAck
  <2>1. PICK ack \in Nat, lost \in Nat : acquit(ack, lost)
    BY <1>5 DEF anyAck
  <2>2. UNCHANGED <<queue, pc>>
    BY <2>1 DEF acquit
  <2>3. CASE progress(ack)
    BY <2>3, <1>e DEF progress
  <2>4. CASE newLosses(ack, lost)
    <3> DEFINE n == IF lost > 255 THEN 255 ELSE lost
    <3>1. n \in Nat
      OBVIOUS
    <3>2. runners' = Append(runners, Repeater(n)) /\ repeating' = repeating
      BY <2>4 DEF newLosses
    <3> HIDE DEF n
    <3> QED
      BY <2>2, <3>1, <3>2, <1>b, <1>c
  <2>5. CASE obsolete(ack, lost)
    BY <2>2, <2>5, <1>d DEF obsolete
  <2> QED
    BY <2>1, <2>3, <2>4, <2>5 DEF acquit
<1>6. ASSUME NEW error \in BOOLEAN, close(error) PROVE UnsentKeepsTimer'
  <2>1. UNCHANGED <<queue, pc>> /\ (repeating' = TRUE \/ UNCHANGED <<repeating, runners>>)
    BY <1>6 DEF close
  <2> QED
    BY <2>1, <1>d, <1>e
<1>7. CASE consumed
  BY <1>7, <1>d DEF consumed, threadVars
<1>8. CASE startMessenger
  <2>1. runners # <<>> /\ runners[1].kind = "Messenger" /\ repeating' = repeating
    BY <1>8, <1>a DEF startMessenger, start, mainVars
  <2>2. 1 \in 1..Len(runners)
    BY <2>1, <1>a
  <2>3. repeating = TRUE
    BY <2>1, <2>2, <1>a DEF UnsentKeepsTimer
  <2> QED
    BY <2>1, <2>3, <1>e
<1>9. CASE writeFragment \/ endMessenger
  <2>1. pc = "write" /\ repeating' = repeating
    BY <1>9 DEF writeFragment, endMessenger, mainVars
  <2>2. repeating = TRUE
    BY <2>1, <1>a DEF UnsentKeepsTimer
  <2> QED
    BY <2>1, <2>2, <1>e
<1>10. CASE startAcquiter \/ startRepeater
  <2>1. /\ runners # <<>> /\ runners' = Tail(runners) /\ pc' # "write"
        /\ UNCHANGED <<queue, repeating>>
    BY <1>10 DEF startAcquiter, startRepeater, start, mainVars
  <2>2. \A i \in 1..Len(runners') : i + 1 \in 1..Len(runners) /\ runners'[i] = runners[i + 1]
    BY <2>1, <1>a
  <2> QED
    BY <2>1, <2>2 DEF UnsentKeepsTimer
<1>11. CASE ackPacket
  BY <1>11, <1>d DEF ackPacket, mainVars
<1>12. CASE endAcquiter \/ sendFailure \/ endRun
  BY <1>12 DEF endAcquiter, sendFailure, endRun, UnsentKeepsTimer, mainVars
<1>13. CASE sendPacket
  <2>1. queue # <<>> /\ repeating' = repeating
    BY <1>13 DEF sendPacket, mainVars
  <2> QED
    BY <2>1, <1>a, <1>e DEF UnsentKeepsTimer
<1>14. CASE UNCHANGED writerVars
  BY <1>14, <1>d DEF writerVars, threadVars, mainVars
<1>15. CASE outside
  BY <1>15, <1>d DEF outside, threadVars
<1> QED
  BY <1>15, <1>1, <1>2, <1>3, <1>4, <1>5, <1>6, <1>7, <1>8, <1>9, <1>10, <1>11, <1>12, <1>13, <1>14
  DEF WriterNext, flush, sendingThread

\* RTMFPWriter::repeatMessages never stops the repeat timer while a message
\* or a packet has not been sent.
THEOREM TimerArmed == AloneSpec => []UnsentKeepsTimer
<1>1. AloneSpec => [](TypeInv /\ UnsentKeepsTimer)
  BY TypeInit, TypeStep, TimerInit, TimerStep, AloneStep, PTL DEF AloneSpec
<1> QED
  BY <1>1, PTL

=============================================================================
