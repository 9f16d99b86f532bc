------------------------ MODULE RTMFPChannelProofs -------------------------
(***************************************************************************)
(* Proofs about one flow end to end, for every value of the constants:     *)
(* what UDP may do to the datagrams and acknowledgments, the receiver      *)
(* delivers the messages of the application and the sender forgets nothing *)
(* that is missing.                                                        *)
(*                                                                         *)
(* The argument: the writer follows a script, one fragment per stage       *)
(* (RTMFPWriterProofs).  The script cuts the application's messages in     *)
(* order, so the flow, which reads it from the first stage on, is always   *)
(* in a state that a prefix of the script explains.                        *)
(***************************************************************************)
EXTENDS RTMFPChannel, RTMFPWriterProofs, WellFoundedInduction, FiniteSetTheorems

-----------------------------------------------------------------------------
(* Induction on the natural numbers, for a set of them.                    *)

\* A set that is not empty has a smallest number.
LEMMA SmallestNat ==
    ASSUME NEW S, S \subseteq Nat, S # {}
    PROVE  \E x \in S : \A y \in S : x <= y
<1> DEFINE R == OpToRel(<, Nat)
<1>1. IsWellFoundedOn(R, Nat)
  BY NatLessThanWellFounded
<1> HIDE DEF R
<1>2. PICK x \in S : \A y \in S : ~(<<y, x>> \in R)
  BY <1>1, WFMin
<1>3. ASSUME NEW y \in S PROVE x <= y
  <2>1. y < x => <<y, x>> \in R
    BY DEF R, OpToRel
  <2> QED
    BY <2>1, <1>2
<1> QED
  BY <1>3

LEMMA Induction ==
    ASSUME NEW T, 0 \in T, \A n \in Nat : n \in T => n + 1 \in T
    PROVE  Nat \subseteq T
<1> DEFINE S == Nat \ T
<1>1. SUFFICES ASSUME S # {} PROVE FALSE
  OBVIOUS
<1>2. PICK x \in S : \A y \in S : x <= y
  BY <1>1, SmallestNat
<1>3. x \in Nat /\ x # 0 /\ x - 1 \in Nat /\ x - 1 \notin S
  BY <1>2
<1>4. (x - 1) + 1 \in T
  BY <1>3
<1> QED
  BY <1>2, <1>3, <1>4

\* A set of stages that is not empty and bounded has a largest one.
LEMMA LargestStage ==
    ASSUME NEW S, S \subseteq Nat, S # {}, NEW n \in Nat, \A s \in S : s <= n
    PROVE  \E x \in S : \A y \in S : y <= x
<1> DEFINE D == {n - s : s \in S}
<1>1. D \subseteq Nat /\ D # {}
  <2>1. \A s \in S : n - s \in Nat
    OBVIOUS
  <2> QED
    BY <2>1
<1> HIDE DEF D
<1>2. PICK d \in D : \A e \in D : d <= e
  BY <1>1, SmallestNat
<1>3. PICK x \in S : d = n - x
  BY DEF D
<1>4. ASSUME NEW y \in S PROVE y <= x
  <2>1. n - y \in D
    BY DEF D
  <2> QED
    BY <2>1, <1>2, <1>3
<1> QED
  BY <1>4

-----------------------------------------------------------------------------
(* The script cuts the messages of the application.                        *)

\* A fragment of a message of the log, with the flags of its place.
Piece(g, lg) ==
    /\ ~g.abandon /\ ~g.end /\ g.size > 0
    /\ g.msg \in 1..Len(lg) /\ g.from + g.size <= lg[g.msg].size
    /\ g.before <=> g.from > 0
    /\ g.after <=> g.from + g.size < lg[g.msg].size

\* e comes after g: the rest of its message or the start of the next one.
Succeeds(g, e) ==
    IF g.after THEN e.msg = g.msg /\ e.from = g.from + g.size
    ELSE e.msg = g.msg + 1 /\ e.from = 0

\* The whole script.  Nothing comes after the end.
WellCut(h, lg) ==
    /\ h \in Seq(Fragment)
    /\ \A t \in 1..Len(h) : h[t] # EndFragment => Piece(h[t], lg)
    /\ (h # <<>> /\ h[1] # EndFragment) => h[1].msg = 1 /\ h[1].from = 0
    /\ \A t \in 1..(Len(h) - 1) :
          /\ h[t] # EndFragment
          /\ h[t + 1] # EndFragment => Succeeds(h[t], h[t + 1])

\* The first t stages of the script contain the end of message m.
Passed(h, m, t) == t > 0 /\ (m < h[t].msg \/ (m = h[t].msg /\ ~h[t].after))

-----------------------------------------------------------------------------
(* The state of a flow that a prefix of the script explains.               *)

IsFlow(f) ==
    /\ f = [stage |-> f.stage, stageEnd |-> f.stageEnd, fragments |-> f.fragments,
            fragmentation |-> f.fragmentation, buffer |-> f.buffer,
            delivered |-> f.delivered, ended |-> f.ended]
    /\ f.stage \in Nat /\ f.stageEnd \in Nat /\ f.ended \in Nat
    /\ f.buffer \in Seq(Fragment) /\ f.delivered \in Seq(Seq(Fragment))

\* Pieces of one message that fit together, from its start.
Chain(p) ==
    /\ p # <<>> /\ p[1].from = 0
    /\ \A k \in 1..Len(p) : p[k].msg = p[1].msg
    /\ \A k \in 1..(Len(p) - 1) : p[k + 1].from = p[k].from + p[k].size

\* ... up to its end.
Complete(p, lg) ==
    /\ Chain(p)
    /\ p[1].msg \in 1..Len(lg)
    /\ p[Len(p)].from + p[Len(p)].size = lg[p[1].msg].size

Ids(ds) == [i \in 1..Len(ds) |-> ds[i][1].msg]
Delivered(ds, m) == \E i \in 1..Len(ds) : ds[i][1].msg = m

\* What was delivered: whole messages in order, no reliable one skipped.
Deliveries(ds, lg) ==
    /\ \A i \in 1..Len(ds) : Complete(ds[i], lg)
    /\ \A i \in 1..(Len(ds) - 1) : ds[i][1].msg < ds[i + 1][1].msg
    /\ \A i \in 1..Len(ds) : \A m \in 1..ds[i][1].msg : lg[m].reliable => Delivered(ds, m)

\* The buffer holds the start of the message that the last stage is cut from.
BufferFits(f, h, lg) ==
    /\ f.buffer # <<>> =>
         /\ f.stage > 0 /\ Chain(f.buffer)
         /\ f.buffer[Len(f.buffer)] = h[f.stage] /\ h[f.stage].after
    /\ (f.buffer = <<>> /\ f.stage > 0 /\ h[f.stage].after) => ~lg[h[f.stage].msg].reliable

\* What was delivered is what the stages passed allow.
DeliveredFits(f, h, lg) ==
    /\ \A i \in 1..Len(f.delivered) : Passed(h, f.delivered[i][1].msg, f.stage)
    /\ \A m \in 1..Len(lg) : lg[m].reliable /\ Passed(h, m, f.stage) => Delivered(f.delivered, m)

Explained(f, h, lg) ==
    /\ f.stage <= Len(h) /\ \A t \in 1..f.stage : h[t] # EndFragment
    /\ BufferFits(f, h, lg)
    /\ DeliveredFits(f, h, lg)
    /\ Deliveries(f.delivered, lg)

\* The fragments held back, up to stage n of the script, end excepted.
Held(f, h, n) ==
    \A s \in DOMAIN f.fragments :
        s \in Nat /\ s > f.stage /\ s <= n /\ f.fragments[s] = h[s] /\ h[s] # EndFragment

-----------------------------------------------------------------------------
(* onFragment, one stage after the other.                                  *)

LEMMA OnFragmentFields ==
    ASSUME NEW f, IsFlow(f), NEW s, s \in Nat, NEW g, g \in Fragment
    PROVE  LET r == onFragment(f, s, g) IN
           /\ IsFlow(r)
           /\ r.stage = s /\ r.stageEnd = f.stageEnd /\ r.ended = f.ended
           /\ r.fragments = f.fragments /\ r.fragmentation = f.fragmentation
<1> DEFINE r == onFragment(f, s, g)
           headless == f.buffer = <<>> /\ g.before
           parts == IF headless THEN <<>> ELSE Append(f.buffer, g)
           buffer == IF g.after THEN parts ELSE <<>>
           delivered == IF g.after \/ headless THEN f.delivered ELSE Append(f.delivered, parts)
<1>1. parts \in Seq(Fragment)
  BY DEF IsFlow
<1>2. buffer \in Seq(Fragment) /\ delivered \in Seq(Seq(Fragment))
  BY <1>1 DEF IsFlow
<1>3. r = [f EXCEPT !.stage = s, !.buffer = buffer, !.delivered = delivered]
  BY DEF onFragment
<1> HIDE DEF buffer, delivered, r
<1>4. r = [stage |-> s, stageEnd |-> f.stageEnd, fragments |-> f.fragments,
           fragmentation |-> f.fragmentation, buffer |-> buffer,
           delivered |-> delivered, ended |-> f.ended]
  BY <1>3 DEF IsFlow
<1>5. IsFlow(r) /\ r.buffer = buffer /\ r.delivered = delivered
  BY <1>4, <1>2 DEF IsFlow
<1> QED
  BY <1>4, <1>5 DEF r

\* A fragment without the beginning of its message is ignored, ...
LEMMA OnFragmentHeadless ==
    ASSUME NEW f, IsFlow(f), NEW s, NEW g, f.buffer = <<>>, g.before
    PROVE  onFragment(f, s, g).buffer = <<>> /\ onFragment(f, s, g).delivered = f.delivered
BY DEF onFragment, IsFlow

\* ... one that has a rest waits for it, ...
LEMMA OnFragmentPart ==
    ASSUME NEW f, IsFlow(f), NEW s, NEW g, ~(f.buffer = <<>> /\ g.before), g.after
    PROVE  /\ onFragment(f, s, g).buffer = Append(f.buffer, g)
           /\ onFragment(f, s, g).delivered = f.delivered
BY DEF onFragment, IsFlow

\* ... and the last one delivers the message.
LEMMA OnFragmentLast ==
    ASSUME NEW f, IsFlow(f), NEW s, NEW g, ~(f.buffer = <<>> /\ g.before), ~g.after
    PROVE  /\ onFragment(f, s, g).buffer = <<>>
           /\ onFragment(f, s, g).delivered = Append(f.delivered, Append(f.buffer, g))
BY DEF onFragment, IsFlow

\* What was given to the stream is never taken back.
Extends(ds, es) == Len(ds) <= Len(es) /\ \A i \in 1..Len(ds) : es[i] = ds[i]

LEMMA AppendSeq ==
    ASSUME NEW S, NEW p \in Seq(S), NEW g \in S
    PROVE  LET q == Append(p, g) IN
           /\ q \in Seq(S) /\ Len(q) = Len(p) + 1 /\ q # <<>> /\ Len(p) \in Nat
           /\ q[Len(p) + 1] = g /\ \A k \in 1..Len(p) : k \in 1..Len(q) /\ q[k] = p[k]
OBVIOUS

LEMMA ChainAppend ==
    ASSUME NEW p \in Seq(Fragment), NEW g \in Fragment,
           p = <<>> => g.from = 0,
           p # <<>> => /\ Chain(p) /\ g.msg = p[Len(p)].msg
                       /\ g.from = p[Len(p)].from + p[Len(p)].size
    PROVE  LET q == Append(p, g) IN
           q \in Seq(Fragment) /\ Chain(q) /\ q[1].msg = g.msg /\ q[Len(q)] = g
<1> DEFINE q == Append(p, g)
<1>1. /\ q \in Seq(Fragment) /\ Len(q) = Len(p) + 1 /\ q # <<>> /\ Len(p) \in Nat
      /\ q[Len(p) + 1] = g /\ \A k \in 1..Len(p) : q[k] = p[k]
  BY AppendSeq
<1> HIDE DEF q
<1>2. CASE p = <<>>
  BY <1>1, <1>2 DEF Chain, q
<1>3. CASE p # <<>>
  <2>1. 1 \in 1..Len(p) /\ Len(p) \in 1..Len(p) /\ q[1] = p[1]
    BY <1>1, <1>3
  <2>2. /\ p[1].from = 0 /\ \A k \in 1..Len(p) : p[k].msg = p[1].msg
        /\ \A k \in 1..(Len(p) - 1) : p[k + 1].from = p[k].from + p[k].size
    BY <1>3 DEF Chain
  <2>3. \A k \in 1..Len(q) : q[k].msg = q[1].msg
    BY <1>1, <1>3, <2>1, <2>2
  <2>4. \A k \in 1..(Len(q) - 1) : q[k + 1].from = q[k].from + q[k].size
    <3> TAKE k \in 1..(Len(q) - 1)
    <3>1. CASE k = Len(p)
      BY <3>1, <1>1, <1>3, <2>1
    <3>2. CASE k # Len(p)
      <4>1. k \in 1..(Len(p) - 1) /\ k + 1 \in 1..Len(p) /\ k \in 1..Len(p)
        BY <3>2, <1>1
      <4> QED
        BY <4>1, <1>1, <2>2
    <3> QED
      BY <3>1, <3>2
  <2> QED
    BY <1>1, <1>3, <2>1, <2>2, <2>3, <2>4 DEF Chain, q
<1> QED
  BY <1>2, <1>3 DEF q

LEMMA DeliveriesAppend ==
    ASSUME NEW lg, NEW ds \in Seq(Seq(Fragment)), Deliveries(ds, lg),
           NEW p \in Seq(Fragment), Complete(p, lg), NEW m \in Nat, m = p[1].msg,
           \A i \in 1..Len(ds) : ds[i][1].msg < m,
           \A k \in 1..(m - 1) : lg[k].reliable => Delivered(ds, k)
    PROVE  Deliveries(Append(ds, p), lg)
<1> DEFINE es == Append(ds, p)
<1>1. /\ es \in Seq(Seq(Fragment)) /\ Len(es) = Len(ds) + 1 /\ Len(ds) \in Nat
      /\ es[Len(ds) + 1] = p /\ \A i \in 1..Len(ds) : i \in 1..Len(es) /\ es[i] = ds[i]
  OBVIOUS
<1> HIDE DEF es
<1>2. ASSUME NEW k, Delivered(ds, k) PROVE Delivered(es, k)
  <2>1. PICK i \in 1..Len(ds) : ds[i][1].msg = k
    BY <1>2 DEF Delivered
  <2>2. i \in 1..Len(es) /\ es[i][1].msg = k
    BY <2>1, <1>1
  <2> QED
    BY <2>2 DEF Delivered
<1>3. Delivered(es, m)
  <2>1. Len(es) \in 1..Len(es) /\ es[Len(es)] = p
    BY <1>1
  <2> QED
    BY <2>1 DEF Delivered
<1>4. \A i \in 1..Len(es) : Complete(es[i], lg)
  <2>1. \A i \in 1..Len(ds) : Complete(es[i], lg)
    BY <1>1 DEF Deliveries
  <2>2. Complete(es[Len(ds) + 1], lg)
    BY <1>1
  <2>3. \A i \in 1..Len(es) : i \in 1..Len(ds) \/ i = Len(ds) + 1
    BY <1>1
  <2> QED
    BY <2>1, <2>2, <2>3
<1>5. \A i \in 1..(Len(es) - 1) : es[i][1].msg < es[i + 1][1].msg
  <2> TAKE i \in 1..(Len(es) - 1)
  <2>1. CASE i = Len(ds)
    <3>1. i \in 1..Len(ds) /\ es[i] = ds[i] /\ es[i + 1] = p
      BY <2>1, <1>1
    <3> QED
      BY <3>1
  <2>2. CASE i # Len(ds)
    <3>1. i \in 1..(Len(ds) - 1) /\ i + 1 \in 1..Len(ds) /\ i \in 1..Len(ds)
      BY <2>2, <1>1
    <3> QED
      BY <3>1, <1>1 DEF Deliveries
  <2> QED
    BY <2>1, <2>2
<1>6. \A i \in 1..Len(es) : \A k \in 1..es[i][1].msg : lg[k].reliable => Delivered(es, k)
  <2> TAKE i \in 1..Len(es)
  <2> TAKE k \in 1..es[i][1].msg
  <2>1. CASE i \in 1..Len(ds)
    BY <2>1, <1>1, <1>2 DEF Deliveries
  <2>2. CASE i = Len(ds) + 1
    <3>1. k \in 1..(m - 1) \/ k = m
      BY <2>2, <1>1
    <3> QED
      BY <3>1, <1>2, <1>3
  <2> QED
    BY <2>1, <2>2, <1>1
<1> QED
  BY <1>4, <1>5, <1>6 DEF Deliveries, es

\* The last fragment of a message reaches its end.
LEMMA LastPiece ==
    ASSUME NEW lg \in Seq(Message), NEW g \in Fragment, Piece(g, lg), ~g.after
    PROVE  g.from + g.size = lg[g.msg].size
<1>1. g.msg \in 1..Len(lg) /\ g.from \in Nat /\ g.size \in Nat
  BY DEF Piece, Fragment
<1>2. lg[g.msg] \in Message
  BY <1>1
<1>3. lg[g.msg].size \in Nat
  BY <1>2 DEF Message
<1>4. g.from + g.size <= lg[g.msg].size /\ ~(g.from + g.size < lg[g.msg].size)
  BY DEF Piece
<1> QED
  BY <1>1, <1>3, <1>4

\* The stage after the first ones: what is passed before it and with it.
LEMMA NextPiece ==
    ASSUME NEW h, NEW lg \in Seq(Message), WellCut(h, lg),
           NEW t \in Nat, t + 1 <= Len(h), h[t + 1] # EndFragment
    PROVE  /\ h[t + 1] \in Fragment /\ Piece(h[t + 1], lg)
           /\ t = 0 => h[t + 1].msg = 1 /\ h[t + 1].from = 0
           /\ t > 0 => h[t] \in Fragment /\ Piece(h[t], lg) /\ Succeeds(h[t], h[t + 1])
           /\ \A m \in Nat \ {0} : Passed(h, m, t) <=> m < h[t + 1].msg
           /\ \A m : Passed(h, m, t + 1) <=>
                        m < h[t + 1].msg \/ (m = h[t + 1].msg /\ ~h[t + 1].after)
<1>1. h \in Seq(Fragment) /\ Len(h) \in Nat /\ t + 1 \in 1..Len(h)
  BY DEF WellCut
<1>2. h[t + 1] \in Fragment /\ Piece(h[t + 1], lg)
  BY <1>1 DEF WellCut
<1>3. t = 0 => h[t + 1].msg = 1 /\ h[t + 1].from = 0
  BY <1>1 DEF WellCut
<1>4. t > 0 => h[t] \in Fragment /\ Piece(h[t], lg) /\ Succeeds(h[t], h[t + 1])
  <2> HAVE t > 0
  <2>1. t \in 1..Len(h) /\ t \in 1..(Len(h) - 1)
    BY <1>1
  <2> QED
    BY <2>1, <1>1 DEF WellCut
<1>5. \A m : Passed(h, m, t + 1) <=>
                m < h[t + 1].msg \/ (m = h[t + 1].msg /\ ~h[t + 1].after)
  BY DEF Passed
<1>6. ASSUME NEW m \in Nat \ {0} PROVE Passed(h, m, t) <=> m < h[t + 1].msg
  <2>1. CASE t = 0
    BY <2>1, <1>3 DEF Passed
  <2>2. CASE t > 0
    <3>1. h[t].msg \in Nat /\ h[t + 1].msg \in Nat
      BY <2>2, <1>2, <1>4 DEF Fragment
    <3> QED
      BY <2>2, <3>1, <1>4 DEF Passed, Succeeds
  <2> QED
    BY <2>1, <2>2
<1> QED
  BY <1>2, <1>3, <1>4, <1>5, <1>6

\* The next stage of the script, given to onFragment, leaves a flow that the
\* script explains.
LEMMA OnFragmentExplained ==
    ASSUME NEW h, NEW lg \in Seq(Message), WellCut(h, lg),
           NEW f, IsFlow(f), Explained(f, h, lg),
           NEW s, s = f.stage + 1, s <= Len(h), h[s] # EndFragment,
           NEW g, g = h[s], NEW r, r = onFragment(f, s, g)
    PROVE  /\ IsFlow(r) /\ Explained(r, h, lg)
           /\ r.stage = s /\ r.stageEnd = f.stageEnd /\ r.ended = f.ended
           /\ r.fragments = f.fragments /\ r.fragmentation = f.fragmentation
           /\ Extends(f.delivered, r.delivered)
<1> DEFINE headless == f.buffer = <<>> /\ g.before
           parts == Append(f.buffer, g)
           t == f.stage
           passedWith(m) == m < g.msg \/ (m = g.msg /\ ~g.after)
<1>1. /\ t \in Nat /\ s \in Nat /\ s = t + 1 /\ s > 0
      /\ f.buffer \in Seq(Fragment) /\ f.delivered \in Seq(Seq(Fragment))
  BY DEF IsFlow
<1>2. /\ g \in Fragment /\ Piece(g, lg)
      /\ t = 0 => g.msg = 1 /\ g.from = 0
      /\ t > 0 => h[t] \in Fragment /\ Piece(h[t], lg) /\ Succeeds(h[t], g)
      /\ \A m \in Nat \ {0} : Passed(h, m, t) <=> m < g.msg
      /\ \A m : Passed(h, m, s) <=> passedWith(m)
  BY <1>1, NextPiece
<1>d. g \in Fragment
  BY <1>2
<1>3. /\ BufferFits(f, h, lg) /\ DeliveredFits(f, h, lg) /\ Deliveries(f.delivered, lg)
      /\ t <= Len(h) /\ \A k \in 1..t : h[k] # EndFragment
  BY DEF Explained
<1>4. g.msg \in Nat \ {0} /\ g.from \in Nat /\ g.msg \in 1..Len(lg) /\ g.size \in Nat
  BY <1>2 DEF Piece, Fragment
<1>5. headless \in BOOLEAN /\ g.before \in BOOLEAN /\ g.after \in BOOLEAN
  BY <1>2 DEF Fragment
<1>6. /\ IsFlow(r)
      /\ r.stage = s /\ r.stageEnd = f.stageEnd /\ r.ended = f.ended
      /\ r.fragments = f.fragments /\ r.fragmentation = f.fragmentation
  BY <1>1, <1>d, OnFragmentFields
<1>c. /\ headless => r.buffer = <<>> /\ r.delivered = f.delivered
      /\ (~headless /\ g.after) => r.buffer = parts /\ r.delivered = f.delivered
      /\ (~headless /\ ~g.after) => r.buffer = <<>> /\ r.delivered = Append(f.delivered, parts)
  <2>1. CASE headless
    BY <2>1, OnFragmentHeadless
  <2>2. CASE ~headless /\ g.after
    BY <2>2, OnFragmentPart
  <2>3. CASE ~headless /\ ~g.after
    BY <2>3, OnFragmentLast
  <2> QED
    BY <2>1, <2>2, <2>3
<1>7. \A k \in 1..s : h[k] # EndFragment
  BY <1>1, <1>3
\* the messages delivered before are those before that of g
<1>8. \A i \in 1..Len(f.delivered) :
        f.delivered[i][1].msg \in Nat \ {0} /\ f.delivered[i][1].msg < g.msg
  <2> TAKE i \in 1..Len(f.delivered)
  <2>1. f.delivered[i][1].msg \in Nat \ {0} /\ Passed(h, f.delivered[i][1].msg, t)
    BY <1>3 DEF Deliveries, Complete, DeliveredFits
  <2> QED
    BY <2>1, <1>2
<1>9. \A m \in 1..(g.msg - 1) : lg[m].reliable => Delivered(f.delivered, m)
  <2> TAKE m \in 1..(g.msg - 1)
  <2>1. m \in 1..Len(lg) /\ Passed(h, m, t)
    BY <1>2, <1>4
  <2> QED
    BY <2>1, <1>3 DEF DeliveredFits
<1>a. Extends(f.delivered, f.delivered)
  BY <1>1 DEF Extends
<1>10. CASE headless
  <2>1. t > 0 /\ h[t].after /\ h[t].msg = g.msg /\ ~lg[g.msg].reliable
    <3>1. g.from # 0
      BY <1>10, <1>2, <1>4 DEF Piece
    <3>2. t > 0 /\ h[t].after /\ h[t].msg = g.msg
      BY <3>1, <1>1, <1>2 DEF Succeeds
    <3> QED
      BY <3>2, <1>10, <1>3 DEF BufferFits
  <2>2. r.buffer = <<>> /\ r.delivered = f.delivered
    BY <1>c, <1>10
  <2>3. BufferFits(r, h, lg)
    BY <2>1, <2>2, <1>6 DEF BufferFits
  <2>4. DeliveredFits(r, h, lg)
    <3>1. \A i \in 1..Len(r.delivered) : Passed(h, r.delivered[i][1].msg, r.stage)
      BY <1>2, <1>6, <1>8, <2>2
    <3>2. ASSUME NEW m \in 1..Len(lg), lg[m].reliable, Passed(h, m, s)
          PROVE  Delivered(r.delivered, m)
      <4>1. m < g.msg
        BY <3>2, <1>2, <2>1
      <4> QED
        BY <4>1, <3>2, <1>4, <1>9, <2>2
    <3> QED
      BY <3>1, <3>2, <1>6 DEF DeliveredFits
  <2> QED
    BY <2>2, <2>3, <2>4, <1>a, <1>1, <1>3, <1>6, <1>7 DEF Explained
<1>11. CASE ~headless
  <2>1. parts = Append(f.buffer, g)
    OBVIOUS
  <2>2. /\ f.buffer = <<>> => g.from = 0
        /\ f.buffer # <<>> => /\ Chain(f.buffer) /\ g.msg = f.buffer[Len(f.buffer)].msg
                              /\ g.from = f.buffer[Len(f.buffer)].from + f.buffer[Len(f.buffer)].size
    <3>1. CASE f.buffer = <<>>
      BY <3>1, <1>11, <1>2, <1>4 DEF Piece
    <3>2. CASE f.buffer # <<>>
      BY <3>2, <1>2, <1>3 DEF BufferFits, Succeeds
    <3> QED
      BY <3>1, <3>2
  <2>3. /\ parts \in Seq(Fragment) /\ Chain(parts) /\ parts[1].msg = g.msg
        /\ parts[Len(parts)] = g /\ parts # <<>>
    BY <2>2, <1>1, <1>d, ChainAppend DEF Chain
  <2> HIDE DEF parts
  <2>4. CASE g.after
    <3>1. r.buffer = parts /\ r.delivered = f.delivered
      BY <1>c, <1>11, <2>4
    <3>2. BufferFits(r, h, lg)
      BY <3>1, <2>3, <2>4, <1>1, <1>6 DEF BufferFits
    <3>3. DeliveredFits(r, h, lg)
      <4>1. \A i \in 1..Len(r.delivered) : Passed(h, r.delivered[i][1].msg, r.stage)
        BY <1>2, <1>6, <1>8, <3>1
      <4>2. ASSUME NEW m \in 1..Len(lg), lg[m].reliable, Passed(h, m, s)
            PROVE  Delivered(r.delivered, m)
        <5>1. m < g.msg
          BY <4>2, <1>2, <2>4
        <5> QED
          BY <5>1, <4>2, <1>4, <1>9, <3>1
      <4> QED
        BY <4>1, <4>2, <1>6 DEF DeliveredFits
    <3> QED
      BY <3>1, <3>2, <3>3, <1>a, <1>1, <1>3, <1>6, <1>7 DEF Explained
  <2>5. CASE ~g.after
    <3>1. r.buffer = <<>> /\ r.delivered = Append(f.delivered, parts)
      BY <1>c, <1>11, <2>5
    <3>2. BufferFits(r, h, lg)
      BY <3>1, <2>5, <1>6 DEF BufferFits
    <3>3. Complete(parts, lg)
      <4>1. g.from + g.size = lg[g.msg].size
        <5>1. Piece(g, lg)
          BY <1>2
        <5> QED
          BY <5>1, <1>d, <2>5, LastPiece
      <4> QED
        BY <4>1, <2>3, <1>4 DEF Complete
    <3>4. Deliveries(r.delivered, lg)
      BY <3>1, <3>3, <2>3, <1>1, <1>3, <1>4, <1>8, <1>9, DeliveriesAppend
    <3>5. /\ Len(r.delivered) = Len(f.delivered) + 1 /\ Len(f.delivered) \in Nat
          /\ r.delivered[Len(f.delivered) + 1] = parts
          /\ \A i \in 1..Len(f.delivered) : r.delivered[i] = f.delivered[i]
      BY <3>1, <1>1, <2>3, SMTT(20)
    <3>6. DeliveredFits(r, h, lg)
      <4>1. \A i \in 1..Len(r.delivered) : Passed(h, r.delivered[i][1].msg, s)
        <5> TAKE i \in 1..Len(r.delivered)
        <5>1. CASE i \in 1..Len(f.delivered)
          BY <5>1, <3>5, <1>2, <1>8
        <5>2. CASE i = Len(f.delivered) + 1
          BY <5>2, <3>5, <1>2, <2>3, <2>5
        <5> QED
          BY <5>1, <5>2, <3>5
      <4>2. ASSUME NEW m \in 1..Len(lg), lg[m].reliable, Passed(h, m, s)
            PROVE  Delivered(r.delivered, m)
        <5>1. CASE m < g.msg
          <6>1. Delivered(f.delivered, m)
            BY <5>1, <4>2, <1>4, <1>9
          <6>2. PICK i \in 1..Len(f.delivered) : f.delivered[i][1].msg = m
            BY <6>1 DEF Delivered
          <6>3. i \in 1..Len(r.delivered) /\ r.delivered[i] = f.delivered[i]
            BY <3>5
          <6> QED
            BY <6>2, <6>3 DEF Delivered
        <5>2. CASE m = g.msg
          <6>1. Len(f.delivered) + 1 \in 1..Len(r.delivered)
            BY <3>5
          <6> QED
            BY <6>1, <5>2, <3>5, <2>3 DEF Delivered
        <5> QED
          BY <5>1, <5>2, <4>2, <1>2
      <4> QED
        BY <4>1, <4>2, <1>6 DEF DeliveredFits
    <3>7. Extends(f.delivered, r.delivered)
      BY <3>5 DEF Extends
    <3> QED
      BY <3>2, <3>4, <3>6, <3>7, <1>1, <1>6, <1>7 DEF Explained
  <2> QED
    BY <2>4, <2>5, <1>5
<1> QED
  BY <1>10, <1>11

-----------------------------------------------------------------------------
(* The fragments held back by a gap.                                       *)

LEMMA EraseFields ==
    ASSUME NEW f, IsFlow(f), NEW S
    PROVE  LET r == erase(f, S) IN
           /\ IsFlow(r)
           /\ r.stage = f.stage /\ r.stageEnd = f.stageEnd /\ r.ended = f.ended
           /\ r.buffer = f.buffer /\ r.delivered = f.delivered
           /\ r.fragments = [s \in DOMAIN f.fragments \ S |-> f.fragments[s]]
<1> DEFINE r == erase(f, S)
           fragments == [s \in DOMAIN f.fragments \ S |-> f.fragments[s]]
           fragmentation == f.fragmentation - sizeOf(f.fragments, S)
<1>1. r = [f EXCEPT !.fragments = fragments, !.fragmentation = fragmentation]
  BY DEF erase
<1> HIDE DEF fragments, fragmentation, r
<1>2. r = [stage |-> f.stage, stageEnd |-> f.stageEnd, fragments |-> fragments,
           fragmentation |-> fragmentation, buffer |-> f.buffer,
           delivered |-> f.delivered, ended |-> f.ended]
  BY <1>1 DEF IsFlow
<1>3. IsFlow(r) /\ r.fragments = fragments
  BY <1>2 DEF IsFlow
<1> QED
  BY <1>2, <1>3 DEF r, fragments

LEMMA AbandonFields ==
    ASSUME NEW f, IsFlow(f), NEW n, n \in Nat
    PROVE  LET r == abandonTo(f, n) IN
           /\ IsFlow(r)
           /\ r.stage = n /\ r.stageEnd = f.stageEnd /\ r.ended = f.ended
           /\ r.buffer = <<>> /\ r.delivered = f.delivered
           /\ r.fragments = [s \in {t \in DOMAIN f.fragments : ~(t <= n)} |-> f.fragments[s]]
<1> DEFINE S == {s \in DOMAIN f.fragments : s <= n}
           e == erase(f, S)
           r == abandonTo(f, n)
           fragments == [s \in {t \in DOMAIN f.fragments : ~(t <= n)} |-> f.fragments[s]]
<1>1. /\ IsFlow(e) /\ e.stageEnd = f.stageEnd /\ e.ended = f.ended /\ e.delivered = f.delivered
      /\ e.fragments = [s \in DOMAIN f.fragments \ S |-> f.fragments[s]]
  BY EraseFields
<1>2. e.fragments = fragments
  <2>1. DOMAIN f.fragments \ S = {t \in DOMAIN f.fragments : ~(t <= n)}
    OBVIOUS
  <2> QED
    BY <1>1, <2>1
<1>3. r = [e EXCEPT !.buffer = <<>>, !.stage = n]
  BY DEF abandonTo
<1> HIDE DEF e, r, fragments
<1>4. r = [stage |-> n, stageEnd |-> e.stageEnd, fragments |-> e.fragments,
           fragmentation |-> e.fragmentation, buffer |-> <<>>,
           delivered |-> e.delivered, ended |-> e.ended]
  BY <1>1, <1>3 DEF IsFlow
<1>5. <<>> \in Seq(Fragment)
  OBVIOUS
<1>6. IsFlow(r)
  BY <1>1, <1>4, <1>5 DEF IsFlow
<1> QED
  BY <1>1, <1>2, <1>4, <1>6 DEF r, fragments

\* The states of the loop of unbuffer, by stage.
Drain(f, top) ==
    LET after[s \in f.stage..top] ==
            IF s = f.stage THEN f ELSE onFragment(after[s - 1], s, f.fragments[s])
    IN  after

LEMMA DrainExists ==
    ASSUME NEW f, f.stage \in Nat, NEW top, top \in Nat
    PROVE  \E g : g = [s \in f.stage..top |->
                          IF s = f.stage THEN f ELSE onFragment(g[s - 1], s, f.fragments[s])]
<1> DEFINE a == f.stage
           body(g, s) == IF s = a THEN f ELSE onFragment(g[s - 1], s, f.fragments[s])
           T == {n \in Nat : \E g : g = [s \in a..(a + n) |-> body(g, s)]}
<1>1. 0 \in T
  <2> DEFINE g == [s \in a..(a + 0) |-> f]
  <2>1. \A s \in a..(a + 0) : s = a
    OBVIOUS
  <2>2. g = [s \in a..(a + 0) |-> body(g, s)]
    BY <2>1
  <2> QED
    BY <2>2
<1>2. ASSUME NEW n \in Nat, n \in T PROVE n + 1 \in T
  <2>1. PICK g : g = [s \in a..(a + n) |-> body(g, s)]
    BY <1>2
  <2> DEFINE k == [s \in a..(a + (n + 1)) |->
                       IF s = a + (n + 1) THEN onFragment(g[a + n], s, f.fragments[s]) ELSE g[s]]
  <2>2. ASSUME NEW s \in a..(a + (n + 1)) PROVE k[s] = body(k, s)
    <3>1. CASE s = a + (n + 1)
      <4>1. s - 1 = a + n /\ a + n \in a..(a + (n + 1)) /\ a + n # a + (n + 1) /\ s # a
        BY <3>1
      <4>2. k[s - 1] = g[a + n]
        BY <4>1
      <4> QED
        BY <3>1, <4>1, <4>2
    <3>2. CASE s # a + (n + 1)
      <4>1. s \in a..(a + n)
        BY <3>2
      <4>2. k[s] = g[s] /\ g[s] = body(g, s)
        BY <3>2, <4>1, <2>1
      <4>3. s # a => s - 1 \in a..(a + (n + 1)) /\ s - 1 # a + (n + 1)
        BY <4>1
      <4>4. s # a => k[s - 1] = g[s - 1]
        BY <4>3
      <4> QED
        BY <4>2, <4>4
    <3> QED
      BY <3>1, <3>2
  <2>3. k = [s \in a..(a + (n + 1)) |-> body(k, s)]
    BY <2>2
  <2> HIDE DEF k
  <2> QED
    BY <2>3
<1> HIDE DEF T
<1>3. \A n \in Nat : n \in T
  BY <1>1, <1>2, Induction
<1>4. CASE top < a
  <2> DEFINE g == [s \in a..top |-> f]
  <2>1. \A s \in a..top : FALSE
    BY <1>4
  <2>2. g = [s \in a..top |-> body(g, s)]
    BY <2>1
  <2> QED
    BY <2>2
<1>5. CASE ~(top < a)
  <2>1. top - a \in Nat /\ a + (top - a) = top
    BY <1>5
  <2>2. top - a \in T
    BY <2>1, <1>3
  <2>3. \E g : g = [s \in a..(a + (top - a)) |-> body(g, s)]
    BY <2>2 DEF T
  <2> QED
    BY <2>1, <2>3
<1> QED
  BY <1>4, <1>5

LEMMA DrainSteps ==
    ASSUME NEW f, f.stage \in Nat, NEW top, top \in Nat, f.stage <= top
    PROVE  /\ Drain(f, top)[f.stage] = f
           /\ \A s \in (f.stage + 1)..top :
                 Drain(f, top)[s] = onFragment(Drain(f, top)[s - 1], s, f.fragments[s])
<1>1. \E g : g = [s \in f.stage..top |->
                     IF s = f.stage THEN f ELSE onFragment(g[s - 1], s, f.fragments[s])]
  BY DrainExists
<1> DEFINE d == Drain(f, top)
<1>2. d = [s \in f.stage..top |->
              IF s = f.stage THEN f ELSE onFragment(d[s - 1], s, f.fragments[s])]
  BY <1>1 DEF Drain
<1> HIDE DEF d
<1>3. f.stage \in f.stage..top
  OBVIOUS
<1>4. \A s \in (f.stage + 1)..top : s \in f.stage..top /\ s # f.stage
  OBVIOUS
<1> QED
  BY <1>2, <1>3, <1>4 DEF d

LEMMA ExtendsTrans ==
    ASSUME NEW a, NEW b, NEW c, a \in Seq(Seq(Fragment)), b \in Seq(Seq(Fragment)),
           c \in Seq(Seq(Fragment)), Extends(a, b), Extends(b, c)
    PROVE  Extends(a, c)
BY DEF Extends

LEMMA NextOfInterval ==
    ASSUME NEW a, a \in Nat, NEW k, k \in Nat, NEW top, top \in Nat, a + (k + 1) <= top
    PROVE  /\ a + (k + 1) \in Nat /\ a + k \in Nat
           /\ (a + (k + 1)) - 1 = a + k /\ a + (k + 1) \in (a + 1)..top
OBVIOUS

LEMMA BeyondInterval ==
    ASSUME NEW a, a \in Nat, NEW top, top \in Nat, a <= top, NEW x, x \in Nat
    PROVE  /\ (x > a /\ x \notin (a + 1)..top) => x > top
           /\ x <= top <=> x <= a \/ x \in (a + 1)..top
OBVIOUS

\* A prefix of the script explains every state of the loop.
LEMMA DrainExplained ==
    ASSUME NEW h, NEW lg \in Seq(Message), WellCut(h, lg),
           NEW f, IsFlow(f), Explained(f, h, lg),
           NEW n, n \in Nat, n <= Len(h), Held(f, h, n),
           NEW top, top \in Nat, f.stage <= top, (f.stage + 1)..top \subseteq DOMAIN f.fragments,
           NEW s, s \in f.stage..top
    PROVE  LET r == Drain(f, top)[s] IN
           /\ IsFlow(r) /\ Explained(r, h, lg)
           /\ r.stage = s /\ r.stageEnd = f.stageEnd /\ r.ended = f.ended
           /\ r.fragments = f.fragments /\ r.fragmentation = f.fragmentation
           /\ Extends(f.delivered, r.delivered)
<1> DEFINE Good(r, t) ==
             /\ IsFlow(r) /\ Explained(r, h, lg)
             /\ r.stage = t /\ r.stageEnd = f.stageEnd /\ r.ended = f.ended
             /\ r.fragments = f.fragments /\ r.fragmentation = f.fragmentation
             /\ Extends(f.delivered, r.delivered)
           T == {k \in Nat : f.stage + k <= top => Good(Drain(f, top)[f.stage + k], f.stage + k)}
<1>1. f.stage \in Nat /\ f.delivered \in Seq(Seq(Fragment)) /\ Len(h) \in Nat
  BY DEF IsFlow, WellCut
<1>2. 0 \in T
  <2>1. Drain(f, top)[f.stage + 0] = f
    BY <1>1, DrainSteps
  <2>2. Extends(f.delivered, f.delivered)
    BY <1>1 DEF Extends
  <2>3. Good(f, f.stage + 0)
    BY <2>2, <1>1
  <2> QED
    BY <2>1, <2>3
<1>3. ASSUME NEW k \in Nat, k \in T PROVE k + 1 \in T
  <2> SUFFICES ASSUME f.stage + (k + 1) <= top
               PROVE  Good(Drain(f, top)[f.stage + (k + 1)], f.stage + (k + 1))
    OBVIOUS
  <2> DEFINE t == f.stage + (k + 1)
             e == Drain(f, top)[f.stage + k]
             r == Drain(f, top)[t]
             g == f.fragments[t]
  <2>1. t \in Nat /\ f.stage + k \in Nat /\ t - 1 = f.stage + k /\ t \in (f.stage + 1)..top
    BY <1>1, NextOfInterval
  <2>2. Good(e, f.stage + k)
    <3>1. f.stage + k <= top
      BY <1>1
    <3> QED
      BY <3>1, <1>3
  <2>3. r = onFragment(e, t, g)
    <3>1. r = onFragment(Drain(f, top)[t - 1], t, f.fragments[t])
      BY <2>1, <1>1, DrainSteps
    <3> QED
      BY <3>1, <2>1
  <2>4. g = h[t] /\ g # EndFragment /\ t <= n
    BY <2>1 DEF Held
  <2> HIDE DEF e, r, g, t
  <2>5. /\ IsFlow(e) /\ Explained(e, h, lg) /\ t = e.stage + 1 /\ t <= Len(h)
        /\ e.stageEnd = f.stageEnd /\ e.ended = f.ended
        /\ e.fragments = f.fragments /\ e.fragmentation = f.fragmentation
        /\ Extends(f.delivered, e.delivered)
    BY <2>1, <2>2, <2>4, <1>1 DEF t
  <2>6. /\ IsFlow(r) /\ Explained(r, h, lg)
        /\ r.stage = t /\ r.stageEnd = e.stageEnd /\ r.ended = e.ended
        /\ r.fragments = e.fragments /\ r.fragmentation = e.fragmentation
        /\ Extends(e.delivered, r.delivered)
    BY <2>3, <2>4, <2>5, OnFragmentExplained
  <2>7. Extends(f.delivered, r.delivered)
    <3>1. e.delivered \in Seq(Seq(Fragment)) /\ r.delivered \in Seq(Seq(Fragment))
      BY <2>5, <2>6 DEF IsFlow
    <3> QED
      BY <3>1, <2>5, <2>6, <1>1, ExtendsTrans
  <2> QED
    BY <2>5, <2>6, <2>7 DEF r, t
<1>4. s - f.stage \in Nat /\ f.stage + (s - f.stage) = s
  BY <1>1
<1> HIDE DEF T
<1>5. s - f.stage \in T
  BY <1>2, <1>3, <1>4, Induction
<1> QED
  BY <1>4, <1>5 DEF T

Received(f, x) == x \in DOMAIN f.fragments \/ x <= f.stage

\* The stages that follow without a gap, and their last one.
StageAfter(f) ==
    IF following(f) = {} THEN f.stage
    ELSE CHOOSE s \in following(f) : \A t \in following(f) : t <= s

LEMMA Following ==
    ASSUME NEW f, f.stage \in Nat, NEW n, n \in Nat,
           \A s \in DOMAIN f.fragments : s \in Nat /\ s > f.stage /\ s <= n
    PROVE  LET top == StageAfter(f) IN
           /\ top \in Nat /\ f.stage <= top
           /\ following(f) = (f.stage + 1)..top
           /\ (f.stage + 1)..top \subseteq DOMAIN f.fragments
           /\ top + 1 \notin DOMAIN f.fragments
           /\ top = f.stage \/ top <= n
<1> DEFINE a == f.stage
           D == DOMAIN f.fragments
           next == following(f)
<1>1. next = {s \in D : s > a /\ (a + 1)..s \subseteq D}
  BY DEF following
<1>2. next \subseteq Nat /\ \A s \in next : s <= n
  BY <1>1
<1> HIDE DEF next
<1>3. CASE next = {}
  <2>1. a + 1 \notin D
    <3> SUFFICES ASSUME a + 1 \in D PROVE FALSE
      OBVIOUS
    <3>1. (a + 1)..(a + 1) \subseteq D
      OBVIOUS
    <3> QED
      BY <3>1, <1>1, <1>3
  <2>2. (a + 1)..a = {}
    OBVIOUS
  <2> QED
    BY <2>1, <2>2, <1>3 DEF next, StageAfter
<1>4. CASE next # {}
  <2>1. \E x \in next : \A y \in next : y <= x
    BY <1>2, <1>4, LargestStage
  <2> DEFINE top == CHOOSE s \in next : \A t \in next : t <= s
  <2>2. top \in next /\ \A t \in next : t <= top
    BY <2>1
  <2>a. StageAfter(f) = top
    BY <1>4 DEF StageAfter, next
  <2> HIDE DEF top
  <2>3. top \in Nat /\ top > a /\ (a + 1)..top \subseteq D /\ top <= n
    BY <1>1, <1>2, <2>2
  <2>4. next = (a + 1)..top
    <3>1. ASSUME NEW s \in next PROVE s \in (a + 1)..top
      BY <3>1, <1>1, <1>2, <2>2, <2>3
    <3>2. ASSUME NEW s \in (a + 1)..top PROVE s \in next
      <4>1. s \in D /\ s > a /\ (a + 1)..s \subseteq (a + 1)..top
        BY <2>3
      <4> QED
        BY <4>1, <1>1, <2>3
    <3> QED
      BY <3>1, <3>2
  <2>5. top + 1 \notin D
    <3> SUFFICES ASSUME top + 1 \in D PROVE FALSE
      OBVIOUS
    <3>1. \A t \in (a + 1)..(top + 1) : t = top + 1 \/ t \in (a + 1)..top
      BY <2>3
    <3>2. (a + 1)..(top + 1) \subseteq D /\ top + 1 > a
      BY <3>1, <2>3
    <3>3. top + 1 \in next
      BY <3>2, <1>1
    <3> QED
      BY <3>3, <2>2, <2>3
  <2> QED
    BY <2>a, <2>3, <2>4, <2>5, <1>4 DEF next
<1> QED
  BY <1>3, <1>4

\* unbuffer hands on what the gap was holding back: the flow is explained
\* again and ends at a gap.
LEMMA UnbufferExplained ==
    ASSUME NEW h, NEW lg \in Seq(Message), WellCut(h, lg),
           NEW f, IsFlow(f), Explained(f, h, lg),
           NEW n, n \in Nat, n <= Len(h), f.stage <= n, Held(f, h, n)
    PROVE  LET r == unbuffer(f) IN
           /\ IsFlow(r) /\ Explained(r, h, lg)
           /\ f.stage <= r.stage /\ r.stage <= n
           /\ r.stageEnd = f.stageEnd /\ r.ended = f.ended
           /\ Held(r, h, n) /\ r.stage + 1 \notin DOMAIN r.fragments
           /\ \A x \in Nat : Received(r, x) <=> Received(f, x)
           /\ Extends(f.delivered, r.delivered)
<1>1. f.stage \in Nat /\ \A s \in DOMAIN f.fragments : s \in Nat /\ s > f.stage /\ s <= n
  BY DEF IsFlow, Held
<1>2. PICK top : top = StageAfter(f)
  OBVIOUS
<1>a. /\ top \in Nat /\ f.stage <= top
      /\ following(f) = (f.stage + 1)..top
      /\ (f.stage + 1)..top \subseteq DOMAIN f.fragments
      /\ top + 1 \notin DOMAIN f.fragments
      /\ top = f.stage \/ top <= n
  BY <1>1, <1>2, Following
<1>b. top \in f.stage..top
  BY <1>1, <1>a
<1>c. PICK e : e = Drain(f, top)[top]
  OBVIOUS
<1> DEFINE r == unbuffer(f)
<1>3. r = erase(e, following(f))
  <2>1. r = erase(Drain(f, StageAfter(f))[StageAfter(f)], following(f))
    BY DEF unbuffer, Drain, StageAfter
  <2> QED
    BY <2>1, <1>2, <1>c
<1>4. /\ IsFlow(e) /\ Explained(e, h, lg)
      /\ e.stage = top /\ e.stageEnd = f.stageEnd /\ e.ended = f.ended
      /\ e.fragments = f.fragments
      /\ Extends(f.delivered, e.delivered)
  BY <1>a, <1>b, <1>c, DrainExplained
<1>5. /\ IsFlow(r)
      /\ r.stage = e.stage /\ r.stageEnd = e.stageEnd /\ r.ended = e.ended
      /\ r.buffer = e.buffer /\ r.delivered = e.delivered
      /\ r.fragments = [s \in DOMAIN e.fragments \ following(f) |-> e.fragments[s]]
  <2>1. IsFlow(e)
    BY <1>4
  <2> HIDE DEF r
  <2> QED
    BY <2>1, <1>3, EraseFields
<1> HIDE DEF r
<1>6. /\ DOMAIN r.fragments = DOMAIN f.fragments \ ((f.stage + 1)..top)
      /\ \A s \in DOMAIN r.fragments : r.fragments[s] = f.fragments[s]
  BY <1>a, <1>4, <1>5
<1>7. Explained(r, h, lg)
  BY <1>4, <1>5 DEF Explained, BufferFits, DeliveredFits
<1>8. Held(r, h, n)
  <2> SUFFICES ASSUME NEW s \in DOMAIN r.fragments
               PROVE  /\ s \in Nat /\ s > r.stage /\ s <= n
                      /\ r.fragments[s] = h[s] /\ h[s] # EndFragment
    BY DEF Held
  <2>1. /\ s \in DOMAIN f.fragments /\ s \notin (f.stage + 1)..top
        /\ r.fragments[s] = f.fragments[s]
    BY <1>6
  <2>2. s \in Nat /\ s > f.stage /\ s <= n /\ f.fragments[s] = h[s] /\ h[s] # EndFragment
    BY <2>1 DEF Held
  <2>3. s > top
    BY <2>1, <2>2, <1>1, <1>a, BeyondInterval
  <2> QED
    BY <2>1, <2>2, <2>3, <1>4, <1>5
<1>9. \A x \in Nat : Received(r, x) <=> Received(f, x)
  <2> TAKE x \in Nat
  <2>1. Received(r, x) <=>
          (x \in DOMAIN f.fragments /\ x \notin (f.stage + 1)..top) \/ x <= top
    BY <1>4, <1>5, <1>6 DEF Received
  <2>2. x <= top <=> x <= f.stage \/ x \in (f.stage + 1)..top
    BY <1>1, <1>a, BeyondInterval
  <2>3. x \in (f.stage + 1)..top => x \in DOMAIN f.fragments
    BY <1>a
  <2> QED
    BY <2>1, <2>2, <2>3 DEF Received
<1>10. r.stage + 1 \notin DOMAIN r.fragments
  BY <1>a, <1>4, <1>5, <1>6
<1>11. f.stage <= r.stage /\ r.stage <= n
  BY <1>1, <1>a, <1>4, <1>5
<1> QED
  BY <1>4, <1>5, <1>7, <1>8, <1>9, <1>10, <1>11 DEF r

-----------------------------------------------------------------------------
(* The ABANDON of a datagram: stages that are lost without loss of a       *)
(* reliable message.                                                       *)

LEMMA PassedNext ==
    ASSUME NEW h, NEW lg \in Seq(Message), WellCut(h, lg),
           NEW t, t \in Nat, t + 1 <= Len(h), h[t + 1] # EndFragment,
           NEW m, m \in Nat \ {0}
    PROVE  /\ Passed(h, m, t) => Passed(h, m, t + 1)
           /\ Passed(h, m, t + 1) => Passed(h, m, t) \/ m = h[t + 1].msg
<1>1. /\ \A k \in Nat \ {0} : Passed(h, k, t) <=> k < h[t + 1].msg
      /\ \A k : Passed(h, k, t + 1) <=>
                   k < h[t + 1].msg \/ (k = h[t + 1].msg /\ ~h[t + 1].after)
  BY NextPiece
<1> QED
  BY <1>1

\* What the stages a + 1 .. s pass is what they end.
LEMMA PassedOver ==
    ASSUME NEW h, NEW lg \in Seq(Message), WellCut(h, lg),
           NEW a, a \in Nat, NEW s, s \in Nat, a <= s, s <= Len(h),
           \A t \in (a + 1)..s : h[t] # EndFragment,
           NEW m, m \in Nat \ {0}
    PROVE  /\ Passed(h, m, a) => Passed(h, m, s)
           /\ (\A t \in (a + 1)..s : h[t].msg # m) => (Passed(h, m, s) => Passed(h, m, a))
<1> DEFINE Good(t) == /\ Passed(h, m, a) => Passed(h, m, t)
                      /\ (\A u \in (a + 1)..s : h[u].msg # m) => (Passed(h, m, t) => Passed(h, m, a))
           T == {k \in Nat : a + k <= s => Good(a + k)}
<1>1. 0 \in T
  OBVIOUS
<1>2. ASSUME NEW k \in Nat, k \in T PROVE k + 1 \in T
  <2> SUFFICES ASSUME a + (k + 1) <= s PROVE Good(a + (k + 1))
    OBVIOUS
  <2>1. PICK t : t = a + k
    OBVIOUS
  <2>2. /\ t \in Nat /\ a + (k + 1) = t + 1 /\ t <= s /\ t + 1 \in (a + 1)..s
        /\ t + 1 <= Len(h)
    <3>1. Len(h) \in Nat
      BY DEF WellCut
    <3> QED
      BY <2>1, <3>1
  <2>3. Good(t)
    BY <2>1, <2>2, <1>2
  <2>4. h[t + 1] # EndFragment
    BY <2>2
  <2>5. /\ Passed(h, m, t) => Passed(h, m, t + 1)
        /\ Passed(h, m, t + 1) => Passed(h, m, t) \/ m = h[t + 1].msg
    BY <2>2, <2>4, PassedNext
  <2>6. Good(t + 1)
    BY <2>2, <2>3, <2>5
  <2> QED
    BY <2>2, <2>6
<1> HIDE DEF T
<1>3. s - a \in Nat /\ a + (s - a) = s
  OBVIOUS
<1>4. s - a \in T
  BY <1>1, <1>2, <1>3, Induction
<1> QED
  BY <1>3, <1>4 DEF T

Unreliable(h, lg, t) == h[t] # EndFragment /\ ~lg[h[t].msg].reliable

LEMMA AbandonExplained ==
    ASSUME NEW h, NEW lg \in Seq(Message), WellCut(h, lg),
           NEW f, IsFlow(f), Explained(f, h, lg),
           NEW n, n \in Nat, n <= Len(h), Held(f, h, n),
           NEW s, s \in Nat, f.stage <= s, s <= n, s > 0,
           \A t \in (f.stage + 1)..s : Unreliable(h, lg, t),
           f.stage < s
    PROVE  LET r == abandonTo(f, s) IN
           /\ IsFlow(r) /\ Explained(r, h, lg) /\ r.stage = s
           /\ r.stageEnd = f.stageEnd /\ r.ended = f.ended /\ r.delivered = f.delivered
           /\ Held(r, h, n)
           /\ \A x \in Nat : Received(r, x) <=> Received(f, x) \/ x <= s
<1> DEFINE r == abandonTo(f, s)
<1>1. /\ IsFlow(r)
      /\ r.stage = s /\ r.stageEnd = f.stageEnd /\ r.ended = f.ended
      /\ r.buffer = <<>> /\ r.delivered = f.delivered
      /\ r.fragments = [x \in {t \in DOMAIN f.fragments : ~(t <= s)} |-> f.fragments[x]]
  BY AbandonFields
<1> HIDE DEF r
<1>2. f.stage \in Nat /\ Len(h) \in Nat /\ s <= Len(h) /\ f.delivered \in Seq(Seq(Fragment))
  BY DEF IsFlow, WellCut
<1>3. DeliveredFits(f, h, lg) /\ Deliveries(f.delivered, lg) /\ \A t \in 1..f.stage : h[t] # EndFragment
  BY DEF Explained
<1>4. \A t \in (f.stage + 1)..s : h[t] # EndFragment /\ ~lg[h[t].msg].reliable
  BY DEF Unreliable
<1>5. \A t \in 1..s : h[t] # EndFragment
  <2>1. \A t \in 1..s : t \in 1..f.stage \/ t \in (f.stage + 1)..s
    BY <1>2
  <2> QED
    BY <2>1, <1>3, <1>4
<1>6. BufferFits(r, h, lg)
  <2>1. s \in (f.stage + 1)..s
    BY <1>2
  <2> QED
    BY <2>1, <1>1, <1>4 DEF BufferFits
<1>7. DeliveredFits(r, h, lg)
  <2>1. ASSUME NEW i \in 1..Len(f.delivered) PROVE Passed(h, f.delivered[i][1].msg, s)
    <3>1. PICK m : m = f.delivered[i][1].msg
      OBVIOUS
    <3>2. m \in Nat \ {0} /\ Passed(h, m, f.stage)
      BY <3>1, <1>3 DEF Deliveries, Complete, DeliveredFits
    <3>3. Passed(h, m, s)
      BY <3>2, <1>2, <1>4, PassedOver
    <3> QED
      BY <3>1, <3>3
  <2>2. ASSUME NEW m \in 1..Len(lg), lg[m].reliable, Passed(h, m, s)
        PROVE  Delivered(f.delivered, m)
    <3>1. \A t \in (f.stage + 1)..s : h[t].msg # m
      BY <2>2, <1>4
    <3>2. m \in Nat \ {0} /\ \A t \in (f.stage + 1)..s : h[t] # EndFragment
      BY <1>4
    <3>3. (\A t \in (f.stage + 1)..s : h[t].msg # m) => (Passed(h, m, s) => Passed(h, m, f.stage))
      BY <3>2, <1>2, PassedOver
    <3>4. Passed(h, m, f.stage)
      BY <3>1, <3>3, <2>2
    <3> QED
      BY <3>4, <2>2, <1>3 DEF DeliveredFits
  <2> QED
    BY <2>1, <2>2, <1>1 DEF DeliveredFits
<1>8. Explained(r, h, lg)
  BY <1>1, <1>2, <1>3, <1>5, <1>6, <1>7 DEF Explained
<1>9. /\ \A x \in DOMAIN r.fragments : x \in DOMAIN f.fragments /\ ~(x <= s)
                                         /\ r.fragments[x] = f.fragments[x]
      /\ \A x \in DOMAIN f.fragments : x \in DOMAIN r.fragments \/ x <= s
  BY <1>1
<1>10. Held(r, h, n)
  <2> SUFFICES ASSUME NEW x \in DOMAIN r.fragments
               PROVE  /\ x \in Nat /\ x > s /\ x <= n
                      /\ r.fragments[x] = h[x] /\ h[x] # EndFragment
    BY <1>1 DEF Held
  <2>1. x \in Nat /\ x > f.stage /\ x <= n /\ f.fragments[x] = h[x] /\ h[x] # EndFragment
    BY <1>9 DEF Held
  <2> QED
    BY <2>1, <1>9
<1>11. ASSUME NEW x \in Nat PROVE Received(r, x) <=> Received(f, x) \/ x <= s
  BY <1>1, <1>2, <1>9 DEF Received
<1> QED
  BY <1>1, <1>8, <1>10, <1>11 DEF r

-----------------------------------------------------------------------------
(* input(): every message of a datagram keeps the flow explained.          *)

\* A flow that reads the first n stages of the script, or has read its end.
FlowOk(f, h, lg, n) ==
    /\ IsFlow(f) /\ Deliveries(f.delivered, lg)
    /\ f.stageEnd = 0 => /\ f.ended = 0
                         /\ Explained(f, h, lg) /\ f.stage <= n /\ Held(f, h, n)
                         /\ f.stage + 1 \notin DOMAIN f.fragments
    /\ f.stageEnd # 0 => f.ended = 1 /\ DOMAIN f.fragments = {}

\* What may become of a flow: it hands on more, it does not go back before
\* its end and nothing follows its end.
Advance(f, r) ==
    /\ Extends(f.delivered, r.delivered)
    /\ (f.stageEnd = 0 /\ r.stageEnd = 0) => f.stage <= r.stage
    /\ f.stageEnd # 0 => /\ r.stageEnd = f.stageEnd /\ r.ended = f.ended
                         /\ r.delivered = f.delivered

LEMMA AdvanceTrans ==
    ASSUME NEW a, NEW b, NEW c, IsFlow(a), IsFlow(b), IsFlow(c),
           Advance(a, b), Advance(b, c)
    PROVE  Advance(a, c)
<1>1. /\ a.delivered \in Seq(Seq(Fragment)) /\ b.delivered \in Seq(Seq(Fragment))
      /\ c.delivered \in Seq(Seq(Fragment))
      /\ a.stage \in Nat /\ b.stage \in Nat /\ c.stage \in Nat
  BY DEF IsFlow
<1>2. Extends(a.delivered, c.delivered)
  BY <1>1, ExtendsTrans DEF Advance
<1>3. b.stageEnd # 0 => c.stageEnd # 0
  BY DEF Advance
<1>4. (a.stageEnd = 0 /\ c.stageEnd = 0) => a.stage <= c.stage
  BY <1>1, <1>3 DEF Advance
<1> QED
  BY <1>2, <1>4 DEF Advance

LEMMA AdvanceRefl == ASSUME NEW f, IsFlow(f) PROVE Advance(f, f)
<1>1. f.delivered \in Seq(Seq(Fragment)) /\ f.stage \in Nat
  BY DEF IsFlow
<1> QED
  BY <1>1 DEF Advance, Extends

\* A flow without end is not completed, ...
LEMMA SignalNothing ==
    ASSUME NEW f, f.stageEnd = 0
    PROVE  ~completed(f) /\ signalEnd(f) = f
BY DEF completed, signalEnd

\* ... one with its end and nothing held back is.
LEMMA SignalEnd ==
    ASSUME NEW f, IsFlow(f), f.stageEnd # 0, DOMAIN f.fragments = {}
    PROVE  LET r == signalEnd(f) IN
           /\ IsFlow(r) /\ r.stageEnd = f.stageEnd /\ r.ended = f.ended + 1
           /\ r.delivered = f.delivered /\ r.fragments = f.fragments
<1> DEFINE r == signalEnd(f)
<1>1. r = [f EXCEPT !.ended = f.ended + 1]
  BY DEF signalEnd, completed
<1> HIDE DEF r
<1>2. r = [stage |-> f.stage, stageEnd |-> f.stageEnd, fragments |-> f.fragments,
           fragmentation |-> f.fragmentation, buffer |-> f.buffer,
           delivered |-> f.delivered, ended |-> f.ended + 1]
  BY <1>1 DEF IsFlow
<1>3. IsFlow(r)
  BY <1>2 DEF IsFlow
<1> QED
  BY <1>2, <1>3 DEF r

\* Without fragments unbuffer does nothing.
LEMMA UnbufferNothing ==
    ASSUME NEW f, IsFlow(f), DOMAIN f.fragments = {}
    PROVE  LET r == unbuffer(f) IN
           /\ IsFlow(r) /\ r.stage = f.stage /\ r.stageEnd = f.stageEnd /\ r.ended = f.ended
           /\ r.delivered = f.delivered /\ DOMAIN r.fragments = {}
<1> DEFINE r == unbuffer(f)
<1>1. f.stage \in Nat
  BY DEF IsFlow
<1>2. following(f) = {} /\ StageAfter(f) = f.stage
  BY DEF following, StageAfter
<1>3. r = erase(Drain(f, StageAfter(f))[StageAfter(f)], following(f))
  BY DEF unbuffer, Drain, StageAfter
<1>4. Drain(f, f.stage)[f.stage] = f
  BY <1>1, DrainSteps
<1>5. r = erase(f, {})
  BY <1>2, <1>3, <1>4
<1> HIDE DEF r
<1>6. /\ IsFlow(r)
      /\ r.stage = f.stage /\ r.stageEnd = f.stageEnd /\ r.ended = f.ended
      /\ r.delivered = f.delivered
      /\ r.fragments = [s \in DOMAIN f.fragments \ {} |-> f.fragments[s]]
  BY <1>5, EraseFields
<1> QED
  BY <1>6 DEF r

\* A message that arrives after the end only moves the stage.
LEMMA InputCompleted ==
    ASSUME NEW h, NEW lg, NEW n, NEW f, FlowOk(f, h, lg, n), f.stageEnd # 0,
           NEW s, s \in Nat, NEW g
    PROVE  LET r == input(f, s, g) IN
           FlowOk(r, h, lg, n) /\ Advance(f, r) /\ r.stageEnd # 0
<1> DEFINE r == input(f, s, g)
<1>1. r = [f EXCEPT !.stage = s]
  BY DEF FlowOk, input, completed
<1> HIDE DEF r
<1>2. IsFlow(f)
  BY DEF FlowOk
<1>3. r = [stage |-> s, stageEnd |-> f.stageEnd, fragments |-> f.fragments,
           fragmentation |-> f.fragmentation, buffer |-> f.buffer,
           delivered |-> f.delivered, ended |-> f.ended]
  BY <1>1, <1>2 DEF IsFlow
<1>4. IsFlow(r)
  BY <1>2, <1>3 DEF IsFlow
<1>5. Extends(f.delivered, f.delivered)
  BY <1>2 DEF IsFlow, Extends
<1>6. r.delivered = f.delivered /\ r.stageEnd = f.stageEnd /\ r.ended = f.ended /\ r.fragments = f.fragments
  BY <1>3
<1> QED
  BY <1>4, <1>5, <1>6 DEF FlowOk, Advance, r

\* The end of the flow: what was not delivered is discarded.
LEMMA InputEnd ==
    ASSUME NEW h, NEW lg \in Seq(Message), WellCut(h, lg),
           NEW n, n \in Nat, n <= Len(h),
           NEW f, FlowOk(f, h, lg, n), f.stageEnd = 0,
           NEW s, s \in 1..n, h[s] = EndFragment
    PROVE  LET r == input(f, s, EndFragment) IN
           FlowOk(r, h, lg, n) /\ Advance(f, r) /\ r.stageEnd # 0
<1> DEFINE r == input(f, s, EndFragment)
<1>1. /\ IsFlow(f) /\ Explained(f, h, lg) /\ Held(f, h, n) /\ f.ended = 0
      /\ Deliveries(f.delivered, lg) /\ f.stage \in Nat /\ Len(h) \in Nat
  BY DEF FlowOk, IsFlow, WellCut
<1>2. s = Len(h)
  <2>1. \A t \in 1..(Len(h) - 1) : h[t] # EndFragment
    BY DEF WellCut
  <2> QED
    BY <2>1, <1>1
<1>3. ~(s <= f.stage)
  BY <1>1 DEF Explained
<1>4. PICK e : e = [f EXCEPT !.stageEnd = s]
  OBVIOUS
<1>5. e = [stage |-> f.stage, stageEnd |-> s, fragments |-> f.fragments,
           fragmentation |-> f.fragmentation, buffer |-> f.buffer,
           delivered |-> f.delivered, ended |-> f.ended]
  BY <1>1, <1>4 DEF IsFlow
<1>6. IsFlow(e)
  BY <1>1, <1>5 DEF IsFlow
<1>7. r = signalEnd(unbuffer(abandonTo(e, s)))
  <2>1. EndFragment.end /\ EndFragment.abandon
    BY DEF EndFragment
  <2>2. r = inputStage(e, s, EndFragment)
    BY <2>1, <1>4 DEF input, completed
  <2> QED
    BY <2>1, <2>2, <1>3, <1>5 DEF inputStage
<1>8. PICK a : a = abandonTo(e, s)
  OBVIOUS
<1>9. /\ IsFlow(a) /\ a.stageEnd = s /\ a.ended = 0 /\ a.delivered = f.delivered
      /\ DOMAIN a.fragments = {t \in DOMAIN f.fragments : ~(t <= s)}
  <2>1. /\ IsFlow(a)
        /\ a.stageEnd = e.stageEnd /\ a.ended = e.ended /\ a.delivered = e.delivered
        /\ a.fragments = [x \in {t \in DOMAIN e.fragments : ~(t <= s)} |-> e.fragments[x]]
    <3>1. s \in Nat
      OBVIOUS
    <3> QED
      BY <3>1, <1>6, <1>8, AbandonFields
  <2> QED
    BY <2>1, <1>1, <1>5
<1>10. DOMAIN a.fragments = {}
  <2>1. \A t \in DOMAIN f.fragments : t \in Nat /\ t <= n
    BY <1>1 DEF Held
  <2> QED
    BY <2>1, <1>1, <1>2, <1>9
<1>11. PICK u : u = unbuffer(a)
  OBVIOUS
<1>12. /\ IsFlow(u) /\ u.stageEnd = s /\ u.ended = 0 /\ u.delivered = f.delivered
       /\ DOMAIN u.fragments = {}
  BY <1>9, <1>10, <1>11, UnbufferNothing
<1>13. r = signalEnd(u)
  BY <1>7, <1>8, <1>11
<1> HIDE DEF r
<1>14. s # 0
  OBVIOUS
<1>15. /\ IsFlow(r) /\ r.stageEnd = s /\ r.ended = 1
       /\ r.delivered = f.delivered /\ DOMAIN r.fragments = {}
  BY <1>12, <1>13, <1>14, SignalEnd
<1>16. Extends(f.delivered, f.delivered)
  BY <1>1 DEF IsFlow, Extends
<1> QED
  BY <1>1, <1>14, <1>15, <1>16 DEF FlowOk, Advance, r

\* The fragment after a gap is held back.
LEMMA BufferFields ==
    ASSUME NEW f, IsFlow(f), NEW s, s \notin DOMAIN f.fragments, NEW g
    PROVE  LET r == bufferFragment(f, s, g) IN
           /\ IsFlow(r) /\ r.stage = f.stage /\ r.stageEnd = f.stageEnd /\ r.ended = f.ended
           /\ r.buffer = f.buffer /\ r.delivered = f.delivered
           /\ DOMAIN r.fragments = DOMAIN f.fragments \union {s}
           /\ r.fragments[s] = g
           /\ \A t \in DOMAIN f.fragments : r.fragments[t] = f.fragments[t]
<1> DEFINE r == bufferFragment(f, s, g)
           fragments == [t \in DOMAIN f.fragments \union {s} |->
                            IF t = s THEN g ELSE f.fragments[t]]
           fragmentation == f.fragmentation + g.size
<1>1. r = [f EXCEPT !.fragments = fragments, !.fragmentation = fragmentation]
  BY DEF bufferFragment
<1>2. /\ DOMAIN fragments = DOMAIN f.fragments \union {s} /\ fragments[s] = g
      /\ \A t \in DOMAIN f.fragments : fragments[t] = f.fragments[t]
  OBVIOUS
<1> HIDE DEF fragments, fragmentation, r
<1>3. r = [stage |-> f.stage, stageEnd |-> f.stageEnd, fragments |-> fragments,
           fragmentation |-> fragmentation, buffer |-> f.buffer,
           delivered |-> f.delivered, ended |-> f.ended]
  BY <1>1 DEF IsFlow
<1>4. IsFlow(r)
  BY <1>3 DEF IsFlow
<1> QED
  BY <1>2, <1>3, <1>4 DEF r

\* The flow that a repeated message leaves, and the one that waits.
LEMMA InputHeld ==
    ASSUME NEW h, NEW lg \in Seq(Message), WellCut(h, lg),
           NEW n, n \in Nat, n <= Len(h),
           NEW f, FlowOk(f, h, lg, n), f.stageEnd = 0,
           NEW s, s \in 1..n, s > f.stage + 1, h[s] # EndFragment, NEW g, g = h[s]
    PROVE  LET r == bufferFragment(f, s, g) IN
           /\ FlowOk(r, h, lg, n) /\ Advance(f, r) /\ r.stageEnd = 0
           /\ \A x \in Nat : Received(r, x) <=> Received(f, x) \/ x = s
<1> DEFINE r == bufferFragment(f, s, g)
<1>1. /\ IsFlow(f) /\ Explained(f, h, lg) /\ Held(f, h, n) /\ f.ended = 0 /\ f.stage <= n
      /\ Deliveries(f.delivered, lg) /\ f.stage \in Nat /\ f.stage + 1 \notin DOMAIN f.fragments
  BY DEF FlowOk, IsFlow
<1>2. CASE s \in DOMAIN f.fragments
  <2>1. r = f
    BY <1>2 DEF bufferFragment
  <2> QED
    BY <2>1, <1>1, <1>2, AdvanceRefl DEF Received
<1>3. CASE s \notin DOMAIN f.fragments
  <2>1. /\ IsFlow(r) /\ r.stage = f.stage /\ r.stageEnd = f.stageEnd /\ r.ended = f.ended
        /\ r.buffer = f.buffer /\ r.delivered = f.delivered
        /\ DOMAIN r.fragments = DOMAIN f.fragments \union {s}
        /\ r.fragments[s] = g
        /\ \A t \in DOMAIN f.fragments : r.fragments[t] = f.fragments[t]
    BY <1>1, <1>3, BufferFields
  <2> HIDE DEF r
  <2>2. Explained(r, h, lg)
    BY <2>1, <1>1 DEF Explained, BufferFits, DeliveredFits
  <2>3. Held(r, h, n)
    <3> SUFFICES ASSUME NEW x \in DOMAIN r.fragments
                 PROVE  /\ x \in Nat /\ x > f.stage /\ x <= n
                        /\ r.fragments[x] = h[x] /\ h[x] # EndFragment
      BY <2>1 DEF Held
    <3>1. CASE x \in DOMAIN f.fragments
      BY <3>1, <2>1, <1>1 DEF Held
    <3>2. CASE x = s
      BY <3>2, <2>1, <1>1
    <3> QED
      BY <3>1, <3>2, <2>1
  <2>4. r.stage + 1 \notin DOMAIN r.fragments
    BY <2>1, <1>1
  <2>5. \A x \in Nat : Received(r, x) <=> Received(f, x) \/ x = s
    BY <2>1 DEF Received
  <2>6. Extends(f.delivered, f.delivered)
    BY <1>1 DEF IsFlow, Extends
  <2> QED
    BY <2>1, <2>2, <2>3, <2>4, <2>5, <2>6, <1>1 DEF FlowOk, Advance, r
<1> QED
  BY <1>2, <1>3

\* What the gap was holding back follows a flow that is explained.
LEMMA Unbuffered ==
    ASSUME NEW h, NEW lg \in Seq(Message), WellCut(h, lg),
           NEW n, n \in Nat, n <= Len(h),
           NEW f, IsFlow(f),
           NEW e, IsFlow(e), Explained(e, h, lg), Held(e, h, n), e.stage <= n,
           e.stageEnd = 0, e.ended = 0, f.stageEnd = 0, f.stage <= e.stage,
           Extends(f.delivered, e.delivered)
    PROVE  LET r == signalEnd(unbuffer(e)) IN
           /\ FlowOk(r, h, lg, n) /\ Advance(f, r) /\ r.stageEnd = 0
           /\ \A x \in Nat : Received(r, x) <=> Received(e, x)
<1>1. PICK r : r = unbuffer(e)
  OBVIOUS
<1>2. /\ IsFlow(r) /\ Explained(r, h, lg)
      /\ e.stage <= r.stage /\ r.stage <= n
      /\ r.stageEnd = e.stageEnd /\ r.ended = e.ended
      /\ Held(r, h, n) /\ r.stage + 1 \notin DOMAIN r.fragments
      /\ \A x \in Nat : Received(r, x) <=> Received(e, x)
      /\ Extends(e.delivered, r.delivered)
  BY <1>1, UnbufferExplained
<1>3. signalEnd(r) = r
  BY <1>2, SignalNothing
<1>4. Extends(f.delivered, r.delivered)
  <2>1. /\ f.delivered \in Seq(Seq(Fragment)) /\ e.delivered \in Seq(Seq(Fragment))
        /\ r.delivered \in Seq(Seq(Fragment))
    BY <1>2 DEF IsFlow
  <2> QED
    BY <2>1, <1>2, ExtendsTrans
<1>5. f.stage <= r.stage
  BY <1>2 DEF IsFlow
<1>6. Deliveries(r.delivered, lg)
  BY <1>2 DEF Explained
<1> QED
  BY <1>1, <1>2, <1>3, <1>4, <1>5, <1>6 DEF FlowOk, Advance

\* The message that the flow waits for.
LEMMA InputNext ==
    ASSUME NEW h, NEW lg \in Seq(Message), WellCut(h, lg),
           NEW n, n \in Nat, n <= Len(h),
           NEW f, FlowOk(f, h, lg, n), f.stageEnd = 0,
           NEW s, s \in Nat, s <= n, s = f.stage + 1, h[s] # EndFragment, NEW g, g = h[s]
    PROVE  LET r == signalEnd(unbuffer(onFragment(f, s, g))) IN
           /\ FlowOk(r, h, lg, n) /\ Advance(f, r) /\ r.stageEnd = 0
           /\ \A x \in Nat : Received(r, x) <=> Received(f, x) \/ x = s
<1>1. /\ IsFlow(f) /\ Explained(f, h, lg) /\ Held(f, h, n) /\ f.ended = 0 /\ f.stage <= n
      /\ f.stage \in Nat /\ f.stage + 1 \notin DOMAIN f.fragments /\ Len(h) \in Nat
  BY DEF FlowOk, IsFlow, WellCut
<1>2. PICK e : e = onFragment(f, s, g)
  OBVIOUS
<1>3. /\ IsFlow(e) /\ Explained(e, h, lg)
      /\ e.stage = s /\ e.stageEnd = f.stageEnd /\ e.ended = f.ended
      /\ e.fragments = f.fragments
      /\ Extends(f.delivered, e.delivered)
  <2>1. s <= Len(h)
    BY <1>1
  <2> QED
    BY <2>1, <1>1, <1>2, OnFragmentExplained
<1>4. Held(e, h, n)
  <2> SUFFICES ASSUME NEW x \in DOMAIN f.fragments
               PROVE  /\ x \in Nat /\ x > s /\ x <= n
                      /\ f.fragments[x] = h[x] /\ h[x] # EndFragment
    BY <1>3 DEF Held
  <2>1. /\ x \in Nat /\ x > f.stage /\ x <= n /\ f.fragments[x] = h[x] /\ h[x] # EndFragment
        /\ x # s
    BY <1>1 DEF Held
  <2> QED
    BY <2>1, <1>1
<1>5. f.stage <= e.stage
  BY <1>1, <1>3
<1>6. \A x \in Nat : Received(e, x) <=> Received(f, x) \/ x = s
  <2> TAKE x \in Nat
  <2>1. x <= s <=> x <= f.stage \/ x = s
    BY <1>1
  <2> QED
    BY <2>1, <1>3 DEF Received
<1>7. LET r == signalEnd(unbuffer(e)) IN
      /\ FlowOk(r, h, lg, n) /\ Advance(f, r) /\ r.stageEnd = 0
      /\ \A x \in Nat : Received(r, x) <=> Received(e, x)
  BY <1>1, <1>3, <1>4, <1>5, Unbuffered
<1> QED
  BY <1>2, <1>6, <1>7

\* A message with content, or the end.
LEMMA InputPlain ==
    ASSUME NEW h, NEW lg \in Seq(Message), WellCut(h, lg),
           NEW n, n \in Nat, n <= Len(h),
           NEW f, FlowOk(f, h, lg, n),
           NEW s, s \in 1..n, NEW g, g = h[s]
    PROVE  LET r == input(f, s, g) IN
           /\ FlowOk(r, h, lg, n) /\ Advance(f, r)
           /\ r.stageEnd = 0 => /\ f.stageEnd = 0
                                /\ \A x \in Nat : Received(r, x) <=> Received(f, x) \/ x = s
<1>1. IsFlow(f) /\ f.stage \in Nat /\ Len(h) \in Nat /\ s \in Nat /\ s <= n
  BY DEF FlowOk, IsFlow, WellCut
<1>2. CASE f.stageEnd # 0
  BY <1>1, <1>2, InputCompleted
<1>3. CASE f.stageEnd = 0 /\ g = EndFragment
  BY <1>3, InputEnd
<1>4. CASE f.stageEnd = 0 /\ g # EndFragment
  <2>1. ~g.abandon /\ ~g.end
    <3>1. s \in 1..Len(h)
      BY <1>1
    <3> QED
      BY <3>1, <1>4 DEF WellCut, Piece
  <2>2. input(f, s, g) = IF s <= f.stage THEN f
                         ELSE IF s > f.stage + 1 THEN bufferFragment(f, s, g)
                         ELSE signalEnd(unbuffer(onFragment(f, s, g)))
    BY <2>1, <1>4 DEF input, inputStage, completed
  <2>3. CASE s <= f.stage
    <3>1. input(f, s, g) = f
      BY <2>2, <2>3
    <3>2. \A x \in Nat : Received(f, x) <=> Received(f, x) \/ x = s
      BY <2>3 DEF Received
    <3> QED
      BY <3>1, <3>2, <1>1, <1>4, AdvanceRefl
  <2>4. CASE s > f.stage + 1
    <3>1. input(f, s, g) = bufferFragment(f, s, g)
      BY <2>2, <2>4, <1>1
    <3> QED
      BY <3>1, <2>4, <1>4, InputHeld
  <2>5. CASE s = f.stage + 1
    <3>1. input(f, s, g) = signalEnd(unbuffer(onFragment(f, s, g)))
      BY <2>2, <2>5, <1>1
    <3> QED
      BY <3>1, <2>5, <1>1, <1>4, InputNext
  <2> QED
    BY <2>3, <2>4, <2>5, <1>1
<1> QED
  BY <1>2, <1>3, <1>4

\* The message of RTMFPRepeater::sendAbandon.
LEMMA InputAbandon ==
    ASSUME NEW h, NEW lg \in Seq(Message), WellCut(h, lg),
           NEW n, n \in Nat, n <= Len(h),
           NEW f, FlowOk(f, h, lg, n),
           NEW s, s \in 1..n,
           f.stageEnd = 0 => \A t \in (f.stage + 1)..s : Unreliable(h, lg, t)
    PROVE  LET r == input(f, s, AbandonFragment) IN
           /\ FlowOk(r, h, lg, n) /\ Advance(f, r)
           /\ r.stageEnd = 0 => /\ f.stageEnd = 0
                                /\ \A x \in Nat : Received(r, x) <=> Received(f, x) \/ x <= s
<1>1. IsFlow(f) /\ f.stage \in Nat /\ Len(h) \in Nat /\ s \in Nat /\ s <= n /\ s > 0
  BY DEF FlowOk, IsFlow, WellCut
<1>2. CASE f.stageEnd # 0
  BY <1>1, <1>2, InputCompleted
<1>3. CASE f.stageEnd = 0
  <2>1. AbandonFragment.abandon /\ ~AbandonFragment.end
    BY DEF AbandonFragment, EndFragment
  <2>2. input(f, s, AbandonFragment) = IF s <= f.stage THEN f
                                       ELSE signalEnd(unbuffer(abandonTo(f, s)))
    BY <2>1, <1>3 DEF input, inputStage, completed
  <2>3. CASE s <= f.stage
    <3>1. input(f, s, AbandonFragment) = f
      BY <2>2, <2>3
    <3>2. \A x \in Nat : Received(f, x) <=> Received(f, x) \/ x <= s
      BY <2>3, <1>1 DEF Received
    <3> QED
      BY <3>1, <3>2, <1>1, <1>3, AdvanceRefl
  <2>4. CASE f.stage < s
    <3>1. input(f, s, AbandonFragment) = signalEnd(unbuffer(abandonTo(f, s)))
      BY <2>2, <2>4, <1>1
    <3>2. PICK e : e = abandonTo(f, s)
      OBVIOUS
    <3>3. Explained(f, h, lg) /\ Held(f, h, n) /\ f.ended = 0 /\ f.stage <= s
      BY <2>4, <1>1, <1>3 DEF FlowOk
    <3>4. /\ IsFlow(e) /\ Explained(e, h, lg) /\ e.stage = s
          /\ e.stageEnd = f.stageEnd /\ e.ended = f.ended /\ e.delivered = f.delivered
          /\ Held(e, h, n)
          /\ \A x \in Nat : Received(e, x) <=> Received(f, x) \/ x <= s
      BY <3>2, <3>3, <2>4, <1>1, <1>3, AbandonExplained
    <3>5. Extends(f.delivered, e.delivered)
      BY <3>4, <1>1 DEF IsFlow, Extends
    <3>6. LET r == signalEnd(unbuffer(e)) IN
          /\ FlowOk(r, h, lg, n) /\ Advance(f, r) /\ r.stageEnd = 0
          /\ \A x \in Nat : Received(r, x) <=> Received(e, x)
      BY <3>3, <3>4, <3>5, <1>1, <1>3, Unbuffered
    <3> QED
      BY <3>1, <3>2, <3>4, <3>6, <1>3
  <2> QED
    BY <2>3, <2>4, <1>1
<1> QED
  BY <1>2, <1>3

-----------------------------------------------------------------------------
(* The messages of a datagram, one after the other.                        *)

LEMMA FlowAfterExists ==
    ASSUME NEW d, Len(d.frags) \in Nat
    PROVE  \E g : g = [k \in 0..Len(d.frags) |->
                          IF k = 0 THEN flow ELSE input(g[k - 1], d.first + k - 1, d.frags[k])]
<1> DEFINE body(g, k) == IF k = 0 THEN flow ELSE input(g[k - 1], d.first + k - 1, d.frags[k])
           T == {n \in Nat : \E g : g = [k \in 0..n |-> body(g, k)]}
<1>1. 0 \in T
  <2> DEFINE g == [k \in 0..0 |-> flow]
  <2>1. \A k \in 0..0 : k = 0
    OBVIOUS
  <2>2. g = [k \in 0..0 |-> body(g, k)]
    BY <2>1
  <2> QED
    BY <2>2
<1>2. ASSUME NEW n \in Nat, n \in T PROVE n + 1 \in T
  <2>1. PICK g : g = [k \in 0..n |-> body(g, k)]
    BY <1>2
  <2> DEFINE e == [k \in 0..(n + 1) |->
                      IF k = n + 1 THEN input(g[n], d.first + k - 1, d.frags[k]) ELSE g[k]]
  <2>2. ASSUME NEW k \in 0..(n + 1) PROVE e[k] = body(e, k)
    <3>1. CASE k = n + 1
      <4>1. k - 1 = n /\ n \in 0..(n + 1) /\ n # n + 1 /\ k # 0
        BY <3>1
      <4>2. e[k - 1] = g[n]
        BY <4>1
      <4> QED
        BY <3>1, <4>1, <4>2
    <3>2. CASE k # n + 1
      <4>1. k \in 0..n
        BY <3>2
      <4>2. e[k] = g[k] /\ g[k] = body(g, k)
        BY <3>2, <4>1, <2>1
      <4>3. k # 0 => k - 1 \in 0..(n + 1) /\ k - 1 # n + 1
        BY <4>1
      <4>4. k # 0 => e[k - 1] = g[k - 1]
        BY <4>3
      <4> QED
        BY <4>2, <4>4
    <3> QED
      BY <3>1, <3>2
  <2>3. e = [k \in 0..(n + 1) |-> body(e, k)]
    BY <2>2
  <2> HIDE DEF e
  <2> QED
    BY <2>3
<1> HIDE DEF T
<1>3. Len(d.frags) \in T
  BY <1>1, <1>2, Induction
<1> QED
  BY <1>3 DEF T

LEMMA FlowAfterSteps ==
    ASSUME NEW d, Len(d.frags) \in Nat
    PROVE  /\ flowAfter(d)[0] = flow
           /\ \A k \in 1..Len(d.frags) :
                 flowAfter(d)[k] = input(flowAfter(d)[k - 1], d.first + k - 1, d.frags[k])
<1>1. \E g : g = [k \in 0..Len(d.frags) |->
                    IF k = 0 THEN flow ELSE input(g[k - 1], d.first + k - 1, d.frags[k])]
  BY FlowAfterExists
<1> DEFINE a == flowAfter(d)
<1>2. a = [k \in 0..Len(d.frags) |->
              IF k = 0 THEN flow ELSE input(a[k - 1], d.first + k - 1, d.frags[k])]
  BY <1>1 DEF flowAfter
<1> HIDE DEF a
<1>3. 0 \in 0..Len(d.frags) /\ \A k \in 1..Len(d.frags) : k \in 0..Len(d.frags) /\ k # 0
  OBVIOUS
<1> QED
  BY <1>2, <1>3 DEF a

LEMMA NextOfDatagram ==
    ASSUME NEW first, first \in Nat \ {0}, NEW k, k \in Nat, NEW n, n \in Nat,
           NEW m, m \in Nat, k + 1 <= m, first + m - 1 <= n
    PROVE  /\ first + (k + 1) - 1 \in 1..n /\ k + 1 \in 1..m /\ (k + 1) - 1 = k
           /\ \A x \in Nat : x \in first..(first + (k + 1) - 1) <=>
                                x \in first..(first + k - 1) \/ x = first + (k + 1) - 1
           /\ first..(first + 0 - 1) = {}
OBVIOUS

\* A datagram with content: the flow receives its stages and no other.
LEMMA DatagramPlain ==
    ASSUME NEW h, NEW lg \in Seq(Message), WellCut(h, lg),
           NEW n, n \in Nat, n <= Len(h), FlowOk(flow, h, lg, n),
           NEW d, Follows(h, d.first, d.frags), d.first + Len(d.frags) - 1 <= n,
           NEW k, k \in 0..Len(d.frags)
    PROVE  LET r == flowAfter(d)[k] IN
           /\ FlowOk(r, h, lg, n) /\ Advance(flow, r)
           /\ r.stageEnd = 0 =>
                /\ flow.stageEnd = 0
                /\ \A x \in Nat : Received(r, x) <=>
                                     Received(flow, x) \/ x \in d.first..(d.first + k - 1)
<1> DEFINE Good(r, j) ==
             /\ FlowOk(r, h, lg, n) /\ Advance(flow, r)
             /\ r.stageEnd = 0 =>
                  /\ flow.stageEnd = 0
                  /\ \A x \in Nat : Received(r, x) <=>
                                       Received(flow, x) \/ x \in d.first..(d.first + j - 1)
           T == {j \in Nat : j <= Len(d.frags) => Good(flowAfter(d)[j], j)}
<1>1. /\ d.first \in Nat \ {0} /\ d.frags \in Seq(Fragment) /\ Len(d.frags) \in Nat
      /\ \A j \in 1..Len(d.frags) : d.frags[j] = h[d.first + j - 1]
      /\ IsFlow(flow)
  BY DEF Follows, FlowOk
<1>2. 0 \in T
  <2>1. flowAfter(d)[0] = flow
    BY <1>1, FlowAfterSteps
  <2>2. d.first..(d.first + 0 - 1) = {}
    BY <1>1
  <2>3. Good(flow, 0)
    BY <2>2, <1>1, AdvanceRefl
  <2> QED
    BY <2>1, <2>3
<1>3. ASSUME NEW j \in Nat, j \in T PROVE j + 1 \in T
  <2> SUFFICES ASSUME j + 1 <= Len(d.frags) PROVE Good(flowAfter(d)[j + 1], j + 1)
    OBVIOUS
  <2>1. PICK s : s = d.first + (j + 1) - 1
    OBVIOUS
  <2>2. /\ s \in 1..n /\ j + 1 \in 1..Len(d.frags) /\ (j + 1) - 1 = j
        /\ \A x \in Nat : x \in d.first..(d.first + (j + 1) - 1) <=>
                             x \in d.first..(d.first + j - 1) \/ x = s
    BY <1>1, <2>1, NextOfDatagram
  <2>3. PICK e : e = flowAfter(d)[j]
    OBVIOUS
  <2>4. PICK g : g = d.frags[j + 1]
    OBVIOUS
  <2>5. PICK r : r = flowAfter(d)[j + 1]
    OBVIOUS
  <2>6. r = input(e, s, g)
    <3>1. r = input(flowAfter(d)[(j + 1) - 1], d.first + (j + 1) - 1, d.frags[j + 1])
      BY <2>2, <2>5, <1>1, FlowAfterSteps
    <3> QED
      BY <3>1, <2>1, <2>2, <2>3, <2>4
  <2>7. g = h[s]
    BY <2>1, <2>2, <2>4, <1>1
  <2>8. Good(e, j)
    <3>1. j <= Len(d.frags)
      BY <1>1
    <3> QED
      BY <3>1, <2>3, <1>3
  <2>9. /\ FlowOk(r, h, lg, n) /\ Advance(e, r)
        /\ r.stageEnd = 0 => /\ e.stageEnd = 0
                             /\ \A x \in Nat : Received(r, x) <=> Received(e, x) \/ x = s
    BY <2>2, <2>6, <2>7, <2>8, InputPlain
  <2>10. Advance(flow, r)
    BY <2>8, <2>9, <1>1, AdvanceTrans DEF FlowOk
  <2>11. Good(r, j + 1)
    BY <2>2, <2>8, <2>9, <2>10
  <2> QED
    BY <2>5, <2>11
<1> HIDE DEF T
<1>4. k \in Nat /\ k <= Len(d.frags)
  BY <1>1
<1>5. k \in T
  BY <1>2, <1>3, <1>4, Induction
<1> QED
  BY <1>4, <1>5 DEF T

\* A datagram that abandons the stages up to its own.
LEMMA DatagramAbandon ==
    ASSUME NEW h, NEW lg \in Seq(Message), WellCut(h, lg),
           NEW n, n \in Nat, n <= Len(h), FlowOk(flow, h, lg, n),
           NEW d, d.frags = <<AbandonFragment>>, d.first \in 1..n,
           flow.stageEnd = 0 => \A t \in (flow.stage + 1)..d.first : Unreliable(h, lg, t)
    PROVE  LET r == flowAfter(d)[1] IN
           /\ FlowOk(r, h, lg, n) /\ Advance(flow, r)
           /\ r.stageEnd = 0 =>
                /\ flow.stageEnd = 0
                /\ \A x \in Nat : Received(r, x) <=> Received(flow, x) \/ x <= d.first
<1>1. Len(d.frags) = 1 /\ d.frags[1] = AbandonFragment
  OBVIOUS
<1>2. PICK s : s = d.first
  OBVIOUS
<1>3. flowAfter(d)[1] = input(flow, s, AbandonFragment)
  <2>1. flowAfter(d)[0] = flow /\ flowAfter(d)[1] = input(flowAfter(d)[1 - 1], d.first + 1 - 1, d.frags[1])
    <3>1. Len(d.frags) \in Nat /\ 1 \in 1..Len(d.frags)
      BY <1>1
    <3> QED
      BY <3>1, FlowAfterSteps
  <2>2. 1 - 1 = 0 /\ d.first + 1 - 1 = s
    BY <1>2
  <2> QED
    BY <2>1, <2>2, <1>1
<1>4. s \in 1..n /\ (flow.stageEnd = 0 => \A t \in (flow.stage + 1)..s : Unreliable(h, lg, t))
  BY <1>2
<1> QED
  BY <1>2, <1>3, <1>4, InputAbandon

-----------------------------------------------------------------------------
(* buildAck: the ranges are those of the runs of buffered stages.          *)

Run1(S) == CHOOSE s \in S : \A t \in S : s <= t
RunN(S) == CHOOSE t \in S : Run1(S)..t \subseteq S /\ (t + 1) \notin S

\* The first run of a set of stages.
LEMMA FirstRun ==
    ASSUME NEW S, S \subseteq Nat, S # {}, NEW n, n \in Nat, \A s \in S : s <= n
    PROVE  /\ Run1(S) \in S /\ \A t \in S : Run1(S) <= t
           /\ RunN(S) \in S /\ Run1(S) <= RunN(S)
           /\ Run1(S)..RunN(S) \subseteq S /\ (RunN(S) + 1) \notin S
<1>1. \E x \in S : \A y \in S : x <= y
  BY SmallestNat
<1>2. Run1(S) \in S /\ \A t \in S : Run1(S) <= t
  BY <1>1 DEF Run1
<1>3. PICK first : first = Run1(S)
  OBVIOUS
<1>4. first \in S /\ first \in Nat /\ \A t \in S : first <= t
  BY <1>2, <1>3
<1> DEFINE C == {t \in S : first..t \subseteq S}
<1>5. first \in C
  <2>1. first..first = {first}
    BY <1>4
  <2> QED
    BY <2>1, <1>4
<1>6. \E x \in C : \A y \in C : y <= x
  <2>1. C \subseteq Nat /\ C # {} /\ \A s \in C : s <= n
    BY <1>5
  <2> HIDE DEF C
  <2> QED
    BY <2>1, LargestStage
<1>7. PICK last \in C : \A y \in C : y <= last
  BY <1>6
<1>8. last \in S /\ last \in Nat /\ first <= last /\ first..last \subseteq S
  BY <1>4, <1>7
<1>9. last + 1 \notin S
  <2> SUFFICES ASSUME last + 1 \in S PROVE FALSE
    OBVIOUS
  <2>1. \A t \in first..(last + 1) : t = last + 1 \/ t \in first..last
    BY <1>4, <1>8
  <2>2. last + 1 \in C
    BY <2>1, <1>8
  <2>3. last + 1 <= last
    BY <2>2, <1>7
  <2> QED
    BY <2>3, <1>8
<1>10. \E t \in S : Run1(S)..t \subseteq S /\ (t + 1) \notin S
  BY <1>3, <1>8, <1>9
<1>11. RunN(S) \in S /\ Run1(S)..RunN(S) \subseteq S /\ (RunN(S) + 1) \notin S
  BY <1>10 DEF RunN
<1> QED
  BY <1>2, <1>11

After(S, stg) == {s \in S : s > stg}

Ranges(f) ==
    LET buffered == DOMAIN f.fragments
        ranges[stg \in buffered \union {f.stage}] ==
            IF After(buffered, stg) = {} THEN <<>>
            ELSE <<missing(Run1(After(buffered, stg)), stg),
                   RunN(After(buffered, stg)) - Run1(After(buffered, stg))>>
                     \o ranges[RunN(After(buffered, stg))]
    IN  ranges

LEMMA BuildAckRanges ==
    ASSUME NEW f
    PROVE  buildAck(f) = [stage |-> f.stage, losts |-> Ranges(f)[f.stage]]
BY DEF buildAck, acked, Ranges, After, Run1, RunN

LEMMA RangesExist ==
    ASSUME NEW S, S \subseteq Nat, NEW a, a \in Nat, NEW top, top \in Nat,
           a <= top, \A s \in S : s <= top
    PROVE  \E g : g = [s \in S \union {a} |->
                          IF After(S, s) = {} THEN <<>>
                          ELSE <<missing(Run1(After(S, s)), s),
                                 RunN(After(S, s)) - Run1(After(S, s))>>
                                   \o g[RunN(After(S, s))]]
<1> DEFINE body(g, s) == IF After(S, s) = {} THEN <<>>
                         ELSE <<missing(Run1(After(S, s)), s),
                                RunN(After(S, s)) - Run1(After(S, s))>>
                                  \o g[RunN(After(S, s))]
           D(k) == {s \in S \union {a} : top <= s + k}
           T == {k \in Nat : \E g : g = [s \in D(k) |-> body(g, s)]}
<1>0. \A s \in S \union {a} : s \in Nat /\ s <= top
  OBVIOUS
<1>1. ASSUME NEW s, s \in S \union {a}, After(S, s) # {}
      PROVE  s \in Nat /\ RunN(After(S, s)) \in S /\ RunN(After(S, s)) > s
  <2>1. After(S, s) \subseteq Nat /\ \A t \in After(S, s) : t <= top
    BY DEF After
  <2>2. RunN(After(S, s)) \in After(S, s)
    BY <1>1, <2>1, FirstRun
  <2> QED
    BY <2>2, <1>1 DEF After
<1>2. 0 \in T
  <2> DEFINE g == [s \in D(0) |-> <<>>]
  <2>1. \A s \in D(0) : After(S, s) = {}
    <3> TAKE s \in D(0)
    <3>1. s \in Nat /\ top <= s
      BY <1>0
    <3>2. \A t \in S : t \in Nat /\ t <= top
      OBVIOUS
    <3>3. \A t \in S : ~(t > s)
      BY <3>1, <3>2
    <3> QED
      BY <3>3 DEF After
  <2>2. g = [s \in D(0) |-> body(g, s)]
    BY <2>1
  <2> QED
    BY <2>2
<1>3. ASSUME NEW k \in Nat, k \in T PROVE k + 1 \in T
  <2>1. PICK g : g = [s \in D(k) |-> body(g, s)]
    BY <1>3
  <2> DEFINE e == [s \in D(k + 1) |-> body(g, s)]
  <2>2. D(k) \subseteq D(k + 1)
    <3>1. \A s \in Nat : top <= s + k => top <= s + (k + 1)
      OBVIOUS
    <3> QED
      BY <3>1, <1>0
  <2>3. \A s \in D(k) : e[s] = g[s]
    BY <2>1, <2>2
  <2>4. ASSUME NEW s \in D(k + 1) PROVE body(e, s) = body(g, s)
    <3>1. CASE After(S, s) = {}
      BY <3>1
    <3>2. CASE After(S, s) # {}
      <4>1. s \in Nat /\ RunN(After(S, s)) \in S /\ RunN(After(S, s)) > s /\ top <= s + (k + 1)
        BY <3>2, <1>0, <1>1
      <4>2. RunN(After(S, s)) \in D(k)
        <5>1. PICK x : x = RunN(After(S, s))
          OBVIOUS
        <5>2. x \in S /\ x \in Nat /\ x > s
          BY <5>1, <4>1
        <5>3. top <= x + k
          BY <5>2, <4>1
        <5> QED
          BY <5>1, <5>2, <5>3
      <4>3. e[RunN(After(S, s))] = g[RunN(After(S, s))]
        BY <4>2, <2>3
      <4> HIDE DEF e
      <4> QED
        BY <4>3
    <3> QED
      BY <3>1, <3>2
  <2>5. e = [s \in D(k + 1) |-> body(e, s)]
    BY <2>4
  <2>6. \E q : q = [s \in D(k + 1) |-> body(q, s)]
    <3> HIDE DEF e, body, D
    <3> QED
      BY <2>5
  <2> HIDE DEF e, body, D
  <2> QED
    BY <2>6
<1> HIDE DEF T
<1>4. top \in T
  BY <1>2, <1>3, Induction
<1>5. D(top) = S \union {a}
  <2>1. \A s \in Nat : top <= s + top
    OBVIOUS
  <2> QED
    BY <2>1, <1>0
<1>6. \E g : g = [s \in D(top) |-> body(g, s)]
  BY <1>4 DEF T
<1> QED
  BY <1>5, <1>6

LEMMA RangesSteps ==
    ASSUME NEW f, f.stage \in Nat, DOMAIN f.fragments \subseteq Nat,
           NEW top, top \in Nat, f.stage <= top, \A s \in DOMAIN f.fragments : s <= top,
           NEW s, s \in DOMAIN f.fragments \union {f.stage},
           NEW left, left = After(DOMAIN f.fragments, s)
    PROVE  Ranges(f)[s] = IF left = {} THEN <<>>
                          ELSE <<missing(Run1(left), s), RunN(left) - Run1(left)>>
                                  \o Ranges(f)[RunN(left)]
<1> DEFINE r == Ranges(f)
<1>0. PICK S, a : S = DOMAIN f.fragments /\ a = f.stage
  OBVIOUS
<1>1. \E g : g = [x \in S \union {a} |->
                    IF After(S, x) = {} THEN <<>>
                    ELSE <<missing(Run1(After(S, x)), x),
                           RunN(After(S, x)) - Run1(After(S, x))>> \o g[RunN(After(S, x))]]
  <2>1. S \subseteq Nat /\ a \in Nat /\ a <= top /\ \A x \in S : x <= top
    BY <1>0
  <2> QED
    BY <2>1, RangesExist
<1>2. r = [x \in S \union {f.stage} |->
              IF After(S, x) = {} THEN <<>>
              ELSE <<missing(Run1(After(S, x)), x),
                     RunN(After(S, x)) - Run1(After(S, x))>> \o r[RunN(After(S, x))]]
  BY <1>0, <1>1, ZenonT(40) DEF Ranges
<1> HIDE DEF r
<1> QED
  BY <1>0, <1>2 DEF r

\* The last stage that the first i numbers of an acknowledgment describe.
UpTo(s, losts) ==
    LET upTo[i \in 0..Len(losts)] == IF i = 0 THEN s ELSE upTo[i - 1] + losts[i] + 1
    IN  upTo

LEMMA UpToSteps ==
    ASSUME NEW s, NEW losts, Len(losts) \in Nat
    PROVE  /\ UpTo(s, losts)[0] = s
           /\ \A i \in 1..Len(losts) : UpTo(s, losts)[i] = UpTo(s, losts)[i - 1] + losts[i] + 1
<1> DEFINE body(g, i) == IF i = 0 THEN s ELSE g[i - 1] + losts[i] + 1
           T == {n \in Nat : \E g : g = [i \in 0..n |-> body(g, i)]}
           u == UpTo(s, losts)
<1>1. 0 \in T
  <2> DEFINE g == [i \in 0..0 |-> s]
  <2>1. \A i \in 0..0 : i = 0
    OBVIOUS
  <2>2. g = [i \in 0..0 |-> body(g, i)]
    BY <2>1
  <2> QED
    BY <2>2
<1>2. ASSUME NEW n \in Nat, n \in T PROVE n + 1 \in T
  <2>1. PICK g : g = [i \in 0..n |-> body(g, i)]
    BY <1>2
  <2> DEFINE e == [i \in 0..(n + 1) |-> IF i = n + 1 THEN g[n] + losts[i] + 1 ELSE g[i]]
  <2>2. ASSUME NEW i \in 0..(n + 1) PROVE e[i] = body(e, i)
    <3>1. CASE i = n + 1
      <4>1. i - 1 = n /\ n \in 0..(n + 1) /\ n # n + 1 /\ i # 0
        BY <3>1
      <4>2. e[i - 1] = g[n]
        BY <4>1
      <4> QED
        BY <3>1, <4>1, <4>2
    <3>2. CASE i # n + 1
      <4>1. i \in 0..n
        BY <3>2
      <4>2. e[i] = g[i] /\ g[i] = body(g, i)
        BY <3>2, <4>1, <2>1
      <4>3. i # 0 => i - 1 \in 0..(n + 1) /\ i - 1 # n + 1
        BY <4>1
      <4>4. i # 0 => e[i - 1] = g[i - 1]
        BY <4>3
      <4> QED
        BY <4>2, <4>4
    <3> QED
      BY <3>1, <3>2
  <2>3. e = [i \in 0..(n + 1) |-> body(e, i)]
    BY <2>2
  <2> HIDE DEF e
  <2> QED
    BY <2>3
<1> HIDE DEF T
<1>3. Len(losts) \in T
  BY <1>1, <1>2, Induction
<1>4. \E g : g = [i \in 0..Len(losts) |-> body(g, i)]
  BY <1>3 DEF T
<1>5. u = [i \in 0..Len(losts) |-> IF i = 0 THEN s ELSE u[i - 1] + losts[i] + 1]
  BY <1>4 DEF UpTo
<1> HIDE DEF u
<1>6. 0 \in 0..Len(losts) /\ \A i \in 1..Len(losts) : i \in 0..Len(losts) /\ i # 0
  OBVIOUS
<1> QED
  BY <1>5, <1>6 DEF u

LEMMA UpToNat ==
    ASSUME NEW s, s \in Nat, NEW losts, losts \in Seq(Nat)
    PROVE  \A i \in 0..Len(losts) : UpTo(s, losts)[i] \in Nat
<1> DEFINE T == {i \in Nat : i <= Len(losts) => UpTo(s, losts)[i] \in Nat}
<1>1. Len(losts) \in Nat /\ \A i \in 1..Len(losts) : losts[i] \in Nat
  OBVIOUS
<1>2. 0 \in T
  BY <1>1, UpToSteps
<1>3. ASSUME NEW i \in Nat, i \in T PROVE i + 1 \in T
  <2> SUFFICES ASSUME i + 1 <= Len(losts) PROVE UpTo(s, losts)[i + 1] \in Nat
    OBVIOUS
  <2>1. i <= Len(losts) /\ i + 1 \in 1..Len(losts) /\ (i + 1) - 1 = i
    BY <1>1
  <2>2. UpTo(s, losts)[i + 1] = UpTo(s, losts)[(i + 1) - 1] + losts[i + 1] + 1
    BY <1>1, <2>1, UpToSteps
  <2>3. UpTo(s, losts)[i] \in Nat /\ losts[i + 1] \in Nat
    BY <2>1, <1>1, <1>3
  <2> QED
    BY <2>1, <2>2, <2>3
<1> HIDE DEF T
<1>4. \A i \in Nat : i \in T
  BY <1>2, <1>3, Induction
<1> QED
  BY <1>1, <1>4 DEF T

\* Two numbers more in front of an acknowledgment.
Prefixed(losts, a, b, rest) ==
    /\ losts \in Seq(Nat) /\ rest \in Seq(Nat) /\ Len(losts) = Len(rest) + 2
    /\ losts[1] = a /\ losts[2] = b
    /\ \A j \in 1..Len(rest) : losts[j + 2] = rest[j]

Shifted(s, a, b, c, rest, losts) ==
    /\ c = s + a + b + 2 /\ UpTo(s, losts)[1] = s + a + 1
    /\ \A j \in 0..Len(rest) : UpTo(s, losts)[j + 2] = UpTo(c, rest)[j]

LEMMA UpToShift ==
    ASSUME NEW s, s \in Nat, NEW a, a \in Nat, NEW b, b \in Nat, NEW c, c = s + a + b + 2,
           NEW rest, NEW losts, Prefixed(losts, a, b, rest)
    PROVE  Shifted(s, a, b, c, rest, losts)
<1>1. /\ losts \in Seq(Nat) /\ Len(losts) = Len(rest) + 2 /\ Len(rest) \in Nat
      /\ losts[1] = a /\ losts[2] = b
      /\ \A j \in 1..Len(rest) : losts[j + 2] = rest[j]
  BY DEF Prefixed
<1>2. PICK u, v : u = UpTo(s, losts) /\ v = UpTo(c, rest)
  OBVIOUS
<1>3. Len(losts) \in Nat /\ 1 \in 1..Len(losts) /\ 2 \in 1..Len(losts) /\ 1 - 1 = 0 /\ 2 - 1 = 1
  BY <1>1
<1>4. u[0] = s /\ \A i \in 1..Len(losts) : u[i] = u[i - 1] + losts[i] + 1
  <2>1. /\ UpTo(s, losts)[0] = s
        /\ \A i \in 1..Len(losts) : UpTo(s, losts)[i] = UpTo(s, losts)[i - 1] + losts[i] + 1
    BY <1>3, UpToSteps
  <2> QED
    BY <2>1, <1>2
<1>5. v[0] = c /\ \A i \in 1..Len(rest) : v[i] = v[i - 1] + rest[i] + 1
  BY <1>1, <1>2, UpToSteps
<1>6. u[1] = s + a + 1
  <2>1. u[1] = u[1 - 1] + losts[1] + 1
    BY <1>3, <1>4
  <2> QED
    BY <2>1, <1>1, <1>3, <1>4
<1>7. u[2] = s + a + b + 2
  <2>1. u[2] = u[2 - 1] + losts[2] + 1
    BY <1>3, <1>4
  <2> QED
    BY <2>1, <1>1, <1>3, <1>6
<1> DEFINE T == {j \in Nat : j <= Len(rest) => u[j + 2] = v[j]}
<1>8. 0 \in T
  BY <1>5, <1>7
<1>9. ASSUME NEW j \in Nat, j \in T PROVE j + 1 \in T
  <2> SUFFICES ASSUME j + 1 <= Len(rest) PROVE u[(j + 1) + 2] = v[j + 1]
    OBVIOUS
  <2>1. /\ j <= Len(rest) /\ j + 1 \in 1..Len(rest) /\ (j + 1) - 1 = j
        /\ (j + 1) + 2 \in 1..Len(losts) /\ ((j + 1) + 2) - 1 = j + 2
    BY <1>1
  <2>2. u[(j + 1) + 2] = u[((j + 1) + 2) - 1] + losts[(j + 1) + 2] + 1
    BY <2>1, <1>4
  <2>3. v[j + 1] = v[(j + 1) - 1] + rest[j + 1] + 1
    BY <2>1, <1>5
  <2>4. u[j + 2] = v[j] /\ losts[(j + 1) + 2] = rest[j + 1]
    BY <2>1, <1>1, <1>9
  <2> QED
    BY <2>1, <2>2, <2>3, <2>4
<1> HIDE DEF T
<1>10. \A j \in Nat : j \in T
  BY <1>8, <1>9, Induction
<1>11. \A j \in 0..Len(rest) : u[j + 2] = v[j]
  BY <1>1, <1>10 DEF T
<1> QED
  BY <1>1, <1>2, <1>6, <1>11 DEF Shifted

Announces(s, losts, x) ==
    \E i \in 1..Len(losts) :
        i % 2 = 0 /\ UpTo(s, losts)[i - 1] + 1 <= x /\ x <= UpTo(s, losts)[i]

LEMMA AnnouncedStages ==
    ASSUME NEW s, s \in Nat, NEW losts, losts \in Seq(Nat), NEW a,
           a = [stage |-> s, losts |-> losts]
    PROVE  announced(a) = {x \in Nat : Announces(s, losts, x)}
<1>1. a.stage = s /\ a.losts = losts /\ Len(losts) \in Nat
  OBVIOUS
<1>2. announced(a) = UNION {(UpTo(s, losts)[i - 1] + 1)..UpTo(s, losts)[i] :
                               i \in {j \in 1..Len(losts) : j % 2 = 0}}
  BY <1>1 DEF announced, UpTo
<1>3. PICK u : u = UpTo(s, losts)
  OBVIOUS
<1>4. \A i \in 1..Len(losts) : u[i - 1] \in Nat /\ u[i] \in Nat
  <2>1. \A i \in 1..Len(losts) : i \in 0..Len(losts) /\ i - 1 \in 0..Len(losts)
    BY <1>1
  <2> QED
    BY <2>1, <1>3, UpToNat
<1>5. ASSUME NEW x PROVE x \in announced(a) <=> x \in Nat /\ Announces(s, losts, x)
  <2>1. x \in announced(a) <=>
          \E i \in 1..Len(losts) : i % 2 = 0 /\ x \in (u[i - 1] + 1)..u[i]
    BY <1>2, <1>3
  <2>2. \A i \in 1..Len(losts) : x \in (u[i - 1] + 1)..u[i] <=>
                                   x \in Nat /\ u[i - 1] + 1 <= x /\ x <= u[i]
    BY <1>4
  <2> QED
    BY <2>1, <2>2, <1>3 DEF Announces
<1> QED
  BY <1>5

\* The first run and the others.
LEMMA AnnouncesShift ==
    ASSUME NEW s, s \in Nat, NEW a, a \in Nat, NEW b, b \in Nat, NEW c, c = s + a + b + 2,
           NEW rest, NEW losts, Prefixed(losts, a, b, rest),
           NEW x, x \in Nat
    PROVE  Announces(s, losts, x) <=>
             \/ s + a + 2 <= x /\ x <= c
             \/ Announces(c, rest, x)
<1>1. /\ losts \in Seq(Nat) /\ Len(losts) = Len(rest) + 2 /\ Len(rest) \in Nat
      /\ UpTo(s, losts)[1] = s + a + 1
      /\ \A j \in 0..Len(rest) : UpTo(s, losts)[j + 2] = UpTo(c, rest)[j]
  <2>1. losts \in Seq(Nat) /\ rest \in Seq(Nat) /\ Len(losts) = Len(rest) + 2
    BY DEF Prefixed
  <2>2. /\ UpTo(s, losts)[1] = s + a + 1
        /\ \A j \in 0..Len(rest) : UpTo(s, losts)[j + 2] = UpTo(c, rest)[j]
    <3>1. Shifted(s, a, b, c, rest, losts)
      BY UpToShift
    <3> QED
      BY <3>1 DEF Shifted
  <2> QED
    BY <2>1, <2>2
<1>2. PICK u, v : u = UpTo(s, losts) /\ v = UpTo(c, rest)
  OBVIOUS
<1>3. v[0] = c
  BY <1>1, <1>2, UpToSteps
<1>4. /\ u[1] = s + a + 1 /\ \A j \in 0..Len(rest) : u[j + 2] = v[j]
  BY <1>1, <1>2
<1>5. u[2] = c
  <2>1. 0 \in 0..Len(rest) /\ 0 + 2 = 2
    BY <1>1
  <2>2. u[0 + 2] = v[0]
    BY <2>1, <1>4
  <2> QED
    BY <2>1, <2>2, <1>3
<1>6. ASSUME NEW i \in 1..Len(losts), i % 2 = 0, u[i - 1] + 1 <= x, x <= u[i], i # 2
      PROVE  \E j \in 1..Len(rest) : j % 2 = 0 /\ v[j - 1] + 1 <= x /\ x <= v[j]
  <2>1. PICK j : j = i - 2
    OBVIOUS
  <2>a. i # 1 /\ i \in Nat
    BY <1>6
  <2>b. j % 2 = 0
    BY <2>1, <2>a, <1>6
  <2>2. /\ j \in 1..Len(rest)
        /\ j \in 0..Len(rest) /\ j - 1 \in 0..Len(rest) /\ j + 2 = i /\ (j - 1) + 2 = i - 1
    BY <2>a, <1>1, <1>6, <2>1
  <2>3. u[j + 2] = v[j] /\ u[(j - 1) + 2] = v[j - 1]
    BY <2>2, <1>4
  <2>4. v[j - 1] + 1 <= x /\ x <= v[j]
    BY <2>2, <2>3, <1>6
  <2> QED
    BY <2>b, <2>2, <2>4
<1>7. ASSUME NEW j \in 1..Len(rest), j % 2 = 0, v[j - 1] + 1 <= x, x <= v[j]
      PROVE  \E i \in 1..Len(losts) : i % 2 = 0 /\ u[i - 1] + 1 <= x /\ x <= u[i]
  <2>1. PICK i : i = j + 2
    OBVIOUS
  <2>2. /\ i \in 1..Len(losts) /\ i % 2 = 0
        /\ j \in 0..Len(rest) /\ j - 1 \in 0..Len(rest) /\ (j - 1) + 2 = i - 1
    BY <1>1, <1>7, <2>1
  <2>3. u[i] = v[j] /\ u[i - 1] = v[j - 1]
    BY <2>1, <2>2, <1>4
  <2> QED
    BY <2>2, <2>3, <1>7
<1>8. 2 \in 1..Len(losts) /\ 2 % 2 = 0 /\ 2 - 1 = 1
  BY <1>1
<1>9. (u[2 - 1] + 1 <= x /\ x <= u[2]) <=> (s + a + 2 <= x /\ x <= c)
  BY <1>4, <1>5, <1>8
<1> QED
  BY <1>2, <1>6, <1>7, <1>8, <1>9 DEF Announces

\* The ranges from a stage on, when the next stage is missing.
RangesOk(f, s) ==
    /\ Ranges(f)[s] \in Seq(Nat)
    /\ \A x \in Nat : Announces(s, Ranges(f)[s], x) <=> x \in DOMAIN f.fragments /\ x > s

LEMMA ArithmeticOfRun ==
    ASSUME NEW s, s \in Nat, NEW first, first \in Nat, NEW last, last \in Nat,
           s + 1 < first, first <= last
    PROVE  /\ first - s - 2 \in Nat /\ last - first \in Nat
           /\ last = s + (first - s - 2) + (last - first) + 2
           /\ first = s + (first - s - 2) + 2
OBVIOUS

ShiftedAnnounce(s, a, b, c, rest, losts, x) ==
    Announces(s, losts, x) <=> \/ s + a + 2 <= x /\ x <= c
                               \/ Announces(c, rest, x)

LEMMA AnnouncesShifted ==
    ASSUME NEW s, s \in Nat, NEW a, a \in Nat, NEW b, b \in Nat, NEW c, c = s + a + b + 2,
           NEW rest, NEW losts, Prefixed(losts, a, b, rest),
           NEW x, x \in Nat
    PROVE  ShiftedAnnounce(s, a, b, c, rest, losts, x)
BY AnnouncesShift DEF ShiftedAnnounce

LEMMA RangesNext ==
    ASSUME NEW f, f.stage \in Nat, DOMAIN f.fragments \subseteq Nat,
           NEW top, top \in Nat, f.stage <= top, \A x \in DOMAIN f.fragments : x <= top,
           NEW s, s \in DOMAIN f.fragments \union {f.stage}, s + 1 \notin DOMAIN f.fragments,
           After(DOMAIN f.fragments, s) # {},
           RangesOk(f, RunN(After(DOMAIN f.fragments, s)))
    PROVE  RangesOk(f, s)
<1>1. PICK S, left : S = DOMAIN f.fragments /\ left = After(S, s)
  OBVIOUS
<1>2. PICK first, last : first = Run1(left) /\ last = RunN(left)
  OBVIOUS
<1>3. PICK losts, rest : losts = Ranges(f)[s] /\ rest = Ranges(f)[last]
  OBVIOUS
<1>4. /\ left \subseteq Nat /\ left # {} /\ \A x \in left : x <= top
      /\ s \in Nat /\ s + 1 \notin left /\ \A x : x \in left <=> x \in S /\ x > s
  BY <1>1 DEF After
<1>5. /\ first \in left /\ \A t \in left : first <= t
      /\ last \in left /\ first <= last
      /\ first..last \subseteq left /\ (last + 1) \notin left
  BY <1>2, <1>4, FirstRun
<1>6. first \in Nat /\ last \in Nat /\ s + 1 < first
  BY <1>4, <1>5
<1>7. PICK a, b : a = first - s - 2 /\ b = last - first
  OBVIOUS
<1>8. a \in Nat /\ b \in Nat /\ last = s + a + b + 2 /\ first = s + a + 2
  BY <1>4, <1>5, <1>6, <1>7, ArithmeticOfRun
<1>9. losts = <<a, b>> \o rest
  <2>1. Ranges(f)[s] = IF left = {} THEN <<>>
                       ELSE <<missing(Run1(left), s), RunN(left) - Run1(left)>>
                               \o Ranges(f)[RunN(left)]
    BY <1>1, RangesSteps
  <2>2. losts = <<missing(first, s), last - first>> \o rest
    BY <2>1, <1>2, <1>3, <1>4
  <2> QED
    BY <2>2, <1>7 DEF missing
<1>10. rest \in Seq(Nat) /\ \A x \in Nat : Announces(last, rest, x) <=> x \in S /\ x > last
  BY <1>1, <1>2, <1>3 DEF RangesOk
<1>11. Prefixed(losts, a, b, rest)
  <2>1. \A r \in Seq(Nat), p \in Nat, q \in Nat : Prefixed(<<p, q>> \o r, p, q, r)
    BY DEF Prefixed
  <2> QED
    BY <2>1, <1>8, <1>9, <1>10
<1>12. ASSUME NEW x \in Nat PROVE Announces(s, losts, x) <=> x \in S /\ x > s
  <2>1. Announces(s, losts, x) <=> \/ s + a + 2 <= x /\ x <= last
                                   \/ Announces(last, rest, x)
    <3>1. ShiftedAnnounce(s, a, b, last, rest, losts, x)
      BY <1>4, <1>8, <1>11, AnnouncesShifted
    <3> QED
      BY <3>1 DEF ShiftedAnnounce
  <2>2. (first <= x /\ x <= last) => x \in S /\ x > s
    BY <1>4, <1>5, <1>6
  <2>3. (x \in S /\ x > s) => (first <= x /\ x <= last) \/ (x \in S /\ x > last)
    BY <1>4, <1>5, <1>6
  <2>4. (x \in S /\ x > last) => x > s
    BY <1>4, <1>5, <1>6
  <2> QED
    BY <2>1, <2>2, <2>3, <2>4, <1>8, <1>10
<1>13. losts \in Seq(Nat)
  BY <1>11 DEF Prefixed
<1> QED
  BY <1>1, <1>3, <1>12, <1>13 DEF RangesOk

LEMMA RangesExact ==
    ASSUME NEW f, f.stage \in Nat, DOMAIN f.fragments \subseteq Nat,
           NEW top, top \in Nat, f.stage <= top, \A x \in DOMAIN f.fragments : x <= top,
           f.stage + 1 \notin DOMAIN f.fragments
    PROVE  RangesOk(f, f.stage)
<1>1. PICK S : S = DOMAIN f.fragments
  OBVIOUS
<1> DEFINE T == {k \in Nat : \A s \in S \union {f.stage} :
                                 s + 1 \notin S /\ top <= s + k => RangesOk(f, s)}
<1>2. ASSUME NEW s, s \in S \union {f.stage}, s + 1 \notin S, After(S, s) = {}
      PROVE  RangesOk(f, s)
  <2>1. Ranges(f)[s] = <<>>
    BY <1>1, <1>2, RangesSteps
  <2>2. s \in Nat /\ \A x \in S : ~(x > s)
    BY <1>1, <1>2 DEF After
  <2>3. \A x : ~Announces(s, <<>>, x)
    BY DEF Announces
  <2> QED
    BY <2>1, <2>2, <2>3, <1>1 DEF RangesOk
<1>3. 0 \in T
  <2> SUFFICES ASSUME NEW s \in S \union {f.stage}, s + 1 \notin S, top <= s + 0
               PROVE  RangesOk(f, s)
    OBVIOUS
  <2>1. s \in Nat /\ s + 0 = s
    BY <1>1
  <2>a. \A x \in S : x \in Nat /\ x <= top
    BY <1>1
  <2>b. \A x \in S : ~(x > s)
    BY <2>1, <2>a
  <2>2. After(S, s) = {}
    BY <2>b DEF After
  <2> QED
    BY <2>2, <1>2
<1>4. ASSUME NEW k \in Nat, k \in T PROVE k + 1 \in T
  <2> SUFFICES ASSUME NEW s \in S \union {f.stage}, s + 1 \notin S, top <= s + (k + 1)
               PROVE  RangesOk(f, s)
    OBVIOUS
  <2>1. CASE After(S, s) = {}
    BY <2>1, <1>2
  <2>2. CASE After(S, s) # {}
    <3>1. PICK left, last : left = After(S, s) /\ last = RunN(left)
      OBVIOUS
    <3>2. /\ left \subseteq Nat /\ left # {} /\ \A x \in left : x <= top
          /\ s \in Nat /\ \A x : x \in left <=> x \in S /\ x > s
      BY <1>1, <2>2, <3>1 DEF After
    <3>3. last \in left /\ (last + 1) \notin left
      BY <3>1, <3>2, FirstRun
    <3>4. last \in S /\ last \in Nat /\ last > s /\ last + 1 \notin S
      <4>1. last \in S /\ last \in Nat /\ last > s
        BY <3>2, <3>3
      <4>2. last + 1 > s
        BY <4>1, <3>2
      <4> QED
        BY <4>1, <4>2, <3>2, <3>3
    <3>5. top <= last + k
      BY <3>2, <3>4
    <3>6. RangesOk(f, last)
      BY <3>4, <3>5, <1>4
    <3> QED
      BY <3>1, <3>6, <2>2, <1>1, RangesNext
  <2> QED
    BY <2>1, <2>2
<1> HIDE DEF T
<1>5. top \in T
  BY <1>3, <1>4, Induction
<1>6. top <= f.stage + top
  OBVIOUS
<1> QED
  BY <1>1, <1>5, <1>6 DEF T

\* The acknowledgment of a flow says what it has received, and only numbers.
LEMMA AckExact ==
    ASSUME NEW h, NEW lg, NEW n, n \in Nat, NEW f, FlowOk(f, h, lg, n)
    PROVE  LET b == buildAck(f) IN
           /\ b.stage = f.stage /\ b.losts \in Seq(Nat)
           /\ \A s \in DOMAIN f.fragments : s > f.stage + 1
           /\ announced(b) = DOMAIN f.fragments
<1>1. PICK losts, s : losts = Ranges(f)[f.stage] /\ s = f.stage
  OBVIOUS
<1>2. buildAck(f) = [stage |-> s, losts |-> losts]
  BY <1>1, BuildAckRanges
<1>3. f.stage \in Nat /\ \A x \in DOMAIN f.fragments : x \in Nat /\ x > f.stage + 1 /\ x <= n
  <2>1. CASE f.stageEnd = 0
    BY <2>1 DEF FlowOk, IsFlow, Held
  <2>2. CASE f.stageEnd # 0
    BY <2>2 DEF FlowOk, IsFlow
  <2> QED
    BY <2>1, <2>2
<1>4. RangesOk(f, f.stage)
  <2>1. PICK top : top \in Nat /\ f.stage <= top /\ n <= top
    <3>1. f.stage + n \in Nat /\ f.stage <= f.stage + n /\ n <= f.stage + n
      BY <1>3
    <3> QED
      BY <3>1
  <2>2. DOMAIN f.fragments \subseteq Nat /\ \A x \in DOMAIN f.fragments : x <= top
    BY <1>3, <2>1
  <2>3. f.stage + 1 \notin DOMAIN f.fragments
    BY <1>3
  <2> QED
    BY <2>1, <2>2, <2>3, <1>3, RangesExact
<1>5. losts \in Seq(Nat) /\ s \in Nat
  BY <1>1, <1>3, <1>4 DEF RangesOk
<1>6. announced(buildAck(f)) = {x \in Nat : Announces(s, losts, x)}
  BY <1>2, <1>5, AnnouncedStages
<1>7. announced(buildAck(f)) = DOMAIN f.fragments
  <2>1. \A x \in Nat : Announces(s, losts, x) <=> x \in DOMAIN f.fragments /\ x > s
    BY <1>1, <1>4 DEF RangesOk
  <2>2. \A x \in DOMAIN f.fragments : x \in Nat /\ x > s
    BY <1>1, <1>3
  <2> QED
    BY <2>1, <2>2, <1>6
<1> QED
  BY <1>1, <1>2, <1>3, <1>5, <1>7

-----------------------------------------------------------------------------
(* The messages between the application and the script: in the messenger   *)
(* being run, in those that wait and in _pSender, they are the messages of *)
(* the log in order, the end of the flow after them.                       *)

\* What a writer that has a log may do, its session staying connected.
SessionNext ==
    \/ \E size \in Sizes, reliable \in BOOLEAN : newMessage(size, reliable)
    \/ flush
    \/ anyAck
    \/ \E error \in BOOLEAN : close(error) /\ UNCHANGED wire
    \/ consumed
    \/ sendingThread
    \/ outside /\ UNCHANGED pending

LEMMA SessionStep == [SessionNext]_writerVars => [WriterNext]_writerVars
BY DEF SessionNext, WriterNext

LogOk(lg) == \A i \in 1..Len(lg) : lg[i].id = i /\ lg[i].size > 0

\* A batch of messages that follows the first b of the log.
Segment(ms, b, lg) == \A k \in 1..Len(ms) : ms[k] = IF b + k <= Len(lg) THEN lg[b + k] ELSE EndMessage

\* base[i] messages come before those of the i-th runner.
Lined(base, rs, lg) ==
    /\ base \in Seq(Nat) /\ Len(base) = Len(rs) + 1
    /\ \A i \in 1..Len(rs) :
          /\ Segment(rs[i].messages, base[i], lg)
          /\ base[i + 1] = base[i] + Len(rs[i].messages)
          /\ base[i] <= base[Len(base)]
          /\ base[i + 1] <= base[Len(base)]

LEMMA SegmentTail ==
    ASSUME NEW ms, ms \in Seq(Message), ms # <<>>, NEW b, b \in Nat, NEW lg, Segment(ms, b, lg)
    PROVE  /\ Segment(Tail(ms), b + 1, lg)
           /\ Len(Tail(ms)) = Len(ms) - 1
           /\ Head(ms) = IF b + 1 <= Len(lg) THEN lg[b + 1] ELSE EndMessage
<1>1. Len(ms) \in Nat /\ Len(ms) # 0 /\ Head(ms) = ms[1]
  OBVIOUS
<1>2. Len(Tail(ms)) = Len(ms) - 1 /\ \A k \in 1..(Len(ms) - 1) : Tail(ms)[k] = ms[k + 1]
  BY <1>1
<1>3. ASSUME NEW k \in 1..(Len(ms) - 1)
      PROVE  Tail(ms)[k] = IF (b + 1) + k <= Len(lg) THEN lg[(b + 1) + k] ELSE EndMessage
  <2>1. k + 1 \in 1..Len(ms) /\ b + (k + 1) = (b + 1) + k
    BY <1>1
  <2>2. ms[k + 1] = IF b + (k + 1) <= Len(lg) THEN lg[b + (k + 1)] ELSE EndMessage
    BY <2>1 DEF Segment
  <2> QED
    BY <1>2, <2>1, <2>2
<1>4. ms[1] = IF b + 1 <= Len(lg) THEN lg[b + 1] ELSE EndMessage
  BY <1>1 DEF Segment
<1> QED
  BY <1>1, <1>2, <1>3, <1>4 DEF Segment

\* A longer log does not change what a batch is, if the batch was all in it.
LEMMA SegmentGrows ==
    ASSUME NEW ms, ms \in Seq(Message), NEW b, b \in Nat, NEW lg, lg \in Seq(Message),
           NEW m, m \in Message, Segment(ms, b, lg), b + Len(ms) <= Len(lg)
    PROVE  Segment(ms, b, Append(lg, m))
<1>1. PICK l2 : l2 = Append(lg, m)
  OBVIOUS
<1>2. /\ Len(ms) \in Nat /\ Len(lg) \in Nat /\ Len(l2) = Len(lg) + 1
      /\ \A i \in 1..Len(lg) : l2[i] = lg[i]
  BY <1>1
<1>3. ASSUME NEW k \in 1..Len(ms)
      PROVE  ms[k] = IF b + k <= Len(l2) THEN l2[b + k] ELSE EndMessage
  <2>1. b + k \in 1..Len(lg) /\ b + k <= Len(l2)
    BY <1>2
  <2>2. ms[k] = lg[b + k]
    BY <2>1 DEF Segment
  <2> QED
    BY <1>2, <2>1, <2>2
<1> QED
  BY <1>1, <1>3 DEF Segment

LEMMA SegmentAppend ==
    ASSUME NEW ms, ms \in Seq(Message), NEW b, b \in Nat, NEW lg, lg \in Seq(Message),
           NEW m, m \in Message, Segment(ms, b, lg),
           m = IF b + Len(ms) + 1 <= Len(lg) THEN lg[b + Len(ms) + 1] ELSE EndMessage
    PROVE  Segment(Append(ms, m), b, lg)
<1>1. /\ Len(Append(ms, m)) = Len(ms) + 1 /\ Append(ms, m)[Len(ms) + 1] = m /\ Len(ms) \in Nat
      /\ \A k \in 1..Len(ms) : Append(ms, m)[k] = ms[k]
  OBVIOUS
<1>2. ASSUME NEW k \in 1..(Len(ms) + 1)
      PROVE  Append(ms, m)[k] = IF b + k <= Len(lg) THEN lg[b + k] ELSE EndMessage
  <2>1. CASE k \in 1..Len(ms)
    BY <1>1, <2>1 DEF Segment
  <2>2. CASE k = Len(ms) + 1
    <3>1. b + k = b + Len(ms) + 1
      BY <1>1, <2>2
    <3> QED
      BY <1>1, <2>2, <3>1
  <2> QED
    BY <1>1, <2>1, <2>2
<1> QED
  BY <1>1, <1>2 DEF Segment

LEMMA LinedAppend ==
    ASSUME NEW rs, rs \in Seq(Runner), NEW lg, NEW base, Lined(base, rs, lg),
           NEW r, r \in Runner, Segment(r.messages, base[Len(base)], lg),
           NEW total, total = base[Len(base)] + Len(r.messages)
    PROVE  /\ Lined(Append(base, total), Append(rs, r), lg)
           /\ Append(base, total)[1] = base[1]
           /\ Append(base, total)[Len(Append(base, total))] = total
<1>1. PICK b2, rs2 : b2 = Append(base, total) /\ rs2 = Append(rs, r)
  OBVIOUS
<1>2. /\ base \in Seq(Nat) /\ Len(base) = Len(rs) + 1 /\ Len(rs) \in Nat
      /\ Len(r.messages) \in Nat
  BY DEF Lined, Runner
<1>3. PICK n : n = Len(rs)
  OBVIOUS
<1>4. base[n + 1] \in Nat /\ total \in Nat /\ base[n + 1] <= total /\ Len(base) = n + 1 /\ n \in Nat
  BY <1>2, <1>3
<1>5. /\ b2 \in Seq(Nat) /\ Len(b2) = n + 2 /\ b2[n + 2] = total
      /\ \A i \in 1..(n + 1) : b2[i] = base[i]
  BY <1>1, <1>2, <1>4
<1>6. /\ Len(rs2) = n + 1 /\ rs2[n + 1] = r /\ \A i \in 1..n : rs2[i] = rs[i]
  BY <1>1, <1>3
<1>7. ASSUME NEW i \in 1..(n + 1)
      PROVE  /\ Segment(rs2[i].messages, b2[i], lg)
             /\ b2[i + 1] = b2[i] + Len(rs2[i].messages)
             /\ b2[i] <= total /\ b2[i + 1] <= total
  <2>1. CASE i \in 1..n
    <3>1. i + 1 \in 1..(n + 1) /\ base[i] \in Nat /\ base[i + 1] \in Nat
      BY <2>1, <1>2, <1>4, SMTT(20)
    <3>2. /\ Segment(rs[i].messages, base[i], lg) /\ base[i + 1] = base[i] + Len(rs[i].messages)
          /\ base[i] <= base[n + 1] /\ base[i + 1] <= base[n + 1]
      BY <2>1, <1>3, <1>4 DEF Lined
    <3> QED
      BY <3>1, <3>2, <2>1, <1>4, <1>5, <1>6, SMTT(20)
  <2>2. CASE i = n + 1
    BY <2>2, <1>4, <1>5, <1>6
  <2> QED
    BY <2>1, <2>2, <1>4
<1>8. b2[1] = base[1]
  BY <1>4, <1>5
<1>9. (n + 1) + 1 = n + 2
  BY <1>4
<1> QED
  BY <1>1, <1>5, <1>6, <1>7, <1>8, <1>9 DEF Lined

LEMMA LinedTail ==
    ASSUME NEW rs, rs \in Seq(Runner), rs # <<>>, NEW lg, NEW base, Lined(base, rs, lg)
    PROVE  /\ Lined(Tail(base), Tail(rs), lg)
           /\ Tail(base)[1] = base[1] + Len(Head(rs).messages)
           /\ Tail(base)[Len(Tail(base))] = base[Len(base)]
           /\ Segment(Head(rs).messages, base[1], lg)
<1>1. PICK b2, rs2, n : b2 = Tail(base) /\ rs2 = Tail(rs) /\ n = Len(rs)
  OBVIOUS
<1>2. /\ base \in Seq(Nat) /\ Len(base) = n + 1 /\ n \in Nat /\ n >= 1 /\ base # <<>>
  BY <1>1 DEF Lined
<1>3. /\ b2 \in Seq(Nat) /\ Len(b2) = n /\ \A i \in 1..n : b2[i] = base[i + 1]
  BY <1>1, <1>2
<1>4. /\ Len(rs2) = n - 1 /\ Head(rs) = rs[1] /\ \A i \in 1..(n - 1) : rs2[i] = rs[i + 1]
  BY <1>1, <1>2
<1>5. ASSUME NEW i \in 1..(n - 1)
      PROVE  /\ Segment(rs2[i].messages, b2[i], lg)
             /\ b2[i + 1] = b2[i] + Len(rs2[i].messages)
             /\ b2[i] <= base[n + 1] /\ b2[i + 1] <= base[n + 1]
  <2>1. i + 1 \in 1..n /\ i \in 1..n
    BY <1>2
  <2>2. /\ Segment(rs[i + 1].messages, base[i + 1], lg)
        /\ base[(i + 1) + 1] = base[i + 1] + Len(rs[i + 1].messages)
        /\ base[i + 1] <= base[n + 1] /\ base[(i + 1) + 1] <= base[n + 1]
    BY <2>1, <1>1, <1>2 DEF Lined
  <2> QED
    BY <2>1, <2>2, <1>3, <1>4
<1>6. 1 \in 1..n /\ n \in 1..n /\ (n - 1) + 1 = n /\ 1 + 1 = 2
  BY <1>2
<1>7. b2[n] = base[n + 1] /\ b2[1] = base[2]
  BY <1>3, <1>6
<1>8. Segment(rs[1].messages, base[1], lg) /\ base[2] = base[1] + Len(rs[1].messages)
  BY <1>1, <1>6 DEF Lined
<1> QED
  BY <1>1, <1>2, <1>3, <1>4, <1>5, <1>6, <1>7, <1>8 DEF Lined

LEMMA LinedGrows ==
    ASSUME NEW rs, rs \in Seq(Runner), NEW lg, lg \in Seq(Message), NEW base, Lined(base, rs, lg),
           base[Len(base)] <= Len(lg), NEW m, m \in Message
    PROVE  Lined(base, rs, Append(lg, m))
<1>1. base \in Seq(Nat) /\ Len(base) = Len(rs) + 1 /\ Len(rs) \in Nat /\ Len(lg) \in Nat
  BY DEF Lined
<1>2. ASSUME NEW i \in 1..Len(rs) PROVE Segment(rs[i].messages, base[i], Append(lg, m))
  <2>1. rs[i].messages \in Seq(Message) /\ base[i] \in Nat /\ base[i + 1] \in Nat
        /\ base[Len(base)] \in Nat
    <3>1. rs[i] \in Runner /\ i + 1 \in 1..Len(base) /\ Len(base) \in 1..Len(base) /\ i \in 1..Len(base)
      BY <1>1
    <3>2. rs[i].messages \in Seq(Message)
      BY <3>1 DEF Runner
    <3>3. base[i] \in Nat /\ base[i + 1] \in Nat /\ base[Len(base)] \in Nat
      BY <3>1, <1>1
    <3> QED
      BY <3>2, <3>3
  <2>2. /\ Segment(rs[i].messages, base[i], lg) /\ base[i + 1] = base[i] + Len(rs[i].messages)
        /\ base[i + 1] <= base[Len(base)]
    BY DEF Lined
  <2>3. base[i] + Len(rs[i].messages) <= Len(lg)
    BY <1>1, <2>1, <2>2
  <2> QED
    BY <2>1, <2>2, <2>3, SegmentGrows
<1> QED
  BY <1>2 DEF Lined

\* b messages are cut and written; the batches come after them.
QueuedOk(b, base) ==
    /\ b \in Nat /\ Segment(job.messages, b, log)
    /\ Lined(base, runners, log) /\ base[1] = b + Len(job.messages)
    /\ Segment(pending, base[Len(base)], log)
    /\ ~closed => base[Len(base)] + Len(pending) = Len(log)
    /\ closed => pending = <<>> /\ base[Len(base)] <= Len(log) + 1

\* The end of the script h is where the messenger is in its messages.
Cursor(h, b) ==
    IF h = <<>> THEN b = 0 /\ job.offset = 0
    ELSE LET g == h[Len(h)] IN
         \/ g = EndFragment /\ closed /\ b = Len(log) + 1 /\ job.offset = 0
         \/ g # EndFragment /\ ~g.after /\ g.msg = b /\ job.offset = 0
         \/ g # EndFragment /\ g.after /\ g.msg = b + 1 /\ g.from + g.size = job.offset

JobOk ==
    /\ job.after <=> job.offset > 0
    /\ job.offset > 0 => job.messages # <<>> /\ job.offset < Head(job.messages).size
    /\ pc # "write" => job.messages = <<>>

OthersEmpty == \A i \in 1..Len(runners) : runners[i].kind # "Messenger" => runners[i].messages = <<>>

QueuedInv(h) ==
    /\ LogOk(log) /\ JobOk /\ OthersEmpty
    /\ \E b, base : QueuedOk(b, base) /\ Cursor(h, b)

LEMMA QueuedInit == WriterInit => QueuedInv(<<>>)
<1> SUFFICES ASSUME WriterInit PROVE QueuedInv(<<>>)
  OBVIOUS
<1>1. QueuedOk(0, <<0>>)
  <2>1. log = <<>> /\ pending = <<>> /\ runners = <<>> /\ job.messages = <<>> /\ ~closed
    BY DEF WriterInit, NoJob, closed
  <2>2. Lined(<<0>>, runners, log)
    BY <2>1 DEF Lined
  <2> QED
    BY <2>1, <2>2 DEF QueuedOk, Segment
<1>2. Cursor(<<>>, 0) /\ JobOk /\ LogOk(log) /\ OthersEmpty
  BY DEF WriterInit, NoJob, Cursor, JobOk, LogOk, OthersEmpty
<1> QED
  BY <1>1, <1>2 DEF QueuedInv

LEMMA QueuedTypes ==
    ASSUME TypeInv
    PROVE  /\ log \in Seq(Message) /\ pending \in Seq(Message) /\ runners \in Seq(Runner)
           /\ job.messages \in Seq(Message) /\ job.offset \in Nat /\ Len(log) \in Nat
           /\ Len(pending) \in Nat /\ Len(job.messages) \in Nat
BY DEF TypeInv, WriterTypeOK, Job

LEMMA LinedEnds ==
    ASSUME NEW rs, rs \in Seq(Runner), NEW lg, NEW base, Lined(base, rs, lg)
    PROVE  /\ base[1] \in Nat /\ base[Len(base)] \in Nat /\ base[1] <= base[Len(base)]
           /\ Len(base) \in Nat
<1>1. base \in Seq(Nat) /\ Len(base) = Len(rs) + 1 /\ Len(rs) \in Nat
  BY DEF Lined
<1>2. 1 \in 1..Len(base) /\ Len(base) \in 1..Len(base)
  BY <1>1
<1>3. base[1] \in Nat /\ base[Len(base)] \in Nat
  BY <1>1, <1>2
<1>4. CASE Len(rs) = 0
  BY <1>1, <1>3, <1>4
<1>5. CASE Len(rs) # 0
  BY <1>1, <1>3, <1>5 DEF Lined
<1> QED
  BY <1>1, <1>3, <1>4, <1>5

LEMMA QueuedUntouched ==
    ASSUME NEW h, TypeInv, QueuedInv(h), UNCHANGED <<log, pending, runners, job>>,
           wState' = wState \/ (wState # "OPENED" /\ wState' # "OPENED"),
           pc' # "write" => pc # "write" \/ job.messages = <<>>
    PROVE  QueuedInv(h)'
<1>1. closed' = closed
  BY DEF closed
<1>2. PICK b, base : QueuedOk(b, base) /\ Cursor(h, b)
  BY DEF QueuedInv
<1>3. QueuedOk(b, base)' /\ Cursor(h, b)'
  BY <1>1, <1>2 DEF QueuedOk, Cursor
<1>4. JobOk' /\ OthersEmpty' /\ LogOk(log)'
  BY DEF QueuedInv, JobOk, OthersEmpty, LogOk
<1> QED
  BY <1>3, <1>4 DEF QueuedInv

\* A runner without messages waits behind the others.
LEMMA QueuedRunner ==
    ASSUME NEW h, TypeInv, QueuedInv(h), NEW r, r \in Runner, r.messages = <<>>,
           runners' = Append(runners, r), UNCHANGED <<log, pending, job, pc, wState>>
    PROVE  QueuedInv(h)'
<1>1. closed' = closed /\ runners \in Seq(Runner)
  BY QueuedTypes DEF closed
<1>2. PICK b, base : QueuedOk(b, base) /\ Cursor(h, b)
  BY DEF QueuedInv
<1>3. PICK total, b2 : total = base[Len(base)] + Len(r.messages) /\ b2 = Append(base, total)
  OBVIOUS
<1>4. Lined(base, runners, log) /\ Segment(r.messages, base[Len(base)], log)
  BY <1>2 DEF QueuedOk, Segment
<1>5. Lined(b2, runners', log) /\ b2[1] = base[1] /\ b2[Len(b2)] = total
  BY <1>1, <1>3, <1>4, LinedAppend
<1>6. total = base[Len(base)]
  BY <1>1, <1>3, <1>4, LinedEnds
<1>7. QueuedOk(b, b2)' /\ Cursor(h, b)'
  BY <1>1, <1>2, <1>5, <1>6 DEF QueuedOk, Cursor
<1>8. JobOk' /\ OthersEmpty' /\ LogOk(log)'
  BY <1>1 DEF QueuedInv, JobOk, OthersEmpty, LogOk
<1> QED
  BY <1>7, <1>8 DEF QueuedInv

\* The messages of _pSender become a runner, closing the writer or not.
LEMMA QueuedMessenger ==
    ASSUME NEW h, TypeInv, QueuedInv(h),
           NEW ms, ms \in Seq(Message), runners' = Append(runners, Messenger(ms)),
           \/ ms = pending
           \/ ~closed /\ closed' /\ ms = Append(pending, EndMessage),
           closed => closed',
           pending' = <<>>, UNCHANGED <<log, job, pc>>
    PROVE  QueuedInv(h)'
<1>1. runners \in Seq(Runner) /\ log \in Seq(Message) /\ pending \in Seq(Message)
      /\ Len(log) \in Nat /\ Len(pending) \in Nat
  BY QueuedTypes
<1>2. PICK b, base : QueuedOk(b, base) /\ Cursor(h, b)
  BY DEF QueuedInv
<1>3. PICK r : r = Messenger(ms)
  OBVIOUS
<1>4. r \in Runner /\ r.messages = ms /\ r.kind = "Messenger"
  BY <1>3, RunnerTypes DEF Messenger
<1>5. PICK total, b2 : total = base[Len(base)] + Len(r.messages) /\ b2 = Append(base, total)
  OBVIOUS
<1>6. Lined(base, runners, log) /\ base[Len(base)] \in Nat
  BY <1>1, <1>2, LinedEnds DEF QueuedOk
<1>7. /\ Segment(r.messages, base[Len(base)], log)
      /\ ~closed' => total = Len(log)
      /\ closed' => total <= Len(log) + 1
  <2>1. CASE ms = pending
    <3>1. Segment(r.messages, base[Len(base)], log)
      BY <1>2, <1>4, <2>1 DEF QueuedOk
    <3>2. CASE closed
      <4>1. total = base[Len(base)]
        BY <1>2, <1>4, <1>5, <1>6, <2>1, <3>2 DEF QueuedOk
      <4> QED
        BY <1>2, <3>1, <3>2, <4>1 DEF QueuedOk
    <3>3. CASE ~closed
      <4>1. total = Len(log)
        BY <1>2, <1>4, <1>5, <2>1, <3>3 DEF QueuedOk
      <4> QED
        BY <1>1, <3>1, <4>1
    <3> QED
      BY <3>2, <3>3
  <2>2. CASE ~closed /\ closed' /\ ms = Append(pending, EndMessage)
    <3>1. Segment(pending, base[Len(base)], log) /\ base[Len(base)] + Len(pending) = Len(log)
      BY <1>2, <2>2 DEF QueuedOk
    <3>2. ~(base[Len(base)] + Len(pending) + 1 <= Len(log)) /\ EndMessage \in Message
      BY <1>1, <3>1, ConstantTypes
    <3>3. Segment(ms, base[Len(base)], log)
      BY <1>1, <1>6, <2>2, <3>1, <3>2, SegmentAppend
    <3>4. Len(ms) = Len(pending) + 1
      BY <1>1, <2>2, <3>2
    <3>5. total = Len(log) + 1
      BY <1>1, <1>4, <1>5, <1>6, <3>1, <3>4
    <3> QED
      BY <1>1, <1>4, <2>2, <3>3, <3>5
  <2> QED
    BY <2>1, <2>2
<1>8. Lined(b2, runners', log) /\ b2[1] = base[1] /\ b2[Len(b2)] = total /\ total \in Nat
  <2>1. Lined(b2, runners', log) /\ b2[1] = base[1] /\ b2[Len(b2)] = total
    BY <1>1, <1>3, <1>4, <1>5, <1>6, <1>7, LinedAppend
  <2> QED
    BY <2>1, <1>4, <1>5, <1>6
<1>9. Segment(pending', b2[Len(b2)], log) /\ Len(pending') = 0
  BY DEF Segment
<1>10. QueuedOk(b, b2)'
  BY <1>1, <1>2, <1>7, <1>8, <1>9 DEF QueuedOk
<1>11. Cursor(h, b)'
  <2>1. closed => closed'
    OBVIOUS
  <2> QED
    BY <1>2, <2>1 DEF Cursor
<1>12. JobOk' /\ OthersEmpty' /\ LogOk(log)'
  BY <1>1, <1>3, <1>4 DEF QueuedInv, JobOk, OthersEmpty, LogOk
<1> QED
  BY <1>10, <1>11, <1>12 DEF QueuedInv

LEMMA QueuedNewMessage ==
    ASSUME NEW h, TypeInv, QueuedInv(h), NEW size \in Sizes, NEW reliable \in BOOLEAN,
           newMessage(size, reliable)
    PROVE  QueuedInv(h)'
<1>1. PICK m : m = [id |-> Len(log) + 1, size |-> size, reliable |-> reliable]
  OBVIOUS
<1>2. runners \in Seq(Runner) /\ log \in Seq(Message) /\ pending \in Seq(Message)
      /\ job.messages \in Seq(Message) /\ Len(job.messages) \in Nat
      /\ Len(log) \in Nat /\ Len(pending) \in Nat
  BY QueuedTypes
<1>3. m \in Message /\ m.id = Len(log) + 1 /\ m.size > 0
  <2>1. size \in Nat /\ size # 0
    BY WriterAssumption
  <2> QED
    BY <1>1, <1>2, <2>1 DEF Message
<1>4. /\ ~closed /\ log' = Append(log, m) /\ pending' = Append(pending, m)
      /\ UNCHANGED <<wState, runners, job, pc>>
  BY <1>1 DEF newMessage, threadVars
<1>5. ~closed' /\ closed' = closed
  BY <1>4 DEF closed
<1>6. PICK b, base : QueuedOk(b, base) /\ Cursor(h, b)
  BY DEF QueuedInv
<1>7. PICK top : top = base[Len(base)]
  OBVIOUS
<1>8. /\ b \in Nat /\ Segment(job.messages, b, log)
      /\ Lined(base, runners, log) /\ base[1] = b + Len(job.messages)
      /\ Segment(pending, top, log) /\ top + Len(pending) = Len(log)
  BY <1>4, <1>6, <1>7 DEF QueuedOk
<1>9. base[1] \in Nat /\ top \in Nat /\ base[1] <= top
  BY <1>2, <1>7, <1>8, LinedEnds
<1>10. Lined(base, runners, log')
  <2>1. base[Len(base)] <= Len(log)
    BY <1>2, <1>7, <1>8, <1>9
  <2> QED
    BY <2>1, <1>2, <1>3, <1>4, <1>8, LinedGrows
<1>11. Segment(job.messages, b, log')
  <2>1. b + Len(job.messages) <= Len(log)
    BY <1>2, <1>8, <1>9
  <2> QED
    BY <2>1, <1>2, <1>3, <1>4, <1>8, SegmentGrows
<1>12. /\ log' \in Seq(Message) /\ Len(log') = Len(log) + 1 /\ log'[Len(log) + 1] = m
       /\ \A i \in 1..Len(log) : log'[i] = log[i]
  BY <1>2, <1>3, <1>4
<1>13. Segment(pending', top, log') /\ top + Len(pending') = Len(log')
  <2>1. Segment(pending, top, log')
    <3>1. top + Len(pending) <= Len(log)
      BY <1>2, <1>8
    <3> QED
      BY <3>1, <1>2, <1>3, <1>4, <1>8, <1>9, SegmentGrows
  <2>2. top + Len(pending) + 1 = Len(log')
    BY <1>2, <1>8, <1>9, <1>12
  <2>3. m = IF top + Len(pending) + 1 <= Len(log') THEN log'[top + Len(pending) + 1] ELSE EndMessage
    BY <1>2, <2>2, <1>12
  <2>4. Segment(pending', top, log')
    BY <1>2, <1>3, <1>4, <1>9, <1>12, <2>1, <2>3, SegmentAppend
  <2>5. Len(pending') = Len(pending) + 1
    BY <1>2, <1>4
  <2> QED
    BY <1>2, <1>9, <2>2, <2>4, <2>5
<1>14. QueuedOk(b, base)'
  <2>1. /\ Lined(base, runners', log') /\ Segment(job'.messages, b, log')
        /\ base[1] = b + Len(job'.messages)
    BY <1>4, <1>8, <1>10, <1>11
  <2> QED
    BY <2>1, <1>5, <1>7, <1>8, <1>13 DEF QueuedOk
<1>15. Cursor(h, b)'
  BY <1>4, <1>5, <1>6 DEF Cursor
<1>16. LogOk(log')
  <2>1. ASSUME NEW i \in 1..Len(log') PROVE log'[i].id = i /\ log'[i].size > 0
    <3>1. CASE i \in 1..Len(log)
      BY <3>1, <1>12 DEF QueuedInv, LogOk
    <3>2. CASE i = Len(log) + 1
      BY <3>2, <1>3, <1>12
    <3> QED
      BY <1>2, <1>12, <3>1, <3>2
  <2> QED
    BY <2>1 DEF LogOk
<1>17. JobOk' /\ OthersEmpty'
  BY <1>4 DEF QueuedInv, JobOk, OthersEmpty
<1> QED
  BY <1>14, <1>15, <1>16, <1>17 DEF QueuedInv

LEMMA QueuedClose ==
    ASSUME NEW h, TypeInv, QueuedInv(h), NEW error, close(error)
    PROVE  QueuedInv(h)'
<1>1. closed' /\ wState' # "OPENED"
  BY DEF close, closed
<1>2. UNCHANGED <<log, job, pc>>
  BY DEF close
<1>3. CASE wState # "OPENED"
  <2>1. UNCHANGED <<pending, runners>>
    BY <1>3 DEF close
  <2> QED
    BY <1>1, <1>2, <1>3, <2>1, QueuedUntouched
<1>4. CASE wState = "OPENED"
  <2>1. ~closed /\ pending' = <<>>
    BY <1>4 DEF closed, close
  <2>2. PICK ms : ms = IF wStageAck > 0 \/ repeating THEN Append(pending, EndMessage) ELSE pending
    OBVIOUS
  <2>3. ms \in Seq(Message) /\ (ms = pending \/ ms = Append(pending, EndMessage))
    BY <2>2, QueuedTypes, ConstantTypes
  <2>4. CASE runners' = Append(runners, Messenger(ms))
    BY <1>1, <1>2, <2>1, <2>3, <2>4, QueuedMessenger
  <2>5. CASE runners' = runners
    <3>1. PICK b, base : QueuedOk(b, base) /\ Cursor(h, b)
      BY DEF QueuedInv
    <3>2. /\ Lined(base, runners, log) /\ runners \in Seq(Runner)
          /\ Len(pending) \in Nat /\ Len(log) \in Nat
          /\ base[Len(base)] + Len(pending) = Len(log)
      BY <3>1, <2>1, QueuedTypes DEF QueuedOk
    <3>3. base[Len(base)] <= Len(log) + 1
      BY <3>2, LinedEnds
    <3>4. Segment(pending', base[Len(base)], log')
      BY <2>1 DEF Segment
    <3>5. QueuedOk(b, base)'
      BY <1>1, <1>2, <2>1, <2>5, <3>1, <3>3, <3>4 DEF QueuedOk
    <3>6. Cursor(h, b)'
      BY <1>1, <1>2, <3>1 DEF Cursor
    <3>7. JobOk' /\ OthersEmpty' /\ LogOk(log)'
      BY <1>2, <2>5 DEF QueuedInv, JobOk, OthersEmpty, LogOk
    <3> QED
      BY <3>5, <3>6, <3>7 DEF QueuedInv
  <2> QED
    BY <1>4, <2>2, <2>4, <2>5 DEF close
<1> QED
  BY <1>3, <1>4

\* The thread takes the next runner.
LEMMA QueuedStart ==
    ASSUME NEW h, TypeInv, QueuedInv(h), pc = "idle", runners # <<>>, runners' = Tail(runners),
           job'.messages = Head(runners).messages, job'.offset = 0, job'.after = FALSE,
           pc' # "write" => Head(runners).messages = <<>>,
           UNCHANGED <<log, pending, wState>>
    PROVE  QueuedInv(h)'
<1>1. runners \in Seq(Runner) /\ job.messages = <<>> /\ job.offset = 0 /\ closed' = closed
      /\ Len(job.messages) = 0
  <2>1. job.messages = <<>> /\ ~(job.offset > 0)
    BY DEF QueuedInv, JobOk
  <2> QED
    BY <2>1, QueuedTypes DEF closed
<1>2. PICK b, base : QueuedOk(b, base) /\ Cursor(h, b)
  BY DEF QueuedInv
<1>3. b \in Nat /\ Lined(base, runners, log) /\ base[1] = b
  BY <1>1, <1>2 DEF QueuedOk
<1>4. PICK b2 : b2 = Tail(base)
  OBVIOUS
<1>5. /\ Lined(b2, runners', log') /\ b2[1] = b + Len(job'.messages)
      /\ b2[Len(b2)] = base[Len(base)] /\ Segment(job'.messages, b, log')
  BY <1>1, <1>3, <1>4, LinedTail, ZenonT(40)
<1>6. QueuedOk(b, b2)'
  BY <1>1, <1>2, <1>5 DEF QueuedOk
<1>7. Cursor(h, b)'
  BY <1>1, <1>2 DEF Cursor
<1>8. JobOk' /\ LogOk(log)'
  BY DEF QueuedInv, JobOk, LogOk
<1>9. OthersEmpty'
  <2>1. /\ Len(Tail(runners)) = Len(runners) - 1 /\ Len(runners) \in Nat
        /\ \A i \in 1..(Len(runners) - 1) : Tail(runners)[i] = runners[i + 1]
    BY <1>1
  <2>2. \A i \in 1..(Len(runners) - 1) : i + 1 \in 1..Len(runners)
    BY <2>1
  <2> QED
    BY <2>1, <2>2 DEF QueuedInv, OthersEmpty
<1> QED
  BY <1>6, <1>7, <1>8, <1>9 DEF QueuedInv

\* The fragment that writeFragment writes when b messages are written.
LEMMA WriteFacts ==
    ASSUME NEW h, TypeInv, LogOk(log), JobOk, writeFragment,
           NEW b, NEW base, QueuedOk(b, base), Cursor(h, b)
    PROVE  /\ b \in Nat /\ b <= Len(log)
           /\ h # <<>> => h[Len(h)] # EndFragment
           /\ b < Len(log) =>
                /\ Head(job.messages) = log[b + 1]
                /\ contentSize > 0 /\ sizeLeft = log[b + 1].size - job.offset
                /\ nextFragment # EndFragment
                /\ nextFragment.msg = b + 1 /\ nextFragment.from = job.offset
                /\ nextFragment.size = contentSize
                /\ nextFragment.before = job.after
                /\ nextFragment.after = (sizeLeft > contentSize)
                /\ nextFragment.abandon = FALSE /\ nextFragment.end = FALSE
           /\ b = Len(log) =>
                /\ closed /\ job.offset = 0
                /\ Head(job.messages) = EndMessage /\ nextFragment = EndFragment
                /\ contentSize = 0 /\ sizeLeft = 0
<1>1. /\ runners \in Seq(Runner) /\ log \in Seq(Message) /\ Len(log) \in Nat
      /\ Len(pending) \in Nat /\ job.messages \in Seq(Message) /\ job.offset \in Nat
      /\ Len(job.messages) \in Nat
  BY QueuedTypes
<1>2. job.messages # <<>> /\ Len(job.messages) > 0
  BY <1>1 DEF writeFragment
<1>3. /\ b \in Nat /\ Segment(job.messages, b, log)
      /\ Lined(base, runners, log) /\ base[1] = b + Len(job.messages)
  BY DEF QueuedOk
<1>4. base[Len(base)] \in Nat /\ b + Len(job.messages) <= base[Len(base)]
  BY <1>1, <1>3, LinedEnds
<1>5. b <= Len(log) /\ (b = Len(log) => closed)
  <2>1. CASE closed
    BY <1>1, <1>2, <1>3, <1>4, <2>1 DEF QueuedOk
  <2>2. CASE ~closed
    <3>1. base[Len(base)] + Len(pending) = Len(log)
      BY <2>2 DEF QueuedOk
    <3> QED
      BY <1>1, <1>2, <1>3, <1>4, <3>1
  <2> QED
    BY <2>1, <2>2
<1>6. h # <<>> => h[Len(h)] # EndFragment
  <2>1. b # Len(log) + 1
    BY <1>1, <1>3, <1>5
  <2>2. EndFragment.after = FALSE
    BY DEF EndFragment
  <2> QED
    BY <2>1, <2>2 DEF Cursor
<1>7. Head(job.messages) = IF b + 1 <= Len(log) THEN log[b + 1] ELSE EndMessage
  BY <1>1, <1>2, <1>3, SegmentTail
<1>8. roomLeft \in Nat /\ roomLeft > 0
  <2>1. buf.used \in Nat
    BY DEF TypeInv, WriterTypeOK, Packet
  <2> QED
    BY <2>1, WriterAssumption DEF roomLeft, opensPacket
<1>9. CASE b < Len(log)
  <2>1. b + 1 \in 1..Len(log)
    BY <1>1, <1>3, <1>9
  <2>2. /\ Head(job.messages) = log[b + 1] /\ log[b + 1].id = b + 1 /\ log[b + 1].size > 0
        /\ log[b + 1].size \in Nat
    <3>1. log[b + 1] \in Message /\ b + 1 <= Len(log)
      BY <1>1, <2>1
    <3>2. log[b + 1].size \in Nat
      BY <3>1 DEF Message
    <3> QED
      BY <1>7, <2>1, <3>1, <3>2 DEF LogOk
  <2>3. sizeLeft \in Nat /\ sizeLeft > 0 /\ sizeLeft = log[b + 1].size - job.offset
    BY <1>1, <2>2 DEF sizeLeft, JobOk
  <2>4. contentSize > 0 /\ contentSize # 0
    BY <1>8, <2>3 DEF contentSize
  <2>5. /\ nextFragment.msg = b + 1 /\ nextFragment.from = job.offset
        /\ nextFragment.size = contentSize /\ nextFragment.before = job.after
        /\ nextFragment.after = (sizeLeft > contentSize)
        /\ nextFragment.abandon = FALSE /\ nextFragment.end = FALSE
    BY <2>2, <2>4 DEF nextFragment
  <2>6. nextFragment # EndFragment
    BY <2>5 DEF EndFragment
  <2> QED
    BY <1>3, <1>5, <1>6, <1>9, <2>2, <2>3, <2>4, <2>5, <2>6
<1>10. CASE b = Len(log)
  <2>1. Head(job.messages) = EndMessage
    BY <1>1, <1>7, <1>10
  <2>2. EndMessage.size = 0
    BY DEF EndMessage
  <2>3. job.offset = 0
    BY <1>1, <2>1, <2>2 DEF JobOk
  <2>4. sizeLeft = 0
    BY <2>1, <2>2, <2>3 DEF sizeLeft
  <2>5. contentSize = 0
    BY <1>8, <2>4 DEF contentSize
  <2>6. nextFragment = EndFragment
    BY <2>5 DEF nextFragment
  <2>7. ~(b < Len(log))
    BY <1>1, <1>10
  <2> QED
    BY <1>3, <1>5, <1>6, <1>10, <2>1, <2>3, <2>4, <2>5, <2>6, <2>7
<1>11. b < Len(log) \/ b = Len(log)
  BY <1>1, <1>3, <1>5
<1>12. b < Len(log) => b # Len(log)
  BY <1>1, <1>3
<1> QED
  BY <1>3, <1>5, <1>6, <1>9, <1>10, <1>11, <1>12

LEMMA QueuedWrite ==
    ASSUME NEW h, h \in Seq(Fragment), TypeInv, QueuedInv(h), writeFragment,
           NEW g, g = Append(h, nextFragment)
    PROVE  QueuedInv(g)'
<1>1. PICK b, base : QueuedOk(b, base) /\ Cursor(h, b)
  BY DEF QueuedInv
<1>2. LogOk(log) /\ JobOk /\ OthersEmpty
  BY DEF QueuedInv
<1>3. /\ b \in Nat /\ b <= Len(log)
      /\ b < Len(log) =>
           /\ contentSize > 0 /\ nextFragment # EndFragment
           /\ nextFragment.msg = b + 1 /\ nextFragment.from = job.offset
           /\ nextFragment.size = contentSize
           /\ nextFragment.after = (sizeLeft > contentSize)
      /\ b = Len(log) => /\ closed /\ nextFragment = EndFragment
                         /\ contentSize = 0 /\ sizeLeft = 0
  BY <1>1, <1>2, WriteFacts
<1>4. /\ log \in Seq(Message) /\ Len(log) \in Nat
      /\ job.messages \in Seq(Message) /\ job.messages # <<>> /\ Len(job.messages) \in Nat
      /\ job.offset \in Nat
  BY QueuedTypes DEF writeFragment
<1>5. /\ contentSize \in Nat /\ sizeLeft \in Nat /\ contentSize <= sizeLeft
      /\ nextFragment \in Fragment
  BY <1>4, NextFragmentTypes
<1>6. UNCHANGED <<log, pending, runners, wState, pc>> /\ closed' = closed /\ pc = "write"
  BY DEF writeFragment, mainVars, closed
<1>7. g # <<>> /\ g[Len(g)] = nextFragment
  BY <1>5
<1>8. LogOk(log)' /\ OthersEmpty'
  BY <1>2, <1>6 DEF OthersEmpty
<1>9. CASE contentSize < sizeLeft
  <2>1. /\ job'.messages = job.messages /\ job'.offset = job.offset + contentSize
        /\ job'.after = TRUE
    <3>1. job' = [job EXCEPT !.offset = job.offset + contentSize, !.after = TRUE]
      BY <1>9 DEF writeFragment
    <3>2. job \in Job
      BY DEF TypeInv, WriterTypeOK
    <3> QED
      BY <3>1, <3>2 DEF Job
  <2>2. b < Len(log)
    BY <1>3, <1>4, <1>9
  <2>3. nextFragment.after
    BY <1>3, <1>5, <1>9, <2>2
  <2>4. Cursor(g, b)'
    BY <1>3, <1>7, <2>1, <2>2, <2>3 DEF Cursor
  <2>5. QueuedOk(b, base)'
    BY <1>1, <1>6, <2>1 DEF QueuedOk
  <2>6. JobOk'
    <3>1. job.offset + contentSize > 0
      BY <1>3, <1>4, <1>5, <2>2
    <3>2. job.offset + contentSize < Head(job.messages).size
      <4>1. Head(job.messages) \in Message /\ Head(job.messages).size \in Nat
        BY <1>4, NextFragmentTypes DEF Message
      <4> QED
        BY <4>1, <1>4, <1>5, <1>9 DEF sizeLeft
    <3> QED
      BY <1>4, <1>6, <2>1, <3>1, <3>2 DEF JobOk
  <2> QED
    BY <1>8, <2>4, <2>5, <2>6 DEF QueuedInv
<1>10. CASE ~(contentSize < sizeLeft)
  <2>1. /\ job'.messages = Tail(job.messages) /\ job'.offset = 0 /\ job'.after = FALSE
    <3>1. job' = [job EXCEPT !.messages = Tail(job.messages), !.offset = 0, !.after = FALSE]
      BY <1>10 DEF writeFragment
    <3>2. job \in Job
      BY DEF TypeInv, WriterTypeOK
    <3> QED
      BY <3>1, <3>2 DEF Job
  <2>2. /\ Segment(Tail(job.messages), b + 1, log)
        /\ Len(Tail(job.messages)) = Len(job.messages) - 1
    BY <1>1, <1>3, <1>4, SegmentTail DEF QueuedOk
  <2>3. (b + 1) + Len(job'.messages) = base[1] /\ b + 1 \in Nat
    <3>1. base[1] = b + Len(job.messages)
      BY <1>1 DEF QueuedOk
    <3>2. Len(job'.messages) = Len(job.messages) - 1
      BY <2>1, <2>2
    <3>3. ASSUME NEW k, NEW l, NEW n, k \in Nat, l = k - 1, n = b + k, b \in Nat
          PROVE  (b + 1) + l = n /\ b + 1 \in Nat
      BY <3>3
    <3>4. b \in Nat
      BY <1>3
    <3> QED
      BY <1>4, <3>1, <3>2, <3>3, <3>4
  <2>4. QueuedOk(b + 1, base)'
    BY <1>1, <1>6, <2>1, <2>2, <2>3 DEF QueuedOk
  <2>5. Cursor(g, b + 1)'
    <3>1. CASE b < Len(log)
      <4>1. ~nextFragment.after
        BY <1>3, <1>5, <1>10, <3>1
      <4> QED
        BY <1>3, <1>7, <2>1, <3>1, <4>1 DEF Cursor
    <3>2. CASE b = Len(log)
      BY <1>3, <1>6, <1>7, <2>1, <3>2 DEF Cursor
    <3> QED
      BY <1>3, <1>4, <3>1, <3>2
  <2>6. JobOk'
    BY <1>6, <2>1 DEF JobOk
  <2> QED
    BY <1>8, <2>4, <2>5, <2>6 DEF QueuedInv
<1> QED
  BY <1>9, <1>10

-----------------------------------------------------------------------------
(* What was said of a script and a log stays true of longer ones.          *)

Longer(s, t) == Len(s) <= Len(t) /\ \A i \in 1..Len(s) : t[i] = s[i]

LEMMA LongerAppend ==
    ASSUME NEW S, NEW s, s \in Seq(S), NEW e, e \in S
    PROVE  Longer(s, s) /\ Longer(s, Append(s, e))
BY DEF Longer

LEMMA PieceGrows ==
    ASSUME NEW lg, lg \in Seq(Message), NEW l2, l2 \in Seq(Message), Longer(lg, l2),
           NEW g, Piece(g, lg)
    PROVE  Piece(g, l2) /\ l2[g.msg] = lg[g.msg]
<1>1. Len(lg) \in Nat /\ Len(l2) \in Nat /\ Len(lg) <= Len(l2)
  BY DEF Longer
<1>2. g.msg \in 1..Len(lg)
  BY DEF Piece
<1>3. g.msg \in 1..Len(l2) /\ l2[g.msg] = lg[g.msg]
  BY <1>1, <1>2 DEF Longer
<1> QED
  BY <1>3 DEF Piece

LEMMA WellCutGrows ==
    ASSUME NEW h, NEW lg, lg \in Seq(Message), NEW l2, l2 \in Seq(Message), Longer(lg, l2),
           WellCut(h, lg)
    PROVE  WellCut(h, l2)
<1>1. \A t \in 1..Len(h) : h[t] # EndFragment => Piece(h[t], l2)
  BY PieceGrows DEF WellCut
<1> QED
  BY <1>1 DEF WellCut

\* The next fragment of the script.
Continues(h, g, lg) ==
    /\ h # <<>> => h[Len(h)] # EndFragment
    /\ g # EndFragment => /\ Piece(g, lg)
                          /\ h = <<>> => g.msg = 1 /\ g.from = 0
                          /\ h # <<>> => Succeeds(h[Len(h)], g)

LEMMA WellCutAppend ==
    ASSUME NEW h, NEW lg, WellCut(h, lg), NEW g, g \in Fragment, Continues(h, g, lg)
    PROVE  WellCut(Append(h, g), lg)
<1>1. PICK r : r = Append(h, g)
  OBVIOUS
<1>2. /\ h \in Seq(Fragment) /\ r \in Seq(Fragment) /\ Len(h) \in Nat /\ Len(r) = Len(h) + 1
      /\ r[Len(h) + 1] = g /\ \A i \in 1..Len(h) : r[i] = h[i]
  BY <1>1 DEF WellCut
<1>3. ASSUME NEW t \in 1..Len(r), r[t] # EndFragment PROVE Piece(r[t], lg)
  <2>1. CASE t \in 1..Len(h)
    BY <2>1, <1>2, <1>3 DEF WellCut
  <2>2. CASE t = Len(h) + 1
    BY <2>2, <1>2, <1>3 DEF Continues
  <2> QED
    BY <1>2, <2>1, <2>2
<1>4. ASSUME r[1] # EndFragment PROVE r[1].msg = 1 /\ r[1].from = 0
  <2>1. CASE h = <<>>
    <3>1. r[1] = g
      BY <1>2, <2>1
    <3> QED
      BY <2>1, <3>1, <1>4 DEF Continues
  <2>2. CASE h # <<>>
    <3>1. 1 \in 1..Len(h)
      BY <1>2, <2>2
    <3> QED
      BY <3>1, <2>2, <1>2, <1>4 DEF WellCut
  <2> QED
    BY <2>1, <2>2
<1>5. ASSUME NEW t \in 1..(Len(r) - 1)
      PROVE  r[t] # EndFragment /\ (r[t + 1] # EndFragment => Succeeds(r[t], r[t + 1]))
  <2>1. t \in 1..Len(h) /\ r[t] = h[t] /\ h # <<>>
    BY <1>2
  <2>2. CASE t = Len(h)
    <3>1. r[t + 1] = g
      BY <1>2, <2>2
    <3> QED
      BY <2>1, <2>2, <3>1 DEF Continues
  <2>3. CASE t # Len(h)
    <3>1. t \in 1..(Len(h) - 1) /\ t + 1 \in 1..Len(h)
      BY <1>2, <2>1, <2>3
    <3>2. r[t + 1] = h[t + 1]
      BY <1>2, <3>1
    <3> QED
      BY <2>1, <3>1, <3>2 DEF WellCut
  <2> QED
    BY <2>2, <2>3
<1> QED
  BY <1>1, <1>2, <1>3, <1>4, <1>5 DEF WellCut

LEMMA UnreliableGrows ==
    ASSUME NEW h, NEW lg, lg \in Seq(Message), WellCut(h, lg),
           NEW g, Longer(h, g), NEW l2, l2 \in Seq(Message), Longer(lg, l2),
           NEW t, t \in 1..Len(h), Unreliable(h, lg, t)
    PROVE  Unreliable(g, l2, t)
<1>1. g[t] = h[t] /\ h[t] # EndFragment
  BY DEF Longer, Unreliable
<1>2. l2[h[t].msg] = lg[h[t].msg]
  BY <1>1, PieceGrows DEF WellCut
<1> QED
  BY <1>1, <1>2 DEF Unreliable

LEMMA DeliveriesGrow ==
    ASSUME NEW lg, lg \in Seq(Message), NEW l2, l2 \in Seq(Message), Longer(lg, l2),
           NEW ds, Deliveries(ds, lg)
    PROVE  Deliveries(ds, l2)
<1>1. Len(lg) \in Nat /\ Len(l2) \in Nat /\ Len(lg) <= Len(l2)
  BY DEF Longer
<1>2. ASSUME NEW i \in 1..Len(ds) PROVE Complete(ds[i], l2)
  <2>1. Complete(ds[i], lg)
    BY DEF Deliveries
  <2>2. ds[i][1].msg \in 1..Len(lg)
    BY <2>1 DEF Complete
  <2>3. ds[i][1].msg \in 1..Len(l2) /\ l2[ds[i][1].msg] = lg[ds[i][1].msg]
    BY <1>1, <2>2 DEF Longer
  <2> QED
    BY <2>1, <2>3 DEF Complete
<1>3. ASSUME NEW i \in 1..Len(ds), NEW m \in 1..ds[i][1].msg, l2[m].reliable
      PROVE  Delivered(ds, m)
  <2>1. ds[i][1].msg \in 1..Len(lg)
    BY DEF Deliveries, Complete
  <2>2. m \in 1..Len(lg)
    BY <1>1, <2>1
  <2> QED
    BY <1>3, <2>2 DEF Longer, Deliveries
<1> QED
  BY <1>2, <1>3 DEF Deliveries

LEMMA FlowOkGrows ==
    ASSUME NEW h, NEW lg, lg \in Seq(Message), WellCut(h, lg),
           NEW g, g \in Seq(Fragment), Longer(h, g),
           NEW l2, l2 \in Seq(Message), Longer(lg, l2),
           NEW n, n \in Nat, n <= Len(h), NEW n2, n2 \in Nat, n <= n2,
           NEW f, FlowOk(f, h, lg, n)
    PROVE  FlowOk(f, g, l2, n2)
<1>1. Deliveries(f.delivered, l2) /\ IsFlow(f)
  BY DeliveriesGrow DEF FlowOk
<1>2. ASSUME f.stageEnd = 0
      PROVE  Explained(f, g, l2) /\ f.stage <= n2 /\ Held(f, g, n2)
  <2>1. /\ Explained(f, h, lg) /\ f.stage <= n /\ Held(f, h, n) /\ f.stage \in Nat
        /\ h \in Seq(Fragment)
    BY <1>2 DEF FlowOk, IsFlow, WellCut
  <2>2. Len(h) \in Nat /\ Len(g) \in Nat /\ Len(h) <= Len(g) /\ f.stage <= Len(h)
    BY <2>1 DEF Longer
  <2>3. \A t \in 1..Len(h) : g[t] = h[t]
    BY DEF Longer
  <2>4. f.stage <= Len(g) /\ \A t \in 1..f.stage : g[t] # EndFragment
    <3>1. f.stage <= Len(g) /\ \A t \in 1..f.stage : t \in 1..Len(h)
      BY <2>1, <2>2
    <3>2. \A t \in 1..f.stage : h[t] # EndFragment
      BY <2>1 DEF Explained
    <3> QED
      BY <2>3, <3>1, <3>2
  <2>5. Held(f, g, n2)
    <3>1. ASSUME NEW s \in DOMAIN f.fragments
          PROVE  /\ s \in Nat /\ s > f.stage /\ s <= n2
                 /\ f.fragments[s] = g[s] /\ g[s] # EndFragment
      <4>1. s \in Nat /\ s > f.stage /\ s <= n /\ f.fragments[s] = h[s] /\ h[s] # EndFragment
        BY <2>1 DEF Held
      <4>2. s \in 1..Len(h) /\ s <= n2
        BY <2>1, <2>2, <4>1
      <4> QED
        BY <2>3, <4>1, <4>2
    <3> QED
      BY <3>1 DEF Held
  <2>6. f.stage > 0 => /\ g[f.stage] = h[f.stage] /\ h[f.stage].msg \in 1..Len(lg)
                       /\ l2[h[f.stage].msg] = lg[h[f.stage].msg]
    <3> SUFFICES ASSUME f.stage > 0
                 PROVE  /\ g[f.stage] = h[f.stage] /\ h[f.stage].msg \in 1..Len(lg)
                        /\ l2[h[f.stage].msg] = lg[h[f.stage].msg]
      OBVIOUS
    <3>1. f.stage \in 1..Len(h) /\ f.stage \in 1..f.stage
      BY <2>1, <2>2
    <3>2. Piece(h[f.stage], lg)
      BY <2>1, <3>1 DEF WellCut, Explained
    <3> QED
      BY <2>3, <3>1, <3>2, PieceGrows, SMTT(20) DEF Piece
  <2>7. BufferFits(f, g, l2)
    BY <2>1, <2>6 DEF BufferFits, Explained
  <2>8. \A m : Passed(g, m, f.stage) <=> Passed(h, m, f.stage)
    BY <2>6 DEF Passed
  <2>9. DeliveredFits(f, g, l2)
    <3>1. \A i \in 1..Len(f.delivered) : Passed(g, f.delivered[i][1].msg, f.stage)
      BY <2>1, <2>8 DEF Explained, DeliveredFits
    <3>2. ASSUME NEW m \in 1..Len(l2), l2[m].reliable, Passed(g, m, f.stage)
          PROVE  Delivered(f.delivered, m)
      <4>1. Passed(h, m, f.stage)
        BY <2>8, <3>2
      <4>2. m \in 1..Len(lg)
        <5>1. f.stage > 0 /\ m <= h[f.stage].msg
          <6>1. f.stage > 0 /\ (m < h[f.stage].msg \/ m = h[f.stage].msg)
            BY <4>1 DEF Passed
          <6> QED
            BY <6>1, <2>6
        <5> QED
          BY <5>1, <2>6
      <4>3. lg[m].reliable
        BY <3>2, <4>2 DEF Longer
      <4> QED
        BY <2>1, <4>1, <4>2, <4>3 DEF Explained, DeliveredFits
    <3> QED
      BY <3>1, <3>2 DEF DeliveredFits
  <2> QED
    BY <2>1, <2>2, <2>4, <2>5, <2>7, <2>9, <1>1 DEF Explained
<1> QED
  BY <1>1, <1>2 DEF FlowOk

-----------------------------------------------------------------------------
(* The fragments of the script are those of the messages of the log, and a *)
(* packet that is not reliable holds nothing else than unreliable ones.    *)

SparesReliable(h, lg, p) ==
    ~p.reliable => \A t \in p.first..LastStage(p) : t \in 1..Len(h) /\ Unreliable(h, lg, t)

WrittenInv(h) ==
    /\ WellCut(h, log)
    /\ \A i \in 1..Len(unsent) : SparesReliable(h, log, unsent[i])
    /\ \A i \in 1..Len(sending) : SparesReliable(h, log, sending[i])

LEMMA WrittenInit == WriterInit => WrittenInv(<<>>)
BY DEF WriterInit, WrittenInv, WellCut, unsent

LEMMA WrittenUntouched ==
    ASSUME NEW h, WrittenInv(h), UNCHANGED <<log, queue, buf, sending>>
    PROVE  WrittenInv(h)'
<1>1. unsent' = unsent
  BY DEF unsent
<1> QED
  BY <1>1 DEF WrittenInv, SparesReliable

LEMMA SparesGrows ==
    ASSUME NEW h, NEW lg, lg \in Seq(Message), WellCut(h, lg),
           NEW l2, l2 \in Seq(Message), Longer(lg, l2),
           NEW g, g \in Seq(Fragment), Longer(h, g), NEW p, SparesReliable(h, lg, p)
    PROVE  SparesReliable(g, l2, p)
<1> SUFFICES ASSUME ~p.reliable, NEW t \in p.first..LastStage(p)
             PROVE  t \in 1..Len(g) /\ Unreliable(g, l2, t)
  BY DEF SparesReliable
<1>1. t \in 1..Len(h) /\ Unreliable(h, lg, t)
  BY DEF SparesReliable
<1>2. Len(h) \in Nat /\ Len(g) \in Nat /\ Len(h) <= Len(g)
  BY DEF WellCut, Longer
<1>3. t \in 1..Len(g)
  BY <1>1, <1>2
<1> QED
  BY <1>1, <1>3, UnreliableGrows

LEMMA WrittenNewMessage ==
    ASSUME NEW h, TypeInv, TypeInv', WrittenInv(h),
           NEW size, NEW reliable, newMessage(size, reliable)
    PROVE  WrittenInv(h)'
<1>1. UNCHANGED <<queue, buf, sending>> /\ unsent' = unsent
  BY DEF newMessage, threadVars, unsent
<1>2. log \in Seq(Message) /\ log' \in Seq(Message) /\ Longer(log, log')
  <2>1. log \in Seq(Message) /\ log' \in Seq(Message)
    BY DEF TypeInv, WriterTypeOK
  <2>2. PICK m : log' = Append(log, m)
    BY DEF newMessage
  <2>3. Longer(log, log')
    BY <2>1, <2>2 DEF Longer
  <2> QED
    BY <2>1, <2>3
<1>3. h \in Seq(Fragment) /\ WellCut(h, log) /\ Longer(h, h)
  <2>1. h \in Seq(Fragment) /\ WellCut(h, log)
    BY DEF WrittenInv, WellCut
  <2> QED
    BY <2>1 DEF Longer
<1>4. WellCut(h, log)'
  BY <1>2, <1>3, WellCutGrows
<1>5. \A p : SparesReliable(h, log, p) => SparesReliable(h, log', p)
  BY <1>2, <1>3, SparesGrows
<1> QED
  BY <1>1, <1>4, <1>5 DEF WrittenInv

\* Every fragment continues the script.
LEMMA WriteContinues ==
    ASSUME NEW h, h \in Seq(Fragment), TypeInv, QueuedInv(h), writeFragment
    PROVE  /\ Continues(h, nextFragment, log) /\ nextFragment \in Fragment
           /\ ~Head(job.messages).reliable =>
                 nextFragment # EndFragment /\ ~log[nextFragment.msg].reliable
<1>1. PICK b, base : QueuedOk(b, base) /\ Cursor(h, b)
  BY DEF QueuedInv
<1>2. LogOk(log) /\ JobOk
  BY DEF QueuedInv
<1>3. /\ b \in Nat /\ b <= Len(log)
      /\ h # <<>> => h[Len(h)] # EndFragment
      /\ b < Len(log) =>
           /\ Head(job.messages) = log[b + 1]
           /\ contentSize > 0 /\ sizeLeft = log[b + 1].size - job.offset
           /\ nextFragment # EndFragment
           /\ nextFragment.msg = b + 1 /\ nextFragment.from = job.offset
           /\ nextFragment.size = contentSize
           /\ nextFragment.before = job.after
           /\ nextFragment.after = (sizeLeft > contentSize)
           /\ nextFragment.abandon = FALSE /\ nextFragment.end = FALSE
      /\ b = Len(log) => Head(job.messages) = EndMessage /\ nextFragment = EndFragment
  BY <1>1, <1>2, WriteFacts
<1>4. log \in Seq(Message) /\ Len(log) \in Nat /\ job.offset \in Nat
  BY QueuedTypes
<1>5. /\ contentSize \in Nat /\ sizeLeft \in Nat /\ contentSize <= sizeLeft
      /\ nextFragment \in Fragment
  BY NextFragmentTypes DEF writeFragment
<1>6. CASE b = Len(log)
  <2>1. Head(job.messages).reliable = TRUE
    BY <1>3, <1>6 DEF EndMessage
  <2> QED
    BY <1>3, <1>5, <1>6, <2>1 DEF Continues
<1>7. CASE b < Len(log)
  <2>1. b + 1 \in 1..Len(log)
    BY <1>3, <1>4, <1>7
  <2>2. log[b + 1].size \in Nat
    <3>1. log[b + 1] \in Message
      BY <1>4, <2>1
    <3> QED
      BY <3>1 DEF Message
  <2>3. job.offset + contentSize <= log[b + 1].size
    BY <1>3, <1>4, <1>5, <1>7, <2>2
  <2>4. (sizeLeft > contentSize) <=> job.offset + contentSize < log[b + 1].size
    BY <1>3, <1>4, <1>5, <1>7, <2>2
  <2>5. Piece(nextFragment, log)
    BY <1>2, <1>3, <1>7, <2>1, <2>3, <2>4 DEF Piece, JobOk
  <2>6. h = <<>> => nextFragment.msg = 1 /\ nextFragment.from = 0
    BY <1>1, <1>3, <1>7 DEF Cursor
  <2>7. h # <<>> => Succeeds(h[Len(h)], nextFragment)
    <3> SUFFICES ASSUME h # <<>> PROVE Succeeds(h[Len(h)], nextFragment)
      OBVIOUS
    <3>1. \/ ~h[Len(h)].after /\ h[Len(h)].msg = b /\ job.offset = 0
          \/ h[Len(h)].after /\ h[Len(h)].msg = b + 1 /\ h[Len(h)].from + h[Len(h)].size = job.offset
      BY <1>1, <1>3 DEF Cursor
    <3> QED
      BY <1>3, <1>7, <3>1 DEF Succeeds
  <2>8. Head(job.messages) = log[nextFragment.msg] /\ nextFragment # EndFragment
    BY <1>3, <1>7
  <2> QED
    BY <1>3, <1>5, <2>5, <2>6, <2>7, <2>8 DEF Continues
<1> QED
  BY <1>3, <1>4, <1>6, <1>7

LEMMA WrittenWrite ==
    ASSUME NEW h, TypeInv, StageInv, ScriptInv(h), QueuedInv(h), WrittenInv(h), writeFragment,
           NEW g, g = Append(h, nextFragment)
    PROVE  WrittenInv(g)'
<1>1. h \in Seq(Fragment) /\ Len(h) = stage /\ stage \in Nat
  BY DEF ScriptInv, TypeInv, WriterTypeOK
<1>2. /\ Continues(h, nextFragment, log) /\ nextFragment \in Fragment
      /\ ~Head(job.messages).reliable =>
            nextFragment # EndFragment /\ ~log[nextFragment.msg].reliable
  BY <1>1, WriteContinues
<1>3. UNCHANGED <<log, sending>> /\ log \in Seq(Message)
  BY DEF writeFragment, mainVars, TypeInv, WriterTypeOK
<1>4. /\ g \in Seq(Fragment) /\ Longer(h, g) /\ Longer(log, log') /\ Len(g) = stage + 1
      /\ g[stage + 1] = nextFragment
  <2>1. Longer(log, log')
    BY <1>3 DEF Longer
  <2> QED
    BY <1>1, <1>2, <2>1, LongerAppend
<1>5. WellCut(h, log) /\ WellCut(g, log)'
  BY <1>2, <1>3, WellCutAppend DEF WrittenInv
<1>6. \A p : SparesReliable(h, log, p) => SparesReliable(g, log', p)
  BY <1>3, <1>4, <1>5, SparesGrows
<1>7. ~Head(job.messages).reliable => Unreliable(g, log', stage + 1)
  BY <1>2, <1>3, <1>4 DEF Unreliable
<1>8. /\ buf \in Packet /\ buf' \in Packet /\ buf' # NoBuffer /\ queue \in Seq(Packet)
      /\ \/ /\ opensPacket /\ queue' = IF buf = NoBuffer THEN queue ELSE Append(queue, buf)
            /\ buf'.first = stage + 1 /\ buf'.fragments = 1
            /\ buf'.reliable = Head(job.messages).reliable
         \/ /\ ~opensPacket /\ buf # NoBuffer /\ queue' = queue
            /\ buf'.first = buf.first /\ buf'.fragments = buf.fragments + 1
            /\ buf'.reliable = buf.reliable
  BY WriteFragmentCases DEF TypeInv, WriterTypeOK
<1>9. unsent' = Append(queue', buf') /\ unsent \in Seq(Packet)
  BY <1>8 DEF unsent
<1>10. \A i \in 1..Len(unsent') : SparesReliable(g, log', unsent'[i])
  <2>a. \A i \in 1..Len(unsent) : SparesReliable(h, log, unsent[i])
    BY DEF WrittenInv
  <2>1. CASE /\ opensPacket /\ queue' = unsent /\ buf'.first = stage + 1 /\ buf'.fragments = 1
             /\ buf'.reliable = Head(job.messages).reliable
    <3>1. LastStage(buf') = stage + 1 /\ stage + 1 \in 1..Len(g)
      BY <1>1, <1>4, <2>1 DEF LastStage
    <3>2. SparesReliable(g, log', buf')
      <4> SUFFICES ASSUME ~buf'.reliable, NEW t \in buf'.first..LastStage(buf')
                   PROVE  t \in 1..Len(g) /\ Unreliable(g, log', t)
        BY DEF SparesReliable
      <4>1. t = stage + 1
        BY <1>1, <2>1, <3>1
      <4> QED
        BY <4>1, <3>1, <2>1, <1>7
    <3>3. /\ Len(unsent') = Len(unsent) + 1 /\ Len(unsent) \in Nat
          /\ unsent'[Len(unsent) + 1] = buf' /\ \A i \in 1..Len(unsent) : unsent'[i] = unsent[i]
      BY <1>8, <1>9, <2>1
    <3>4. ASSUME NEW i \in 1..Len(unsent') PROVE SparesReliable(g, log', unsent'[i])
      <4>1. CASE i \in 1..Len(unsent)
        BY <4>1, <2>a, <1>6, <3>3
      <4>2. CASE i = Len(unsent) + 1
        BY <4>2, <3>2, <3>3
      <4> QED
        BY <3>3, <4>1, <4>2
    <3> QED
      BY <3>4
  <2>2. CASE /\ ~opensPacket /\ buf # NoBuffer /\ queue' = queue
             /\ buf'.first = buf.first /\ buf'.fragments = buf.fragments + 1
             /\ buf'.reliable = buf.reliable
    <3>1. /\ unsent = Append(queue, buf) /\ Len(unsent) = Len(queue) + 1 /\ Len(queue) \in Nat
          /\ unsent[Len(queue) + 1] = buf /\ \A i \in 1..Len(queue) : unsent[i] = queue[i]
          /\ unsent # <<>>
      BY <1>8, <2>2 DEF unsent
    <3>2. /\ Len(unsent') = Len(queue) + 1
          /\ unsent'[Len(queue) + 1] = buf' /\ \A i \in 1..Len(queue) : unsent'[i] = queue[i]
      BY <1>8, <1>9, <2>2
    <3>3. LastStage(buf) = stage /\ LastStage(buf') = stage + 1
      <4>1. LastStage(buf) = stage
        BY <3>1 DEF StageInv, EveryStageHeldOnce, Covers
      <4>2. buf.first \in Nat /\ buf.fragments \in Nat
        BY <1>8 DEF Packet
      <4> QED
        BY <4>1, <4>2, <2>2 DEF LastStage
    <3>4. SparesReliable(g, log', buf')
      <4> SUFFICES ASSUME ~buf'.reliable, NEW t \in buf'.first..LastStage(buf')
                   PROVE  t \in 1..Len(g) /\ Unreliable(g, log', t)
        BY DEF SparesReliable
      <4>1. CASE t = stage + 1
        <5>1. ~Head(job.messages).reliable
          BY <2>2 DEF opensPacket
        <5> QED
          BY <4>1, <5>1, <1>1, <1>4, <1>7
      <4>2. CASE t # stage + 1
        <5>1. buf.first \in Nat
          BY <1>8 DEF Packet
        <5>2. t \in buf.first..LastStage(buf)
          BY <5>1, <4>2, <3>3, <2>2, <1>1
        <5>3. SparesReliable(h, log, buf)
          BY <2>a, <3>1
        <5>4. t \in 1..Len(h) /\ Unreliable(h, log, t)
          BY <5>2, <5>3, <2>2 DEF SparesReliable
        <5>5. Unreliable(g, log', t)
          BY <5>4, <1>3, <1>4, <1>5, UnreliableGrows
        <5> QED
          BY <5>4, <5>5, <1>1, <1>4
      <4> QED
        BY <4>1, <4>2
    <3>5. ASSUME NEW i \in 1..Len(unsent') PROVE SparesReliable(g, log', unsent'[i])
      <4>1. CASE i \in 1..Len(queue)
        <5>1. i \in 1..Len(unsent) /\ unsent'[i] = unsent[i]
          BY <4>1, <3>1, <3>2
        <5> QED
          BY <5>1, <2>a, <1>6
      <4>2. CASE i = Len(queue) + 1
        BY <4>2, <3>4, <3>2
      <4> QED
        BY <3>1, <3>2, <4>1, <4>2
    <3> QED
      BY <3>5
  <2>3. (IF buf = NoBuffer THEN queue ELSE Append(queue, buf)) = unsent
    BY DEF unsent
  <2> QED
    BY <1>8, <2>1, <2>2, <2>3
<1>11. \A i \in 1..Len(sending') : SparesReliable(g, log', sending'[i])
  BY <1>3, <1>6 DEF WrittenInv
<1> QED
  BY <1>3, <1>5, <1>10, <1>11 DEF WrittenInv

LEMMA WrittenSent ==
    ASSUME NEW h, TypeInv, BufferOnlyWhileWriting, WrittenInv(h), sendPacket
    PROVE  WrittenInv(h)'
<1>1. /\ queue \in Seq(Packet) /\ sending \in Seq(Packet) /\ queue # <<>> /\ buf = NoBuffer
      /\ buf' = buf /\ log' = log /\ queue' = Tail(queue)
      /\ sending' = Append(sending, sent(Head(queue)))
  BY DEF TypeInv, WriterTypeOK, sendPacket, BufferOnlyWhileWriting, mainVars
<1>2. unsent = queue /\ unsent' = Tail(queue)
  BY <1>1 DEF unsent
<1>3. PICK p : p = Head(queue)
  OBVIOUS
<1>4. p \in Packet /\ p = queue[1] /\ 1 \in 1..Len(queue)
  BY <1>1, <1>3
<1>5. SparesReliable(h, log, p)
  BY <1>2, <1>4 DEF WrittenInv
<1>6. SparesReliable(h, log, sent(p))
  <2>1. /\ sent(p).first = p.first /\ LastStage(sent(p)) = LastStage(p)
        /\ sent(p).reliable = p.reliable
    BY <1>4 DEF Packet, sent, LastStage
  <2> QED
    BY <2>1, <1>5 DEF SparesReliable
<1>7. \A i \in 1..Len(sending') : SparesReliable(h, log', sending'[i])
  <2>1. \A q : \A i \in 1..Len(Append(sending, q)) :
           Append(sending, q)[i] = IF i = Len(sending) + 1 THEN q ELSE sending[i]
    BY <1>1
  <2>2. \A q : \A i \in 1..Len(Append(sending, q)) : i \in 1..Len(sending) \/ i = Len(sending) + 1
    BY <1>1
  <2> QED
    BY <1>1, <1>3, <1>6, <2>1, <2>2 DEF WrittenInv
<1>8. \A i \in 1..Len(unsent') : SparesReliable(h, log', unsent'[i])
  <2>1. /\ Len(Tail(queue)) = Len(queue) - 1 /\ Len(queue) \in Nat
        /\ \A i \in 1..(Len(queue) - 1) : Tail(queue)[i] = queue[i + 1] /\ i + 1 \in 1..Len(queue)
    BY <1>1
  <2> QED
    BY <1>1, <1>2, <2>1 DEF WrittenInv
<1> QED
  BY <1>1, <1>7, <1>8 DEF WrittenInv

LEMMA WrittenAcked ==
    ASSUME NEW h, TypeInv, WrittenInv(h), ackPacket
    PROVE  WrittenInv(h)'
<1>1. /\ sending \in Seq(Packet) /\ sending # <<>> /\ sending' = Tail(sending)
      /\ log' = log /\ unsent' = unsent
  BY DEF TypeInv, WriterTypeOK, ackPacket, acknowledged, mainVars, unsent
<1>2. /\ Len(Tail(sending)) = Len(sending) - 1 /\ Len(sending) \in Nat
      /\ \A i \in 1..(Len(sending) - 1) : Tail(sending)[i] = sending[i + 1] /\ i + 1 \in 1..Len(sending)
  BY <1>1
<1> QED
  BY <1>1, <1>2 DEF WrittenInv

LEMMA WrittenStep ==
    ASSUME NEW h, TypeInv, TypeInv', StageInv, ScriptInv(h), QueuedInv(h), WrittenInv(h),
           [WriterNext]_writerVars,
           NEW g, g = nextScript(h)
    PROVE  WrittenInv(g)'
<1>a. stage \in Nat
  BY DEF TypeInv, WriterTypeOK
<1>b. stage' = stage => g = h
  BY DEF nextScript
<1>1. ASSUME NEW size \in Sizes, NEW reliable \in BOOLEAN, newMessage(size, reliable)
      PROVE  WrittenInv(g)'
  BY <1>1, <1>b, WrittenNewMessage DEF newMessage, threadVars, stageVars
<1>2. CASE flush
  BY <1>2, <1>b, WrittenUntouched
  DEF flush, flushMessages, stopRepeat, timedRepeat, threadVars, stageVars, mainVars
<1>3. CASE anyAck
  BY <1>3, <1>b, WrittenUntouched DEF anyAck, acquit, stageVars
<1>4. ASSUME NEW error \in BOOLEAN, close(error), UNCHANGED wire PROVE WrittenInv(g)'
  BY <1>4, <1>b, WrittenUntouched DEF close, stageVars
<1>5. CASE consumed
  BY <1>5, <1>b, WrittenUntouched DEF consumed, threadVars, stageVars
<1>6. CASE startMessenger \/ startAcquiter \/ startRepeater
  BY <1>6, <1>b, WrittenUntouched
  DEF startMessenger, startAcquiter, startRepeater, start, stageVars, mainVars
<1>7. CASE writeFragment
  <2>1. stage' # stage
    BY <1>7, <1>a DEF writeFragment, nextStage
  <2> QED
    BY <1>7, <2>1, WrittenWrite DEF nextScript
<1>8. CASE endMessenger
  <2>1. unsent' = unsent /\ UNCHANGED <<sending, stage, log>>
    BY <1>8 DEF endMessenger, unsent, stageVars, mainVars
  <2> QED
    BY <2>1, <1>b DEF WrittenInv
<1>9. CASE ackPacket
  BY <1>9, <1>b, WrittenAcked DEF ackPacket
<1>10. CASE endAcquiter \/ sendFailure \/ endRun
  BY <1>10, <1>b, WrittenUntouched DEF endAcquiter, sendFailure, endRun, stageVars, mainVars
<1>11. CASE sendPacket
  BY <1>11, <1>b, WrittenSent DEF sendPacket, StageInv
<1>12. CASE UNCHANGED writerVars
  BY <1>12, <1>b, WrittenUntouched DEF writerVars, threadVars, stageVars, mainVars
<1>13. CASE outside
  BY <1>13, <1>b, WrittenUntouched DEF outside, threadVars, stageVars
<1> QED
  BY <1>1, <1>2, <1>3, <1>4, <1>5, <1>6, <1>7, <1>8, <1>9, <1>10, <1>11, <1>12, <1>13
  DEF WriterNext, sendingThread

LEMMA QueuedStep ==
    ASSUME NEW h, TypeInv, ScriptInv(h), QueuedInv(h), [SessionNext]_writerVars,
           NEW g, g = nextScript(h)
    PROVE  QueuedInv(g)'
<1>a. stage \in Nat /\ h \in Seq(Fragment)
  BY DEF TypeInv, WriterTypeOK, ScriptInv
<1>b. stage' = stage => g = h
  BY DEF nextScript
<1>c. pc # "write" => job.messages = <<>> /\ job.offset = 0 /\ job.after = FALSE
  <2>1. job.offset \in Nat /\ job.after \in BOOLEAN
    BY DEF TypeInv, WriterTypeOK, Job
  <2> QED
    BY <2>1 DEF QueuedInv, JobOk
<1>d. /\ NoJob.messages = <<>> /\ NoJob.offset = 0 /\ NoJob.after = FALSE
      /\ \A ms : /\ [NoJob EXCEPT !.messages = ms].messages = ms
                 /\ [NoJob EXCEPT !.messages = ms].offset = 0
                 /\ [NoJob EXCEPT !.messages = ms].after = FALSE
      /\ \A s : /\ [NoJob EXCEPT !.stageAck = s].messages = <<>>
                /\ [NoJob EXCEPT !.stageAck = s].offset = 0
                /\ [NoJob EXCEPT !.stageAck = s].after = FALSE
  BY DEF NoJob
<1>e. runners \in Seq(Runner) /\ (runners # <<>> => Head(runners) = runners[1] /\ 1 \in 1..Len(runners))
  BY QueuedTypes
<1>f. runners # <<>> /\ Head(runners).kind # "Messenger" => Head(runners).messages = <<>>
  BY <1>e DEF QueuedInv, OthersEmpty
<1>1. ASSUME NEW size \in Sizes, NEW reliable \in BOOLEAN, newMessage(size, reliable)
      PROVE  QueuedInv(g)'
  BY <1>1, <1>b, QueuedNewMessage DEF newMessage, threadVars, stageVars
<1>2. CASE flushMessages
  <2>1. pending \in Seq(Message)
    BY QueuedTypes
  <2>2. /\ runners' = Append(runners, Messenger(pending)) /\ pending' = <<>>
        /\ UNCHANGED <<wState, log, job, pc, stage>> /\ closed' = closed
    BY <1>2 DEF flushMessages, closed, stageVars
  <2> QED
    BY <1>b, <2>1, <2>2, QueuedMessenger
<1>3. CASE stopRepeat \/ consumed
  <2>1. UNCHANGED <<log, pending, runners, job, pc, stage>>
    BY <1>3 DEF stopRepeat, consumed, threadVars, stageVars
  <2>2. wState' = wState \/ (wState # "OPENED" /\ wState' # "OPENED")
    BY <1>3 DEF stopRepeat, consumed
  <2> QED
    BY <2>1, <2>2, <1>b, QueuedUntouched
<1>4. CASE timedRepeat
  <2>1. Repeater(0) \in Runner /\ Repeater(0).messages = <<>>
    BY RunnerTypes DEF Repeater
  <2>2. /\ runners' = Append(runners, Repeater(0))
        /\ UNCHANGED <<log, pending, job, pc, wState, stage>>
    BY <1>4 DEF timedRepeat, mainVars, stageVars
  <2> QED
    BY <2>1, <2>2, <1>b, QueuedRunner
<1>5. ASSUME NEW ack \in Nat, NEW lost \in Nat, acquit(ack, lost), UNCHANGED wire
      PROVE  QueuedInv(g)'
  <2>1. UNCHANGED <<log, pending, job, pc, wState, stage>>
    BY <1>5 DEF acquit, stageVars
  <2>2. CASE runners' = runners
    BY <2>1, <2>2, <1>b, QueuedUntouched
  <2>3. ASSUME NEW r \in Runner, r.messages = <<>>, runners' = Append(runners, r)
        PROVE  QueuedInv(g)'
    BY <2>1, <2>3, <1>b, QueuedRunner
  <2>4. Acquiter(ack) \in Runner /\ Acquiter(ack).messages = <<>>
    BY RunnerTypes DEF Acquiter
  <2>5. \A f \in Nat : Repeater(f) \in Runner /\ Repeater(f).messages = <<>>
    BY RunnerTypes DEF Repeater
  <2>6. (IF lost > 255 THEN 255 ELSE lost) \in Nat
    OBVIOUS
  <2> QED
    BY <1>5, <2>2, <2>3, <2>4, <2>5, <2>6 DEF acquit, progress, newLosses, obsolete
<1>6. ASSUME NEW error \in BOOLEAN, close(error), UNCHANGED wire PROVE QueuedInv(g)'
  BY <1>6, <1>b, QueuedClose DEF close, stageVars
<1>7. ASSUME NEW kind, start(kind), job'.messages = Head(runners).messages, job'.offset = 0,
             job'.after = FALSE, pc' # "write" => Head(runners).messages = <<>>
      PROVE  QueuedInv(g)'
  <2>1. /\ pc = "idle" /\ runners # <<>> /\ runners' = Tail(runners)
        /\ UNCHANGED <<log, pending, wState, stage>>
    BY <1>7 DEF start, mainVars, stageVars
  <2> QED
    BY <1>7, <2>1, <1>b, QueuedStart
<1>8. CASE startMessenger
  <2>1. /\ job'.messages = Head(runners).messages /\ job'.offset = 0 /\ job'.after = FALSE
    BY <1>8, <1>d DEF startMessenger
  <2>2. pc' = "write" /\ start("Messenger")
    BY <1>8 DEF startMessenger
  <2> QED
    BY <2>1, <2>2, <1>7
<1>9. CASE startAcquiter
  <2>1. start("Acquiter") /\ pc' = "ack" /\ Head(runners).messages = <<>>
    BY <1>9, <1>f DEF startAcquiter, start
  <2>2. PICK s : job' = [NoJob EXCEPT !.stageAck = s]
    BY <1>9 DEF startAcquiter
  <2>3. job'.messages = <<>> /\ job'.offset = 0 /\ job'.after = FALSE
    BY <2>2, <1>d
  <2> QED
    BY <2>1, <2>3, <1>7
<1>10. CASE startRepeater
  <2>1. /\ start("Repeater") /\ pc' = "flush" /\ Head(runners).messages = <<>> /\ job' = job
        /\ pc = "idle"
    BY <1>10, <1>f DEF startRepeater, start
  <2> QED
    BY <2>1, <1>7, <1>c
<1>11. CASE writeFragment
  <2>1. stage' # stage
    BY <1>11, <1>a DEF writeFragment, nextStage
  <2> QED
    BY <1>11, <1>a, <2>1, QueuedWrite DEF nextScript
<1>12. CASE endMessenger \/ endAcquiter
  <2>1. /\ job.messages = <<>> /\ job' = NoJob /\ pc' # "write"
        /\ UNCHANGED <<log, pending, wState, runners, stage>>
    BY <1>12, <1>c DEF endMessenger, endAcquiter, mainVars, stageVars
  <2>2. job.offset = 0
    <3>1. job.offset \in Nat /\ ~(job.offset > 0)
      BY <2>1, QueuedTypes DEF QueuedInv, JobOk
    <3> QED
      BY <3>1
  <2>3. PICK b, base : QueuedOk(b, base) /\ Cursor(h, b)
    BY DEF QueuedInv
  <2>4. closed' = closed
    BY <2>1 DEF closed
  <2>5. QueuedOk(b, base)' /\ Cursor(h, b)'
    BY <2>1, <2>2, <2>3, <2>4, <1>d DEF QueuedOk, Cursor
  <2>6. JobOk' /\ OthersEmpty' /\ LogOk(log)'
    BY <2>1, <1>d DEF QueuedInv, JobOk, OthersEmpty, LogOk
  <2> QED
    BY <1>b, <2>1, <2>5, <2>6 DEF QueuedInv
<1>13. CASE ackPacket \/ sendPacket \/ sendFailure \/ endRun
  <2>1. /\ UNCHANGED <<log, pending, wState, runners, job, stage>>
        /\ pc # "write"
    BY <1>13 DEF ackPacket, sendPacket, sendFailure, endRun, mainVars, stageVars
  <2> QED
    BY <2>1, <1>b, QueuedUntouched
<1>14. CASE UNCHANGED writerVars
  BY <1>14, <1>b, QueuedUntouched DEF writerVars, threadVars, stageVars, mainVars
<1>15. CASE outside /\ UNCHANGED pending
  BY <1>15, <1>b, QueuedUntouched DEF outside, threadVars, stageVars
<1> QED
  BY <1>1, <1>2, <1>3, <1>4, <1>5, <1>6, <1>8, <1>9, <1>10, <1>11, <1>12, <1>13, <1>14, <1>15
  DEF SessionNext, sendingThread, flush, anyAck

-----------------------------------------------------------------------------
(* What the writer may do to the packets that are sent.                    *)

LEMMA SendingMoves ==
    [WriterNext]_writerVars =>
        UNCHANGED <<sending, stageSending, stageAck>> \/ ackPacket \/ sendPacket
<1> SUFFICES ASSUME [WriterNext]_writerVars
             PROVE  UNCHANGED <<sending, stageSending, stageAck>> \/ ackPacket \/ sendPacket
  OBVIOUS
<1>1. ASSUME NEW size, NEW reliable, newMessage(size, reliable)
      PROVE  UNCHANGED <<sending, stageSending, stageAck>>
  BY <1>1 DEF newMessage, threadVars, stageVars
<1>2. flush \/ anyAck \/ consumed \/ outside => UNCHANGED <<sending, stageSending, stageAck>>
  BY DEF flush, flushMessages, stopRepeat, timedRepeat, anyAck, acquit, consumed, outside,
         threadVars, stageVars
<1>3. ASSUME NEW error, close(error) PROVE UNCHANGED <<sending, stageSending, stageAck>>
  BY <1>3 DEF close, stageVars
<1>4. startMessenger \/ startAcquiter \/ startRepeater => UNCHANGED <<sending, stageSending, stageAck>>
  BY DEF startMessenger, startAcquiter, startRepeater, start, stageVars
<1>5. writeFragment \/ endMessenger \/ endAcquiter \/ sendFailure \/ endRun
        => UNCHANGED <<sending, stageSending, stageAck>>
  BY DEF writeFragment, endMessenger, endAcquiter, sendFailure, endRun, stageVars
<1>6. UNCHANGED writerVars => UNCHANGED <<sending, stageSending, stageAck>>
  BY DEF writerVars, threadVars, stageVars
<1> QED
  BY <1>1, <1>2, <1>3, <1>4, <1>5, <1>6 DEF WriterNext, sendingThread

LEMMA WireMoves ==
    [WriterNext]_writerVars => wire' \subseteq wire \/ startRepeater \/ sendPacket
<1> SUFFICES ASSUME [WriterNext]_writerVars
             PROVE  wire' \subseteq wire \/ startRepeater \/ sendPacket
  OBVIOUS
<1>1. ASSUME NEW size, NEW reliable, newMessage(size, reliable) PROVE wire' = wire
  BY <1>1 DEF newMessage
<1>2. flush \/ anyAck \/ consumed => wire' = wire
  BY DEF flush, flushMessages, stopRepeat, timedRepeat, anyAck, acquit, consumed
<1>3. outside => wire' \subseteq wire
  BY DEF outside
<1>4. startMessenger \/ startAcquiter => wire' = wire
  BY DEF startMessenger, startAcquiter
<1>5. writeFragment \/ endMessenger \/ ackPacket \/ endAcquiter \/ sendFailure \/ endRun => wire' = wire
  BY DEF writeFragment, endMessenger, ackPacket, endAcquiter, sendFailure, endRun
<1>6. UNCHANGED writerVars => wire' = wire
  BY DEF writerVars
<1> QED
  BY <1>1, <1>2, <1>3, <1>4, <1>5, <1>6 DEF WriterNext, sendingThread

LEMMA LogMoves ==
    ASSUME TypeInv, TypeInv', [WriterNext]_writerVars
    PROVE  log \in Seq(Message) /\ log' \in Seq(Message) /\ Longer(log, log')
<1>1. log \in Seq(Message) /\ log' \in Seq(Message)
  BY DEF TypeInv, WriterTypeOK
<1>2. ASSUME NEW size, NEW reliable, newMessage(size, reliable) PROVE \E m : log' = Append(log, m)
  BY <1>2 DEF newMessage
<1>3. flush \/ anyAck \/ consumed \/ outside => log' = log
  BY DEF flush, flushMessages, stopRepeat, timedRepeat, anyAck, acquit, consumed, outside, mainVars
<1>4. ASSUME NEW error, close(error) PROVE log' = log
  BY <1>4 DEF close
<1>5. sendingThread => log' = log
  BY DEF sendingThread, startMessenger, startAcquiter, startRepeater, start, writeFragment,
         endMessenger, ackPacket, endAcquiter, sendPacket, sendFailure, endRun, mainVars
<1>6. UNCHANGED writerVars => log' = log
  BY DEF writerVars, mainVars
<1>7. log' = log \/ \E m : log' = Append(log, m)
  BY <1>2, <1>3, <1>4, <1>5, <1>6 DEF WriterNext
<1>8. log' = log => Longer(log, log')
  BY <1>1 DEF Longer
<1>9. ASSUME NEW m, log' = Append(log, m) PROVE Longer(log, log')
  BY <1>1, <1>9 DEF Longer
<1> QED
  BY <1>1, <1>7, <1>8, <1>9

LEMMA ScriptMoves ==
    ASSUME NEW h, TypeInv, ScriptInv(h), [WriterNext]_writerVars, NEW g, g = nextScript(h)
    PROVE  h \in Seq(Fragment) /\ g \in Seq(Fragment) /\ Longer(h, g)
<1>1. h \in Seq(Fragment) /\ stage \in Nat
  BY DEF ScriptInv, TypeInv, WriterTypeOK
<1>2. stage' = stage \/ writeFragment
  <2>1. ASSUME NEW size, NEW reliable, newMessage(size, reliable) PROVE stage' = stage
    BY <2>1 DEF newMessage, threadVars, stageVars
  <2>2. flush \/ anyAck \/ consumed \/ outside => stage' = stage
    BY DEF flush, flushMessages, stopRepeat, timedRepeat, anyAck, acquit, consumed, outside,
           threadVars, stageVars
  <2>3. ASSUME NEW error, close(error) PROVE stage' = stage
    BY <2>3 DEF close, stageVars
  <2>4. sendingThread => stage' = stage \/ writeFragment
    BY DEF sendingThread, startMessenger, startAcquiter, startRepeater, start,
           endMessenger, ackPacket, endAcquiter, sendPacket, sendFailure, endRun, stageVars
  <2>5. UNCHANGED writerVars => stage' = stage
    BY DEF writerVars, threadVars, stageVars
  <2> QED
    BY <2>1, <2>2, <2>3, <2>4, <2>5 DEF WriterNext
<1>3. CASE stage' = stage
  BY <1>1, <1>3, LongerAppend DEF nextScript
<1>4. CASE stage' # stage
  <2>1. nextFragment \in Fragment
    BY <1>2, <1>4, NextFragmentTypes DEF writeFragment
  <2>2. g = Append(h, nextFragment)
    BY <1>4 DEF nextScript
  <2> QED
    BY <1>1, <2>1, <2>2, LongerAppend
<1> QED
  BY <1>3, <1>4

\* The packet that leaves follows those that left.
LEMMA SentFacts ==
    ASSUME TypeInv, StageInv, sendPacket
    PROVE  LET p == Head(queue)
               q == sent(p)
           IN  /\ queue \in Seq(Packet) /\ p \in Packet /\ p = queue[1] /\ 1 \in 1..Len(queue)
               /\ q \in Packet /\ q.first = p.first /\ LastStage(q) = LastStage(p)
               /\ p.first = stageSending + 1 /\ p.fragments \in Nat \ {0}
               /\ stageSending \in Nat /\ stageSending' = LastStage(p)
               /\ stageSending' = stageSending + p.fragments
               /\ sending \in Seq(Packet) /\ sending' = Append(sending, q)
               /\ Len(sending') = Len(sending) + 1 /\ Len(sending) \in Nat
               /\ sending'[Len(sending) + 1] = q
               /\ \A i \in 1..Len(sending) : sending'[i] = sending[i]
               /\ unsent = queue
               /\ wire' = wire \union {Datagram(p)}
<1>1. /\ queue \in Seq(Packet) /\ sending \in Seq(Packet)
      /\ stageSending \in Nat /\ stage \in Nat
      /\ queue # <<>> /\ buf = NoBuffer
  BY DEF sendPacket, TypeInv, WriterTypeOK, StageInv, BufferOnlyWhileWriting
<1>2. unsent = queue
  BY <1>1 DEF unsent
<1>3. Covers(queue, stageSending, stage)
  BY <1>2 DEF StageInv, EveryStageHeldOnce
<1>4. PICK p, q : p = Head(queue) /\ q = sent(p)
  OBVIOUS
<1>5. p \in Packet /\ p = queue[1] /\ 1 \in 1..Len(queue)
  BY <1>1, <1>4
<1>6. p.first = stageSending + 1 /\ p.fragments > 0 /\ p.first \in Nat /\ p.fragments \in Nat
  BY <1>1, <1>3, <1>5 DEF Covers, Packet
<1>7. q \in Packet /\ q.first = p.first /\ q.fragments = p.fragments
  BY <1>4, <1>5, SentPacket
<1>8. /\ sending' = Append(sending, q) /\ stageSending' = stageSending + p.fragments
      /\ wire' = wire \union {Datagram(p)}
  BY <1>4 DEF sendPacket, stagesOf
<1>9. LastStage(p) = stageSending' /\ LastStage(q) = LastStage(p)
  <2>1. ASSUME NEW a, NEW k, NEW f, a \in Nat, k \in Nat, f = a + 1 PROVE f + k - 1 = a + k
    BY <2>1
  <2>2. p.first + p.fragments - 1 = stageSending + p.fragments
    BY <2>1, <1>1, <1>6
  <2> QED
    BY <2>2, <1>7, <1>8 DEF LastStage
<1>10. /\ Len(sending') = Len(sending) + 1 /\ Len(sending) \in Nat
       /\ sending'[Len(sending) + 1] = q
       /\ \A i \in 1..Len(sending) : sending'[i] = sending[i]
  BY <1>1, <1>7, <1>8
<1> QED
  BY <1>1, <1>2, <1>4, <1>5, <1>6, <1>7, <1>8, <1>9, <1>10

\* The oldest packet leaves `sending`.
LEMMA AckedFacts ==
    ASSUME TypeInv, StageInv, ackPacket
    PROVE  /\ sending \in Seq(Packet) /\ sending # <<>> /\ Len(sending) \in Nat
           /\ sending' = Tail(sending) /\ Len(sending') = Len(sending) - 1
           /\ \A i \in 1..Len(sending') : sending'[i] = sending[i + 1] /\ i + 1 \in 1..Len(sending)
           /\ 1 \in 1..Len(sending) /\ sending[1].first = stageAck + 1 /\ stageAck \in Nat
           /\ stageAck' = LastStage(sending[1]) /\ stageSending' = stageSending
           /\ job.stageAck > stageAck
<1>1. /\ sending \in Seq(Packet) /\ sending # <<>> /\ stageAck \in Nat /\ Len(sending) \in Nat
      /\ Covers(sending, stageAck, stageSending) /\ job.stageAck > stageAck
  BY DEF ackPacket, acknowledged, TypeInv, WriterTypeOK, StageInv, EveryStageHeldOnce
<1>2. 1 \in 1..Len(sending) /\ sending[1] \in Packet /\ Head(sending) = sending[1]
  BY <1>1
<1>3. sending[1].first = stageAck + 1 /\ sending[1].fragments \in Nat
  BY <1>1, <1>2 DEF Covers, Packet
<1>4. stageAck' = stageAck + sending[1].fragments /\ stageSending' = stageSending
      /\ sending' = Tail(sending)
  BY <1>2 DEF ackPacket, stagesOf
<1>5. stageAck' = LastStage(sending[1])
  <2>1. ASSUME NEW a, NEW k, NEW f, a \in Nat, k \in Nat, f = a + 1 PROVE f + k - 1 = a + k
    BY <2>1
  <2>2. sending[1].first + sending[1].fragments - 1 = stageAck + sending[1].fragments
    BY <2>1, <1>1, <1>3
  <2> QED
    BY <2>2, <1>4 DEF LastStage
<1>6. /\ Len(sending') = Len(sending) - 1
      /\ \A i \in 1..Len(sending') : sending'[i] = sending[i + 1] /\ i + 1 \in 1..Len(sending)
  BY <1>1, <1>4
<1> QED
  BY <1>1, <1>2, <1>3, <1>4, <1>5, <1>6

-----------------------------------------------------------------------------
(* The two ends: what the receiver has of what the sender keeps.           *)

flowOpen == flow.stageEnd = 0

\* No packet that the sender keeps has some of its stages before x, x among
\* them, and some after it.
Uncut(x) ==
    /\ x <= stageSending
    /\ \A i \in 1..Len(sending) : x < sending[i].first \/ LastStage(sending[i]) <= x

\* A datagram and a packet have no stage in common, or it holds them all.
Apart(d, p) ==
    \/ LastStage(p) < d.first
    \/ d.first + Len(d.frags) - 1 < p.first
    \/ d.first <= p.first /\ LastStage(p) <= d.first + Len(d.frags) - 1

ApartInv ==
    \A d \in wire : d.frags # <<AbandonFragment>> =>
        \A i \in 1..Len(sending) : Apart(d, sending[i])

LEMMA CoverFacts ==
    ASSUME TypeInv, StageInv
    PROVE  /\ stageAck \in Nat /\ stageSending \in Nat /\ stage \in Nat /\ Len(sending) \in Nat
           /\ stageAck <= stageSending /\ stageSending <= stage
           /\ \A i \in 1..Len(sending) :
                 /\ sending[i] \in Packet /\ sending[i].first \in Nat
                 /\ LastStage(sending[i]) \in Nat
                 /\ stageAck < sending[i].first /\ sending[i].first <= LastStage(sending[i])
                 /\ LastStage(sending[i]) <= stageSending
           /\ \A i, j \in 1..Len(sending) : i < j => LastStage(sending[i]) < sending[j].first
<1>1. /\ sending \in Seq(Packet) /\ stageAck \in Nat /\ stageSending \in Nat /\ stage \in Nat
      /\ unsent \in Seq(Packet)
  BY DEF TypeInv, WriterTypeOK, unsent
<1>2. Covers(sending, stageAck, stageSending) /\ Covers(unsent, stageSending, stage)
  BY DEF StageInv, EveryStageHeldOnce
<1>3. stageAck <= stageSending /\ stageSending <= stage
  BY <1>1, <1>2, CoversOrder
<1>4. ASSUME NEW i \in 1..Len(sending)
      PROVE  /\ sending[i] \in Packet /\ sending[i].first \in Nat
             /\ LastStage(sending[i]) \in Nat
             /\ stageAck < sending[i].first /\ sending[i].first <= LastStage(sending[i])
             /\ LastStage(sending[i]) <= stageSending
  <2>1. sending[i] \in Packet
    BY <1>1
  <2>2. sending[i].first \in Nat /\ sending[i].fragments \in Nat
        /\ LastStage(sending[i]) = sending[i].first + sending[i].fragments - 1
    BY <2>1, PacketFields
  <2>3. /\ sending[i].fragments > 0 /\ stageAck < sending[i].first
        /\ LastStage(sending[i]) <= stageSending
    BY <1>2 DEF Covers
  <2>4. ASSUME NEW a, NEW k, NEW b, a \in Nat, k \in Nat, k > 0, b = a + k - 1
        PROVE  b \in Nat /\ a <= b
    BY <2>4
  <2>5. LastStage(sending[i]) \in Nat /\ sending[i].first <= LastStage(sending[i])
    BY <2>2, <2>3, <2>4
  <2> QED
    BY <2>1, <2>2, <2>3, <2>5
<1>5. \A i, j \in 1..Len(sending) : i < j => LastStage(sending[i]) < sending[j].first
  BY <1>2 DEF Covers
<1>6. Len(sending) \in Nat
  BY <1>1
<1> QED
  BY <1>1, <1>3, <1>4, <1>5, <1>6

LEMMA UncutStep ==
    ASSUME TypeInv, StageInv, [WriterNext]_writerVars, NEW x, x \in Nat, Uncut(x)
    PROVE  Uncut(x)'
<1>1. CASE UNCHANGED <<sending, stageSending, stageAck>>
  BY <1>1 DEF Uncut
<1>2. CASE ackPacket
  BY <1>2, AckedFacts DEF Uncut
<1>3. CASE sendPacket
  <2>1. PICK p, q : p = Head(queue) /\ q = sent(p)
    OBVIOUS
  <2>2. /\ q.first = stageSending + 1 /\ p.fragments \in Nat
        /\ stageSending \in Nat /\ stageSending' = stageSending + p.fragments
        /\ Len(sending') = Len(sending) + 1 /\ Len(sending) \in Nat
        /\ sending'[Len(sending) + 1] = q
        /\ \A i \in 1..Len(sending) : sending'[i] = sending[i]
    BY <1>3, <2>1, SentFacts
  <2>3. x <= stageSending' /\ x < q.first
    BY <2>2 DEF Uncut
  <2>4. ASSUME NEW i \in 1..Len(sending')
        PROVE  x < sending'[i].first \/ LastStage(sending'[i]) <= x
    <3>1. CASE i = Len(sending) + 1
      BY <2>2, <2>3, <3>1
    <3>2. CASE i \in 1..Len(sending)
      BY <2>2, <3>2 DEF Uncut
    <3> QED
      BY <2>2, <3>1, <3>2
  <2> QED
    BY <2>3, <2>4 DEF Uncut
<1> QED
  BY <1>1, <1>2, <1>3, SendingMoves

LEMMA KeptDatagram ==
    ASSUME NEW h, NEW p, p \in Packet, Keeps(h, p)
    PROVE  /\ Datagram(p).first = p.first
           /\ Datagram(p).first + Len(Datagram(p).frags) - 1 = LastStage(p)
BY DEF Keeps, Datagram, LastStage

LEMMA ApartStep ==
    ASSUME NEW h, TypeInv, StageInv, ScriptInv(h), ApartInv, [WriterNext]_writerVars
    PROVE  ApartInv'
<1>1. CASE ackPacket
  <2>1. wire' = wire
    BY <1>1 DEF ackPacket
  <2> QED
    BY <1>1, <2>1, AckedFacts DEF ApartInv
<1>2. CASE sendPacket
  <2>1. PICK p, q : p = Head(queue) /\ q = sent(p)
    OBVIOUS
  <2>2. /\ p \in Packet /\ p = queue[1] /\ 1 \in 1..Len(queue) /\ unsent = queue
        /\ q.first = p.first /\ LastStage(q) = LastStage(p)
        /\ p.first = stageSending + 1 /\ stageSending \in Nat
        /\ Len(sending') = Len(sending) + 1 /\ Len(sending) \in Nat
        /\ sending'[Len(sending) + 1] = q
        /\ \A i \in 1..Len(sending) : sending'[i] = sending[i]
        /\ wire' = wire \union {Datagram(p)}
    BY <1>2, <2>1, SentFacts
  <2>3. Keeps(h, p)
    BY <2>2 DEF ScriptInv
  <2>4. PICK e : e = Datagram(p)
    OBVIOUS
  <2>5. e.first = p.first /\ e.first + Len(e.frags) - 1 = LastStage(p)
    BY <2>2, <2>3, <2>4, KeptDatagram
  <2>6. ASSUME NEW d \in wire', d.frags # <<AbandonFragment>>, NEW i \in 1..Len(sending')
        PROVE  Apart(d, sending'[i])
    <3>1. CASE d \in wire /\ i \in 1..Len(sending)
      BY <2>2, <2>6, <3>1 DEF ApartInv
    <3>2. CASE d \in wire /\ i = Len(sending) + 1
      <4>1. Conveys(h, d)
        BY <2>6, <3>2 DEF ScriptInv
      <4>2. d.first + Len(d.frags) - 1 < p.first
        <5>1. d.first \in Nat /\ d.frags \in Seq(Fragment) /\ d.first + Len(d.frags) - 1 <= stageSending
          BY <4>1 DEF Conveys, Follows
        <5>2. Len(d.frags) \in Nat
          BY <5>1
        <5> QED
          BY <5>1, <5>2, <2>2
      <4> QED
        BY <2>2, <3>2, <4>2 DEF Apart
    <3>3. CASE d = e /\ i \in 1..Len(sending)
      <4>1. LastStage(sending[i]) \in Nat /\ LastStage(sending[i]) <= stageSending
        BY <3>3, CoverFacts
      <4>2. LastStage(sending[i]) < d.first
        BY <2>2, <2>5, <3>3, <4>1
      <4> QED
        BY <2>2, <3>3, <4>2 DEF Apart
    <3>4. CASE d = e /\ i = Len(sending) + 1
      <4>1. d.first <= q.first /\ q.first = p.first
        <5>1. p.first \in Nat
          BY <2>2
        <5> QED
          BY <5>1, <2>2, <2>5, <3>4
      <4>2. LastStage(q) <= d.first + Len(d.frags) - 1
        <5>1. LastStage(p) \in Int
          BY <2>2, PacketFields
        <5>2. LastStage(p) <= LastStage(p)
          BY <5>1
        <5>3. d.first + Len(d.frags) - 1 = LastStage(p) /\ LastStage(q) = LastStage(p)
          BY <2>2, <2>5, <3>4
        <5> QED
          BY <5>2, <5>3
      <4> QED
        BY <2>2, <3>4, <4>1, <4>2 DEF Apart
    <3> QED
      BY <2>2, <2>4, <2>6, <3>1, <3>2, <3>3, <3>4
  <2> QED
    BY <2>6 DEF ApartInv
<1>3. CASE startRepeater
  <2>1. sending' = sending
    BY <1>3 DEF startRepeater, start
  <2>2. ASSUME NEW d \in wire', d.frags # <<AbandonFragment>>, NEW i \in 1..Len(sending)
        PROVE  Apart(d, sending[i])
    <3>1. CASE d \in wire
      BY <2>2, <3>1 DEF ApartInv
    <3>2. ASSUME NEW j \in 1..Len(sending), d = Datagram(sending[j]), sending[j].reliable
          PROVE  Apart(d, sending[i])
      <4>1. /\ sending[j] \in Packet /\ sending[j].first \in Nat /\ LastStage(sending[j]) \in Nat
            /\ sending[i].first \in Nat /\ LastStage(sending[i]) \in Nat
            /\ i < j => LastStage(sending[i]) < sending[j].first
            /\ j < i => LastStage(sending[j]) < sending[i].first
        BY CoverFacts
      <4>2. Keeps(h, sending[j])
        BY <3>2 DEF ScriptInv
      <4>3. d.first = sending[j].first /\ d.first + Len(d.frags) - 1 = LastStage(sending[j])
        BY <3>2, <4>1, <4>2, KeptDatagram
      <4>4. i < j \/ j < i \/ i = j
        BY CoverFacts
      <4>5. LastStage(sending[j]) <= LastStage(sending[j]) /\ sending[j].first <= sending[j].first
        BY <4>1
      <4> QED
        BY <4>1, <4>3, <4>4, <4>5 DEF Apart
    <3>3. \A j \in 1..Len(sending) : d # AbandonDatagram(LastStage(sending[j]))
      BY <2>2 DEF AbandonDatagram
    <3> QED
      BY <1>3, <3>1, <3>2, <3>3, RepeaterWire
  <2> QED
    BY <2>1, <2>2 DEF ApartInv
<1>4. CASE UNCHANGED <<sending, stageSending, stageAck>> /\ wire' \subseteq wire
  BY <1>4 DEF ApartInv
<1> QED
  BY <1>1, <1>2, <1>3, <1>4, SendingMoves, WireMoves

\* What an acknowledgment may say of an open flow.
Confirmed(x) == x \in Nat /\ x <= flow.stage /\ Uncut(x)

AckInv ==
    flowOpen =>
        /\ stageAck <= flow.stage
        /\ \A a \in acks : a.room => Confirmed(a.stage)
        /\ \A i \in 1..Len(runners) : runners[i].kind = "Acquiter" => Confirmed(runners[i].stageAck)
        /\ pc = "ack" => Confirmed(job.stageAck)

\* What is abandoned of an open flow was never to be delivered for sure.
AbandonedInv(h) ==
    \A d \in wire : d.frags = <<AbandonFragment>> =>
        /\ d.first \in Nat \ {0} /\ Uncut(d.first)
        /\ flowOpen => \A t \in (flow.stage + 1)..d.first : Unreliable(h, log, t)

\* A packet arrives at once: the receiver has all its stages or none.
WholeInv ==
    flowOpen /\ farStatus = "CONNECTED" =>
        \A i \in 1..Len(sending) :
            \A x, y \in sending[i].first..LastStage(sending[i]) :
                Received(flow, x) => Received(flow, y)

ReceiverInv(h) == FlowOk(flow, h, log, stageSending)

LEMMA WriterStepNext == writerStep => SessionNext
<1>1. applicationWrites => \E size \in Sizes, reliable \in BOOLEAN : newMessage(size, reliable)
  BY ChannelAssumption DEF applicationWrites
<1> QED
  BY <1>1 DEF writerStep, SessionNext

\* A writer step waits for no acknowledgment that was not waited for.
LEMMA RunnersMoves ==
    ASSUME TypeInv, writerStep
    PROVE  /\ \A i \in 1..Len(runners') : runners'[i].kind = "Acquiter" =>
                 \E j \in 1..Len(runners) : runners'[i] = runners[j]
           /\ pc' = "ack" => startAcquiter \/ (pc = "ack" /\ job' = job)
           /\ stageAck' = stageAck \/ ackPacket
<1>1. runners \in Seq(Runner)
  BY QueuedTypes
<1>2. ASSUME NEW r, r.kind # "Acquiter", runners' = Append(runners, r),
             NEW i \in 1..Len(runners'), runners'[i].kind = "Acquiter"
      PROVE  \E j \in 1..Len(runners) : runners'[i] = runners[j]
  <2>1. /\ Len(runners') = Len(runners) + 1 /\ Len(runners) \in Nat
        /\ runners'[Len(runners) + 1] = r
        /\ \A j \in 1..Len(runners) : runners'[j] = runners[j]
    BY <1>1, <1>2
  <2>2. i \in 1..Len(runners)
    BY <1>2, <2>1
  <2> QED
    BY <2>1, <2>2
<1>3. ASSUME NEW kind, start(kind), NEW i \in 1..Len(runners')
      PROVE  \E j \in 1..Len(runners) : runners'[i] = runners[j]
  <2>1. runners # <<>> /\ runners' = Tail(runners)
    BY <1>3 DEF start
  <2>2. i + 1 \in 1..Len(runners) /\ runners'[i] = runners[i + 1]
    BY <1>1, <2>1
  <2> QED
    BY <2>2
<1>4. CASE applicationWrites
  <2>1. UNCHANGED <<runners, pc, job, stageAck>>
    BY <1>4 DEF applicationWrites, newMessage, threadVars, stageVars
  <2> QED
    BY <2>1
<1>5. CASE flushMessages \/ timedRepeat
  <2>1. UNCHANGED <<pc, job, stageAck>>
    BY <1>5 DEF flushMessages, timedRepeat, stageVars
  <2>2. \E r : r.kind # "Acquiter" /\ runners' = Append(runners, r)
    BY <1>5 DEF flushMessages, timedRepeat, Messenger, Repeater
  <2> QED
    BY <1>2, <2>1, <2>2
<1>6. CASE stopRepeat \/ consumed
  <2>1. UNCHANGED <<runners, pc, job, stageAck>>
    BY <1>6 DEF stopRepeat, consumed, threadVars, stageVars
  <2> QED
    BY <2>1
<1>7. ASSUME NEW error, close(error)
      PROVE  /\ \A i \in 1..Len(runners') : runners'[i].kind = "Acquiter" =>
                   \E j \in 1..Len(runners) : runners'[i] = runners[j]
             /\ UNCHANGED <<pc, job, stageAck>>
  <2>1. UNCHANGED <<pc, job, stageAck>>
    BY <1>7 DEF close, stageVars
  <2>2. runners' = runners \/ \E r : r.kind # "Acquiter" /\ runners' = Append(runners, r)
    BY <1>7 DEF close, Messenger
  <2> QED
    BY <1>2, <2>1, <2>2
<1>8. CASE startMessenger \/ startAcquiter \/ startRepeater
  <2>1. stageAck' = stageAck /\ \E kind : start(kind)
    BY <1>8 DEF startMessenger, startAcquiter, startRepeater, start, stageVars
  <2>2. pc' = "ack" => startAcquiter
    BY <1>8 DEF startMessenger, startRepeater
  <2> QED
    BY <1>3, <2>1, <2>2
<1>9. CASE writeFragment \/ endMessenger \/ endAcquiter \/ sendPacket \/ sendFailure \/ endRun
  <2>1. UNCHANGED <<runners, stageAck>> /\ pc' # "ack"
    BY <1>9 DEF writeFragment, endMessenger, endAcquiter, sendPacket, sendFailure, endRun, stageVars
  <2> QED
    BY <2>1
<1>10. CASE ackPacket
  <2>1. UNCHANGED <<runners, pc, job>>
    BY <1>10 DEF ackPacket
  <2> QED
    BY <1>10, <2>1
<1> QED
  BY <1>4, <1>5, <1>6, <1>7, <1>8, <1>9, <1>10 DEF writerStep, flush, sendingThread

LEMMA AckWriter ==
    ASSUME TypeInv, StageInv, flow.stage \in Nat, AckInv, writerStep, UNCHANGED <<flow, acks>>
    PROVE  AckInv'
<1> SUFFICES ASSUME flowOpen' PROVE AckInv'
  BY DEF AckInv
<1>1. flowOpen /\ SessionNext
  BY WriterStepNext DEF flowOpen
<1>2. [WriterNext]_writerVars
  BY <1>1, SessionStep
<1>3. \A x : Confirmed(x) => Confirmed(x)'
  BY <1>2, UncutStep DEF Confirmed
<1>4. \A a \in acks' : a.room => Confirmed(a.stage)'
  BY <1>1, <1>3 DEF AckInv
<1>5. \A i \in 1..Len(runners') : runners'[i].kind = "Acquiter" => Confirmed(runners[i].stageAck)'
  <2>1. ASSUME NEW i \in 1..Len(runners'), runners'[i].kind = "Acquiter"
        PROVE  Confirmed(runners[i].stageAck)'
    <3>1. PICK j \in 1..Len(runners) : runners'[i] = runners[j]
      BY <2>1, RunnersMoves
    <3>2. PICK x : x = runners[j].stageAck
      OBVIOUS
    <3>3. Confirmed(x)'
      BY <1>1, <1>3, <2>1, <3>1, <3>2 DEF AckInv
    <3> QED
      BY <3>1, <3>2, <3>3 DEF Confirmed, Uncut
  <2> QED
    BY <2>1
<1>6. stageAck' <= flow.stage
  <2>1. CASE ackPacket
    <3>1. pc = "ack" /\ Confirmed(job.stageAck)
      BY <2>1, <1>1 DEF AckInv, ackPacket
    <3>2. /\ 1 \in 1..Len(sending) /\ sending[1].first = stageAck + 1 /\ stageAck \in Nat
          /\ stageAck' = LastStage(sending[1]) /\ job.stageAck > stageAck
      BY <2>1, AckedFacts
    <3>3. job.stageAck \in Nat /\ ~(job.stageAck < sending[1].first)
      BY <3>1, <3>2 DEF Confirmed
    <3>4. LastStage(sending[1]) <= job.stageAck /\ job.stageAck <= flow.stage
      BY <3>1, <3>2, <3>3 DEF Confirmed, Uncut
    <3>5. LastStage(sending[1]) \in Nat
      BY <3>2, CoverFacts
    <3> QED
      BY <3>2, <3>3, <3>4, <3>5
  <2>2. CASE stageAck' = stageAck
    BY <2>2, <1>1 DEF AckInv
  <2> QED
    BY <2>1, <2>2, RunnersMoves
<1>7. pc' = "ack" => Confirmed(job.stageAck)'
  <2>1. CASE startAcquiter
    <3>1. /\ runners # <<>> /\ Head(runners).kind = "Acquiter"
          /\ stageSending' = stageSending
          /\ job' = [NoJob EXCEPT !.stageAck = IF Head(runners).stageAck > stageSending THEN stageSending
                                               ELSE Head(runners).stageAck]
      BY <2>1 DEF startAcquiter, start, stageVars
    <3>2. Head(runners) = runners[1] /\ 1 \in 1..Len(runners)
      BY <3>1, QueuedTypes
    <3>3. PICK x : x = Head(runners).stageAck
      OBVIOUS
    <3>4. Confirmed(x)
      BY <1>1, <3>1, <3>2, <3>3 DEF AckInv
    <3>5. ~(x > stageSending)
      <4>1. x \in Nat /\ x <= stageSending /\ stageSending \in Nat
        BY <3>4, CoverFacts DEF Confirmed, Uncut
      <4> QED
        BY <4>1
    <3>6. job'.stageAck = x
      BY <3>1, <3>3, <3>5 DEF NoJob
    <3>7. Confirmed(x)'
      BY <1>3, <3>4
    <3> QED
      BY <3>6, <3>7 DEF Confirmed, Uncut
  <2>2. CASE pc = "ack" /\ job' = job
    <3>1. PICK x : x = job.stageAck
      OBVIOUS
    <3>2. Confirmed(x)'
      BY <1>1, <1>3, <2>2, <3>1 DEF AckInv
    <3> QED
      BY <2>2, <3>1, <3>2 DEF Confirmed, Uncut
  <2> QED
    BY <2>1, <2>2, RunnersMoves
<1> QED
  BY <1>4, <1>5, <1>6, <1>7 DEF AckInv

\* Nothing that was not sent is received.
LEMMA ReceivedSent ==
    ASSUME NEW h, ReceiverInv(h), flowOpen, NEW x, x \in Nat, Received(flow, x),
           stageSending \in Nat
    PROVE  x <= stageSending
<1>1. flow.stage <= stageSending /\ flow.stage \in Nat /\ Held(flow, h, stageSending)
  BY DEF ReceiverInv, FlowOk, flowOpen, IsFlow
<1>2. CASE x \in DOMAIN flow.fragments
  BY <1>1, <1>2 DEF Held
<1>3. CASE x <= flow.stage
  BY <1>1, <1>3
<1> QED
  BY <1>2, <1>3 DEF Received

LEMMA WholeWriter ==
    ASSUME NEW h, TypeInv, StageInv, ReceiverInv(h), WholeInv, [WriterNext]_writerVars,
           UNCHANGED <<flow, farStatus>>
    PROVE  WholeInv'
<1> SUFFICES ASSUME flowOpen', farStatus' = "CONNECTED", NEW i \in 1..Len(sending'),
                    NEW x \in sending'[i].first..LastStage(sending'[i]),
                    NEW y \in sending'[i].first..LastStage(sending'[i]),
                    Received(flow', x)
             PROVE  Received(flow', y)
  BY DEF WholeInv
<1>1. flowOpen /\ farStatus = "CONNECTED" /\ flow' = flow /\ Received(flow, x)
  BY DEF flowOpen
<1>2. ASSUME NEW j \in 1..Len(sending), sending'[i].first = sending[j].first,
             LastStage(sending'[i]) = LastStage(sending[j])
      PROVE  Received(flow', y)
  BY <1>1, <1>2 DEF WholeInv
<1>3. CASE UNCHANGED <<sending, stageSending, stageAck>>
  BY <1>2, <1>3
<1>4. CASE ackPacket
  BY <1>2, <1>4, AckedFacts
<1>5. CASE sendPacket
  <2>1. PICK q : q = sent(Head(queue))
    OBVIOUS
  <2>2. /\ q.first = stageSending + 1 /\ stageSending \in Nat
        /\ Len(sending') = Len(sending) + 1 /\ Len(sending) \in Nat
        /\ sending'[Len(sending) + 1] = q
        /\ \A j \in 1..Len(sending) : sending'[j] = sending[j]
    BY <1>5, <2>1, SentFacts
  <2>3. CASE i \in 1..Len(sending)
    BY <1>2, <2>2, <2>3
  <2>4. CASE i = Len(sending) + 1
    <3>1. x \in Nat /\ ~(x <= stageSending)
      BY <2>2, <2>4
    <3> QED
      BY <1>1, <2>2, <3>1, ReceivedSent
  <2> QED
    BY <2>2, <2>3, <2>4
<1> QED
  BY <1>3, <1>4, <1>5, SendingMoves

\* Every stage that was sent and is not released is in a packet of `sending`.
LEMMA SentStage ==
    ASSUME TypeInv, StageInv, NEW i, i \in 1..Len(sending),
           NEW t, t \in Nat, stageAck < t, t <= LastStage(sending[i])
    PROVE  \E j \in 1..i : t \in sending[j].first..LastStage(sending[j])
<1>1. /\ stageAck \in Nat /\ Len(sending) \in Nat
      /\ \A j \in 1..Len(sending) :
            sending[j].first \in Nat /\ LastStage(sending[j]) \in Nat
  BY CoverFacts
<1>2. /\ sending[1].first = stageAck + 1
      /\ \A j \in 1..(Len(sending) - 1) : sending[j + 1].first = LastStage(sending[j]) + 1
  <2>1. Covers(sending, stageAck, stageSending) /\ sending # <<>>
    BY <1>1 DEF StageInv, EveryStageHeldOnce
  <2> QED
    BY <2>1 DEF Covers
<1>3. PICK S : S = {j \in Nat : j \in 1..Len(sending) /\ t <= LastStage(sending[j])}
  OBVIOUS
<1>4. i \in S /\ S \subseteq Nat
  BY <1>1, <1>3
<1>5. PICK k \in S : \A j \in S : k <= j
  BY <1>4, SmallestNat
<1>6. k \in 1..Len(sending) /\ k <= i /\ t <= LastStage(sending[k]) /\ k \in 1..i
  BY <1>1, <1>3, <1>4, <1>5
<1>7. sending[k].first <= t
  <2>1. CASE k = 1
    BY <1>1, <1>2, <2>1
  <2>2. CASE k # 1
    <3>1. PICK j : j = k - 1
      OBVIOUS
    <3>2. j \in 1..(Len(sending) - 1) /\ j \in 1..Len(sending) /\ j + 1 = k /\ j \in Nat /\ ~(k <= j)
      BY <1>1, <1>6, <2>2, <3>1
    <3>3. ~(t <= LastStage(sending[j]))
      BY <1>3, <1>5, <3>2
    <3>4. sending[k].first = LastStage(sending[j]) + 1 /\ LastStage(sending[j]) \in Nat
      BY <1>1, <1>2, <3>2
    <3> QED
      BY <3>3, <3>4
  <2> QED
    BY <2>1, <2>2
<1> QED
  BY <1>1, <1>6, <1>7

LEMMA AbandonedWriter ==
    ASSUME NEW h, TypeInv, TypeInv', StageInv, AbandonInv, ScriptInv(h), WrittenInv(h),
           ReceiverInv(h), AckInv, AbandonedInv(h), [WriterNext]_writerVars, UNCHANGED flow,
           NEW g, g = nextScript(h)
    PROVE  AbandonedInv(g)'
<1> SUFFICES ASSUME NEW d \in wire', d.frags = <<AbandonFragment>>
             PROVE  /\ d.first \in Nat \ {0} /\ Uncut(d.first)'
                    /\ flowOpen => \A t \in (flow.stage + 1)..d.first : Unreliable(g, log', t)
  BY DEF AbandonedInv, flowOpen
<1>1. flow.stage \in Nat /\ (flowOpen => stageAck <= flow.stage)
  BY DEF AckInv, ReceiverInv, FlowOk, IsFlow
<1>2. ASSUME d.first \in Nat \ {0}, Uncut(d.first),
             flowOpen => \A t \in (flow.stage + 1)..d.first : Unreliable(h, log, t)
      PROVE  /\ d.first \in Nat \ {0} /\ Uncut(d.first)'
             /\ flowOpen => \A t \in (flow.stage + 1)..d.first : Unreliable(g, log', t)
  <2>1. Uncut(d.first)'
    BY <1>2, UncutStep
  <2>2. /\ log \in Seq(Message) /\ log' \in Seq(Message) /\ Longer(log, log')
        /\ h \in Seq(Fragment) /\ Longer(h, g) /\ WellCut(h, log)
    BY LogMoves, ScriptMoves DEF WrittenInv
  <2>3. ASSUME flowOpen, NEW t \in (flow.stage + 1)..d.first PROVE Unreliable(g, log', t)
    <3>1. t \in 1..Len(h)
      <4>1. d.first <= stageSending /\ stageSending <= Len(h) /\ stageSending \in Nat /\ Len(h) \in Nat
        BY <1>2, CoverFacts DEF ScriptInv, Uncut
      <4> QED
        BY <1>1, <1>2, <4>1
    <3>2. Unreliable(h, log, t)
      BY <1>2, <2>3
    <3> QED
      BY <2>2, <3>1, <3>2, UnreliableGrows
  <2> QED
    BY <1>2, <2>1, <2>3
<1>3. CASE d \in wire
  <2>1. /\ d.first \in Nat \ {0} /\ Uncut(d.first)
        /\ flowOpen => \A t \in (flow.stage + 1)..d.first : Unreliable(h, log, t)
    BY <1>3 DEF AbandonedInv
  <2> QED
    BY <1>2, <2>1
<1>4. CASE d \notin wire
  <2>1. CASE sendPacket
    <3>1. PICK p : p = Head(queue)
      OBVIOUS
    <3>2. p = queue[1] /\ 1 \in 1..Len(queue) /\ wire' = wire \union {Datagram(p)}
      BY <2>1, <3>1, SentFacts
    <3>3. d = Datagram(p) /\ p.frags # <<AbandonFragment>>
      BY <1>4, <3>2 DEF AbandonInv, Plain
    <3> QED
      BY <3>3 DEF Datagram
  <2>2. CASE startRepeater
    <3>1. ASSUME NEW j \in 1..Len(sending), d = Datagram(sending[j]) PROVE FALSE
      BY <3>1 DEF AbandonInv, Plain, Datagram
    <3>2. PICK i \in 1..Len(sending) :
             d = AbandonDatagram(LastStage(sending[i])) /\ \A j \in 1..i : ~sending[j].reliable
      BY <1>4, <2>2, <3>1, RepeaterWire
    <3>3. d.first = LastStage(sending[i])
      BY <3>2 DEF AbandonDatagram
    <3>4. /\ stageAck \in Nat /\ LastStage(sending[i]) \in Nat /\ LastStage(sending[i]) # 0
          /\ LastStage(sending[i]) <= stageSending /\ Len(sending) \in Nat
      <4>1. /\ stageAck \in Nat /\ sending[i].first \in Nat /\ LastStage(sending[i]) \in Nat
            /\ stageAck < sending[i].first /\ sending[i].first <= LastStage(sending[i])
            /\ LastStage(sending[i]) <= stageSending /\ Len(sending) \in Nat
        BY CoverFacts
      <4> QED
        BY <4>1
    <3>5. Uncut(d.first)
      <4>1. ASSUME NEW j \in 1..Len(sending)
            PROVE  d.first < sending[j].first \/ LastStage(sending[j]) <= d.first
        <5>1. /\ LastStage(sending[j]) \in Nat /\ sending[j].first \in Nat
              /\ i < j => LastStage(sending[i]) < sending[j].first
              /\ j < i => LastStage(sending[j]) < sending[i].first
              /\ sending[i].first <= LastStage(sending[i]) /\ sending[i].first \in Nat
          BY CoverFacts
        <5>2. i < j \/ j < i \/ i = j
          BY <3>4
        <5>3. CASE j < i
          BY <3>3, <3>4, <5>1, <5>3
        <5>4. CASE i < j \/ i = j
          BY <3>3, <3>4, <5>1, <5>4
        <5> QED
          BY <5>2, <5>3, <5>4
      <4> QED
        BY <3>3, <3>4, <4>1 DEF Uncut
    <3>6. ASSUME flowOpen, NEW t \in (flow.stage + 1)..d.first PROVE Unreliable(h, log, t)
      <4>1. t \in Nat /\ stageAck < t /\ t <= LastStage(sending[i])
        BY <1>1, <3>3, <3>4, <3>6
      <4>2. PICK j \in 1..i : t \in sending[j].first..LastStage(sending[j])
        BY <4>1, SentStage
      <4>3. ~sending[j].reliable /\ j \in 1..Len(sending)
        BY <3>2, <3>4
      <4> QED
        BY <4>2, <4>3 DEF WrittenInv, SparesReliable
    <3> QED
      BY <1>2, <3>3, <3>4, <3>5, <3>6
  <2> QED
    BY <1>4, <2>1, <2>2, WireMoves
<1> QED
  BY <1>3, <1>4

\* The stages sent only grow.
LEMMA SentGrows ==
    ASSUME TypeInv, TypeInv', StageInv, [WriterNext]_writerVars
    PROVE  stageSending' \in Nat /\ stageSending <= stageSending'
<1>0. stageSending \in Nat
  BY CoverFacts
<1>1. stageSending' \in Nat
  BY DEF TypeInv, WriterTypeOK
<1>2. CASE stageSending' = stageSending
  BY <1>0, <1>2
<1>3. CASE sendPacket
  <2>1. PICK k : k \in Nat /\ stageSending' = stageSending + k
    BY <1>3, SentFacts
  <2> QED
    BY <1>0, <2>1
<1>4. ackPacket => stageSending' = stageSending
  BY DEF ackPacket
<1> QED
  BY <1>1, <1>2, <1>3, <1>4, SendingMoves

LEMMA ReceiverWriter ==
    ASSUME NEW h, TypeInv, TypeInv', StageInv, ScriptInv(h), WrittenInv(h), ReceiverInv(h),
           [WriterNext]_writerVars, UNCHANGED flow, NEW g, g = nextScript(h)
    PROVE  ReceiverInv(g)'
<1>1. /\ log \in Seq(Message) /\ log' \in Seq(Message) /\ Longer(log, log')
      /\ g \in Seq(Fragment) /\ Longer(h, g) /\ WellCut(h, log)
  BY LogMoves, ScriptMoves DEF WrittenInv
<1>2. stageSending \in Nat /\ stageSending <= Len(h)
  BY CoverFacts DEF ScriptInv
<1>3. stageSending' \in Nat /\ stageSending <= stageSending'
  BY SentGrows
<1>4. FlowOk(flow, g, log', stageSending')
  BY <1>1, <1>2, <1>3, FlowOkGrows DEF ReceiverInv
<1> QED
  BY <1>4 DEF ReceiverInv

-----------------------------------------------------------------------------
(* A datagram arrives.                                                     *)

\* What every prefix of the messages of a datagram leaves in the flow, and
\* all of them: a packet the sender keeps is then received or not.
LEMMA FlowReceives ==
    ASSUME NEW h, TypeInv, StageInv, ScriptInv(h), WrittenInv(h), ReceiverInv(h),
           AbandonedInv(h), ApartInv, WholeInv, farStatus = "CONNECTED",
           NEW d, d \in wire, NEW k, k \in 1..Len(d.frags), NEW r, r = flowAfter(d)[k]
    PROVE  /\ FlowOk(r, h, log, stageSending) /\ Advance(flow, r)
           /\ r.stageEnd = 0 => flowOpen
           /\ (r.stageEnd = 0 /\ k = Len(d.frags)) =>
                 \A i \in 1..Len(sending) : \A x, y \in sending[i].first..LastStage(sending[i]) :
                     Received(r, x) => Received(r, y)
           /\ Len(d.frags) \in Nat
<1>1. /\ log \in Seq(Message) /\ WellCut(h, log) /\ FlowOk(flow, h, log, stageSending)
      /\ stageSending \in Nat /\ stageSending <= Len(h)
  BY QueuedTypes, CoverFacts DEF WrittenInv, ReceiverInv, ScriptInv
<1>2. \A i \in 1..Len(sending) : sending[i].first \in Nat /\ LastStage(sending[i]) \in Nat
  BY CoverFacts
<1>3. CASE d.frags # <<AbandonFragment>>
  <2>1. Conveys(h, d)
    BY <1>3 DEF ScriptInv
  <2>2. /\ Follows(h, d.first, d.frags) /\ d.first + Len(d.frags) - 1 <= stageSending
        /\ d.first \in Nat /\ Len(d.frags) \in Nat
    BY <2>1 DEF Conveys, Follows
  <2>3. k \in 0..Len(d.frags)
    BY <2>2
  <2>4. /\ FlowOk(r, h, log, stageSending) /\ Advance(flow, r)
        /\ r.stageEnd = 0 =>
             /\ flow.stageEnd = 0
             /\ \A x \in Nat : Received(r, x) <=>
                                  Received(flow, x) \/ x \in d.first..(d.first + k - 1)
    BY <1>1, <2>2, <2>3, DatagramPlain
  <2>5. ASSUME r.stageEnd = 0, k = Len(d.frags), NEW i \in 1..Len(sending),
               NEW x \in sending[i].first..LastStage(sending[i]),
               NEW y \in sending[i].first..LastStage(sending[i]), Received(r, x)
        PROVE  Received(r, y)
    <3>1. x \in Nat /\ y \in Nat
      BY <1>2
    <3>2. Apart(d, sending[i])
      BY <1>3 DEF ApartInv
    <3>3. CASE Received(flow, x)
      <4>1. Received(flow, y)
        BY <2>4, <2>5, <3>3 DEF WholeInv, flowOpen
      <4> QED
        BY <2>4, <2>5, <3>1, <4>1
    <3>4. CASE ~Received(flow, x)
      <4>1. x \in d.first..(d.first + Len(d.frags) - 1)
        BY <2>4, <2>5, <3>1, <3>4
      <4>2. d.first <= sending[i].first /\ LastStage(sending[i]) <= d.first + Len(d.frags) - 1
        BY <3>1, <3>2, <4>1, <1>2, <2>2 DEF Apart
      <4>3. y \in d.first..(d.first + k - 1)
        BY <3>1, <4>2, <1>2, <2>2, <2>5
      <4> QED
        BY <2>4, <2>5, <3>1, <4>3
    <3> QED
      BY <3>3, <3>4
  <2> QED
    BY <2>2, <2>4, <2>5 DEF flowOpen
<1>4. CASE d.frags = <<AbandonFragment>>
  <2>1. /\ d.first \in Nat \ {0} /\ Uncut(d.first)
        /\ flowOpen => \A t \in (flow.stage + 1)..d.first : Unreliable(h, log, t)
    BY <1>4 DEF AbandonedInv
  <2>2. k = 1 /\ Len(d.frags) = 1
    BY <1>4
  <2>3. d.first \in 1..stageSending
    BY <1>1, <2>1 DEF Uncut
  <2>4. /\ FlowOk(r, h, log, stageSending) /\ Advance(flow, r)
        /\ r.stageEnd = 0 =>
             /\ flow.stageEnd = 0
             /\ \A x \in Nat : Received(r, x) <=> Received(flow, x) \/ x <= d.first
    BY <1>1, <1>4, <2>1, <2>2, <2>3, DatagramAbandon DEF flowOpen
  <2>5. ASSUME r.stageEnd = 0, NEW i \in 1..Len(sending),
               NEW x \in sending[i].first..LastStage(sending[i]),
               NEW y \in sending[i].first..LastStage(sending[i]), Received(r, x)
        PROVE  Received(r, y)
    <3>1. x \in Nat /\ y \in Nat
      BY <1>2
    <3>2. CASE Received(flow, x)
      <4>1. Received(flow, y)
        BY <2>4, <2>5, <3>2 DEF WholeInv, flowOpen
      <4> QED
        BY <2>4, <2>5, <3>1, <4>1
    <3>3. CASE ~Received(flow, x)
      <4>1. x <= d.first
        BY <2>4, <2>5, <3>1, <3>3
      <4>2. LastStage(sending[i]) <= d.first
        <5>1. ~(d.first < sending[i].first)
          BY <1>2, <2>1, <3>1, <4>1
        <5> QED
          BY <2>1, <5>1 DEF Uncut
      <4>3. y <= d.first
        BY <1>2, <2>1, <3>1, <4>2
      <4> QED
        BY <2>4, <2>5, <3>1, <4>3
    <3> QED
      BY <3>2, <3>3
  <2> QED
    BY <2>2, <2>4, <2>5 DEF flowOpen
<1> QED
  BY <1>3, <1>4

\* The acknowledgment of an open flow cuts no packet in two.
LEMMA AckUncut ==
    ASSUME NEW h, TypeInv, StageInv, NEW r, FlowOk(r, h, log, stageSending), r.stageEnd = 0,
           \A i \in 1..Len(sending) : \A x, y \in sending[i].first..LastStage(sending[i]) :
               Received(r, x) => Received(r, y)
    PROVE  r.stage \in Nat /\ Uncut(r.stage)
<1>1. /\ r.stage \in Nat /\ r.stage <= stageSending /\ r.stage + 1 \notin DOMAIN r.fragments
  BY DEF FlowOk, IsFlow
<1>2. ASSUME NEW i \in 1..Len(sending), ~(r.stage < sending[i].first),
             ~(LastStage(sending[i]) <= r.stage)
      PROVE  FALSE
  <2>1. sending[i].first \in Nat /\ LastStage(sending[i]) \in Nat
    BY CoverFacts
  <2>2. r.stage \in sending[i].first..LastStage(sending[i])
        /\ r.stage + 1 \in sending[i].first..LastStage(sending[i])
    BY <1>1, <1>2, <2>1
  <2>3. Received(r, r.stage) /\ ~Received(r, r.stage + 1)
    BY <1>1 DEF Received
  <2> QED
    BY <2>2, <2>3
<1> QED
  BY <1>1, <1>2 DEF Uncut

\* What is sent has at least one message.
LEMMA DatagramFields ==
    ASSUME NEW h, ScriptInv(h), AbandonedInv(h), NEW d, d \in wire
    PROVE  d.first \in Nat \ {0} /\ Len(d.frags) \in Nat \ {0}
<1>1. CASE d.frags = <<AbandonFragment>>
  <2>1. Len(d.frags) = 1
    BY <1>1
  <2> QED
    BY <1>1, <2>1 DEF AbandonedInv
<1>2. CASE d.frags # <<AbandonFragment>>
  <2>1. d.frags # <<>> /\ d.first \in Nat \ {0} /\ d.frags \in Seq(Fragment)
    BY <1>2 DEF ScriptInv, Conveys, Follows
  <2> QED
    BY <2>1
<1> QED
  BY <1>1, <1>2

\* The acknowledgments on their way are well formed.
AckTypes == \A a \in acks : a.stage \in Nat /\ lostCount(a) \in Nat

\* An acknowledgment that a step of the receiver may send.
Sendable(a) == a.stage \in Nat /\ lostCount(a) \in Nat /\ (flowOpen /\ a.room => Confirmed(a.stage))

LEMMA LostCountType ==
    ASSUME NEW stg, stg \in Nat, NEW losts, losts \in Seq(Nat)
    PROVE  /\ Ack(stg, losts).stage = stg /\ lostCount(Ack(stg, losts)) \in Nat
           /\ NegativeAck(stg).stage = stg /\ lostCount(NegativeAck(stg)) \in Nat
           /\ ~NegativeAck(stg).room
<1>1. losts # <<>> => losts[1] \in Nat
  OBVIOUS
<1> QED
  BY <1>1 DEF Ack, NegativeAck, lostCount

\* A datagram arrives: the writer does not move, the flow advances, and a new
\* acknowledgment says no more than what the flow has.
LEMMA ReceiveFlow ==
    ASSUME NEW h, TypeInv, StageInv, ScriptInv(h), WrittenInv(h), ReceiverInv(h),
           AbandonedInv(h), ApartInv, WholeInv, NEW d, d \in wire, receive(d)
    PROVE  /\ FlowOk(flow', h, log, stageSending) /\ Advance(flow, flow')
           /\ flowOpen' => flowOpen
           /\ WholeInv'
           /\ \A a \in acks' : a \in acks \/ Sendable(a)'
<1>1. /\ farStatus = "CONNECTED" /\ sending' = sending /\ stageSending' = stageSending
      /\ UNCHANGED <<mainVars, threadVars, status>>
  BY DEF receive, threadVars, stageVars
<1>2. d.first \in Nat \ {0} /\ Len(d.frags) \in Nat \ {0} /\ Len(d.frags) \in 1..Len(d.frags)
  <2>1. d.first \in Nat \ {0} /\ Len(d.frags) \in Nat \ {0}
    BY DatagramFields
  <2> QED
    BY <2>1
<1>3. stageSending \in Nat
  BY CoverFacts
<1>4. CASE receiveDatagram(d)
  <2>1. PICK k, r, b : k = Len(d.frags) /\ r = flowAfter(d)[k] /\ b = buildAck(r)
    OBVIOUS
  <2>2. flow' = r /\ acks' = acks \union {Ack(b.stage, b.losts)} /\ farStatus' = farStatus
    BY <1>4, <2>1 DEF receiveDatagram
  <2>3. /\ FlowOk(r, h, log, stageSending) /\ Advance(flow, r)
        /\ r.stageEnd = 0 => flowOpen
        /\ r.stageEnd = 0 =>
             \A i \in 1..Len(sending) : \A x, y \in sending[i].first..LastStage(sending[i]) :
                 Received(r, x) => Received(r, y)
    BY <1>1, <1>2, <2>1, FlowReceives
  <2>4. WholeInv'
    BY <1>1, <2>2, <2>3 DEF WholeInv, flowOpen
  <2>5. b.stage = r.stage /\ b.losts \in Seq(Nat)
    <3>1. FlowOk(r, h, log, stageSending)
      BY <2>3
    <3>2. buildAck(r).stage = r.stage /\ buildAck(r).losts \in Seq(Nat)
      BY <1>3, <3>1, AckExact
    <3> QED
      BY <2>1, <3>2
  <2>6. r.stage \in Nat /\ (r.stageEnd = 0 => Uncut(r.stage))
    BY <2>3, AckUncut DEF FlowOk, IsFlow
  <2>7. Sendable(Ack(b.stage, b.losts))'
    <3>1. PICK a : a = Ack(b.stage, b.losts)
      OBVIOUS
    <3>2. a.stage = r.stage /\ a.stage \in Nat /\ lostCount(a) \in Nat
      BY <2>5, <2>6, <3>1, LostCountType
    <3>3. flow'.stageEnd = 0 => Uncut(r.stage)'
      BY <1>1, <2>2, <2>6 DEF Uncut
    <3>4. flow'.stageEnd = 0 => Confirmed(a.stage)'
      BY <2>2, <2>6, <3>2, <3>3 DEF Confirmed, Uncut
    <3>5. Sendable(a)'
      BY <3>2, <3>4 DEF Sendable, flowOpen
    <3> QED
      BY <3>1, <3>5
  <2> QED
    BY <2>2, <2>3, <2>4, <2>7 DEF flowOpen
<1>5. CASE receiveCongested(d)
  <2>1. PICK k \in 1..Len(d.frags) : flow' = flowAfter(d)[k]
    BY <1>5 DEF receiveCongested
  <2>2. farStatus' # "CONNECTED" /\ acks' = acks
    BY <1>5 DEF receiveCongested
  <2>3. PICK r : r = flowAfter(d)[k]
    OBVIOUS
  <2>4. /\ FlowOk(r, h, log, stageSending) /\ Advance(flow, r)
        /\ r.stageEnd = 0 => flowOpen
    BY <1>1, <2>3, FlowReceives
  <2> QED
    BY <2>1, <2>2, <2>3, <2>4 DEF WholeInv, flowOpen
<1>6. CASE receiveUnknown(d)
  <2>1. PICK stg : stg = d.first + Len(d.frags) - 2
    OBVIOUS
  <2>2. flow' = flow /\ farStatus' = farStatus /\ acks' \subseteq acks \union {NegativeAck(stg)}
    BY <1>6, <2>1 DEF receiveUnknown
  <2>3. stg \in Nat
    BY <1>2, <2>1
  <2>4. FlowOk(flow, h, log, stageSending) /\ Advance(flow, flow)
    BY AdvanceRefl DEF ReceiverInv, FlowOk
  <2>5. WholeInv'
    BY <1>1, <2>2 DEF WholeInv, flowOpen
  <2>6. Sendable(NegativeAck(stg))'
    <3>1. PICK a : a = NegativeAck(stg)
      OBVIOUS
    <3>2. a.stage \in Nat /\ lostCount(a) \in Nat /\ ~a.room
      <4>1. <<>> \in Seq(Nat)
        OBVIOUS
      <4> QED
        BY <2>3, <3>1, <4>1, LostCountType
    <3> QED
      BY <3>1, <3>2 DEF Sendable
  <2> QED
    BY <2>2, <2>4, <2>5, <2>6 DEF flowOpen
<1> QED
  BY <1>4, <1>5, <1>6 DEF receive

-----------------------------------------------------------------------------
(* The inductive invariant of the channel, for the script h.               *)

\* The messages of the log are numbered, whatever the session does.
LEMMA LogNumbered ==
    ASSUME TypeInv, LogOk(log), [WriterNext]_writerVars
    PROVE  LogOk(log')
<1>1. log \in Seq(Message)
  BY QueuedTypes
<1>2. ASSUME NEW size \in Sizes, NEW reliable, newMessage(size, reliable) PROVE LogOk(log')
  <2>1. PICK m : m = [id |-> Len(log) + 1, size |-> size, reliable |-> reliable]
    OBVIOUS
  <2>2. m.id = Len(log) + 1 /\ m.size > 0 /\ log' = Append(log, m)
    BY <1>2, <2>1, WriterAssumption DEF newMessage
  <2>3. /\ Len(log') = Len(log) + 1 /\ Len(log) \in Nat /\ log'[Len(log) + 1] = m
        /\ \A i \in 1..Len(log) : log'[i] = log[i]
    BY <1>1, <2>2
  <2>4. ASSUME NEW i \in 1..Len(log') PROVE log'[i].id = i /\ log'[i].size > 0
    <3>1. CASE i = Len(log) + 1
      BY <2>2, <2>3, <3>1
    <3>2. CASE i \in 1..Len(log)
      BY <2>3, <3>2 DEF LogOk
    <3> QED
      BY <2>3, <3>1, <3>2
  <2> QED
    BY <2>4 DEF LogOk
<1>3. flush \/ anyAck \/ consumed \/ outside => log' = log
  BY DEF flush, flushMessages, stopRepeat, timedRepeat, anyAck, acquit, consumed, outside, mainVars
<1>4. ASSUME NEW error, close(error) PROVE log' = log
  BY <1>4 DEF close
<1>5. sendingThread => log' = log
  BY DEF sendingThread, startMessenger, startAcquiter, startRepeater, start, writeFragment,
         endMessenger, ackPacket, endAcquiter, sendPacket, sendFailure, endRun, mainVars
<1>6. UNCHANGED writerVars => log' = log
  BY DEF writerVars, mainVars
<1> QED
  BY <1>2, <1>3, <1>4, <1>5, <1>6 DEF WriterNext

ChannelInv(h) ==
    /\ TypeInv /\ StageInv /\ AbandonInv /\ LogOk(log)
    /\ ScriptInv(h) /\ WrittenInv(h)
    /\ status = "CONNECTED" => QueuedInv(h)
    /\ ReceiverInv(h) /\ AckInv /\ AbandonedInv(h) /\ ApartInv /\ WholeInv
    /\ AckTypes

LEMMA ChannelStart == ChannelInit => ChannelInv(<<>>)
<1> SUFFICES ASSUME ChannelInit PROVE ChannelInv(<<>>)
  OBVIOUS
<1>1. /\ WriterInit /\ flow = NewFlow /\ acks = {} /\ wire = {} /\ log = <<>> /\ sending = <<>>
      /\ stageAck = 0 /\ stageSending = 0 /\ runners = <<>> /\ pc = "idle"
  BY DEF ChannelInit, WriterInit
<1>2. /\ TypeInv /\ StageInv /\ AbandonInv /\ ScriptInv(<<>>) /\ WrittenInv(<<>>)
      /\ QueuedInv(<<>>)
  BY <1>1, TypeInit, StageInit, AbandonInit, ScriptInit, WrittenInit, QueuedInit
<1>6. LogOk(log)
  BY <1>1 DEF LogOk
<1>3. FlowOk(NewFlow, <<>>, <<>>, 0)
  <2>1. /\ NewFlow.stage = 0 /\ NewFlow.stageEnd = 0 /\ NewFlow.ended = 0
        /\ NewFlow.fragments = <<>> /\ NewFlow.buffer = <<>> /\ NewFlow.delivered = <<>>
        /\ IsFlow(NewFlow)
    BY DEF NewFlow, IsFlow
  <2>2. DOMAIN <<>> = {} /\ Len(<<>>) = 0
    OBVIOUS
  <2>3. Deliveries(<<>>, <<>>)
    BY <2>2 DEF Deliveries
  <2>4. Explained(NewFlow, <<>>, <<>>)
    BY <2>1, <2>2, <2>3 DEF Explained, BufferFits, DeliveredFits
  <2>5. Held(NewFlow, <<>>, 0) /\ NewFlow.stage + 1 \notin DOMAIN NewFlow.fragments
    BY <2>1, <2>2 DEF Held
  <2> QED
    BY <2>1, <2>3, <2>4, <2>5 DEF FlowOk
<1>4. ReceiverInv(<<>>)
  BY <1>1, <1>3 DEF ReceiverInv
<1>5. AckInv /\ AbandonedInv(<<>>) /\ ApartInv /\ WholeInv /\ AckTypes
  BY <1>1 DEF AckInv, AbandonedInv, ApartInv, WholeInv, AckTypes, NewFlow
<1> QED
  BY <1>2, <1>4, <1>5, <1>6 DEF ChannelInv

\* What every step keeps of the writer.
LEMMA WriterKept ==
    ASSUME NEW h, ChannelInv(h), status = "CONNECTED", [WriterNext]_writerVars,
           status' = "CONNECTED" => [SessionNext]_writerVars,
           NEW g, g = nextScript(h)
    PROVE  /\ TypeInv' /\ StageInv' /\ AbandonInv' /\ LogOk(log)' /\ ScriptInv(g)' /\ WrittenInv(g)'
           /\ (status = "CONNECTED" => QueuedInv(g))' /\ ApartInv'
<1>1. /\ TypeInv /\ StageInv /\ AbandonInv /\ ScriptInv(h) /\ WrittenInv(h) /\ QueuedInv(h)
      /\ ApartInv
  BY DEF ChannelInv
<1>2. TypeInv' /\ StageInv' /\ AbandonInv'
  BY <1>1, TypeStep, StageStep, AbandonStep
<1>3. ScriptInv(g)'
  BY <1>1, ScriptStep
<1>4. WrittenInv(g)'
  BY <1>1, <1>2, WrittenStep
<1>5. ASSUME status' = "CONNECTED" PROVE QueuedInv(g)'
  BY <1>1, <1>5, QueuedStep
<1>6. ApartInv'
  BY <1>1, ApartStep
<1>7. LogOk(log')
  BY LogNumbered DEF ChannelInv
<1> QED
  BY <1>2, <1>3, <1>4, <1>5, <1>6, <1>7 DEF LogOk

\* A step of the sender leaves what is said of the receiver true.
LEMMA SenderKept ==
    ASSUME NEW h, ChannelInv(h), TypeInv', [WriterNext]_writerVars,
           UNCHANGED <<flow, farStatus>>, NEW g, g = nextScript(h)
    PROVE  ReceiverInv(g)' /\ AbandonedInv(g)' /\ WholeInv'
<1>1. /\ TypeInv /\ StageInv /\ AbandonInv /\ ScriptInv(h) /\ WrittenInv(h)
      /\ ReceiverInv(h) /\ AckInv /\ AbandonedInv(h) /\ WholeInv
  BY DEF ChannelInv
<1>2. ReceiverInv(g)'
  BY <1>1, ReceiverWriter
<1>3. AbandonedInv(g)'
  BY <1>1, AbandonedWriter
<1>4. WholeInv'
  BY <1>1, WholeWriter
<1> QED
  BY <1>2, <1>3, <1>4

LEMMA WriterStepKeeps ==
    ASSUME NEW h, ChannelInv(h), status = "CONNECTED", writerStep,
           UNCHANGED <<known, flow, acks, status, farStatus>>, NEW g, g = nextScript(h)
    PROVE  ChannelInv(g)'
<1>1. [SessionNext]_writerVars /\ [WriterNext]_writerVars
  BY WriterStepNext, SessionStep
<1>2. /\ TypeInv' /\ StageInv' /\ AbandonInv' /\ LogOk(log)' /\ ScriptInv(g)' /\ WrittenInv(g)'
      /\ (status = "CONNECTED" => QueuedInv(g))' /\ ApartInv'
  BY <1>1, WriterKept
<1>3. ReceiverInv(g)' /\ AbandonedInv(g)' /\ WholeInv'
  BY <1>1, <1>2, SenderKept
<1>4. AckInv'
  <2>1. TypeInv /\ StageInv /\ AckInv /\ flow.stage \in Nat
    BY DEF ChannelInv, ReceiverInv, FlowOk, IsFlow
  <2> QED
    BY <2>1, AckWriter
<1>5. AckTypes'
  BY DEF ChannelInv, AckTypes, lostCount
<1> QED
  BY <1>2, <1>3, <1>4, <1>5 DEF ChannelInv

LEMMA ReceiveKeeps ==
    ASSUME NEW h, ChannelInv(h), NEW d \in wire, receive(d)
    PROVE  ChannelInv(h)'
<1>1. /\ status = "CONNECTED" /\ status' = status /\ wire' \subseteq wire
      /\ UNCHANGED <<mainVars, threadVars>>
  BY DEF receive, afterDelivery
<1>2. UNCHANGED <<pending, wState, wStageAck, wLostCount, repeating, log, runners, pc, job, buf,
                  queue, sending, stage, stageSending, stageAck, sendable>>
  BY <1>1 DEF mainVars, threadVars, stageVars
<1>3. outside /\ UNCHANGED pending
  BY <1>1, <1>2 DEF outside
<1>4. [SessionNext]_writerVars /\ [WriterNext]_writerVars
  BY <1>3, SessionStep DEF SessionNext
<1>5. PICK g : g = nextScript(h)
  OBVIOUS
<1>6. g = h
  BY <1>2, <1>5 DEF nextScript
<1>7. /\ TypeInv' /\ StageInv' /\ AbandonInv' /\ LogOk(log)' /\ ScriptInv(g)' /\ WrittenInv(g)'
      /\ (status = "CONNECTED" => QueuedInv(g))' /\ ApartInv'
  BY <1>1, <1>4, <1>5, WriterKept
<1>8. /\ TypeInv /\ StageInv /\ ScriptInv(h) /\ WrittenInv(h) /\ ReceiverInv(h) /\ AckInv
      /\ AbandonedInv(h) /\ ApartInv /\ WholeInv /\ AckTypes
  BY DEF ChannelInv
<1>9. /\ FlowOk(flow', h, log, stageSending) /\ Advance(flow, flow')
      /\ flowOpen' => flowOpen
      /\ WholeInv'
      /\ \A a \in acks' : a \in acks \/ Sendable(a)'
  BY <1>8, ReceiveFlow
<1>10. ReceiverInv(h)'
  BY <1>2, <1>9 DEF ReceiverInv
<1>11. ASSUME flowOpen' PROVE flow.stage \in Nat /\ flow'.stage \in Nat /\ flow.stage <= flow'.stage
  <2>1. flow.stage \in Nat /\ flow'.stage \in Nat
    BY <1>8, <1>9 DEF ReceiverInv, FlowOk, IsFlow
  <2> QED
    BY <2>1, <1>9, <1>11 DEF Advance, flowOpen
<1>12. ASSUME flowOpen', NEW x, Confirmed(x) PROVE Confirmed(x)'
  <2>1. x \in Nat /\ x <= flow.stage /\ Uncut(x)
    BY <1>12 DEF Confirmed
  <2>2. Uncut(x)'
    BY <1>2, <2>1 DEF Uncut
  <2>3. x <= flow'.stage
    BY <1>11, <1>12, <2>1
  <2> QED
    BY <2>1, <2>2, <2>3 DEF Confirmed
<1>13. AckTypes'
  <2>1. \A a : lostCount(a)' = lostCount(a)
    BY DEF lostCount
  <2>2. ASSUME NEW a \in acks' PROVE a.stage \in Nat /\ lostCount(a) \in Nat
    BY <1>8, <1>9, <2>1 DEF AckTypes, Sendable
  <2> QED
    BY <2>1, <2>2 DEF AckTypes
<1>14. AckInv'
  <2> SUFFICES ASSUME flowOpen' PROVE AckInv'
    BY DEF AckInv
  <2>1. flowOpen
    BY <1>9
  <2>2. stageAck' <= flow'.stage
    <3>1. stageAck \in Nat /\ stageAck <= flow.stage
      BY <1>8, <2>1, CoverFacts DEF AckInv
    <3> QED
      BY <1>2, <1>11, <3>1
  <2>3. \A a \in acks' : a.room => Confirmed(a.stage)'
    <3>1. ASSUME NEW a \in acks', a.room PROVE Confirmed(a.stage)'
      <4>1. CASE a \in acks
        <5>1. Confirmed(a.stage)
          BY <1>8, <2>1, <3>1, <4>1 DEF AckInv
        <5> QED
          BY <5>1, <1>12
      <4>2. CASE Sendable(a)'
        BY <3>1, <4>2 DEF Sendable
      <4> QED
        BY <1>9, <4>1, <4>2
    <3> QED
      BY <3>1
  <2>4. ASSUME NEW i \in 1..Len(runners), runners[i].kind = "Acquiter"
        PROVE  Confirmed(runners[i].stageAck)'
    <3>1. PICK x : x = runners[i].stageAck
      OBVIOUS
    <3>2. Confirmed(x)
      BY <1>8, <2>1, <2>4, <3>1 DEF AckInv
    <3>3. Confirmed(x)'
      BY <1>12, <3>2
    <3> QED
      BY <1>2, <3>1, <3>3 DEF Confirmed, Uncut
  <2>5. ASSUME pc = "ack" PROVE Confirmed(job.stageAck)'
    <3>1. PICK x : x = job.stageAck
      OBVIOUS
    <3>2. Confirmed(x)
      BY <1>8, <2>1, <2>5, <3>1 DEF AckInv
    <3>3. Confirmed(x)'
      BY <1>12, <3>2
    <3> QED
      BY <1>2, <3>1, <3>3 DEF Confirmed, Uncut
  <2>6. \A i \in 1..Len(runners') : runners'[i].kind = "Acquiter" => Confirmed(runners[i].stageAck)'
    BY <1>2, <2>4
  <2>7. pc' = "ack" => Confirmed(job.stageAck)'
    BY <1>2, <2>5
  <2> QED
    BY <2>2, <2>3, <2>6, <2>7 DEF AckInv
<1>15. AbandonedInv(h)'
  <2>1. ASSUME NEW e \in wire', e.frags = <<AbandonFragment>>
        PROVE  /\ e.first \in Nat \ {0} /\ Uncut(e.first)'
               /\ flowOpen' => \A t \in (flow'.stage + 1)..e.first : Unreliable(h, log', t)
    <3>1. PICK x : x = e.first
      OBVIOUS
    <3>2. /\ x \in Nat \ {0} /\ Uncut(x)
          /\ flowOpen => \A t \in (flow.stage + 1)..x : Unreliable(h, log, t)
      BY <1>1, <1>8, <2>1, <3>1 DEF AbandonedInv
    <3>3. Uncut(x)'
      BY <1>2, <3>2 DEF Uncut
    <3>4. ASSUME flowOpen', NEW t \in (flow'.stage + 1)..x PROVE Unreliable(h, log', t)
      <4>1. t \in (flow.stage + 1)..x
        BY <1>11, <3>2, <3>4
      <4> QED
        BY <1>2, <1>9, <3>2, <3>4, <4>1
    <3> QED
      BY <3>1, <3>2, <3>3, <3>4 DEF Uncut
  <2> QED
    BY <2>1 DEF AbandonedInv
<1> QED
  BY <1>6, <1>7, <1>9, <1>10, <1>13, <1>14, <1>15 DEF ChannelInv

\* What the sender does with an acknowledgment.
LEMMA AcknowledgmentMoves ==
    ASSUME AckTypes, NEW a \in acks, receiveAcknowledgment(a)
    PROVE  /\ status = "CONNECTED" /\ acks' \subseteq acks
           /\ UNCHANGED <<wire, known, flow, farStatus, log, pc, job, queue, buf, sending,
                          stage, stageSending, stageAck>>
           /\ [WriterNext]_writerVars
           /\ status' = "CONNECTED" => [SessionNext]_writerVars
           /\ \/ runners' = runners
              \/ a.room /\ \E r : /\ runners' = Append(runners, r)
                                  /\ r.kind = "Acquiter" => r.stageAck = a.stage
<1>1. /\ status = "CONNECTED" /\ acks' \subseteq acks
      /\ UNCHANGED <<wire, known, flow, farStatus>>
  BY DEF receiveAcknowledgment, afterDelivery
<1>2. a.stage \in Nat /\ lostCount(a) \in Nat
  BY DEF AckTypes
<1>3. CASE receiveAck(a)
  <2>1. CASE wState = "CONSUMED"
    <3>1. UNCHANGED <<mainVars, threadVars>>
      BY <1>3, <2>1 DEF receiveAck
    <3> QED
      BY <1>1, <3>1 DEF mainVars, threadVars, stageVars, writerVars
  <2>2. CASE wState # "CONSUMED"
    <3>1. acquit(a.stage, lostCount(a)) /\ a.room
      BY <1>3, <2>2 DEF receiveAck
    <3>2. anyAck
      BY <1>1, <1>2, <3>1 DEF anyAck
    <3>3. UNCHANGED <<log, pc, job, queue, buf, sending, stage, stageSending, stageAck>>
      BY <3>1 DEF acquit, stageVars
    <3>4. \/ runners' = runners
          \/ \E r : runners' = Append(runners, r) /\ (r.kind = "Acquiter" => r.stageAck = a.stage)
      <4>1. CASE progress(a.stage)
        BY <4>1 DEF progress, Acquiter
      <4>2. CASE newLosses(a.stage, lostCount(a))
        BY <4>2 DEF newLosses, Repeater
      <4>3. CASE obsolete(a.stage, lostCount(a))
        BY <4>3 DEF obsolete
      <4> QED
        BY <3>1, <4>1, <4>2, <4>3 DEF acquit
    <3>5. SessionNext /\ WriterNext
      BY <3>2 DEF SessionNext, WriterNext
    <3> QED
      BY <1>1, <3>1, <3>3, <3>4, <3>5
  <2> QED
    BY <2>1, <2>2
<1>4. CASE receiveNegativeAck(a)
  <2>1. UNCHANGED <<runners, pc, job, buf, queue, sending, stage, stageSending, stageAck,
                    sendable>> /\ UNCHANGED threadVars
    BY <1>4 DEF receiveNegativeAck, threadVars, stageVars
  <2>2. CASE closed
    <3>1. UNCHANGED <<mainVars, status>>
      BY <1>4, <2>2 DEF receiveNegativeAck
    <3> QED
      BY <1>1, <2>1, <3>1 DEF mainVars, threadVars, stageVars, writerVars
  <2>3. CASE ~closed
    <3>1. /\ status' = "NEAR_CLOSED" /\ pending' = <<>>
          /\ UNCHANGED <<wState, wStageAck, wLostCount, repeating, log>>
      BY <1>4, <2>3 DEF receiveNegativeAck
    <3>2. outside
      BY <1>1, <2>1, <3>1 DEF outside
    <3> QED
      BY <1>1, <2>1, <3>1, <3>2 DEF WriterNext
  <2> QED
    BY <2>2, <2>3
<1> QED
  BY <1>3, <1>4 DEF receiveAcknowledgment

LEMMA AcknowledgmentKeeps ==
    ASSUME NEW h, ChannelInv(h), NEW a \in acks, receiveAcknowledgment(a)
    PROVE  ChannelInv(h)'
<1>1. /\ status = "CONNECTED" /\ acks' \subseteq acks
      /\ UNCHANGED <<wire, known, flow, farStatus, log, pc, job, queue, buf, sending,
                     stage, stageSending, stageAck>>
      /\ [WriterNext]_writerVars
      /\ status' = "CONNECTED" => [SessionNext]_writerVars
      /\ \/ runners' = runners
         \/ a.room /\ \E r : /\ runners' = Append(runners, r)
                             /\ r.kind = "Acquiter" => r.stageAck = a.stage
  BY AcknowledgmentMoves DEF ChannelInv
<1>2. PICK g : g = nextScript(h)
  OBVIOUS
<1>3. g = h
  BY <1>1, <1>2 DEF nextScript
<1>4. /\ TypeInv' /\ StageInv' /\ AbandonInv' /\ LogOk(log)' /\ ScriptInv(g)' /\ WrittenInv(g)'
      /\ (status = "CONNECTED" => QueuedInv(g))' /\ ApartInv'
  BY <1>1, <1>2, WriterKept
<1>5. ReceiverInv(g)' /\ AbandonedInv(g)' /\ WholeInv'
  BY <1>1, <1>2, <1>4, SenderKept
<1>6. AckTypes'
  BY <1>1 DEF ChannelInv, AckTypes, lostCount
<1>7. AckInv'
  <2> SUFFICES ASSUME flowOpen' PROVE AckInv'
    BY DEF AckInv
  <2>1. flowOpen /\ AckInv /\ runners \in Seq(Runner)
    BY <1>1, QueuedTypes DEF flowOpen, ChannelInv
  <2>2. \A x : Confirmed(x) => Confirmed(x)'
    BY <1>1 DEF Confirmed, Uncut
  <2>3. \A b \in acks' : b.room => Confirmed(b.stage)'
    BY <1>1, <2>1, <2>2 DEF AckInv
  <2>4. ASSUME NEW i \in 1..Len(runners'), runners'[i].kind = "Acquiter"
        PROVE  Confirmed(runners[i].stageAck)'
    <3>1. PICK x : x = runners'[i].stageAck
      OBVIOUS
    <3>2. Confirmed(x)
      <4>1. CASE runners' = runners
        BY <2>1, <2>4, <3>1, <4>1 DEF AckInv
      <4>2. ASSUME a.room, NEW r, runners' = Append(runners, r),
                   r.kind = "Acquiter" => r.stageAck = a.stage
            PROVE  Confirmed(x)
        <5>1. /\ Len(runners') = Len(runners) + 1 /\ Len(runners) \in Nat
              /\ runners'[Len(runners) + 1] = r
              /\ \A j \in 1..Len(runners) : runners'[j] = runners[j]
          BY <2>1, <4>2
        <5>2. CASE i \in 1..Len(runners)
          BY <2>1, <2>4, <3>1, <5>1, <5>2 DEF AckInv
        <5>3. CASE i = Len(runners) + 1
          BY <2>1, <2>4, <3>1, <4>2, <5>1, <5>3 DEF AckInv
        <5> QED
          BY <2>4, <5>1, <5>2, <5>3
      <4> QED
        BY <1>1, <4>1, <4>2
    <3>3. Confirmed(x)'
      BY <2>2, <3>2
    <3> QED
      BY <3>1, <3>3 DEF Confirmed, Uncut
  <2>5. pc' = "ack" => Confirmed(job.stageAck)'
    <3>1. PICK x : x = job.stageAck
      OBVIOUS
    <3>2. pc' = "ack" => Confirmed(x)'
      BY <1>1, <2>1, <2>2, <3>1 DEF AckInv
    <3> QED
      BY <1>1, <3>1, <3>2 DEF Confirmed, Uncut
  <2>6. stageAck' <= flow'.stage
    BY <1>1, <2>1 DEF AckInv
  <2>7. \A i \in 1..Len(runners') : runners'[i].kind = "Acquiter" => Confirmed(runners[i].stageAck)'
    BY <2>4
  <2> QED
    BY <2>3, <2>5, <2>6, <2>7 DEF AckInv
<1> QED
  BY <1>3, <1>4, <1>5, <1>6, <1>7 DEF ChannelInv

LEMMA ChannelIdle ==
    ASSUME NEW h, ChannelInv(h), UNCHANGED channelVars
    PROVE  ChannelInv(h)'
<1>1. UNCHANGED writerVars /\ UNCHANGED <<known, flow, acks, status, farStatus>>
  BY DEF channelVars
<1>2. UNCHANGED <<pending, wState, wStageAck, wLostCount, repeating, log, runners, pc, job, buf,
                  queue, sending, stage, stageSending, stageAck, sendable, wire>>
  BY <1>1 DEF writerVars, mainVars, threadVars, stageVars
<1>3. PICK g : g = nextScript(h)
  OBVIOUS
<1>4. g = h
  BY <1>2, <1>3 DEF nextScript
<1>5. /\ TypeInv /\ StageInv /\ AbandonInv /\ ScriptInv(h) /\ WrittenInv(h)
      /\ status = "CONNECTED" => QueuedInv(h)
      /\ ReceiverInv(h) /\ AckInv /\ AbandonedInv(h) /\ ApartInv /\ WholeInv /\ AckTypes
  BY DEF ChannelInv
<1>6. TypeInv' /\ StageInv' /\ AbandonInv' /\ ApartInv'
  BY <1>1, <1>5, TypeStep, StageStep, AbandonStep, ApartStep
<1>7. ScriptInv(g)'
  BY <1>1, <1>3, <1>5, ScriptStep
<1>8. WrittenInv(h)'
  BY <1>2, <1>5, WrittenUntouched
<1>9. ASSUME status' = "CONNECTED" PROVE QueuedInv(g)'
  BY <1>1, <1>3, <1>5, <1>9, QueuedStep
<1>10. /\ ReceiverInv(g)' /\ AbandonedInv(g)' /\ WholeInv'
  BY <1>1, <1>3, <1>6, SenderKept
<1>11. AckInv'
  BY <1>1, <1>2, <1>5 DEF AckInv, Confirmed, Uncut, flowOpen
<1>12. AckTypes'
  BY <1>1, <1>5 DEF AckTypes, lostCount
<1>13. LogOk(log)'
  BY <1>2 DEF LogOk, ChannelInv
<1> QED
  BY <1>13, <1>4, <1>6, <1>7, <1>8, <1>9, <1>10, <1>11, <1>12 DEF ChannelInv

LEMMA ChannelStep ==
    ASSUME NEW h, ChannelInv(h), [ChannelNext]_channelVars
    PROVE  \E g : ChannelInv(g)'
<1>1. CASE status = "CONNECTED" /\ writerStep /\ UNCHANGED <<known, flow, acks, status, farStatus>>
  <2>1. PICK g : g = nextScript(h)
    OBVIOUS
  <2>2. ChannelInv(g)'
    BY <1>1, <2>1, WriterStepKeeps
  <2> QED
    BY <2>2
<1>2. ASSUME NEW d \in wire, receive(d) PROVE ChannelInv(h)'
  BY <1>2, ReceiveKeeps
<1>3. ASSUME NEW a \in acks, receiveAcknowledgment(a) PROVE ChannelInv(h)'
  BY <1>3, AcknowledgmentKeeps
<1>4. CASE UNCHANGED channelVars
  BY <1>4, ChannelIdle
<1> QED
  BY <1>1, <1>2, <1>3, <1>4 DEF ChannelNext

-----------------------------------------------------------------------------
(* What the invariant says of the channel.                                 *)

\* The content units of the first i parts of a message.
PartsUpTo(p) ==
    LET upTo[i \in 0..Len(p)] == IF i = 0 THEN 0 ELSE upTo[i - 1] + p[i].size
    IN  upTo

LEMMA WholeParts ==
    ASSUME NEW p, NEW m, \A i \in 1..Len(p) : p[i].msg = m.id /\ p[i].from = PartsUpTo(p)[i - 1],
           PartsUpTo(p)[Len(p)] = m.size
    PROVE  Whole(p, m)
BY DEF Whole, PartsUpTo

\* The parts of a complete message fit: where one starts the others end.
LEMMA CompleteWhole ==
    ASSUME NEW lg, lg \in Seq(Message), LogOk(lg), NEW p, p \in Seq(Fragment), Complete(p, lg)
    PROVE  Whole(p, lg[p[1].msg])
<1> DEFINE body(u, i) == IF i = 0 THEN 0 ELSE u[i - 1] + p[i].size
           w == [i \in 0..Len(p) |-> IF i = 0 THEN 0 ELSE p[i].from + p[i].size]
           u == PartsUpTo(p)
<1>1. /\ Len(p) \in Nat \ {0} /\ p[1].from = 0
      /\ \A i \in 1..Len(p) : p[i].from \in Nat /\ p[i].size \in Nat /\ p[i].msg = p[1].msg
      /\ \A i \in 1..(Len(p) - 1) : p[i + 1].from = p[i].from + p[i].size
      /\ p[1].msg \in 1..Len(lg)
      /\ p[Len(p)].from + p[Len(p)].size = lg[p[1].msg].size
  <2>1. Len(p) \in Nat \ {0}
    BY DEF Complete, Chain
  <2>2. ASSUME NEW i \in 1..Len(p) PROVE p[i].from \in Nat /\ p[i].size \in Nat
    <3>1. p[i] \in Fragment
      OBVIOUS
    <3> QED
      BY <3>1 DEF Fragment
  <2> QED
    BY <2>1, <2>2 DEF Complete, Chain
<1>2. ASSUME NEW i \in 1..Len(p) PROVE p[i].from = w[i - 1] /\ w[i] = w[i - 1] + p[i].size
  <2>1. CASE i = 1
    BY <1>1, <2>1
  <2>2. CASE i # 1
    <3>1. i - 1 \in 1..(Len(p) - 1) /\ (i - 1) + 1 = i /\ i - 1 \in 0..Len(p) /\ i - 1 # 0
      BY <1>1, <2>2
    <3>2. p[i].from = p[i - 1].from + p[i - 1].size
      BY <1>1, <3>1
    <3> QED
      BY <1>1, <3>1, <3>2
  <2> QED
    BY <2>1, <2>2
<1>3. w = [i \in 0..Len(p) |-> body(w, i)]
  <2>1. ASSUME NEW i \in 0..Len(p) PROVE w[i] = body(w, i)
    BY <1>1, <1>2
  <2> QED
    BY <2>1
<1> HIDE DEF w
<1>4. u = [i \in 0..Len(p) |-> body(u, i)]
  <2>1. \E v : v = [i \in 0..Len(p) |-> body(v, i)]
    BY <1>3
  <2> QED
    BY <2>1 DEF PartsUpTo
<1> HIDE DEF u
<1> DEFINE T == {n \in Nat : n <= Len(p) => u[n] = w[n]}
<1>5. 0 \in T
  BY <1>1, <1>3, <1>4
<1>6. ASSUME NEW n \in Nat, n \in T PROVE n + 1 \in T
  <2> SUFFICES ASSUME n + 1 <= Len(p) PROVE u[n + 1] = w[n + 1]
    OBVIOUS
  <2>1. n + 1 \in 1..Len(p) /\ n + 1 \in 0..Len(p) /\ (n + 1) - 1 = n /\ n + 1 # 0 /\ n <= Len(p)
    BY <1>1
  <2>2. u[n + 1] = u[n] + p[n + 1].size
    BY <1>4, <2>1
  <2>3. w[n + 1] = w[n] + p[n + 1].size
    BY <1>2, <2>1
  <2> QED
    BY <1>6, <2>1, <2>2, <2>3
<1>7. Nat \subseteq T
  <2> HIDE DEF T
  <2> QED
    BY <1>5, <1>6, Induction
<1>8. ASSUME NEW i \in 1..Len(p) PROVE p[i].msg = lg[p[1].msg].id /\ p[i].from = u[i - 1]
  <2>1. i - 1 \in T /\ i - 1 <= Len(p)
    BY <1>1, <1>7
  <2>2. lg[p[1].msg].id = p[1].msg
    BY <1>1 DEF LogOk
  <2> QED
    BY <1>1, <1>2, <2>1, <2>2
<1>9. u[Len(p)] = lg[p[1].msg].size
  <2>1. Len(p) \in T /\ Len(p) \in 1..Len(p) /\ Len(p) \in 0..Len(p) /\ Len(p) # 0
    BY <1>1, <1>7
  <2>2. w[Len(p)] = p[Len(p)].from + p[Len(p)].size
    BY <2>1 DEF w
  <2>3. u[Len(p)] = w[Len(p)]
    BY <1>1, <2>1
  <2> QED
    BY <1>1, <2>2, <2>3
<1> QED
  BY <1>8, <1>9, WholeParts DEF u

LEMMA ChannelCorrect ==
    ASSUME NEW h, ChannelInv(h)
    PROVE  DeliveredWhole /\ ForgottenOnlyIfReceived /\ AckDescribesBuffer
<1>1. /\ FlowOk(flow, h, log, stageSending) /\ stageSending \in Nat
      /\ log \in Seq(Message) /\ LogOk(log)
  BY CoverFacts, QueuedTypes DEF ChannelInv, ReceiverInv
<1>2. DeliveredWhole
  <2>1. ASSUME NEW i \in 1..Len(flow.delivered), NEW p, p = flow.delivered[i]
        PROVE  p[1].msg \in 1..Len(log) /\ Whole(p, log[p[1].msg])
    <3>1. p \in Seq(Fragment) /\ Complete(p, log)
      BY <1>1, <2>1 DEF FlowOk, IsFlow, Deliveries
    <3> QED
      BY <1>1, <3>1, CompleteWhole DEF Complete
  <2> QED
    BY <2>1 DEF DeliveredWhole
<1>3. ForgottenOnlyIfReceived
  <2>1. ~completed(flow) => flowOpen
    BY <1>1 DEF completed, FlowOk, flowOpen
  <2> QED
    BY <2>1 DEF ForgottenOnlyIfReceived, ChannelInv, AckInv, Confirmed
<1>4. AckDescribesBuffer
  <2>1. /\ \A s \in DOMAIN flow.fragments : s > flow.stage + 1
        /\ announced(buildAck(flow)) = DOMAIN flow.fragments
    BY <1>1, AckExact
  <2> QED
    BY <2>1 DEF AckDescribesBuffer
<1> QED
  BY <1>2, <1>3, <1>4

LEMMA ChannelInvariant == ChannelSpec => [](\E h : ChannelInv(h))
<1>1. ChannelInit => \E h : ChannelInv(h)
  BY ChannelStart
<1>2. (\E h : ChannelInv(h)) /\ [ChannelNext]_channelVars => (\E h : ChannelInv(h))'
  BY ChannelStep
<1> QED
  BY <1>1, <1>2, PTL DEF ChannelSpec

\* RTMFPFlow::output: whatever UDP did, what the stream gets is a message of
\* the application, whole.
THEOREM DeliveriesAreWhole == ChannelSpec => []DeliveredWhole
<1>1. (\E h : ChannelInv(h)) => DeliveredWhole
  BY ChannelCorrect
<1> QED
  BY <1>1, ChannelInvariant, PTL

\* RTMFPAcquiter::run: a packet leaves `sending` only when the flow has all
\* its stages, although acknowledgments come late, twice and in any order.
THEOREM ForgottenIsReceived == ChannelSpec => []ForgottenOnlyIfReceived
<1>1. (\E h : ChannelInv(h)) => ForgottenOnlyIfReceived
  BY ChannelCorrect
<1> QED
  BY <1>1, ChannelInvariant, PTL

\* RTMFPFlow::buildAck: its differences do not underflow and the ranges it
\* writes are the stages held back, for every content of _fragments.
THEOREM AcknowledgmentIsExact == ChannelSpec => []AckDescribesBuffer
<1>1. (\E h : ChannelInv(h)) => AckDescribesBuffer
  BY ChannelCorrect
<1> QED
  BY <1>1, ChannelInvariant, PTL

-----------------------------------------------------------------------------
(* The channel implements the stream of messages.                          *)

LEMMA IdsType ==
    ASSUME NEW ds, ds \in Seq(Seq(Fragment)), NEW S, \A i \in 1..Len(ds) : ds[i][1].msg \in S
    PROVE  Ids(ds) \in Seq(S) /\ Len(Ids(ds)) = Len(ds)
<1>1. PICK n : n = Len(ds)
  OBVIOUS
<1>2. PICK ids : ids = Ids(ds)
  OBVIOUS
<1>3. n \in Nat /\ ids \in [1..n -> S]
  BY <1>1, <1>2 DEF Ids
<1>4. ids \in Seq(S) /\ Len(ids) = n
  BY <1>3
<1> QED
  BY <1>1, <1>2, <1>4

LEMMA IdsOf ==
    ASSUME NEW ds, ds \in Seq(Seq(Fragment))
    PROVE  LET ids == Ids(ds) IN
           /\ Len(ids) = Len(ds) /\ Len(ds) \in Nat
           /\ ids = <<>> <=> ds = <<>>
           /\ \A i \in 1..Len(ds) : ids[i] = ds[i][1].msg
<1>1. PICK S : S = {ds[i][1].msg : i \in 1..Len(ds)}
  OBVIOUS
<1>2. \A i \in 1..Len(ds) : ds[i][1].msg \in S
  BY <1>1
<1>3. Ids(ds) \in Seq(S) /\ Len(Ids(ds)) = Len(ds)
  BY <1>2, IdsType
<1> QED
  BY <1>3 DEF Ids

\* What a flow delivered is what the stream allows to be delivered.
LEMMA DeliveriesRegular ==
    ASSUME NEW ds, ds \in Seq(Seq(Fragment)), NEW lg, lg \in Seq(Message), Deliveries(ds, lg)
    PROVE  Stream!Regular(Ids(ds), lg)
<1>1. PICK ids : ids = Ids(ds)
  OBVIOUS
<1>2. /\ Len(ids) = Len(ds) /\ Len(ds) \in Nat /\ (ids = <<>> <=> ds = <<>>)
      /\ \A i \in 1..Len(ds) : ids[i] = ds[i][1].msg
  BY <1>1, IdsOf
<1>3. /\ \A i \in 1..Len(ds) : ids[i] \in 1..Len(lg)
      /\ \A i \in 1..(Len(ds) - 1) : ids[i] < ids[i + 1]
      /\ \A i \in 1..Len(ds) : \A m \in 1..ids[i] : lg[m].reliable => Delivered(ds, m)
  <2>1. \A i \in 1..Len(ds) : ds[i][1].msg \in 1..Len(lg)
    BY DEF Deliveries, Complete
  <2>2. ASSUME NEW i \in 1..(Len(ds) - 1) PROVE ids[i] < ids[i + 1]
    <3>1. i \in 1..Len(ds) /\ i + 1 \in 1..Len(ds)
      BY <1>2
    <3> QED
      BY <1>2, <3>1 DEF Deliveries
  <2>3. \A i \in 1..Len(ds) : \A m \in 1..ids[i] : lg[m].reliable => Delivered(ds, m)
    BY <1>2 DEF Deliveries
  <2> QED
    BY <1>2, <2>1, <2>2, <2>3
<1>4. ASSUME NEW m \in 1..Stream!last(ids), lg[m].reliable PROVE \E i \in 1..Len(ids) : ids[i] = m
  <2>1. ids # <<>>
    BY <1>4 DEF Stream!last
  <2>2. Len(ds) \in 1..Len(ds) /\ m \in 1..ids[Len(ds)]
    BY <2>1, <1>2, <1>4 DEF Stream!last
  <2>3. Delivered(ds, m)
    BY <1>3, <1>4, <2>2
  <2> QED
    BY <1>2, <2>3 DEF Delivered
<1> QED
  BY <1>1, <1>2, <1>3, <1>4 DEF Stream!Regular

LEMMA ExtendedIds ==
    ASSUME NEW ds, ds \in Seq(Seq(Fragment)), NEW es, es \in Seq(Seq(Fragment)), Extends(ds, es)
    PROVE  /\ Len(Ids(ds)) <= Len(Ids(es))
           /\ SubSeq(Ids(es), 1, Len(Ids(ds))) = Ids(ds)
<1>1. PICK a, b : a = Ids(ds) /\ b = Ids(es)
  OBVIOUS
<1>2. PICK S : S = {ds[i][1].msg : i \in 1..Len(ds)} \union {es[i][1].msg : i \in 1..Len(es)}
  OBVIOUS
<1>3. /\ a \in Seq(S) /\ b \in Seq(S) /\ Len(a) = Len(ds) /\ Len(b) = Len(es)
      /\ \A i \in 1..Len(ds) : a[i] = ds[i][1].msg
      /\ \A i \in 1..Len(es) : b[i] = es[i][1].msg
  <2>1. /\ \A i \in 1..Len(ds) : ds[i][1].msg \in S
        /\ \A i \in 1..Len(es) : es[i][1].msg \in S
    BY <1>2
  <2> QED
    BY <1>1, <2>1, IdsType, IdsOf
<1>4. Len(ds) <= Len(es) /\ Len(ds) \in Nat /\ Len(es) \in Nat
      /\ \A i \in 1..Len(ds) : i \in 1..Len(es) /\ es[i] = ds[i]
  BY DEF Extends
<1>5. \A i \in 1..Len(a) : a[i] = b[i]
  BY <1>3, <1>4
<1>6. SubSeq(b, 1, Len(a)) = a
  <2>1. /\ SubSeq(b, 1, Len(a)) \in Seq(S) /\ Len(SubSeq(b, 1, Len(a))) = Len(a)
        /\ \A i \in 1..Len(a) : SubSeq(b, 1, Len(a))[i] = b[i]
    BY <1>3, <1>4
  <2> QED
    BY <2>1, <1>3, <1>5
<1> QED
  BY <1>1, <1>3, <1>4, <1>6

LEMMA DeliveredIdsOf == DeliveredIds = Ids(flow.delivered)
BY DEF DeliveredIds, Ids

\* A step of the sender writes a message or does nothing that the stream sees.
LEMMA SenderSteps ==
    ASSUME TypeInv, [WriterNext]_writerVars, UNCHANGED flow
    PROVE  [Stream!StreamNext]_Stream!streamVars
<1>1. log \in Seq(Message)
  BY QueuedTypes
<1>2. ASSUME NEW size, NEW reliable, newMessage(size, reliable) PROVE \E m : log' = Append(log, m)
  BY <1>2 DEF newMessage
<1>3. flush \/ anyAck \/ consumed \/ outside => log' = log
  BY DEF flush, flushMessages, stopRepeat, timedRepeat, anyAck, acquit, consumed, outside, mainVars
<1>4. ASSUME NEW error, close(error) PROVE log' = log
  BY <1>4 DEF close
<1>5. sendingThread => log' = log
  BY DEF sendingThread, startMessenger, startAcquiter, startRepeater, start, writeFragment,
         endMessenger, ackPacket, endAcquiter, sendPacket, sendFailure, endRun, mainVars
<1>6. UNCHANGED writerVars => log' = log
  BY DEF writerVars, mainVars
<1>7. UNCHANGED <<DeliveredIds, flow.ended>>
  BY DEF DeliveredIds
<1>8. log' = log => UNCHANGED Stream!streamVars
  BY <1>7 DEF Stream!streamVars
<1>9. ASSUME NEW m, log' = Append(log, m) PROVE Stream!Write
  <2>1. Len(log') = Len(log) + 1 /\ SubSeq(log', 1, Len(log)) = log
    BY <1>1, <1>9
  <2> QED
    BY <2>1, <1>7 DEF Stream!Write
<1> QED
  BY <1>2, <1>3, <1>4, <1>5, <1>6, <1>8, <1>9 DEF WriterNext, Stream!StreamNext

\* A datagram delivers what the stream allows.
LEMMA ReceiverSteps ==
    ASSUME NEW h, ChannelInv(h), NEW d \in wire, receive(d)
    PROVE  [Stream!StreamNext]_Stream!streamVars
<1>1. /\ TypeInv /\ StageInv /\ ScriptInv(h) /\ WrittenInv(h) /\ ReceiverInv(h)
      /\ AbandonedInv(h) /\ ApartInv /\ WholeInv
  BY DEF ChannelInv
<1>2. /\ FlowOk(flow, h, log, stageSending) /\ FlowOk(flow', h, log, stageSending)
      /\ Advance(flow, flow') /\ (flowOpen' => flowOpen)
  BY <1>1, ReceiveFlow DEF ReceiverInv
<1>3. log' = log /\ log \in Seq(Message)
  BY QueuedTypes, <1>1 DEF receive, mainVars
<1>4. CASE flow.stageEnd # 0
  <2>1. flow'.delivered = flow.delivered /\ flow'.ended = flow.ended
    BY <1>2, <1>4 DEF Advance
  <2>2. UNCHANGED <<DeliveredIds, flow.ended>>
    BY <2>1 DEF DeliveredIds
  <2> QED
    BY <1>3, <2>2 DEF Stream!streamVars
<1>5. CASE flow.stageEnd = 0
  <2>1. flow.ended = 0 /\ flow'.ended \in {0, 1}
    BY <1>2, <1>5 DEF FlowOk
  <2>2. PICK ds, es : ds = flow.delivered /\ es = flow'.delivered
    OBVIOUS
  <2>3. /\ ds \in Seq(Seq(Fragment)) /\ es \in Seq(Seq(Fragment))
        /\ Extends(ds, es) /\ Deliveries(es, log)
    BY <1>2, <2>2 DEF FlowOk, IsFlow, Advance
  <2>4. DeliveredIds = Ids(ds) /\ DeliveredIds' = Ids(es)
    BY <2>2, DeliveredIdsOf DEF DeliveredIds, Ids
  <2>5. Len(Ids(ds)) <= Len(Ids(es)) /\ SubSeq(Ids(es), 1, Len(Ids(ds))) = Ids(ds)
    BY <2>3, ExtendedIds
  <2>6. Stream!Regular(Ids(es), log)
    BY <1>3, <2>3, DeliveriesRegular
  <2>7. Len(Ids(es)) \in Nat /\ Len(Ids(ds)) \in Nat
    BY <2>3, IdsOf
  <2>8. Stream!Deliver
    BY <1>3, <2>1, <2>4, <2>5, <2>6, <2>7 DEF Stream!Deliver
  <2> QED
    BY <2>8 DEF Stream!StreamNext
<1> QED
  BY <1>4, <1>5

LEMMA StreamSteps ==
    ASSUME NEW h, ChannelInv(h), [ChannelNext]_channelVars
    PROVE  [Stream!StreamNext]_Stream!streamVars
<1>1. TypeInv /\ AckTypes
  BY DEF ChannelInv
<1>2. CASE writerStep /\ UNCHANGED flow
  <2>1. [WriterNext]_writerVars
    BY <1>2, WriterStepNext, SessionStep
  <2> QED
    BY <1>1, <1>2, <2>1, SenderSteps
<1>3. ASSUME NEW d \in wire, receive(d) PROVE [Stream!StreamNext]_Stream!streamVars
  BY <1>3, ReceiverSteps
<1>4. ASSUME NEW a \in acks, receiveAcknowledgment(a)
      PROVE  [Stream!StreamNext]_Stream!streamVars
  <2>1. [WriterNext]_writerVars /\ UNCHANGED flow
    BY <1>1, <1>4, AcknowledgmentMoves
  <2> QED
    BY <1>1, <2>1, SenderSteps
<1>5. CASE UNCHANGED channelVars
  <2>1. UNCHANGED writerVars /\ UNCHANGED flow
    BY <1>5 DEF channelVars
  <2> QED
    BY <1>1, <2>1, SenderSteps
<1> QED
  BY <1>2, <1>3, <1>4, <1>5 DEF ChannelNext

\* RTMFPWriter to RTMFPFlow: messages arrive in order, at most once, no
\* reliable one is skipped and nothing follows the end.
THEOREM ChannelIsStream == ChannelSpec => ImplementsMessageStream
<1>1. ChannelInit => Stream!StreamInit
  <2> SUFFICES ASSUME ChannelInit PROVE Stream!StreamInit
    OBVIOUS
  <2>1. log = <<>> /\ flow.delivered = <<>> /\ flow.ended = 0
    BY DEF ChannelInit, WriterInit, NewFlow
  <2>2. Len(flow.delivered) = 0
    BY <2>1
  <2>3. DeliveredIds = <<>>
    BY <2>2 DEF DeliveredIds
  <2> QED
    BY <2>1, <2>3 DEF Stream!StreamInit
<1>2. (\E h : ChannelInv(h)) /\ [ChannelNext]_channelVars => [Stream!StreamNext]_Stream!streamVars
  BY StreamSteps
<1>3. ChannelSpec => Stream!StreamSpec
  BY <1>1, <1>2, ChannelInvariant, PTL DEF ChannelSpec, Stream!StreamSpec
<1> QED
  BY <1>3 DEF ImplementsMessageStream

-----------------------------------------------------------------------------
(* The sum that sizeOf computes, in whatever order CHOOSE visits a set.    *)

Weight(fr, S, s) == IF s \in S THEN fr[s].size ELSE 0

\* The content units of the stages of S up to each k.
SumTo(fr, S, n) ==
    LET sum[k \in 0..n] == IF k = 0 THEN 0 ELSE sum[k - 1] + Weight(fr, S, k)
    IN  sum

Total(fr, S, n) == SumTo(fr, S, n)[n]

Weighed(fr, S, n) == S \subseteq 1..n /\ \A s \in S : fr[s].size \in Nat

LEMMA SumSteps ==
    ASSUME NEW fr, NEW S, NEW n, n \in Nat
    PROVE  /\ SumTo(fr, S, n)[0] = 0
           /\ \A k \in 1..n : SumTo(fr, S, n)[k] = SumTo(fr, S, n)[k - 1] + Weight(fr, S, k)
<1> DEFINE body(g, i) == IF i = 0 THEN 0 ELSE g[i - 1] + Weight(fr, S, i)
           T == {m \in Nat : \E g : g = [i \in 0..m |-> body(g, i)]}
           u == SumTo(fr, S, n)
<1>1. 0 \in T
  <2> DEFINE g == [i \in 0..0 |-> 0]
  <2>1. \A i \in 0..0 : i = 0
    OBVIOUS
  <2>2. g = [i \in 0..0 |-> body(g, i)]
    BY <2>1
  <2> QED
    BY <2>2
<1>2. ASSUME NEW m \in Nat, m \in T PROVE m + 1 \in T
  <2>1. PICK g : g = [i \in 0..m |-> body(g, i)]
    BY <1>2
  <2> DEFINE e == [i \in 0..(m + 1) |-> IF i = m + 1 THEN g[m] + Weight(fr, S, i) ELSE g[i]]
  <2>2. ASSUME NEW i \in 0..(m + 1) PROVE e[i] = body(e, i)
    <3>1. CASE i = m + 1
      <4>1. i - 1 = m /\ m \in 0..(m + 1) /\ m # m + 1 /\ i # 0
        BY <3>1
      <4>2. e[i - 1] = g[m]
        BY <4>1
      <4> QED
        BY <3>1, <4>1, <4>2
    <3>2. CASE i # m + 1
      <4>1. i \in 0..m
        BY <3>2
      <4>2. e[i] = g[i] /\ g[i] = body(g, i)
        BY <3>2, <4>1, <2>1
      <4>3. i # 0 => i - 1 \in 0..(m + 1) /\ i - 1 # m + 1
        BY <4>1
      <4>4. i # 0 => e[i - 1] = g[i - 1]
        BY <4>3
      <4> QED
        BY <4>2, <4>4
    <3> QED
      BY <3>1, <3>2
  <2>3. e = [i \in 0..(m + 1) |-> body(e, i)]
    BY <2>2
  <2> HIDE DEF e
  <2> QED
    BY <2>3
<1> HIDE DEF T
<1>3. n \in T
  BY <1>1, <1>2, Induction
<1>4. \E g : g = [i \in 0..n |-> body(g, i)]
  BY <1>3 DEF T
<1>5. u = [i \in 0..n |-> IF i = 0 THEN 0 ELSE u[i - 1] + Weight(fr, S, i)]
  BY <1>4 DEF SumTo
<1> HIDE DEF u
<1>6. 0 \in 0..n /\ \A i \in 1..n : i \in 0..n /\ i # 0
  OBVIOUS
<1> QED
  BY <1>5, <1>6 DEF u

AddsUp(n, a, A, b, B, c, C) ==
    /\ Total(b, B, n) \in Nat /\ Total(c, C, n) \in Nat
    /\ Total(a, A, n) = Total(b, B, n) + Total(c, C, n)

\* Sums add up as their weights do.
LEMMA SumAdds ==
    ASSUME NEW n, n \in Nat, NEW a, NEW A, NEW b, NEW B, NEW c, NEW C,
           \A s \in 1..n : /\ Weight(b, B, s) \in Nat /\ Weight(c, C, s) \in Nat
                           /\ Weight(a, A, s) = Weight(b, B, s) + Weight(c, C, s)
    PROVE  AddsUp(n, a, A, b, B, c, C)
<1> DEFINE Good(k) == /\ SumTo(b, B, n)[k] \in Nat /\ SumTo(c, C, n)[k] \in Nat
                      /\ SumTo(a, A, n)[k] = SumTo(b, B, n)[k] + SumTo(c, C, n)[k]
           T == {k \in Nat : k <= n => Good(k)}
<1>1. 0 \in T
  BY SumSteps
<1>2. ASSUME NEW k \in Nat, k \in T PROVE k + 1 \in T
  <2> SUFFICES ASSUME k + 1 <= n PROVE Good(k + 1)
    OBVIOUS
  <2>1. k + 1 \in 1..n /\ (k + 1) - 1 = k /\ k <= n
    OBVIOUS
  <2>2. Good(k)
    BY <1>2, <2>1
  <2>3. /\ SumTo(a, A, n)[k + 1] = SumTo(a, A, n)[k] + Weight(a, A, k + 1)
        /\ SumTo(b, B, n)[k + 1] = SumTo(b, B, n)[k] + Weight(b, B, k + 1)
        /\ SumTo(c, C, n)[k + 1] = SumTo(c, C, n)[k] + Weight(c, C, k + 1)
    BY <2>1, SumSteps
  <2>4. /\ Weight(b, B, k + 1) \in Nat /\ Weight(c, C, k + 1) \in Nat
        /\ Weight(a, A, k + 1) = Weight(b, B, k + 1) + Weight(c, C, k + 1)
    BY <2>1
  <2> HIDE DEF T
  <2> QED
    BY <2>2, <2>3, <2>4
<1> HIDE DEF T
<1>3. n \in T
  BY <1>1, <1>2, Induction
<1> QED
  BY <1>3 DEF T, Total, AddsUp

LEMMA SumNone ==
    ASSUME NEW n, n \in Nat, NEW fr
    PROVE  Total(fr, {}, n) = 0
<1>1. \A s : Weight(fr, {}, s) = 0
  BY DEF Weight
<1>2. AddsUp(n, fr, {}, fr, {}, fr, {})
  BY <1>1, SumAdds
<1>3. PICK x : x = Total(fr, {}, n)
  OBVIOUS
<1>4. x \in Nat /\ x = x + x
  BY <1>2, <1>3 DEF AddsUp
<1>5. ASSUME NEW k \in Nat, k = k + k PROVE k = 0
  BY <1>5
<1>6. x = 0
  BY <1>4, <1>5
<1> QED
  BY <1>3, <1>6

LEMMA SumSplit ==
    ASSUME NEW n, n \in Nat, NEW fr, NEW A, Weighed(fr, A, n), NEW B, B \subseteq A
    PROVE  /\ Total(fr, B, n) \in Nat /\ Total(fr, A \ B, n) \in Nat
           /\ Total(fr, A, n) = Total(fr, B, n) + Total(fr, A \ B, n)
<1>1. PICK C : C = A \ B
  OBVIOUS
<1>2. ASSUME NEW s \in 1..n
      PROVE  /\ Weight(fr, B, s) \in Nat /\ Weight(fr, C, s) \in Nat
             /\ Weight(fr, A, s) = Weight(fr, B, s) + Weight(fr, C, s)
  <2>1. s \in A => fr[s].size \in Nat
    BY DEF Weighed
  <2> QED
    BY <1>1, <2>1 DEF Weight
<1>3. AddsUp(n, fr, A, fr, B, fr, C)
  BY <1>2, SumAdds
<1> QED
  BY <1>1, <1>3 DEF AddsUp

LEMMA SumSame ==
    ASSUME NEW n, n \in Nat, NEW fr, NEW S, Weighed(fr, S, n), NEW g, \A s \in S : g[s] = fr[s]
    PROVE  Total(g, S, n) = Total(fr, S, n)
<1>1. ASSUME NEW s \in 1..n
      PROVE  /\ Weight(fr, S, s) \in Nat /\ Weight(fr, {}, s) \in Nat
             /\ Weight(g, S, s) = Weight(fr, S, s) + Weight(fr, {}, s)
  <2>1. s \in S => fr[s].size \in Nat
    BY DEF Weighed
  <2> QED
    BY <2>1 DEF Weight
<1>2. AddsUp(n, g, S, fr, S, fr, {})
  BY <1>1, SumAdds
<1> QED
  BY <1>2, SumNone DEF AddsUp

LEMMA SumOne ==
    ASSUME NEW n, n \in Nat, NEW fr, NEW s, s \in 1..n, fr[s].size \in Nat
    PROVE  Total(fr, {s}, n) = fr[s].size
<1> DEFINE Good(k) == SumTo(fr, {s}, n)[k] = IF s <= k THEN fr[s].size ELSE 0
           T == {k \in Nat : k <= n => Good(k)}
<1>1. 0 \in T
  BY SumSteps
<1>2. ASSUME NEW k \in Nat, k \in T PROVE k + 1 \in T
  <2> SUFFICES ASSUME k + 1 <= n PROVE Good(k + 1)
    OBVIOUS
  <2>1. k + 1 \in 1..n /\ (k + 1) - 1 = k /\ k <= n
    OBVIOUS
  <2>2. Good(k)
    BY <1>2, <2>1
  <2>3. SumTo(fr, {s}, n)[k + 1] = SumTo(fr, {s}, n)[k] + Weight(fr, {s}, k + 1)
    BY <2>1, SumSteps
  <2>4. Weight(fr, {s}, k + 1) = IF s = k + 1 THEN fr[s].size ELSE 0
    BY DEF Weight
  <2> HIDE DEF T
  <2> QED
    BY <2>2, <2>3, <2>4
<1> HIDE DEF T
<1>3. n \in T
  BY <1>1, <1>2, Induction
<1> QED
  BY <1>3 DEF T, Total

\* The function that sizeOf defines over the subsets of its stages.
Sizing(fr, S) ==
    LET sizes[X \in SUBSET S] ==
            IF X = {} THEN 0
            ELSE LET s == CHOOSE x \in X : TRUE IN fr[s].size + sizes[X \ {s}]
    IN  sizes

LEMMA SizeIsTotal ==
    ASSUME NEW n, n \in Nat, NEW fr, NEW S, Weighed(fr, S, n)
    PROVE  sizeOf(fr, S) = Total(fr, S, n)
<1> DEFINE body(g, X) == IF X = {} THEN 0
                         ELSE LET s == CHOOSE x \in X : TRUE IN fr[s].size + g[X \ {s}]
           w == [X \in SUBSET S |-> Total(fr, X, n)]
           z == Sizing(fr, S)
<1>1. ASSUME NEW X, X \in SUBSET S, X # {}, NEW s, s = CHOOSE x \in X : TRUE
      PROVE  /\ s \in X /\ X \ {s} \in SUBSET S /\ fr[s].size \in Nat
             /\ Total(fr, X, n) = fr[s].size + Total(fr, X \ {s}, n)
  <2>1. s \in X
    BY <1>1
  <2>2. Weighed(fr, X, n) /\ {s} \subseteq X /\ s \in 1..n /\ fr[s].size \in Nat
    BY <1>1, <2>1 DEF Weighed
  <2>3. Total(fr, X, n) = Total(fr, {s}, n) + Total(fr, X \ {s}, n)
    BY <2>2, SumSplit
  <2>4. Total(fr, {s}, n) = fr[s].size
    BY <2>2, SumOne
  <2> QED
    BY <1>1, <2>1, <2>2, <2>3, <2>4
<1>2. w = [X \in SUBSET S |-> body(w, X)]
  <2>1. ASSUME NEW X \in SUBSET S PROVE w[X] = body(w, X)
    <3>1. CASE X = {}
      BY <3>1, SumNone
    <3>2. CASE X # {}
      <4>1. PICK s : s = CHOOSE x \in X : TRUE
        OBVIOUS
      <4>2. /\ X \ {s} \in SUBSET S
            /\ Total(fr, X, n) = fr[s].size + Total(fr, X \ {s}, n)
        BY <1>1, <3>2, <4>1
      <4>3. w[X \ {s}] = Total(fr, X \ {s}, n) /\ w[X] = Total(fr, X, n)
        BY <4>2
      <4>4. body(w, X) = fr[s].size + w[X \ {s}]
        BY <3>2, <4>1
      <4> QED
        BY <4>2, <4>3, <4>4
    <3> QED
      BY <3>1, <3>2
  <2> QED
    BY <2>1
<1> HIDE DEF w
<1>3. z = [X \in SUBSET S |-> body(z, X)]
  <2>1. \E g : g = [X \in SUBSET S |-> body(g, X)]
    BY <1>2
  <2> QED
    BY <2>1 DEF Sizing
<1> HIDE DEF z
<1> DEFINE T == {k \in Nat : \A X \in SUBSET S :
                                IsFiniteSet(X) /\ Cardinality(X) = k => z[X] = w[X]}
<1>4. 0 \in T
  <2>1. ASSUME NEW X \in SUBSET S, IsFiniteSet(X), Cardinality(X) = 0 PROVE z[X] = w[X]
    <3>1. X = {}
      BY <2>1, FS_EmptySet
    <3> QED
      BY <3>1, <1>2, <1>3
  <2> QED
    BY <2>1
<1>5. ASSUME NEW k \in Nat, k \in T PROVE k + 1 \in T
  <2>1. ASSUME NEW X \in SUBSET S, IsFiniteSet(X), Cardinality(X) = k + 1 PROVE z[X] = w[X]
    <3>1. X # {}
      BY <2>1, FS_EmptySet
    <3>2. PICK s : s = CHOOSE x \in X : TRUE
      OBVIOUS
    <3>3. s \in X /\ X \ {s} \in SUBSET S
      BY <1>1, <3>1, <3>2
    <3>4. IsFiniteSet(X \ {s}) /\ Cardinality(X \ {s}) = k
      BY <2>1, <3>3, FS_RemoveElement
    <3>5. z[X \ {s}] = w[X \ {s}]
      BY <1>5, <3>3, <3>4
    <3>6. z[X] = fr[s].size + z[X \ {s}] /\ w[X] = fr[s].size + w[X \ {s}]
      BY <1>2, <1>3, <3>1, <3>2
    <3> QED
      BY <3>5, <3>6
  <2> QED
    BY <2>1
<1> HIDE DEF T
<1>6. Nat \subseteq T
  BY <1>4, <1>5, Induction
<1>7. IsFiniteSet(S) /\ Cardinality(S) \in Nat
  <2>1. S \in SUBSET Nat /\ \A s \in S : s <= n
    BY DEF Weighed
  <2>2. IsFiniteSet(S)
    BY <2>1, FS_BoundedSetOfNaturals
  <2> QED
    BY <2>2, FS_CardinalityType
<1>8. z[S] = w[S]
  <2>1. S \in SUBSET S /\ Cardinality(S) \in T
    BY <1>6, <1>7
  <2> QED
    BY <1>7, <2>1 DEF T
<1>9. sizeOf(fr, S) = z[S]
  BY DEF sizeOf, Sizing, z
<1>10. w[S] = Total(fr, S, n)
  BY DEF w
<1> QED
  BY <1>8, <1>9, <1>10

-----------------------------------------------------------------------------
(* _fragmentation is the size of what _fragments holds.                    *)

\* A flow whose counter is right, with no stage after n.
Sized(f, n) ==
    /\ DOMAIN f.fragments \subseteq 1..n
    /\ \A s \in DOMAIN f.fragments : f.fragments[s] \in Fragment
    /\ f.fragmentation = sizeOf(f.fragments, DOMAIN f.fragments)

LEMMA SizedWeighs ==
    ASSUME NEW f, NEW n, Sized(f, n)
    PROVE  Weighed(f.fragments, DOMAIN f.fragments, n)
BY DEF Sized, Weighed, Fragment

\* What only touches other fields keeps it right.
LEMMA SizedUntouched ==
    ASSUME NEW f, NEW n, Sized(f, n), NEW r,
           r.fragments = f.fragments, r.fragmentation = f.fragmentation
    PROVE  Sized(r, n)
BY DEF Sized

LEMMA SizedNone ==
    ASSUME NEW n, n \in Nat, NEW f, DOMAIN f.fragments = {}, f.fragmentation = 0
    PROVE  Sized(f, n)
<1>1. Weighed(f.fragments, {}, n)
  BY DEF Weighed
<1>2. sizeOf(f.fragments, {}) = 0
  BY <1>1, SizeIsTotal, SumNone
<1> QED
  BY <1>2 DEF Sized

LEMMA SizedErase ==
    ASSUME NEW n, n \in Nat, NEW f, IsFlow(f), Sized(f, n), NEW S, S \subseteq DOMAIN f.fragments
    PROVE  Sized(erase(f, S), n)
<1>1. PICK D, fr, r : D = DOMAIN f.fragments /\ fr = f.fragments /\ r = erase(f, S)
  OBVIOUS
<1>2. PICK g : g = [s \in D \ S |-> fr[s]]
  OBVIOUS
<1>3. r.fragments = g /\ r.fragmentation = f.fragmentation - sizeOf(fr, S)
  <2>1. r = [f EXCEPT !.fragments = g, !.fragmentation = f.fragmentation - sizeOf(fr, S)]
    BY <1>1, <1>2 DEF erase
  <2> QED
    BY <2>1 DEF IsFlow
<1>4. /\ Weighed(fr, D, n) /\ Weighed(fr, S, n) /\ Weighed(fr, D \ S, n)
      /\ f.fragmentation = sizeOf(fr, D) /\ D \subseteq 1..n
  BY <1>1, SizedWeighs DEF Weighed, Sized
<1>5. Weighed(g, D \ S, n) /\ \A s \in D \ S : g[s] = fr[s]
  BY <1>2, <1>4 DEF Weighed
<1>6. /\ sizeOf(fr, D) = Total(fr, D, n) /\ sizeOf(fr, S) = Total(fr, S, n)
      /\ sizeOf(g, D \ S) = Total(g, D \ S, n)
  BY <1>4, <1>5, SizeIsTotal
<1>7. Total(g, D \ S, n) = Total(fr, D \ S, n)
  BY <1>4, <1>5, SumSame
<1>8. /\ Total(fr, S, n) \in Nat /\ Total(fr, D \ S, n) \in Nat
      /\ Total(fr, D, n) = Total(fr, S, n) + Total(fr, D \ S, n)
  <2>1. S \subseteq D
    BY <1>1
  <2> QED
    BY <1>4, <2>1, SumSplit
<1>9. f.fragmentation - sizeOf(fr, S) = sizeOf(g, D \ S)
  BY <1>4, <1>6, <1>7, <1>8
<1>10. DOMAIN g = D \ S /\ \A s \in D \ S : g[s] \in Fragment
  BY <1>1, <1>2 DEF Sized
<1> QED
  BY <1>1, <1>3, <1>4, <1>9, <1>10 DEF Sized

LEMMA SizedBuffer ==
    ASSUME NEW n, n \in Nat, NEW f, IsFlow(f), Sized(f, n), NEW s, s \in 1..n,
           NEW g, g \in Fragment
    PROVE  Sized(bufferFragment(f, s, g), n)
<1>1. CASE s \in DOMAIN f.fragments
  BY <1>1 DEF bufferFragment
<1>2. CASE s \notin DOMAIN f.fragments
  <2>1. PICK D, fr, r : D = DOMAIN f.fragments /\ fr = f.fragments /\ r = bufferFragment(f, s, g)
    OBVIOUS
  <2>2. PICK e : e = [x \in D \union {s} |-> IF x = s THEN g ELSE fr[x]]
    OBVIOUS
  <2>3. r.fragments = e /\ r.fragmentation = f.fragmentation + g.size
    <3>1. r = [f EXCEPT !.fragments = e, !.fragmentation = f.fragmentation + g.size]
      BY <1>2, <2>1, <2>2 DEF bufferFragment
    <3> QED
      BY <3>1 DEF IsFlow
  <2>4. /\ Weighed(fr, D, n) /\ f.fragmentation = sizeOf(fr, D) /\ D \subseteq 1..n
        /\ \A x \in D : fr[x] \in Fragment
    BY <2>1, SizedWeighs DEF Sized
  <2>5. PICK E : E = D \union {s}
    OBVIOUS
  <2>6. /\ DOMAIN e = E /\ e[s] = g /\ (\A x \in D : e[x] = fr[x])
        /\ E \subseteq 1..n /\ \A x \in E : e[x] \in Fragment
    BY <1>2, <2>1, <2>2, <2>4, <2>5
  <2>7. Weighed(e, E, n) /\ g.size \in Nat
    BY <2>6 DEF Weighed, Fragment
  <2>8. E \ {s} = D /\ {s} \subseteq E
    BY <1>2, <2>1, <2>5
  <2>9. Total(e, E, n) = Total(e, {s}, n) + Total(e, D, n) /\ Total(e, D, n) \in Nat
    BY <2>7, <2>8, SumSplit
  <2>10. Total(e, {s}, n) = g.size
    BY <2>6, <2>7, SumOne
  <2>11. Total(e, D, n) = Total(fr, D, n)
    BY <2>4, <2>6, SumSame
  <2>12. sizeOf(e, E) = Total(e, E, n) /\ sizeOf(fr, D) = Total(fr, D, n)
    BY <2>4, <2>7, SizeIsTotal
  <2>13. f.fragmentation + g.size = sizeOf(e, E)
    BY <2>4, <2>7, <2>9, <2>10, <2>11, <2>12
  <2> QED
    BY <2>1, <2>3, <2>6, <2>13 DEF Sized
<1> QED
  BY <1>1, <1>2

LEMMA SizedAbandon ==
    ASSUME NEW n, n \in Nat, NEW f, IsFlow(f), Sized(f, n), NEW s
    PROVE  Sized(abandonTo(f, s), n)
<1>1. PICK S : S = {x \in DOMAIN f.fragments : x <= s}
  OBVIOUS
<1>2. PICK e : e = erase(f, S)
  OBVIOUS
<1>3. Sized(e, n) /\ IsFlow(e)
  <2>1. S \subseteq DOMAIN f.fragments
    BY <1>1
  <2> QED
    BY <1>2, <2>1, SizedErase, EraseFields
<1>4. PICK r : r = abandonTo(f, s)
  OBVIOUS
<1>5. r = [e EXCEPT !.buffer = <<>>, !.stage = s]
  BY <1>1, <1>2, <1>4 DEF abandonTo
<1>6. r.fragments = e.fragments /\ r.fragmentation = e.fragmentation
  BY <1>3, <1>5 DEF IsFlow
<1> QED
  BY <1>3, <1>4, <1>6, SizedUntouched

\* The loop of unbuffer takes nothing out of _fragments.
LEMMA DrainSized ==
    ASSUME NEW n, n \in Nat, NEW f, IsFlow(f), Sized(f, n),
           NEW top, top \in Nat, f.stage <= top, (f.stage + 1)..top \subseteq DOMAIN f.fragments
    PROVE  LET r == Drain(f, top)[top] IN
           IsFlow(r) /\ r.fragments = f.fragments /\ r.fragmentation = f.fragmentation
<1> DEFINE Good(r) == IsFlow(r) /\ r.fragments = f.fragments /\ r.fragmentation = f.fragmentation
           T == {k \in Nat : f.stage + k <= top => Good(Drain(f, top)[f.stage + k])}
<1>1. f.stage \in Nat
  BY DEF IsFlow
<1>2. 0 \in T
  <2>1. Drain(f, top)[f.stage] = f /\ f.stage + 0 = f.stage
    BY <1>1, DrainSteps
  <2> QED
    BY <2>1
<1>3. ASSUME NEW k \in Nat, k \in T PROVE k + 1 \in T
  <2> SUFFICES ASSUME f.stage + (k + 1) <= top PROVE Good(Drain(f, top)[f.stage + (k + 1)])
    OBVIOUS
  <2>1. PICK s : s = f.stage + (k + 1)
    OBVIOUS
  <2>2. s \in (f.stage + 1)..top /\ s - 1 = f.stage + k /\ s \in Nat /\ f.stage + k <= top
    BY <1>1, <2>1
  <2>3. PICK e : e = Drain(f, top)[s - 1]
    OBVIOUS
  <2>4. Good(e)
    BY <1>3, <2>2, <2>3
  <2>5. Drain(f, top)[s] = onFragment(e, s, f.fragments[s])
    BY <1>1, <2>2, <2>3, DrainSteps
  <2>6. s \in DOMAIN f.fragments /\ f.fragments[s] \in Fragment
    BY <2>2 DEF Sized
  <2>7. Good(onFragment(e, s, f.fragments[s]))
    BY <2>2, <2>4, <2>6, OnFragmentFields
  <2> QED
    BY <2>1, <2>5, <2>7
<1> HIDE DEF T
<1>4. top - f.stage \in T /\ f.stage + (top - f.stage) = top
  BY <1>1, <1>2, <1>3, Induction
<1> QED
  BY <1>4 DEF T

LEMMA SizedUnbuffer ==
    ASSUME NEW n, n \in Nat, NEW f, IsFlow(f), Sized(f, n),
           \A s \in DOMAIN f.fragments : s > f.stage
    PROVE  IsFlow(unbuffer(f)) /\ Sized(unbuffer(f), n)
<1>1. f.stage \in Nat /\ \A s \in DOMAIN f.fragments : s \in Nat /\ s > f.stage /\ s <= n
  BY DEF IsFlow, Sized
<1>2. PICK top : top = StageAfter(f)
  OBVIOUS
<1>3. /\ top \in Nat /\ f.stage <= top
      /\ following(f) = (f.stage + 1)..top
      /\ (f.stage + 1)..top \subseteq DOMAIN f.fragments
  BY <1>1, <1>2, Following
<1>4. PICK e : e = Drain(f, top)[top]
  OBVIOUS
<1>5. unbuffer(f) = erase(e, following(f))
  <2>1. unbuffer(f) = erase(Drain(f, StageAfter(f))[StageAfter(f)], following(f))
    BY DEF unbuffer, Drain, StageAfter
  <2> QED
    BY <2>1, <1>2, <1>4
<1>6. IsFlow(e) /\ e.fragments = f.fragments /\ e.fragmentation = f.fragmentation
  BY <1>3, <1>4, DrainSized
<1>7. Sized(e, n)
  BY <1>6, SizedUntouched
<1>8. following(f) \subseteq DOMAIN e.fragments
  BY <1>3, <1>6
<1>9. PICK S, r : S = following(f) /\ r = erase(e, S)
  OBVIOUS
<1>10. IsFlow(r)
  BY <1>6, <1>9, EraseFields
<1>11. Sized(r, n)
  BY <1>6, <1>7, <1>8, <1>9, SizedErase
<1> QED
  BY <1>5, <1>9, <1>10, <1>11

LEMMA SizedSignal ==
    ASSUME NEW n, n \in Nat, NEW f, IsFlow(f), Sized(f, n)
    PROVE  Sized(signalEnd(f), n)
<1>1. PICK r : r = signalEnd(f)
  OBVIOUS
<1>2. r = f \/ r = [f EXCEPT !.ended = @ + 1]
  BY <1>1 DEF signalEnd
<1>3. r.fragments = f.fragments /\ r.fragmentation = f.fragmentation
  BY <1>2 DEF IsFlow
<1> QED
  BY <1>1, <1>3, SizedUntouched

LEMMA SizedEnds ==
    ASSUME NEW n, n \in Nat, NEW f, IsFlow(f), Sized(f, n),
           \A s \in DOMAIN f.fragments : s > f.stage
    PROVE  Sized(signalEnd(unbuffer(f)), n)
<1>1. IsFlow(unbuffer(f)) /\ Sized(unbuffer(f), n)
  BY SizedUnbuffer
<1> QED
  BY <1>1, SizedSignal

\* input() whatever it is given after the stages sent.
LEMMA SizedInput ==
    ASSUME NEW h, NEW lg, NEW n, n \in Nat, NEW f, FlowOk(f, h, lg, n), Sized(f, n),
           NEW s, s \in 1..n, NEW g, g \in Fragment
    PROVE  Sized(input(f, s, g), n)
<1>1. IsFlow(f) /\ f.stage \in Nat /\ s \in Nat
  BY DEF FlowOk, IsFlow
<1>2. CASE completed(f)
  <2>1. PICK r : r = input(f, s, g)
    OBVIOUS
  <2>2. r = [f EXCEPT !.stage = s]
    BY <1>2, <2>1 DEF input
  <2>3. r.fragments = f.fragments /\ r.fragmentation = f.fragmentation
    BY <1>1, <2>2 DEF IsFlow
  <2> QED
    BY <2>1, <2>3, SizedUntouched
<1>3. CASE ~completed(f)
  <2>1. f.stageEnd = 0
    BY <1>3 DEF FlowOk, completed
  <2>2. PICK e : e = IF g.end THEN [f EXCEPT !.stageEnd = s] ELSE f
    OBVIOUS
  <2>3. input(f, s, g) = inputStage(e, s, g)
    BY <1>3, <2>1, <2>2 DEF input
  <2>4. IsFlow(e) /\ e.stage = f.stage /\ e.fragments = f.fragments /\ e.fragmentation = f.fragmentation
    <3>1. CASE e = f
      BY <1>1, <3>1
    <3>2. CASE e = [f EXCEPT !.stageEnd = s]
      <4>1. e = [stage |-> f.stage, stageEnd |-> s, fragments |-> f.fragments,
                 fragmentation |-> f.fragmentation, buffer |-> f.buffer,
                 delivered |-> f.delivered, ended |-> f.ended]
        BY <1>1, <3>2 DEF IsFlow
      <4> QED
        BY <1>1, <4>1 DEF IsFlow
    <3> QED
      BY <2>2, <3>1, <3>2
  <2>5. Sized(e, n)
    BY <2>4, SizedUntouched
  <2>6. \A x \in DOMAIN e.fragments : x \in Nat /\ x > e.stage + 1
    <3>1. ASSUME NEW x \in DOMAIN f.fragments PROVE x \in Nat /\ x > f.stage + 1
      <4>1. x \in Nat /\ x > f.stage /\ x # f.stage + 1
        BY <2>1 DEF FlowOk, Held
      <4> QED
        BY <4>1, <1>1
    <3> QED
      BY <2>4, <3>1
  <2>7. CASE s <= e.stage
    BY <2>3, <2>5, <2>7 DEF inputStage
  <2>8. CASE ~(s <= e.stage) /\ g.abandon
    <3>1. input(f, s, g) = signalEnd(unbuffer(abandonTo(e, s)))
      BY <2>3, <2>8 DEF inputStage
    <3>2. PICK a : a = abandonTo(e, s)
      OBVIOUS
    <3>3. IsFlow(a) /\ Sized(a, n) /\ \A x \in DOMAIN a.fragments : x > a.stage
      <4>1. /\ IsFlow(a) /\ a.stage = s
            /\ a.fragments = [x \in {t \in DOMAIN e.fragments : ~(t <= s)} |-> e.fragments[x]]
        <5>1. IsFlow(e)
          BY <2>4
        <5> QED
          BY <1>1, <3>2, <5>1, AbandonFields, ZenonT(40)
      <4>2. ASSUME NEW x \in DOMAIN a.fragments PROVE x > a.stage
        <5>1. x \in DOMAIN e.fragments /\ ~(x <= s)
          BY <4>1
        <5> QED
          BY <1>1, <2>6, <4>1, <5>1
      <4> QED
        BY <2>4, <2>5, <3>2, <4>1, <4>2, SizedAbandon
    <3> QED
      BY <3>1, <3>2, <3>3, SizedEnds
  <2>9. CASE ~(s <= e.stage) /\ ~g.abandon /\ s > e.stage + 1
    <3>1. input(f, s, g) = bufferFragment(e, s, g)
      BY <2>3, <2>9 DEF inputStage
    <3> QED
      BY <2>4, <2>5, <3>1, SizedBuffer
  <2>10. CASE ~(s <= e.stage) /\ ~g.abandon /\ ~(s > e.stage + 1)
    <3>1. input(f, s, g) = signalEnd(unbuffer(onFragment(e, s, g)))
      BY <2>3, <2>10 DEF inputStage
    <3>2. PICK a : a = onFragment(e, s, g)
      OBVIOUS
    <3>3. /\ IsFlow(a) /\ a.stage = s
          /\ a.fragments = e.fragments /\ a.fragmentation = e.fragmentation
      BY <1>1, <2>4, <3>2, OnFragmentFields
    <3>4. s = e.stage + 1
      BY <1>1, <2>4, <2>10
    <3>5. Sized(a, n) /\ \A x \in DOMAIN a.fragments : x > a.stage
      BY <2>5, <2>6, <3>3, <3>4, SizedUntouched
    <3> QED
      BY <3>1, <3>2, <3>3, <3>5, SizedEnds
  <2> QED
    BY <2>7, <2>8, <2>9, <2>10
<1> QED
  BY <1>2, <1>3

\* The messages of a datagram.
LEMMA DatagramSized ==
    ASSUME NEW h, TypeInv, StageInv, ScriptInv(h), WrittenInv(h), ReceiverInv(h),
           AbandonedInv(h), Sized(flow, stageSending), NEW d, d \in wire,
           NEW k, k \in 0..Len(d.frags)
    PROVE  Sized(flowAfter(d)[k], stageSending)
<1>1. /\ log \in Seq(Message) /\ WellCut(h, log) /\ FlowOk(flow, h, log, stageSending)
      /\ stageSending \in Nat /\ stageSending <= Len(h)
  BY QueuedTypes, CoverFacts DEF WrittenInv, ReceiverInv, ScriptInv
<1>2. d.first \in Nat \ {0} /\ Len(d.frags) \in Nat \ {0}
  BY DatagramFields
<1>3. flowAfter(d)[0] = flow
  BY <1>2, FlowAfterSteps
<1>4. CASE d.frags # <<AbandonFragment>>
  <2> DEFINE T == {j \in Nat : j <= Len(d.frags) => Sized(flowAfter(d)[j], stageSending)}
  <2>1. Follows(h, d.first, d.frags) /\ d.first + Len(d.frags) - 1 <= stageSending
    BY <1>4 DEF ScriptInv, Conveys
  <2>2. 0 \in T
    BY <1>3
  <2>3. ASSUME NEW j \in Nat, j \in T PROVE j + 1 \in T
    <3> SUFFICES ASSUME j + 1 <= Len(d.frags) PROVE Sized(flowAfter(d)[j + 1], stageSending)
      OBVIOUS
    <3>1. PICK s : s = d.first + (j + 1) - 1
      OBVIOUS
    <3>2. /\ s \in 1..stageSending /\ j + 1 \in 1..Len(d.frags) /\ (j + 1) - 1 = j
          /\ j \in 0..Len(d.frags)
      <4>1. j \in 0..Len(d.frags)
        BY <1>2
      <4> QED
        BY <1>1, <1>2, <2>1, <3>1, <4>1, NextOfDatagram
    <3>3. PICK e, g : e = flowAfter(d)[j] /\ g = d.frags[j + 1]
      OBVIOUS
    <3>4. flowAfter(d)[j + 1] = input(e, s, g)
      <4>1. flowAfter(d)[j + 1] = input(flowAfter(d)[(j + 1) - 1], d.first + (j + 1) - 1, d.frags[j + 1])
        BY <1>2, <3>2, FlowAfterSteps
      <4> QED
        BY <3>1, <3>2, <3>3, <4>1
    <3>5. g \in Fragment
      BY <2>1, <3>2, <3>3 DEF Follows
    <3>6. FlowOk(e, h, log, stageSending)
      BY <1>1, <2>1, <3>2, <3>3, DatagramPlain
    <3>7. Sized(e, stageSending)
      BY <2>3, <3>2, <3>3
    <3> HIDE DEF T
    <3> QED
      BY <1>1, <3>2, <3>4, <3>5, <3>6, <3>7, SizedInput
  <2> HIDE DEF T
  <2>4. k \in T /\ k <= Len(d.frags)
    BY <1>2, <2>2, <2>3, Induction
  <2> QED
    BY <2>4 DEF T
<1>5. CASE d.frags = <<AbandonFragment>>
  <2>1. /\ d.first \in 1..stageSending /\ Len(d.frags) = 1 /\ d.frags[1] = AbandonFragment
        /\ AbandonFragment \in Fragment
    <3>1. d.first \in Nat \ {0} /\ d.first <= stageSending
      BY <1>5 DEF AbandonedInv, Uncut
    <3>2. AbandonFragment \in Fragment
      BY DEF AbandonFragment, EndFragment, Fragment
    <3> QED
      BY <1>1, <1>5, <3>1, <3>2
  <2>2. flowAfter(d)[1] = input(flow, d.first, AbandonFragment)
    <3>1. 1 \in 1..Len(d.frags) /\ d.first + 1 - 1 = d.first /\ 1 - 1 = 0
      BY <2>1
    <3>2. flowAfter(d)[1] = input(flowAfter(d)[1 - 1], d.first + 1 - 1, d.frags[1])
      BY <1>2, <3>1, FlowAfterSteps
    <3> QED
      BY <1>3, <2>1, <3>1, <3>2
  <2>3. Sized(flowAfter(d)[1], stageSending)
    BY <1>1, <2>1, <2>2, SizedInput
  <2>4. k = 0 \/ k = 1
    BY <2>1
  <2> QED
    BY <1>3, <2>3, <2>4
<1> QED
  BY <1>4, <1>5

LEMMA SizedGrows ==
    ASSUME NEW n, n \in Nat, NEW m, m \in Nat, n <= m, NEW f, Sized(f, n)
    PROVE  Sized(f, m)
BY DEF Sized

LEMMA SizedStep ==
    ASSUME NEW h, ChannelInv(h), Sized(flow, stageSending), [ChannelNext]_channelVars
    PROVE  Sized(flow, stageSending)'
<1>1. /\ TypeInv /\ StageInv /\ ScriptInv(h) /\ WrittenInv(h) /\ ReceiverInv(h)
      /\ AbandonedInv(h) /\ AckTypes
  BY DEF ChannelInv
<1>2. CASE [WriterNext]_writerVars /\ UNCHANGED flow
  <2>1. /\ stageSending \in Nat /\ stageSending' \in Nat /\ stageSending <= stageSending'
    BY <1>1, <1>2, TypeStep, CoverFacts, SentGrows
  <2>2. Sized(flow, stageSending')
    BY <2>1, SizedGrows
  <2> QED
    BY <1>2, <2>2
<1>3. CASE writerStep /\ UNCHANGED flow
  BY <1>2, <1>3, WriterStepNext, SessionStep
<1>4. ASSUME NEW d \in wire, receive(d) PROVE Sized(flow, stageSending)'
  <2>1. stageSending' = stageSending
    BY <1>4 DEF receive, threadVars, stageVars
  <2>2. \E k \in 0..Len(d.frags) : flow' = flowAfter(d)[k]
    <3>1. Len(d.frags) \in Nat \ {0}
      BY <1>1, DatagramFields
    <3>2. CASE receiveDatagram(d)
      <4>1. Len(d.frags) \in 0..Len(d.frags)
        BY <3>1
      <4> QED
        BY <3>2, <4>1 DEF receiveDatagram
    <3>3. CASE receiveCongested(d)
      <4>1. PICK k \in 1..Len(d.frags) : flow' = flowAfter(d)[k]
        BY <3>3 DEF receiveCongested
      <4>2. k \in 0..Len(d.frags)
        BY <3>1
      <4> QED
        BY <4>1, <4>2
    <3>4. CASE receiveUnknown(d)
      <4>1. 0 \in 0..Len(d.frags) /\ flowAfter(d)[0] = flow
        BY <3>1, FlowAfterSteps
      <4> QED
        BY <3>4, <4>1 DEF receiveUnknown
    <3> QED
      BY <1>4, <3>2, <3>3, <3>4 DEF receive
  <2>3. PICK k \in 0..Len(d.frags) : flow' = flowAfter(d)[k]
    BY <2>2
  <2>4. Sized(flowAfter(d)[k], stageSending)
    BY <1>1, DatagramSized
  <2>5. Sized(flow', stageSending)
    BY <2>3, <2>4
  <2> QED
    BY <2>1, <2>5
<1>5. ASSUME NEW a \in acks, receiveAcknowledgment(a) PROVE Sized(flow, stageSending)'
  BY <1>1, <1>2, <1>5, AcknowledgmentMoves
<1>6. CASE UNCHANGED channelVars
  BY <1>2, <1>6 DEF channelVars
<1> QED
  BY <1>3, <1>4, <1>5, <1>6 DEF ChannelNext

\* FlowManager closes the session when _fragmentation is too large: it is
\* always the size of what is held back, and drops back with it.
THEOREM CounterIsExact == ChannelSpec => []FragmentationExact
<1> DEFINE Inv == \E h : ChannelInv(h)
           SizedInv == Sized(flow, stageSending)
<1>1. ChannelInit => SizedInv
  <2>1. ChannelInit => /\ flow = NewFlow /\ stageSending = 0
    BY DEF ChannelInit, WriterInit
  <2>2. DOMAIN NewFlow.fragments = {} /\ NewFlow.fragmentation = 0 /\ 0 \in Nat
    BY DEF NewFlow
  <2> QED
    BY <2>1, <2>2, SizedNone
<1>2. Inv /\ SizedInv /\ [ChannelNext]_channelVars => SizedInv'
  BY SizedStep
<1>3. SizedInv => FragmentationExact
  BY DEF Sized, FragmentationExact
<1> HIDE DEF SizedInv
<1> QED
  BY <1>1, <1>2, <1>3, ChannelInvariant, PTL DEF ChannelSpec

-----------------------------------------------------------------------------
(* The writer of the channel is a writer.                                  *)

LEMMA ChannelWriterStep ==
    ASSUME NEW h, ChannelInv(h), [ChannelNext]_channelVars
    PROVE  [WriterNext]_writerVars
<1>1. CASE status = "CONNECTED" /\ writerStep /\ UNCHANGED <<known, flow, acks, status, farStatus>>
  BY <1>1, WriterStepNext, SessionStep
<1>2. ASSUME NEW d \in wire, receive(d) PROVE [WriterNext]_writerVars
  <2>1. wire' \subseteq wire /\ UNCHANGED <<mainVars, threadVars>>
    BY <1>2 DEF receive, afterDelivery
  <2>2. outside
    BY <2>1 DEF outside, mainVars
  <2> QED
    BY <2>2 DEF WriterNext
<1>3. ASSUME NEW a \in acks, receiveAcknowledgment(a) PROVE [WriterNext]_writerVars
  BY <1>3, AcknowledgmentMoves DEF ChannelInv
<1>4. CASE UNCHANGED channelVars
  BY <1>4 DEF channelVars, writerVars
<1> QED
  BY <1>1, <1>2, <1>3, <1>4 DEF ChannelNext

\* What RTMFPWriterProofs shows of the writer against any peer holds of the
\* writer of the channel, which talks to FlowManager::receive, loses its
\* datagrams and may lose its session at any moment.
THEOREM ChannelKeepsWriter ==
    ChannelSpec => /\ []WriterTypeOK
                   /\ []EveryStageHeldOnce
                   /\ []AbandonSparesReliable
                   /\ []StageIsStable
                   /\ []UnsentKeepsTimer
<1> DEFINE Inv == \E h : ChannelInv(h)
<1>1. ChannelInit => UnsentKeepsTimer
  BY TimerInit DEF ChannelInit
<1>2. Inv /\ UnsentKeepsTimer /\ [ChannelNext]_channelVars => UnsentKeepsTimer'
  <2> SUFFICES ASSUME NEW h, ChannelInv(h), UnsentKeepsTimer, [ChannelNext]_channelVars
               PROVE  UnsentKeepsTimer'
    OBVIOUS
  <2>1. TypeInv /\ [WriterNext]_writerVars
    BY ChannelWriterStep DEF ChannelInv
  <2> QED
    BY <2>1, TimerStep
<1>3. Inv => WriterTypeOK /\ EveryStageHeldOnce /\ AbandonSparesReliable /\ StageIsStable
  <2> SUFFICES ASSUME NEW h, ChannelInv(h)
               PROVE  WriterTypeOK /\ EveryStageHeldOnce /\ AbandonSparesReliable /\ StageIsStable
    OBVIOUS
  <2>1. TypeInv /\ StageInv /\ AbandonInv /\ ScriptInv(h)
    BY DEF ChannelInv
  <2> QED
    BY <2>1, AbandonSpares, ScriptStable DEF TypeInv, StageInv
<1> HIDE DEF Inv
<1>4. ChannelSpec => []Inv
  BY ChannelInvariant DEF Inv
<1> QED
  BY <1>1, <1>2, <1>3, <1>4, PTL DEF ChannelSpec

=============================================================================
