------------------------- MODULE ThreadQueueProofs -------------------------
(***************************************************************************)
(* Proofs about ThreadQueue, for any number of producers and stoppers and  *)
(* any bounds.  The inductive invariant says who holds the two mutexes,    *)
(* what _stop means at each point of a start, and that runners carry       *)
(* consecutive numbers through _runners and the batch of run().            *)
(***************************************************************************)
EXTENDS ThreadQueue, TLAPS

Serving == {"wait", "lock", "run"}
Starting == {"start", "join", "reset", "create", "push"}

\* Who is where: the two mutexes exclude, as their holders see it.
LockInv ==
    /\ \A p \in Producers : caller[p] \in {"idle"} \union Starting
    /\ \A s \in Stoppers : caller[s] \in {"idle", "stopLock", "stopJoin", "returned"}
    /\ \A p \in Producers : caller[p] \in Starting <=> listLock = p
    /\ \A c \in Producers \union Stoppers :
          caller[c] \in {"join", "reset", "create", "stopJoin"} <=> threadLock = c

\* _stop is FALSE from the reset of a start until the OS thread decides to
\* end; in between, only between reset and create there is no OS thread.
StopInv ==
    /\ worker \in {"ending", "ended"} => stopped
    /\ worker \in Serving => ~stopped
    /\ worker = "none" => (stopped \/ \E p \in Producers : caller[p] = "create")
    /\ \A p \in Producers : caller[p] = "join" => stopped
    /\ \A p \in Producers : caller[p] = "reset" => stopped /\ worker = "none"
    /\ \A p \in Producers : caller[p] = "create" => ~stopped /\ worker = "none"
    /\ \A p \in Producers : caller[p] = "push" => worker \in Serving

\* Runners are only there for an OS thread, a batch only while it is run.
WorkInv ==
    /\ runners # <<>> => worker \in Serving
    /\ batch # <<>> => worker = "run"

\* Runner n is the n-th submitted, the n-th run, and keeps its place between.
Counted(q, k) == \A i \in 1..Len(q) : q[i] = k + i
OrderInv ==
    /\ Len(submitted) = Len(executed) + Len(batch) + Len(runners)
    /\ Counted(submitted, 0)
    /\ Counted(batch, Len(executed))
    /\ Counted(runners, Len(executed) + Len(batch))

DueInv == \A s \in Stoppers : due[s] <= Len(submitted)

ThreadQueueInv == ThreadQueueTypeOK /\ LockInv /\ StopInv /\ WorkInv /\ OrderInv
                    /\ NoLostWakeUp /\ DueInv /\ JoinDrains

-----------------------------------------------------------------------------
(* Initial states, and what the order of the runners rests on *)

\* Sequences of consecutive numbers, at both ends of a queue.
LEMMA EmptyCounted == \A k : Counted(<<>>, k)
BY DEF Counted

LEMMA AppendCounted ==
    ASSUME NEW q \in Seq(Nat), NEW k \in Nat, Counted(q, k)
    PROVE  /\ Counted(Append(q, k + Len(q) + 1), k)
           /\ Len(Append(q, k + Len(q) + 1)) = Len(q) + 1
<1> DEFINE e == k + Len(q) + 1
           a == Append(q, e)
<1>1. e \in Nat /\ Len(a) = Len(q) + 1 /\ Len(q) \in Nat
    OBVIOUS
<1>2. ASSUME NEW i \in 1..Len(a) PROVE a[i] = k + i
    <2>1. CASE i = Len(q) + 1 BY <1>1, <2>1
    <2>2. CASE i \in 1..Len(q) BY <1>1, <2>2 DEF Counted
    <2> QED BY <1>1, <2>1, <2>2
<1> QED BY <1>1, <1>2 DEF Counted

LEMMA TailCounted ==
    ASSUME NEW q \in Seq(Nat), NEW k \in Nat, Counted(q, k), q # <<>>
    PROVE  /\ Counted(Tail(q), k + 1) /\ Head(q) = k + 1
           /\ Len(Tail(q)) = Len(q) - 1 /\ Len(q) \in Nat \ {0}
<1>1. /\ Len(Tail(q)) = Len(q) - 1 /\ Len(q) \in Nat \ {0} /\ Head(q) = q[1]
      /\ \A i \in 1..Len(Tail(q)) : Tail(q)[i] = q[i + 1]
    OBVIOUS
<1>2. ASSUME NEW i \in 1..Len(Tail(q)) PROVE Tail(q)[i] = k + 1 + i
    <2>1. i + 1 \in 1..Len(q) BY <1>1
    <2> QED BY <1>1, <2>1 DEF Counted
<1>3. 1 \in 1..Len(q) BY <1>1
<1> QED BY <1>1, <1>2, <1>3 DEF Counted

LEMMA InvInit == ThreadQueueInit => ThreadQueueInv
<1> SUFFICES ASSUME ThreadQueueInit PROVE ThreadQueueInv
    OBVIOUS
<1>1. ThreadQueueTypeOK
    <2>1. stopped \in BOOLEAN /\ requestStop \in BOOLEAN /\ wakeUp \in BOOLEAN /\ timeout \in BOOLEAN
        BY Zenon DEF ThreadQueueInit
    <2>2. /\ caller \in [Producers \union Stoppers -> {"idle"}]
          /\ due \in [Stoppers -> Nat]
          /\ runners \in Seq(Nat) /\ batch \in Seq(Nat)
          /\ submitted \in Seq(Nat) /\ executed \in Seq(Nat)
        BY DEF ThreadQueueInit
    <2>3. stops \in Nat /\ listLock = Free /\ threadLock = Free /\ worker = "none"
        BY DEF ThreadQueueInit
    <2> QED BY <2>1, <2>2, <2>3 DEF ThreadQueueTypeOK
<1>2. LockInv
    BY ThreadQueueAssumption DEF ThreadQueueInit, LockInv, Starting
<1>3. StopInv
    BY DEF ThreadQueueInit, StopInv, Serving
<1>4. WorkInv /\ NoLostWakeUp
    BY DEF ThreadQueueInit, WorkInv, NoLostWakeUp
<1>5. OrderInv
    BY DEF ThreadQueueInit, OrderInv, Counted
<1>6. DueInv /\ JoinDrains
    BY DEF ThreadQueueInit, DueInv, JoinDrains
<1> QED
    BY <1>1, <1>2, <1>3, <1>4, <1>5, <1>6 DEF ThreadQueueInv

-----------------------------------------------------------------------------
(* Steps: every conjunct of the invariant is preserved by every action *)

LEMMA TypeStep ==
    ASSUME ThreadQueueTypeOK, [ThreadQueueNext]_threadQueueVars
    PROVE  ThreadQueueTypeOK'
<1> USE DEF ThreadQueueTypeOK, goes, callVars, workVars, flagVars
<1>1. ASSUME NEW p \in Producers, produce(p) PROVE ThreadQueueTypeOK'
    <2>1. CASE queue(p) BY <2>1 DEF queue
    <2>2. CASE startRunning(p) BY <2>2 DEF startRunning, running
    <2>3. CASE startStopped(p) BY <2>3 DEF startStopped, running
    <2>4. CASE startJoin(p) BY <2>4 DEF startJoin, joined
    <2>5. CASE startReset(p) BY <2>5 DEF startReset
    <2>6. CASE startCreate(p) BY <2>6 DEF startCreate
    <2>7. CASE push(p) BY <2>7 DEF push
    <2> QED BY <1>1, <2>1, <2>2, <2>3, <2>4, <2>5, <2>6, <2>7 DEF produce
<1>2. ASSUME NEW s \in Stoppers, shutdown(s) PROVE ThreadQueueTypeOK'
    <2>1. CASE joinStopped(s) BY <2>1 DEF joinStopped, running
    <2>2. CASE stop(s) BY <2>2 DEF stop
    <2>3. CASE stopLock(s) BY <2>3 DEF stopLock
    <2>4. CASE stopJoin(s) BY <2>4 DEF stopJoin, joined
    <2> QED BY <1>2, <2>1, <2>2, <2>3, <2>4 DEF shutdown
<1>3. CASE process
    <2>1. CASE awake BY <2>1 DEF awake
    <2>2. CASE idleTimeout BY <2>2 DEF idleTimeout
    <2>3. CASE takeRunners BY <2>3 DEF takeRunners
    <2>4. CASE waitMore BY <2>4 DEF waitMore, nothingLeft, mustStop
    <2>5. CASE selfStop BY <2>5 DEF selfStop, nothingLeft, mustStop, stopsAtOnce
    <2>6. CASE runRunner BY <2>6 DEF runRunner
    <2>7. CASE endBatch BY <2>7 DEF endBatch
    <2>8. CASE endProcess BY <2>8 DEF endProcess
    <2> QED BY <1>3, <2>1, <2>2, <2>3, <2>4, <2>5, <2>6, <2>7, <2>8 DEF process
<1>4. CASE UNCHANGED threadQueueVars BY <1>4 DEF threadQueueVars
<1> QED BY <1>1, <1>2, <1>3, <1>4 DEF ThreadQueueNext

LEMMA LockStep ==
    ASSUME ThreadQueueTypeOK, LockInv, [ThreadQueueNext]_threadQueueVars
    PROVE  LockInv'
<1> USE ThreadQueueAssumption DEF ThreadQueueTypeOK, LockInv, Starting, goes, callVars, workVars, flagVars
<1>1. ASSUME NEW p \in Producers, produce(p) PROVE LockInv'
    <2>1. CASE queue(p) BY <2>1 DEF queue
    <2>2. CASE startRunning(p) BY <2>2 DEF startRunning, running
    <2>3. CASE startStopped(p) BY <2>3 DEF startStopped, running
    <2>4. CASE startJoin(p) BY <2>4 DEF startJoin, joined
    <2>5. CASE startReset(p) BY <2>5 DEF startReset
    <2>6. CASE startCreate(p) BY <2>6 DEF startCreate
    <2>7. CASE push(p) BY <2>7 DEF push
    <2> QED BY <1>1, <2>1, <2>2, <2>3, <2>4, <2>5, <2>6, <2>7 DEF produce
<1>2. ASSUME NEW s \in Stoppers, shutdown(s) PROVE LockInv'
    <2>1. CASE joinStopped(s) BY <2>1 DEF joinStopped, running
    <2>2. CASE stop(s) BY <2>2 DEF stop
    <2>3. CASE stopLock(s) BY <2>3 DEF stopLock
    <2>4. CASE stopJoin(s) BY <2>4 DEF stopJoin, joined
    <2> QED BY <1>2, <2>1, <2>2, <2>3, <2>4 DEF shutdown
<1>3. CASE process
    <2>1. CASE awake BY <2>1 DEF awake
    <2>2. CASE idleTimeout BY <2>2 DEF idleTimeout
    <2>3. CASE takeRunners BY <2>3 DEF takeRunners
    <2>4. CASE waitMore BY <2>4 DEF waitMore, nothingLeft, mustStop
    <2>5. CASE selfStop BY <2>5 DEF selfStop, nothingLeft, mustStop, stopsAtOnce
    <2>6. CASE runRunner BY <2>6 DEF runRunner
    <2>7. CASE endBatch BY <2>7 DEF endBatch
    <2>8. CASE endProcess BY <2>8 DEF endProcess
    <2> QED BY <1>3, <2>1, <2>2, <2>3, <2>4, <2>5, <2>6, <2>7, <2>8 DEF process
<1>4. CASE UNCHANGED threadQueueVars BY <1>4 DEF threadQueueVars
<1> QED BY <1>1, <1>2, <1>3, <1>4 DEF ThreadQueueNext

LEMMA StopStep ==
    ASSUME ThreadQueueTypeOK, LockInv, StopInv, [ThreadQueueNext]_threadQueueVars
    PROVE  StopInv'
<1> USE ThreadQueueAssumption DEF ThreadQueueTypeOK, LockInv, StopInv, Starting, Serving, goes, callVars, workVars, flagVars
<1>1. ASSUME NEW p \in Producers, produce(p) PROVE StopInv'
    <2>1. CASE queue(p) BY <2>1 DEF queue
    <2>2. CASE startRunning(p) BY <2>2 DEF startRunning, running
    <2>3. CASE startStopped(p) BY <2>3 DEF startStopped, running
    <2>4. CASE startJoin(p) BY <2>4 DEF startJoin, joined
    <2>5. CASE startReset(p) BY <2>5 DEF startReset
    <2>6. CASE startCreate(p) BY <2>6 DEF startCreate
    <2>7. CASE push(p) BY <2>7 DEF push
    <2> QED BY <1>1, <2>1, <2>2, <2>3, <2>4, <2>5, <2>6, <2>7 DEF produce
<1>2. ASSUME NEW s \in Stoppers, shutdown(s) PROVE StopInv'
    <2>1. CASE joinStopped(s) BY <2>1 DEF joinStopped, running
    <2>2. CASE stop(s) BY <2>2 DEF stop
    <2>3. CASE stopLock(s) BY <2>3 DEF stopLock
    <2>4. CASE stopJoin(s) BY <2>4 DEF stopJoin, joined
    <2> QED BY <1>2, <2>1, <2>2, <2>3, <2>4 DEF shutdown
<1>3. CASE process
    <2>1. CASE awake BY <2>1 DEF awake
    <2>2. CASE idleTimeout BY <2>2 DEF idleTimeout
    <2>3. CASE takeRunners BY <2>3 DEF takeRunners
    <2>4. CASE waitMore BY <2>4 DEF waitMore, nothingLeft, mustStop
    <2>5. CASE selfStop BY <2>5 DEF selfStop, nothingLeft, mustStop, stopsAtOnce
    <2>6. CASE runRunner BY <2>6 DEF runRunner
    <2>7. CASE endBatch BY <2>7 DEF endBatch
    <2>8. CASE endProcess BY <2>8 DEF endProcess
    <2> QED BY <1>3, <2>1, <2>2, <2>3, <2>4, <2>5, <2>6, <2>7, <2>8 DEF process
<1>4. CASE UNCHANGED threadQueueVars BY <1>4 DEF threadQueueVars
<1> QED BY <1>1, <1>2, <1>3, <1>4 DEF ThreadQueueNext

LEMMA WorkStep ==
    ASSUME ThreadQueueTypeOK, StopInv, WorkInv, [ThreadQueueNext]_threadQueueVars
    PROVE  WorkInv'
<1> USE DEF ThreadQueueTypeOK, StopInv, WorkInv, Serving, goes, callVars, workVars, flagVars
<1>1. ASSUME NEW p \in Producers, produce(p) PROVE WorkInv'
    <2>1. CASE queue(p) BY <2>1 DEF queue
    <2>2. CASE startRunning(p) BY <2>2 DEF startRunning, running
    <2>3. CASE startStopped(p) BY <2>3 DEF startStopped, running
    <2>4. CASE startJoin(p) BY <2>4 DEF startJoin, joined
    <2>5. CASE startReset(p) BY <2>5 DEF startReset
    <2>6. CASE startCreate(p) BY <2>6 DEF startCreate
    <2>7. CASE push(p) BY <2>7 DEF push
    <2> QED BY <1>1, <2>1, <2>2, <2>3, <2>4, <2>5, <2>6, <2>7 DEF produce
<1>2. ASSUME NEW s \in Stoppers, shutdown(s) PROVE WorkInv'
    <2>1. CASE joinStopped(s) BY <2>1 DEF joinStopped, running
    <2>2. CASE stop(s) BY <2>2 DEF stop
    <2>3. CASE stopLock(s) BY <2>3 DEF stopLock
    <2>4. CASE stopJoin(s) BY <2>4 DEF stopJoin, joined
    <2> QED BY <1>2, <2>1, <2>2, <2>3, <2>4 DEF shutdown
<1>3. CASE process
    <2>1. CASE awake BY <2>1 DEF awake
    <2>2. CASE idleTimeout BY <2>2 DEF idleTimeout
    <2>3. CASE takeRunners BY <2>3 DEF takeRunners
    <2>4. CASE waitMore BY <2>4 DEF waitMore, nothingLeft, mustStop
    <2>5. CASE selfStop BY <2>5 DEF selfStop, nothingLeft, mustStop, stopsAtOnce
    <2>6. CASE runRunner BY <2>6 DEF runRunner
    <2>7. CASE endBatch BY <2>7 DEF endBatch
    <2>8. CASE endProcess BY <2>8 DEF endProcess
    <2> QED BY <1>3, <2>1, <2>2, <2>3, <2>4, <2>5, <2>6, <2>7, <2>8 DEF process
<1>4. CASE UNCHANGED threadQueueVars BY <1>4 DEF threadQueueVars
<1> QED BY <1>1, <1>2, <1>3, <1>4 DEF ThreadQueueNext

\* What the order of the runners needs of the types.
LEMMA SeqTypes ==
    ASSUME ThreadQueueTypeOK
    PROVE  /\ runners \in Seq(Nat) /\ batch \in Seq(Nat)
           /\ submitted \in Seq(Nat) /\ executed \in Seq(Nat)
           /\ Len(runners) \in Nat /\ Len(batch) \in Nat
           /\ Len(submitted) \in Nat /\ Len(executed) \in Nat
BY DEF ThreadQueueTypeOK

LEMMA OrderStep ==
    ASSUME ThreadQueueTypeOK, WorkInv, OrderInv, [ThreadQueueNext]_threadQueueVars
    PROVE  OrderInv'
<1> USE DEF OrderInv, goes, callVars, workVars, flagVars
<1>1. ASSUME NEW p \in Producers, produce(p) PROVE OrderInv'
    <2>1. CASE queue(p) BY <2>1 DEF queue
    <2>2. CASE startRunning(p) BY <2>2 DEF startRunning, running
    <2>3. CASE startStopped(p) BY <2>3 DEF startStopped, running
    <2>4. CASE startJoin(p) BY <2>4 DEF startJoin, joined
    <2>5. CASE startReset(p) BY <2>5 DEF startReset
    <2>6. CASE startCreate(p) BY <2>6 DEF startCreate
    <2>7. CASE push(p)
        <3>1. /\ runners' = Append(runners, Len(submitted) + 1)
              /\ submitted' = Append(submitted, Len(submitted) + 1)
              /\ batch' = batch /\ executed' = executed
            BY <2>7 DEF push
        <3>2. 0 + Len(submitted) + 1 = Len(submitted) + 1 BY SeqTypes
        <3>3. Counted(submitted', 0) /\ Len(submitted') = Len(submitted) + 1
            BY <3>1, <3>2, SeqTypes, AppendCounted DEF OrderInv
        <3>4. Len(submitted) + 1 = (Len(executed) + Len(batch)) + Len(runners) + 1
            BY SeqTypes DEF OrderInv
        <3>5. /\ Counted(runners', Len(executed) + Len(batch))
              /\ Len(runners') = Len(runners) + 1
            BY <3>1, <3>4, SeqTypes, AppendCounted DEF OrderInv
        <3>6. Len(submitted') = Len(executed) + Len(batch) + Len(runners')
            BY <3>3, <3>5, SeqTypes DEF OrderInv
        <3> QED BY <3>1, <3>3, <3>5, <3>6 DEF OrderInv
    <2> QED BY <1>1, <2>1, <2>2, <2>3, <2>4, <2>5, <2>6, <2>7 DEF produce
<1>2. ASSUME NEW s \in Stoppers, shutdown(s) PROVE OrderInv'
    <2>1. CASE joinStopped(s) BY <2>1 DEF joinStopped, running
    <2>2. CASE stop(s) BY <2>2 DEF stop
    <2>3. CASE stopLock(s) BY <2>3 DEF stopLock
    <2>4. CASE stopJoin(s) BY <2>4 DEF stopJoin, joined
    <2> QED BY <1>2, <2>1, <2>2, <2>3, <2>4 DEF shutdown
<1>3. CASE process
    <2>1. CASE awake BY <2>1 DEF awake
    <2>2. CASE idleTimeout BY <2>2 DEF idleTimeout
    <2>3. CASE takeRunners
        <3>1. batch = <<>> /\ batch' = runners /\ runners' = <<>> /\ executed' = executed
              /\ submitted' = submitted
            BY <2>3 DEF takeRunners, WorkInv
        <3>2. Len(batch) = 0 /\ Len(runners') = 0
            BY <3>1
        <3>3. Len(executed) + Len(batch) = Len(executed)
            BY <3>2, SeqTypes
        <3>4. Len(submitted') = Len(executed') + Len(batch') + Len(runners')
            BY <3>1, <3>2, SeqTypes DEF OrderInv
        <3>5. Counted(batch', Len(executed')) /\ Counted(runners', Len(executed') + Len(batch'))
            BY <3>1, <3>3, EmptyCounted DEF OrderInv
        <3> QED BY <3>1, <3>4, <3>5 DEF OrderInv
    <2>4. CASE waitMore BY <2>4 DEF waitMore, nothingLeft, mustStop
    <2>5. CASE selfStop BY <2>5 DEF selfStop, nothingLeft, mustStop, stopsAtOnce
    <2>6. CASE runRunner
        <3>1. /\ batch # <<>> /\ batch' = Tail(batch) /\ runners' = runners
              /\ executed' = Append(executed, Head(batch)) /\ submitted' = submitted
            BY <2>6 DEF runRunner
        <3>2. /\ Counted(batch', Len(executed) + 1) /\ Head(batch) = Len(executed) + 1
              /\ Len(batch') = Len(batch) - 1
            BY <3>1, SeqTypes, TailCounted DEF OrderInv
        <3>3. Len(executed') = Len(executed) + 1
            BY <3>1, <3>2, SeqTypes
        <3>4. Len(executed') + Len(batch') = Len(executed) + Len(batch)
            BY <3>2, <3>3, SeqTypes
        <3> QED BY <3>1, <3>2, <3>3, <3>4 DEF OrderInv
    <2>7. CASE endBatch BY <2>7 DEF endBatch
    <2>8. CASE endProcess BY <2>8 DEF endProcess
    <2> QED BY <1>3, <2>1, <2>2, <2>3, <2>4, <2>5, <2>6, <2>7, <2>8 DEF process
<1>4. CASE UNCHANGED threadQueueVars BY <1>4 DEF threadQueueVars
<1> QED BY <1>1, <1>2, <1>3, <1>4 DEF ThreadQueueNext

LEMMA WakeUpStep ==
    ASSUME ThreadQueueTypeOK, StopInv, WorkInv, NoLostWakeUp, [ThreadQueueNext]_threadQueueVars
    PROVE  NoLostWakeUp'
<1> USE DEF ThreadQueueTypeOK, StopInv, WorkInv, NoLostWakeUp, Serving, goes, callVars, workVars, flagVars
<1>1. ASSUME NEW p \in Producers, produce(p) PROVE NoLostWakeUp'
    <2>1. CASE queue(p) BY <2>1 DEF queue
    <2>2. CASE startRunning(p) BY <2>2 DEF startRunning, running
    <2>3. CASE startStopped(p) BY <2>3 DEF startStopped, running
    <2>4. CASE startJoin(p) BY <2>4 DEF startJoin, joined
    <2>5. CASE startReset(p) BY <2>5 DEF startReset
    <2>6. CASE startCreate(p) BY <2>6 DEF startCreate
    <2>7. CASE push(p) BY <2>7 DEF push
    <2> QED BY <1>1, <2>1, <2>2, <2>3, <2>4, <2>5, <2>6, <2>7 DEF produce
<1>2. ASSUME NEW s \in Stoppers, shutdown(s) PROVE NoLostWakeUp'
    <2>1. CASE joinStopped(s) BY <2>1 DEF joinStopped, running
    <2>2. CASE stop(s) BY <2>2 DEF stop
    <2>3. CASE stopLock(s) BY <2>3 DEF stopLock
    <2>4. CASE stopJoin(s) BY <2>4 DEF stopJoin, joined
    <2> QED BY <1>2, <2>1, <2>2, <2>3, <2>4 DEF shutdown
<1>3. CASE process
    <2>1. CASE awake BY <2>1 DEF awake
    <2>2. CASE idleTimeout BY <2>2 DEF idleTimeout
    <2>3. CASE takeRunners BY <2>3 DEF takeRunners
    <2>4. CASE waitMore BY <2>4 DEF waitMore, nothingLeft, mustStop
    <2>5. CASE selfStop BY <2>5 DEF selfStop, nothingLeft, mustStop, stopsAtOnce
    <2>6. CASE runRunner BY <2>6 DEF runRunner
    <2>7. CASE endBatch BY <2>7 DEF endBatch
    <2>8. CASE endProcess BY <2>8 DEF endProcess
    <2> QED BY <1>3, <2>1, <2>2, <2>3, <2>4, <2>5, <2>6, <2>7, <2>8 DEF process
<1>4. CASE UNCHANGED threadQueueVars BY <1>4 DEF threadQueueVars
<1> QED BY <1>1, <1>2, <1>3, <1>4 DEF ThreadQueueNext

LEMMA DueStep ==
    ASSUME ThreadQueueTypeOK, DueInv, [ThreadQueueNext]_threadQueueVars
    PROVE  DueInv'
<1> USE DEF ThreadQueueTypeOK, DueInv, goes, callVars, workVars, flagVars
<1>1. ASSUME NEW p \in Producers, produce(p) PROVE DueInv'
    <2>1. CASE queue(p) BY <2>1 DEF queue
    <2>2. CASE startRunning(p) BY <2>2 DEF startRunning, running
    <2>3. CASE startStopped(p) BY <2>3 DEF startStopped, running
    <2>4. CASE startJoin(p) BY <2>4 DEF startJoin, joined
    <2>5. CASE startReset(p) BY <2>5 DEF startReset
    <2>6. CASE startCreate(p) BY <2>6 DEF startCreate
    <2>7. CASE push(p) BY <2>7 DEF push
    <2> QED BY <1>1, <2>1, <2>2, <2>3, <2>4, <2>5, <2>6, <2>7 DEF produce
<1>2. ASSUME NEW s \in Stoppers, shutdown(s) PROVE DueInv'
    <2>1. CASE joinStopped(s) BY <2>1 DEF joinStopped, running
    <2>2. CASE stop(s) BY <2>2 DEF stop
    <2>3. CASE stopLock(s) BY <2>3 DEF stopLock
    <2>4. CASE stopJoin(s) BY <2>4 DEF stopJoin, joined
    <2> QED BY <1>2, <2>1, <2>2, <2>3, <2>4 DEF shutdown
<1>3. CASE process
    <2>1. CASE awake BY <2>1 DEF awake
    <2>2. CASE idleTimeout BY <2>2 DEF idleTimeout
    <2>3. CASE takeRunners BY <2>3 DEF takeRunners
    <2>4. CASE waitMore BY <2>4 DEF waitMore, nothingLeft, mustStop
    <2>5. CASE selfStop BY <2>5 DEF selfStop, nothingLeft, mustStop, stopsAtOnce
    <2>6. CASE runRunner BY <2>6 DEF runRunner
    <2>7. CASE endBatch BY <2>7 DEF endBatch
    <2>8. CASE endProcess BY <2>8 DEF endProcess
    <2> QED BY <1>3, <2>1, <2>2, <2>3, <2>4, <2>5, <2>6, <2>7, <2>8 DEF process
<1>4. CASE UNCHANGED threadQueueVars BY <1>4 DEF threadQueueVars
<1> QED BY <1>1, <1>2, <1>3, <1>4 DEF ThreadQueueNext

LEMMA DrainStep ==
    ASSUME ThreadQueueInv, [ThreadQueueNext]_threadQueueVars
    PROVE  JoinDrains'
<1> USE DEF ThreadQueueInv, ThreadQueueTypeOK, LockInv, StopInv, WorkInv, OrderInv, DueInv, JoinDrains, Starting, Serving, goes, callVars, workVars, flagVars
<1>1. ASSUME NEW p \in Producers, produce(p) PROVE JoinDrains'
    <2>1. CASE queue(p) BY <2>1 DEF queue
    <2>2. CASE startRunning(p) BY <2>2 DEF startRunning, running
    <2>3. CASE startStopped(p) BY <2>3 DEF startStopped, running
    <2>4. CASE startJoin(p) BY <2>4 DEF startJoin, joined
    <2>5. CASE startReset(p) BY <2>5 DEF startReset
    <2>6. CASE startCreate(p) BY <2>6 DEF startCreate
    <2>7. CASE push(p) BY <2>7 DEF push
    <2> QED BY <1>1, <2>1, <2>2, <2>3, <2>4, <2>5, <2>6, <2>7 DEF produce
<1>2. ASSUME NEW s \in Stoppers, shutdown(s) PROVE JoinDrains'
    <2>1. CASE joinStopped(s) BY <2>1 DEF joinStopped, running
    <2>2. CASE stop(s) BY <2>2 DEF stop
    <2>3. CASE stopLock(s) BY <2>3 DEF stopLock
    <2>4. CASE stopJoin(s) BY <2>4, SMTT(30) DEF stopJoin, joined
    <2> QED BY <1>2, <2>1, <2>2, <2>3, <2>4 DEF shutdown
<1>3. CASE process
    <2>1. CASE awake BY <2>1 DEF awake
    <2>2. CASE idleTimeout BY <2>2 DEF idleTimeout
    <2>3. CASE takeRunners BY <2>3 DEF takeRunners
    <2>4. CASE waitMore BY <2>4 DEF waitMore, nothingLeft, mustStop
    <2>5. CASE selfStop BY <2>5 DEF selfStop, nothingLeft, mustStop, stopsAtOnce
    <2>6. CASE runRunner BY <2>6 DEF runRunner
    <2>7. CASE endBatch BY <2>7 DEF endBatch
    <2>8. CASE endProcess BY <2>8 DEF endProcess
    <2> QED BY <1>3, <2>1, <2>2, <2>3, <2>4, <2>5, <2>6, <2>7, <2>8 DEF process
<1>4. CASE UNCHANGED threadQueueVars BY <1>4 DEF threadQueueVars
<1> QED BY <1>1, <1>2, <1>3, <1>4 DEF ThreadQueueNext

-----------------------------------------------------------------------------
(* Theorems *)

LEMMA InvStep ==
    ASSUME ThreadQueueInv, [ThreadQueueNext]_threadQueueVars
    PROVE  ThreadQueueInv'
BY TypeStep, LockStep, StopStep, WorkStep, OrderStep, WakeUpStep, DueStep, DrainStep
   DEF ThreadQueueInv

LEMMA InvAlways == ThreadQueueSpec => []ThreadQueueInv
BY InvInit, InvStep, PTL DEF ThreadQueueSpec

\* The state of the queue, of its thread and of every caller stays in its
\* type; in particular only producers ever hold the mutex of the list.
THEOREM ThreadQueueTypeCorrect == ThreadQueueSpec => []ThreadQueueTypeOK
<1>1. ThreadQueueInv => ThreadQueueTypeOK
    BY DEF ThreadQueueInv
<1> QED BY <1>1, InvAlways, PTL

\* A runner that waits always has an OS thread that will come for it, however
\* queue(), the idle time-out and stop() interleave.
THEOREM PendingServed == ThreadQueueSpec => []PendingMeansRunning
<1>1. ThreadQueueInv => PendingMeansRunning
    BY DEF ThreadQueueInv, StopInv, WorkInv, Serving, PendingMeansRunning, running
<1> QED BY <1>1, InvAlways, PTL

\* The thread never sleeps on an unset signal while a runner waits.
THEOREM WakeUpNotLost == ThreadQueueSpec => []NoLostWakeUp
<1>1. ThreadQueueInv => NoLostWakeUp
    BY DEF ThreadQueueInv
<1> QED BY <1>1, InvAlways, PTL

\* When a stop returns, everything queued before it was asked has been run.
THEOREM JoinLosesNothing == ThreadQueueSpec => []JoinDrains
<1>1. ThreadQueueInv => JoinDrains
    BY DEF ThreadQueueInv
<1> QED BY <1>1, InvAlways, PTL

\* The detailed thread implements the abstract queue of runners: every step
\* of locks, flags, signal and OS thread leaves the two histories alone,
\* submits one runner, or runs the oldest one that was not run yet.
THEOREM RefinesRunnerQueue == ThreadQueueSpec => Runners!RunnerQueueSafety
<1>1. ThreadQueueInit => Runners!RunnerQueueInit
    BY DEF ThreadQueueInit, Runners!RunnerQueueInit
<1>2. ASSUME ThreadQueueInv, [ThreadQueueNext]_threadQueueVars
      PROVE  [Runners!RunnerQueueNext]_<<submitted, executed>>
    <2> USE DEF callVars, workVars
    <2>1. ASSUME NEW p \in Producers, push(p) PROVE Runners!Submit
        <3>1. submitted \in Seq(Nat) /\ Len(submitted) + 1 \in Nat
            BY <1>2, SeqTypes DEF ThreadQueueInv
        <3>2. submitted' = Append(submitted, Len(submitted) + 1) /\ UNCHANGED executed
            BY <2>1 DEF push
        <3>3. /\ Len(submitted') = Len(submitted) + 1
              /\ SubSeq(submitted', 1, Len(submitted)) = submitted
            BY <3>1, <3>2
        <3> QED BY <3>2, <3>3 DEF Runners!Submit
    <2>2. CASE runRunner
        <3>1. /\ submitted \in Seq(Nat) /\ batch \in Seq(Nat)
              /\ Len(submitted) \in Nat /\ Len(executed) \in Nat
              /\ Len(batch) \in Nat /\ Len(runners) \in Nat
            BY <1>2, SeqTypes DEF ThreadQueueInv
        <3>2. /\ batch # <<>> /\ executed' = Append(executed, Head(batch))
              /\ UNCHANGED submitted
            BY <2>2 DEF runRunner
        <3>3. Head(batch) = Len(executed) + 1 /\ Len(batch) # 0
            BY <1>2, <3>1, <3>2, TailCounted DEF ThreadQueueInv, OrderInv
        <3>4. Len(executed) < Len(submitted)
            BY <1>2, <3>1, <3>3 DEF ThreadQueueInv, OrderInv
        <3>5. submitted[Len(executed) + 1] = Len(executed) + 1
            BY <1>2, <3>1, <3>4 DEF ThreadQueueInv, OrderInv, Counted
        <3>6. executed' = Append(executed, submitted[Len(executed) + 1])
            BY <3>2, <3>3, <3>5, Zenon
        <3> QED BY <3>2, <3>4, <3>6, Zenon DEF Runners!Execute, Runners!RunnerQueueNext
    <2>3. ASSUME NEW p \in Producers, produce(p), ~push(p)
          PROVE  UNCHANGED <<submitted, executed>>
        BY <2>3 DEF produce, queue, startRunning, startStopped, startJoin,
                    startReset, startCreate
    <2>4. ASSUME NEW s \in Stoppers, shutdown(s)
          PROVE  UNCHANGED <<submitted, executed>>
        BY <2>4 DEF shutdown, joinStopped, stop, stopLock, stopJoin
    <2>5. CASE process /\ ~runRunner
        BY <2>5 DEF process, awake, idleTimeout, takeRunners, waitMore, selfStop,
                    endBatch, endProcess
    <2>6. CASE UNCHANGED threadQueueVars
        BY <2>6 DEF threadQueueVars
    <2> QED
        BY <1>2, <2>1, <2>2, <2>3, <2>4, <2>5, <2>6
           DEF ThreadQueueNext, Runners!RunnerQueueNext
<1> QED
    BY <1>1, <1>2, InvAlways, PTL DEF ThreadQueueSpec, Runners!RunnerQueueSafety

=============================================================================
