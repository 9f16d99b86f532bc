---------------------------- MODULE ThreadQueue ----------------------------
(***************************************************************************)
(* A thread of the pool: Base::Thread, its Signal and the ThreadQueue that *)
(* feeds it (GroupBuffer has the same loop and the same entry points).     *)
(* The OS thread lives only while there is work: it stops by itself when   *)
(* nothing came for two minutes and the next caller of queue() starts it   *)
(* again, while others may be asking it to stop.                           *)
(*                                                                         *)
(* Every access to what the threads share is a step: the two mutexes, the  *)
(* signal and the two volatile flags.  A runner is its number.             *)
(***************************************************************************)
EXTENDS Naturals, Sequences

CONSTANTS
    Producers,      \* threads that call queue()
    Stoppers,       \* threads that call ThreadPool::join or the destructor
    Free,           \* the holder of a free mutex
    MaxSubmitted,   \* bound: runners queued
    MaxStops        \* bound: stops asked

ASSUME ThreadQueueAssumption ==
    /\ Producers \intersect Stoppers = {}
    /\ Free \notin Producers \union Stoppers
    /\ MaxSubmitted \in Nat /\ MaxStops \in Nat

VARIABLES
    listLock,       \* holder of ThreadQueue::_mutex
    threadLock,     \* holder of Thread::_mutex
    stopped,        \* Thread::_stop
    requestStop,    \* Thread::_requestStop
    wakeUp,         \* Thread::wakeUp, TRUE when set
    worker,         \* what the OS thread is doing, "none" if _thread is not joinable
    timeout,        \* the local `timeout` of run()
    runners,        \* ThreadQueue::_runners
    batch,          \* the runners run() took out of _runners
    caller,         \* what each caller is doing
    due,            \* history: runners queued when the caller asked for a stop
    stops,          \* counter for the bound MaxStops
    submitted, executed \* history: the runners queued and those run

callVars == <<listLock, threadLock, caller, due, stops>>
workVars == <<worker, timeout, runners, batch, executed>>
flagVars == <<stopped, requestStop, wakeUp>>
threadQueueVars == <<callVars, workVars, flagVars, submitted>>

running == ~stopped

\* _thread.join() returns when the OS thread is over, or was never started.
joinedWhenIdle == worker \in {"none", "wait", "ended"}
joined == worker \in {"none", "ended"}

ThreadQueueInit ==
    /\ listLock = Free /\ threadLock = Free
    /\ stopped = TRUE /\ requestStop \in BOOLEAN /\ wakeUp = FALSE
    /\ worker = "none" /\ timeout = FALSE
    /\ runners = <<>> /\ batch = <<>>
    /\ caller = [c \in Producers \union Stoppers |-> "idle"]
    /\ due = [c \in Stoppers |-> 0]
    /\ stops = 0
    /\ submitted = <<>> /\ executed = <<>>

goes(c, step) == caller' = [caller EXCEPT ![c] = step]

-----------------------------------------------------------------------------
(* queue(pRunner): the whole call holds the mutex of the list *)

queue(p) ==
    /\ caller[p] = "idle"
    /\ Len(submitted) < MaxSubmitted
    /\ listLock = Free
    /\ listLock' = p
    /\ goes(p, "start")
    /\ UNCHANGED <<threadLock, due, stops, workVars, flagVars, submitted>>

\* start(): nothing to do on a running thread.
startRunning(p) ==
    /\ caller[p] = "start"
    /\ running
    /\ goes(p, "push")
    /\ UNCHANGED <<listLock, threadLock, due, stops, workVars, flagVars, submitted>>

startStopped(p) ==
    /\ caller[p] = "start"
    /\ ~running
    /\ threadLock = Free
    /\ threadLock' = p
    /\ goes(p, "join")
    /\ UNCHANGED <<listLock, due, stops, workVars, flagVars, submitted>>

startJoin(p) ==
    /\ caller[p] = "join"
    /\ joined
    /\ worker' = "none"
    /\ goes(p, "reset")
    /\ UNCHANGED <<listLock, threadLock, due, stops, timeout, runners, batch,
                   executed, flagVars, submitted>>

startReset(p) ==
    /\ caller[p] = "reset"
    /\ wakeUp' = FALSE
    /\ stopped' = FALSE
    /\ goes(p, "create")
    /\ UNCHANGED <<listLock, threadLock, due, stops, workVars, requestStop, submitted>>

startCreate(p) ==
    /\ caller[p] = "create"
    /\ requestStop' = FALSE
    /\ worker' = "wait"
    /\ threadLock' = Free
    /\ goes(p, "push")
    /\ UNCHANGED <<listLock, due, stops, timeout, runners, batch, executed,
                   stopped, wakeUp, submitted>>

push(p) ==
    /\ caller[p] = "push"
    /\ LET r == Len(submitted) + 1
       IN  runners' = Append(runners, r) /\ submitted' = Append(submitted, r)
    /\ wakeUp' = TRUE
    /\ listLock' = Free
    /\ goes(p, "idle")
    /\ UNCHANGED <<threadLock, due, stops, worker, timeout, batch, executed,
                   stopped, requestStop>>

produce(p) ==
    \/ queue(p) \/ startRunning(p) \/ startStopped(p) \/ startJoin(p)
    \/ startReset(p) \/ startCreate(p) \/ push(p)

-----------------------------------------------------------------------------
(* ThreadPool::join, and stop() called from another thread *)

\* ThreadPool::join passes over a thread that is not running.
joinStopped(s) ==
    /\ caller[s] \in {"idle", "returned"}
    /\ stops < MaxStops
    /\ ~running
    /\ stops' = stops + 1
    /\ due' = [due EXCEPT ![s] = Len(submitted)]
    /\ goes(s, "returned")
    /\ UNCHANGED <<listLock, threadLock, workVars, flagVars, submitted>>

\* stop() from ThreadPool::join after running() held, or from ~ThreadQueue.
stop(s) ==
    /\ caller[s] \in {"idle", "returned"}
    /\ stops < MaxStops
    /\ stops' = stops + 1
    /\ due' = [due EXCEPT ![s] = Len(submitted)]
    /\ requestStop' = TRUE
    /\ goes(s, "stopLock")
    /\ UNCHANGED <<listLock, threadLock, workVars, stopped, wakeUp, submitted>>

\* The mutex of the thread keeps a start from resetting the signal.
stopLock(s) ==
    /\ caller[s] = "stopLock"
    /\ threadLock = Free
    /\ threadLock' = s
    /\ wakeUp' = TRUE
    /\ goes(s, "stopJoin")
    /\ UNCHANGED <<listLock, due, stops, workVars, stopped, requestStop, submitted>>

stopJoin(s) ==
    /\ caller[s] = "stopJoin"
    /\ joined
    /\ worker' = "none"
    /\ threadLock' = Free
    /\ goes(s, "returned")
    /\ UNCHANGED <<listLock, due, stops, timeout, runners, batch, executed,
                   flagVars, submitted>>

shutdown(s) == joinStopped(s) \/ stop(s) \/ stopLock(s) \/ stopJoin(s)

-----------------------------------------------------------------------------
(* The OS thread: Thread::process and ThreadQueue::run *)

\* wakeUp.wait(120000), the signal is set ...
awake ==
    /\ worker = "wait"
    /\ wakeUp
    /\ wakeUp' = FALSE
    /\ timeout' = FALSE
    /\ worker' = "lock"
    /\ UNCHANGED <<callVars, runners, batch, executed, stopped, requestStop, submitted>>

\* ... or it is not for two minutes.
idleTimeout ==
    /\ worker = "wait"
    /\ ~wakeUp
    /\ timeout' = TRUE
    /\ worker' = "lock"
    /\ UNCHANGED <<callVars, runners, batch, executed, flagVars, submitted>>

\* The two tests of run() under the mutex of the list.
batchDone == batch = <<>>
nothingLeft == runners = <<>>

onlyOnRequest == requestStop
mustStop == timeout \/ requestStop

takeRunners ==
    /\ worker = "lock" /\ listLock = Free
    /\ runners # <<>>
    /\ batch' = runners
    /\ runners' = <<>>
    /\ worker' = "run"
    /\ UNCHANGED <<callVars, timeout, executed, flagVars, submitted>>

waitMore ==
    /\ worker = "lock" /\ listLock = Free
    /\ nothingLeft
    /\ ~mustStop
    /\ worker' = "wait"
    /\ UNCHANGED <<callVars, timeout, runners, batch, executed, flagVars, submitted>>

\* stop() called by the thread itself, under the mutex of the list: _stop is
\* set at once so that the next queue() starts the thread again.
stopsAfterUnlock == stopped
stopsAtOnce == TRUE

selfStop ==
    /\ worker = "lock" /\ listLock = Free
    /\ nothingLeft
    /\ mustStop
    /\ requestStop' = TRUE
    /\ stopped' = stopsAtOnce
    /\ worker' = "ending"
    /\ UNCHANGED <<callVars, timeout, runners, batch, executed, wakeUp, submitted>>

runRunner ==
    /\ worker = "run"
    /\ batch # <<>>
    /\ executed' = Append(executed, Head(batch))
    /\ batch' = Tail(batch)
    /\ UNCHANGED <<callVars, worker, timeout, runners, flagVars, submitted>>

endBatch ==
    /\ worker = "run"
    /\ batch = <<>>
    /\ worker' = "lock"
    /\ UNCHANGED <<callVars, timeout, runners, batch, executed, flagVars, submitted>>

endProcess ==
    /\ worker = "ending"
    /\ stopped' = TRUE
    /\ worker' = "ended"
    /\ UNCHANGED <<callVars, timeout, runners, batch, executed, requestStop, wakeUp,
                   submitted>>

process ==
    \/ awake \/ idleTimeout \/ takeRunners \/ waitMore \/ selfStop
    \/ runRunner \/ endBatch \/ endProcess

-----------------------------------------------------------------------------
ThreadQueueNext ==
    \/ \E p \in Producers : produce(p)
    \/ \E s \in Stoppers : shutdown(s)
    \/ process

ThreadQueueSpec == ThreadQueueInit /\ [][ThreadQueueNext]_threadQueueVars

\* Every thread that is inside a call, and the OS thread, goes on when it
\* can; nobody has to begin a call.
ThreadQueueFairness ==
    /\ WF_threadQueueVars(process)
    /\ \A p \in Producers : WF_threadQueueVars(produce(p) /\ caller[p] # "idle")
    /\ \A s \in Stoppers : WF_threadQueueVars(stopLock(s) \/ stopJoin(s))

FairThreadQueueSpec == ThreadQueueSpec /\ ThreadQueueFairness

-----------------------------------------------------------------------------
(* Correctness *)

ThreadQueueTypeOK ==
    /\ listLock \in Producers \union {Free}
    /\ threadLock \in Producers \union Stoppers \union {Free}
    /\ stopped \in BOOLEAN /\ requestStop \in BOOLEAN /\ wakeUp \in BOOLEAN
    /\ timeout \in BOOLEAN
    /\ worker \in {"none", "wait", "lock", "run", "ending", "ended"}
    /\ runners \in Seq(Nat) /\ batch \in Seq(Nat)
    /\ submitted \in Seq(Nat) /\ executed \in Seq(Nat)
    /\ caller \in [Producers \union Stoppers ->
                     {"idle", "start", "join", "reset", "create", "push",
                      "stopLock", "stopJoin", "returned"}]
    /\ due \in [Stoppers -> Nat]
    /\ stops \in Nat

\* A runner that waits has an OS thread that will come for it: the thread
\* is not on its way out, and _stop says so to ThreadPool::join.  The race
\* is between the last look at _runners and the end of the thread.
PendingMeansRunning ==
    (runners # <<>> \/ batch # <<>>) => running /\ worker \in {"wait", "lock", "run"}

\* No lost wake-up: start() resets the signal and a stop sets it, yet a
\* thread never sleeps on a signal that is not set while a runner waits.
NoLostWakeUp == (worker = "wait" /\ runners # <<>>) => wakeUp

\* Invoker.cpp, before threadPool.join(): "it waits the end of sending last
\* session messages".  What was queued when the stop was asked has been run
\* when it returns, also when the thread was stopped and started meanwhile.
JoinDrains == \A s \in Stoppers : caller[s] = "returned" => Len(executed) >= due[s]

\* The queue of runners that RTMFPWriter relies on: once each, in order,
\* and all of them, although threads end and start between two runners.
Runners == INSTANCE RunnerQueue

ImplementsRunnerQueue == Runners!RunnerQueueSpec

\* A stop that is asked returns, although the threads of the callers keep
\* each other from the two mutexes and a start may undo the request: at the
\* latest when nothing comes for two minutes.
StopReturns == \A s \in Stoppers : caller[s] = "stopLock" ~> caller[s] = "returned"

=============================================================================
