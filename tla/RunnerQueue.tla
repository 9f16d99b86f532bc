---------------------------- MODULE RunnerQueue ----------------------------
(***************************************************************************)
(* What a ThreadQueue promises to those who queue runners: each is run     *)
(* once, one at a time, in the order of the calls.  This is the sending    *)
(* thread that RTMFPWriter relies on, without locks, signals or OS threads.*)
(***************************************************************************)
EXTENDS Naturals, Sequences

VARIABLES
    submitted,  \* the runners given to queue(), in order
    executed    \* the runners that were run, in order

RunnerQueueInit == submitted = <<>> /\ executed = <<>>

Submit ==
    /\ Len(submitted') = Len(submitted) + 1
    /\ SubSeq(submitted', 1, Len(submitted)) = submitted
    /\ UNCHANGED executed

Execute ==
    /\ Len(executed) < Len(submitted)
    /\ executed' = Append(executed, submitted[Len(executed) + 1])
    /\ UNCHANGED submitted

RunnerQueueNext == Submit \/ Execute

\* Order and at most once, and every runner in the end.
RunnerQueueSafety == RunnerQueueInit /\ [][RunnerQueueNext]_<<submitted, executed>>

RunnerQueueSpec == RunnerQueueSafety /\ WF_<<submitted, executed>>(Execute)

=============================================================================
