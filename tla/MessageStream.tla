--------------------------- MODULE MessageStream ---------------------------
(***************************************************************************)
(* What one RTMFP flow promises to the two applications that use it, with  *)
(* no stage, packet, acknowledgment or thread: the messages written at one *)
(* end are delivered at the other in their order and at most once, only    *)
(* unreliable ones are skipped, and nothing comes after the end.  The end  *)
(* itself may discard what was not delivered.                              *)
(***************************************************************************)
EXTENDS Naturals, Sequences

VARIABLES
    log,        \* the messages written: [id, size, reliable]
    delivered,  \* identifiers of the messages delivered
    ended       \* how many times the end of the stream was announced

streamVars == <<log, delivered, ended>>

StreamInit == log = <<>> /\ delivered = <<>> /\ ended = 0

last(ids) == IF ids = <<>> THEN 0 ELSE ids[Len(ids)]

\* ids are written messages, in order, and skip unreliable ones only.
Regular(ids, written) ==
    /\ \A i \in 1..Len(ids) : ids[i] \in 1..Len(written)
    /\ \A i \in 1..(Len(ids) - 1) : ids[i] < ids[i + 1]
    /\ \A m \in 1..last(ids) : written[m].reliable => \E i \in 1..Len(ids) : ids[i] = m

Write ==
    /\ Len(log') = Len(log) + 1
    /\ SubSeq(log', 1, Len(log)) = log
    /\ UNCHANGED <<delivered, ended>>

\* One or several messages are delivered, the end may follow them.
Deliver ==
    /\ ended = 0
    /\ Len(delivered') >= Len(delivered)
    /\ SubSeq(delivered', 1, Len(delivered)) = delivered
    /\ Regular(delivered', log)
    /\ ended' \in {0, 1}
    /\ UNCHANGED log

StreamNext == Write \/ Deliver

StreamSpec == StreamInit /\ [][StreamNext]_streamVars

=============================================================================
