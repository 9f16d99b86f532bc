----------------------------- MODULE RTMFPFlow -----------------------------
(***************************************************************************)
(* RTMFPFlow, the receiving half of an RTMFP flow, as operators on the     *)
(* object's fields: one thread owns a flow, so each method is one step of  *)
(* the module that uses it.  A packet is abstracted to the fragment it     *)
(* carries: a record with at least the fields size, before, after          *)
(* (MESSAGE_WITH_BEFOREPART, MESSAGE_WITH_AFTERPART), abandon and end      *)
(* (MESSAGE_ABANDON, MESSAGE_END).                                         *)
(***************************************************************************)
EXTENDS Naturals, Sequences

\* The constructors.  stageEnd = 0 means that the end is not known, an empty
\* _buffer is a null _pBuffer; delivered is the history of what output()
\* gave to the FlashStream, ended counts its calls without a packet.
NewFlow == [stage |-> 0, stageEnd |-> 0, fragments |-> <<>>, fragmentation |-> 0,
            buffer |-> <<>>, delivered |-> <<>>, ended |-> 0]

\* The completed flow of input() and consumed().
completed(flow) == flow.stageEnd # 0 /\ DOMAIN flow.fragments = {}

\* onFragment: a message whose beginning is lost is ignored, one that has
\* more parts is kept in the buffer, any other goes to the stream.
onFragment(flow, stage, fragment) ==
    LET headless == flow.buffer = <<>> /\ fragment.before
        parts    == IF headless THEN <<>> ELSE Append(flow.buffer, fragment)
    IN  [flow EXCEPT
            !.stage = stage,
            !.buffer = IF fragment.after THEN parts ELSE <<>>,
            !.delivered = IF fragment.after \/ headless THEN @ ELSE Append(@, parts)]

\* _fragments.emplace: nothing changes if the stage is already there.
bufferFragment(flow, stage, fragment) ==
    IF stage \in DOMAIN flow.fragments THEN flow
    ELSE [flow EXCEPT
            !.fragments = [s \in DOMAIN @ \union {stage} |-> IF s = stage THEN fragment ELSE @[s]],
            !.fragmentation = @ + fragment.size]

\* The content units of the fragments of a set of stages.
sizeOf(fragments, stages) ==
    LET sizes[S \in SUBSET stages] ==
            IF S = {} THEN 0
            ELSE LET s == CHOOSE x \in S : TRUE IN fragments[s].size + sizes[S \ {s}]
    IN  sizes[stages]

\* The fragments of a set of stages leave _fragments.
erase(flow, stages) ==
    [flow EXCEPT
        !.fragments = [s \in DOMAIN @ \ stages |-> @[s]],
        !.fragmentation = @ - sizeOf(flow.fragments, stages)]

\* The ABANDON branch of input(): what is buffered up to `stage` is lost.
abandonKeepsBuffer(flow, stage) ==
    [erase(flow, {s \in DOMAIN flow.fragments : s <= stage}) EXCEPT !.stage = stage]
abandonKeepsCount(flow, stage) ==
    [flow EXCEPT !.fragments = [s \in {t \in DOMAIN @ : t > stage} |-> @[s]],
                 !.buffer = <<>>, !.stage = stage]
abandonTo(flow, stage) ==
    [erase(flow, {s \in DOMAIN flow.fragments : s <= stage}) EXCEPT
        !.buffer = <<>>, !.stage = stage]

\* The stages of _fragments that follow flow.stage without a gap.
following(flow) ==
    {s \in DOMAIN flow.fragments : s > flow.stage /\ (flow.stage + 1)..s \subseteq DOMAIN flow.fragments}

\* The loop of input() that hands on the fragments the gap was holding back.
unbuffer(flow) ==
    LET next == following(flow)
        stageAfter == IF next = {} THEN flow.stage ELSE CHOOSE s \in next : \A t \in next : t <= s
        after[s \in flow.stage..stageAfter] ==
            IF s = flow.stage THEN flow ELSE onFragment(after[s - 1], s, flow.fragments[s])
    IN  erase(after[stageAfter], next)

\* The end of input(): output without a packet once everything is there.
signalEnd(flow) ==
    IF completed(flow) THEN [flow EXCEPT !.ended = @ + 1] ELSE flow

\* input() past its first test, on a flow that is not completed.
inputStageAgain(flow, stage, fragment) ==
    IF fragment.abandon THEN signalEnd(unbuffer(abandonTo(flow, stage)))
    ELSE IF stage > flow.stage + 1 THEN bufferFragment(flow, stage, fragment)
    ELSE signalEnd(unbuffer(onFragment(flow, stage, fragment)))
inputStage(flow, stage, fragment) ==
    IF stage <= flow.stage THEN flow
    ELSE IF fragment.abandon THEN signalEnd(unbuffer(abandonTo(flow, stage)))
    ELSE IF stage > flow.stage + 1 THEN bufferFragment(flow, stage, fragment)
    ELSE signalEnd(unbuffer(onFragment(flow, stage, fragment)))

input(flow, stage, fragment) ==
    IF completed(flow) THEN [flow EXCEPT !.stage = stage]
    ELSE IF flow.stageEnd # 0 /\ stage > flow.stageEnd THEN flow
    ELSE IF flow.stageEnd = 0 /\ fragment.end
         THEN inputStage([flow EXCEPT !.stageEnd = stage], stage, fragment)
    ELSE inputStage(flow, stage, fragment)

\* What is written for the hole before a run: its length minus one.
missingOffByOne(first, stage) == first - stage - 1
missing(first, stage) == first - stage - 2

\* The stage that acknowledges everything before it.
ackedWithBuffered(flow) ==
    IF DOMAIN flow.fragments = {} THEN flow.stage
    ELSE CHOOSE s \in DOMAIN flow.fragments : \A t \in DOMAIN flow.fragments : t <= s
acked(flow) == flow.stage

\* buildAck: for each run of buffered stages the number of stages missing
\* before it and the number of stages in it, both minus one.
buildAck(flow) ==
    LET buffered == DOMAIN flow.fragments
        ranges[stage \in buffered \union {flow.stage}] ==
            LET left == {s \in buffered : s > stage}
            IN  IF left = {} THEN <<>>
                ELSE LET first == CHOOSE s \in left : \A t \in left : s <= t
                         last  == CHOOSE t \in left :
                                     first..t \subseteq left /\ (t + 1) \notin left
                     IN  <<missing(first, stage), last - first>> \o ranges[last]
    IN  [stage |-> acked(flow), losts |-> ranges[flow.stage]]

-----------------------------------------------------------------------------
(* Correctness *)

\* What the ranges of an acknowledgment say to a reader of the protocol: the
\* stages they announce as received beyond ack.stage.
announced(ack) ==
    LET n == Len(ack.losts)
        \* the last stage described by the first i numbers
        upTo[i \in 0..n] == IF i = 0 THEN ack.stage ELSE upTo[i - 1] + ack.losts[i] + 1
    IN  UNION {(upTo[i - 1] + 1)..upTo[i] : i \in {j \in 1..n : j % 2 = 0}}

=============================================================================
