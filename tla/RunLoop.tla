------------------------------ MODULE RunLoop ------------------------------
(***************************************************************************)
(* One run of the agent: RunHandle::drive of tea-core run/mod.rs with the  *)
(* host calls that may interleave with it.  The turn loop asks the         *)
(* provider, publishes the streamed response, runs its tool calls, injects *)
(* queued input, compacts the transcript when told to, and settles.        *)
(*                                                                         *)
(* Everything the loop publishes goes through emit, which awaits the       *)
(* observers: `out' holds the events of the step being published, and the  *)
(* host may call, and an observer may fail, between any two of them.       *)
(*                                                                         *)
(* Abstracted: contents, usage and hook results; a text delta after the    *)
(* first (it repeats the update); the events no decision depends on        *)
(* (context_estimate, model_turn_usage, tool updates and failures); the    *)
(* scheduling of a batch is any order its mode allows (ToolBatch has it).  *)
(* The run owns the agent throughout, which AgentOwnership is about.       *)
(***************************************************************************)
EXTENDS Naturals, Sequences, FiniteSets

CONSTANTS
    Scenarios           \* the agents, providers and hosts a run may have

QueueModes == {"OneAtATime", "All"}
StopReasons == {"Stop", "ToolUse", "Length", "Error", "Aborted", "Cancelled"}

ASSUME ScenarioAssumption ==
    \A s \in Scenarios :
        /\ {s.durable, s.prompts, s.maxCompactions, s.maxOverflowRetries,
            s.maxTurn, s.maxCalls, s.maxInput} \subseteq Nat
        /\ s.prompts = 0 => s.durable % 2 = 1
        /\ {s.steeringMode, s.followUpMode} \subseteq QueueModes
        /\ {s.skipInitialSteering, s.autoCompaction, s.overflowRecovery,
            s.hasCompactor} \subseteq BOOLEAN
        /\ s.responses \subseteq StopReasons \cup {"Overflow"}
        /\ s.faults \subseteq {"observer", "stream", "hook", "provider"}
        /\ s.hostCalls \subseteq {"abort", "clear", "steer", "follow_up"}

VARIABLES
    scenario,    \* the one of this run, which does not change
    messages,    \* AgentState.messages
    nextId,      \* AgentState.next_message_id
    pendingTools,\* AgentState.pending_tool_calls
    isStreaming, \* AgentState.is_streaming
    steering,    \* the steering queue
    followUp,    \* the follow-up queue
    offered,     \* messages enqueued so far, bounded by MaxInput
    token,       \* the run's cancellation token is cancelled
    runPhase,    \* RunState.phase
    turn,        \* RunState.turn_id
    events,      \* RunState.events
    reported,    \* identifiers of the messages the last agent_end carried
    pc,          \* where drive is
    out,         \* events of the current step not yet published
    error,       \* the error drive_inner returns
    settling,    \* drive is in its error branch
    loop,        \* locals of drive_inner and consume_assistant_stream
    batch,       \* locals of execute_tool_calls
    policy,      \* RunPolicyState
    snapshot     \* the transcript an uncommitted compaction started from

agentVars == <<messages, nextId, pendingTools, isStreaming>>
queueVars == <<steering, followUp, offered>>
logVars == <<events, reported>>
runVars == <<scenario, runPhase, turn>>
driveVars == <<error, settling>>
localVars == <<loop, batch>>
policyVars == <<policy, snapshot>>
vars == <<agentVars, queueVars, token, runVars, logVars, pc, out, driveVars,
          localVars, policyVars>>

\* What the scenario says of the transcript before the run, of the agent's
\* configuration, of what the provider, the environment and the host may do, and
\* of the bounds: tool calls only in responses before turn MaxTurn, MaxCalls of
\* them at most, MaxInput messages of the host.
Durable == scenario.durable
Prompts == scenario.prompts                         \* none for continue
SkipInitialSteering == scenario.skipInitialSteering \* a continue took its prompts from the queue
SteeringMode == scenario.steeringMode
FollowUpMode == scenario.followUpMode
AutoCompaction == scenario.autoCompaction
OverflowRecovery == scenario.overflowRecovery       \* CompactAndRetry
HasCompactor == scenario.hasCompactor
MaxCompactions == scenario.maxCompactions
MaxOverflowRetries == scenario.maxOverflowRetries
Responses == scenario.responses
Faults == scenario.faults
HostCalls == scenario.hostCalls
MaxTurn == scenario.maxTurn
MaxCalls == scenario.maxCalls
MaxInput == scenario.maxInput

Terminal == {"Succeeded", "Failed", "Cancelled"}
Labels == {"created", "initial_drain", "inject", "boundary", "request",
           "streaming", "response", "tools", "breaker", "prepare", "drain",
           "drain_follow_up", "next", "compact", "compacting", "model_failed",
           "errored", "settled"} \cup Terminal

\* Inputs are numbered in the order the host enqueues them, follow-ups from
\* MaxInput + 1 on; 0 is no input.
User(id, input) ==
    [role |-> "user", id |-> id, stop |-> "None", calls |-> <<>>, input |-> input]
Assistant(id, stop, calls) ==
    [role |-> "assistant", id |-> id, stop |-> stop, calls |-> calls, input |-> 0]
ToolResult(id, call) ==
    [role |-> "tool_result", id |-> id, stop |-> "None", calls |-> <<call>>, input |-> 0]
Summary(id) ==
    [role |-> "summary", id |-> id, stop |-> "None", calls |-> <<>>, input |-> 0]

Event(kind, of) == [kind |-> kind, of |-> of]
Published(id) == <<Event("message_start", id), Event("message_end", id)>>
AgentEnd == <<Event("agent_end", 0)>>
TurnEnd == <<Event("turn_end", turn)>>
\* Mutant: the run ends before its turn does.
EndOfRun_Swapped == AgentEnd \o TurnEnd

EndOfRun == TurnEnd \o AgentEnd

LastMessage == messages[Len(messages)]
Replaced(s, x) == [s EXCEPT ![Len(s)] = x]
After(s, n) == SubSeq(s, n + 1, Len(s))
RangeOf(s) == {s[i] : i \in DOMAIN s}

NoBatch == [mode |-> "none", announced |-> 0, ended |-> {}, answered |-> 0,
            observed |-> 0, terminate |-> TRUE, tripped |-> FALSE]

Init ==
    /\ scenario \in Scenarios
    /\ messages = [i \in 1 .. Durable + Prompts |->
                     IF i > Durable \/ i % 2 = 1 THEN User(i, 0)
                                                 ELSE Assistant(i, "Stop", <<>>)]
    /\ nextId = Durable + Prompts + 1
    /\ pendingTools = {}
    /\ isStreaming = FALSE
    /\ steering = <<>> /\ followUp = <<>> /\ offered = 0
    /\ token = FALSE
    /\ runPhase = "Created" /\ turn = 0
    /\ events = <<>> /\ reported = {}
    /\ pc = "created" /\ out = <<>>
    /\ error = "none" /\ settling = FALSE
    /\ loop = [assistant |-> 0, calls |-> <<>>, reason |-> "None",
               requestCount |-> 0, completed |-> FALSE, more |-> FALSE,
               queued |-> <<>>, compacting |-> "none"]
    /\ batch = NoBatch
    /\ policy = [compactions |-> 0, retries |-> 0, retried |-> FALSE,
                 cancelled |-> FALSE, blocked |-> 0]
    /\ snapshot = <<>>

-----------------------------------------------------------------------------
(* Publishing and failing. *)

\* drive_inner stands at a label with everything published.
Ready(label) == pc = label /\ out = <<>>

\* The error branch of every `?': the next step is drive's.
Fail(e) == pc' = "errored" /\ error' = e

\* RunHandle::new_messages
NewMessages == {m.id : m \in RangeOf(After(messages, Durable))}

\* Mutant: a failing observer ends the error branch's publishing.
Emit_DropRest ==
    /\ out # <<>>
    /\ events' = Append(events, Head(out))
    /\ reported' = IF Head(out).kind = "agent_end" THEN NewMessages ELSE reported
    /\ \/ out' = Tail(out) /\ UNCHANGED <<pc, error>>
       \/ /\ "observer" \in Faults /\ out' = <<>>
          /\ IF settling THEN UNCHANGED <<pc, error>> ELSE Fail("observer")
    /\ UNCHANGED <<agentVars, queueVars, token, runVars, settling, localVars,
                   policyVars>>

\* RunHandle::emit.  In the error branch of drive its result is ignored.
Emit ==
    /\ out # <<>>
    /\ events' = Append(events, Head(out))
    /\ reported' = IF Head(out).kind = "agent_end" THEN NewMessages ELSE reported
    /\ \/ out' = Tail(out) /\ UNCHANGED <<pc, error>>
       \/ "observer" \in Faults /\ ~settling /\ out' = <<>> /\ Fail("observer")
    /\ UNCHANGED <<agentVars, queueVars, token, runVars, settling, localVars,
                   policyVars>>

\* RunHandle::finish with settle_agent.
Finish ==
    /\ pc \in Terminal /\ out = <<>>
    /\ runPhase \notin Terminal
    /\ runPhase' = pc
    /\ isStreaming' = FALSE /\ pendingTools' = {}
    /\ pc' = "settled"
    /\ UNCHANGED <<scenario, messages, nextId, queueVars, token, turn, logVars,
                   out, driveVars, localVars, policyVars>>

-----------------------------------------------------------------------------
(* Starting, and the queued input injected at a turn boundary. *)

Start ==
    /\ Ready("created")
    /\ runPhase' = "Running" /\ turn' = 1
    /\ out' = <<Event("agent_start", 0), Event("turn_start", 1)>>
              \o [i \in 1 .. 2 * Prompts |->
                    Event(IF i % 2 = 1 THEN "message_start" ELSE "message_end",
                          Durable + (i + 1) \div 2)]
    /\ pc' = IF SkipInitialSteering THEN "boundary" ELSE "initial_drain"
    /\ UNCHANGED <<scenario, agentVars, queueVars, token, logVars, driveVars,
                   localVars, policyVars>>

\* MessageQueue::drain
Taken(queue, mode) ==
    IF mode = "All" \/ queue = <<>> THEN queue ELSE <<Head(queue)>>
\* Mutant: what one-at-a-time does not take is dropped.
Left_Dropped(queue, mode) == <<>>

Left(queue, mode) ==
    IF mode = "All" \/ queue = <<>> THEN <<>> ELSE Tail(queue)

\* drain_steering of the first turn
InitialDrain ==
    /\ Ready("initial_drain")
    /\ loop' = [loop EXCEPT !.queued = Taken(steering, SteeringMode)]
    /\ steering' = Left(steering, SteeringMode)
    /\ pc' = "inject"
    /\ UNCHANGED <<agentVars, followUp, offered, token, runVars, logVars, out,
                   driveVars, batch, policyVars>>

\* inject_queued_messages: one message per step, published before the next.
Inject ==
    /\ Ready("inject") /\ loop.queued # <<>>
    /\ messages' = Append(messages, User(nextId, Head(loop.queued)))
    /\ nextId' = nextId + 1
    /\ loop' = [loop EXCEPT !.queued = Tail(@)]
    /\ out' = Published(nextId)
    /\ UNCHANGED <<pendingTools, isStreaming, queueVars, token, runVars, logVars,
                   pc, driveVars, batch, policyVars>>

Injected ==
    /\ Ready("inject") /\ loop.queued = <<>>
    /\ pc' = "boundary"
    /\ UNCHANGED <<agentVars, queueVars, token, runVars, logVars, out, driveVars,
                   localVars, policyVars>>

-----------------------------------------------------------------------------
(* Automatic compaction. *)

\* The top of the loop: the estimate is below the threshold, or above it.
BelowThreshold ==
    /\ Ready("boundary")
    /\ pc' = "request"
    /\ UNCHANGED <<agentVars, queueVars, token, runVars, logVars, out, driveVars,
                   localVars, policyVars>>

AboveThreshold ==
    /\ Ready("boundary")
    /\ loop.completed /\ AutoCompaction
    /\ policy.blocked # Len(messages)
    /\ loop' = [loop EXCEPT !.compacting = "threshold"]
    /\ pc' = "compact"
    /\ UNCHANGED <<agentVars, queueVars, token, runVars, logVars, out, driveVars,
                   batch, policyVars>>

CompactionStart == Event("automatic_compaction_start", loop.compacting)
CompactionEnd == Event("automatic_compaction_end", loop.compacting)
SkippedEvent(reason) == Event("provider_request_skipped", reason)

\* maybe_automatic_compaction ends the run's transaction without a commit.
RefuseCompaction(e) ==
    /\ out' = <<CompactionEnd>>
    /\ Fail(e)
    /\ UNCHANGED <<agentVars, queueVars, token, runVars, logVars, settling,
                   localVars>>

CompactionLimit ==
    /\ Ready("compact") /\ policy.compactions >= MaxCompactions
    /\ snapshot' = messages
    /\ RefuseCompaction("compaction")
    /\ UNCHANGED policy

StartCompaction ==
    /\ Ready("compact") /\ policy.compactions < MaxCompactions
    /\ policy' = [policy EXCEPT !.compactions = @ + 1]
    /\ snapshot' = messages
    /\ out' = <<CompactionStart, SkippedEvent("compaction")>>
    /\ pc' = "compacting"
    /\ UNCHANGED <<agentVars, queueVars, token, runVars, logVars, driveVars,
                   localVars>>

\* No compactor, a failed one, or a replacement that does not validate.
CompactionFails ==
    /\ Ready("compacting") /\ (HasCompactor => ~token)
    /\ RefuseCompaction("compaction")
    /\ UNCHANGED policyVars

CompactionCancelled ==
    /\ Ready("compacting") /\ HasCompactor /\ token
    /\ policy' = [policy EXCEPT !.cancelled = TRUE]
    /\ RefuseCompaction("cancelled")
    /\ UNCHANGED snapshot

\* validate_messages: every call has one later result, every result its call.
CallsOf(s) == UNION {RangeOf(m.calls) : m \in
                       {x \in RangeOf(s) : x.role = "assistant"}}
ResultsOf(s) == UNION {RangeOf(m.calls) : m \in
                         {x \in RangeOf(s) : x.role = "tool_result"}}
Compactable(s) == CallsOf(s) = ResultsOf(s)

\* The compactor's summary in front of the suffix automatic_compaction_split
\* keeps, which never begins with a tool result.
Replacements ==
    {<<Summary(nextId)>> \o After(messages, k) :
        k \in {j \in 0 .. Len(messages) :
                 j < Len(messages) => messages[j + 1].role # "tool_result"}}

\* commit_replacement looks at the token under the lock of the transcript.
CommitReplacement ==
    /\ Ready("compacting") /\ HasCompactor /\ ~token
    /\ messages' \in {r \in Replacements : Compactable(r)}
    /\ nextId' = nextId + 1
    /\ snapshot' = <<>>
    /\ \E stillAbove \in BOOLEAN :
         policy' = IF stillAbove
                   THEN [policy EXCEPT !.blocked = Len(messages')]
                   ELSE policy
    /\ out' = <<CompactionEnd>>
    /\ loop' = [loop EXCEPT !.completed = @ /\ loop.compacting = "threshold"]
    /\ pc' = "request"
    /\ UNCHANGED <<pendingTools, isStreaming, queueVars, token, runVars, logVars,
                   driveVars, batch>>

-----------------------------------------------------------------------------
(* The model request and its streamed response. *)

Request ==
    /\ Ready("request")
    /\ isStreaming' = TRUE
    /\ loop' = [loop EXCEPT !.requestCount = Len(messages), !.assistant = 0,
                            !.calls = <<>>, !.reason = "None"]
    /\ \/ pc' = "streaming" /\ UNCHANGED error
       \/ "provider" \in Faults /\ Fail("provider")
    /\ UNCHANGED <<messages, nextId, pendingTools, queueVars, token, runVars,
                   logVars, out, settling, batch, policyVars>>

\* consume_assistant_stream: the first delta makes the partial message visible.
TextDelta ==
    /\ Ready("streaming") /\ loop.assistant = 0
    /\ messages' = Append(messages, Assistant(nextId, "None", <<>>))
    /\ nextId' = nextId + 1
    /\ loop' = [loop EXCEPT !.assistant = nextId]
    /\ out' = <<Event("message_start", nextId), Event("message_update", nextId)>>
    /\ UNCHANGED <<pendingTools, isStreaming, queueVars, token, runVars, logVars,
                   pc, driveVars, batch, policyVars>>

\* The source fails, ends without a terminal event, or goes on after one.
StreamFails ==
    /\ Ready("streaming") /\ "stream" \in Faults
    /\ Fail("stream")
    /\ UNCHANGED <<agentVars, queueVars, token, runVars, logVars, out, settling,
                   localVars, policyVars>>

Stop(reason) == IF reason = "Overflow" THEN "Error" ELSE reason

\* The terminal event, with the tool calls collected before it.
StreamEnds(reason, n) ==
    LET fresh == loop.assistant = 0
        id == IF fresh THEN nextId ELSE loop.assistant
        calls == [i \in 1 .. n |-> <<id, i>>]
        final == Assistant(id, Stop(reason), calls)
    IN /\ Ready("streaming")
       /\ n > 0 => turn < MaxTurn
       /\ messages' = IF fresh THEN Append(messages, final)
                               ELSE Replaced(messages, final)
       /\ nextId' = IF fresh THEN nextId + 1 ELSE nextId
       /\ isStreaming' = FALSE
       /\ loop' = [loop EXCEPT !.assistant = id, !.calls = calls, !.reason = reason]
       /\ policy' = [policy EXCEPT !.retried = @ /\ reason = "Overflow"]
       /\ out' = IF fresh THEN Published(id) ELSE <<Event("message_end", id)>>
       /\ pc' = "response"
       /\ UNCHANGED <<pendingTools, queueVars, token, runVars, logVars, driveVars,
                      batch, snapshot>>

-----------------------------------------------------------------------------
(* What drive_inner does with a response. *)

Overflowed == loop.reason = "Overflow"
Recovers == Overflowed /\ AutoCompaction /\ OverflowRecovery
\* Mutant: one retry too many.
RetryAllowed_OffByOne == ~policy.retried /\ policy.retries <= MaxOverflowRetries

RetryAllowed == ~policy.retried /\ policy.retries < MaxOverflowRetries

\* Back to the transcript of the request, to compact it and ask again.
RetryOverflow ==
    /\ Ready("response") /\ Recovers /\ RetryAllowed
    /\ policy' = [policy EXCEPT !.retries = @ + 1, !.retried = TRUE]
    /\ messages' = SubSeq(messages, 1, loop.requestCount)
    /\ isStreaming' = FALSE
    /\ loop' = [loop EXCEPT !.compacting = "overflow"]
    /\ pc' = "compact"
    /\ UNCHANGED <<nextId, pendingTools, queueVars, token, runVars, logVars, out,
                   driveVars, batch, snapshot>>

\* An error, an abort, or an overflow beyond the retry limit ends the run.
ResponseFailed ==
    /\ Ready("response")
    /\ Stop(loop.reason) \in {"Error", "Aborted"}
    /\ Recovers => ~RetryAllowed
    /\ out' = IF Recovers
              THEN <<Event("automatic_compaction_end", "overflow")>> \o EndOfRun
              ELSE EndOfRun
    /\ pc' = "model_failed"
    /\ UNCHANGED <<agentVars, queueVars, token, runVars, logVars, driveVars,
                   localVars, policyVars>>

\* Whether an aborted response cancelled the run is decided after agent_end.
ModelFailed ==
    /\ Ready("model_failed")
    /\ pc' = IF loop.reason = "Aborted" /\ token THEN "Cancelled" ELSE "Failed"
    /\ UNCHANGED <<agentVars, queueVars, token, runVars, logVars, out, driveVars,
                   localVars, policyVars>>

CancelledByModel == loop.reason = "Cancelled" /\ token

ResponseCancelled ==
    /\ Ready("response") /\ CancelledByModel
    /\ out' = EndOfRun
    /\ pc' = "Cancelled"
    /\ UNCHANGED <<agentVars, queueVars, token, runVars, logVars, driveVars,
                   localVars, policyVars>>

Completed ==
    Stop(loop.reason) \notin {"Error", "Aborted"} /\ ~CancelledByModel

\* Tool calls are run after ToolUse, refused after Length, and an error else.
UseTools ==
    /\ Ready("response") /\ Completed /\ loop.calls # <<>>
    /\ loop.reason \in {"ToolUse", "Length"}
    /\ \E mode \in IF loop.reason = "Length" THEN {"truncated"}
                   ELSE {"sequential", "parallel"} :
         batch' = [NoBatch EXCEPT !.mode = mode, !.terminate = mode # "truncated"]
    /\ loop' = [loop EXCEPT !.completed = TRUE]
    /\ pc' = "tools"
    /\ UNCHANGED <<agentVars, queueVars, token, runVars, logVars, out, driveVars,
                   policyVars>>

UnexpectedCalls ==
    /\ Ready("response") /\ Completed /\ loop.calls # <<>>
    /\ loop.reason \notin {"ToolUse", "Length"}
    /\ Fail("stream")
    /\ UNCHANGED <<agentVars, queueVars, token, runVars, logVars, out, settling,
                   localVars, policyVars>>

NoTools ==
    /\ Ready("response") /\ Completed /\ loop.calls = <<>>
    /\ loop' = [loop EXCEPT !.completed = TRUE, !.more = FALSE]
    /\ out' = TurnEnd
    /\ pc' = "prepare"
    /\ UNCHANGED <<agentVars, queueVars, token, runVars, logVars, driveVars,
                   batch, policyVars>>

-----------------------------------------------------------------------------
(* A batch of tool calls.  Sequential and truncated batches handle one call *)
(* after the other; a parallel batch announces all calls, lets them end in  *)
(* any order, and answers them in source order once all have ended.         *)

OneByOne == batch.mode # "parallel"
Width == Len(loop.calls)

Announce ==
    LET i == batch.announced + 1
    IN /\ Ready("tools") /\ i <= Width /\ ~(OneByOne /\ batch.tripped)
       /\ OneByOne => batch.observed = batch.announced
       /\ batch' = [batch EXCEPT !.announced = i]
       /\ pendingTools' = pendingTools \cup {loop.calls[i]}
       /\ out' = <<Event("tool_execution_start", loop.calls[i])>>
       /\ UNCHANGED <<messages, nextId, isStreaming, queueVars, token, runVars,
                      logVars, pc, driveVars, loop, policyVars>>

\* Before a parallel batch runs, only the call being prepared can end.
EndTool(i) ==
    /\ Ready("tools") /\ i \notin batch.ended
    /\ batch.announced \in {i, Width}
    /\ batch' = [batch EXCEPT !.ended = @ \cup {i}]
    /\ pendingTools' = pendingTools \ {loop.calls[i]}
    /\ out' = <<Event("tool_execution_end", loop.calls[i])>>
    /\ UNCHANGED <<messages, nextId, isStreaming, queueVars, token, runVars,
                   logVars, pc, driveVars, loop, policyVars>>

Answer ==
    LET i == batch.answered + 1
    IN /\ Ready("tools") /\ batch.observed = batch.answered
       /\ i <= batch.announced /\ i \in batch.ended
       /\ OneByOne \/ batch.ended = 1 .. Width
       /\ messages' = Append(messages, ToolResult(nextId, loop.calls[i]))
       /\ nextId' = nextId + 1
       /\ \E terminate \in BOOLEAN :
            batch' = [batch EXCEPT !.answered = i,
                        !.terminate = @ /\ terminate]
       /\ out' = Published(nextId)
       /\ UNCHANGED <<pendingTools, isStreaming, queueVars, token, runVars,
                      logVars, pc, driveVars, loop, policyVars>>

\* observe_tool_failure: a fatal or repeated failure trips the breaker, unless
\* the run is cancelled; refused calls are not observed.
Observe ==
    /\ Ready("tools") /\ batch.observed < batch.answered
    /\ \E trips \in BOOLEAN :
         /\ trips => ~token /\ batch.mode # "truncated"
         /\ batch' = [batch EXCEPT !.observed = @ + 1, !.tripped = @ \/ trips]
    /\ UNCHANGED <<agentVars, queueVars, token, runVars, logVars, pc, out,
                   driveVars, loop, policyVars>>

\* append_skipped_sequential_calls
SkipCall ==
    LET i == batch.answered + 1
    IN /\ Ready("tools") /\ OneByOne /\ batch.tripped
       /\ batch.observed = batch.answered /\ i <= Width
       /\ messages' = Append(messages, ToolResult(nextId, loop.calls[i]))
       /\ nextId' = nextId + 1
       /\ batch' = [batch EXCEPT !.answered = i, !.observed = i]
       /\ out' = Published(nextId)
       /\ UNCHANGED <<pendingTools, isStreaming, queueVars, token, runVars,
                      logVars, pc, driveVars, loop, policyVars>>

\* Mutant: the batch is done when its calls are, answered or not.
BatchDone_Unanswered == Ready("tools") /\ batch.ended = 1 .. Width

BatchDone == Ready("tools") /\ batch.observed = Width

ToolsDone ==
    /\ BatchDone /\ ~batch.tripped
    /\ loop' = [loop EXCEPT !.more = ~batch.terminate]
    /\ out' = TurnEnd
    /\ pc' = "prepare"
    /\ UNCHANGED <<agentVars, queueVars, token, runVars, logVars, driveVars,
                   batch, policyVars>>

BreakerTripped ==
    /\ BatchDone /\ batch.tripped
    /\ out' = <<SkippedEvent("breaker")>> \o EndOfRun
    /\ pc' = "Failed"
    /\ UNCHANGED <<agentVars, queueVars, token, runVars, logVars, driveVars,
                   localVars, policyVars>>

-----------------------------------------------------------------------------
(* The turn boundary. *)

Succeed ==
    /\ out' = AgentEnd
    /\ pc' = "Succeeded"
    /\ UNCHANGED <<agentVars, queueVars, token, runVars, logVars, driveVars,
                   localVars, policyVars>>

\* prepare_next_turn and should_stop_after_turn
HookFails ==
    /\ Ready("prepare") /\ "hook" \in Faults
    /\ Fail("hook")
    /\ UNCHANGED <<agentVars, queueVars, token, runVars, logVars, out, settling,
                   localVars, policyVars>>

ShouldStop == Ready("prepare") /\ Succeed

GoOn ==
    /\ Ready("prepare")
    /\ pc' = "drain"
    /\ UNCHANGED <<agentVars, queueVars, token, runVars, logVars, out, driveVars,
                   localVars, policyVars>>

DrainSteering ==
    /\ Ready("drain")
    /\ loop' = [loop EXCEPT !.queued = Taken(steering, SteeringMode)]
    /\ steering' = Left(steering, SteeringMode)
    /\ pc' = IF loop.more \/ steering # <<>> THEN "next" ELSE "drain_follow_up"
    /\ UNCHANGED <<agentVars, followUp, offered, token, runVars, logVars, out,
                   driveVars, batch, policyVars>>

DrainFollowUp ==
    /\ Ready("drain_follow_up")
    /\ loop' = [loop EXCEPT !.queued = Taken(followUp, FollowUpMode)]
    /\ followUp' = Left(followUp, FollowUpMode)
    /\ pc' = "next"
    /\ UNCHANGED <<agentVars, steering, offered, token, runVars, logVars, out,
                   driveVars, batch, policyVars>>

GoesOn == loop.more \/ loop.queued # <<>>

AdvanceTurn ==
    /\ Ready("next") /\ GoesOn
    /\ turn' = turn + 1
    /\ out' = <<Event("turn_start", turn + 1)>>
    /\ pc' = "inject"
    /\ UNCHANGED <<scenario, agentVars, queueVars, token, runPhase, logVars,
                   driveVars, localVars, policyVars>>

LastTurn == Ready("next") /\ ~GoesOn /\ Succeed

-----------------------------------------------------------------------------
(* The error branch of drive. *)

Aborted(m) == m.role = "assistant" /\ m.stop = "Aborted"

\* Settle with a synthetic assistant message, or with none.
Settle(outcome, synthetic) ==
    /\ settling' = TRUE
    /\ pendingTools' = {}
    /\ messages' = messages \o synthetic
    /\ nextId' = nextId + Len(synthetic)
    /\ out' = (IF synthetic = <<>> THEN <<>> ELSE Published(nextId)) \o EndOfRun
    /\ pc' = outcome
    /\ UNCHANGED <<queueVars, token, runVars, logVars, error, localVars, policyVars>>

\* Mutant: only a failing provider is settled.
SettleFailure_ProviderOnly ==
    /\ Ready("errored") /\ ~token /\ error = "provider"
    /\ Settle("Failed", <<Assistant(nextId, "Error", <<>>)>>)
    /\ UNCHANGED isStreaming

SettleFailure ==
    /\ Ready("errored") /\ ~token /\ error # "compaction"
    /\ Settle("Failed", <<Assistant(nextId, "Error", <<>>)>>)
    /\ UNCHANGED isStreaming

SettleCancellation ==
    /\ Ready("errored") /\ token /\ ~policy.cancelled
    /\ Settle("Cancelled", IF Aborted(LastMessage) THEN <<>>
                           ELSE <<Assistant(nextId, "Aborted", <<>>)>>)
    /\ isStreaming' = FALSE

\* A compaction boundary leaves the transcript alone.
SettleCompactionFailure ==
    /\ Ready("errored") /\ ~token /\ error = "compaction"
    /\ Settle("Failed", <<>>)
    /\ isStreaming' = FALSE

SettleCompactionCancellation ==
    /\ Ready("errored") /\ token /\ policy.cancelled
    /\ Settle("Cancelled", <<>>)
    /\ isStreaming' = FALSE

-----------------------------------------------------------------------------
(* The host, while the run is driven. *)

driverVars == <<agentVars, runVars, logVars, pc, out, driveVars, localVars,
                policyVars>>

\* RunHandle::abort, and the first step of Agent::abort
Abort ==
    /\ "abort" \in HostCalls /\ ~token
    /\ runPhase = "Running"
    /\ token' = TRUE
    /\ UNCHANGED <<queueVars, driverVars>>

\* Agent::clear_all_queues, and the last step of Agent::abort
ClearQueues ==
    /\ "clear" \in HostCalls
    /\ <<steering, followUp>> # <<<<>>, <<>>>>
    /\ steering' = <<>> /\ followUp' = <<>>
    /\ UNCHANGED <<offered, token, driverVars>>

Steer ==
    /\ "steer" \in HostCalls /\ offered < MaxInput
    /\ offered' = offered + 1
    /\ steering' = Append(steering, offered + 1)
    /\ UNCHANGED <<followUp, token, driverVars>>

FollowUp ==
    /\ "follow_up" \in HostCalls /\ offered < MaxInput
    /\ offered' = offered + 1
    /\ followUp' = Append(followUp, MaxInput + offered + 1)
    /\ UNCHANGED <<steering, token, driverVars>>

-----------------------------------------------------------------------------
TurnLoop ==
    \/ Start \/ InitialDrain \/ Inject \/ Injected
    \/ BelowThreshold \/ AboveThreshold
    \/ CompactionLimit \/ StartCompaction \/ CompactionFails
    \/ CompactionCancelled \/ CommitReplacement
    \/ Request \/ TextDelta \/ StreamFails
    \/ \E reason \in Responses, n \in 0 .. MaxCalls : StreamEnds(reason, n)
    \/ RetryOverflow \/ ResponseFailed \/ ModelFailed \/ ResponseCancelled
    \/ UseTools \/ UnexpectedCalls \/ NoTools
    \/ Announce \/ \E i \in 1 .. batch.announced : EndTool(i)
    \/ Answer \/ Observe \/ SkipCall \/ ToolsDone \/ BreakerTripped
    \/ HookFails \/ ShouldStop \/ GoOn \/ DrainSteering \/ DrainFollowUp
    \/ AdvanceTurn \/ LastTurn

Drive ==
    \/ Emit \/ TurnLoop \/ Finish
    \/ SettleFailure \/ SettleCancellation
    \/ SettleCompactionFailure \/ SettleCompactionCancellation

Host == runPhase \notin Terminal /\ (Abort \/ ClearQueues \/ Steer \/ FollowUp)

Next == Drive \/ Host

Spec == Init /\ [][Next]_vars

\* The host polls the drive future; provider, tools and observers answer.
FairSpec == Spec /\ WF_vars(Drive)

-----------------------------------------------------------------------------
(* Properties. *)

\* The state space's shape, one line per variable.
TypeOK ==
    /\ messages \in Seq([role : {"user", "assistant", "tool_result", "summary"},
                         id : Nat \ {0}, stop : StopReasons \cup {"None"},
                         calls : Seq(Nat \X Nat), input : Nat])
    /\ nextId \in Nat \ {0}
    /\ pendingTools \subseteq Nat \X Nat
    /\ isStreaming \in BOOLEAN /\ token \in BOOLEAN /\ settling \in BOOLEAN
    /\ steering \in Seq(1 .. MaxInput)
    /\ followUp \in Seq(MaxInput + 1 .. 2 * MaxInput)
    /\ offered \in 0 .. MaxInput
    /\ runPhase \in {"Created", "Running"} \cup Terminal
    /\ turn \in Nat
    /\ reported \subseteq Nat
    /\ pc \in Labels
    /\ error \in {"none", "observer", "provider", "stream", "hook",
                  "cancelled", "compaction"}
    /\ batch.mode \in {"none", "sequential", "parallel", "truncated"}
    /\ batch.observed <= batch.answered /\ batch.ended \subseteq 1 .. batch.announced
    /\ policy.compactions <= MaxCompactions /\ policy.retries <= MaxOverflowRetries

\* Where nothing but the provider fails.
Orderly == Faults \subseteq {"provider"}
Contract == INSTANCE EventContract WITH events <- IF Orderly THEN events ELSE <<>>

\* Without failing observers, hooks and sources, a run delivers exactly the
\* event grammar observers are promised (event.rs, docs/semantics.md
\* "Event contract"), whatever the host, the provider and the tools do.
Promised == Contract!Spec

Log == events \o out
LoggedAt(kind) == {i \in DOMAIN Log : Log[i].kind = kind}
LoggedAbout(kind) == {Log[i].of : i \in LoggedAt(kind)}

Done == runPhase \in Terminal

\* Whatever fails, agent_end is the last event of a settled run: every path of
\* drive, with its four settlements, publishes it before finish.
EndsWithAgentEnd == Done => events[Len(events)].kind = "agent_end"

\* The provider is never asked with a tool call that has no result, and a run
\* that succeeds leaves none: the next compaction would reject it
\* (validate_messages).
AnsweredWhenAsked ==
    /\ pc = "streaming" => Compactable(SubSeq(messages, 1, loop.requestCount))
    /\ runPhase = "Succeeded" => Compactable(messages)

\* pending_tool_calls is the set of calls whose start was published and whose
\* end was not, so a snapshot agrees with the event stream.
ToolAccounting ==
    (runPhase = "Running" /\ pc # "errored" /\ ~settling) =>
        pendingTools = LoggedAbout("tool_execution_start")
                           \ LoggedAbout("tool_execution_end")

\* Messages of this run that are complete.
OfRun == {i \in DOMAIN messages :
            messages[i].id > Durable /\ messages[i].role # "summary"}
Complete(m) == m.role # "assistant" \/ m.stop # "None"
EndedAt(id) == {i \in LoggedAt("message_end") : Log[i].of = id}

\* Folding message_end events gives the transcript: each complete message of
\* the run ended once in the log, in transcript order, where nothing but the
\* provider fails.
TranscriptFollowsLog ==
    Orderly /\ pc \notin {"created", "errored"} =>
        \A i, j \in OfRun : Complete(messages[i]) /\ Complete(messages[j]) =>
            /\ Cardinality(EndedAt(messages[i].id)) = 1
            /\ i < j => \A k \in EndedAt(messages[i].id), l \in EndedAt(messages[j].id) :
                            k < l

\* Where an input is: how often it occurs in the queues, in the drained batch
\* and in the transcript.
Occurrences(x, s) == Cardinality({i \in DOMAIN s : s[i] = x})
Places(x) == Occurrences(x, steering) + Occurrences(x, followUp)
             + Occurrences(x, loop.queued)
             + Cardinality({i \in DOMAIN messages : messages[i].input = x})

\* A summary stands for what was in front of it.
Summarised == \E i \in DOMAIN messages : messages[i].role = "summary"

\* Every message the host enqueues is in exactly one place, or in none once the
\* host cleared the queues or a summary replaced it: it is injected once, never
\* lost between a drain and the transcript, and each queue is injected in order.
InputOnceInOrder ==
    /\ \A n \in 1 .. offered :
         LET places == Places(n) + Places(MaxInput + n)
         IN places = 1 \/ (places = 0 /\ ("clear" \in HostCalls \/ Summarised))
    /\ \A i, j \in DOMAIN messages :
         LET a == messages[i].input
             b == messages[j].input
         IN (i < j /\ a > 0 /\ b > 0 /\ (a > MaxInput <=> b > MaxInput)) => a < b

\* A compaction that does not commit loses nothing: the transcript it started
\* from is intact, followed at most by the message a settlement adds.
RefusedKeepsPrefix ==
    snapshot # <<>> =>
        /\ Len(messages) \in Len(snapshot) .. Len(snapshot) + 1
        /\ SubSeq(messages, 1, Len(snapshot)) = snapshot
        /\ Len(messages) > Len(snapshot) => settling

\* An incomplete continuation is retried at most once, and a run retries at
\* most MaxOverflowRetries of them.
OverflowStarts == {i \in LoggedAt("automatic_compaction_start") : Log[i].of = "overflow"}
RetriesAreBounded ==
    /\ Cardinality(OverflowStarts) <= MaxOverflowRetries
    /\ \A i, j \in OverflowStarts :
         i < j => \E k \in i .. j : Log[k].kind = "turn_start"

\* History is replaced whole or not at all, and not again and again.
CompactionIsSafe == RefusedKeepsPrefix /\ RetriesAreBounded

\* Log, transcript and pending calls tell one story to the end.
LogIsComplete == TypeOK /\ EndsWithAgentEnd /\ ToolAccounting /\ TranscriptFollowsLog

\* Every driven run settles.
RunSettles == <>Done
=============================================================================
